SPECIFICATION LiveSpec
CONSTANTS
  o1 = o1
  s1 = s1
  c1 = c1
  Everyone = Everyone
  Owners = {o1}
  Senders = {s1}
  Clients = {c1}
  MaxConnections = 1
  Patient = TRUE
  Joined = TRUE
  Delays = TRUE
  NewFails = TRUE
  LoopIsSlow = FALSE
  MaxStarts = 2
  MaxSends = 2
  MaxBindFailures = 1
  MaxQueued = 2
INVARIANTS
  StoppedIsEmpty
  SendsInOrder
PROPERTIES
  SendsRun
  StartAndStopEnd
CHECK_DEADLOCK FALSE
