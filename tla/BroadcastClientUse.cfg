SPECIFICATION LiveSpec
CONSTANTS
  u1 = u1
  Loop = Loop
  Worker = Worker
  CallerSets <- OneCaller
  Patient = TRUE
  MaxConnects = 3
  MaxFails = 3
  MaxMessages = 2
INVARIANTS
  StoppedIsEmpty
PROPERTIES
  OneConnection
  DisconnectReturns
  Connects
CHECK_DEADLOCK FALSE
