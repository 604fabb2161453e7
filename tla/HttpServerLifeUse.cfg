SPECIFICATION LiveSpec
CONSTANTS
  c1 = c1
  c2 = c2
  c3 = c3
  r1 = r1
  p1 = p1
  Callers = {c1, c2, c3}
  Requests = {r1, p1}
  Probes = {p1}
  Drainers = {c1}
  NoOne = NoOne
  MaxOpens = 2
  MaxThrows = 1
  MayTimeout = TRUE
  OneAtStart = TRUE
PROPERTIES
  ClosedIsFinal
  CloseIsSynchronous
  DrainedIsServed
  CallsReturn
CHECK_DEADLOCK FALSE
