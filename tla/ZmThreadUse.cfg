SPECIFICATION ThreadSpec
CONSTANTS
  c1 = c1
  c2 = c2
  Callers = {c1, c2}
  NoOne = NoOne
  MaxGen = 3
  OneShot = TRUE
  CanFail = TRUE
PROPERTIES
  StopIsSynchronous
CHECK_DEADLOCK FALSE
