SPECIFICATION LiveSpec
CONSTANTS
  c1 = c1
  c2 = c2
  c3 = c3
  Callers = {c1, c2, c3}
  LoopCallers <- OneLooper
  NoOne = NoOne
  MaxGen = 1
  OneShot = FALSE
  CanFail = FALSE
  InOrder = TRUE
INVARIANTS
  LoopedMeansOpen
PROPERTIES
  CallsReturn
CHECK_DEADLOCK FALSE
