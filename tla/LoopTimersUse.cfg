SPECIFICATION TimersLiveSpec
CONSTANTS
  t1 = t1
  t2 = t2
  t3 = t3
  x1 = x1
  x2 = x2
  Timers = {t1, t2, t3}
  OneShots = {t3}
  Ext = {x1, x2}
  Loop = Loop
  Nobody = Nobody
  Uses = {"outside", "inside"}
INVARIANTS
  NoUseAfterFree
PROPERTIES
  RemovedIsOver
  TimerCallsReturn
CHECK_DEADLOCK FALSE
