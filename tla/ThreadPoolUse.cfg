SPECIFICATION FairSpec
CONSTANTS
  Workers = {w1, w2}
  InitWorkers = {w1}
  Callers = {c1}
  Timer = Timer
  Tasks = {t1, t2}
  NoTask = NoTask
  Delays = {1}
  MaxTime = 1
INVARIANTS
  TasksAccounted
  NoLostWakeup
  DrainIsComplete
PROPERTIES
  EventuallyRuns
  WaitIdleReturns
CHECK_DEADLOCK FALSE
