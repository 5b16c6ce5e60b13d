SPECIFICATION Spec
CONSTANTS
  Caller = {c1, c2}
  Task = {t1, t2, t3, t4}
  NoTask = NoTask
  MaxThreads = 2
  MaxQueueSizes = {0, 1, 2}
CHECK_DEADLOCK FALSE
INVARIANTS
  OnePlace
  SignalsReach
PROPERTIES
  TasksRun
  StopReturns
