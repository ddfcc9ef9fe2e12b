CONSTANTS
  None = None
  Workers = {w1, w2}
  Clients = {c1, c2}
  QueueMax = 2
  MaxTasks = 2
  MaxFail = 1
  MaxSpurious = 1
  MayDestroy = FALSE
SPECIFICATION Spec
INVARIANTS NotEmptyMeansTask
CHECK_DEADLOCK FALSE
