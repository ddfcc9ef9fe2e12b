CONSTANTS
  None = None
  Workers = {w1, w2}
  Clients = {c1, c2}
  QueueMax = 2
  MaxTasks = 3
  MaxFail = 1
  MaxSpurious = 1
  MayDestroy = TRUE
SPECIFICATION FairSpec
INVARIANTS ExactlyOnce NoIdleWorker BlockedOnlyWhenFull
PROPERTIES EverythingRuns QueueSteps
CHECK_DEADLOCK FALSE
