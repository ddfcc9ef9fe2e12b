CONSTANTS
  None = None
  Producers = {p1, p2}
  Consumers = {c1}
  Size = 4
  BufSize = 1
  OutSize = 1
  MsgSizes = {1}
  EnqueueFn = "mp"
  DequeueFn = "sc"
  MaxMsgs = 4
  MaxTake = 9
  Queriers = {}
SPECIFICATION FairSpec
INVARIANTS FreshCursorsInOrder
PROPERTIES EverythingArrives QueueSteps
CHECK_DEADLOCK FALSE
