CONSTANTS
  None = None
  Producers = {p1, p2}
  Consumers = {c1}
  Size = 2
  BufSize = 1
  OutSize = 1
  MsgSizes = {1}
  EnqueueFn = "mp"
  DequeueFn = "sc"
  MaxMsgs = 3
  MaxTake = 7
  Queriers = {}
SPECIFICATION Spec
INVARIANTS CursorsInOrder
CHECK_DEADLOCK FALSE
