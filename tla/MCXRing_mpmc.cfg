CONSTANTS
  None = None
  Producers = {p1, p2}
  Consumers = {c1, c2}
  Size = 4
  BufSize = 1
  OutSize = 1
  MsgSizes = {1}
  EnqueueFn = "mp"
  DequeueFn = "mc"
  MaxMsgs = 3
  MaxTake = 6
  Queriers = {}
SPECIFICATION Spec
INVARIANTS FreshEntryExclusive FreshDeliveredOnce
SYMMETRY Symmetry
CHECK_DEADLOCK FALSE
