CONSTANTS
  None = None
  Producers = {p1}
  Consumers = {c1}
  Size = 4
  BufSize = 1
  OutSize = 1
  MsgSizes = {1, 2}
  EnqueueFn = "sp"
  DequeueFn = "sc"
  MaxMsgs = 7
  MaxTake = 8
  Queriers = {p1, c1}
SPECIFICATION Spec
INVARIANTS TypeOK CopyOutFits SuccessMeansEnqueued AnswersHold
