CONSTANTS
  Node = {n1, n2, n3}
  Value = {a, b}
  ListHead = head
  Null = Null
SPECIFICATION UserSpec
INVARIANTS Linked CursorLive EachNodeOnce NoLeak PromiseKept
PROPERTIES CallsReturn PutTakeSteps
