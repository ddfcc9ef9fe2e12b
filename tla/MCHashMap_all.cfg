CONSTANTS
  Key = {k1, k2, k3}
  Val = {v1, v2}
  Codes <- MCCodes
  Capacities = {1, 2, 3}
  MaxFail = 1
  Null = Null
SPECIFICATION Spec
INVARIANTS OneHome HeapBalanced
PROPERTY MapSteps
CHECK_DEADLOCK FALSE
