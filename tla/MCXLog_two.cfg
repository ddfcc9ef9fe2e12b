CONSTANTS
  Writers = {a, b}
  MaxCalls = 2
  RingRoom = 1
  Levels <- MCLevels
  IntMax = 7
  Garbage = {0, 9}
  None = None
SPECIFICATION Spec
INVARIANT InOrder
PROPERTY EverythingLogged
CHECK_DEADLOCK FALSE
