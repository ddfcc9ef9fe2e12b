CONSTANTS
  Process = {p1, p2}
  Name = {a, b}
  Depth = 2
  Logger = {t1, t2}
  Callback = {f}
  NULL = NULL
  MaxSettings = 2
  MaxCalls = 2
  Datagrams <- MCDatagrams
  MaxDatagrams = 3
  MaxHex = 2
  MaxParts = 5
  Base = 8
  IntBits = 5
  LongBits = 7
SPECIFICATION UtilitiesSpec
INVARIANTS PathMade LostRaceGrows MessageJudged FilteredExactly
INVARIANTS HexRoundTrip AddressesRecognised AdditionModulo SizeCovers
SYMMETRY Symmetry
CHECK_DEADLOCK FALSE
