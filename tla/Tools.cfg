SPECIFICATION Spec
CONSTANTS
  Printers = {p1}
  NetThd = net
  BUF_SIZE = 3
  PrintLen = {1, 2}
  MaxPrints = 3
  LitBits = 1
  LenClasses = 1
  ShortSlots = 1
  LongSlots = 2
  StreamBits = 12
  InSize = 1
  MaxLen = 8
  MaxStored = 3
  N = 4
  Halves = {61441, 62149, 63488, 65535, 2578, 57344}
  TextAddr <- MCTextAddr
  DataAddr <- MCDataAddr
  MemSize = 4
  Offsets = {0, 4, 64}
  Addends <- MCAddends
  Words = {0, 65535}
  RelocSizes = {16}
  NSegs = 2
  MaxSeg = 2
  MaxPlace = 5
  MaxEvents = 10
INVARIANTS
  OverflowNeedsTwoPrinters DecodedInPlace EveryBranchOnce PatchReachesTarget
  InjectedComesOut TreeOrProblem
PROPERTY
  PrintedLeaves
CHECK_DEADLOCK FALSE
