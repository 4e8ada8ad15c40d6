SPECIFICATION MCSpec
CONSTANTS
  Writers = {w1}
  Readers = {r1}
  NoThread = NoThread
  Byte = {0, 1}
  BufLen = 4
  Base = 8
  MaxSize = 2
  HalfLen = 8
  HalfBase = 12
  HalfMaxSize = 1
INVARIANTS
  FlagTracksContents
  NoLostWakeup
  KernelObjectsBalanced
PROPERTIES
  ImplementsFifo
  CallsReturn
