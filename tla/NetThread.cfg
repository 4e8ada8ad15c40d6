SPECIFICATION FairSpec
CONSTANTS
  RingCap = 3
  BufLen = 2
  Banner = 1
  MaxLog = 6
INVARIANTS
  BytesAccountedFor
  SendsInOrder
  RepeatsOnlyFailedChunks
  ClobberedNeverSent
  SocketsBalanced
PROPERTY EveryByteLeaves
CHECK_DEADLOCK FALSE
