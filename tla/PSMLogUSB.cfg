SPECIFICATION FairSpec
CONSTANT
  RingChunks = 2
INVARIANTS
  
  StoppedMeansClosed
PROPERTIES
  LogResumes
  MountReturns
  StopReturns
CHECK_DEADLOCK FALSE
