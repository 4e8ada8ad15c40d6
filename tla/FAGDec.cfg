SPECIFICATION Spec
CONSTANTS
  NModules = 2
  NSegs = 2
  Encrypted <- MCEncrypted
  Faults = TRUE
INVARIANTS
  SegFilesClosed
  OneRequestAtATime
  
  
CHECK_DEADLOCK FALSE
