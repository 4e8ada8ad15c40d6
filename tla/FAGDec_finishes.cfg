SPECIFICATION FairSpec
CONSTANTS
  NModules = 2
  NSegs = 2
  Encrypted <- MCEncrypted
  Faults = FALSE
PROPERTY DumpFinishes
CHECK_DEADLOCK FALSE
