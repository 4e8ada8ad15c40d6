SPECIFICATION Spec
CONSTANTS
  SelMax = 7
  MaxRows = 52
  MaxHeld = 1
  TypedIPv4s = {1}
  TypedPorts = {0, 21}
  WriteMayFail = FALSE
  NSystem = 1
  MaxTitles = 0
  MaxFound = 0
  MaxEntries = 1
INVARIANT SavedReachesServer
