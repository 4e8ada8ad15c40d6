SPECIFICATION Spec
CONSTANTS
  SelMax = 20
  MaxRows = 10
  MaxHeld = 2
  TypedIPv4s = {1}
  TypedPorts = {0, 21, 65536, 65557}
  WriteMayFail = TRUE
  NSystem = 1
  MaxTitles = 1
  MaxFound = 2
  MaxEntries = 5
INVARIANTS
  SelectionInBounds 
  MagicSurvives RepairedOnLaunch
   
PROPERTIES
   MovesInOrder UpdateStandsForReboot
