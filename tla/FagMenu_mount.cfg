SPECIFICATION Spec
CONSTANTS
  SelMax = 7
  MaxRows = 52
  MaxHeld = 1
  TypedIPv4s = {1}
  TypedPorts = {21}
  WriteMayFail = FALSE
  NSystem = 1
  MaxTitles = 2
  MaxFound = 2
  MaxEntries = 5
INVARIANT MountsItsTitle
