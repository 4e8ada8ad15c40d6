SPECIFICATION FairSpec
CONSTANTS
  Callers = {app}
  IPv4s = {1, 2}
  Ports = {0, 1}
INVARIANTS
  CallbacksNeedRing
  
PROPERTY UpdateTakesEffectWhenQuiet
