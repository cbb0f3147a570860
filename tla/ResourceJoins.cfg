CONSTANTS
  a = a
  b = b
  c = c
  t1 = t1
  t2 = t2
  none = none
  Scopes = {a, b, c}
  Threads = {t1, t2}
  NoScope = none
  Lookups = TRUE
SPECIFICATION FairSpec
INVARIANTS
  CyclesAreBeingSevered
  OnlyRacesAreSevered
PROPERTIES
  CallsReturn
