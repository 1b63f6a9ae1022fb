CONSTANTS
  Callers = {c1, c2, c3, c4}
  Sync = {c1, c2}
  Keys = {k1, k2}
  None = None

SPECIFICATION LiveSpec

INVARIANTS
  TypeOK
  WaitersHaveLoaders

PROPERTIES
  ImplementsSingleFlight
  CallsEnd
