CONSTANTS
  Requests = {r1, r2, r3}
  MarkTTL <- MCMarkTTL
  Nobody = Nobody

SPECIFICATION Spec
CHECK_DEADLOCK FALSE

INVARIANTS
  TypeOK
  OneAtATimeUnlessExposed
  OnlyRacersOverwrite

PROPERTIES
  RetriesAreRefused
