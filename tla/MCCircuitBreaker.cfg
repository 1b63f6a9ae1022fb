CONSTANTS
  Callers = {c1, c2, c3}
  FailureThreshold <- MCFailureThreshold
  RecoveryTimeout  <- MCRecoveryTimeout

SPECIFICATION LiveSpec

INVARIANTS
  TypeOK
  ClosedBelowThreshold

PROPERTIES
  OpenShedsLoad
  FailedProbeReopens
  OpenIsLeft
  HalfOpenResolves
