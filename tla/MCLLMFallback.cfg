CONSTANTS
  local = local
  mini = mini
  turbo = turbo
  pA = pA
  pB = pB
  Requests = {r1, r2}
  Providers = {pA, pB}
  Models <- MCModels
  ProviderOf <- MCProviderOf
  DefaultChain <- MCChain
  Primaries <- MCPrimaries
  Overrides <- MCOverrides
  MaxRetries = 1
  FailureThreshold = 2
  RecoveryTimeout = 1

SPECIFICATION LiveSpec

INVARIANTS
  TypeOK
  FailsOnlyWhenExhausted
  TripsAreEarned
  SoloOverrideIsUndone

PROPERTIES
  OpenProvidersAreSkipped
  RequestsEnd
