CONSTANTS
  local = local
  mini = mini
  turbo = turbo
  pA = pA
  pB = pB
  Requests = {r1, r2}
  Providers = {pA, pB}
  Models <- MCModels
  ProviderOf <- MCProviderOf
  DefaultChain <- MCChain
  Primaries <- MCPrimaries
  Overrides <- MCOverrides
  MaxRetries = 0
  FailureThreshold = 1
  RecoveryTimeout = 1

SPECIFICATION LiveSpec

PROPERTY
  OpenProviderIsRetried
