CONSTANTS
  maxAttemptsLinkByMac = 2
  maxRetryRouteAdd = 1
  maxRetryCheckENI = 2
  MaxFailures = 4
SPECIFICATION ENINetworkFairSpec
INVARIANTS
  SetUpCompletely
PROPERTY
  SetupReturns
