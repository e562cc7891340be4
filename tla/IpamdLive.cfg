\* Liveness with WARM_ENI_TARGET, when EC2 answers; others detach ENIs.
CONSTANTS
  e0 = e0 e1 = e1 q0 = q0 q1 = q1
  ENI = {e0, e1}
  PrimaryENI = e0
  IP = {q0, q1, ip1, ip2}
  PodKey = {p1}
  NoPodIP = NoPodIP
  AddressCoolingPeriod = 0
  AddressENICoolingPeriod = 1
  MinLifeTime = 1
  Forever = 2
  WarmIPTargets = {0}
  PodIPsShared = FALSE
  ENIIPsShared = FALSE
  Configs <- OnlyWarmENI
  useCustomNetworking = FALSE
  NodeIPPoolReconcileInterval = 1
  DecreaseIPPoolInterval = 0
  IPReconcileCooldown = 1
  PrimaryIP <- TwoENIs
  IMDSMaxLag = 1
  AddressesReused = TRUE
  EC2Fails = FALSE
  AttachTimesOut = FALSE
  NetworkFails = FALSE
  DetachedOutside = TRUE
SPECIFICATION IpamdFairSpec
PROPERTIES
  PoolRefilled
  Settles
  DetachedForgotten
