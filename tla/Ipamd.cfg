\* Nodes with WARM_ENI_TARGET and two ENIs that come and go, and nodes with
\* WARM_IP_TARGET and one ENI; every call may fail.
CONSTANTS
  e0 = e0 e1 = e1 q0 = q0 q1 = q1
  ENI = {e0, e1}
  PrimaryENI = e0
  IP = {q0, q1, ip1, ip2}
  PodKey = {p1, p2}
  NoPodIP = NoPodIP
  AddressCoolingPeriod = 0
  AddressENICoolingPeriod = 1
  MinLifeTime = 1
  Forever = 2
  WarmIPTargets = {0, 1}
  PodIPsShared = FALSE
  ENIIPsShared = FALSE
  Configs <- AllConfigs
  useCustomNetworking = FALSE
  NodeIPPoolReconcileInterval = 1
  DecreaseIPPoolInterval = 0
  IPReconcileCooldown = 1
  PrimaryIP <- TwoENIs
  IMDSMaxLag = 2
  AddressesReused = FALSE
  EC2Fails = TRUE
  AttachTimesOut = TRUE
  NetworkFails = TRUE
  DetachedOutside = FALSE
SPECIFICATION IpamdSpec
SYMMETRY Symmetry
INVARIANTS
  IpamdTypeOK
  PoolOnlyFromEC2
PROPERTY
  UsesStoreAsProved
