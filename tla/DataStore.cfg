\* Three ENIs, one of them primary, three addresses, two pods.  The periods keep the
\* order of the code: addressCoolingPeriod < addressENICoolingPeriod = minLifeTime.
CONSTANTS
  ENI = {e0, e1, e2}
  PrimaryENI = e0
  IP = {ip1, ip2, ip3}
  PodKey = {p1, p2}
  NoPodIP = NoPodIP
  AddressCoolingPeriod = 0
  AddressENICoolingPeriod = 2
  MinLifeTime = 2
  Forever = 2
  WarmIPTargets = {0, 1, 2}
  PodIPsShared = FALSE
  ENIIPsShared = FALSE
SPECIFICATION Spec
SYMMETRY Symmetry
INVARIANTS
  Accounting
  PodsHoldAssigned
  OneHolder
  NoAddressLeaked
  RefusedOnlyWhenEmpty
  DeletableIsIdle
  WarmIPTargetKept
PROPERTY
  KeepsLeaseContract
