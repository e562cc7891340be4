\* Two pods that share one address, one restart at any time; nothing goes wrong, or all.
CONSTANTS
  Key = {k1, k2}
  CNIKey = {}
  Status <- PodStatus
  LocalStatus <- PodStatus
  NoPod = NoPod
  NoKey = NoKey
  MaxChanges = 0
  IP = {ip1}
  NoIP = NoIP
  maxK8SRetries = 2
  MaxRestarts = 1
  Lapses = {{}, {"rules", "status", "worker"}}
SPECIFICATION RecoveryFairSpec
INVARIANTS
  PoolIsAvailable
  OneAddressOnePod
PROPERTY
  EventuallyServes
