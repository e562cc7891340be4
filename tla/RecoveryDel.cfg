\* DEL of a pod that was recovered.
CONSTANTS
  Key = {k1, k2}
  CNIKey = {}
  Status <- PodStatus
  LocalStatus <- PodStatus
  NoPod = NoPod
  NoKey = NoKey
  MaxChanges = 0
  IP = {ip1, ip2}
  NoIP = NoIP
  maxK8SRetries = 2
  MaxRestarts = 1
  Lapses = {{}}
SPECIFICATION RecoverySpec
PROPERTY
  GonePodsReleased
