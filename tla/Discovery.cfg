\* A pod's name and a CNI pod's, on this node or elsewhere, three changes.
CONSTANTS
  Key = {k1, c1}
  CNIKey = {c1}
  Status = {v1, v2, e1}
  LocalStatus = {v1, v2}
  NoPod = NoPod
  NoKey = NoKey
  MaxChanges = 3
SPECIFICATION DiscoveryFairSpec
INVARIANTS
  NoUpdateLost
PROPERTY
  WorkerPodsConverge
CHECK_DEADLOCK FALSE
