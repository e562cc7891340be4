\* The default ENIConfig and another; the node, two changes of anything.
CONSTANTS
  Name = {default, a}
  eniConfigDefault = default
  ENISpec = {s1, s2}
  Node = {n1}
  myNodeName = n1
  None = None
  MaxChanges = 2
SPECIFICATION ENIConfigFairSpec
INVARIANTS
  CacheIsCurrent
PROPERTY
  NewENIsAsChosen
