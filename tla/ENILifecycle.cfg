\* An instance with two device numbers; one AllocENI or FreeENI after the other.
CONSTANTS
  ENI = {e0, e1, e2}
  NoENI = NoENI
  Primary = e0
  maxENIs = 2
  InstanceENILimit = 2
  maxENIDeleteRetries = 4
  DetachLag = 1
  Worlds <- MCWorlds
SPECIFICATION ENIFairSpec
INVARIANTS
  ENITypeOK
  PrimaryKept
  NoOrphan
  DiesWithInstance
PROPERTY
  CallsReturn
