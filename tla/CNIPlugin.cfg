\* Two sandboxes, of one pod or of two, with every fault; three while addresses move.
CONSTANTS
  s1 = s1 s2 = s2 s3 = s3 a = a b = b
  IP = {ip1, ip2}
  PodKey = {s1, s2, s3}
  NoIP = NoIP
  NoSandbox = NoSandbox
  PodOf <- TwoPods
  Table = {0, 1}
  Dst = {c1}
  Conditions <- SmallNodes
SPECIFICATION PluginFairSpec
INVARIANTS
  PodWired
  LeavesByItsENI
  KernelMatchesPods
PROPERTY
  FailedAddGivesBack
