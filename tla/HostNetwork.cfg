\* Every setting changes; any call of SetupHostNetwork fails, and those that change a
\* pod's rules, or not.
CONSTANTS
  v1 = v1
  v2 = v2
  x1 = x1
  m1 = m1
  m2 = m2
  CIDR = {v1, v2, x1}
  Invalid = Invalid
  Internet = Internet
  Env <- EnvAll
  InitialEnv <- First
  HasRandomFully = TRUE
  primaryIntf = "ens5"
  Mark = {m1, m2}
  defaultConnmark = m1
  Pod = {p1}
SPECIFICATION HostNetworkSpec
INVARIANTS
  HostNetworkTypeOK
  RulesAsConfigured
  SourceFitsENI
