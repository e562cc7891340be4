--------------------------- MODULE MCHostNetwork ---------------------------
(* A small instance of HostNetwork for TLC. *)
EXTENDS HostNetwork

CONSTANTS v1, v2, x1, m1, m2

Setting(vpc, exclude, external, random, nodePort, mark) ==
  [vpcCIDRs |-> vpc, EXCLUDE_SNAT_CIDRS |-> exclude, EXTERNALSNAT |-> external,
   RANDOMIZESNAT |-> random, NODE_PORT_SUPPORT |-> nodePort, CONNMARK |-> mark]

First == Setting(<<v1>>, <<x1>>, "", "", "true", m1)

\* A second CIDR is associated with the VPC and listed first; external SNAT; another
\* mark, or none that is valid; every switch.
EnvAll ==
  {First,
   Setting(<<v1, v2>>, <<Invalid>>, "T", "none", "1", m2),
   Setting(<<v2, v1>>, <<Invalid, x1>>, "no", "prng", "False", Invalid)}

=============================================================================
