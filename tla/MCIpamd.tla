------------------------------ MODULE MCIpamd ------------------------------
(* Small instances of Ipamd for TLC. *)
EXTENDS Ipamd, TLC

CONSTANTS e0, e1, q0, q1

TwoENIs  == [e \in {e0, e1} |-> IF e = e0 THEN q0 ELSE q1]

\* The defaults; WARM_IP_TARGET=1 on an instance with a single ENI.
WarmENI == [InstanceENILimit |-> 2, maxIPsPerENI |-> 1,
            MAX_ENI |-> -1, WARM_ENI_TARGET |-> -1, WARM_IP_TARGET |-> -1]
WarmIP  == [InstanceENILimit |-> 1, maxIPsPerENI |-> 2,
            MAX_ENI |-> 2, WARM_ENI_TARGET |-> 1, WARM_IP_TARGET |-> 1]

OnlyWarmENI == {WarmENI}
AllConfigs  == {WarmENI, WarmIP}

Symmetry == Permutations(Secondary) \cup Permutations(PodKey)

=============================================================================
