---------------------------- MODULE MCDataStore ----------------------------
(* Small instances of DataStore for TLC. *)
EXTENDS DataStore, TLC

Symmetry == Permutations(IP) \cup Permutations(PodKey)
              \cup Permutations(ENI \ {PrimaryENI})

=============================================================================
