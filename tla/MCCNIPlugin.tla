---------------------------- MODULE MCCNIPlugin ----------------------------
(* A small instance of CNIPlugin for TLC. *)
EXTENDS CNIPlugin

CONSTANTS s1, s2, s3, a, b

\* Two sandboxes of pod a, one of pod b.
TwoPods == [s \in {s1, s2, s3} |-> IF s = s3 THEN b ELSE a]

\* Everything fails, for one pod and for two; addresses move.
Failures  == {"kernel", "process", "RPC"}
SmallNodes ==
  [faults : {Failures}, sandboxes : {{s1, s2}}, EXTERNALSNAT : {"true", "false"}]
    \cup [faults : {Failures}, sandboxes : {{s1, s3}}, EXTERNALSNAT : {"false"}]
    \cup [faults : {{"moves"}}, sandboxes : {{s1, s2, s3}}, EXTERNALSNAT : {"false"}]

=============================================================================
