----------------------------- MODULE MCMetrics -----------------------------
(* A small instance of Metrics for TLC. *)
EXTENDS Metrics

CONSTANTS t1, t2

\* Two nodes whose metrics are only logged, one whose metrics are submitted.
MCClusters == {[pods |-> {t1, t2}, submitCW |-> FALSE], [pods |-> {t1}, submitCW |-> TRUE]}

\* Scaled down: the first capacity is a multiple of maxDataPoints and the second is
\* not, as for 100 and the 224 that append makes of it.
GrownSmall == [c \in 0 .. MaxPoints |-> 2 * c + 1]

=============================================================================
