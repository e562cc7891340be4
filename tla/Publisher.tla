----------------------------- MODULE Publisher -----------------------------
(***************************************************************************)
(* pkg/publisher: the metrics helper publishes data points into a slice,   *)
(* and the monitor loop takes the slice and sends it in requests of at     *)
(* most maxDataPoints.  While a request is under way, with the retries of  *)
(* its client, the helper goes on publishing.                              *)
(*                                                                         *)
(* A slice is modelled by its length and its capacity, data points are     *)
(* counted.  Go lets a slice be extended up to its capacity, and panics    *)
(* beyond it; what lies between length and capacity is nil.                *)
(***************************************************************************)
EXTENDS Integers

CONSTANTS
  localMetricDataSize, maxDataPoints,
  Grown,           \* [capacity of a full slice -> that of what append makes of it]
  MaxPoints        \* bound: data points that one process publishes

ASSUME PublisherAssumption ==
  /\ localMetricDataSize \in Nat /\ maxDataPoints \in Nat \ {0} /\ MaxPoints \in Nat
  /\ Grown \in [0 .. MaxPoints -> Nat] /\ \A c \in DOMAIN Grown : Grown[c] > c

VARIABLES
  local,           \* localMetricData: [len, cap]
  monitor,         \* the monitor: "wait", "push", "stopped" or "panic"
  metricData,      \* what push has yet to send: [len, cap]
  cancelled,       \* is the context done?
  points,          \* data points that were published
  requested,       \* data points that requests were made for
  nils             \* nil pointers in the last request

publisherVars == <<local, monitor, metricData, cancelled, points, requested, nils>>

Slice == [len : Nat, cap : Nat]

PublisherTypeOK ==
  /\ local \in Slice /\ local.len <= local.cap
  /\ metricData \in Slice /\ metricData.len <= metricData.cap
  /\ monitor \in {"wait", "push", "stopped", "panic"}
  /\ cancelled \in BOOLEAN
  /\ points \in 0 .. MaxPoints /\ requested \in 0 .. MaxPoints
  /\ nils \in 0 .. maxDataPoints - 1

empty == [len |-> 0, cap |-> localMetricDataSize]

PublisherInit ==
  /\ local = empty /\ metricData = empty
  /\ monitor = "wait"
  /\ cancelled = FALSE
  /\ points = 0 /\ requested = 0 /\ nils = 0

-----------------------------------------------------------------------------

\* append of one element.
appended(s) == [len |-> s.len + 1, cap |-> IF s.len = s.cap THEN Grown[s.cap] ELSE s.cap]

\* The helper publishes its data points one by one, each under the lock.
Publish ==
  /\ monitor # "panic"
  /\ points < MaxPoints
  /\ points' = points + 1
  /\ local' = appended(local)
  /\ UNCHANGED <<monitor, metricData, cancelled, requested, nils>>

\* A slip: the slice is handed over and kept.
pushLocal_Keeps ==
  /\ monitor = "wait"
  /\ metricData' = local
  /\ monitor' = IF local.len = 0 THEN "wait" ELSE "push"
  /\ UNCHANGED <<local, cancelled, points, requested, nils>>

\* A slip: too few for a request are left to the next time.
pushLocal_FullOnly ==
  /\ monitor = "wait"
  /\ local.len >= maxDataPoints
  /\ metricData' = local
  /\ local' = empty
  /\ monitor' = "push"
  /\ UNCHANGED <<cancelled, points, requested, nils>>

\* The ticker: the slice is replaced under the lock and pushed without it.
pushLocal ==
  /\ monitor = "wait"
  /\ metricData' = local
  /\ local' = empty
  /\ monitor' = IF local.len = 0 THEN "wait" ELSE "push"
  /\ UNCHANGED <<cancelled, points, requested, nils>>

index(len) == IF maxDataPoints < len THEN maxDataPoints ELSE len

\* One turn of push's loop.  An error of send is logged, and its data points are gone.
push ==
  /\ monitor = "push"
  /\ IF maxDataPoints > metricData.cap
     THEN monitor' = "panic" /\ UNCHANGED <<metricData, requested, nils>>
     ELSE LET i == index(metricData.len)
          IN  /\ nils' = maxDataPoints - i
              /\ requested' = requested + i
              /\ metricData' = [len |-> metricData.len - i, cap |-> metricData.cap - i]
              /\ monitor' = IF metricData.len = i THEN "wait" ELSE "push"
  /\ UNCHANGED <<local, cancelled, points>>

Stop ==
  /\ ~cancelled
  /\ cancelled' = TRUE
  /\ UNCHANGED <<local, monitor, metricData, points, requested, nils>>

\* monitor returns, and sends nothing any more.
ctxDone ==
  /\ monitor = "wait" /\ cancelled
  /\ monitor' = "stopped"
  /\ UNCHANGED <<local, metricData, cancelled, points, requested, nils>>

-----------------------------------------------------------------------------
(* Properties *)

\* Each data point is in one place, and is put into one request, however the
\* helper's calls fall between the requests of a push.
SentOnce ==
  monitor # "panic" =>
    points = requested + local.len + (IF monitor = "push" THEN metricData.len ELSE 0)

\* What is published is sent, unless the publisher is stopped, panics or starts again.
PublishedIsSent ==
  \A n \in 1 .. MaxPoints :
    (points = n) ~> (requested >= n \/ points < n \/ cancelled \/ monitor = "panic")

\* "Publish publishes one or more metric data points" (publisher.go:55): however many
\* there are when the monitor comes to send them, it does not panic over them.
SendsAnyNumber == monitor # "panic"

=============================================================================
