------------------------------ MODULE Metrics ------------------------------
(***************************************************************************)
(* The process of cni-metrics-helper: the loop of main that calls Handler, *)
(* and the publisher's monitor, a goroutine that sends what Handler        *)
(* published.  A panic of the monitor ends both.                           *)
(***************************************************************************)
EXTENDS MetricsHelper, Publisher

processVars == <<metricsVars, publisherVars>>

Init == MetricsInit /\ PublisherInit

\* Handler; each data point is handed to Publish, if they are to be submitted.
Handler ==
  /\ monitor # "panic"
  /\ \/ (metricsListGrabAggregateConvert \/ HandlerReturns) /\ UNCHANGED publisherVars
     \/ /\ \E m \in Metric : produceCloudWatchMetrics(m)
        /\ IF cluster.submitCW THEN Publish ELSE UNCHANGED publisherVars

\* The publisher's goroutine, if there is a publisher.
Monitor ==
  /\ cluster.submitCW
  /\ pushLocal \/ push \/ ctxDone \/ Stop
  /\ UNCHANGED metricsVars

\* The process ends, by the panic or otherwise, and with it what it has not sent.
restartProcess ==
  /\ restartHelper
  /\ local' = empty /\ metricData' = empty
  /\ monitor' = "wait"
  /\ cancelled' = FALSE
  /\ points' = 0 /\ requested' = 0 /\ nils' = 0

Next == Handler \/ Monitor \/ restartProcess \/ (agents /\ UNCHANGED publisherVars)

Spec == Init /\ [][Next /\ UNCHANGED cluster]_<<processVars, cluster>>

\* The ticker ticks, and PutMetricData returns: its retries are bounded.
FairSpec ==
  /\ Spec
  /\ WF_processVars(cluster.submitCW /\ pushLocal /\ UNCHANGED metricsVars)
  /\ WF_processVars(cluster.submitCW /\ push /\ UNCHANGED metricsVars)

\* The state of the helper and of its publisher keeps its types: no data point is
\* negative, no slice is longer than its capacity.
ProcessTypeOK == MetricsTypeOK /\ PublisherTypeOK

=============================================================================
