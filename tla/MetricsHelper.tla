--------------------------- MODULE MetricsHelper ---------------------------
(***************************************************************************)
(* cni-metrics-helper: every poll reads the metrics of each aws-node pod,  *)
(* aggregates them and publishes the aggregates.  A counter is published   *)
(* as its increase since the last poll, a gauge as the sum over the pods,  *)
(* a summary as the maximum.                                               *)
(*                                                                         *)
(* One metric of each type is modelled; the others are kept and handled    *)
(* in the same way, and none of InterestingCNIMetrics is a histogram.      *)
(* Agents work and restart while they are polled.                          *)
(***************************************************************************)
EXTENDS Integers, FiniteSets, FiniteSetsExt, Functions

CONSTANTS
  Target,          \* aws-node pods
  Clusters,        \* clusters that the helper may run in: their pods, and the cloudwatch flag
  MaxEvents,       \* bound: what the agents count
  MaxLevel,        \* bound: their gauge, and the p99 of their summary
  MaxRestarts      \* bound: restarts of agents

ASSUME MetricsAssumption ==
  /\ IsFiniteSet(Target) /\ Clusters \subseteq [pods : SUBSET Target, submitCW : BOOLEAN]
  /\ {MaxEvents, MaxLevel, MaxRestarts} \subseteq Nat

VARIABLES
  cluster,         \* this one; it does not change
  counter,         \* [Target -> Nat]: the agents' counters
  level,           \* [Target -> 0 .. MaxLevel]: their gauges and summaries
  events,          \* what all agents have counted, before restarts too
  restarts,
  pc,              \* "idle", "poll" or "produce"
  targetList,      \* the pods of this poll
  toGrab,          \* those that have not been read
  families,        \* the metrics of the pod that was read last; those yet to be published
  curSingleDataPoint,     \* [{"counter", "gauge", "summary"} -> Nat]
  lastSingleDataPoint,    \* of the counter; the others stay 0
  resetDetected,
  grabbed,         \* [pods read -> level]
  published,       \* the data points of this poll, or of the last: [metrics -> values]
  total            \* sum of this process's data points of the counter, up to MaxEvents + 1

agentVars   == <<counter, level, events, restarts>>
pollVars    == <<pc, targetList, toGrab, families, curSingleDataPoint, lastSingleDataPoint,
                 resetDetected, grabbed>>
metricsVars == <<agentVars, pollVars, published, total>>

Metric  == {"counter", "gauge", "summary"}
Nothing == [m \in {} |-> 0]

MetricsTypeOK ==
  /\ counter \in [Target -> 0 .. MaxEvents] /\ level \in [Target -> 0 .. MaxLevel]
  /\ events \in 0 .. MaxEvents /\ restarts \in 0 .. MaxRestarts
  /\ pc \in {"idle", "poll", "produce"}
  /\ toGrab \subseteq targetList /\ targetList \subseteq Target
  /\ families \subseteq Metric
  /\ curSingleDataPoint \in [Metric -> Nat]
  /\ lastSingleDataPoint \in Nat
  /\ resetDetected \in BOOLEAN
  /\ DOMAIN grabbed \subseteq targetList
  /\ DOMAIN published \subseteq Metric
  /\ total \in 0 .. MaxEvents + 1

MetricsInit ==
  /\ cluster \in Clusters
  /\ counter = [t \in Target |-> 0] /\ level = [t \in Target |-> 0]
  /\ events = 0 /\ restarts = 0
  /\ pc = "idle" /\ targetList = {} /\ toGrab = {} /\ families = {}
  /\ curSingleDataPoint = [m \in Metric |-> 0] /\ lastSingleDataPoint = 0
  /\ resetDetected = FALSE /\ grabbed = Nothing
  /\ published = Nothing /\ total = 0

-----------------------------------------------------------------------------
(* The agents *)

work(t) ==
  /\ events < MaxEvents
  /\ events' = events + 1
  /\ counter' = [counter EXCEPT ![t] = @ + 1]
  /\ \E v \in 0 .. MaxLevel : level' = [level EXCEPT ![t] = v]
  /\ UNCHANGED <<restarts, pollVars, published, total>>

restartAgent(t) ==
  /\ restarts < MaxRestarts
  /\ restarts' = restarts + 1
  /\ counter' = [counter EXCEPT ![t] = 0]
  /\ level' = [level EXCEPT ![t] = 0]
  /\ UNCHANGED <<events, pollVars, published, total>>

-----------------------------------------------------------------------------
(* metricsListGrabAggregateConvert *)

\* A slip: the data points of the last poll are not reset.
resetMetrics_Keeps == curSingleDataPoint
resetMetrics       == [m \in Metric |-> 0]

\* The discovery may lag behind: any of the pods.
getTargetList ==
  /\ pc = "idle"
  /\ \E S \in SUBSET cluster.pods : targetList' = S /\ toGrab' = S
  /\ pc' = "poll"
  /\ families' = {} /\ resetDetected' = FALSE /\ grabbed' = Nothing
  /\ curSingleDataPoint' = resetMetrics
  /\ UNCHANGED <<agentVars, lastSingleDataPoint, published, total>>

\* It "may take times to remove some metric targets": the next one.
grabFails(t) ==
  /\ pc = "poll" /\ t \in toGrab
  /\ toGrab' = toGrab \ {t}
  /\ UNCHANGED <<agentVars, pc, targetList, families, curSingleDataPoint, lastSingleDataPoint,
                 resetDetected, grabbed, published, total>>

\* What cannot be parsed ends the poll, and nothing is published.
parseFails(t) ==
  /\ pc = "poll" /\ t \in toGrab
  /\ pc' = "idle" /\ toGrab' = {} /\ families' = {} /\ resetDetected' = TRUE
  /\ published' = Nothing
  /\ UNCHANGED <<agentVars, targetList, curSingleDataPoint, lastSingleDataPoint, grabbed, total>>

\* The metrics a pod shows: a counter with labels only once it has counted.
filterMetrics(t) == IF counter[t] = 0 THEN {Metric, Metric \ {"counter"}} ELSE {Metric}

\* processCounter, processGauge (metricsAdd) and processPercentile (metricsMax).
process(m, t) ==
  LET cur == curSingleDataPoint[m]
  IN  CASE m = "counter" -> cur + counter[t]
        [] m = "gauge"   -> cur + level[t]
        [] m = "summary" -> IF cur < level[t] THEN level[t] ELSE cur

\* A slip: what was counted before an agent's restart is subtracted all the same.
postProcessingCounter_NoReset(current, last) ==
  [increase |-> current - last, last |-> current, reset |-> current < last]

\* A slip: an equal data point is taken for a restart as well.
postProcessingCounter_Equal(current, last) ==
  LET increase == IF current <= last THEN current ELSE current - last
  IN  [increase |-> increase,
       last     |-> current,
       reset    |-> current <= last \/ (last = 0 /\ increase # 0)]

\* The increase against the last data point, unless that is larger.
postProcessingCounter(current, last) ==
  LET increase == IF current < last THEN current ELSE current - last
  IN  [increase |-> increase,
       last     |-> current,
       reset    |-> current < last \/ (last = 0 /\ increase # 0)]

\* processMetric for each metric of the pod, the post-processing included.
grab(t) ==
  /\ pc = "poll" /\ t \in toGrab
  /\ toGrab' = toGrab \ {t}
  /\ grabbed' = [u \in DOMAIN grabbed \cup {t} |-> IF u = t THEN level[t] ELSE grabbed[u]]
  /\ \E fs \in filterMetrics(t) :
       LET c == postProcessingCounter(process("counter", t), lastSingleDataPoint)
       IN  /\ families' = fs
           /\ curSingleDataPoint' =
                [m \in Metric |-> IF m \notin fs THEN curSingleDataPoint[m]
                                  ELSE IF m = "counter" THEN c.increase ELSE process(m, t)]
           /\ IF "counter" \in fs
              THEN /\ lastSingleDataPoint' = c.last
                   /\ resetDetected' = (resetDetected \/ c.reset)
              ELSE UNCHANGED <<lastSingleDataPoint, resetDetected>>
  /\ UNCHANGED <<agentVars, pc, targetList, published, total>>

\* All pods have been read.
aggregated ==
  /\ pc = "poll" /\ toGrab = {}
  /\ pc' = "produce"
  /\ resetDetected' = (resetDetected /\ Cardinality(targetList) <= 1)
  /\ published' = Nothing
  /\ UNCHANGED <<agentVars, targetList, toGrab, families, curSingleDataPoint, lastSingleDataPoint,
                 grabbed, total>>

\* produceCloudWatchMetrics, one data point; also after a reset.
produceCloudWatchMetrics(m) ==
  /\ pc = "produce" /\ m \in families
  /\ families' = families \ {m}
  /\ published' = [l \in DOMAIN published \cup {m} |-> curSingleDataPoint[l]]
  /\ total' = IF m = "counter" THEN Min({total + curSingleDataPoint[m], MaxEvents + 1}) ELSE total
  /\ UNCHANGED <<agentVars, pc, targetList, toGrab, curSingleDataPoint, lastSingleDataPoint,
                 resetDetected, grabbed>>

HandlerReturns ==
  /\ pc = "produce" /\ families = {}
  /\ pc' = "idle"
  /\ UNCHANGED <<agentVars, targetList, toGrab, families, curSingleDataPoint, lastSingleDataPoint,
                 resetDetected, grabbed, published, total>>

metricsListGrabAggregateConvert ==
  getTargetList \/ aggregated \/ \E t \in cluster.pods : grabFails(t) \/ parseFails(t) \/ grab(t)

\* The helper is started anew, and starts from lastSingleDataPoint 0.
restartHelper ==
  /\ pc' = "idle" /\ targetList' = {} /\ toGrab' = {} /\ families' = {}
  /\ curSingleDataPoint' = [m \in Metric |-> 0] /\ lastSingleDataPoint' = 0
  /\ resetDetected' = FALSE /\ grabbed' = Nothing /\ published' = Nothing
  /\ total' = 0
  /\ UNCHANGED agentVars

agents == \E t \in cluster.pods : work(t) \/ restartAgent(t)

-----------------------------------------------------------------------------
(* Properties *)

\* A poll publishes the sum and the maximum of what the pods it could read showed,
\* whatever the polls before it left and whichever pods could not be read.
GaugesAggregated ==
  pc = "idle" /\ "gauge" \in DOMAIN published =>
    /\ published["gauge"] = FoldFunction(+, 0, grabbed)
    /\ published["summary"] = Max(Range(grabbed))

\* With one pod, what one process of the helper publishes of a counter never adds up to
\* more than was counted, over restarts of the agent and polls that fail, and to all that
\* was read if the agent does not restart.  Over processes it is not so: a new one has no
\* lastSingleDataPoint, and its first poll, which Handler publishes although it says that
\* it is skipped (FirstPollSkipped), counts again all that its predecessors published.
CountedOncePerProcess ==
  Cardinality(cluster.pods) = 1 =>
    total <= events /\ (pc = "idle" /\ restarts = 0 => total = lastSingleDataPoint)

\* "Only do delta if metric target did NOT restart" (metrics.go:170): of pods that never
\* restart only what they have counted is published.
PublishesIncrease == restarts = 0 => total <= events

\* "Skipping 1st poll after reset" (metrics.go:450), which Handler logs.
FirstPollSkipped == pc = "idle" /\ resetDetected => published = Nothing

=============================================================================
