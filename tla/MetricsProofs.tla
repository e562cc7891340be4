--------------------------- MODULE MetricsProofs ---------------------------
(***************************************************************************)
(* What cni-metrics-helper publishes and sends, for every cluster, every   *)
(* size of slice and request, and however append grows a slice.            *)
(*                                                                         *)
(* The publisher and the poll share no variable, so each has inductive     *)
(* invariants of its own: PublisherInv counts the data points of the       *)
(* slices, CountInv follows one agent's counter over the poll to what is   *)
(* published, GaugeInv says what of the poll's pods its data points hold.  *)
(***************************************************************************)
EXTENDS Metrics, FiniteSetTheorems, TLAPS

-----------------------------------------------------------------------------
(* The publisher *)

\* Only published data points are in the slices, so that append need only grow
\* slices shorter than MaxPoints; push is left when nothing is left to send.
PublisherInv ==
  /\ PublisherTypeOK
  /\ SentOnce
  /\ local.len <= points
  /\ monitor = "push" => metricData.len > 0

\* A request takes at least one data point and at most those there are.
LEMMA IndexBound ==
  ASSUME NEW len \in Nat, len > 0
  PROVE  index(len) \in 1 .. maxDataPoints /\ index(len) <= len
  BY PublisherAssumption DEF index

LEMMA EmptySlice == empty \in Slice /\ empty.len = 0 /\ empty.len <= empty.cap
  BY PublisherAssumption DEF empty, Slice

LEMMA Appended ==
  ASSUME NEW s \in Slice, s.len <= s.cap, s.len < MaxPoints
  PROVE  /\ appended(s) \in Slice /\ appended(s).len <= appended(s).cap
         /\ appended(s).len = s.len + 1
  <1>1. s.len \in Nat /\ s.cap \in Nat
    BY DEF Slice
  <1>2. CASE s.len = s.cap
    <2>1. s.cap \in 0 .. MaxPoints
      BY <1>1, <1>2, PublisherAssumption
    <2>2. Grown[s.cap] \in Nat /\ Grown[s.cap] > s.cap
      BY <2>1, PublisherAssumption
    <2>3. QED
      BY <1>1, <1>2, <2>2 DEF appended, Slice
  <1>3. CASE s.len # s.cap
    BY <1>1, <1>3 DEF appended, Slice
  <1>4. QED
    BY <1>2, <1>3

LEMMA PublisherSteps ==
  ASSUME PublisherInv,
         Publish \/ pushLocal \/ push \/ Stop \/ ctxDone \/ UNCHANGED publisherVars
  PROVE  PublisherInv'
  <1>1. CASE Publish
    <2>1. local.len < MaxPoints
      BY <1>1, PublisherAssumption DEF Publish, PublisherInv, PublisherTypeOK, Slice
    <2>2. /\ local' \in Slice /\ local'.len <= local'.cap /\ local'.len = local.len + 1
      BY <1>1, <2>1, Appended DEF Publish, PublisherInv, PublisherTypeOK
    <2>3. local.len \in Nat /\ metricData.len \in Nat /\ points \in Nat /\ requested \in Nat
      BY DEF PublisherInv, PublisherTypeOK, Slice
    <2>4. PublisherTypeOK'
      BY <1>1, <2>2, PublisherAssumption DEF Publish, PublisherInv, PublisherTypeOK
    <2>5. SentOnce'
      BY <1>1, <2>2, <2>3 DEF Publish, PublisherInv, SentOnce
    <2>6. (local.len <= points)'
      BY <1>1, <2>2, <2>3 DEF Publish, PublisherInv
    <2>7. QED
      BY <1>1, <2>4, <2>5, <2>6 DEF Publish, PublisherInv
  <1>2. CASE pushLocal
    <2>1. local.len \in Nat /\ metricData.len \in Nat
      BY DEF PublisherInv, PublisherTypeOK, Slice
    <2>2. local' \in Slice /\ local'.len = 0 /\ local'.len <= local'.cap
      BY <1>2, EmptySlice DEF pushLocal
    <2>3. QED
      BY <1>2, <2>1, <2>2, PublisherAssumption DEF pushLocal, PublisherInv, PublisherTypeOK, SentOnce
  <1>3. CASE push
    <2>1. CASE maxDataPoints > metricData.cap
      BY <1>3, <2>1 DEF push, PublisherInv, PublisherTypeOK, SentOnce
    <2>2. CASE ~(maxDataPoints > metricData.cap)
      <3> DEFINE i == index(metricData.len)
      <3>1. /\ metricData.len \in Nat /\ metricData.cap \in Nat /\ local.len \in Nat
            /\ metricData.len > 0 /\ metricData.len <= metricData.cap
            /\ points \in Nat /\ requested \in Nat
        BY <1>3, PublisherAssumption DEF push, PublisherInv, PublisherTypeOK, Slice
      <3>2. i \in 1 .. maxDataPoints /\ i <= metricData.len
        BY <3>1, IndexBound
      <3> HIDE DEF i
      <3>3. /\ requested' = requested + i /\ nils' = maxDataPoints - i
            /\ metricData' = [len |-> metricData.len - i, cap |-> metricData.cap - i]
            /\ monitor' = (IF metricData.len = i THEN "wait" ELSE "push") /\ monitor = "push"
            /\ UNCHANGED <<local, cancelled, points>>
        BY <1>3, <2>2 DEF push, i
      <3>4. /\ metricData' \in Slice /\ metricData'.len = metricData.len - i
            /\ metricData'.len <= metricData'.cap
        BY <3>1, <3>2, <3>3 DEF Slice
      <3>5. requested' \in 0 .. MaxPoints /\ nils' \in 0 .. maxDataPoints - 1
        <4>1. points = requested + local.len + metricData.len
          BY <3>3 DEF PublisherInv, SentOnce
        <4>2. points <= MaxPoints /\ MaxPoints \in Nat /\ maxDataPoints \in Nat
          BY PublisherAssumption DEF PublisherInv, PublisherTypeOK
        <4>3. QED
          BY <3>1, <3>2, <3>3, <4>1, <4>2
      <3>6. PublisherTypeOK'
        BY <3>3, <3>4, <3>5 DEF PublisherInv, PublisherTypeOK
      <3>7. SentOnce' /\ (monitor = "push" => metricData.len > 0)'
        BY <3>1, <3>2, <3>3, <3>4 DEF PublisherInv, SentOnce
      <3>8. QED
        BY <3>3, <3>6, <3>7 DEF PublisherInv
    <2>3. QED
      BY <2>1, <2>2
  <1>4. CASE Stop
    BY <1>4 DEF Stop, PublisherInv, PublisherTypeOK, SentOnce
  <1>5. CASE ctxDone
    BY <1>5 DEF ctxDone, PublisherInv, PublisherTypeOK, SentOnce
  <1>6. CASE UNCHANGED publisherVars
    BY <1>6 DEF publisherVars, PublisherInv, PublisherTypeOK, SentOnce
  <1>7. QED
    BY <1>1, <1>2, <1>3, <1>4, <1>5, <1>6

LEMMA InitPublisherInv == Init => PublisherInv
  <1> SUFFICES ASSUME Init PROVE PublisherInv
    OBVIOUS
  <1>0. /\ local = empty /\ metricData = empty /\ monitor = "wait" /\ cancelled = FALSE
        /\ points = 0 /\ requested = 0 /\ nils = 0
    BY DEF Init, PublisherInit
  <1>1. /\ local \in Slice /\ local.len = 0 /\ local.len <= local.cap
        /\ metricData \in Slice /\ metricData.len = 0 /\ metricData.len <= metricData.cap
    BY <1>0, EmptySlice
  <1>2. cancelled \in BOOLEAN /\ monitor \in {"wait", "push", "stopped", "panic"}
    BY <1>0, Zenon
  <1>3. points \in 0 .. MaxPoints /\ requested \in 0 .. MaxPoints
    BY <1>0, PublisherAssumption
  <1>4. nils \in 0 .. maxDataPoints - 1
    BY <1>0, PublisherAssumption
  <1>5. SentOnce /\ local.len <= points
    BY <1>0, <1>1 DEF SentOnce
  <1>6. QED
    BY <1>0, <1>1, <1>2, <1>3, <1>4, <1>5 DEF PublisherInv, PublisherTypeOK

LEMMA NextPublisherInv ==
  PublisherInv /\ [Next /\ UNCHANGED cluster]_<<processVars, cluster>> => PublisherInv'
  <1> SUFFICES ASSUME PublisherInv, [Next /\ UNCHANGED cluster]_<<processVars, cluster>>
               PROVE  PublisherInv'
    OBVIOUS
  <1>1. CASE restartProcess
    <2>1. /\ local' = empty /\ metricData' = empty /\ monitor' = "wait" /\ cancelled' = FALSE
          /\ points' = 0 /\ requested' = 0 /\ nils' = 0
      BY <1>1 DEF restartProcess
    <2>2. PublisherTypeOK'
      <3>1. 0 \in 0 .. MaxPoints /\ 0 \in 0 .. maxDataPoints - 1
        BY PublisherAssumption
      <3>2. QED
        BY <2>1, <3>1, EmptySlice, Zenon DEF PublisherTypeOK
    <2>3. QED
      BY <2>1, <2>2, EmptySlice DEF PublisherInv, SentOnce
  <1>2. CASE ~restartProcess
    <2>1. Publish \/ pushLocal \/ push \/ Stop \/ ctxDone \/ UNCHANGED publisherVars
      BY <1>2 DEF Next, Handler, Monitor, processVars, publisherVars
    <2>2. QED
      BY <2>1, PublisherSteps
  <1>3. QED
    BY <1>1, <1>2

\* Replacing the slice under the lock and pushing it without loses no data point that is
\* published meanwhile, and sends none twice.
THEOREM PointsSentOnce == Spec => []SentOnce
  <1>1. PublisherInv => SentOnce
    BY DEF PublisherInv
  <1>2. QED
    BY <1>1, InitPublisherInv, NextPublisherInv, PTL DEF Spec

\* A number of data points that fills whole requests.
WholeRequests(n) == \E k \in Nat : n = k * maxDataPoints

\* The slice that the monitor starts with fills whole requests, as 100 does requests of 20.
SizesFit == WholeRequests(localMetricDataSize)

\* No more data points wait for the monitor than the slice was made for.
WaitingFits == local.len <= localMetricDataSize

\* Taking a request from such a number leaves such a number.
LEMMA OneRequestLess ==
  ASSUME NEW n \in Nat, WholeRequests(n), n > 0
  PROVE  n >= maxDataPoints /\ WholeRequests(n - maxDataPoints)
  <1>0. maxDataPoints \in Nat
    BY PublisherAssumption
  <1>1. PICK k \in Nat : n = k * maxDataPoints
    BY DEF WholeRequests
  <1>2. k # 0
    BY <1>0, <1>1
  <1>3. PICK l \in Nat : k = l + 1
    <2>1. k - 1 \in Nat /\ k = (k - 1) + 1
      BY <1>2
    <2>2. QED
      BY <2>1, Zenon
  <1>4. (l + 1) * maxDataPoints = l * maxDataPoints + maxDataPoints /\ l * maxDataPoints \in Nat
    BY <1>0
  <1>5. QED
    BY <1>0, <1>1, <1>3, <1>4 DEF WholeRequests

\* As long as append has not grown the slice, what is left of it fills whole requests.
CapacityInv ==
  /\ monitor # "panic"
  /\ local.cap = localMetricDataSize
  /\ monitor = "push" => WholeRequests(metricData.cap)

LEMMA CapacityKept ==
  ASSUME SizesFit, PublisherInv, CapacityInv, WaitingFits',
         Publish \/ pushLocal \/ push \/ Stop \/ ctxDone \/ UNCHANGED publisherVars
  PROVE  CapacityInv'
  <1>0. /\ local \in Slice /\ metricData \in Slice
        /\ local.len \in Nat /\ local.len <= local.cap /\ localMetricDataSize \in Nat
    BY PublisherAssumption DEF PublisherInv, PublisherTypeOK, Slice
  <1>1. CASE Publish
    <2>1. local' = appended(local) /\ UNCHANGED <<monitor, metricData>>
      BY <1>1 DEF Publish
    <2>2. local'.len = local.len + 1
      BY <2>1 DEF appended
    <2>3. local.len # local.cap
      BY <1>0, <2>2 DEF WaitingFits, CapacityInv
    <2>4. local'.cap = local.cap
      BY <2>1, <2>3 DEF appended
    <2>5. QED
      BY <2>1, <2>4, Zenon DEF CapacityInv
  <1>2. CASE pushLocal
    <2>1. /\ local'.cap = localMetricDataSize /\ metricData' = local
          /\ monitor' \in {"wait", "push"}
      BY <1>2 DEF pushLocal, empty
    <2>2. QED
      BY <2>1 DEF CapacityInv, SizesFit
  <1>3. CASE push
    <2>1. /\ metricData.cap \in Nat /\ metricData.len \in Nat
          /\ metricData.len > 0 /\ metricData.len <= metricData.cap
      BY <1>0, <1>3 DEF push, PublisherInv, PublisherTypeOK, Slice
    <2>2. metricData.cap >= maxDataPoints /\ WholeRequests(metricData.cap - maxDataPoints)
      BY <1>3, <2>1, OneRequestLess DEF push, CapacityInv
    <2>3. ~(maxDataPoints > metricData.cap)
      BY <2>1, <2>2, PublisherAssumption
    <2>4. /\ metricData'.cap = metricData.cap - index(metricData.len)
          /\ monitor' = (IF metricData.len = index(metricData.len) THEN "wait" ELSE "push")
          /\ UNCHANGED local
      BY <1>3, <2>3 DEF push
    <2>5. monitor' = "push" => index(metricData.len) = maxDataPoints
      BY <2>4 DEF index
    <2>6. QED
      BY <2>2, <2>4, <2>5, Zenon DEF CapacityInv
  <1>4. CASE UNCHANGED <<local, metricData>> /\ (UNCHANGED monitor \/ monitor' = "stopped")
    BY <1>4 DEF CapacityInv
  <1>5. QED
    BY <1>1, <1>2, <1>3, <1>4 DEF Stop, ctxDone, publisherVars

\* The monitor panics only over a slice that append has grown: while no more data points
\* than the slice was made for wait at a time, push cuts it at its capacity at most,
\* however the helper's calls fall between its requests.
THEOREM NoPanicWithinSlice == SizesFit /\ []WaitingFits /\ Spec => []SendsAnyNumber
  <1>1. Init => CapacityInv
    BY DEF Init, PublisherInit, CapacityInv, empty
  <1>2. SizesFit /\ PublisherInv /\ CapacityInv /\ WaitingFits'
          /\ [Next /\ UNCHANGED cluster]_<<processVars, cluster>>
        => CapacityInv'
    <2> SUFFICES ASSUME SizesFit, PublisherInv, CapacityInv, WaitingFits',
                        [Next /\ UNCHANGED cluster]_<<processVars, cluster>>
                 PROVE  CapacityInv'
      BY Zenon
    <2>1. CASE restartProcess
      BY <2>1 DEF restartProcess, CapacityInv, empty
    <2>2. CASE ~restartProcess
      <3>1. Publish \/ pushLocal \/ push \/ Stop \/ ctxDone \/ UNCHANGED publisherVars
        BY <2>2 DEF Next, Handler, Monitor, processVars, publisherVars
      <3>2. QED
        BY <3>1, CapacityKept, Zenon
    <2>3. QED
      BY <2>1, <2>2, Zenon
  <1>3. CapacityInv => SendsAnyNumber
    BY Zenon DEF CapacityInv, SendsAnyNumber
  <1>4. SizesFit => SizesFit'
    BY DEF SizesFit, WholeRequests
  <1>5. QED
    BY <1>1, <1>2, <1>3, <1>4, InitPublisherInv, NextPublisherInv, PTL DEF Spec

-----------------------------------------------------------------------------
(* The poll *)

LEMMA MinOfTwo == ASSUME NEW a \in Int, NEW b \in Int
                  PROVE  Min({a, b}) = IF a <= b THEN a ELSE b
  <1> DEFINE x == IF a <= b THEN a ELSE b
  <1>1. x \in {a, b} /\ \A y \in {a, b} : x <= y
    OBVIOUS
  <1>2. \A z \in {a, b} : (\A y \in {a, b} : z <= y) => z = x
    OBVIOUS
  <1> HIDE DEF x
  <1>3. Min({a, b}) = x
    BY <1>1, <1>2 DEF Min
  <1>4. QED
    BY <1>3 DEF x

LEMMA MetricNames == /\ {"counter", "gauge", "summary"} = Metric
                     /\ "counter" # "gauge" /\ "counter" # "summary" /\ "gauge" # "summary"
  BY DEF Metric

\* The steps of the poll and of the agents.
PollStep ==
  \/ getTargetList \/ aggregated \/ HandlerReturns \/ restartHelper
  \/ \E t \in cluster.pods : grabFails(t) \/ parseFails(t) \/ grab(t) \/ work(t) \/ restartAgent(t)
  \/ \E m \in Metric : produceCloudWatchMetrics(m)
  \/ UNCHANGED metricsVars

LEMMA StepsOfPoll ==
  ASSUME [Next /\ UNCHANGED cluster]_<<processVars, cluster>>
  PROVE  PollStep /\ cluster' = cluster
  <1>1. cluster' = cluster
    OBVIOUS
  <1>2. CASE UNCHANGED processVars
    BY <1>1, <1>2, Zenon DEF PollStep, processVars
  <1>3. CASE Next
    BY <1>1, <1>3 DEF PollStep, Next, Handler, metricsListGrabAggregateConvert, Monitor,
      restartProcess, agents
  <1>4. QED
    BY <1>2, <1>3

PollTypeInv ==
  /\ MetricsTypeOK
  /\ cluster \in Clusters
  /\ \A t \in Target : counter[t] <= events

LEMMA PodsAreTargets ==
  ASSUME cluster \in Clusters
  PROVE  cluster.pods \subseteq Target /\ IsFiniteSet(cluster.pods)
  <1>1. cluster.pods \subseteq Target
    BY MetricsAssumption
  <1>2. QED
    BY <1>1, MetricsAssumption, FS_Subset

LEMMA PostProcessed ==
  ASSUME NEW current \in Nat, NEW last \in Nat
  PROVE  LET c == postProcessingCounter(current, last)
         IN  /\ c.increase = IF current < last THEN current ELSE current - last
             /\ c.increase \in Nat /\ c.last = current /\ c.reset \in BOOLEAN
  BY DEF postProcessingCounter

LEMMA Processed ==
  ASSUME PollTypeInv, NEW m \in Metric, NEW t \in Target
  PROVE  process(m, t) \in Nat
  <1>1. counter[t] \in Nat /\ level[t] \in Nat /\ curSingleDataPoint[m] \in Nat
    BY MetricsAssumption DEF PollTypeInv, MetricsTypeOK
  <1>2. QED
    BY <1>1, MetricNames DEF process

\* What a pod shows is read into the data points, family by family.
LEMMA GrabStep ==
  ASSUME PollTypeInv, NEW t \in Target, grab(t)
  PROVE  LET c == postProcessingCounter(process("counter", t), lastSingleDataPoint)
         IN  /\ families' \in {Metric, Metric \ {"counter"}}
             /\ curSingleDataPoint' \in [Metric -> Nat]
             /\ "counter" \in families' => /\ curSingleDataPoint'["counter"] = c.increase
                                           /\ lastSingleDataPoint' = process("counter", t)
             /\ "counter" \notin families' =>
                  /\ curSingleDataPoint'["counter"] = curSingleDataPoint["counter"]
                  /\ lastSingleDataPoint' = lastSingleDataPoint
                  /\ counter[t] = 0
             /\ curSingleDataPoint'["gauge"] = process("gauge", t)
             /\ curSingleDataPoint'["summary"] = process("summary", t)
             /\ lastSingleDataPoint' \in Nat /\ resetDetected' \in BOOLEAN
  <1> DEFINE c == postProcessingCounter(process("counter", t), lastSingleDataPoint)
  <1>1. "counter" \in Metric /\ "gauge" \in Metric /\ "summary" \in Metric
    BY DEF Metric
  <1>2. process("counter", t) \in Nat /\ lastSingleDataPoint \in Nat
    BY <1>1, Processed DEF PollTypeInv, MetricsTypeOK
  <1>3. c.increase \in Nat /\ c.last = process("counter", t) /\ c.reset \in BOOLEAN
    BY <1>2, PostProcessed
  <1>4. curSingleDataPoint \in [Metric -> Nat] /\ resetDetected \in BOOLEAN
    BY Zenon DEF PollTypeInv, MetricsTypeOK
  <1> HIDE DEF c
  <1>5. PICK fs \in filterMetrics(t) :
          /\ families' = fs
          /\ curSingleDataPoint' =
               [m \in Metric |-> IF m \notin fs THEN curSingleDataPoint[m]
                                 ELSE IF m = "counter" THEN c.increase ELSE process(m, t)]
          /\ IF "counter" \in fs
             THEN /\ lastSingleDataPoint' = c.last
                  /\ resetDetected' = (resetDetected \/ c.reset)
             ELSE UNCHANGED <<lastSingleDataPoint, resetDetected>>
    BY DEF grab, c
  <1>6. /\ fs \in {Metric, Metric \ {"counter"}} /\ "gauge" \in fs /\ "summary" \in fs
        /\ "counter" \notin fs => counter[t] = 0
    BY MetricNames DEF filterMetrics
  <1>7. curSingleDataPoint' \in [Metric -> Nat]
    <2>1. \A m \in Metric : process(m, t) \in Nat
      BY Processed
    <2>2. QED
      BY <1>3, <1>4, <1>5, <2>1
  <1>8. resetDetected' \in BOOLEAN
    BY <1>3, <1>4, <1>5
  <1>9. lastSingleDataPoint' \in Nat
    BY <1>2, <1>3, <1>5
  <1>10. /\ "counter" \in fs => /\ curSingleDataPoint'["counter"] = c.increase
                                /\ lastSingleDataPoint' = process("counter", t)
         /\ "counter" \notin fs => /\ curSingleDataPoint'["counter"] = curSingleDataPoint["counter"]
                                   /\ lastSingleDataPoint' = lastSingleDataPoint
    BY <1>1, <1>3, <1>5, Zenon
  <1>11. /\ curSingleDataPoint'["gauge"] = process("gauge", t)
         /\ curSingleDataPoint'["summary"] = process("summary", t)
    BY <1>1, <1>5, <1>6, MetricNames, Zenon
  <1>12. QED
    BY <1>5, <1>6, <1>7, <1>8, <1>9, <1>10, <1>11, Zenon DEF c

LEMMA InitPollTypeInv == Init => PollTypeInv
  <1> SUFFICES ASSUME Init PROVE PollTypeInv
    OBVIOUS
  <1>1. /\ cluster \in Clusters /\ counter \in [Target -> 0 .. MaxEvents]
        /\ level \in [Target -> 0 .. MaxLevel] /\ events \in 0 .. MaxEvents
        /\ restarts \in 0 .. MaxRestarts /\ \A t \in Target : counter[t] <= events
    BY MetricsAssumption DEF Init, MetricsInit
  <1>2. curSingleDataPoint \in [Metric -> Nat] /\ DOMAIN grabbed = {} /\ DOMAIN published = {}
    BY DEF Init, MetricsInit, Nothing
  <1>3. resetDetected \in BOOLEAN /\ pc \in {"idle", "poll", "produce"}
    BY Zenon DEF Init, MetricsInit
  <1>4. total \in 0 .. MaxEvents + 1 /\ lastSingleDataPoint \in Nat
    BY MetricsAssumption DEF Init, MetricsInit
  <1>5. targetList = {} /\ toGrab = {} /\ families = {}
    BY DEF Init, MetricsInit
  <1>6. QED
    BY <1>1, <1>2, <1>3, <1>4, <1>5, Zenon DEF PollTypeInv, MetricsTypeOK

LEMMA NextPollTypeInv == ASSUME PollTypeInv, PollStep, cluster' = cluster
                         PROVE  PollTypeInv'
  <1>0. /\ MaxEvents \in Nat /\ MaxLevel \in Nat /\ MaxRestarts \in Nat
        /\ cluster.pods \subseteq Target /\ cluster' \in Clusters
    BY MetricsAssumption, PodsAreTargets DEF PollTypeInv
  <1>1. CASE getTargetList
    BY <1>0, <1>1, Zenon DEF getTargetList, resetMetrics, Nothing, agentVars, PollTypeInv, MetricsTypeOK
  <1>2. CASE aggregated
    <2>1. resetDetected' \in BOOLEAN
      BY <1>2, Zenon DEF aggregated
    <2>2. QED
      BY <1>0, <1>2, <2>1 DEF aggregated, Nothing, agentVars, PollTypeInv, MetricsTypeOK
  <1>3. CASE HandlerReturns
    BY <1>0, <1>3, Zenon DEF HandlerReturns, agentVars, PollTypeInv, MetricsTypeOK
  <1>4. CASE restartHelper
    <2>1. curSingleDataPoint' \in [Metric -> Nat] /\ DOMAIN grabbed' = {} /\ DOMAIN published' = {}
      BY <1>4 DEF restartHelper, Nothing
    <2>2. resetDetected' \in BOOLEAN /\ pc' \in {"idle", "poll", "produce"}
      BY <1>4, Zenon DEF restartHelper
    <2>3. total' \in 0 .. MaxEvents + 1 /\ lastSingleDataPoint' \in Nat
      BY <1>0, <1>4 DEF restartHelper
    <2>4. targetList' = {} /\ toGrab' = {} /\ families' = {} /\ UNCHANGED agentVars
      BY <1>4, Zenon DEF restartHelper
    <2>5. QED
      BY <1>0, <2>1, <2>2, <2>3, <2>4, Zenon DEF agentVars, PollTypeInv, MetricsTypeOK
  <1>5. ASSUME NEW t \in cluster.pods, grabFails(t) PROVE PollTypeInv'
    BY <1>0, <1>5, Zenon DEF grabFails, agentVars, PollTypeInv, MetricsTypeOK
  <1>6. ASSUME NEW t \in cluster.pods, parseFails(t) PROVE PollTypeInv'
    BY <1>0, <1>6, Zenon DEF parseFails, Nothing, agentVars, PollTypeInv, MetricsTypeOK
  <1>7. ASSUME NEW t \in cluster.pods, grab(t) PROVE PollTypeInv'
    <2>1. /\ families' \subseteq Metric /\ curSingleDataPoint' \in [Metric -> Nat]
          /\ lastSingleDataPoint' \in Nat /\ resetDetected' \in BOOLEAN
      BY <1>0, <1>7, GrabStep, Zenon
    <2>2. /\ toGrab' \subseteq targetList' /\ DOMAIN grabbed' \subseteq targetList'
          /\ UNCHANGED <<agentVars, pc, targetList, published, total>>
      BY <1>7, Zenon DEF grab, PollTypeInv, MetricsTypeOK
    <2>3. QED
      BY <1>0, <2>1, <2>2, Zenon DEF agentVars, PollTypeInv, MetricsTypeOK
  <1>8. ASSUME NEW t \in cluster.pods, work(t) PROVE PollTypeInv'
    <2>1. t \in Target /\ counter[t] \in Nat /\ events \in Nat /\ counter[t] + 1 <= events + 1
      BY <1>0 DEF PollTypeInv, MetricsTypeOK
    <2>2. events' = events + 1 /\ events' \in 0 .. MaxEvents
      BY <1>0, <1>8, <2>1 DEF work
    <2>3. counter' = [counter EXCEPT ![t] = counter[t] + 1]
      BY <1>8, Zenon DEF work
    <2>4. \A u \in Target : counter'[u] \in 0 .. MaxEvents /\ counter'[u] <= events'
      BY <1>0, <2>1, <2>2, <2>3 DEF PollTypeInv, MetricsTypeOK
    <2>5. counter' \in [Target -> 0 .. MaxEvents] /\ level' \in [Target -> 0 .. MaxLevel]
      BY <1>8, <2>3, <2>4, Zenon DEF work, PollTypeInv, MetricsTypeOK
    <2>6. QED
      BY <1>0, <1>8, <2>2, <2>4, <2>5, Zenon DEF work, pollVars, PollTypeInv, MetricsTypeOK
  <1>9. ASSUME NEW t \in cluster.pods, restartAgent(t) PROVE PollTypeInv'
    <2>1. counter' \in [Target -> 0 .. MaxEvents] /\ level' \in [Target -> 0 .. MaxLevel]
      BY <1>0, <1>9 DEF restartAgent, PollTypeInv, MetricsTypeOK
    <2>2. restarts' \in 0 .. MaxRestarts /\ \A u \in Target : counter'[u] <= events'
      BY <1>0, <1>9 DEF restartAgent, PollTypeInv, MetricsTypeOK
    <2>3. QED
      BY <1>0, <1>9, <2>1, <2>2, Zenon DEF restartAgent, pollVars, PollTypeInv, MetricsTypeOK
  <1>10. ASSUME NEW m \in Metric, produceCloudWatchMetrics(m) PROVE PollTypeInv'
    <2>1. total \in Nat /\ curSingleDataPoint[m] \in Nat
      BY DEF PollTypeInv, MetricsTypeOK
    <2>2. total' \in 0 .. MaxEvents + 1
      <3>1. CASE m = "counter"
        <4>1. Min({total + curSingleDataPoint[m], MaxEvents + 1}) \in 0 .. MaxEvents + 1
          BY <1>0, <2>1, MinOfTwo
        <4>2. QED
          BY <1>10, <3>1, <4>1, Zenon DEF produceCloudWatchMetrics
      <3>2. CASE m # "counter"
        BY <1>10, <3>2, Zenon DEF produceCloudWatchMetrics, PollTypeInv, MetricsTypeOK
      <3>3. QED
        BY <3>1, <3>2, Zenon
    <2>3. families' \subseteq Metric /\ DOMAIN published' \subseteq Metric
      BY <1>10, Zenon DEF produceCloudWatchMetrics, PollTypeInv, MetricsTypeOK
    <2>4. QED
      BY <1>0, <1>10, <2>2, <2>3, Zenon DEF produceCloudWatchMetrics, agentVars, PollTypeInv, MetricsTypeOK
  <1>11. CASE UNCHANGED metricsVars
    BY <1>0, <1>11 DEF metricsVars, agentVars, pollVars, PollTypeInv, MetricsTypeOK
  <1>12. QED
    BY <1>1, <1>2, <1>3, <1>4, <1>5, <1>6, <1>7, <1>8, <1>9, <1>10, <1>11, Zenon DEF PollStep

\* The loop of Handler and the monitor's goroutine keep the state well-formed: no data
\* point becomes negative, over restarts of agents too, no slice outgrows its capacity.
THEOREM ProcessStateWellFormed == Spec => []ProcessTypeOK
  <1>1. PollTypeInv /\ [Next /\ UNCHANGED cluster]_<<processVars, cluster>> => PollTypeInv'
    BY StepsOfPoll, NextPollTypeInv
  <1>2. PollTypeInv /\ PublisherInv => ProcessTypeOK
    BY DEF PollTypeInv, PublisherInv, ProcessTypeOK
  <1>3. QED
    BY <1>1, <1>2, InitPollTypeInv, InitPublisherInv, NextPublisherInv, PTL DEF Spec

-----------------------------------------------------------------------------
(* One agent's counter *)

\* What the poll has read of the counter and not yet published.
due == IF pc = "poll" \/ (pc = "produce" /\ "counter" \in families)
       THEN curSingleDataPoint["counter"] ELSE 0

\* What the next poll would publish of it.
unread(t) == IF counter[t] < lastSingleDataPoint THEN counter[t]
             ELSE counter[t] - lastSingleDataPoint

\* What is published, due and unread was counted, and each event in only one of them;
\* without a restart nothing that was read is missing either.
OneCounted(t) ==
  /\ total + due + unread(t) <= events
  /\ restarts = 0 => counter[t] >= lastSingleDataPoint /\ total + due = lastSingleDataPoint
  /\ pc = "poll" /\ (t \in toGrab \/ "counter" \notin families) => curSingleDataPoint["counter"] = 0

CountInv == \A t \in Target : cluster.pods = {t} => OneCounted(t)

LEMMA CountTypes ==
  ASSUME PollTypeInv, NEW t \in Target
  PROVE  /\ counter[t] \in Nat /\ lastSingleDataPoint \in Nat /\ curSingleDataPoint["counter"] \in Nat
         /\ total \in Nat /\ events \in Nat /\ restarts \in Nat /\ MaxEvents \in Nat
         /\ counter[t] <= events /\ events <= MaxEvents
         /\ due \in Nat /\ unread(t) \in Nat
  <1>1. /\ counter[t] \in Nat /\ lastSingleDataPoint \in Nat /\ curSingleDataPoint["counter"] \in Nat
        /\ total \in Nat /\ events \in Nat /\ restarts \in Nat /\ MaxEvents \in Nat
        /\ counter[t] <= events /\ events <= MaxEvents
    BY MetricsAssumption, MetricNames DEF PollTypeInv, MetricsTypeOK
  <1>2. QED
    BY <1>1 DEF due, unread

LEMMA NextOneCounted ==
  ASSUME PollTypeInv, PollTypeInv', PollStep, NEW t \in Target, cluster.pods = {t}, OneCounted(t)
  PROVE  OneCounted(t)'
  <1>0. /\ counter[t] \in Nat /\ lastSingleDataPoint \in Nat /\ curSingleDataPoint["counter"] \in Nat
        /\ total \in Nat /\ events \in Nat /\ restarts \in Nat /\ MaxEvents \in Nat
        /\ counter[t] <= events /\ events <= MaxEvents
        /\ due \in Nat /\ unread(t) \in Nat
    BY CountTypes, Zenon
  <1>1. CASE getTargetList
    <2>1. curSingleDataPoint'["counter"] = 0
      BY <1>1, MetricNames, Zenon DEF getTargetList, resetMetrics
    <2>2. due' = 0 /\ due = 0
      BY <1>1, <2>1, Zenon DEF getTargetList, due
    <2>3. QED
      BY <1>0, <1>1, <2>1, <2>2, Zenon DEF getTargetList, agentVars, unread, OneCounted
  <1>2. CASE aggregated
    <2>1. due' = due
      BY <1>2, Zenon DEF aggregated, due, OneCounted
    <2>2. QED
      BY <1>0, <1>2, <2>1, Zenon DEF aggregated, agentVars, unread, OneCounted
  <1>3. CASE HandlerReturns
    <2>1. due' = 0 /\ due = 0
      BY <1>3, Zenon DEF HandlerReturns, due
    <2>2. QED
      BY <1>0, <1>3, <2>1, Zenon DEF HandlerReturns, agentVars, unread, OneCounted
  <1>4. CASE restartHelper
    <2>1. due' = 0 /\ unread(t)' = counter[t]
      BY <1>0, <1>4 DEF restartHelper, agentVars, due, unread
    <2>2. QED
      BY <1>0, <1>4, <2>1 DEF restartHelper, agentVars, OneCounted
  <1>5. CASE grabFails(t)
    <2>1. due' = due /\ curSingleDataPoint["counter"] = 0
      BY <1>5, Zenon DEF grabFails, due, OneCounted
    <2>2. QED
      BY <1>0, <1>5, <2>1, Zenon DEF grabFails, agentVars, unread, OneCounted
  <1>6. CASE parseFails(t)
    <2>1. due' = 0 /\ due = 0
      BY <1>6, Zenon DEF parseFails, due, OneCounted
    <2>2. QED
      BY <1>0, <1>6, <2>1, Zenon DEF parseFails, agentVars, unread, OneCounted
  <1>7. CASE grab(t)
    <2>1. /\ pc = "poll" /\ curSingleDataPoint["counter"] = 0 /\ due = 0
          /\ UNCHANGED <<agentVars, pc, total>>
      BY <1>7 DEF grab, due, OneCounted
    <2>2. process("counter", t) = counter[t]
      BY <1>0, <2>1 DEF process
    <2>3. CASE "counter" \in families'
      <3>1. /\ curSingleDataPoint'["counter"] = unread(t) /\ lastSingleDataPoint' = counter[t]
        <4> DEFINE c == postProcessingCounter(counter[t], lastSingleDataPoint)
        <4>1. c.increase = unread(t)
          BY <1>0, PostProcessed DEF unread
        <4>2. curSingleDataPoint'["counter"] = c.increase /\ lastSingleDataPoint' = counter[t]
          BY <1>7, <2>2, <2>3, GrabStep, Zenon
        <4> HIDE DEF c
        <4>3. QED
          BY <4>1, <4>2, Zenon
      <3>2. due' = unread(t) /\ unread(t)' = 0
        <4>1. due' = unread(t)
          BY <2>1, <3>1, Zenon DEF due
        <4>2. counter'[t] = counter[t]
          BY <2>1, Zenon DEF agentVars
        <4>3. QED
          BY <1>0, <3>1, <4>1, <4>2 DEF unread
      <3>3. restarts = 0 => total + unread(t) = counter[t]
        BY <1>0, <2>1 DEF OneCounted, unread
      <3>4. (t \in toGrab)' = FALSE
        <4>1. toGrab' = toGrab \ {t}
          BY <1>7, Zenon DEF grab
        <4>2. QED
          BY <4>1
      <3>5. QED
        BY <1>0, <2>1, <2>3, <3>1, <3>2, <3>3, <3>4 DEF agentVars, OneCounted
    <2>4. CASE "counter" \notin families'
      <3>1. /\ curSingleDataPoint'["counter"] = 0 /\ lastSingleDataPoint' = lastSingleDataPoint
        BY <1>7, <2>1, <2>4, GrabStep, Zenon
      <3>2. due' = 0 /\ unread(t)' = unread(t)
        BY <2>1, <3>1, Zenon DEF due, unread, agentVars
      <3>3. QED
        BY <1>0, <2>1, <3>1, <3>2, Zenon DEF agentVars, OneCounted
    <2>5. QED
      BY <2>3, <2>4, Zenon
  <1>8. CASE work(t)
    <2>1. counter'[t] = counter[t] + 1 /\ events' = events + 1
      BY <1>8, Zenon DEF work, PollTypeInv, MetricsTypeOK
    <2>2. due' = due /\ UNCHANGED <<restarts, pollVars, total>>
      BY <1>8, Zenon DEF work, pollVars, due
    <2>3. unread(t)' <= unread(t) + 1 /\ unread(t)' \in Nat
      <3>1. lastSingleDataPoint' = lastSingleDataPoint
        BY <2>2, Zenon DEF pollVars
      <3>2. QED
        BY <1>0, <2>1, <3>1 DEF unread
    <2>4. QED
      BY <1>0, <2>1, <2>2, <2>3 DEF pollVars, OneCounted
  <1>9. CASE restartAgent(t)
    <2>1. counter'[t] = 0 /\ restarts' = restarts + 1 /\ UNCHANGED <<events, pollVars, total>>
      BY <1>9, Zenon DEF restartAgent, PollTypeInv, MetricsTypeOK
    <2>2. due' = due /\ unread(t)' = 0
      BY <1>0, <2>1 DEF pollVars, due, unread
    <2>3. QED
      BY <1>0, <2>1, <2>2 DEF pollVars, OneCounted
  <1>10. ASSUME NEW m \in Metric, produceCloudWatchMetrics(m) PROVE OneCounted(t)'
    <2>1. /\ unread(t)' = unread(t) /\ pc' = "produce" /\ pc = "produce"
          /\ UNCHANGED <<agentVars, lastSingleDataPoint>>
      BY <1>10 DEF produceCloudWatchMetrics, agentVars, unread
    <2>2. total' + due' = total + due
      <3>1. CASE m = "counter"
        <4>1. due = curSingleDataPoint["counter"] /\ due' = 0
          BY <1>10, <3>1, Zenon DEF produceCloudWatchMetrics, due
        <4>2. total' = Min({total + due, MaxEvents + 1})
          BY <1>10, <3>1, <4>1, Zenon DEF produceCloudWatchMetrics
        <4>3. total + due <= MaxEvents
          BY <1>0 DEF OneCounted
        <4>4. total + due \in Int /\ MaxEvents + 1 \in Int /\ total + due <= MaxEvents + 1
          BY <1>0, <4>3
        <4>5. total' = total + due
          BY <4>2, <4>4, MinOfTwo, Zenon
        <4>6. QED
          BY <1>0, <4>1, <4>5
      <3>2. CASE m # "counter"
        BY <1>10, <3>2, Zenon DEF produceCloudWatchMetrics, due
      <3>3. QED
        BY <3>1, <3>2, Zenon
    <2>3. QED
      BY <1>0, <2>1, <2>2, Zenon DEF agentVars, OneCounted
  <1>11. CASE UNCHANGED metricsVars
    BY <1>11 DEF metricsVars, agentVars, pollVars, due, unread, OneCounted
  <1>12. QED
    BY <1>1, <1>2, <1>3, <1>4, <1>5, <1>6, <1>7, <1>8, <1>9, <1>10, <1>11, Zenon DEF PollStep

\* Whatever order an agent's restarts, the polls and their failures come in, and whenever
\* the process was started, postProcessingCounter makes one process of the helper publish no
\* event twice, and none that was not counted.
THEOREM ProcessCountsOnce == Spec => []CountedOncePerProcess
  <1>1. Init => CountInv
    <2> SUFFICES ASSUME Init, NEW t \in Target PROVE OneCounted(t)
      BY DEF CountInv
    <2>1. due = 0 /\ unread(t) = 0
      BY DEF Init, MetricsInit, due, unread
    <2>2. QED
      BY <2>1 DEF Init, MetricsInit, OneCounted
  <1>2. PollTypeInv /\ [Next /\ UNCHANGED cluster]_<<processVars, cluster>> => PollTypeInv'
    BY StepsOfPoll, NextPollTypeInv
  <1>3. /\ PollTypeInv /\ CountInv /\ PollTypeInv'
        /\ [Next /\ UNCHANGED cluster]_<<processVars, cluster>>
        => CountInv'
    BY StepsOfPoll, NextOneCounted, Zenon DEF CountInv
  <1>4. PollTypeInv /\ CountInv => CountedOncePerProcess
    <2> SUFFICES ASSUME PollTypeInv, CountInv, Cardinality(cluster.pods) = 1
                 PROVE  total <= events /\ (pc = "idle" /\ restarts = 0 => total = lastSingleDataPoint)
      BY Zenon DEF CountedOncePerProcess
    <2>1. cluster.pods \subseteq Target /\ IsFiniteSet(cluster.pods)
      BY PodsAreTargets DEF PollTypeInv
    <2>2. PICK t : cluster.pods = {t}
      BY <2>1, FS_Singleton, Zenon
    <2>3. t \in Target /\ OneCounted(t)
      BY <2>1, <2>2 DEF CountInv
    <2>4. pc = "idle" => due = 0
      BY DEF due
    <2>5. QED
      BY <2>3, <2>4, CountTypes DEF OneCounted
  <1>5. QED
    BY <1>1, <1>2, <1>3, <1>4, InitPollTypeInv, PTL DEF Spec

-----------------------------------------------------------------------------
(* Gauges and summaries *)

\* A sum of levels is the number of unit cells under their bars.
Cells(f, S) == {c \in S \X (1 .. MaxLevel) : c[2] <= f[c[1]]}

LevelSum(f) == FoldFunction(+, 0, f)

LEMMA CellsFinite ==
  ASSUME NEW S, IsFiniteSet(S), NEW f
  PROVE  IsFiniteSet(Cells(f, S)) /\ Cardinality(Cells(f, S)) \in Nat
  <1>1. IsFiniteSet(1 .. MaxLevel)
    BY MetricsAssumption, FS_Interval
  <1>2. IsFiniteSet(S \X (1 .. MaxLevel))
    BY <1>1, FS_Product, Zenon
  <1>3. Cells(f, S) \in SUBSET (S \X (1 .. MaxLevel))
    BY Zenon DEF Cells
  <1>4. QED
    BY <1>2, <1>3, FS_Subset, FS_CardinalityType, Zenon

LEMMA CellsStep ==
  ASSUME NEW S, IsFiniteSet(S), NEW f, NEW e \in S, f[e] \in 0 .. MaxLevel
  PROVE  Cardinality(Cells(f, S)) = f[e] + Cardinality(Cells(f, S \ {e}))
  <1> DEFINE A == {e} \X (1 .. f[e])
             B == Cells(f, S \ {e})
  <1>1. MaxLevel \in Nat /\ f[e] \in Nat /\ f[e] <= MaxLevel
    BY MetricsAssumption
  <1>2. IsFiniteSet(1 .. f[e]) /\ Cardinality(1 .. f[e]) = f[e]
    <2>1. 1 \in Int /\ f[e] \in Int
      BY <1>1
    <2>2. /\ IsFiniteSet(1 .. f[e])
          /\ Cardinality(1 .. f[e]) = IF 1 > f[e] THEN 0 ELSE f[e] - 1 + 1
      BY <2>1, FS_Interval, Zenon
    <2>3. QED
      BY <1>1, <2>2
  <1>3. IsFiniteSet(A) /\ Cardinality(A) = f[e]
    <2>1. IsFiniteSet({e}) /\ Cardinality({e}) = 1
      BY FS_Singleton, Zenon
    <2>2. IsFiniteSet(A) /\ Cardinality(A) = Cardinality({e}) * Cardinality(1 .. f[e])
      BY <1>2, <2>1, FS_Product, Zenon
    <2>3. QED
      BY <1>1, <1>2, <2>1, <2>2
  <1>4. IsFiniteSet(B) /\ Cardinality(B) \in Nat
    BY CellsFinite, FS_RemoveElement, Zenon
  <1>5. Cells(f, S) = A \cup B /\ A \cap B = {}
    BY <1>1 DEF Cells
  <1> HIDE DEF A, B
  <1>6. Cardinality(A \cup B) = Cardinality(A) + Cardinality(B) - Cardinality(A \cap B)
    BY <1>3, <1>4, FS_Union, Zenon
  <1>7. Cardinality(A \cap B) = 0
    BY <1>5, FS_EmptySet, Zenon
  <1>8. Cardinality(Cells(f, S)) = f[e] + Cardinality(B)
    BY <1>1, <1>3, <1>4, <1>5, <1>6, <1>7
  <1>9. QED
    BY <1>8 DEF B

\* metricsAdd over the pods is the sum of their levels, in whichever order they are read.
LEMMA SumOfLevels ==
  ASSUME NEW S, IsFiniteSet(S), NEW f \in [S -> 0 .. MaxLevel]
  PROVE  LevelSum(f) = Cardinality(Cells(f, S))
  <1> DEFINE E(s) == CHOOSE x \in s : TRUE
             Sums(it) == it = [s \in SUBSET S |-> IF s = {} THEN 0 ELSE f[E(s)] + it[s \ {E(s)}]]
             g == [s \in SUBSET S |-> Cardinality(Cells(f, s))]
  <1>0. DOMAIN f = S
    OBVIOUS
  <1>1. LevelSum(f) = (CHOOSE it : Sums(it))[S]
    BY <1>0 DEF LevelSum, FoldFunction, FoldFunctionOnSet, MapThenFoldSet
  <1>2. \A s \in SUBSET S : s # {} => E(s) \in s /\ s \ {E(s)} \in SUBSET S
    BY Zenon
  <1> HIDE DEF E
  <1>3. \A s \in SUBSET S : g[s] = IF s = {} THEN 0 ELSE f[E(s)] + g[s \ {E(s)}]
    <2> SUFFICES ASSUME NEW s \in SUBSET S
                 PROVE  g[s] = IF s = {} THEN 0 ELSE f[E(s)] + g[s \ {E(s)}]
      BY Zenon
    <2>1. CASE s = {}
      <3>1. Cells(f, s) = {}
        BY <2>1 DEF Cells
      <3>2. QED
        BY <2>1, <3>1, FS_EmptySet
    <2>2. CASE s # {}
      <3>1. E(s) \in s /\ f[E(s)] \in 0 .. MaxLevel /\ IsFiniteSet(s)
        BY <1>2, <2>2, FS_Subset
      <3>2. Cardinality(Cells(f, s)) = f[E(s)] + Cardinality(Cells(f, s \ {E(s)}))
        BY <3>1, CellsStep
      <3>3. QED
        BY <1>2, <2>2, <3>2
    <2>3. QED
      BY <2>1, <2>2, Zenon
  <1>4. Sums(g)
    BY <1>3, Zenon
  <1>5. \A it : Sums(it) => \A s \in SUBSET S : it[s] = IF s = {} THEN 0 ELSE f[E(s)] + it[s \ {E(s)}]
    BY Zenon
  <1>6. g[S] = Cardinality(Cells(f, S))
    OBVIOUS
  <1> HIDE DEF Sums, g
  <1>7. ASSUME NEW it, Sums(it) PROVE it[S] = g[S]
    <2> DEFINE T == {s \in SUBSET S : it[s] # g[s]}
    <2>1. T \subseteq FiniteSubsetsOf(S) /\ IsWellFoundedOn(StrictSubsetOrdering(S), FiniteSubsetsOf(S))
      BY FS_Subset, FS_StrictSubsetOrderingWellFounded, Zenon DEF FiniteSubsetsOf
    <2>2. CASE T # {}
      <3>1. PICK s \in T : \A y \in T : ~(<<y, s>> \in StrictSubsetOrdering(S))
        BY <2>1, <2>2, WFMin, Zenon
      <3>2. s # {}
        BY <1>3, <1>5, <1>7, <3>1, Zenon
      <3>3. s \ {E(s)} \in SUBSET S /\ E(s) \in s
        BY <1>2, <3>1, <3>2, Zenon
      <3>4. <<s \ {E(s)}, s>> \in StrictSubsetOrdering(S)
        BY <3>1, <3>3, Zenon DEF StrictSubsetOrdering
      <3>5. it[s \ {E(s)}] = g[s \ {E(s)}]
        BY <3>1, <3>3, <3>4, Zenon
      <3>6. it[s] = g[s]
        <4>1. it[s] = f[E(s)] + it[s \ {E(s)}]
          BY <1>5, <1>7, <3>1, <3>2, Zenon
        <4>2. g[s] = f[E(s)] + g[s \ {E(s)}]
          BY <1>3, <3>1, <3>2, Zenon
        <4>3. QED
          BY <3>5, <4>1, <4>2, Zenon
      <3>7. QED
        BY <3>1, <3>6
    <2>3. QED
      BY <2>2
  <1>8. QED
    BY <1>1, <1>4, <1>6, <1>7

\* One more pod adds its level.
LEMMA SumExtends ==
  ASSUME NEW S, IsFiniteSet(S), NEW f \in [S -> 0 .. MaxLevel], NEW t, t \notin S,
         NEW v \in 0 .. MaxLevel
  PROVE  LevelSum([u \in S \cup {t} |-> IF u = t THEN v ELSE f[u]]) = LevelSum(f) + v
  <1> DEFINE h == [u \in S \cup {t} |-> IF u = t THEN v ELSE f[u]]
             U == S \cup {t}
  <1>1. h \in [U -> 0 .. MaxLevel] /\ h[t] = v /\ t \in U
    OBVIOUS
  <1>2. Cells(h, S) = Cells(f, S)
    BY DEF Cells
  <1>3. U \ {t} = S /\ IsFiniteSet(U)
    BY FS_AddElement, Zenon
  <1> HIDE DEF h, U
  <1>4. Cardinality(Cells(h, U)) = v + Cardinality(Cells(h, S))
    BY <1>1, <1>3, CellsStep, Zenon
  <1>5. LevelSum(h) = Cardinality(Cells(h, U)) /\ LevelSum(f) = Cardinality(Cells(f, S))
    BY <1>1, <1>3, SumOfLevels, Zenon
  <1>6. Cardinality(Cells(f, S)) \in Nat /\ v \in Nat
    BY CellsFinite, MetricsAssumption
  <1>7. LevelSum(h) = LevelSum(f) + v
    BY <1>2, <1>4, <1>5, <1>6
  <1>8. QED
    BY <1>7 DEF h

LEMMA SumOfNone == LevelSum(Nothing) = 0
  <1>1. IsFiniteSet({}) /\ Nothing \in [{} -> 0 .. MaxLevel]
    BY FS_EmptySet DEF Nothing
  <1>2. Cells(Nothing, {}) = {}
    BY DEF Cells
  <1>3. QED
    BY <1>1, <1>2, SumOfLevels, FS_EmptySet, Zenon

\* What the poll has shown or has yet to show.
Shown == IF pc = "poll" THEN families ELSE families \cup DOMAIN published

\* The data points are the aggregates of what was read.
Aggregates ==
  /\ curSingleDataPoint["gauge"] = LevelSum(grabbed)
  /\ \A t \in DOMAIN grabbed : grabbed[t] <= curSingleDataPoint["summary"]
  /\ IF DOMAIN grabbed = {} THEN curSingleDataPoint["summary"] = 0
     ELSE \E t \in DOMAIN grabbed : grabbed[t] = curSingleDataPoint["summary"]

\* A pod is read once in a poll, a poll shows the gauge with the summary, and what
\* it published are its data points.
GaugeInv ==
  /\ grabbed \in [DOMAIN grabbed -> 0 .. MaxLevel]
  /\ DOMAIN grabbed \cap toGrab = {}
  /\ pc = "idle" => families = {}
  /\ pc = "poll" \/ Shown # {} => Aggregates
  /\ Shown # {} => {"gauge", "summary"} \subseteq Shown /\ DOMAIN grabbed # {}
  /\ pc # "poll" => \A m \in DOMAIN published : published[m] = curSingleDataPoint[m]

LEMMA MaxOf ==
  ASSUME NEW S \in SUBSET Int, NEW x \in S, \A y \in S : y <= x
  PROVE  Max(S) = x
  <1>1. \A z \in S : (\A y \in S : z >= y) => z = x
    OBVIOUS
  <1>2. \A y \in S : x >= y
    OBVIOUS
  <1>3. QED
    BY <1>1, <1>2, Zenon DEF Max

LEMMA GaugeInvShows == ASSUME PollTypeInv, GaugeInv PROVE GaugesAggregated
  <1> SUFFICES ASSUME pc = "idle", "gauge" \in DOMAIN published
               PROVE  /\ published["gauge"] = FoldFunction(+, 0, grabbed)
                      /\ published["summary"] = Max(Range(grabbed))
    BY Zenon DEF GaugesAggregated
  <1>1. Shown = DOMAIN published
    BY DEF GaugeInv, Shown
  <1>2. "summary" \in DOMAIN published /\ DOMAIN grabbed # {} /\ Aggregates
    BY <1>1 DEF GaugeInv
  <1>3. /\ published["gauge"] = curSingleDataPoint["gauge"]
        /\ published["summary"] = curSingleDataPoint["summary"]
    BY <1>2 DEF GaugeInv
  <1>4. published["gauge"] = LevelSum(grabbed)
    BY <1>2, <1>3 DEF Aggregates
  <1>5. Max(Range(grabbed)) = curSingleDataPoint["summary"]
    <2>1. Range(grabbed) \in SUBSET Int
      BY MetricsAssumption DEF Range, GaugeInv
    <2>2. curSingleDataPoint["summary"] \in Range(grabbed)
      BY <1>2, Zenon DEF Range, Aggregates
    <2>3. \A y \in Range(grabbed) : y <= curSingleDataPoint["summary"]
      BY <1>2, Zenon DEF Range, Aggregates
    <2>4. QED
      BY <2>1, <2>2, <2>3, MaxOf, Zenon
  <1>6. QED
    BY <1>3, <1>4, <1>5, Zenon DEF LevelSum

LEMMA GrabAggregates ==
  ASSUME PollTypeInv, GaugeInv, NEW t \in Target, grab(t)
  PROVE  /\ grabbed' \in [DOMAIN grabbed' -> 0 .. MaxLevel]
         /\ DOMAIN grabbed' = DOMAIN grabbed \cup {t}
         /\ Aggregates'
  <1> DEFINE S == DOMAIN grabbed
             v == level[t]
             h == [u \in S \cup {t} |-> IF u = t THEN v ELSE grabbed[u]]
  <1>1. /\ v \in 0 .. MaxLevel /\ v \in Nat /\ curSingleDataPoint["summary"] \in Nat
        /\ \A u \in S : grabbed[u] \in Nat
    BY MetricsAssumption, MetricNames DEF PollTypeInv, MetricsTypeOK, GaugeInv
  <1>2. IsFiniteSet(S) /\ t \notin S /\ grabbed \in [S -> 0 .. MaxLevel]
    <2>1. S \in SUBSET Target
      BY Zenon DEF PollTypeInv, MetricsTypeOK
    <2>2. QED
      BY <2>1, MetricsAssumption, FS_Subset, Zenon DEF GaugeInv, grab
  <1>3. grabbed' = h
    BY Zenon DEF grab
  <1>4. Aggregates /\ pc = "poll"
    BY Zenon DEF grab, GaugeInv
  <1>5. curSingleDataPoint'["gauge"] = LevelSum(h)
    <2>1. LevelSum(h) = LevelSum(grabbed) + v
      BY <1>1, <1>2, SumExtends
    <2>2. process("gauge", t) = curSingleDataPoint["gauge"] + v
      BY MetricNames, Zenon DEF process
    <2>3. QED
      BY <1>4, <2>1, <2>2, GrabStep, Zenon DEF Aggregates
  <1>6. curSingleDataPoint'["summary"] =
          IF curSingleDataPoint["summary"] < v THEN v ELSE curSingleDataPoint["summary"]
    <2>1. process("summary", t) =
            IF curSingleDataPoint["summary"] < v THEN v ELSE curSingleDataPoint["summary"]
      BY MetricNames, Zenon DEF process
    <2>2. QED
      BY <2>1, GrabStep
  <1>7. DOMAIN h = S \cup {t} /\ h[t] = v /\ \A u \in S : h[u] = grabbed[u]
    BY <1>2
  <1>8. h \in [S \cup {t} -> 0 .. MaxLevel]
    BY <1>1, <1>2, Zenon
  <1> HIDE DEF h, v
  <1>9. \A u \in DOMAIN h : h[u] <= curSingleDataPoint'["summary"]
    BY <1>1, <1>4, <1>6, <1>7 DEF Aggregates
  <1>10. \E u \in DOMAIN h : h[u] = curSingleDataPoint'["summary"]
    <2>1. CASE curSingleDataPoint["summary"] < v
      BY <1>6, <1>7, <2>1, Zenon
    <2>2. CASE ~(curSingleDataPoint["summary"] < v) /\ S # {}
      BY <1>4, <1>6, <1>7, <2>2, Zenon DEF Aggregates
    <2>3. CASE ~(curSingleDataPoint["summary"] < v) /\ S = {}
      BY <1>1, <1>4, <1>6, <1>7, <2>3 DEF Aggregates
    <2>4. QED
      BY <2>1, <2>2, <2>3, Zenon
  <1>11. QED
    BY <1>3, <1>5, <1>7, <1>8, <1>9, <1>10, Zenon DEF Aggregates

LEMMA NextGaugeInv ==
  ASSUME PollTypeInv, GaugeInv, PollStep
  PROVE  GaugeInv'
  <1>0. cluster.pods \subseteq Target
    BY PodsAreTargets, Zenon DEF PollTypeInv
  <1>1. CASE getTargetList
    <2>1. /\ curSingleDataPoint'["gauge"] = 0 /\ curSingleDataPoint'["summary"] = 0
          /\ grabbed' = Nothing /\ families' = {} /\ pc' = "poll"
      BY <1>1, MetricNames DEF getTargetList, resetMetrics
    <2>2. DOMAIN Nothing = {} /\ Nothing \in [{} -> 0 .. MaxLevel]
      BY DEF Nothing
    <2>3. Aggregates'
      BY <2>1, <2>2, SumOfNone, Zenon DEF Aggregates
    <2>4. QED
      BY <2>1, <2>2, <2>3, Zenon DEF GaugeInv, Shown
  <1>2. CASE aggregated
    <2>1. /\ published' = Nothing /\ pc = "poll" /\ pc' = "produce"
          /\ UNCHANGED <<toGrab, families, curSingleDataPoint, grabbed>>
      BY <1>2 DEF aggregated
    <2>2. DOMAIN Nothing = {}
      BY Zenon DEF Nothing
    <2>3. Shown' = Shown /\ Aggregates' = Aggregates
      BY <2>1, <2>2, Zenon DEF Shown, Aggregates
    <2>4. QED
      BY <2>1, <2>2, <2>3, Zenon DEF GaugeInv
  <1>3. CASE HandlerReturns
    <2>1. /\ pc = "produce" /\ pc' = "idle" /\ families = {}
          /\ UNCHANGED <<toGrab, families, curSingleDataPoint, grabbed, published>>
      BY <1>3, Zenon DEF HandlerReturns
    <2>2. Shown' = Shown /\ Aggregates' = Aggregates
      BY <2>1, Zenon DEF Shown, Aggregates
    <2>3. QED
      BY <2>1, <2>2, Zenon DEF GaugeInv
  <1>4. CASE restartHelper
    <2>1. /\ grabbed' = Nothing /\ published' = Nothing /\ families' = {} /\ pc' = "idle"
          /\ toGrab' = {}
      BY <1>4, Zenon DEF restartHelper
    <2>2. DOMAIN Nothing = {} /\ Nothing \in [{} -> 0 .. MaxLevel]
      BY DEF Nothing
    <2>3. QED
      BY <2>1, <2>2, Zenon DEF GaugeInv, Shown
  <1>5. ASSUME NEW t \in cluster.pods, grabFails(t) PROVE GaugeInv'
    <2>1. /\ pc = "poll" /\ toGrab' \subseteq toGrab
          /\ UNCHANGED <<pc, families, curSingleDataPoint, grabbed, published>>
      BY <1>5, Zenon DEF grabFails
    <2>2. Shown' = Shown /\ Aggregates' = Aggregates
      BY <2>1, Zenon DEF Shown, Aggregates
    <2>3. QED
      BY <2>1, <2>2, Zenon DEF GaugeInv
  <1>6. ASSUME NEW t \in cluster.pods, parseFails(t) PROVE GaugeInv'
    <2>1. /\ published' = Nothing /\ families' = {} /\ pc' = "idle" /\ toGrab' = {}
          /\ grabbed' = grabbed
      BY <1>6 DEF parseFails
    <2>2. DOMAIN Nothing = {}
      BY Zenon DEF Nothing
    <2>3. QED
      BY <2>1, <2>2, Zenon DEF GaugeInv, Shown
  <1>7. ASSUME NEW t \in cluster.pods, grab(t) PROVE GaugeInv'
    <2>1. /\ grabbed' \in [DOMAIN grabbed' -> 0 .. MaxLevel]
          /\ DOMAIN grabbed' = DOMAIN grabbed \cup {t}
          /\ Aggregates'
      BY <1>0, <1>7, GrabAggregates, Zenon
    <2>2. pc' = "poll" /\ toGrab' = toGrab \ {t}
      BY <1>7, Zenon DEF grab
    <2>3. families' \in {Metric, Metric \ {"counter"}}
      BY <1>0, <1>7, GrabStep, Zenon
    <2>4. {"gauge", "summary"} \subseteq families' /\ Shown' = families'
      BY <2>2, <2>3, MetricNames, Zenon DEF Shown
    <2>5. QED
      BY <2>1, <2>2, <2>4, Zenon DEF GaugeInv
  <1>8. ASSUME NEW t \in cluster.pods, work(t) \/ restartAgent(t) PROVE GaugeInv'
    <2>1. UNCHANGED <<pollVars, published>>
      BY <1>8, Zenon DEF work, restartAgent
    <2>2. QED
      BY <2>1, Zenon DEF pollVars, GaugeInv, Shown, Aggregates
  <1>9. ASSUME NEW m \in Metric, produceCloudWatchMetrics(m) PROVE GaugeInv'
    <2>1. /\ pc = "produce" /\ m \in families /\ families' = families \ {m}
          /\ DOMAIN published' = DOMAIN published \cup {m}
          /\ \A l \in DOMAIN published' : published'[l] = curSingleDataPoint[l]
          /\ UNCHANGED <<pc, toGrab, curSingleDataPoint, grabbed>>
      BY <1>9, Zenon DEF produceCloudWatchMetrics
    <2>2. Shown' = Shown /\ Aggregates' = Aggregates
      BY <2>1, Zenon DEF Shown, Aggregates
    <2>3. QED
      BY <2>1, <2>2, Zenon DEF GaugeInv
  <1>10. CASE UNCHANGED metricsVars
    BY <1>10 DEF metricsVars, pollVars, GaugeInv, Shown, Aggregates
  <1>11. QED
    BY <1>1, <1>2, <1>3, <1>4, <1>5, <1>6, <1>7, <1>8, <1>9, <1>10, Zenon DEF PollStep

\* What is published of a gauge is the sum, and of a summary the maximum, over the pods
\* that this poll could read: resetMetrics leaves nothing of an earlier poll.
THEOREM PollsPublishAggregates == Spec => []GaugesAggregated
  <1>1. Init => GaugeInv
    <2> SUFFICES ASSUME Init PROVE GaugeInv
      OBVIOUS
    <2>1. /\ grabbed = Nothing /\ published = Nothing /\ families = {} /\ pc = "idle"
          /\ toGrab = {}
      BY DEF Init, MetricsInit
    <2>2. DOMAIN Nothing = {} /\ Nothing \in [{} -> 0 .. MaxLevel]
      BY DEF Nothing
    <2>3. QED
      BY <2>1, <2>2, Zenon DEF GaugeInv, Shown
  <1>2. PollTypeInv /\ [Next /\ UNCHANGED cluster]_<<processVars, cluster>> => PollTypeInv'
    BY StepsOfPoll, NextPollTypeInv
  <1>3. PollTypeInv /\ GaugeInv /\ [Next /\ UNCHANGED cluster]_<<processVars, cluster>> => GaugeInv'
    BY StepsOfPoll, NextGaugeInv
  <1>4. QED
    BY <1>1, <1>2, <1>3, InitPollTypeInv, GaugeInvShows, PTL DEF Spec

=============================================================================
