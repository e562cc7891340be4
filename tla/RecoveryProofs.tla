--------------------------- MODULE RecoveryProofs ---------------------------
(***************************************************************************)
(* Discovery loses no update of a pod, for any number of pods, statuses    *)
(* and changes: NoUpdateLost is inductive together with the types.         *)
(*                                                                         *)
(* A restarted ipamd gives no running pod's address away, for any number   *)
(* of pods, addresses and restarts, provided that nodeInit can list the    *)
(* rules and has every running pod, with its containers (Prompt); pods     *)
(* that have gone may be listed too, with an address that another pod has  *)
(* by now.  The invariant                                                  *)
(* follows each running pod's address from the API server through usedIPs  *)
(* into podsIP.                                                            *)
(***************************************************************************)
EXTENDS Recovery, TLAPS

-----------------------------------------------------------------------------
(* Discovery *)

DiscoveryInv == DiscoveryTypeOK /\ NoUpdateLost

\* Nothing is indexed and nothing recorded.
LEMMA InitDiscoveryInv == DiscoveryInit => DiscoveryInv
  <1> SUFFICES ASSUME DiscoveryInit PROVE DiscoveryInv
    OBVIOUS
  <1> USE DiscoveryAssumption DEF DiscoveryInit, NewController, Pod
  <1>1. DiscoveryTypeOK
    <2>1. changes \in 0 .. MaxChanges
      OBVIOUS
    <2>2. NoPod \in Pod /\ toList \subseteq Key
      OBVIOUS
    <2>3. QED
      BY <2>1, <2>2, Zenon DEF DiscoveryTypeOK
  <1>2. NoUpdateLost
    BY DEF NoUpdateLost
  <1>3. QED
    BY <1>1, <1>2 DEF DiscoveryInv

\* Each step of the API server, the informer and the worker keeps both.
LEMMA NextDiscoveryInv == DiscoveryInv /\ [DiscoveryNext]_discoveryVars => DiscoveryInv'
  <1> SUFFICES ASSUME DiscoveryInv, [DiscoveryNext]_discoveryVars PROVE DiscoveryInv'
    OBVIOUS
  <1> USE DiscoveryAssumption DEF DiscoveryInv, informerVars, workerVars
  <1>1. CASE ChangePod
    BY <1>1 DEF ChangePod, DiscoveryTypeOK, NoUpdateLost
  <1>2. ASSUME NEW k \in Key, UpdateIndexer(k) PROVE DiscoveryInv'
    <2>1. DiscoveryTypeOK'
      BY <1>2 DEF UpdateIndexer, DiscoveryTypeOK
    <2>2. NoUpdateLost'
      BY <1>2 DEF UpdateIndexer, DiscoveryTypeOK, NoUpdateLost
    <2>3. QED
      BY <2>1, <2>2
  <1>3. CASE HandleEvent
    <2>1. DiscoveryTypeOK'
      BY <1>3 DEF HandleEvent, DiscoveryTypeOK
    <2>2. NoUpdateLost'
      BY <1>3 DEF HandleEvent, DiscoveryTypeOK, NoUpdateLost
    <2>3. QED
      BY <2>1, <2>2
  <1>4. CASE Sync
    BY <1>4 DEF Sync, DiscoveryTypeOK, NoUpdateLost
  <1>5. ASSUME NEW k \in Key, processNextItem(k) PROVE DiscoveryInv'
    <2>1. DiscoveryTypeOK'
      BY <1>5 DEF processNextItem, DiscoveryTypeOK
    <2>2. NoUpdateLost'
      BY <1>5 DEF processNextItem, DiscoveryTypeOK, NoUpdateLost
    <2>3. QED
      BY <2>1, <2>2
  <1>6. CASE handlePodUpdate
    <2>1. workerPods' \in [Key -> Pod] /\ current' = NoKey
      BY <1>6 DEF handlePodUpdate, DiscoveryTypeOK
    <2>2. cniPods' \subseteq {Name(k) : k \in Key}
      BY <1>6 DEF handlePodUpdate, DiscoveryTypeOK
    <2>3. DiscoveryTypeOK'
      BY <1>6, <2>1, <2>2, Zenon DEF handlePodUpdate, DiscoveryTypeOK, Pod
    <2>4. NoUpdateLost'
      BY <1>6 DEF handlePodUpdate, DiscoveryTypeOK, NoUpdateLost
    <2>5. QED
      BY <2>3, <2>4
  <1>7. CASE UNCHANGED discoveryVars
    BY <1>7 DEF discoveryVars, DiscoveryTypeOK, NoUpdateLost
  <1>8. QED
    BY <1>1, <1>2, <1>3, <1>4, <1>5, <1>6, <1>7 DEF DiscoveryNext, Informer, Worker

\* What the informer's indexer has of a pod of this node, the worker has recorded or is
\* recording, unless the pod's key is queued or about to be (HandleEvent, processNextItem,
\* handlePodUpdate).
THEOREM UpdatesReachWorkerPods == DiscoverySpec => []NoUpdateLost
  <1>1. DiscoveryInv => NoUpdateLost
    BY DEF DiscoveryInv
  <1>2. QED
    BY <1>1, InitDiscoveryInv, NextDiscoveryInv, PTL DEF DiscoverySpec

\* The tables and the queue hold pods and keys of the cluster only; in particular the
\* worker is never given the key of an event that was already delivered.
THEOREM DiscoveryTypes == DiscoverySpec => []DiscoveryTypeOK
  <1>1. DiscoveryInv => DiscoveryTypeOK
    BY DEF DiscoveryInv
  <1>2. QED
    BY <1>1, InitDiscoveryInv, NextDiscoveryInv, PTL DEF DiscoverySpec


-----------------------------------------------------------------------------
(* Restarts *)

\* A running pod has an object; until ipamd serves, it tells the pod's address.
ObjectsTold ==
  /\ \A k \in Key : podIP[k] # NoIP => api[k] # NoPod
  /\ nodePC # "serving" => Posted

\* What nodeInit has yet to recover, and what it has recovered.
BeingRecovered ==
  /\ \A k \in Key : usedIPs[k] # NoPod /\ podIP[k] # NoIP =>
       usedIPs[k] = [IP |-> podIP[k], Container |-> TRUE]
  /\ nodePC = "serving" => usedIPs = NoPods
  /\ nodePC # "serving" => \A k \in Key : podsIP[<<k, "sandbox">>] = NoIP

\* No running pod is left out.
NoneLeftOut ==
  \A k \in Key : podIP[k] # NoIP =>
    /\ nodePC = "rules" => usedIPs[k] # NoPod
    /\ nodePC = "recover" => usedIPs[k] # NoPod \/ podsIP[<<k, "application">>] = podIP[k]
    /\ nodePC = "serving" => \E c \in Container : podsIP[<<k, c>>] = podIP[k]

\* An address given to a sandbox is recorded once, and none that is recorded cools.
RecordedOnce ==
  /\ \A k \in Key, j \in StoreKey :
       podsIP[<<k, "sandbox">>] = podsIP[j] /\ podsIP[j] # NoIP => j = <<k, "sandbox">>
  /\ nodePC # "serving" => coolingIPs = {}
  /\ \A j \in StoreKey : podsIP[j] \notin coolingIPs

\* RecoveryTypeOK without Discovery's part.
NodeTypeOK ==
  /\ nodePC \in {"list", "rules", "recover", "serving", "exited"}
  /\ retry \in 1 .. maxK8SRetries
  /\ usedIPs \in [Key -> Pod]
  /\ podsIP \in [StoreKey -> IP \cup {NoIP}]
  /\ podIP \in [Key -> IP \cup {NoIP}]
  /\ coolingIPs \subseteq IP /\ restingIPs \subseteq IP
  /\ restarts \in 0 .. MaxRestarts

RecoveryInv ==
  /\ DiscoveryInv /\ NodeTypeOK
  /\ ObjectsTold /\ BeingRecovered /\ NoneLeftOut /\ RecordedOnce /\ AddressesOwn

\* The invariant says what the properties say.
LEMMA RecoveryInvImplies ==
  RecoveryInv => RecoveryTypeOK /\ RunningRecorded /\ AddressesOwn
  <1> SUFFICES ASSUME RecoveryInv PROVE RecoveryTypeOK /\ RunningRecorded /\ AddressesOwn
    OBVIOUS
  <1>1. RecoveryTypeOK
    <2>1. coolingIPs \subseteq IP /\ coolingIPs \cap Assigned = {}
      BY DEF RecoveryInv, RecordedOnce, NodeTypeOK, Assigned
    <2>2. QED
      BY <2>1 DEF RecoveryInv, NodeTypeOK, DiscoveryInv, RecoveryTypeOK
  <1>2. RunningRecorded
    <2> SUFFICES ASSUME nodePC = "serving", NEW k \in Key, podIP[k] # NoIP
                 PROVE  podIP[k] \in Assigned
      BY DEF RunningRecorded, InUse
    <2>1. PICK c \in Container : podsIP[<<k, c>>] = podIP[k]
      BY Zenon DEF RecoveryInv, NoneLeftOut
    <2>2. <<k, c>> \in StoreKey
      BY DEF StoreKey
    <2>3. QED
      BY <2>1, <2>2 DEF Assigned
  <1>3. QED
    BY <1>1, <1>2 DEF RecoveryInv

\* No pod has an address, and none is recorded.
LEMMA InitRecoveryInv == RecoveryInit => RecoveryInv
  <1> SUFFICES ASSUME RecoveryInit PROVE RecoveryInv
    OBVIOUS
  <1> USE RecoveryAssumption, DiscoveryAssumption DEF RecoveryInit
  <1>1. NoStatus \in Status
    BY DEF NoStatus, PodStatus
  <1>2. DiscoveryInit
    BY <1>1 DEF DiscoveryInit, Pod
  <1>3. DiscoveryInv
    BY <1>2, InitDiscoveryInv
  <1>4. NodeTypeOK
    <2>1. retry \in 1 .. maxK8SRetries /\ restarts \in 0 .. MaxRestarts
      OBVIOUS
    <2>2. usedIPs \in [Key -> Pod]
      BY DEF NoPods, Pod
    <2>3. QED
      BY <2>1, <2>2 DEF NodeTypeOK
  <1>5. ObjectsTold
    <2>1. \A k \in Key : podIP[k] = NoIP /\ api[k] \in {NoStatus, NoPod}
      OBVIOUS
    <2>2. QED
      BY <2>1, Zenon DEF ObjectsTold, Posted
  <1>6. BeingRecovered /\ NoneLeftOut
    <2>1. \A k \in Key : <<k, "sandbox">> \in StoreKey /\ <<k, "application">> \in StoreKey
      BY DEF StoreKey, Container
    <2>2. QED
      BY <2>1 DEF BeingRecovered, NoneLeftOut, NoPods
  <1>7. RecordedOnce /\ AddressesOwn
    BY DEF RecordedOnce, AddressesOwn
  <1>8. QED
    BY <1>3, <1>4, <1>5, <1>6, <1>7 DEF RecoveryInv

\* The keys of a pod are keys of the store, all different.
LEMMA KeysOfPods ==
  ASSUME NEW k \in Key
  PROVE  <<k, "sandbox">> \in StoreKey /\ <<k, "application">> \in StoreKey
  BY DEF StoreKey, Container

\* Discovery's steps touch nothing of the node.
LEMMA DiscoversKeeps ==
  RecoveryInv /\ (Discovers(Informer) \/ Discovers(Worker)) => RecoveryInv'
  <1> SUFFICES ASSUME RecoveryInv, Discovers(Informer) \/ Discovers(Worker) PROVE RecoveryInv'
    OBVIOUS
  <1>1. DiscoveryInv'
    BY NextDiscoveryInv DEF Discovers, DiscoveryNext, RecoveryInv
  <1>2. UNCHANGED <<nodePC, retry, usedIPs, podsIP, coolingIPs, podIP, restingIPs, restarts>>
    BY DEF Discovers, nodeVars
  <1>3. api' = api
    BY Zenon DEF Discovers, Informer, Worker, HandleEvent, Sync, UpdateIndexer, handlePodUpdate,
           processNextItem
  <1>4. NodeTypeOK' /\ ObjectsTold' /\ BeingRecovered'
    BY <1>2, <1>3 DEF RecoveryInv, NodeTypeOK, ObjectsTold, Posted, BeingRecovered, NoPods
  <1>5. NoneLeftOut' /\ RecordedOnce' /\ AddressesOwn'
    BY <1>2 DEF RecoveryInv, NoneLeftOut, RecordedOnce, AddressesOwn
  <1>6. QED
    BY <1>1, <1>4, <1>5 DEF RecoveryInv

\* A step that leaves Discovery's variables alone keeps its invariant.
LEMMA DiscoveryKept == RecoveryInv /\ UNCHANGED discoveryVars => DiscoveryInv'
  BY NextDiscoveryInv DEF RecoveryInv

\* nodeInit lists every running pod, with its address, or ends with the process.
LEMMA ListKeeps == Prompt /\ RecoveryInv /\ getLocalPods => RecoveryInv'
  <1> SUFFICES ASSUME Prompt, RecoveryInv, getLocalPods PROVE RecoveryInv'
    OBVIOUS
  <1> USE RecoveryAssumption, DiscoveryAssumption
  <1>0. UNCHANGED <<discoveryVars, podsIP, coolingIPs, podIP, restingIPs, restarts>>
    BY DEF getLocalPods, nodeVars
  <1>1. DiscoveryInv' /\ api' = api
    BY <1>0, DiscoveryKept DEF discoveryVars
  <1>2. nodePC = "list" /\ Listed
    BY DEF getLocalPods, Prompt
  <1>3. retry' \in 1 .. maxK8SRetries
    BY DEF getLocalPods, RecoveryInv, NodeTypeOK
  <1>4. CASE nodePC' \in {"list", "exited"} /\ UNCHANGED usedIPs
    <2>1. NodeTypeOK'
      BY <1>0, <1>3, <1>4 DEF RecoveryInv, NodeTypeOK
    <2>2. ObjectsTold' /\ BeingRecovered'
      BY <1>0, <1>1, <1>2, <1>4, Zenon DEF RecoveryInv, ObjectsTold, Posted, BeingRecovered, NoPods
    <2>3. NoneLeftOut' /\ RecordedOnce' /\ AddressesOwn'
      BY <1>0, <1>2, <1>4 DEF RecoveryInv, NoneLeftOut, RecordedOnce, AddressesOwn
    <2>4. QED
      BY <1>1, <2>1, <2>2, <2>3 DEF RecoveryInv
  <1>5. CASE synced /\ usedIPs' = [k \in Key |-> workerPods[k]] /\ nodePC' = "rules"
    <2>1. NodeTypeOK'
      BY <1>0, <1>3, <1>5 DEF RecoveryInv, NodeTypeOK, DiscoveryInv, DiscoveryTypeOK
    <2>2. \A k \in Key : usedIPs'[k] = api[k]
      BY <1>2, <1>5, Zenon DEF Listed
    <2>3. ObjectsTold'
      BY <1>0, <1>1, <1>2, <1>5 DEF RecoveryInv, ObjectsTold, Posted
    <2>4. BeingRecovered'
      <3>1. Posted
        BY <1>2, Zenon DEF RecoveryInv, ObjectsTold
      <3>2. QED
        BY <1>0, <1>2, <1>5, <2>2, <3>1, Zenon DEF RecoveryInv, BeingRecovered, Posted
    <2>5. NoneLeftOut'
      BY <1>0, <1>5, <2>2 DEF RecoveryInv, ObjectsTold, NoneLeftOut
    <2>6. RecordedOnce' /\ AddressesOwn'
      BY <1>0, <1>2, <1>5 DEF RecoveryInv, RecordedOnce, AddressesOwn
    <2>7. QED
      BY <1>1, <2>1, <2>3, <2>4, <2>5, <2>6 DEF RecoveryInv
  <1>6. QED
    BY <1>2, <1>4, <1>5, Zenon DEF getLocalPods, K8SGetLocalPodIPs

\* The rules are listed; nodeInit goes on to recover the pods.
LEMMA RulesKeeps == Prompt /\ RecoveryInv /\ getRuleList => RecoveryInv'
  <1> SUFFICES ASSUME Prompt, RecoveryInv, getRuleList PROVE RecoveryInv'
    OBVIOUS
  <1>1. /\ nodePC = "rules" /\ nodePC' = "recover"
        /\ UNCHANGED <<discoveryVars, retry, usedIPs, podsIP, coolingIPs, podIP, restingIPs, restarts>>
    BY DEF getRuleList, Prompt, nodeVars
  <1>2. DiscoveryInv' /\ api' = api
    BY <1>1, DiscoveryKept, Zenon DEF discoveryVars
  <1>3. NodeTypeOK' /\ ObjectsTold' /\ BeingRecovered'
    BY <1>1, <1>2, Zenon DEF RecoveryInv, NodeTypeOK, ObjectsTold, Posted, BeingRecovered
  <1>4. NoneLeftOut' /\ RecordedOnce' /\ AddressesOwn'
    BY <1>1 DEF RecoveryInv, NoneLeftOut, RecordedOnce, AddressesOwn
  <1>5. QED
    BY <1>2, <1>3, <1>4 DEF RecoveryInv

\* A running pod's address moves from usedIPs to podsIP; a pod that has gone may add
\* an address that is recorded already.
LEMMA RecoverKeeps ==
  ASSUME NEW k \in Key, RecoveryInv, recoverPod(k) PROVE RecoveryInv'
  <1> USE RecoveryAssumption, DiscoveryAssumption, KeysOfPods
  <1>1. /\ nodePC = "recover"
        /\ UNCHANGED <<discoveryVars, nodePC, retry, coolingIPs, podIP, restingIPs, restarts>>
        /\ usedIPs[k] # NoPod /\ usedIPs' = [usedIPs EXCEPT ![k] = NoPod]
    BY Zenon DEF recoverPod, nodeVars
  <1>2. DiscoveryInv' /\ api' = api
    BY <1>1, DiscoveryKept DEF discoveryVars
  <1>3. usedIPs[k] \in PodStatus
    BY <1>1 DEF RecoveryInv, NodeTypeOK, Pod
  <1>4. usedIPs[k].IP \in IP \cup {NoIP}
    BY <1>3 DEF PodStatus
  <1>5. /\ podsIP' \in [StoreKey -> IP \cup {NoIP}]
        /\ \A j \in StoreKey : j # <<k, "application">> => podsIP'[j] = podsIP[j]
    BY <1>4, Zenon DEF recoverPod, RecoveryInv, NodeTypeOK
  <1>6. podIP[k] # NoIP => podsIP'[<<k, "application">>] = podIP[k]
    <2> SUFFICES ASSUME podIP[k] # NoIP PROVE podsIP'[<<k, "application">>] = podIP[k]
      OBVIOUS
    <2>1. usedIPs[k] = [IP |-> podIP[k], Container |-> TRUE]
      BY <1>1, Zenon DEF RecoveryInv, BeingRecovered
    <2>2. usedIPs[k].IP = podIP[k] /\ usedIPs[k].Container
      BY <2>1
    <2>3. QED
      BY <2>2, Zenon DEF recoverPod, RecoveryInv, NodeTypeOK
  <1>7. NodeTypeOK'
    BY <1>1, <1>5, Zenon DEF RecoveryInv, NodeTypeOK, Pod
  <1>8. ObjectsTold'
    BY <1>1, <1>2, Zenon DEF RecoveryInv, ObjectsTold, Posted
  <1>9. BeingRecovered'
    <2>1. \A l \in Key : usedIPs'[l] # NoPod => usedIPs'[l] = usedIPs[l]
      BY <1>1 DEF RecoveryInv, NodeTypeOK
    <2>2. ASSUME NEW l \in Key PROVE podsIP'[<<l, "sandbox">>] = NoIP
      <3>1. podsIP[<<l, "sandbox">>] = NoIP
        BY <1>1, Zenon DEF RecoveryInv, BeingRecovered
      <3>2. <<l, "sandbox">> # <<k, "application">>
        OBVIOUS
      <3>3. QED
        BY <1>5, <3>1, <3>2
    <2>3. QED
      BY <1>1, <2>1, <2>2, ZenonT(40) DEF RecoveryInv, BeingRecovered
  <1>10. NoneLeftOut'
    <2> SUFFICES ASSUME NEW l \in Key, podIP[l] # NoIP
                 PROVE  usedIPs'[l] # NoPod \/ podsIP'[<<l, "application">>] = podIP[l]
      BY <1>1 DEF NoneLeftOut
    <2>1. CASE l = k
      BY <1>6, <2>1
    <2>2. CASE l # k
      <3>1. usedIPs'[l] = usedIPs[l]
        BY <1>1, <2>2 DEF RecoveryInv, NodeTypeOK
      <3>2. podsIP'[<<l, "application">>] = podsIP[<<l, "application">>]
        BY <1>5, <2>2, Zenon
      <3>3. QED
        BY <1>1, <3>1, <3>2 DEF RecoveryInv, NoneLeftOut
    <2>3. QED
      BY <2>1, <2>2
  <1>11. RecordedOnce'
    <2>1. \A l \in Key : podsIP'[<<l, "sandbox">>] = NoIP
      BY <1>1, <1>9, Zenon DEF BeingRecovered
    <2>2. coolingIPs' = {}
      BY <1>1 DEF RecoveryInv, RecordedOnce
    <2>3. QED
      BY <2>1, <2>2 DEF RecordedOnce
  <1>12. AddressesOwn'
    BY <1>1 DEF RecoveryInv, AddressesOwn
  <1>13. QED
    BY <1>2, <1>7, <1>8, <1>9, <1>10, <1>11, <1>12 DEF RecoveryInv

\* When nodeInit has nothing left to recover, every running pod is recorded.
LEMMA ServeKeeps == RecoveryInv /\ serve => RecoveryInv'
  <1> SUFFICES ASSUME RecoveryInv, serve PROVE RecoveryInv'
    OBVIOUS
  <1>1. /\ nodePC = "recover" /\ nodePC' = "serving" /\ usedIPs = NoPods
        /\ UNCHANGED <<discoveryVars, retry, usedIPs, podsIP, coolingIPs, podIP, restingIPs, restarts>>
    BY DEF serve, nodeVars
  <1>2. DiscoveryInv' /\ api' = api
    BY <1>1, DiscoveryKept, Zenon DEF discoveryVars
  <1>3. NodeTypeOK' /\ ObjectsTold' /\ BeingRecovered'
    BY <1>1, <1>2 DEF RecoveryInv, NodeTypeOK, ObjectsTold, BeingRecovered, NoPods
  <1>4. NoneLeftOut'
    <2>1. \A k \in Key : usedIPs[k] = NoPod
      BY <1>1 DEF NoPods
    <2>2. QED
      BY <1>1, <2>1 DEF RecoveryInv, NoneLeftOut, Container
  <1>5. RecordedOnce' /\ AddressesOwn'
    BY <1>1 DEF RecoveryInv, RecordedOnce, AddressesOwn
  <1>6. QED
    BY <1>2, <1>3, <1>4, <1>5 DEF RecoveryInv

\* The address given is recorded for nobody, so no running pod has it.
LEMMA AddKeeps ==
  ASSUME NEW k \in Key, RecoveryInv, AddNetwork(k) PROVE RecoveryInv'
  <1> USE RecoveryAssumption, DiscoveryAssumption, KeysOfPods
  <1>1. /\ nodePC = "serving" /\ api[k] # NoPod
        /\ UNCHANGED <<discoveryVars, nodePC, retry, usedIPs, coolingIPs, restingIPs, restarts>>
    BY DEF AddNetwork
  <1>2. PICK ip \in IP \ (Assigned \cup coolingIPs) :
          /\ podsIP' = [podsIP EXCEPT ![<<k, "sandbox">>] = ip]
          /\ podIP' = [podIP EXCEPT ![k] = ip]
    BY Zenon DEF AddNetwork
  <1>3. DiscoveryInv' /\ api' = api
    BY <1>1, DiscoveryKept DEF discoveryVars
  <1>4. \A j \in StoreKey : podsIP[j] # ip
    BY <1>2 DEF Assigned
  <1>5. \A l \in Key : podIP[l] # ip
    BY <1>1, <1>2, RecoveryInvImplies DEF RunningRecorded, InUse
  <1>6. NodeTypeOK'
    BY <1>1, <1>2, Zenon DEF RecoveryInv, NodeTypeOK
  <1>7. ObjectsTold'
    BY <1>1, <1>2, <1>3 DEF RecoveryInv, NodeTypeOK, ObjectsTold
  <1>8. BeingRecovered'
    BY <1>1, <1>3 DEF RecoveryInv, BeingRecovered, NoPods
  <1>9. NoneLeftOut'
    <2> SUFFICES ASSUME NEW l \in Key, podIP'[l] # NoIP
                 PROVE  \E c \in Container : podsIP'[<<l, c>>] = podIP'[l]
      BY <1>1 DEF NoneLeftOut
    <2>1. CASE l = k
      BY <1>2, <2>1 DEF RecoveryInv, NodeTypeOK, Container
    <2>2. CASE l # k
      <3>1. podIP'[l] = podIP[l]
        BY <1>2, <2>2 DEF RecoveryInv, NodeTypeOK
      <3>2. PICK c \in Container : podsIP[<<l, c>>] = podIP[l]
        BY <1>1, <3>1 DEF RecoveryInv, NoneLeftOut
      <3>3. podsIP'[<<l, c>>] = podsIP[<<l, c>>]
        BY <1>2, <2>2 DEF RecoveryInv, NodeTypeOK, StoreKey
      <3>4. QED
        BY <3>1, <3>2, <3>3
    <2>3. QED
      BY <2>1, <2>2, Zenon
  <1>10. RecordedOnce'
    <2>1. ASSUME NEW l \in Key, NEW j \in StoreKey, podsIP'[<<l, "sandbox">>] = podsIP'[j],
                 podsIP'[j] # NoIP
          PROVE  j = <<l, "sandbox">>
      BY <1>2, <1>4, <2>1 DEF RecoveryInv, NodeTypeOK, RecordedOnce
    <2>2. \A j \in StoreKey : podsIP'[j] \notin coolingIPs
      BY <1>2 DEF RecoveryInv, NodeTypeOK, RecordedOnce
    <2>3. QED
      BY <1>1, <2>1, <2>2 DEF RecordedOnce
  <1>11. AddressesOwn'
    BY <1>2, <1>5 DEF RecoveryInv, NodeTypeOK, AddressesOwn
  <1>12. QED
    BY <1>3, <1>6, <1>7, <1>8, <1>9, <1>10, <1>11 DEF RecoveryInv

\* The address released was recorded for this pod only.
LEMMA DelKeeps ==
  ASSUME NEW k \in Key, RecoveryInv, DelNetwork(k) PROVE RecoveryInv'
  <1> USE RecoveryAssumption, DiscoveryAssumption, KeysOfPods
  <1> DEFINE released == podsIP[<<k, "sandbox">>]
  <1>1. /\ nodePC = "serving" /\ podIP[k] # NoIP
        /\ podsIP' = [podsIP EXCEPT ![<<k, "sandbox">>] = NoIP]
        /\ coolingIPs' = IF released = NoIP THEN coolingIPs ELSE coolingIPs \cup {released}
        /\ podIP' = [podIP EXCEPT ![k] = NoIP]
        /\ restingIPs' = restingIPs \cup {podIP[k]}
        /\ UNCHANGED <<discoveryVars, nodePC, retry, usedIPs, restarts>>
    BY DEF DelNetwork
  <1>2. DiscoveryInv' /\ api' = api
    BY <1>1, DiscoveryKept DEF discoveryVars
  <1>3. NodeTypeOK'
    <2>1. released \in IP \cup {NoIP} /\ podIP[k] \in IP
      BY <1>1, Zenon DEF RecoveryInv, NodeTypeOK
    <2>2. QED
      BY <1>1, <2>1, Zenon DEF RecoveryInv, NodeTypeOK
  <1>4. ObjectsTold' /\ BeingRecovered'
    <2>1. /\ podIP \in [Key -> IP \cup {NoIP}] /\ usedIPs = NoPods
          /\ \A l \in Key : podIP[l] # NoIP => api[l] # NoPod
      BY <1>1, Zenon DEF RecoveryInv, NodeTypeOK, ObjectsTold, BeingRecovered
    <2>2. ObjectsTold'
      BY <1>1, <1>2, <2>1, Zenon DEF ObjectsTold
    <2>3. BeingRecovered'
      BY <1>1, <2>1, Zenon DEF BeingRecovered, NoPods
    <2>4. QED
      BY <2>2, <2>3, Zenon
  <1>5. NoneLeftOut'
    <2> SUFFICES ASSUME NEW l \in Key, podIP'[l] # NoIP
                 PROVE  \E c \in Container : podsIP'[<<l, c>>] = podIP'[l]
      BY <1>1 DEF NoneLeftOut
    <2>1. l # k /\ podIP'[l] = podIP[l]
      BY <1>1, Zenon DEF RecoveryInv, NodeTypeOK
    <2>2. PICK c \in Container : podsIP[<<l, c>>] = podIP[l]
      BY <1>1, <2>1 DEF RecoveryInv, NoneLeftOut
    <2>3. podsIP'[<<l, c>>] = podsIP[<<l, c>>]
      BY <1>1, <2>1, Zenon DEF RecoveryInv, NodeTypeOK, StoreKey
    <2>4. QED
      BY <2>1, <2>2, <2>3
  <1>6. RecordedOnce'
    <2>1. ASSUME NEW j \in StoreKey, podsIP'[j] # NoIP
          PROVE  podsIP'[j] = podsIP[j] /\ podsIP[j] # released
      BY <1>1, <2>1, ZenonT(40) DEF RecoveryInv, NodeTypeOK, RecordedOnce
    <2>2. \A j \in StoreKey : podsIP'[j] \notin coolingIPs'
      <3>1. NoIP \notin coolingIPs'
        BY <1>3 DEF NodeTypeOK
      <3>2. QED
        BY <1>1, <2>1, <3>1 DEF RecoveryInv, RecordedOnce
    <2>3. QED
      BY <1>1, <2>1, <2>2 DEF RecoveryInv, RecordedOnce
  <1>7. AddressesOwn'
    BY <1>1 DEF RecoveryInv, NodeTypeOK, AddressesOwn
  <1>8. QED
    BY <1>2, <1>3, <1>4, <1>5, <1>6, <1>7, Zenon DEF RecoveryInv

\* A change of the API server's objects: Discovery's invariant does not read them.
LEMMA ApiChangeKeeps ==
  ASSUME RecoveryInv, NEW k \in Key, NEW p \in Pod, api' = [api EXCEPT ![k] = p],
         UNCHANGED <<changes, informerVars, queue, workerVars, nodePC, retry, usedIPs, podsIP,
                     coolingIPs, nodeVars>>,
         podIP[k] # NoIP => p # NoPod,
         nodePC # "serving" /\ podIP[k] # NoIP => p = [IP |-> podIP[k], Container |-> TRUE]
  PROVE  RecoveryInv'
  <1> USE DiscoveryAssumption DEF nodeVars, informerVars, workerVars
  <1>1. DiscoveryInv'
    BY DEF RecoveryInv, DiscoveryInv, DiscoveryTypeOK, NoUpdateLost
  <1>2. \A l \in Key : api'[l] = IF l = k THEN p ELSE api[l]
    BY DEF RecoveryInv, DiscoveryInv, DiscoveryTypeOK
  <1>3. ObjectsTold'
    <2>1. ObjectsTold
      BY Zenon DEF RecoveryInv
    <2>2. nodePC # "serving" => Posted'
      BY <1>2, <2>1, Zenon DEF ObjectsTold, Posted
    <2>3. \A l \in Key : podIP'[l] # NoIP => api'[l] # NoPod
      BY <1>2, <2>1, Zenon DEF ObjectsTold
    <2>4. QED
      BY <2>2, <2>3, Zenon DEF ObjectsTold
  <1>4. NodeTypeOK' /\ BeingRecovered'
    BY Zenon DEF RecoveryInv, NodeTypeOK, BeingRecovered, NoPods
  <1>5. NoneLeftOut' /\ RecordedOnce' /\ AddressesOwn'
    BY DEF RecoveryInv, NoneLeftOut, RecordedOnce, AddressesOwn
  <1>6. QED
    BY <1>1, <1>3, <1>4, <1>5 DEF RecoveryInv

\* Until ipamd serves again there is nothing new to post.
LEMMA PostKeeps ==
  ASSUME NEW k \in Key, RecoveryInv, postStatus(k) PROVE RecoveryInv'
  <1> USE RecoveryAssumption, DiscoveryAssumption
  <1>1. PICK c \in {api[k].Container, TRUE} : api' = [api EXCEPT ![k] = [IP |-> podIP[k], Container |-> c]]
    BY Zenon DEF postStatus
  <1>2. api[k] # NoPod /\ podIP[k] # NoIP
    BY Zenon DEF postStatus
  <1>3. podIP[k] \in IP
    BY <1>2, Zenon DEF RecoveryInv, NodeTypeOK
  <1>4. api[k] \in PodStatus
    BY <1>2 DEF RecoveryInv, DiscoveryInv, DiscoveryTypeOK, Pod
  <1>5. c \in BOOLEAN
    BY <1>1, <1>4, ZenonT(40) DEF PodStatus
  <1> DEFINE p == [IP |-> podIP[k], Container |-> c]
  <1>6. p \in Pod /\ p # NoPod
    <2>1. p \in [IP : IP \cup {NoIP}, Container : BOOLEAN]
      BY <1>3, <1>5, Zenon
    <2>2. p \in Status
      BY <2>1, Zenon DEF PodStatus
    <2>3. QED
      BY <2>2, Zenon DEF Pod
  <1>7. nodePC # "serving" => c = TRUE
    <2>1. nodePC # "serving" => api[k] = [IP |-> podIP[k], Container |-> TRUE]
      BY <1>2, Zenon DEF RecoveryInv, ObjectsTold, Posted
    <2>2. nodePC # "serving" => api[k].Container = TRUE
      BY <2>1
    <2>3. QED
      BY <1>1, <2>2, Zenon
  <1>8. UNCHANGED <<changes, informerVars, queue, workerVars, nodePC, retry, usedIPs, podsIP,
                    coolingIPs, nodeVars>>
    BY Zenon DEF postStatus
  <1>9. nodePC # "serving" => p = [IP |-> podIP[k], Container |-> TRUE]
    BY <1>7, Zenon
  <1> HIDE DEF p
  <1>10. api' = [api EXCEPT ![k] = p]
    BY <1>1 DEF p
  <1>11. QED
    BY <1>6, <1>8, <1>9, <1>10, ApiChangeKeeps, Zenon

\* Only pods without a sandbox come and go.
LEMMA ScheduleKeeps ==
  ASSUME NEW k \in Key, RecoveryInv, schedulePod(k) PROVE RecoveryInv'
  <1> DEFINE p == IF api[k] = NoPod THEN NoStatus ELSE NoPod
  <1>1. NoStatus \in Pod
    BY RecoveryAssumption DEF NoStatus, PodStatus, Pod
  <1>2. p \in Pod
    BY <1>1 DEF Pod
  <1>3. /\ podIP[k] = NoIP /\ api' = [api EXCEPT ![k] = p]
        /\ UNCHANGED <<changes, informerVars, queue, workerVars, nodePC, retry, usedIPs, podsIP,
                       coolingIPs, nodeVars>>
    BY DEF schedulePod
  <1> HIDE DEF p
  <1>4. QED
    BY <1>2, <1>3, ApiChangeKeeps, Zenon

\* An address that has cooled is still recorded for nobody.
LEMMA CooledKeeps ==
  ASSUME NEW ip \in IP, RecoveryInv, coolingOver(ip) PROVE RecoveryInv'
  <1>1. /\ restingIPs' = restingIPs \ {ip} /\ coolingIPs' = coolingIPs \ {ip}
        /\ UNCHANGED <<discoveryVars, nodePC, retry, usedIPs, podsIP, podIP, restarts>>
    BY DEF coolingOver
  <1>2. DiscoveryInv' /\ api' = api
    BY <1>1, DiscoveryKept, Zenon DEF discoveryVars
  <1>3. NodeTypeOK' /\ ObjectsTold' /\ BeingRecovered'
    BY <1>1, <1>2, Zenon DEF RecoveryInv, NodeTypeOK, ObjectsTold, Posted, BeingRecovered, NoPods
  <1>4. NoneLeftOut' /\ RecordedOnce' /\ AddressesOwn'
    BY <1>1 DEF RecoveryInv, NoneLeftOut, RecordedOnce, AddressesOwn
  <1>5. QED
    BY <1>2, <1>3, <1>4 DEF RecoveryInv

\* All memory goes; the API server has told every running pod's address.
LEMMA RestartKeeps ==
  ASSUME RecoveryInv, newProcess, Posted, restarts' \in 0 .. MaxRestarts PROVE RecoveryInv'
  <1> USE RecoveryAssumption, DiscoveryAssumption, KeysOfPods
  <1>1. /\ toList' = {k \in Key : api[k] # NoPod} /\ indexer' = [k \in Key |-> NoPod]
        /\ notify' = NoKey /\ synced' = FALSE /\ queue' = {}
        /\ current' = NoKey /\ pod' = NoPod /\ workerPods' = [k \in Key |-> NoPod] /\ cniPods' = {}
        /\ UNCHANGED <<api, changes>>
    BY DEF newProcess
  <1>2. /\ nodePC' = "list" /\ retry' = 1 /\ usedIPs' = NoPods
        /\ podsIP' = [k \in StoreKey |-> NoIP] /\ coolingIPs' = {}
        /\ UNCHANGED <<api, podIP, restingIPs>>
    BY DEF newProcess
  <1>3. DiscoveryInv'
    <2>1. DiscoveryTypeOK'
      BY <1>1, Zenon DEF RecoveryInv, DiscoveryInv, DiscoveryTypeOK, Pod
    <2>2. NoUpdateLost'
      BY <1>1, Zenon DEF NoUpdateLost
    <2>3. QED
      BY <2>1, <2>2 DEF DiscoveryInv
  <1>4. NodeTypeOK'
    <2>1. retry' \in 1 .. maxK8SRetries
      BY <1>2
    <2>2. QED
      BY <1>2, <2>1 DEF RecoveryInv, NodeTypeOK, NoPods, Pod
  <1>5. ObjectsTold'
    BY <1>2, Zenon DEF RecoveryInv, ObjectsTold, Posted
  <1>6. BeingRecovered' /\ NoneLeftOut'
    BY <1>2, Zenon DEF BeingRecovered, NoneLeftOut, NoPods
  <1>7. RecordedOnce' /\ AddressesOwn'
    BY <1>2 DEF RecoveryInv, RecordedOnce, AddressesOwn
  <1>8. QED
    BY <1>3, <1>4, <1>5, <1>6, <1>7, Zenon DEF RecoveryInv

\* Each step keeps the invariant.
LEMMA NextRecoveryInv == Prompt /\ RecoveryInv /\ [RecoveryNext]_recoveryVars => RecoveryInv'
  <1> SUFFICES ASSUME Prompt, RecoveryInv, [RecoveryNext]_recoveryVars PROVE RecoveryInv'
    OBVIOUS
  <1>1. CASE UNCHANGED recoveryVars
    <2>1. /\ UNCHANGED discoveryVars
          /\ UNCHANGED <<nodePC, retry, usedIPs, podsIP, coolingIPs, podIP, restingIPs, restarts>>
      BY <1>1 DEF recoveryVars
    <2>2. DiscoveryInv' /\ api' = api
      BY <2>1, DiscoveryKept, Zenon DEF discoveryVars
    <2>3. NodeTypeOK' /\ ObjectsTold' /\ BeingRecovered'
      BY <2>1, <2>2, Zenon DEF RecoveryInv, NodeTypeOK, ObjectsTold, Posted, BeingRecovered, NoPods
    <2>4. NoneLeftOut' /\ RecordedOnce' /\ AddressesOwn'
      BY <2>1, Zenon DEF RecoveryInv, NoneLeftOut, RecordedOnce, AddressesOwn
    <2>5. QED
      BY <2>2, <2>3, <2>4 DEF RecoveryInv
  <1>2. CASE restart
    <2>1. restarts' \in 0 .. MaxRestarts
      BY <1>2, RecoveryAssumption DEF restart, RecoveryInv, NodeTypeOK
    <2>2. newProcess /\ Posted
      BY <1>2, Zenon DEF restart, Prompt
    <2>3. QED
      BY <2>1, <2>2, RestartKeeps
  <1>3. CASE startAgain
    <2>1. restarts' \in 0 .. MaxRestarts
      BY <1>3, Zenon DEF startAgain, RecoveryInv, NodeTypeOK
    <2>2. newProcess /\ Posted
      BY <1>3 DEF startAgain, RecoveryInv, ObjectsTold
    <2>3. QED
      BY <2>1, <2>2, RestartKeeps
  <1>4. CASE RecoveryNext
    BY <1>2, <1>3, <1>4, DiscoversKeeps, ListKeeps, RulesKeeps, ServeKeeps, RecoverKeeps, AddKeeps,
       DelKeeps, PostKeeps, ScheduleKeeps, CooledKeeps, Zenon DEF RecoveryNext
  <1>5. QED
    BY <1>1, <1>4

\* lapses stays what it is, and with it Prompt.
LEMMA PromptInductive ==
  /\ RecoveryInit => (Prompt => RecoveryInv)
  /\ (Prompt => RecoveryInv) /\ [RecoveryNext /\ UNCHANGED lapses]_<<recoveryVars, lapses>>
       => (Prompt => RecoveryInv)'
  <1>1. ASSUME Prompt => RecoveryInv, [RecoveryNext /\ UNCHANGED lapses]_<<recoveryVars, lapses>>, Prompt'
        PROVE  RecoveryInv'
    <2>1. Prompt /\ [RecoveryNext]_recoveryVars
      BY <1>1 DEF Prompt, RuleListFails, StatusLags, WorkerLags
    <2>2. QED
      BY <1>1, <2>1, NextRecoveryInv
  <1>2. QED
    BY <1>1, InitRecoveryInv

\* Whenever the RPC handlers serve, every running pod's address is recorded as assigned, so
\* AssignPodIPv4Address does not give it away, after any number of restarts, also when the
\* API server lists a pod that has gone with the address of a running one (nodeInit,
\* getLocalPodsWithRetry, AddNetwork, DelNetwork).
THEOREM RecoveredPoolIsAvailable == RecoverySpec => []PoolIsAvailable
  <1>1. (Prompt => RecoveryInv) => PoolIsAvailable
    BY RecoveryInvImplies DEF PoolIsAvailable
  <1>2. QED
    BY <1>1, PromptInductive, PTL DEF RecoverySpec

\* So two running pods never have the same address.
THEOREM PodsHaveOwnAddress == RecoverySpec => []OneAddressOnePod
  <1>1. (Prompt => RecoveryInv) => OneAddressOnePod
    BY RecoveryInvImplies DEF OneAddressOnePod
  <1>2. QED
    BY <1>1, PromptInductive, PTL DEF RecoverySpec

\* The tables keep their types; in particular no recorded address cools.
THEOREM RecoveryTypes == RecoverySpec => [](Prompt => RecoveryTypeOK)
  <1>1. (Prompt => RecoveryInv) => (Prompt => RecoveryTypeOK)
    BY RecoveryInvImplies
  <1>2. QED
    BY <1>1, PromptInductive, PTL DEF RecoverySpec

=============================================================================
