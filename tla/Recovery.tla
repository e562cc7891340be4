------------------------------ MODULE Recovery ------------------------------
(***************************************************************************)
(* Restarts of ipamd on a node with pods.  All of its memory goes: the     *)
(* store, the cooling times, the discovery's tables.  nodeInit builds the  *)
(* store again from EC2's addresses and the pods that discovery lists;     *)
(* then the RPC handlers serve ADD and DEL.                                *)
(*                                                                         *)
(* The store is what AssignPodIPv4Address and UnassignPodIPv4Address see   *)
(* of it: an address for each pod key.  A key has the pod's name and a     *)
(* container ID: the sandbox's ID when kubelet calls, the ID of the first  *)
(* application container when nodeInit takes the pod from the API server.  *)
(***************************************************************************)
EXTENDS Discovery

CONSTANTS
  IP,             \* the secondary addresses of the node's ENIs
  NoIP,
  maxK8SRetries,
  MaxRestarts,    \* bound: restarts of ipamd
  Lapses          \* what may go wrong on a node: subsets of {"rules", "status", "worker"}

PodStatus == [IP : IP \cup {NoIP}, Container : BOOLEAN]   \* is there a container ID?

ASSUME RecoveryAssumption ==
  /\ NoIP \notin IP
  /\ Status = PodStatus /\ LocalStatus = Status     \* the pods of this node
  /\ maxK8SRetries \in Nat \ {0} /\ MaxRestarts \in Nat
  /\ Lapses \subseteq SUBSET {"rules", "status", "worker"}

Container == {"sandbox", "application"}
StoreKey  == Key \X Container

VARIABLES
  lapses,         \* what may go wrong on this node; it does not change
  nodePC,         \* "list", "rules", "recover" (nodeInit), "serving", "exited"
  retry,
  usedIPs,        \* what nodeInit has yet to recover: [Key -> Status or NoPod]
  podsIP,         \* [StoreKey -> IP or NoIP]
  coolingIPs,     \* addresses the store knows to be cooling
  podIP,          \* [Key -> IP or NoIP]: what the running sandboxes use
  restingIPs,     \* addresses given back within the cooling period
  restarts

recoveryVars == <<discoveryVars, nodePC, retry, usedIPs, podsIP, coolingIPs, podIP, restingIPs, restarts>>
nodeVars     == <<podIP, restingIPs, restarts>>

\* May GetRuleList fail?  May ipamd restart before the API server has a running pod's
\* address and containers?  May nodeInit list the pods before the worker has seen them all?
RuleListFails == "rules" \in lapses
StatusLags    == "status" \in lapses
WorkerLags    == "worker" \in lapses
Prompt        == ~RuleListFails /\ ~StatusLags /\ ~WorkerLags

Assigned == {podsIP[k] : k \in StoreKey} \ {NoIP}
InUse    == {podIP[k] : k \in Key} \ {NoIP}
NoPods   == [k \in Key |-> NoPod]
NoStatus == [IP |-> NoIP, Container |-> FALSE]

RecoveryTypeOK ==
  /\ DiscoveryTypeOK
  /\ nodePC \in {"list", "rules", "recover", "serving", "exited"}
  /\ retry \in 1 .. maxK8SRetries
  /\ usedIPs \in [Key -> Pod]
  /\ podsIP \in [StoreKey -> IP \cup {NoIP}]
  /\ podIP \in [Key -> IP \cup {NoIP}]
  /\ coolingIPs \subseteq IP /\ restingIPs \subseteq IP
  /\ Prompt => coolingIPs \cap Assigned = {}
  /\ restarts \in 0 .. MaxRestarts

\* A node that ipamd has just come up on: pods are scheduled, none has an address.
RecoveryInit ==
  /\ lapses \in Lapses
  /\ api \in [Key -> {NoStatus, NoPod}] /\ changes = 0
  /\ NewController
  /\ nodePC = "list" /\ retry = 1
  /\ usedIPs = NoPods
  /\ podsIP = [k \in StoreKey |-> NoIP]
  /\ podIP = [k \in Key |-> NoIP]
  /\ coolingIPs = {} /\ restingIPs = {}
  /\ restarts = 0

-----------------------------------------------------------------------------
(* nodeInit *)

\* What nodeInit gets, once synced.
K8SGetLocalPodIPs == [k \in Key |-> workerPods[k]]

\* Once synced, the worker has caught up with the API server, unless WorkerLags.
Listed == synced => \A k \in Key : workerPods[k] = api[k]

\* A slip: a pod without an IP is waited for.
getLocalPods_Waits ==
  /\ nodePC = "list"
  /\ WorkerLags \/ Listed
  /\ ~\E k \in Key : workerPods[k] # NoPod /\ workerPods[k].IP = NoIP
  /\ IF ~synced /\ retry < maxK8SRetries
     THEN retry' = retry + 1 /\ UNCHANGED <<nodePC, usedIPs>>
     ELSE /\ usedIPs' = IF synced THEN K8SGetLocalPodIPs ELSE usedIPs
          /\ nodePC' = IF synced THEN "rules" ELSE "exited"
          /\ retry' = 1
  /\ UNCHANGED <<discoveryVars, podsIP, coolingIPs, nodeVars>>

\* getLocalPodsWithRetry, one round: not synced, or a pod without an IP, is tried
\* again; the last round takes what there is, and its error ends the process.
getLocalPods ==
  /\ nodePC = "list"
  /\ WorkerLags \/ Listed
  /\ LET again == ~synced \/ \E k \in Key : workerPods[k] # NoPod /\ workerPods[k].IP = NoIP
     IN  IF again /\ retry < maxK8SRetries
         THEN retry' = retry + 1 /\ UNCHANGED <<nodePC, usedIPs>>
         ELSE /\ usedIPs' = IF synced THEN K8SGetLocalPodIPs ELSE usedIPs
              /\ nodePC' = IF synced THEN "rules" ELSE "exited"
              /\ retry' = 1
  /\ UNCHANGED <<discoveryVars, podsIP, coolingIPs, nodeVars>>

\* GetRuleList; an error ends nodeInit without one.
getRuleList ==
  /\ nodePC = "rules"
  /\ \/ nodePC' = "recover" /\ UNCHANGED usedIPs
     \/ RuleListFails /\ nodePC' = "serving" /\ usedIPs' = NoPods
  /\ UNCHANGED <<discoveryVars, retry, podsIP, coolingIPs, nodeVars>>

\* A slip: a pod without an IP ends the loop.
recoverPod_Stops(k) ==
  /\ nodePC = "recover"
  /\ usedIPs[k] # NoPod
  /\ usedIPs' = IF usedIPs[k].IP = NoIP THEN NoPods ELSE [usedIPs EXCEPT ![k] = NoPod]
  /\ podsIP' = IF usedIPs[k].Container /\ usedIPs[k].IP # NoIP
               THEN [podsIP EXCEPT ![<<k, "application">>] = usedIPs[k].IP] ELSE podsIP
  /\ UNCHANGED <<discoveryVars, nodePC, retry, coolingIPs, nodeVars>>

\* One pod of the loop: skipped without a container ID or an IP, else recorded
\* with its address, whoever else has it.
recoverPod(k) ==
  /\ nodePC = "recover"
  /\ usedIPs[k] # NoPod
  /\ usedIPs' = [usedIPs EXCEPT ![k] = NoPod]
  /\ podsIP' = IF usedIPs[k].Container /\ usedIPs[k].IP # NoIP
               THEN [podsIP EXCEPT ![<<k, "application">>] = usedIPs[k].IP] ELSE podsIP
  /\ UNCHANGED <<discoveryVars, nodePC, retry, coolingIPs, nodeVars>>

serve ==
  /\ nodePC = "recover"
  /\ usedIPs = NoPods
  /\ nodePC' = "serving"
  /\ UNCHANGED <<discoveryVars, retry, usedIPs, podsIP, coolingIPs, nodeVars>>

-----------------------------------------------------------------------------
(* RPC handlers *)

\* A slip: the address of a pod recorded by its application container is not
\* seen to be in use.
AddNetwork_IgnoresRecovered(k) ==
  /\ nodePC = "serving"
  /\ api[k] # NoPod
  /\ podIP[k] = NoIP
  /\ \E ip \in IP \ ({podsIP[<<l, "sandbox">>] : l \in Key} \cup coolingIPs) :
       /\ podsIP' = [podsIP EXCEPT ![<<k, "sandbox">>] = ip]
       /\ podIP' = [podIP EXCEPT ![k] = ip]
  /\ UNCHANGED <<discoveryVars, nodePC, retry, usedIPs, coolingIPs, restingIPs, restarts>>

AddNetwork(k) ==
  /\ nodePC = "serving"
  /\ api[k] # NoPod
  /\ podIP[k] = NoIP
  /\ \E ip \in IP \ (Assigned \cup coolingIPs) :
       /\ podsIP' = [podsIP EXCEPT ![<<k, "sandbox">>] = ip]
       /\ podIP' = [podIP EXCEPT ![k] = ip]
  /\ UNCHANGED <<discoveryVars, nodePC, retry, usedIPs, coolingIPs, restingIPs, restarts>>

\* By the sandbox's ID, then with no container ID; a pod that was recovered is
\* recorded under neither.  The sandbox goes all the same.
DelNetwork(k) ==
  /\ nodePC = "serving"
  /\ podIP[k] # NoIP
  /\ LET released == podsIP[<<k, "sandbox">>]
     IN  /\ podsIP' = [podsIP EXCEPT ![<<k, "sandbox">>] = NoIP]
         /\ coolingIPs' = IF released = NoIP THEN coolingIPs ELSE coolingIPs \cup {released}
  /\ podIP' = [podIP EXCEPT ![k] = NoIP]
  /\ restingIPs' = restingIPs \cup {podIP[k]}
  /\ UNCHANGED <<discoveryVars, nodePC, retry, usedIPs, restarts>>

-----------------------------------------------------------------------------
(* kubelet, time and restarts *)

\* kubelet reports a pod's address, and its containers once they are started.
postStatus(k) ==
  /\ api[k] # NoPod /\ podIP[k] # NoIP
  /\ \E c \in {api[k].Container, TRUE} :
       LET status == [IP |-> podIP[k], Container |-> c]
       IN  api[k] # status /\ api' = [api EXCEPT ![k] = status]
  /\ UNCHANGED <<changes, informerVars, queue, workerVars, nodePC, retry, usedIPs, podsIP, coolingIPs, nodeVars>>

\* A pod is scheduled here, or its object is deleted once the sandbox has gone.
schedulePod(k) ==
  /\ podIP[k] = NoIP
  /\ api' = [api EXCEPT ![k] = IF api[k] = NoPod THEN NoStatus ELSE NoPod]
  /\ UNCHANGED <<changes, informerVars, queue, workerVars, nodePC, retry, usedIPs, podsIP, coolingIPs, nodeVars>>

coolingOver(ip) ==
  /\ ip \in restingIPs
  /\ restingIPs' = restingIPs \ {ip}
  /\ coolingIPs' = coolingIPs \ {ip}
  /\ UNCHANGED <<discoveryVars, nodePC, retry, usedIPs, podsIP, podIP, restarts>>

\* The API server has the address of every running sandbox, and its containers.  Of a
\* pod whose sandbox has gone it may still tell the address, which another may have by now.
Posted == \A k \in Key : podIP[k] # NoIP => api[k] = [IP |-> podIP[k], Container |-> TRUE]

newProcess ==
  /\ toList' = {k \in Key : api[k] # NoPod} /\ indexer' = [k \in Key |-> NoPod]
  /\ notify' = NoKey /\ synced' = FALSE /\ queue' = {}
  /\ current' = NoKey /\ pod' = NoPod /\ workerPods' = [k \in Key |-> NoPod] /\ cniPods' = {}
  /\ nodePC' = "list" /\ retry' = 1 /\ usedIPs' = NoPods
  /\ podsIP' = [k \in StoreKey |-> NoIP] /\ coolingIPs' = {}
  /\ UNCHANGED <<api, changes, podIP, restingIPs>>

restart ==
  /\ restarts < MaxRestarts
  /\ StatusLags \/ Posted
  /\ restarts' = restarts + 1
  /\ newProcess

\* kubelet starts the container of a process that has ended.
startAgain ==
  /\ nodePC = "exited"
  /\ newProcess
  /\ UNCHANGED restarts

\* Discovery runs on, but nothing of it is read once nodeInit has its list.
Discovers(step) ==
  /\ nodePC = "list"
  /\ step
  /\ UNCHANGED <<nodePC, retry, usedIPs, podsIP, coolingIPs, nodeVars>>

RecoveryNext ==
  \/ Discovers(Informer) \/ Discovers(Worker) \/ getLocalPods \/ getRuleList \/ serve \/ restart \/ startAgain
  \/ \E k \in Key : recoverPod(k) \/ AddNetwork(k) \/ DelNetwork(k) \/ postStatus(k) \/ schedulePod(k)
  \/ \E ip \in IP : coolingOver(ip)

RecoverySpec == RecoveryInit /\ [][RecoveryNext /\ UNCHANGED lapses]_<<recoveryVars, lapses>>

\* nodeInit's goroutine does not stop.  Nothing is assumed of the informer's pace.
RecoveryFairSpec ==
  /\ RecoverySpec
  /\ WF_recoveryVars(getLocalPods) /\ WF_recoveryVars(getRuleList) /\ WF_recoveryVars(serve)
  /\ \A k \in Key : WF_recoveryVars(recoverPod(k))

-----------------------------------------------------------------------------
(* Properties *)

RunningRecorded == nodePC = "serving" => InUse \subseteq Assigned

AddressesOwn == \A k, l \in Key : podIP[k] = podIP[l] /\ podIP[k] # NoIP => k = l

\* No address of a running pod is in the pool that ADDs are served from: "With the
\* information from these 2 sources, L-IPAM can build a warm-pool that contains
\* all available secondary IP addresses on the instance" (docs/cni-proposal.md:194).
\* Provided that nodeInit gets the rules and all pods, with their containers.
PoolIsAvailable == Prompt => RunningRecorded

\* Then running pods have addresses of their own, across restarts.
OneAddressOnePod == Prompt => AddressesOwn

\* nodeInit comes to an end: the agent serves, unless the informer is not synced within
\* the retries, which ends the process.  Pods without an address get none before it
\* serves, and getLocalPodsWithRetry waits for them only so long.  Where nodeInit does
\* not wait for the worker: the code does not, and that it has caught up is an assumption.
EventuallyServes ==
  WorkerLags /\ nodePC # "serving" ~> nodePC = "serving" \/ (nodePC = "exited" /\ ~synced)

\* "If L-IPAMD restarts, the pod's IP address are assigned by only pod's name and
\* namespace" (rpc_handler.go:97), so that the DEL of such a pod releases it: a DEL
\* leaves no address recorded for its pod.
GonePodsReleased ==
  [][\A k \in Key : podIP[k] # NoIP /\ podIP'[k] = NoIP =>
       \A c \in Container : podsIP'[<<k, c>>] = NoIP]_recoveryVars

\* "When a Pod is deleted, we will keep the Pod IP address in "cooling mode" for
\* cooling period" (docs/cni-proposal.md:215), restart or not.
CoolingOutlivesRestart ==
  [][\A k \in Key : podIP'[k] # podIP[k] => podIP'[k] \notin restingIPs]_recoveryVars

=============================================================================
