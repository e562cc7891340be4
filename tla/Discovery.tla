----------------------------- MODULE Discovery -----------------------------
(***************************************************************************)
(* pkg/k8sapi: pod discovery.  An informer copies the API server's pods    *)
(* into its indexer and puts the key of each changed pod into a work       *)
(* queue; one worker takes keys, looks the pod up and updates workerPods   *)
(* (pods of this node, for ipamd) and cniPods (for the metrics helper).    *)
(*                                                                         *)
(* The queue holds a key at most once; a key added while the worker has it *)
(* is handed out again when the worker is done.  The order of keys is left *)
(* open.  GetByKey on the indexer does not fail and all objects are pods,  *)
(* so handlePodUpdate returns no error.                                    *)
(***************************************************************************)
EXTENDS Integers

CONSTANTS
  Key,            \* namespace/name of the pods in the cluster
  CNIKey,         \* those with the prefix kube-system/aws-node
  Status,         \* what handlePodUpdate reads of a pod: node, host network, IP, container ID
  LocalStatus,    \* the statuses of pods on this node and not on the host network
  NoPod,          \* no such pod
  NoKey,
  MaxChanges      \* bound: changes of pods in the API server

ASSUME DiscoveryAssumption ==
  /\ CNIKey \subseteq Key /\ LocalStatus \subseteq Status
  /\ NoPod \notin Status /\ NoKey \notin Key
  /\ MaxChanges \in Nat

VARIABLES
  api,            \* [Key -> Status or NoPod]: the API server
  changes,        \* how often it changed
  toList,         \* keys of the initial list that the informer has yet to deliver
  indexer,        \* [Key -> Status or NoPod]
  notify,         \* key whose event handler the informer is about to call
  synced,
  queue,
  current,        \* key the worker has taken
  pod,            \* what it found in the indexer
  workerPods,     \* [Key -> Status or NoPod]
  cniPods

informerVars  == <<toList, indexer, notify, synced>>
workerVars    == <<current, pod, workerPods, cniPods>>
discoveryVars == <<api, changes, informerVars, queue, workerVars>>

Pod     == Status \cup {NoPod}
Name(k) == <<k>>               \* pod.GetName() of the pod with that key

DiscoveryTypeOK ==
  /\ api \in [Key -> Pod] /\ indexer \in [Key -> Pod] /\ workerPods \in [Key -> Pod]
  /\ changes \in 0 .. MaxChanges
  /\ toList \subseteq Key /\ queue \subseteq Key
  /\ notify \in Key \cup {NoKey} /\ current \in Key \cup {NoKey}
  /\ synced \in BOOLEAN
  /\ pod \in Pod
  /\ cniPods \subseteq {Name(k) : k \in Key}

\* NewController, and the list the informer starts with.
NewController ==
  /\ toList = {k \in Key : api[k] # NoPod}
  /\ indexer = [k \in Key |-> NoPod]
  /\ notify = NoKey
  /\ synced = FALSE
  /\ queue = {}
  /\ current = NoKey
  /\ pod = NoPod
  /\ workerPods = [k \in Key |-> NoPod]
  /\ cniPods = {}

DiscoveryInit == api \in [Key -> Pod] /\ changes = 0 /\ NewController

\* Pods come, go and get a new status.  A pod stays on its node, but another of the
\* same name may follow it elsewhere, and the informer may see only that one.
ChangePod ==
  /\ changes < MaxChanges
  /\ changes' = changes + 1
  /\ \E k \in Key, p \in Pod :
       /\ p # api[k]
       /\ api[k] \in LocalStatus => p \in LocalStatus \cup {NoPod}
       /\ api' = [api EXCEPT ![k] = p]
  /\ UNCHANGED <<informerVars, queue, workerVars>>

\* The informer's goroutine: the indexer first, then the event handler.
UpdateIndexer(k) ==
  /\ notify = NoKey
  /\ k \in toList \/ indexer[k] # api[k]
  /\ toList' = toList \ {k}
  /\ indexer' = [indexer EXCEPT ![k] = api[k]]
  /\ notify' = k
  /\ UNCHANGED <<api, changes, synced, queue, workerVars>>

\* AddFunc, UpdateFunc, DeleteFunc: the key, not the pod.
HandleEvent ==
  /\ notify # NoKey
  /\ queue' = queue \cup {notify}
  /\ notify' = NoKey
  /\ UNCHANGED <<api, changes, toList, indexer, synced, workerVars>>

\* run: WaitForCacheSync, then synced; the workers start after that.
Sync ==
  /\ ~synced
  /\ toList = {} /\ notify = NoKey
  /\ synced' = TRUE
  /\ UNCHANGED <<api, changes, toList, indexer, notify, queue, workerVars>>

\* processNextItem up to GetByKey.
processNextItem(k) ==
  /\ synced
  /\ current = NoKey
  /\ k \in queue
  /\ queue' = queue \ {k}
  /\ current' = k
  /\ pod' = indexer[k]
  /\ UNCHANGED <<api, changes, informerVars, workerPods, cniPods>>

\* A slip: Done drops the mark of a key that was added meanwhile.
handlePodUpdate_DropsMark ==
  /\ current # NoKey
  /\ workerPods' = IF pod = NoPod \/ pod \in LocalStatus
                   THEN [workerPods EXCEPT ![current] = pod] ELSE workerPods
  /\ current' = NoKey /\ pod' = NoPod
  /\ queue' = queue \ {current}
  /\ UNCHANGED <<api, changes, informerVars, cniPods>>

\* A slip: a deleted pod is left in the table.
handlePodUpdate_KeepsDeleted ==
  /\ current # NoKey
  /\ workerPods' = IF pod \in LocalStatus
                   THEN [workerPods EXCEPT ![current] = pod] ELSE workerPods
  /\ current' = NoKey /\ pod' = NoPod
  /\ UNCHANGED <<api, changes, informerVars, queue, cniPods>>

\* handlePodUpdate from the locks on.  A pod that is not of this node leaves the
\* entry of its key alone, also one of an earlier pod of that name.  cniPods is
\* filled under the pod's name and emptied under its key.
handlePodUpdate ==
  /\ current # NoKey
  /\ workerPods' = IF pod = NoPod \/ pod \in LocalStatus
                   THEN [workerPods EXCEPT ![current] = pod] ELSE workerPods
  /\ cniPods' = IF current \notin CNIKey THEN cniPods
                ELSE IF pod = NoPod THEN cniPods \ {current}
                ELSE IF pod \in LocalStatus THEN cniPods
                ELSE cniPods \cup {Name(current)}
  /\ current' = NoKey /\ pod' = NoPod
  /\ UNCHANGED <<api, changes, informerVars, queue>>

Informer == HandleEvent \/ Sync \/ \E k \in Key : UpdateIndexer(k)
Worker   == handlePodUpdate \/ \E k \in Key : processNextItem(k)

DiscoveryNext == ChangePod \/ Informer \/ Worker

DiscoverySpec == DiscoveryInit /\ [][DiscoveryNext]_discoveryVars

\* The informer's and the worker's goroutines do not stop.
DiscoveryFairSpec ==
  /\ DiscoverySpec
  /\ \A k \in Key : WF_discoveryVars(UpdateIndexer(k)) /\ WF_discoveryVars(processNextItem(k))
  /\ WF_discoveryVars(HandleEvent) /\ WF_discoveryVars(Sync) /\ WF_discoveryVars(handlePodUpdate)

-----------------------------------------------------------------------------
(* Properties *)

\* No update of a pod is lost between the informer and the worker: unless its key
\* is queued or about to be, the worker has the indexer's pod, or has written it if
\* it is on this node or deleted.
NoUpdateLost ==
  \A k \in Key :
    k \notin queue /\ notify # k =>
      IF current = k THEN pod = indexer[k]
      ELSE indexer[k] \in LocalStatus \cup {NoPod} => workerPods[k] = indexer[k]

\* When the API server comes to rest, workerPods has every pod of the node with its
\* latest status, and no deleted one.  Nothing is said of a key whose pod is now on
\* another node: an earlier pod's entry stays when the informer missed the deletion.
WorkerPodsConverge == <>[](\A k \in Key : api[k] \in LocalStatus \cup {NoPod} => workerPods[k] = api[k])

\* "K8SGetLocalPodIPs return the list of pods running on the local nodes"
\* (discovery.go:166): once the API server is at rest, no others.
OnlyLocalPods == <>[](\A k \in Key : workerPods[k] # NoPod => api[k] \in LocalStatus)

\* "GetCNIPods return the list of CNI pod names" (discovery.go:103): once the API
\* server is at rest, those it has.
CNIPodsConverge == <>[](cniPods = {Name(k) : k \in {c \in CNIKey : api[c] \in Status \ LocalStatus}})

\* "K8SGetLocalPodIPs return the list of pods running on the local nodes"
\* (discovery.go:166): with pods that do not change, whenever it returns no error.
LocalPodsComplete ==
  synced /\ changes = 0 => \A k \in Key : api[k] \in LocalStatus => workerPods[k] = api[k]

=============================================================================
