----------------------------- MODULE ENIConfig -----------------------------
(***************************************************************************)
(* pkg/eniconfig, with custom networking: which ENIConfig the ENIs of this *)
(* node are made with.  The controller keeps the cluster's ENIConfigs in   *)
(* eni and the name of the node's own in myENI; two informers call Handle  *)
(* for each changed object, and the pool manager, which does not wait for  *)
(* them, asks MyENIConfig before it makes an ENI.                          *)
(*                                                                         *)
(* An informer's queue holds the key of each object that changed since its *)
(* worker last took it; there is one worker per informer, and an object    *)
(* that changes while its worker has it is taken again.                    *)
(***************************************************************************)
EXTENDS Integers

CONSTANTS
  Name,           \* names of ENIConfigs
  eniConfigDefault,
  ENISpec,        \* a subnet and security groups
  Node, myNodeName,
  None,           \* no such ENIConfig, annotation, label
  MaxChanges      \* bound: changes of objects in the cluster

\* What a worker has taken of an ENIConfig, and of a node.
ConfigObject == [name : Name, spec : ENISpec \cup {None}]
NodeObject   == [name : Node, annotation : Name \cup {None}, label : Name \cup {None}]

ASSUME ENIConfigAssumption ==
  /\ eniConfigDefault \in Name /\ myNodeName \in Node
  /\ Name \cap Node = {}                  \* there is a queue for each
  /\ None \notin Name /\ None \notin ENISpec /\ None \notin ConfigObject /\ None \notin NodeObject
  /\ MaxChanges \in Nat

VARIABLES
  configs,        \* [Name -> ENISpec or None]: the cluster's ENIConfigs
  annotation, label,    \* [Node -> Name or None]: the value under the agent's key
  changes,        \* how often these have changed
  queue,          \* names and nodes that the workers have to take
  config, node,   \* the ENIConfig and the node the workers are handling, or None
  eni, myENI,     \* the controller
  newENI          \* what tryAllocateENI makes the last ENI with, or None

clusterVars    == <<configs, annotation, label, changes>>
controllerVars == <<eni, myENI>>
configVars     == <<clusterVars, queue, config, node, controllerVars, newENI>>

ENIConfigTypeOK ==
  /\ configs \in [Name -> ENISpec \cup {None}] /\ eni \in [Name -> ENISpec \cup {None}]
  /\ annotation \in [Node -> Name \cup {None}] /\ label \in [Node -> Name \cup {None}]
  /\ myENI \in Name
  /\ queue \subseteq Name \cup Node
  /\ config \in ConfigObject \cup {None}
  /\ node \in NodeObject \cup {None}
  /\ newENI \in ENISpec \cup {None}
  /\ changes \in 0 .. MaxChanges

\* "annotations take precedence over labels" (README.md:122); the agent's default is last.
selects(a, l) == IF a # None THEN a ELSE IF l # None THEN l ELSE eniConfigDefault

chosenSpec == configs[selects(annotation[myNodeName], label[myNodeName])]

\* NewENIConfigController; the informers list what is there.
ENIConfigInit ==
  /\ configs \in [Name -> ENISpec \cup {None}]
  /\ annotation \in [Node -> Name \cup {None}] /\ label \in [Node -> Name \cup {None}]
  /\ changes = 0
  /\ queue = {n \in Name : configs[n] # None} \cup Node
  /\ config = None /\ node = None
  /\ eni = [n \in Name |-> None] /\ myENI = eniConfigDefault
  /\ newENI = None

-----------------------------------------------------------------------------
(* The cluster *)

changed(key) ==
  /\ changes < MaxChanges /\ changes' = changes + 1
  /\ queue' = queue \cup {key}
  /\ UNCHANGED <<config, node, controllerVars, newENI>>

ChangeENIConfig(n) ==
  /\ \E s \in (ENISpec \cup {None}) \ {configs[n]} : configs' = [configs EXCEPT ![n] = s]
  /\ UNCHANGED <<annotation, label>>
  /\ changed(n)

ChangeNode(n) ==
  /\ \E a, l \in Name \cup {None} :
       /\ <<a, l>> # <<annotation[n], label[n]>>
       /\ annotation' = [annotation EXCEPT ![n] = a]
       /\ label' = [label EXCEPT ![n] = l]
  /\ UNCHANGED configs
  /\ changed(n)

\* Every resyncPeriod the informers queue all they have.
resync ==
  /\ queue' = queue \cup {n \in Name : configs[n] # None} \cup Node
  /\ UNCHANGED <<clusterVars, config, node, controllerVars, newENI>>

-----------------------------------------------------------------------------
(* The informers' workers, and Handle *)

takeENIConfig(n) ==
  /\ n \in queue /\ config = None
  /\ queue' = queue \ {n}
  /\ config' = [name |-> n, spec |-> configs[n]]
  /\ UNCHANGED <<clusterVars, node, controllerVars, newENI>>

takeNode(n) ==
  /\ n \in queue /\ node = None
  /\ queue' = queue \ {n}
  /\ node' = [name |-> n, annotation |-> annotation[n], label |-> label[n]]
  /\ UNCHANGED <<clusterVars, config, controllerVars, newENI>>

\* A slip: the ENIConfig that is deleted is not.
HandleENIConfig_KeepsDeleted ==
  /\ config # None
  /\ eni' = IF config.spec = None THEN eni ELSE [eni EXCEPT ![config.name] = config.spec]
  /\ config' = None
  /\ UNCHANGED <<clusterVars, queue, node, myENI, newENI>>

HandleENIConfig ==
  /\ config # None
  /\ eni' = [eni EXCEPT ![config.name] = config.spec]
  /\ config' = None
  /\ UNCHANGED <<clusterVars, queue, node, myENI, newENI>>

\* A slip: a node that has neither annotation nor label is skipped.
HandleNode_NoDefault ==
  /\ node # None
  /\ myENI' = IF node.name = myNodeName /\ (node.annotation # None \/ node.label # None)
              THEN selects(node.annotation, node.label) ELSE myENI
  /\ node' = None
  /\ UNCHANGED <<clusterVars, queue, config, eni, newENI>>

HandleNode ==
  /\ node # None
  /\ myENI' = IF node.name = myNodeName THEN selects(node.annotation, node.label) ELSE myENI
  /\ node' = None
  /\ UNCHANGED <<clusterVars, queue, config, eni, newENI>>

-----------------------------------------------------------------------------
(* The pool manager *)

MyENIConfig == eni[myENI]

\* tryAllocateENI gives up when MyENIConfig returns ErrNoENIConfig.
tryAllocateENI ==
  /\ MyENIConfig # None
  /\ newENI' = MyENIConfig
  /\ UNCHANGED <<clusterVars, queue, config, node, controllerVars>>

ENIConfigNext ==
  \/ \E n \in Name : ChangeENIConfig(n) \/ takeENIConfig(n)
  \/ \E n \in Node : ChangeNode(n) \/ takeNode(n)
  \/ HandleENIConfig \/ HandleNode \/ tryAllocateENI \/ resync

ENIConfigSpec == ENIConfigInit /\ [][ENIConfigNext]_configVars

\* The informers' workers do not stop, and their queues are first in, first out.  That
\* an ENI is made is not assumed: it is when the pool is low and the limit not reached.
ENIConfigFairSpec ==
  /\ ENIConfigSpec
  /\ \A n \in Name : SF_configVars(takeENIConfig(n))
  /\ \A n \in Node : SF_configVars(takeNode(n))
  /\ WF_configVars(HandleENIConfig) /\ WF_configVars(HandleNode)

-----------------------------------------------------------------------------
(* Properties *)

\* A controller with no work before it has the cluster's ENIConfigs and the name the
\* node selects, whatever changed while the workers were handling older objects.
\* Of each part alone: an object that is neither queued nor being handled is known.
CacheIsCurrent ==
  /\ \A n \in Name :
       n \notin queue =>
         IF config # None /\ config.name = n THEN config.spec = configs[n] ELSE eni[n] = configs[n]
  /\ LET a == annotation[myNodeName]
         l == label[myNodeName]
     IN  myNodeName \notin queue =>
           IF node # None /\ node.name = myNodeName
           THEN node.annotation = a /\ node.label = l
           ELSE myENI = selects(a, l)

\* When the cluster comes to rest, MyENIConfig returns the ENIConfig that the node
\* selects, or an error if there is none, and every step that makes an ENI of another
\* kind than the last makes it with that one.
NewENIsAsChosen ==
  /\ <>[](MyENIConfig = chosenSpec)
  /\ <>[][newENI' # newENI => newENI' = chosenSpec]_configVars

\* "Annotation value will be used to set ENIConfig name" (README.md:121): in a cluster
\* that did not change since the agent started, an ENI is made with the node's ENIConfig.
MadeWithOwnConfig == changes = 0 => newENI \in {None, chosenSpec}

=============================================================================
