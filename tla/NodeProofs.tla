---------------------------- MODULE NodeProofs ----------------------------
(***************************************************************************)
(* Proofs about Ipamd that need more than IpamdProofs: that what is proved *)
(* of the store holds on the node, with the pool manager and the RPC       *)
(* handlers as its callers, that a pod's address stays on its ENI, and     *)
(* what ipamd keeps as long as certain calls do not fail: MAX_ENI, and the *)
(* ENIs' primary addresses out of the pods' hands.                         *)
(***************************************************************************)
EXTENDS IpamdProofs, DataStoreProofs

-----------------------------------------------------------------------------
(* The store on the node *)

\* No step of the node breaks the types, the counters and the times of the store.
LEMMA StoreInvKept ==
  ASSUME StoreInv, NodeTypeOK, IpamdNext
  PROVE  StoreInv'
  <1>0. cur \in ENI /\ todo \subseteq IP /\ sweep \subseteq IP /\ curENIs \subseteq ENI /\ config \in Configs
    BY DEF NodeTypeOK
  <1>1. serving \in BOOLEAN
    BY DEF StoreInv, TypeOK
  <1>2. CASE UNCHANGED vars
    BY <1>1, <1>2, StutterStep, Zenon DEF vars
  <1>3. CASE SetupENI
    BY <1>0, <1>1, <1>3, AddENIStep, StutterStep, Zenon DEF SetupENI
  <1>4. CASE AddENIAddress
    BY <1>0, <1>4, AddIPStep, Zenon DEF AddENIAddress
  <1>5. CASE NodeInitReturns
    BY <1>5, StutterStep, Zenon DEF NodeInitReturns, Serve
  <1>6. CASE DelIPs
    BY <1>0, <1>1, <1>6, DelIPStep, StutterStep DEF DelIPs
  <1>7. CASE TryFreeENI
    BY <1>0, <1>1, <1>7, TargetKnown, RemoveUnusedStep, StutterStep DEF TryFreeENI
  <1>8. CASE MarkIP
    BY <1>0, <1>1, <1>8, AddIPStep, StutterStep, Zenon DEF MarkIP
  <1>9. CASE SweepIP
    BY <1>0, <1>1, <1>9, DelIPStep, StutterStep DEF SweepIP
  <1>10. CASE SweepENI
    BY <1>0, <1>1, <1>10, RemoveENIStep, StutterStep, Zenon DEF SweepENI
  <1>11. CASE RPC
    BY <1>11, AssignStep, UnassignStep, Zenon DEF RPC, HandleRPC
  <1>12. CASE TimePasses
    BY <1>12, TickStep, Zenon DEF TimePasses
  <1>13. QED
    BY <1>2, <1>3, <1>4, <1>5, <1>6, <1>7, <1>8, <1>9, <1>10, <1>11, <1>12, StoreSteps, ZenonT(40)

\* The node starts with an empty store.
LEMMA InitNodeStore == IpamdInit => StoreInv /\ NodeTypeOK
  BY InitStoreInv, InitTypeInv, Zenon DEF IpamdInit, TypeInv

\* The store's types and counters and the node's types are kept together.
LEMMA NextNodeStore ==
  StoreInv /\ NodeTypeOK /\ [IpamdNext]_<<config, ipamdVars>> => StoreInv' /\ NodeTypeOK'
  <1> SUFFICES ASSUME StoreInv, NodeTypeOK, [IpamdNext]_<<config, ipamdVars>> PROVE StoreInv' /\ NodeTypeOK'
    BY Zenon
  <1>1. NodeTypeOK'
    BY NextTypeInv, Zenon DEF TypeInv, PoolsTyped, StoreInv, TypeOK
  <1>2. CASE IpamdNext
    BY <1>1, <1>2, StoreInvKept, Zenon
  <1>3. CASE UNCHANGED <<config, ipamdVars>>
    BY <1>1, <1>3, StutterStep, Zenon DEF StoreInv, TypeOK, ipamdVars, vars
  <1>4. QED
    BY <1>2, <1>3, Zenon

\* Whatever EC2, IMDS, the pods and others who detach ENIs do, the pool manager keeps
\* its state well formed: EC2 holds only secondary addresses for the ENIs attached,
\* IMDS is never later than IMDSMaxLag, and every ENI and address at hand is one of
\* the node's.
THEOREM NodeStateWellFormed == IpamdSpec => []IpamdTypeOK
  <1>1. StoreInv /\ NodeTypeOK => IpamdTypeOK
    BY DEF StoreInv, NodeTypeOK, IpamdTypeOK
  <1>2. QED
    BY <1>1, InitNodeStore, NextNodeStore, PTL DEF IpamdSpec

\* So what is proved of the store holds on the node: with the pool manager at work,
\* no two pods hold one address, and no address is marked Assigned without a pod.
THEOREM NodeKeepsPodTable ==
  Discipline /\ NodeDiscipline /\ IpamdSpec => [](PodsHoldAssigned /\ OneHolder /\ NoAddressLeaked)
  BY NodeUsesStoreAsProved, PodTableSafe, PTL DEF UsesStoreAsProved

\* Even when EC2 gives an address to a second ENI too early, or others detach ENIs under
\* ipamd, the counters by which the pool manager sizes the pool are exact, an ADD is
\* refused only for want of a free address, and an ENI is given up only if
\* WARM_IP_TARGET addresses stay free on the others.
THEOREM NodeCountsExactly ==
  IpamdSpec => [](Accounting /\ RefusedOnlyWhenEmpty /\ WarmIPTargetKept)
  <1>1. StoreInv => Accounting
    BY Zenon DEF StoreInv
  <1>2. QED
    BY <1>1, NothingHidden, TargetLeft, InitNodeStore, NextNodeStore, PTL DEF IpamdSpec

\* An address that a pod gives back on a node whose pool grows and shrinks rests
\* for its cooling period before another pod has it, and pods hold addresses exclusively.
THEOREM NodeKeepsLease == Discipline /\ NodeDiscipline /\ IpamdSpec => KeepsLeaseContract
  BY NodeUsesStoreAsProved, StoreKeepsLeaseContract, PTL DEF UsesStoreAsProved

\* The ENI that decreaseIPPool and tryFreeENI give up has no pod on it.
THEOREM NodeFreesIdleENIs == Discipline /\ NodeDiscipline /\ IpamdSpec => []DeletableIsIdle
  BY NodeUsesStoreAsProved, DeletedENIsIdle, PTL DEF UsesStoreAsProved

\* Every pod's address is one that EC2 has on the ENI recorded for the pod: EC2 delivers
\* its traffic to this instance.
PodsReachable ==
  \A k \in PodKey :
    podsIP[k] # NoPodIP => <<podsIP[k].DeviceNumber, podsIP[k].IP>> \in EC2View.ips

\* However the calls to EC2 fail and IMDS lags, ipamd never takes an address from EC2, or
\* an ENI from the instance, while a pod has it, and gives a pod no address that EC2
\* has not assigned.
THEOREM PodsKeepTheirAddresses == Discipline /\ NodeDiscipline /\ IpamdSpec => []PodsReachable
  <1>1. PoolOnlyFromEC2 /\ TypeOK /\ PodsHoldAssigned => PodsReachable
    BY Zenon DEF PoolOnlyFromEC2, TypeOK, PodsHoldAssigned, PodsReachable
  <1>2. StoreInv /\ NodeTypeOK => TypeOK
    BY Zenon DEF StoreInv
  <1>3. IpamdSpec => []TypeOK
    BY <1>2, InitNodeStore, NextNodeStore, PTL DEF IpamdSpec
  <1>4. QED
    BY <1>1, <1>3, PoolFollowsEC2, NodeKeepsPodTable, PTL

-----------------------------------------------------------------------------
(* What EC2 has attached and what the store knows of it *)

\* nodeIPPoolReconcile has not yet swept.
Comparing == pc \in {"mark", "markIPs", "sweepIPs"} \/ (InSetup /\ ret = "mark")

\* The ENI at hand may be attached without being in the store.
ENIAtHand == pc \in {"setupENI", "allocIPs", "waitAttached", "freeENI"}

\* Every ENI that is attached is in the store, at hand, or to be found by nodeInit.
AttachedKnown ==
  \A e \in attached :
    e \in eniIPPools \/ pc = "nodeInit" \/ (Starting /\ e \in seen.enis) \/ (ENIAtHand /\ e = cur)

\* IMDS does not lag in telling of an ENI that is in the store, or that was read from it.
KnownInIMDS ==
  \A e \in attached :
    e \in eniIPPools \/ e \in seen.enis \/ pc = "nodeInit" \/ (pc = "setupENI" /\ e = cur)
      => e \in imds.enis

\* An ENI that the sweep of nodeIPPoolReconcile removes is not attached.
SweptIsGone ==
  /\ Comparing => \A e \in curENIs : e \in eniIPPools /\ (e \in attached => e \in seen.enis)
  /\ pc = "sweepENIs" => \A e \in curENIs : e \notin attached

AttachedInv ==
  /\ ret \in {"nodeInitENIs", "mark", "touch"}
  /\ ~Starting /\ ~Comparing => seen.enis = {}
  /\ AttachedKnown /\ KnownInIMDS /\ SweptIsGone

\* At first the primary ENI is attached, and IMDS lists it.
LEMMA AttachedInit == IpamdInit => AttachedInv
  BY DEF IpamdInit, Init, NewDataStore, AttachedInv, AttachedKnown, KnownInIMDS, SweptIsGone,
         Starting, Comparing, InSetup, ENIAtHand, NoENIs, EC2View

limitVars == <<config, attached, eniIPPools, imds, seen, curENIs, cur, ret, pc>>

\* Where the goroutine is neither setting up an ENI nor reconciling.
Elsewhere == {"fillAddresses", "update", "increase", "tryAssignIPs", "tryENI", "allocENI", "touch",
              "decrease", "unassign", "findFreeable", "delIPs", "dealloc", "removeExtra",
              "tryFreeENI", "reconcile"}

\* There a step that changes neither EC2's ENIs nor the store's keeps all this.
LEMMA ElsewhereStep ==
  ASSUME AttachedInv, pc \in Elsewhere, pc' \in Elsewhere,
         UNCHANGED <<attached, eniIPPools, imds, seen, ret>>
  PROVE  AttachedInv'
  BY ZenonT(40) DEF AttachedInv, AttachedKnown, KnownInIMDS, SweptIsGone, Starting, Comparing, InSetup,
     ENIAtHand, Elsewhere

\* So does one that changes nothing of it.
LEMMA LimitStutter ==
  ASSUME AttachedInv, UNCHANGED limitVars
  PROVE  AttachedInv'
  BY Zenon DEF AttachedInv, AttachedKnown, KnownInIMDS, SweptIsGone, Starting, Comparing, InSetup, ENIAtHand,
     limitVars

\* The other steps only move on, or change nothing of this at all.
LEMMA NodeSteps ==
  ASSUME IpamdNext
  PROVE  \/ moveOn /\ pc \in Elsewhere /\ pc' \in Elsewhere
         \/ UNCHANGED limitVars
         \/ NodeInit \/ NodeInitENI \/ NodeInitReturns \/ SetupENI \/ SetupENINetwork \/ SetupENIReturns
         \/ TryAssignIPs \/ AllocENI \/ AllocIPs \/ WaitENIAttached \/ UpdateLastNodeIPPoolAction
         \/ DecreaseIPPool \/ TryUnassignIPs \/ FindFreeableIPs \/ DeallocIPs \/ DelIPs
         \/ TryFreeENI \/ FreeENI \/ NodeIPPoolReconcile \/ MarkENI \/ MarkReturns
         \/ MarkIPsReturns \/ SweepIP \/ SweepENI \/ ReconcileReturns \/ IMDS \/ DetachOutside
  <1> USE DEF goto, ec2Vars, imdsVars, cacheVars, timeVars, loopVars, ctxVars, vars, dsVars, eniVars, limitVars
  <1>1. CASE UpdateIPPoolIfRequired \/ IncreaseIPPool \/ TryAssignIPsFails \/ TryAssignIPsReturns \/ TryENI
    BY <1>1, Zenon DEF UpdateIPPoolIfRequired, IncreaseIPPool, TryAssignIPsFails, TryAssignIPsReturns,
       TryENI, Elsewhere
  <1>2. CASE TryUnassignIPsReturns \/ RemoveExtraENIs
    BY <1>2, Zenon DEF TryUnassignIPsReturns, RemoveExtraENIs, Elsewhere
  <1>3. CASE AddENIAddress
    BY <1>3, Zenon DEF AddENIAddress, AddIPv4AddressFromStore, IpamdNext
  <1>4. CASE MarkIP
    BY <1>4, Zenon DEF MarkIP, AddIPv4AddressFromStore, IpamdNext
  <1>5. CASE RPC
    BY <1>5, Zenon DEF RPC, HandleRPC, AssignPodIPv4Address, UnassignPodIPv4Address, IpamdNext
  <1>6. CASE TimePasses
    BY <1>6, Zenon DEF TimePasses, Tick, IpamdNext
  <1>7. QED
    BY <1>1, <1>2, <1>3, <1>4, <1>5, <1>6, Zenon DEF IpamdNext, PoolManager, Increase, Decrease, Reconcile

\* Without a failing call each step of the node keeps it: FreeENI frees what TryFreeENI
\* took out of the store, and what AllocENI makes is waited for and set up.
LEMMA AttachedKept ==
  ASSUME AttachedInv, IpamdNext, ~EC2Fails, ~AttachTimesOut
  PROVE  AttachedInv'
  <1> USE DEF goto, ec2Vars, imdsVars, cacheVars, timeVars, loopVars, ctxVars, vars, dsVars, eniVars, callFails
  <1>1. CASE moveOn /\ pc \in Elsewhere /\ pc' \in Elsewhere
    BY <1>1, ElsewhereStep, Zenon DEF moveOn
  <1>2. CASE UNCHANGED limitVars
    BY <1>2, LimitStutter, Zenon
  <1> USE DEF AttachedInv, AttachedKnown, KnownInIMDS, SweptIsGone, Starting, Comparing, InSetup, ENIAtHand
  <1>3. CASE NodeInit
    BY <1>3, Zenon DEF NodeInit
  <1>4. CASE NodeInitENI
    BY <1>4 DEF NodeInitENI
  <1>5. CASE NodeInitReturns
    BY <1>5, Zenon DEF NodeInitReturns, Serve, NoENIs
  <1>6. CASE SetupENI
    BY <1>6, Zenon DEF SetupENI, AddENI, setupFails
  <1>7. CASE SetupENINetwork
    BY <1>7, Zenon DEF SetupENINetwork, setupFails
  <1>8. CASE SetupENIReturns
    BY <1>8, Zenon DEF SetupENIReturns
  <1>9. CASE TryAssignIPs
    BY <1>9, ElsewhereStep, Zenon DEF TryAssignIPs, Elsewhere
  <1>10. CASE AllocENI
    BY <1>10, Zenon DEF AllocENI, NewENIs
  <1>11. CASE AllocIPs
    BY <1>11, Zenon DEF AllocIPs
  <1>12. CASE WaitENIAttached
    BY <1>12, Zenon DEF WaitENIAttached
  <1>13. CASE UpdateLastNodeIPPoolAction
    BY <1>13, ElsewhereStep, Zenon DEF UpdateLastNodeIPPoolAction, Elsewhere
  <1>14. CASE DecreaseIPPool
    BY <1>14, ElsewhereStep, Zenon DEF DecreaseIPPool, Elsewhere
  <1>15. CASE TryUnassignIPs \/ FindFreeableIPs \/ DeallocIPs
    BY <1>15, ElsewhereStep, Zenon DEF TryUnassignIPs, FindFreeableIPs, DeallocIPs, Elsewhere
  <1>16. CASE DelIPs
    BY <1>16, ElsewhereStep, Zenon DEF DelIPs, DelIPv4AddressFromStore, Elsewhere
  <1>17. CASE TryFreeENI
    BY <1>17, Zenon DEF TryFreeENI, RemoveUnusedENIFromStore, dropPool
  <1>18. CASE FreeENI
    BY <1>18, Zenon DEF FreeENI
  <1>19. CASE NodeIPPoolReconcile
    BY <1>19, Zenon DEF NodeIPPoolReconcile
  <1>20. CASE MarkENI
    BY <1>20 DEF MarkENI
  <1>21. CASE MarkReturns
    BY <1>21, Zenon DEF MarkReturns, NoENIs
  <1>22. CASE MarkIPsReturns
    BY <1>22, Zenon DEF MarkIPsReturns, moveOn
  <1>23. CASE SweepIP
    BY <1>23, Zenon DEF SweepIP, DelIPv4AddressFromStore
  <1>24. CASE SweepENI
    BY <1>24 DEF SweepENI, RemoveENIFromDataStore, dropPool
  <1>25. CASE ReconcileReturns
    BY <1>25, Zenon DEF ReconcileReturns, moveOn
  <1>26. CASE IMDS
    BY <1>26 DEF IMDS, IMDSCatchUp, EC2View
  <1>27. CASE DetachOutside
    BY <1>27, Zenon DEF DetachOutside
  <1>28. QED
    BY <1>1, <1>2, <1>3, <1>4, <1>5, <1>6, <1>7, <1>8, <1>9, <1>10, <1>11, <1>12, <1>13, <1>14, <1>15,
       <1>16, <1>17, <1>18, <1>19, <1>20, <1>21, <1>22, <1>23, <1>24, <1>25, <1>26, <1>27, NodeSteps, ZenonT(40)
-----------------------------------------------------------------------------
(* MAX_ENI *)

\* increaseIPPool compares MAX_ENI with the number of ENIs in the store.
CountInv ==
  /\ config \in Configs
  /\ attached \subseteq ENI /\ eniIPPools \subseteq ENI
  /\ Cardinality(attached) <= maxENI
  /\ pc = "allocENI" => Cardinality(eniIPPools) < maxENI

\* MAX_ENI is capped by the limit of the instance type, which is positive.
LEMMA MaxENIType == ASSUME config \in Configs PROVE maxENI \in Nat \ {0}
  BY IpamdAssumption DEF maxENI, InstanceENILimit

\* Only AllocENI attaches.
LEMMA AttachSteps ==
  ASSUME IpamdNext
  PROVE  /\ config' = config
         /\ \/ attached' \subseteq attached
            \/ /\ pc = "allocENI" /\ pc' # "allocENI" /\ eniIPPools' = eniIPPools
               /\ \E e \in ENI \ attached : attached' = attached \cup {e}
  <1> USE DEF ec2Vars, imdsVars, ctxVars, vars, dsVars, eniVars, limitVars
  <1>1. CASE AllocENI
    BY <1>1, Zenon DEF IpamdNext, AllocENI, NewENIs, goto
  <1>2. CASE FreeENI
    BY <1>2, Zenon DEF IpamdNext, FreeENI
  <1>3. CASE DetachOutside
    BY <1>3, Zenon DEF IpamdNext, DetachOutside
  <1>4. CASE attached' = attached
    BY <1>4, Zenon DEF IpamdNext
  <1>5. QED
    BY <1>1, <1>2, <1>3, <1>4, NodeSteps, ZenonT(40)
    DEF moveOn, NodeInit, NodeInitENI, NodeInitReturns, SetupENI, SetupENINetwork, SetupENIReturns,
        TryAssignIPs, AllocIPs, WaitENIAttached, UpdateLastNodeIPPoolAction, DecreaseIPPool,
        TryUnassignIPs, FindFreeableIPs, DeallocIPs, DelIPs, TryFreeENI, NodeIPPoolReconcile, MarkENI,
        MarkReturns, MarkIPsReturns, SweepIP, SweepENI, ReconcileReturns, IMDS, IMDSCatchUp

\* The store's ENIs are attached when they come, and do not change between the test of
\* MAX_ENI and AllocENI.
LEMMA StoreENISteps ==
  ASSUME IpamdNext, ret # "allocENI"
  PROVE  /\ eniIPPools' \subseteq eniIPPools \cup attached
         /\ pc' = "allocENI" =>
              /\ eniIPPools' = eniIPPools
              /\ pc = "allocENI" \/ Cardinality(eniIPPools) < maxENI
  <1> USE DEF ec2Vars, imdsVars, ctxVars, vars, dsVars, eniVars, limitVars, goto
  <1>1. CASE SetupENI
    BY <1>1, Zenon DEF SetupENI, AddENI, setupFails
  <1>2. CASE TryENI
    BY <1>2, Zenon DEF TryENI, moveOn
  <1>3. CASE TryFreeENI
    BY <1>3, Zenon DEF TryFreeENI, RemoveUnusedENIFromStore, dropPool
  <1>4. CASE SweepENI
    BY <1>4, Zenon DEF SweepENI, RemoveENIFromDataStore, dropPool
  <1>5. CASE NodeInit \/ NodeInitENI \/ NodeInitReturns \/ SetupENINetwork \/ SetupENIReturns
    BY <1>5, Zenon DEF NodeInit, NodeInitENI, NodeInitReturns, Serve, SetupENINetwork, SetupENIReturns,
       setupFails
  <1>6. CASE UpdateIPPoolIfRequired \/ IncreaseIPPool \/ TryAssignIPs \/ TryAssignIPsFails \/ TryAssignIPsReturns
    BY <1>6, Zenon DEF UpdateIPPoolIfRequired, IncreaseIPPool, TryAssignIPs, TryAssignIPsFails,
       TryAssignIPsReturns, moveOn
  <1>7. CASE AllocENI \/ AllocIPs \/ WaitENIAttached \/ UpdateLastNodeIPPoolAction
    BY <1>7, Zenon DEF AllocENI, AllocIPs, WaitENIAttached, UpdateLastNodeIPPoolAction
  <1>8. CASE DecreaseIPPool \/ TryUnassignIPs \/ FindFreeableIPs \/ TryUnassignIPsReturns \/ DeallocIPs
    BY <1>8, Zenon DEF DecreaseIPPool, TryUnassignIPs, FindFreeableIPs, TryUnassignIPsReturns, DeallocIPs,
       moveOn
  <1>9. CASE RemoveExtraENIs \/ FreeENI \/ NodeIPPoolReconcile \/ MarkENI \/ MarkReturns
    BY <1>9, Zenon DEF RemoveExtraENIs, FreeENI, NodeIPPoolReconcile, MarkENI, MarkReturns, moveOn
  <1>10. CASE MarkIPsReturns \/ ReconcileReturns
    BY <1>10, Zenon DEF MarkIPsReturns, ReconcileReturns, moveOn
  <1>11. CASE RPC \/ IMDS \/ TimePasses \/ DetachOutside
    BY <1>11, Zenon DEF RPC, HandleRPC, AssignPodIPv4Address, UnassignPodIPv4Address, IMDS, IMDSCatchUp,
       TimePasses,
                 Tick, DetachOutside
  <1>12. CASE AddENIAddress
    BY <1>12, Zenon DEF AddENIAddress, AddIPv4AddressFromStore
  <1>13. CASE MarkIP
    BY <1>13, Zenon DEF MarkIP, AddIPv4AddressFromStore
  <1>14. CASE DelIPs
    BY <1>14, Zenon DEF DelIPs, DelIPv4AddressFromStore
  <1>15. CASE SweepIP
    BY <1>15, Zenon DEF SweepIP, DelIPv4AddressFromStore
  <1>16. QED
    BY <1>1, <1>2, <1>3, <1>4, <1>5, <1>6, <1>7, <1>8, <1>9, <1>10, <1>11, <1>12, <1>13, <1>14, <1>15,
       ZenonT(40)
    DEF IpamdNext, PoolManager, Increase, Decrease, Reconcile

\* If every attached ENI is known to the store when increaseIPPool asks, so is their number.
LEMMA CountKept ==
  ASSUME AttachedInv, CountInv, IpamdNext
  PROVE  CountInv'
  <1>1. /\ attached' \subseteq ENI /\ eniIPPools' \subseteq ENI
        /\ config' = config /\ maxENI' = maxENI /\ maxENI \in Nat
    <2>1. config' = config /\ attached' \subseteq ENI
      BY AttachSteps, Zenon DEF CountInv
    <2>2. eniIPPools' \subseteq ENI
      BY StoreENISteps, Zenon DEF CountInv, AttachedInv
    <2>3. maxENI' = maxENI
      BY <2>1, Zenon DEF maxENI, InstanceENILimit
    <2>4. QED
      BY <2>1, <2>2, <2>3, MaxENIType DEF CountInv
  <1>2. IsFiniteSet(attached) /\ IsFiniteSet(eniIPPools)
    BY StoreAssumption, FS_Subset, Zenon DEF CountInv
  <1>3. pc' = "allocENI" => Cardinality(eniIPPools') < maxENI
    BY StoreENISteps, Zenon DEF CountInv, AttachedInv
  <1>4. Cardinality(attached') <= maxENI
    <2>1. CASE attached' \subseteq attached
      <3>1. /\ Cardinality(attached) \in Nat /\ Cardinality(attached') \in Nat
            /\ Cardinality(attached') <= Cardinality(attached) /\ Cardinality(attached) <= maxENI
        BY <1>2, <2>1, FS_Subset, FS_CardinalityType, Zenon DEF CountInv
      <3>2. QED
        BY <1>1, <3>1
    <2>2. CASE pc = "allocENI" /\ \E e \in ENI \ attached : attached' = attached \cup {e}
      <3>1. attached \subseteq eniIPPools
        BY <2>2, Zenon DEF AttachedInv, AttachedKnown, Starting, InSetup, ENIAtHand
      <3>2. Cardinality(attached) < maxENI
        <4>1. /\ Cardinality(attached) \in Nat /\ Cardinality(eniIPPools) \in Nat
              /\ Cardinality(attached) <= Cardinality(eniIPPools) /\ Cardinality(eniIPPools) < maxENI
          BY <1>2, <2>2, <3>1, FS_Subset, FS_CardinalityType, ZenonT(40) DEF CountInv
        <4>2. QED
          BY <1>1, <4>1
      <3>3. Cardinality(attached') = Cardinality(attached) + 1
        BY <1>2, <2>2, FS_AddElement, Zenon
      <3>4. QED
        <4>1. Cardinality(attached) \in Nat
          BY <1>2, FS_CardinalityType, Zenon
        <4>2. QED
          BY <1>1, <3>2, <3>3, <4>1
    <2>3. QED
      BY <2>1, <2>2, AttachSteps, Zenon
  <1>5. QED
    BY <1>1, <1>3, <1>4, Zenon DEF CountInv

\* No more ENIs are attached than MAX_ENI allows (README.md:186), however IMDS lags, ENIs
\* are detached by others, set-ups of their network fail and pods come and go: if the
\* calls to EC2 and IMDS do not fail and waitENIAttached does not give up.
THEOREM MaxENIRespected ==
  ASSUME ~EC2Fails, ~AttachTimesOut
  PROVE  IpamdSpec => []MaxENIKept
  <1>1. IpamdInit => AttachedInv /\ CountInv
    <2> SUFFICES ASSUME IpamdInit PROVE CountInv
      BY AttachedInit, Zenon
    <2>1. config \in Configs /\ attached = {PrimaryENI} /\ eniIPPools = {} /\ pc = "nodeInit"
      BY DEF IpamdInit, Init, NewDataStore
    <2>2. Cardinality(attached) = 1
      BY <2>1, FS_Singleton, Zenon
    <2>3. QED
      BY <2>1, <2>2, MaxENIType, StoreAssumption DEF CountInv
  <1>2. AttachedInv /\ CountInv /\ [IpamdNext]_<<config, ipamdVars>> => AttachedInv' /\ CountInv'
    <2> SUFFICES ASSUME AttachedInv, CountInv, [IpamdNext]_<<config, ipamdVars>>
                 PROVE  AttachedInv' /\ CountInv'
      BY Zenon
    <2>1. CASE IpamdNext
      BY <2>1, AttachedKept, CountKept, Zenon
    <2>2. CASE UNCHANGED <<config, ipamdVars>>
      <3>1. UNCHANGED limitVars
        BY <2>2, Zenon DEF limitVars, ipamdVars, vars, dsVars, eniVars, ec2Vars, imdsVars, ctxVars, loopVars
      <3>2. CountInv'
        BY <3>1, Zenon DEF limitVars, CountInv, maxENI, InstanceENILimit
      <3>3. QED
        BY <3>1, <3>2, LimitStutter, Zenon
    <2>3. QED
      BY <2>1, <2>2, Zenon
  <1>3. CountInv => MaxENIKept
    BY Zenon DEF CountInv, MaxENIKept
  <1>4. QED
    BY <1>1, <1>2, <1>3, PTL DEF IpamdSpec

-----------------------------------------------------------------------------
(* Primary addresses *)

\* An ENI's addresses: secondary ones, and its own primary one.
OwnAddress == {a \in Address : a[2] \in Secondary \/ a[2] = PrimaryIP[a[1]]}

\* What EC2 and IMDS list.
ListedInv ==
  /\ attached \subseteq ENI /\ ec2IPs \subseteq ENI \X Secondary
  /\ imds.ips \subseteq OwnAddress /\ seen.ips \subseteq OwnAddress

\* An ENI of the store whose primary address setupENI has not recorded is at hand: before
\* it is reconciled with what IMDS lists, which contains that address, it is recorded.
PooledInv ==
  /\ ret \in {"nodeInitENIs", "mark", "touch"}
  /\ IPv4Addresses \subseteq ENI \X Secondary
  /\ eniIPPools \subseteq ENI
  /\ \A e \in eniIPPools : e \in primaryIP \/ (pc \in {"setupNetwork", "addAddresses"} /\ e = cur)
  /\ pc \in {"setupNetwork", "addAddresses", "fillAddresses"} => todo \subseteq Secondary
  /\ pc = "markIPs" => cur \in primaryIP /\ todo \subseteq Secondary \cup {PrimaryIP[cur]}

PodsInv ==
  /\ podsIP \in [PodKey -> PodIPInfo \cup {NoPodIP}]
  /\ \A k \in PodKey : podsIP[k] # NoPodIP => podsIP[k].IP \in Secondary

\* EC2 assigns secondary addresses.
LEMMA AssignsSecondary ==
  ASSUME NEW eni, NEW n, NEW o \in AllocIPAddresses(eni, n)
  PROVE  o.ips = {} \/ (o.ips \subseteq Secondary /\ eni \in attached)
  BY DEF AllocIPAddresses, Granted, kSubset, FreeFor, Subnet

\* The addresses of one ENI are secondary where all are;
LEMMA OnSecondary ==
  ASSUME NEW S \in SUBSET (ENI \X Secondary), NEW eni
  PROVE  On(eni, S) \subseteq Secondary
  BY Zenon DEF On

\* or its own primary address besides.
LEMMA OnOwn ==
  ASSUME NEW S \in SUBSET OwnAddress, NEW eni
  PROVE  On(eni, S) \subseteq Secondary \cup {PrimaryIP[eni]}
  BY Zenon DEF On, OwnAddress, Address

\* EC2 lists of an ENI its primary address and the secondary ones it assigned.
LEMMA ViewIsOwn ==
  ASSUME ListedInv
  PROVE  EC2View.ips \subseteq OwnAddress
  <1>1. PrimaryIP \in [ENI -> IP] /\ Secondary \subseteq IP
    BY IpamdAssumption, ZenonT(40) DEF Secondary
  <1>2. QED
    BY <1>1 DEF ListedInv, EC2View, OwnAddress, Address

\* IMDS, and the list that a round of reconciling works on, hold nothing else.
LEMMA ListedKept ==
  ASSUME ListedInv, eniIPPools \subseteq ENI, IpamdNext
  PROVE  ListedInv'
  <1> USE DEF ListedInv, ec2Vars, imdsVars, loopVars, ctxVars, vars, limitVars
  <1>1. CASE UNCHANGED <<attached, ec2IPs, imds, seen>>
    BY <1>1, Zenon
  <1>2. CASE NodeInit
    BY <1>2, Zenon DEF NodeInit
  <1>3. CASE NodeInitENI
    BY <1>3 DEF NodeInitENI
  <1>4. CASE NodeInitReturns
    BY <1>4, Zenon DEF NodeInitReturns, NoENIs
  <1>5. CASE TryAssignIPs
    <2>1. PICK e, n : \E o \in AllocIPAddresses(e, n) : ec2IPs' = ec2IPs \cup ({e} \X o.ips)
      BY <1>5, Zenon DEF TryAssignIPs
    <2>2. UNCHANGED <<attached, imds, seen>>
      BY <1>5, Zenon DEF TryAssignIPs
    <2>3. QED
      BY <2>1, <2>2, AssignsSecondary, Zenon
  <1>6. CASE AllocENI
    BY <1>6, Zenon DEF AllocENI, NewENIs
  <1>7. CASE AllocIPs
    <2>1. PICK n : \E o \in AllocIPAddresses(cur, n) : ec2IPs' = ec2IPs \cup ({cur} \X o.ips)
      BY <1>7, Zenon DEF AllocIPs
    <2>2. UNCHANGED <<attached, imds, seen>>
      BY <1>7, Zenon DEF AllocIPs
    <2>3. QED
      BY <2>1, <2>2, AssignsSecondary, Zenon
  <1>8. CASE DeallocIPs
    BY <1>8, Zenon DEF DeallocIPs
  <1>9. CASE FreeENI
    BY <1>9, Zenon DEF FreeENI
  <1>10. CASE NodeIPPoolReconcile
    BY <1>10, Zenon DEF NodeIPPoolReconcile
  <1>11. CASE MarkENI
    BY <1>11 DEF MarkENI
  <1>12. CASE MarkReturns
    BY <1>12, Zenon DEF MarkReturns, NoENIs
  <1>13. CASE IMDS
    <2>1. PICK eni \in ENI : IMDSCatchUp(eni)
      BY <1>13, Zenon DEF IMDS
    <2>2. imds'.ips \subseteq imds.ips \cup EC2View.ips /\ UNCHANGED <<attached, ec2IPs, seen>>
      BY <2>1, Zenon DEF IMDSCatchUp
    <2>3. QED
      BY <2>2, ViewIsOwn, Zenon
  <1>14. CASE DetachOutside
    BY <1>14, Zenon DEF DetachOutside
  <1>15. CASE RPC \/ TimePasses
    BY <1>15, ZenonT(40) DEF RPC, TimePasses
  <1>16. QED
    BY <1>1, <1>2, <1>3, <1>4, <1>5, <1>6, <1>7, <1>8, <1>9, <1>10, <1>11, <1>12, <1>13, <1>14, <1>15,
       ZenonT(40)
    DEF IpamdNext, PoolManager, Increase, Decrease, Reconcile, moveOn, SetupENI, SetupENINetwork, setupFails,
        AddENIAddress, SetupENIReturns, UpdateIPPoolIfRequired, IncreaseIPPool, TryAssignIPsFails,
        TryAssignIPsReturns, TryENI, WaitENIAttached, UpdateLastNodeIPPoolAction, DecreaseIPPool,
        TryUnassignIPs, FindFreeableIPs, TryUnassignIPsReturns, DelIPs, RemoveExtraENIs, TryFreeENI,
        MarkIP, MarkIPsReturns, SweepIP, SweepENI, ReconcileReturns

\* The RPC handlers give pods what is in the pools.
LEMMA PodsKept ==
  ASSUME PodsInv, IPv4Addresses \subseteq ENI \X Secondary, IpamdNext
  PROVE  PodsInv'
  <1> USE DEF PodsInv
  <1>1. CASE UNCHANGED podsIP
    BY <1>1, Zenon
  <1>2. CASE RPC
    <2>1. CASE \E k \in PodKey, a \in IPv4Addresses : recordPod(k, a)
      <3>1. PICK k \in PodKey, a \in IPv4Addresses : recordPod(k, a)
        BY <2>1, Zenon
      <3>2. a[1] \in ENI /\ a[2] \in Secondary
        BY Zenon
      <3>3. [IP |-> a[2], DeviceNumber |-> a[1]] \in PodIPInfo
        BY <3>2, Zenon DEF PodIPInfo, Secondary
      <3>4. QED
        BY <3>1, <3>2, <3>3, Zenon DEF recordPod
    <2>2. CASE \E k \in PodKey : podsIP' = [podsIP EXCEPT ![k] = NoPodIP]
      BY <2>2, Zenon
    <2>3. QED
      BY <1>2, <2>1, <2>2, Zenon DEF RPC, HandleRPC, AssignPodIPv4Address, UnassignPodIPv4Address
  <1>3. QED
    BY <1>1, <1>2, ZenonT(40)
    DEF IpamdNext, PoolManager, Increase, Decrease, Reconcile, moveOn, vars, dsVars, IMDS, IMDSCatchUp,
        DetachOutside,
        NodeInit, NodeInitENI, NodeInitReturns, Serve, SetupENI, SetupENINetwork, AddENIAddress, SetupENIReturns,
        AddENI, AddIPv4AddressFromStore, DelIPv4AddressFromStore, RemoveUnusedENIFromStore, RemoveENIFromDataStore,
        dropPool, UpdateIPPoolIfRequired, IncreaseIPPool, TryAssignIPs, TryAssignIPsFails, TryAssignIPsReturns,
        TryENI, AllocENI, AllocIPs, WaitENIAttached, UpdateLastNodeIPPoolAction, DecreaseIPPool, TryUnassignIPs,
        FindFreeableIPs, TryUnassignIPsReturns, DelIPs, DeallocIPs, RemoveExtraENIs, TryFreeENI, FreeENI,
        NodeIPPoolReconcile, MarkENI, MarkReturns, MarkIP, MarkIPsReturns, SweepIP, SweepENI, ReconcileReturns,
        TimePasses, Tick

\* Where the pools and the recorded addresses stay, and no ENI is being set up or marked.
LEMMA PooledStutter ==
  ASSUME PooledInv, IPv4Addresses' \subseteq IPv4Addresses, eniIPPools' \subseteq eniIPPools,
         primaryIP' = primaryIP, ret' = ret,
         \/ pc' = pc /\ todo' \subseteq todo /\ cur' = cur
         \/ /\ pc \notin {"setupNetwork", "addAddresses"}
            /\ pc' \notin {"setupNetwork", "addAddresses", "fillAddresses", "markIPs"}
  PROVE  PooledInv'
  BY Zenon DEF PooledInv

\* If the network of an ENI is set up, its primary address is recorded before its
\* addresses are compared with those that IMDS lists.
LEMMA PooledKept ==
  ASSUME PooledInv, ListedInv, IpamdNext, ~NetworkFails
  PROVE  PooledInv'
  <1> USE DEF goto, ec2Vars, imdsVars, cacheVars, timeVars, loopVars, ctxVars, vars, dsVars, eniVars, addrVars
  <1>1. CASE moveOn /\ pc \in Elsewhere /\ pc' \in Elsewhere \ {"fillAddresses"}
    BY <1>1, PooledStutter, Zenon DEF moveOn, Elsewhere
  <1>2. CASE NodeInit
    BY <1>2, PooledStutter, Zenon DEF NodeInit
  <1>3. CASE NodeInitENI
    BY <1>3, Zenon DEF NodeInitENI, PooledInv
  <1>4. CASE NodeInitReturns
    BY <1>4, PooledStutter, Zenon DEF NodeInitReturns, Serve
  <1>5. CASE SetupENI
    BY <1>5, OnSecondary, Zenon DEF SetupENI, AddENI, setupFails, PooledInv, ListedInv
  <1>6. CASE SetupENINetwork
    BY <1>6, Zenon DEF SetupENINetwork, PooledInv
  <1>7. CASE AddENIAddress
    BY <1>7 DEF AddENIAddress, AddIPv4AddressFromStore, PooledInv
  <1>8. CASE SetupENIReturns
    BY <1>8, Zenon DEF SetupENIReturns, PooledInv
  <1>9. CASE TryAssignIPs
    <2>1. ec2IPs' \in SUBSET (ENI \X Secondary)
      BY ListedKept, Zenon DEF PooledInv, ListedInv
    <2>2. /\ pc = "tryAssignIPs" /\ pc' \in {"fillAddresses", "touch"}
          /\ pc' = "fillAddresses" => \E e : todo' = On(e, ec2IPs') \ Pool(e)
          /\ UNCHANGED <<IPv4Addresses, eniIPPools, primaryIP, ret>>
      BY <1>9, Zenon DEF TryAssignIPs
    <2>3. QED
      BY <2>1, <2>2, OnSecondary, ZenonT(40) DEF PooledInv
  <1>10. CASE AllocENI
    BY <1>10, Zenon DEF AllocENI, NewENIs, PooledInv
  <1>11. CASE AllocIPs
    BY <1>11, PooledStutter, Zenon DEF AllocIPs
  <1>12. CASE WaitENIAttached
    BY <1>12, Zenon DEF WaitENIAttached, PooledInv
  <1>13. CASE UpdateLastNodeIPPoolAction \/ DecreaseIPPool \/ TryUnassignIPs \/ FindFreeableIPs \/ DeallocIPs
    BY <1>13, PooledStutter, ZenonT(40)
    DEF UpdateLastNodeIPPoolAction, DecreaseIPPool, TryUnassignIPs, FindFreeableIPs, DeallocIPs
  <1>14. CASE DelIPs
    BY <1>14, PooledStutter DEF DelIPs, DelIPv4AddressFromStore
  <1>15. CASE TryFreeENI
    BY <1>15, PooledStutter, Zenon DEF TryFreeENI, RemoveUnusedENIFromStore, dropPool
  <1>16. CASE FreeENI \/ NodeIPPoolReconcile \/ MarkReturns
    BY <1>16, PooledStutter, Zenon DEF FreeENI, NodeIPPoolReconcile, MarkReturns
  <1>17. CASE MarkENI
    <2>1. PICK eni \in seen.enis :
            /\ cur' = eni
            /\ \/ eni \in eniIPPools /\ todo' = On(eni, seen.ips) /\ pc' = "markIPs" /\ ret' = ret
               \/ pc' = "setupENI" /\ ret' = "mark"
      BY <1>17, Zenon DEF MarkENI
    <2>2. pc = "mark" /\ UNCHANGED <<IPv4Addresses, eniIPPools, primaryIP>>
      BY <1>17, Zenon DEF MarkENI
    <2>3. On(eni, seen.ips) \subseteq Secondary \cup {PrimaryIP[eni]}
      BY OnOwn, Zenon DEF ListedInv
    <2>4. QED
      BY <2>1, <2>2, <2>3 DEF PooledInv
  <1>18. CASE MarkIP
    <2>1. PICK ip \in todo :
            /\ todo' = todo \ {ip}
            /\ \/ UNCHANGED <<IPv4Addresses, eniIPPools>>
               \/ /\ ~(cur \in primaryIP /\ ip = PrimaryIP[cur])
                  /\ cur \in eniIPPools
                  /\ IPv4Addresses' = IPv4Addresses \cup {<<cur, ip>>}
                  /\ UNCHANGED eniIPPools
      BY <1>18, Zenon DEF MarkIP, KeepIP, AddIPv4AddressFromStore
    <2>2. pc = "markIPs" /\ UNCHANGED <<pc, ret, cur, primaryIP>>
      BY <1>18, Zenon DEF MarkIP
    <2>3. QED
      BY <2>1, <2>2 DEF PooledInv
  <1>19. CASE MarkIPsReturns \/ ReconcileReturns
    BY <1>19, PooledStutter, Zenon DEF MarkIPsReturns, ReconcileReturns, moveOn
  <1>20. CASE SweepIP
    BY <1>20, PooledStutter DEF SweepIP, DelIPv4AddressFromStore
  <1>21. CASE SweepENI
    BY <1>21, PooledStutter, ZenonT(40) DEF SweepENI, RemoveENIFromDataStore, dropPool
  <1>22. CASE IMDS \/ DetachOutside \/ TimePasses
    BY <1>22, PooledStutter, ZenonT(40) DEF IMDS, IMDSCatchUp, DetachOutside, TimePasses, Tick
  <1>23. CASE RPC
    BY <1>23, PooledStutter DEF RPC, HandleRPC, AssignPodIPv4Address, UnassignPodIPv4Address
  <1>24. CASE UpdateIPPoolIfRequired \/ IncreaseIPPool \/ TryAssignIPsFails \/ TryAssignIPsReturns \/ TryENI
    BY <1>1, <1>24 DEF UpdateIPPoolIfRequired, IncreaseIPPool, TryAssignIPsFails, TryAssignIPsReturns,
       TryENI, Elsewhere
  <1>25. CASE TryUnassignIPsReturns \/ RemoveExtraENIs
    BY <1>1, <1>25, Zenon DEF TryUnassignIPsReturns, RemoveExtraENIs, Elsewhere
  <1>26. QED
    BY <1>2, <1>3, <1>4, <1>5, <1>6, <1>7, <1>8, <1>9, <1>10, <1>11, <1>12, <1>13, <1>14, <1>15, <1>16, <1>17,
       <1>18, <1>19, <1>20, <1>21, <1>22, <1>23, <1>24, <1>25, ZenonT(40)
    DEF IpamdNext, PoolManager, Increase, Decrease, Reconcile

\* "The primary IP address is not used by any Pods" (docs/cni-proposal.md:41), whatever
\* calls to EC2 fail and however IMDS lags, if SetupENINetwork does not fail: otherwise
\* setupENI ends before it records the address, with the ENI in the store.
THEOREM PrimaryIPsKept ==
  ASSUME ~NetworkFails
  PROVE  IpamdSpec => []PrimaryIPNotForPods
  <1> DEFINE Inv == PodsInv /\ PooledInv /\ ListedInv
  <1>1. IpamdInit => Inv
    <2> SUFFICES ASSUME IpamdInit PROVE Inv
      BY Zenon
    <2>1. PodsInv /\ PooledInv
      BY Zenon DEF IpamdInit, Init, NewDataStore, PodsInv, PooledInv
    <2>2. attached \subseteq ENI /\ ec2IPs = {} /\ seen.ips = {} /\ imds = EC2View
      BY StoreAssumption, Zenon DEF IpamdInit, NoENIs
    <2>3. EC2View.ips \subseteq OwnAddress
      <3>1. PrimaryIP \in [ENI -> IP]
        BY IpamdAssumption, Zenon
      <3>2. QED
        BY <2>2, <3>1 DEF EC2View, OwnAddress, Address
    <2>4. QED
      BY <2>1, <2>2, <2>3 DEF ListedInv
  <1>2. Inv /\ [IpamdNext]_<<config, ipamdVars>> => Inv'
    <2> SUFFICES ASSUME Inv, [IpamdNext]_<<config, ipamdVars>> PROVE Inv'
      BY Zenon
    <2>1. CASE IpamdNext
      <3>1. IPv4Addresses \subseteq ENI \X Secondary /\ eniIPPools \subseteq ENI
        BY Zenon DEF PooledInv
      <3>2. QED
        BY <2>1, <3>1, PodsKept, PooledKept, ListedKept, Zenon
    <2>2. CASE UNCHANGED <<config, ipamdVars>>
      BY <2>2, Zenon DEF ipamdVars, vars, dsVars, eniVars, addrVars, ec2Vars, imdsVars, ctxVars, loopVars,
                  PodsInv, PooledInv, ListedInv
    <2>3. QED
      BY <2>1, <2>2, Zenon
  <1>3. Inv => PrimaryIPNotForPods
    BY DEF PodsInv, PrimaryIPNotForPods, HeldIPs
  <1>4. QED
    BY <1>1, <1>2, <1>3, PTL DEF IpamdSpec

=============================================================================
