---------------------------- MODULE IpamdProofs ----------------------------
(***************************************************************************)
(* Proofs about Ipamd, for every number of ENIs, addresses and pods, every *)
(* configuration of the node, and any lag of IMDS: the types, that the     *)
(* pools hold only what EC2 has on their ENIs, and that the pool manager   *)
(* and the RPC handlers use the store as DataStoreProofs assumes.          *)
(***************************************************************************)
EXTENDS Ipamd, TLAPS

-----------------------------------------------------------------------------
(* Types *)

\* What the pool manager keeps beside the store.
NodeTypeOK ==
  /\ config \in Configs
  /\ attached \subseteq ENI /\ ec2IPs \subseteq attached \X Secondary
  /\ imds \in [enis : SUBSET ENI, ips : SUBSET Address] /\ imdsLag \in 0 .. IMDSMaxLag
  /\ primaryIP \subseteq ENI /\ cooldown \subseteq IP /\ cooldownAge \in [IP -> Age]
  /\ lastNodeIPPoolAction \in Age /\ lastDecreaseIPPool \in Age
  /\ {pc, ret} \subseteq Labels /\ cur \in ENI
  /\ todo \subseteq IP /\ sweep \subseteq IP /\ deletedIPs \subseteq IP
  /\ curENIs \subseteq ENI /\ seen \in [enis : SUBSET ENI, ips : SUBSET Address]

\* The target the pool manager passes to the store is one the store knows.
LEMMA TargetKnown == ASSUME config \in Configs PROVE warmIPTarget \in WarmIPTargets
  BY IpamdAssumption, StoreAssumption DEF warmIPTarget

\* What EC2 lists is well typed.
LEMMA ViewType ==
  ASSUME NodeTypeOK
  PROVE  EC2View \in [enis : SUBSET ENI, ips : SUBSET Address]
  BY IpamdAssumption DEF NodeTypeOK, EC2View, Address, Secondary

\* The addresses of one ENI in a set of addresses.
LEMMA OnDef ==
  ASSUME NEW S \in SUBSET Address, NEW eni
  PROVE  On(eni, S) \subseteq IP /\ \A ip : ip \in On(eni, S) <=> <<eni, ip>> \in S
  BY DEF On, Address

\* EC2 assigns addresses to an ENI that is attached, and only addresses that no ENI
\* has: none that IMDS lists on another, unless they are reused.
LEMMA AllocOutcome ==
  ASSUME NEW eni, NEW n, NEW o \in AllocIPAddresses(eni, n)
  PROVE  o.ips = {} \/ (eni \in attached /\ o.ips \subseteq FreeFor(eni))
  BY DEF AllocIPAddresses, Granted, kSubset

\* The steps that call no operation of the store.
LEMMA StoreSteps ==
  ASSUME IpamdNext
  PROVE  \/ UNCHANGED vars
         \/ SetupENI \/ AddENIAddress \/ NodeInitReturns \/ DelIPs \/ TryFreeENI
         \/ MarkIP \/ SweepIP \/ SweepENI \/ RPC \/ TimePasses
  BY Zenon DEF IpamdNext, PoolManager, Increase, Decrease, Reconcile, IMDS, IMDSCatchUp, DetachOutside,
         NodeInit, NodeInitENI, SetupENINetwork, SetupENIReturns, UpdateIPPoolIfRequired,
         IncreaseIPPool, TryAssignIPs, TryAssignIPsFails, TryAssignIPsReturns, TryENI, AllocENI,
         AllocIPs, WaitENIAttached, UpdateLastNodeIPPoolAction, DecreaseIPPool, TryUnassignIPs,
         FindFreeableIPs, TryUnassignIPsReturns, DeallocIPs, RemoveExtraENIs, FreeENI,
         NodeIPPoolReconcile, MarkENI, MarkReturns, MarkIPsReturns, ReconcileReturns, moveOn

\* The pools hold addresses of ENIs that are in the store.
PoolsTyped ==
  /\ serving \in BOOLEAN
  /\ eniIPPools \subseteq ENI
  /\ IPv4Addresses \subseteq eniIPPools \X IP

\* No step of the node puts anything else into the pools.
LEMMA PoolsTypedKept ==
  ASSUME PoolsTyped, NodeTypeOK, IpamdNext
  PROVE  PoolsTyped'
  <1> USE DEF PoolsTyped, NodeTypeOK
  <1>2. CASE UNCHANGED vars
    BY <1>2 DEF vars, dsVars, eniVars, addrVars
  <1>3. CASE SetupENI
    BY <1>3 DEF SetupENI, AddENI, dsVars, eniVars, addrVars
  <1>4. CASE AddENIAddress
    BY <1>4 DEF AddENIAddress, AddIPv4AddressFromStore, eniVars
  <1>5. CASE NodeInitReturns
    BY <1>5 DEF NodeInitReturns, Serve, dsVars, eniVars, addrVars
  <1>6. CASE DelIPs
    BY <1>6 DEF DelIPs, DelIPv4AddressFromStore, dsVars, eniVars, addrVars
  <1>7. CASE TryFreeENI
    BY <1>7, Zenon DEF TryFreeENI, RemoveUnusedENIFromStore, dropPool, AddressesOf, dsVars, eniVars, addrVars
  <1>8. CASE MarkIP
    BY <1>8 DEF MarkIP, AddIPv4AddressFromStore, dsVars, eniVars, addrVars
  <1>9. CASE SweepIP
    BY <1>9 DEF SweepIP, DelIPv4AddressFromStore, dsVars, eniVars, addrVars
  <1>10. CASE SweepENI
    BY <1>10 DEF SweepENI, RemoveENIFromDataStore, dropPool, AddressesOf, dsVars, eniVars, addrVars
  <1>11. CASE RPC
    BY <1>11 DEF RPC, HandleRPC, AssignPodIPv4Address, UnassignPodIPv4Address
  <1>12. CASE TimePasses
    BY <1>12 DEF TimePasses, Tick
  <1>13. QED
    BY <1>2, <1>3, <1>4, <1>5, <1>6, <1>7, <1>8, <1>9, <1>10, <1>11, <1>12, StoreSteps, Zenon

\* Nor does it leave anything ill typed beside the store.
LEMMA NodeTypeKept ==
  ASSUME PoolsTyped, NodeTypeOK, IpamdNext
  PROVE  NodeTypeOK'
  <1> USE DEF NodeTypeOK, goto, ec2Vars, imdsVars, cacheVars, timeVars, loopVars, ctxVars
  <1>0. /\ config' = config
        /\ 0 \in Age /\ Forever \in Age
        /\ eniIPPools \subseteq ENI
        /\ \A eni \in ENI : Pool(eni) \subseteq IP /\ On(eni, ec2IPs) \subseteq IP
        /\ \A eni \in ENI : On(eni, seen.ips) \subseteq IP
    <2>1. IPv4Addresses \in SUBSET Address /\ ec2IPs \in SUBSET Address /\ seen.ips \in SUBSET Address
      BY DEF PoolsTyped, Address, Secondary
    <2>2. \A eni \in ENI : Pool(eni) \subseteq IP /\ On(eni, ec2IPs) \subseteq IP /\ On(eni, seen.ips) \subseteq IP
      BY <2>1, OnDef, Zenon DEF Pool
    <2>3. 0 \in Age /\ Forever \in Age
      BY StoreAssumption DEF Age
    <2>4. QED
      BY <2>2, <2>3 DEF IpamdNext, PoolsTyped
  <1>1. CASE moveOn /\ pc' \in Labels
    BY <1>0, <1>1 DEF moveOn
  <1>2. CASE NodeInit
    BY <1>0, <1>2 DEF NodeInit, Labels
  <1>3. CASE NodeInitENI
    BY <1>0, <1>3 DEF NodeInitENI, Labels
  <1>4. CASE NodeInitReturns
    BY <1>0, <1>4, ZenonT(40) DEF NodeInitReturns, NoENIs, Labels
  <1>5. CASE SetupENI
    BY <1>0, <1>5 DEF SetupENI, setupFails, Labels
  <1>6. CASE SetupENINetwork
    BY <1>0, <1>6 DEF SetupENINetwork, setupFails, Labels
  <1>7. CASE AddENIAddress
    BY <1>0, <1>7 DEF AddENIAddress, Labels
  <1>8. CASE SetupENIReturns
    BY <1>0, <1>8 DEF SetupENIReturns, Labels
  <1>9. CASE TryAssignIPs
    <2>0. PICK e \in NeedsIP : \E n, o :
            /\ o \in AllocIPAddresses(e, n)
            /\ ec2IPs' = ec2IPs \cup ({e} \X o.ips)
            /\ \/ cur' = e /\ todo' = On(e, ec2IPs') \ Pool(e) /\ pc' = "fillAddresses"
               \/ pc' = "touch" /\ UNCHANGED <<cur, todo>>
      BY <1>9, Zenon DEF TryAssignIPs
    <2>1. PICK n, o :
            /\ o \in AllocIPAddresses(e, n)
            /\ ec2IPs' = ec2IPs \cup ({e} \X o.ips)
            /\ \/ cur' = e /\ todo' = On(e, ec2IPs') \ Pool(e) /\ pc' = "fillAddresses"
               \/ pc' = "touch" /\ UNCHANGED <<cur, todo>>
      BY <2>0, Zenon
    <2>2. e \in ENI
      BY <1>0 DEF NeedsIP
    <2>3. ec2IPs' \subseteq attached \X Secondary
      BY <2>1, AllocOutcome DEF FreeFor, Subnet
    <2>4. ec2IPs' \in SUBSET Address
      BY <2>3 DEF Address, Secondary
    <2>5. On(e, ec2IPs') \subseteq IP
      BY <2>4, OnDef, Zenon
    <2>6. QED
      BY <1>0, <1>9, <2>1, <2>2, <2>3, <2>5, ZenonT(40) DEF TryAssignIPs, Labels
  <1>10. CASE AllocENI
    <2>1. attached' \subseteq ENI /\ cur' \in ENI /\ primaryIP' \subseteq ENI /\ attached \subseteq attached'
      BY <1>10 DEF AllocENI, NewENIs
    <2>2. ec2IPs' \subseteq attached' \X Secondary
      BY <1>10, <2>1, Zenon DEF AllocENI
    <2>3. pc' \in Labels
      BY <1>10, Zenon DEF AllocENI, Labels
    <2>4. QED
      BY <1>0, <1>10, <2>1, <2>2, <2>3, Zenon DEF AllocENI
  <1>11. CASE AllocIPs
    <2>1. PICK n, o : o \in AllocIPAddresses(cur, n) /\ ec2IPs' = ec2IPs \cup ({cur} \X o.ips)
      BY <1>11 DEF AllocIPs
    <2>2. ec2IPs' \subseteq attached \X Secondary
      BY <2>1, AllocOutcome, Zenon DEF FreeFor, Subnet
    <2>3. QED
      BY <1>0, <1>11, <2>2, ZenonT(40) DEF AllocIPs, Labels
  <1>12. CASE WaitENIAttached
    BY <1>0, <1>12 DEF WaitENIAttached, Labels
  <1>13. CASE UpdateLastNodeIPPoolAction
    BY <1>0, <1>13, Zenon DEF UpdateLastNodeIPPoolAction, Labels
  <1>14. CASE DecreaseIPPool
    BY <1>0, <1>14 DEF DecreaseIPPool, Labels
  <1>15. CASE TryUnassignIPs
    BY <1>0, <1>15, ZenonT(40) DEF TryUnassignIPs, Labels
  <1>16. CASE FindFreeableIPs
    BY <1>0, <1>16 DEF FindFreeableIPs, kSubset, Labels
  <1>17. CASE DelIPs
    BY <1>0, <1>17 DEF DelIPs, Labels
  <1>18. CASE DeallocIPs
    BY <1>0, <1>18, ZenonT(40) DEF DeallocIPs, Labels
  <1>19. CASE TryFreeENI
    BY <1>0, <1>19 DEF TryFreeENI, Labels
  <1>20. CASE FreeENI
    BY <1>0, <1>20, Zenon DEF FreeENI, Labels
  <1>21. CASE NodeIPPoolReconcile
    BY <1>0, <1>21 DEF NodeIPPoolReconcile, Labels
  <1>22. CASE MarkENI
    BY <1>0, <1>22 DEF MarkENI, Labels
  <1>23. CASE MarkReturns
    BY <1>0, <1>23, Zenon DEF MarkReturns, NoENIs, Labels
  <1>24. CASE MarkIP
    BY <1>0, <1>24 DEF MarkIP, Labels
  <1>25. CASE SweepIP
    BY <1>0, <1>25 DEF SweepIP, Labels
  <1>26. CASE SweepENI
    BY <1>0, <1>26, Zenon DEF SweepENI, Labels
  <1>27. CASE RPC
    BY <1>0, <1>27, Zenon DEF RPC
  <1>28. CASE IMDS
    <2>1. PICK eni \in ENI : IMDSCatchUp(eni)
      BY <1>28, Zenon DEF IMDS
    <2>2. imds' \in [enis : SUBSET ENI, ips : SUBSET Address]
      BY <2>1, ViewType, Zenon DEF IMDSCatchUp
    <2>3. imdsLag' \in 0 .. IMDSMaxLag
      <3>1. imdsLag' \in {0, imdsLag}
        BY <2>1, Zenon DEF IMDSCatchUp
      <3>2. IMDSMaxLag \in Nat /\ imdsLag \in 0 .. IMDSMaxLag
        BY IpamdAssumption, Zenon DEF NodeTypeOK
      <3>3. QED
        BY <3>1, <3>2
    <2>4. QED
      BY <1>0, <2>1, <2>2, <2>3, Zenon DEF IMDSCatchUp
  <1>29. CASE TimePasses
    <2>1. imdsLag' \in 0 .. IMDSMaxLag
      BY <1>29, IpamdAssumption DEF TimePasses
    <2>2. /\ cooldownAge' \in [IP -> Age]
          /\ lastNodeIPPoolAction' \in Age /\ lastDecreaseIPPool' \in Age
      BY <1>0, <1>29, StoreAssumption DEF TimePasses, Age, Older
    <2>3. QED
      BY <1>0, <1>29, <2>1, <2>2, Zenon DEF TimePasses
  <1>30. CASE DetachOutside
    BY <1>0, <1>30 DEF DetachOutside
  <1>31. QED
    <2>1. (\/ UpdateIPPoolIfRequired \/ IncreaseIPPool \/ TryAssignIPsFails \/ TryAssignIPsReturns
           \/ TryENI \/ TryUnassignIPsReturns \/ RemoveExtraENIs \/ MarkIPsReturns \/ ReconcileReturns)
          => moveOn /\ pc' \in Labels
      BY DEF UpdateIPPoolIfRequired, IncreaseIPPool, TryAssignIPsFails, TryAssignIPsReturns, TryENI,
         TryUnassignIPsReturns, RemoveExtraENIs, MarkIPsReturns, ReconcileReturns, Labels
    <2>2. QED
      BY <2>1, <1>1, <1>2, <1>3, <1>4, <1>5, <1>6, <1>7, <1>8, <1>9, <1>10, <1>11, <1>12, <1>13,
         <1>14, <1>15, <1>16, <1>17, <1>18, <1>19, <1>20, <1>21, <1>22, <1>23, <1>24, <1>25,
         <1>26, <1>27, <1>28, <1>29, <1>30, ZenonT(40)
      DEF IpamdNext, PoolManager, Increase, Decrease, Reconcile

\* Types, of the pools and of what is beside them.
TypeInv == PoolsTyped /\ NodeTypeOK

LEMMA InitTypeInv == IpamdInit => TypeInv
  <1> SUFFICES ASSUME IpamdInit PROVE TypeInv
    OBVIOUS
  <1>1. PoolsTyped
    BY Zenon DEF IpamdInit, Init, NewDataStore, PoolsTyped
  <1>2. PrimaryENI \in ENI /\ Forever \in Age /\ 0 \in 0 .. IMDSMaxLag
    BY StoreAssumption, IpamdAssumption DEF Age
  <1>3. {pc, ret} \subseteq Labels
    BY Zenon DEF IpamdInit, Labels
  <1>4. imds \in [enis : SUBSET ENI, ips : SUBSET Address]
    BY <1>2, IpamdAssumption DEF IpamdInit, EC2View, Address
  <1>5. NodeTypeOK
    BY <1>2, <1>3, <1>4 DEF IpamdInit, NodeTypeOK, NoENIs
  <1>6. QED
    BY <1>1, <1>5 DEF TypeInv

LEMMA NextTypeInv == TypeInv /\ [IpamdNext]_<<config, ipamdVars>> => TypeInv'
  <1> SUFFICES ASSUME TypeInv, [IpamdNext]_<<config, ipamdVars>> PROVE TypeInv'
    OBVIOUS
  <1>1. CASE IpamdNext
    BY <1>1, PoolsTypedKept, NodeTypeKept DEF TypeInv
  <1>2. CASE UNCHANGED <<config, ipamdVars>>
    <2>1. PoolsTyped'
      BY <1>2, Zenon DEF TypeInv, PoolsTyped, ipamdVars, vars, dsVars, eniVars, addrVars
    <2>2. NodeTypeOK'
      BY <1>2 DEF TypeInv, NodeTypeOK, ipamdVars, ec2Vars, imdsVars, ctxVars, cacheVars, timeVars, loopVars
    <2>3. QED
      BY <2>1, <2>2, Zenon DEF TypeInv
  <1>3. QED
    BY <1>1, <1>2

-----------------------------------------------------------------------------
(* What the pool manager knows at each statement *)

\* EC2 assigns no address that IMDS lists on another ENI, and only ipamd detaches.
NodeDiscipline == ~AddressesReused /\ ~DetachedOutside

InSetup  == pc \in {"setupENI", "setupNetwork", "addAddresses"}

\* nodeInit is not over; the list of ENIs read from IMDS is in use.
Starting == pc \in {"nodeInit", "nodeInitENIs"} \/ (InSetup /\ ret = "nodeInitENIs")
Marking  == \/ pc \in {"nodeInitENIs", "mark", "markIPs", "sweepIPs"}
            \/ InSetup /\ ret \in {"nodeInitENIs", "mark"}

ControlInv ==
  /\ ret \in {"nodeInitENIs", "touch", "mark"}
  /\ Starting \/ serving
  /\ Marking \/ seen.ips = {}
  /\ pc \in {"delIPs", "dealloc"} \/ deletedIPs = {}

\* The addresses that EC2 has on an ENI, and those that IMDS reports or reported
\* when the round of marking began.
Listed(e, ip)   == <<e, ip>> \in EC2View.ips
Reported(e, ip) == <<e, ip>> \in imds.ips \/ <<e, ip>> \in seen.ips

\* A secondary address is on one ENI.
OneENI == \A d, e \in ENI, ip \in IP : <<d, ip>> \in ec2IPs /\ <<e, ip>> \in ec2IPs => d = e

\* The store is behind EC2, never ahead.
Behind ==
  /\ eniIPPools \subseteq attached
  /\ \A e \in ENI, ip \in IP : <<e, ip>> \in IPv4Addresses => Listed(e, ip)

\* What the statement at hand is about to add is EC2's; what it is about to give
\* back is out of the store.
AtHand ==
  /\ pc \in {"setupNetwork", "addAddresses", "fillAddresses"} =>
       cur \in attached /\ \A ip \in todo : <<cur, ip>> \in ec2IPs
  /\ pc = "markIPs" => cur \in attached /\ \A ip \in todo : <<cur, ip>> \in seen.ips
  /\ \A ip \in deletedIPs : <<cur, ip>> \notin IPv4Addresses
  /\ pc = "freeENI" => cur \notin eniIPPools

\* An address that IMDS reports on an ENI that is attached is there, or was taken
\* from it and is in reconcileCooldownCache; no other ENI has it.
Stale ==
  \A e \in ENI, ip \in IP : Reported(e, ip) =>
    /\ ip \in Secondary \/ ip = PrimaryIP[e]
    /\ e \in attached => Listed(e, ip) \/ ip \in cooldown
    /\ \A d \in ENI : e \in attached /\ Listed(d, ip) => d = e

\* IMDS reports addresses for the ENIs it reports.
IMDSWhole == \A e \in ENI, ip \in IP : <<e, ip>> \in imds.ips => e \in imds.enis

EC2Inv == OneENI /\ Behind /\ AtHand /\ Stale /\ IMDSWhole

\* Every statement of the pool manager goes on to one that keeps this.
LEMMA ControlKept ==
  ASSUME TypeInv, ControlInv, IpamdNext
  PROVE  ControlInv'
  <1> USE DEF ControlInv, Starting, Marking, InSetup, goto, vars, ctxVars, loopVars
  <1>0. seen \in [enis : SUBSET ENI, ips : SUBSET Address]
    BY DEF TypeInv, NodeTypeOK
  <1>1. CASE NodeInit
    BY <1>0, <1>1, Zenon DEF NodeInit
  <1>2. CASE NodeInitENI
    BY <1>0, <1>2, Zenon DEF NodeInitENI
  <1>3. CASE NodeInitReturns
    BY <1>0, <1>3, Zenon DEF NodeInitReturns, Serve, NoENIs
  <1>4. CASE SetupENI
    BY <1>0, <1>4, Zenon DEF SetupENI, setupFails
  <1>5. CASE SetupENINetwork
    BY <1>0, <1>5, Zenon DEF SetupENINetwork, setupFails
  <1>6. CASE AddENIAddress
    BY <1>0, <1>6, Zenon DEF AddENIAddress
  <1>7. CASE SetupENIReturns
    BY <1>0, <1>7, Zenon DEF SetupENIReturns
  <1>8. CASE UpdateIPPoolIfRequired
    BY <1>0, <1>8 DEF UpdateIPPoolIfRequired, moveOn
  <1>9. CASE IncreaseIPPool
    BY <1>0, <1>9, Zenon DEF IncreaseIPPool, moveOn
  <1>10. CASE TryAssignIPsFails
    BY <1>0, <1>10, Zenon DEF TryAssignIPsFails, moveOn
  <1>11. CASE TryAssignIPs
    BY <1>0, <1>11, Zenon DEF TryAssignIPs
  <1>12. CASE TryAssignIPsReturns
    BY <1>0, <1>12, Zenon DEF TryAssignIPsReturns, moveOn
  <1>13. CASE TryENI
    BY <1>0, <1>13, Zenon DEF TryENI, moveOn
  <1>14. CASE AllocENI
    BY <1>0, <1>14, Zenon DEF AllocENI
  <1>15. CASE AllocIPs
    BY <1>0, <1>15, Zenon DEF AllocIPs
  <1>16. CASE WaitENIAttached
    BY <1>0, <1>16, Zenon DEF WaitENIAttached
  <1>17. CASE UpdateLastNodeIPPoolAction
    BY <1>0, <1>17, Zenon DEF UpdateLastNodeIPPoolAction
  <1>18. CASE DecreaseIPPool
    BY <1>0, <1>18, Zenon DEF DecreaseIPPool
  <1>19. CASE TryUnassignIPs
    BY <1>0, <1>19, Zenon DEF TryUnassignIPs
  <1>20. CASE FindFreeableIPs
    BY <1>0, <1>20, Zenon DEF FindFreeableIPs
  <1>21. CASE TryUnassignIPsReturns
    BY <1>0, <1>21, Zenon DEF TryUnassignIPsReturns, moveOn
  <1>22. CASE DelIPs
    BY <1>0, <1>22, Zenon DEF DelIPs
  <1>23. CASE DeallocIPs
    BY <1>0, <1>23, Zenon DEF DeallocIPs
  <1>24. CASE RemoveExtraENIs
    BY <1>0, <1>24, Zenon DEF RemoveExtraENIs, moveOn
  <1>25. CASE TryFreeENI
    BY <1>0, <1>25, Zenon DEF TryFreeENI
  <1>26. CASE FreeENI
    BY <1>0, <1>26, Zenon DEF FreeENI
  <1>27. CASE NodeIPPoolReconcile
    BY <1>0, <1>27 DEF NodeIPPoolReconcile
  <1>28. CASE MarkENI
    BY <1>0, <1>28, Zenon DEF MarkENI
  <1>29. CASE MarkReturns
    BY <1>0, <1>29, Zenon DEF MarkReturns, NoENIs
  <1>30. CASE MarkIP
    BY <1>0, <1>30, Zenon DEF MarkIP
  <1>31. CASE MarkIPsReturns
    BY <1>0, <1>31, Zenon DEF MarkIPsReturns, moveOn
  <1>32. CASE SweepIP
    BY <1>0, <1>32, Zenon DEF SweepIP
  <1>33. CASE SweepENI
    BY <1>0, <1>33 DEF SweepENI
  <1>34. CASE ReconcileReturns
    BY <1>0, <1>34, Zenon DEF ReconcileReturns, moveOn
  <1>35. CASE RPC \/ IMDS \/ TimePasses \/ DetachOutside
    BY <1>35, Zenon DEF RPC, IMDS, IMDSCatchUp, TimePasses, DetachOutside
  <1>36. QED
    BY <1>1, <1>2, <1>3, <1>4, <1>5, <1>6, <1>7, <1>8, <1>9, <1>10, <1>11, <1>12, <1>13, <1>14,
       <1>15, <1>16, <1>17, <1>18, <1>19, <1>20, <1>21, <1>22, <1>23, <1>24, <1>25, <1>26, <1>27,
       <1>28, <1>29, <1>30, <1>31, <1>32, <1>33, <1>34, <1>35, ZenonT(40)
    DEF IpamdNext, PoolManager, Increase, Decrease, Reconcile


\* What a step may do to the pools: only setupENI adds one, and only it, tryAssignIPs
\* and the mark phase add to one.
LEMMA PoolSteps ==
  ASSUME TypeInv, IpamdNext
  PROVE  /\ SetupENI \/ eniIPPools' \subseteq eniIPPools
         /\ AddENIAddress \/ MarkIP \/ IPv4Addresses' \subseteq IPv4Addresses
  <1> USE DEF vars, dsVars, eniVars, addrVars
  <1>1. CASE UNCHANGED vars
    BY <1>1
  <1>2. CASE SetupENI
    BY <1>2 DEF SetupENI, AddENI
  <1>3. CASE AddENIAddress \/ MarkIP
    BY <1>3, Zenon DEF AddENIAddress, MarkIP, AddIPv4AddressFromStore
  <1>4. CASE NodeInitReturns
    BY <1>4 DEF NodeInitReturns, Serve
  <1>5. CASE DelIPs \/ SweepIP
    BY <1>5, Zenon DEF DelIPs, SweepIP, DelIPv4AddressFromStore
  <1>6. CASE TryFreeENI \/ SweepENI
    BY <1>6 DEF TryFreeENI, SweepENI, RemoveUnusedENIFromStore, RemoveENIFromDataStore, dropPool
  <1>7. CASE RPC
    BY <1>7, Zenon DEF RPC, HandleRPC, AssignPodIPv4Address, UnassignPodIPv4Address
  <1>8. CASE TimePasses
    BY <1>8 DEF TimePasses, Tick
  <1>9. QED
    BY <1>1, <1>2, <1>3, <1>4, <1>5, <1>6, <1>7, <1>8, StoreSteps, Zenon

\* The steps that change what EC2 holds.
LEMMA EC2Steps ==
  ASSUME IpamdNext
  PROVE  \/ UNCHANGED ec2Vars
         \/ TryAssignIPs \/ AllocENI \/ AllocIPs \/ DeallocIPs \/ FreeENI \/ DetachOutside
  BY Zenon DEF IpamdNext, PoolManager, Increase, Decrease, Reconcile, IMDS, IMDSCatchUp, RPC, TimePasses,
         NodeInit, NodeInitENI, NodeInitReturns, SetupENI, SetupENINetwork, AddENIAddress,
         SetupENIReturns, UpdateIPPoolIfRequired, IncreaseIPPool, TryAssignIPsFails,
         TryAssignIPsReturns, TryENI, WaitENIAttached, UpdateLastNodeIPPoolAction,
         DecreaseIPPool, TryUnassignIPs, FindFreeableIPs, TryUnassignIPsReturns, DelIPs,
         RemoveExtraENIs, TryFreeENI, NodeIPPoolReconcile, MarkENI, MarkReturns, MarkIP,
         MarkIPsReturns, SweepIP, SweepENI, ReconcileReturns, moveOn

\* The steps that change what IMDS reports, and the cooldown cache.
LEMMA ReportSteps ==
  ASSUME TypeInv, IpamdNext
  PROVE  /\ IMDS \/ imds' = imds
         /\ \/ seen' = imds /\ (NodeInit \/ NodeIPPoolReconcile)
            \/ seen'.ips \in {seen.ips, {}}
         /\ MarkIP \/ DeallocIPs \/ cooldown' = cooldown
  <1> USE DEF ctxVars, loopVars, imdsVars, cacheVars
  <1>0. seen \in [enis : SUBSET ENI, ips : SUBSET Address]
    BY Zenon DEF TypeInv, NodeTypeOK
  <1>1. IMDS \/ imds' = imds
    BY Zenon DEF IpamdNext, PoolManager, Increase, Decrease, Reconcile,
           NodeInit, NodeInitENI, NodeInitReturns, SetupENI, SetupENINetwork, AddENIAddress,
           SetupENIReturns, UpdateIPPoolIfRequired, IncreaseIPPool, TryAssignIPsFails,
           TryAssignIPs, TryAssignIPsReturns, TryENI, AllocENI, AllocIPs, WaitENIAttached,
           UpdateLastNodeIPPoolAction, DecreaseIPPool, TryUnassignIPs, FindFreeableIPs,
           TryUnassignIPsReturns, DelIPs, DeallocIPs, RemoveExtraENIs, TryFreeENI, FreeENI,
           NodeIPPoolReconcile, MarkENI, MarkReturns, MarkIP, MarkIPsReturns, SweepIP, SweepENI,
           ReconcileReturns, moveOn, RPC, TimePasses, DetachOutside
  <1>2. \/ seen' = imds /\ (NodeInit \/ NodeIPPoolReconcile)
        \/ seen'.ips \in {seen.ips, {}}
    <2>1. CASE NodeInit \/ NodeIPPoolReconcile
      BY <2>1, Zenon DEF NodeInit, NodeIPPoolReconcile
    <2>2. CASE NodeInitENI \/ MarkENI
      <3>1. \E E : seen' = [seen EXCEPT !.enis = E]
        BY <2>2, Zenon DEF NodeInitENI, MarkENI
      <3>2. QED
        BY <1>0, <3>1
    <2>3. CASE NodeInitReturns \/ MarkReturns
      <3>1. seen' = NoENIs
        BY <2>3, Zenon DEF NodeInitReturns, MarkReturns
      <3>2. NoENIs.ips = {}
        BY Zenon DEF NoENIs
      <3>3. QED
        BY <3>1, <3>2, Zenon
    <2>4. \/ NodeInit \/ NodeIPPoolReconcile \/ NodeInitENI \/ MarkENI \/ NodeInitReturns \/ MarkReturns
          \/ seen' = seen
      BY Zenon DEF IpamdNext, PoolManager, Increase, Decrease, Reconcile,
             SetupENI, SetupENINetwork, AddENIAddress, SetupENIReturns, UpdateIPPoolIfRequired,
             IncreaseIPPool, TryAssignIPsFails, TryAssignIPs, TryAssignIPsReturns, TryENI,
             AllocENI, AllocIPs, WaitENIAttached, UpdateLastNodeIPPoolAction, DecreaseIPPool,
             TryUnassignIPs, FindFreeableIPs, TryUnassignIPsReturns, DelIPs, DeallocIPs,
             RemoveExtraENIs, TryFreeENI, FreeENI, MarkIP, MarkIPsReturns, SweepIP, SweepENI,
             ReconcileReturns, moveOn, setupFails, IMDS, IMDSCatchUp, RPC, TimePasses,
             DetachOutside
    <2>5. QED
      BY <2>1, <2>2, <2>3, <2>4
  <1>3. MarkIP \/ DeallocIPs \/ cooldown' = cooldown
    BY Zenon DEF IpamdNext, PoolManager, Increase, Decrease, Reconcile,
           NodeInit, NodeInitENI, NodeInitReturns, SetupENI, SetupENINetwork, AddENIAddress,
           SetupENIReturns, UpdateIPPoolIfRequired, IncreaseIPPool, TryAssignIPsFails,
           TryAssignIPs, TryAssignIPsReturns, TryENI, AllocENI, AllocIPs, WaitENIAttached,
           UpdateLastNodeIPPoolAction, DecreaseIPPool, TryUnassignIPs, FindFreeableIPs,
           TryUnassignIPsReturns, DelIPs, DeallocIPs, RemoveExtraENIs, TryFreeENI, FreeENI,
           NodeIPPoolReconcile, MarkENI, MarkReturns, MarkIP, MarkIPsReturns, SweepIP, SweepENI,
           ReconcileReturns, moveOn, IMDS, IMDSCatchUp, RPC, TimePasses, DetachOutside
  <1>4. QED
    BY <1>1, <1>2, <1>3, Zenon

-----------------------------------------------------------------------------
(* The store is never ahead of EC2 *)

\* What EC2 lists: the secondary addresses, and the primary of every ENI attached.
LEMMA ListedDef ==
  ASSUME NEW e \in ENI, NEW ip \in IP
  PROVE  Listed(e, ip) <=> <<e, ip>> \in ec2IPs \/ (e \in attached /\ ip = PrimaryIP[e])
  BY Zenon DEF Listed, EC2View

LEMMA ListedDefPrimed ==
  ASSUME NEW e \in ENI, NEW ip \in IP
  PROVE  Listed(e, ip)' <=> <<e, ip>> \in ec2IPs' \/ (e \in attached' /\ ip = PrimaryIP[e])
  BY DEF Listed, EC2View

\* No two ENIs are listed with the same address.
LEMMA ListedOnce ==
  ASSUME TypeInv, OneENI, NEW d \in ENI, NEW e \in ENI, NEW ip \in IP, Listed(d, ip), Listed(e, ip)
  PROVE  d = e
  <1>1. \A f \in ENI : <<f, ip>> \in ec2IPs => ip \in Secondary
    BY Zenon DEF TypeInv, NodeTypeOK
  <1>2. \A f \in ENI : PrimaryIP[f] \notin Secondary
    BY DEF Secondary
  <1>3. /\ <<d, ip>> \in ec2IPs \/ ip = PrimaryIP[d]
        /\ <<e, ip>> \in ec2IPs \/ ip = PrimaryIP[e]
    BY ListedDef, Zenon
  <1>4. PrimaryIP[d] = PrimaryIP[e] => d = e
    BY IpamdAssumption, Zenon
  <1>5. QED
    BY <1>1, <1>2, <1>3, <1>4, Zenon DEF OneENI

\* An address that EC2 assigns: the ENI is attached, no ENI has the address, and no
\* other that is attached is reported with it.
LEMMA Assigning ==
  ASSUME TypeInv, NodeDiscipline, NEW eni \in ENI, NEW n, NEW o \in AllocIPAddresses(eni, n),
         ec2IPs' = ec2IPs \cup ({eni} \X o.ips), NEW e \in ENI, NEW ip \in IP,
         <<e, ip>> \in ec2IPs', <<e, ip>> \notin ec2IPs
  PROVE  /\ e = eni /\ e \in attached /\ ip \in Secondary
         /\ \A d \in ENI : <<d, ip>> \notin ec2IPs
         /\ \A d \in attached : <<d, ip>> \in imds.ips => d = e
  <1>1. e = eni /\ ip \in o.ips
    BY Zenon
  <1>2. eni \in attached /\ ip \in FreeFor(eni)
    BY <1>1, AllocOutcome
  <1>3. QED
    BY <1>1, <1>2 DEF FreeFor, Subnet, NodeDiscipline

\* The two steps in which EC2 assigns addresses.
LEMMA AssigningSteps ==
  ASSUME TypeInv, TryAssignIPs \/ AllocIPs
  PROVE  \E eni \in ENI : \E n, o :
           /\ o \in AllocIPAddresses(eni, n)
           /\ ec2IPs' = ec2IPs \cup ({eni} \X o.ips)
           /\ attached' = attached
  <1>1. CASE TryAssignIPs
    <2>1. NeedsIP \subseteq ENI
      BY Zenon DEF NeedsIP, TypeInv, PoolsTyped
    <2>2. QED
      BY <1>1, <2>1 DEF TryAssignIPs
  <1>2. CASE AllocIPs
    BY <1>2, Zenon DEF AllocIPs, TypeInv, NodeTypeOK
  <1>3. QED
    BY <1>1, <1>2, Zenon

\* Where ENIs and addresses go: what an action takes from EC2.
LEMMA EC2Shrinks ==
  ASSUME TypeInv, NodeDiscipline, IpamdNext, ~(TryAssignIPs \/ AllocIPs)
  PROVE  ec2IPs' \subseteq ec2IPs
  BY EC2Steps DEF ec2Vars, AllocENI, DeallocIPs, FreeENI, DetachOutside

LEMMA OneENIKept ==
  ASSUME TypeInv, NodeDiscipline, OneENI, IpamdNext
  PROVE  OneENI'
  <1>1. CASE TryAssignIPs \/ AllocIPs
    <2>1. PICK eni \in ENI : \E n, o :
             /\ o \in AllocIPAddresses(eni, n)
             /\ ec2IPs' = ec2IPs \cup ({eni} \X o.ips)
      BY <1>1, AssigningSteps
    <2>2. QED
      BY <2>1, Assigning, Zenon DEF OneENI
  <1>2. CASE ~(TryAssignIPs \/ AllocIPs)
    BY <1>2, EC2Shrinks DEF OneENI
  <1>3. QED
    BY <1>1, <1>2

\* setupENI adds the pool of an ENI that is attached, and an ENI or address leaves
\* EC2 only after the store has let go of it.
LEMMA BehindKept ==
  ASSUME TypeInv, NodeDiscipline, EC2Inv, IpamdNext
  PROVE  Behind'
  <1>0. /\ cur \in ENI /\ todo \subseteq IP /\ eniIPPools \subseteq ENI /\ IPv4Addresses \subseteq Address
        /\ \A e \in ENI, ip \in IP : <<e, ip>> \in IPv4Addresses => e \in eniIPPools
    BY DEF TypeInv, NodeTypeOK, PoolsTyped, Address
  <1>1. eniIPPools' \subseteq attached'
    <2>1. CASE SetupENI
      <3>1. eniIPPools' \subseteq eniIPPools \cup {cur} /\ (cur \in attached \/ eniIPPools' = eniIPPools)
        BY <2>1, Zenon DEF SetupENI, AddENI, dsVars, eniVars
      <3>2. attached' = attached
        BY <2>1, Zenon DEF SetupENI, ec2Vars
      <3>3. QED
        BY <3>1, <3>2 DEF EC2Inv, Behind
    <2>2. CASE FreeENI
      BY <2>2 DEF FreeENI, vars, dsVars, eniVars, ec2Vars, EC2Inv, Behind, AtHand
    <2>3. CASE ~SetupENI /\ ~FreeENI
      <3>1. attached \subseteq attached'
        BY <2>3, EC2Steps, Zenon
        DEF ec2Vars, TryAssignIPs, AllocENI, AllocIPs, DeallocIPs, DetachOutside, NodeDiscipline
      <3>2. QED
        BY <2>3, <3>1, PoolSteps DEF EC2Inv, Behind
    <2>4. QED
      BY <2>1, <2>2, <2>3, Zenon
  <1>2. ASSUME NEW e \in ENI, NEW ip \in IP, <<e, ip>> \in IPv4Addresses' PROVE Listed(e, ip)'
    <2>1. CASE AddENIAddress \/ MarkIP
      <3>1. UNCHANGED ec2Vars
        BY <2>1 DEF AddENIAddress, MarkIP
      <3>2. Listed(e, ip) => Listed(e, ip)'
        BY <3>1, ListedDef, ListedDefPrimed, Zenon DEF ec2Vars
      <3>3. CASE <<e, ip>> \in IPv4Addresses
        BY <3>2, <3>3, Zenon DEF EC2Inv, Behind
      <3>4. CASE <<e, ip>> \notin IPv4Addresses /\ AddENIAddress
        <4>1. e = cur /\ ip \in todo
          <5>1. PICK i \in todo : AddIPv4AddressFromStore(cur, i)
            BY <3>4, Zenon DEF AddENIAddress
          <5>2. <<e, ip>> = <<cur, i>>
            BY <1>2, <3>4, <5>1, Zenon DEF AddIPv4AddressFromStore
          <5>3. QED
            BY <5>2
        <4>2. <<e, ip>> \in ec2IPs
          BY <3>4, <4>1, Zenon DEF AddENIAddress, EC2Inv, AtHand
        <4>3. QED
          BY <3>2, <4>2, ListedDef
      <3>5. CASE <<e, ip>> \notin IPv4Addresses /\ MarkIP
        <4>1. e = cur /\ ip \in todo /\ KeepIP(ip) /\ pc = "markIPs"
          <5>1. IPv4Addresses' # IPv4Addresses
            BY <1>2, <3>5, Zenon
          <5>2. PICK i \in todo : KeepIP(i) /\ AddIPv4AddressFromStore(cur, i)
            BY <3>5, <5>1, Zenon DEF MarkIP, dsVars, addrVars
          <5>3. <<e, ip>> = <<cur, i>>
            BY <1>2, <3>5, <5>2, Zenon DEF AddIPv4AddressFromStore
          <5>4. pc = "markIPs"
            BY <3>5, Zenon DEF MarkIP
          <5>5. QED
            BY <5>2, <5>3, <5>4
        <4>2. Reported(e, ip) /\ e \in attached
          BY <4>1, Zenon DEF EC2Inv, AtHand, Reported
        <4>3. Listed(e, ip) \/ ip \in cooldown
          BY <4>2 DEF EC2Inv, Stale
        <4>4. QED
          BY <3>2, <4>1, <4>3 DEF KeepIP, Listed
      <3>6. QED
        BY <2>1, <3>3, <3>4, <3>5
    <2>2. CASE ~(AddENIAddress \/ MarkIP)
      <3>1. <<e, ip>> \in IPv4Addresses /\ Listed(e, ip) /\ e \in eniIPPools
        BY <1>0, <1>2, <2>2, PoolSteps, Zenon DEF EC2Inv, Behind
      <3>2. CASE DeallocIPs
        <4>1. ip \notin deletedIPs \/ e # cur
          BY <3>1, Zenon DEF EC2Inv, AtHand
        <4>2. attached' = attached /\ (<<e, ip>> \in ec2IPs => <<e, ip>> \in ec2IPs')
          BY <3>2, <4>1, Zenon DEF DeallocIPs
        <4>3. QED
          BY <3>1, <4>2, ListedDef, ListedDefPrimed, Zenon
      <3>3. CASE FreeENI
        <4>1. e # cur
          BY <3>1, <3>3, Zenon DEF FreeENI, EC2Inv, AtHand
        <4>2. (e \in attached => e \in attached') /\ (<<e, ip>> \in ec2IPs => <<e, ip>> \in ec2IPs')
          BY <3>3, <4>1, Zenon DEF FreeENI, ec2Vars
        <4>3. QED
          BY <3>1, <4>2, ListedDef, ListedDefPrimed, Zenon
      <3>4. CASE ~DeallocIPs /\ ~FreeENI
        <4>1. attached \subseteq attached' /\ ec2IPs \subseteq ec2IPs'
          BY <3>4, EC2Steps, Zenon DEF ec2Vars, TryAssignIPs, AllocENI, AllocIPs, DetachOutside, NodeDiscipline
        <4>2. QED
          BY <3>1, <4>1, ListedDef, ListedDefPrimed
      <3>5. QED
        BY <3>2, <3>3, <3>4, Zenon
    <2>3. QED
      BY <2>1, <2>2
  <1>3. QED
    BY <1>1, <1>2, Zenon DEF Behind

\* A step of someone other than the pool manager.
Outside == RPC \/ IMDS \/ TimePasses

LEMMA OutsideKeeps ==
  ASSUME Outside
  PROVE  /\ UNCHANGED <<eniIPPools, IPv4Addresses, ec2Vars, pc>> /\ UNCHANGED loopVars
  BY DEF Outside, RPC, IMDS, IMDSCatchUp, TimePasses, HandleRPC, AssignPodIPv4Address,
         UnassignPodIPv4Address, Tick, vars, dsVars, eniVars, addrVars, ctxVars

\* How the statements that AtHand is about are reached.
LEMMA PcSteps ==
  ASSUME TypeInv, NodeDiscipline, ControlInv, IpamdNext
  PROVE  /\ pc' \in {"setupNetwork", "addAddresses", "fillAddresses"} =>
              SetupENI \/ SetupENINetwork \/ AddENIAddress \/ TryAssignIPs \/ Outside
         /\ pc' = "markIPs" => MarkENI \/ MarkIP \/ Outside
         /\ pc' \in {"delIPs", "dealloc"} => FindFreeableIPs \/ DelIPs \/ Outside
         /\ pc' = "freeENI" => TryFreeENI \/ Outside
  BY Zenon DEF ControlInv, NodeDiscipline, Outside,
         IpamdNext, PoolManager, Increase, Decrease, Reconcile, NodeInit, NodeInitENI,
         NodeInitReturns, SetupENI, SetupENINetwork, AddENIAddress, SetupENIReturns,
         UpdateIPPoolIfRequired, IncreaseIPPool, TryAssignIPsFails, TryAssignIPs,
         TryAssignIPsReturns, TryENI, AllocENI, AllocIPs, WaitENIAttached,
         UpdateLastNodeIPPoolAction, DecreaseIPPool, TryUnassignIPs, FindFreeableIPs,
         TryUnassignIPsReturns, DelIPs, DeallocIPs, RemoveExtraENIs, TryFreeENI, FreeENI,
         NodeIPPoolReconcile, MarkENI, MarkReturns, MarkIP, MarkIPsReturns, SweepIP, SweepENI,
         ReconcileReturns, DetachOutside, goto, setupFails

LEMMA AtHandKept ==
  ASSUME TypeInv, NodeDiscipline, ControlInv, EC2Inv, IpamdNext
  PROVE  AtHand'
  <1>0. /\ ec2IPs \in SUBSET Address /\ seen.ips \in SUBSET Address
        /\ IPv4Addresses \in SUBSET Address /\ eniIPPools \subseteq ENI
        /\ deletedIPs \subseteq IP /\ cur \in ENI /\ cur' \in ENI /\ ec2IPs' \in SUBSET Address
    <2>1. TypeInv'
      BY NextTypeInv, Zenon
    <2>2. QED
      BY <2>1, Zenon DEF TypeInv, NodeTypeOK, PoolsTyped, Address, Secondary
  <1>1. ASSUME pc' \in {"setupNetwork", "addAddresses", "fillAddresses"}
        PROVE  cur' \in attached' /\ \A ip \in todo' : <<cur', ip>> \in ec2IPs'
    <2>1. CASE SetupENI
      <3>1. cur \in attached /\ todo' \subseteq On(cur, ec2IPs) /\ UNCHANGED <<cur, attached, ec2IPs>>
        BY <1>1, <2>1, Zenon DEF SetupENI, setupFails, goto, ec2Vars, ControlInv
      <3>2. QED
        BY <1>0, <3>1, OnDef
    <2>2. CASE SetupENINetwork
      BY <1>1, <2>2 DEF SetupENINetwork, setupFails, goto, ec2Vars, loopVars, ControlInv, EC2Inv, AtHand
    <2>3. CASE AddENIAddress
      BY <2>3, Zenon DEF AddENIAddress, ec2Vars, EC2Inv, AtHand
    <2>4. CASE TryAssignIPs
      <3>1. cur' \in NeedsIP /\ todo' \subseteq On(cur', ec2IPs') /\ attached' = attached
        BY <1>1, <2>4, Zenon DEF TryAssignIPs, goto
      <3>2. cur' \in attached
        BY <3>1 DEF NeedsIP, EC2Inv, Behind
      <3>3. QED
        BY <1>0, <3>1, <3>2, OnDef, Zenon
    <2>5. CASE Outside
      BY <1>1, <2>5, OutsideKeeps, ZenonT(40) DEF EC2Inv, AtHand, ec2Vars, loopVars
    <2>6. QED
      BY <1>1, <2>1, <2>2, <2>3, <2>4, <2>5, PcSteps
  <1>2. ASSUME pc' = "markIPs"
        PROVE  cur' \in attached' /\ \A ip \in todo' : <<cur', ip>> \in seen'.ips
    <2>1. CASE MarkENI
      <3>1. PICK eni \in seen.enis :
              /\ cur' = eni /\ eni \in eniIPPools
              /\ todo' = On(eni, seen.ips)
              /\ seen' = [seen EXCEPT !.enis = @ \ {eni}]
              /\ attached' = attached
        BY <1>2, <2>1 DEF MarkENI, goto, ec2Vars
      <3>2. seen'.ips = seen.ips
        BY <3>1, Zenon DEF TypeInv, NodeTypeOK
      <3>3. QED
        BY <1>0, <3>1, <3>2, OnDef DEF EC2Inv, Behind
    <2>2. CASE MarkIP
      BY <2>2, Zenon DEF MarkIP, ec2Vars, EC2Inv, AtHand
    <2>3. CASE Outside
      BY <1>2, <2>3, OutsideKeeps, Zenon DEF EC2Inv, AtHand, ec2Vars, loopVars
    <2>4. QED
      BY <1>2, <2>1, <2>2, <2>3, PcSteps
  <1>3. ASSUME NEW ip \in deletedIPs' PROVE <<cur', ip>> \notin IPv4Addresses'
    <2>1. pc' \in {"delIPs", "dealloc"}
      BY <1>3, ControlKept, Zenon DEF ControlInv
    <2>2. CASE FindFreeableIPs
      BY <1>3, <2>2, Zenon DEF FindFreeableIPs, ControlInv
    <2>3. CASE DelIPs
      BY <1>3, <2>3 DEF DelIPs, DelIPv4AddressFromStore, dsVars, addrVars, EC2Inv, AtHand
    <2>4. CASE Outside
      <3>1. cur' = cur /\ ip \in deletedIPs /\ <<cur, ip>> \notin IPv4Addresses
        BY <1>3, <2>4, OutsideKeeps, Zenon DEF loopVars, EC2Inv, AtHand
      <3>2. QED
        BY <2>4, <3>1, OutsideKeeps, Zenon
    <2>5. QED
      BY <2>1, <2>2, <2>3, <2>4, PcSteps, Zenon
  <1>4. ASSUME pc' = "freeENI" PROVE cur' \notin eniIPPools'
    <2>1. CASE TryFreeENI
      BY <1>4, <2>1 DEF TryFreeENI, RemoveUnusedENIFromStore, dropPool, goto
    <2>2. CASE Outside
      BY <1>4, <2>2, OutsideKeeps DEF loopVars, EC2Inv, AtHand
    <2>3. QED
      BY <1>4, <2>1, <2>2, PcSteps
  <1>5. QED
    BY <1>1, <1>2, <1>3, <1>4 DEF AtHand

\* What IMDS reports after a step it reported before, or EC2 lists.
LEMMA ReportedBefore ==
  ASSUME TypeInv, IpamdNext, NEW e \in ENI, NEW ip \in IP, Reported(e, ip)'
  PROVE  Reported(e, ip) \/ (IMDS /\ Listed(e, ip))
  <1>1. CASE <<e, ip>> \in imds'.ips
    <2>1. CASE IMDS
      <3>1. PICK eni \in ENI :
              imds'.ips = {a \in imds.ips : a[1] # eni} \cup {a \in EC2View.ips : a[1] = eni}
        BY <2>1 DEF IMDS, IMDSCatchUp
      <3>2. QED
        BY <1>1, <2>1, <3>1, Zenon DEF Reported, Listed
    <2>2. CASE imds' = imds
      BY <1>1, <2>2, Zenon DEF Reported
    <2>3. QED
      BY <2>1, <2>2, ReportSteps, Zenon
  <1>2. CASE <<e, ip>> \in seen'.ips
    BY <1>2, ReportSteps, Zenon DEF Reported
  <1>3. QED
    BY <1>1, <1>2 DEF Reported

LEMMA IMDSWholeKept ==
  ASSUME TypeInv, IMDSWhole, IpamdNext
  PROVE  IMDSWhole'
  <1>1. CASE IMDS
    <2>1. PICK eni \in ENI : IMDSCatchUp(eni)
      BY <1>1, Zenon DEF IMDS
    <2>2. /\ imds'.enis = (imds.enis \ {eni}) \cup (attached \cap {eni})
          /\ imds'.ips = {a \in imds.ips : a[1] # eni} \cup {a \in EC2View.ips : a[1] = eni}
      BY <2>1 DEF IMDSCatchUp, EC2View
    <2>3. \A e \in ENI, ip \in IP : Listed(e, ip) => e \in attached
      BY ListedDef, Zenon DEF TypeInv, NodeTypeOK
    <2>4. QED
      BY <2>2, <2>3 DEF IMDSWhole, Listed
  <1>2. CASE imds' = imds
    BY <1>2 DEF IMDSWhole
  <1>3. QED
    BY <1>1, <1>2, ReportSteps

\* An ENI that EC2 attaches now is in no report.
LEMMA NewIsUnreported ==
  ASSUME TypeInv, ControlInv, EC2Inv, AllocENI, NEW e \in ENI, e \in attached', e \notin attached
  PROVE  \A ip \in IP : ~Reported(e, ip)
  <1>1. e \notin imds.enis
    BY DEF AllocENI, NewENIs
  <1>2. seen.ips = {}
    BY DEF AllocENI, ControlInv, Marking, InSetup
  <1>3. QED
    BY <1>1, <1>2, ZenonT(40) DEF EC2Inv, IMDSWhole, Reported

\* EC2 loses an address of an ENI that stays only to the cooldown cache.
LEMMA StillListed ==
  ASSUME TypeInv, NodeDiscipline, IpamdNext,
         NEW e \in ENI, NEW ip \in IP, Listed(e, ip), e \in attached'
  PROVE  Listed(e, ip)' \/ ip \in cooldown'
  <1>1. CASE DeallocIPs
    <2>1. <<e, ip>> \in ec2IPs => <<e, ip>> \in ec2IPs' \/ ip \in cooldown'
      BY <1>1 DEF DeallocIPs
    <2>2. QED
      BY <1>1, <2>1, ListedDef, ListedDefPrimed
  <1>2. CASE ~DeallocIPs
    <2>1. <<e, ip>> \in ec2IPs => <<e, ip>> \in ec2IPs'
      BY <1>2, EC2Steps, Zenon
      DEF ec2Vars, TryAssignIPs, AllocENI, AllocIPs, FreeENI, DetachOutside, NodeDiscipline
    <2>2. QED
      BY <2>1, ListedDef, ListedDefPrimed
  <1>3. QED
    BY <1>1, <1>2, Zenon

\* EC2 lists an address anew only where no other ENI attached is reported with it.
LEMMA NewlyListed ==
  ASSUME TypeInv, NodeDiscipline, ControlInv, EC2Inv, IpamdNext, NEW d \in ENI, NEW e \in attached,
         NEW ip \in IP, Listed(d, ip)', ~Listed(d, ip), Reported(e, ip)
  PROVE  d = e
  <1>0. e \in ENI
    BY Zenon DEF TypeInv, NodeTypeOK
  <1>1. CASE TryAssignIPs \/ AllocIPs
    <2>1. PICK eni \in ENI : \E n, o :
             /\ o \in AllocIPAddresses(eni, n)
             /\ ec2IPs' = ec2IPs \cup ({eni} \X o.ips)
             /\ attached' = attached
      BY <1>1, AssigningSteps, Zenon
    <2>2. <<d, ip>> \in ec2IPs' /\ <<d, ip>> \notin ec2IPs
      BY <2>1, ListedDef, ListedDefPrimed, Zenon
    <2>3. <<e, ip>> \in imds.ips => e = d
      BY <2>1, <2>2, Assigning, Zenon
    <2>4. seen.ips = {}
      BY <1>1, Zenon DEF TryAssignIPs, AllocIPs, ControlInv, Marking, InSetup
    <2>5. QED
      BY <2>3, <2>4 DEF Reported
  <1>2. CASE AllocENI
    <2>1. ip = PrimaryIP[d]
      BY <1>2, ListedDef, ListedDefPrimed, Zenon DEF AllocENI
    <2>2. ip \in Secondary \/ ip = PrimaryIP[e]
      BY <1>0 DEF EC2Inv, Stale
    <2>3. QED
      BY <1>0, <2>1, <2>2, IpamdAssumption, Zenon DEF Secondary
  <1>3. CASE ~(TryAssignIPs \/ AllocIPs \/ AllocENI)
    <2>1. attached' \subseteq attached /\ ec2IPs' \subseteq ec2IPs
      BY <1>3, EC2Steps, Zenon DEF ec2Vars, DeallocIPs, FreeENI, DetachOutside
    <2>2. QED
      BY <2>1, ListedDef, ListedDefPrimed, Zenon
  <1>4. QED
    BY <1>1, <1>2, <1>3

\* The cache loses an address only to the ENI that EC2 lists it on.
LEMMA StillCooling ==
  ASSUME TypeInv, EC2Inv, IpamdNext, NEW e \in attached, NEW ip \in IP,
         Reported(e, ip), ip \in cooldown, ip \notin cooldown'
  PROVE  Listed(e, ip)'
  <1>0. e \in ENI /\ cur \in ENI
    BY DEF TypeInv, NodeTypeOK
  <1>1. MarkIP
    BY ReportSteps, Zenon DEF DeallocIPs
  <1>2. Listed(cur, ip)
    BY <1>1, Zenon DEF MarkIP, KeepIP, Listed, cacheVars
  <1>3. Listed(e, ip)
    BY <1>0, <1>2, Zenon DEF EC2Inv, Stale
  <1>4. UNCHANGED ec2Vars
    BY <1>1, Zenon DEF MarkIP
  <1>5. QED
    BY <1>0, <1>3, <1>4, ListedDef, ListedDefPrimed, Zenon DEF ec2Vars

LEMMA StaleKept ==
  ASSUME TypeInv, NodeDiscipline, ControlInv, EC2Inv, IpamdNext
  PROVE  Stale'
  <1> SUFFICES ASSUME NEW e \in ENI, NEW ip \in IP, Reported(e, ip)'
               PROVE  /\ ip \in Secondary \/ ip = PrimaryIP[e]
                      /\ e \in attached' => Listed(e, ip)' \/ ip \in cooldown'
                      /\ \A d \in ENI : e \in attached' /\ Listed(d, ip)' => d = e
    BY Zenon DEF Stale
  <1>1. CASE Reported(e, ip)
    <2>1. ip \in Secondary \/ ip = PrimaryIP[e]
      BY <1>1, Zenon DEF EC2Inv, Stale
    <2>2. ASSUME e \in attached' PROVE e \in attached
      <3>1. AllocENI \/ attached' \subseteq attached
        BY EC2Steps, Zenon DEF ec2Vars, TryAssignIPs, AllocIPs, DeallocIPs, FreeENI, DetachOutside
      <3>2. QED
        BY <1>1, <2>2, <3>1, NewIsUnreported
    <2>3. e \in attached' => Listed(e, ip)' \/ ip \in cooldown'
      BY <1>1, <2>2, StillListed, StillCooling, Zenon DEF EC2Inv, Stale
    <2>4. ASSUME NEW d \in ENI, e \in attached', Listed(d, ip)' PROVE d = e
      BY <1>1, <2>2, <2>4, NewlyListed, Zenon DEF EC2Inv, Stale
    <2>5. QED
      BY <2>1, <2>3, <2>4, Zenon
  <1>2. CASE IMDS /\ Listed(e, ip)
    <2>1. UNCHANGED ec2Vars
      BY <1>2 DEF IMDS, IMDSCatchUp
    <2>2. \A d \in ENI : Listed(d, ip)' <=> Listed(d, ip)
      BY <2>1, ListedDef, ListedDefPrimed, Zenon DEF ec2Vars
    <2>3. ip \in Secondary \/ ip = PrimaryIP[e]
      BY <1>2, ListedDef, Zenon DEF TypeInv, NodeTypeOK
    <2>4. \A d \in ENI : Listed(d, ip) => d = e
      BY <1>2, ListedOnce DEF EC2Inv
    <2>5. QED
      BY <1>2, <2>2, <2>3, <2>4
  <1>3. QED
    BY <1>1, <1>2, ReportedBefore, Zenon

IpamdInv == TypeInv /\ ControlInv /\ EC2Inv

LEMMA InitIpamdInv == IpamdInit => IpamdInv
  <1> SUFFICES ASSUME IpamdInit PROVE IpamdInv
    OBVIOUS
  <1>1. TypeInv
    BY InitTypeInv, Zenon
  <1>2. ControlInv
    BY Zenon DEF IpamdInit, ControlInv, Starting, Marking, NoENIs
  <1>3. attached = {PrimaryENI} /\ ec2IPs = {} /\ eniIPPools = {} /\ IPv4Addresses = {}
    BY Zenon DEF IpamdInit, Init, NewDataStore
  <1>4. OneENI /\ Behind
    BY <1>3 DEF OneENI, Behind
  <1>5. AtHand
    BY <1>3, Zenon DEF IpamdInit, AtHand
  <1>6. imds = EC2View /\ seen.ips = {} /\ imds.enis = attached
    BY Zenon DEF IpamdInit, NoENIs, EC2View
  <1>7. \A e \in ENI, ip \in IP : Reported(e, ip) => Listed(e, ip)
    BY <1>6, Zenon DEF Reported, Listed
  <1>8. \A e \in ENI, ip \in IP : Listed(e, ip) => e = PrimaryENI /\ ip = PrimaryIP[e]
    BY <1>3, ListedDef, Zenon
  <1>9. Stale
    BY <1>7, <1>8 DEF Stale
  <1>10. IMDSWhole
    BY <1>3, <1>6, <1>8, Zenon DEF IMDSWhole, Listed
  <1>11. QED
    BY <1>1, <1>2, <1>4, <1>5, <1>9, <1>10, Zenon DEF IpamdInv, EC2Inv

LEMMA NextIpamdInv == NodeDiscipline /\ IpamdInv /\ [IpamdNext]_<<config, ipamdVars>> => IpamdInv'
  <1> SUFFICES ASSUME NodeDiscipline, IpamdInv, [IpamdNext]_<<config, ipamdVars>> PROVE IpamdInv'
    OBVIOUS
  <1>1. TypeInv'
    BY NextTypeInv DEF IpamdInv
  <1>2. CASE IpamdNext
    BY <1>1, <1>2, ControlKept, OneENIKept, BehindKept, AtHandKept, StaleKept, IMDSWholeKept, Zenon
    DEF IpamdInv, EC2Inv
  <1>3. CASE UNCHANGED <<config, ipamdVars>>
    <2> USE <1>3 DEF IpamdInv, EC2Inv, ipamdVars, vars, dsVars, eniVars, addrVars, ec2Vars, imdsVars,
                     ctxVars, cacheVars, timeVars, loopVars
    <2>1. ControlInv'
      BY Zenon DEF ControlInv, Starting, Marking, InSetup
    <2>2. OneENI' /\ IMDSWhole'
      BY Zenon DEF OneENI, IMDSWhole
    <2>3. Behind' /\ AtHand' /\ Stale'
      BY Zenon DEF Behind, AtHand, Stale, Listed, Reported, EC2View
    <2>4. QED
      BY <1>1, <2>1, <2>2, <2>3, Zenon
  <1>4. QED
    BY <1>2, <1>3, Zenon

\* However late IMDS is, whichever calls fail and whatever pods do in between, the
\* store holds only addresses that EC2 has on their ENI: setupENI, tryAssignIPs and
\* the mark phase add no other, decreaseIPPool and tryFreeENI take an address from the
\* store before they take it from EC2, and reconcileCooldownCache covers every address
\* that IMDS reports too late, provided EC2 does not assign such an address to
\* another ENI and no one else detaches ENIs.
THEOREM PoolFollowsEC2 == NodeDiscipline /\ IpamdSpec => []PoolOnlyFromEC2
  <1>1. IpamdInv => PoolOnlyFromEC2
    <2> SUFFICES ASSUME IpamdInv, NEW a \in IPv4Addresses PROVE a \in EC2View.ips
      BY Zenon DEF PoolOnlyFromEC2
    <2>1. a[1] \in ENI /\ a[2] \in IP /\ a = <<a[1], a[2]>>
      BY DEF IpamdInv, TypeInv, PoolsTyped
    <2>2. QED
      BY <2>1, Zenon DEF IpamdInv, EC2Inv, Behind, Listed
  <1>2. NodeDiscipline => NodeDiscipline'
    BY DEF NodeDiscipline
  <1>3. QED
    BY <1>1, <1>2, InitIpamdInv, NextIpamdInv, PTL DEF IpamdSpec

-----------------------------------------------------------------------------
(* The store is used as its proofs assume *)

\* An address is added to a pool only when it is in none.
LEMMA AddsToOnePool ==
  ASSUME NodeDiscipline, IpamdInv, IpamdNext, AddENIAddress \/ MarkIP, NEW ip \in todo,
         AddIPv4AddressFromStore(cur, ip)
  PROVE  EC2Lists(cur, ip)
  <1>0. cur \in ENI /\ ip \in IP /\ IPv4Addresses \subseteq ENI \X IP
    BY DEF IpamdInv, TypeInv, NodeTypeOK, PoolsTyped
  <1>1. Listed(cur, ip)
    <2>1. \A e \in ENI : <<e, ip>> \in IPv4Addresses' => Listed(e, ip)'
      BY <1>0, BehindKept DEF IpamdInv, Behind
    <2>2. UNCHANGED ec2Vars
      BY DEF AddENIAddress, MarkIP
    <2>3. \A e \in ENI : Listed(e, ip)' <=> Listed(e, ip)
      BY <1>0, <2>2, ListedDef, ListedDefPrimed, Zenon DEF ec2Vars
    <2>4. QED
      BY <1>0, <2>1, <2>3, Zenon DEF AddIPv4AddressFromStore
  <1>2. ASSUME NEW a \in IPv4Addresses, a[2] = ip PROVE FALSE
    <2>1. a[1] \in ENI /\ a = <<a[1], ip>>
      BY <1>0, <1>2
    <2>2. Listed(a[1], ip)
      BY <1>0, <2>1, Zenon DEF IpamdInv, EC2Inv, Behind
    <2>3. a[1] = cur
      BY <1>0, <1>1, <2>1, <2>2, ListedOnce, Zenon DEF IpamdInv, EC2Inv
    <2>4. QED
      BY <2>1, <2>3, Zenon DEF AddIPv4AddressFromStore
  <1>3. QED
    BY <1>2, Zenon DEF EC2Lists

LEMMA NextIsStoreStep == NodeDiscipline /\ IpamdInv /\ [IpamdNext]_<<config, ipamdVars>> => [Next]_vars
  <1> SUFFICES ASSUME NodeDiscipline, IpamdInv, IpamdNext PROVE [Next]_vars
    BY Zenon DEF ipamdVars
  <1>0. cur \in ENI /\ todo \subseteq IP /\ sweep \subseteq IP /\ curENIs \subseteq ENI /\ config \in Configs
    BY Zenon DEF IpamdInv, TypeInv, NodeTypeOK
  <1>1. CASE SetupENI
    BY <1>0, <1>1, Zenon DEF SetupENI, Next, FillPool, vars
  <1>2. CASE AddENIAddress
    BY <1>0, <1>2, AddsToOnePool DEF AddENIAddress, Next, FillPool
  <1>3. CASE NodeInitReturns
    BY <1>3, Zenon DEF NodeInitReturns, Next
  <1>4. serving \/ ~(pc \in {"delIPs", "tryFreeENI", "sweepIPs", "sweepENIs"})
    BY Zenon DEF IpamdInv, ControlInv, Starting, InSetup
  <1>5. CASE DelIPs
    BY <1>0, <1>4, <1>5, Zenon DEF DelIPs, Next, ShrinkPool, vars
  <1>6. CASE TryFreeENI
    BY <1>0, <1>4, <1>6, TargetKnown, Zenon DEF TryFreeENI, Next, ShrinkPool, vars
  <1>7. CASE MarkIP
    <2>1. serving' = serving
      BY <1>7 DEF MarkIP
    <2>2. CASE UNCHANGED dsVars
      BY <2>1, <2>2, Zenon DEF vars
    <2>3. CASE \E ip \in todo : AddIPv4AddressFromStore(cur, ip)
      BY <1>0, <1>7, <2>1, <2>3, AddsToOnePool, Zenon DEF Next, FillPool
    <2>4. QED
      BY <1>7, <2>2, <2>3 DEF MarkIP
  <1>8. CASE SweepIP
    BY <1>0, <1>4, <1>8, Zenon DEF SweepIP, Next, ShrinkPool, vars
  <1>9. CASE SweepENI
    BY <1>0, <1>4, <1>9, Zenon DEF SweepENI, Next, ShrinkPool, vars
  <1>10. CASE RPC
    BY <1>10, Zenon DEF RPC, Next
  <1>11. CASE TimePasses
    BY <1>11 DEF TimePasses, Next
  <1>12. QED
    BY <1>1, <1>2, <1>3, <1>5, <1>6, <1>7, <1>8, <1>9, <1>10, <1>11, StoreSteps, Zenon

\* The pool manager and the RPC handlers, between any two of its statements, use the
\* store as DataStore describes its callers: pools shrink only once nodeInit is over,
\* and no address enters a second pool.
THEOREM NodeUsesStoreAsProved == NodeDiscipline /\ IpamdSpec => UsesStoreAsProved
  <1>1. IpamdInit => Init
    BY DEF IpamdInit
  <1>2. NodeDiscipline => NodeDiscipline'
    BY DEF NodeDiscipline
  <1>3. QED
    BY <1>1, <1>2, InitIpamdInv, NextIpamdInv, NextIsStoreStep, PTL DEF IpamdSpec, UsesStoreAsProved, Spec

=============================================================================
