-------------------------- MODULE DataStoreProofs --------------------------
(***************************************************************************)
(* Proofs about DataStore, for every set of ENIs, addresses and pods and   *)
(* every choice of the periods: its types, counters and gauges, the pod    *)
(* table, the scan for a free address, and the lease that it implements.   *)
(***************************************************************************)
EXTENDS DataStore, FiniteSetTheorems, TLAPS

\* The API server lists every address for one pod, and EC2 for one ENI.
Discipline == ~PodIPsShared /\ ~ENIIPsShared

\* No address is in two pools.
OnePool == \A a, b \in IPv4Addresses : a[2] = b[2] => a = b

\* The ENI's lastUnassignedTime is no older than that of any of its addresses.
ENITimeCovers == \A a \in IPv4Addresses : lastUnassignedTime[a[1]] <= UnassignedTime[a]

\* The inductive invariant of the pod table.
PodTable == PodsHoldAssigned /\ OneHolder /\ NoAddressLeaked /\ OnePool

-----------------------------------------------------------------------------
(* Type correctness *)

\* An empty store is well typed.
LEMMA InitTypeOK == Init => TypeOK
  <1> SUFFICES ASSUME Init PROVE TypeOK
    OBVIOUS
  <1> USE DEF Init, NewDataStore
  <1>1. Forever \in Age
    BY StoreAssumption DEF Age
  <1>2. serving \in BOOLEAN
    BY Zenon
  <1>3. /\ eniIPPools \subseteq ENI
        /\ IPv4Addresses \subseteq eniIPPools \X IP
        /\ Assigned \subseteq IPv4Addresses
    OBVIOUS
  <1>4. /\ createTime \in [ENI -> Age]
        /\ lastUnassignedTime \in [ENI -> Age]
        /\ AssignedIPv4Addresses \in [ENI -> Int]
        /\ UnassignedTime \in [Address -> Age]
        /\ podsIP \in [PodKey -> PodIPInfo \cup {NoPodIP}]
    BY <1>1
  <1>5. /\ total \in Int /\ assigned \in Int
        /\ gauge \in [enis : Int, totalIPs : Int, assignedIPs : Int]
    OBVIOUS
  <1>6. QED
    BY <1>2, <1>3, <1>4, <1>5 DEF TypeOK

\* Growing older keeps an age an age and never lowers it.
LEMMA OlderType == \A age \in Age : Older(age) \in Age /\ age <= Older(age)
  BY StoreAssumption DEF Older, Age

\* Deleting a pool leaves a well typed store.
LEMMA DropPoolType ==
  ASSUME TypeOK, NEW eni \in ENI, dropPool(eni), total' \in Int,
         gauge' \in [enis : Int, totalIPs : Int, assignedIPs : Int], serving' = serving
  PROVE  TypeOK'
  <1>1. /\ eniIPPools' \subseteq ENI
        /\ IPv4Addresses' \subseteq eniIPPools' \X IP
        /\ Assigned' \subseteq IPv4Addresses'
    BY DEF TypeOK, dropPool, AddressesOf
  <1>2. Forever \in Age /\ 0 \in Int
    BY StoreAssumption DEF Age
  <1>3. QED
    BY <1>1, <1>2 DEF TypeOK, dropPool

\* What is finite stays finite, so every Cardinality below is a natural number.
LEMMA Finiteness ==
  ASSUME TypeOK
  PROVE  /\ IsFiniteSet(IPv4Addresses) /\ Cardinality(IPv4Addresses) \in Nat
         /\ IsFiniteSet(Assigned) /\ Cardinality(Assigned) \in Nat
         /\ IsFiniteSet(eniIPPools) /\ Cardinality(eniIPPools) \in Nat
         /\ \A eni : IsFiniteSet(AddressesOf(eni)) /\ Cardinality(AddressesOf(eni)) \in Nat
         /\ \A eni : IsFiniteSet(AssignedOf(eni)) /\ Cardinality(AssignedOf(eni)) \in Nat
  <1>1. IsFiniteSet(ENI \X IP)
    BY FS_Product, StoreAssumption
  <1>2. IPv4Addresses \subseteq ENI \X IP /\ Assigned \subseteq ENI \X IP
    BY DEF TypeOK
  <1>3. \A eni : AddressesOf(eni) \subseteq ENI \X IP /\ AssignedOf(eni) \subseteq ENI \X IP
    BY <1>2 DEF AddressesOf, AssignedOf
  <1>4. \A S \in SUBSET (ENI \X IP) : IsFiniteSet(S) /\ Cardinality(S) \in Nat
    BY <1>1, FS_Subset, FS_CardinalityType
  <1>5. IsFiniteSet(eniIPPools) /\ Cardinality(eniIPPools) \in Nat
    BY StoreAssumption, FS_Subset, FS_CardinalityType DEF TypeOK
  <1>6. QED
    BY <1>2, <1>3, <1>4, <1>5

-----------------------------------------------------------------------------
(* Types, counters and times: one lemma per operation *)

StoreInv == TypeOK /\ Accounting /\ ENITimeCovers

\* An empty store counts and times nothing.
LEMMA InitStoreInv == Init => StoreInv
  <1> SUFFICES ASSUME Init PROVE StoreInv
    OBVIOUS
  <1>1. TypeOK
    BY InitTypeOK
  <1>2. Accounting
    BY FS_EmptySet DEF Init, NewDataStore, Accounting
  <1>3. ENITimeCovers
    BY DEF Init, NewDataStore, ENITimeCovers
  <1>4. QED
    BY <1>1, <1>2, <1>3 DEF StoreInv

\* AddENI keeps StoreInv: the new pool is empty and its counter 0.
LEMMA AddENIStep ==
  ASSUME StoreInv, NEW eni \in ENI, AddENI(eni), serving' = serving
  PROVE  StoreInv'
  <1> USE DEF StoreInv, AddENI, addrVars
  <1>1. TypeOK'
    <2>1. IsFiniteSet(eniIPPools \cup {eni}) /\ Cardinality(eniIPPools \cup {eni}) \in Nat
      BY Finiteness, FS_AddElement, FS_CardinalityType
    <2>2. Forever \in Age /\ 0 \in Age
      BY StoreAssumption DEF Age
    <2>3. gauge' \in [enis : Int, totalIPs : Int, assignedIPs : Int]
      BY <2>1 DEF TypeOK
    <2>4. /\ eniIPPools' \subseteq ENI
          /\ IPv4Addresses' \subseteq eniIPPools' \X IP
          /\ Assigned' \subseteq IPv4Addresses'
      BY DEF TypeOK
    <2>5. QED
      BY <2>2, <2>3, <2>4 DEF TypeOK
  <1>2. Accounting'
    <2>1. AssignedOf(eni) = {}
      BY DEF TypeOK, AssignedOf
    <2>2. \A e : AssignedOf(e)' = AssignedOf(e)
      BY DEF AssignedOf
    <2>3. \A e \in eniIPPools' : AssignedIPv4Addresses'[e] = Cardinality(AssignedOf(e)')
      BY <2>1, <2>2, FS_EmptySet, Zenon DEF TypeOK, Accounting
    <2>4. QED
      BY <2>3 DEF Accounting
  <1>3. ENITimeCovers'
    <2>1. \A a \in IPv4Addresses : a[1] # eni /\ a[1] \in ENI
      BY DEF TypeOK
    <2>2. QED
      BY <2>1 DEF TypeOK, ENITimeCovers
  <1>4. QED
    BY <1>1, <1>2, <1>3

\* AddIPv4AddressFromStore keeps StoreInv: one address more and total one more.
LEMMA AddIPStep ==
  ASSUME StoreInv, NEW eni \in ENI, NEW ip \in IP,
         AddIPv4AddressFromStore(eni, ip), serving' = serving
  PROVE  StoreInv'
  <1> USE DEF StoreInv, AddIPv4AddressFromStore, eniVars
  <1>0. Forever \in Age /\ <<eni, ip>> \in Address
    BY StoreAssumption DEF Age, Address
  <1>1. TypeOK'
    <2>1. gauge' \in [enis : Int, totalIPs : Int, assignedIPs : Int] /\ total' \in Int
      BY DEF TypeOK
    <2>2. UnassignedTime' \in [Address -> Age]
      BY <1>0 DEF TypeOK
    <2>3. IPv4Addresses' \subseteq eniIPPools' \X IP /\ Assigned' \subseteq IPv4Addresses'
      BY DEF TypeOK
    <2>4. QED
      BY <2>1, <2>2, <2>3 DEF TypeOK
  <1>2. Accounting'
    <2>1. total' = Cardinality(IPv4Addresses')
      BY Finiteness, FS_AddElement, Zenon DEF Accounting
    <2>2. \A e : AssignedOf(e)' = AssignedOf(e)
      BY DEF AssignedOf
    <2>3. QED
      BY <2>1, <2>2 DEF Accounting
  <1>3. ENITimeCovers'
    <2> SUFFICES ASSUME NEW a \in IPv4Addresses'
                 PROVE  lastUnassignedTime'[a[1]] <= UnassignedTime'[a]
      BY DEF ENITimeCovers
    <2>1. CASE a = <<eni, ip>>
      <3>1. UnassignedTime'[a] = Forever /\ a[1] = eni
        BY <2>1, <1>0 DEF TypeOK
      <3>2. lastUnassignedTime[eni] <= Forever
        BY StoreAssumption DEF TypeOK, Age
      <3>3. QED
        BY <3>1, <3>2
    <2>2. CASE a # <<eni, ip>>
      <3>1. a \in IPv4Addresses /\ a \in Address
        BY <2>2 DEF TypeOK, Address
      <3>2. UnassignedTime'[a] = UnassignedTime[a]
        BY <2>2, <3>1 DEF TypeOK
      <3>3. QED
        BY <3>1, <3>2 DEF ENITimeCovers
    <2>3. QED
      BY <2>1, <2>2
  <1>4. QED
    BY <1>1, <1>2, <1>3

\* DelIPv4AddressFromStore keeps StoreInv: one free address less and total one less.
LEMMA DelIPStep ==
  ASSUME StoreInv, NEW eni \in ENI, NEW ip \in IP,
         DelIPv4AddressFromStore(eni, ip), serving' = serving
  PROVE  StoreInv'
  <1> USE DEF StoreInv, DelIPv4AddressFromStore, eniVars
  <1>0. Forever \in Age /\ <<eni, ip>> \in Address
    BY StoreAssumption DEF Age, Address
  <1>1. TypeOK'
    <2>1. gauge' \in [enis : Int, totalIPs : Int, assignedIPs : Int] /\ total' \in Int
      BY DEF TypeOK
    <2>2. UnassignedTime' \in [Address -> Age]
      BY <1>0 DEF TypeOK
    <2>3. IPv4Addresses' \subseteq eniIPPools' \X IP /\ Assigned' \subseteq IPv4Addresses'
      BY DEF TypeOK
    <2>4. QED
      BY <2>1, <2>2, <2>3 DEF TypeOK
  <1>2. Accounting'
    <2>1. total' = Cardinality(IPv4Addresses')
      BY Finiteness, FS_RemoveElement, Zenon DEF Accounting
    <2>2. \A e : AssignedOf(e)' = AssignedOf(e)
      BY DEF AssignedOf
    <2>3. QED
      BY <2>1, <2>2 DEF Accounting
  <1>3. ENITimeCovers'
    <2>1. \A a \in IPv4Addresses' :
            a \in IPv4Addresses /\ UnassignedTime'[a] = UnassignedTime[a]
      BY DEF TypeOK, Address
    <2>2. QED
      BY <2>1 DEF ENITimeCovers
  <1>4. QED
    BY <1>1, <1>2, <1>3

\* The part both forms of AssignPodIPv4Address share.
LEMMA IncrementStep ==
  ASSUME StoreInv, NEW a \in IPv4Addresses, a \notin Assigned, incrementAssignedCount(a),
         NEW k \in PodKey, recordPod(k, a), serving' = serving,
         UNCHANGED <<eniIPPools, createTime, lastUnassignedTime, IPv4Addresses,
                     UnassignedTime, total>>
  PROVE  StoreInv'
  <1> USE DEF StoreInv, incrementAssignedCount
  <1>0. a \in eniIPPools \X IP /\ a[1] \in eniIPPools /\ a[1] \in ENI /\ a[2] \in IP
    BY DEF TypeOK
  <1>1. TypeOK'
    <2>1. gauge' \in [enis : Int, totalIPs : Int, assignedIPs : Int] /\ assigned' \in Int
      BY DEF TypeOK
    <2>2. podsIP' \in [PodKey -> PodIPInfo \cup {NoPodIP}]
      BY <1>0 DEF TypeOK, recordPod, PodIPInfo
    <2>3. AssignedIPv4Addresses' \in [ENI -> Int] /\ Assigned' \subseteq IPv4Addresses'
      BY <1>0 DEF TypeOK
    <2>4. QED
      BY <2>1, <2>2, <2>3 DEF TypeOK
  <1>2. Accounting'
    <2>1. assigned' = Cardinality(Assigned')
      BY Finiteness, FS_AddElement, Zenon DEF Accounting
    <2>2. ASSUME NEW e \in eniIPPools
          PROVE  AssignedIPv4Addresses'[e] = Cardinality(AssignedOf(e)')
      <3>1. CASE e = a[1]
        <4>1. AssignedOf(e)' = AssignedOf(e) \cup {a} /\ a \notin AssignedOf(e)
          BY <3>1 DEF AssignedOf
        <4>2. Cardinality(AssignedOf(e)') = Cardinality(AssignedOf(e)) + 1
          BY <4>1, Finiteness, FS_AddElement, Zenon
        <4>3. AssignedIPv4Addresses'[e] = AssignedIPv4Addresses[e] + 1
          BY <3>1, <1>0 DEF TypeOK
        <4>4. QED
          BY <4>2, <4>3 DEF Accounting
      <3>2. CASE e # a[1]
        <4>1. AssignedOf(e)' = AssignedOf(e)
          BY <3>2 DEF AssignedOf
        <4>2. AssignedIPv4Addresses'[e] = AssignedIPv4Addresses[e]
          BY <3>2, <1>0 DEF TypeOK
        <4>3. QED
          BY <4>1, <4>2 DEF Accounting
      <3>3. QED
        BY <3>1, <3>2
    <2>3. QED
      BY <2>1, <2>2 DEF Accounting
  <1>3. ENITimeCovers'
    BY DEF ENITimeCovers
  <1>4. QED
    BY <1>1, <1>2, <1>3

\* A CNI ADD keeps StoreInv.
LEMMA AssignStep ==
  ASSUME StoreInv, NEW k \in PodKey, AssignPodIPv4Address(k), serving' = serving
  PROVE  StoreInv'
  BY IncrementStep DEF AssignPodIPv4Address, Assignable

\* The recovery of a pod keeps StoreInv, also for an address already Assigned.
LEMMA ReassignStep ==
  ASSUME StoreInv, NEW k \in PodKey, NEW ip \in IP, ReassignPodIPv4Address(k, ip),
         serving' = serving
  PROVE  StoreInv'
  <1>1. PICK a \in IPv4Addresses :
          /\ IF a \in Assigned
             THEN UNCHANGED <<assigned, AssignedIPv4Addresses, Assigned, gauge>>
             ELSE incrementAssignedCount(a)
          /\ recordPod(k, a)
    BY DEF ReassignPodIPv4Address
  <1>2. CASE a \notin Assigned
    BY <1>1, <1>2, IncrementStep DEF ReassignPodIPv4Address
  <1>3. CASE a \in Assigned
    <2>1. a[1] \in ENI /\ a[2] \in IP
      BY DEF StoreInv, TypeOK
    <2>2. podsIP' \in [PodKey -> PodIPInfo \cup {NoPodIP}]
      BY <1>1, <2>1 DEF StoreInv, TypeOK, recordPod, PodIPInfo
    <2>3. TypeOK'
      BY <1>1, <1>3, <2>2 DEF StoreInv, TypeOK, ReassignPodIPv4Address
    <2>4. Accounting' /\ ENITimeCovers'
      BY <1>1, <1>3 DEF StoreInv, Accounting, AssignedOf, ENITimeCovers, ReassignPodIPv4Address
    <2>5. QED
      BY <2>3, <2>4 DEF StoreInv
  <1>4. QED
    BY <1>2, <1>3

\* UnassignPodIPv4Address keeps StoreInv: one assigned address less in both counters.
LEMMA UnassignStep ==
  ASSUME StoreInv, NEW k \in PodKey, UnassignPodIPv4Address(k), serving' = serving
  PROVE  StoreInv'
  <1> USE DEF StoreInv, UnassignPodIPv4Address, markUnassigned
  <1>0. PICK a \in Assigned : markUnassigned(a)
    BY Zenon DEF UnassignChoices
  <1>1. /\ a \in IPv4Addresses /\ a \in Address
        /\ a[1] \in eniIPPools /\ a[1] \in ENI /\ a[2] \in IP
    BY DEF TypeOK, Address
  <1>2. 0 \in Age
    BY StoreAssumption DEF Age
  <1>3. TypeOK'
    <2>1. gauge' \in [enis : Int, totalIPs : Int, assignedIPs : Int] /\ assigned' \in Int
      BY DEF TypeOK
    <2>2. podsIP' \in [PodKey -> PodIPInfo \cup {NoPodIP}]
      BY DEF TypeOK
    <2>3. AssignedIPv4Addresses' \in [ENI -> Int] /\ Assigned' \subseteq IPv4Addresses'
      BY <1>0, <1>1 DEF TypeOK
    <2>4. UnassignedTime' \in [Address -> Age] /\ lastUnassignedTime' \in [ENI -> Age]
      BY <1>0, <1>1, <1>2 DEF TypeOK
    <2>5. QED
      BY <2>1, <2>2, <2>3, <2>4 DEF TypeOK
  <1>4. Accounting'
    <2>1. assigned' = Cardinality(Assigned')
      BY <1>0, Finiteness, FS_RemoveElement, Zenon DEF Accounting
    <2>2. ASSUME NEW e \in eniIPPools
          PROVE  AssignedIPv4Addresses'[e] = Cardinality(AssignedOf(e)')
      <3>1. CASE e = a[1]
        <4>1. AssignedOf(e)' = AssignedOf(e) \ {a} /\ a \in AssignedOf(e)
          BY <1>0, <3>1 DEF AssignedOf
        <4>a. IsFiniteSet(AssignedOf(e))
          BY Finiteness
        <4>b. Cardinality(AssignedOf(e) \ {a}) = Cardinality(AssignedOf(e)) - 1
          BY <4>1, <4>a, FS_RemoveElement, Zenon
        <4>2. Cardinality(AssignedOf(e)') = Cardinality(AssignedOf(e)) - 1
          BY <4>1, <4>b
        <4>3. AssignedIPv4Addresses'[e] = AssignedIPv4Addresses[e] - 1
          BY <1>0, <3>1, <1>1, Zenon DEF TypeOK
        <4>4. QED
          BY <4>2, <4>3 DEF Accounting
      <3>2. CASE e # a[1]
        <4>1. AssignedOf(e)' = AssignedOf(e)
          BY <1>0, <3>2 DEF AssignedOf
        <4>2. AssignedIPv4Addresses'[e] = AssignedIPv4Addresses[e]
          BY <1>0, <3>2, <1>1 DEF TypeOK
        <4>3. QED
          BY <4>1, <4>2 DEF Accounting
      <3>3. QED
        BY <3>1, <3>2, Zenon
    <2>3. QED
      BY <2>1, <2>2 DEF Accounting
  <1>5. ENITimeCovers'
    <2> SUFFICES ASSUME NEW b \in IPv4Addresses
                 PROVE  lastUnassignedTime'[b[1]] <= UnassignedTime'[b]
      BY DEF ENITimeCovers
    <2>0. b \in Address /\ b[1] \in ENI /\ UnassignedTime'[b] \in Age
      BY <1>3 DEF TypeOK, Address
    <2>1. CASE b[1] = a[1]
      <3>1. lastUnassignedTime'[b[1]] = 0
        BY <1>0, <1>1, <2>1 DEF TypeOK
      <3>2. QED
        BY <2>0, <3>1 DEF Age
    <2>2. CASE b[1] # a[1]
      <3>1. /\ lastUnassignedTime'[b[1]] = lastUnassignedTime[b[1]]
            /\ UnassignedTime'[b] = UnassignedTime[b]
        BY <1>0, <1>1, <2>0, <2>2, Zenon DEF TypeOK
      <3>2. QED
        BY <3>1 DEF ENITimeCovers
    <2>3. QED
      BY <2>1, <2>2
  <1>6. QED
    BY <1>3, <1>4, <1>5

\* A pool dropped with its counter at 0 takes no assigned address with it.
LEMMA IdlePool ==
  ASSUME StoreInv, NEW eni \in eniIPPools, AssignedIPv4Addresses[eni] = 0
  PROVE  AssignedOf(eni) = {} /\ Assigned \ AddressesOf(eni) = Assigned
  <1>1. AssignedOf(eni) = {}
    BY Finiteness, FS_EmptySet DEF StoreInv, Accounting
  <1>2. QED
    BY <1>1 DEF AssignedOf, AddressesOf, StoreInv, TypeOK

\* Deleting a pool whose counter is 0 keeps StoreInv if total drops by its size.
LEMMA DropPoolStep ==
  ASSUME StoreInv, NEW eni \in eniIPPools, AssignedIPv4Addresses[eni] = 0,
         dropPool(eni), total' = total - Cardinality(AddressesOf(eni)),
         gauge' \in [enis : Int, totalIPs : Int, assignedIPs : Int], serving' = serving
  PROVE  StoreInv'
  <1> USE DEF StoreInv
  <1>0. eni \in ENI /\ total' \in Int
    BY Finiteness DEF TypeOK
  <1>1. TypeOK'
    BY <1>0, DropPoolType
  <1>2. Accounting'
    <2>1. total' = Cardinality(IPv4Addresses')
      <3>1. IPv4Addresses \cap AddressesOf(eni) = AddressesOf(eni)
        BY DEF AddressesOf
      <3>2. Cardinality(IPv4Addresses \ AddressesOf(eni))
            = Cardinality(IPv4Addresses) - Cardinality(IPv4Addresses \cap AddressesOf(eni))
        BY Finiteness, FS_Difference, Zenon
      <3>3. QED
        BY <3>1, <3>2, Zenon DEF Accounting, dropPool
    <2>2. Assigned' = Assigned
      BY IdlePool DEF dropPool
    <2>3. \A e : AssignedOf(e)' = AssignedOf(e)
      BY <2>2 DEF AssignedOf
    <2>4. \A e \in eniIPPools' : e \in eniIPPools /\ AssignedIPv4Addresses'[e] = AssignedIPv4Addresses[e]
      BY DEF dropPool, TypeOK
    <2>5. QED
      BY <2>1, <2>2, <2>3, <2>4, Zenon DEF Accounting, dropPool
  <1>3. ENITimeCovers'
    <2>1. \A a \in IPv4Addresses' :
            /\ a \in IPv4Addresses /\ a \in Address /\ a[1] \in ENI /\ a[1] # eni
            /\ UnassignedTime'[a] = UnassignedTime[a]
            /\ lastUnassignedTime'[a[1]] = lastUnassignedTime[a[1]]
      BY DEF TypeOK, Address, dropPool, AddressesOf
    <2>2. QED
      BY <2>1, Zenon DEF ENITimeCovers
  <1>4. QED
    BY <1>1, <1>2, <1>3

\* RemoveUnusedENIFromStore keeps StoreInv.
LEMMA RemoveUnusedStep ==
  ASSUME StoreInv, NEW eni \in ENI, NEW w \in WarmIPTargets,
         RemoveUnusedENIFromStore(eni, w), serving' = serving
  PROVE  StoreInv'
  <1>1. Cardinality(eniIPPools') \in Nat /\ total' \in Int
    <2>1. /\ IsFiniteSet(eniIPPools) /\ total \in Int
          /\ Cardinality(AddressesOf(eni)) \in Nat
      BY Finiteness, Zenon DEF StoreInv, TypeOK
    <2>2. eniIPPools' = eniIPPools \ {eni} /\ total' = total - Cardinality(AddressesOf(eni))
      BY Zenon DEF RemoveUnusedENIFromStore, dropPool
    <2>3. Cardinality(eniIPPools') \in Nat
      BY <2>1, <2>2, FS_RemoveElement, FS_CardinalityType, Zenon
    <2>4. QED
      BY <2>1, <2>2, <2>3
  <1>2. gauge' \in [enis : Int, totalIPs : Int, assignedIPs : Int]
    <2>1. \A g \in [enis : Int, totalIPs : Int, assignedIPs : Int], c \in Int, t \in Int :
            [g EXCEPT !.enis = c, !.totalIPs = t] \in [enis : Int, totalIPs : Int, assignedIPs : Int]
      BY Zenon
    <2>2. gauge' = [gauge EXCEPT !.enis = Cardinality(eniIPPools'), !.totalIPs = total']
      BY DEF RemoveUnusedENIFromStore
    <2>3. gauge \in [enis : Int, totalIPs : Int, assignedIPs : Int]
      BY DEF StoreInv, TypeOK
    <2>4. Cardinality(eniIPPools') \in Int
      BY <1>1
    <2>5. QED
      BY <1>1, <2>1, <2>2, <2>3, <2>4, Zenon
  <1>3. QED
    BY <1>2, DropPoolStep DEF RemoveUnusedENIFromStore, Deletable, hasPods

\* RemoveENIFromDataStore keeps StoreInv.
LEMMA RemoveENIStep ==
  ASSUME StoreInv, NEW eni \in ENI, RemoveENIFromDataStore(eni), serving' = serving
  PROVE  StoreInv'
  <1>1. Cardinality(eniIPPools') \in Nat
    BY Finiteness, FS_RemoveElement, FS_CardinalityType, Zenon
    DEF StoreInv, TypeOK, RemoveENIFromDataStore, dropPool
  <1>2. gauge' \in [enis : Int, totalIPs : Int, assignedIPs : Int]
    BY <1>1 DEF StoreInv, TypeOK, RemoveENIFromDataStore
  <1>3. QED
    BY <1>2, DropPoolStep DEF RemoveENIFromDataStore

\* Time keeps StoreInv: the times of an ENI and of its addresses grow together.
LEMMA TickStep ==
  ASSUME StoreInv, Tick, serving' = serving
  PROVE  StoreInv'
  <1> USE DEF StoreInv, Tick
  <1>1. TypeOK'
    BY OlderType DEF TypeOK
  <1>2. Accounting'
    BY Zenon DEF Accounting, AssignedOf
  <1>3. ENITimeCovers'
    <2> SUFFICES ASSUME NEW a \in IPv4Addresses
                 PROVE  lastUnassignedTime'[a[1]] <= UnassignedTime'[a]
      BY DEF ENITimeCovers
    <2>1. a \in Address /\ a[1] \in ENI
      BY DEF TypeOK, Address
    <2>2. /\ lastUnassignedTime'[a[1]] = Older(lastUnassignedTime[a[1]])
          /\ UnassignedTime'[a] = Older(UnassignedTime[a])
      BY <2>1, Zenon
    <2>3. /\ lastUnassignedTime[a[1]] <= UnassignedTime[a]
          /\ lastUnassignedTime[a[1]] \in Age /\ UnassignedTime[a] \in Age
      BY <2>1, Zenon DEF TypeOK, ENITimeCovers
    <2>4. Forever \in Nat
      BY StoreAssumption, Zenon
    <2>5. QED
      BY <2>2, <2>3, <2>4 DEF Older, Age
  <1>4. QED
    BY <1>1, <1>2, <1>3, Zenon

\* StoreInv depends on the variables of the store only.
LEMMA StutterStep ==
  ASSUME StoreInv, UNCHANGED dsVars, serving' \in BOOLEAN
  PROVE  StoreInv'
  BY DEF StoreInv, dsVars, eniVars, addrVars, TypeOK, Accounting, AssignedOf, ENITimeCovers

\* Every step of the store keeps its types, its counters and its times.
LEMMA NextStoreInv == StoreInv /\ [Next]_vars => StoreInv'
  <1> SUFFICES ASSUME StoreInv, [Next]_vars PROVE StoreInv'
    OBVIOUS
  <1>1. CASE Serve
    BY <1>1, StutterStep DEF Serve
  <1>2. CASE FillPool /\ serving' = serving
    BY <1>2, AddENIStep, AddIPStep DEF FillPool
  <1>3. CASE RecoverPod /\ serving' = serving
    BY <1>3, ReassignStep DEF RecoverPod
  <1>4. CASE HandleRPC /\ serving' = serving
    BY <1>4, AssignStep, UnassignStep DEF HandleRPC
  <1>5. CASE ShrinkPool /\ serving' = serving
    BY <1>5, DelIPStep, RemoveUnusedStep, RemoveENIStep DEF ShrinkPool
  <1>6. CASE Tick /\ serving' = serving
    BY <1>6, TickStep, Zenon
  <1>7. CASE UNCHANGED vars
    BY <1>7, StutterStep DEF vars, StoreInv, TypeOK
  <1>8. QED
    BY <1>1, <1>2, <1>3, <1>4, <1>5, <1>6, <1>7, Zenon DEF Next

\* Under any callers, pods that share an IP included, the counters total, assigned
\* and AssignedIPv4Addresses of the store equal the addresses they count.
THEOREM StoreAccounting == Spec => [](TypeOK /\ Accounting)
  <1>1. StoreInv => TypeOK /\ Accounting
    BY DEF StoreInv
  <1>2. QED
    BY <1>1, InitStoreInv, NextStoreInv, PTL DEF Spec

\* What the operations leave in the maps of the store is well formed, also when pods
\* or ENIs share addresses.
THEOREM StoreTypes == Spec => []TypeOK
  BY StoreAccounting, PTL

-----------------------------------------------------------------------------
(* The pod table: who holds what *)

Holds(k) == podsIP[k] # NoPodIP

\* The held IPs are those of the pods with an entry.
LEMMA HeldIPsDef == \A ip : ip \in HeldIPs <=> \E k \in PodKey : Holds(k) /\ podsIP[k].IP = ip
  BY Zenon DEF HeldIPs, Holds

\* A step that only moves free addresses in or out of the pools.
LEMMA PoolStepKeepsPodTable ==
  ASSUME TypeOK, PodTable, UNCHANGED <<podsIP, Assigned>>, OnePool'
  PROVE  PodTable'
  BY DEF PodTable, PodsHoldAssigned, OneHolder, NoAddressLeaked, HeldIPs

\* Pod k takes address a, which no pod had.
LEMMA TakePodTable ==
  ASSUME TypeOK, PodTable, NEW k \in PodKey, ~Holds(k), NEW a \in IPv4Addresses,
         a \notin Assigned, recordPod(k, a), Assigned' = Assigned \cup {a},
         IPv4Addresses' = IPv4Addresses
  PROVE  PodTable'
  <1>0. a[1] \in ENI /\ a[2] \in IP /\ a = <<a[1], a[2]>>
    BY DEF TypeOK
  <1>1. /\ podsIP'[k] = [IP |-> a[2], DeviceNumber |-> a[1]]
        /\ \A l \in PodKey \ {k} : podsIP'[l] = podsIP[l]
    BY DEF recordPod, TypeOK
  <1>2. podsIP'[k] # NoPodIP /\ podsIP'[k].IP = a[2] /\ podsIP'[k].DeviceNumber = a[1]
    BY <1>0, <1>1, StoreAssumption DEF PodIPInfo
  <1>3. ASSUME NEW l \in PodKey, Holds(l) PROVE podsIP[l].IP # a[2]
    <2>1. <<podsIP[l].DeviceNumber, podsIP[l].IP>> \in Assigned
      BY <1>3 DEF PodTable, PodsHoldAssigned, Holds
    <2>2. <<podsIP[l].DeviceNumber, podsIP[l].IP>> \in IPv4Addresses
      BY <2>1, Zenon DEF TypeOK
    <2>3. SUFFICES ASSUME podsIP[l].IP = a[2] PROVE FALSE
      OBVIOUS
    <2>4. <<podsIP[l].DeviceNumber, podsIP[l].IP>>[2] = a[2]
      BY <2>3, Zenon
    <2>5. <<podsIP[l].DeviceNumber, podsIP[l].IP>> = a
      BY <2>2, <2>4, Zenon DEF PodTable, OnePool
    <2>6. QED
      BY <2>1, <2>5
  <1>4. PodsHoldAssigned'
    BY <1>0, <1>1, <1>2, Zenon DEF PodTable, PodsHoldAssigned
  <1>5. OneHolder'
    BY <1>1, <1>2, <1>3 DEF PodTable, OneHolder, Holds
  <1>6. NoAddressLeaked'
    <2> SUFFICES ASSUME NEW b \in Assigned' PROVE \E l \in PodKey : podsIP'[l] # NoPodIP /\ podsIP'[l].IP = b[2]
      BY DEF NoAddressLeaked, HeldIPs
    <2>1. CASE b = a
      BY <1>2, <2>1, Zenon
    <2>2. CASE b # a
      <3>1. b \in Assigned
        BY <2>2
      <3>2. PICK l \in PodKey : Holds(l) /\ podsIP[l].IP = b[2]
        BY <3>1, HeldIPsDef DEF PodTable, NoAddressLeaked
      <3>3. QED
        BY <3>2, <1>1 DEF Holds
    <2>3. QED
      BY <2>1, <2>2, Zenon
  <1>7. OnePool'
    BY DEF PodTable, OnePool
  <1>8. QED
    BY <1>4, <1>5, <1>6, <1>7, Zenon DEF PodTable

\* UnassignPodIPv4Address keeps the pod table: it clears the one address of its pod.
LEMMA UnassignPodTable ==
  ASSUME TypeOK, PodTable, NEW k \in PodKey, UnassignPodIPv4Address(k)
  PROVE  PodTable'
  <1>0. Holds(k) /\ podsIP' = [podsIP EXCEPT ![k] = NoPodIP] /\ IPv4Addresses' = IPv4Addresses
    BY DEF UnassignPodIPv4Address, Holds
  <1>1. PICK a \in Assigned : a[2] = podsIP[k].IP /\ Assigned' = Assigned \ {a}
    BY DEF UnassignPodIPv4Address, UnassignChoices, markUnassigned
  <1>2. /\ podsIP'[k] = NoPodIP
        /\ \A l \in PodKey \ {k} : podsIP'[l] = podsIP[l]
    BY <1>0 DEF TypeOK
  <1>3. PodsHoldAssigned'
    <2> SUFFICES ASSUME NEW l \in PodKey, podsIP'[l] # NoPodIP
                 PROVE  <<podsIP'[l].DeviceNumber, podsIP'[l].IP>> \in Assigned'
      BY DEF PodsHoldAssigned
    <2>1. l # k /\ podsIP'[l] = podsIP[l] /\ Holds(l)
      BY <1>2, Zenon DEF Holds
    <2>2. <<podsIP[l].DeviceNumber, podsIP[l].IP>> \in Assigned
      BY <2>1, Zenon DEF PodTable, PodsHoldAssigned, Holds
    <2>3. podsIP[l].IP # podsIP[k].IP
      BY <1>0, <2>1, Zenon DEF PodTable, OneHolder, Holds
    <2>4. <<podsIP[l].DeviceNumber, podsIP[l].IP>> # a
      BY <1>1, <2>3
    <2>5. QED
      BY <1>1, <2>1, <2>2, <2>4
  <1>4. OneHolder'
    BY <1>2 DEF PodTable, OneHolder
  <1>5. NoAddressLeaked'
    <2> SUFFICES ASSUME NEW b \in Assigned'
                 PROVE  \E l \in PodKey : podsIP'[l] # NoPodIP /\ podsIP'[l].IP = b[2]
      BY DEF NoAddressLeaked, HeldIPs
    <2>1. b \in Assigned /\ b # a /\ b \in IPv4Addresses /\ a \in IPv4Addresses
      BY <1>1 DEF TypeOK
    <2>2. PICK l \in PodKey : Holds(l) /\ podsIP[l].IP = b[2]
      BY <2>1, HeldIPsDef DEF PodTable, NoAddressLeaked
    <2>3. l # k
      BY <1>1, <2>1, <2>2, Zenon DEF PodTable, OnePool
    <2>4. QED
      BY <1>2, <2>2, <2>3, Zenon DEF Holds
  <1>6. OnePool'
    BY <1>0, Zenon DEF PodTable, OnePool
  <1>7. QED
    BY <1>3, <1>4, <1>5, <1>6 DEF PodTable

\* An empty pod table is safe.
LEMMA InitPodTable == Init => PodTable
  BY DEF Init, NewDataStore, PodTable, PodsHoldAssigned, OneHolder, NoAddressLeaked, OnePool

\* Each step keeps the pod table, as long as the callers name an address once.
LEMMA NextPodTable == Discipline /\ StoreInv /\ PodTable /\ [Next]_vars => PodTable'
  <1> SUFFICES ASSUME Discipline, StoreInv, PodTable, [Next]_vars PROVE PodTable'
    OBVIOUS
  <1>0. TypeOK
    BY DEF StoreInv
  <1>1. CASE UNCHANGED <<IPv4Addresses, Assigned, podsIP>>
    BY <1>0, <1>1, PoolStepKeepsPodTable DEF PodTable, OnePool
  <1>2. ASSUME NEW eni \in ENI, NEW ip \in IP, EC2Lists(eni, ip), AddIPv4AddressFromStore(eni, ip)
        PROVE  PodTable'
    <2>1. \A a \in IPv4Addresses : a[2] # ip
      BY <1>2 DEF EC2Lists, Discipline
    <2>2. OnePool'
      BY <1>2, <2>1 DEF AddIPv4AddressFromStore, PodTable, OnePool
    <2>3. QED
      BY <1>0, <1>2, <2>2, PoolStepKeepsPodTable, Zenon DEF AddIPv4AddressFromStore
  <1>3. ASSUME NEW k \in PodKey, NEW ip \in IP, APIServerLists(ip), ReassignPodIPv4Address(k, ip)
        PROVE  PodTable'
    <2>1. PICK a \in IPv4Addresses :
            /\ a[2] = ip
            /\ IF a \in Assigned THEN UNCHANGED Assigned ELSE incrementAssignedCount(a)
            /\ recordPod(k, a)
      BY <1>3 DEF ReassignPodIPv4Address
    <2>2. ip \notin HeldIPs
      BY <1>3 DEF APIServerLists, Discipline
    <2>3. a \notin Assigned
      BY <2>1, <2>2 DEF PodTable, NoAddressLeaked
    <2>4. QED
      BY <1>0, <1>3, <2>1, <2>3, TakePodTable, Zenon DEF ReassignPodIPv4Address, incrementAssignedCount, Holds
  <1>4. ASSUME NEW k \in PodKey, AssignPodIPv4Address(k) PROVE PodTable'
    <2>1. PICK a \in IPv4Addresses : Assignable(a) /\ incrementAssignedCount(a) /\ recordPod(k, a)
      BY <1>4 DEF AssignPodIPv4Address
    <2>2. QED
      BY <1>0, <1>4, <2>1, TakePodTable, Zenon
      DEF AssignPodIPv4Address, Assignable, incrementAssignedCount, Holds
  <1>5. ASSUME NEW k \in PodKey, UnassignPodIPv4Address(k) PROVE PodTable'
    BY <1>0, <1>5, UnassignPodTable
  <1>6. ASSUME NEW eni \in ENI, NEW ip \in IP, DelIPv4AddressFromStore(eni, ip) PROVE PodTable'
    <2>1. OnePool'
      BY <1>6 DEF DelIPv4AddressFromStore, PodTable, OnePool
    <2>2. QED
      BY <1>0, <1>6, <2>1, PoolStepKeepsPodTable DEF DelIPv4AddressFromStore
  <1>7. ASSUME NEW eni \in eniIPPools, AssignedIPv4Addresses[eni] = 0, dropPool(eni) PROVE PodTable'
    <2>1. OnePool' /\ podsIP' = podsIP
      BY <1>7, Zenon DEF dropPool, PodTable, OnePool
    <2>2. Assigned' = Assigned
      BY <1>7, IdlePool DEF dropPool
    <2>3. QED
      BY <1>0, <2>1, <2>2, PoolStepKeepsPodTable, Zenon
  <1>8. CASE FillPool
    BY <1>1, <1>2, <1>8 DEF FillPool, AddENI, addrVars
  <1>9. CASE RecoverPod
    BY <1>3, <1>9 DEF RecoverPod
  <1>10. CASE HandleRPC
    BY <1>4, <1>5, <1>10 DEF HandleRPC
  <1>11. CASE ShrinkPool
    BY <1>6, <1>7, <1>11, Zenon
    DEF ShrinkPool, RemoveUnusedENIFromStore, RemoveENIFromDataStore, Deletable, hasPods
  <1>12. CASE Serve \/ Tick \/ UNCHANGED vars
    BY <1>1, <1>12 DEF Serve, Tick, vars, dsVars, addrVars
  <1>13. QED
    BY <1>8, <1>9, <1>10, <1>11, <1>12, Zenon DEF Next

\* When no two listed pods share an IP and no two ENIs do, every pod's address is
\* in the pool and Assigned, no two pods hold one, and no Assigned address is
\* without its pod, whatever ADD, DEL, growing and shrinking do.
THEOREM PodTableSafe == Discipline /\ Spec => [](PodsHoldAssigned /\ OneHolder /\ NoAddressLeaked)
  <1>1. Discipline /\ StoreInv /\ PodTable /\ [Next]_vars => StoreInv' /\ PodTable'
    BY NextStoreInv, NextPodTable
  <1>2. PodTable => PodsHoldAssigned /\ OneHolder /\ NoAddressLeaked
    BY DEF PodTable
  <1>3. Discipline => Discipline'
    BY DEF Discipline
  <1>4. QED
    BY <1>1, <1>2, <1>3, InitStoreInv, InitPodTable, PTL DEF Spec

\* AssignPodIPv4Address gives no address to two pods.
THEOREM OnePodPerAddress == Discipline /\ Spec => []OneHolder
  BY PodTableSafe, PTL

\* UnassignPodIPv4Address leaves no address Assigned whose pod is gone from podsIP.
THEOREM AddressesComeBack == Discipline /\ Spec => []NoAddressLeaked
  BY PodTableSafe, PTL

\* With exact counters, an ENI whose counter is the size of its map has no free address.
LEMMA NothingHidden ==
  ASSUME StoreInv
  PROVE  RefusedOnlyWhenEmpty
  <1> SUFFICES ASSUME NEW a \in IPv4Addresses, a \notin Assigned, CoolingPassed(a)
               PROVE  Cardinality(AddressesOf(a[1])) # AssignedIPv4Addresses[a[1]]
    BY DEF RefusedOnlyWhenEmpty, Assignable
  <1>1. a[1] \in eniIPPools /\ AssignedOf(a[1]) \subseteq AddressesOf(a[1])
    BY DEF StoreInv, TypeOK, AssignedOf, AddressesOf
  <1>2. a \in AddressesOf(a[1]) /\ a \notin AssignedOf(a[1])
    BY DEF AssignedOf, AddressesOf
  <1>3. Cardinality(AssignedOf(a[1])) # Cardinality(AddressesOf(a[1]))
    BY <1>1, <1>2, Finiteness, FS_Subset DEF StoreInv
  <1>4. QED
    BY <1>1, <1>3, Zenon DEF StoreInv, Accounting

\* The scan of assignPodIPv4AddressUnsafe skips an ENI by comparing its counter
\* with the size of its map; it never so hides a free, cooled address.
THEOREM ScanHidesNothing == Spec => []RefusedOnlyWhenEmpty
  BY NothingHidden, InitStoreInv, NextStoreInv, PTL DEF Spec

\* The ENI that getDeletableENI picks has no pod, and none of its addresses was
\* given back within addressENICoolingPeriod.
THEOREM DeletedENIsIdle == Discipline /\ Spec => []DeletableIsIdle
  <1>1. ASSUME StoreInv, PodTable PROVE DeletableIsIdle
    <2> SUFFICES ASSUME NEW eni \in eniIPPools, NEW w \in WarmIPTargets, Deletable(eni, w),
                        NEW a \in AddressesOf(eni)
                 PROVE  a[2] \notin HeldIPs /\ UnassignedTime[a] >= AddressENICoolingPeriod
      BY DEF DeletableIsIdle
    <2>1. /\ AssignedIPv4Addresses[eni] = 0
          /\ ~(lastUnassignedTime[eni] < AddressENICoolingPeriod)
      BY DEF Deletable, hasPods, hasIPInCooling
    <2>2. a \in IPv4Addresses /\ a[1] = eni /\ a \in Address /\ eni \in ENI
      BY <1>1, Zenon DEF AddressesOf, StoreInv, TypeOK, Address
    <2>3. AssignedOf(eni) = {}
      BY <1>1, <2>1, IdlePool, Zenon
    <2>4. ASSUME NEW k \in PodKey, Holds(k), podsIP[k].IP = a[2] PROVE FALSE
      <3>1. <<podsIP[k].DeviceNumber, podsIP[k].IP>> \in Assigned
        BY <1>1, <2>4, Zenon DEF PodTable, PodsHoldAssigned, Holds
      <3>2. <<podsIP[k].DeviceNumber, podsIP[k].IP>>[2] = a[2]
        BY <2>4, Zenon
      <3>3. <<podsIP[k].DeviceNumber, podsIP[k].IP>> = a
        BY <1>1, <2>2, <3>1, <3>2, Zenon DEF PodTable, OnePool, StoreInv, TypeOK
      <3>4. QED
        BY <2>2, <2>3, <3>1, <3>3, Zenon DEF AssignedOf
    <2>5. UnassignedTime[a] >= AddressENICoolingPeriod
      <3>1. lastUnassignedTime[eni] <= UnassignedTime[a]
        BY <1>1, <2>2, Zenon DEF StoreInv, ENITimeCovers
      <3>2. lastUnassignedTime[eni] \in Age /\ UnassignedTime[a] \in Age
        <4>1. eni \in ENI /\ a \in Address
          BY <1>1, <2>2, Zenon DEF StoreInv, TypeOK, Address
        <4>2. QED
          BY <1>1, <4>1, Zenon DEF StoreInv, TypeOK
      <3>3. lastUnassignedTime[eni] \in Int /\ UnassignedTime[a] \in Int
        BY <3>2, StoreAssumption DEF Age
      <3>4. AddressENICoolingPeriod \in Int
        BY StoreAssumption
      <3>5. QED
        BY <2>1, <3>1, <3>3, <3>4
    <2>6. QED
      BY <2>4, <2>5, HeldIPsDef, Zenon
  <1>2. Discipline /\ StoreInv /\ PodTable /\ [Next]_vars => StoreInv' /\ PodTable'
    BY NextStoreInv, NextPodTable
  <1>3. Discipline => Discipline'
    BY DEF Discipline
  <1>4. QED
    BY <1>1, <1>2, <1>3, InitStoreInv, InitPodTable, PTL DEF Spec

\* The free addresses in the pools of S.
FreeOn(S) == {a \in IPv4Addresses \ Assigned : a[1] \in S}

LEMMA FreeOnStep ==
  ASSUME TypeOK, Accounting, NEW S \in SUBSET eniIPPools, NEW e \in S
  PROVE  Cardinality(FreeOn(S)) = FreeCount(e) + Cardinality(FreeOn(S \ {e}))
  <1>1. /\ IsFiniteSet(AddressesOf(e)) /\ IsFiniteSet(AssignedOf(e))
        /\ Cardinality(AddressesOf(e)) \in Nat /\ Cardinality(AssignedOf(e)) \in Nat
        /\ IsFiniteSet(IPv4Addresses)
    BY Finiteness
  <1>2. FreeCount(e) = Cardinality(AddressesOf(e)) - Cardinality(AssignedOf(e))
    BY DEF FreeCount, Accounting
  <1>3. AssignedOf(e) \subseteq AddressesOf(e)
    BY DEF TypeOK, AssignedOf, AddressesOf
  <1> DEFINE F == AddressesOf(e) \ AssignedOf(e)
             R == FreeOn(S \ {e})
  <1>4. IsFiniteSet(F) /\ Cardinality(F) = FreeCount(e)
    <2>1. AddressesOf(e) \cap AssignedOf(e) = AssignedOf(e)
      BY <1>3
    <2>2. /\ IsFiniteSet(F)
          /\ Cardinality(F) = Cardinality(AddressesOf(e)) - Cardinality(AddressesOf(e) \cap AssignedOf(e))
      BY <1>1, FS_Difference, Zenon
    <2> HIDE DEF F
    <2>3. QED
      BY <1>2, <2>1, <2>2, Zenon
  <1>5. IsFiniteSet(R) /\ Cardinality(R) \in Nat
    <2>1. R \in SUBSET IPv4Addresses
      BY DEF FreeOn
    <2>2. QED
      BY <1>1, <2>1, FS_Subset, FS_CardinalityType, Zenon
  <1>6. FreeOn(S) = F \cup R /\ F \cap R = {}
    BY DEF FreeOn, AddressesOf, AssignedOf, TypeOK
  <1> HIDE DEF F, R
  <1>7. Cardinality(F \cup R) = Cardinality(F) + Cardinality(R)
    <2>1. Cardinality(F \cap R) = 0
      BY <1>6, FS_EmptySet
    <2>2. Cardinality(F) \in Nat
      BY <1>4, FS_CardinalityType
    <2>3. Cardinality(F \cup R) = Cardinality(F) + Cardinality(R) - Cardinality(F \cap R)
      BY <1>4, <1>5, FS_Union, Zenon
    <2>4. QED
      BY <1>5, <2>1, <2>2, <2>3
  <1>8. QED
    BY <1>4, <1>6, <1>7, Zenon DEF R

\* The sum over the pools that isRequiredForWarmIPTarget computes counts the free
\* addresses, in whichever order the map is iterated.
LEMMA SumOfFree ==
  ASSUME TypeOK, Accounting, NEW S \in SUBSET eniIPPools
  PROVE  MapThenSumSet(FreeCount, S) = Cardinality(FreeOn(S))
  <1> DEFINE E(s) == CHOOSE x \in s : TRUE
             Sums(it) == it = [s \in SUBSET S |-> IF s = {} THEN 0 ELSE FreeCount(E(s)) + it[s \ {E(s)}]]
             g == [s \in SUBSET S |-> Cardinality(FreeOn(s))]
  <1>1. MapThenSumSet(FreeCount, S) = (CHOOSE it : Sums(it))[S]
    BY DEF MapThenSumSet, MapThenFoldSet
  <1>2. \A s \in SUBSET S : s # {} => E(s) \in s /\ s \ {E(s)} \in SUBSET S
    OBVIOUS
  <1> HIDE DEF E
  <1>3. \A s \in SUBSET S :
          g[s] = IF s = {} THEN 0 ELSE FreeCount(E(s)) + g[s \ {E(s)}]
    <2> SUFFICES ASSUME NEW s \in SUBSET S
                 PROVE  g[s] = IF s = {} THEN 0 ELSE FreeCount(E(s)) + g[s \ {E(s)}]
      BY Zenon
    <2>1. CASE s = {}
      <3>1. FreeOn(s) = {}
        BY <2>1 DEF FreeOn
      <3>2. QED
        BY <2>1, <3>1, FS_EmptySet
    <2>2. CASE s # {}
      <3>1. Cardinality(FreeOn(s)) = FreeCount(E(s)) + Cardinality(FreeOn(s \ {E(s)}))
        BY <1>2, <2>2, FreeOnStep
      <3>2. QED
        BY <1>2, <2>2, <3>1
    <2>3. QED
      BY <2>1, <2>2
  <1>4. Sums(g)
    BY <1>3, Zenon
  <1>5. \A it : Sums(it) => \A s \in SUBSET S : it[s] = IF s = {} THEN 0 ELSE FreeCount(E(s)) + it[s \ {E(s)}]
    BY Zenon
  <1>6. g[S] = Cardinality(FreeOn(S))
    OBVIOUS
  <1> HIDE DEF Sums, g
  <1>7. ASSUME NEW it, Sums(it) PROVE it[S] = g[S]
    <2> DEFINE T == {s \in SUBSET S : it[s] # g[s]}
    <2>1. T \subseteq FiniteSubsetsOf(S) /\ IsWellFoundedOn(StrictSubsetOrdering(S), FiniteSubsetsOf(S))
      <3>1. IsFiniteSet(S)
        BY Finiteness, FS_Subset
      <3>2. QED
        BY <3>1, FS_Subset, FS_StrictSubsetOrderingWellFounded, Zenon DEF FiniteSubsetsOf
    <2>2. CASE T # {}
      <3>1. PICK s \in T : \A y \in T : ~(<<y, s>> \in StrictSubsetOrdering(S))
        BY <2>1, <2>2, WFMin, Zenon
      <3>2. s # {}
        BY <1>3, <1>5, <1>7, <3>1, Zenon
      <3>3. s \ {E(s)} \in SUBSET S /\ E(s) \in s
        BY <1>2, <3>1, <3>2, Zenon
      <3>4. <<s \ {E(s)}, s>> \in StrictSubsetOrdering(S)
        BY <3>1, <3>3 DEF StrictSubsetOrdering
      <3>5. it[s \ {E(s)}] = g[s \ {E(s)}]
        BY <3>1, <3>3, <3>4, Zenon
      <3>6. it[s] = g[s]
        BY <1>3, <1>5, <1>7, <3>1, <3>2, <3>5
      <3>7. QED
        BY <3>1, <3>6
    <2>3. QED
      BY <2>2
  <1>8. QED
    BY <1>1, <1>4, <1>6, <1>7, Zenon

\* With exact counters, isRequiredForWarmIPTarget compares the target with the number of
\* addresses that are free elsewhere.
LEMMA TargetLeft ==
  ASSUME StoreInv
  PROVE  WarmIPTargetKept
  <1> SUFFICES ASSUME NEW eni \in eniIPPools, NEW w \in WarmIPTargets, Deletable(eni, w)
               PROVE  Cardinality({a \in IPv4Addresses \ Assigned : a[1] # eni}) >= w
    BY DEF WarmIPTargetKept
  <1> DEFINE F == FreeOn(eniIPPools \ {eni})
  <1>1. {a \in IPv4Addresses \ Assigned : a[1] # eni} = F
    BY DEF FreeOn, StoreInv, TypeOK
  <1>2. Cardinality(F) \in Nat
    <2>1. F \in SUBSET IPv4Addresses
      BY Zenon DEF FreeOn
    <2>2. QED
      BY <2>1, Finiteness, FS_Subset, FS_CardinalityType, Zenon DEF StoreInv
  <1>3. w \in Nat /\ (w # 0 => ~(MapThenSumSet(FreeCount, eniIPPools \ {eni}) < w))
    BY StoreAssumption DEF Deletable, isRequiredForWarmIPTarget
  <1>4. MapThenSumSet(FreeCount, eniIPPools \ {eni}) = Cardinality(F)
    BY SumOfFree DEF StoreInv
  <1> HIDE DEF F
  <1>5. Cardinality(F) >= w
    BY <1>2, <1>3, <1>4
  <1>6. QED
    BY <1>1, <1>5

\* getDeletableENI leaves WARM_IP_TARGET free addresses on the other ENIs, whatever the
\* counters of the pools have gone through.
THEOREM WarmTargetSurvives == Spec => []WarmIPTargetKept
  BY TargetLeft, InitStoreInv, NextStoreInv, PTL DEF Spec

-----------------------------------------------------------------------------
(* The gauges *)

\* What the prometheus gauges show of the store.  RemoveENIFromDataStore lowers total
\* without setting awscni_total_ip_addresses, so that one may show too many.
GaugesFollow ==
  /\ gauge.enis = Cardinality(eniIPPools)
  /\ gauge.assignedIPs = assigned
  /\ gauge.totalIPs >= total

\* Every operation that changes a count sets its gauge, but for the one that lowers total.
LEMMA NextGauges == StoreInv /\ GaugesFollow /\ [Next]_vars => GaugesFollow'
  <1> SUFFICES ASSUME StoreInv, GaugesFollow, [Next]_vars
               PROVE  GaugesFollow'
    BY Zenon
  <1>1. /\ gauge \in [enis : Int, totalIPs : Int, assignedIPs : Int]
        /\ total \in Int /\ total' \in Int
    BY NextStoreInv DEF StoreInv, TypeOK
  <1> USE DEF GaugesFollow
  <1>2. CASE UNCHANGED <<eniIPPools, assigned, total, gauge>>
    BY <1>2, Zenon
  <1>3. ASSUME NEW eni \in ENI, AddENI(eni) PROVE GaugesFollow'
    BY <1>1, <1>3 DEF AddENI
  <1>4. ASSUME NEW eni \in ENI, NEW ip \in IP,
               AddIPv4AddressFromStore(eni, ip) \/ DelIPv4AddressFromStore(eni, ip)
        PROVE  GaugesFollow'
    BY <1>1, <1>4 DEF AddIPv4AddressFromStore, DelIPv4AddressFromStore, eniVars
  <1>5. ASSUME NEW k \in PodKey, AssignPodIPv4Address(k) \/ UnassignPodIPv4Address(k)
        PROVE  GaugesFollow'
    BY <1>1, <1>5 DEF AssignPodIPv4Address, UnassignPodIPv4Address, incrementAssignedCount
  <1>6. ASSUME NEW k \in PodKey, NEW ip \in IP, ReassignPodIPv4Address(k, ip)
        PROVE  GaugesFollow'
    BY <1>1, <1>6 DEF ReassignPodIPv4Address, incrementAssignedCount
  <1>7. ASSUME NEW eni \in ENI, NEW w \in WarmIPTargets, RemoveUnusedENIFromStore(eni, w)
        PROVE  GaugesFollow'
    BY <1>1, <1>7 DEF RemoveUnusedENIFromStore, dropPool
  <1>8. ASSUME NEW eni \in ENI, RemoveENIFromDataStore(eni) PROVE GaugesFollow'
    <2>1. Cardinality(AddressesOf(eni)) \in Nat
      BY Finiteness DEF StoreInv
    <2>2. total' <= total
      BY <1>1, <1>8, <2>1 DEF RemoveENIFromDataStore
    <2>3. QED
      BY <1>1, <1>8, <2>2 DEF RemoveENIFromDataStore, dropPool
  <1>9. QED
    BY <1>2, <1>3, <1>4, <1>5, <1>6, <1>7, <1>8, Zenon
       DEF Next, Serve, FillPool, RecoverPod, HandleRPC, ShrinkPool, Tick, vars, dsVars, eniVars

\* awscni_eni_allocated and awscni_assigned_ip_addresses always show the store as it is,
\* and awscni_total_ip_addresses, where it is wrong, errs only by showing too many.
THEOREM GaugesShowStore == Spec => []GaugesFollow
  <1>1. Init => GaugesFollow
    BY FS_EmptySet DEF Init, NewDataStore, GaugesFollow
  <1>2. QED
    BY <1>1, InitStoreInv, NextStoreInv, NextGauges, PTL DEF Spec

-----------------------------------------------------------------------------
(* The lease: the data store implements the exclusive lease of PodIPLease.    *)
(* Each operation, read through the mapping of DataStore, is one step of the  *)
(* lease or none.                                                             *)

\* Before nodeInit is over no address was given back, so none is cooling.
FreshBeforeServing ==
  ~serving => \A a \in IPv4Addresses : UnassignedTime[a] = Forever

LeaseInv == StoreInv /\ PodTable /\ FreshBeforeServing

Held == [k \in PodKey |-> LeaseOf(k)]

\* What the mapped variables contain.
LEMMA MappedSets ==
  /\ \A ip : ip \in FreeIPs <=> \E a \in IPv4Addresses : a \notin Assigned /\ CoolingPassed(a) /\ a[2] = ip
  /\ \A ip : ip \in CoolingIPs <=> \E a \in IPv4Addresses : a \notin Assigned /\ ~CoolingPassed(a) /\ a[2] = ip
  BY DEF FreeIPs, CoolingIPs

LEMMA MappedSetsPrimed ==
  /\ \A ip : ip \in FreeIPs' <=> \E a \in IPv4Addresses' : a \notin Assigned' /\ CoolingPassed(a)' /\ a[2] = ip
  /\ \A ip : ip \in CoolingIPs' <=> \E a \in IPv4Addresses' : a \notin Assigned' /\ ~CoolingPassed(a)' /\ a[2] = ip
  BY Zenon DEF FreeIPs, CoolingIPs

\* The entries behind FreeIPs and CoolingIPs.
Offered == {a \in IPv4Addresses \ Assigned : CoolingPassed(a)}
Resting == {a \in IPv4Addresses \ Assigned : ~CoolingPassed(a)}

LEMMA OfferedIPs ==
  /\ FreeIPs = {a[2] : a \in Offered} /\ CoolingIPs = {a[2] : a \in Resting}
  /\ FreeIPs' = {a[2] : a \in Offered'} /\ CoolingIPs' = {a[2] : a \in Resting'}
  BY DEF FreeIPs, CoolingIPs, Offered, Resting

LEMMA OneMore ==
  ASSUME NEW A, NEW x
  PROVE  {a[2] : a \in A \cup {x}} = {a[2] : a \in A} \cup {x[2]}
  OBVIOUS

\* A leased address is the address of one pod, and is Assigned.
LEMMA LeasedIsAssigned ==
  ASSUME StoreInv, PodTable
  PROVE  \A ip \in Contract!Leased : \E a \in Assigned : a[2] = ip
  <1> SUFFICES ASSUME NEW ip \in Contract!Leased PROVE \E a \in Assigned : a[2] = ip
    OBVIOUS
  <1>1. PICK k \in PodKey : Held[k] = ip /\ ip # NoPodIP
    BY DEF Contract!Leased, Held
  <1>2. podsIP[k] # NoPodIP /\ podsIP[k].IP = ip
    BY <1>1 DEF Held, LeaseOf
  <1>3. <<podsIP[k].DeviceNumber, podsIP[k].IP>> \in Assigned
    BY <1>2 DEF PodTable, PodsHoldAssigned
  <1>4. QED
    BY <1>2, <1>3

-----------------------------------------------------------------------------
(* Each operation is a step of the lease *)

\* An operation that leaves addresses, times and pods as they are is no step.
LEMMA NoLeaseStep ==
  ASSUME UNCHANGED <<addrVars, podsIP>>
  PROVE  UNCHANGED Contract!vars
  <1>1. FreeIPs' = FreeIPs /\ CoolingIPs' = CoolingIPs
    BY DEF FreeIPs, CoolingIPs, CoolingPassed, addrVars
  <1>2. \A k \in PodKey : LeaseOf(k)' = LeaseOf(k)
    BY DEF LeaseOf
  <1>3. QED
    BY <1>1, <1>2, Zenon DEF Contract!vars

\* A new address is on offer.
LEMMA AddIPOffers ==
  ASSUME Discipline, LeaseInv, NEW eni \in ENI, NEW ip \in IP,
         EC2Lists(eni, ip), AddIPv4AddressFromStore(eni, ip)
  PROVE  Contract!Offer(ip)
  <1> DEFINE new == <<eni, ip>>
  <1>0. TypeOK
    BY DEF LeaseInv, StoreInv
  <1>1. \A a \in IPv4Addresses : a[2] # ip
    BY Zenon DEF EC2Lists, Discipline
  <1>2. ip \notin FreeIPs \cup CoolingIPs \cup Contract!Leased
    BY <1>0, <1>1, MappedSets, LeasedIsAssigned, Zenon DEF LeaseInv, TypeOK
  <1>3. \A a \in IPv4Addresses : a # new /\ a \in Address
    BY <1>0, <1>1 DEF TypeOK, Address
  <1>4. \A a \in IPv4Addresses : CoolingPassed(a)' <=> CoolingPassed(a)
    BY <1>0, <1>3 DEF AddIPv4AddressFromStore, CoolingPassed, TypeOK
  <1>5. CoolingPassed(new)'
    BY <1>0, StoreAssumption DEF AddIPv4AddressFromStore, CoolingPassed, TypeOK, Address
  <1>6. new \notin Assigned' /\ new[2] = ip
    BY <1>0 DEF AddIPv4AddressFromStore, TypeOK
  <1>7. IPv4Addresses' = IPv4Addresses \cup {new} /\ Assigned' = Assigned /\ podsIP' = podsIP
    BY DEF AddIPv4AddressFromStore
  <1>8. FreeIPs' = FreeIPs \cup {ip}
    <2>1. Offered' = Offered \cup {new}
      BY <1>4, <1>5, <1>6, <1>7, Zenon DEF Offered
    <2>2. QED
      BY <1>6, <2>1, OfferedIPs, OneMore, Zenon
  <1>9. CoolingIPs' = CoolingIPs
    <2>1. Resting' = Resting
      BY <1>4, <1>5, <1>7, Zenon DEF Resting
    <2>2. QED
      BY <2>1, OfferedIPs
  <1>10. Held' = Held
    BY <1>7, Zenon DEF Held, LeaseOf
  <1>11. QED
    BY <1>2, <1>8, <1>9, <1>10, Zenon DEF Contract!Offer, Held

\* An address that is marked for a pod, and recorded for it, is leased to it.
LEMMA TakeLeases ==
  ASSUME LeaseInv, NEW k \in PodKey, podsIP[k] = NoPodIP,
         NEW a \in IPv4Addresses, a \notin Assigned, CoolingPassed(a),
         incrementAssignedCount(a), recordPod(k, a),
         UNCHANGED <<IPv4Addresses, UnassignedTime>>
  PROVE  Contract!Lease(k, a[2])
  <1>0. TypeOK /\ OnePool
    BY DEF LeaseInv, StoreInv, PodTable
  <1>1. \A b \in IPv4Addresses : CoolingPassed(b)' <=> CoolingPassed(b)
    BY DEF CoolingPassed
  <1>2. Assigned' = Assigned \cup {a}
    BY DEF incrementAssignedCount
  <1>3. \A b \in IPv4Addresses : b[2] = a[2] => b = a
    BY <1>0, Zenon DEF OnePool
  <1>4. FreeIPs' = FreeIPs \ {a[2]}
    BY <1>1, <1>2, <1>3, MappedSets, MappedSetsPrimed
  <1>5. CoolingIPs' = CoolingIPs
    <2>1. Resting' = Resting
      BY <1>1, <1>2, Zenon DEF Resting
    <2>2. QED
      BY <2>1, OfferedIPs
  <1>6. a[2] \in FreeIPs
    BY MappedSets, Zenon
  <1>7. Held[k] = NoPodIP
    BY DEF Held, LeaseOf
  <1>8. Held' = [Held EXCEPT ![k] = a[2]]
    <2>1. podsIP'[k] = [IP |-> a[2], DeviceNumber |-> a[1]] /\ \A l \in PodKey \ {k} : podsIP'[l] = podsIP[l]
      BY <1>0, Zenon DEF recordPod, TypeOK
    <2>2. a[1] \in ENI /\ a[2] \in IP
      BY <1>0, Zenon DEF TypeOK
    <2>3. podsIP'[k] # NoPodIP
      BY <2>1, <2>2, StoreAssumption DEF PodIPInfo
    <2>4. LeaseOf(k)' = a[2] /\ \A l \in PodKey \ {k} : LeaseOf(l)' = LeaseOf(l)
      BY <2>1, <2>3 DEF LeaseOf
    <2>5. QED
      BY <2>4, Zenon DEF Held
  <1>9. QED
    BY <1>4, <1>5, <1>6, <1>7, <1>8, Zenon DEF Contract!Lease, Held

\* UnassignPodIPv4Address releases the address of the pod, and it rests.
LEMMA UnassignReleases ==
  ASSUME LeaseInv, NEW k \in PodKey, UnassignPodIPv4Address(k)
  PROVE  Contract!Release(k)
  <1>0. TypeOK /\ OnePool /\ podsIP[k] # NoPodIP
    BY DEF LeaseInv, StoreInv, PodTable, UnassignPodIPv4Address
  <1>1. PICK a \in UnassignChoices(k) : markUnassigned(a)
    BY Zenon DEF UnassignPodIPv4Address
  <1>2. a \in Assigned /\ a \in IPv4Addresses /\ a \in Address /\ a[2] = podsIP[k].IP
    BY <1>0, <1>1, Zenon DEF UnassignChoices, TypeOK, Address
  <1>3. podsIP[k].IP \in IP
    BY <1>0 DEF TypeOK, PodIPInfo
  <1>4. Assigned' = Assigned \ {a} /\ IPv4Addresses' = IPv4Addresses
    BY <1>1, Zenon DEF markUnassigned, UnassignPodIPv4Address
  <1>5. ~CoolingPassed(a)'
    BY <1>0, <1>1, <1>2, StoreAssumption DEF markUnassigned, CoolingPassed, TypeOK
  <1>6. \A b \in IPv4Addresses \ {a} : CoolingPassed(b)' <=> CoolingPassed(b)
    BY <1>0, <1>1, <1>2 DEF markUnassigned, CoolingPassed, TypeOK
  <1>7. FreeIPs' = FreeIPs
    <2>1. Offered' = Offered
      BY <1>2, <1>4, <1>5, <1>6, Zenon DEF Offered
    <2>2. QED
      BY <2>1, OfferedIPs, Zenon
  <1>8. CoolingIPs' = CoolingIPs \cup {a[2]}
    <2>1. Resting' = Resting \cup {a}
      BY <1>2, <1>4, <1>5, <1>6, Zenon DEF Resting
    <2>2. QED
      BY <2>1, OfferedIPs, OneMore, Zenon
  <1>9. Held[k] = a[2] /\ a[2] # NoPodIP
    BY <1>0, <1>2, <1>3, StoreAssumption DEF Held, LeaseOf
  <1>10. Held' = [Held EXCEPT ![k] = NoPodIP]
    <2>1. podsIP'[k] = NoPodIP /\ \A l \in PodKey \ {k} : podsIP'[l] = podsIP[l]
      BY <1>0, Zenon DEF UnassignPodIPv4Address, TypeOK
    <2>2. LeaseOf(k)' = NoPodIP /\ \A l \in PodKey \ {k} : LeaseOf(l)' = LeaseOf(l)
      BY <2>1, Zenon DEF LeaseOf
    <2>3. QED
      BY <2>2, Zenon DEF Held
  <1>11. QED
    BY <1>7, <1>8, <1>9, <1>10, Zenon DEF Contract!Release, Held

\* Addresses that leave the pools while they are not Assigned are withdrawn, or
\* recalled when some of them are cooling.
LEMMA LeavingWithdraws ==
  ASSUME LeaseInv, NEW D \in SUBSET IPv4Addresses, D \cap Assigned = {},
         IPv4Addresses' = IPv4Addresses \ D, Assigned' = Assigned, podsIP' = podsIP,
         \A a \in IPv4Addresses \ D : UnassignedTime'[a] = UnassignedTime[a]
  PROVE  \E S \in SUBSET IP : Contract!Withdraw(S) \/ Contract!Recall(S)
  <1> DEFINE S == {a[2] : a \in D}
  <1>0. TypeOK /\ OnePool
    BY Zenon DEF LeaseInv, StoreInv, PodTable
  <1>1. S \in SUBSET IP
    BY <1>0 DEF TypeOK
  <1>2. S \subseteq FreeIPs \cup CoolingIPs
    BY MappedSets, Zenon
  <1>3. \A a \in IPv4Addresses : a[2] \in S <=> a \in D
    BY <1>0, Zenon DEF OnePool
  <1>4. \A a \in IPv4Addresses \ D : CoolingPassed(a)' <=> CoolingPassed(a)
    BY Zenon DEF CoolingPassed
  <1> HIDE DEF S
  <1>5. FreeIPs' = FreeIPs \ S
    BY <1>3, <1>4, MappedSets, MappedSetsPrimed
  <1>6. CoolingIPs' = CoolingIPs \ S
    BY <1>3, <1>4, MappedSets, MappedSetsPrimed
  <1>7. Held' = Held
    BY Zenon DEF Held, LeaseOf
  <1>8. CASE S \cap CoolingIPs = {}
    <2>1. S \subseteq FreeIPs /\ CoolingIPs' = CoolingIPs
      BY <1>2, <1>6, <1>8
    <2>2. Contract!Withdraw(S)
      BY <1>5, <1>7, <2>1, Zenon DEF Contract!Withdraw, Held
    <2>3. QED
      BY <1>1, <2>2, Zenon
  <1>9. CASE S \cap CoolingIPs # {}
    <2>1. Contract!Recall(S)
      BY <1>2, <1>5, <1>6, <1>7, <1>9, Zenon DEF Contract!Recall, Held
    <2>2. QED
      BY <1>1, <2>1, Zenon
  <1>10. QED
    BY <1>8, <1>9, Zenon

\* Time takes addresses out of cooling, and puts none into it.
LEMMA TickExpires ==
  ASSUME LeaseInv, Tick
  PROVE  \E S \in SUBSET IP : Contract!Expire(S)
  <1> DEFINE S == CoolingIPs \ CoolingIPs'
  <1>0. TypeOK /\ OnePool
    BY Zenon DEF LeaseInv, StoreInv, PodTable
  <1>1. IPv4Addresses' = IPv4Addresses /\ Assigned' = Assigned /\ podsIP' = podsIP
    BY Zenon DEF Tick
  <1>2. \A a \in IPv4Addresses : CoolingPassed(a) => CoolingPassed(a)'
    <2> SUFFICES ASSUME NEW a \in IPv4Addresses, CoolingPassed(a) PROVE CoolingPassed(a)'
      OBVIOUS
    <2>1. a \in Address
      BY <1>0, Zenon DEF TypeOK, Address
    <2>2. UnassignedTime[a] \in Age /\ UnassignedTime'[a] = Older(UnassignedTime[a])
      BY <1>0, <2>1, Zenon DEF TypeOK, Tick
    <2>3. UnassignedTime[a] <= UnassignedTime'[a] /\ UnassignedTime'[a] \in Age
      BY <2>2, OlderType, Zenon
    <2>4. QED
      BY <2>2, <2>3, StoreAssumption DEF CoolingPassed, Age
  <1>3. CoolingIPs' \subseteq CoolingIPs
    BY <1>1, <1>2, MappedSets, MappedSetsPrimed, Zenon
  <1>4. \A a, b \in IPv4Addresses : a[2] = b[2] => a = b
    BY <1>0, Zenon DEF OnePool
  <1>5. FreeIPs' = FreeIPs \cup S
    BY <1>1, <1>2, <1>4, MappedSets, MappedSetsPrimed
  <1>6. CoolingIPs' = CoolingIPs \ S
    BY <1>3, Zenon DEF CoolingIPs
  <1>7. S \in SUBSET IP
    BY <1>0, MappedSets DEF TypeOK
  <1>8. Held' = Held
    BY <1>1 DEF Held, LeaseOf
  <1>9. Contract!Expire(S)
    BY <1>5, <1>6, <1>8, Zenon DEF Contract!Expire, Held
  <1>10. QED
    BY <1>7, <1>9

-----------------------------------------------------------------------------
(* The refinement *)

\* No address cools before nodeInit is over: only UnassignPodIPv4Address starts it.
LEMMA NextFresh == LeaseInv /\ [Next]_vars => FreshBeforeServing'
  <1> SUFFICES ASSUME LeaseInv, [Next]_vars, ~serving' PROVE \A a \in IPv4Addresses' : UnassignedTime'[a] = Forever
    BY DEF FreshBeforeServing
  <1>0. TypeOK /\ Forever \in Nat
    BY StoreAssumption, Zenon DEF LeaseInv, StoreInv
  <1>1. ~serving /\ ~HandleRPC /\ ~ShrinkPool /\ ~Serve
    BY DEF Next, vars, Serve, HandleRPC, ShrinkPool
  <1>2. \A a \in IPv4Addresses : UnassignedTime[a] = Forever /\ a \in Address
    BY <1>0, <1>1, Zenon DEF LeaseInv, FreshBeforeServing, TypeOK, Address
  <1>3. CASE FillPool
    <2>1. PICK eni \in ENI : AddENI(eni) \/ \E ip \in IP : AddIPv4AddressFromStore(eni, ip)
      BY <1>3 DEF FillPool
    <2>2. CASE AddENI(eni)
      BY <1>2, <2>2 DEF AddENI, addrVars
    <2>3. ASSUME NEW ip \in IP, AddIPv4AddressFromStore(eni, ip)
          PROVE  \A a \in IPv4Addresses' : UnassignedTime'[a] = Forever
      BY <1>0, <1>2, <2>3, Zenon DEF AddIPv4AddressFromStore, TypeOK, Address
    <2>4. QED
      BY <2>1, <2>2, <2>3, Zenon
  <1>4. CASE RecoverPod
    BY <1>2, <1>4, Zenon DEF RecoverPod, ReassignPodIPv4Address
  <1>5. CASE Tick
    BY <1>0, <1>2, <1>5 DEF Tick, Older
  <1>6. CASE UNCHANGED vars
    BY <1>2, <1>6 DEF vars, dsVars, addrVars
  <1>7. QED
    BY <1>1, <1>3, <1>4, <1>5, <1>6, Zenon DEF Next

LEMMA InitLease == Init => LeaseInv /\ Contract!Init
  <1> SUFFICES ASSUME Init PROVE LeaseInv /\ Contract!Init
    BY Zenon
  <1>1. LeaseInv
    BY InitStoreInv, InitPodTable, Zenon DEF LeaseInv, FreshBeforeServing, Init, NewDataStore
  <1>2. FreeIPs = {} /\ CoolingIPs = {}
    BY Zenon DEF FreeIPs, CoolingIPs, Init, NewDataStore
  <1>3. \A k \in PodKey : LeaseOf(k) = NoPodIP
    BY DEF LeaseOf, Init, NewDataStore
  <1>4. QED
    BY <1>1, <1>2, <1>3 DEF Contract!Init

\* Every step of the store is a step of the lease, or leaves it alone.
LEMMA NextLease == Discipline /\ LeaseInv /\ [Next]_vars => [Contract!Next]_(Contract!vars)
  <1> SUFFICES ASSUME Discipline, LeaseInv, [Next]_vars PROVE Contract!Next \/ UNCHANGED Contract!vars
    OBVIOUS
  <1>0. TypeOK /\ Accounting /\ PodTable
    BY DEF LeaseInv, StoreInv
  <1>1. CASE FillPool
    <2>1. PICK eni \in ENI : AddENI(eni) \/ \E ip \in IP : EC2Lists(eni, ip) /\ AddIPv4AddressFromStore(eni, ip)
      BY <1>1 DEF FillPool
    <2>2. CASE AddENI(eni)
      BY <2>2, NoLeaseStep, Zenon DEF AddENI
    <2>3. ASSUME NEW ip \in IP, EC2Lists(eni, ip), AddIPv4AddressFromStore(eni, ip) PROVE Contract!Next
      BY <2>3, AddIPOffers, Zenon DEF Contract!Next
    <2>4. QED
      BY <2>1, <2>2, <2>3, Zenon
  <1>2. CASE RecoverPod
    <2>1. PICK k \in PodKey, ip \in IP : APIServerLists(ip) /\ ReassignPodIPv4Address(k, ip)
      BY <1>2, Zenon DEF RecoverPod
    <2>2. PICK a \in IPv4Addresses :
            /\ a[2] = ip
            /\ a \notin Assigned => incrementAssignedCount(a)
            /\ recordPod(k, a)
      BY <2>1 DEF ReassignPodIPv4Address
    <2>3. a \notin Assigned
      BY <1>0, <2>1, <2>2, Zenon DEF APIServerLists, Discipline, PodTable, NoAddressLeaked
    <2>4. CoolingPassed(a)
      BY <1>2, StoreAssumption, Zenon DEF RecoverPod, LeaseInv, FreshBeforeServing, CoolingPassed
    <2>5. podsIP[k] = NoPodIP /\ UNCHANGED <<IPv4Addresses, UnassignedTime>>
      BY <2>1, Zenon DEF ReassignPodIPv4Address
    <2>6. Contract!Lease(k, a[2])
      BY <2>2, <2>3, <2>4, <2>5, TakeLeases, Zenon
    <2>7. QED
      BY <2>2, <2>6 DEF Contract!Next
  <1>3. CASE HandleRPC
    <2>1. PICK k \in PodKey : AssignPodIPv4Address(k) \/ UnassignPodIPv4Address(k)
      BY <1>3 DEF HandleRPC
    <2>2. CASE AssignPodIPv4Address(k)
      <3>1. PICK a \in IPv4Addresses : Assignable(a) /\ incrementAssignedCount(a) /\ recordPod(k, a)
        BY <2>2 DEF AssignPodIPv4Address
      <3>2. podsIP[k] = NoPodIP /\ UNCHANGED <<IPv4Addresses, UnassignedTime>>
        BY <2>2, Zenon DEF AssignPodIPv4Address
      <3>3. Contract!Lease(k, a[2])
        BY <3>1, <3>2, TakeLeases, Zenon DEF Assignable
      <3>4. a[2] \in IP
        BY <1>0 DEF TypeOK
      <3>5. QED
        BY <3>3, <3>4, Zenon DEF Contract!Next
    <2>3. CASE UnassignPodIPv4Address(k)
      BY <2>3, UnassignReleases DEF Contract!Next
    <2>4. QED
      BY <2>1, <2>2, <2>3, Zenon
  <1>4. CASE ShrinkPool
    <2>1. ASSUME NEW eni \in ENI, NEW ip \in IP, DelIPv4AddressFromStore(eni, ip)
          PROVE  \E S \in SUBSET IP : Contract!Withdraw(S) \/ Contract!Recall(S)
      <3> DEFINE D == {<<eni, ip>>}
      <3>1. D \in SUBSET IPv4Addresses /\ D \cap Assigned = {}
        BY <2>1 DEF DelIPv4AddressFromStore
      <3>2. IPv4Addresses' = IPv4Addresses \ D /\ Assigned' = Assigned /\ podsIP' = podsIP
        BY <2>1 DEF DelIPv4AddressFromStore
      <3>3. \A a \in IPv4Addresses \ D : UnassignedTime'[a] = UnassignedTime[a]
        BY <1>0, <2>1, Zenon DEF DelIPv4AddressFromStore, TypeOK, Address
      <3> HIDE DEF D
      <3>4. QED
        BY <3>1, <3>2, <3>3, LeavingWithdraws, Zenon
    <2>2. ASSUME NEW eni \in eniIPPools, AssignedIPv4Addresses[eni] = 0, dropPool(eni)
          PROVE  \E S \in SUBSET IP : Contract!Withdraw(S) \/ Contract!Recall(S)
      <3>1. AssignedOf(eni) = {}
        BY <2>2, IdlePool DEF LeaseInv
      <3>2. AddressesOf(eni) \in SUBSET IPv4Addresses /\ AddressesOf(eni) \cap Assigned = {}
        BY <3>1, Zenon DEF AddressesOf, AssignedOf
      <3>3. IPv4Addresses' = IPv4Addresses \ AddressesOf(eni) /\ Assigned' = Assigned /\ podsIP' = podsIP
        BY <2>2, <3>2, Zenon DEF dropPool
      <3>4. \A a \in IPv4Addresses \ AddressesOf(eni) : a \in Address /\ a[1] # eni
        BY <1>0, Zenon DEF TypeOK, Address, AddressesOf
      <3>5. \A a \in IPv4Addresses \ AddressesOf(eni) : UnassignedTime'[a] = UnassignedTime[a]
        BY <2>2, <3>4, Zenon DEF dropPool
      <3>6. QED
        BY <3>2, <3>3, <3>5, LeavingWithdraws, Zenon
    <2>3. \E S \in SUBSET IP : Contract!Withdraw(S) \/ Contract!Recall(S)
      BY <1>4, <2>1, <2>2, Zenon
      DEF ShrinkPool, RemoveUnusedENIFromStore, RemoveENIFromDataStore, Deletable, hasPods
    <2>4. QED
      BY <2>3 DEF Contract!Next
  <1>5. CASE Tick
    BY <1>5, TickExpires, Zenon DEF Contract!Next
  <1>6. CASE Serve \/ UNCHANGED vars
    BY <1>6, NoLeaseStep DEF Serve, vars, dsVars
  <1>7. QED
    BY <1>1, <1>2, <1>3, <1>4, <1>5, <1>6, Zenon DEF Next

\* The data store keeps the contract of PodIPLease when no two listed pods and no two
\* ENIs share an IP: AssignPodIPv4Address leases what is on offer, exclusively,
\* UnassignPodIPv4Address puts it to rest, the rest ends by the passing of time or by
\* Del and Remove, which withdraw what is on offer and recall what is cooling, and never
\* take what a pod has.
THEOREM StoreKeepsLeaseContract == Discipline /\ Spec => KeepsLeaseContract
  <1>1. Discipline /\ LeaseInv /\ [Next]_vars => LeaseInv'
    BY NextStoreInv, NextPodTable, NextFresh DEF LeaseInv
  <1>2. Discipline => Discipline'
    BY DEF Discipline
  <1>3. QED
    BY <1>1, <1>2, InitLease, NextLease, PTL DEF Spec, KeepsLeaseContract, Contract!Spec

=============================================================================
