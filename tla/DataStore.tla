----------------------------- MODULE DataStore -----------------------------
(***************************************************************************)
(* ipamd/datastore: the in-memory pool of ENIs, their secondary addresses  *)
(* and the pods that hold them.  Every exported operation takes ds.lock,   *)
(* so each is one atomic action; error returns leave the store as it was.  *)
(*                                                                         *)
(* The structs are held field by field: a field of ENIIPPool is a function *)
(* on ENI, a field of AddressInfo a set of, or a function on, pairs        *)
(* <<eni, ip>>.  A time.Time is held as its age, time.Now().Sub(t), which  *)
(* Tick advances up to the bound Forever; the zero time is Forever old.    *)
(* An ENI stands for its own DeviceNumber.                                 *)
(***************************************************************************)
EXTENDS Integers, FiniteSets, FiniteSetsExt

CONSTANTS
  ENI,                      \* network interfaces
  PrimaryENI,               \* the one the instance was launched with
  IP,                       \* secondary IPv4 addresses
  PodKey,                   \* (name, namespace, container) of a pod
  NoPodIP,                  \* podsIP has no entry for the key
  AddressCoolingPeriod,
  AddressENICoolingPeriod,
  MinLifeTime,
  Forever,                  \* bound: ages stop here, past every period
  WarmIPTargets,            \* values of WARM_IP_TARGET a caller passes
  PodIPsShared,             \* may the API server list two pods with one IP?
  ENIIPsShared              \* may two ENIs list one IP?

PodIPInfo == [IP : IP, DeviceNumber : ENI]

ASSUME StoreAssumption ==
  /\ IsFiniteSet(ENI) /\ IsFiniteSet(IP)
  /\ PrimaryENI \in ENI
  /\ NoPodIP \notin PodIPInfo /\ NoPodIP \notin IP
  /\ {AddressCoolingPeriod, AddressENICoolingPeriod, MinLifeTime, Forever} \subseteq Nat
  /\ AddressCoolingPeriod < Forever
  /\ AddressENICoolingPeriod <= Forever
  /\ MinLifeTime <= Forever
  /\ WarmIPTargets \subseteq Nat
  /\ PodIPsShared \in BOOLEAN /\ ENIIPsShared \in BOOLEAN

VARIABLES
  serving,                  \* nodeInit is over: RPCs and the pool manager run
  eniIPPools,               \* the ENIs in the store
  createTime,               \* [ENI -> age]
  lastUnassignedTime,       \* [ENI -> age]
  AssignedIPv4Addresses,    \* [ENI -> the counter of the pool]
  IPv4Addresses,            \* the <<eni, ip>> in the pools
  Assigned,                 \* those with AddressInfo.Assigned
  UnassignedTime,           \* [ENI \X IP -> age]
  podsIP,                   \* [PodKey -> PodIPInfo or NoPodIP]
  total,
  assigned,
  gauge                     \* the prometheus gauges

eniVars  == <<eniIPPools, createTime, lastUnassignedTime, AssignedIPv4Addresses>>
addrVars == <<IPv4Addresses, Assigned, UnassignedTime>>
dsVars   == <<eniVars, addrVars, podsIP, total, assigned, gauge>>
vars     == <<serving, dsVars>>

Address == ENI \X IP
Age     == 0 .. Forever

AddressesOf(eni) == {a \in IPv4Addresses : a[1] = eni}
AssignedOf(eni)  == {a \in Assigned : a[1] = eni}
HeldIPs          == {podsIP[k].IP : k \in {p \in PodKey : podsIP[p] # NoPodIP}}

TypeOK ==
  /\ serving \in BOOLEAN
  /\ eniIPPools \subseteq ENI
  /\ createTime \in [ENI -> Age]
  /\ lastUnassignedTime \in [ENI -> Age]
  /\ AssignedIPv4Addresses \in [ENI -> Int]
  /\ IPv4Addresses \subseteq eniIPPools \X IP
  /\ Assigned \subseteq IPv4Addresses
  /\ UnassignedTime \in [Address -> Age]
  /\ podsIP \in [PodKey -> PodIPInfo \cup {NoPodIP}]
  /\ total \in Int
  /\ assigned \in Int
  /\ gauge \in [enis : Int, totalIPs : Int, assignedIPs : Int]

\* NewDataStore
NewDataStore ==
  /\ eniIPPools = {}
  /\ createTime = [e \in ENI |-> Forever]
  /\ lastUnassignedTime = [e \in ENI |-> Forever]
  /\ AssignedIPv4Addresses = [e \in ENI |-> 0]
  /\ IPv4Addresses = {}
  /\ Assigned = {}
  /\ UnassignedTime = [a \in Address |-> Forever]
  /\ podsIP = [k \in PodKey |-> NoPodIP]
  /\ total = 0
  /\ assigned = 0
  /\ gauge = [enis |-> 0, totalIPs |-> 0, assignedIPs |-> 0]

Init == NewDataStore /\ serving = FALSE

-----------------------------------------------------------------------------
(* Operations *)

AddENI(eni) ==
  /\ eni \notin eniIPPools
  /\ eniIPPools' = eniIPPools \cup {eni}
  /\ createTime' = [createTime EXCEPT ![eni] = 0]
  /\ lastUnassignedTime' = [lastUnassignedTime EXCEPT ![eni] = Forever]
  /\ AssignedIPv4Addresses' = [AssignedIPv4Addresses EXCEPT ![eni] = 0]
  /\ gauge' = [gauge EXCEPT !.enis = Cardinality(eniIPPools')]
  /\ UNCHANGED <<addrVars, podsIP, total, assigned>>

AddIPv4AddressFromStore(eni, ip) ==
  /\ eni \in eniIPPools
  /\ <<eni, ip>> \notin IPv4Addresses
  /\ total' = total + 1
  /\ gauge' = [gauge EXCEPT !.totalIPs = total']
  /\ IPv4Addresses' = IPv4Addresses \cup {<<eni, ip>>}
  /\ UnassignedTime' = [UnassignedTime EXCEPT ![<<eni, ip>>] = Forever]
  /\ UNCHANGED <<eniVars, Assigned, podsIP, assigned>>

\* A slip: without the IPInUseError.
DelIPv4AddressFromStore_InUseToo(eni, ip) ==
  /\ <<eni, ip>> \in IPv4Addresses
  /\ total' = total - 1
  /\ gauge' = [gauge EXCEPT !.totalIPs = total']
  /\ IPv4Addresses' = IPv4Addresses \ {<<eni, ip>>}
  /\ UnassignedTime' = [UnassignedTime EXCEPT ![<<eni, ip>>] = Forever]
  /\ UNCHANGED <<eniVars, Assigned, podsIP, assigned>>

DelIPv4AddressFromStore(eni, ip) ==
  /\ <<eni, ip>> \in IPv4Addresses
  /\ <<eni, ip>> \notin Assigned
  /\ total' = total - 1
  /\ gauge' = [gauge EXCEPT !.totalIPs = total']
  /\ IPv4Addresses' = IPv4Addresses \ {<<eni, ip>>}
  /\ UnassignedTime' = [UnassignedTime EXCEPT ![<<eni, ip>>] = Forever]
  /\ UNCHANGED <<eniVars, Assigned, podsIP, assigned>>

incrementAssignedCount(a) ==
  /\ assigned' = assigned + 1
  /\ AssignedIPv4Addresses' = [AssignedIPv4Addresses EXCEPT ![a[1]] = @ + 1]
  /\ Assigned' = Assigned \cup {a}
  /\ gauge' = [gauge EXCEPT !.assignedIPs = assigned']

recordPod(k, a) ==
  podsIP' = [podsIP EXCEPT ![k] = [IP |-> a[2], DeviceNumber |-> a[1]]]

\* What the scan of assignPodIPv4AddressUnsafe accepts when the caller names no
\* IP.  Maps are iterated in any order, so any accepted address may be taken.
CoolingPassed(a) == UnassignedTime[a] > AddressCoolingPeriod

\* A slip: without the test of addr.Assigned.
Assignable_EvenAssigned(a) ==
  /\ Cardinality(AddressesOf(a[1])) # AssignedIPv4Addresses[a[1]]
  /\ CoolingPassed(a)

Assignable(a) ==
  /\ Cardinality(AddressesOf(a[1])) # AssignedIPv4Addresses[a[1]]
  /\ a \notin Assigned
  /\ CoolingPassed(a)

\* AssignPodIPv4Address without an IP: a CNI ADD.
AssignPodIPv4Address(k) ==
  /\ podsIP[k] = NoPodIP
  /\ \E a \in IPv4Addresses :
       /\ Assignable(a)
       /\ incrementAssignedCount(a)
       /\ recordPod(k, a)
  /\ UNCHANGED <<eniIPPools, createTime, lastUnassignedTime, IPv4Addresses,
                 UnassignedTime, total>>

\* AssignPodIPv4Address with an IP: nodeInit takes a running pod's address out
\* of the pool.  An address already assigned is recorded for the pod as well.
ReassignPodIPv4Address(k, ip) ==
  /\ podsIP[k] = NoPodIP
  /\ \E a \in IPv4Addresses :
       /\ a[2] = ip
       /\ IF a \in Assigned
          THEN UNCHANGED <<assigned, AssignedIPv4Addresses, Assigned, gauge>>
          ELSE incrementAssignedCount(a)
       /\ recordPod(k, a)
  /\ UNCHANGED <<eniIPPools, createTime, lastUnassignedTime, IPv4Addresses,
                 UnassignedTime, total>>

\* The addresses the loop of UnassignPodIPv4Address may stop at; none is
\* ErrUnknownPodIP.
UnassignChoices(k) == {a \in Assigned : a[2] = podsIP[k].IP}

\* A slip: ip.Assigned stays set.
markUnassigned_KeepsFlag(a) ==
  /\ AssignedIPv4Addresses' = [AssignedIPv4Addresses EXCEPT ![a[1]] = @ - 1]
  /\ UnassignedTime' = [UnassignedTime EXCEPT ![a] = 0]
  /\ lastUnassignedTime' = [lastUnassignedTime EXCEPT ![a[1]] = 0]
  /\ UNCHANGED Assigned

\* A slip: the counter of the ENI is not lowered.
markUnassigned_KeepsENICount(a) ==
  /\ Assigned' = Assigned \ {a}
  /\ UnassignedTime' = [UnassignedTime EXCEPT ![a] = 0]
  /\ lastUnassignedTime' = [lastUnassignedTime EXCEPT ![a[1]] = 0]
  /\ UNCHANGED AssignedIPv4Addresses

\* A slip: lastUnassignedTime is not set.
markUnassigned_NoENITime(a) ==
  /\ Assigned' = Assigned \ {a}
  /\ AssignedIPv4Addresses' = [AssignedIPv4Addresses EXCEPT ![a[1]] = @ - 1]
  /\ UnassignedTime' = [UnassignedTime EXCEPT ![a] = 0]
  /\ UNCHANGED lastUnassignedTime

\* A slip: UnassignedTime is not set.
markUnassigned_NoAddressTime(a) ==
  /\ Assigned' = Assigned \ {a}
  /\ AssignedIPv4Addresses' = [AssignedIPv4Addresses EXCEPT ![a[1]] = @ - 1]
  /\ lastUnassignedTime' = [lastUnassignedTime EXCEPT ![a[1]] = 0]
  /\ UNCHANGED UnassignedTime

markUnassigned(a) ==
  /\ Assigned' = Assigned \ {a}
  /\ AssignedIPv4Addresses' = [AssignedIPv4Addresses EXCEPT ![a[1]] = @ - 1]
  /\ UnassignedTime' = [UnassignedTime EXCEPT ![a] = 0]
  /\ lastUnassignedTime' = [lastUnassignedTime EXCEPT ![a[1]] = 0]

UnassignPodIPv4Address(k) ==
  /\ podsIP[k] # NoPodIP
  /\ \E a \in UnassignChoices(k) : markUnassigned(a)
  /\ assigned' = assigned - 1
  /\ gauge' = [gauge EXCEPT !.assignedIPs = assigned']
  /\ podsIP' = [podsIP EXCEPT ![k] = NoPodIP]
  /\ UNCHANGED <<eniIPPools, createTime, IPv4Addresses, total>>

isTooYoung(eni)     == createTime[eni] < MinLifeTime
hasIPInCooling(eni) == lastUnassignedTime[eni] < AddressENICoolingPeriod
hasPods(eni)        == AssignedIPv4Addresses[eni] # 0

FreeCount(eni) == Cardinality(AddressesOf(eni)) - AssignedIPv4Addresses[eni]

\* A slip: the ENI's own addresses are counted.
isRequiredForWarmIPTarget_CountsItself(warmIPTarget, eni) ==
  MapThenSumSet(FreeCount, eniIPPools) < warmIPTarget

isRequiredForWarmIPTarget(warmIPTarget, eni) ==
  MapThenSumSet(FreeCount, eniIPPools \ {eni}) < warmIPTarget

\* The ENIs getDeletableENI may stop at.
Deletable(eni, warmIPTarget) ==
  /\ eni # PrimaryENI
  /\ ~isTooYoung(eni)
  /\ ~hasIPInCooling(eni)
  /\ ~hasPods(eni)
  /\ ~(warmIPTarget # 0 /\ isRequiredForWarmIPTarget(warmIPTarget, eni))

\* delete(ds.eniIPPools, eni).
dropPool(eni) ==
  /\ eniIPPools' = eniIPPools \ {eni}
  /\ IPv4Addresses' = IPv4Addresses \ AddressesOf(eni)
  /\ Assigned' = Assigned \ AddressesOf(eni)
  /\ UnassignedTime' = [a \in Address |-> IF a[1] = eni THEN Forever ELSE UnassignedTime[a]]
  /\ createTime' = [createTime EXCEPT ![eni] = Forever]
  /\ lastUnassignedTime' = [lastUnassignedTime EXCEPT ![eni] = Forever]
  /\ AssignedIPv4Addresses' = [AssignedIPv4Addresses EXCEPT ![eni] = 0]
  /\ UNCHANGED <<podsIP, assigned>>

RemoveUnusedENIFromStore(eni, warmIPTarget) ==
  /\ eni \in eniIPPools
  /\ Deletable(eni, warmIPTarget)
  /\ total' = total - Cardinality(AddressesOf(eni))
  /\ dropPool(eni)
  /\ gauge' = [gauge EXCEPT !.enis = Cardinality(eniIPPools'), !.totalIPs = total']

\* A slip: without the ENIInUseError.
RemoveENIFromDataStore_InUseToo(eni) ==
  /\ eni \in eniIPPools
  /\ total' = total - Cardinality(AddressesOf(eni))
  /\ dropPool(eni)
  /\ gauge' = [gauge EXCEPT !.enis = Cardinality(eniIPPools')]

\* A slip: total is not lowered.
RemoveENIFromDataStore_KeepsTotal(eni) ==
  /\ eni \in eniIPPools
  /\ AssignedIPv4Addresses[eni] = 0
  /\ dropPool(eni)
  /\ gauge' = [gauge EXCEPT !.enis = Cardinality(eniIPPools')]
  /\ UNCHANGED total

RemoveENIFromDataStore(eni) ==
  /\ eni \in eniIPPools
  /\ AssignedIPv4Addresses[eni] = 0
  /\ total' = total - Cardinality(AddressesOf(eni))
  /\ dropPool(eni)
  /\ gauge' = [gauge EXCEPT !.enis = Cardinality(eniIPPools')]

\* Time passes.
Older(age) == IF age < Forever THEN age + 1 ELSE age

Tick ==
  /\ createTime' = [e \in ENI |-> Older(createTime[e])]
  /\ lastUnassignedTime' = [e \in ENI |-> Older(lastUnassignedTime[e])]
  /\ UnassignedTime' = [a \in Address |-> Older(UnassignedTime[a])]
  /\ UNCHANGED <<eniIPPools, AssignedIPv4Addresses, IPv4Addresses, Assigned, podsIP,
                 total, assigned, gauge>>

-----------------------------------------------------------------------------
(* The store with its callers: nodeInit fills it and takes the addresses   *)
(* of running pods out; then the RPC handlers and the pool manager call it *)
(* in any order.                                                           *)

\* A private address belongs to one interface at a time.
EC2Lists(eni, ip) == ENIIPsShared \/ \A a \in IPv4Addresses : a[2] # ip

\* A completed pod keeps its PodIP in the API server after the address has gone
\* to another pod, so two listed pods may share an IP.
APIServerLists(ip) == PodIPsShared \/ ip \notin HeldIPs

Serve == ~serving /\ serving' = TRUE /\ UNCHANGED dsVars

FillPool ==
  \E eni \in ENI :
    \/ AddENI(eni)
    \/ \E ip \in IP : EC2Lists(eni, ip) /\ AddIPv4AddressFromStore(eni, ip)

RecoverPod ==
  /\ ~serving
  /\ \E k \in PodKey, ip \in IP : APIServerLists(ip) /\ ReassignPodIPv4Address(k, ip)

HandleRPC ==
  /\ serving
  /\ \E k \in PodKey : AssignPodIPv4Address(k) \/ UnassignPodIPv4Address(k)

ShrinkPool ==
  /\ serving
  /\ \E eni \in ENI :
       \/ \E ip \in IP : DelIPv4AddressFromStore(eni, ip)
       \/ \E w \in WarmIPTargets : RemoveUnusedENIFromStore(eni, w)
       \/ RemoveENIFromDataStore(eni)

Next ==
  \/ Serve
  \/ /\ FillPool \/ RecoverPod \/ HandleRPC \/ ShrinkPool \/ Tick
     /\ UNCHANGED serving

Spec == Init /\ [][Next]_vars

-----------------------------------------------------------------------------
(* Properties *)

\* The counters the pool manager sizes the pool by are exact: total and
\* assigned count the addresses, and each ENI's AssignedIPv4Addresses its own.
Accounting ==
  /\ total = Cardinality(IPv4Addresses)
  /\ assigned = Cardinality(Assigned)
  /\ \A eni \in eniIPPools : AssignedIPv4Addresses[eni] = Cardinality(AssignedOf(eni))

\* The address of every pod in podsIP is in the pool of the ENI recorded with it
\* and is marked Assigned: UnassignPodIPv4Address never returns ErrUnknownPodIP,
\* and neither Del, RemoveUnused nor RemoveENI takes an address under a pod.
PodsHoldAssigned ==
  \A k \in PodKey :
    podsIP[k] # NoPodIP => <<podsIP[k].DeviceNumber, podsIP[k].IP>> \in Assigned

\* No two pods hold the same IP, across any order of ADD, DEL and resizing.
OneHolder ==
  \A k, l \in PodKey :
    /\ podsIP[k] # NoPodIP
    /\ podsIP[l] # NoPodIP
    /\ podsIP[k].IP = podsIP[l].IP
    => k = l

\* No address is marked Assigned without a pod that could give it back.
NoAddressLeaked == \A a \in Assigned : a[2] \in HeldIPs

\* An ADD is refused only if no pool has a free address past its cooling
\* period: the test len == AssignedIPv4Addresses hides none of them.
RefusedOnlyWhenEmpty ==
  \A a \in IPv4Addresses : a \notin Assigned /\ CoolingPassed(a) => Assignable(a)

\* An ENI that getDeletableENI may return carries no pod, and no address of it
\* was given back within addressENICoolingPeriod (data_store.go:29).
DeletableIsIdle ==
  \A eni \in eniIPPools, w \in WarmIPTargets :
    Deletable(eni, w) =>
      \A a \in AddressesOf(eni) :
        /\ a[2] \notin HeldIPs
        /\ UnassignedTime[a] >= AddressENICoolingPeriod

\* Removing a deletable ENI leaves at least WARM_IP_TARGET free addresses.
WarmIPTargetKept ==
  \A eni \in eniIPPools, w \in WarmIPTargets :
    Deletable(eni, w) => Cardinality({a \in IPv4Addresses \ Assigned : a[1] # eni}) >= w

\* The store keeps the contract of PodIPLease: read through this mapping, every
\* operation, in any order, is a step of an exclusive lease whose released addresses
\* rest in cooling until addressCoolingPeriod is over or they leave the store.  That
\* "an addressCoolingPeriod" lies between two pods' use of an address
\* (data_store.go:33) is not part of it: an address that left the store while it
\* cooled and was added again is leased at once.
FreeIPs    == {a[2] : a \in {b \in IPv4Addresses \ Assigned : CoolingPassed(b)}}
CoolingIPs == {a[2] : a \in {b \in IPv4Addresses \ Assigned : ~CoolingPassed(b)}}
LeaseOf(k) == IF podsIP[k] = NoPodIP THEN NoPodIP ELSE podsIP[k].IP

Contract == INSTANCE PodIPLease WITH
  NoIP <- NoPodIP, free <- FreeIPs, cooling <- CoolingIPs,
  lease <- [k \in PodKey |-> LeaseOf(k)]

KeepsLeaseContract == Contract!Spec

\* The gauge awscni_total_ip_addresses shows what its help text says, "The total
\* number of IP addresses" (data_store.go:72).
TotalIPsGauge == gauge.totalIPs = total

=============================================================================
