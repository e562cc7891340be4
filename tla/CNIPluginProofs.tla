-------------------------- MODULE CNIPluginProofs --------------------------
(***************************************************************************)
(* A pod whose ADD succeeded stays wired until its DEL, for any number of  *)
(* sandboxes, addresses and tables and with every fault of CNIPlugin.      *)
(*                                                                         *)
(* PodWired is not inductive.  Wiring says what each step of an ADD has    *)
(* done; that no other process undoes it rests on the lease being          *)
(* exclusive, on a teardown working on an address nobody can lease, and on *)
(* kubelet setting up one sandbox of a pod at a time.                      *)
(*                                                                         *)
(* The other direction, that what the kernel holds is some pod's, is Owned:*)
(* every rule and route names the table its address is on and, while       *)
(* nothing fails, has a process that put it there or is about to take it   *)
(* away.                                                                   *)
(***************************************************************************)
EXTENDS CNIPlugin, TLAPS

-----------------------------------------------------------------------------
(* Sequences *)

\* What joining, appending, cutting and dropping the head do to the elements.
LEMMA Joined ==
  ASSUME NEW S, NEW q \in Seq(S), NEW t \in Seq(S)
  PROVE  /\ q \o t \in Seq(S) /\ Len(q \o t) = Len(q) + Len(t)
         /\ \A i \in 1 .. Len(q) + Len(t) : (q \o t)[i] = IF i <= Len(q) THEN q[i] ELSE t[i - Len(q)]
  OBVIOUS

LEMMA Appended ==
  ASSUME NEW S, NEW q \in Seq(S), NEW x \in S
  PROVE  /\ Append(q, x) \in Seq(S) /\ Len(Append(q, x)) = Len(q) + 1
         /\ Append(q, x)[Len(q) + 1] = x /\ \A i \in 1 .. Len(q) : Append(q, x)[i] = q[i]
  OBVIOUS

LEMMA Cut ==
  ASSUME NEW S, NEW q, NEW m \in Int, NEW n \in Int, \A i \in m .. n : q[i] \in S
  PROVE  /\ SubSeq(q, m, n) \in Seq(S)
         /\ Len(SubSeq(q, m, n)) = IF m <= n THEN n - m + 1 ELSE 0
         /\ \A i \in 1 .. n - m + 1 : SubSeq(q, m, n)[i] = q[m + i - 1]
  OBVIOUS

LEMMA Headless ==
  ASSUME NEW S, NEW q \in Seq(S), q # << >>
  PROVE  /\ Head(q) \in S /\ Tail(q) \in Seq(S) /\ Len(Tail(q)) = Len(q) - 1
         /\ \A i \in 1 .. Len(Tail(q)) : Tail(q)[i] = q[i + 1]
  OBVIOUS

-----------------------------------------------------------------------------
(* What a step of an ADD or a DEL relies on *)

Holding == Adding \cup {"up"}

\* Every address that ipamd knows is on some ENI.
OnSomeENI == \A ip \in IP : ip \in free \cup cooling \cup Leased => device[ip] \in Table

\* ADD and the pod that is up work with the address that ipamd leased.
HoldsLease == \A s \in Sandbox : pc[s] \in Holding => lease[s] = addr[s]

\* The address of a teardown is neither on offer nor leased.
TornDownRests == \A s \in Sandbox : pc[s] \in Deleting => addr[s] \notin free \cup Leased

\* One sandbox of a pod is up or being set up.
OneSetUp ==
  \A r, s \in Sandbox : pc[r] \in Holding /\ pc[s] \in Holding /\ PodOf[r] = PodOf[s] => r = s

LeaseSide == PluginTypeOK /\ Exclusive /\ OnSomeENI /\ HoldsLease /\ TornDownRests /\ OneSetUp

\* A host veth has the name of its sandbox's pod.
VethNamed == \A p \in PodName : hostVeth[p] # NoSandbox => PodOf[hostVeth[p]] = p

Wired(s) ==
  /\ pc[s] \in {"hostRoute", "toRule", "fromRule", "up"} => hostVeth[PodOf[s]] = s
  /\ pc[s] \in {"toRule", "fromRule", "up"} => hostRoute[addr[s]] = s
  /\ pc[s] \in {"fromRule", "up"} => addr[s] \in toRule
  /\ pc[s] = "up" /\ table[s] > 0 => \A d \in Dst : Contains(fromRule[addr[s]][d], table[s])

Wiring == \A s \in Sandbox : Wired(s)

-----------------------------------------------------------------------------
(* The lease *)

LeaseType == free \subseteq IP /\ cooling \subseteq IP /\ lease \in [PodKey -> IP \cup {NoIP}]

LEMMA LeasedDef == \A ip : ip \in Leased <=> ip # NoIP /\ \E k \in PodKey : lease[k] = ip
  BY DEF Leased

LEMMA LeasedDefPrimed == \A ip : ip \in Leased' <=> ip # NoIP /\ \E k \in PodKey : lease'[k] = ip
  BY DEF Leased

\* What is leased after a step: a lease adds an address, a release takes one.
LEMMA LeaseAdds ==
  ASSUME LeaseType, NEW k \in PodKey, NEW ip \in IP, Lease(k, ip)
  PROVE  /\ lease'[k] = ip /\ \A l \in PodKey \ {k} : lease'[l] = lease[l]
         /\ Leased' = Leased \cup {ip}
         /\ ip \in free /\ free' = free \ {ip} /\ cooling' = cooling
         /\ LeaseType'
  <1>1. lease'[k] = ip /\ \A l \in PodKey \ {k} : lease'[l] = lease[l]
    BY DEF Lease, LeaseType
  <1>2. LeaseType' /\ lease[k] = NoIP /\ ip # NoIP
    BY PluginAssumption DEF Lease, LeaseType
  <1>3. Leased' = Leased \cup {ip}
    BY <1>1, <1>2, LeasedDef, LeasedDefPrimed
  <1>4. QED
    BY <1>1, <1>2, <1>3 DEF Lease

LEMMA ReleaseTakes ==
  ASSUME LeaseType, Exclusive, NEW k \in PodKey, Release(k)
  PROVE  /\ lease'[k] = NoIP /\ \A l \in PodKey \ {k} : lease'[l] = lease[l]
         /\ Leased' = Leased \ {lease[k]} /\ lease[k] \in Leased /\ lease[k] \in IP
         /\ free' = free /\ cooling' = cooling \cup {lease[k]}
         /\ LeaseType'
  <1>1. lease'[k] = NoIP /\ \A l \in PodKey \ {k} : lease'[l] = lease[l]
    BY DEF Release, LeaseType
  <1>2. lease[k] # NoIP /\ lease[k] \in IP
    BY DEF Release, LeaseType
  <1>3. \A l \in PodKey \ {k} : lease[l] # lease[k]
    BY <1>2 DEF Exclusive
  <1>4. Leased' = Leased \ {lease[k]} /\ lease[k] \in Leased
    BY <1>1, <1>2, <1>3, LeasedDef, LeasedDefPrimed
  <1>5. LeaseType'
    BY <1>2 DEF Release, LeaseType
  <1>6. QED
    BY <1>1, <1>2, <1>4, <1>5 DEF Release

\* Every step of the lease keeps it exclusive.
LEMMA LeaseStep == LeaseType /\ Exclusive /\ [Next]_vars => LeaseType' /\ Exclusive'
  <1> SUFFICES ASSUME LeaseType, Exclusive, [Next]_vars PROVE LeaseType' /\ Exclusive'
    OBVIOUS
  <1>1. ASSUME lease' = lease PROVE Leased' = Leased
    BY <1>1 DEF Leased
  <1>2. ASSUME NEW ip \in IP, Offer(ip) PROVE LeaseType' /\ Exclusive'
    BY <1>1, <1>2 DEF Offer, LeaseType, Exclusive
  <1>3. ASSUME NEW S \in SUBSET IP, Withdraw(S) \/ Recall(S) PROVE LeaseType' /\ Exclusive'
    BY <1>1, <1>3 DEF Withdraw, Recall, LeaseType, Exclusive
  <1>4. ASSUME NEW S \in SUBSET IP, Expire(S) PROVE LeaseType' /\ Exclusive'
    BY <1>1, <1>4 DEF Expire, LeaseType, Exclusive
  <1>5. ASSUME NEW k \in PodKey, NEW ip \in IP, Lease(k, ip) PROVE LeaseType' /\ Exclusive'
    <2>1. \A l \in PodKey : lease[l] # ip
      BY <1>5, LeaseAdds, LeasedDef, PluginAssumption DEF Exclusive
    <2>2. QED
      BY <1>5, <2>1, LeaseAdds DEF Exclusive
  <1>6. ASSUME NEW k \in PodKey, Release(k) PROVE LeaseType' /\ Exclusive'
    BY <1>6, ReleaseTakes DEF Exclusive
  <1>7. CASE UNCHANGED vars
    BY <1>1, <1>7 DEF vars, LeaseType, Exclusive
  <1>8. QED
    BY <1>2, <1>3, <1>4, <1>5, <1>6, <1>7 DEF Next

\* The contract of the data store is an exclusive lease: a leased address is neither on
\* offer nor cooling, and no two pods have it.
THEOREM LeaseIsExclusive == Spec => []Exclusive
  <1>1. Init => LeaseType /\ Exclusive
    BY DEF Init, LeaseType, Exclusive, Leased
  <1>2. QED
    BY <1>1, LeaseStep, PTL DEF Spec

-----------------------------------------------------------------------------
(* Types *)

Step == {"new", "up", "failed", "deleted"} \cup Adding \cup Deleting

\* Adding and deleting a rule leaves a list of tables.
LEMMA RuleLists ==
  ASSUME NEW q \in Seq(Table), NEW t \in Table
  PROVE  without(q, t) \in Seq(Table) /\ addRule(q, t) \in Seq(Table) /\ Contains(addRule(q, t), t)
  <1>1. without(q, t) \in Seq(Table)
    <2>1. CASE Contains(q, t)
      <3>1. PICK i \in 1 .. Len(q) : without(q, t) = RemoveAt(q, i)
        BY <2>1, Zenon DEF without, Contains
      <3>2. SubSeq(q, 1, i - 1) \in Seq(Table)
        BY Cut
      <3>3. SubSeq(q, i + 1, Len(q)) \in Seq(Table)
        BY Cut
      <3>4. QED
        BY <3>1, <3>2, <3>3, Joined DEF RemoveAt
    <2>2. CASE ~Contains(q, t)
      BY <2>2 DEF without
    <2>3. QED
      BY <2>1, <2>2
  <1>2. \A u \in Seq(Table) : Append(u, t) \in Seq(Table) /\ Contains(Append(u, t), t)
    <2> SUFFICES ASSUME NEW u \in Seq(Table) PROVE Append(u, t) \in Seq(Table) /\ Contains(Append(u, t), t)
      OBVIOUS
    <2>1. Append(u, t) \in Seq(Table) /\ Append(u, t)[Len(u) + 1] = t /\ Len(Append(u, t)) = Len(u) + 1
      BY Appended
    <2>2. QED
      BY <2>1 DEF Contains
  <1>3. QED
    BY <1>1, <1>2 DEF addRule

\* A step of the process of s moves it alone.
LEMMA GotoMoves ==
  ASSUME PluginTypeOK, NEW s \in Sandbox, NEW x \in Step, Goto(s, x)
  PROVE  pc'[s] = x /\ (\A r \in Sandbox \ {s} : pc'[r] = pc[r]) /\ pc' \in [Sandbox -> Step]
  BY DEF PluginTypeOK, Goto, Step

\* rulesAdded changes the rules of the process's address only.
LEMMA RulesAddedType ==
  ASSUME PluginTypeOK, NEW s \in Sandbox, addr[s] \in IP, table[s] \in Table, NEW S \in SUBSET Dst, NEW lost \in BOOLEAN
  PROVE  /\ rulesAdded(s, S, lost) \in [IP -> [Dst -> Seq(Table)]]
         /\ \A ip \in IP \ {addr[s]} : rulesAdded(s, S, lost)[ip] = fromRule[ip]
         /\ \A d \in S : Contains(rulesAdded(s, S, lost)[addr[s]][d], table[s])
  <1>1. \A d \in Dst : fromRule[addr[s]][d] \in Seq(Table)
    BY DEF PluginTypeOK
  <1>2. \A d \in Dst :
          /\ without(fromRule[addr[s]][d], table[s]) \in Seq(Table)
          /\ addRule(fromRule[addr[s]][d], table[s]) \in Seq(Table)
          /\ Contains(addRule(fromRule[addr[s]][d], table[s]), table[s])
    BY <1>1, RuleLists, Zenon
  <1> DEFINE new == [d \in Dst |->
               IF d \in S THEN addRule(fromRule[addr[s]][d], table[s])
               ELSE IF lost THEN without(fromRule[addr[s]][d], table[s]) ELSE fromRule[addr[s]][d]]
  <1>3. new \in [Dst -> Seq(Table)] /\ \A d \in S : Contains(new[d], table[s])
    BY <1>1, <1>2
  <1>4. rulesAdded(s, S, lost) = [fromRule EXCEPT ![addr[s]] = new]
    BY DEF rulesAdded, PluginTypeOK
  <1> HIDE DEF new
  <1>5. QED
    BY <1>3, <1>4 DEF PluginTypeOK

KernelType ==
  /\ hostVeth \in [PodName -> Sandbox \cup {NoSandbox}]
  /\ hostRoute \in [IP -> Sandbox \cup {NoSandbox}]
  /\ toRule \subseteq IP
  /\ fromRule \in [IP -> [Dst -> Seq(Table)]]

\* The working address and table of a process, or of a pod that is up.
Working == \A s \in Sandbox : pc[s] \in Holding \cup Deleting => addr[s] \in IP /\ table[s] \in Table

ProcType ==
  /\ device \in [IP -> Table \cup {-1}]
  /\ pc \in [Sandbox -> Step]
  /\ addr \in [Sandbox -> IP \cup {NoIP}]
  /\ table \in [Sandbox -> Table \cup {-1}]
  /\ Working

LEMMA TypeParts == PluginTypeOK <=> LeaseType /\ ProcType /\ KernelType
  BY DEF PluginTypeOK, LeaseType, ProcType, KernelType, Working, Holding, Step, Adding, Deleting, Sandbox

LEMMA TypePartsPrimed == PluginTypeOK' <=> LeaseType' /\ ProcType' /\ KernelType'
  BY DEF PluginTypeOK, LeaseType, ProcType, KernelType, Working, Holding, Step, Adding, Deleting, Sandbox

LEMMA SNATKnown == useExternalSNAT \in BOOLEAN
  BY DEF useExternalSNAT

\* A new veth, or none, takes a name; the routes of the old one go.
LEMMA SetLinkType ==
  ASSUME KernelType, NEW p \in PodName, NEW x \in Sandbox \cup {NoSandbox}, setLink(p, x)
  PROVE  /\ hostVeth' \in [PodName -> Sandbox \cup {NoSandbox}]
         /\ hostRoute' \in [IP -> Sandbox \cup {NoSandbox}]
  BY DEF KernelType, setLink

\* Nothing but veths, routes, rules and sequences of tables is left in the kernel.
LEMMA NextKernelType == PluginTypeOK /\ [PluginNext]_pluginVars => KernelType'
  <1> SUFFICES ASSUME PluginTypeOK, [PluginNext]_pluginVars PROVE KernelType'
    OBVIOUS
  <1>0. KernelType /\ Working
    BY TypeParts DEF ProcType
  <1>1. CASE UNCHANGED kernelVars
    BY <1>0, <1>1 DEF kernelVars, KernelType
  <1>2. ASSUME NEW s \in Sandbox, add(s) PROVE KernelType'
    <2>0. PodOf[s] \in PodName /\ s \in Sandbox \cup {NoSandbox} /\ NoSandbox \in Sandbox \cup {NoSandbox}
      BY DEF PodName
    <2>1. CASE addRefused(s) \/ addNetwork(s) \/ releaseAfterFailure(s)
      BY <1>1, <2>1 DEF addRefused, addNetwork, releaseAfterFailure
    <2>2. CASE setupVeth(s)
      <3>1. \/ UNCHANGED <<hostVeth, hostRoute>>
            \/ \E x \in Sandbox \cup {NoSandbox} : setLink(PodOf[s], x)
        BY <2>0, <2>2 DEF setupVeth
      <3>2. UNCHANGED <<toRule, fromRule>>
        BY <2>2 DEF setupVeth
      <3>3. QED
        BY <1>0, <2>0, <3>1, <3>2, SetLinkType DEF KernelType
    <2>3. CASE replaceHostRoute(s)
      BY <1>0, <2>3, Zenon DEF replaceHostRoute, KernelType
    <2>4. CASE addToContainerRule(s)
      <3>1. addr[s] \in IP
        BY <1>0, <2>4 DEF addToContainerRule, Working, Holding, Adding
      <3>2. QED
        BY <1>0, <2>4, <3>1 DEF addToContainerRule, KernelType
    <2>5. CASE addFromContainerRules(s)
      <3>1. addr[s] \in IP /\ table[s] \in Table
        BY <1>0, <2>5 DEF addFromContainerRules, Working, Holding, Adding
      <3>2. \A S \in SUBSET Dst, lost \in BOOLEAN : rulesAdded(s, S, lost) \in [IP -> [Dst -> Seq(Table)]]
        BY <3>1, RulesAddedType, Zenon
      <3>3. useExternalSNAT \in BOOLEAN
        BY SNATKnown
      <3>4. fromRule' = fromRule \/ \E S \in SUBSET Dst, lost \in BOOLEAN : fromRule' = rulesAdded(s, S, lost)
        BY <2>5, <3>3, Zenon DEF addFromContainerRules
      <3>5. UNCHANGED <<hostVeth, hostRoute, toRule>>
        BY <2>5 DEF addFromContainerRules
      <3>6. QED
        BY <1>0, <3>2, <3>4, <3>5, Zenon DEF KernelType
    <2>6. QED
      BY <1>2, <2>1, <2>2, <2>3, <2>4, <2>5 DEF add
  <1>3. ASSUME NEW s \in Sandbox, tearDownNS(s) PROVE KernelType'
    <2>1. CASE delToContainerRule(s)
      BY <1>0, <2>1 DEF delToContainerRule, KernelType
    <2>2. CASE delFromContainerRules(s)
      <3>1. <<>> \in Seq(Table)
        OBVIOUS
      <3>2. PICK S \in SUBSET Dst :
              fromRule' = [fromRule EXCEPT ![addr[s]] = [d \in Dst |-> IF d \in S THEN <<>> ELSE @[d]]]
        BY <2>2 DEF delFromContainerRules
      <3>3. fromRule' \in [IP -> [Dst -> Seq(Table)]]
        BY <1>0, <3>1, <3>2, Zenon DEF KernelType
      <3>4. UNCHANGED <<hostVeth, hostRoute, toRule>>
        BY <2>2 DEF delFromContainerRules
      <3>5. QED
        BY <1>0, <3>3, <3>4 DEF KernelType
    <2>3. CASE delHostRoute(s)
      BY <1>0, <2>3, Zenon DEF delHostRoute, KernelType
    <2>4. QED
      BY <1>3, <2>1, <2>2, <2>3 DEF tearDownNS
  <1>4. ASSUME NEW s \in Sandbox, stopSandbox(s) PROVE KernelType'
    <2>1. PodOf[s] \in PodName /\ setLink(PodOf[s], NoSandbox) /\ UNCHANGED <<toRule, fromRule>>
      BY <1>4 DEF PodName, stopSandbox
    <2>2. QED
      BY <1>0, <2>1, SetLinkType DEF KernelType
  <1>5. ASSUME NEW s \in Sandbox, delRefused(s) \/ delNetwork(s) \/ die(s) PROVE KernelType'
    BY <1>1, <1>5 DEF delRefused, delNetwork, die
  <1>6. ASSUME NEW ip \in IP, offerAddress(ip) \/ withdrawAddress(ip) \/ coolingOver(ip) PROVE KernelType'
    BY <1>1, <1>6 DEF offerAddress, withdrawAddress, coolingOver
  <1>7. CASE UNCHANGED pluginVars
    BY <1>1, <1>7 DEF pluginVars
  <1>8. QED
    BY <1>2, <1>3, <1>4, <1>5, <1>6, <1>7 DEF PluginNext

-----------------------------------------------------------------------------
(* Processes and the lease *)

\* A step that leaves the lease alone and moves no process into ADD or into DEL.
LEMMA QuietStep ==
  ASSUME LeaseSide, UNCHANGED <<leaseVars, device, addr, table>>, pc' \in [Sandbox -> Step],
         \A r \in Sandbox : /\ pc'[r] \in Holding => pc[r] \in Holding
                            /\ pc'[r] \in Deleting => pc[r] \in Deleting
  PROVE  LeaseType' /\ ProcType' /\ Exclusive' /\ OnSomeENI' /\ HoldsLease' /\ TornDownRests' /\ OneSetUp'
  <1>1. LeaseType /\ ProcType
    BY TypeParts DEF LeaseSide
  <1>2. Leased' = Leased /\ UNCHANGED <<free, cooling, lease, device, addr, table>>
    BY DEF leaseVars, Leased
  <1>3. LeaseType' /\ ProcType'
    BY <1>1, <1>2 DEF LeaseType, ProcType, Working
  <1>4. Exclusive' /\ OnSomeENI'
    BY <1>2 DEF LeaseSide, Exclusive, OnSomeENI
  <1>5. HoldsLease' /\ TornDownRests' /\ OneSetUp'
    BY <1>2 DEF LeaseSide, HoldsLease, TornDownRests, OneSetUp
  <1>6. QED
    BY <1>3, <1>4, <1>5

\* AddNetwork leases a free address to the sandbox; its reply may be lost.
LEMMA AddNetworkStep ==
  ASSUME LeaseSide, NEW s \in Sandbox, addNetwork(s)
  PROVE  LeaseType' /\ ProcType' /\ Exclusive' /\ OnSomeENI' /\ HoldsLease' /\ TornDownRests' /\ OneSetUp'
  <1>0. LeaseType /\ ProcType /\ Exclusive /\ PluginTypeOK
    BY TypeParts DEF LeaseSide
  <1>1. PICK ip \in IP :
          /\ Lease(s, ip)
          /\ \/ /\ Goto(s, "setupVeth")
                /\ addr' = [addr EXCEPT ![s] = ip]
                /\ table' = [table EXCEPT ![s] = device[ip]]
             \/ Goto(s, "failed") /\ UNCHANGED <<addr, table>>
    BY DEF addNetwork
  <1>2. /\ lease'[s] = ip /\ \A r \in Sandbox \ {s} : lease'[r] = lease[r]
        /\ Leased' = Leased \cup {ip} /\ ip \in free /\ free' = free \ {ip} /\ cooling' = cooling
        /\ LeaseType'
    BY <1>0, <1>1, LeaseAdds DEF Sandbox
  <1>3. Exclusive'
    BY <1>0, <1>1, LeaseStep DEF Next, Sandbox
  <1>4. device' = device /\ device[ip] \in Table
    BY <1>2 DEF addNetwork, LeaseSide, OnSomeENI
  <1>5. OnSomeENI'
    BY <1>2, <1>4 DEF LeaseSide, OnSomeENI
  <1>6. \A r \in Sandbox : pc[r] \in Deleting => addr[r] # ip
    BY <1>2 DEF LeaseSide, TornDownRests
  <1>7. CASE /\ Goto(s, "setupVeth")
             /\ addr' = [addr EXCEPT ![s] = ip]
             /\ table' = [table EXCEPT ![s] = device[ip]]
    <2>1. pc'[s] = "setupVeth" /\ (\A r \in Sandbox \ {s} : pc'[r] = pc[r]) /\ pc' \in [Sandbox -> Step]
      BY <1>0, <1>7, GotoMoves DEF Step, Adding
    <2>2. /\ addr'[s] = ip /\ \A r \in Sandbox \ {s} : addr'[r] = addr[r]
          /\ table'[s] = device[ip] /\ \A r \in Sandbox \ {s} : table'[r] = table[r]
          /\ addr' \in [Sandbox -> IP \cup {NoIP}] /\ table' \in [Sandbox -> Table \cup {-1}]
      BY <1>0, <1>4, <1>7 DEF ProcType
    <2>3. ProcType'
      BY <1>0, <1>4, <2>1, <2>2 DEF ProcType, Working
    <2>4. HoldsLease'
      BY <1>2, <2>1, <2>2 DEF LeaseSide, HoldsLease
    <2>5. TornDownRests'
      BY <1>2, <1>6, <2>1, <2>2 DEF LeaseSide, TornDownRests, Deleting
    <2>6. OneSetUp'
      <3>1. \A r \in Sandbox \ {s} : PodOf[r] = PodOf[s] => pc[r] \notin Holding
        BY DEF addNetwork, CanAdd, Holding
      <3>2. QED
        BY <2>1, <3>1 DEF LeaseSide, OneSetUp
    <2>7. QED
      BY <1>2, <1>3, <1>5, <2>3, <2>4, <2>5, <2>6
  <1>8. CASE Goto(s, "failed") /\ UNCHANGED <<addr, table>>
    <2>1. pc'[s] = "failed" /\ (\A r \in Sandbox \ {s} : pc'[r] = pc[r]) /\ pc' \in [Sandbox -> Step]
      BY <1>0, <1>8, GotoMoves DEF Step
    <2>2. pc'[s] \notin Holding \cup Deleting
      BY <2>1 DEF Holding, Adding, Deleting
    <2>3. ProcType'
      BY <1>0, <1>4, <1>8, <2>1, <2>2 DEF ProcType, Working
    <2>4. HoldsLease' /\ OneSetUp'
      BY <1>2, <1>8, <2>1, <2>2 DEF LeaseSide, HoldsLease, OneSetUp
    <2>5. TornDownRests'
      BY <1>2, <1>6, <1>8, <2>1, <2>2, Zenon DEF LeaseSide, TornDownRests
    <2>6. QED
      BY <1>2, <1>3, <1>5, <2>3, <2>4, <2>5
  <1>9. QED
    BY <1>1, <1>7, <1>8

\* DelNetwork, of DEL or after a failed ADD, puts the sandbox's address to rest.
LEMMA ReleaseStep ==
  ASSUME LeaseSide, NEW s \in Sandbox, Release(s), device' = device, NEW x \in Step, Goto(s, x),
         x \notin Holding,
         \/ x \notin Deleting /\ UNCHANGED <<addr, table>>
         \/ /\ addr' = [addr EXCEPT ![s] = lease[s]]
            /\ table' = [table EXCEPT ![s] = device[lease[s]]]
  PROVE  LeaseType' /\ ProcType' /\ Exclusive' /\ OnSomeENI' /\ HoldsLease' /\ TornDownRests' /\ OneSetUp'
  <1>0. LeaseType /\ ProcType /\ Exclusive /\ PluginTypeOK
    BY TypeParts, Zenon DEF LeaseSide
  <1>1. /\ lease'[s] = NoIP /\ \A r \in Sandbox \ {s} : lease'[r] = lease[r]
        /\ Leased' = Leased \ {lease[s]} /\ lease[s] \in Leased /\ lease[s] \in IP
        /\ free' = free /\ cooling' = cooling \cup {lease[s]} /\ LeaseType'
    BY <1>0, ReleaseTakes, Zenon DEF Sandbox
  <1>2. Exclusive'
    BY <1>0, LeaseStep DEF Next, Sandbox
  <1>3. device[lease[s]] \in Table /\ OnSomeENI'
    BY <1>1, Zenon DEF LeaseSide, OnSomeENI
  <1>4. lease[s] \notin free
    BY <1>0, <1>1 DEF Exclusive
  <1>5. pc'[s] = x /\ (\A r \in Sandbox \ {s} : pc'[r] = pc[r]) /\ pc' \in [Sandbox -> Step]
    BY <1>0, GotoMoves, Zenon
  <1>6. /\ \A r \in Sandbox \ {s} : addr'[r] = addr[r] /\ table'[r] = table[r]
        /\ pc'[s] \in Deleting => addr'[s] = lease[s] /\ table'[s] \in Table
        /\ addr' \in [Sandbox -> IP \cup {NoIP}] /\ table' \in [Sandbox -> Table \cup {-1}]
    BY <1>0, <1>1, <1>3, <1>5, Zenon DEF ProcType
  <1>7. ProcType'
    BY <1>0, <1>1, <1>5, <1>6, Zenon DEF ProcType, Working
  <1>8. HoldsLease' /\ OneSetUp'
    BY <1>1, <1>5, <1>6 DEF LeaseSide, HoldsLease, OneSetUp
  <1>9. TornDownRests'
    BY <1>1, <1>4, <1>5, <1>6 DEF LeaseSide, TornDownRests
  <1>10. QED
    BY <1>1, <1>2, <1>3, <1>7, <1>8, <1>9

\* The pool changes, but not what a process works on: cooling outlasts a teardown.
LEMMA PoolStep ==
  ASSUME LeaseSide, NEW ip \in IP, offerAddress(ip) \/ withdrawAddress(ip) \/ coolingOver(ip)
  PROVE  LeaseType' /\ ProcType' /\ Exclusive' /\ OnSomeENI' /\ HoldsLease' /\ TornDownRests' /\ OneSetUp'
  <1>0. LeaseType /\ ProcType /\ Exclusive
    BY TypeParts DEF LeaseSide
  <1>1. lease' = lease /\ Leased' = Leased /\ UNCHANGED procVars
    BY DEF offerAddress, withdrawAddress, coolingOver, Offer, Withdraw, Recall, Expire, Leased
  <1>2. LeaseType' /\ Exclusive'
    <2>1. {ip} \in SUBSET IP
      OBVIOUS
    <2>2. Next
      BY <2>1 DEF Next, offerAddress, withdrawAddress, coolingOver
    <2>3. QED
      BY <1>0, <2>2, LeaseStep
  <1>3. /\ device' \in [IP -> Table \cup {-1}]
        /\ \A i \in IP : device[i] \in Table => device'[i] \in Table
        /\ offerAddress(ip) => device'[ip] \in Table
    BY <1>0, Zenon DEF offerAddress, withdrawAddress, coolingOver, ProcType
  <1>4. ProcType' /\ HoldsLease' /\ OneSetUp'
    BY <1>0, <1>1, <1>3 DEF LeaseSide, ProcType, Working, HoldsLease, OneSetUp, procVars
  <1>5. free' \cup cooling' \subseteq free \cup cooling \cup (IF offerAddress(ip) THEN {ip} ELSE {})
    BY DEF offerAddress, withdrawAddress, coolingOver, Offer, Withdraw, Recall, Expire
  <1>6. OnSomeENI'
    BY <1>1, <1>3, <1>5, Zenon DEF LeaseSide, OnSomeENI
  <1>7. TornDownRests'
    <2>1. free' \subseteq free \cup {ip} /\ (ip \in free' \ free => NotTornDown(ip))
      BY DEF offerAddress, withdrawAddress, coolingOver, Offer, Withdraw, Recall, Expire
    <2>2. QED
      BY <1>1, <2>1 DEF LeaseSide, TornDownRests, NotTornDown, procVars
  <1>8. QED
    BY <1>2, <1>4, <1>6, <1>7

\* What the processes may rely on of the lease survives every step.
LEMMA NextLeaseSide == LeaseSide /\ [PluginNext]_pluginVars => LeaseSide'
  <1> SUFFICES ASSUME LeaseSide, [PluginNext]_pluginVars PROVE LeaseSide'
    OBVIOUS
  <1> DEFINE Goal == LeaseType' /\ ProcType' /\ Exclusive' /\ OnSomeENI' /\ HoldsLease' /\ TornDownRests' /\ OneSetUp'
  <1>0. PluginTypeOK /\ pc \in [Sandbox -> Step]
    BY TypeParts DEF LeaseSide, ProcType
  <1>1. ASSUME NEW s \in Sandbox, NEW x \in Step, Goto(s, x), UNCHANGED <<leaseVars, device, addr, table>>,
               x \in Holding => pc[s] \in Holding, x \in Deleting => pc[s] \in Deleting
        PROVE  Goal
    BY <1>0, <1>1, GotoMoves, QuietStep
  <1>2. ASSUME NEW s \in Sandbox, add(s) PROVE Goal
    <2>1. CASE addRefused(s)
      <3>1. "failed" \in Step /\ "failed" \notin Holding /\ "failed" \notin Deleting
        BY DEF Step, Holding, Adding, Deleting
      <3>2. QED
        BY <1>1, <2>1, <3>1 DEF addRefused
    <2>2. CASE addNetwork(s)
      BY <2>2, AddNetworkStep
    <2>3. CASE setupVeth(s) \/ replaceHostRoute(s) \/ addToContainerRule(s) \/ addFromContainerRules(s)
      <3>1. UNCHANGED <<leaseVars, device, addr, table>> /\ pc[s] \in Holding
        BY <2>3, Zenon
        DEF setupVeth, replaceHostRoute, addToContainerRule, addFromContainerRules, Holding, Adding
      <3>2. \E x \in Holding \cup {"failed"} : Goto(s, x)
        BY <2>3, Zenon
        DEF setupVeth, replaceHostRoute, addToContainerRule, addFromContainerRules, Holding, Adding
      <3>3. \A x \in Holding \cup {"failed"} : x \in Step /\ x \notin Deleting
        BY DEF Step, Holding, Adding, Deleting
      <3>4. QED
        BY <1>1, <3>1, <3>2, <3>3
    <2>4. CASE releaseAfterFailure(s)
      <3>1. "failed" \in Step /\ "failed" \notin Holding /\ "failed" \notin Deleting
        BY DEF Step, Holding, Adding, Deleting
      <3>2. Goto(s, "failed") /\ UNCHANGED <<device, addr, table>> /\ (Release(s) \/ UNCHANGED leaseVars)
        BY <2>4 DEF releaseAfterFailure
      <3>3. CASE Release(s)
        BY <3>1, <3>2, <3>3, ReleaseStep
      <3>4. CASE UNCHANGED leaseVars
        BY <1>1, <3>1, <3>2, <3>4
      <3>5. QED
        BY <3>2, <3>3, <3>4
    <2>5. QED
      BY <1>2, <2>1, <2>2, <2>3, <2>4 DEF add
  <1>3. ASSUME NEW s \in Sandbox, delRefused(s) \/ die(s) PROVE Goal
    <2>1. "failed" \in Step /\ "failed" \notin Holding /\ "failed" \notin Deleting
      BY DEF Step, Holding, Adding, Deleting
    <2>2. QED
      BY <1>1, <1>3, <2>1, Zenon DEF delRefused, die
  <1>4. ASSUME NEW s \in Sandbox, delNetwork(s) PROVE Goal
    <2>1. /\ "failed" \in Step /\ "failed" \notin Holding /\ "failed" \notin Deleting
          /\ "delToRule" \in Step /\ "delToRule" \notin Holding
      BY Zenon DEF Step, Holding, Adding, Deleting
    <2>2. Release(s) /\ device' = device
      BY <1>4, Zenon DEF delNetwork
    <2>3. CASE Goto(s, "failed") /\ UNCHANGED <<addr, table>>
      BY <2>1, <2>2, <2>3, ReleaseStep
    <2>4. CASE /\ Goto(s, "delToRule")
               /\ addr' = [addr EXCEPT ![s] = lease[s]]
               /\ table' = [table EXCEPT ![s] = device[lease[s]]]
      BY <2>1, <2>2, <2>4, ReleaseStep, Zenon
    <2>5. QED
      BY <1>4, <2>3, <2>4 DEF delNetwork
  <1>5. ASSUME NEW s \in Sandbox, tearDownNS(s) PROVE Goal
    <2>1. UNCHANGED <<leaseVars, device, addr, table>> /\ pc[s] \in Deleting
      BY <1>5 DEF tearDownNS, delToContainerRule, delFromContainerRules, delHostRoute, Deleting
    <2>2. \E x \in {"delFromRule", "delRoute", "failed", "deleted"} : Goto(s, x)
      BY <1>5 DEF tearDownNS, delToContainerRule, delFromContainerRules, delHostRoute
    <2>3. \A x \in {"delFromRule", "delRoute", "failed", "deleted"} : x \in Step /\ x \notin Holding
      BY DEF Step, Holding, Adding, Deleting
    <2>4. QED
      BY <1>1, <2>1, <2>2, <2>3, Zenon
  <1>6. ASSUME NEW s \in Sandbox, stopSandbox(s) PROVE Goal
    BY <1>0, <1>6, QuietStep DEF stopSandbox, procVars
  <1>7. ASSUME NEW ip \in IP, offerAddress(ip) \/ withdrawAddress(ip) \/ coolingOver(ip) PROVE Goal
    BY <1>7, PoolStep
  <1>8. ASSUME UNCHANGED pluginVars PROVE Goal
    <2>1. UNCHANGED <<leaseVars, device, addr, table>> /\ pc' = pc
      BY <1>8 DEF pluginVars, procVars
    <2>2. QED
      BY <1>0, <2>1, QuietStep
  <1> HIDE DEF Goal
  <1>9. Goal
    BY <1>2, <1>3, <1>4, <1>5, <1>6, <1>7, <1>8 DEF PluginNext
  <1>10. KernelType'
    BY <1>0, NextKernelType
  <1>11. QED
    BY <1>9, <1>10, TypePartsPrimed DEF LeaseSide, Goal

-----------------------------------------------------------------------------
(* Wiring *)

\* Sandboxes that hold addresses hold different ones, and no teardown works on them.
LEMMA OwnAddress ==
  ASSUME LeaseSide, NEW s \in Sandbox, pc[s] \in Holding, NEW r \in Sandbox \ {s}
  PROVE  pc[r] \in Holding \cup Deleting => addr[r] # addr[s]
  <1>1. addr[s] \in IP /\ lease[s] = addr[s] /\ addr[s] # NoIP
    BY TypeParts, PluginAssumption DEF LeaseSide, ProcType, Working, HoldsLease
  <1>2. addr[s] \in Leased
    BY <1>1, LeasedDef DEF Sandbox
  <1>3. CASE pc[r] \in Holding
    BY <1>1, <1>3 DEF LeaseSide, HoldsLease, Exclusive, Sandbox
  <1>4. CASE pc[r] \in Deleting
    BY <1>2, <1>4 DEF LeaseSide, TornDownRests
  <1>5. QED
    BY <1>3, <1>4

\* A step that leaves the kernel alone and moves no process further in its ADD.
LEMMA KernelKept ==
  ASSUME Wiring, VethNamed, UNCHANGED kernelVars,
         \A r \in Sandbox : \/ pc'[r] = pc[r] /\ addr'[r] = addr[r] /\ table'[r] = table[r]
                            \/ pc'[r] \notin {"hostRoute", "toRule", "fromRule", "up"}
  PROVE  Wiring' /\ VethNamed'
  <1>1. UNCHANGED <<hostVeth, hostRoute, toRule, fromRule>>
    BY DEF kernelVars
  <1>2. VethNamed'
    BY <1>1 DEF VethNamed
  <1>3. ASSUME NEW r \in Sandbox PROVE Wired(r)'
    <2>1. CASE pc'[r] = pc[r] /\ addr'[r] = addr[r] /\ table'[r] = table[r]
      BY <1>1, <2>1, Zenon DEF Wiring, Wired
    <2>2. CASE pc'[r] \notin {"hostRoute", "toRule", "fromRule", "up"}
      BY <2>2 DEF Wired
    <2>3. QED
      BY <2>1, <2>2, Zenon
  <1>4. QED
    BY <1>2, <1>3, Zenon DEF Wiring

\* A step of s that leaves the veth, route and rules of the others.
LEMMA OthersKept ==
  ASSUME Wiring, NEW s \in Sandbox, addr' = addr, table' = table, Wired(s)',
         \A r \in Sandbox \ {s} : pc'[r] = pc[r],
         \A r \in Sandbox \ {s} : pc[r] \in Holding =>
           /\ pc[r] \in {"hostRoute", "toRule", "fromRule", "up"} => hostVeth'[PodOf[r]] = r
           /\ pc[r] \in {"toRule", "fromRule", "up"} => hostRoute'[addr[r]] = r
           /\ addr[r] \in toRule => addr[r] \in toRule'
           /\ fromRule'[addr[r]] = fromRule[addr[r]]
  PROVE  Wiring'
  <1> SUFFICES ASSUME NEW r \in Sandbox \ {s} PROVE Wired(r)'
    BY Zenon DEF Wiring
  <1>1. pc'[r] = pc[r] /\ addr'[r] = addr[r] /\ table'[r] = table[r]
    BY Zenon
  <1>2. CASE pc[r] \in Holding
    <2>1. Wired(r)
      BY Zenon DEF Wiring
    <2>2. /\ pc[r] \in {"hostRoute", "toRule", "fromRule", "up"} => hostVeth'[PodOf[r]] = r
          /\ pc[r] \in {"toRule", "fromRule", "up"} => hostRoute'[addr[r]] = r
          /\ addr[r] \in toRule => addr[r] \in toRule'
          /\ fromRule'[addr[r]] = fromRule[addr[r]]
      BY <1>2, Zenon
    <2>3. QED
      BY <1>1, <2>1, <2>2, Zenon DEF Wired
  <1>3. CASE pc[r] \notin Holding
    BY <1>1, <1>3, Zenon DEF Wired, Holding, Adding
  <1>4. QED
    BY <1>2, <1>3, Zenon

\* Another veth, or none, takes a name.  It is not that of a sandbox being wired, so
\* neither are the routes that go with the old veth.
LEMMA SetLinkKeeps ==
  ASSUME PluginTypeOK, VethNamed, Wiring, NEW s \in Sandbox, NEW x \in {s, NoSandbox},
         setLink(PodOf[s], x), addr' = addr
  PROVE  /\ VethNamed'
         /\ hostVeth'[PodOf[s]] = x
         /\ \A r \in Sandbox : PodOf[r] # PodOf[s] =>
              /\ pc[r] \in {"hostRoute", "toRule", "fromRule", "up"} => hostVeth'[PodOf[r]] = r
              /\ pc[r] \in {"toRule", "fromRule", "up"} => hostRoute'[addr[r]] = r
  <1>0. KernelType /\ ProcType /\ NoSandbox \notin Sandbox
    BY TypeParts, PluginAssumption
  <1>1. \A r \in Sandbox : PodOf[r] \in PodName
    BY Zenon DEF PodName
  <1>2. hostVeth'[PodOf[s]] = x /\ \A p \in PodName \ {PodOf[s]} : hostVeth'[p] = hostVeth[p]
    BY <1>0, <1>1 DEF setLink, KernelType
  <1>3. VethNamed'
    BY <1>0, <1>2, Zenon DEF VethNamed
  <1>4. ASSUME NEW r \in Sandbox, PodOf[r] # PodOf[s], pc[r] \in {"toRule", "fromRule", "up"}
        PROVE  hostRoute'[addr[r]] = r
    <2>1. addr[r] \in IP
      BY <1>0, <1>4, Zenon DEF ProcType, Working, Holding, Adding
    <2>2. hostRoute[addr[r]] = r
      BY <1>4, Zenon DEF Wiring, Wired
    <2>3. hostVeth[PodOf[s]] # r
      BY <1>0, <1>1, <1>4 DEF VethNamed
    <2>4. QED
      BY <2>1, <2>2, <2>3, Zenon DEF setLink
  <1>5. QED
    BY <1>1, <1>2, <1>3, <1>4 DEF Wiring, Wired

\* The steps of an ADD wire its sandbox and unwire no other.
LEMMA AddWires ==
  ASSUME LeaseSide, VethNamed, Wiring, NEW s \in Sandbox,
         setupVeth(s) \/ replaceHostRoute(s) \/ addToContainerRule(s) \/ addFromContainerRules(s)
  PROVE  Wiring' /\ VethNamed'
  <1> DEFINE Others == Sandbox \ {s}
  <1>0. PluginTypeOK /\ KernelType /\ addr[s] \in IP /\ table[s] \in Table /\ pc[s] \in Holding
    BY TypeParts, Zenon DEF LeaseSide, ProcType, Working, Holding, Adding,
                     setupVeth, replaceHostRoute, addToContainerRule, addFromContainerRules
  <1>1. addr' = addr /\ table' = table
    BY Zenon DEF setupVeth, replaceHostRoute, addToContainerRule, addFromContainerRules
  <1>2. \A r \in Others : pc[r] \in Holding => addr[r] \in IP \ {addr[s]} /\ PodOf[r] # PodOf[s]
    BY <1>0, OwnAddress, TypeParts, Zenon DEF LeaseSide, OneSetUp, ProcType, Working
  <1>3. ASSUME NEW x \in {"hostRoute", "toRule", "fromRule", "up", "release", "failed"}, Goto(s, x)
        PROVE  pc'[s] = x /\ \A r \in Others : pc'[r] = pc[r]
    BY <1>0, <1>3, GotoMoves, Zenon DEF Step, Adding
  <1>4. ASSUME Goto(s, "release") \/ Goto(s, "failed") PROVE Wired(s)'
    BY <1>3, <1>4, Zenon DEF Wired
  <1>5. CASE setupVeth(s)
    <2>1. UNCHANGED <<toRule, fromRule>>
      BY <1>5, Zenon DEF setupVeth
    <2>2. ASSUME NEW x \in {s, NoSandbox}, setLink(PodOf[s], x)
          PROVE  /\ VethNamed' /\ hostVeth'[PodOf[s]] = x
                 /\ \A r \in Others : pc[r] \in Holding =>
                      /\ pc[r] \in {"hostRoute", "toRule", "fromRule", "up"} => hostVeth'[PodOf[r]] = r
                      /\ pc[r] \in {"toRule", "fromRule", "up"} => hostRoute'[addr[r]] = r
      BY <1>0, <1>1, <1>2, <2>2, SetLinkKeeps
    <2>3. CASE setLink(PodOf[s], s) /\ Goto(s, "hostRoute")
      <3>1. Wired(s)'
        BY <1>3, <2>2, <2>3, Zenon DEF Wired
      <3>2. QED
        BY <1>1, <1>3, <2>1, <2>2, <2>3, <3>1, OthersKept, Zenon
    <2>4. CASE Goto(s, "release") /\ UNCHANGED <<hostVeth, hostRoute>>
      BY <1>1, <1>3, <2>1, <2>4, KernelKept DEF kernelVars
    <2>5. CASE Goto(s, "release") /\ (setLink(PodOf[s], NoSandbox) \/ setLink(PodOf[s], s))
      BY <1>1, <1>3, <1>4, <2>1, <2>2, <2>5, OthersKept, Zenon
    <2>6. QED
      BY <1>5, <2>3, <2>4, <2>5, Zenon DEF setupVeth
  <1>6. \A r \in Others :
          /\ pc[r] \in {"hostRoute", "toRule", "fromRule", "up"} => hostVeth[PodOf[r]] = r
          /\ pc[r] \in {"toRule", "fromRule", "up"} => hostRoute[addr[r]] = r
    BY Zenon DEF Wiring, Wired
  <1>7. CASE replaceHostRoute(s)
    <2>1. UNCHANGED <<hostVeth, toRule, fromRule>> /\ VethNamed'
      BY <1>7, Zenon DEF replaceHostRoute, VethNamed
    <2>2. CASE hostRoute' = [hostRoute EXCEPT ![addr[s]] = s] /\ Goto(s, "toRule")
      <3>1. hostRoute'[addr[s]] = s /\ \A ip \in IP \ {addr[s]} : hostRoute'[ip] = hostRoute[ip]
        BY <1>0, <2>2, Zenon DEF KernelType
      <3>2. hostVeth[PodOf[s]] = s
        BY <1>7, Zenon DEF replaceHostRoute, Wiring, Wired
      <3>3. Wired(s)'
        BY <1>1, <1>3, <2>1, <2>2, <3>1, <3>2, Zenon DEF Wired
      <3>4. QED
        BY <1>1, <1>2, <1>3, <1>6, <2>1, <2>2, <3>1, <3>3, OthersKept, Zenon
    <2>3. CASE Goto(s, "release") /\ UNCHANGED hostRoute
      BY <1>1, <1>3, <2>1, <2>3, KernelKept, Zenon DEF kernelVars
    <2>4. QED
      BY <1>7, <2>2, <2>3, Zenon DEF replaceHostRoute
  <1>8. CASE addToContainerRule(s)
    <2>1. UNCHANGED <<hostVeth, hostRoute, fromRule>> /\ VethNamed'
      BY <1>8, Zenon DEF addToContainerRule, VethNamed
    <2>2. \A r \in Others : pc[r] \in Holding => (addr[r] \in toRule => addr[r] \in toRule')
      BY <1>2, <1>8, Zenon DEF addToContainerRule
    <2>3. CASE toRule' = toRule \cup {addr[s]} /\ Goto(s, "fromRule")
      <3>1. hostVeth[PodOf[s]] = s /\ hostRoute[addr[s]] = s
        BY <1>8, Zenon DEF addToContainerRule, Wiring, Wired
      <3>2. Wired(s)'
        BY <1>1, <1>3, <2>1, <2>3, <3>1, Zenon DEF Wired
      <3>3. QED
        BY <1>1, <1>3, <1>6, <2>1, <2>2, <2>3, <3>2, OthersKept, Zenon
    <2>4. CASE Goto(s, "release")
      BY <1>1, <1>3, <1>4, <1>6, <2>1, <2>2, <2>4, OthersKept
    <2>5. QED
      BY <1>8, <2>3, <2>4, Zenon DEF addToContainerRule
  <1>9. CASE addFromContainerRules(s)
    <2>1. UNCHANGED <<hostVeth, hostRoute, toRule>> /\ VethNamed'
      BY <1>9 DEF addFromContainerRules, VethNamed
    <2>2. ASSUME NEW S \in SUBSET Dst, NEW lost \in BOOLEAN
          PROVE  /\ \A ip \in IP \ {addr[s]} : rulesAdded(s, S, lost)[ip] = fromRule[ip]
                 /\ \A d \in S : Contains(rulesAdded(s, S, lost)[addr[s]][d], table[s])
      BY <1>0, RulesAddedType, Zenon
    <2>3. CASE fromRule' = (IF table[s] > 0 THEN rulesAdded(s, Dst, FALSE) ELSE fromRule) /\ Goto(s, "up")
      <3>1. hostVeth[PodOf[s]] = s /\ hostRoute[addr[s]] = s /\ addr[s] \in toRule
        BY <1>9 DEF addFromContainerRules, Wiring, Wired
      <3>2. /\ table[s] > 0 => \A d \in Dst : Contains(fromRule'[addr[s]][d], table[s])
            /\ \A ip \in IP \ {addr[s]} : fromRule'[ip] = fromRule[ip]
        BY <2>2, <2>3, Zenon
      <3>3. pc'[s] = "up" /\ \A r \in Others : pc'[r] = pc[r]
        BY <1>3, <2>3, Zenon
      <3>4. Wired(s)'
        BY <1>1, <2>1, <3>1, <3>2, <3>3, Zenon DEF Wired
      <3>5. QED
        BY <1>1, <1>2, <1>6, <2>1, <3>2, <3>3, <3>4, OthersKept, Zenon
    <2>4. CASE /\ \E S \in SUBSET Dst \ {Dst}, lost \in {FALSE, useExternalSNAT} : fromRule' = rulesAdded(s, S, lost)
               /\ Goto(s, "release")
      <3>0. PICK S \in SUBSET Dst, lost \in {FALSE, useExternalSNAT} : fromRule' = rulesAdded(s, S, lost)
        BY <2>4, Zenon
      <3>1. \A ip \in IP \ {addr[s]} : fromRule'[ip] = fromRule[ip]
        <4>1. lost \in BOOLEAN
          BY SNATKnown, Zenon
        <4>2. QED
          BY <2>2, <3>0, <4>1
      <3>2. QED
        BY <1>1, <1>2, <1>3, <1>4, <1>6, <2>1, <2>4, <3>1, OthersKept
    <2>5. CASE fromRule' = (IF table[s] > 0 THEN rulesAdded(s, Dst, FALSE) ELSE fromRule) /\ Goto(s, "failed")
      <3>1. \A ip \in IP \ {addr[s]} : fromRule'[ip] = fromRule[ip]
        BY <2>2, <2>5, Zenon
      <3>2. QED
        BY <1>1, <1>2, <1>3, <1>4, <1>6, <2>1, <2>5, <3>1, OthersKept
    <2>6. QED
      BY <1>9, <2>3, <2>4, <2>5, Zenon DEF addFromContainerRules
  <1>10. QED
    BY <1>5, <1>7, <1>8, <1>9

\* A teardown works on an address that no wired sandbox has.
LEMMA TearDownKeeps ==
  ASSUME LeaseSide, VethNamed, Wiring, NEW s \in Sandbox, tearDownNS(s)
  PROVE  Wiring' /\ VethNamed'
  <1> DEFINE Others == Sandbox \ {s}
  <1>0. PluginTypeOK /\ KernelType /\ addr[s] \in IP /\ pc[s] \in Deleting
    BY TypeParts DEF LeaseSide, ProcType, Working, Deleting,
                     tearDownNS, delToContainerRule, delFromContainerRules, delHostRoute
  <1>1. addr' = addr /\ table' = table /\ hostVeth' = hostVeth
    BY Zenon DEF tearDownNS, delToContainerRule, delFromContainerRules, delHostRoute
  <1>2. \A r \in Others : pc[r] \in Holding => addr[r] \in IP \ {addr[s]}
    BY <1>0, OwnAddress, TypeParts, Zenon DEF LeaseSide, ProcType, Working
  <1>3. PICK x \in {"delFromRule", "delRoute", "failed", "deleted"} : Goto(s, x)
    BY Zenon DEF tearDownNS, delToContainerRule, delFromContainerRules, delHostRoute
  <1>4. pc'[s] = x /\ \A r \in Others : pc'[r] = pc[r]
    BY <1>0, <1>3, GotoMoves, Zenon DEF Step, Deleting
  <1>5. Wired(s)'
    BY <1>4 DEF Wired
  <1>6. \A ip \in IP \ {addr[s]} :
          /\ hostRoute'[ip] = hostRoute[ip]
          /\ ip \in toRule => ip \in toRule'
          /\ fromRule'[ip] = fromRule[ip]
    BY <1>0, Zenon DEF tearDownNS, delToContainerRule, delFromContainerRules, delHostRoute, KernelType
  <1>7. \A r \in Others :
          /\ pc[r] \in {"hostRoute", "toRule", "fromRule", "up"} => hostVeth[PodOf[r]] = r
          /\ pc[r] \in {"toRule", "fromRule", "up"} => hostRoute[addr[r]] = r
    BY Zenon DEF Wiring, Wired
  <1>8. VethNamed'
    BY <1>1 DEF VethNamed
  <1>9. QED
    BY <1>1, <1>2, <1>4, <1>5, <1>6, <1>7, <1>8, OthersKept, Zenon

\* The veth that goes with a stopped sandbox is its own.
LEMMA StopKeeps ==
  ASSUME LeaseSide, VethNamed, Wiring, NEW s \in Sandbox, stopSandbox(s)
  PROVE  Wiring' /\ VethNamed'
  <1>1. PluginTypeOK /\ setLink(PodOf[s], NoSandbox) /\ UNCHANGED <<pc, addr, table, toRule, fromRule>>
    BY DEF LeaseSide, stopSandbox, procVars
  <1>2. hostVeth[PodOf[s]] = s /\ pc[s] \in {"failed", "deleted"}
    BY Zenon DEF stopSandbox
  <1>3. Wired(s)'
    BY <1>1, <1>2, Zenon DEF Wired
  <1>4. \A r \in Sandbox \ {s} : pc[r] \in {"hostRoute", "toRule", "fromRule", "up"} => PodOf[r] # PodOf[s]
    BY <1>2, Zenon DEF Wiring, Wired
  <1>5. /\ VethNamed'
        /\ \A r \in Sandbox : PodOf[r] # PodOf[s] =>
             /\ pc[r] \in {"hostRoute", "toRule", "fromRule", "up"} => hostVeth'[PodOf[r]] = r
             /\ pc[r] \in {"toRule", "fromRule", "up"} => hostRoute'[addr[r]] = r
    BY <1>1, SetLinkKeeps, Zenon
  <1>6. QED
    BY <1>1, <1>3, <1>4, <1>5, OthersKept, Zenon

LEMMA NextWiring == LeaseSide /\ VethNamed /\ Wiring /\ [PluginNext]_pluginVars => Wiring' /\ VethNamed'
  <1> SUFFICES ASSUME LeaseSide, VethNamed, Wiring, [PluginNext]_pluginVars PROVE Wiring' /\ VethNamed'
    OBVIOUS
  <1>0. PluginTypeOK /\ addr \in [Sandbox -> IP \cup {NoIP}] /\ table \in [Sandbox -> Table \cup {-1}]
    BY TypeParts, Zenon DEF LeaseSide, ProcType
  <1>1. ASSUME NEW s \in Sandbox, NEW x \in {"setupVeth", "delToRule", "failed"}, Goto(s, x), UNCHANGED kernelVars,
               \A r \in Sandbox \ {s} : addr'[r] = addr[r] /\ table'[r] = table[r]
        PROVE  Wiring' /\ VethNamed'
    <2>1. pc'[s] = x /\ \A r \in Sandbox \ {s} : pc'[r] = pc[r]
      BY <1>0, <1>1, GotoMoves, Zenon DEF Step, Adding, Deleting
    <2>2. QED
      BY <1>1, <2>1, KernelKept, Zenon
  <1>2. ASSUME NEW s \in Sandbox, addRefused(s) \/ releaseAfterFailure(s) \/ delRefused(s) \/ die(s)
        PROVE  Wiring' /\ VethNamed'
    BY <1>1, <1>2, Zenon DEF addRefused, releaseAfterFailure, delRefused, die
  <1>3. ASSUME NEW s \in Sandbox, addNetwork(s) PROVE Wiring' /\ VethNamed'
    <2>1. \A r \in Sandbox \ {s} : addr'[r] = addr[r] /\ table'[r] = table[r]
      BY <1>0, <1>3 DEF addNetwork
    <2>2. UNCHANGED kernelVars /\ (Goto(s, "setupVeth") \/ Goto(s, "failed"))
      BY <1>3, Zenon DEF addNetwork
    <2>3. QED
      BY <1>1, <2>1, <2>2, Zenon
  <1>4. ASSUME NEW s \in Sandbox, delNetwork(s) PROVE Wiring' /\ VethNamed'
    <2>1. \A r \in Sandbox \ {s} : addr'[r] = addr[r] /\ table'[r] = table[r]
      BY <1>0, <1>4, Zenon DEF delNetwork
    <2>2. UNCHANGED kernelVars /\ (Goto(s, "delToRule") \/ Goto(s, "failed"))
      BY <1>4, Zenon DEF delNetwork
    <2>3. QED
      BY <1>1, <2>1, <2>2, Zenon
  <1>5. ASSUME NEW s \in Sandbox, add(s) PROVE Wiring' /\ VethNamed'
    BY <1>2, <1>3, <1>5, AddWires, Zenon DEF add
  <1>6. ASSUME NEW ip \in IP, offerAddress(ip) \/ withdrawAddress(ip) \/ coolingOver(ip)
        PROVE  Wiring' /\ VethNamed'
    <2>1. UNCHANGED kernelVars /\ UNCHANGED <<pc, addr, table>>
      BY <1>6, Zenon DEF offerAddress, withdrawAddress, coolingOver, procVars
    <2>2. QED
      BY <2>1, KernelKept, Zenon
  <1>7. CASE UNCHANGED pluginVars
    <2>1. UNCHANGED kernelVars /\ UNCHANGED <<pc, addr, table>>
      BY <1>7 DEF pluginVars, procVars
    <2>2. QED
      BY <2>1, KernelKept
  <1>8. QED
    BY <1>2, <1>4, <1>5, <1>6, <1>7, TearDownKeeps, StopKeeps DEF PluginNext

\* No process has run.
LEMMA InitPluginInv == PluginInit => LeaseSide /\ VethNamed /\ Wiring
  <1> SUFFICES ASSUME PluginInit PROVE LeaseSide /\ VethNamed /\ Wiring
    OBVIOUS
  <1>1. LeaseType /\ Exclusive
    BY DEF PluginInit, Init, LeaseType, Exclusive, Leased
  <1>2. \A s \in Sandbox : pc[s] = "new" /\ pc[s] \notin Holding \cup Deleting
    BY DEF PluginInit, Holding, Adding, Deleting
  <1>3. ProcType
    BY <1>2 DEF PluginInit, ProcType, Working, Step
  <1>4. KernelType
    BY DEF PluginInit, KernelType
  <1>5. OnSomeENI
    BY Zenon DEF PluginInit, Init, OnSomeENI, Leased
  <1>6. HoldsLease /\ TornDownRests /\ OneSetUp
    BY <1>2, Zenon DEF HoldsLease, TornDownRests, OneSetUp
  <1>7. VethNamed /\ Wiring
    BY <1>2 DEF PluginInit, VethNamed, Wiring, Wired
  <1>8. QED
    BY <1>1, <1>3, <1>4, <1>5, <1>6, <1>7, TypeParts DEF LeaseSide

\* The conditions stay what they are; the invariant does not speak of them.
LEMMA StepsOfSpec ==
  [PluginNext /\ UNCHANGED conditions]_<<pluginVars, conditions>> => [PluginNext]_pluginVars
  OBVIOUS

\* ADD, failed ADD, DEL and cut-off processes of other sandboxes never take veth, host
\* route or rules from a pod that is up.
THEOREM PodsStayWired == PluginSpec => []PodWired
  <1>1. LeaseSide /\ Wiring => PodWired
    BY DEF LeaseSide, HoldsLease, Holding, Wiring, Wired, PodWired
  <1>2. QED
    BY <1>1, InitPluginInv, StepsOfSpec, NextLeaseSide, NextWiring, PTL DEF PluginSpec

\* The plugin never works on an address or a table that it was not given.
THEOREM PluginTypes == PluginSpec => []PluginTypeOK
  <1>1. LeaseSide => PluginTypeOK
    BY DEF LeaseSide
  <1>2. QED
    BY <1>1, InitPluginInv, StepsOfSpec, NextLeaseSide, PTL DEF PluginSpec

-----------------------------------------------------------------------------
(* What the kernel has, and for whom *)

Busy == Holding \cup Deleting

\* A process works with the table of the ENI that its address is on.
TableIsDevice == \A s \in Sandbox : pc[s] \in Busy => table[s] = device[addr[s]]

\* No two processes work on one address.
OneWorker == \A r, s \in Sandbox : pc[r] \in Busy /\ pc[s] \in Busy /\ addr[r] = addr[s] => r = s

\* No call fails and no process dies.
Calm == conditions.faults \subseteq {"moves"}

\* The steps between which a sandbox has a rule or a route for its address.
HasToRule   == {"fromRule", "up", "delToRule"}
HasRoute    == {"toRule", "fromRule", "up", "delToRule", "delFromRule", "delRoute"}
HasFromRule == {"up", "delToRule", "delFromRule"}

ToRuleOwned ==
  Calm => \A ip \in toRule : \E s \in Sandbox : addr[s] = ip /\ pc[s] \in HasToRule
RouteOwned ==
  Calm => \A ip \in IP : hostRoute[ip] # NoSandbox =>
            \E s \in Sandbox : addr[s] = ip /\ pc[s] \in HasRoute

\* A process has set the rule from ip to table t and not yet deleted it.
SetFromRule(ip, t) == \E s \in Sandbox : addr[s] = ip /\ table[s] = t /\ pc[s] \in HasFromRule

\* A rule from an address names a secondary ENI: the one that the address is on if
\* addresses do not move, and that of a sandbox at work on it if nothing fails.
FromRuleOwned ==
  \A ip \in IP, d \in Dst, t \in Table : Contains(fromRule[ip][d], t) =>
    /\ t > 0
    /\ ~AddressesMove => t = device[ip]
    /\ Calm => SetFromRule(ip, t)

Owned == TableIsDevice /\ OneWorker /\ ToRuleOwned /\ RouteOwned /\ FromRuleOwned

\* What a list of tables contains after a rule is deleted or added.
LEMMA RuleElements ==
  ASSUME NEW q \in Seq(Table), NEW t \in Table, NEW u \in Table
  PROVE  /\ Contains(without(q, t), u) => Contains(q, u)
         /\ Contains(addRule(q, t), u) => u = t \/ Contains(q, u)
  <1>1. ASSUME Contains(without(q, t), u) PROVE Contains(q, u)
    <2>1. CASE Contains(q, t)
      <3>1. PICK i \in 1 .. Len(q) : without(q, t) = RemoveAt(q, i)
        BY <2>1, Zenon DEF without, Contains
      <3> DEFINE l == SubSeq(q, 1, i - 1)
                 r == SubSeq(q, i + 1, Len(q))
      <3>2. l \in Seq(Table) /\ \A j \in 1 .. Len(l) : \E k \in 1 .. Len(q) : l[j] = q[k]
        BY Cut
      <3>3. r \in Seq(Table) /\ \A j \in 1 .. Len(r) : \E k \in 1 .. Len(q) : r[j] = q[k]
        BY Cut
      <3>4. without(q, t) = l \o r
        BY <3>1 DEF RemoveAt
      <3> HIDE DEF l, r
      <3>5. PICK j \in 1 .. Len(l \o r) : (l \o r)[j] = u
        BY <1>1, <3>4 DEF Contains
      <3>6. (\E k \in 1 .. Len(l) : l[k] = u) \/ (\E k \in 1 .. Len(r) : r[k] = u)
        <4>1. /\ Len(l \o r) = Len(l) + Len(r)
              /\ \A k \in 1 .. Len(l) + Len(r) : (l \o r)[k] = IF k <= Len(l) THEN l[k] ELSE r[k - Len(l)]
          BY <3>2, <3>3, Joined
        <4>2. Len(l) \in Nat /\ Len(r) \in Nat
          BY <3>2, <3>3
        <4>3. CASE j <= Len(l)
          BY <3>5, <4>1, <4>2, <4>3
        <4>4. CASE ~(j <= Len(l))
          <5>1. j - Len(l) \in 1 .. Len(r) /\ r[j - Len(l)] = u
            BY <3>5, <4>1, <4>2, <4>4
          <5>2. QED
            BY <5>1
        <4>5. QED
          BY <4>3, <4>4, Zenon
      <3>7. QED
        BY <3>2, <3>3, <3>6, Zenon DEF Contains
    <2>2. CASE ~Contains(q, t)
      BY <1>1, <2>2, Zenon DEF without
    <2>3. QED
      BY <2>1, <2>2
  <1>2. \A v \in Seq(Table) : Contains(Append(v, t), u) => u = t \/ Contains(v, u)
    BY Appended DEF Contains
  <1>3. QED
    BY <1>1, <1>2, RuleLists, Zenon DEF addRule

\* What rulesAdded adds is the table of the process, to the rules of its address.
LEMMA RulesAddedElements ==
  ASSUME PluginTypeOK, NEW s \in Sandbox, addr[s] \in IP, table[s] \in Table,
         NEW S \in SUBSET Dst, NEW lost \in BOOLEAN,
         NEW ip \in IP, NEW d \in Dst, NEW t \in Table, Contains(rulesAdded(s, S, lost)[ip][d], t)
  PROVE  Contains(fromRule[ip][d], t) \/ (ip = addr[s] /\ t = table[s])
  <1>1. CASE ip # addr[s]
    BY <1>1, RulesAddedType, Zenon
  <1>2. CASE ip = addr[s]
    <2>1. fromRule[ip][d] \in Seq(Table) /\ fromRule \in [IP -> [Dst -> Seq(Table)]]
      BY Zenon DEF PluginTypeOK
    <2>2. rulesAdded(s, S, lost)[ip][d] \in
            {addRule(fromRule[ip][d], table[s]), without(fromRule[ip][d], table[s]), fromRule[ip][d]}
      BY <1>2, <2>1 DEF rulesAdded
    <2>3. /\ Contains(without(fromRule[ip][d], table[s]), t) => Contains(fromRule[ip][d], t)
          /\ Contains(addRule(fromRule[ip][d], table[s]), t) => t = table[s] \/ Contains(fromRule[ip][d], t)
      BY <2>1, RuleElements, Zenon
    <2>4. QED
      BY <1>2, <2>2, <2>3, Zenon
  <1>3. QED
    BY <1>1, <1>2

\* Rules and routes come from the steps of an ADD.
LEMMA KernelGrows ==
  ASSUME LeaseSide, PluginNext, NEW ip \in IP
  PROVE  /\ ip \in toRule' => ip \in toRule \/ \E s \in Sandbox : addToContainerRule(s) /\ addr[s] = ip /\ ip \notin toRule
         /\ hostRoute'[ip] # NoSandbox =>
              hostRoute[ip] # NoSandbox \/ \E s \in Sandbox : replaceHostRoute(s) /\ addr[s] = ip /\ hostRoute' # hostRoute
         /\ \A d \in Dst, t \in Table : Contains(fromRule'[ip][d], t) =>
              Contains(fromRule[ip][d], t)
                \/ \E s \in Sandbox : addFromContainerRules(s) /\ addr[s] = ip /\ table[s] = t /\ t > 0
  <1>0. PluginTypeOK /\ KernelType /\ Working
    BY TypeParts, Zenon DEF LeaseSide, ProcType
  <1>1. CASE UNCHANGED <<hostRoute, toRule, fromRule>>
    BY <1>1, Zenon
  <1>2. ASSUME NEW s \in Sandbox, setupVeth(s) \/ stopSandbox(s)
        PROVE  UNCHANGED <<toRule, fromRule>> /\ (hostRoute'[ip] # NoSandbox => hostRoute[ip] # NoSandbox)
    BY <1>2, Zenon DEF setupVeth, stopSandbox, setLink
  <1>3. ASSUME NEW s \in Sandbox, replaceHostRoute(s)
        PROVE  /\ UNCHANGED <<toRule, fromRule>>
               /\ hostRoute'[ip] # NoSandbox => hostRoute[ip] # NoSandbox \/ (addr[s] = ip /\ hostRoute' # hostRoute)
    BY <1>0, <1>3, Zenon DEF replaceHostRoute, KernelType
  <1>4. ASSUME NEW s \in Sandbox, addToContainerRule(s)
        PROVE  UNCHANGED <<hostRoute, fromRule>> /\ (ip \in toRule' => ip \in toRule \/ addr[s] = ip)
    BY <1>4, Zenon DEF addToContainerRule
  <1>5. ASSUME NEW s \in Sandbox, addFromContainerRules(s)
        PROVE  /\ UNCHANGED <<hostRoute, toRule>>
               /\ \A d \in Dst, t \in Table : Contains(fromRule'[ip][d], t) =>
                    Contains(fromRule[ip][d], t) \/ (addr[s] = ip /\ table[s] = t /\ t > 0)
    <2>1. addr[s] \in IP /\ table[s] \in Table
      BY <1>0, <1>5 DEF addFromContainerRules, Working, Holding, Adding
    <2>2. useExternalSNAT \in BOOLEAN
      BY SNATKnown
    <2>3. \/ fromRule' = fromRule
          \/ table[s] > 0 /\ \E S \in SUBSET Dst, lost \in BOOLEAN : fromRule' = rulesAdded(s, S, lost)
      BY <1>5, <2>2, Zenon DEF addFromContainerRules
    <2>4. QED
      BY <1>0, <1>5, <2>1, <2>3, RulesAddedElements DEF addFromContainerRules
  <1>6. ASSUME NEW s \in Sandbox, tearDownNS(s)
        PROVE  /\ ip \in toRule' => ip \in toRule
               /\ hostRoute'[ip] # NoSandbox => hostRoute[ip] # NoSandbox
               /\ \A d \in Dst, t \in Table : Contains(fromRule'[ip][d], t) => Contains(fromRule[ip][d], t)
    <2>1. \A t : ~Contains(<<>>, t)
      BY DEF Contains
    <2>2. ASSUME NEW d \in Dst PROVE fromRule'[ip][d] \in {<<>>, fromRule[ip][d]}
      <3>1. CASE delFromContainerRules(s)
        <4>1. PICK S \in SUBSET Dst :
                fromRule' = [fromRule EXCEPT ![addr[s]] = [c \in Dst |-> IF c \in S THEN <<>> ELSE @[c]]]
          BY <3>1 DEF delFromContainerRules
        <4>2. QED
          BY <1>0, <4>1, Zenon DEF KernelType
      <3>2. CASE ~delFromContainerRules(s)
        BY <1>6, <3>2, Zenon DEF tearDownNS, delToContainerRule, delHostRoute
      <3>3. QED
        BY <3>1, <3>2, Zenon
    <2>3. (ip \in toRule' => ip \in toRule) /\ (hostRoute'[ip] # NoSandbox => hostRoute[ip] # NoSandbox)
      BY <1>0, <1>6, Zenon DEF tearDownNS, delToContainerRule, delFromContainerRules, delHostRoute, KernelType
    <2>4. QED
      BY <2>1, <2>2, <2>3
  <1>7. ASSUME NEW s \in Sandbox,
               addRefused(s) \/ addNetwork(s) \/ releaseAfterFailure(s) \/ delRefused(s) \/ delNetwork(s) \/ die(s)
        PROVE  UNCHANGED <<hostRoute, toRule, fromRule>>
    BY <1>7, Zenon DEF addRefused, addNetwork, releaseAfterFailure, delRefused, delNetwork, die, kernelVars
  <1>8. ASSUME NEW i \in IP, offerAddress(i) \/ withdrawAddress(i) \/ coolingOver(i)
        PROVE  UNCHANGED <<hostRoute, toRule, fromRule>>
    BY <1>8 DEF offerAddress, withdrawAddress, coolingOver, kernelVars
  <1>9. QED
    BY <1>1, <1>2, <1>3, <1>4, <1>5, <1>6, <1>7, <1>8, Zenon DEF PluginNext, add

\* A process at work keeps its address and table, and what its sandbox has in the
\* kernel goes before it moves on, if nothing fails.
LEMMA OwnerStays ==
  ASSUME LeaseSide, TableIsDevice, Calm, PluginNext, NEW s \in Sandbox, pc[s] \in HasRoute
  PROVE  /\ addr'[s] = addr[s] /\ table'[s] = table[s]
         /\ pc[s] = "toRule" => pc'[s] \in {"toRule", "fromRule"}
         /\ pc[s] = "fromRule" => pc'[s] \in {"fromRule", "up"}
         /\ pc[s] = "up" => pc'[s] \in {"up", "delToRule"}
         /\ pc[s] = "delToRule" =>
              \/ pc'[s] = "delToRule"
              \/ /\ addr[s] \notin toRule'
                 /\ pc'[s] = IF table[s] > 0 THEN "delFromRule" ELSE "delRoute"
         /\ pc[s] = "delFromRule" =>
              \/ pc'[s] = "delFromRule"
              \/ pc'[s] = "delRoute" /\ \A d \in Dst : fromRule'[addr[s]][d] = <<>>
         /\ pc[s] = "delRoute" => pc'[s] = "delRoute" \/ hostRoute'[addr[s]] = NoSandbox
  <1>0. PluginTypeOK /\ ProcType /\ KernelType /\ LeaseType /\ Exclusive
    BY TypeParts DEF LeaseSide
  <1>1. ~KernelFails /\ ~PluginDies /\ ~RPCFails
    BY DEF Calm, KernelFails, PluginDies, RPCFails
  <1>2. addr[s] \in IP /\ table[s] \in Table /\ pc[s] \in Busy
    BY <1>0, Zenon DEF ProcType, Working, HasRoute, Busy, Holding, Adding, Deleting
  <1>3. CASE UNCHANGED <<pc, addr, table>>
    BY <1>3 DEF HasRoute
  <1>4. ASSUME NEW r \in Sandbox \ {s},
               add(r) \/ delRefused(r) \/ delNetwork(r) \/ tearDownNS(r) \/ die(r) \/ stopSandbox(r)
        PROVE  pc'[s] = pc[s] /\ addr'[s] = addr[s] /\ table'[s] = table[s]
    BY <1>0, <1>4, Zenon
    DEF ProcType, Goto, add, addRefused, addNetwork, setupVeth, replaceHostRoute, addToContainerRule,
       addFromContainerRules, releaseAfterFailure, delRefused, delNetwork, tearDownNS, delToContainerRule,
       delFromContainerRules, delHostRoute, die, stopSandbox, procVars
  <1>5. CASE add(s)
    BY <1>0, <1>1, <1>5, Zenon
    DEF ProcType, HasRoute, Goto, add, CanAdd, addRefused, addNetwork, setupVeth, replaceHostRoute,
       addToContainerRule, addFromContainerRules, releaseAfterFailure
  <1>6. pc[s] = "up" => lease[s] = addr[s]
    BY DEF LeaseSide, HoldsLease, Holding
  <1>7. ~delRefused(s)
    BY <1>1, <1>2, <1>6, PluginAssumption DEF delRefused, CanDel, HasRoute
  <1>8. CASE delNetwork(s)
    <2>1. pc[s] = "up"
      BY <1>8, Zenon DEF delNetwork, CanDel, HasRoute
    <2>2. table[s] = device[addr[s]]
      BY <1>2, Zenon DEF TableIsDevice
    <2>3. QED
      BY <1>0, <1>1, <1>6, <1>8, <2>1, <2>2, Zenon DEF delNetwork, ProcType, Goto
  <1>9. CASE delToContainerRule(s)
    BY <1>0, <1>1, <1>9, Zenon DEF delToContainerRule, ProcType, Goto
  <1>10. CASE delFromContainerRules(s)
    <2>1. fromRule' = [fromRule EXCEPT ![addr[s]] = [d \in Dst |-> <<>>]] /\ Goto(s, "delRoute")
      BY <1>1, <1>10, Zenon DEF delFromContainerRules
    <2>2. \A d \in Dst : fromRule'[addr[s]][d] = <<>>
      BY <1>0, <1>2, <2>1, Zenon DEF KernelType
    <2>3. QED
      BY <1>0, <1>10, <2>1, <2>2, Zenon DEF delFromContainerRules, ProcType, Goto
  <1>11. CASE delHostRoute(s)
    <2>1. hostRoute'[addr[s]] = NoSandbox
      BY <1>0, <1>1, <1>2, <1>11, Zenon DEF delHostRoute, KernelType
    <2>2. QED
      BY <1>11, <2>1, Zenon DEF delHostRoute
  <1>12. ~die(s)
    BY <1>1, Zenon DEF die
  <1>13. CASE stopSandbox(s)
    BY <1>3, <1>13, Zenon DEF stopSandbox, procVars
  <1>14. ASSUME NEW i \in IP, offerAddress(i) \/ withdrawAddress(i) \/ coolingOver(i)
         PROVE  UNCHANGED <<pc, addr, table>>
    BY <1>14 DEF offerAddress, withdrawAddress, coolingOver, procVars
  <1>15. QED
    <2>1. CASE \E r \in Sandbox \ {s} :
                 add(r) \/ delRefused(r) \/ delNetwork(r) \/ tearDownNS(r) \/ die(r) \/ stopSandbox(r)
      BY <1>4, <2>1, Zenon DEF HasRoute
    <2>2. QED
      BY <1>3, <1>5, <1>7, <1>8, <1>9, <1>10, <1>11, <1>12, <1>13, <1>14, <2>1, Zenon DEF PluginNext, tearDownNS

\* How a process comes to be at work.
LEMMA BusySteps ==
  ASSUME LeaseSide, PluginNext, NEW s \in Sandbox, pc'[s] \in Busy
  PROVE  \/ pc[s] \in Busy /\ addr'[s] = addr[s] /\ table'[s] = table[s]
         \/ /\ addNetwork(s) /\ addr'[s] \in free /\ table'[s] = device[addr'[s]]
         \/ /\ delNetwork(s) /\ addr'[s] = lease[s] /\ lease[s] \in IP /\ table'[s] = device[lease[s]]
  <1>0. PluginTypeOK /\ ProcType /\ LeaseType
    BY TypeParts, Zenon DEF LeaseSide
  <1>1. CASE UNCHANGED <<pc, addr, table>>
    BY <1>1
  <1>2. ASSUME NEW r \in Sandbox \ {s},
               add(r) \/ delRefused(r) \/ delNetwork(r) \/ tearDownNS(r) \/ die(r) \/ stopSandbox(r)
        PROVE  pc'[s] = pc[s] /\ addr'[s] = addr[s] /\ table'[s] = table[s]
    BY <1>0, <1>2, Zenon
    DEF ProcType, Goto, add, addRefused, addNetwork, setupVeth, replaceHostRoute, addToContainerRule,
       addFromContainerRules, releaseAfterFailure, delRefused, delNetwork, tearDownNS, delToContainerRule,
       delFromContainerRules, delHostRoute, die, stopSandbox, procVars
  <1>3. CASE addNetwork(s)
    <2>1. pc'[s] # "failed"
      BY DEF Busy, Holding, Adding, Deleting
    <2>2. ~Goto(s, "failed")
      BY <1>0, <2>1, Zenon DEF Goto, ProcType
    <2>3. PICK ip \in IP : /\ Lease(s, ip)
                          /\ addr' = [addr EXCEPT ![s] = ip]
                          /\ table' = [table EXCEPT ![s] = device[ip]]
      BY <1>3, <2>2, Zenon DEF addNetwork
    <2>4. addr'[s] = ip /\ table'[s] = device[ip]
      BY <1>0, <2>3, Zenon DEF ProcType
    <2>5. QED
      BY <1>3, <2>3, <2>4 DEF Lease
  <1>4. CASE delNetwork(s)
    BY <1>0, <1>4 DEF delNetwork, ProcType, LeaseType, Sandbox, Goto, Busy, Holding, Adding, Deleting, Release
  <1>5. CASE setupVeth(s) \/ replaceHostRoute(s) \/ addToContainerRule(s) \/ addFromContainerRules(s)
    BY <1>5, Zenon DEF setupVeth, replaceHostRoute, addToContainerRule, addFromContainerRules, Busy, Holding,
       Adding
  <1>6. CASE tearDownNS(s)
    BY <1>6, Zenon DEF tearDownNS, delToContainerRule, delFromContainerRules, delHostRoute, Busy, Deleting
  <1>7. CASE addRefused(s) \/ releaseAfterFailure(s) \/ delRefused(s) \/ die(s)
    BY <1>0, <1>7, Zenon
    DEF addRefused, releaseAfterFailure, delRefused, die, ProcType, Goto, Busy, Holding, Adding, Deleting
  <1>8. CASE stopSandbox(s)
    BY <1>1, <1>8, Zenon DEF stopSandbox, procVars
  <1>9. ASSUME NEW i \in IP, offerAddress(i) \/ withdrawAddress(i) \/ coolingOver(i)
        PROVE  UNCHANGED <<pc, addr, table>>
    BY <1>9, Zenon DEF offerAddress, withdrawAddress, coolingOver, procVars
  <1>10. QED
    <2>1. CASE \E r \in Sandbox \ {s} :
                 add(r) \/ delRefused(r) \/ delNetwork(r) \/ tearDownNS(r) \/ die(r) \/ stopSandbox(r)
      BY <1>2, <2>1, ZenonT(40)
    <2>2. CASE \E i \in IP : offerAddress(i) \/ withdrawAddress(i) \/ coolingOver(i)
      BY <1>1, <1>9, <2>2
    <2>3. CASE add(s) \/ delRefused(s) \/ delNetwork(s) \/ tearDownNS(s) \/ die(s) \/ stopSandbox(s)
      BY <1>3, <1>4, <1>5, <1>6, <1>7, <1>8, <2>3, Zenon DEF add
    <2>4. QED
      BY <2>1, <2>2, <2>3, Zenon DEF PluginNext

LEMMA TableKept ==
  ASSUME LeaseSide, TableIsDevice, PluginNext
  PROVE  TableIsDevice'
  <1> SUFFICES ASSUME NEW s \in Sandbox, pc'[s] \in Busy PROVE table'[s] = device'[addr'[s]]
    BY Zenon DEF TableIsDevice
  <1>0. PluginTypeOK /\ ProcType
    BY TypeParts, ZenonT(40) DEF LeaseSide
  <1>1. table'[s] = device[addr'[s]]
    BY BusySteps DEF TableIsDevice
  <1>2. CASE device' = device
    BY <1>1, <1>2, Zenon
  <1>3. ASSUME NEW ip \in IP, offerAddress(ip) PROVE device'[addr'[s]] = device[addr'[s]]
    <2>1. UNCHANGED <<pc, addr>>
      BY <1>3, Zenon DEF offerAddress, procVars
    <2>2. pc[s] \in Deleting => addr[s] # ip
      BY <1>3, Zenon DEF offerAddress, NotTornDown
    <2>3. pc[s] \in Holding => addr[s] # ip
      <3>1. pc[s] \in Holding => lease[s] = addr[s] /\ addr[s] \in IP
        BY <1>0, Zenon DEF LeaseSide, HoldsLease, ProcType, Working
      <3>2. ip \notin Leased
        BY <1>3, Zenon DEF offerAddress, Offer
      <3>3. QED
        BY <3>1, <3>2, LeasedDef, PluginAssumption, Zenon DEF Sandbox
    <2>4. addr[s] \in IP /\ addr[s] # ip
      BY <1>0, <2>1, <2>2, <2>3, Zenon DEF ProcType, Working, Busy
    <2>5. QED
      BY <1>0, <1>3, <2>1, <2>4 DEF offerAddress, ProcType
  <1>4. (\E ip \in IP : offerAddress(ip)) \/ device' = device
    BY Zenon DEF PluginNext, add, tearDownNS, addRefused, addNetwork, setupVeth, replaceHostRoute,
       addToContainerRule,
       addFromContainerRules, releaseAfterFailure, delRefused, delNetwork, delToContainerRule,
       delFromContainerRules, delHostRoute, die, stopSandbox, withdrawAddress, coolingOver
  <1>5. QED
    BY <1>1, <1>2, <1>3, <1>4, Zenon

LEMMA WorkerKept ==
  ASSUME LeaseSide, OneWorker, PluginNext
  PROVE  OneWorker'
  <1>0. PluginTypeOK /\ ProcType /\ Exclusive
    BY TypeParts, Zenon DEF LeaseSide
  <1>1. ASSUME NEW s \in Sandbox, NEW ip \in free, pc[s] \in Busy PROVE addr[s] # ip
    <2>1. CASE pc[s] \in Holding
      <3>1. lease[s] = addr[s] /\ addr[s] \in IP
        BY <1>0, <2>1 DEF LeaseSide, HoldsLease, ProcType, Working
      <3>2. addr[s] \in Leased
        BY <3>1, LeasedDef, PluginAssumption, Zenon DEF Sandbox
      <3>3. QED
        BY <1>0, <3>2, Zenon DEF Exclusive
    <2>2. CASE pc[s] \in Deleting
      BY <2>2, Zenon DEF LeaseSide, TornDownRests
    <2>3. QED
      BY <1>1, <2>1, <2>2 DEF Busy
  <1>2. ASSUME NEW r \in Sandbox, NEW s \in Sandbox, pc[s] \in Busy, lease[r] = addr[s], lease[r] \in IP
        PROVE  r = s
    <2>1. lease[r] \in Leased
      BY <1>2, LeasedDef, PluginAssumption, Zenon DEF Sandbox
    <2>2. pc[s] \notin Deleting
      BY <1>2, <2>1, Zenon DEF LeaseSide, TornDownRests
    <2>3. lease[s] = addr[s] /\ lease[r] # NoIP
      BY <1>2, <2>2, PluginAssumption, Zenon DEF Busy, LeaseSide, HoldsLease
    <2>4. QED
      BY <1>0, <1>2, <2>3 DEF Exclusive, Sandbox
  <1>3. ASSUME NEW r \in Sandbox, NEW s \in Sandbox, r # s, addNetwork(r) \/ delNetwork(r)
        PROVE  pc'[s] = pc[s] /\ addr'[s] = addr[s]
    BY <1>0, <1>3 DEF addNetwork, delNetwork, Goto, ProcType
  <1>4. ASSUME NEW r \in Sandbox, NEW s \in Sandbox, r # s, pc'[r] \in Busy, pc'[s] \in Busy,
               addNetwork(r) \/ delNetwork(r)
        PROVE  addr'[r] # addr'[s]
    <2>1. pc[s] \in Busy /\ addr'[s] = addr[s]
      BY <1>3, <1>4, Zenon
    <2>2. \/ addr'[r] \in free
          \/ addr'[r] = lease[r] /\ lease[r] \in IP
          \/ pc[r] \in Busy /\ addr'[r] = addr[r]
      BY <1>4, BusySteps, Zenon
    <2>3. QED
      BY <1>1, <1>2, <1>4, <2>1, <2>2, Zenon DEF OneWorker
  <1> SUFFICES ASSUME NEW r \in Sandbox, NEW s \in Sandbox, pc'[r] \in Busy, pc'[s] \in Busy, addr'[r] = addr'[s]
               PROVE  r = s
    BY Zenon DEF OneWorker
  <1>5. CASE addNetwork(r) \/ delNetwork(r) \/ addNetwork(s) \/ delNetwork(s)
    BY <1>4, <1>5
  <1>6. CASE ~(addNetwork(r) \/ delNetwork(r) \/ addNetwork(s) \/ delNetwork(s))
    BY <1>6, BusySteps DEF OneWorker
  <1>7. QED
    BY <1>5, <1>6

\* The conditions are rigid, so nothing starts to fail.
LEMMA ConditionsKept ==
  ASSUME UNCHANGED conditions
  PROVE  (Calm' <=> Calm) /\ (AddressesMove' <=> AddressesMove)
  BY DEF Calm, AddressesMove

LEMMA ToRuleKept ==
  ASSUME LeaseSide, TableIsDevice, ToRuleOwned, PluginNext, UNCHANGED conditions
  PROVE  ToRuleOwned'
  <1> SUFFICES ASSUME Calm, NEW ip \in toRule'
               PROVE  \E s \in Sandbox : addr'[s] = ip /\ pc'[s] \in HasToRule
    BY ConditionsKept, Zenon DEF ToRuleOwned, HasToRule
  <1>0. PluginTypeOK /\ ProcType /\ ip \in IP
    BY TypeParts, NextLeaseSide, TypePartsPrimed, Zenon DEF LeaseSide, KernelType
  <1>1. CASE ip \in toRule
    <2>1. PICK s \in Sandbox : addr[s] = ip /\ pc[s] \in HasToRule
      BY <1>1 DEF ToRuleOwned
    <2>2. pc[s] \in HasRoute
      BY <2>1, Zenon DEF HasToRule, HasRoute
    <2>3. QED
      BY <2>1, <2>2, OwnerStays, Zenon DEF HasToRule
  <1>2. ASSUME NEW s \in Sandbox, addToContainerRule(s), addr[s] = ip, ip \notin toRule
        PROVE  addr'[s] = ip /\ pc'[s] \in HasToRule
    BY <1>0, <1>2, Zenon DEF addToContainerRule, Goto, ProcType, Calm, KernelFails, HasToRule
  <1>3. QED
    BY <1>0, <1>1, <1>2, KernelGrows, Zenon

LEMMA RouteKept ==
  ASSUME LeaseSide, TableIsDevice, RouteOwned, PluginNext, UNCHANGED conditions
  PROVE  RouteOwned'
  <1> SUFFICES ASSUME Calm, NEW ip \in IP, hostRoute'[ip] # NoSandbox
               PROVE  \E s \in Sandbox : addr'[s] = ip /\ pc'[s] \in HasRoute
    BY ConditionsKept DEF RouteOwned, HasRoute
  <1>0. PluginTypeOK /\ ProcType
    BY TypeParts, Zenon DEF LeaseSide
  <1>1. CASE hostRoute[ip] # NoSandbox
    <2>1. PICK s \in Sandbox : addr[s] = ip /\ pc[s] \in HasRoute
      BY <1>1, Zenon DEF RouteOwned
    <2>2. QED
      BY <2>1, OwnerStays, Zenon DEF HasRoute
  <1>2. ASSUME NEW s \in Sandbox, replaceHostRoute(s), addr[s] = ip, hostRoute' # hostRoute
        PROVE  addr'[s] = ip /\ pc'[s] \in HasRoute
    BY <1>0, <1>2 DEF replaceHostRoute, Goto, ProcType, HasRoute
  <1>3. QED
    BY <1>1, <1>2, KernelGrows, Zenon

\* What an address is on changes only if addresses move, or it was on nothing.
LEMMA DeviceSteps ==
  ASSUME LeaseSide, PluginNext, NEW ip \in IP
  PROVE  AddressesMove \/ device'[ip] = device[ip] \/ device[ip] = -1
  <1>0. ProcType
    BY TypeParts, Zenon DEF LeaseSide
  <1>1. ASSUME NEW i \in IP, offerAddress(i)
        PROVE  AddressesMove \/ device'[ip] = device[ip] \/ device[ip] = -1
    BY <1>0, <1>1, Zenon DEF offerAddress, ProcType
  <1>2. (\E i \in IP : offerAddress(i)) \/ device' = device
    BY Zenon DEF PluginNext, add, tearDownNS, addRefused, addNetwork, setupVeth, replaceHostRoute,
       addToContainerRule,
       addFromContainerRules, releaseAfterFailure, delRefused, delNetwork, delToContainerRule,
       delFromContainerRules, delHostRoute, die, stopSandbox, withdrawAddress, coolingOver
  <1>3. QED
    BY <1>1, <1>2

LEMMA FromRuleKept ==
  ASSUME LeaseSide, TableIsDevice, FromRuleOwned, PluginNext, UNCHANGED conditions
  PROVE  FromRuleOwned'
  <1> SUFFICES ASSUME NEW ip \in IP, NEW d \in Dst, NEW t \in Table, Contains(fromRule'[ip][d], t)
               PROVE  /\ t > 0
                      /\ ~AddressesMove' => t = device'[ip]
                      /\ Calm' => \E s \in Sandbox : addr'[s] = ip /\ table'[s] = t /\ pc'[s] \in HasFromRule
    BY Zenon DEF FromRuleOwned, SetFromRule, HasFromRule
  <1> SUFFICES /\ t > 0
               /\ ~AddressesMove => t = device'[ip]
               /\ Calm => \E s \in Sandbox : addr'[s] = ip /\ table'[s] = t /\ pc'[s] \in HasFromRule
    BY ConditionsKept, Zenon
  <1>0. PluginTypeOK /\ ProcType
    BY TypeParts, Zenon DEF LeaseSide
  <1>1. CASE Contains(fromRule[ip][d], t)
    <2>1. t > 0 /\ (~AddressesMove => t = device[ip])
      BY <1>1 DEF FromRuleOwned, SetFromRule
    <2>2. ~AddressesMove => t = device'[ip]
      BY <2>1, DeviceSteps
    <2>3. ASSUME Calm
          PROVE  \E s \in Sandbox : addr'[s] = ip /\ table'[s] = t /\ pc'[s] \in HasFromRule
      <3>1. PICK s \in Sandbox : addr[s] = ip /\ table[s] = t /\ pc[s] \in HasFromRule
        BY <1>1, <2>3 DEF FromRuleOwned, SetFromRule
      <3>2. pc[s] \in HasRoute
        BY <3>1, Zenon DEF HasFromRule, HasRoute
      <3>3. fromRule'[ip][d] # <<>>
        BY DEF Contains
      <3>4. QED
        BY <2>1, <2>3, <3>1, <3>2, <3>3, OwnerStays, Zenon DEF HasFromRule
    <2>4. QED
      BY <2>1, <2>2, <2>3, Zenon
  <1>2. ASSUME NEW s \in Sandbox, addFromContainerRules(s), addr[s] = ip, table[s] = t, t > 0
        PROVE  /\ ~AddressesMove => t = device'[ip]
               /\ Calm => addr'[s] = ip /\ table'[s] = t /\ pc'[s] \in HasFromRule
    <2>1. pc[s] \in Busy /\ device' = device /\ addr' = addr /\ table' = table
      BY <1>2, Zenon DEF addFromContainerRules, Busy, Holding, Adding
    <2>2. t = device[ip]
      BY <1>2, <2>1, Zenon DEF TableIsDevice
    <2>3. Calm => pc'[s] = "up"
      BY <1>0, <1>2, Zenon DEF addFromContainerRules, Goto, ProcType, Calm, KernelFails, PluginDies
    <2>4. QED
      BY <1>2, <2>1, <2>2, <2>3, Zenon DEF HasFromRule
  <1>3. \/ Contains(fromRule[ip][d], t)
        \/ \E s \in Sandbox : addFromContainerRules(s) /\ addr[s] = ip /\ table[s] = t /\ t > 0
    BY KernelGrows
  <1>4. ASSUME NEW s \in Sandbox, addFromContainerRules(s), addr[s] = ip, table[s] = t, t > 0
        PROVE  /\ t > 0
               /\ ~AddressesMove => t = device'[ip]
               /\ Calm => \E r \in Sandbox : addr'[r] = ip /\ table'[r] = t /\ pc'[r] \in HasFromRule
    BY <1>2, <1>4, Zenon
  <1>5. QED
    BY <1>1, <1>3, <1>4, Zenon

LEMMA InitOwned == PluginInit => Owned
  <1> SUFFICES ASSUME PluginInit PROVE Owned
    OBVIOUS
  <1>1. \A s \in Sandbox : pc[s] = "new"
    BY Zenon DEF PluginInit
  <1>2. TableIsDevice /\ OneWorker
    BY <1>1, Zenon DEF TableIsDevice, OneWorker, Busy, Holding, Adding, Deleting
  <1>3. ToRuleOwned /\ RouteOwned
    BY DEF PluginInit, ToRuleOwned, RouteOwned
  <1>4. \A ip \in IP, d \in Dst : fromRule[ip][d] = <<>>
    BY Zenon DEF PluginInit
  <1>5. FromRuleOwned
    BY <1>4 DEF FromRuleOwned, SetFromRule, Contains
  <1>6. QED
    BY <1>2, <1>3, <1>5 DEF Owned

LEMMA NextOwned ==
  LeaseSide /\ Owned /\ [PluginNext /\ UNCHANGED conditions]_<<pluginVars, conditions>> => Owned'
  <1> SUFFICES ASSUME LeaseSide, Owned, [PluginNext /\ UNCHANGED conditions]_<<pluginVars, conditions>>
               PROVE  Owned'
    OBVIOUS
  <1>1. CASE PluginNext /\ UNCHANGED conditions
    BY <1>1, TableKept, WorkerKept, ToRuleKept, RouteKept, FromRuleKept, Zenon DEF Owned
  <1>2. CASE UNCHANGED <<pluginVars, conditions>>
    <2>0. /\ UNCHANGED <<device, pc, addr, table, hostVeth, hostRoute, toRule, fromRule>>
          /\ UNCHANGED <<free, cooling, lease>>
      BY <1>2, Zenon DEF pluginVars, leaseVars, procVars, kernelVars
    <2>1. (Calm' <=> Calm) /\ (AddressesMove' <=> AddressesMove)
      BY <1>2, ConditionsKept, Zenon
    <2>2. TableIsDevice' /\ OneWorker'
      BY <2>0, Zenon DEF Owned, TableIsDevice, OneWorker
    <2>3. ToRuleOwned'
      BY <2>0, <2>1, Zenon DEF Owned, ToRuleOwned
    <2>4. RouteOwned'
      BY <2>0, <2>1, Zenon DEF Owned, RouteOwned
    <2>5. FromRuleOwned'
      <3>1. FromRuleOwned
        BY Zenon DEF Owned
      <3>2. \A ip \in IP, t \in Table : SetFromRule(ip, t)' <=> SetFromRule(ip, t)
        BY <2>0, Zenon DEF SetFromRule
      <3>3. \A ip \in IP, d \in Dst, t \in Table : Contains(fromRule[ip][d], t)' <=> Contains(fromRule[ip][d], t)
        BY <2>0, Zenon DEF Contains
      <3>4. QED
        BY <2>0, <2>1, <3>1, <3>2, <3>3, Zenon DEF FromRuleOwned
    <2>6. QED
      BY <2>2, <2>3, <2>4, <2>5, Zenon DEF Owned
  <1>3. QED
    BY <1>1, <1>2

\* Whatever the ADDs and DELs before it left behind, traffic of a pod that is up leaves
\* by the ENI its address is on: the first rule from the address is its own, and there
\* is none if the address is the primary ENI's.  Rules left by a failed teardown name
\* the same table while addresses stay on their ENI; if they move, no rule is left.
THEOREM PodsLeaveByTheirENI == PluginSpec => []LeavesByItsENI
  <1>1. LeaseSide /\ Wiring /\ Owned => LeavesByItsENI
    <2> SUFFICES ASSUME LeaseSide, Wiring, Owned, conditions.faults = {"moves"} \/ ~AddressesMove,
                        NEW s \in Sandbox, NEW d \in Dst, pc[s] = "up"
                 PROVE  IF table[s] > 0
                        THEN fromRule[addr[s]][d] # <<>> /\ Head(fromRule[addr[s]][d]) = table[s]
                        ELSE fromRule[addr[s]][d] = <<>>
      BY Zenon DEF LeavesByItsENI
    <2> DEFINE tables == fromRule[addr[s]][d]
    <2>0. /\ addr[s] \in IP /\ table[s] \in Table /\ pc[s] \in Busy
          /\ tables \in Seq(Table)
      BY TypeParts, Zenon DEF LeaseSide, ProcType, KernelType, Working, Busy, Holding
    <2>1. ASSUME NEW t \in Table, Contains(tables, t) PROVE t = table[s] /\ t > 0
      <3>1. t > 0 /\ (~AddressesMove => t = device[addr[s]])
        BY <2>0, <2>1 DEF Owned, FromRuleOwned, SetFromRule
      <3>2. table[s] = device[addr[s]]
        BY <2>0, Zenon DEF Owned, TableIsDevice
      <3>3. CASE conditions.faults = {"moves"}
        <4>0. \E r \in Sandbox : addr[r] = addr[s] /\ table[r] = t /\ pc[r] \in HasFromRule
          <5>1. Calm
            BY <3>3 DEF Calm
          <5>2. FromRuleOwned
            BY Zenon DEF Owned
          <5>3. QED
            BY <2>0, <2>1, <5>1, <5>2 DEF FromRuleOwned, SetFromRule
        <4>1. PICK r \in Sandbox : addr[r] = addr[s] /\ table[r] = t /\ pc[r] \in HasFromRule
          BY <4>0
        <4>2. pc[r] \in Busy
          BY <4>1, Zenon DEF HasFromRule, Busy, Holding, Deleting
        <4>3. QED
          BY <2>0, <3>1, <4>1, <4>2, Zenon DEF Owned, OneWorker
      <3>4. QED
        BY <3>1, <3>2, <3>3, Zenon
    <2>2. tables # <<>> => Head(tables) \in Table /\ Contains(tables, Head(tables))
      BY <2>0, Headless DEF Contains
    <2>3. table[s] > 0 => tables # <<>>
      BY DEF Wiring, Wired, Contains
    <2>4. QED
      BY <2>1, <2>2, <2>3, Zenon
  <1>2. QED
    BY <1>1, InitPluginInv, InitOwned, StepsOfSpec, NextLeaseSide, NextWiring, NextOwned, PTL DEF PluginSpec

\* If no call fails and no process dies, SetupNS and TearDownNS leave no rule and no
\* route for an address that no sandbox is at work with.
THEOREM KernelFollowsPods == PluginSpec => []KernelMatchesPods
  <1>1. LeaseSide /\ Owned => KernelMatchesPods
    <2> SUFFICES ASSUME LeaseSide, Owned, Calm, NEW ip \in IP,
                        \A s \in Sandbox : addr[s] = ip => pc[s] \notin Busy
                 PROVE  ip \notin toRule /\ hostRoute[ip] = NoSandbox /\ \A d \in Dst : fromRule[ip][d] = <<>>
      BY Zenon DEF KernelMatchesPods, Calm, Busy, Holding
    <2>1. \A s \in Sandbox : addr[s] = ip => pc[s] \notin HasToRule \cup HasRoute \cup HasFromRule
      BY Zenon DEF HasToRule, HasRoute, HasFromRule, Busy, Holding, Adding, Deleting
    <2>2. ip \notin toRule /\ hostRoute[ip] = NoSandbox
      BY <2>1, Zenon DEF Owned, ToRuleOwned, RouteOwned
    <2>3. ASSUME NEW d \in Dst PROVE fromRule[ip][d] = <<>>
      <3>1. fromRule[ip][d] \in Seq(Table)
        BY TypeParts, Zenon DEF LeaseSide, KernelType
      <3>2. \A t \in Table : ~Contains(fromRule[ip][d], t)
        BY <2>1 DEF Owned, FromRuleOwned, SetFromRule
      <3>3. QED
        BY <3>1, <3>2, Headless DEF Contains
    <2>4. QED
      BY <2>2, <2>3
  <1>2. QED
    BY <1>1, InitPluginInv, InitOwned, StepsOfSpec, NextLeaseSide, NextOwned, PTL DEF PluginSpec

=============================================================================
