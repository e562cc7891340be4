----------------------------- MODULE CNIPlugin -----------------------------
(***************************************************************************)
(* plugins/routed-eni: the CNI plugin and its driver.  kubelet runs one    *)
(* plugin process per ADD or DEL of a pod's sandbox.  A process talks to   *)
(* ipamd over gRPC and to the kernel over netlink, and may fail or die at  *)
(* any step.  ipamd is the contract it keeps, PodIPLease, with the device  *)
(* number (route table) of the ENI that each address is on.                *)
(*                                                                         *)
(* pc[s] is the step the process of sandbox s is at; between processes it  *)
(* is "new", "up" (ADD succeeded), "failed" (the last process ended in an  *)
(* error or died) or "deleted" (DEL succeeded).                            *)
(***************************************************************************)
EXTENDS PodIPLease, Integers, Sequences

CONSTANTS
  NoSandbox,
  PodOf,           \* [PodKey -> the (namespace, name) of the sandbox's pod]
  Table,           \* device numbers; 0 is the primary ENI's
  Dst,             \* VPC CIDRs and exclusions; one element under external SNAT
  Conditions       \* what a node may be like: [faults, sandboxes, EXTERNALSNAT]

Sandbox == PodKey
PodName == {PodOf[s] : s \in Sandbox}

ASSUME PluginAssumption ==
  /\ NoSandbox \notin Sandbox
  /\ NoIP \notin IP
  /\ PodOf = [s \in Sandbox |-> PodOf[s]]
  /\ Table \subseteq Nat
  /\ Conditions \subseteq [faults : SUBSET {"kernel", "process", "RPC", "moves"},
                           sandboxes : SUBSET Sandbox, EXTERNALSNAT : {"true", "false"}]

VARIABLES
  conditions,      \* of this node; they do not change
  device,          \* [IP -> the table of the ENI the address is or was last on, -1: none yet]
  pc,
  addr,            \* [Sandbox -> the address its process works on]
  table,           \* [Sandbox -> the DeviceNumber that came with it]
  hostVeth,        \* [PodName -> sandbox at the other end of the veth with that name]
  hostRoute,       \* [IP -> sandbox whose veth the /32 route goes to]
  toRule,          \* addresses with a rule: to <ip> lookup main
  fromRule         \* [IP -> [Dst -> tables of its rules: from <ip> to <dst>, oldest first]]

leaseVars  == <<free, cooling, lease>>
procVars   == <<pc, addr, table>>
kernelVars == <<hostVeth, hostRoute, toRule, fromRule>>
pluginVars == <<leaseVars, device, procVars, kernelVars>>

KernelFails     == "kernel" \in conditions.faults    \* may a netlink call return an error?
PluginDies      == "process" \in conditions.faults   \* may a process be killed, or its result not be read?
RPCFails        == "RPC" \in conditions.faults       \* may a call to ipamd fail, carried out or not?
AddressesMove   == "moves" \in conditions.faults     \* may EC2 give an address to another ENI later?
useExternalSNAT == conditions.EXTERNALSNAT = "true"

Adding   == {"setupVeth", "hostRoute", "toRule", "fromRule", "release"}
Deleting == {"delToRule", "delFromRule", "delRoute"}

PluginTypeOK ==
  /\ free \subseteq IP /\ cooling \subseteq IP
  /\ lease \in [Sandbox -> IP \cup {NoIP}]
  /\ device \in [IP -> Table \cup {-1}]
  /\ pc \in [Sandbox -> {"new", "up", "failed", "deleted"} \cup Adding \cup Deleting]
  /\ addr \in [Sandbox -> IP \cup {NoIP}]
  /\ table \in [Sandbox -> Table \cup {-1}]
  /\ hostVeth \in [PodName -> Sandbox \cup {NoSandbox}]
  /\ hostRoute \in [IP -> Sandbox \cup {NoSandbox}]
  /\ toRule \subseteq IP
  /\ fromRule \in [IP -> [Dst -> Seq(Table)]]
  /\ \A s \in Sandbox : pc[s] \in Adding \cup Deleting \cup {"up"} => addr[s] \in IP /\ table[s] \in Table

PluginInit ==
  /\ conditions \in Conditions
  /\ Init
  /\ device = [ip \in IP |-> -1]
  /\ pc = [s \in Sandbox |-> "new"]
  /\ addr = [s \in Sandbox |-> NoIP]
  /\ table = [s \in Sandbox |-> -1]
  /\ hostVeth = [p \in PodName |-> NoSandbox]
  /\ hostRoute = [ip \in IP |-> NoSandbox]
  /\ toRule = {}
  /\ fromRule = [ip \in IP |-> [d \in Dst |-> <<>>]]

Goto(s, step) == pc' = [pc EXCEPT ![s] = step]

-----------------------------------------------------------------------------
(* add *)

\* kubelet makes a new sandbox, of those it comes to make, for a pod when the pod has no other one that is
\* up or being set up.  DEL of an older one may still be running or to come.
CanAdd(s) ==
  /\ s \in conditions.sandboxes
  /\ pc[s] = "new"
  /\ \A r \in Sandbox \ {s} : PodOf[r] = PodOf[s] => pc[r] \notin Adding \cup {"up"}

\* The request fails before or at AddNetwork, or ipamd has no address.
addRefused(s) ==
  /\ CanAdd(s)
  /\ RPCFails \/ free = {}
  /\ Goto(s, "failed")
  /\ UNCHANGED <<leaseVars, device, addr, table, kernelVars>>

addNetwork(s) ==
  /\ CanAdd(s)
  /\ \E ip \in IP :
       /\ Lease(s, ip)
       /\ \/ /\ Goto(s, "setupVeth")
             /\ addr' = [addr EXCEPT ![s] = ip]
             /\ table' = [table EXCEPT ![s] = device[ip]]
          \/ /\ RPCFails                              \* the reply is lost
             /\ Goto(s, "failed")
             /\ UNCHANGED <<addr, table>>
  /\ UNCHANGED <<device, kernelVars>>

\* A veth goes, with the routes through it, and another one or none takes its name.
setLink(p, s) ==
  /\ hostVeth' = [hostVeth EXCEPT ![p] = s]
  /\ hostRoute' = [ip \in IP |-> IF hostRoute[ip] = hostVeth[p] THEN NoSandbox ELSE hostRoute[ip]]

\* setupNS up to LinkSetUp: the old veth of that name goes, a pair is made in the
\* sandbox's namespace and its host end moved out.  A failure leaves the old
\* veth, none, or the new one.
setupVeth(s) ==
  /\ pc[s] = "setupVeth"
  /\ \/ setLink(PodOf[s], s) /\ Goto(s, "hostRoute")
     \/ /\ KernelFails
        /\ UNCHANGED <<hostVeth, hostRoute>> \/ setLink(PodOf[s], NoSandbox) \/ setLink(PodOf[s], s)
        /\ Goto(s, "release")
  /\ UNCHANGED <<leaseVars, device, addr, table, toRule, fromRule>>

\* A slip: RouteAdd, with a route that exists taken for the one that is wanted.
replaceHostRoute_Adds(s) ==
  /\ pc[s] = "hostRoute"
  /\ hostRoute' = IF hostRoute[addr[s]] = NoSandbox THEN [hostRoute EXCEPT ![addr[s]] = s] ELSE hostRoute
  /\ Goto(s, "toRule")
  /\ UNCHANGED <<leaseVars, device, addr, table, hostVeth, toRule, fromRule>>

replaceHostRoute(s) ==
  /\ pc[s] = "hostRoute"
  /\ \/ hostRoute' = [hostRoute EXCEPT ![addr[s]] = s] /\ Goto(s, "toRule")
     \/ KernelFails /\ Goto(s, "release") /\ UNCHANGED hostRoute
  /\ UNCHANGED <<leaseVars, device, addr, table, hostVeth, toRule, fromRule>>

\* addContainerRule: RuleDel, then RuleAdd.
addToContainerRule(s) ==
  /\ pc[s] = "toRule"
  /\ \/ toRule' = toRule \cup {addr[s]} /\ Goto(s, "fromRule")
     \/ /\ KernelFails
        /\ toRule' \in {toRule, toRule \ {addr[s]}}
        /\ Goto(s, "release")
  /\ UNCHANGED <<leaseVars, device, addr, table, hostVeth, hostRoute, fromRule>>

Contains(tables, t) == \E i \in 1 .. Len(tables) : tables[i] = t

\* RuleDel deletes one rule; that there is none is no error.
RemoveAt(tables, i) == SubSeq(tables, 1, i - 1) \o SubSeq(tables, i + 1, Len(tables))

without(tables, t) ==
  IF Contains(tables, t) THEN RemoveAt(tables, CHOOSE i \in 1 .. Len(tables) : tables[i] = t) ELSE tables

\* A rule goes behind those of its priority that are there.  With external SNAT an
\* equal one is deleted first; without, an equal one is left where it is.
addRule(tables, t) ==
  IF useExternalSNAT THEN Append(without(tables, t), t)
  ELSE IF Contains(tables, t) THEN tables ELSE Append(tables, t)

\* The rules of addr[s] after those for S were added; with external SNAT a failed
\* RuleAdd comes after the RuleDel.
rulesAdded(s, S, lost) ==
  [fromRule EXCEPT ![addr[s]] = [d \in Dst |->
     IF d \in S THEN addRule(@[d], table[s])
     ELSE IF lost THEN without(@[d], table[s]) ELSE @[d]]]

\* A slip: rules for the primary ENI's addresses too.
addFromContainerRules_Primary(s) ==
  /\ pc[s] = "fromRule"
  /\ fromRule' = rulesAdded(s, Dst, FALSE)
  /\ Goto(s, "up")
  /\ UNCHANGED <<leaseVars, device, addr, table, hostVeth, hostRoute, toRule>>

\* The end of SetupNS, and of add: if PrintResult fails (whoever reads the result is
\* gone) ADD returns its error, and neither the address nor the network is taken back.
addFromContainerRules(s) ==
  /\ pc[s] = "fromRule"
  /\ \/ /\ fromRule' = IF table[s] > 0 THEN rulesAdded(s, Dst, FALSE) ELSE fromRule
        /\ Goto(s, "up") \/ (PluginDies /\ Goto(s, "failed"))
     \/ /\ KernelFails
        /\ table[s] > 0
        /\ \E S \in SUBSET Dst \ {Dst}, lost \in {FALSE, useExternalSNAT} :
             fromRule' = rulesAdded(s, S, lost)
        /\ Goto(s, "release")
  /\ UNCHANGED <<leaseVars, device, addr, table, hostVeth, hostRoute, toRule>>

\* SetupNS failed: DelNetwork, and nothing of what SetupNS did is undone.  If that
\* call fails its nil reply is read and the process ends there.
releaseAfterFailure(s) ==
  /\ pc[s] = "release"
  /\ Release(s) \/ (RPCFails /\ UNCHANGED leaseVars)
  /\ Goto(s, "failed")
  /\ UNCHANGED <<device, addr, table, kernelVars>>

-----------------------------------------------------------------------------
(* del *)

CanDel(s) == pc[s] \in {"up", "failed"}

\* The call fails, or ipamd does not know the sandbox: nothing is torn down.
delRefused(s) ==
  /\ CanDel(s)
  /\ RPCFails \/ lease[s] = NoIP
  /\ Goto(s, "failed")
  /\ UNCHANGED <<leaseVars, device, addr, table, kernelVars>>

\* A slip: DEL is not attempted for a sandbox whose ADD failed.
delNetwork_OnlyUp(s) ==
  /\ pc[s] = "up"
  /\ Release(s)
  /\ Goto(s, "delToRule")
  /\ addr' = [addr EXCEPT ![s] = lease[s]]
  /\ table' = [table EXCEPT ![s] = device[lease[s]]]
  /\ UNCHANGED <<device, kernelVars>>

delNetwork(s) ==
  /\ CanDel(s)
  /\ Release(s)
  /\ \/ /\ Goto(s, "delToRule")
        /\ addr' = [addr EXCEPT ![s] = lease[s]]
        /\ table' = [table EXCEPT ![s] = device[lease[s]]]
     \/ /\ RPCFails                                   \* the reply is lost
        /\ Goto(s, "failed")
        /\ UNCHANGED <<addr, table>>
  /\ UNCHANGED <<device, kernelVars>>

\* A slip: pods on the primary ENI are taken to have no rules at all.
delToContainerRule_Secondary(s) ==
  /\ pc[s] = "delToRule"
  /\ toRule' = IF table[s] > 0 THEN toRule \ {addr[s]} ELSE toRule
  /\ Goto(s, IF table[s] > 0 THEN "delFromRule" ELSE "delRoute")
  /\ UNCHANGED <<leaseVars, device, addr, table, hostVeth, hostRoute, fromRule>>

\* tearDownNS, one action per kernel object; only deleteRuleListBySrc's error ends it.
delToContainerRule(s) ==
  /\ pc[s] = "delToRule"
  /\ toRule' = toRule \ {addr[s]} \/ (KernelFails /\ UNCHANGED toRule)
  /\ Goto(s, IF table[s] > 0 THEN "delFromRule" ELSE "delRoute")
  /\ UNCHANGED <<leaseVars, device, addr, table, hostVeth, hostRoute, fromRule>>

delFromContainerRules(s) ==
  /\ pc[s] = "delFromRule"
  /\ \/ /\ fromRule' = [fromRule EXCEPT ![addr[s]] = [d \in Dst |-> <<>>]]
        /\ Goto(s, "delRoute")
     \/ /\ KernelFails
        /\ \E S \in SUBSET Dst :
             fromRule' = [fromRule EXCEPT ![addr[s]] = [d \in Dst |-> IF d \in S THEN <<>> ELSE @[d]]]
        /\ Goto(s, "failed")
  /\ UNCHANGED <<leaseVars, device, addr, table, hostVeth, hostRoute, toRule>>

\* RouteDel names the destination only: whatever veth the route goes to.
delHostRoute(s) ==
  /\ pc[s] = "delRoute"
  /\ hostRoute' = [hostRoute EXCEPT ![addr[s]] = NoSandbox] \/ (KernelFails /\ UNCHANGED hostRoute)
  /\ Goto(s, "deleted")
  /\ UNCHANGED <<leaseVars, device, addr, table, hostVeth, toRule, fromRule>>

-----------------------------------------------------------------------------
(* The rest of the node *)

die(s) ==
  /\ PluginDies
  /\ pc[s] \in Adding \cup Deleting
  /\ Goto(s, "failed")
  /\ UNCHANGED <<leaseVars, device, addr, table, kernelVars>>

\* kubelet stops the sandbox after a DEL, failed or not; its namespace goes, with
\* the veth pair in it.
stopSandbox(s) ==
  /\ pc[s] \in {"failed", "deleted"}
  /\ hostVeth[PodOf[s]] = s
  /\ setLink(PodOf[s], NoSandbox)
  /\ UNCHANGED <<leaseVars, device, procVars, toRule, fromRule>>

\* An assumption on time, not a guard of the code: a teardown is over before the
\* address it works on can be on offer again.  Of an address in cooling it asks that
\* a DEL take less than addressCoolingPeriod; of one that is recalled and added again,
\* without UnassignedTime, that it be over by the pool manager's next look at EC2.
NotTornDown(ip) == \A s \in Sandbox : pc[s] \in Deleting => addr[s] # ip

offerAddress(ip) ==
  /\ NotTornDown(ip)
  /\ Offer(ip)
  /\ \E t \in Table :
       /\ AddressesMove \/ device[ip] \in {-1, t}
       /\ device' = [device EXCEPT ![ip] = t]
  /\ UNCHANGED <<procVars, kernelVars>>

withdrawAddress(ip) ==
  /\ Withdraw({ip}) \/ Recall({ip})
  /\ UNCHANGED <<device, procVars, kernelVars>>

coolingOver(ip) == NotTornDown(ip) /\ ip \in cooling /\ Expire({ip}) /\ UNCHANGED <<device, procVars, kernelVars>>

add(s) ==
  \/ addRefused(s) \/ addNetwork(s) \/ setupVeth(s) \/ replaceHostRoute(s)
  \/ addToContainerRule(s) \/ addFromContainerRules(s) \/ releaseAfterFailure(s)

tearDownNS(s) == delToContainerRule(s) \/ delFromContainerRules(s) \/ delHostRoute(s)

PluginNext ==
  \/ \E s \in Sandbox :
       add(s) \/ delRefused(s) \/ delNetwork(s) \/ tearDownNS(s) \/ die(s) \/ stopSandbox(s)
  \/ \E ip \in IP : offerAddress(ip) \/ withdrawAddress(ip) \/ coolingOver(ip)

PluginSpec == PluginInit /\ [][PluginNext /\ UNCHANGED conditions]_<<pluginVars, conditions>>

\* Processes run on, kubelet repeats DEL until it succeeds, time passes.
PluginFairSpec ==
  /\ PluginSpec
  /\ \A s \in Sandbox :
       WF_pluginVars(delNetwork(s)) /\ WF_pluginVars(tearDownNS(s) \/ releaseAfterFailure(s))
  /\ \A ip \in IP : WF_pluginVars(coolingOver(ip))

-----------------------------------------------------------------------------
(* Properties *)

\* A pod whose ADD succeeded keeps its address and its network until its DEL:
\* veth, host route and rules are not taken away by the ADD or DEL, complete or
\* not, of any other sandbox, of the same pod name or with the same address
\* before it.
PodWired ==
  \A s \in Sandbox : pc[s] = "up" =>
    /\ lease[s] = addr[s]
    /\ hostVeth[PodOf[s]] = s
    /\ hostRoute[addr[s]] = s
    /\ addr[s] \in toRule
    /\ table[s] > 0 => \A d \in Dst : Contains(fromRule[addr[s]][d], table[s])

\* "Each ENI has its own route table which is used to route pod's outgoing
\* traffic, where pod is allocated with one of the ENI's secondary IP address"
\* (docs/cni-proposal.md:105): the first rule from the pod's address is the one
\* that its own ADD put there.  If EC2 moves addresses, as long as nothing fails.
LeavesByItsENI ==
  conditions.faults = {"moves"} \/ ~AddressesMove => \A s \in Sandbox, d \in Dst : pc[s] = "up" =>
    LET tables == fromRule[addr[s]][d]
    IN  IF table[s] > 0 THEN tables # <<>> /\ Head(tables) = table[s] ELSE tables = <<>>

\* If no call fails and no process dies, the kernel has a rule or a route for an
\* address only while a sandbox holds it, or its DEL is not through.
KernelMatchesPods ==
  conditions.faults \subseteq {"moves"} => \A ip \in IP :
    \/ ip \notin toRule /\ hostRoute[ip] = NoSandbox /\ \A d \in Dst : fromRule[ip][d] = <<>>
    \/ \E s \in Sandbox : addr[s] = ip /\ pc[s] \in Adding \cup Deleting \cup {"up"}

\* An address given to a sandbox whose ADD then failed, wherever it failed, goes
\* back to the pool: DEL of a failed sandbox releases it, and it is not left cooling.
FailedAddGivesBack ==
  \A ip \in IP :
    (\E s \in Sandbox : lease[s] = ip /\ pc[s] = "failed") ~> ip \notin cooling \cup Leased

=============================================================================
