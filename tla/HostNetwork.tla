---------------------------- MODULE HostNetwork ----------------------------
(***************************************************************************)
(* pkg/networkutils: the node's iptables and the pods' "from" rules as     *)
(* nodeInit brings them to the configuration, over restarts that may       *)
(* change it.  SetupHostNetwork lists the rules there are, appends the     *)
(* wanted ones and then deletes the stale ones, one iptables call at a     *)
(* time, and gives up at the first error; UpdateRuleListBySrc replaces the *)
(* rules of each running pod.                                              *)
(*                                                                         *)
(* SNAT: AWS-SNAT-CHAIN-i sends a packet on to chain i + 1 unless its      *)
(* destination is in the i-th CIDR, and the last chain translates it.  A   *)
(* rule is a tuple of its chain and what it says; no chain ever has the    *)
(* same rule twice, as Append follows a failed Exists.  CIDRs are disjoint *)
(* and stand for one destination each.  All rules of a pod name its ENI's  *)
(* table.                                                                  *)
(***************************************************************************)
EXTENDS Integers, Sequences, Functions

CONSTANTS
  CIDR,
  Invalid,          \* an item of a list that is not a CIDR
  Internet,         \* a destination outside of every CIDR
  Env,              \* configurations that the agent may be started with
  InitialEnv,
  HasRandomFully,   \* does iptables know --random-fully?
  primaryIntf,      \* name of the interface with the primary ENI's MAC address
  Mark,             \* connection marks that getConnmark accepts
  defaultConnmark,
  Pod               \* pods on a secondary ENI

AnyDst      == "any"   \* destination of a rule that names none
POSTROUTING == -1      \* the chains are the AWS-SNAT-CHAINs' numbers and these two
PREROUTING  == -2
SNATType    == {"sequential", "--random", "--random-fully"}   \* flag of a SNAT rule

\* A VPC has at least one CIDR.
ASSUME HostNetworkAssumption ==
  /\ AnyDst \notin CIDR \cup {Internet} /\ Internet \notin CIDR /\ Invalid \notin CIDR
  /\ CIDR \cap SNATType = {}
  /\ InitialEnv \in Env /\ defaultConnmark \in Mark
  /\ \A e \in Env :
       /\ e.vpcCIDRs \in Seq(CIDR) \ {<<>>} /\ e.EXCLUDE_SNAT_CIDRS \in Seq(CIDR \cup {Invalid})
       /\ {e.EXTERNALSNAT, e.NODE_PORT_SUPPORT, e.RANDOMIZESNAT} \subseteq STRING

VARIABLES
  RulesFail,        \* may a call that changes a pod's rules fail?  This does not change.
  env,              \* the environment of the running agent, and the VPC's CIDRs
  iptables,         \* set of rules
  ipRules,          \* the hostRule (before CNI 1.3) and mainENIRules, where they are
  podRules,         \* [Pod -> destinations of its "from" rules]
  pods,             \* running pods
  hostPC,           \* "rules", "chains", "iptables" (SetupHostNetwork), "pods", "up"
  iptableRules,     \* what SetupHostNetwork has yet to execute, numbered
  usedIPs           \* pods that nodeInit has yet to update

netVars == <<env, iptables, ipRules, podRules, pods, hostPC, iptableRules, usedIPs>>

-----------------------------------------------------------------------------
(* The configuration *)

\* What strconv.ParseBool takes, or the default.
getBoolEnvVar(v, default) ==
  IF v \in {"1", "t", "T", "TRUE", "true", "True"} THEN TRUE
  ELSE IF v \in {"0", "f", "F", "FALSE", "false", "False"} THEN FALSE
  ELSE default

useExternalSNAT(e)        == getBoolEnvVar(e.EXTERNALSNAT, FALSE)
nodePortSupportEnabled(e) == getBoolEnvVar(e.NODE_PORT_SUPPORT, TRUE)
getConnmark(e)            == IF e.CONNMARK \in Mark THEN e.CONNMARK ELSE defaultConnmark

\* The valid ones of a list's first items.
parsed(items) ==
  LET excludeCIDRs[n \in 0 .. Len(items)] ==
        IF n = 0 THEN <<>>
        ELSE IF items[n] = Invalid THEN excludeCIDRs[n - 1]
        ELSE Append(excludeCIDRs[n - 1], items[n])
  IN  excludeCIDRs[Len(items)]

getExcludeSNATCIDRs(e) == IF useExternalSNAT(e) THEN <<>> ELSE parsed(e.EXCLUDE_SNAT_CIDRS)

\* typeOfSNAT, and the flag SetupHostNetwork makes of it.
typeOfSNAT(e) ==
  IF e.RANDOMIZESNAT = "none" THEN "sequential"
  ELSE IF e.RANDOMIZESNAT = "prng" /\ HasRandomFully THEN "--random-fully"
  ELSE "--random"

allCIDRs(e) == e.vpcCIDRs \o getExcludeSNATCIDRs(e)

\* The SNAT rules of a configuration, in the order they are executed.
snatRules(e) ==
  LET cidrs == allCIDRs(e)
  IN  <<<<POSTROUTING, "AWS-SNAT-CHAIN-0">>>>
      \o [i \in 1 .. Len(cidrs) |-> <<i - 1, cidrs[i]>>]
      \o <<<<Len(cidrs), typeOfSNAT(e)>>>>

\* Its connmark rules: without NodePort support eth0 is taken for the interface.
connmarkRules(e) ==
  <<<<PREROUTING, IF nodePortSupportEnabled(e) THEN primaryIntf ELSE "eth0", getConnmark(e)>>,
    <<PREROUTING, "eni+", getConnmark(e)>>>>

hostRule       == <<"hostRule">>
mainENIRule(e) == <<"mainENIRule", getConnmark(e)>>

\* The pod's traffic that leaves by its own ENI: all of it, or that to the CIDRs.
fromRules(e) == IF useExternalSNAT(e) THEN {AnyDst} ELSE Range(allCIDRs(e))

SNATRule == Nat \X (CIDR \cup SNATType)

Marks == {getConnmark(e) : e \in Env}

Rule ==
  SNATRule
    \cup {<<POSTROUTING, "AWS-SNAT-CHAIN-0">>, <<POSTROUTING, "before 1.3">>}
    \cup ({PREROUTING} \X {primaryIntf, "eni+"} \X Marks)

HostNetworkTypeOK ==
  /\ env \in Env
  /\ iptables \subseteq Rule
  /\ ipRules \subseteq {hostRule} \cup {mainENIRule(e) : e \in Env}
  /\ pods \subseteq Pod /\ usedIPs \subseteq pods
  /\ podRules \in [Pod -> SUBSET (CIDR \cup {AnyDst})]
  /\ ~RulesFail => \A p \in Pod \ pods : podRules[p] = {}
  /\ hostPC \in {"rules", "chains", "iptables", "pods", "up"}
  /\ iptableRules \subseteq
       [no : Nat, rule : Rule \cup ({PREROUTING} \X {"eth0"} \X Marks), shouldExist : BOOLEAN]
  /\ iptableRules # {} => hostPC = "iptables"

\* A node that was set up by a version before 1.3, about to be set up by this one.
HostNetworkInit ==
  /\ RulesFail \in BOOLEAN
  /\ env = InitialEnv
  /\ iptables = {<<POSTROUTING, "before 1.3">>}
  /\ ipRules = {hostRule}
  /\ podRules = [p \in Pod |-> {}] /\ pods = {}
  /\ hostPC = "rules"
  /\ iptableRules = {} /\ usedIPs = {}

-----------------------------------------------------------------------------
(* SetupHostNetwork *)

\* The agent is started, as it was or otherwise.
start ==
  /\ env' \in Env
  /\ hostPC' = "rules"
  /\ iptableRules' = {} /\ usedIPs' = {}

\* A call fails, nodeInit returns the error and the agent ends; or it is killed.
setupFails ==
  /\ hostPC # "up"
  /\ start
  /\ UNCHANGED <<iptables, ipRules, podRules, pods>>

\* The ip rules and the reverse path filter.  When RuleAdd fails mainENIRule is gone.
hostRules ==
  /\ hostPC = "rules"
  /\ LET cleared == ipRules \ {hostRule, mainENIRule(env)}
     IN  \/ /\ ipRules' = IF nodePortSupportEnabled(env) THEN cleared \cup {mainENIRule(env)} ELSE cleared
            /\ hostPC' = "chains"
            /\ UNCHANGED <<env, iptableRules, usedIPs>>
         \/ /\ ipRules' \in {ipRules \ {hostRule}, cleared}
            /\ start
  /\ UNCHANGED <<iptables, podRules, pods>>

\* The rules of a list, numbered from the n-th on.
wants(rules, n, exist) ==
  {[no |-> n + i, rule |-> rules[i], shouldExist |-> exist] : i \in DOMAIN rules}

\* What is to be executed: the stale rules go in the order of the listing, any order.
plan(e, stale) ==
  LET new == snatRules(e)
      n   == Len(new)
  IN  wants(new, 0, ~useExternalSNAT(e))
        \cup {[no |-> n + 1, rule |-> r, shouldExist |-> FALSE] : r \in stale}
        \cup wants(connmarkRules(e), n + 1, nodePortSupportEnabled(e))
        \cup {[no |-> n + 4, rule |-> <<POSTROUTING, "before 1.3">>, shouldExist |-> FALSE]}

listCurrentSNATRules == iptables \cap SNATRule

\* A slip: the rules of a CIDR that went are deleted, old SNAT rules are not.
planRules_KeepsSNAT ==
  /\ hostPC = "chains"
  /\ iptableRules' =
       plan(env, {r \in listCurrentSNATRules \ Range(snatRules(env)) : r[2] \in CIDR})
  /\ hostPC' = "iptables"
  /\ UNCHANGED <<env, iptables, ipRules, podRules, pods, usedIPs>>

\* What there is, what is wanted, and so what is stale.
planRules ==
  /\ hostPC = "chains"
  /\ iptableRules' = plan(env, listCurrentSNATRules \ Range(snatRules(env)))
  /\ hostPC' = "iptables"
  /\ UNCHANGED <<env, iptables, ipRules, podRules, pods, usedIPs>>

\* Exists, then Append or Delete.
executeRule ==
  /\ hostPC = "iptables"
  /\ \E r \in iptableRules :
       /\ \A q \in iptableRules : r.no <= q.no
       /\ iptables' = IF r.shouldExist THEN iptables \cup {r.rule} ELSE iptables \ {r.rule}
       /\ iptableRules' = iptableRules \ {r}
  /\ UNCHANGED <<env, ipRules, podRules, pods, hostPC, usedIPs>>

\* nodeInit goes on to the running pods, unless GetRuleList fails.
SetupHostNetworkReturns ==
  /\ hostPC = "iptables"
  /\ iptableRules = {}
  /\ hostPC' = "pods"
  /\ usedIPs' = pods \/ (RulesFail /\ usedIPs' = {})
  /\ UNCHANGED <<env, iptables, ipRules, podRules, pods, iptableRules>>

-----------------------------------------------------------------------------
(* nodeInit's loop over the running pods *)

\* A slip: the rules are brought up to date only if there are too few of them.
UpdateRuleListBySrc_KeepsOld(p) ==
  /\ hostPC = "pods"
  /\ p \in usedIPs
  /\ podRules' = [podRules EXCEPT ![p] = IF @ = {} THEN {} ELSE @ \cup fromRules(env)]
  /\ usedIPs' = usedIPs \ {p}
  /\ UNCHANGED <<env, iptables, ipRules, pods, hostPC, iptableRules>>

\* UpdateRuleListBySrc deletes the pod's rules and adds the wanted ones; a pod
\* without any is left alone.  After an error, which is logged, some of the old
\* rules are left or some of the new ones are there.
UpdateRuleListBySrc(p) ==
  /\ hostPC = "pods"
  /\ p \in usedIPs
  /\ LET old == podRules[p]
         new == fromRules(env)
     IN  \/ podRules' = [podRules EXCEPT ![p] = IF old = {} THEN {} ELSE new]
         \/ /\ RulesFail /\ old # {}
            /\ \E left \in (SUBSET old \ {{}}) \cup (SUBSET new \ {new}) :
                 podRules' = [podRules EXCEPT ![p] = left]
  /\ usedIPs' = usedIPs \ {p}
  /\ UNCHANGED <<env, iptables, ipRules, pods, hostPC, iptableRules>>

serve ==
  /\ hostPC = "pods"
  /\ usedIPs = {}
  /\ hostPC' = "up"
  /\ UNCHANGED <<env, iptables, ipRules, podRules, pods, iptableRules, usedIPs>>

-----------------------------------------------------------------------------
(* The CNI plugin, and restarts *)

\* SetupNS with the CIDRs and the SNAT setting of the agent's reply; what an earlier
\* pod has left under the address stays.
addPod(p) ==
  /\ hostPC = "up"
  /\ p \notin pods
  /\ pods' = pods \cup {p}
  /\ podRules' = [podRules EXCEPT ![p] = @ \cup fromRules(env)]
  /\ UNCHANGED <<env, iptables, ipRules, hostPC, iptableRules, usedIPs>>

\* A slip: one rule is deleted, not all.
delPod_FirstRule(p) ==
  /\ hostPC = "up"
  /\ p \in pods
  /\ pods' = pods \ {p}
  /\ \E d \in podRules[p] : podRules' = [podRules EXCEPT ![p] = @ \ {d}]
  /\ UNCHANGED <<env, iptables, ipRules, hostPC, iptableRules, usedIPs>>

\* TeardownNS: DeleteRuleListBySrc, which stops at the first error.
delPod(p) ==
  /\ hostPC = "up"
  /\ p \in pods
  /\ pods' = pods \ {p}
  /\ \E left \in IF RulesFail THEN SUBSET podRules[p] ELSE {{}} :
       podRules' = [podRules EXCEPT ![p] = left]
  /\ UNCHANGED <<env, iptables, ipRules, hostPC, iptableRules, usedIPs>>

restart ==
  /\ hostPC = "up"
  /\ start
  /\ UNCHANGED <<iptables, ipRules, podRules, pods>>

HostNetworkNext ==
  \/ hostRules \/ planRules \/ executeRule \/ SetupHostNetworkReturns \/ setupFails
  \/ serve \/ restart
  \/ \E p \in Pod : UpdateRuleListBySrc(p) \/ addPod(p) \/ delPod(p)

HostNetworkSpec == HostNetworkInit /\ [][HostNetworkNext /\ UNCHANGED RulesFail]_<<netVars, RulesFail>>

-----------------------------------------------------------------------------
(* Properties *)

\* Does the node translate the source of a pod's packets to d?  A packet goes on to
\* the next chain by any of a chain's rules that lets it.
SNATed(d) ==
  /\ <<POSTROUTING, "AWS-SNAT-CHAIN-0">> \in iptables
  /\ \E r \in iptables \cap SNATRule :
       /\ r[2] \in SNATType
       /\ \A i \in 0 .. r[1] - 1 : \E c \in CIDR \ {d} : <<i, c>> \in iptables

\* Do they leave by the pod's ENI?
usesENI(p, d) == podRules[p] \cap {d, AnyDst} # {}

\* The rules that belong to a configuration.
wantedRules(e) ==
  (IF useExternalSNAT(e) THEN {} ELSE Range(snatRules(e)))
    \cup (IF nodePortSupportEnabled(e) THEN Range(connmarkRules(e)) ELSE {})

\* Connmark rules that a start with another mark made, or one that found the primary
\* interface by its MAC address: SetupHostNetwork deletes those of its own mark only,
\* and without NodePort support that of eth0.
outOfReach(e) ==
  ({PREROUTING} \X {primaryIntf, "eni+"} \X (Marks \ {getConnmark(e)}))
    \cup (IF primaryIntf = "eth0" THEN {} ELSE {<<PREROUTING, primaryIntf, getConnmark(e)>>})

\* When SetupHostNetwork returns without error, the node has the rules of the
\* configuration, whatever was there before: other configurations, other CIDRs in
\* other places, set-ups that were cut short.  Of the rules that are not wanted it has
\* only those out of reach.  Of the ip rules it has the mainENIRule of the mark
\* exactly with NodePort support, and not the one from before 1.3.
RulesAsConfigured ==
  hostPC \in {"pods", "up"} =>
    /\ wantedRules(env) \subseteq iptables
    /\ iptables \ wantedRules(env) \subseteq outOfReach(env)
    /\ hostRule \notin ipRules
    /\ mainENIRule(env) \in ipRules <=> nodePortSupportEnabled(env)

\* A served node either sends a pod's packet by the pod's own ENI with the pod's
\* address, or by the primary ENI with the node's; the other two ways the VPC or the
\* peer drops it.  iptables and the pods' rules are changed by different code and
\* outlive the configuration they were made for: "Update ip rules in case there is
\* a change in VPC CIDRs, AWS_VPC_K8S_CNI_EXTERNALSNAT setting" (ipamd.go:358).  Not
\* where UpdateRuleListBySrc fails: nodeInit logs it and goes on.
SourceFitsENI ==
  hostPC = "up" /\ ~RulesFail => \A p \in pods, d \in CIDR \cup {Internet} : usesENI(p, d) <=> ~SNATed(d)

\* "Specify a comma separated list of IPv4 CIDRs to exclude from SNAT" (README.md:157):
\* no step begins to translate what the configuration excludes.
ExcludedStaysExcluded ==
  [][\A c \in Range(getExcludeSNATCIDRs(env')) : SNATed(c)' => SNATed(c)]_netVars

\* "envNodePortSupport ... configures whether we implement support for NodePorts on
\* the primary ENI.  This requires that we add additional iptables rules"
\* (network.go:72): without it a node that is set up has none of them.
NodePortRulesGone ==
  hostPC = "up" /\ ~nodePortSupportEnabled(env) => \A r \in iptables : r[1] # PREROUTING

=============================================================================
