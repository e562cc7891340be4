---------------------------- MODULE NetworkProofs ---------------------------
(***************************************************************************)
(* Proofs about the host's network: HostNetwork, ENINetwork and ENIConfig. *)
(*                                                                         *)
(* HostNetwork: what SetupHostNetwork leaves behind, from any number of    *)
(* earlier set-ups, and that the pods' rules fit it.  While the rules are  *)
(* executed the argument is about what is yet to be done: every call       *)
(* pending does what the configuration wants of its rule, every rule that  *)
(* is there and not wanted has such a call, and so has every rule that is  *)
(* wanted and not there.  The order of the calls plays no part in it.      *)
(*                                                                         *)
(* ENINetwork: a set-up of an ENI's network that ends without error is     *)
(* complete, for any numbers of attempts, tries and failures.  What is set *)
(* up at the end does not follow from the end alone: Progress says what    *)
(* each call of setupENINetwork may rely on; stepsLeft, how far it has to  *)
(* go.                                                                     *)
(*                                                                         *)
(* ENIConfig: the controller's cache is current, for any number of         *)
(* ENIConfigs, nodes and changes.  CacheIsCurrent is inductive together    *)
(* with the types.                                                         *)
(***************************************************************************)
EXTENDS HostNetwork, ENINetwork, ENIConfig, TLAPS, WellFoundedInduction

-----------------------------------------------------------------------------
(* Induction, as a statement about sets *)

\* A set of naturals that is not empty has a least element.
LEMMA LeastNatural ==
  ASSUME NEW T, T \subseteq Nat, T # {}
  PROVE  \E n \in T : \A m \in T : n <= m
<1> DEFINE R == OpToRel(<, Nat)
<1>1. IsWellFoundedOn(R, Nat)
  BY NatLessThanWellFounded, Zenon
<1>2. ASSUME NEW m \in Nat, NEW n \in Nat, m < n
      PROVE  <<m, n>> \in R
  BY <1>2, Zenon DEF OpToRel
<1> HIDE DEF R
<1>3. PICK n \in T : \A m \in T : ~(<<m, n>> \in R)
  BY <1>1, WFMin, Zenon
<1>4. \A m \in T : ~(m < n)
  BY <1>2, <1>3, Zenon
<1> QED
  BY <1>4

\* A set that has 0, and the successor of what it has, has all naturals.
LEMMA NatSetInduction ==
  ASSUME NEW S, 0 \in S, \A n \in Nat : n \in S => n + 1 \in S
  PROVE  Nat \subseteq S
<1> SUFFICES ASSUME Nat \ S # {}
             PROVE  FALSE
  OBVIOUS
<1>1. PICK n \in Nat \ S : \A m \in Nat \ S : n <= m
  BY LeastNatural, Zenon
<1> QED
  BY <1>1

-----------------------------------------------------------------------------
(* What the configuration says *)

\* Parsing a list of CIDRs drops what is not one and keeps nothing else.
LEMMA ParsedType ==
  ASSUME NEW items \in Seq(CIDR \cup {Invalid})
  PROVE  parsed(items) \in Seq(CIDR)
<1> DEFINE Step(n, s) == IF items[n] = Invalid THEN s ELSE Append(s, items[n])
           Def(k, g) == g = [n \in 0 .. k |-> IF n = 0 THEN <<>> ELSE Step(n, g[n - 1])]
           S == {k \in Nat : \E g : Def(k, g)}
           cidrs == CHOOSE g : Def(Len(items), g)
           T == {n \in Nat : n <= Len(items) => cidrs[n] \in Seq(CIDR)}
<1>1. 0 \in S
  <2>1. Def(0, [n \in 0 .. 0 |-> <<>>])
    OBVIOUS
  <2> QED
    BY <2>1, Zenon
<1>2. ASSUME NEW k \in Nat, k \in S
      PROVE  k + 1 \in S
  <2> HIDE DEF Step
  <2>1. PICK g : Def(k, g)
    BY <1>2
  <2> DEFINE h == [n \in 0 .. k + 1 |-> IF n = k + 1 THEN Step(k + 1, g[k]) ELSE g[n]]
  <2>2. Def(k + 1, h)
    BY <2>1
  <2> HIDE DEF Def
  <2> QED
    BY <2>2
<1>3. Def(Len(items), cidrs)
  <2>1. Len(items) \in S
    <3> HIDE DEF S
    <3> QED
      BY <1>1, <1>2, NatSetInduction
  <2> HIDE DEF Def
  <2> QED
    BY <2>1
<1>4. parsed(items) = cidrs[Len(items)]
  BY Zenon DEF parsed
<1> HIDE DEF cidrs
<1>5. 0 \in T
  BY <1>3
<1>6. ASSUME NEW n \in Nat, n \in T
      PROVE  n + 1 \in T
  <2> SUFFICES ASSUME n + 1 <= Len(items)
               PROVE  cidrs[n + 1] \in Seq(CIDR)
    OBVIOUS
  <2>1. cidrs[n] \in Seq(CIDR)
    BY <1>6
  <2>2. cidrs[n + 1] = Step(n + 1, cidrs[n])
    <3> HIDE DEF Step
    <3> QED
      BY <1>3
  <2> QED
    BY <2>1, <2>2
<1>7. Len(items) \in T
  <2> HIDE DEF T
  <2> QED
    BY <1>5, <1>6, NatSetInduction
<1> QED
  BY <1>4, <1>7

\* A configuration names at least one CIDR, and only CIDRs.
LEMMA AllCIDRsType ==
  ASSUME NEW e \in Env
  PROVE  allCIDRs(e) \in Seq(CIDR) /\ Len(allCIDRs(e)) \in Nat \ {0}
<1>1. getExcludeSNATCIDRs(e) \in Seq(CIDR)
  BY ParsedType, HostNetworkAssumption DEF getExcludeSNATCIDRs
<1>2. e.vpcCIDRs \in Seq(CIDR) /\ e.vpcCIDRs # <<>>
  BY HostNetworkAssumption
<1> QED
  BY <1>1, <1>2 DEF allCIDRs

LEMMA TypeOfSNAT == ASSUME NEW e PROVE typeOfSNAT(e) \in SNATType
  BY DEF typeOfSNAT, SNATType

\* The SNAT rules of a configuration: the jump, one rule per CIDR, and the last one.
LEMMA SNATRules ==
  ASSUME NEW e \in Env
  PROVE  LET cidrs == allCIDRs(e)
         IN  Range(snatRules(e)) =
               {<<POSTROUTING, "AWS-SNAT-CHAIN-0">>}
                 \cup {<<i - 1, cidrs[i]>> : i \in 1 .. Len(cidrs)}
                 \cup {<<Len(cidrs), typeOfSNAT(e)>>}
<1> DEFINE cidrs == allCIDRs(e)
           k == Len(cidrs)
           jump == <<POSTROUTING, "AWS-SNAT-CHAIN-0">>
           perCIDR == [i \in 1 .. k |-> <<i - 1, cidrs[i]>>]
           last == <<k, typeOfSNAT(e)>>
           rules == <<jump>> \o perCIDR \o <<last>>
<1>1. cidrs \in Seq(CIDR) /\ k \in Nat
  BY AllCIDRsType
<1>2. snatRules(e) = rules
  BY DEF snatRules
<1> HIDE DEF cidrs
<1> DEFINE A == {jump} \cup {<<i - 1, cidrs[i]>> : i \in 1 .. k} \cup {last}
<1>3. /\ DOMAIN rules = 1 .. k + 2
      /\ rules[1] = jump /\ rules[k + 2] = last
      /\ \A i \in 1 .. k : rules[i + 1] = <<i - 1, cidrs[i]>>
  <2> HIDE DEF jump, last
  <2>1. perCIDR \in Seq(Nat \X CIDR) /\ Len(perCIDR) = k
    BY <1>1
  <2>2. \A i \in 1 .. k : perCIDR[i] = <<i - 1, cidrs[i]>>
    OBVIOUS
  <2> HIDE DEF perCIDR, k
  <2> QED
    BY <1>1, <2>1, <2>2
<1> HIDE DEF rules, jump, last, k
<1>4. Range(rules) = {rules[i] : i \in 1 .. k + 2}
  BY <1>3 DEF Range
<1>5. ASSUME NEW i \in 1 .. k + 2
      PROVE  rules[i] \in A
  <2>1. CASE i \in 2 .. k + 1
    <3>1. i - 1 \in 1 .. k /\ (i - 1) + 1 = i
      BY <1>1, <2>1
    <3> QED
      BY <1>3, <3>1, Zenon
  <2> QED
    BY <1>1, <1>3, <2>1
<1>6. ASSUME NEW i \in 1 .. k
      PROVE  <<i - 1, cidrs[i]>> \in Range(rules)
  BY <1>1, <1>3, <1>4
<1>7. jump \in Range(rules) /\ last \in Range(rules)
  BY <1>1, <1>3, <1>4
<1>8. Range(rules) = A
  BY <1>4, <1>5, <1>6, <1>7, Zenon
<1> QED
  BY <1>2, <1>8 DEF cidrs, jump, last, k

LEMMA ConnmarkRules ==
  ASSUME NEW e
  PROVE  Range(connmarkRules(e)) =
           {<<PREROUTING, IF nodePortSupportEnabled(e) THEN primaryIntf ELSE "eth0", getConnmark(e)>>,
            <<PREROUTING, "eni+", getConnmark(e)>>}
<1> DEFINE a == <<PREROUTING, IF nodePortSupportEnabled(e) THEN primaryIntf ELSE "eth0", getConnmark(e)>>
           b == <<PREROUTING, "eni+", getConnmark(e)>>
<1>1. connmarkRules(e) = <<a, b>>
  BY DEF connmarkRules
<1> HIDE DEF a, b
<1>2. Range(<<a, b>>) = {a, b}
  BY DEF Range
<1> QED
  BY <1>1, <1>2 DEF a, b

\* The mark rules that a configuration may find.
MarkRule == {PREROUTING} \X {primaryIntf, "eni+"} \X Marks

LEMMA MarkRules ==
  /\ \A r \in MarkRule : r[1] = PREROUTING /\ r = <<PREROUTING, r[2], r[3]>>
                          /\ r[2] \in {primaryIntf, "eni+"} /\ r[3] \in Marks
  /\ \A i \in {primaryIntf, "eni+"}, m \in Marks : <<PREROUTING, i, m>> \in MarkRule
  BY DEF MarkRule

\* What is out of reach is a mark rule, of another mark or of the primary interface.
LEMMA OutOfReach ==
  ASSUME NEW e \in Env, NEW r
  PROVE  /\ r \in outOfReach(e) => r[1] = PREROUTING
         /\ r \in MarkRule => (r \in outOfReach(e) <=>
              r[3] # getConnmark(e) \/ (r[2] = primaryIntf /\ primaryIntf # "eth0"))
<1>1. ASSUME r \in outOfReach(e) PROVE r[1] = PREROUTING
  BY <1>1 DEF outOfReach
<1>2. ASSUME r \in MarkRule
      PROVE  r \in outOfReach(e) <=>
               r[3] # getConnmark(e) \/ (r[2] = primaryIntf /\ primaryIntf # "eth0")
  <2>1. r = <<PREROUTING, r[2], r[3]>> /\ r[2] \in {primaryIntf, "eni+"} /\ r[3] \in Marks
    BY <1>2, MarkRules, Zenon
  <2> DEFINE P == {PREROUTING} \X {primaryIntf, "eni+"} \X (Marks \ {getConnmark(e)})
  <2>2. r \in P <=> r[3] # getConnmark(e)
    BY <2>1
  <2>3. r = <<PREROUTING, primaryIntf, getConnmark(e)>> <=> r[2] = primaryIntf /\ r[3] = getConnmark(e)
    BY <2>1
  <2> HIDE DEF P
  <2>4. outOfReach(e) = P \cup (IF primaryIntf = "eth0" THEN {} ELSE {<<PREROUTING, primaryIntf, getConnmark(e)>>})
    BY Zenon DEF outOfReach, P
  <2> QED
    BY <2>2, <2>3, <2>4
<1> QED
  BY <1>1, <1>2

\* Rules of different kinds differ in their chain.
LEMMA KindsOfRules ==
  ASSUME NEW e \in Env
  PROVE  /\ Range(snatRules(e)) \subseteq SNATRule \cup {<<POSTROUTING, "AWS-SNAT-CHAIN-0">>}
         /\ Range(snatRules(e)) \cap Range(connmarkRules(e)) = {}
         /\ <<POSTROUTING, "before 1.3">> \notin Range(snatRules(e)) \cup Range(connmarkRules(e))
         /\ SNATRule \cap Range(connmarkRules(e)) = {}
<1> DEFINE cidrs == allCIDRs(e)
<1>1. cidrs \in Seq(CIDR) /\ Len(cidrs) \in Nat /\ typeOfSNAT(e) \in SNATType
  BY AllCIDRsType, TypeOfSNAT
<1>2. \A i \in 1 .. Len(cidrs) : i - 1 \in Nat /\ cidrs[i] \in CIDR
  BY <1>1
<1>3. Range(snatRules(e)) = {<<POSTROUTING, "AWS-SNAT-CHAIN-0">>}
                              \cup {<<i - 1, cidrs[i]>> : i \in 1 .. Len(cidrs)}
                              \cup {<<Len(cidrs), typeOfSNAT(e)>>}
  BY SNATRules
<1> HIDE DEF cidrs
<1>4. Range(snatRules(e)) \subseteq SNATRule \cup {<<POSTROUTING, "AWS-SNAT-CHAIN-0">>}
  BY <1>1, <1>2, <1>3 DEF SNATRule
<1>5. \A r \in SNATRule : r[1] \in Nat
  BY DEF SNATRule
<1>6. \A r \in Range(connmarkRules(e)) : r[1] = PREROUTING
  BY ConnmarkRules
<1>7. <<POSTROUTING, "before 1.3">> # <<POSTROUTING, "AWS-SNAT-CHAIN-0">>
  OBVIOUS
<1>8. POSTROUTING \notin Nat /\ PREROUTING \notin Nat /\ POSTROUTING # PREROUTING
  BY DEF POSTROUTING, PREROUTING
<1>9. /\ <<POSTROUTING, "before 1.3">>[1] = POSTROUTING
      /\ <<POSTROUTING, "AWS-SNAT-CHAIN-0">>[1] = POSTROUTING
  OBVIOUS
<1> HIDE DEF POSTROUTING, PREROUTING
<1> QED
  BY <1>4, <1>5, <1>6, <1>7, <1>8, <1>9, Zenon

\* A configuration wants only rules of the four kinds, and none of those before 1.3.
LEMMA WantedRules ==
  ASSUME NEW e \in Env
  PROVE  wantedRules(e) \subseteq Rule /\ <<POSTROUTING, "before 1.3">> \notin wantedRules(e)
<1>1. getConnmark(e) \in Marks
  BY Zenon DEF Marks
<1>2. nodePortSupportEnabled(e) => Range(connmarkRules(e)) \subseteq MarkRule
  BY <1>1, ConnmarkRules, MarkRules, Zenon
<1> QED
  BY <1>2, KindsOfRules, Zenon DEF wantedRules, Rule, MarkRule

\* The pods' rules of a configuration: one for every destination, or some for CIDRs.
LEMMA FromRules ==
  ASSUME NEW e \in Env
  PROVE  fromRules(e) # {} /\ fromRules(e) \subseteq CIDR \cup {AnyDst}
  BY AllCIDRsType DEF fromRules, Range

-----------------------------------------------------------------------------
(* The plan of SetupHostNetwork *)

LEMMA WantsRules ==
  ASSUME NEW rules, NEW n, NEW exist
  PROVE  /\ \A q \in wants(rules, n, exist) : q.rule \in Range(rules) /\ q.shouldExist = exist
         /\ \A r \in Range(rules) : \E q \in wants(rules, n, exist) : q.rule = r
<1> DEFINE call(i) == [no |-> n + i, rule |-> rules[i], shouldExist |-> exist]
<1>1. wants(rules, n, exist) = {call(i) : i \in DOMAIN rules} /\ Range(rules) = {rules[i] : i \in DOMAIN rules}
  BY DEF wants, Range
<1>2. ASSUME NEW i \in DOMAIN rules
      PROVE  call(i).rule = rules[i] /\ call(i).shouldExist = exist
  OBVIOUS
<1> HIDE DEF call
<1> QED
  BY <1>1, <1>2

\* Each pending call does what the configuration wants; and what is wrong with
\* iptables has its call.
PlanCovers(calls, rules, e) ==
  /\ \A q \in calls : q.shouldExist <=> q.rule \in wantedRules(e)
  /\ \A r \in rules \ wantedRules(e) : r \in outOfReach(e) \/ \E q \in calls : q.rule = r
  /\ \A r \in wantedRules(e) \ rules : \E q \in calls : q.rule = r

\* The plan covers all of the difference, whatever rules there are.
LEMMA PlanCoversAll ==
  ASSUME NEW e \in Env, NEW rules, rules \subseteq Rule
  PROVE  PlanCovers(plan(e, (rules \cap SNATRule) \ Range(snatRules(e))), rules, e)
<1> DEFINE new    == snatRules(e)
           n      == Len(new)
           stale  == (rules \cap SNATRule) \ Range(new)
           snat   == wants(new, 0, ~useExternalSNAT(e))
           call(r) == [no |-> n + 1, rule |-> r, shouldExist |-> FALSE]
           clear  == {call(r) : r \in stale}
           mark   == wants(connmarkRules(e), n + 1, nodePortSupportEnabled(e))
           old    == <<POSTROUTING, "before 1.3">>
           before == {[no |-> n + 4, rule |-> old, shouldExist |-> FALSE]}
           calls  == snat \cup clear \cup mark \cup before
<1>1. plan(e, stale) = calls
  BY DEF plan
<1>2. useExternalSNAT(e) \in BOOLEAN /\ nodePortSupportEnabled(e) \in BOOLEAN
  BY DEF useExternalSNAT, nodePortSupportEnabled, getBoolEnvVar
<1>4. /\ \A q \in snat : q.rule \in Range(new) /\ q.shouldExist = ~useExternalSNAT(e)
      /\ \A r \in Range(new) : \E q \in snat : q.rule = r
  BY WantsRules
<1>5. /\ \A q \in mark : q.rule \in Range(connmarkRules(e)) /\ q.shouldExist = nodePortSupportEnabled(e)
      /\ \A r \in Range(connmarkRules(e)) : \E q \in mark : q.rule = r
  BY WantsRules
<1>6. /\ \A q \in before : q.rule = old /\ q.shouldExist = FALSE
      /\ \E q \in before : q.rule = old
  <2> HIDE DEF old, n
  <2> QED
    OBVIOUS
<1>7. /\ \A q \in clear : q.rule \in stale /\ q.shouldExist = FALSE
      /\ \A r \in stale : \E q \in clear : q.rule = r
  <2>1. \A r \in stale : call(r).rule = r /\ call(r).shouldExist = FALSE
    OBVIOUS
  <2> HIDE DEF call, stale
  <2> QED
    BY <2>1
<1> HIDE DEF snat, clear, mark, before, n
<1>8. \A q \in calls : q.shouldExist <=> q.rule \in wantedRules(e)
  <2> SUFFICES ASSUME NEW q \in calls
               PROVE  q.shouldExist <=> q.rule \in wantedRules(e)
    OBVIOUS
  <2>1. CASE q \in snat
    BY <2>1, <1>2, <1>4, KindsOfRules, Zenon DEF wantedRules
  <2>2. CASE q \in clear
    BY <2>2, <1>7, KindsOfRules, Zenon DEF wantedRules
  <2>3. CASE q \in mark
    BY <2>3, <1>2, <1>5, KindsOfRules, Zenon DEF wantedRules
  <2>4. CASE q \in before
    BY <2>4, <1>6, KindsOfRules, Zenon DEF wantedRules
  <2> QED
    BY <2>1, <2>2, <2>3, <2>4
<1>9. ASSUME NEW r \in rules \ wantedRules(e), r \notin outOfReach(e)
      PROVE  \E q \in calls : q.rule = r
  <2>1. CASE r \in SNATRule
    BY <2>1, <1>4, <1>7, Zenon
  <2>2. CASE r = <<POSTROUTING, "AWS-SNAT-CHAIN-0">>
    BY <2>2, <1>4, SNATRules
  <2>3. CASE r = <<POSTROUTING, "before 1.3">>
    BY <2>3, <1>6, Zenon
  <2>4. CASE r \in MarkRule
    <3>1. r = <<PREROUTING, r[2], r[3]>> /\ r[2] \in {primaryIntf, "eni+"}
      BY <2>4, MarkRules, Zenon
    <3>2. r[3] = getConnmark(e) /\ (r[2] = primaryIntf => primaryIntf = "eth0")
      BY <1>9, <2>4, OutOfReach, Zenon
    <3>3. r \in Range(connmarkRules(e))
      BY <3>1, <3>2, ConnmarkRules, Zenon
    <3> QED
      BY <1>5, <3>3, Zenon
  <2> QED
    BY <2>1, <2>2, <2>3, <2>4, Zenon DEF Rule, MarkRule
<1>10. ASSUME NEW r \in wantedRules(e) \ rules
       PROVE  \E q \in calls : q.rule = r
  BY <1>4, <1>5 DEF wantedRules
<1> QED
  BY <1>1, <1>8, <1>9, <1>10, Zenon DEF PlanCovers

\* The calls of a plan are numbered and about rules.
LEMMA PlanType ==
  ASSUME NEW e \in Env, NEW stale, stale \subseteq SNATRule
  PROVE  plan(e, stale) \subseteq
           [no : Nat, rule : Rule \cup ({PREROUTING} \X {"eth0"} \X Marks), shouldExist : BOOLEAN]
<1> DEFINE new  == snatRules(e)
           n    == Len(new)
           R    == Rule \cup ({PREROUTING} \X {"eth0"} \X Marks)
           Call == [no : Nat, rule : R, shouldExist : BOOLEAN]
<1>1. useExternalSNAT(e) \in BOOLEAN /\ nodePortSupportEnabled(e) \in BOOLEAN
  BY DEF useExternalSNAT, nodePortSupportEnabled, getBoolEnvVar
<1>2. new \in Seq(R) /\ n \in Nat
  <2> DEFINE cidrs == allCIDRs(e)
             perCIDR == [i \in 1 .. Len(cidrs) |-> <<i - 1, cidrs[i]>>]
  <2>1. cidrs \in Seq(CIDR) /\ Len(cidrs) \in Nat
    BY AllCIDRsType
  <2> HIDE DEF cidrs
  <2>2. perCIDR \in Seq(R)
    <3>1. \A i \in 1 .. Len(cidrs) : <<i - 1, cidrs[i]>> \in SNATRule
      BY <2>1 DEF SNATRule
    <3>2. SNATRule \subseteq R
      BY Zenon DEF Rule
    <3> HIDE DEF R
    <3>3. perCIDR \in [1 .. Len(cidrs) -> R]
      BY <3>1, <3>2
    <3> QED
      BY <2>1, <3>3
  <2>3. <<POSTROUTING, "AWS-SNAT-CHAIN-0">> \in R /\ <<Len(cidrs), typeOfSNAT(e)>> \in R
    BY <2>1, TypeOfSNAT, Zenon DEF Rule, SNATRule
  <2> HIDE DEF perCIDR, R
  <2>4. <<<<POSTROUTING, "AWS-SNAT-CHAIN-0">>>> \o perCIDR \o <<<<Len(cidrs), typeOfSNAT(e)>>>> \in Seq(R)
    BY <2>2, <2>3
  <2> QED
    BY <2>4 DEF snatRules, cidrs, perCIDR
<1>3. connmarkRules(e) \in Seq(R)
  <2> DEFINE m == getConnmark(e)
             i == IF nodePortSupportEnabled(e) THEN primaryIntf ELSE "eth0"
  <2>1. m \in Marks
    BY Zenon DEF Marks
  <2> HIDE DEF m
  <2>2. <<PREROUTING, "eni+", m>> \in R /\ <<PREROUTING, i, m>> \in R
    BY <2>1 DEF Rule
  <2> HIDE DEF R, i
  <2>3. <<<<PREROUTING, i, m>>, <<PREROUTING, "eni+", m>>>> \in Seq(R)
    BY <2>2
  <2> QED
    BY <2>3, Zenon DEF connmarkRules, m, i
<1>4. <<POSTROUTING, "before 1.3">> \in R /\ stale \subseteq R
  BY Zenon DEF Rule
<1> HIDE DEF R, n, new
<1>5. ASSUME NEW rules \in Seq(R), NEW k \in Nat, NEW exist \in BOOLEAN
      PROVE  wants(rules, k, exist) \subseteq Call
  BY DEF wants
<1>6. wants(new, 0, ~useExternalSNAT(e)) \subseteq Call
  BY <1>1, <1>2, <1>5, Zenon
<1>7. wants(connmarkRules(e), n + 1, nodePortSupportEnabled(e)) \subseteq Call
  BY <1>1, <1>2, <1>3, <1>5
<1>8. ASSUME NEW k \in Nat, NEW r \in R
      PROVE  [no |-> k, rule |-> r, shouldExist |-> FALSE] \in Call
  OBVIOUS
<1>9. {[no |-> n + 1, rule |-> r, shouldExist |-> FALSE] : r \in stale} \subseteq Call
  <2> HIDE DEF Call
  <2>1. n + 1 \in Nat
    BY <1>2
  <2> QED
    BY <1>4, <1>8, <2>1, Zenon
<1>10. [no |-> n + 4, rule |-> <<POSTROUTING, "before 1.3">>, shouldExist |-> FALSE] \in Call
  <2> HIDE DEF Call
  <2>1. n + 4 \in Nat
    BY <1>2
  <2> QED
    BY <1>4, <1>8, <2>1, Zenon
<1> QED
  BY <1>6, <1>7, <1>9, <1>10, Zenon DEF plan, n, new, R

-----------------------------------------------------------------------------
(* The inductive invariant *)

\* A pod's rules are those of the configuration once nodeInit has been at it, and
\* before that they are not none.
PodRulesInv ==
  ~RulesFail =>
    /\ \A p \in pods : podRules[p] # {}
    /\ hostPC \in {"pods", "up"} => \A p \in pods \ usedIPs : podRules[p] = fromRules(env)

\* The ip rules are there from SetupHostNetwork's first steps on.
IpRulesSet ==
  hostRule \notin ipRules /\ (mainENIRule(env) \in ipRules <=> nodePortSupportEnabled(env))

HostNetworkInv ==
  /\ HostNetworkTypeOK
  /\ hostPC # "rules" => IpRulesSet
  /\ hostPC = "iptables" => PlanCovers(iptableRules, iptables, env)
  /\ RulesAsConfigured
  /\ PodRulesInv
  /\ usedIPs # {} => hostPC = "pods"

LEMMA InitHostNetworkInv == HostNetworkInit => HostNetworkInv
  BY HostNetworkAssumption, Zenon
  DEF HostNetworkInit, HostNetworkInv, HostNetworkTypeOK, RulesAsConfigured, PodRulesInv, Rule

LEMMA NextHostNetworkInv ==
  ASSUME HostNetworkInv, HostNetworkNext, UNCHANGED RulesFail
  PROVE  HostNetworkInv'
<1> USE DEF HostNetworkInv, HostNetworkTypeOK
<1>1. CASE setupFails
  BY <1>1, Zenon DEF setupFails, start, RulesAsConfigured, PodRulesInv, IpRulesSet
<1>2. CASE hostRules
  <2>1. hostPC' \in {"rules", "chains"} /\ iptableRules' = {} /\ usedIPs' = {} /\ env' \in Env
    BY <1>2 DEF hostRules, start
  <2>2. /\ ipRules' \subseteq {hostRule} \cup {mainENIRule(e) : e \in Env}
        /\ hostPC' = "chains" => IpRulesSet'
    <3>1. hostRule # mainENIRule(env)
      BY DEF hostRule, mainENIRule
    <3>2. mainENIRule(env) \in {mainENIRule(e) : e \in Env}
      OBVIOUS
    <3>3. nodePortSupportEnabled(env) \in BOOLEAN
      BY Zenon DEF nodePortSupportEnabled, getBoolEnvVar
    <3> QED
      BY <1>2, <3>1, <3>2, <3>3, Zenon DEF hostRules, IpRulesSet, start
  <2> QED
    BY <1>2, <2>1, <2>2, Zenon DEF hostRules, RulesAsConfigured, PodRulesInv, IpRulesSet
<1>3. CASE planRules
  <2> USE DEF planRules
  <2>1. iptableRules' \subseteq
          [no : Nat, rule : Rule \cup ({PREROUTING} \X {"eth0"} \X Marks), shouldExist : BOOLEAN]
    BY <1>3, PlanType, Zenon DEF listCurrentSNATRules
  <2>2. PlanCovers(iptableRules', iptables', env')
    BY <1>3, PlanCoversAll, Zenon DEF listCurrentSNATRules
  <2> QED
    BY <1>3, <2>1, <2>2, Zenon DEF RulesAsConfigured, PodRulesInv, IpRulesSet
<1>4. CASE executeRule
  <2>1. PICK r \in iptableRules :
          /\ iptables' = IF r.shouldExist THEN iptables \cup {r.rule} ELSE iptables \ {r.rule}
          /\ iptableRules' = iptableRules \ {r}
    BY <1>4, Zenon DEF executeRule
  <2>2. UNCHANGED <<env, ipRules, podRules, pods, hostPC, usedIPs>> /\ hostPC = "iptables"
    BY <1>4, Zenon DEF executeRule
  <2>3. r.shouldExist <=> r.rule \in wantedRules(env)
    BY <2>2 DEF PlanCovers
  <2>4. iptables' \subseteq Rule
    BY <2>1, <2>3, WantedRules, Zenon
  <2>5. PlanCovers(iptableRules', iptables', env')
    BY <2>1, <2>2, <2>3, Zenon DEF PlanCovers
  <2> QED
    BY <2>1, <2>2, <2>4, <2>5 DEF RulesAsConfigured, PodRulesInv, IpRulesSet
<1>5. CASE SetupHostNetworkReturns
  <2>1. RulesAsConfigured'
    BY <1>5, Zenon DEF SetupHostNetworkReturns, RulesAsConfigured, PlanCovers, IpRulesSet
  <2> QED
    BY <1>5, <2>1, Zenon DEF SetupHostNetworkReturns, PodRulesInv, IpRulesSet
<1>6. CASE serve
  BY <1>6, Zenon DEF serve, RulesAsConfigured, PodRulesInv, IpRulesSet
<1>7. CASE restart
  BY <1>7, Zenon DEF restart, start, RulesAsConfigured, PodRulesInv, IpRulesSet
<1>8. ASSUME NEW p \in Pod, UpdateRuleListBySrc(p)
      PROVE  HostNetworkInv'
  <2> USE <1>8 DEF UpdateRuleListBySrc
  <2>1. fromRules(env) # {} /\ fromRules(env) \subseteq CIDR \cup {AnyDst}
    BY FromRules, Zenon
  <2>2. PICK left \in SUBSET (CIDR \cup {AnyDst}) : podRules' = [podRules EXCEPT ![p] = left]
    BY <2>1, Zenon
  <2>3. ~RulesFail /\ podRules[p] # {} => podRules'[p] = fromRules(env)
    BY Zenon
  <2>4. PodRulesInv'
    BY <2>1, <2>2, <2>3, Zenon DEF PodRulesInv
  <2> QED
    BY <2>2, <2>4, Zenon DEF RulesAsConfigured, IpRulesSet
<1>9. ASSUME NEW p \in Pod, addPod(p)
      PROVE  HostNetworkInv'
  <2>1. fromRules(env) # {} /\ fromRules(env) \subseteq CIDR \cup {AnyDst}
    BY FromRules, Zenon
  <2> QED
    BY <1>9, <2>1 DEF addPod, RulesAsConfigured, PodRulesInv, IpRulesSet
<1>10. ASSUME NEW p \in Pod, delPod(p)
       PROVE  HostNetworkInv'
  BY <1>10 DEF delPod, RulesAsConfigured, PodRulesInv, IpRulesSet
<1> QED
  BY <1>1, <1>2, <1>3, <1>4, <1>5, <1>6, <1>7, <1>8, <1>9, <1>10, Zenon DEF HostNetworkNext

\* The steps of the specification, with the variable that never changes.
LEMMA HostNetworkInvariance == HostNetworkSpec => []HostNetworkInv
<1>1. HostNetworkInv /\ UNCHANGED <<netVars, RulesFail>> => HostNetworkInv'
  BY DEF HostNetworkInv, HostNetworkTypeOK, RulesAsConfigured, PodRulesInv, IpRulesSet, netVars
<1>2. HostNetworkInv /\ [HostNetworkNext /\ UNCHANGED RulesFail]_<<netVars, RulesFail>> => HostNetworkInv'
  BY <1>1, NextHostNetworkInv
<1> QED
  BY InitHostNetworkInv, <1>2, PTL DEF HostNetworkSpec

-----------------------------------------------------------------------------
(* The theorems *)

\* The node's tables and the pods' rules keep their types: pending calls are about rules
\* of the known kinds, and where no call fails a pod that is gone has no rule
\* (DeleteRuleListBySrc deletes all of them, whatever configurations they are from).
THEOREM HostNetworkTypes == HostNetworkSpec => []HostNetworkTypeOK
  BY HostNetworkInvariance, PTL DEF HostNetworkInv

\* SetupHostNetwork, when it returns without error, has left the rules of the
\* configuration, for any configurations, CIDRs, marks and earlier set-ups, and beside
\* them only connmark rules of another mark or of a primary interface not called eth0.
THEOREM RulesFollowConfiguration == HostNetworkSpec => []RulesAsConfigured
  BY HostNetworkInvariance, PTL DEF HostNetworkInv

\* With the rules of a configuration the chains translate what no CIDR matches.
LEMMA TranslatedOutsideCIDRs ==
  ASSUME HostNetworkInv, hostPC = "up", NEW d
  PROVE  SNATed(d) <=> ~useExternalSNAT(env) /\ d \notin Range(allCIDRs(env))
<1> DEFINE cidrs == allCIDRs(env)
           k     == Len(cidrs)
           jump  == <<POSTROUTING, "AWS-SNAT-CHAIN-0">>
<1>1. env \in Env /\ wantedRules(env) \subseteq iptables /\ iptables \subseteq Rule
  BY Zenon DEF HostNetworkInv, HostNetworkTypeOK, RulesAsConfigured
<1>2. \A r \in iptables \ wantedRules(env) : r[1] = PREROUTING
  BY <1>1, OutOfReach, Zenon DEF HostNetworkInv, RulesAsConfigured
<1>3. cidrs \in Seq(CIDR) /\ k \in Nat \ {0} /\ typeOfSNAT(env) \in SNATType
  BY <1>1, AllCIDRsType, TypeOfSNAT, Zenon
<1>4. Range(snatRules(env)) = {jump} \cup {<<i - 1, cidrs[i]>> : i \in 1 .. k} \cup {<<k, typeOfSNAT(env)>>}
  BY <1>1, SNATRules, Zenon
<1>5. Range(cidrs) = {cidrs[i] : i \in 1 .. k} /\ \A i \in 1 .. k : cidrs[i] \in CIDR
  BY <1>3 DEF Range
<1> HIDE DEF cidrs, k
<1>6. CASE useExternalSNAT(env)
  <2>1. jump \notin wantedRules(env)
    BY <1>6, ConnmarkRules DEF wantedRules, POSTROUTING, PREROUTING
  <2>2. jump \notin iptables
    BY <1>2, <2>1 DEF POSTROUTING, PREROUTING
  <2> QED
    BY <1>6, <2>2 DEF SNATed
<1>7. CASE ~useExternalSNAT(env)
  <2>1. \A r \in iptables \ Range(snatRules(env)) : r[1] = PREROUTING
    BY <1>2, ConnmarkRules DEF wantedRules
  <2>2. Range(snatRules(env)) \subseteq iptables
    BY <1>1, <1>7, Zenon DEF wantedRules
  <2>3. ASSUME NEW r \in iptables, r[1] \in Nat
        PROVE  r = <<k, typeOfSNAT(env)>> \/ \E i \in 1 .. k : r = <<i - 1, cidrs[i]>>
    BY <1>4, <2>1, <2>3 DEF POSTROUTING, PREROUTING
  <2>4. ASSUME NEW i \in 1 .. k, NEW c \in CIDR
        PROVE  <<i - 1, c>> \in iptables <=> c = cidrs[i]
    <3>1. <<i - 1, cidrs[i]>> \in iptables
      BY <1>4, <2>2
    <3>2. ASSUME <<i - 1, c>> \in iptables PROVE c = cidrs[i]
      <4>1. <<i - 1, c>>[1] \in Nat
        BY <1>3
      <4>2. <<i - 1, c>> # <<k, typeOfSNAT(env)>>
        BY <1>3
      <4>3. PICK j \in 1 .. k : <<i - 1, c>> = <<j - 1, cidrs[j]>>
        BY <2>3, <3>2, <4>1, <4>2, Zenon
      <4> QED
        BY <1>3, <4>3
    <3> QED
      BY <3>1, <3>2, Zenon
  <2>5. ASSUME NEW r \in iptables, r[2] \in SNATType, r[1] \in Nat
        PROVE  r = <<k, typeOfSNAT(env)>>
    <3>1. \A i \in 1 .. k : cidrs[i] \notin SNATType
      BY <1>5, HostNetworkAssumption, Zenon
    <3> QED
      BY <2>3, <2>5, <3>1
  <2>6. jump \in iptables /\ <<k, typeOfSNAT(env)>> \in iptables
    BY <1>4, <2>2
  <2>7. ASSUME d \notin Range(cidrs)
        PROVE  SNATed(d)
    <3>1. ASSUME NEW i \in 0 .. k - 1
          PROVE  \E c \in CIDR \ {d} : <<i, c>> \in iptables
      <4>1. i + 1 \in 1 .. k /\ (i + 1) - 1 = i
        BY <1>3
      <4>2. cidrs[i + 1] \in CIDR /\ cidrs[i + 1] # d
        BY <1>3, <1>5, <2>7, <4>1, Zenon
      <4> QED
        BY <2>4, <4>1, <4>2
    <3> DEFINE r == <<k, typeOfSNAT(env)>>
    <3>2. r \in iptables \cap SNATRule /\ r[2] \in SNATType /\ r[1] = k
      BY <1>3, <2>6 DEF SNATRule
    <3> HIDE DEF r
    <3> QED
      BY <2>6, <3>1, <3>2 DEF SNATed
  <2>8. ASSUME SNATed(d), d \in Range(cidrs)
        PROVE  FALSE
    <3>1. PICK j \in 1 .. k : cidrs[j] = d
      BY <1>5, <2>8
    <3>2. PICK r \in iptables \cap SNATRule :
            /\ r[2] \in SNATType
            /\ \A i \in 0 .. r[1] - 1 : \E c \in CIDR \ {d} : <<i, c>> \in iptables
      BY <2>8 DEF SNATed
    <3>3. r[1] \in Nat
      BY DEF SNATRule
    <3>4. r[1] = k
      BY <2>5, <3>2, <3>3
    <3>5. j - 1 \in 0 .. r[1] - 1
      BY <1>3, <3>4
    <3>6. PICK c \in CIDR \ {d} : <<j - 1, c>> \in iptables
      BY <3>2, <3>5
    <3> QED
      BY <2>4, <3>1, <3>6, Zenon
  <2> QED
    BY <1>7, <2>7, <2>8 DEF cidrs
<1> QED
  BY <1>6, <1>7, Zenon

\* What leaves by the primary ENI is translated and what leaves by the pod's is not:
\* the two sets of rules, made by different code at different times, agree.
THEOREM SourceAddressFits == HostNetworkSpec => []SourceFitsENI
<1>1. ASSUME HostNetworkInv, hostPC = "up", ~RulesFail, NEW p \in pods, NEW d \in CIDR \cup {Internet}
      PROVE  usesENI(p, d) <=> ~SNATed(d)
  <2>1. env \in Env /\ podRules[p] = fromRules(env)
    BY <1>1, Zenon DEF HostNetworkInv, HostNetworkTypeOK, PodRulesInv
  <2>2. Range(allCIDRs(env)) \subseteq CIDR
    BY <2>1, AllCIDRsType DEF Range
  <2>3. d # AnyDst /\ AnyDst \notin CIDR
    BY HostNetworkAssumption
  <2>4. useExternalSNAT(env) \in BOOLEAN
    BY Zenon DEF useExternalSNAT, getBoolEnvVar
  <2>5. usesENI(p, d) <=> useExternalSNAT(env) \/ d \in Range(allCIDRs(env))
    BY <2>1, <2>2, <2>3, <2>4 DEF usesENI, fromRules
  <2> QED
    BY <1>1, <2>4, <2>5, TranslatedOutsideCIDRs, Zenon
<1>2. HostNetworkInv => SourceFitsENI
  BY <1>1 DEF SourceFitsENI
<1> QED
  BY <1>2, HostNetworkInvariance, PTL

\* On a served node no packet to the VPC, nor to a CIDR excluded from SNAT, has its source
\* translated.
ServedExcludes ==
  hostPC = "up" =>
    \A c \in Range(env.vpcCIDRs) \cup Range(getExcludeSNATCIDRs(env)) : ~SNATed(c)

\* What AWS_VPC_K8S_CNI_EXCLUDE_SNAT_CIDRS excludes is excluded once SetupHostNetwork is
\* through, whatever chains earlier configurations have left: only while it executes its
\* rules may the mixed chains translate it.
THEOREM ExcludedWhenServed == HostNetworkSpec => []ServedExcludes
<1>1. ASSUME HostNetworkInv, hostPC = "up",
             NEW c \in Range(env.vpcCIDRs) \cup Range(getExcludeSNATCIDRs(env))
      PROVE  ~SNATed(c)
  <2> DEFINE v == env.vpcCIDRs
             x == getExcludeSNATCIDRs(env)
  <2>1. env \in Env
    BY <1>1, Zenon DEF HostNetworkInv, HostNetworkTypeOK
  <2>2. v \in Seq(CIDR) /\ x \in Seq(CIDR) /\ allCIDRs(env) = v \o x
    BY <2>1, ParsedType, HostNetworkAssumption DEF getExcludeSNATCIDRs, allCIDRs
  <2>3. c \in Range(v) \cup Range(x)
    BY <1>1, Zenon
  <2> HIDE DEF v, x
  <2>4. c \in Range(v \o x)
    <3>1. CASE c \in Range(v)
      <4>1. PICK i \in 1 .. Len(v) : v[i] = c
        BY <2>2, <3>1 DEF Range
      <4>2. i \in DOMAIN (v \o x) /\ (v \o x)[i] = c
        BY <2>2, <4>1
      <4> QED
        BY <4>2, Zenon DEF Range
    <3>2. CASE c \in Range(x)
      <4>1. PICK i \in 1 .. Len(x) : x[i] = c
        BY <2>2, <3>2 DEF Range
      <4>2. Len(v) + i \in DOMAIN (v \o x) /\ (v \o x)[Len(v) + i] = c
        BY <2>2, <4>1
      <4> QED
        BY <4>2, Zenon DEF Range
    <3> QED
      BY <2>3, <3>1, <3>2, Zenon
  <2> QED
    BY <1>1, <2>2, <2>4, TranslatedOutsideCIDRs, Zenon
<1>2. HostNetworkInv => ServedExcludes
  BY <1>1, Zenon DEF ServedExcludes
<1> QED
  BY <1>2, HostNetworkInvariance, PTL

\* One mark for all configurations, and the primary interface has the name that
\* SetupHostNetwork takes it to have.
UniformMark == primaryIntf = "eth0" /\ \A d, e \in Env : getConnmark(d) = getConnmark(e)

\* Then turning NodePort support off leaves no connmark rule behind.
THEOREM NodePortRulesRemoved == UniformMark /\ HostNetworkSpec => []NodePortRulesGone
<1>1. ASSUME HostNetworkInv, UniformMark, hostPC = "up", ~nodePortSupportEnabled(env),
             NEW r \in iptables
      PROVE  r[1] # PREROUTING
  <2>1. env \in Env /\ r \in Rule
    BY <1>1, Zenon DEF HostNetworkInv, HostNetworkTypeOK
  <2>2. CASE r \in wantedRules(env)
    <3>1. r \in Range(snatRules(env))
      BY <1>1, <2>2, Zenon DEF wantedRules
    <3>2. r \in SNATRule \cup {<<POSTROUTING, "AWS-SNAT-CHAIN-0">>}
      BY <2>1, <3>1, KindsOfRules, Zenon
    <3> QED
      BY <3>2 DEF SNATRule, POSTROUTING, PREROUTING
  <2>3. CASE r \notin wantedRules(env)
    <3>1. r \in outOfReach(env)
      BY <1>1, <2>3, Zenon DEF HostNetworkInv, RulesAsConfigured
    <3>2. CASE r \in MarkRule
      <4>1. r[3] # getConnmark(env)
        BY <1>1, <2>1, <3>1, <3>2, OutOfReach, Zenon DEF UniformMark
      <4>2. r[3] \in Marks
        BY <3>2, MarkRules, Zenon
      <4> QED
        BY <1>1, <2>1, <4>1, <4>2, Zenon DEF Marks, UniformMark
    <3>3. CASE r \notin MarkRule
      <4>1. r \in SNATRule \cup {<<POSTROUTING, "AWS-SNAT-CHAIN-0">>, <<POSTROUTING, "before 1.3">>}
        BY <2>1, <3>3, Zenon DEF Rule, MarkRule
      <4>2. r \in SNATRule => r[1] \in Nat
        BY DEF SNATRule
      <4>3. /\ <<POSTROUTING, "AWS-SNAT-CHAIN-0">>[1] = POSTROUTING
            /\ <<POSTROUTING, "before 1.3">>[1] = POSTROUTING
        OBVIOUS
      <4>4. r \notin SNATRule => r[1] = POSTROUTING
        BY <4>1, <4>3, Zenon
      <4> QED
        BY <4>2, <4>4 DEF POSTROUTING, PREROUTING
    <3> QED
      BY <3>2, <3>3
  <2> QED
    BY <2>2, <2>3
<1>2. UniformMark /\ HostNetworkInv => NodePortRulesGone
  BY <1>1, Zenon DEF NodePortRulesGone
<1>3. UniformMark => UniformMark'
  BY DEF UniformMark, getConnmark
<1> QED
  BY <1>2, <1>3, HostNetworkInvariance, PTL

-----------------------------------------------------------------------------
(* The network of an ENI *)

AtAddrDel  == {"addrDel", "addrAdd", "routeDel", "routeAdd", "main", "done"}
AtRouteDel == {"routeDel", "routeAdd", "main", "done"}

\* What has been done by the time pc is reached.
Progress ==
  /\ pc \in {"mtu", "up"} \cup AtAddrDel => link
  /\ pc \in {"up"} \cup AtAddrDel => mtu
  /\ pc \in AtAddrDel => up
  /\ pc = "addrAdd" => addrs = {}
  /\ pc \in AtRouteDel => addrs = {"eniIP"}
  /\ pc \in {"routeDel", "routeAdd"} /\ route = "default" => routes["gateway"] = "this"
  /\ pc \in {"main", "done"} => routes = [d \in Dst |-> "this"]
  /\ pc = "done" => mainRoutes = {}
  /\ pc \notin {"setupENI", "failed"} => inStore

SetupInv == ENINetworkTypeOK /\ Progress

LEMMA InitSetupInv == ENINetworkInit => SetupInv
  <1> SUFFICES ASSUME ENINetworkInit PROVE SetupInv
    OBVIOUS
  <1>1. {maxRetryRouteAdd, maxRetryCheckENI, MaxFailures} \subseteq Nat /\ maxAttemptsLinkByMac \in Nat \ {0}
    BY ENINetworkAssumption, Zenon
  <1>2. /\ attempt \in 1 .. maxAttemptsLinkByMac /\ retryRoute \in 0 .. maxRetryRouteAdd
        /\ retry \in 1 .. maxRetryCheckENI + 1 /\ failures \in 0 .. MaxFailures
    BY <1>1 DEF ENINetworkInit
  <1>3. ENINetworkTypeOK
    BY <1>2, Zenon DEF ENINetworkInit, ENINetworkTypeOK, Dst
  <1>4. Progress
    BY Zenon DEF ENINetworkInit, Progress, AtAddrDel, AtRouteDel
  <1>5. QED
    BY <1>3, <1>4 DEF SetupInv

\* Calls keep the types.
LEMMA NextSetupTypes == ENINetworkTypeOK /\ Progress /\ [ENINetworkNext]_setupVars => ENINetworkTypeOK'
  <1> SUFFICES ASSUME ENINetworkTypeOK, Progress, [ENINetworkNext]_setupVars PROVE ENINetworkTypeOK'
    BY Zenon
  <1>0. /\ maxRetryRouteAdd \in Nat /\ maxRetryCheckENI \in Nat /\ MaxFailures \in Nat
        /\ maxAttemptsLinkByMac \in Nat
    BY ENINetworkAssumption, Zenon
  <1> USE <1>0 DEF ENINetworkTypeOK, kernelVars, fails, works, error, goto, Dst
  <1>1. CASE callFails
    BY <1>1 DEF callFails
  <1>2. CASE setupENI
    <2>1. 1 \in 1 .. maxAttemptsLinkByMac
      BY ENINetworkAssumption
    <2>2. CASE fails /\ error /\ UNCHANGED <<attempt, inStore>>
      BY <1>2, <2>2 DEF setupENI
    <2>3. CASE works /\ pc' = "link" /\ attempt' = 1 /\ inStore' = TRUE /\ UNCHANGED retry
      BY <1>2, <2>1, <2>3, Zenon DEF setupENI
    <2>4. QED
      BY <1>2, <2>2, <2>3, Zenon DEF setupENI
  <1>3. CASE LinkByMac
    BY <1>3 DEF LinkByMac
  <1>4. CASE LinkSetMTU
    BY <1>4, Zenon DEF LinkSetMTU
  <1>5. CASE LinkSetUp
    BY <1>5, Zenon DEF LinkSetUp
  <1>6. CASE AddrDel
    BY <1>6, ZenonT(40) DEF AddrDel
  <1>7. CASE AddrsDeleted
    BY <1>7, Zenon DEF AddrsDeleted
  <1>8. CASE AddrAdd
    BY <1>8, Zenon DEF AddrAdd
  <1>9. CASE RouteDel
    BY <1>9 DEF RouteDel
  <1>10. CASE RouteAdd
    BY <1>10, Zenon DEF RouteAdd
  <1>11. CASE RouteAddUnreachable
    BY <1>11 DEF RouteAddUnreachable
  <1>12. CASE RouteDelMain
    BY <1>12 DEF RouteDelMain, Progress
  <1>13. CASE nodeIPPoolReconcile
    BY <1>13, Zenon DEF nodeIPPoolReconcile
  <1>14. CASE linkAppears
    BY <1>14, Zenon DEF linkAppears
  <1>15. CASE UNCHANGED setupVars
    BY <1>15 DEF setupVars
  <1>16. QED
    BY <1>1, <1>2, <1>3, <1>4, <1>5, <1>6, <1>7, <1>8, <1>9, <1>10, <1>11, <1>12, <1>13, <1>14, <1>15, Zenon
    DEF ENINetworkNext, setupSteps

\* Each call adds its part to what the ones before it did; an error starts over or ends.
LEMMA NextProgress == ENINetworkTypeOK /\ Progress /\ [ENINetworkNext]_setupVars => Progress'
  <1> SUFFICES ASSUME ENINetworkTypeOK, Progress, [ENINetworkNext]_setupVars PROVE Progress'
    BY Zenon
  <1> USE DEF Progress, kernelVars, error, goto, AtAddrDel, AtRouteDel
  <1>1. CASE callFails
    BY <1>1, Zenon DEF callFails
  <1>2. CASE setupENI
    BY <1>2, Zenon DEF setupENI
  <1>3. CASE LinkByMac
    BY <1>3, Zenon DEF LinkByMac
  <1>4. CASE LinkSetMTU
    BY <1>4, Zenon DEF LinkSetMTU
  <1>5. CASE LinkSetUp
    BY <1>5, Zenon DEF LinkSetUp
  <1>6. CASE AddrDel
    BY <1>6, Zenon DEF AddrDel
  <1>7. CASE AddrsDeleted
    BY <1>7, Zenon DEF AddrsDeleted
  <1>8. CASE AddrAdd
    BY <1>8, Zenon DEF AddrAdd
  <1>9. CASE RouteDel
    BY <1>9, Zenon DEF RouteDel, ENINetworkTypeOK, Dst
  <1>10. CASE RouteAdd
    <2>1. routes'[route] = "this" /\ \A d \in Dst \ {route} : routes'[d] = routes[d]
      BY <1>10, Zenon DEF RouteAdd, ENINetworkTypeOK
    <2>2. CASE route = "gateway"
      BY <1>10, <2>1, <2>2 DEF RouteAdd
    <2>3. CASE route = "default"
      <3>1. routes' \in [Dst -> {"none", "this", "other"}] /\ \A d \in Dst : routes'[d] = "this"
        BY <1>10, <2>1, <2>3, Zenon DEF RouteAdd, ENINetworkTypeOK, Dst
      <3>2. routes' = [d \in Dst |-> "this"]
        BY <3>1, Zenon
      <3>3. pc' = "main"
        BY <1>10, <2>3, Zenon DEF RouteAdd
      <3>4. QED
        BY <1>10, <3>2, <3>3, Zenon DEF RouteAdd
    <2>4. QED
      BY <2>2, <2>3, Zenon DEF ENINetworkTypeOK, Dst
  <1>11. CASE RouteAddUnreachable
    BY <1>11, Zenon DEF RouteAddUnreachable
  <1>12. CASE RouteDelMain
    BY <1>12, Zenon DEF RouteDelMain, ENINetworkTypeOK
  <1>13. CASE nodeIPPoolReconcile
    BY <1>13, Zenon DEF nodeIPPoolReconcile
  <1>14. CASE linkAppears
    BY <1>14, Zenon DEF linkAppears
  <1>15. CASE UNCHANGED setupVars
    BY <1>15 DEF setupVars
  <1>16. QED
    BY <1>1, <1>2, <1>3, <1>4, <1>5, <1>6, <1>7, <1>8, <1>9, <1>10, <1>11, <1>12, <1>13, <1>14, <1>15, Zenon
    DEF ENINetworkNext, setupSteps

LEMMA NextSetupInv == SetupInv /\ [ENINetworkNext]_setupVars => SetupInv'
  BY NextSetupTypes, NextProgress DEF SetupInv

\* SetupENINetwork that returns no error has set up everything, from whatever state the
\* interface and the table were in and after whatever errors of earlier tries.
THEOREM SetupComplete == ENINetworkSpec => []SetUpCompletely
  <1>1. SetupInv => SetUpCompletely
    BY DEF SetupInv, Progress, SetUpCompletely, netReady, AtAddrDel, AtRouteDel
  <1>2. QED
    BY <1>1, InitSetupInv, NextSetupInv, PTL DEF ENINetworkSpec

\* The attempts, retries and tries of LinkByMac, RouteAdd and nodeInit stay in their
\* bounds, and addresses are pooled for ENIs of the store only.
THEOREM SetupTypes == ENINetworkSpec => []ENINetworkTypeOK
  <1>1. SetupInv => ENINetworkTypeOK
    BY Zenon DEF SetupInv
  <1>2. QED
    BY <1>1, InitSetupInv, NextSetupInv, PTL DEF ENINetworkSpec

\* Addresses of an ENI without its network are pooled only after setupENI gave up on it.
PooledUnlessFailed == pooled /\ ~netReady => pc = "failed"

\* setupENI pools no address before the ENI's network is complete: one that is pooled
\* without it was pooled by nodeIPPoolReconcile, which finds the ENI in the store and
\* does not ask whether its set-up returned an error.
THEOREM PooledAfterNetwork == ENINetworkSpec => []PooledUnlessFailed
  <1> DEFINE Over == pooled => inStore /\ pc \in {"done", "failed"}
  <1>1. ENINetworkInit => Over
    BY Zenon DEF ENINetworkInit
  <1>2. SetupInv /\ Over /\ [ENINetworkNext]_setupVars => Over'
    <2> SUFFICES ASSUME SetupInv, Over, [ENINetworkNext]_setupVars PROVE Over'
      BY Zenon
    <2>1. CASE UNCHANGED <<pooled, inStore, pc>>
      BY <2>1, Zenon
    <2>2. CASE RouteDelMain
      BY <2>2 DEF RouteDelMain, SetupInv, Progress
    <2>3. CASE nodeIPPoolReconcile
      BY <2>3, Zenon DEF nodeIPPoolReconcile
    <2>4. CASE UNCHANGED pooled /\ pc \notin {"done", "failed"}
      BY <2>4, Zenon
    <2>5. CASE setupENI \/ LinkByMac \/ RouteAddUnreachable \/ callFails
      <3>1. UNCHANGED pooled /\ pc \notin {"done", "failed"}
        <4>1. CASE setupENI \/ LinkByMac
          BY <4>1, Zenon DEF setupENI, LinkByMac
        <4>2. CASE RouteAddUnreachable \/ callFails
          BY <4>2, ZenonT(40) DEF RouteAddUnreachable, callFails
        <4>3. QED
          BY <2>5, <4>1, <4>2, Zenon
      <3>2. QED
        BY <2>4, <3>1, Zenon
    <2>6. CASE LinkSetMTU \/ LinkSetUp \/ AddrDel \/ AddrsDeleted \/ AddrAdd \/ RouteDel \/ RouteAdd
      <3>1. UNCHANGED pooled /\ pc \notin {"done", "failed"}
        BY <2>6 DEF LinkSetMTU, LinkSetUp, AddrDel, AddrsDeleted, AddrAdd, RouteDel, RouteAdd, goto
      <3>2. QED
        BY <2>4, <3>1, Zenon
    <2>7. CASE linkAppears \/ UNCHANGED setupVars
      BY <2>1, <2>7, Zenon DEF linkAppears, setupVars
    <2> HIDE DEF Over
    <2>8. QED
      BY <2>2, <2>3, <2>5, <2>6, <2>7, Zenon DEF ENINetworkNext, setupSteps
  <1>3. SetupInv /\ Over => PooledUnlessFailed
    <2>1. SetupInv => SetUpCompletely
      BY DEF SetupInv, Progress, SetUpCompletely, netReady, AtAddrDel, AtRouteDel
    <2>2. QED
      BY <2>1, Zenon DEF SetUpCompletely, PooledUnlessFailed
  <1> HIDE DEF Over
  <1>4. QED
    BY <1>1, <1>2, <1>3, InitSetupInv, NextSetupInv, PTL DEF ENINetworkSpec

\* How many more netlink calls of setupENI there are, if none fails.
addrCount == (IF "eniIP" \in addrs THEN 1 ELSE 0) + (IF "old" \in addrs THEN 1 ELSE 0)

stepsLeft ==
  CASE pc = "setupENI" -> 13 + maxAttemptsLinkByMac
    [] pc = "link"     -> 12 + maxAttemptsLinkByMac - attempt
    [] pc = "mtu"      -> 11
    [] pc = "up"       -> 10
    [] pc = "addrDel"  -> 7 + addrCount
    [] pc = "addrAdd"  -> 6
    [] pc = "routeDel" -> IF route = "gateway" THEN 5 ELSE 3
    [] pc = "routeAdd" -> IF route = "gateway" THEN 4 ELSE 2
    [] pc = "main"     -> 1
    [] OTHER           -> 0

\* Every step of setupENI uses up one of the failures there may be, or brings it closer to
\* its return; nothing else takes it back.
SetupRunsOut ==
  [][(pc \notin {"done", "failed"}) =>
       \/ failures' = failures + 1
       \/ /\ failures' = failures /\ stepsLeft' <= stepsLeft
          /\ setupSteps => stepsLeft' < stepsLeft]_setupVars

LEMMA StepsLeftAre ==
  /\ pc = "setupENI" => stepsLeft = 13 + maxAttemptsLinkByMac
  /\ pc = "link" => stepsLeft = 12 + maxAttemptsLinkByMac - attempt
  /\ pc = "mtu" => stepsLeft = 11
  /\ pc = "up" => stepsLeft = 10
  /\ pc = "addrDel" => stepsLeft = 7 + addrCount
  /\ pc = "addrAdd" => stepsLeft = 6
  /\ pc = "routeDel" => stepsLeft = IF route = "gateway" THEN 5 ELSE 3
  /\ pc = "routeAdd" => stepsLeft = IF route = "gateway" THEN 4 ELSE 2
  /\ pc = "main" => stepsLeft = 1
  /\ pc \in {"done", "failed"} => stepsLeft = 0
  BY DEF stepsLeft

LEMMA StepsLeftArePrimed ==
  /\ pc' = "link" => stepsLeft' = 12 + maxAttemptsLinkByMac - attempt'
  /\ pc' = "mtu" => stepsLeft' = 11
  /\ pc' = "up" => stepsLeft' = 10
  /\ pc' = "addrDel" => stepsLeft' = 7 + addrCount'
  /\ pc' = "addrAdd" => stepsLeft' = 6
  /\ pc' = "routeDel" => stepsLeft' = IF route' = "gateway" THEN 5 ELSE 3
  /\ pc' = "routeAdd" => stepsLeft' = IF route' = "gateway" THEN 4 ELSE 2
  /\ pc' = "main" => stepsLeft' = 1
  /\ pc' \in {"done", "failed"} => stepsLeft' = 0
  BY DEF stepsLeft

LEMMA AddrCounts ==
  /\ addrCount \in 0 .. 2 /\ addrCount' \in 0 .. 2
  /\ \A a \in {"eniIP", "old"} : a \in addrs /\ addrs' = addrs \ {a} => addrCount' = addrCount - 1
  BY DEF addrCount

LEMMA StepsLeftBound ==
  ASSUME SetupInv
  PROVE  stepsLeft \in 0 .. 13 + maxAttemptsLinkByMac
  <1>1. /\ pc \in {"setupENI", "link", "mtu", "up", "addrDel", "addrAdd", "routeDel", "routeAdd",
                    "main", "done", "failed"}
        /\ attempt \in 1 .. maxAttemptsLinkByMac /\ maxAttemptsLinkByMac \in Nat
    BY ENINetworkAssumption DEF SetupInv, ENINetworkTypeOK
  <1>2. QED
    BY <1>1, StepsLeftAre, AddrCounts

LEMMA SetupStepCounts ==
  ASSUME SetupInv, setupSteps
  PROVE  failures' = failures + 1 \/ (failures' = failures /\ stepsLeft' < stepsLeft)
  <1>1. /\ attempt \in 1 .. maxAttemptsLinkByMac /\ maxAttemptsLinkByMac \in Nat \ {0}
        /\ addrs \subseteq {"eniIP", "old"} /\ route \in Dst
    BY ENINetworkAssumption DEF SetupInv, ENINetworkTypeOK
  <1>2. CASE fails
    BY <1>2, Zenon DEF fails
  <1> USE StepsLeftAre, StepsLeftArePrimed
  <1>3. CASE setupENI /\ ~fails
    <2>1. pc = "setupENI" /\ failures' = failures /\ pc' = "link" /\ attempt' = 1
      BY <1>3, Zenon DEF setupENI, works
    <2>2. QED
      BY <1>1, <2>1
  <1>4. CASE LinkByMac /\ ~fails
    <2>1. /\ pc = "link" /\ failures' = failures
          /\ \/ pc' = "mtu"
             \/ pc' = pc /\ attempt < maxAttemptsLinkByMac /\ attempt' = attempt + 1
             \/ pc' = "failed"
      BY <1>4, Zenon DEF LinkByMac, works, error
    <2>2. QED
      BY <1>1, <2>1
  <1>5. CASE LinkSetMTU \/ LinkSetUp
    <2>1. /\ failures' = failures
          /\ (pc = "mtu" /\ pc' = "up") \/ (pc = "up" /\ pc' = "addrDel")
      BY <1>5, Zenon DEF LinkSetMTU, LinkSetUp, goto, works
    <2>2. QED
      BY <2>1, AddrCounts
  <1>6. CASE AddrDel
    <2>1. PICK a \in addrs : addrs' = addrs \ {a}
      BY <1>6, Zenon DEF AddrDel
    <2>2. pc = "addrDel" /\ pc' = "addrDel" /\ failures' = failures
      BY <1>6, Zenon DEF AddrDel, goto, works
    <2>3. addrCount' = addrCount - 1 /\ addrCount \in Int
      BY <1>1, <2>1, AddrCounts
    <2>4. stepsLeft = 7 + addrCount /\ stepsLeft' = 7 + addrCount'
      BY <2>2, Zenon
    <2>5. QED
      BY <2>2, <2>3, <2>4
  <1>7. CASE AddrsDeleted \/ AddrAdd
    <2>1. /\ failures' = failures
          /\ \/ pc = "addrDel" /\ pc' = "addrAdd"
             \/ pc = "addrAdd" /\ pc' = "routeDel"
      BY <1>7, Zenon DEF AddrsDeleted, AddrAdd, goto, works
    <2>2. QED
      BY <2>1, AddrCounts
  <1>8. CASE RouteDel
    <2>1. pc = "routeDel" /\ pc' = "routeAdd" /\ route' = route /\ failures' = failures
      BY <1>8, Zenon DEF RouteDel, goto, works
    <2>2. QED
      BY <2>1
  <1>9. CASE RouteAdd
    <2>1. /\ pc = "routeAdd" /\ route' = "default" /\ failures' = failures
          /\ pc' = IF route = "gateway" THEN "routeDel" ELSE "main"
      BY <1>9, Zenon DEF RouteAdd, goto, works
    <2>2. QED
      BY <2>1
  <1>10. CASE RouteDelMain
    <2>1. pc = "main" /\ pc' = "done" /\ failures' = failures
      BY <1>10, Zenon DEF RouteDelMain, works
    <2>2. QED
      BY <2>1
  <1>11. CASE RouteAddUnreachable \/ callFails
    BY <1>2, <1>11, Zenon DEF RouteAddUnreachable, callFails
  <1>12. QED
    BY <1>2, <1>3, <1>4, <1>5, <1>6, <1>7, <1>8, <1>9, <1>10, <1>11, Zenon DEF setupSteps

\* So setupENI returns after so many steps for each failure, although the interface may never
\* appear and an error sends nodeInit back to the start: the part of SetupReturns that
\* is not fairness.
THEOREM SetupBounded ==
  ENINetworkSpec => [](stepsLeft \in 0 .. 13 + maxAttemptsLinkByMac) /\ SetupRunsOut
  <1> DEFINE RunsOut == (pc \notin {"done", "failed"}) =>
                          \/ failures' = failures + 1
                          \/ /\ failures' = failures /\ stepsLeft' <= stepsLeft
                             /\ setupSteps => stepsLeft' < stepsLeft
  <1>b. SetupInv => stepsLeft \in 0 .. 13 + maxAttemptsLinkByMac
    BY StepsLeftBound, Zenon
  <1>c. (SetupInv => stepsLeft \in 0 .. 13 + maxAttemptsLinkByMac)'
    BY <1>b, PTL
  <1>1. ASSUME SetupInv, SetupInv', ENINetworkNext PROVE RunsOut
    <2>1. stepsLeft \in Int /\ stepsLeft' \in Int
      <3>1. maxAttemptsLinkByMac \in Int
        BY ENINetworkAssumption
      <3>2. QED
        BY <1>b, <1>c, <1>1, <3>1
    <2>2. CASE setupSteps
      BY <1>1, <2>1, <2>2, SetupStepCounts
    <2>3. CASE nodeIPPoolReconcile
      BY <2>3, Zenon DEF nodeIPPoolReconcile
    <2>4. CASE linkAppears /\ ~setupSteps
      <3>1. stepsLeft' = stepsLeft /\ failures' = failures
        BY <2>4, Zenon DEF linkAppears, stepsLeft, addrCount
      <3>2. QED
        BY <2>1, <2>4, <3>1
    <2>5. QED
      BY <1>1, <2>2, <2>3, <2>4, Zenon DEF ENINetworkNext
  <1>2. SetupInv /\ SetupInv' /\ [ENINetworkNext]_setupVars => [RunsOut]_setupVars
    BY <1>1, Zenon
  <1>3. SetupRunsOut <=> [][RunsOut]_setupVars
    BY Zenon DEF SetupRunsOut
  <1> HIDE DEF RunsOut
  <1>4. QED
    BY <1>b, <1>2, <1>3, InitSetupInv, NextSetupInv, PTL DEF ENINetworkSpec

-----------------------------------------------------------------------------
(* The configuration of new ENIs *)

ConfigInv == ENIConfigTypeOK /\ CacheIsCurrent

\* The informers list what there is: what they do not queue, the empty cache has.
LEMMA InitConfigInv == ENIConfigInit => ConfigInv
  <1> SUFFICES ASSUME ENIConfigInit PROVE ConfigInv
    OBVIOUS
  <1>1. ENIConfigTypeOK
    BY ENIConfigAssumption DEF ENIConfigInit, ENIConfigTypeOK
  <1>2. CacheIsCurrent
    BY ENIConfigAssumption, Zenon DEF ENIConfigInit, CacheIsCurrent
  <1>3. QED
    BY <1>1, <1>2 DEF ConfigInv

\* The name a node selects is a name.
LEMMA SelectsName ==
  \A a, l \in Name \cup {None} : selects(a, l) \in Name
  BY ENIConfigAssumption, Zenon DEF selects

\* Each step of the cluster, the workers and the pool manager keeps both.
LEMMA NextConfigInv == ConfigInv /\ [ENIConfigNext]_configVars => ConfigInv'
  <1> SUFFICES ASSUME ConfigInv, [ENIConfigNext]_configVars PROVE ConfigInv'
    BY Zenon
  <1> USE ENIConfigAssumption DEF ConfigInv, clusterVars, controllerVars, ConfigObject, NodeObject
  <1>1. ASSUME NEW n \in Name, ChangeENIConfig(n) PROVE ConfigInv'
    <2>1. ENIConfigTypeOK'
      <3>1. changes < MaxChanges /\ changes' = changes + 1
        BY <1>1, Zenon DEF ChangeENIConfig, changed
      <3>2. changes' \in 0 .. MaxChanges
        BY <3>1 DEF ENIConfigTypeOK
      <3>3. configs' \in [Name -> ENISpec \cup {None}] /\ queue' \subseteq Name \cup Node
        <4>1. PICK s \in ENISpec \cup {None} : configs' = [configs EXCEPT ![n] = s]
          BY <1>1, Zenon DEF ChangeENIConfig
        <4>2. queue' = queue \cup {n}
          BY <1>1, Zenon DEF ChangeENIConfig, changed
        <4>3. QED
          BY <4>1, <4>2 DEF ENIConfigTypeOK
      <3>4. UNCHANGED <<annotation, label, config, node, eni, myENI, newENI>>
        BY <1>1, Zenon DEF ChangeENIConfig, changed
      <3>5. QED
        BY <3>2, <3>3, <3>4, Zenon DEF ENIConfigTypeOK
    <2>2. CacheIsCurrent'
      BY <1>1, ZenonT(40) DEF ENIConfigTypeOK, CacheIsCurrent, ChangeENIConfig, changed
    <2>3. QED
      BY <2>1, <2>2, Zenon
  <1>2. ASSUME NEW n \in Node, ChangeNode(n) PROVE ConfigInv'
    <2>1. ENIConfigTypeOK'
      <3>1. changes < MaxChanges /\ changes' = changes + 1
        BY <1>2, Zenon DEF ChangeNode, changed
      <3>2. changes' \in 0 .. MaxChanges
        BY <3>1 DEF ENIConfigTypeOK
      <3>3. /\ annotation' \in [Node -> Name \cup {None}] /\ label' \in [Node -> Name \cup {None}]
            /\ queue' \subseteq Name \cup Node
        <4>1. \E a, l \in Name \cup {None} :
                annotation' = [annotation EXCEPT ![n] = a] /\ label' = [label EXCEPT ![n] = l]
          BY <1>2, Zenon DEF ChangeNode
        <4>2. queue' = queue \cup {n}
          BY <1>2, Zenon DEF ChangeNode, changed
        <4>3. QED
          BY <4>1, <4>2 DEF ENIConfigTypeOK
      <3>4. UNCHANGED <<configs, config, node, eni, myENI, newENI>>
        BY <1>2, Zenon DEF ChangeNode, changed
      <3>5. QED
        BY <3>2, <3>3, <3>4, Zenon DEF ENIConfigTypeOK
    <2>2. CacheIsCurrent'
      BY <1>2, ZenonT(40) DEF ENIConfigTypeOK, CacheIsCurrent, ChangeNode, changed
    <2>3. QED
      BY <2>1, <2>2, Zenon
  <1>3. ASSUME NEW n \in Name, takeENIConfig(n) PROVE ConfigInv'
    <2>1. ENIConfigTypeOK'
      BY <1>3, ZenonT(40) DEF ENIConfigTypeOK, takeENIConfig
    <2>2. config' \in ConfigObject /\ config' # None
      BY <1>3 DEF ENIConfigTypeOK, takeENIConfig
    <2>3. CacheIsCurrent'
      BY <1>3, <2>2, Zenon DEF ENIConfigTypeOK, CacheIsCurrent, takeENIConfig
    <2>4. QED
      BY <2>1, <2>3
  <1>4. ASSUME NEW n \in Node, takeNode(n) PROVE ConfigInv'
    <2>1. ENIConfigTypeOK'
      BY <1>4, Zenon DEF ENIConfigTypeOK, takeNode
    <2>2. node' \in NodeObject /\ node' # None
      BY <1>4 DEF ENIConfigTypeOK, takeNode
    <2>3. CacheIsCurrent'
      BY <1>4, <2>2, ZenonT(40) DEF ENIConfigTypeOK, CacheIsCurrent, takeNode
    <2>4. QED
      BY <2>1, <2>3
  <1>5. CASE HandleENIConfig
    <2>1. ENIConfigTypeOK'
      BY <1>5, Zenon DEF ENIConfigTypeOK, HandleENIConfig
    <2>2. CacheIsCurrent'
      BY <1>5, Zenon DEF ENIConfigTypeOK, CacheIsCurrent, HandleENIConfig
    <2>3. QED
      BY <2>1, <2>2, Zenon
  <1>6. CASE HandleNode
    <2>1. ENIConfigTypeOK'
      BY <1>6, SelectsName, Zenon DEF ENIConfigTypeOK, HandleNode
    <2>2. CacheIsCurrent'
      <3>1. UNCHANGED <<configs, annotation, label, queue, config, eni>> /\ node' = None
        BY <1>6, Zenon DEF HandleNode, clusterVars
      <3>2. node.name = myNodeName => myENI' = selects(node.annotation, node.label)
        BY <1>6, Zenon DEF HandleNode
      <3>3. node.name # myNodeName => myENI' = myENI
        BY <1>6, ZenonT(40) DEF HandleNode
      <3>4. node # None
        BY <1>6 DEF HandleNode
      <3>5. QED
        BY <3>1, <3>2, <3>3, <3>4, Zenon DEF CacheIsCurrent
    <2>3. QED
      BY <2>1, <2>2
  <1>7. CASE tryAllocateENI
    BY <1>7, Zenon DEF tryAllocateENI, MyENIConfig, ENIConfigTypeOK, CacheIsCurrent
  <1>8. CASE resync
    BY <1>8, Zenon DEF resync, ENIConfigTypeOK, CacheIsCurrent
  <1>9. CASE UNCHANGED configVars
    BY <1>9, Zenon DEF configVars, ENIConfigTypeOK, CacheIsCurrent
  <1>10. QED
    BY <1>1, <1>2, <1>3, <1>4, <1>5, <1>6, <1>7, <1>8, <1>9, Zenon DEF ENIConfigNext

\* The ENIConfig controller's cache and the name it goes by are what the cluster has,
\* but for objects that a worker still has to take or is handling (Handle).
THEOREM ConfigsCurrent == ENIConfigSpec => []CacheIsCurrent
  <1>1. ConfigInv => CacheIsCurrent
    BY DEF ConfigInv
  <1>2. QED
    BY <1>1, InitConfigInv, NextConfigInv, PTL DEF ENIConfigSpec

\* The name the controller goes by is one an ENIConfig can have, and what tryAllocateENI
\* uses is a spec: MyENIConfig never looks up a name outside the map's domain.
THEOREM ConfigTypes == ENIConfigSpec => []ENIConfigTypeOK
  <1>1. ConfigInv => ENIConfigTypeOK
    BY DEF ConfigInv
  <1>2. QED
    BY <1>1, InitConfigInv, NextConfigInv, PTL DEF ENIConfigSpec

\* Has the controller nothing queued and nothing in hand?
CaughtUp == queue = {} /\ config = None /\ node = None

\* An ENI that is made while the controller is idle is made with the ENIConfig that the
\* node's annotation, its label or the default selects at that moment.
MadeAsSelected == [][CaughtUp /\ tryAllocateENI => newENI' = chosenSpec]_configVars

\* tryAllocateENI takes a stale ENIConfig, or another node's choice, only while an event is
\* queued or being handled: there is no other way for MyENIConfig to be behind.
THEOREM IdleControllerIsRight == ENIConfigSpec => MadeAsSelected
  <1>1. ConfigInv /\ CaughtUp /\ tryAllocateENI => newENI' = chosenSpec
    <2> SUFFICES ASSUME ConfigInv, CaughtUp, tryAllocateENI PROVE newENI' = chosenSpec
      BY Zenon
    <2>1. myENI \in Name /\ myENI = selects(annotation[myNodeName], label[myNodeName])
      BY Zenon DEF ConfigInv, ENIConfigTypeOK, CacheIsCurrent, CaughtUp
    <2>2. eni[myENI] = configs[myENI]
      BY <2>1, Zenon DEF ConfigInv, CacheIsCurrent, CaughtUp
    <2>3. QED
      BY <2>1, <2>2, Zenon DEF tryAllocateENI, MyENIConfig, chosenSpec
  <1>2. ENIConfigSpec => []ConfigInv
    BY InitConfigInv, NextConfigInv, PTL DEF ENIConfigSpec
  <1>3. QED
    BY <1>1, <1>2, PTL DEF MadeAsSelected

=============================================================================
