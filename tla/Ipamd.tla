------------------------------- MODULE Ipamd -------------------------------
(***************************************************************************)
(* ipamd: the pool manager goroutine of StartNodeIPPoolManager, from       *)
(* nodeInit on, against EC2, a lagging instance metadata service (IMDS)    *)
(* and the RPC handlers that call the data store at the same time.         *)
(*                                                                         *)
(* pc is the statement the goroutine is at.  A step makes at most one call *)
(* that changes the store, and no step reads the store's counters twice,   *)
(* so RPCs fall between any two such statements as they do in the program. *)
(* Calls to EC2 are merged with the step that makes them: only this        *)
(* goroutine changes what EC2 holds for the node.                          *)
(***************************************************************************)
EXTENDS DataStore

CONSTANTS
  Configs,                  \* instance types and environments of nodes
  useCustomNetworking,
  NodeIPPoolReconcileInterval,
  DecreaseIPPoolInterval,
  IPReconcileCooldown,
  PrimaryIP,                \* [ENI -> its primary address]
  IMDSMaxLag,               \* IMDS disagrees with EC2 for at most this long
  AddressesReused,          \* may EC2 assign an address that IMDS still lists on another ENI?
  EC2Fails,                 \* may a call to EC2 or IMDS fail?
  AttachTimesOut,           \* may waitENIAttached give up?
  NetworkFails,             \* may SetupENINetwork fail?
  DetachedOutside           \* may someone else detach an ENI?

Secondary == IP \ {PrimaryIP[e] : e \in ENI}

ASSUME IpamdAssumption ==
  /\ Configs \subseteq [InstanceENILimit : Nat \ {0}, maxIPsPerENI : Nat,
                        MAX_ENI : Int, WARM_ENI_TARGET : Int, WARM_IP_TARGET : Int]
  /\ \A c \in Configs : c.WARM_IP_TARGET \in WarmIPTargets \/ (c.WARM_IP_TARGET < 0 /\ 0 \in WarmIPTargets)
  /\ {NodeIPPoolReconcileInterval, DecreaseIPPoolInterval, IPReconcileCooldown} \subseteq 0 .. (Forever - 1)
  /\ IMDSMaxLag \in Nat
  /\ PrimaryIP \in [ENI -> IP]
  /\ \A d, e \in ENI : PrimaryIP[d] = PrimaryIP[e] => d = e
  /\ {useCustomNetworking, AddressesReused, EC2Fails, AttachTimesOut, NetworkFails,
      DetachedOutside} \subseteq BOOLEAN

VARIABLES
  config,                   \* this node's; it does not change
  attached,                 \* EC2: the ENIs attached to the instance
  ec2IPs,                   \* EC2: their secondary addresses
  imds,                     \* IMDS: [enis, ips], a past state of EC2's
  imdsLag,                  \* how long IMDS has disagreed
  primaryIP,                \* the ENIs whose primary address c.primaryIP holds
  cooldown,                 \* the IPs in reconcileCooldownCache
  cooldownAge,              \* [IP -> age of its entry]
  lastNodeIPPoolAction,
  lastDecreaseIPPool,
  pc,
  ret,                      \* where setupENI returns to
  cur,                      \* the ENI at hand
  todo,                     \* its addresses left to add or mark
  sweep,                    \* its addresses left to delete
  deletedIPs,               \* those tryUnassignIPsFromAll deleted
  curENIs,                  \* ENIs left to sweep or to unassign from
  seen                      \* ENIs left to mark, as read from IMDS

ec2Vars  == <<attached, ec2IPs>>
imdsVars == <<imds, imdsLag>>
cacheVars == <<cooldown, cooldownAge>>
timeVars == <<lastNodeIPPoolAction, lastDecreaseIPPool>>
loopVars == <<ret, cur, todo, sweep, deletedIPs, curENIs, seen>>
ctxVars  == <<primaryIP, cacheVars, timeVars, loopVars>>
ipamdVars == <<vars, ec2Vars, imdsVars, ctxVars, pc>>

\* What EC2 attaches to the instance at most, and assigns to an ENI.
InstanceENILimit == config.InstanceENILimit
maxIPsPerENI     == config.maxIPsPerENI

\* getMaxENI, getWarmENITarget, getWarmIPTarget: a variable that is not set, or no
\* number, is -1.
maxENI        == IF config.MAX_ENI \in 1 .. InstanceENILimit - 1 THEN config.MAX_ENI ELSE InstanceENILimit
warmENITarget == IF config.WARM_ENI_TARGET < 0 THEN 1 ELSE config.WARM_ENI_TARGET
warmIPTarget  == IF config.WARM_IP_TARGET < 0 THEN 0 ELSE config.WARM_IP_TARGET

Labels == {"nodeInit", "nodeInitENIs", "setupENI", "setupNetwork", "addAddresses", "fillAddresses",
           "update", "increase", "tryAssignIPs", "tryENI", "allocENI", "allocIPs",
           "waitAttached", "touch", "decrease", "unassign", "findFreeable", "delIPs", "dealloc",
           "removeExtra", "tryFreeENI", "freeENI",
           "reconcile", "mark", "markIPs", "sweepIPs", "sweepENIs"}

On(eni, addrs)   == {a[2] : a \in {b \in addrs : b[1] = eni}}
Pool(eni)        == On(eni, IPv4Addresses)
EC2View          == [enis |-> attached, ips |-> ec2IPs \cup {<<e, PrimaryIP[e]>> : e \in attached}]

IpamdTypeOK ==
  /\ TypeOK
  /\ config \in Configs
  /\ attached \subseteq ENI /\ ec2IPs \subseteq attached \X Secondary
  /\ imds \in [enis : SUBSET ENI, ips : SUBSET Address] /\ imdsLag \in 0 .. IMDSMaxLag
  /\ primaryIP \subseteq ENI /\ cooldown \subseteq IP /\ cooldownAge \in [IP -> Age]
  /\ lastNodeIPPoolAction \in Age /\ lastDecreaseIPPool \in Age
  /\ {pc, ret} \subseteq Labels /\ cur \in ENI
  /\ todo \subseteq IP /\ sweep \subseteq IP /\ deletedIPs \subseteq IP
  /\ curENIs \subseteq ENI /\ seen \in [enis : SUBSET ENI, ips : SUBSET Address]

NoENIs == [enis |-> {}, ips |-> {}]

IpamdInit ==
  /\ Init
  /\ config \in Configs
  /\ attached = {PrimaryENI} /\ ec2IPs = {}
  /\ imds = EC2View /\ imdsLag = 0
  /\ primaryIP = {} /\ cooldown = {} /\ cooldownAge = [ip \in IP |-> Forever]
  /\ lastNodeIPPoolAction = Forever /\ lastDecreaseIPPool = Forever
  /\ pc = "nodeInit" /\ ret = "nodeInitENIs" /\ cur = PrimaryENI
  /\ todo = {} /\ sweep = {} /\ deletedIPs = {} /\ curENIs = {} /\ seen = NoENIs

-----------------------------------------------------------------------------
(* EC2 *)

Subnet == Secondary \ {a[2] : a \in ec2IPs}

\* What EC2 may assign to an ENI.
FreeFor(eni) ==
  {ip \in Subnet : AddressesReused \/ \A e \in attached \ {eni} : <<e, ip>> \notin imds.ips}

Granted(eni, n) ==
  IF eni \notin attached
  THEN {}
  ELSE IF Cardinality(On(eni, ec2IPs)) + n <= maxIPsPerENI
       THEN {[ips |-> S, err |-> FALSE] : S \in kSubset(n, FreeFor(eni))}
       ELSE {[ips |-> {}, err |-> FALSE]}           \* PrivateIpAddressLimitExceeded is no error

\* The outcomes of AllocIPAddresses.
AllocIPAddresses(eni, numIPs) ==
  LET needIPs == IF maxIPsPerENI < numIPs THEN maxIPsPerENI ELSE numIPs
  IN  IF needIPs < 1
      THEN {[ips |-> {}, err |-> FALSE]}
      ELSE Granted(eni, needIPs)
             \cup {o \in {[ips |-> {}, err |-> TRUE]} : EC2Fails \/ eni \notin attached \/ Cardinality(FreeFor(eni)) < needIPs}

\* Someone detaches and deletes an ENI behind ipamd's back, as the sweep of
\* nodeIPPoolReconcile expects.
DetachOutside ==
  /\ DetachedOutside
  /\ \E eni \in attached \ {PrimaryENI} :
       /\ attached' = attached \ {eni}
       /\ ec2IPs' = {a \in ec2IPs : a[1] # eni}
  /\ UNCHANGED <<vars, imdsVars, ctxVars, pc>>

\* IMDS learns what EC2 holds for one ENI.
IMDSCatchUp(eni) ==
  LET now == EC2View
      then == {a \in imds.ips : a[1] # eni}
  IN  /\ imds' = [enis |-> (imds.enis \ {eni}) \cup (now.enis \cap {eni}),
                  ips  |-> then \cup {a \in now.ips : a[1] = eni}]
      /\ imds' # imds
      /\ imdsLag' = IF imds' = now THEN 0 ELSE imdsLag
      /\ UNCHANGED <<vars, ec2Vars, ctxVars, pc>>

-----------------------------------------------------------------------------
(* setupENI, for nodeInit, tryAllocateENI and nodeIPPoolReconcile *)

goto(label) == pc' = label

\* A call of GetAttachedENIs or DescribeENI that fails.
callFails == EC2Fails

\* nodeInit sleeps and tries again, or gives up on this ENI; the others give up.
setupFails ==
  /\ \/ goto(ret)
     \/ ret = "nodeInitENIs" /\ goto("setupENI")
  /\ todo' = {}
  /\ UNCHANGED <<ret, cur, sweep, deletedIPs, curENIs, seen>>

\* getENIaddresses, then AddENI.  An address already in the store is a
\* DuplicateIPError that is ignored, so only the others are left to add.
SetupENI ==
  /\ pc = "setupENI"
  /\ \/ /\ cur \in attached
        /\ todo' = On(cur, ec2IPs) \ Pool(cur)
        /\ goto("setupNetwork")
        /\ AddENI(cur) \/ (cur \in eniIPPools /\ UNCHANGED dsVars)
        /\ UNCHANGED <<ret, cur, sweep, deletedIPs, curENIs, seen>>
     \/ /\ callFails \/ cur \notin attached
        /\ setupFails
        /\ UNCHANGED dsVars
  /\ UNCHANGED <<serving, ec2Vars, imdsVars, primaryIP, cacheVars, timeVars>>

SetupENINetwork ==
  /\ pc = "setupNetwork"
  /\ \/ goto("addAddresses") /\ UNCHANGED loopVars
     \/ NetworkFails /\ cur # PrimaryENI /\ setupFails
  /\ UNCHANGED <<vars, ec2Vars, imdsVars, primaryIP, cacheVars, timeVars>>

\* addENIaddressesToDataStore, called by setupENI and by tryAssignIPs.
AddENIAddress ==
  /\ pc \in {"addAddresses", "fillAddresses"}
  /\ \E ip \in todo :
       /\ AddIPv4AddressFromStore(cur, ip)
       /\ todo' = todo \ {ip}
  /\ UNCHANGED <<serving, ec2Vars, imdsVars, primaryIP, cacheVars, timeVars, pc,
                 ret, cur, sweep, deletedIPs, curENIs, seen>>

SetupENIReturns ==
  /\ pc = "addAddresses" /\ todo = {}
  /\ primaryIP' = primaryIP \cup {cur}
  /\ goto(ret)
  /\ UNCHANGED <<vars, ec2Vars, imdsVars, cacheVars, timeVars, loopVars>>

-----------------------------------------------------------------------------
(* nodeInit on a node without pods *)

NodeInit ==
  /\ pc = "nodeInit"
  /\ seen' = imds
  /\ goto("nodeInitENIs")
  /\ UNCHANGED <<vars, ec2Vars, imdsVars, primaryIP, cacheVars, timeVars,
                 ret, cur, todo, sweep, deletedIPs, curENIs>>

NodeInitENI ==
  /\ pc = "nodeInitENIs"
  /\ \E eni \in seen.enis :
       /\ cur' = eni
       /\ ret' = "nodeInitENIs"
       /\ seen' = [seen EXCEPT !.enis = @ \ {eni}]
  /\ goto("setupENI")
  /\ UNCHANGED <<vars, ec2Vars, imdsVars, primaryIP, cacheVars, timeVars,
                 todo, sweep, deletedIPs, curENIs>>

NodeInitReturns ==
  /\ pc = "nodeInitENIs" /\ seen.enis = {}
  /\ Serve
  /\ seen' = NoENIs
  /\ goto("update")
  /\ UNCHANGED <<ec2Vars, imdsVars, primaryIP, cacheVars, timeVars,
                 ret, cur, todo, sweep, deletedIPs, curENIs>>

-----------------------------------------------------------------------------
(* updateIPPoolIfRequired and increaseIPPool *)

\* ipTargetState
warmIPTargetDefined == warmIPTarget # 0
available == total - assigned
short == IF warmIPTarget > available THEN warmIPTarget - available ELSE 0
over  == IF available > warmIPTarget THEN available - warmIPTarget ELSE 0

nodeIPPoolTooLow ==
  IF warmIPTargetDefined
  THEN short > 0
  ELSE available < maxIPsPerENI * warmENITarget \/ (warmENITarget = 0 /\ available = 0)

nodeIPPoolTooHigh == warmIPTargetDefined /\ over > 0

\* A slip: without the +1.
shouldRemoveExtraENIs_NoSpare ==
  warmIPTargetDefined \/ available >= warmENITarget * maxIPsPerENI

shouldRemoveExtraENIs ==
  warmIPTargetDefined \/ available >= (warmENITarget + 1) * maxIPsPerENI

\* A step that reads the store and only moves on.
moveOn == UNCHANGED <<vars, ec2Vars, imdsVars, ctxVars>>

UpdateIPPoolIfRequired ==
  /\ pc = "update"
  /\ \/ nodeIPPoolTooLow /\ goto("increase")
     \/ ~nodeIPPoolTooLow /\ nodeIPPoolTooHigh /\ goto("decrease")
     \/ ~nodeIPPoolTooLow /\ ~nodeIPPoolTooHigh /\ goto("removeExtra")
  /\ moveOn

IncreaseIPPool ==
  /\ pc = "increase"
  /\ goto(IF warmIPTargetDefined /\ short = 0 THEN "removeExtra" ELSE "tryAssignIPs")
  /\ moveOn

\* A slip: <= for <.
NeedsIP_FullToo == {e \in eniIPPools : /\ ~(useCustomNetworking /\ e = PrimaryENI)
                                       /\ Cardinality(Pool(e)) <= maxIPsPerENI}

\* GetENINeedsIP: any of these.
NeedsIP == {e \in eniIPPools : /\ ~(useCustomNetworking /\ e = PrimaryENI)
                               /\ Cardinality(Pool(e)) < maxIPsPerENI}

\* No ENI to fill, or both calls of AllocIPAddresses fail.
TryAssignIPsFails ==
  /\ pc = "tryAssignIPs"
  /\ \/ warmIPTargetDefined /\ short = 0
     \/ NeedsIP = {}
     \/ \E e \in NeedsIP : \A n \in {maxIPsPerENI - Cardinality(Pool(e)), 1} :
          \E o \in AllocIPAddresses(e, n) : o.err
  /\ goto("tryENI")
  /\ moveOn

\* All the missing addresses, or one when that fails; then getENIaddresses.
TryAssignIPs ==
  /\ pc = "tryAssignIPs"
  /\ ~(warmIPTargetDefined /\ short = 0)
  /\ \E e \in NeedsIP :
       LET all == AllocIPAddresses(e, maxIPsPerENI - Cardinality(Pool(e)))
           one == {o \in AllocIPAddresses(e, 1) : \E f \in all : f.err}
       IN  \E o \in all \cup one :
             /\ ~o.err
             /\ ec2IPs' = ec2IPs \cup ({e} \X o.ips)
             /\ \/ /\ cur' = e
                   /\ todo' = On(e, ec2IPs') \ Pool(e)
                   /\ goto("fillAddresses")
                \/ callFails /\ goto("touch") /\ UNCHANGED <<cur, todo>>
  /\ UNCHANGED <<vars, attached, imdsVars, primaryIP, cacheVars, timeVars,
                 ret, sweep, deletedIPs, curENIs, seen>>

TryAssignIPsReturns ==
  /\ pc = "fillAddresses" /\ todo = {}
  /\ goto("touch")
  /\ moveOn

TryENI ==
  /\ pc = "tryENI"
  /\ goto(IF Cardinality(eniIPPools) < maxENI THEN "allocENI" ELSE "removeExtra")
  /\ moveOn

\* EC2 gives every ENI a new ID; a model value is used again once EC2, IMDS and
\* the store have forgotten it.
NewENIs == ENI \ (attached \cup imds.enis \cup eniIPPools)

\* MyENIConfig and AllocENI.  When the attribute call fails the ENI is freed, or
\* stays attached if that fails too.  If it was freed AllocENI returns "" and no
\* error, and the caller waits in vain for the ENI "" before it goes on to touch.
AllocENI ==
  /\ pc = "allocENI"
  /\ \/ /\ Cardinality(attached) < InstanceENILimit
        /\ \E e \in NewENIs :
             /\ attached' = attached \cup {e}
             /\ primaryIP' = primaryIP \ {e}
             /\ cur' = e
        /\ goto("allocIPs") \/ (callFails /\ goto("touch"))
     \/ /\ callFails \/ useCustomNetworking \/ Cardinality(attached) >= InstanceENILimit
        /\ goto("touch")
        /\ UNCHANGED <<attached, primaryIP, cur>>
  /\ UNCHANGED <<vars, ec2IPs, imdsVars, cacheVars, timeVars,
                 ret, todo, sweep, deletedIPs, curENIs, seen>>

\* An error is logged and the ENI used with the addresses it has.
AllocIPs ==
  /\ pc = "allocIPs"
  /\ \E o \in AllocIPAddresses(cur, IF warmIPTargetDefined THEN short ELSE maxIPsPerENI) :
       ec2IPs' = ec2IPs \cup ({cur} \X o.ips)
  /\ goto("waitAttached")
  /\ UNCHANGED <<vars, attached, imdsVars, ctxVars>>

WaitENIAttached ==
  /\ pc = "waitAttached"
  /\ \/ cur \in imds.enis /\ ret' = "touch" /\ goto("setupENI")
     \/ /\ AttachTimesOut \/ cur \notin attached
        /\ cur \notin imds.enis \/ callFails
        /\ goto("touch")
        /\ UNCHANGED ret
  /\ UNCHANGED <<vars, ec2Vars, imdsVars, primaryIP, cacheVars, timeVars,
                 cur, todo, sweep, deletedIPs, curENIs, seen>>

UpdateLastNodeIPPoolAction ==
  /\ pc = "touch"
  /\ lastNodeIPPoolAction' = 0
  /\ goto("removeExtra")
  /\ UNCHANGED <<vars, ec2Vars, imdsVars, primaryIP, cacheVars, lastDecreaseIPPool, loopVars>>

-----------------------------------------------------------------------------
(* decreaseIPPool *)

DecreaseIPPool ==
  /\ pc = "decrease"
  /\ IF lastDecreaseIPPool <= DecreaseIPPoolInterval
     THEN UNCHANGED <<timeVars, curENIs>> /\ goto("removeExtra")
     ELSE /\ lastDecreaseIPPool' = 0
          /\ lastNodeIPPoolAction' = 0
          /\ curENIs' = IF over > 0 THEN eniIPPools ELSE {}
          /\ goto("unassign")
  /\ UNCHANGED <<vars, ec2Vars, imdsVars, primaryIP, cacheVars,
                 ret, cur, todo, sweep, deletedIPs, seen>>

\* findFreeableIPs, its first half: the ENI's addresses without a pod.
TryUnassignIPs ==
  /\ pc = "unassign"
  /\ \E e \in curENIs :
       /\ curENIs' = curENIs \ {e}
       /\ cur' = e
       /\ sweep' = Pool(e) \ HeldIPs
  /\ goto("findFreeable")
  /\ UNCHANGED <<vars, ec2Vars, imdsVars, primaryIP, cacheVars, timeVars, ret, todo, deletedIPs, seen>>

\* Its second half: as many of them as the pool is over its target by now.
FindFreeableIPs ==
  /\ pc = "findFreeable"
  /\ LET n == Cardinality(sweep)
     IN  sweep' \in kSubset(IF over < n THEN over ELSE n, sweep)
  /\ goto(IF sweep' = {} THEN "unassign" ELSE "delIPs")
  /\ UNCHANGED <<vars, ec2Vars, imdsVars, primaryIP, cacheVars, timeVars,
                 ret, cur, todo, deletedIPs, curENIs, seen>>

TryUnassignIPsReturns ==
  /\ pc = "unassign" /\ curENIs = {}
  /\ goto("removeExtra")
  /\ moveOn

\* An address assigned since findFreeableIPs is an IPInUseError and is kept.
DelIPs ==
  /\ pc = "delIPs"
  /\ \E ip \in sweep :
       /\ sweep' = sweep \ {ip}
       /\ \/ DelIPv4AddressFromStore(cur, ip) /\ deletedIPs' = deletedIPs \cup {ip}
          \/ <<cur, ip>> \in Assigned /\ UNCHANGED <<dsVars, deletedIPs>>
       /\ goto(IF sweep' = {} THEN "dealloc" ELSE "delIPs")
  /\ UNCHANGED <<serving, ec2Vars, imdsVars, primaryIP, cacheVars, timeVars, ret, cur, todo, curENIs, seen>>

\* DeallocIPAddresses, then reconcileCooldownCache.Add whether it failed or not.
DeallocIPs ==
  /\ pc = "dealloc"
  /\ \/ ec2IPs' = ec2IPs \ ({cur} \X deletedIPs)
     \/ callFails /\ UNCHANGED ec2IPs
  /\ cooldown' = cooldown \cup deletedIPs
  /\ cooldownAge' = [ip \in IP |-> IF ip \in deletedIPs THEN 0 ELSE cooldownAge[ip]]
  /\ deletedIPs' = {}
  /\ goto("unassign")
  /\ UNCHANGED <<vars, attached, imdsVars, primaryIP, timeVars, ret, cur, todo, sweep, curENIs, seen>>

-----------------------------------------------------------------------------
(* tryFreeENI *)

RemoveExtraENIs ==
  /\ pc = "removeExtra"
  /\ goto(IF shouldRemoveExtraENIs THEN "tryFreeENI" ELSE "reconcile")
  /\ moveOn

TryFreeENI ==
  /\ pc = "tryFreeENI"
  /\ \/ \E e \in ENI : RemoveUnusedENIFromStore(e, warmIPTarget) /\ cur' = e /\ goto("freeENI")
     \/ /\ \A e \in eniIPPools : ~Deletable(e, warmIPTarget)
        /\ goto("reconcile")
        /\ UNCHANGED <<dsVars, cur>>
  /\ UNCHANGED <<serving, ec2Vars, imdsVars, primaryIP, cacheVars, timeVars,
                 ret, todo, sweep, deletedIPs, curENIs, seen>>

\* FreeENI detaches and deletes; on an error the ENI may still be attached.
FreeENI ==
  /\ pc = "freeENI"
  /\ \/ /\ attached' = attached \ {cur}
        /\ ec2IPs' = {a \in ec2IPs : a[1] # cur}
     \/ callFails /\ UNCHANGED ec2Vars
  /\ goto("reconcile")
  /\ UNCHANGED <<vars, imdsVars, ctxVars>>

-----------------------------------------------------------------------------
(* nodeIPPoolReconcile *)

\* A slip: a round that is skipped counts as an action.
NodeIPPoolReconcile_TouchesAlways ==
  /\ pc = "reconcile"
  /\ lastNodeIPPoolAction' = 0
  /\ IF lastNodeIPPoolAction <= NodeIPPoolReconcileInterval
     THEN goto("update") /\ UNCHANGED <<seen, curENIs>>
     ELSE goto("mark") /\ seen' = imds /\ curENIs' = eniIPPools
  /\ UNCHANGED <<vars, ec2Vars, imdsVars, primaryIP, cacheVars, lastDecreaseIPPool,
                 ret, cur, todo, sweep, deletedIPs>>

NodeIPPoolReconcile ==
  /\ pc = "reconcile"
  /\ \/ /\ lastNodeIPPoolAction <= NodeIPPoolReconcileInterval \/ callFails
        /\ goto("update")
        /\ UNCHANGED <<lastNodeIPPoolAction, seen, curENIs>>
     \/ /\ lastNodeIPPoolAction > NodeIPPoolReconcileInterval
        /\ seen' = imds
        /\ curENIs' = eniIPPools
        /\ lastNodeIPPoolAction' = 0
        /\ goto("mark")
  /\ UNCHANGED <<vars, ec2Vars, imdsVars, primaryIP, cacheVars, lastDecreaseIPPool,
                 ret, cur, todo, sweep, deletedIPs>>

\* Mark phase, one ENI: reconcile its addresses, or set up an ENI that is new.
MarkENI ==
  /\ pc = "mark"
  /\ \E eni \in seen.enis :
       /\ cur' = eni
       /\ seen' = [seen EXCEPT !.enis = @ \ {eni}]
       /\ IF eni \in eniIPPools
          THEN /\ todo' = On(eni, seen.ips)
               /\ sweep' = Pool(eni)
               /\ curENIs' = curENIs \ {eni}
               /\ goto("markIPs")
               /\ UNCHANGED ret
          ELSE ret' = "mark" /\ goto("setupENI") /\ UNCHANGED <<todo, sweep, curENIs>>
  /\ UNCHANGED <<vars, ec2Vars, imdsVars, primaryIP, cacheVars, timeVars, deletedIPs>>

MarkReturns ==
  /\ pc = "mark" /\ seen.enis = {}
  /\ seen' = NoENIs
  /\ goto("sweepENIs")
  /\ UNCHANGED <<vars, ec2Vars, imdsVars, primaryIP, cacheVars, timeVars,
                 ret, cur, todo, sweep, deletedIPs, curENIs>>

\* RecentlyFreed
recentlyFreed(ip) == ip \in cooldown /\ cooldownAge[ip] < IPReconcileCooldown

\* The address is the ENI's own, or was freed lately, or EC2 was asked and did not
\* answer or does not have it: on to the next.
SkipIP(ip) ==
  \/ cur \in primaryIP /\ ip = PrimaryIP[cur]
  \/ recentlyFreed(ip)
  \/ ip \in cooldown /\ (callFails \/ <<cur, ip>> \notin EC2View.ips)

\* A slip: out of cooldown, IMDS is believed.
KeepIP_Unverified(ip) ==
  /\ ~(cur \in primaryIP /\ ip = PrimaryIP[cur])
  /\ ~recentlyFreed(ip)

\* It was not freed, or EC2 has confirmed that the ENI has it.
KeepIP(ip) ==
  /\ ~(cur \in primaryIP /\ ip = PrimaryIP[cur])
  /\ ~recentlyFreed(ip)
  /\ ip \in cooldown => <<cur, ip>> \in EC2View.ips

MarkIP ==
  /\ pc = "markIPs"
  /\ \E ip \in todo :
       /\ todo' = todo \ {ip}
       /\ \/ SkipIP(ip) /\ UNCHANGED <<dsVars, cacheVars, sweep>>
          \/ /\ KeepIP(ip)
             /\ cooldown' = cooldown \ {ip}
             /\ cooldownAge' = [cooldownAge EXCEPT ![ip] = Forever]
             /\ \/ AddIPv4AddressFromStore(cur, ip) /\ UNCHANGED sweep
                \/ ip \in Pool(cur) /\ sweep' = sweep \ {ip} /\ UNCHANGED dsVars
  /\ UNCHANGED <<serving, ec2Vars, imdsVars, primaryIP, timeVars, pc, ret, cur, deletedIPs, curENIs, seen>>

MarkIPsReturns ==
  /\ pc = "markIPs" /\ todo = {}
  /\ goto(IF sweep = {} THEN "mark" ELSE "sweepIPs")
  /\ moveOn

\* A slip: an address with a pod is deleted too.
SweepIP_InUseToo ==
  /\ pc = "sweepIPs"
  /\ \E ip \in sweep :
       /\ sweep' = sweep \ {ip}
       /\ DelIPv4AddressFromStore_InUseToo(cur, ip)
       /\ goto(IF sweep' = {} THEN "mark" ELSE "sweepIPs")
  /\ UNCHANGED <<serving, ec2Vars, imdsVars, primaryIP, cacheVars, timeVars,
                 ret, cur, todo, deletedIPs, curENIs, seen>>

SweepIP ==
  /\ pc = "sweepIPs"
  /\ \E ip \in sweep :
       /\ sweep' = sweep \ {ip}
       /\ DelIPv4AddressFromStore(cur, ip) \/ (<<cur, ip>> \in Assigned /\ UNCHANGED dsVars)
       /\ goto(IF sweep' = {} THEN "mark" ELSE "sweepIPs")
  /\ UNCHANGED <<serving, ec2Vars, imdsVars, primaryIP, cacheVars, timeVars,
                 ret, cur, todo, deletedIPs, curENIs, seen>>

SweepENI ==
  /\ pc = "sweepENIs"
  /\ \E eni \in curENIs :
       /\ curENIs' = curENIs \ {eni}
       /\ RemoveENIFromDataStore(eni) \/ (hasPods(eni) /\ UNCHANGED dsVars)
  /\ UNCHANGED <<serving, ec2Vars, imdsVars, primaryIP, cacheVars, timeVars, pc,
                 ret, cur, todo, sweep, deletedIPs, seen>>

ReconcileReturns ==
  /\ pc = "sweepENIs" /\ curENIs = {}
  /\ goto("update")
  /\ moveOn

-----------------------------------------------------------------------------
(* The node *)

Reconcile ==
  \/ NodeIPPoolReconcile \/ MarkENI \/ MarkReturns \/ MarkIP \/ MarkIPsReturns
  \/ SweepIP \/ SweepENI \/ ReconcileReturns

Increase ==
  \/ IncreaseIPPool \/ TryAssignIPs \/ TryAssignIPsFails \/ TryAssignIPsReturns \/ TryENI
  \/ AllocENI \/ AllocIPs \/ WaitENIAttached \/ UpdateLastNodeIPPoolAction

Decrease ==
  \/ DecreaseIPPool \/ TryUnassignIPs \/ FindFreeableIPs \/ TryUnassignIPsReturns \/ DelIPs \/ DeallocIPs
  \/ RemoveExtraENIs \/ TryFreeENI \/ FreeENI

PoolManager ==
  \/ NodeInit \/ NodeInitENI \/ NodeInitReturns
  \/ SetupENI \/ SetupENINetwork \/ AddENIAddress \/ SetupENIReturns
  \/ UpdateIPPoolIfRequired \/ Increase \/ Decrease \/ Reconcile

RPC == HandleRPC /\ UNCHANGED <<serving, ec2Vars, imdsVars, ctxVars, pc>>

IMDS == \E eni \in ENI : IMDSCatchUp(eni)

\* IMDS may disagree with EC2 for IMDSMaxLag and no longer.
TimePasses ==
  /\ imds = EC2View \/ imdsLag < IMDSMaxLag
  /\ imdsLag' = IF imds = EC2View THEN 0 ELSE imdsLag + 1
  /\ Tick
  /\ cooldownAge' = [ip \in IP |-> Older(cooldownAge[ip])]
  /\ lastNodeIPPoolAction' = Older(lastNodeIPPoolAction)
  /\ lastDecreaseIPPool' = Older(lastDecreaseIPPool)
  /\ UNCHANGED <<serving, ec2Vars, imds, primaryIP, cooldown, loopVars, pc>>

IpamdNext ==
  /\ PoolManager \/ RPC \/ IMDS \/ TimePasses \/ DetachOutside
  /\ UNCHANGED config

IpamdSpec == IpamdInit /\ [][IpamdNext]_<<config, ipamdVars>>

\* The goroutine never exits, IMDS catches up, and time passes.
IpamdFairSpec ==
  /\ IpamdSpec
  /\ WF_ipamdVars(PoolManager) /\ WF_ipamdVars(IMDS) /\ WF_ipamdVars(TimePasses)

-----------------------------------------------------------------------------
(* Properties *)

\* Every address in the store is one that EC2 has on that ENI: the store lets go
\* of an address or an ENI before EC2 is told to, and a lagging IMDS brings
\* nothing back that EC2 has taken away.
PoolOnlyFromEC2 == IPv4Addresses \subseteq EC2View.ips

\* The pool manager and the RPC handlers together use the store as its proofs
\* assume, with no address in two pools: every behaviour is one of DataStore.
UsesStoreAsProved == Spec

\* An exhausted pool grows again, as long as the subnet has addresses and an ENI
\* room for them or MAX_ENI room for an ENI (increaseIPPool), and others have
\* stopped detaching what it adds.
CanGrow == Subnet # {} /\ (NeedsIP # {} \/ Cardinality(eniIPPools) < maxENI)
PoolRefilled ==
  <>[][~DetachOutside]_ipamdVars => ((serving /\ available = 0) ~> (available > 0 \/ ~CanGrow))

\* Once pods stop coming and going, and others detaching ENIs, the pool manager
\* stops asking EC2 for changes: what makes it grow the pool never makes it shrink it again.
Settles == <>[][podsIP' = podsIP /\ ~DetachOutside]_ipamdVars => <>[][FALSE]_ec2Vars

\* An ENI that is gone from EC2 leaves the store, unless pods are still recorded on
\* it, once pods stop coming and going: the sweep of nodeIPPoolReconcile gets its
\* turn and finds it.
DetachedForgotten ==
  <>[][FALSE]_podsIP =>
    \A e \in ENI : (serving /\ e \in eniIPPools \ attached) ~> (e \notin eniIPPools \/ hasPods(e))

\* "once these IP addresses become available on the instance (confirmed through
\* instance's metadata service), add these IP addresses to warm-pool"
\* (docs/cni-proposal.md:203).
ConfirmedIPsPooled ==
  \A a \in ENI \X Secondary :
    (serving /\ a \in ec2IPs \cap imds.ips) ~> (a \in IPv4Addresses \/ a \notin ec2IPs)

\* No more ENIs are attached than MAX_ENI (README.md:186).
MaxENIKept == Cardinality(attached) <= maxENI

\* "The primary IP address is not used by any Pods" (docs/cni-proposal.md:41).
PrimaryIPNotForPods == \A ip \in HeldIPs : ip \in Secondary

=============================================================================
