----------------------------- MODULE ENINetwork -----------------------------
(***************************************************************************)
(* setupENI: a secondary ENI is put into the data store, its interface and *)
(* route table are set up with one netlink call after the other, and its   *)
(* addresses are put into the pool.  nodeInit repeats it after an error;   *)
(* the pool manager does not, but its reconcile pass pools the addresses   *)
(* of every ENI of the store and sets up the others.                       *)
(*                                                                         *)
(* The interface may appear late, and interface and table may have been    *)
(* used before: by this ENI before a restart, or the table by another ENI  *)
(* with the same device number.                                            *)
(***************************************************************************)
EXTENDS Integers

CONSTANTS
  maxAttemptsLinkByMac, maxRetryRouteAdd, maxRetryCheckENI,
  MaxFailures            \* bound: calls that fail

ASSUME ENINetworkAssumption ==
  /\ maxAttemptsLinkByMac \in Nat \ {0}
  /\ {maxRetryRouteAdd, maxRetryCheckENI, MaxFailures} \subseteq Nat

Dst == {"gateway", "default"}         \* the routes of the ENI's table

VARIABLES
  link,        \* is the interface there?
  mtu, up,     \* have its MTU and flags been set?
  addrs,       \* its addresses: subset of {"eniIP", "old"}
  routes,      \* [Dst -> {"none", "this", "other"}]: the table's routes, by which interface
  mainRoutes,  \* the addresses whose subnet has a route by it in the main table
  caller,      \* "nodeInit", "tryAllocateENI" or "reconcile"
  pc, attempt, route, retryRoute, retry,
  inStore,     \* is the ENI in the data store?
  pooled,      \* are its addresses?
  failures

kernelVars == <<link, mtu, up, addrs, routes, mainRoutes>>
setupVars  == <<kernelVars, caller, pc, attempt, route, retryRoute, retry, inStore, pooled, failures>>

ENINetworkTypeOK ==
  /\ {link, mtu, up, inStore, pooled} \subseteq BOOLEAN
  /\ mainRoutes \subseteq addrs /\ addrs \subseteq {"eniIP", "old"}
  /\ routes \in [Dst -> {"none", "this", "other"}]
  /\ caller \in {"nodeInit", "tryAllocateENI", "reconcile"}
  /\ pc \in {"setupENI", "link", "mtu", "up", "addrDel", "addrAdd", "routeDel", "routeAdd",
             "main", "done", "failed"}
  /\ attempt \in 1 .. maxAttemptsLinkByMac
  /\ route \in Dst
  /\ retryRoute \in 0 .. maxRetryRouteAdd
  /\ retry \in 1 .. maxRetryCheckENI + 1
  /\ pooled => inStore
  /\ failures \in 0 .. MaxFailures

\* An interface that is there may have been set up; one that is not has no routes.
ENINetworkInit ==
  /\ link \in BOOLEAN /\ mtu \in BOOLEAN /\ up \in BOOLEAN
  /\ addrs \in SUBSET {"eniIP", "old"}
  /\ mainRoutes \in SUBSET (IF up THEN addrs ELSE {})
  /\ routes \in [Dst -> {"none", "this", "other"}]
  /\ (\E d \in Dst : routes[d] = "this") => up /\ addrs # {}
  /\ ~link => ~up /\ ~mtu /\ addrs = {}
  /\ caller \in {"nodeInit", "tryAllocateENI"}
  /\ pc = "setupENI"
  /\ attempt = 1 /\ route = "gateway" /\ retryRoute = 0 /\ retry = 1
  /\ inStore = FALSE /\ pooled = FALSE
  /\ failures = 0

fails == failures < MaxFailures /\ failures' = failures + 1
works == UNCHANGED failures

\* setupENI returns an error.  nodeInit tries again, unless the interface was not
\* found or the tries are used up.
error ==
  IF caller = "nodeInit" /\ pc # "link" /\ retry <= maxRetryCheckENI
  THEN pc' = "setupENI" /\ retry' = retry + 1
  ELSE pc' = "failed" /\ UNCHANGED retry

\* A netlink call that fails.
callFails ==
  /\ pc \in {"mtu", "up", "addrDel", "addrAdd", "routeDel", "routeAdd", "main"}
  /\ fails /\ error
  /\ UNCHANGED <<kernelVars, caller, attempt, route, retryRoute, inStore, pooled>>

goto(l) == pc' = l /\ works /\ UNCHANGED <<caller, attempt, retry, inStore, pooled>>

-----------------------------------------------------------------------------
(* setupENI and setupENINetwork, call by call *)

\* getENIaddresses, then AddENI, for which an ENI that is there already is no error.
setupENI ==
  /\ pc = "setupENI"
  /\ \/ fails /\ error /\ UNCHANGED <<attempt, inStore>>
     \/ works /\ pc' = "link" /\ attempt' = 1 /\ inStore' = TRUE /\ UNCHANGED retry
  /\ UNCHANGED <<kernelVars, caller, route, retryRoute, pooled>>

\* A slip: an attempt that finds no interface is not counted.
LinkByMac_NotCounted ==
  /\ pc = "link"
  /\ IF link THEN works /\ pc' = "mtu" /\ UNCHANGED <<attempt, retry>>
             ELSE works /\ UNCHANGED <<pc, attempt, retry>>
  /\ UNCHANGED <<kernelVars, caller, route, retryRoute, inStore, pooled>>

\* LinkList fails or does not have the MAC address: another attempt, if there is one left.
LinkByMac ==
  /\ pc = "link"
  /\ \/ link /\ works /\ pc' = "mtu" /\ UNCHANGED <<attempt, retry>>
     \/ /\ IF link THEN fails ELSE works
        /\ IF attempt < maxAttemptsLinkByMac
           THEN attempt' = attempt + 1 /\ UNCHANGED <<pc, retry>>
           ELSE error /\ UNCHANGED attempt
  /\ UNCHANGED <<kernelVars, caller, route, retryRoute, inStore, pooled>>

LinkSetMTU ==
  /\ pc = "mtu"
  /\ mtu' = TRUE
  /\ goto("up")
  /\ UNCHANGED <<link, up, addrs, routes, mainRoutes, route, retryRoute>>

\* The kernel gives the main table a route to the subnet of each address.
LinkSetUp ==
  /\ pc = "up"
  /\ up' = TRUE
  /\ mainRoutes' = IF up THEN mainRoutes ELSE addrs
  /\ goto("addrDel")
  /\ UNCHANGED <<link, mtu, addrs, routes, route, retryRoute>>

\* With its last address an interface loses its routes.
AddrDel ==
  /\ pc = "addrDel"
  /\ \E a \in addrs :
       /\ addrs' = addrs \ {a}
       /\ mainRoutes' = mainRoutes \ {a}
       /\ routes' = IF addrs = {a} THEN [d \in Dst |-> IF routes[d] = "this" THEN "none" ELSE routes[d]]
                                   ELSE routes
  /\ goto("addrDel")
  /\ UNCHANGED <<link, mtu, up, route, retryRoute>>

AddrsDeleted ==
  /\ pc = "addrDel"
  /\ addrs = {}
  /\ goto("addrAdd")
  /\ UNCHANGED <<kernelVars, route, retryRoute>>

AddrAdd ==
  /\ pc = "addrAdd"
  /\ addrs' = addrs \cup {"eniIP"}
  /\ mainRoutes' = mainRoutes \cup {"eniIP"}
  /\ route' = "gateway"
  /\ goto("routeDel")
  /\ UNCHANGED <<link, mtu, up, routes, retryRoute>>

\* Only a route by this interface is deleted; that there is none is no error.
RouteDel ==
  /\ pc = "routeDel"
  /\ routes' = [routes EXCEPT ![route] = IF @ = "this" THEN "none" ELSE @]
  /\ retryRoute' = 0
  /\ goto("routeAdd")
  /\ UNCHANGED <<link, mtu, up, addrs, mainRoutes, route>>

\* A slip: a route that exists will do.
RouteAdd_Exists ==
  /\ pc = "routeAdd"
  /\ routes' = [routes EXCEPT ![route] = IF @ = "none" THEN "this" ELSE @]
  /\ route' = "default"
  /\ goto(IF route = "gateway" THEN "routeDel" ELSE "main")
  /\ UNCHANGED <<link, mtu, up, addrs, mainRoutes, retryRoute>>

\* RouteAdd, or RouteReplace if there is a route by another interface; then the next route.
RouteAdd ==
  /\ pc = "routeAdd"
  /\ routes' = [routes EXCEPT ![route] = "this"]
  /\ route' = "default"
  /\ goto(IF route = "gateway" THEN "routeDel" ELSE "main")
  /\ UNCHANGED <<link, mtu, up, addrs, mainRoutes, retryRoute>>

\* The kernel does not see the gateway yet.
RouteAddUnreachable ==
  /\ pc = "routeAdd"
  /\ fails
  /\ IF retryRoute < maxRetryRouteAdd
     THEN retryRoute' = retryRoute + 1 /\ UNCHANGED <<pc, retry>>
     ELSE error /\ UNCHANGED retryRoute
  /\ UNCHANGED <<kernelVars, caller, attempt, route, inStore, pooled>>

\* The route of the ENI's subnet leaves the main table; setupENI pools the addresses.
RouteDelMain ==
  /\ pc = "main"
  /\ mainRoutes' = mainRoutes \ {"eniIP"}
  /\ pc' = "done" /\ pooled' = TRUE
  /\ works
  /\ UNCHANGED <<link, mtu, up, addrs, routes, caller, attempt, route, retryRoute, retry, inStore>>

-----------------------------------------------------------------------------
(* The world around *)

\* An ENI of the store has its addresses pooled, another one is set up.
nodeIPPoolReconcile ==
  /\ pc \in {"done", "failed"}
  /\ IF inStore
     THEN pooled' = TRUE /\ UNCHANGED <<pc, caller>>
     ELSE pc' = "setupENI" /\ caller' = "reconcile" /\ UNCHANGED pooled
  /\ UNCHANGED <<kernelVars, attempt, route, retryRoute, retry, inStore, failures>>

linkAppears ==
  /\ ~link
  /\ link' = TRUE
  /\ UNCHANGED <<mtu, up, addrs, routes, mainRoutes, caller, pc, attempt, route, retryRoute, retry, inStore, pooled, failures>>

setupSteps ==
  \/ setupENI \/ LinkByMac \/ LinkSetMTU \/ LinkSetUp \/ AddrDel \/ AddrsDeleted \/ AddrAdd
  \/ RouteDel \/ RouteAdd \/ RouteAddUnreachable \/ RouteDelMain \/ callFails

ENINetworkNext == setupSteps \/ nodeIPPoolReconcile \/ linkAppears

ENINetworkSpec == ENINetworkInit /\ [][ENINetworkNext]_setupVars

\* The goroutine that sets up the ENI goes on; nothing is assumed of the interface.
ENINetworkFairSpec == ENINetworkSpec /\ WF_setupVars(setupSteps)

-----------------------------------------------------------------------------
(* Properties *)

netReady ==
  /\ link /\ mtu /\ up
  /\ addrs = {"eniIP"}
  /\ routes = [d \in Dst |-> "this"]
  /\ mainRoutes = {}

\* SetupENINetwork that returns no error leaves the interface with the ENI's address
\* only, its table with both routes by this interface, and the main table without the
\* subnet: whatever an earlier use or a set-up that was cut short by an error left.
SetUpCompletely == pc = "done" => netReady

\* setupENI returns, also if the interface never appears, and so nodeInit goes on
\* to the next ENI.
SetupReturns == (pc = "setupENI") ~> (pc \in {"done", "failed"})

\* "setupENI does following: 1) add ENI to datastore 2) set up linux ENI related
\* networking stack. 3) add all ENI's secondary IP addresses to datastore"
\* (ipamd.go:680): the addresses come after the network they need.
PooledIsRouted == pooled => netReady

=============================================================================
