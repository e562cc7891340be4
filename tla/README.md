# Amazon VPC CNI for Kubernetes: TLA+ models and proofs

A verification development for the node agent `ipamd` (L-IPAMD) and the CNI plugin of
amazon-vpc-cni-k8s v1.5.3. Sources are under `src/`; every definition that models code is mapped
to the lines it stands for in `PROJECT.json`.

## The system

One agent runs on each node. It keeps a *warm pool* of secondary IPv4 addresses on the node's
network interfaces (ENIs), so that a pod can be given an address without waiting for EC2.

| Part | State | Operations that change it | Talks to |
|---|---|---|---|
| Data store, `ipamd/datastore` | ENI pools, addresses, pod table, counters, gauges, under one lock | add and remove ENI, add and delete address, assign, unassign | called by the next two |
| Pool manager, `ipamd/ipamd.go` | primary addresses, cooldown cache, two time stamps | `nodeInit`, then for ever: `updateIPPoolIfRequired`, `nodeIPPoolReconcile` | store, EC2, IMDS, host network |
| RPC handlers, `ipamd/rpc_handler.go` | none of their own | `AddNetwork`, `DelNetwork` | store |
| EC2 and IMDS client, `pkg/awsutils` | cached instance facts | create, attach, detach, delete ENI; assign and unassign addresses | EC2, which is the truth; IMDS, which lags behind it |
| CNI plugin and driver, `plugins/routed-eni` | kernel rules, routes, veth pairs | ADD, DEL | RPC handlers, kernel |
| Host network, `pkg/networkutils` | iptables chains, rules, routes | `SetupHostNetwork`, `SetupENINetwork`, `UpdateRuleListBySrc` | kernel |
| Pod discovery, `pkg/k8sapi` | informer cache, queue, `workerPods`, `cniPods` | `handlePodUpdate` | API server, `nodeInit` |
| ENIConfig controller, `pkg/eniconfig` | configs, the node's choice | `Handle` | API server, `tryAllocateENI` |
| Publisher and metrics helper | batch of data points; last totals | `Publish`, `pushLocal`; `Handler` | CloudWatch, Prometheus endpoints |

What is hard here:

- ADD and DEL arrive while the pool manager is between two statements. It reads the counters
  without the lock and acts on them later.
- IMDS may list an address that EC2 has taken away, or not yet list one that a pod uses.
- Every EC2 call may fail, in the middle of a sequence that has already changed the store.
- An attached ENI may show up after the agent has stopped waiting for it.
- Addresses and ENIs must rest after use. The rest is a time stamp that disappears with the entry.
- The rules that grow and shrink the pool are separate and must not chase each other.
- All of the agent's memory is lost when it restarts.

What makes it correct: no two pods hold one address; no address in use is taken out of the pool;
every address in the pool is one that EC2 has on that ENI; the counters are exact; a free address is
never hidden from an ADD; an ENI is freed only when idle; the pool refills and comes to rest.
`PROJECT.json` lists the hazards with their lines and the properties that would catch them.

## Modules

| Module | What it is | Proofs |
|---|---|---|
| `DataStore` | the store, one action per exported operation, with all its callers in any order | `DataStoreProofs` |
| `PodIPLease` | what the store promises: an exclusive lease of an address, which cools after its release as long as it stays in the store | `DataStoreProofs`: `DataStore` implements it |
| `Ipamd` | the pool manager goroutine, EC2, IMDS, RPCs and time; extends `DataStore` | `IpamdProofs`, `NodeProofs` |
| `CNIPlugin` | ADD and DEL processes of the plugin and its driver, over the kernel and the lease; extends `PodIPLease` | `CNIPluginProofs` |
| `Discovery` | the informer, its work queue and the worker that fills `workerPods` and `cniPods` | `RecoveryProofs` |
| `Recovery` | restarts of the agent on a node with pods; extends `Discovery` | `RecoveryProofs` |
| `ENILifecycle` | `AllocENI`, `FreeENI` and the primary ENI, EC2 call by EC2 call | `ENILifecycleProofs` |
| `ENINetwork` | `setupENI` and `setupENINetwork`, netlink call by netlink call, with who repeats them | `NetworkProofs` |
| `HostNetwork` | iptables and the pods' ip rules across changes of configuration | `NetworkProofs` |
| `ENIConfig` | the ENIConfig controller, its informers and the pool manager that asks it | `NetworkProofs` |
| `MetricsHelper` | a poll of the agents' metrics, its aggregation and what is published | `MetricsProofs` |
| `Publisher` | the queue of data points and the loop that sends it | `MetricsProofs` |
| `Metrics` | the helper's process: `MetricsHelper` and `Publisher` side by side | `MetricsProofs` |
| `MC...` | instances for TLC | |

How they fit together: `Ipamd` refines `DataStore` (`UsesStoreAsProved`), `DataStore` refines `PodIPLease`
(`KeepsLeaseContract`), and `CNIPlugin` is built on `PodIPLease`. Both refinements are proved, and so is their
composition, `Ipamd` to `PodIPLease` (`NodeKeepsLease`). So what is proved of pods' wiring rests on
the contract, and the contract on the store as the agent uses it. `Recovery` runs `nodeInit` on top of
`Discovery`, and `Metrics` composes the metrics helper with the publisher's goroutine. `ENILifecycle` and `ENINetwork` open up calls that `Ipamd` takes as one step that may fail.

Six modules have a variable that `Init` chooses from a constant and no step changes. It holds the conditions of
one node or one behaviour, and lets a run cover several:

| Module | Variable | Chooses |
|---|---|---|
| `Ipamd` | `config` | `MAX_ENI`, `WARM_ENI_TARGET`, `WARM_IP_TARGET` and the instance type's limits |
| `CNIPlugin` | `conditions` | what fails, which sandboxes there are, the SNAT setting |
| `Recovery` | `lapses` | what `nodeInit` is not told in time |
| `ENILifecycle` | `world` | failed calls per operation, lost answers, restarts, other users of EC2 |
| `HostNetwork` | `RulesFail` | whether `GetRuleList` and calls of `UpdateRuleListBySrc` and `DeleteRuleListBySrc` fail |
| `MetricsHelper` | `cluster` | the pods, and whether data points are submitted |

A property that the code keeps only under some of them names the condition itself.

### DataStore

Structs are held field by field. A field of `ENIIPPool` is a function on `ENI`, a field of
`AddressInfo` a set of or a function on pairs `<<eni, ip>>`, and `podsIP` a function on `PodKey`.
Each exported operation takes `ds.lock`, so each is one action; an operation that returns an error
changes nothing and is no step. Go map iteration is a choice.

Time is held as age. `Tick` lets every age grow to the bound `Forever`, which lies past every
period; a zero `time.Time` is `Forever` old. The values of the periods are scaled down and keep the
order of the code's: addressCoolingPeriod (30 s) below addressENICoolingPeriod and minLifeTime (1 min).

`nodeInit` fills the pools and takes the addresses of running pods out (`RecoverPod`); after `Serve`,
RPCs and the pool manager call in any order. Two assumptions about the world are constants.
`ENIIPsShared` says whether two ENIs may list one address, and `PodIPsShared` whether the API server
may list two pods with one address. The passing run and two of the theorems take both as false.

In the contract, `PodIPLease`, addresses that leave the store are withdrawn (`Withdraw`) if they were on offer and
recalled (`Recall`) if some were cooling. `Recall` is there because the code does it: `DelIPv4AddressFromStore` and
`RemoveENIFromDataStore` ask only whether an address is assigned. A recalled address that is offered again may be
leased at once, as its entry is new and has no `UnassignedTime`. So the contract promises an exclusive lease and a
rest in the store, and not that 30 seconds lie between two pods with one address (see below).

### Ipamd

`pc` names the statement the goroutine is at. A step changes the store at most once and reads what
RPCs change at most once, with these exceptions, none of which hides a behaviour:

- `nodeIPPoolTooLow` and `nodeIPPoolTooHigh` are read in one step. RPCs change the number of available
  addresses by one at a time, so two reads that say "not low" and then "not high" imply a moment when
  both were true.
- An EC2 call is merged with the step that makes it, as only this goroutine changes what EC2 holds.
- A time stamp taken at the start of an operation and stored at its end is stored at its start. No one
  reads it in between.
- Addresses already in the pool are filtered out before `AddIPv4AddressFromStore`, where the code
  ignores `DuplicateIPError`. Only this goroutine adds or deletes addresses.

`attached` and `ec2IPs` are EC2. `imds` is a past state of EC2, ENI by ENI, at most `IMDSMaxLag` ticks
old. `setupENI` is a subroutine with `ret` as its return address. `AllocIPAddresses` is the set of its
outcomes: the addresses granted, nothing when the ENI's limit is exceeded (no error in the code), or
an error. The targets come from the environment as `getMaxENI`, `getWarmENITarget` and `getWarmIPTarget` read
them: a variable that is missing or no number gives the default. ENI model values are used again once EC2, IMDS and the store have forgotten them, and then
stand for a new ID.

`nodeInit` is modelled on a node without pods; `Recovery` has it on a node with pods. The retries of
`nodeInit` and `freeENI` are abstracted to "may succeed or fail"; `ENINetwork` and `ENILifecycle` have them. `AttachTimesOut` stands for IMDS lagging longer than
`waitENIAttached` waits. `DetachedOutside` lets someone else detach and delete an ENI, which is what the
sweep over ENIs is there for: the agent itself takes an ENI out of the store before it detaches it. Then
the store knows addresses that EC2 has not, for a time, so `PoolOnlyFromEC2` is checked without it.

`AddressesReused` says whether EC2 may assign an address that IMDS still lists on another ENI of the node. If
it may, `PoolOnlyFromEC2` fails (see below), so `ipamd` takes it as false; `ipamd_live` takes it as true.

### CNIPlugin

`pc[s]` is the step the process of sandbox `s` is at; kubelet runs one process per ADD or DEL. `addNetwork`,
`delNetwork` and `releaseAfterFailure` call the agent, which is `PodIPLease` plus the device number of
each address. Between them come the driver's steps: the veth pair, the host route, the to-pod rule, the
from-pod rules, and the same for the teardown. Any netlink call may fail (`KernelFails`), a call to the agent
may fail before or after it took effect (`RPCFails`), and a process may die anywhere, or find nobody to print its
result to (`PluginDies`; the address and the network of such an ADD stay until its DEL). What
happens inside the container's namespace is one step. Of kubelet the model takes two things: it retries DEL
until it succeeds, and it sets up a new sandbox of a pod only when the one before is no longer up or being
set up.

`NotTornDown` is an assumption on time: a teardown is over before its address is on offer again. For an address that
cools it says that a DEL takes less than 30 seconds. For one that is recalled and added again there is no cooling,
and it says that the DEL is over when the pool manager next reads that address from EC2 or IMDS. The code relies on
both and has no other guard.

### Discovery and Recovery

In `Discovery` the informer delivers the API server's pods (`UpdateIndexer`, then `HandleEvent`), `Sync` sets
`synced` when the initial list is in the indexer, and the worker takes a key and the pod (`processNextItem`)
and applies it (`handlePodUpdate`) in a later step. A key added while the worker has it is handed out again. A key is
a namespace and a name. Whether the pod is this node's is part of its object (`LocalStatus`), so that a name may be
used here, deleted and used on another node.

`Recovery` adds `nodeInit` in three stages (list, rules, recover), the store as a table of pod keys, and
`restart` at any time, which clears all of the agent's memory and none of the pods. If the informer is not synced in
the last of the retries, `nodeInit` returns an error, the process ends ("exited"), and kubelet starts it again
(`startAgain`), as often as that happens. The API server has the status of the running pods when the agent restarts,
unless `StatusLags`; pods that are gone may still be listed, with an address that another pod has by now. A pod key carries the
sandbox's ID in an ADD or DEL and the application container's ID in `nodeInit`. `lapses` separates the ways
recovery can miss a pod: `RuleListFails`, `StatusLags` (the API server has the pod without its containers)
and `WorkerLags` (`nodeInit` lists before the worker is done). `Prompt` says that there is none of them.

### ENILifecycle and ENINetwork

`pc` is the next EC2 call, each of which fails or works. A failed call may have been carried out
("answers"). IMDS gives as the instance's MAC address that of the interface at device 0, by which `setPrimaryENI`
finds the primary ENI. Device numbers are below `maxENIs`: EC2 gives no other, so the branch of
`awsGetFreeDeviceNumber` for larger ones is not modelled. EC2 detaches in the background and refuses to delete until then (`DetachLag`). Others may
attach or detach ENIs. A dereference of a missing attachment is the state "panic". `MaxFailures` counts the
failures of one `AllocENI` or `FreeENI`.

`ENINetwork` follows one ENI. Its interface may appear late or never, and interface and table may carry
addresses and routes of an earlier use. `nodeInit` repeats the set-up, `tryAllocateENI` does not, and the
reconciler pools the addresses of every ENI in the store.

### HostNetwork

A rule is a tuple of its chain and what it says; a connmark rule names its mark, which is part of the
configuration (`AWS_VPC_K8S_CNI_CONNMARK`), as does the ip rule `mainENIRule`. `SetupHostNetwork` computes the list of rules with
`shouldExist` (`planRules`), and `executeRule` carries them out one at a time, with an error possible at each.
The list is a set of numbered calls; the stale rules share a number, as the order they were listed in is open.
`UpdateRuleListBySrc` rewrites the ip rules of a running pod, and none is rewritten when `GetRuleList` fails. The DEL
of a pod deletes its rules, or with `RulesFail` only some, and the next pod finds what is left. Rules of another mark,
and of an interface that is not called eth0, are those that `SetupHostNetwork` does not look for: `outOfReach`.
`restart` starts the agent with another configuration. `SNATed` walks the chains as the kernel does: a packet
takes any rule that matches it, so two rules in one chain, old and new, both count.

### ENIConfig, MetricsHelper, Publisher, Metrics

`ENIConfig` has one queue per kind of object, a worker each that takes an object and handles it later, the
periodic resync, and the pool manager that asks `MyENIConfig` at any time.

`MetricsHelper` has one metric of each kind that `InterestingCNIMetrics` names. `grab` reads one agent and
converts its counter against the one record of the last total that all agents share. `restartHelper` starts a new
process, which has no last total. `total` is what one process has published of the counter, so
`CountedOncePerProcess` speaks of one process: the first poll of the next publishes all of the counter again.

`Publisher` models a slice by its length and capacity, as that is what decides between sending, sending nil
entries and a panic. `Grown` is the growth of Go's `append` for the sizes in use. In `Metrics` the handler
publishes one data point at a time while the monitor swaps and sends the queue; a panic of the monitor, or
a restart, ends both and loses what was not sent.

## Runs

| Run | Instance | Shows |
|---|---|---|
| `datastore` | 3 ENIs, 3 addresses, 2 pods, WARM_IP_TARGET 0 to 2 | counters exact; pod table and pools in step; one holder; no leak; no free address hidden; freed ENIs idle; WARM_IP_TARGET kept when an ENI is freed; refinement of `PodIPLease` |
| `ipamd` | 2 pods; the default targets with 2 ENIs, and WARM_IP_TARGET=1 on an instance limited to 1 ENI; EC2 calls fail, IMDS lags, no address is reused that IMDS lists elsewhere | the pool holds only what EC2 has; every behaviour is a behaviour of `DataStore` |
| `ipamd_live` | 2 ENIs, 1 pod, fair, EC2 answers, somebody else detaches ENIs | an exhausted pool grows again; an idle node comes to rest; an ENI gone from EC2 leaves the store, unless pods are recorded on it |
| `cni_plugin` | 2 sandboxes of one pod or of two with every fault; 3 sandboxes with addresses that move between ENIs; fair | a pod that is up keeps address, veth, route and rules, and leaves by its ENI; without faults no rule or route outlives its pod; an ADD that failed anywhere gives its address back |
| `discovery` | the names of a pod and of a CNI pod, each on this node or on another, 3 changes, fair | no update is lost between informer and worker; `workerPods` converges for pods that are this node's or gone |
| `recovery` | 2 pods for one address, 1 restart anywhere, nothing lags or everything; fair | told in time, the pool has no address of a running pod and no two pods share one, although pods that are gone may be listed with the address; `nodeInit` ends, although pods it waits for wait for it, and the agent serves unless the informer is not synced within the retries |
| `recovery_del` | 2 pods, 2 addresses, nothing lags; ends in a counterexample | recovered pods are recorded with a container ID that no DEL names, so that a DEL leaves the address recorded; the comment at `rpc_handler.go:97` has them known by name |
| `eni_lifecycle` | 3 ENIs, 2 device numbers, 4 worlds, fair | device numbers are distinct and in range; the primary ENI stays; no call ends with an ENI left unattached (2 failures against 4 tries, others attach); every ENI in use is deleted with the instance (1 failure); calls return |
| `eni_network` | 4 failures, late interface, leftovers; fair | a set-up that succeeds is complete; every set-up returns |
| `host_network` | 3 configurations, 2 marks and one that is invalid, 3 CIDRs, 1 pod, primary interface "ens5", failures at any call | a set-up that succeeds leaves the configured rules and no other, but for connmark rules of an earlier mark or of an interface not called eth0; each destination is reached either by the pod's ENI with its address or by the primary ENI with the node's |
| `eni_config` | 2 names, 2 specs, 2 changes, fair | what is not queued is known; when objects stop changing the controller comes to the chosen configuration and later ENIs get it |
| `metrics` | 2 agents that are only logged, or 1 that is submitted; restarts of agents and helper; sizes scaled to 2 and 2; fair | sums and maxima are of this poll; one process of the helper counts an event once; each data point is queued, being sent or was put into one request, and gets there unless the process stops, restarts or panics first |

Where a module has a proved type invariant that no run names, it is not checked again.

`UsesStoreAsProved` ties the modules together. It is `DataStore`'s specification as a property of
`Ipamd`: what is proved of the store holds in the composition, as the pool manager never does what the
store's model excludes, such as pooling one address on two ENIs.

**Bounds.** Two pods are enough for two holders of one address and for a DEL that races an ADD. Two
secondary addresses let one cool while the other is in use. In `datastore` a third ENI lets one be freed
while another carries the warm target. `IMDSMaxLag` of 2 exceeds the reconcile interval and the cooldown,
so that stale listings are met after both have expired. Ages stop at `Forever`, past the longest period, so
no comparison changes its outcome beyond it. The capacity of an ENI is 1 with two ENIs and 2 with one.

In `CNIPlugin` a third sandbox lets one pod be set up again while another pod takes the address of the first.
One restart is enough in `Recovery`, as a restart clears all of the agent's state; with one address any wrong
entry in the pool goes to the other pod. Three ENIs with a limit of two on the instance leave one to be
created in vain. Two failures and a late detachment stay below the 4 tries of `deleteENI`: with more
failures than tries an ENI is left behind, by design of the bounded retry. In `HostNetwork` three CIDRs make
chains of length one to three, so that a rule moves between chains, becomes the last and stops being it; the
3 configurations between them change every setting and every place in the list. The theorems have no bound.
`ENIConfig` has one node; that events of other nodes change nothing is part of the theorem `ConfigsCurrent`.
In `Metrics` 5 data points fill two requests and a half and take the scaled slice through its growth, and two
events are enough for a reset to a lower value and for a poll that finds nothing new. The two agents are
only logged, as the publisher's state does not depend on how many there are.
`CHECK_DEADLOCK FALSE` is set in `discovery`, where a bounded number of pod changes is over.

**Fairness.** `IpamdFairSpec` has weak fairness of the pool manager, whose loop never blocks or exits, of
IMDS, which catches up, and of time. There is none for RPCs: pods may come and go or not. `ipamd_live`
takes EC2 calls to succeed, since a service that always fails lets nothing be promised; a
subnet without addresses and an instance at its limit are still errors.

The other fair specifications:

- `PluginFairSpec`: a teardown or release that runs goes on, kubelet retries DEL and gets through to the agent
  in the end, and cooling ends.
- `DiscoveryFairSpec`: the informer and worker goroutines run.
- `RecoveryFairSpec`: the goroutine of `nodeInit` runs. Nothing is assumed of the informer: it may never be synced,
  and then the agent is started again and again, as in the code.
- `ENIFairSpec`: the goroutine runs, EC2 finishes detachments, a dead agent is started again. EC2 need not
  ever answer well.
- `ENINetworkFairSpec`: the goroutine that sets up runs. The interface need not appear.
- `ENIConfigFairSpec`: the handlers run. Taking an object from a queue is strongly fair: a queue served in order
  gets to each entry although the resync adds others, and the model leaves the order open. None is assumed of the
  pool manager, which need not ever make an ENI.
- `FairSpec` of `Metrics`: the monitor's ticker ticks and its requests end. None is assumed of `Handler`.

**Idle churn.** `Settles` is checked for WARM_ENI_TARGET=1. With WARM_ENI_TARGET=0 it fails: an idle node
with an empty pool allocates an ENI, finds that one idle ENI is one too many, frees it, and starts again.

## Sentences the code does not keep

Each of these is a sentence of the repository, stated as a property in the module; with the constants given
here TLC finds a behaviour that violates it. They are no runs, except for `recovery_del`: once known, a
counterexample need not be looked for again. Below the table are the theorems on when they hold.

| Property, module | The sentence | What happens | Constants |
|---|---|---|---|
| `GonePodsReleased`, `Recovery` | recovered pods are known by name, `rpc_handler.go:97` | they are recorded with a container ID that no DEL names | `recovery_del` |
| `TotalIPsGauge`, `DataStore` | help text of the gauge, `data_store.go:72` | `RemoveENIFromDataStore` lowers `total` and not the gauge | of `datastore` |
| `PodsHoldAssigned`, `DataStore` | "true if it is assigned to a pod", `data_store.go:103` | two pods listed with one address; the DEL of one clears the flag under the other | `PodIPsShared` |
| `PrimaryIPNotForPods`, `Ipamd` | the primary address is not used by pods, `docs/cni-proposal.md:41` | `SetupENINetwork` fails, `c.primaryIP` has no entry, the next reconcile pools the primary address | of `ipamd` |
| `MaxENIKept`, `Ipamd` | MAX_ENI is the maximum attached, `README.md:186` | an ENI that `waitENIAttached` gave up on is attached and not counted | 3 ENIs, MAX_ENI of 2, `AttachTimesOut` |
| `ConfirmedIPsPooled`, `Ipamd` | confirmed addresses are added to the pool, `docs/cni-proposal.md:203` | with the instance at its limit, each failed try to attach another ENI counts as a pool action and puts the reconcile off, so the ENI that turned up late is never adopted | of `ipamd_live`, with `AttachTimesOut` and nothing detached outside |
| `LeavesByItsENI` without its condition, `CNIPlugin` | each ENI's own table routes its pods, `docs/cni-proposal.md:105` | a from rule left by a failed DEL or ADD is met first by the next pod with the address, now on another ENI | "moves" and "kernel" together |
| `CNIPodsConverge`, `Discovery` | the list of CNI pods, `discovery.go:103` | pods are added by name and deleted by namespace/name | of `discovery` |
| `OnlyLocalPods`, `Discovery` | "the list of pods running on the local nodes", `discovery.go:166` | a pod is deleted and its name used on another node before the worker has seen the deletion: `handlePodUpdate` leaves the old entry (`discovery.go:245`) | of `discovery` |
| `LocalPodsComplete`, `Discovery` | the list of local pods, `discovery.go:166` | `synced` is set before the worker has recorded them | of `discovery` |
| `RunningRecorded`, `Recovery` | the pool holds available addresses, `docs/cni-proposal.md:194` | `nodeInit` ends without an error and without pods when `GetRuleList` fails; it skips a pod without a container ID; it does not wait for the worker | any one lapse |
| `CoolingOutlivesRestart`, `Recovery` | a deleted pod's address cools, `docs/cni-proposal.md:215` | not over a restart | of `recovery_del` |
| `DiesWithInstance` without its condition, `ENILifecycle` | the ENI is deleted with the instance, `awsutils.go:561` | the attribute and the clean-up fail; the ENI is adopted later | 2 failures |
| `AllocENIReturnsENI`, `ENILifecycle` | `AllocENI` returns the new ID, `awsutils.go:545` | a shadowed error: an empty ID and no error | 1 failure |
| `NeverPanics`, `ENILifecycle` | `FreeENI` detaches and deletes, `awsutils.go:714` | an ENI without attachment is dereferenced | "detach" |
| `SourceFitsENI` without its condition, `HostNetwork` | rules are updated when the configuration changes, `ipamd.go:358` | an error between delete and add is only logged | of `host_network` |
| `ExcludedStaysExcluded`, `HostNetwork` | CIDRs excluded from SNAT, `README.md:157` | new rules are appended before stale ones go, and the mixed chains translate an excluded destination | of `host_network` |
| `NodePortRulesGone`, `HostNetwork` | NodePort support adds rules, `network.go:72` | without it the interface is taken to be `eth0`, and a rule of another name stays; so do the rules of an earlier mark | of `host_network` |
| `PooledIsRouted`, `ENINetwork` | addresses come after the network, `ipamd.go:680` | the reconciler pools the addresses of an ENI whose set-up failed | of `eni_network` |
| `MadeWithOwnConfig`, `ENIConfig` | the annotation names the ENIConfig, `README.md:121` | the first ENI is made before the controller has seen its node | of `eni_config` |
| `PublishesIncrease`, `MetricsHelper` | a counter's delta, `metrics.go:170` | it is taken after each pod | of `metrics` |
| `FirstPollSkipped`, `MetricsHelper` | "Skipping 1st poll after reset", `metrics.go:450` | it is published, so that a new process of the helper counts again all that its predecessors did | of `metrics` |
| `SendsAnyNumber`, `Publisher` | any number of points, `publisher.go:55` | the last request of a grown slice is sliced past its capacity: 221 points in a slice of 224 with the real sizes | of `metrics` |

For most of them a condition under which the sentence is true is proved, so that what breaks it is bounded:

| Property | Holds | Theorem |
|---|---|---|
| `TotalIPsGauge` | as far as that the gauge never shows too few; the other gauges are exact | `GaugesShowStore` |
| `PodsHoldAssigned` | if the API server lists an address for one pod | `PodTableSafe` |
| `PrimaryIPNotForPods` | if `SetupENINetwork` does not fail | `PrimaryIPsKept` |
| `MaxENIKept` | if EC2 calls do not fail and `waitENIAttached` does not give up | `MaxENIRespected` |
| `LeavesByItsENI` | if addresses stay on their ENI, or nothing fails | `PodsLeaveByTheirENI` |
| `RunningRecorded` | if nothing lapses | `RecoveredPoolIsAvailable` |
| `DiesWithInstance` | with at most one failure per call, enough tries, and nobody else attaching ENIs | `ENIsDieWithInstance` |
| `AllocENIReturnsENI` | if no call fails | `AllocENIReturnsItsENI` |
| `NeverPanics` | if nobody else detaches and the tries exceed the refusals | `FreeENINeverPanics` |
| `SourceFitsENI` | if `GetRuleList` and `UpdateRuleListBySrc` do not fail | `SourceAddressFits` |
| `ExcludedStaysExcluded` | whenever `SetupHostNetwork` is through | `ExcludedWhenServed` |
| `NodePortRulesGone` | if the primary interface is `eth0` and the mark never changes | `NodePortRulesRemoved` |
| `PooledIsRouted` | unless `setupENI` failed | `PooledAfterNetwork` |
| `MadeWithOwnConfig` | while the controller has nothing queued or at hand | `IdleControllerIsRight` |
| `SendsAnyNumber` | while the slice has not grown | `NoPanicWithinSlice` |

`PoolOnlyFromEC2` of `Ipamd` joins them when `AddressesReused` is true. The comment at `ipamd.go:507` has freed
addresses left alone "for at least ipReconcileCooldown", and the reconciler then to "Verify that the IP really
belongs to this ENI". The cooldown cache is keyed by the address alone. With WARM_IP_TARGET of 1, two
ENIs and an IMDS that lags longer than the cooldown:

1. an address is taken from the first ENI and put into the cache;
2. EC2 assigns it to the second ENI while IMDS still lists it on the first;
3. the reconciler marks the second ENI, EC2 confirms, and the address leaves the cache (`ipamd.go:966`);
4. it marks the first ENI and pools the address there as well, without asking EC2.

The attempt to prove `PoolOnlyFromEC2` without a condition is what showed which condition it needs: not a bound
on the lag, only that step 2 does not happen.

Cooling is another. "When a Pod is deleted, we will keep the Pod IP address in "cooling mode" for cooling period"
(`docs/cni-proposal.md:215`), and `addressCoolingPeriod` is "used to ensure an IP not get assigned to a Pod if this IP
is used by a different Pod in addressCoolingPeriod" (`data_store.go:32`). With a clock for each release beside the
variables of `DataStore`, or of `Ipamd` with WARM_IP_TARGET of 1 and an IMDS that lags, TLC finds that an address is
leased again before its period is over, without a restart:

1. a pod is deleted and its address cools;
2. the address leaves the store, as only `Assigned` keeps it: `decreaseIPPool` frees it and `DeallocIPAddresses` fails
   (`ipamd.go:501`), or the reconciler sweeps it because IMDS does not list it (`ipamd.go:995`);
3. it is still on the ENI, and `addENIaddressesToDataStore` adds it again (`ipamd.go:674`), without `UnassignedTime`;
4. an ADD takes it.

`KeepsLeaseContract` has these steps as `Recall`, `Offer` and `Lease`. What it promises of cooling is what remains: an
address that stays in the store is not leased before its period is over.

## Proofs

Each theorem holds for every value of the constants that the named assumption of its module allows. Every safety
property of the passing runs is proved, the refinements included.

| Module | Theorem | Says |
|---|---|---|
| `DataStoreProofs` | `StoreAccounting`, `StoreTypes` | `TypeOK` and `Accounting` always hold, whatever the callers do |
| | `PodTableSafe`, `OnePodPerAddress`, `AddressesComeBack` | under `Discipline`, `PodsHoldAssigned`, `OneHolder` and `NoAddressLeaked` always hold |
| | `ScanHidesNothing` | `RefusedOnlyWhenEmpty` always holds |
| | `DeletedENIsIdle` | under `Discipline`, `DeletableIsIdle` always holds |
| | `WarmTargetSurvives` | `WarmIPTargetKept` always holds |
| | `GaugesShowStore` | the gauges of ENIs and assigned addresses are exact, that of all addresses is never too low |
| | `StoreKeepsLeaseContract` | under `Discipline`, `DataStore` implements `PodIPLease` |
| `IpamdProofs` | `PoolFollowsEC2` | under `NodeDiscipline`, `PoolOnlyFromEC2` always holds |
| | `NodeUsesStoreAsProved` | under `NodeDiscipline`, `Ipamd` implements `DataStore` |
| `NodeProofs` | `NodeStateWellFormed` | `IpamdTypeOK` always holds |
| | `NodeCountsExactly` | `Accounting`, `RefusedOnlyWhenEmpty` and `WarmIPTargetKept` hold of `Ipamd`, under no condition |
| | `NodeKeepsPodTable`, `NodeFreesIdleENIs`, `NodeKeepsLease` | under both disciplines, what is proved of the store with `Discipline` holds of `Ipamd` |
| | `PodsKeepTheirAddresses` | under both disciplines, every pod's address is one that EC2 has on the ENI recorded for it |
| | `MaxENIRespected` | without failed EC2 calls and late attachments, `MaxENIKept` |
| | `PrimaryIPsKept` | without failed network set-ups, `PrimaryIPNotForPods` |
| `CNIPluginProofs` | `LeaseIsExclusive` | `PodIPLease` leases no address twice |
| | `PodsStayWired`, `PluginTypes` | `PodWired` and the types, with every fault |
| | `PodsLeaveByTheirENI` | `LeavesByItsENI`, which names its condition |
| | `KernelFollowsPods` | `KernelMatchesPods`, which names its condition |
| `RecoveryProofs` | `UpdatesReachWorkerPods`, `DiscoveryTypes` | `NoUpdateLost` and the types of `Discovery` |
| | `RecoveredPoolIsAvailable`, `PodsHaveOwnAddress`, `RecoveryTypes` | under `Prompt`, `PoolIsAvailable`, `OneAddressOnePod` and the types |
| `ENILifecycleProofs` | `PrimaryIsKept`, `DevicesDistinct` | `PrimaryKept` and `ENITypeOK`, with every fault |
| | `NoOrphanLeft`, `ENIsDieWithInstance` | `NoOrphan` and `DiesWithInstance`, which name their conditions |
| | `FreeENINeverPanics`, `AllocENIReturnsItsENI` | what `NeverPanics` and `AllocENIReturnsENI` say, under the conditions above |
| | `ENICallsBounded` | `AllocENI` and `FreeENI` end after at most 7 + 2 `maxENIDeleteRetries` EC2 calls |
| `NetworkProofs` | `HostNetworkTypes`, `RulesFollowConfiguration`, `SourceAddressFits` | `HostNetworkTypeOK`, `RulesAsConfigured` and `SourceFitsENI` |
| | `ExcludedWhenServed`, `NodePortRulesRemoved` | what is excluded from SNAT is excluded on a served node; with `eth0` and one mark no connmark rule outlives NodePort support |
| | `SetupComplete`, `SetupTypes` | `SetUpCompletely` and the types of `ENINetwork` |
| | `PooledAfterNetwork` | an address is pooled after its ENI's network is complete or its set-up failed |
| | `SetupBounded` | each netlink call brings `setupENI` closer to its return or is a failure |
| | `ConfigsCurrent`, `ConfigTypes` | `CacheIsCurrent` and the types of `ENIConfig` |
| | `IdleControllerIsRight` | an ENI made while the controller is idle is made as the node selects |
| `MetricsProofs` | `PointsSentOnce`, `ProcessStateWellFormed` | `SentOnce` and `ProcessTypeOK`, for every size and growth of a slice |
| | `ProcessCountsOnce`, `PollsPublishAggregates` | `CountedOncePerProcess`, which is about one process of the helper and a cluster with one pod, and `GaugesAggregated`, for any pods |
| | `NoPanicWithinSlice` | `SendsAnyNumber` while no more data points wait than the slice was made for |

### The store

`Discipline` is `~PodIPsShared /\ ~ENIIPsShared`; with `PodIPsShared` TLC refutes `PodsHoldAssigned`.

The argument for the store has two inductive invariants. `StoreInv` adds `ENITimeCovers` to the type invariant and the
accounting: an ENI's `lastUnassignedTime` is never older than an address's of its pool, which is what
makes one time stamp per ENI enough for `hasIPInCooling`. `PodTable` adds `OnePool` to the three
statements about pods: an IP is in one pool. Without it `UnassignPodIPv4Address`, which looks for the IP
in all pools, could clear the flag of another ENI's entry. Each operation has a lemma that it preserves
`StoreInv`. Operations that leave pods and assigned addresses alone share one lemma for `PodTable`, and
assign and unassign have their own. `ScanHidesNothing` follows from `StoreInv` alone: if the counter
equals the size of the pool, every address of the pool is assigned. `DeletedENIsIdle` needs both.
`WarmTargetSurvives` needs that the sum over the other ENIs' counters is the number of their free addresses
(`SumOfFree`), by induction over the set of ENIs. `GaugesShowStore` goes over the operations: each sets the gauge of what it
changes, but for `RemoveENIFromDataStore`, which lowers `total` alone.

The refinement adds one more fact, `FreshBeforeServing`: until `nodeInit` is over no address was given back,
so that the address of a recovered pod is on offer in the lease when the store assigns it. Each operation is
then one step of the lease or none: `AddIPv4AddressFromStore` offers, an assignment leases, an unassignment
releases, `Tick` ends the cooling of a set of addresses, a deletion withdraws or recalls.

### The pool manager

`NodeDiscipline` is `~AddressesReused /\ ~DetachedOutside`; with either of them TLC refutes `PoolOnlyFromEC2`. No
bound on the lag of IMDS, on the cooldown or on the number of failures is assumed.

`IpamdInv` has three parts besides the store's `StoreInv` and the types:

- `ControlInv`: where the goroutine is. Before `nodeInit` is over nothing serves; a list read from IMDS is at hand
  only in `nodeInit` and in a round of marking; addresses are deleted and not yet given back at two statements only.
- `Behind` and `AtHand`: the store has only what EC2 has; what the statement at hand is about to add is EC2's,
  and what it is about to give back has left the store. RPCs interleave and never add to a pool.
- `Stale`: an address that IMDS reports, or reported when the round of marking began, on an attached ENI is there or
  is in `reconcileCooldownCache`, and no other ENI has it. It is this that lets the mark phase pool what is not in
  the cache without asking EC2, and that breaks when an address is reused too early.

`NodeUsesStoreAsProved` follows from `IpamdInv`: every step is an operation of the store or leaves it alone, and
an address that enters a pool is in no other, since EC2 has it on one ENI. `NodeKeepsPodTable`, `NodeFreesIdleENIs` and
`NodeKeepsLease` then take the store's theorems over to the agent without looking into it again, and
`PodsKeepTheirAddresses` follows from the pod table and `PoolOnlyFromEC2`. `NodeCountsExactly` does not go through
the refinement: `StoreInv` is preserved by every step of the agent, also where `NodeDiscipline` fails.

`MaxENIRespected` needs that the ENIs which the store counts are those attached. `AttachedInv` says so where
`increaseIPPool` decides, with what the pool manager still has at hand while it sets up, compares or sweeps, and
`CountInv` counts. `PrimaryIPsKept` rests on `PooledInv`: an ENI of the store has its primary address in
`c.primaryIP`, or `setupENI` is about to record it before anything can pool it; and on `ListedInv`: EC2 and IMDS list
nothing of an ENI but its own primary address and secondary ones.

### The other components

- *Plugin.* `PodWired` is not inductive. `Wiring` says what each step of an ADD has done so far. That no other
  process undoes it rests on `LeaseSide`: the lease is exclusive, the address of a teardown is neither on
  offer nor leased (cooling), and one sandbox of a pod is set up at a time. The other two properties rest on
  `Owned`, which goes from the kernel to the processes. A from rule names the table of the ENI its address is
  on, unless addresses move. While nothing fails, each rule and route has a process that set it and has not torn it
  down, and no two processes are at work with one address.
- *Recovery.* `Prompt` is `~RuleListFails /\ ~StatusLags /\ ~WorkerLags`; with any one of them TLC refutes
  `RunningRecorded`. `RecoveryInv`
  follows the address of each running pod: the API server has it (`ObjectsTold`), then `usedIPs`
  (`BeingRecovered`, `NoneLeftOut`), then `podsIP` (`RecordedOnce`). Listed pods that are gone are no harm: an entry
  of theirs keeps an address from being handed out, and never frees one.
- *ENIs.* `PrimaryInv` says that device 0 stays the primary ENI's, so that a restarted agent
  recognises it, and that no call in progress is about it. `TidyInv` says that only the call in progress owns an
  ENI that is not in use, and counts its tries against EC2's refusals; the condition `TriesSuffice` is that
  the failures of a call and the lag of a detachment are fewer than `maxENIDeleteRetries`. `CalmInv` says that an
  ENI without the attribute is the one of a call that frees it and can fail no more. `callsLeft` bounds the EC2 calls yet
  to come and falls with each.
- *ENI network.* `Progress` says what each netlink call may rely on when it is reached, whatever was there before.
  `stepsLeft` bounds the netlink calls yet to come and falls with each that does not fail.
- *Host network.* `HostNetworkInv` is about what is yet to be executed (`PlanCovers`): each pending call does what the
  configuration wants of its rule, and each rule that is there and not wanted, or wanted and not there, has a pending
  call or is out of reach. The order of the calls plays no part. `SourceAddressFits` then walks the chains by
  induction on their number.
- *Metrics.* The poll and the publisher share no variable and have invariants of their own. `PublisherInv` counts the
  data points of the slices, and `CapacityInv` says that what is left of a slice that was not grown is a whole number
  of requests. `CountInv` follows an agent's counter to what is published. `GaugeInv` says that the
  values at hand are the aggregates of the pods read so far; a sum over one pod more is the sum and the value, which
  takes an induction over the set.
- *ENIConfig, discovery.* The property is inductive together with the types.

Induction over data is done through sets, as the library's induction theorems cannot be instantiated: a set of
naturals that is not empty has a least element (`LeastNatural`), and a set of finite sets a minimal one. That gives
what `parsed`, the walk through the chains and the sums compute.

### Only model-checked

Liveness under fairness is out of the prover's reach: `PoolRefilled`, `Settles`, `DetachedForgotten`,
`FailedAddGivesBack`, `WorkerPodsConverge`, `EventuallyServes`, `CallsReturn`, `SetupReturns`, `NewENIsAsChosen` and
`PublishedIsSent`. Of `CallsReturn` and `SetupReturns` all but the fairness is proved: `ENICallsBounded` and
`SetupBounded` give a number that each step lowers, so that a call in progress returns if its goroutine goes on.

## Not modelled

`PROJECT.json` lists every part with its status. Left out, with the reason:

- generated code, mocks and the wrappers over netlink, iptables, EC2 and IMDS: no behaviour of their own;
- HTTP introspection, the Prometheus endpoint, the gRPC server's start and the health probe: they change no state;
- the limits table of instance types: data;
- the reads of instance facts when the agent starts, and the conversion of numbers in the
  environment: an error ends the process or gives the default;
- histograms in the metrics helper: no metric of `InterestingCNIMetrics` is one;
- `incrementIPv4Addr`, which computes the gateway's address;
- backoff with jitter: waiting is nondeterministic in the models;
- names, tags, security groups, log lines and formatting.
