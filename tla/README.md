# A TLA+ verification of imp

imp runs Firecracker microVMs as Kubernetes objects. Three kinds of process act on
them: one **operator** (controllers and webhooks), one **agent** per node (controllers
for the objects assigned to that node) and one **node runtime** per node, which owns the
Firecracker processes and which the agent calls over a Unix socket. They share nothing
but the objects in the API server, and each of them reads these through a cache that
lags. This directory models what they do to each other, checks it with TLC and proves
part of it with TLAPS.

Contents: [inventory](#inventory), [modules](#modules), [runs](#runs),
[refinement](#refinement), [proofs](#proofs), [disagreements](#disagreements),
[what the properties leave out](#what-the-properties-leave-out), [limits](#limits), [not modelled](#not-modelled), [next](#next).

## Inventory

State that matters to correctness is given per component.

### The virtual machine

| Component | State | Operations | Module |
|---|---|---|---|
| Operator `ImpVMReconciler` (`controller/impvm_controller.go`, `restart.go`) | finalizer, `spec.nodeName`, phase, restart count, `exhaustedAt` | schedule, assign, node loss, restart in place or elsewhere, exhaustion, reset, deletion with a timeout, expiry | `VMLifecycle` |
| Agent `ImpVMReconciler` (`agent/reconciler.go`) | phase, `runtimePID`, `startedAt`, suspend snapshot reference, `status.nodeName` | one handler per phase: claim and start, watch, suspend, resume, terminate | `VMLifecycle` |
| `FirecrackerDriver`, `noderuntime.Backend`, inventory | `procs` map, Firecracker processes, inventory record, API socket | Start, Stop, Inspect, Reattach, Snapshot, Get | `RuntimeDriver` |
| Runtime RPC (`runtimeapi`) | calls in flight | a call is served with a context of its own and survives its caller | `VMLifecycle`, `HostNetwork` |
| ImpVM webhook | none | rejects a change of `spec.nodeName` once set | `VMLifecycle`, `Placement`, `Sandbox` |
| Scheduler and capacity | cached nodes, profiles, VMs | filters, explicit capacity, then fraction and VM count | `Placement` |

Hard behaviours: a handler is several writes to two subresources; patches carry no
version; the copy a handler starts from may be old; the agent may die in a call that goes
on; the runtime may restart and forget its processes; a node may be lost and come back;
a deletion may arrive anywhere. To be right: a VM runs only where it is assigned, at most
once; a suspend never loses memory; an acknowledged deletion has cleaned up; every
deletion, start and node loss comes to an end; a node is not overfilled; a VM without a
node is tried again.

### The network

| Component | State | Operations | Module |
|---|---|---|---|
| `LeaseAllocator` | one Lease per address, cluster-wide | walk the subnet: create, or get on conflict; delete if held | `HostNetwork`, abstractly `AddressClaims` |
| `Allocator` | addresses and count per network, in the runtime's memory | reserve, release and report the last | `LocalAllocator` |
| `setupNetwork`, Stop's teardown | TAP devices, NAT rule | order of claim, TAP, NAT, boot; undo on failure | `HostNetwork` |
| `LinuxNetManager` | bridge, TAP devices, NAT rule, egress-deny chain with its jump and drops | look, then add or delete, command by command, with nft or iptables | `HostSetup` |
| `rootfs.Builder` | cached ext4 image and its temporary file | look up, build, rename | `HostSetup` |
| VTEP table, VXLAN FDB, operator's `ImpNetworkReconciler` | `status.vtepTable`, kernel FDB per node, Cilium pool and enrolment | register (versioned), deregister and collect (unversioned), sync, delete | `Overlay` |
| LAN attachments and their webhook | authorization, bridge, VLAN interface, TAP | admit, decide, revalidate, build, tear down if unused | `LANAttachment` |

To be right: a running VM keeps its address, its TAP, the NAT rule and its denied
destinations whatever other VMs do; a cached image is a finished one; a registered VM keeps
its entry; once everyone is idle the tables describe what runs; an authorization says what
the allowlist and the node say now.

### What is built on VMs

| Component | State | Operations | Module |
|---|---|---|---|
| Snapshots (operator and agent) | parent, child executions, files | serialization gate, retention, election, cron, execution | `Snapshots` |
| Migration, drain | migration phase, target VM | snapshot, restore elsewhere, delete the source | `Migration` |
| Runner pools, warm pools | members, Secret, reference | count and create, mint, roll back | `RunnerPool` |
| Runner handoff | accepted marker, exit code, guest | launch exactly one runner, record its end | `RunnerLaunch` |
| Scale to zero | wake registry, event channel, traffic samples | idle, suspend, capture, wake | `ScaleToZero` |
| Memory pressure | `desiredState`, annotation | suspend one victim at a time | `Pressure` |
| Sandboxes | network, subnet index, backing VM, session Secret | admit, allocate a subnet, ensure objects, delete | `Sandbox` |
| Sandbox gateway | calls, guest sessions | authorize, open, work, close | `SandboxGateway` |

## Modules

| Module | Models |
|---|---|
| `RuntimeDriver` | the runtime's bookkeeping for one VM on one node, as operators on a record |
| `VMLifecycle` | one ImpVM object, operator, all agents, all runtimes |
| `HostNetwork` | claims, allocator, TAPs and NAT of one isolated network on all nodes |
| `LocalAllocator` | the runtime's `Allocator`, as operators on a record; `HostNetwork` and `HostSetup` extend it |
| `HostSetup` | the commands of Start and Stop on one node: image, bridge, TAP, NAT, egress denies |
| `AddressClaims` | what the claims promise, without nodes or failures |
| `Overlay` | the VTEP table, FDBs and Cilium objects of one network |
| `Placement` | the scheduler beside the handlers that change what a node holds |
| `LANAttachment` | attachments and their host networking; extends `Placement` |
| `Snapshots`, `Migration` | executions of snapshots, and a migration made of one |
| `RunnerPool`, `RunnerLaunch` | the operator's pools, and the agent's handoff to their members |
| `ScaleToZero`, `Pressure` | the agent's suspending and waking, and the operator's sweep beside it |
| `Sandbox`, `SandboxGateway` | the sandbox controller, and the calls into its guests |
| `VMLifecycleProofs` | theorems about `VMLifecycle` |
| `AddressClaimsProofs`, `HostNetworkProofs` | theorems about the claims, and about `HostNetwork` with the refinement |
| `HostSetupProofs`, `EgressProofs` | theorems about `HostSetup`: the image cache, and the egress rules |
| `MigrationProofs`, `RunnerProofs`, `SandboxProofs` | theorems about `Snapshots` with `Migration`, the runner pools with the handoff, the sandboxes with their gateway |
| `MC...` | constants, scopes and symmetry for TLC |

The pairs are compositions: the second module extends the first with another actor on the
same objects, and the runs check both together.

### Conventions

A handler is one action up to its first write or runtime call that others can see, and one
more per further write, because other actors can act between two of them. The first action
includes the cached read and every early return as a guard. `client.MergeFrom` patches send
the fields that differ between the copy read and the copy modified and replace the server's
whatever version it has (`Merge` in `VMLifecycle`, `Write` in `Placement`); this is how an
old copy overwrites newer state, and also why it often does not.

In `VMLifecycle` a cache holds any earlier version until `Deliver` brings it up to date. In
the later modules a cache is `Live` or the frozen copy it has had since it began to lag;
beginning to lag is one of the bounded disturbances, and catching up delivers the events.

Clocks are left out: a deadline may have passed whenever the timestamp it is compared with
is set. A delayed requeue is a member of the queue. Exceptions: `Snapshots` has seconds (an
execution is named by one) and the five seconds before a tick; `ScaleToZero` counts probe
intervals.

Variables marked "history" record that a decision was made on an outdated copy, or that an
error was ignored by the code. The properties name the cases they exclude through them, so
that what is excluded is exactly what the code gives up.

Settled-state properties (`OverlaySettles`, `PoolSettles`, `ExecutionsSettle`,
`RunningMeansWorking`, `AuthorizationFollows`, `SandboxSettles`, `StaysWakeable`) say what
holds when no handler is under way, nothing is queued and every cache is live. As every
queue is served in the end, this is the safety half of "converges".

### VMLifecycle

`vm` is the object in the API server, reduced to the fields some handler branches on.
`op` and `ag[n]` are the workers: where a handler stands and the copy it works on. `rt[n]`,
`snap[n]` and `orphan[n]` are the runtime of node `n`, the suspend directory on its disk,
and a Start call whose agent is gone. A second write that fails ends the handler
(`OpLastPatch`, `AgLastPatch`). A write that could fail after earlier work has
`OpAbandoned` or `AgAbandoned` for a failure in flight or a crash. `handleTerminating` only
logs that it could not remove the suspend directory and acknowledges all the same, so
`AgTerminating` may leave it. `AgRunning` is the whole
of `handleRunning` after the suspend check. Restart back-off only delays; scheduling takes
any ready node (`Placement` has the choice).

### HostNetwork

`lease` is shared; `local`, `procs`, `live`, `tap` and `nat` are per node. `calls[n]` has
two slots: the call of the node's agent, which makes one at a time, and a call whose agent
died. `Start` claims an address step by step (`ClaimCreate` tries one address, `ClaimGet`
looks at the Lease that was in the way), then sets up the TAP, the NAT rule and the
allocator entry (`SetupNetwork`), then boots; a failure takes the deferred cleanup's path
(`UndoClaim`, `UndoLocal`). `Stop` is five steps, as the locks of the code do not span
them. `vm[v].mem` is the guest address inside a suspend snapshot: a resumed guest keeps the
address in its memory. `overlapped`, `leftover` and `crashed` are history: VMs that had two
calls at a time, or a call while a process of theirs was left elsewhere; a VM started while
the `procs` entry of an earlier start was still there; an agent that died in a call.

### HostSetup

`HostNetwork` takes the host's side of a Start as one step; here every netlink, nft and
iptables command is one, with the look-up it relies on before it. A command may fail
(`CommandFails`), and `OnError` says where the code goes on: the bridge, the TAP and the
denies end the Start, NAT and everything in Stop is best effort. Drops are added and
deleted one at a time; nft deletes by the handle it listed, iptables the first rule that
reads the same. `Printed` is what a backend makes of a CIDR as the network spells it: nft
prints a /32 without its length, so the code does not find it again. `img` is the cache:
`dest`, which a later Start uses when it is there, and the temporary file, which all builds
of an image share. A build that renames or removes the file leaves another's `mke2fs` with
the file it has open (`Moved`). The rename may fail as any step of the build; the file is
then removed. `kept[v]` is what every deny list since the start of `v`
denied; `raced`, `shared`, `doubled`, `overlapped` and `leftover` are history and name what
the properties exclude: two calls on the network at once, two builds at once, equal rules
found in the chain, two starts of one VM, a start over the entry an earlier one left.

### Overlay

`table` is `status.vtepTable`. `Register` patches with the optimistic lock and retries; the
deregistration of a handler and the operator's collection replace the whole table from a
cached copy. `job[n]` is the handler an agent is in, `view[n]` and `seen[n]` what its caches
show of the network and of its VMs, `opNet` and `opVMs` the operator's. The ImpVM worker and
the network controller of an agent are two goroutines (`Syncers`): each reads the table
(`got[n][w]`) and applies it to the kernel's FDB in a later step, with no lock between them.
`SyncFDB` adds missing MACs and removes others; it does not update a destination. `pool` and `cew` are the
Cilium pool and enrolment.

### Placement and LANAttachment

`Schedule` is a composition of operators named after the code's helpers: filters, free
explicit capacity, caps, choice. `via[v]` records which rule placed a VM. A reconcile that
writes twice is cut (`work`). `LANAttachment` adds the webhook (`ValidateSpec`,
`ValidateDelete`), the controller's decision with its watches, and what Start and Stop do to
bridge, VLAN interface and TAP of a node. A group name is a sequence of parts that are free
of commas: the webhook joins the requester's groups with commas into one annotation and the
controller splits it again, so a name of several parts comes back as several names.

### Snapshots and Migration

Parents and children are one kind of object and share a cache. The gate, retention and
election are operators on what the cache shows. The agent's execution is cut at the driver
call and the patches. The VM is on a node, on none yet, or gone; `adrift` is history and
holds the executions that no agent will take up: created for a VM without a node, under way
when it moved, or passed over on an outdated copy of it. The migration's own snapshot is a
parent without a label, so all of `Snapshots` acts on it. The migration's handlers go by
cached copies of the migration (`migCache`) and of the target (`tgtCache`), and
`HandlePending` may fail between its three writes.

### RunnerPool and RunnerLaunch

A member is created in three writes with a rollback. `launch[v]` is the goroutine of
`Launcher.Run`, cut at every call: read the Secret and dial, record the acceptance, Exec,
wait, record the outcome, delete the Secret, mark the VM. The key that keeps a second launch
away is released when `Run` returns, before the mark. A VM whose configuration is read
without a VSOCK path is marked Failed in the reconcile itself. A Failed member may be put
back by the operator's restart policy (`returned`), after the pool gave its place away.

### ScaleToZero and Pressure

`reg` is `WakeRegistry` with its two maps and the signalled set, `channel` its bounded event
channel, `batch` a poll's answer on its way. An idle suspend is cut between the probe of the
TAP's counters and the patch of the phase (`PatchSuspending`), and after the driver's Stop
and the patch, where traffic, the activator or a user comes in. `Pressure` adds the sweep,
which any change of a node queues.

### Sandbox and SandboxGateway

Subnets are intervals of addresses; `OccupiedIndices` and `FreeIndices` follow the
arithmetic of the code for any prefix length. The reconcile is cut at every API call.
A sandbox may name a network of its own (`networkRef`) and needs no subnet then.
`Validate` is the sandbox webhook, `ValidateImpVM` the ImpVM webhook it has to agree with. A
call of the gateway is cut at authorization, opening, work and close; a session lives in the
guest, which lives as long as the VM's process.

## Runs

Every disturbance (a crash, a failed write, a process exit, a node change, a user's
request, a cache that begins to lag) uses up one of `MaxEvents`; `Env` selects the kinds
that may happen, so that a run can afford the depth its question needs.

| Run | Instance | Checks |
|---|---|---|
| `vm_lagging` | 1 node, lagging caches, failed writes and starts, exits, timeouts, suspends, deletion; 2 events | `TypeOK`, `AcknowledgedIsCleanedUp`, `SuspendedHasSnapshot`, `StopsOnlySnapshotted` |
| `vm_assignment` | 2 nodes, lagging caches, agent crashes, runtime restarts, node loss, deletion, webhook on; 1 event | `OnlyAssignedNodeRuns`, `AssignmentIsShared` |
| `vm_liveness` | 2 nodes, crashes, errors, node loss, timeouts, deletion, reset, webhook off; 3 events | `DeletionCompletes`, `StartResolves`, `NodeLossReschedules` |
| `net_claims` | 2 nodes, 2 VMs, 2 usable addresses, all disturbances; 2 events | `TypeOK`, `OwnedKeepsItsNetwork`, `NATKeptWhileOwned`, `ClaimsHandedOver` (the refinement) |
| `host_setup` | 1 node, 2 VMs, 1 image, both backends, 3 deny lists; 2 events | `CacheWhole`, `EgressKept`, `EgressReconciled` |
| `overlay` | 2 nodes, 2 VMs, 2 addresses, Cilium present; 2 events | `RegistrationKept`, `OverlaySettles` |
| `placement` | 2 nodes (one tainted), 2 VMs, 5 specs, 3 node profiles; or attachments with 3 definitions, 4 users, 2 groups; up to 2 events | `CapacityKept`, `UnplacedIsRetried`, `AuthorizationFollows`, `GrantOutlivesInterface`, `UplinkKept` |
| `snapshots` | 2 nodes, a VM on one or on none, a scheduled snapshot or a migration, retention 1, 2 seconds; 2 events, a migration 1 | `OneExecution`, `SucceededHasArtifact`, `BaseResolves`, `ExecutionsSettle`, `SourceOutlives` |
| `runners` | 2 VMs; a polling pool of 1, a webhook pool of 2, a warm pool of 1; 2 events, the pool of 2 has 1 | `PoolBounded`, `PoolSettles`, `HandedOverOnce`, `RunningMeansWorking` |
| `wake` | 2 VMs, 2 addresses, channel of 1, idle timeout of 1 interval; 2 events, 3 with one victim of memory pressure | `StaysWakeable`, `PressureHolds`, `IdleGrace` |
| `sandbox` | 2 sandboxes, 4 slots, 5 foreign prefixes, 4 specs, 1 call; 2 events | `AdmittedGetsVM`, `SandboxSettles`, `RightGuest`, `AllocationExact` |
| `shared_disk` | 2 VMs, no disturbance; expected violation | `DisksIsolated` |

What they show, in a sentence each, is in `PROJECT.json`. Every property has a mutant: a
plausible bug in one definition under which the same run finds it violated. `TypeOK` is
checked by `vm_lagging` and `net_claims`; in the other modules it documents the state.

**Bounds.** `MaxPid` bounds the Firecracker processes of a behaviour: with 2 there is one
start and one restart, which is what a second process, a stale snapshot or a process on
the wrong node needs. A boot beyond it fails (`StartRefused`), so the bound produces an
error the code handles and not a dead end. Two nodes are enough for an assignment to be
wrong. Two VMs and two free addresses (a subnet of 5 with its gateway) are enough for a
claim to be in another's way, to be given back and to be taken over, and for the subnet
to be full. `vm_assignment` gets by with one event because lagging caches and delivery
cost none there, and its properties are also proved without bounds.

Two events are what the deep cases elsewhere need: one cache begins to lag and something
happens that it does not show, or one step fails and its repair meets a second failure. Two
seconds and a retention of 1 let a snapshot be pruned while another is executed. A channel
of one is full with the first signal. Four slots and prefixes that cover half a slot, two
slots and the whole block give every kind of overlap. `MC` modules restrict combinations
that do not interact (a migration and a user's snapshot, placement and attachments, the
second sandbox and webhooks, two starts of one VM in `HostSetup`, and more than one event or
more than five rules beside two calls at once; in `runners` the operator's and the agent's
cache lagging together; in `overlay` two agents in the middle of a sync; in `placement` two disturbances of attachments with an untagged
definition); what each leaves out is written there (`InScope`). A pass of a runner pool
chooses among the numbers of VMs it may find missing (`Creations`) and not among the
answers of queue and webhook that lead to them, which are many more.

Deadlock is not checked: when the events are used up and everything is settled or gone,
nothing is left to do. `wake` is the exception, as time goes on there.

**Symmetry.** Nodes, VMs or both are permuted where no action, constant or property tells
them apart, and in no run that checks liveness.

**Fairness** (`FairSpec` of `VMLifecycle`, of `Migration` and of `Sandbox`; the last two are
used by disagreements only): weak fairness of the
operator's and every agent's steps, of returning runtime calls and of cache delivery; in
`Migration` of the reconcilers' queues and of passing time. Controller-runtime requeues a
failed request, resyncs, and delivers watch events, and a runtime call returns; a handler
that waits asks for `RequeueAfter`. Nothing is assumed of the environment: disturbances
happen or not. Timeouts are part of the operator's and the agent's steps, since the clock
passes every deadline. The weak fairness is on a whole controller, not on each of its
actions, so a controller that always has something else to do may starve one of them; the
liveness properties hold all the same.

## Refinement

`AddressClaims` says what the claims promise: an address is free or has one holder; a VM
takes a free address (`Claim`), begins to use one it holds (`Use`), ceases to (`Cease`,
several VMs at once when their host fails) and gives up one it does not use (`Yield`).
`HostNetwork` implements it (`ClaimsHandedOver`) with `holder <- lease` and, as the address
a VM uses, the one in the `procs` entry of its living process, on whatever node (`UsedBy`).
Everything between, such as the walk over the subnet, TAPs, cleanups after failures,
orphaned calls and restarts, is a stutter. A VM that was started a second time while
something of its first start was left maps to one that uses no address: its two calls share
one holder name, so either may release what the other uses, and the claims promise it
nothing.

## Proofs

`VMLifecycleProofs` proves, for every set of nodes, restart policy, set of disturbances
and bounds (assumptions: `NoNode` is no node, the absent object is no object, the
constants have their types):

* **`TypeCorrect`**: `Spec => []TypeOK`. The type alone is not inductive: a step in the
  middle of a handler patches its copy, so the copy has to be an object. The inductive
  invariant `TypeInv` adds that a worker that is not idle holds one
  (`WorkersHoldObject`). The lemmas give the type of `Merge`, of every runtime operator
  and of the three forms of patch; then one step per action.
* **`AssignmentShared`**: with the webhook, `Spec => []AssignmentIsShared`.
* **`RunsOnlyWhereAssigned`**: with the webhook, `Spec => []OnlyAssignedNodeRuns`.

`OnlyAssignedNodeRuns` is the property that matters: an existing VM has processes only on
the node that `spec.nodeName` names. It is not inductive, as a Start call in flight, a
handler about to call Start, or a cache with an old assignment would each create a process
elsewhere. `AssignmentIsShared` says that none of these disagrees with the object, and is
inductive relative to `TypeInv`. The argument: the webhook makes `spec.nodeName` change
only from empty to a node (`PatchKeepsNode`, `LastPatchKeepsNode`), so every step keeps a
node that is set (`OpStepNode`, `AgStepNode`); an agent begins to act only when its copy
names its node, and a copy that names a node names the object's; a crash, a restart or an
orphaned call changes which of them acts but not for which node.

Without the webhook the theorem does not hold, which is why it is an assumption of it: a
lost node may come back with its process running while the VM runs elsewhere.

* **`MemoryKept`**: with the webhook, `Spec => []SuspendedHasSnapshot`. The invariant
  (`SnapshotInv`) extends the property to every copy: whoever sees the VM suspended, in a
  cache or in mid-handler, is right that its node has the snapshot, and nobody asks for
  termination before the deletion. Only termination and a completed resume remove the
  directory, and both are decided on such a copy.
* **`StopsWhatItSnapshotted`**: without crashes of an agent in a call,
  `Spec => StopsOnlySnapshotted`. Between snapshot and Stop the entry of the process stays
  the one that was snapshotted (`SnappedInv`). A Start left behind by a dead agent could
  replace it, hence the hypothesis; the run `vm_lagging` has none either.

`AddressClaimsProofs` proves **`HeldWhileUsed`**: in `AddressClaims` a VM uses only an
address it holds, for any VMs and addresses (assumptions: `NoIP` is no address, `Free` no
VM). The inductive invariant is the property with the types of the two variables.

`HostNetworkProofs`, for any nodes, finite set of VMs, subnet and number of disturbances:

* **`NetworkKept`**: `Spec => []OwnedKeepsItsNetwork`. Every VM outside `overlapped` is
  `Sound`: it has one call and one process at most, its entry names that process, a call
  past the claim holds the address it has come to, and an entry with a living process has
  its Lease and its TAP. The property alone is not inductive, since a Start between claim
  and boot, or a Stop between any of its five steps, has to be tied to what it holds. A step
  is judged once for its own VM and once, as `Stable`, for all others.
* **`ClaimsImplemented`**: `Spec => ClaimsHandedOver`, the refinement. From `NetInv` before
  and after: an address is given up only by a VM that does not use it, and a boot makes use
  of one that is held. With `HeldWhileUsed`, no two guests that the runtimes know the
  network of share an address, on any number of nodes.
* **`NATRuleKept`**: `Spec => NATKeptWhileOwned`. The allocator's count is
  the number of addresses it has, and among them is one of its own for every entry and for
  every call from boot to release (`NodeOK`), so a release that finds the count at zero is
  the last.

`HostSetupProofs` and `EgressProofs`, for any finite set of VMs, deny lists, both backends
and any way of printing a CIDR that leaves alone what is already printed and yields no NAT
or jump rule (`TextAssumption`). Handles are bounded by a guard: a rule is added only when
one of the `Handles` is neither in use nor remembered.

* **`CacheNotPoisoned`**: `Spec => []CacheWhole`. Inductive with: whoever writes has the
  temporary file open and to itself, and what is about to be renamed is whole (`CacheInv`).
* **`PolicyInstalled`**: `Spec => EgressReconciled`. A call past the listing has noted what
  is in the chain: everything it need not add any more has a rule it will not delete, and
  what it will not delete is on its list (`Syncing`).
* **`PolicyKept`**: `Spec => []EgressKept`. Added to that: the books agree with the calls and
  the entries (`BookInv`), so the rules are removed only when nobody needs them; and a list
  that is being installed covers what is owed to every VM (`ListCovers`).

`RunnerProofs`, for any finite set of VMs, pools, demand and number of disturbances:

* **`NeverReplayed`**: `Spec => []HandedOverOnce`. The marker is written before Exec, copies
  of it lag but are never ahead (`CopyBehind`), and a spent Secret is gone or was kept by a
  failed deletion (`SecretSpent`).
* **`CapHolds`**: `Spec => []PoolBounded`. The property is not inductive within a pass that
  creates several VMs: members that were not restarted, plus those still to be created, stay
  under the cap (`BoundInv`). A restarted member is beside the cap, and the theorem says
  that nothing else is.
* **`PoolRestsComplete`**: `Spec => []PoolSettles`. As long as members are missing the pool
  is queued, or its cache will queue it, or a pass is about to create one (`RestInv`).
* **`NoIdleRunner`**: `Spec => []RunningMeansWorking`. A Running member with a configuration
  and no runner at work is owed a reconcile, has a launch or a mark under way, or was
  restarted after its failure had been recorded (`WorkInv`).

`SandboxProofs`, for any sandboxes, calls and any block of subnets, slot size and existing
prefixes, as long as prefixes are masked and their sizes nest, as powers of two do
(`BlockAssumption`):

* **`SubnetsExact`**: `Spec => AllocationExact`, from the arithmetic of `OccupiedIndices`:
  the slots it marks are exactly those that overlap a prefix.
* **`AdmissionAgrees`**: `Spec => []AdmittedGetsVM`. Every copy of a sandbox, in the API
  server, the cache and the worker, was accepted once (`AdmitInv`).
* **`OwnGuestServes`**: `Spec => []RightGuest`. A session of a guest belongs to a call that
  showed the token of this guest (`GatewayInv`).

`MigrationProofs`, for any parents, nodes, retention and number of disturbances; a migration
beside any user's snapshots. A lemma (`Effects`) puts every step under one of six effects on
the objects (nothing, the clock, a cache, a child written, a job moved, a pass of the
operator), and the conjuncts of `IInv` are shown to survive each:

* **`GateSerializes`**: `Spec => []OneExecution`. A pass creates a
  child only when its copy shows none that has not terminated, and counts as decided on an
  outdated copy when the objects have one. The invariant (`Single`) says that two open
  executions of a parent are the same one; finite cardinality gives the property.
* **`SuccessIsStored`**: `Spec => []SucceededHasArtifact`. A job about to report success has
  the whole artifact on its node, and no job works on a child that has it (`ArtInv`).
* **`BaseStands`**: `Spec => []BaseResolves`. A base, in the object or the operator's copy,
  Succeeded, and what was elected exists or is in `pruned`; a child created later never
  takes the name of one that is gone, as names are seconds (`BaseInv`).
* **`SourceKept`**: `Spec => SourceOutlives`. What the migration has seen of its snapshot
  and of the target stays true, and an outdated copy of the migration was the object once
  (`ReportInv`, `RestoringInv`, `TargetInv`, `MigCopyStep`).

The other assumptions are named beside the constants: the constants have their types, and a
placeholder (`None`, `NoProc`, `NoVM`) is none of the records it stands in for. Every theorem
is about `Spec` itself, without the scopes of the `MC` modules.

**Left to TLC alone.**

* Liveness (`DeletionCompletes`, `StartResolves`, `NodeLossReschedules`): the prover has no
  fairness.
* `AcknowledgedIsCleanedUp`, which does not hold for all constants: a runtime restart and an
  outdated copy break it, so it is a result about the disturbances of its run.
* `OverlaySettles`, `RegistrationKept`; `CapacityKept`, `UnplacedIsRetried`,
  `AuthorizationFollows`, `GrantOutlivesInterface`, `UplinkKept`; `StaysWakeable`,
  `PressureHolds`, `IdleGrace`; `SandboxSettles`, `ExecutionsSettle`: `Overlay`,
  `Placement`, `LANAttachment`, `ScaleToZero` and `Pressure` have no proofs. `CapacityKept`
  is a sum over VMs, which needs induction over data.

## Disagreements

Where the code does something else than a comment, a document or a type's description says.
Each is stated as a property that TLC refutes. The first is a run of its own. The others stay
in their modules beside the properties that hold. To reproduce one, check it with the
module, the specification and the values the table gives; the other constants are those of
the named configuration. Deadlock is not checked, and there is no symmetry under `FairSpec`.

| Property | Reproduced with | What happens |
|---|---|---|
| `DisksIsolated` | run `shared_disk` | Start boots from the cached image itself with a writable drive (`firecracker_driver.go:510-512`), so running VMs of one image and class share their root disk. `README.md:52`: "CPU/memory/storage-isolated microVM workloads". |
| `CacheNeverPartial` | `Host_setup.cfg`: `Env = {"crash"}`, `MaxEvents = 1` | Two builds of an image, a dead agent's and the next one's, write to the same temporary file; the first to finish renames it while the other still writes. `rootfs/builder.go:174`: "This prevents a partially-written file from poisoning the cache." |
| `EgressNeverLost` | `Host_setup.cfg`: `Env = {"crash"}`, `MaxEvents = 1` | A Stop that released the last address removes the jump and the chain that a Start beside it has just found or filled; that VM boots without them. `firecracker_driver.go:638-639`: "must not boot with unrestricted egress." |
| `EgressExact` | `Host_setup.cfg`: `Env = {"command", "policy"}` | A /32 is not recognised in what nft prints, so it is added again; when the deletion of the old rule fails there are two, and a later call deletes one of them. `network/net.go:68-69`: "must exactly equal denyCIDRs after the call." |
| `AtMostOneProcess` | `VM_lagging.cfg`: `Env = {"timeout", "crash"}`, `MaxEvents = 1`, `Policy <- InPlaceOnce` | The agent dies while the runtime starts the VM; the start times out, the VM is marked Failed with its process running, and the restart adds another. |
| `MigrationEnds` | `Snap_executions.cfg`: `FairSpec`, `Env = {}` | The migration waits for `terminatedAt` of a snapshot that has no parent label; agents set the field only on children. |
| `SuspendCompletes` | `VM_lagging.cfg`: `FairSpec`, `Env = {"api", "suspend"}`, `Policy = NoPolicy` | `handleSuspending` snapshots, stops the process, then writes (`agent/reconciler.go:625`). If the write fails, the next attempt has no process to snapshot and fails for ever. `impvm_types.go:140-142`: "setting it back to "Running" resumes it from that snapshot". |
| `NodeLossReschedules` | `VM_liveness.cfg`: `FairSpec`, `Env = {"node"}`, `MaxEvents = 1`, `Webhook = TRUE`, `Policy = NoPolicy` | With the webhook enabled, clearing `spec.nodeName` (`impvm_controller.go:267`) is refused with "nodeName is immutable once set". `impvm_types.go:133`: "automatic rescheduling when its assigned node becomes unhealthy". |
| `PendingIsScheduled` | `VM_lagging.cfg`: `FairSpec`, `Env = {"exit", "reset"}`, `MaxEvents = 3`, `MaxPid = 3`, `Policy <- InPlaceOnce` | The reset sets phase Pending and keeps `spec.nodeName` (`restart.go:203`): the scheduler skips a VM with a node, the agent one that is Pending. `restart.go:172`: "clears all retry state and resumes normal reconciliation." |
| `NATKeptWhileRunning` | `Net_claims.cfg`: `Env = {"restart"}`, `MaxEvents = 1` | After a runtime restart the allocator is empty (`cmd/agent/main.go:158`); the next Stop believes its VM was the last and removes the NAT rule of those reattached. `agent/reconciler.go:444`: "Restore in-memory IP allocation so Release works correctly later." |
| `GuestAddressesDistinct` | `Net_claims.cfg`: `Env = {"suspend"}`, `MaxEvents = 1` | Suspending releases the address (`agent/reconciler.go:614`); another VM takes it; the resumed guest still has it in memory. `firecracker_driver.go:607-608`: "so separate nodes cannot configure the same address concurrently." |
| `WakeRouteKept` | `Overlay_table.cfg`: `Spec`, `VMs = ScaleToZero = {v1}`, no Cilium, `Env = {"suspend"}`, `MaxEvents = 1` | The operator's collection removes the entry of a suspended ScaleToZero VM (`impnetwork_controller.go:236`). `agent/reconciler.go:602-604`: "keeps the VTEP so the overlay still delivers the wake packet to this node while the VM is suspended." |
| `ScheduleExecuted` | `Snap_executions.cfg`: `FairSpec`, `Env = {}` | A child is created only in the five seconds before a tick, and `RequeueAfter` brings the reconciler back at the tick (`impvmsnapshot_controller.go:168`). `impvmsnapshot_types.go:16-17`: "daily at 02:00 UTC". |
| `WakesOnPacket` | `Wake.cfg`: `Spec`, `Env = {"frame", "crash"}`, `MaxEvents = 2` | Only `handleSuspending` registers (`scaletozero.go:77`), so a VM suspended before an agent restart is not woken. `impvm_types.go:142-143`: "first packet → resume". |
| `RunningIsReported` | `Sandbox.cfg`: `FairSpec`, `Sandboxes = {s1}`, `MaxUID = 1`, `Env = {}` | `ensureVM` replaces the whole spec (`impsandbox_controller.go:429`), so after scheduling its patch would clear `nodeName`, the VM webhook refuses it and the status is not updated. `impsandbox_controller.go:616`: "so sandbox status tracks VM lifecycle changes". |
| `ManualResumeHolds` | `Wake.cfg`: `Spec`, `Env = {"pressure", "manual"}`, `MaxEvents = 2` | After the manual resume the event describes, the next handler follows `desiredState` Suspended again. |
| `SessionsExpire` | `Sandbox.cfg`: `FairSpec`, `Sandboxes = {s1}`, `MaxUID = 1`, `Env = {"call", "rpc"}` | A close that is lost, or that has the deadline of its Exec, leaves the session in the guest, which removes one only when asked to. `sandboxgateway/guest.go:62`: "best-effort; the guest expires sessions anyway." |

## What the properties leave out

A property is stated for what the code does keep. Where it excludes a case, through a history
variable or through the disturbances of its run, the code does not prevent that case:

* `AcknowledgedIsCleanedUp` is checked without runtime restarts: a reattached process has
  no machine handle and Stop leaves it running. It is about the entry, the record and the
  last process: a process that a second Start displaced may live on, and the suspend
  directory stays when its removal fails, which the agent only logs.
* `StopsOnlySnapshotted` is checked and proved without an agent that dies in a call.
* `NodeLossReschedules` is checked without the webhook, which refuses the rescheduling.
* `NATKeptWhileOwned` excludes behaviours in which an agent died in a call: the allocator's
  decision and the removal of the rule are not atomic. It and `EgressKept` also exclude a
  start over the `procs` entry that an earlier start of the same VM left: if it fails, it
  releases the VM's address, and the Stop of the entry releases it again, so that the
  allocator counts one VM too few and the rules go while another VM runs. That takes three
  disturbances, one more than the runs have; it came up in the proofs.
* `CacheWhole`, `EgressKept` and `EgressReconciled` exclude what `CacheNeverPartial`,
  `EgressNeverLost` and `EgressExact` are about.
* `CapacityKept` excludes nodes with VMs placed by different rules (a node with explicit
  capacity is also a candidate of the fraction rule, `impvm_scheduler.go:197`), VMs placed
  from an outdated list, and VMs that failed or slept and came back without a check. The
  explicit rule ignores `MaxImpVMs`, "a hard cap on the number of ImpVMs allowed on this
  node, regardless of remaining compute headroom" (`clusterimpnodeprofile_types.go:14-15`).
* `AuthorizationFollows` excludes changed bindings, as node profiles are not watched, and a
  requester one of whose allowed groups has a comma in its name (an LDAP DN): the webhook
  admits it, the controller finds other names in the annotation and denies it.
* `GrantOutlivesInterface` excludes deletions that the guard of the webhook does not see: a
  start under way, a forced deletion, an outdated copy.
* `OverlaySettles` compares the MACs of an FDB and not their destinations: `SyncFDB` leaves
  the old destination of a VM that moved. It excludes a node whose ImpVM worker applied a
  table last that was outdated by then: the network controller has synced the newer one
  before it, nothing is queued, and the FDB stays behind until the next event.
* `RegistrationKept` excludes entries dropped by an unlocked patch from an outdated table.
* `PoolBounded` excludes restarted members, whose place was given away while they were
  Failed (`restart.go:130-155`), and pools that counted an outdated copy.
* `RunningMeansWorking` excludes an agent that died after it recorded a failed runner, a
  mark that could not be written, and a runner VM that was restarted in place after its
  failure was recorded: the next launch returns the code without an error and the VM stays
  Running, idle.
* `AllocationExact` is about the list of networks a pass has read; two passes over a cache
  that lags may take one slot, which the code does not prevent.
* `OneExecution` excludes parents whose gate opened on an outdated copy. `ExecutionsSettle`
  excludes the executions in `adrift`: every agent returns from them without a requeue, and
  VMs are not watched (`impvmsnapshot_reconciler.go:61-63`, `164-169`).
* `BaseResolves` holds while the election stands. After it is changed or withdrawn
  `status.baseSnapshot` keeps the old name, which may be pruned, where
  `impvmsnapshot_types.go:101-103` says it mirrors the spec.
* `SourceOutlives` says that the target has run, not that it still does: the handler goes by
  a cache.
* `StaysWakeable` excludes VMs whose registration was lost with the agent or undone by
  another VM at the same address (`cut`).
* `IdleGrace` excludes a VM that was started anew and shows the very counter of its old
  sample, and says nothing about traffic between the probe and the patch: it does not stop
  the suspension.
* `SandboxSettles` excludes a sandbox created again before its predecessor's network was
  collected: `ensureNetwork` takes it for its own, and networks are not watched.

Met while modelling and not stated as properties: the scheduler's comment says "most-loaded
node that still fits" where the code takes the one with most free memory;
`TeardownLANBridgeIfUnused` never removes a bridge with a VLAN interface, since that is a
port too (`docs/networking/privileged-lan-attachment.md:91-92`); an expired VM of a sandbox
is created again by the sandbox.

## Limits

* `VMLifecycle` takes the VM's references to exist: the check that fails a VM with neither
  class nor template (`impvm_controller.go:109-123`) concerns objects that no webhook has
  seen, and is left out.
* The pools take a member whose restarts are exhausted as a Failed one, as the code does.
* Data is abstracted to what the handlers compare: names, images, conditions and events are
  left out, and so are metrics and tracing.
* Reuse of a PID by the kernel is left out; `kill(pid, 0)` is taken to tell the truth.
* A cache jumps to the current version; it does not go through every version between.
  A controller that acts on an intermediate version is covered by a delivery made when
  that version was current.
* In `VMLifecycle` one agent crash per node may have a call in flight at a time, and a
  crash elsewhere in a handler is `AgAbandoned`.
* In `VMLifecycle` and `HostNetwork` a root filesystem, an egress-deny chain, a bridge or a
  LAN attachment may fail as part of `StartFails` and `SetupFails`, and has no state of its
  own; `HostSetup` has it, for one image and one subnet on one node, without the claims.
* `HostSetup` takes `mke2fs` to end with the runtime, and lets nft delete a chain that has
  rules or refuse to. The allocator counts by network and the rules are by subnet; with IP
  groups these differ, which is not modelled. A deny list that becomes empty leaves the
  chain as it is until the last Stop of a VM that was started with one.
* Each of the later modules reduces the rest of a VM's life to what its own objects depend
  on; the modules are not composed with `VMLifecycle` in full, whose state space alone fills
  a run.
* `Snapshots` has the node-local store; the push to a registry is left out.

## Not modelled

* **IPAM resolution, CNI detection**: read configuration once and choose a subnet or a
  provider. **Group CIDRs** (`carveGroupCIDRs`) are a pure function of a network's spec; the
  agent takes one as the subnet of a VM.
* **VM health and probes**: write conditions and annotations that no controller acts on.
* **Admission of classes and templates**: stateless validation of single objects.
* **Contents of a root filesystem**: layers, options, init script and cache key; the cache
  they end up in is in `HostSetup`.
* **Guest agent** beyond sandbox sessions, **agent HTTP API**, **VSOCK client**: request and
  reply, or streams of bytes, without state.
* **CI platform drivers**: HTTP clients; their answers are inputs of `RunnerPool`.
* **Processes and wiring, metrics, tracing, capability probe, generated code**:
  construction and observation.

## Next

1. Proofs about `Overlay` (`RegistrationKept`) and about `LANAttachment` (`UplinkKept`).
2. An abstract VM (absent, placed, running, suspended, gone) that `VMLifecycle` implements.
3. `Sandbox` composed with the scheduler of `Placement`.
