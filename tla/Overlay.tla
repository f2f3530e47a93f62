------------------------------ MODULE Overlay ------------------------------
(***************************************************************************)
(* The VXLAN overlay of one ImpNetwork: the table of VTEP entries in the   *)
(* status of the object, written by the agents and by the operator, the    *)
(* forwarding database (FDB) each node derives from it, and the Cilium     *)
(* objects the operator keeps for the network.                             *)
(*                                                                         *)
(* Every controller reads from informer caches.  A cache is Live, showing  *)
(* the current objects, or it lags and shows the copy it has had since,    *)
(* until it catches up.  registerVTEP patches with an optimistic lock and  *)
(* retries; deregisterVTEP and reconcileVTEPTable patch without one, and a *)
(* patch replaces the whole table.  A MAC address is a function of the VM, *)
(* so a VM stands for its own.                                             *)
(*                                                                         *)
(* The life of a VM is reduced to the handlers that touch the overlay, and *)
(* the address claims (HostNetwork) to who holds which address.            *)
(***************************************************************************)
EXTENDS Naturals, FiniteSets

CONSTANTS
  Nodes,         \* the nodes with a VTEP address
  VMs,           \* the VMs that reference the network
  Addresses,     \* the addresses of its subnet, tried in order
  None,          \* no node, no address, no holder
  Live,          \* a cache that shows the current objects
  ScaleToZero,   \* the VMs with desiredState ScaleToZero
  CiliumCNI,     \* Cilium is the detected CNI and its CRDs are installed
  CiliumIPAM,    \* spec.ipam.provider is cilium with a poolRef
  Env,           \* the kinds of disturbance that may happen
  MaxEvents      \* bound: disturbances in a behaviour

EnvKinds == {"lag", "exit", "suspend", "terminate", "reattach", "crash", "giveup", "api",
             "kernel", "netdelete"}

ASSUME VMAssumption == ScaleToZero \subseteq VMs
ASSUME AddressAssumption == Addresses \subseteq Nat
ASSUME FlagAssumption == CiliumCNI \in BOOLEAN /\ CiliumIPAM \in BOOLEAN
ASSUME EnvAssumption == Env \subseteq EnvKinds /\ MaxEvents \in Nat
ASSUME NoneAssumption == None \notin Nodes \cup VMs \cup Addresses

NetStates == {"new", "finalized", "ready", "deleting", "gone"}

VTEPEntry == [node : Nodes, ip : Addresses, mac : VMs]
ImpNetwork == [net : NetStates, table : SUBSET VTEPEntry]
ImpVM ==
  [phase : {"off", "Running", "Suspending", "Suspended", "Terminating", "Failed", "Succeeded"},
   node : Nodes \cup {None}, ip : Addresses \cup {None}]

(* What the worker of an agent is in the middle of; Idle between requests. *)
Job == [pc : {"register", "sync", "apply", "deregister", "stop", "clear"}, vm : VMs,
        ip : Addresses \cup {None}]
Idle == [pc |-> "idle"]

(* Two goroutines of an agent sync its FDB: the ImpVM worker and the       *)
(* network controller.                                                     *)
Syncers == {"vm", "net"}

(* The FDB of a node: a partial function from MAC addresses to nodes.      *)
FDB == UNION {[S -> Nodes] : S \in SUBSET VMs}

VARIABLES
  vm,       \* the ImpVM objects
  lease,    \* per address: the VM that holds its claim, or None
  net,      \* the ImpNetwork: "new", "finalized" (finalizer set), "ready" (and the Ready
            \* condition), "deleting" or "gone"
  pool,     \* the CiliumPodIPPool exists
  table,    \* status.vtepTable
  cew,      \* per VM: the address in its CiliumExternalWorkload, or None
  view,     \* per agent: the network its cache is behind with, or Live
  seen,     \* per agent: the Running VMs of its node its cache is behind with, or Live
  job,      \* per agent: what its ImpVM worker is doing
  queued,   \* per agent: the network is in the queue of its network controller
  got,      \* per agent and syncer: the table it has read and not yet applied, or None
  fdb,      \* per node: the FDB of the VXLAN interface, or None without one
  opNet,    \* the network the operator's cache is behind with, or Live
  opVMs,    \* the Running VMs, with addresses, it is behind with, or Live
  opQueued, \* the network is in the operator's queue
  registered, \* history: Running VMs whose registerVTEP returned nil
  lost,     \* history: Running VMs whose entry an outdated patch dropped
  missed,   \* history: agents whose last sync failed, was missed on an outdated VM list, or
            \* applied a table after the network controller had applied a newer one
  events    \* disturbances so far

apiVars == <<vm, lease>>
netVars == <<net, pool, table, cew>>
agentVars == <<view, seen, job, queued, got, fdb>>
opVars == <<opNet, opVMs, opQueued>>
history == <<registered, lost, missed>>
vars == <<apiVars, netVars, agentVars, opVars, history, events>>

TypeOK ==
  /\ vm \in [VMs -> ImpVM]
  /\ lease \in [Addresses -> VMs \cup {None}]
  /\ net \in NetStates /\ pool \in BOOLEAN
  /\ table \subseteq VTEPEntry
  /\ cew \in [VMs -> Addresses \cup {None}]
  /\ \A n \in Nodes : view[n] = Live \/ view[n] \in ImpNetwork
  /\ \A n \in Nodes : seen[n] = Live \/ seen[n] \subseteq VMs
  /\ job \in [Nodes -> Job \cup {Idle}]
  /\ queued \in [Nodes -> BOOLEAN]
  /\ \A n \in Nodes, w \in Syncers : got[n][w] = None \/ got[n][w] \subseteq VTEPEntry
  /\ \A n \in Nodes : fdb[n] = None \/ fdb[n] \in FDB
  /\ opNet = Live \/ opNet \in ImpNetwork
  /\ opVMs = Live \/ opVMs \subseteq VMs \X Addresses
  /\ opQueued \in BOOLEAN
  /\ registered \subseteq VMs /\ lost \subseteq VMs /\ missed \subseteq Nodes
  /\ events \in Nat

Init ==
  /\ vm = [v \in VMs |-> [phase |-> "off", node |-> None, ip |-> None]]
  /\ lease = [a \in Addresses |-> None]
  /\ net = "new" /\ pool = FALSE /\ table = {} /\ cew = [v \in VMs |-> None]
  /\ view = [n \in Nodes |-> Live]
  /\ seen = [n \in Nodes |-> Live]
  /\ job = [n \in Nodes |-> Idle]
  /\ queued = [n \in Nodes |-> FALSE]
  /\ got = [n \in Nodes |-> [w \in Syncers |-> None]]
  /\ fdb = [n \in Nodes |-> None]
  /\ opNet = Live /\ opVMs = Live /\ opQueued = TRUE
  /\ registered = {} /\ lost = {} /\ missed = {}
  /\ events = 0

Happens(kind) == kind \in Env /\ events < MaxEvents /\ events' = events + 1

Running == {<<v, vm[v].ip>> : v \in {w \in VMs : vm[w].phase = "Running"}}
RunningOn(n) == {v \in VMs : vm[v].phase = "Running" /\ vm[v].node = n}

(* What the caches show.                                                   *)
CachedNet(n) == IF view[n] = Live THEN [net |-> net, table |-> table] ELSE view[n]
CachedVMs(n) == IF seen[n] = Live THEN RunningOn(n) ELSE seen[n]
OpNet == IF opNet = Live THEN [net |-> net, table |-> table] ELSE opNet
OpVMs == IF opVMs = Live THEN Running ELSE opVMs
-----------------------------------------------------------------------------
(* An event of the network queues it for the network controller of every   *)
(* agent and for the operator, and an event of a VM for the operator; a    *)
(* cache that lags passes its events on when it catches up.                *)

NetworkEvent ==
  /\ queued' = [n \in Nodes |-> queued[n] \/ view[n] = Live]
  /\ opQueued' = (opQueued \/ opNet = Live)

VMEvent == opQueued' = (opQueued \/ opVMs = Live)

(* registerVTEP replaces the first entry for the address, else appends.    *)
WithEntry(t, e) ==
  LET same == {f \in t : f.ip = e.ip}
  IN  IF same = {} THEN t \cup {e} ELSE (t \ {CHOOSE f \in same : TRUE}) \cup {e}

WithoutAddress(t, a) == {e \in t : e.ip # a}

(* An unlocked patch computed from the copy t replaces the table by t2.    *)
(* Which registrations of Running VMs are dropped because t, or what else  *)
(* the decision was based on, was outdated is remembered.                  *)
Overwrite(t, t2, outdated) ==
  /\ table' = t2
  /\ lost' = IF ~outdated /\ t = table THEN lost
             ELSE lost \cup {v \in registered : \E e \in table \ t2 : e.mac = v}
-----------------------------------------------------------------------------
(* The agent's ImpVM worker on node n.                                     *)

Begin(n, j) == job' = [job EXCEPT ![n] = j]
End(n) == Begin(n, Idle)

(* A VM that is not, or no longer, a Running one has no registration.      *)
Forget(v) == registered' = registered \ {v} /\ lost' = lost \ {v} /\ UNCHANGED missed

(* handleScheduled and handleResuming from driver.Start on: the VM claims  *)
(* the first address it can, its phase becomes Running, and its            *)
(* registration is next.                                                   *)
Start(n, v) ==
  /\ job[n] = Idle
  /\ \/ vm[v].phase \in {"off", "Failed"}
     \/ vm[v].phase = "Suspended" /\ vm[v].node = n
  /\ \E a \in Addresses :
       /\ lease[a] \in {None, v} /\ \A b \in Addresses : lease[b] \in {None, v} => a <= b
       /\ lease' = [lease EXCEPT ![a] = v]
       /\ vm' = [vm EXCEPT ![v] = [phase |-> "Running", node |-> n, ip |-> a]]
       /\ Begin(n, [pc |-> "register", vm |-> v, ip |-> a])
  /\ VMEvent
  /\ UNCHANGED <<netVars, view, seen, queued, got, fdb, opNet, opVMs, history, events>>

(* The reattach branch of handleRunning publishes the entry again.         *)
Reattach(n, v) ==
  /\ job[n] = Idle /\ v \in RunningOn(n)
  /\ Happens("reattach")
  /\ Begin(n, [pc |-> "register", vm |-> v, ip |-> vm[v].ip])
  /\ UNCHANGED <<apiVars, netVars, view, seen, queued, got, fdb, opVars, history>>

(* Mutant: the patch of registerVTEP carries no resourceVersion.           *)
RegisterUnlocked(n) ==
  /\ job[n].pc = "register" /\ CachedNet(n).net # "gone" /\ net # "gone"
  /\ table' = WithEntry(CachedNet(n).table, [node |-> n, ip |-> job[n].ip, mac |-> job[n].vm])
  /\ NetworkEvent
  /\ registered' = registered \cup {job[n].vm}
  /\ Begin(n, [job[n] EXCEPT !.pc = "sync"])
  /\ UNCHANGED <<apiVars, net, pool, cew, view, seen, got, fdb, opNet, opVMs,
                 lost, missed, events>>

(* registerVTEP: nothing to do when the cached table has the entry, else a *)
(* locked patch of it.  A cached copy that is not the current one is a     *)
(* conflict, and is tried again.                                           *)
Register(n) ==
  LET e == [node |-> n, ip |-> job[n].ip, mac |-> job[n].vm]
      cached == CachedNet(n)
  IN  /\ job[n].pc = "register" /\ cached.net # "gone"
      /\ \/ e \in cached.table /\ UNCHANGED <<table, queued, opQueued>>
         \/ /\ e \notin cached.table /\ cached = [net |-> net, table |-> table]
            /\ table' = WithEntry(cached.table, e)
            /\ NetworkEvent
      /\ registered' = registered \cup {e.mac}
      /\ lost' = IF e \in table' THEN lost \ {e.mac} ELSE lost \cup {e.mac}
      /\ Begin(n, [job[n] EXCEPT !.pc = "sync"])
      /\ UNCHANGED <<apiVars, net, pool, cew, view, seen, got, fdb, opNet, opVMs, missed, events>>

(* The retries are used up, or the network is gone: ensureVTEPAndFDB only  *)
(* logs the error, and does not sync the FDB.                              *)
RegisterFails(n) ==
  /\ job[n].pc = "register"
  /\ \/ CachedNet(n).net = "gone" /\ UNCHANGED events
     \/ view[n] # Live /\ Happens("giveup")
  /\ End(n)
  /\ UNCHANGED <<apiVars, netVars, view, seen, queued, got, fdb, opVars, history>>

(* The process exits: handleRunning ends the VM as Failed, which keeps the *)
(* address in the status, or as Succeeded, which clears it.                *)
Exit(n, v) ==
  /\ job[n] = Idle /\ v \in RunningOn(n)
  /\ Happens("exit")
  /\ \/ vm' = [vm EXCEPT ![v].phase = "Failed"]
     \/ vm' = [vm EXCEPT ![v].phase = "Succeeded", ![v].ip = None]
  /\ VMEvent
  /\ Forget(v)
  /\ UNCHANGED <<lease, netVars, agentVars, opNet, opVMs>>

(* handleSuspending after the snapshot: a ScaleToZero VM keeps its entry,  *)
(* so that the wake packet reaches the node; any other is deregistered.    *)
BeginSuspend(n, v) ==
  Begin(n, [pc |-> IF v \in ScaleToZero THEN "stop" ELSE "deregister", vm |-> v, ip |-> vm[v].ip])

Suspend(n, v) ==
  /\ job[n] = Idle /\ v \in RunningOn(n)
  /\ Happens("suspend")
  /\ vm' = [vm EXCEPT ![v].phase = "Suspending"]
  /\ BeginSuspend(n, v)
  /\ VMEvent
  /\ Forget(v)
  /\ UNCHANGED <<lease, netVars, view, seen, queued, got, fdb, opNet, opVMs>>

(* A handler that a crash interrupted starts over.                         *)
SuspendAgain(n, v) ==
  /\ job[n] = Idle /\ vm[v].phase = "Suspending" /\ vm[v].node = n
  /\ BeginSuspend(n, v)
  /\ UNCHANGED <<apiVars, netVars, view, seen, queued, got, fdb, opVars, history, events>>

(* Its driver.Stop gives the address back; the status keeps it.            *)
SuspendStop(n) ==
  /\ job[n].pc = "stop"
  /\ lease' = [a \in Addresses |-> IF lease[a] = job[n].vm THEN None ELSE lease[a]]
  /\ vm' = [vm EXCEPT ![job[n].vm].phase = "Suspended"]
  /\ VMEvent
  /\ End(n)
  /\ UNCHANGED <<netVars, view, seen, queued, got, fdb, opNet, opVMs, history, events>>

(* handleTerminating stops the VM first, which frees its address, and then *)
(* deregisters the address the status has, if any.                         *)
Terminate(n, v) ==
  /\ job[n] = Idle /\ vm[v].node = n
  /\ \/ vm[v].phase \notin {"off", "Terminating"} /\ Happens("terminate")
     \/ vm[v].phase = "Terminating" /\ UNCHANGED events
  /\ vm' = [vm EXCEPT ![v].phase = "Terminating"]
  /\ lease' = [a \in Addresses |-> IF lease[a] = v THEN None ELSE lease[a]]
  /\ Begin(n, [pc |-> IF vm[v].ip = None THEN "clear" ELSE "deregister",
               vm |-> v, ip |-> vm[v].ip])
  /\ VMEvent
  /\ Forget(v)
  /\ UNCHANGED <<netVars, view, seen, queued, got, fdb, opNet, opVMs>>

(* After deregisterVTEP, whatever came of it, the handler goes on.         *)
AfterDeregister(n) ==
  Begin(n, [job[n] EXCEPT !.pc =
              IF vm[job[n].vm].phase = "Suspending" THEN "stop" ELSE "clear"])

(* deregisterVTEP: the cached table without the address overwrites the     *)
(* table.  Someone else may have the address by now.                       *)
Deregister(n) ==
  LET t == CachedNet(n).table
      t2 == WithoutAddress(t, job[n].ip)
  IN  /\ job[n].pc = "deregister"
      /\ IF CachedNet(n).net = "gone" \/ t2 = t \/ net = "gone"
         THEN UNCHANGED <<table, lost, queued, opQueued>>
         ELSE /\ Overwrite(t, t2, lease[job[n].ip] \notin {None, job[n].vm})
              /\ NetworkEvent
      /\ AfterDeregister(n)
      /\ UNCHANGED <<apiVars, net, pool, cew, view, seen, got, fdb, opNet, opVMs,
                     registered, missed, events>>

(* Its patch fails, which is only logged.                                  *)
DeregisterFails(n) ==
  /\ job[n].pc = "deregister"
  /\ Happens("api")
  /\ AfterDeregister(n)
  /\ UNCHANGED <<apiVars, netVars, view, seen, queued, got, fdb, opVars, history>>

ClearOwnership(n) ==
  /\ job[n].pc = "clear"
  /\ vm' = [vm EXCEPT ![job[n].vm] = [phase |-> "off", node |-> None, ip |-> None]]
  /\ VMEvent
  /\ End(n)
  /\ UNCHANGED <<lease, netVars, view, seen, queued, got, fdb, opNet, opVMs, history, events>>

(* The agent dies in the middle of a handler.  The next one starts with    *)
(* fresh caches and every object queued: it finds a Running VM whose       *)
(* registration was pending Running and leaves it at that, and takes a     *)
(* Suspending or Terminating one up again.                                 *)
Crash(n) ==
  /\ job[n] # Idle \/ got[n]["net"] # None
  /\ Happens("crash")
  /\ End(n)
  /\ view' = [view EXCEPT ![n] = Live] /\ seen' = [seen EXCEPT ![n] = Live]
  /\ queued' = [queued EXCEPT ![n] = TRUE]
  /\ got' = [got EXCEPT ![n] = [w \in Syncers |-> None]]
  /\ UNCHANGED <<apiVars, netVars, fdb, opVars, history>>
-----------------------------------------------------------------------------
(* The forwarding database.                                                *)

(* syncNetworkFDB keeps the entries of other nodes; of two entries with    *)
(* one MAC address the later one in the table counts, which may be either. *)
Desired(n, t) ==
  LET remote == {e \in t : e.node # n}
  IN  {d \in [{e.mac : e \in remote} -> Nodes] :
         \A m \in DOMAIN d : \E e \in remote : e.mac = m /\ e.node = d[m]}

(* EnsureVXLAN creates the interface unless it is there.                   *)
EnsureVXLAN(f) == IF f = None THEN <<>> ELSE f

(* Mutant: what is not desired any more stays.                             *)
AddMissing(f, d) ==
  [m \in DOMAIN f \cup DOMAIN d |-> IF m \in DOMAIN f THEN f[m] ELSE d[m]]

(* SyncFDB removes the MAC addresses that are not desired and adds those   *)
(* that were not there; one that was there keeps its destination.          *)
SyncFDB(f, d) == [m \in DOMAIN d |-> IF m \in DOMAIN f THEN f[m] ELSE d[m]]

(* syncNetworkFDB from a table, and with a netlink call that fails: there  *)
(* is no interface yet, some stale addresses are gone, or all of them and  *)
(* some missing ones are there.                                            *)
SyncNetworkFDB(n, t) ==
  \E d \in Desired(n, t) : fdb' = [fdb EXCEPT ![n] = SyncFDB(EnsureVXLAN(@), d)]

PartialSync(f, d) ==
  {[m \in DOMAIN d \cup S |-> IF m \in DOMAIN f THEN f[m] ELSE d[m]] :
     S \in SUBSET (DOMAIN f \ DOMAIN d)} \cup
  {[m \in S |-> IF m \in DOMAIN f THEN f[m] ELSE d[m]] :
     S \in {T \in SUBSET DOMAIN d : DOMAIN d \cap DOMAIN f \subseteq T}}

SyncNetworkFDBFails(n, t) ==
  \E d \in Desired(n, t) :
    \E f \in PartialSync(EnsureVXLAN(fdb[n]), d) \cup {fdb[n]} : fdb' = [fdb EXCEPT ![n] = f]

Hold(n, w, t) == got' = [got EXCEPT ![n][w] = t]

(* ensureVTEPAndFDB ends with syncFDB, which gets the network from the     *)
(* cache ...                                                               *)
SyncGet(n) ==
  /\ job[n].pc = "sync"
  /\ IF CachedNet(n).net = "gone" THEN End(n) /\ UNCHANGED got
     ELSE Begin(n, [job[n] EXCEPT !.pc = "apply"]) /\ Hold(n, "vm", CachedNet(n).table)
  /\ UNCHANGED <<apiVars, netVars, view, seen, queued, fdb, opVars, history, events>>

(* ... and then applies its table; an error of it is only logged.  Nothing *)
(* keeps the network controller from applying a newer table in between.    *)
Sync(n) ==
  /\ job[n].pc = "apply"
  /\ \/ SyncNetworkFDB(n, got[n]["vm"]) /\ UNCHANGED events
        /\ missed' = IF got[n]["vm"] = CachedNet(n).table THEN missed \ {n} ELSE missed \cup {n}
     \/ SyncNetworkFDBFails(n, got[n]["vm"]) /\ Happens("kernel") /\ missed' = missed \cup {n}
  /\ Hold(n, "vm", None) /\ End(n)
  /\ UNCHANGED <<apiVars, netVars, view, seen, queued, opVars, registered, lost>>

(* The agent's network controller takes the network from its queue and     *)
(* reads it and the VMs from its cache; it goes on for a node that has, as *)
(* far as the cache tells, a Running VM on it ...                          *)
NetReconcile(n) ==
  /\ queued[n] /\ got[n]["net"] = None /\ CachedNet(n).net # "gone"
  /\ queued' = [queued EXCEPT ![n] = FALSE]
  /\ \/ /\ CachedVMs(n) = {} /\ UNCHANGED got
        /\ missed' = IF RunningOn(n) = {} THEN missed ELSE missed \cup {n}
     \/ CachedVMs(n) # {} /\ Hold(n, "net", CachedNet(n).table) /\ UNCHANGED missed
  /\ UNCHANGED <<apiVars, netVars, view, seen, job, fdb, opVars, registered, lost, events>>

(* ... and applies the table.  What has changed since has queued the       *)
(* network again, and so does an error.                                    *)
NetSync(n) ==
  /\ got[n]["net"] # None
  /\ \/ SyncNetworkFDB(n, got[n]["net"]) /\ missed' = missed \ {n} /\ UNCHANGED <<queued, events>>
     \/ /\ SyncNetworkFDBFails(n, got[n]["net"]) /\ Happens("kernel")
        /\ queued' = [queued EXCEPT ![n] = TRUE] /\ UNCHANGED missed
  /\ Hold(n, "net", None)
  /\ UNCHANGED <<apiVars, netVars, view, seen, job, opVars, registered, lost>>
-----------------------------------------------------------------------------
(* The informer caches.                                                    *)

Freeze(n) ==
  /\ Happens("lag")
  /\ \/ view[n] = Live /\ view' = [view EXCEPT ![n] = CachedNet(n)] /\ UNCHANGED seen
     \/ seen[n] = Live /\ seen' = [seen EXCEPT ![n] = CachedVMs(n)] /\ UNCHANGED view
  /\ UNCHANGED <<apiVars, netVars, job, queued, got, fdb, opVars, history>>

CatchUpNet(n) ==
  /\ view[n] # Live
  /\ view' = [view EXCEPT ![n] = Live]
  /\ queued' = [queued EXCEPT ![n] = @ \/ CachedNet(n) # [net |-> net, table |-> table]]
  /\ UNCHANGED <<apiVars, netVars, seen, job, got, fdb, opVars, history, events>>

CatchUpVMs(n) ==
  /\ seen[n] # Live
  /\ seen' = [seen EXCEPT ![n] = Live]
  /\ UNCHANGED <<apiVars, netVars, view, job, queued, got, fdb, opVars, history, events>>

OpFreeze ==
  /\ Happens("lag")
  /\ \/ opNet = Live /\ opNet' = OpNet /\ UNCHANGED opVMs
     \/ opVMs = Live /\ opVMs' = OpVMs /\ UNCHANGED opNet
  /\ UNCHANGED <<apiVars, netVars, agentVars, opQueued, history>>

OpCatchUp ==
  /\ \/ opNet # Live /\ opNet' = Live /\ UNCHANGED opVMs
     \/ opVMs # Live /\ opVMs' = Live /\ UNCHANGED opNet
  /\ opQueued' = TRUE
  /\ UNCHANGED <<apiVars, netVars, agentVars, history, events>>
-----------------------------------------------------------------------------
(* The operator's ImpNetworkReconciler.  Reconcile takes the network from  *)
(* the queue; its own writes put it there again.                           *)

OpIdle == opQueued' = FALSE /\ UNCHANGED queued

(* Reconcile sets the finalizer in a pass of its own.                      *)
AddFinalizer ==
  /\ opQueued /\ OpNet.net = "new"
  /\ IF net = "new" THEN net' = "finalized" /\ NetworkEvent ELSE UNCHANGED net /\ OpIdle
  /\ UNCHANGED <<apiVars, pool, table, cew, view, seen, job, got, fdb, opNet, opVMs,
                 history, events>>

(* Mutant: the finalizer goes and the pool is left.                        *)
RemoveFinalizerOnly ==
  /\ opQueued /\ OpNet.net = "deleting"
  /\ net' = "gone" /\ NetworkEvent
  /\ UNCHANGED <<apiVars, pool, table, cew, view, seen, job, got, fdb, opNet, opVMs,
                 history, events>>

(* handleDeletion deletes the pool and then removes the finalizer; when    *)
(* either fails the network stays and is queued again.                     *)
HandleDeletion ==
  /\ opQueued /\ OpNet.net = "deleting"
  /\ \/ pool' = (pool /\ ~CiliumIPAM) /\ net' = "gone" /\ NetworkEvent /\ UNCHANGED events
     \/ /\ pool' \in {pool, pool /\ ~CiliumIPAM} /\ Happens("api")
        /\ UNCHANGED <<net, queued, opQueued>>
  /\ UNCHANGED <<apiVars, table, cew, view, seen, job, got, fdb, opNet, opVMs, history>>

(* reconcileVTEPTable keeps the entries of addresses of Running VMs.       *)
ActiveEntries(t) == {e \in t : \E r \in OpVMs : r[2] = e.ip}

(* What the patch makes of the table, and what it may lose.                *)
ReconcileVTEPTable ==
  LET t == OpNet.table
  IN  IF ActiveEntries(t) = t \/ net = "gone"
      THEN UNCHANGED <<table, lost>>
      ELSE Overwrite(t, ActiveEntries(t), OpVMs # Running)

(* reconcileCiliumEnrollment deletes the workloads of VMs that are not     *)
(* Running and creates the missing ones; an existing one keeps its address.*)
ReconcileCiliumEnrollment ==
  IF ~CiliumCNI THEN cew
  ELSE [v \in VMs |->
          LET mine == {r \in OpVMs : r[1] = v}
          IN  IF mine = {} THEN None
              ELSE IF cew[v] # None THEN cew[v]
              ELSE (CHOOSE r \in mine : TRUE)[2]]

(* It stops at the first error, with some of the deletions done, or all of *)
(* them and some of the creations.                                         *)
PartialEnrolment ==
  LET e == ReconcileCiliumEnrollment
      stale == {v \in VMs : e[v] = None}
  IN  {[v \in VMs |-> IF v \in S THEN e[v] ELSE cew[v]] :
         S \in {T \in SUBSET VMs : T \subseteq stale \/ stale \subseteq T}}

(* reconcileCiliumPool creates the pool of a network with Cilium IPAM, or  *)
(* brings it up to date.                                                   *)
ReconcileCiliumPool == pool \/ CiliumIPAM

(* sync: the pool, the table, the workloads and the Ready condition, in    *)
(* this order (the group CIDRs, a function of the spec, are left out).     *)
(* The first error ends it and queues the network again.                   *)
OpSync ==
  /\ opQueued /\ OpNet.net \in {"finalized", "ready"}
  /\ \/ /\ pool' = ReconcileCiliumPool
        /\ ReconcileVTEPTable
        /\ cew' = ReconcileCiliumEnrollment
        /\ net' = IF net = "finalized" THEN "ready" ELSE net
        /\ IF table' = table /\ net' = net THEN OpIdle ELSE NetworkEvent
        /\ UNCHANGED events
     \/ /\ Happens("api")
        /\ \/ pool' \in {pool, ReconcileCiliumPool} /\ UNCHANGED <<table, lost, cew>>
           \/ /\ pool' = ReconcileCiliumPool
              /\ ReconcileVTEPTable
              /\ cew' \in PartialEnrolment
        /\ IF table' = table THEN UNCHANGED <<queued, opQueued>> ELSE NetworkEvent
        /\ UNCHANGED net
  /\ UNCHANGED <<apiVars, view, seen, job, got, fdb, opNet, opVMs, registered, missed>>

(* A user deletes the network: at once when it has no finalizer.           *)
DeleteNetwork ==
  /\ net \in {"new", "finalized", "ready"}
  /\ Happens("netdelete")
  /\ net' = IF net = "new" THEN "gone" ELSE "deleting"
  /\ NetworkEvent
  /\ UNCHANGED <<apiVars, pool, table, cew, view, seen, job, got, fdb, opNet, opVMs, history>>
-----------------------------------------------------------------------------
Worker(n) ==
  \/ Register(n) \/ RegisterFails(n) \/ SyncGet(n) \/ Sync(n) \/ SuspendStop(n)
  \/ Deregister(n) \/ DeregisterFails(n) \/ ClearOwnership(n) \/ Crash(n)

Agent(n) ==
  \/ \E v \in VMs :
       \/ Start(n, v) \/ Reattach(n, v) \/ Exit(n, v) \/ Suspend(n, v)
       \/ SuspendAgain(n, v) \/ Terminate(n, v)
  \/ Worker(n) \/ NetReconcile(n) \/ NetSync(n) \/ Freeze(n) \/ CatchUpNet(n) \/ CatchUpVMs(n)

Operator ==
  \/ OpFreeze \/ OpCatchUp \/ AddFinalizer \/ HandleDeletion \/ OpSync

Next == (\E n \in Nodes : Agent(n)) \/ Operator \/ DeleteNetwork

Spec == Init /\ [][Next]_vars

(* Nobody has anything left to do: no handler is under way or due, no      *)
(* event is undelivered and no network is queued.                          *)
Quiet ==
  /\ \A n \in Nodes : job[n] = Idle /\ ~queued[n] /\ view[n] = Live /\ seen[n] = Live
  /\ \A n \in Nodes : got[n]["net"] = None
  /\ \A v \in VMs : vm[v].phase \notin {"Suspending", "Terminating"}
  /\ ~opQueued /\ opNet = Live /\ opVMs = Live
-----------------------------------------------------------------------------
(* The entry of a Running VM that was registered stays: the lock of        *)
(* registerVTEP never drops another VM's entry, and an unlocked patch does *)
(* so only when it was computed from an outdated table or VM list, or      *)
(* names an address that has passed to another VM.                         *)
RegistrationKept ==
  net # "gone" =>
    \A v \in registered \ lost :
      [node |-> vm[v].node, ip |-> vm[v].ip, mac |-> v] \in table

(* The overlay follows the network and its VMs: the CiliumPodIPPool does   *)
(* not outlive the network it was created for (handleDeletion), and when   *)
(* nothing is left to do every entry in the table has the address of a     *)
(* Running VM (what the handlers leave behind, the operator collects),     *)
(* exactly the Running VMs are enrolled with Cilium, and a node with a     *)
(* registered VM has in its FDB the MAC addresses the table has on other   *)
(* nodes, unless its last sync failed, its network controller looked at an *)
(* outdated VM list, or its ImpVM worker applied an outdated table last.   *)
OverlaySettles ==
  /\ net = "gone" => ~pool
  /\ Quiet /\ net = "ready" =>
       /\ \A e \in table : \E r \in Running : r[2] = e.ip
       /\ CiliumCNI => \A v \in VMs : cew[v] # None <=> vm[v].phase = "Running"
       /\ \A n \in Nodes \ missed :
            RunningOn(n) \cap registered # {} =>
              DOMAIN fdb[n] = {e.mac : e \in {f \in table : f.node # n}}

(* While a ScaleToZero VM is suspended its entry stays, so that the wake   *)
(* packet reaches its node.                                                *)
WakeRouteKept ==
  [][\A v \in ScaleToZero : \A e \in table :
       (e.mac = v /\ e.ip = vm[v].ip /\ vm[v].phase = "Suspended" /\ vm'[v].phase = "Suspended")
         => e \in table']_vars
=============================================================================
