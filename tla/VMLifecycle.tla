---------------------------- MODULE VMLifecycle ----------------------------
(***************************************************************************)
(* The life of one ImpVM object, driven by the operator's ImpVMReconciler, *)
(* by the agent's ImpVMReconciler on every node and by the node runtime.   *)
(*                                                                         *)
(* The object lives in the API server (vm).  Each controller reads it from *)
(* its informer cache, which holds the current or a past version, and      *)
(* writes it with client.MergeFrom patches: only the fields that differ    *)
(* from the copy the handler read are sent, and the server overwrites them *)
(* without comparing versions.  A handler is a sequence of steps: one per  *)
(* patch and one per runtime call.  Its first step reads the cache and     *)
(* ends with the first patch or call; op.pc and ag[n].pc hold where it     *)
(* stands and obj its local copy of the object.  A controller works on one *)
(* request for an object at a time.                                        *)
(*                                                                         *)
(* Time is left out: a deadline the code compares with the clock may have  *)
(* passed whenever its timestamp is set.                                   *)
(***************************************************************************)
EXTENDS RuntimeDriver, FiniteSets

CONSTANTS
  Nodes,        \* the nodes with imp/enabled=true
  NoNode,       \* the empty nodeName
  NoVM,         \* the object does not exist
  NoPolicy,     \* spec.restartPolicy is nil
  Env,          \* the kinds of disturbance that may happen
  MaxEvents,    \* bound: disturbances in a behaviour
  MaxPid,       \* bound: Firecracker processes started in a behaviour
  Webhook,      \* the validating webhook is enabled (the chart's default)
  Ephemeral,    \* spec.lifecycle = ephemeral
  Movable,      \* ephemeral, or rescheduleOnNodeLoss and no PVC attached
  Policy        \* spec.restartPolicy: [mode, max, onExhaustion] or NoPolicy

EnvKinds == {"stale", "crash", "api", "runtime", "startfail", "exit", "node", "timeout",
             "delete", "suspend", "reset"}

ASSUME EnvAssumption == Env \subseteq EnvKinds
ASSUME NodeAssumption == NoNode \notin Nodes
ASSUME BoundAssumption == MaxEvents \in Nat /\ MaxPid \in Nat
ASSUME FlagAssumption ==
  Webhook \in BOOLEAN /\ Ephemeral \in BOOLEAN /\ Movable \in BOOLEAN

(* effectiveMaxRetries: no policy allows no restart, and 0 means 5.        *)
EffectiveMax ==
  IF Policy = NoPolicy THEN 0 ELSE IF Policy.max = 0 THEN 5 ELSE Policy.max

ASSUME PolicyAssumption ==
  Policy # NoPolicy =>
    Policy \in [mode : {"in-place", "reschedule"}, max : Nat,
                onExhaustion : {"fail", "manual-reset", "cool-down"}]

Phases == {"", "Pending", "Scheduled", "Starting", "Running", "Suspending",
           "Suspended", "Resuming", "Terminating", "Succeeded", "Failed",
           "RetryExhausted"}

Pids == 1 .. MaxPid

(* The fields of the ImpVM the controllers act on.  started, suspended and *)
(* exhausted say that startedAt, suspendSnapshotPath and exhaustedAt are   *)
(* set; reset that the imp/reset-retries annotation is.                    *)
ImpVM ==
  [finalizer : BOOLEAN, deleting : BOOLEAN, reset : BOOLEAN,
   desired : {"Running", "Suspended"}, node : Nodes \cup {NoNode},
   phase : Phases, ack : Nodes \cup {NoNode}, pid : Pids \cup {0},
   started : BOOLEAN, suspended : BOOLEAN, count : Nat, exhausted : BOOLEAN]

NewVM ==
  [finalizer |-> FALSE, deleting |-> FALSE, reset |-> FALSE,
   desired |-> "Running", node |-> NoNode, phase |-> "", ack |-> NoNode,
   pid |-> 0, started |-> FALSE, suspended |-> FALSE, count |-> 0,
   exhausted |-> FALSE]

ASSUME AbsentAssumption == NoVM \notin ImpVM

VARIABLES
  vm,        \* the object in the API server, or NoVM
  cache,     \* per controller, the version its informer cache holds
  op,        \* the operator's worker: [pc, obj]
  ag,        \* per node, the agent's worker: [pc, obj, pid]
  rt,        \* per node, the runtime's bookkeeping for the VM
  orphan,    \* per node, a Start call whose caller is gone: none, cold, restore
  snap,      \* per node, the process whose memory the suspend dir holds, or 0
  ready,     \* per node, the Ready condition
  nextPid,   \* the next fresh PID
  events     \* disturbances so far

vars == <<vm, cache, op, ag, rt, orphan, snap, ready, nextPid, events>>

Operator == "operator"
Controllers == Nodes \cup {Operator}

OpPCs == {"idle", "schedule", "assign", "unassign", "reset", "restart"}
AgPCs == {"idle", "start", "started", "stopped", "snapped", "parked"}

Maybe == ImpVM \cup {NoVM}

TypeOK ==
  /\ vm \in Maybe
  /\ cache \in [Controllers -> Maybe]
  /\ op \in [pc : OpPCs, obj : Maybe]
  /\ ag \in [Nodes -> [pc : AgPCs, obj : Maybe, pid : Pids \cup {0}]]
  /\ rt \in [Nodes -> Runtime(Pids)]
  /\ orphan \in [Nodes -> {"none", "cold", "restore"}]
  /\ snap \in [Nodes -> Pids \cup {0}]
  /\ ready \in [Nodes -> BOOLEAN]
  /\ nextPid \in Nat \ {0}
  /\ events \in Nat

OpIdle == [pc |-> "idle", obj |-> NoVM]
AgIdle == [pc |-> "idle", obj |-> NoVM, pid |-> 0]

Init ==
  /\ vm = NewVM
  /\ cache = [c \in Controllers |-> NewVM]
  /\ op = OpIdle
  /\ ag = [n \in Nodes |-> AgIdle]
  /\ rt = [n \in Nodes |-> Stopped]
  /\ orphan = [n \in Nodes |-> "none"]
  /\ snap = [n \in Nodes |-> 0]
  /\ ready = [n \in Nodes |-> TRUE]
  /\ nextPid = 1
  /\ events = 0

-----------------------------------------------------------------------------
(* The API server.                                                         *)

Changed(cur, base, mod) == IF mod = base THEN cur ELSE mod

(* client.MergeFrom(base): the fields of mod that differ from base replace *)
(* the server's, the others keep the server's value.                       *)
Merge(cur, base, mod) ==
  [finalizer |-> Changed(cur.finalizer, base.finalizer, mod.finalizer),
   deleting |-> cur.deleting,
   reset |-> Changed(cur.reset, base.reset, mod.reset),
   desired |-> cur.desired,
   node |-> Changed(cur.node, base.node, mod.node),
   phase |-> Changed(cur.phase, base.phase, mod.phase),
   ack |-> Changed(cur.ack, base.ack, mod.ack),
   pid |-> Changed(cur.pid, base.pid, mod.pid),
   started |-> Changed(cur.started, base.started, mod.started),
   suspended |-> Changed(cur.suspended, base.suspended, mod.suspended),
   count |-> Changed(cur.count, base.count, mod.count),
   exhausted |-> Changed(cur.exhausted, base.exhausted, mod.exhausted)]

Patched(base, mod) == Merge(vm, base, mod)

(* Mutant: the webhook does not look at spec.nodeName.                     *)
AdmitsAll(old, new) == TRUE

(* ValidateUpdate: spec.nodeName is immutable once set.                    *)
Admits(old, new) == Webhook => (old.node = NoNode \/ new.node = old.node)

(* A patch that reaches an existing object and is admitted.                *)
Accepted(base, mod) == vm # NoVM /\ Admits(vm, Patched(base, mod))

Patch(base, mod) == Accepted(base, mod) /\ vm' = Patched(base, mod)

(* What a reconcile reads: the informer cache, which is current when the   *)
(* environment never lets it lag.                                          *)
Seen(c) == IF "stale" \in Env THEN cache[c] ELSE vm

(* The watch brings a controller's cache up to the current version.        *)
Deliver(c) ==
  /\ "stale" \in Env
  /\ cache[c] # vm
  /\ cache' = [cache EXCEPT ![c] = vm]
  /\ UNCHANGED <<vm, op, ag, rt, orphan, snap, ready, nextPid, events>>

-----------------------------------------------------------------------------
(* The operator: ImpVMReconciler.Reconcile.                                *)

OpFrame == UNCHANGED <<cache, ag, rt, orphan, snap, ready, nextPid, events>>

(* A reconcile starts from the cached object o.                            *)
OpReads(o) == op.pc = "idle" /\ o # NoVM

(* The checks Reconcile makes before it looks at the assignment.  The VM   *)
(* has a class or a template, and so passes the check of its references.   *)
OpPasses(o) == OpReads(o) /\ ~o.deleting /\ o.finalizer /\ ~o.reset

(* The handler's only patch.                                               *)
OpPatch(o, mod) == Patch(o, mod) /\ UNCHANGED op /\ OpFrame

(* The first of two patches: the handler goes on from the server's reply.  *)
OpPatchThen(o, mod, pc) ==
  /\ Patch(o, mod)
  /\ op' = [pc |-> pc, obj |-> vm']
  /\ OpFrame

(* The second patch; an error ends the handler.                            *)
OpLastPatch(pc, mod) ==
  /\ op.pc = pc
  /\ op' = OpIdle
  /\ vm' = IF Accepted(op.obj, mod) THEN Patched(op.obj, mod) ELSE vm
  /\ OpFrame

OpAddFinalizer ==
  LET o == Seen(Operator) IN
  /\ OpReads(o) /\ ~o.deleting /\ ~o.finalizer
  /\ OpPatch(o, [o EXCEPT !.finalizer = TRUE])

(* handleResetRetries.                                                     *)
OpResetRetries ==
  LET o == Seen(Operator)
      mod == [o EXCEPT !.reset = FALSE] IN
  /\ OpReads(o) /\ ~o.deleting /\ o.finalizer /\ o.reset
  /\ IF o.phase \in {"Failed", "RetryExhausted"}
     THEN OpPatchThen(o, mod, "reset")
     ELSE OpPatch(o, mod)

OpResetStatus ==
  OpLastPatch("reset", [op.obj EXCEPT !.count = 0, !.exhausted = FALSE, !.phase = "Pending"])

(* schedule lists nodes, profiles and VMs before anything is written; the  *)
(* handler goes on with the copy it read before.                           *)
OpSchedule ==
  LET o == Seen(Operator) IN
  /\ OpPasses(o) /\ o.node = NoNode
  /\ op' = [pc |-> "schedule", obj |-> o]
  /\ UNCHANGED vm /\ OpFrame

OpUnschedulable ==
  /\ \A n \in Nodes : ~ready[n]
  /\ OpLastPatch("schedule", [op.obj EXCEPT !.phase = "Pending"])

(* A ready node is picked; the spec is patched first, the status after it. *)
OpAssign(n) ==
  LET mod == [op.obj EXCEPT !.node = n] IN
  /\ op.pc = "schedule"
  /\ ready[n]
  /\ IF Accepted(op.obj, mod)
     THEN /\ vm' = Patched(op.obj, mod)
          /\ op' = [pc |-> "assign", obj |-> vm']
     ELSE op' = OpIdle /\ UNCHANGED vm
  /\ OpFrame

OpAssigned ==
  OpLastPatch("assign", [op.obj EXCEPT !.ack = op.obj.node, !.phase = "Scheduled"])

(* Mutant: only Running VMs are moved.                                     *)
OpNodeLostRunningOnly ==
  LET o == Seen(Operator) IN
  /\ OpPasses(o) /\ o.node # NoNode /\ o.phase = "Running"
  /\ ~ready[o.node]
  /\ IF Movable
     THEN OpPatchThen(o, [o EXCEPT !.node = NoNode], "unassign")
     ELSE OpPatch(o, [o EXCEPT !.phase = "Failed"])

(* syncStatus on an unhealthy node: the VM loses its assignment, spec      *)
(* first, or is marked Failed.                                             *)
OpNodeLost ==
  LET o == Seen(Operator) IN
  /\ OpPasses(o) /\ o.node # NoNode /\ o.phase # "Failed"
  /\ ~ready[o.node]
  /\ IF Movable
     THEN OpPatchThen(o, [o EXCEPT !.node = NoNode], "unassign")
     ELSE OpPatch(o, [o EXCEPT !.phase = "Failed"])

OpUnassigned ==
  OpLastPatch("unassign", [op.obj EXCEPT !.ack = NoNode, !.phase = "Pending", !.suspended = FALSE])

(* Mutant: restartCount counts the restarts left.                          *)
OpRestartCountsDown ==
  LET o == Seen(Operator)
      inPlace == Policy.mode = "in-place"
      mod == [o EXCEPT !.phase = IF inPlace THEN "Scheduled" ELSE "Pending",
                       !.count = @ - 1] IN
  /\ OpPasses(o) /\ o.node # NoNode /\ o.phase = "Failed"
  /\ o.count < EffectiveMax
  /\ IF inPlace THEN OpPatch(o, mod) ELSE OpPatchThen(o, mod, "restart")

(* handleFailed, restarts left.                                            *)
OpRestart ==
  LET o == Seen(Operator)
      inPlace == Policy.mode = "in-place"
      mod == [o EXCEPT !.phase = IF inPlace THEN "Scheduled" ELSE "Pending",
                       !.count = @ + 1] IN
  /\ OpPasses(o) /\ o.node # NoNode /\ o.phase = "Failed"
  /\ o.count < EffectiveMax
  /\ IF inPlace THEN OpPatch(o, mod) ELSE OpPatchThen(o, mod, "restart")

OpRestartElsewhere == OpLastPatch("restart", [op.obj EXCEPT !.node = NoNode])

(* handleFailed, restarts used up: park the VM, start the cool-down, or    *)
(* reset once it has elapsed.                                              *)
OpExhausted ==
  LET o == Seen(Operator) IN
  /\ OpPasses(o) /\ o.node # NoNode /\ o.phase = "Failed"
  /\ Policy # NoPolicy /\ o.count >= EffectiveMax
  /\ \/ /\ Policy.onExhaustion = "manual-reset"
        /\ OpPatch([o EXCEPT !.exhausted = FALSE],
                   [o EXCEPT !.phase = "RetryExhausted", !.exhausted = TRUE])
     \/ /\ Policy.onExhaustion = "cool-down" /\ ~o.exhausted
        /\ OpPatch(o, [o EXCEPT !.exhausted = TRUE])
     \/ /\ Policy.onExhaustion = "cool-down" /\ o.exhausted
        /\ OpPatch(o, [o EXCEPT !.phase = "Pending", !.count = 0, !.exhausted = FALSE])

(* handleDeletion.                                                         *)
OpDeletes(o) == OpReads(o) /\ o.deleting /\ o.finalizer

(* The last finalizer goes, and with it the object.                        *)
RemoveFinalizer ==
  /\ vm # NoVM
  /\ vm' = IF vm.deleting THEN NoVM ELSE [vm EXCEPT !.finalizer = FALSE]
  /\ UNCHANGED op

OpDropUnscheduled ==
  LET o == Seen(Operator) IN
  /\ OpDeletes(o) /\ o.ack = NoNode /\ o.node = NoNode
  /\ RemoveFinalizer /\ OpFrame

OpDropAcknowledged ==
  LET o == Seen(Operator) IN
  /\ OpDeletes(o) /\ o.ack = NoNode /\ o.node # NoNode /\ o.phase = "Terminating"
  /\ RemoveFinalizer /\ OpFrame

(* Mutant: the timeout is looked at only before the agent is signalled.    *)
OpDropTimedOutUnsignalled ==
  LET o == Seen(Operator) IN
  /\ "timeout" \in Env
  /\ OpDeletes(o) /\ (o.ack # NoNode \/ o.node # NoNode) /\ o.phase # "Terminating"
  /\ RemoveFinalizer /\ OpFrame

(* The 2 minute termination timeout.                                       *)
OpDropTimedOut ==
  LET o == Seen(Operator) IN
  /\ "timeout" \in Env
  /\ OpDeletes(o) /\ (o.ack # NoNode \/ o.node # NoNode)
  /\ RemoveFinalizer /\ OpFrame

OpTerminate ==
  LET o == Seen(Operator) IN
  /\ OpDeletes(o) /\ (o.ack # NoNode \/ o.node # NoNode)
  /\ o.phase # "Terminating"
  /\ OpPatch(o, [o EXCEPT !.phase = "Terminating",
                          !.ack = IF @ = NoNode THEN o.node ELSE @])

OpStep ==
  \/ OpAddFinalizer \/ OpResetRetries \/ OpResetStatus \/ OpSchedule \/ OpUnschedulable
  \/ \E n \in Nodes : OpAssign(n)
  \/ OpAssigned \/ OpNodeLost \/ OpUnassigned
  \/ OpRestart \/ OpRestartElsewhere \/ OpExhausted
  \/ OpDropUnscheduled \/ OpDropAcknowledged \/ OpDropTimedOut \/ OpTerminate

-----------------------------------------------------------------------------
(* The agent on node n: its ImpVMReconciler.Reconcile.                     *)

AgFrame == UNCHANGED <<cache, op, orphan, ready, events>>

(* Mutant: the node filter is missing.                                     *)
AgReadsAny(n, o, phase) ==
  ag[n].pc = "idle" /\ o # NoVM /\ o.phase = phase

(* A reconcile starts from the cached object o, if it is assigned here.    *)
AgReads(n, o, phase) ==
  ag[n].pc = "idle" /\ o # NoVM /\ o.node = n /\ o.phase = phase

AgGoto(n, pc, obj, pid) == ag' = [ag EXCEPT ![n] = [pc |-> pc, obj |-> obj, pid |-> pid]]

AgDone(n) == ag' = [ag EXCEPT ![n] = AgIdle]

(* A patch that ends a handler which has done other work before.           *)
AgLastPatch(n, mod) ==
  LET o == ag[n].obj IN
  /\ vm' = IF Accepted(o, mod) THEN Patched(o, mod) ELSE vm
  /\ AgDone(n)

(* handleStarting: nothing happens until the start timeout has passed.     *)
AgStartTimeout(n) ==
  LET o == Seen(n) IN
  /\ "timeout" \in Env
  /\ AgReads(n, o, "Starting") /\ o.started
  /\ Patch(o, [o EXCEPT !.phase = "Failed", !.started = FALSE])
  /\ UNCHANGED <<ag, rt, snap, nextPid>> /\ AgFrame

(* Mutant: startedAt is not stamped.                                       *)
AgScheduledNoStamp(n) ==
  LET o == Seen(n) IN
  /\ AgReads(n, o, "Scheduled")
  /\ Patch(o, [o EXCEPT !.phase = "Starting"])
  /\ AgGoto(n, "start", vm', 0)
  /\ UNCHANGED <<rt, snap, nextPid>> /\ AgFrame

(* handleScheduled: claim the start with phase=Starting, then call Start.  *)
(* The patch always carries startedAt: the new time differs from any other. *)
AgScheduled(n) ==
  LET o == Seen(n) IN
  /\ AgReads(n, o, "Scheduled")
  /\ Patch([o EXCEPT !.started = FALSE], [o EXCEPT !.phase = "Starting", !.started = TRUE])
  /\ AgGoto(n, "start", vm', 0)
  /\ UNCHANGED <<rt, snap, nextPid>> /\ AgFrame

(* handleResuming calls Start without a patch of its own.                  *)
AgResuming(n) ==
  LET o == Seen(n) IN
  /\ AgReads(n, o, "Resuming")
  /\ AgGoto(n, "start", o, 0)
  /\ UNCHANGED <<vm, rt, snap, nextPid>> /\ AgFrame

(* The runtime carries out a Start: a boot from the suspend snapshot needs *)
(* its files.                                                              *)
Boots(n, restore) == nextPid <= MaxPid /\ (restore => snap[n] # 0)

StartReturns(n) ==
  /\ ag[n].pc = "start"
  /\ Boots(n, ag[n].obj.suspended)
  /\ rt' = [rt EXCEPT ![n] = BackendStart(@, nextPid)]
  /\ nextPid' = nextPid + 1
  /\ AgGoto(n, "started", ag[n].obj, nextPid)
  /\ UNCHANGED <<vm, snap>> /\ AgFrame

(* A resume whose snapshot files are gone fails every time, and so does a  *)
(* boot once the PIDs of the bound are used up.                            *)
StartRefused(n) ==
  /\ ag[n].pc = "start"
  /\ ~Boots(n, ag[n].obj.suspended)
  /\ \E r \in DriverStartFails(rt[n]) : rt' = [rt EXCEPT ![n] = r]
  /\ AgDone(n)
  /\ UNCHANGED <<vm, snap, nextPid>> /\ AgFrame

(* Inspect after Start, whose Running is not looked at, and the patch to   *)
(* Running.                                                                *)
AgStarted(n) ==
  LET o == ag[n].obj
      running == [o EXCEPT !.phase = "Running", !.pid = ag[n].pid] IN
  /\ ag[n].pc = "started"
  /\ rt' = [rt EXCEPT ![n] = BackendGet(@, o.pid)]
  /\ IF o.phase = "Resuming"
     THEN AgLastPatch(n, [running EXCEPT !.suspended = FALSE])
     ELSE AgLastPatch(n, [running EXCEPT !.started = FALSE])
  /\ UNCHANGED <<snap, nextPid>> /\ AgFrame

(* handleRunning, suspend requested.                                       *)
AgSuspendRequested(n) ==
  LET o == Seen(n) IN
  /\ AgReads(n, o, "Running") /\ o.desired = "Suspended"
  /\ Patch(o, [o EXCEPT !.phase = "Suspending"])
  /\ UNCHANGED <<ag, rt, snap, nextPid>> /\ AgFrame

(* handleRunning: Inspect; a process the runtime has forgotten but whose   *)
(* PID is alive is reattached; otherwise the VM has exited, unless the     *)
(* runtime cannot tell.                                                    *)
AgRunning(n) ==
  LET o == Seen(n)
      got == BackendGet(rt[n], o.pid)
      adopted == o.pid # 0 /\ IsAlive(rt[n], o.pid) /\ rt[n].sock
      exited == IF Ephemeral
                THEN [o EXCEPT !.phase = "Succeeded", !.started = FALSE, !.pid = 0]
                ELSE [o EXCEPT !.phase = "Failed", !.started = FALSE] IN
  /\ AgReads(n, o, "Running") /\ o.desired = "Running"
  /\ IF GetRunning(rt[n], o.pid) \/ adopted
     THEN /\ rt' = [rt EXCEPT ![n] = IF GetRunning(rt[n], o.pid)
                                     THEN got ELSE Reattach(got, o.pid)]
          /\ UNCHANGED vm
     ELSE /\ rt' = [rt EXCEPT ![n] = got]
          /\ vm' = IF ~GetFails(rt[n], o.pid) /\ Accepted(o, exited)
                   THEN Patched(o, exited) ELSE vm
  /\ UNCHANGED <<ag, snap, nextPid>> /\ AgFrame

(* Mutant: only a VM whose status has a PID is stopped.                    *)
AgTerminatingByPid(n) ==
  LET o == Seen(n) IN
  /\ AgReads(n, o, "Terminating")
  /\ rt' = [rt EXCEPT ![n] = IF o.pid = 0 THEN @ ELSE BackendStop(@)]
  /\ snap' \in {snap, [snap EXCEPT ![n] = 0]}
  /\ AgGoto(n, "stopped", o, 0)
  /\ UNCHANGED <<vm, nextPid>> /\ AgFrame

(* handleTerminating: Stop, remove the suspend dir, then clear ownership.  *)
(* That the directory cannot be removed is only logged.                    *)
AgTerminating(n) ==
  LET o == Seen(n) IN
  /\ AgReads(n, o, "Terminating")
  /\ rt' = [rt EXCEPT ![n] = BackendStop(@)]
  /\ snap' \in {snap, [snap EXCEPT ![n] = 0]}
  /\ AgGoto(n, "stopped", o, 0)
  /\ UNCHANGED <<vm, nextPid>> /\ AgFrame

AgClearOwnership(n) ==
  /\ ag[n].pc = "stopped"
  /\ AgLastPatch(n, [ag[n].obj EXCEPT !.ack = NoNode, !.pid = 0])
  /\ UNCHANGED <<rt, snap, nextPid>> /\ AgFrame

(* Mutant: the snapshot's error is ignored.                                *)
AgSnapshotIgnoresError(n) ==
  LET o == Seen(n) IN
  /\ AgReads(n, o, "Suspending")
  /\ \/ CanSnapshot(rt[n]) /\ snap' = [snap EXCEPT ![n] = rt[n].proc.pid]
     \/ UNCHANGED snap
  /\ AgGoto(n, "snapped", o, 0)
  /\ UNCHANGED <<vm, rt, nextPid>> /\ AgFrame

(* handleSuspending: snapshot, then stop, then record.  A snapshot that    *)
(* cannot be taken is retried.                                             *)
AgSnapshot(n) ==
  LET o == Seen(n) IN
  /\ AgReads(n, o, "Suspending")
  /\ CanSnapshot(rt[n])
  /\ snap' = [snap EXCEPT ![n] = rt[n].proc.pid]
  /\ AgGoto(n, "snapped", o, 0)
  /\ UNCHANGED <<vm, rt, nextPid>> /\ AgFrame

(* Mutant: stopping the process cleans up its suspend directory.           *)
AgSuspendStopCleansUp(n) ==
  /\ ag[n].pc = "snapped"
  /\ rt' = [rt EXCEPT ![n] = BackendStop(@)]
  /\ snap' = [snap EXCEPT ![n] = 0]
  /\ AgGoto(n, "parked", ag[n].obj, 0)
  /\ UNCHANGED <<vm, nextPid>> /\ AgFrame

AgSuspendStop(n) ==
  /\ ag[n].pc = "snapped"
  /\ rt' = [rt EXCEPT ![n] = BackendStop(@)]
  /\ AgGoto(n, "parked", ag[n].obj, 0)
  /\ UNCHANGED <<vm, snap, nextPid>> /\ AgFrame

AgParked(n) ==
  /\ ag[n].pc = "parked"
  /\ AgLastPatch(n, [ag[n].obj EXCEPT !.phase = "Suspended", !.suspended = TRUE, !.pid = 0])
  /\ UNCHANGED <<rt, snap, nextPid>> /\ AgFrame

(* handleSuspended.                                                        *)
AgResume(n) ==
  LET o == Seen(n) IN
  /\ AgReads(n, o, "Suspended") /\ o.desired = "Running"
  /\ Patch(o, [o EXCEPT !.phase = "Resuming"])
  /\ UNCHANGED <<ag, rt, snap, nextPid>> /\ AgFrame

AgStep(n) ==
  \/ AgStartTimeout(n) \/ AgScheduled(n) \/ AgResuming(n) \/ AgStarted(n)
  \/ AgSuspendRequested(n) \/ AgRunning(n)
  \/ AgTerminating(n) \/ AgClearOwnership(n)
  \/ AgSnapshot(n) \/ AgSuspendStop(n) \/ AgParked(n) \/ AgResume(n)

RtStep(n) == StartReturns(n) \/ StartRefused(n)

-----------------------------------------------------------------------------
(* The environment.  Every disturbance uses up one of MaxEvents.           *)

Happens(kind) == kind \in Env /\ events < MaxEvents /\ events' = events + 1

(* A patch fails in flight, or the operator restarts: the handler is       *)
(* abandoned where it stands.                                              *)
OpAbandoned ==
  /\ Happens("api") /\ op.pc # "idle"
  /\ op' = OpIdle
  /\ UNCHANGED <<vm, cache, ag, rt, orphan, snap, ready, nextPid>>

AgAbandoned(n) ==
  /\ Happens("api") /\ ag[n].pc \notin {"idle", "start"}
  /\ AgDone(n)
  /\ UNCHANGED <<vm, cache, op, rt, orphan, snap, ready, nextPid>>

(* The agent process dies while a Start call is in flight.  The runtime    *)
(* serves the call with a context of its own, so it goes on.  The new      *)
(* agent lists the object afresh.  Bound: one such call per node at a time. *)
AgentCrash(n) ==
  /\ Happens("crash") /\ ag[n].pc = "start" /\ orphan[n] = "none"
  /\ orphan' = [orphan EXCEPT ![n] = IF ag[n].obj.suspended THEN "restore" ELSE "cold"]
  /\ AgDone(n)
  /\ cache' = [cache EXCEPT ![n] = vm]
  /\ UNCHANGED <<vm, op, rt, snap, ready, nextPid>>

OrphanReturns(n) ==
  /\ orphan[n] # "none"
  /\ orphan' = [orphan EXCEPT ![n] = "none"]
  /\ IF Boots(n, orphan[n] = "restore")
     THEN /\ rt' = [rt EXCEPT ![n] = BackendStart(@, nextPid)]
          /\ nextPid' = nextPid + 1
     ELSE /\ \E r \in DriverStartFails(rt[n]) : rt' = [rt EXCEPT ![n] = r]
          /\ UNCHANGED nextPid
  /\ UNCHANGED <<vm, cache, op, ag, snap, ready, events>>

(* Start fails: in the driver, or after it, when the inventory cannot be   *)
(* saved and the process is left running.                                  *)
StartFails(n) ==
  /\ Happens("startfail") /\ ag[n].pc = "start"
  /\ \/ /\ \E r \in DriverStartFails(rt[n]) : rt' = [rt EXCEPT ![n] = r]
        /\ UNCHANGED nextPid
     \/ /\ Boots(n, ag[n].obj.suspended)
        /\ rt' = [rt EXCEPT ![n] = DriverStart(@, nextPid)]
        /\ nextPid' = nextPid + 1
  /\ AgDone(n)
  /\ UNCHANGED <<vm, cache, op, orphan, snap, ready>>

(* The runtime restarts: the calls in flight end with an error, the        *)
(* processes survive or are killed with it.                                *)
RuntimeRestart(n) ==
  /\ Happens("runtime")
  /\ \E kept \in {rt[n].live, {}} : rt' = [rt EXCEPT ![n] = RuntimeRestarted(@, kept)]
  /\ ag' = [ag EXCEPT ![n] = IF @.pc = "start" THEN AgIdle ELSE @]
  /\ orphan' = [orphan EXCEPT ![n] = "none"]
  /\ UNCHANGED <<vm, cache, op, snap, ready, nextPid>>

ProcessExit(n) ==
  /\ Happens("exit")
  /\ \E p \in rt[n].live : rt' = [rt EXCEPT ![n].live = @ \ {p}]
  /\ UNCHANGED <<vm, cache, op, ag, orphan, snap, ready, nextPid>>

NodeReadyChanges(n) ==
  /\ Happens("node")
  /\ ready' = [ready EXCEPT ![n] = ~@]
  /\ UNCHANGED <<vm, cache, op, ag, rt, orphan, snap, nextPid>>

(* A user, or reconcileExpiry, deletes the object.                         *)
Delete ==
  /\ Happens("delete") /\ vm # NoVM /\ ~vm.deleting
  /\ vm' = IF vm.finalizer THEN [vm EXCEPT !.deleting = TRUE] ELSE NoVM
  /\ UNCHANGED <<cache, op, ag, rt, orphan, snap, ready, nextPid>>

SetDesired(d) ==
  /\ Happens("suspend") /\ vm # NoVM /\ vm.desired # d
  /\ vm' = [vm EXCEPT !.desired = d]
  /\ UNCHANGED <<cache, op, ag, rt, orphan, snap, ready, nextPid>>

RequestReset ==
  /\ Happens("reset") /\ vm # NoVM /\ ~vm.reset
  /\ vm' = [vm EXCEPT !.reset = TRUE]
  /\ UNCHANGED <<cache, op, ag, rt, orphan, snap, ready, nextPid>>

EnvStep ==
  \/ OpAbandoned \/ Delete \/ RequestReset
  \/ \E d \in {"Running", "Suspended"} : SetDesired(d)
  \/ \E n \in Nodes :
       \/ AgAbandoned(n) \/ AgentCrash(n) \/ OrphanReturns(n) \/ StartFails(n)
       \/ RuntimeRestart(n) \/ ProcessExit(n) \/ NodeReadyChanges(n)

Next ==
  \/ OpStep
  \/ \E n \in Nodes : AgStep(n) \/ RtStep(n)
  \/ \E c \in Controllers : Deliver(c)
  \/ EnvStep

Spec == Init /\ [][Next]_vars

(* Controllers keep reconciling (events, requeues and resyncs), watches    *)
(* deliver and runtime calls return; nothing is assumed of the             *)
(* environment.                                                            *)
Fairness ==
  /\ WF_vars(OpStep)
  /\ \A n \in Nodes : WF_vars(AgStep(n)) /\ WF_vars(RtStep(n)) /\ WF_vars(OrphanReturns(n))
  /\ \A c \in Controllers : WF_vars(Deliver(c))

FairSpec == Spec /\ Fairness

-----------------------------------------------------------------------------
(* Properties.                                                             *)

(* While the object exists, Firecracker processes of the VM run only on    *)
(* the node spec.nodeName names: a start, a restart, a resume or a call    *)
(* left behind by a crashed agent never produces one elsewhere.            *)
OnlyAssignedNodeRuns ==
  vm # NoVM => \A n \in Nodes : rt[n].live # {} => vm.node = n

(* Whoever acts for the VM agrees with spec.nodeName: no cache names       *)
(* another node, and handlers, Start calls left behind and processes       *)
(* exist only on that node.                                                *)
AssignmentIsShared ==
  vm # NoVM =>
    /\ \A c \in Controllers : cache[c] # NoVM /\ cache[c].node # NoNode => cache[c].node = vm.node
    /\ \A n \in Nodes : ag[n].pc # "idle" \/ orphan[n] # "none" \/ rt[n].live # {} => vm.node = n

(* A VM that is Suspended or Resuming on a node has its memory in that     *)
(* node's suspend directory: handleSuspending records the path only after  *)
(* the snapshot, and nothing removes the directory before the VM has been  *)
(* handed to handleTerminating.                                            *)
SuspendedHasSnapshot ==
  vm # NoVM /\ vm.phase \in {"Suspended", "Resuming"} /\ ~vm.deleting
    => \E n \in Nodes : vm.node = n /\ snap[n] # 0

(* handleSuspending never stops a process whose memory is not the one in   *)
(* the suspend directory.                                                  *)
StopsOnlySnapshotted ==
  [][\A n \in Nodes : ag[n].pc = "snapped" /\ ag'[n].pc = "parked"
       => rt[n].live \ rt'[n].live \subseteq {snap[n]}]_vars

(* When a deleted VM carries the agent's acknowledgement (Terminating, no  *)
(* status.nodeName) the runtime of its node has neither an entry nor a     *)
(* record of it and its last process is gone: whatever start, resume or    *)
(* suspend the deletion overtook, handleTerminating has stopped what came  *)
(* of it.  A process displaced by a second Start is nobody's any more.     *)
AcknowledgedIsCleanedUp ==
  vm # NoVM /\ vm.deleting /\ vm.phase = "Terminating" /\ vm.ack = NoNode
    => \A n \in Nodes : vm.node = n =>
         rt[n].proc = NoProc /\ rt[n].inv = 0 /\ nextPid - 1 \notin rt[n].live

(* A node never runs two processes of the VM.                              *)
AtMostOneProcess == \A n \in Nodes : Cardinality(rt[n].live) <= 1

(* A deleted VM disappears, whatever becomes of its node, its agent and    *)
(* its runtime.                                                            *)
DeletionCompletes == (vm # NoVM /\ vm.deleting) ~> (vm = NoVM)

(* A VM does not stay in Starting: whatever happens between the claim and  *)
(* the report, it becomes Running or the start times out.                  *)
StartResolves == (vm # NoVM /\ vm.phase = "Starting") ~> (vm = NoVM \/ vm.phase # "Starting")

(* A Suspending VM does not stay so.                                       *)
SuspendCompletes == (vm # NoVM /\ vm.phase = "Suspending") ~> (vm = NoVM \/ vm.phase # "Suspending")

(* A Pending VM is scheduled while some node stays ready.                  *)
PendingIsScheduled ==
  (vm # NoVM /\ vm.phase = "Pending") ~> (vm = NoVM \/ vm.phase # "Pending" \/ \A n \in Nodes : ~ready[n])

(* An ephemeral VM on a lost node moves to another one.                    *)
NodeLossReschedules ==
  \A n \in Nodes : (vm # NoVM /\ vm.node = n /\ ~ready[n])
     ~> (vm = NoVM \/ vm.node # n \/ ready[n])
=============================================================================
