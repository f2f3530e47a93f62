----------------------------- MODULE Snapshots -----------------------------
(***************************************************************************)
(* ImpVMSnapshot objects of one source VM.  A parent, made by a user or by *)
(* a migration, asks for one snapshot or for a schedule of them; the       *)
(* operator creates a child for every execution, named by parent and       *)
(* second, and the agent of the VM's node executes it.                     *)
(*                                                                         *)
(* Parents and children are one kind and so share an informer: a cache     *)
(* shows one state of all of them.  It is Live or it lags, showing the     *)
(* copy it has had since, until it catches up.  Of the cron schedule only  *)
(* this counts: whether the next tick is at most 5 seconds away ("near").  *)
(***************************************************************************)
EXTENDS Naturals, FiniteSets

CONSTANTS
  Parents,      \* the names of the snapshots without a parent label
  Scheduled,    \* those with a cron schedule
  Nodes,
  None,
  Live,         \* a cache that shows the current objects
  Retention,    \* spec.retention
  MaxSecond,    \* bound: seconds in which children are created
  Env,          \* the kinds of disturbance that may happen
  MaxEvents     \* bound: disturbances in a behaviour

SnapshotEnv == {"lag", "move", "vmdelete", "snapfail", "api", "crash", "elect"}

ASSUME ScheduleAssumption == Scheduled \subseteq Parents
ASSUME RetentionAssumption == Retention \in Nat \ {0}
ASSUME SecondAssumption == MaxSecond \in Nat \ {0} /\ MaxEvents \in Nat

Seconds == 1..MaxSecond
Keys == Parents \X Seconds

Parent ==
  [phase : {"absent", "", "Pending", "Succeeded", "Failed"}, terminated : BOOLEAN,
   elected : Seconds \cup {None},   \* spec.baseSnapshot
   base : Seconds \cup {None},      \* status.baseSnapshot
   last : Seconds \cup {None}]      \* status.lastExecutionRef
Child ==
  [phase : {"", "Running", "Succeeded", "Failed"}, terminated : BOOLEAN,
   path : Nodes \cup {None}]        \* the node of status.snapshotPath

VARIABLES
  parent,     \* the parents
  child,      \* the children that exist, by key
  vm,         \* the node of the source VM, None without one, or "gone"
  announced,  \* the parents whose status.nextScheduledAt is the coming tick
  clock,      \* the next tick is "far" or "near"
  second,     \* the current second
  queued,     \* the parents in the operator's queue
  timer,      \* per parent: what RequeueAfter waits for: "none", "gate" or "tick"
  opCache,    \* the objects the operator's cache is behind with, or Live
  agCache,    \* the same, per agent
  vmCache,    \* per agent: the VM its cache is behind with, or Live
  todo,       \* per agent: the children in its queue
  job,        \* per agent: the execution under way, or Idle
  disk,       \* per node and key: the artifact "none", "partial" or "whole"
  overlapped, \* history: parents with an execution decided on an outdated copy
  rerun,      \* history: children whose outcome was written or marked again
  pruned,     \* history: children pruned on an outdated copy
  adrift,     \* history: children the VM's agent may have passed over (see Missed)
  events      \* disturbances so far

objects == <<parent, child, announced>>
opVars == <<queued, timer, opCache>>
agVars == <<agCache, vmCache, todo, job, disk>>
history == <<overlapped, rerun, pruned, adrift>>
snapVars == <<objects, vm, clock, second, opVars, agVars, history, events>>

Idle == [pc |-> "idle"]
Job == [pc : {"exec", "finish"}, key : Keys, ok : BOOLEAN]
Objects == [parent |-> parent, child |-> child]

Now(c) == IF c = Live THEN Objects ELSE c
VMNow(n) == IF vmCache[n] = Live THEN vm ELSE vmCache[n]

SnapshotsTypeOK ==
  /\ parent \in [Parents -> Parent]
  /\ DOMAIN child \subseteq Keys /\ \A k \in DOMAIN child : child[k] \in Child
  /\ vm \in Nodes \cup {None, "gone"} /\ announced \subseteq Scheduled
  /\ clock \in {"far", "near"} /\ second \in Seconds
  /\ queued \subseteq Parents /\ timer \in [Parents -> {"none", "gate", "tick"}]
  /\ \A c \in {opCache} \cup {agCache[n] : n \in Nodes} :
       /\ Now(c).parent \in [Parents -> Parent]
       /\ DOMAIN Now(c).child \subseteq Keys
  /\ \A n \in Nodes : VMNow(n) \in Nodes \cup {None, "gone"}
  /\ todo \in [Nodes -> SUBSET Keys]
  /\ job \in [Nodes -> Job \cup {Idle}]
  /\ disk \in [Nodes -> [Keys -> {"none", "partial", "whole"}]]
  /\ overlapped \subseteq Parents /\ rerun \subseteq Keys /\ pruned \subseteq Keys
  /\ adrift \subseteq Keys /\ events \in Nat

NewParent(phase) ==
  [phase |-> phase, terminated |-> FALSE, elected |-> None, base |-> None, last |-> None]
NewChild == [phase |-> "", terminated |-> FALSE, path |-> None]

SnapshotsInit(present) ==
  /\ parent = [p \in Parents |-> NewParent(IF p \in present THEN "" ELSE "absent")]
  /\ child = <<>> /\ announced = {}
  /\ vm \in Nodes \cup {None}
  /\ clock \in {"far", "near"} /\ second = 1
  /\ queued = present /\ timer = [p \in Parents |-> "none"]
  /\ opCache = Live
  /\ agCache = [n \in Nodes |-> Live] /\ vmCache = [n \in Nodes |-> Live]
  /\ todo = [n \in Nodes |-> {}] /\ job = [n \in Nodes |-> Idle]
  /\ disk = [n \in Nodes |-> [k \in Keys |-> "none"]]
  /\ overlapped = {} /\ rerun = {} /\ pruned = {} /\ adrift = {}
  /\ events = 0

Happens(kind) == kind \in Env /\ events < MaxEvents /\ events' = events + 1

(* An event of the children in K queues them with every agent whose cache  *)
(* is Live and their parents with the operator, if its cache is; a cache   *)
(* that lags passes its events on when it catches up.                      *)
ToAgents(K) == todo' = [n \in Nodes |-> IF agCache[n] = Live THEN todo[n] \cup K ELSE todo[n]]
ToOperator(P) == queued' = IF opCache = Live THEN queued \cup P ELSE queued
-----------------------------------------------------------------------------
(* The operator's ImpVMSnapshotReconciler.                                 *)

KidsOf(o, p) == {k \in DOMAIN o.child : k[1] = p}

(* Mutant: the gate goes by the phase.                                     *)
GateByPhase(o, p) == \E k \in KidsOf(o, p) : o.child[k].phase = "Running"

(* The serialization gate: an execution that has not terminated.           *)
Gate(o, p) == \E k \in KidsOf(o, p) : ~o.child[k].terminated

(* Mutant: the elected base is as good as any.                             *)
PruneOldest(o, p) ==
  LET kids == KidsOf(o, p)
  IN  {k \in kids : Cardinality({j \in kids : j[2] > k[2]}) >= Retention}

(* The oldest beyond the retention, the elected base excepted.             *)
ToDelete(o, p) ==
  LET kids == KidsOf(o, p)
  IN  {k \in kids : /\ Cardinality({j \in kids : j[2] > k[2]}) >= Retention
                    /\ k[2] # o.parent[p].elected}

(* Validation of spec.baseSnapshot: only a Succeeded child is adopted.     *)
ValidBase(o, p) ==
  LET b == o.parent[p].elected
  IN  IF b # None /\ <<p, b>> \in DOMAIN o.child /\ o.child[<<p, b>>].phase = "Succeeded"
      THEN b ELSE o.parent[p].base

(* A new parent becomes Pending.                                           *)
Phase(o, p) == IF o.parent[p].phase = "" THEN "Pending" ELSE parent[p].phase

(* One-shot: no child at all; scheduled: the next tick is near.            *)
Due(o, p) == IF p \in Scheduled THEN clock = "near" ELSE KidsOf(o, p) = {}

(* A pass that stops at the gate.                                          *)
OpGated(p) ==
  LET o == Now(opCache)
  IN  /\ p \in queued /\ o.parent[p].phase # "absent" /\ Gate(o, p)
      /\ parent' = [parent EXCEPT ![p].phase = Phase(o, p)]
      /\ timer' = [timer EXCEPT ![p] = "gate"]
      /\ queued' = IF parent' # parent /\ opCache = Live THEN queued ELSE queued \ {p}
      /\ UNCHANGED <<child, announced, vm, clock, second, opCache, agVars, history, events>>

(* A pass beyond the gate: it prunes, adopts the elected base, creates a   *)
(* child if one is due, records it and the next tick.  Its own writes      *)
(* queue the parent again.  createChild fails, and is tried again, when    *)
(* the name is taken; it may also fail after the child was created.        *)
OpPass(p, o, gone, fresh, recorded) ==
  /\ p \in queued /\ o.parent[p].phase # "absent" /\ ~Gate(o, p)
  /\ child' = [k \in (DOMAIN child \ gone) \cup fresh |->
                 IF k \in fresh THEN NewChild ELSE child[k]]
  /\ parent' = [parent EXCEPT
                  ![p].phase = Phase(o, p), ![p].base = ValidBase(o, p),
                  ![p].last = IF fresh # {} /\ recorded THEN second ELSE @]
  /\ announced' = IF p \in Scheduled /\ recorded THEN announced \cup {p} ELSE announced
  /\ overlapped' = IF fresh # {} /\ o # Objects THEN overlapped \cup {p} ELSE overlapped
  /\ pruned' = IF o = Objects THEN pruned ELSE pruned \cup (gone \cap DOMAIN child)
  /\ adrift' = IF vm = None THEN adrift \cup fresh ELSE adrift
  /\ ToAgents(fresh)
  /\ UNCHANGED <<vm, clock, second, opCache, agCache, vmCache, job, disk, rerun>>

OpReconcile(p) ==
  LET o == Now(opCache)
      gone == ToDelete(o, p)
      name == <<p, second>>
  IN  /\ \/ /\ ~Due(o, p)
            /\ OpPass(p, o, gone, {}, TRUE)
         \/ /\ Due(o, p) /\ name \notin DOMAIN child \ gone
            /\ OpPass(p, o, gone, {name}, TRUE)
      /\ timer' = [timer EXCEPT ![p] = IF p \in Scheduled THEN "tick" ELSE "none"]
      /\ queued' = IF objects' # objects /\ opCache = Live THEN queued ELSE queued \ {p}
      /\ UNCHANGED events

OpReconcileFails(p) ==
  LET o == Now(opCache)
      gone == ToDelete(o, p)
      name == <<p, second>>
  IN  /\ Due(o, p)
      /\ \/ /\ name \in DOMAIN child \ gone
            /\ OpPass(p, o, gone, {}, FALSE) /\ UNCHANGED events
         \/ /\ name \notin DOMAIN child \ gone
            /\ OpPass(p, o, gone, {name}, FALSE) /\ Happens("api")
      /\ UNCHANGED <<queued, timer>>
-----------------------------------------------------------------------------
(* Time: the timers of RequeueAfter fire after the time they were set for. *)

GateTimer(p) ==
  /\ timer[p] = "gate"
  /\ timer' = [timer EXCEPT ![p] = "none"] /\ queued' = queued \cup {p}
  /\ UNCHANGED <<objects, vm, clock, second, opCache, agVars, history, events>>

Approach ==
  /\ clock = "far" /\ clock' = "near"
  /\ \E p \in Scheduled : parent[p].phase # "absent"
  /\ UNCHANGED <<objects, vm, second, opVars, agVars, history, events>>

Tick ==
  /\ clock = "near" /\ clock' = "far"
  /\ announced' = {}
  /\ queued' = queued \cup {p \in Parents : timer[p] = "tick"}
  /\ timer' = [p \in Parents |-> IF timer[p] = "tick" THEN "none" ELSE timer[p]]
  /\ UNCHANGED <<parent, child, vm, second, opCache, agVars, history, events>>

Second ==
  /\ second < MaxSecond /\ second' = second + 1
  /\ UNCHANGED <<objects, vm, clock, opVars, agVars, history, events>>
-----------------------------------------------------------------------------
(* The agent's ImpVMSnapshotReconciler on node n.                          *)

Take(n, k) == k \in todo[n] /\ job[n] = Idle
Drop(n, k) == todo' = [todo EXCEPT ![n] = @ \ {k}]
Copy(n) == Now(agCache[n]).child

(* A patch of a child is an event of it and of its parent.                 *)
Patched(n, k) ==
  /\ todo' = [i \in Nodes |-> (IF i = n THEN todo[i] \ {k} ELSE todo[i]) \cup
                              (IF agCache[i] = Live THEN {k} ELSE {})]
  /\ ToOperator({k[1]})

(* History: a child that had terminated is written again.                  *)
Written(k) ==
  rerun' = IF k \in DOMAIN child /\ child[k].terminated THEN rerun \cup {k} ELSE rerun

(* History: an agent passes a child over on an outdated copy of the VM.    *)
Missed(n, k) ==
  adrift' = IF k \in DOMAIN Copy(n) /\ VMNow(n) # vm THEN adrift \cup {k} ELSE adrift

(* Mutant: a VM that is gone is a VM elsewhere.                            *)
AgSkipGone(n, k) ==
  /\ Take(n, k)
  /\ k \in DOMAIN Copy(n) => Copy(n)[k].terminated \/ VMNow(n) # n
  /\ Drop(n, k) /\ Missed(n, k)
  /\ UNCHANGED <<objects, vm, clock, second, opVars, agCache, vmCache, job, disk,
                 overlapped, rerun, pruned, events>>

(* Nothing to do: it is gone or has terminated, or the VM is elsewhere or  *)
(* nowhere.                                                                *)
AgSkip(n, k) ==
  /\ Take(n, k)
  /\ k \in DOMAIN Copy(n) => Copy(n)[k].terminated \/ VMNow(n) \notin {n, "gone"}
  /\ Drop(n, k) /\ Missed(n, k)
  /\ UNCHANGED <<objects, vm, clock, second, opVars, agCache, vmCache, job, disk,
                 overlapped, rerun, pruned, events>>

(* The VM is gone: the execution fails, so that the gate opens.            *)
AgVMGone(n, k) ==
  /\ Take(n, k) /\ k \in DOMAIN Copy(n) /\ ~Copy(n)[k].terminated /\ VMNow(n) = "gone"
  /\ IF k \in DOMAIN child
     THEN child' = [child EXCEPT ![k].phase = "Failed", ![k].terminated = TRUE] /\ Patched(n, k)
     ELSE UNCHANGED <<child, todo, queued>>
  /\ Written(k)
  /\ UNCHANGED <<parent, announced, vm, clock, second, timer, opCache, agCache, vmCache, job,
                 disk, overlapped, pruned, adrift, events>>

(* Reconcile up to executeSnapshot: the child is marked Running.           *)
AgBegin(n, k) ==
  /\ Take(n, k) /\ k \in DOMAIN Copy(n) /\ ~Copy(n)[k].terminated /\ VMNow(n) = n
  /\ IF k \in DOMAIN child \/ Copy(n)[k].phase = "Running"
     THEN /\ child' = IF k \in DOMAIN child /\ Copy(n)[k].phase # "Running"
                      THEN [child EXCEPT ![k].phase = "Running"] ELSE child
          /\ IF child' = child THEN Drop(n, k) /\ UNCHANGED queued ELSE Patched(n, k)
          /\ job' = [job EXCEPT ![n] = [pc |-> "exec", key |-> k, ok |-> FALSE]]
          /\ Written(k)
     ELSE UNCHANGED <<child, job, rerun, todo, queued>>
  /\ UNCHANGED <<parent, announced, vm, clock, second, timer, opCache, agCache, vmCache, disk,
                 overlapped, pruned, adrift, events>>

(* Mutant: a rename that fails is not an error.                            *)
AgExecuteUnmoved(n) ==
  /\ job[n].pc = "exec"
  /\ job' = [job EXCEPT ![n].pc = "finish", ![n].ok = TRUE]
  /\ \/ disk' = [disk EXCEPT ![n][job[n].key] = "whole"] /\ UNCHANGED events
     \/ disk' = [disk EXCEPT ![n][job[n].key] = "partial"] /\ Happens("snapfail")
  /\ UNCHANGED <<objects, vm, clock, second, opVars, agCache, vmCache, todo, history>>

(* executeSnapshot: driver.Snapshot into a temporary directory, and two    *)
(* renames into the directory of the child.                                *)
AgExecute(n) ==
  /\ job[n].pc = "exec"
  /\ \/ /\ job' = [job EXCEPT ![n].pc = "finish", ![n].ok = TRUE]
        /\ disk' = [disk EXCEPT ![n][job[n].key] = "whole"]
        /\ UNCHANGED events
     \/ /\ job' = [job EXCEPT ![n].pc = "finish"]
        /\ disk' \in {disk, [disk EXCEPT ![n][job[n].key] = "partial"]}
        /\ Happens("snapfail")
  /\ UNCHANGED <<objects, vm, clock, second, opVars, agCache, vmCache, todo, history>>

(* The end of Reconcile: the child terminates, whatever came of it.  When  *)
(* the patch finds no child the request is tried again.                    *)
AgFinish(n) ==
  /\ job[n].pc = "finish"
  /\ LET k == job[n].key
     IN  IF k \in DOMAIN child
         THEN /\ child' = [child EXCEPT ![k] =
                             IF job[n].ok THEN [phase |-> "Succeeded", terminated |-> TRUE, path |-> n]
                             ELSE [@ EXCEPT !.phase = "Failed", !.terminated = TRUE]]
              /\ Patched(n, k)
         ELSE /\ todo' = [todo EXCEPT ![n] = @ \cup {k}] /\ UNCHANGED <<child, queued>>
  /\ Written(job[n].key)
  /\ job' = [job EXCEPT ![n] = Idle]
  /\ UNCHANGED <<parent, announced, vm, clock, second, timer, opCache, agCache, vmCache, disk,
                 overlapped, pruned, adrift, events>>

(* The patch fails: the request, and so the execution, is tried again.     *)
AgFinishFails(n) ==
  /\ job[n].pc = "finish"
  /\ Happens("api")
  /\ todo' = [todo EXCEPT ![n] = @ \cup {job[n].key}]
  /\ job' = [job EXCEPT ![n] = Idle]
  /\ UNCHANGED <<objects, vm, clock, second, opVars, agCache, vmCache, disk, history>>

(* The agent dies in an execution; the next one lists every child.         *)
AgCrash(n) ==
  /\ job[n] # Idle
  /\ Happens("crash")
  /\ job' = [job EXCEPT ![n] = Idle]
  /\ disk' \in {disk, [disk EXCEPT ![n][job[n].key] = IF job[n].pc = "exec" THEN "partial" ELSE @]}
  /\ agCache' = [agCache EXCEPT ![n] = Live] /\ vmCache' = [vmCache EXCEPT ![n] = Live]
  /\ todo' = [todo EXCEPT ![n] = DOMAIN child]
  /\ UNCHANGED <<objects, vm, clock, second, opVars, history>>
-----------------------------------------------------------------------------
(* The informer caches, and what others do.                                *)

OpFreeze ==
  /\ opCache = Live /\ Happens("lag")
  /\ opCache' = Objects
  /\ UNCHANGED <<objects, vm, clock, second, queued, timer, agVars, history>>

OpCatchUp ==
  /\ opCache # Live
  /\ opCache' = Live
  /\ queued' = queued \cup {p \in Parents : parent[p].phase # "absent"}
  /\ UNCHANGED <<objects, vm, clock, second, timer, agVars, history, events>>

AgFreeze(n) ==
  /\ Happens("lag")
  /\ \/ agCache[n] = Live /\ agCache' = [agCache EXCEPT ![n] = Objects] /\ UNCHANGED vmCache
     \/ vmCache[n] = Live /\ vmCache' = [vmCache EXCEPT ![n] = vm] /\ UNCHANGED agCache
  /\ UNCHANGED <<objects, vm, clock, second, opVars, todo, job, disk, history>>

AgCatchUp(n) ==
  /\ \/ /\ agCache[n] # Live /\ agCache' = [agCache EXCEPT ![n] = Live] /\ UNCHANGED vmCache
        /\ todo' = [todo EXCEPT ![n] = @ \cup {k \in DOMAIN child :
                       k \notin DOMAIN Copy(n) \/ Copy(n)[k] # child[k]}]
     \/ vmCache[n] # Live /\ vmCache' = [vmCache EXCEPT ![n] = Live] /\ UNCHANGED <<agCache, todo>>
  /\ UNCHANGED <<objects, vm, clock, second, opVars, job, disk, history, events>>

(* The VM is scheduled, rescheduled, unassigned or deleted.  No event of a *)
(* VM queues a snapshot.                                                   *)
MoveVM ==
  /\ vm # "gone"
  /\ \/ /\ vm' \in (Nodes \cup {None}) \ {vm} /\ Happens("move")
        /\ adrift' = adrift \cup {k \in DOMAIN child : ~child[k].terminated}
     \/ vm' = "gone" /\ Happens("vmdelete") /\ UNCHANGED adrift
  /\ UNCHANGED <<objects, clock, second, opVars, agVars, overlapped, rerun, pruned>>

(* A user elects an existing child as the base, or takes the election back.*)
Elect(p) ==
  /\ parent[p].phase # "absent" /\ Happens("elect")
  /\ \E b \in {k[2] : k \in KidsOf(Objects, p)} \cup {None} :
       b # parent[p].elected /\ parent' = [parent EXCEPT ![p].elected = b]
  /\ ToOperator({p})
  /\ UNCHANGED <<child, announced, vm, clock, second, timer, opCache, agVars, history>>

SnapshotsNext ==
  \/ \E p \in Parents :
       \/ OpGated(p) \/ OpReconcile(p) \/ OpReconcileFails(p) \/ GateTimer(p) \/ Elect(p)
  \/ Approach \/ Tick \/ Second \/ OpFreeze \/ OpCatchUp \/ MoveVM
  \/ \E n \in Nodes :
       \/ \E k \in Keys : AgSkip(n, k) \/ AgVMGone(n, k) \/ AgBegin(n, k)
       \/ AgExecute(n) \/ AgFinish(n) \/ AgFinishFails(n) \/ AgCrash(n)
       \/ AgFreeze(n) \/ AgCatchUp(n)
-----------------------------------------------------------------------------
(* The serialization gate: a parent has at most one execution that has not *)
(* terminated, unless one was decided on an outdated copy of the objects.  *)
OneExecution ==
  \A p \in Parents \ overlapped :
    Cardinality({k \in KidsOf(Objects, p) : ~child[k].terminated}) <= 1

(* A Succeeded execution has its whole artifact on the node it names,      *)
(* unless a child that had terminated was executed again.                  *)
SucceededHasArtifact ==
  \A k \in DOMAIN child \ rerun :
    child[k].phase = "Succeeded" => disk[child[k].path][k] = "whole"

(* status.baseSnapshot, the only field consumers read, names an existing   *)
(* child that has Succeeded as long as the election stands, unless it was  *)
(* pruned by or executed again from an outdated copy.                      *)
BaseResolves ==
  \A p \in Parents :
    LET b == parent[p].base
    IN  b # None /\ b = parent[p].elected /\ <<p, b>> \notin pruned \cup rerun =>
          <<p, b>> \in DOMAIN child /\ child[<<p, b>>].phase = "Succeeded"

(* Nobody has anything left to do but wait for the next tick or the gate.  *)
Settled ==
  /\ queued = {} /\ opCache = Live
  /\ \A n \in Nodes : todo[n] = {} /\ job[n] = Idle /\ agCache[n] = Live /\ vmCache[n] = Live

(* When nothing is left to do, a one-shot snapshot has been executed and   *)
(* every execution has terminated, so that no gate stays shut; except for  *)
(* the executions created while the VM had no node, under way when it was  *)
(* moved, or passed over on an outdated copy of it: the agents return from *)
(* those without a requeue and no event of the VM brings them back.        *)
ExecutionsSettle ==
  Settled =>
    /\ \A k \in DOMAIN child \ adrift : child[k].terminated
    /\ \A p \in Parents \ Scheduled : parent[p].phase = "absent" \/ KidsOf(Objects, p) # {}
=============================================================================
