----------------------------- MODULE Placement ------------------------------
(***************************************************************************)
(* The operator's choice of a node for a VM: the filters, the explicit     *)
(* capacities, the fraction-based caps, and the reconciler's handlers that *)
(* change what a node holds. The finalizer, expiry and the agent's side in *)
(* full are in VMLifecycle; here they matter only as to which VMs count.   *)
(***************************************************************************)
EXTENDS Integers, FiniteSets, FiniteSetsExt

CONSTANTS
  VMs, None, Live,
  Nodes,         \* numbered in the order of their names
  Node,          \* per node: labels, taints, allocatable cpu (millis) and mem (MiB)
  Classes,       \* per class name: vcpu, mem, tolerations
  Specs,         \* the VM specs users write
  Profiles,      \* the node profiles, None or a record
  Configs,       \* the cluster's capacity settings, None or a record
  Env, MaxEvents

VARIABLES
  vm,            \* the VMs
  health,        \* per node: its conditions and spec.unschedulable
  profile,       \* per node: its ClusterImpNodeProfile's capacities
  config,        \* ClusterImpConfig's capacity settings
  admission,     \* whether the VM webhook is registered
  cache,         \* what the operator reads: Live, or an older copy
  queue,         \* the VMs queued, at once or after a delay
  work,          \* the reconcile between its two patches
  born,          \* the VMs created so far
  events,
  via,           \* history: per VM, by which rule it was placed
  stale,         \* history: VMs placed by an outdated copy
  returned       \* history: VMs that came back to a node that did not count them

settings == <<profile, config, admission>>
worker == <<cache, queue, work>>
history == <<via, stale, returned>>
placeVars == <<vm, health, settings, worker, born, events, history>>

Phases == {"", "Pending", "Scheduled", "Starting", "Running", "Suspended", "Resuming",
           "Failed", "Succeeded", "Terminating"}
ImpVM ==
  [spec : Specs, node : Nodes \cup {None}, statusNode : Nodes \cup {None},
   phase : Phases, deleting : BOOLEAN, restarts : 0..1]
Health == {"Ready", "NotReady", "Unschedulable", "MemoryPressure"}
Idle == [v |-> None, node |-> None]

ASSUME CapacityAssumption ==
  /\ \A n \in Nodes : Node[n].cpu \in Nat /\ Node[n].mem \in Nat
  /\ \A c \in DOMAIN Classes : Classes[c].vcpu > 0 /\ Classes[c].mem > 0
  /\ MaxEvents \in Nat

PlacementTypeOK ==
  /\ vm \in [VMs -> ImpVM \cup {None}] /\ health \in [Nodes -> Health]
  /\ profile \in [Nodes -> Profiles] /\ config \in Configs /\ admission \in BOOLEAN
  /\ queue \subseteq VMs
  /\ work = Idle \/ work \in [v : VMs, node : Nodes]
  /\ born \subseteq VMs /\ events \in 0..MaxEvents
  /\ via \in [VMs -> {"", "explicit", "fraction"}]
  /\ stale \subseteq VMs /\ returned \subseteq VMs

PlacementInit ==
  /\ vm = [v \in VMs |-> None] /\ health = [n \in Nodes |-> "Ready"]
  /\ profile \in [Nodes -> Profiles] /\ config \in Configs /\ admission \in BOOLEAN
  /\ queue = {} /\ work = Idle /\ born = {} /\ events = 0
  /\ via = [v \in VMs |-> ""] /\ stale = {} /\ returned = {}

Happens(e) == e \in Env /\ events < MaxEvents /\ events' = events + 1
SeenVMs == IF cache = Live THEN vm ELSE cache.vm
SeenHealth == IF cache = Live THEN health ELSE cache.health
-----------------------------------------------------------------------------
(* The filters.                                                            *)

TolerationMatchesTaint(t, taint) ==
  /\ t.effect \in {"", taint.effect}
  /\ \/ t.operator = "Exists" /\ t.key \in {"", taint.key}
     \/ t.operator # "Exists" /\ t.key = taint.key /\ t.value = taint.value

ToleratesTaint(taint, tolerations) == \E t \in tolerations : TolerationMatchesTaint(t, taint)

NodeToleratedBy(n, tolerations) ==
  \A taint \in Node[n].taints :
    taint.effect = "PreferNoSchedule" \/ taint.system \/ ToleratesTaint(taint, tolerations)

ResolveTolerations(spec) ==
  spec.tolerations \cup (IF spec.class = None THEN {} ELSE Classes[spec.class].tolerations)

FilterByNodeSelector(spec) ==
  {n \in Nodes : "imp/enabled" \in Node[n].labels /\ spec.selector \subseteq Node[n].labels}

IsNodeReady(h) == h # "NotReady"
NodeIsSchedulable(h) == IsNodeReady(h) /\ h # "Unschedulable" /\ h # "MemoryPressure"

Eligible(spec) ==
  {n \in FilterByNodeSelector(spec) :
    NodeIsSchedulable(SeenHealth[n]) /\ NodeToleratedBy(n, ResolveTolerations(spec))}
-----------------------------------------------------------------------------
(* What the nodes hold.                                                    *)

Vacating == {"Failed", "Succeeded", "Terminating"}

(* countRunningVMs, as the set it counts.                                  *)
CountRunningVMs(vms, n) ==
  {v \in VMs : vms[v] # None /\ vms[v].node = n /\ vms[v].phase \notin Vacating \cup {"Suspended"}}

SumUsedResources(vms, n) ==
  LET counted == {v \in CountRunningVMs(vms, n) : vms[v].spec.class # None}
      Vcpu(v) == Classes[vms[v].spec.class].vcpu
      Mem(v) == Classes[vms[v].spec.class].mem
  IN  [vcpu |-> MapThenSumSet(Vcpu, counted), mem |-> MapThenSumSet(Mem, counted)]
-----------------------------------------------------------------------------
(* The capacities; fractions are percentages.                              *)

ParseFraction(f) == IF f = None \/ f < 0 \/ f > 100 THEN 90 ELSE f
GlobalFraction == IF config = None THEN 90 ELSE ParseFraction(config.fraction)
MemoryReserveMiB ==
  IF config = None \/ config.reserve = None \/ config.reserve < 0 THEN 512 ELSE config.reserve
ApplyMemoryReserve(base) == Max({0, base - MemoryReserveMiB})

EffectiveMaxVMs(n, class, fraction) ==
  Min({((Node[n].cpu * fraction) \div 100) \div (class.vcpu * 1000),
       ((ApplyMemoryReserve(Node[n].mem) * fraction) \div 100) \div class.mem})

FractionOf(n) ==
  IF profile[n] = None \/ profile[n].fraction = None THEN GlobalFraction
  ELSE ParseFraction(profile[n].fraction)

Explicit(n) == profile[n] # None /\ profile[n].vcpuCapacity > 0
ExplicitMem(n) == ApplyMemoryReserve(profile[n].memoryMiB)

FreeMem(n) == ExplicitMem(n) - SumUsedResources(SeenVMs, n).mem

(* Mutant: the memory is not looked at.                                    *)
FitsVcpu(n, class) == profile[n].vcpuCapacity - SumUsedResources(SeenVMs, n).vcpu >= class.vcpu

Fits(n, class) ==
  /\ profile[n].vcpuCapacity - SumUsedResources(SeenVMs, n).vcpu >= class.vcpu
  /\ FreeMem(n) >= class.mem

(* Schedule: the nodes that fit and have the most free memory. Equals are  *)
(* in the order of the informer's list, which is none.                     *)
ScheduleExplicit(spec) ==
  LET fits == {n \in Eligible(spec) : Explicit(n) /\ Fits(n, Classes[spec.class])}
  IN  IF spec.class = None THEN {} ELSE {n \in fits : \A o \in fits : FreeMem(o) <= FreeMem(n)}

WithinCaps(n, class) ==
  LET running == Cardinality(CountRunningVMs(SeenVMs, n)) IN
    /\ profile[n] # None /\ profile[n].maxImpVMs > 0 => running < profile[n].maxImpVMs
    /\ class # None => running < EffectiveMaxVMs(n, Classes[class], FractionOf(n))

(* Least loaded first, then by name. The explicit nodes are candidates     *)
(* here again.                                                             *)
LeastLoaded(spec) ==
  LET candidates == {n \in Eligible(spec) : WithinCaps(n, spec.class)}
      Load(n) == Cardinality(CountRunningVMs(SeenVMs, n))
  IN  {n \in candidates :
        \A o \in candidates : Load(n) < Load(o) \/ (Load(n) = Load(o) /\ n <= o)}

Schedule(spec) == IF ScheduleExplicit(spec) # {} THEN ScheduleExplicit(spec) ELSE LeastLoaded(spec)
-----------------------------------------------------------------------------
(* The reconciler. Patches are merges into whatever has the name by then.  *)

(* Changes of a VM queue it, changes of a node the VMs assigned to it.     *)
Watched(q) ==
  IF cache # Live THEN q
  ELSE q \cup {v \in VMs : vm'[v] # vm[v]}
         \cup {v \in VMs : vm[v] # None /\ vm[v].node # None /\ health'[vm[v].node] # health[vm[v].node]}

Reads(v) == work = Idle /\ v \in queue
(* A field is sent when it differs from the copy that was read.            *)
Write(read, now, new) == IF read = new THEN now ELSE new
Patch(v, new) == vm' = [vm EXCEPT ![v] = IF @ = None THEN None ELSE new]

(* The reconcile ends, with the patch's event and maybe a delayed requeue. *)
Ends(v, again) == queue' = Watched(IF again THEN queue ELSE queue \ {v})

Drop(v) ==
  /\ Reads(v) /\ SeenVMs[v] = None
  /\ UNCHANGED <<vm, health, settings, cache, work, born, events, history>>
  /\ Ends(v, FALSE)

(* handleDeletion: an unscheduled VM goes at once, a scheduled one when    *)
(* its agent has cleared status.nodeName; until then it is Terminating.    *)
HandleDeletion(v) ==
  LET c == SeenVMs[v] IN
  /\ Reads(v) /\ c # None /\ c.deleting
  /\ UNCHANGED <<health, settings, cache, work, born, events, history>>
  /\ IF c.statusNode = None /\ (c.node = None \/ c.phase = "Terminating")
     THEN vm' = [vm EXCEPT ![v] = None] /\ Ends(v, FALSE)
     ELSE /\ Patch(v, [vm[v] EXCEPT !.phase = Write(c.phase, @, "Terminating"),
                                    !.statusNode = IF c.statusNode = None THEN c.node ELSE @])
          /\ Ends(v, TRUE)

NeedsNode(v) == Reads(v) /\ SeenVMs[v] # None /\ ~SeenVMs[v].deleting /\ SeenVMs[v].node = None

(* Mutant: a VM without a node waits for an event.                         *)
UnschedulableWaits(v) ==
  /\ NeedsNode(v) /\ Schedule(SeenVMs[v].spec) = {}
  /\ Patch(v, [vm[v] EXCEPT !.phase = Write(SeenVMs[v].phase, @, "Pending")])
  /\ UNCHANGED <<health, settings, cache, work, born, events, history>>
  /\ Ends(v, FALSE)

Unschedulable(v) ==
  /\ NeedsNode(v) /\ Schedule(SeenVMs[v].spec) = {}
  /\ Patch(v, [vm[v] EXCEPT !.phase = Write(SeenVMs[v].phase, @, "Pending")])
  /\ UNCHANGED <<health, settings, cache, work, born, events, history>>
  /\ Ends(v, TRUE)

(* The first patch; on a VM that has a node by now the webhook refuses it. *)
Assign(v) ==
  /\ NeedsNode(v)
  /\ \E n \in Schedule(SeenVMs[v].spec) :
       IF vm[v] = None \/ (admission /\ vm[v].node \notin {None, n})
       THEN /\ UNCHANGED <<vm, health, settings, cache, work, born, events, history>>
            /\ Ends(v, TRUE)
       ELSE /\ Patch(v, [vm[v] EXCEPT !.node = n]) /\ work' = [v |-> v, node |-> n]
            /\ via' = [via EXCEPT ![v] = IF ScheduleExplicit(SeenVMs[v].spec) # {} THEN "explicit" ELSE "fraction"]
            /\ stale' = IF cache = Live THEN stale \ {v} ELSE stale \cup {v}
            /\ returned' = returned \ {v}
            /\ UNCHANGED <<health, settings, cache, born, events>>
            /\ Ends(v, FALSE)

(* The second patch: the status.                                           *)
Assigned ==
  /\ work # Idle /\ work' = Idle
  /\ Patch(work.v, [vm[work.v] EXCEPT !.statusNode = work.node, !.phase = "Scheduled"])
  /\ UNCHANGED <<health, settings, cache, born, events, history>>
  /\ queue' = Watched(queue)

(* handleFailed with one retry: in place the phase goes back to Scheduled, *)
(* rescheduled it loses its node, which the webhook refuses.               *)
HandleFailed(v) ==
  LET c == SeenVMs[v] IN
  /\ Reads(v) /\ c # None /\ ~c.deleting /\ c.node # None /\ c.phase = "Failed"
  /\ UNCHANGED <<health, settings, cache, work, born, events, via, stale>>
  /\ IF c.restarts = 1 \/ c.spec.restart = "never" \/ vm[v] = None
     THEN UNCHANGED <<vm, returned>> /\ Ends(v, FALSE)
     ELSE IF c.spec.restart = "in-place"
          THEN /\ Patch(v, [vm[v] EXCEPT !.phase = "Scheduled", !.restarts = 1])
               /\ returned' = returned \cup {v} /\ Ends(v, TRUE)
          ELSE /\ Patch(v, [vm[v] EXCEPT !.phase = "Pending", !.restarts = 1,
                                         !.node = IF admission THEN @ ELSE None])
               /\ returned' = returned \cup {v} /\ Ends(v, TRUE)

(* syncStatus: an ephemeral VM of a lost node is unassigned, which the     *)
(* webhook refuses, and so is one with rescheduleOnNodeLoss and no volume; *)
(* another one fails. On a healthy node only conditions are written.       *)
SyncStatus(v) ==
  LET c == SeenVMs[v] IN
  /\ Reads(v) /\ c # None /\ ~c.deleting /\ c.node # None /\ c.phase # "Failed"
  /\ UNCHANGED <<health, settings, cache, work, born, events, history>>
  /\ IF IsNodeReady(SeenHealth[c.node])
     THEN UNCHANGED vm /\ Ends(v, c.phase # "Running")
     ELSE IF c.spec.lifecycle = "persistent"
     THEN Patch(v, [vm[v] EXCEPT !.phase = "Failed"]) /\ Ends(v, FALSE)
     ELSE IF admission THEN UNCHANGED vm /\ Ends(v, TRUE)
     ELSE Patch(v, [vm[v] EXCEPT !.node = None, !.statusNode = None, !.phase = "Pending"]) /\ Ends(v, FALSE)

(* A restart of the operator: everything is listed and queued.             *)
Restart ==
  /\ Happens("crash") /\ cache' = Live /\ work' = Idle
  /\ queue' = {v \in VMs : vm[v] # None}
  /\ UNCHANGED <<vm, health, settings, born, history>>

Operator ==
  \/ \E v \in VMs : \/ Drop(v) \/ HandleDeletion(v) \/ Unschedulable(v) \/ Assign(v)
                    \/ HandleFailed(v) \/ SyncStatus(v)
  \/ Assigned
-----------------------------------------------------------------------------
(* The surroundings.                                                       *)

CreateVM(v) ==
  /\ v \notin born /\ born' = born \cup {v}
  /\ \E spec \in Specs :
       vm' = [vm EXCEPT ![v] = [spec |-> spec, node |-> None, statusNode |-> None,
                                phase |-> "", deleting |-> FALSE, restarts |-> 0]]
  /\ UNCHANGED <<health, settings, cache, work, events, history>>
  /\ queue' = Watched(queue)

(* A change of a VM by someone else.                                       *)
SetVM(v, new) ==
  /\ vm[v] # None /\ vm' = [vm EXCEPT ![v] = new]
  /\ UNCHANGED <<health, settings, cache, work, born>>
  /\ queue' = Watched(queue)

DeleteVM(v) ==
  /\ vm[v] # None /\ ~vm[v].deleting /\ Happens("user")
  /\ SetVM(v, [vm[v] EXCEPT !.deleting = TRUE]) /\ UNCHANGED history

(* An edit that matters to nobody here is still an event, which may bring  *)
(* the reconciler back to a copy without its own patches.                  *)
EditVM(v) ==
  /\ vm[v] # None /\ v \notin queue /\ Happens("user") /\ queue' = queue \cup {v}
  /\ UNCHANGED <<vm, health, settings, cache, work, born, history>>

NodeChanges(n) ==
  /\ Happens("node")
  /\ \E h \in Health \ {health[n]} : health' = [health EXCEPT ![n] = h]
  /\ UNCHANGED <<vm, settings, cache, work, born, history>>
  /\ queue' = Watched(queue)
-----------------------------------------------------------------------------
(* Properties.                                                             *)

(* The VMs whose memory is present on a node.                              *)
Residents(n) ==
  {v \in VMs : vm[v] # None /\ vm[v].node = n
               /\ vm[v].phase \notin {"Failed", "Succeeded", "Terminating", "Suspended"}}
Placed(n, rule) ==
  Residents(n) # {} /\ \A v \in Residents(n) : via[v] = rule /\ v \notin stale \cup returned
ClassesAt(n) == {vm[v].spec.class : v \in Residents(n)}

(* No node is overfilled, as far as its VMs were placed by one rule, from  *)
(* current copies and without one that failed or slept and came back.  By  *)
(* explicit capacity they take no more vCPUs and memory than the profile   *)
(* and the reserve leave (sumUsedResources, applyMemoryReserve, Schedule). *)
(* By the caps there are no more than MaxImpVMs, and VMs of one class fit  *)
(* together into the fraction of what is allocatable (schedule's steps 9   *)
(* and 10); VMs of several classes need not: the cap counts VMs, not       *)
(* their sizes.                                                            *)
CapacityKept ==
  LET Vcpu(v) == Classes[vm[v].spec.class].vcpu
      Mem(v) == Classes[vm[v].spec.class].mem IN
  \A n \in Nodes :
    /\ Placed(n, "explicit") =>
         /\ MapThenSumSet(Vcpu, Residents(n)) <= profile[n].vcpuCapacity
         /\ MapThenSumSet(Mem, Residents(n)) <= Max({0, profile[n].memoryMiB - MemoryReserveMiB})
    /\ Placed(n, "fraction") =>
         /\ profile[n] # None /\ profile[n].maxImpVMs > 0
              => Cardinality(Residents(n)) <= profile[n].maxImpVMs
         /\ \A c \in DOMAIN Classes : ClassesAt(n) = {c} =>
              Cardinality(Residents(n)) * Classes[c].mem * 100
                <= Max({0, Node[n].mem - MemoryReserveMiB}) * FractionOf(n)

(* A VM without a node is never forgotten: it is queued or an event of it  *)
(* is on its way. Only the requeue after 30 seconds keeps this so, as      *)
(* neither freed capacity nor a node's recovery queues it (Reconcile's     *)
(* step 5, nodeToImpVMs).                                                  *)
UnplacedIsRetried ==
  \A v \in VMs : vm[v] # None /\ vm[v].node = None =>
    v \in queue \/ (cache # Live /\ cache.vm[v] # vm[v])
=============================================================================
