----------------------------- MODULE Migration -----------------------------
(***************************************************************************)
(* ImpVMMigration: a snapshot of the source VM, a target VM on another     *)
(* node that boots from it, and the deletion of the source.  The snapshot  *)
(* MigSnap, which the migration creates without a parent label, is a       *)
(* parent to the reconcilers of Snapshots.  The target VM is reduced to    *)
(* what the migration sees of it and to driver.Start's applySnapshotBoot.  *)
(***************************************************************************)
EXTENDS Snapshots

CONSTANTS
  MigSnap,    \* the name of the migration's snapshot
  Profiled,   \* the nodes with a ClusterImpNodeProfile
  CPUModel    \* per profiled node: its CPU model, or None

MigrationEnv == {"byhand", "targetdies"}

ASSUME MigSnapAssumption == MigSnap \in Parents \ Scheduled
ASSUME ProfileAssumption == Profiled \subseteq Nodes /\ DOMAIN CPUModel = Profiled
ASSUME EnvAssumption == Env \subseteq SnapshotEnv \cup MigrationEnv

VARIABLES
  mig,        \* the migration
  target,     \* the target VM
  tgtCache,   \* the target VM the operator's cache is behind with, or Live
  migCache    \* the migration it is behind with, or Live

migVars == <<mig, target, tgtCache, migCache>>
vars == <<snapVars, migVars>>

ImpVMMigration ==
  [phase : {"absent", "", "Pending", "Snapshotting", "Restoring", "Succeeded", "Failed"},
   node : Nodes \cup {None}]        \* status.selectedNode, before it is set spec.targetNode
Target ==
  [phase : {"absent", "Pending", "Running", "Failed"}, node : Nodes \cup {None},
   ref : Seconds \cup {None},       \* spec.snapshotRef: a child, or None for MigSnap itself
   boot : {"none", "cold", "restored"}]

TypeOK ==
  /\ SnapshotsTypeOK
  /\ mig \in ImpVMMigration /\ target \in Target
  /\ tgtCache = Live \/ tgtCache \in Target
  /\ migCache = Live \/ migCache \in ImpVMMigration

Init ==
  /\ \E present \in SUBSET (Parents \ {MigSnap}) : SnapshotsInit(present)
  /\ mig = [phase |-> "absent", node |-> None]
  /\ target = [phase |-> "absent", node |-> None, ref |-> None, boot |-> "none"]
  /\ tgtCache = Live /\ migCache = Live

TargetNow == IF tgtCache = Live THEN target ELSE tgtCache
MigNow == IF migCache = Live THEN mig ELSE migCache
-----------------------------------------------------------------------------
(* A user asks for a migration, to a node or to any.                       *)
Request ==
  /\ mig.phase = "absent" /\ vm # "gone"
  /\ \E n \in Nodes \cup {None} : mig' = [mig EXCEPT !.phase = "", !.node = n]
  /\ UNCHANGED <<snapVars, target, tgtCache, migCache>>

(* nodeDrainMapper: the VM's node is drained and the VM gets a migration,  *)
(* named after it; the one of an earlier drain is in the way.              *)
Drain ==
  /\ vm \in Nodes /\ mig.phase = "absent"
  /\ mig' = [mig EXCEPT !.phase = ""]
  /\ UNCHANGED <<snapVars, target, tgtCache, migCache>>

(* The handlers go by the migration in the cache and patch the object.     *)
HandleEmpty ==
  /\ MigNow.phase = ""
  /\ mig' = [mig EXCEPT !.phase = "Pending"]
  /\ UNCHANGED <<snapVars, target, tgtCache, migCache>>

FailMigration == mig' = [mig EXCEPT !.phase = "Failed"]

(* selectMigrationTarget: another profiled node with the CPU model of the  *)
(* VM's node, or any if that is not known.                                 *)
SelectMigrationTarget ==
  {n \in Profiled \ {vm} : /\ vm \in Profiled
                           /\ CPUModel[vm] = None \/ CPUModel[n] = CPUModel[vm]}

(* handlePending before the snapshot is created: the source is gone, not   *)
(* placed yet, or there is no node for it.                                 *)
HandlePendingFails ==
  /\ MigNow.phase = "Pending"
  /\ \/ vm = "gone"
     \/ MigNow.node = None /\ vm # None /\ SelectMigrationTarget = {}
  /\ FailMigration
  /\ UNCHANGED <<snapVars, target, tgtCache, migCache>>

(* handlePending: the node, the snapshot (which may exist) and the phase.  *)
(* An error leaves what was done before it.                                *)
HandlePending ==
  /\ MigNow.phase = "Pending" /\ vm # "gone"
  /\ \E n \in IF MigNow.node # None THEN {mig.node} ELSE SelectMigrationTarget :
       \/ /\ \/ mig' = [mig EXCEPT !.phase = "Snapshotting", !.node = n] /\ UNCHANGED events
             \/ mig' = [mig EXCEPT !.node = n] /\ Happens("api")
          /\ parent' = [parent EXCEPT ![MigSnap] = IF @.phase = "absent" THEN NewParent("") ELSE @]
          /\ ToOperator(IF parent[MigSnap].phase = "absent" THEN {MigSnap} ELSE {})
       \/ /\ mig' = [mig EXCEPT !.node = n]
          /\ Happens("api")
          /\ UNCHANGED <<parent, queued>>
  /\ UNCHANGED <<child, announced, vm, clock, second, timer, opCache, agVars, history,
                 target, tgtCache, migCache>>

(* handleSnapshotting goes on once the snapshot has terminated.            *)
SnapshotSucceeded(s) == s.terminated /\ s.phase = "Succeeded"

HandleSnapshottingFails ==
  LET s == Now(opCache).parent[MigSnap]
  IN  /\ MigNow.phase = "Snapshotting" /\ s.phase # "absent" /\ s.terminated
      /\ s.phase # "Succeeded" \/ vm = "gone"
      /\ FailMigration
      /\ UNCHANGED <<snapVars, target, tgtCache, migCache>>

(* handleSnapshotting and createTargetVM: a copy of the source on the      *)
(* selected node, booting from the last execution.                         *)
CreateTargetVM ==
  LET s == Now(opCache).parent[MigSnap]
  IN  /\ MigNow.phase = "Snapshotting" /\ SnapshotSucceeded(s) /\ vm # "gone"
      /\ target' = IF target.phase # "absent" THEN target
                   ELSE [phase |-> "Pending", node |-> MigNow.node, ref |-> s.last, boot |-> "none"]
      /\ \/ mig' = [mig EXCEPT !.phase = "Restoring"] /\ UNCHANGED events
         \/ Happens("api") /\ UNCHANGED mig
      /\ UNCHANGED <<objects, vm, clock, second, opVars, agVars, history, tgtCache, migCache>>

(* Mutant: the target need only exist.                                     *)
TargetThere(t) == t.phase # "absent"

TargetRunning(t) == t.phase = "Running"

(* handleRestoring: the source is deleted once the target is Running.  An  *)
(* error after the deletion has the handler come back and find it gone.    *)
HandleRestoring ==
  /\ MigNow.phase = "Restoring" /\ TargetRunning(TargetNow)
  /\ vm' = "gone"
  /\ \/ mig' = [mig EXCEPT !.phase = "Succeeded"] /\ UNCHANGED events
     \/ Happens("api") /\ UNCHANGED mig
  /\ UNCHANGED <<objects, clock, second, opVars, agVars, history, target, tgtCache, migCache>>
-----------------------------------------------------------------------------
(* driver.Start of the target: applySnapshotBoot fails on a snapshot that  *)
(* is gone, boots cold from one without a path, and Firecracker fails on   *)
(* files that are not on the node; the agent tries again.                  *)
BootTarget ==
  LET k == <<MigSnap, target.ref>>
      found == IF target.ref = None THEN TRUE ELSE k \in DOMAIN child
      path == IF target.ref = None THEN None ELSE child[k].path
  IN  /\ target.phase = "Pending" /\ found
      /\ \/ path = None /\ target' = [target EXCEPT !.phase = "Running", !.boot = "cold"]
         \/ /\ path = target.node /\ disk[path][k] = "whole"
            /\ target' = [target EXCEPT !.phase = "Running", !.boot = "restored"]
      /\ UNCHANGED <<snapVars, mig, tgtCache, migCache>>

TargetDies ==
  /\ target.phase = "Running" /\ Happens("targetdies")
  /\ target' = [target EXCEPT !.phase = "Failed"]
  /\ UNCHANGED <<objects, vm, clock, second, opVars, agVars, history, mig, tgtCache, migCache>>

(* The operator's caches of VMs and of migrations.                         *)
MigFreeze ==
  /\ \/ tgtCache = Live /\ tgtCache' = target /\ UNCHANGED migCache
     \/ migCache = Live /\ migCache' = mig /\ UNCHANGED tgtCache
  /\ Happens("lag")
  /\ UNCHANGED <<objects, vm, clock, second, opVars, agVars, history, mig, target>>

MigCatchUp ==
  /\ \/ tgtCache # Live /\ tgtCache' = Live /\ UNCHANGED migCache
     \/ migCache # Live /\ migCache' = Live /\ UNCHANGED tgtCache
  /\ UNCHANGED <<snapVars, mig, target>>

(* Nobody in the program terminates MigSnap.  An administrator does, by    *)
(* patching its status.                                                    *)
TerminateByHand ==
  /\ parent[MigSnap].phase # "absent" /\ ~parent[MigSnap].terminated /\ "byhand" \in Env
  /\ \E ph \in {"Succeeded", "Failed"} :
       parent' = [parent EXCEPT ![MigSnap].phase = ph, ![MigSnap].terminated = TRUE]
  /\ ToOperator({MigSnap})
  /\ UNCHANGED <<child, announced, vm, clock, second, timer, opCache, agVars, history, events, migVars>>

MigNext ==
  \/ Request \/ Drain \/ HandleEmpty \/ HandlePendingFails \/ HandlePending
  \/ HandleSnapshottingFails \/ CreateTargetVM \/ HandleRestoring
  \/ BootTarget \/ TargetDies \/ MigFreeze \/ MigCatchUp \/ TerminateByHand

Next == (SnapshotsNext /\ UNCHANGED migVars) \/ MigNext

Spec == Init /\ [][Next]_vars

(* Queues are served, timers fire, caches catch up and time passes; the    *)
(* agents of the nodes run.                                                *)
Fairness ==
  /\ \A p \in Parents :
       /\ WF_vars((OpGated(p) \/ OpReconcile(p)) /\ UNCHANGED migVars)
       /\ WF_vars(GateTimer(p) /\ UNCHANGED migVars)
  /\ WF_vars((Approach \/ Tick) /\ UNCHANGED migVars)
  /\ WF_vars(Second /\ UNCHANGED migVars)
  /\ WF_vars(OpCatchUp /\ UNCHANGED migVars)
  /\ \A n \in Nodes :
       /\ \A k \in Keys : WF_vars((AgSkip(n, k) \/ AgVMGone(n, k) \/ AgBegin(n, k)) /\ UNCHANGED migVars)
       /\ WF_vars((AgExecute(n) \/ AgFinish(n)) /\ UNCHANGED migVars)
       /\ WF_vars(AgCatchUp(n) /\ UNCHANGED migVars)
  /\ WF_vars(HandleEmpty \/ HandlePendingFails \/ HandlePending \/ HandleSnapshottingFails
             \/ CreateTargetVM \/ HandleRestoring)
  /\ WF_vars(BootTarget) /\ WF_vars(MigCatchUp)

FairSpec == Spec /\ Fairness
-----------------------------------------------------------------------------
(* A migration deletes the source VM only for a snapshot that was reported *)
(* Succeeded and a target VM that has been Running.                        *)
SourceOutlives ==
  [][HandleRestoring => target.boot # "none" /\ parent[MigSnap].phase = "Succeeded"]_vars

(* A scheduled snapshot is executed.                                       *)
ScheduleExecuted == \A p \in Scheduled : parent[p].phase = "" ~> KidsOf(Objects, p) # {}

(* A migration of a VM that has a node ends.                               *)
MigrationEnds == (mig.phase = "" /\ vm \in Nodes) ~> mig.phase \in {"Succeeded", "Failed"}
=============================================================================
