-------------------------- MODULE MigrationProofs --------------------------
(***************************************************************************)
(* Proofs about Snapshots and Migration, for any parents, nodes, retention *)
(* and any number of disturbances.                                         *)
(***************************************************************************)
EXTENDS Migration, FiniteSetTheorems, TLAPS

-----------------------------------------------------------------------------
(* The shape of what the arguments are about.                              *)

ParentPhases == {"absent", "", "Pending", "Succeeded", "Failed"}
Artifacts == {"none", "partial", "whole"}

(* An execution that Succeeded has terminated.                             *)
Ended(c) == c.phase = "Succeeded" => c.terminated

Shape ==
  /\ parent \in [Parents -> Parent]
  /\ DOMAIN child \subseteq Keys /\ child \in [DOMAIN child -> Child]
  /\ \A k \in DOMAIN child : Ended(child[k])
  /\ second \in Seconds
  /\ Now(opCache).parent \in [Parents -> Parent] /\ DOMAIN Now(opCache).child \subseteq Keys
JobShape ==
  /\ job \in [Nodes -> Job \cup {Idle}]
  /\ disk \in [Nodes -> [Keys -> Artifacts]]
MigShape ==
  /\ mig \in ImpVMMigration /\ MigNow \in ImpVMMigration
  /\ target \in Target /\ (tgtCache = Live \/ tgtCache \in Target)

(* The fields of the records.                                              *)
LEMMA ParentFields ==
  ASSUME NEW r \in Parent
  PROVE  /\ r.phase \in ParentPhases /\ r.terminated \in BOOLEAN
         /\ r.elected \in Seconds \cup {None} /\ r.base \in Seconds \cup {None}
         /\ r.last \in Seconds \cup {None}
BY Zenon DEF Parent, ParentPhases

Updated(r, ph, b, l) == [r EXCEPT !.phase = ph, !.base = b, !.last = l]

IsUpdate(u, r, ph, b) ==
  /\ u \in Parent
  /\ u.phase = ph /\ u.base = b /\ u.terminated = r.terminated /\ u.elected = r.elected

(* What a pass makes of a parent.                                          *)
LEMMA UpdatedParent ==
  ASSUME NEW x \in Parent, NEW h \in ParentPhases,
         NEW y \in Seconds \cup {None}, NEW z \in Seconds \cup {None}
  PROVE  IsUpdate(Updated(x, h, y, z), x, h, y)
BY DEF Updated, Parent, ParentPhases, IsUpdate

(* The fields of a child.                                                  *)
LEMMA ChildFields ==
  ASSUME NEW r \in Child
  PROVE  /\ r.phase \in {"", "Running", "Succeeded", "Failed"} /\ r.terminated \in BOOLEAN
         /\ r.path \in Nodes \cup {None}
BY Zenon DEF Child

(* The fields of a job.                                                    *)
LEMMA JobFields ==
  ASSUME NEW r \in Job
  PROVE  r.pc \in {"exec", "finish"} /\ r.key \in Keys /\ r.ok \in BOOLEAN /\ r # Idle
<1>1. r.pc \in {"exec", "finish"} /\ r.key \in Keys /\ r.ok \in BOOLEAN
  BY Zenon DEF Job
<1>2. Idle.pc = "idle"
  BY Zenon DEF Idle
<1> QED
  BY <1>1, <1>2, Zenon

(* A job with a stage of an execution is one.                              *)
LEMMA Busy ==
  ASSUME JobShape, NEW n \in Nodes, job[n].pc \in {"exec", "finish"} \/ job[n] # Idle
  PROVE  job[n] \in Job
<1>1. job[n] \in Job \cup {Idle}
  BY Zenon DEF JobShape
<1>2. Idle.pc = "idle"
  BY Zenon DEF Idle
<1> QED
  BY <1>1, <1>2, Zenon

-----------------------------------------------------------------------------
(* What the steps do to the objects.                                       *)

(* What is pruned is older than another child.                             *)
LEMMA GoneIsOlder ==
  ASSUME NEW o, NEW p, NEW k \in ToDelete(o, p)
  PROVE  /\ k \in DOMAIN o.child /\ k[1] = p /\ k[2] # o.parent[p].elected
         /\ \E j \in DOMAIN o.child : j[2] > k[2]
<1> DEFINE J == {j \in KidsOf(o, p) : j[2] > k[2]}
<1>1. k \in KidsOf(o, p) /\ Cardinality(J) >= Retention /\ k[2] # o.parent[p].elected
  BY Zenon DEF ToDelete
<1>2. J # {}
  <2>1. SUFFICES ASSUME J = {} PROVE FALSE
    BY Zenon
  <2>2. Cardinality(J) = 0
    BY <2>1, FS_EmptySet, Zenon
  <2> QED
    BY <1>1, <2>2, RetentionAssumption
<1> QED
  BY <1>1, <1>2, Zenon DEF KidsOf

(* A pass beyond the gate, at what its cache shows.                        *)
Pass(p, fresh, recorded) ==
  LET o == Now(opCache)
  IN  /\ OpPass(p, o, ToDelete(o, p), fresh, recorded)
      /\ fresh \subseteq {<<p, second>>} /\ fresh \cap (DOMAIN child \ ToDelete(o, p)) = {}

(* Both outcomes of a pass are of that kind.                               *)
LEMMA Passes ==
  ASSUME NEW p \in Parents, OpReconcile(p) \/ OpReconcileFails(p)
  PROVE  \E fresh, recorded : Pass(p, fresh, recorded)
<1> DEFINE o == Now(opCache)  gone == ToDelete(o, p)  name == <<p, second>>
<1>1. CASE OpReconcile(p)
  <2>1. \/ OpPass(p, o, gone, {}, TRUE)
        \/ OpPass(p, o, gone, {name}, TRUE) /\ name \notin DOMAIN child \ gone
    BY <1>1, Zenon DEF OpReconcile
  <2>2. Pass(p, {}, TRUE) \/ Pass(p, {name}, TRUE)
    BY <2>1, Zenon DEF Pass
  <2> QED
    BY <2>2, Zenon
<1>2. CASE OpReconcileFails(p)
  <2>1. \/ OpPass(p, o, gone, {}, FALSE)
        \/ OpPass(p, o, gone, {name}, FALSE) /\ name \notin DOMAIN child \ gone
    BY <1>2, Zenon DEF OpReconcileFails
  <2>2. Pass(p, {}, FALSE) \/ Pass(p, {name}, FALSE)
    BY <2>1, Zenon DEF Pass
  <2> QED
    BY <2>2, Zenon
<1> QED
  BY <1>1, <1>2, Zenon

(* The parent after a pass: its phase and its base are written.            *)
LEMMA PassParent ==
  ASSUME Shape, NEW p \in Parents, NEW fresh, NEW recorded, Pass(p, fresh, recorded)
  PROVE  LET o == Now(opCache)
         IN  /\ parent' \in [Parents -> Parent]
             /\ \A q \in Parents \ {p} : parent'[q] = parent[q]
             /\ parent'[p].phase = Phase(o, p) /\ parent'[p].terminated = parent[p].terminated
             /\ parent'[p].elected = parent[p].elected /\ parent'[p].base = ValidBase(o, p)
<1> DEFINE o == Now(opCache)  ph == Phase(o, p)  b == ValidBase(o, p)
<1>1. parent[p] \in Parent /\ o.parent[p] \in Parent /\ second \in Seconds
  BY Zenon DEF Shape
<1>2. ph \in ParentPhases
  <2>1. "Pending" \in ParentPhases
    BY Zenon DEF ParentPhases
  <2> QED
    BY <1>1, <2>1, ParentFields, Zenon DEF Phase
<1>3. b \in Seconds \cup {None}
  BY <1>1, ParentFields, Zenon DEF ValidBase
<1>4. PICK l \in Seconds \cup {None} : l = IF fresh # {} /\ recorded THEN second ELSE parent[p].last
  BY <1>1, ParentFields, Zenon
<1>5. parent' = [parent EXCEPT ![p].phase = ph, ![p].base = b, ![p].last = IF fresh # {} /\ recorded THEN second ELSE @]
  BY Zenon DEF Pass, OpPass
<1> DEFINE r == Updated(parent[p], ph, b, l)
<1> HIDE DEF o, ph, b
<1>6. parent' = [parent EXCEPT ![p] = r]
  BY <1>1, <1>4, <1>5 DEF Shape, Updated
<1>7. IsUpdate(r, parent[p], ph, b)
  BY <1>1, <1>2, <1>3, <1>4, UpdatedParent, Zenon
<1> HIDE DEF r
<1> QED
  BY <1>6, <1>7, Zenon DEF Shape, IsUpdate, o, ph, b

-----------------------------------------------------------------------------
(* The effects a step has on the objects and on the operator's copy.       *)

rest == <<overlapped, rerun, pruned>>
Calm == UNCHANGED <<parent, child, second, opCache, rest>>
Clock == second < MaxSecond /\ second' = second + 1 /\ UNCHANGED <<parent, child, opCache, rest>>
Synced == (opCache' = Live \/ opCache' = Objects) /\ UNCHANGED <<parent, child, second, rest>>

(* A parent is written: its base stays, what is newly elected exists, and  *)
(* a report that the operator knows of stays.                              *)
Elects(p, r) == r.elected = parent[p].elected \/ r.elected = None \/ <<p, r.elected>> \in DOMAIN child
Wrote(p, r) ==
  /\ r \in Parent /\ (r.base = parent[p].base \/ r.base = None) /\ Elects(p, r)
  /\ SnapshotSucceeded(Now(opCache).parent[p]) /\ SnapshotSucceeded(parent[p]) => SnapshotSucceeded(r)
  /\ parent' = [parent EXCEPT ![p] = r]
  /\ UNCHANGED <<child, second, opCache, rest>>

(* A child is written: it does not come back from its end.                 *)
Ran(k, c) ==
  /\ k \in DOMAIN child /\ c \in Child
  /\ Ended(c) /\ (child[k].terminated => c.terminated)
  /\ child' = [child EXCEPT ![k] = c] /\ Written(k)
  /\ UNCHANGED <<parent, second, opCache, overlapped, pruned>>

Effect ==
  \/ Calm \/ Clock \/ Synced
  \/ \E p \in Parents : \E r : Wrote(p, r)
  \/ \E k, c : Ran(k, c)
  \/ \E p \in Parents : \E fresh, recorded : Pass(p, fresh, recorded)

(* The operator stops at the gate: the phase.                              *)
LEMMA GatedEffect ==
  ASSUME Shape, NEW p \in Parents, OpGated(p)
  PROVE  Effect
<1> DEFINE o == Now(opCache)  ph == Phase(o, p)  r == [parent[p] EXCEPT !.phase = ph]
<1>1. parent[p] \in Parent /\ o.parent[p] \in Parent
  BY Zenon DEF Shape
<1>2. ph \in ParentPhases
  <2>1. "Pending" \in ParentPhases
    BY Zenon DEF ParentPhases
  <2> QED
    BY <1>1, <2>1, ParentFields, Zenon DEF Phase
<1>3. SnapshotSucceeded(o.parent[p]) => ph = parent[p].phase
  BY Zenon DEF Phase, SnapshotSucceeded
<1>4. parent' = [parent EXCEPT ![p].phase = ph] /\ UNCHANGED <<child, second, opCache, rest>>
  BY Zenon DEF OpGated, history, rest
<1> HIDE DEF o, ph
<1>5. parent' = [parent EXCEPT ![p] = r]
  BY <1>1, <1>4 DEF Shape
<1>6. /\ r \in Parent /\ r.phase = ph
      /\ r.base = parent[p].base /\ r.elected = parent[p].elected /\ r.terminated = parent[p].terminated
  BY <1>1, <1>2 DEF Parent, ParentPhases
<1> HIDE DEF r
<1>7. Wrote(p, r)
  BY <1>3, <1>4, <1>5, <1>6, Zenon DEF Wrote, Elects, SnapshotSucceeded, o
<1> QED
  BY <1>7, Zenon DEF Effect

(* A user elects a base among the children there are.                      *)
LEMMA ElectEffect ==
  ASSUME Shape, NEW p \in Parents, Elect(p)
  PROVE  Effect
<1>1. PICK b \in {k[2] : k \in KidsOf(Objects, p)} \cup {None} :
        parent' = [parent EXCEPT ![p].elected = b]
  BY Zenon DEF Elect
<1> DEFINE r == [parent[p] EXCEPT !.elected = b]
<1>2. parent[p] \in Parent
  BY Zenon DEF Shape
<1>3. b \in Seconds \cup {None} /\ (b = None \/ <<p, b>> \in DOMAIN child)
  BY <1>1 DEF Shape, KidsOf, Objects, Keys
<1>4. UNCHANGED <<child, second, opCache, rest>>
  BY Zenon DEF Elect, history, rest
<1>5. parent' = [parent EXCEPT ![p] = r]
  BY <1>1, <1>2 DEF Shape
<1>6. /\ r \in Parent /\ r.phase = parent[p].phase
      /\ r.base = parent[p].base /\ r.elected = b /\ r.terminated = parent[p].terminated
  BY <1>2, <1>3 DEF Parent
<1> HIDE DEF r
<1>7. Wrote(p, r)
  BY <1>3, <1>4, <1>5, <1>6, Zenon DEF Wrote, Elects, SnapshotSucceeded
<1> QED
  BY <1>7, Zenon DEF Effect
(* A migration creates its snapshot, if it is not there.                   *)
LEMMA HandlePendingEffect ==
  ASSUME Shape, HandlePending
  PROVE  Effect
<1>1. UNCHANGED <<child, second, opCache, rest>>
  BY Zenon DEF HandlePending, history, rest
<1>2. MigSnap \in Parents /\ parent[MigSnap] \in Parent
  BY MigSnapAssumption, Zenon DEF Shape
<1>3. CASE parent' = parent
  BY <1>1, <1>3, Zenon DEF Effect, Calm
<1>4. CASE parent' # parent
  <2> DEFINE r == NewParent("")
  <2>1. parent' = [parent EXCEPT ![MigSnap] = IF @.phase = "absent" THEN r ELSE @]
    BY <1>4, Zenon DEF HandlePending
  <2>2. r \in Parent /\ r.base = None /\ r.elected = None
    BY DEF NewParent, Parent
  <2> HIDE DEF r
  <2>3. parent[MigSnap].phase = "absent" /\ parent' = [parent EXCEPT ![MigSnap] = r]
    BY <1>2, <1>4, <2>1 DEF Shape
  <2>4. Wrote(MigSnap, r)
    BY <1>1, <2>2, <2>3, Zenon DEF Wrote, Elects, SnapshotSucceeded
  <2> QED
    BY <1>2, <2>4, Zenon DEF Effect
<1> QED
  BY <1>3, <1>4, Zenon

(* An administrator reports the migration's snapshot as terminated.        *)
LEMMA ByHandEffect ==
  ASSUME Shape, TerminateByHand
  PROVE  Effect
<1>1. UNCHANGED <<child, second, opCache, rest>> /\ ~parent[MigSnap].terminated
  BY Zenon DEF TerminateByHand, history, rest
<1>2. MigSnap \in Parents /\ parent[MigSnap] \in Parent
  BY MigSnapAssumption, Zenon DEF Shape
<1>3. PICK ph \in {"Succeeded", "Failed"} :
        parent' = [parent EXCEPT ![MigSnap].phase = ph, ![MigSnap].terminated = TRUE]
  BY Zenon DEF TerminateByHand
<1> DEFINE r == [parent[MigSnap] EXCEPT !.phase = ph, !.terminated = TRUE]
<1>4. parent' = [parent EXCEPT ![MigSnap] = r]
  BY <1>2, <1>3 DEF Shape
<1>5. r \in Parent /\ r.base = parent[MigSnap].base /\ r.elected = parent[MigSnap].elected
  BY <1>2, <1>3 DEF Parent
<1> HIDE DEF r
<1>6. Wrote(MigSnap, r)
  BY <1>1, <1>4, <1>5, Zenon DEF Wrote, Elects, SnapshotSucceeded
<1> QED
  BY <1>2, <1>6, Zenon DEF Effect

(* The agent fails an execution whose VM is gone.                          *)
LEMMA VMGoneEffect ==
  ASSUME Shape, NEW n \in Nodes, NEW k \in Keys, AgVMGone(n, k)
  PROVE  Effect
<1>1. UNCHANGED <<parent, second, opCache, overlapped, pruned>> /\ Written(k)
  BY Zenon DEF AgVMGone
<1>2. CASE k \notin DOMAIN child
  <2>1. child' = child /\ rerun' = rerun
    BY <1>1, <1>2, Zenon DEF AgVMGone, Written
  <2> QED
    BY <1>1, <2>1, Zenon DEF Effect, Calm, rest
<1>3. CASE k \in DOMAIN child
  <2> DEFINE c == [child[k] EXCEPT !.phase = "Failed", !.terminated = TRUE]
  <2>1. child[k] \in Child
    BY <1>3, Zenon DEF Shape
  <2>2. child' = [child EXCEPT ![k].phase = "Failed", ![k].terminated = TRUE]
    BY <1>3, Zenon DEF AgVMGone
  <2>3. child' = [child EXCEPT ![k] = c]
    BY <2>1, <2>2
  <2>4. c \in Child /\ c.terminated
    BY <2>1 DEF Child
  <2> HIDE DEF c
  <2>5. Ran(k, c)
    BY <1>1, <1>3, <2>3, <2>4, Zenon DEF Ran, Ended
  <2> QED
    BY <2>5, Zenon DEF Effect
<1> QED
  BY <1>2, <1>3, Zenon

(* The agent marks an execution Running, or takes up one that is.          *)
LEMMA BeginEffect ==
  ASSUME Shape, NEW n \in Nodes, NEW k \in Keys, AgBegin(n, k)
  PROVE  Effect
<1>1. UNCHANGED <<parent, second, opCache, overlapped, pruned>>
  BY Zenon DEF AgBegin
<1>2. CASE k \notin DOMAIN child
  <2>1. child' = child /\ rerun' = rerun
    BY <1>2, Zenon DEF AgBegin, Written
  <2> QED
    BY <1>1, <2>1, Zenon DEF Effect, Calm, rest
<1>3. CASE k \in DOMAIN child
  <2>1. child[k] \in Child /\ Ended(child[k])
    BY <1>3, Zenon DEF Shape
  <2>2. /\ Written(k)
        /\ child' = IF Copy(n)[k].phase # "Running" THEN [child EXCEPT ![k].phase = "Running"] ELSE child
    BY <1>3, Zenon DEF AgBegin
  <2>3. CASE Copy(n)[k].phase = "Running"
    <3>1. child' = [child EXCEPT ![k] = child[k]]
      BY <1>3, <2>2, <2>3 DEF Shape
    <3>2. Ran(k, child[k])
      BY <1>1, <1>3, <2>1, <2>2, <3>1, Zenon DEF Ran
    <3> QED
      BY <3>2, Zenon DEF Effect
  <2>4. CASE Copy(n)[k].phase # "Running"
    <3> DEFINE c == [child[k] EXCEPT !.phase = "Running"]
    <3>1. child' = [child EXCEPT ![k] = c]
      BY <2>1, <2>2, <2>4
    <3>2. c \in Child /\ c.terminated = child[k].terminated /\ c.phase = "Running"
      BY <2>1 DEF Child
    <3> HIDE DEF c
    <3>3. Ran(k, c)
      BY <1>1, <1>3, <2>2, <3>1, <3>2, Zenon DEF Ran, Ended
    <3> QED
      BY <3>3, Zenon DEF Effect
  <2> QED
    BY <2>3, <2>4, Zenon
<1> QED
  BY <1>2, <1>3, Zenon
(* The agent reports what came of an execution.                            *)
LEMMA FinishEffect ==
  ASSUME Shape, JobShape, NEW n \in Nodes, AgFinish(n)
  PROVE  Effect
<1> DEFINE k == job[n].key
<1>1. UNCHANGED <<parent, second, opCache, overlapped, pruned>> /\ Written(k)
  BY Zenon DEF AgFinish
<1>2. CASE k \notin DOMAIN child
  <2>1. child' = child /\ rerun' = rerun
    BY <1>1, <1>2, Zenon DEF AgFinish, Written
  <2> QED
    BY <1>1, <2>1, Zenon DEF Effect, Calm, rest
<1>3. CASE k \in DOMAIN child
  <2> DEFINE c == IF job[n].ok THEN [phase |-> "Succeeded", terminated |-> TRUE, path |-> n]
                  ELSE [child[k] EXCEPT !.phase = "Failed", !.terminated = TRUE]
  <2>1. child[k] \in Child
    BY <1>3, Zenon DEF Shape
  <2>2. child' = [child EXCEPT ![k] =
                    IF job[n].ok THEN [phase |-> "Succeeded", terminated |-> TRUE, path |-> n]
                    ELSE [@ EXCEPT !.phase = "Failed", !.terminated = TRUE]]
    BY <1>3, Zenon DEF AgFinish
  <2>3. child' = [child EXCEPT ![k] = c]
    BY <2>2, Zenon
  <2>4. c \in Child /\ c.terminated
    BY <2>1 DEF Child
  <2> HIDE DEF c, k
  <2>5. Ran(k, c)
    BY <1>1, <1>3, <2>3, <2>4, Zenon DEF Ran, Ended
  <2> QED
    BY <2>5, Zenon DEF Effect
<1> QED
  BY <1>2, <1>3, Zenon
(* Every step has one of the effects.                                      *)
LEMMA Effects ==
  ASSUME Shape, JobShape, [Next]_vars
  PROVE  Effect
<1>1. CASE UNCHANGED vars
  BY <1>1, Zenon DEF vars, snapVars, objects, opVars, history, Effect, Calm, rest
<1>2. CASE SnapshotsNext
  <2>1. ASSUME NEW p \in Parents, OpGated(p) PROVE Effect
    BY <2>1, GatedEffect, Zenon
  <2>2. ASSUME NEW p \in Parents, OpReconcile(p) \/ OpReconcileFails(p) PROVE Effect
    BY <2>2, Passes, Zenon DEF Effect
  <2>3. ASSUME NEW p \in Parents, GateTimer(p) PROVE Effect
    BY <2>3, Zenon DEF GateTimer, objects, history, Effect, Calm, rest
  <2>4. ASSUME NEW p \in Parents, Elect(p) PROVE Effect
    BY <2>4, ElectEffect, Zenon
  <2>5. CASE Approach
    BY <2>5, Zenon DEF Approach, objects, opVars, history, Effect, Calm, rest
  <2>6. CASE Tick
    BY <2>6, Zenon DEF Tick, history, Effect, Calm, rest
  <2>7. CASE Second
    BY <2>7, Zenon DEF Second, objects, opVars, history, Effect, Clock, rest
  <2>8. CASE OpFreeze
    BY <2>8, Zenon DEF OpFreeze, objects, history, Effect, Synced, rest
  <2>9. CASE OpCatchUp
    BY <2>9, Zenon DEF OpCatchUp, objects, history, Effect, Synced, rest
  <2>10. CASE MoveVM
    BY <2>10, Zenon DEF MoveVM, objects, opVars, Effect, Calm, rest
  <2>11. ASSUME NEW n \in Nodes, NEW k \in Keys, AgSkip(n, k) PROVE Effect
    BY <2>11, Zenon DEF AgSkip, objects, opVars, Effect, Calm, rest
  <2>12. ASSUME NEW n \in Nodes, NEW k \in Keys, AgVMGone(n, k) PROVE Effect
    BY <2>12, VMGoneEffect, Zenon
  <2>13. ASSUME NEW n \in Nodes, NEW k \in Keys, AgBegin(n, k) PROVE Effect
    BY <2>13, BeginEffect, Zenon
  <2>14. ASSUME NEW n \in Nodes, AgExecute(n) PROVE Effect
    BY <2>14, Zenon DEF AgExecute, objects, opVars, history, Effect, Calm, rest
  <2>15. ASSUME NEW n \in Nodes, AgFinish(n) PROVE Effect
    BY <2>15, FinishEffect, Zenon
  <2>16. ASSUME NEW n \in Nodes, AgFinishFails(n) PROVE Effect
    BY <2>16, Zenon DEF AgFinishFails, objects, opVars, history, Effect, Calm, rest
  <2>17. ASSUME NEW n \in Nodes, AgCrash(n) PROVE Effect
    BY <2>17, Zenon DEF AgCrash, objects, opVars, history, Effect, Calm, rest
  <2>18. ASSUME NEW n \in Nodes, AgFreeze(n) PROVE Effect
    BY <2>18, Zenon DEF AgFreeze, objects, opVars, history, Effect, Calm, rest
  <2>19. ASSUME NEW n \in Nodes, AgCatchUp(n) PROVE Effect
    BY <2>19, Zenon DEF AgCatchUp, objects, opVars, history, Effect, Calm, rest
  <2> QED
    BY <1>2, <2>1, <2>2, <2>3, <2>4, <2>5, <2>6, <2>7, <2>8, <2>9, <2>10, <2>11, <2>12, <2>13,
       <2>14, <2>15, <2>16, <2>17, <2>18, <2>19, Zenon DEF SnapshotsNext
<1>3. CASE MigNext
  <2>1. CASE Request \/ Drain \/ HandleEmpty \/ HandlePendingFails \/ HandleSnapshottingFails
    <3>1. UNCHANGED snapVars
      BY <2>1, Zenon DEF Request, Drain, HandleEmpty, HandlePendingFails, HandleSnapshottingFails
    <3> QED
      BY <3>1, Zenon DEF snapVars, objects, opVars, history, Effect, Calm, rest
  <2>2. CASE HandlePending
    BY <2>2, HandlePendingEffect, Zenon
  <2>3. CASE CreateTargetVM
    BY <2>3, Zenon DEF CreateTargetVM, objects, opVars, history, Effect, Calm, rest
  <2>4. CASE HandleRestoring
    BY <2>4, Zenon DEF HandleRestoring, objects, opVars, history, Effect, Calm, rest
  <2>5. CASE BootTarget
    BY <2>5, Zenon DEF BootTarget, snapVars, objects, opVars, history, Effect, Calm, rest
  <2>6. CASE TargetDies
    BY <2>6, Zenon DEF TargetDies, objects, opVars, history, Effect, Calm, rest
  <2>7. CASE MigFreeze
    BY <2>7, Zenon DEF MigFreeze, objects, opVars, history, Effect, Calm, rest
  <2>8. CASE MigCatchUp
    BY <2>8, Zenon DEF MigCatchUp, snapVars, objects, opVars, history, Effect, Calm, rest
  <2>9. CASE TerminateByHand
    BY <2>9, ByHandEffect, Zenon
  <2> QED
    BY <1>3, <2>1, <2>2, <2>3, <2>4, <2>5, <2>6, <2>7, <2>8, <2>9, Zenon DEF MigNext
<1> QED
  BY <1>1, <1>2, <1>3, Zenon DEF Next
-----------------------------------------------------------------------------
(* The shape is kept.                                                      *)

(* The operator's copy stays, or shows the objects as they are.            *)
LEMMA CopyStep ==
  ASSUME Effect
  PROVE  \/ Now(opCache)' = Now(opCache)
         \/ Now(opCache)'.parent = parent' /\ Now(opCache)'.child = child'
<1>1. Objects'.parent = parent' /\ Objects'.child = child'
  BY DEF Objects
<1>2. CASE Synced
  <2>1. Objects' = Objects
    BY <1>2, Zenon DEF Synced, Objects
  <2>2. Now(opCache)' = Objects'
    BY <1>2, <2>1, Zenon DEF Synced, Now
  <2> QED
    BY <1>1, <2>2, Zenon
<1>3. CASE opCache' = opCache
  <2>1. Now(opCache)' = Objects' \/ Now(opCache)' = Now(opCache)
    BY <1>3, Zenon DEF Now
  <2> QED
    BY <1>1, <2>1, Zenon
<1>4. Synced \/ opCache' = opCache
  BY Zenon DEF Effect, Calm, Clock, Wrote, Ran, Pass, OpPass
<1> QED
  BY <1>2, <1>3, <1>4, Zenon

(* The children after a pass.                                              *)
LEMMA PassChild ==
  ASSUME Shape, NEW p \in Parents, NEW fresh, NEW recorded, Pass(p, fresh, recorded)
  PROVE  LET gone == ToDelete(Now(opCache), p)
         IN  /\ DOMAIN child' = (DOMAIN child \ gone) \cup fresh
             /\ \A k \in DOMAIN child' : child'[k] = IF k \in fresh THEN NewChild ELSE child[k]
             /\ DOMAIN child' \subseteq Keys /\ child' \in [DOMAIN child' -> Child]
             /\ \A k \in DOMAIN child' : Ended(child'[k])
             /\ \A k \in fresh : k = <<p, second>> /\ k \notin DOMAIN child \ gone
<1> DEFINE gone == ToDelete(Now(opCache), p)  D == (DOMAIN child \ gone) \cup fresh
<1>1. child' = [k \in D |-> IF k \in fresh THEN NewChild ELSE child[k]]
  BY Zenon DEF Pass, OpPass
<1>2. fresh \subseteq {<<p, second>>} /\ fresh \cap (DOMAIN child \ gone) = {}
  BY Zenon DEF Pass
<1>3. NewChild \in Child /\ Ended(NewChild)
  BY DEF NewChild, Child, Ended
<1>4. D \subseteq Keys
  BY <1>2 DEF Shape, Keys
<1> HIDE DEF gone
<1>5. \A k \in D \ fresh : child[k] \in Child /\ Ended(child[k])
  BY Zenon DEF Shape
<1>6. \A k \in fresh : k = <<p, second>> /\ k \notin DOMAIN child \ gone
  BY <1>2, Zenon
<1> HIDE DEF D
<1>7. DOMAIN child' = D /\ \A k \in D : child'[k] = IF k \in fresh THEN NewChild ELSE child[k]
  BY <1>1, Zenon
<1>8. \A k \in D : child'[k] \in Child /\ Ended(child'[k])
  BY <1>3, <1>5, <1>7, Zenon
<1>9. child' \in [D -> Child]
  BY <1>1, <1>7, <1>8, Zenon
<1> QED
  BY <1>4, <1>6, <1>7, <1>8, <1>9, Zenon DEF D, gone

(* The objects and the operator's copy of them.                            *)
LEMMA ShapeStep ==
  ASSUME Shape, Effect
  PROVE  Shape'
<1> DEFINE Typed == /\ parent' \in [Parents -> Parent]
                    /\ DOMAIN child' \subseteq Keys /\ child' \in [DOMAIN child' -> Child]
                    /\ \A k \in DOMAIN child' : Ended(child'[k])
                    /\ second' \in Seconds
<1>1. Typed
  <2>1. CASE Calm \/ Synced
    BY <2>1, Zenon DEF Calm, Synced, Shape
  <2>2. CASE Clock
    <3>1. second' \in Seconds
      BY <2>2, SecondAssumption DEF Clock, Shape, Seconds
    <3> QED
      BY <2>2, <3>1, Zenon DEF Clock, Shape
  <2>3. ASSUME NEW p \in Parents, NEW r, Wrote(p, r) PROVE Typed
    BY <2>3, Zenon DEF Wrote, Shape
  <2>4. ASSUME NEW k, NEW c, Ran(k, c) PROVE Typed
    BY <2>4, Zenon DEF Ran, Shape
  <2>5. ASSUME NEW p \in Parents, NEW fresh, NEW recorded, Pass(p, fresh, recorded) PROVE Typed
    <3>1. parent' \in [Parents -> Parent]
      BY <2>5, PassParent, Zenon
    <3>2. /\ DOMAIN child' \subseteq Keys /\ child' \in [DOMAIN child' -> Child]
          /\ \A k \in DOMAIN child' : Ended(child'[k])
      BY <2>5, PassChild, Zenon
    <3>3. second' = second
      BY <2>5, Zenon DEF Pass, OpPass
    <3> QED
      BY <3>1, <3>2, <3>3, Zenon DEF Shape
  <2> QED
    BY <2>1, <2>2, <2>3, <2>4, <2>5, Zenon DEF Effect
<1>2. Now(opCache)'.parent \in [Parents -> Parent] /\ DOMAIN (Now(opCache)'.child) \subseteq Keys
  BY <1>1, CopyStep, Zenon DEF Shape
<1> QED
  BY <1>1, <1>2, Zenon DEF Shape
-----------------------------------------------------------------------------
(* One execution at a time.                                                *)

Open(k) == k \in DOMAIN child /\ ~child[k].terminated
Single ==
  \A p \in Parents \ overlapped : \A j, k \in Keys :
    j[1] = p /\ k[1] = p /\ Open(j) /\ Open(k) => j = k

(* An effect that creates no child opens none.                             *)
LEMMA OpensOnlyFresh ==
  ASSUME Shape, Effect, \A p \in Parents : \A fresh, recorded : Pass(p, fresh, recorded) => fresh = {}
  PROVE  \A k \in Keys : Open(k)' => Open(k)
<1> SUFFICES ASSUME NEW k \in Keys, Open(k)' PROVE Open(k)
  BY Zenon
<1>1. CASE child' = child
  BY <1>1, Zenon DEF Open
<1>2. ASSUME NEW j, NEW c, Ran(j, c) PROVE Open(k)
  <2>1. CASE k = j
    BY <1>2, <2>1, Zenon DEF Ran, Open
  <2>2. CASE k # j
    BY <1>2, <2>2, Zenon DEF Ran, Open
  <2> QED
    BY <2>1, <2>2, Zenon
<1>3. ASSUME NEW p \in Parents, NEW fresh, NEW recorded, Pass(p, fresh, recorded) PROVE Open(k)
  <2>1. fresh = {}
    BY <1>3, Zenon
  <2>2. /\ DOMAIN child' = (DOMAIN child \ ToDelete(Now(opCache), p)) \cup fresh
        /\ \A i \in DOMAIN child' : child'[i] = IF i \in fresh THEN NewChild ELSE child[i]
    BY <1>3, PassChild, Zenon
  <2> QED
    BY <2>1, <2>2, Zenon DEF Open
<1> QED
  BY <1>1, <1>2, <1>3, Zenon DEF Effect, Calm, Clock, Synced, Wrote

(* The gate: a pass that creates a child has seen none that is open.       *)
LEMMA SingleStep ==
  ASSUME Shape, Single, Effect
  PROVE  Single'
<1> SUFFICES ASSUME NEW p \in Parents, p \notin overlapped', NEW j \in Keys, NEW k \in Keys,
                    j[1] = p, k[1] = p, Open(j)', Open(k)'
             PROVE  j = k
  BY Zenon DEF Single
<1>1. p \notin overlapped
  BY Zenon DEF Effect, Calm, Clock, Synced, Wrote, Ran, Pass, OpPass, rest
<1>2. CASE Open(j) /\ Open(k)
  BY <1>1, <1>2, Zenon DEF Single
<1>3. ASSUME NEW q \in Parents, NEW fresh, NEW recorded, Pass(q, fresh, recorded), fresh # {}
      PROVE  j = k
  <2> DEFINE gone == ToDelete(Now(opCache), q)
  <2>1. /\ DOMAIN child' = (DOMAIN child \ gone) \cup fresh
        /\ \A i \in DOMAIN child' : child'[i] = IF i \in fresh THEN NewChild ELSE child[i]
        /\ \A i \in fresh : i = <<q, second>>
    BY <1>3, PassChild, Zenon
  <2>2. \A i \in Keys : Open(i)' => Open(i) \/ i = <<q, second>>
    BY <2>1, Zenon DEF Open
  <2>3. CASE p # q
    <3>1. <<q, second>>[1] = q
      BY Zenon
    <3>2. Open(j) /\ Open(k)
      BY <2>2, <2>3, <3>1, Zenon
    <3> QED
      BY <1>2, <3>2, Zenon
  <2>4. CASE p = q
    <3>1. Now(opCache) = Objects /\ ~Gate(Now(opCache), q)
      BY <1>3, <2>4, Zenon DEF Pass, OpPass
    <3>2. Objects.child = child
      BY DEF Objects
    <3>3. ~Open(j) /\ ~Open(k)
      BY <2>4, <3>1, <3>2, Zenon DEF Gate, KidsOf, Open
    <3> QED
      BY <2>2, <3>3, Zenon
  <2> QED
    BY <2>3, <2>4, Zenon
<1>4. CASE \A q \in Parents : \A fresh, recorded : Pass(q, fresh, recorded) => fresh = {}
  BY <1>2, <1>4, OpensOnlyFresh, Zenon
<1> QED
  BY <1>3, <1>4, Zenon

(* No two open executions is at most one.                                  *)
LEMMA SingleIsOne ==
  ASSUME Shape, Single
  PROVE  OneExecution
<1> SUFFICES ASSUME NEW p \in Parents \ overlapped
             PROVE  Cardinality({k \in KidsOf(Objects, p) : ~child[k].terminated}) <= 1
  BY Zenon DEF OneExecution
<1> DEFINE S == {k \in KidsOf(Objects, p) : ~child[k].terminated}
<1>1. Objects.child = child
  BY DEF Objects
<1>2. \A j, k \in S : j = k
  BY <1>1, Zenon DEF KidsOf, Single, Open, Shape
<1> HIDE DEF S
<1>3. CASE S = {}
  BY <1>3, FS_EmptySet DEF S
<1>4. CASE S # {}
  <2>1. PICK x : x \in S
    BY <1>4, Zenon
  <2>2. S = {x}
    BY <1>2, <2>1, Zenon
  <2>3. Cardinality(S) = 1
    BY <2>2, FS_Singleton, Zenon
  <2> QED
    BY <2>3 DEF S
<1> QED
  BY <1>3, <1>4, Zenon
-----------------------------------------------------------------------------
(* The base.                                                               *)

(* Children are named by seconds that have come.                           *)
Dated ==
  /\ \A k \in DOMAIN child : k[2] <= second
  /\ \A k \in DOMAIN Now(opCache).child : k[2] <= second

(* A name that stands for a Succeeded child: if it is not one, it was      *)
(* pruned, in a second that has passed so that nobody takes it again, or   *)
(* it was executed again.                                                  *)
Bound(k) ==
  /\ k \in DOMAIN child \/ k[2] < second
  /\ k \in DOMAIN child \ (pruned \cup rerun) => child[k].phase = "Succeeded"

CopyBound ==
  \A k \in DOMAIN Now(opCache).child : Now(opCache).child[k].phase = "Succeeded" => Bound(k)
BaseBound ==
  \A p \in Parents :
    /\ parent[p].base # None => Bound(<<p, parent[p].base>>)
    /\ Now(opCache).parent[p].base # None => Bound(<<p, Now(opCache).parent[p].base>>)
ElectedKept ==
  \A p \in Parents : parent[p].elected # None => <<p, parent[p].elected>> \in DOMAIN child \cup pruned

BaseInv == Dated /\ CopyBound /\ BaseBound /\ ElectedKept

(* Seconds, as numbers.                                                    *)
LEMMA KeySeconds ==
  ASSUME NEW k \in Keys
  PROVE  k[1] \in Parents /\ k[2] \in Seconds /\ k[2] \in Int
BY SecondAssumption DEF Keys, Seconds

(* What a pass prunes is named by a second before the current one.         *)
LEMMA PrunedIsPast ==
  ASSUME Shape, Dated, NEW p \in Parents, NEW k \in ToDelete(Now(opCache), p)
  PROVE  k[2] < second /\ k[1] = p
<1>1. PICK j \in DOMAIN Now(opCache).child : j[2] > k[2]
  BY GoneIsOlder, Zenon
<1>2. k \in DOMAIN Now(opCache).child /\ k[1] = p
  BY GoneIsOlder, Zenon
<1>3. j \in Keys /\ k \in Keys /\ j[2] <= second /\ second \in Seconds
  BY <1>1, <1>2, Zenon DEF Shape, Dated
<1>4. j[2] \in Int /\ k[2] \in Int /\ second \in Int
  BY <1>3, KeySeconds DEF Seconds
<1> QED
  BY <1>1, <1>2, <1>3, <1>4

(* A child is created under the current second.                            *)
LEMMA DatedStep ==
  ASSUME Shape, Dated, Effect
  PROVE  Dated'
<1>1. second \in Int /\ second' \in Int /\ (second' = second \/ second' = second + 1)
  <2>1. second \in Int
    BY DEF Shape, Seconds
  <2>2. second' = second \/ second' = second + 1
    BY Zenon DEF Effect, Calm, Clock, Synced, Wrote, Ran, Pass, OpPass
  <2> QED
    BY <2>1, <2>2
<1>2. \A k \in Keys : k[2] <= second => k[2] <= second'
  BY <1>1, KeySeconds
<1>3. \A k \in DOMAIN child' : k \in Keys /\ (k \in DOMAIN child \/ k[2] = second)
  <2>1. ASSUME NEW p \in Parents, NEW fresh, NEW recorded, Pass(p, fresh, recorded), NEW k \in DOMAIN child'
        PROVE  k \in DOMAIN child \/ k[2] = second
    <3>1. /\ DOMAIN child' = (DOMAIN child \ ToDelete(Now(opCache), p)) \cup fresh
          /\ \A i \in fresh : i = <<p, second>>
      BY <2>1, PassChild, Zenon
    <3>2. <<p, second>>[2] = second
      BY Zenon
    <3> QED
      BY <2>1, <3>1, <3>2, Zenon
  <2>2. ASSUME NEW k, NEW c, Ran(k, c) PROVE DOMAIN child' = DOMAIN child
    BY <2>2, Zenon DEF Ran
  <2>3. \A k \in DOMAIN child' : k \in DOMAIN child \/ k[2] = second
    BY <2>1, <2>2, Zenon DEF Effect, Calm, Clock, Synced, Wrote
  <2>4. DOMAIN child' \subseteq Keys
    BY ShapeStep, Zenon DEF Shape
  <2> QED
    BY <2>3, <2>4, Zenon
<1>4. second <= second
  BY <1>1
<1>5. \A k \in DOMAIN child' : k[2] <= second'
  BY <1>2, <1>3, <1>4, Zenon DEF Dated, Shape
<1>6. \A k \in DOMAIN (Now(opCache)'.child) : k[2] <= second'
  BY <1>2, <1>5, CopyStep, Zenon DEF Dated, Shape
<1> QED
  BY <1>5, <1>6, Zenon DEF Dated
(* A name stays bound: a pass neither prunes the current second nor takes  *)
(* a name that was pruned, and a report on an execution that had           *)
(* Succeeded marks it as executed again.                                   *)
LEMMA BoundKept ==
  ASSUME Shape, Dated, Effect, NEW k \in Keys, Bound(k)
  PROVE  Bound(k)'
<1>1. second \in Int /\ k[2] \in Int
  BY KeySeconds DEF Shape, Seconds
<1>2. CASE UNCHANGED <<child, rerun, pruned>>
  <2>1. second' = second \/ second' = second + 1
    BY Zenon DEF Effect, Calm, Clock, Synced, Wrote, Ran, Pass, OpPass
  <2>2. k[2] < second => k[2] < second'
    BY <1>1, <2>1
  <2> QED
    BY <1>2, <2>2, Zenon DEF Bound
<1>3. ASSUME NEW j, NEW c, Ran(j, c) PROVE Bound(k)'
  <2>1. DOMAIN child' = DOMAIN child /\ second' = second /\ pruned' = pruned
    BY <1>3, Zenon DEF Ran
  <2>2. CASE k # j
    <3>1. k \in DOMAIN child => child'[k] = child[k]
      BY <1>3, <2>2, Zenon DEF Ran
    <3>2. rerun \subseteq rerun'
      BY <1>3, Zenon DEF Ran, Written
    <3> QED
      BY <2>1, <3>1, <3>2, Zenon DEF Bound
  <2>3. CASE k = j
    <3>1. k \in DOMAIN child
      BY <1>3, <2>3, Zenon DEF Ran
    <3>2. k \in pruned \cup rerun'
      BY <1>3, <2>3, <3>1, Zenon DEF Ran, Written, Bound, Shape, Ended
    <3> QED
      BY <2>1, <3>1, <3>2, Zenon DEF Bound
  <2> QED
    BY <2>2, <2>3, Zenon
<1>4. ASSUME NEW p \in Parents, NEW fresh, NEW recorded, Pass(p, fresh, recorded) PROVE Bound(k)'
  <2> DEFINE gone == ToDelete(Now(opCache), p)
  <2>1. /\ DOMAIN child' = (DOMAIN child \ gone) \cup fresh
        /\ \A i \in DOMAIN child' : child'[i] = IF i \in fresh THEN NewChild ELSE child[i]
        /\ \A i \in fresh : i = <<p, second>> /\ i \notin DOMAIN child \ gone
    BY <1>4, PassChild, Zenon
  <2>2. second' = second /\ rerun' = rerun /\ pruned \subseteq pruned'
    BY <1>4, Zenon DEF Pass, OpPass
  <2>3. k \in gone => k[2] < second
    BY PrunedIsPast, Zenon
  <2> HIDE DEF gone
  <2>4. k \notin fresh
    <3> SUFFICES ASSUME k \in fresh PROVE FALSE
      BY Zenon
    <3>1. k = <<p, second>> /\ k \notin DOMAIN child \ gone
      BY <2>1, Zenon
    <3>2. k[2] = second
      BY <3>1, Zenon
    <3>3. k[2] < second
      BY <2>3, <3>1, Zenon DEF Bound
    <3> QED
      BY <1>1, <3>2, <3>3
  <2>5. k \in DOMAIN child' => k \in DOMAIN child /\ child'[k] = child[k]
    BY <2>1, <2>4, Zenon
  <2>6. k \in DOMAIN child' \/ k[2] < second'
    BY <2>1, <2>2, <2>3, Zenon DEF Bound
  <2> QED
    BY <2>2, <2>5, <2>6, Zenon DEF Bound
<1> QED
  BY <1>2, <1>3, <1>4, Zenon DEF Effect, Calm, Clock, Synced, Wrote, rest

(* A Succeeded child is one.                                               *)
LEMMA CopyBoundStep ==
  ASSUME Shape, Dated, CopyBound, Effect
  PROVE  CopyBound'
<1> SUFFICES ASSUME NEW k \in DOMAIN (Now(opCache)'.child), Now(opCache)'.child[k].phase = "Succeeded"
             PROVE  Bound(k)'
  BY Zenon DEF CopyBound
<1>1. CASE Now(opCache)' = Now(opCache)
  <2>1. k \in Keys /\ Bound(k)
    BY <1>1, Zenon DEF CopyBound, Shape
  <2> QED
    BY <2>1, BoundKept, Zenon
<1>2. CASE Now(opCache)'.child = child'
  BY <1>2, Zenon DEF Bound
<1> QED
  BY <1>1, <1>2, CopyStep, Zenon

(* A base is a bound name: it stays, or it is an elected child that the    *)
(* copy shows as Succeeded, or the base the copy shows.                    *)
LEMMA BaseBoundStep ==
  ASSUME Shape, Dated, CopyBound, BaseBound, Effect
  PROVE  BaseBound'
<1>1. ASSUME NEW q \in Parents, parent'[q].base # None PROVE Bound(<<q, parent'[q].base>>)
  <2>1. CASE parent'[q].base = parent[q].base
    BY <1>1, <2>1, Zenon DEF BaseBound
  <2>2. ASSUME NEW p \in Parents, NEW r, Wrote(p, r) PROVE parent'[q].base = parent[q].base
    BY <1>1, <2>2, Zenon DEF Wrote, Shape
  <2>3. ASSUME NEW p \in Parents, NEW fresh, NEW recorded, Pass(p, fresh, recorded)
        PROVE  Bound(<<q, parent'[q].base>>)
    <3>1. CASE q # p
      BY <2>1, <2>3, <3>1, PassParent, Zenon
    <3>2. CASE q = p
      <4>1. parent'[q].base = ValidBase(Now(opCache), q)
        BY <2>3, <3>2, PassParent, Zenon
      <4> QED
        BY <1>1, <4>1, Zenon DEF ValidBase, CopyBound, BaseBound
    <3> QED
      BY <3>1, <3>2, Zenon
  <2>4. CASE parent' = parent
    BY <2>1, <2>4, Zenon
  <2> QED
    BY <2>1, <2>2, <2>3, <2>4, Zenon DEF Effect, Calm, Clock, Synced, Ran
<1>2. \A q \in Parents : \A r \in Parent : r.base # None => <<q, r.base>> \in Keys
  BY ParentFields, Zenon DEF Keys
<1>3. ASSUME NEW q \in Parents, NEW r \in Parent, r.base # None, Bound(<<q, r.base>>)
      PROVE  Bound(<<q, r.base>>)'
  BY <1>2, <1>3, BoundKept, Zenon
<1>4. ASSUME NEW q \in Parents PROVE (parent[q].base # None => Bound(<<q, parent[q].base>>))'
  <2>1. PICK r \in Parent : r = parent'[q]
    BY ShapeStep, Zenon DEF Shape
  <2>2. r.base # None => Bound(<<q, r.base>>)'
    BY <1>1, <1>3, <2>1, Zenon
  <2> QED
    BY <2>1, <2>2, Zenon DEF Bound
<1>5. ASSUME NEW q \in Parents
      PROVE  (Now(opCache).parent[q].base # None => Bound(<<q, Now(opCache).parent[q].base>>))'
  <2>1. CASE Now(opCache)'.parent = parent'
    BY <1>4, <2>1, Zenon DEF Bound
  <2>2. CASE Now(opCache)' = Now(opCache)
    <3>1. PICK r \in Parent : r = Now(opCache).parent[q]
      BY Zenon DEF Shape
    <3>2. r.base # None => Bound(<<q, r.base>>)'
      BY <1>3, <3>1, Zenon DEF BaseBound
    <3>3. Now(opCache)'.parent[q] = r
      BY <2>2, <3>1, Zenon
    <3> QED
      BY <3>2, <3>3, Zenon DEF Bound
  <2> QED
    BY <2>1, <2>2, CopyStep, Zenon
<1> QED
  BY <1>4, <1>5, Zenon DEF BaseBound

(* What is elected is pruned only by a pass that does not know.            *)
LEMMA ElectedKeptStep ==
  ASSUME Shape, ElectedKept, Effect
  PROVE  ElectedKept'
<1> SUFFICES ASSUME NEW q \in Parents, parent'[q].elected # None
             PROVE  <<q, parent'[q].elected>> \in DOMAIN child' \cup pruned'
  BY Zenon DEF ElectedKept
<1> DEFINE e == parent'[q].elected
<1>1. CASE Calm \/ Clock \/ Synced
  BY <1>1, Zenon DEF Calm, Clock, Synced, ElectedKept, rest
<1>2. ASSUME NEW p \in Parents, NEW r, Wrote(p, r) PROVE <<q, e>> \in DOMAIN child' \cup pruned'
  <2>1. e = parent[q].elected \/ <<q, e>> \in DOMAIN child
    BY <1>2, Zenon DEF Wrote, Elects, Shape
  <2> QED
    BY <1>2, <2>1, Zenon DEF Wrote, ElectedKept, rest
<1>3. ASSUME NEW k, NEW c, Ran(k, c) PROVE <<q, e>> \in DOMAIN child' \cup pruned'
  BY <1>3, Zenon DEF Ran, ElectedKept
<1>4. ASSUME NEW p \in Parents, NEW fresh, NEW recorded, Pass(p, fresh, recorded)
      PROVE  <<q, e>> \in DOMAIN child' \cup pruned'
  <2> DEFINE gone == ToDelete(Now(opCache), p)
  <2>1. e = parent[q].elected
    BY <1>4, PassParent, Zenon
  <2>2. <<q, e>> \in DOMAIN child \cup pruned
    BY <2>1, Zenon DEF ElectedKept
  <2>3. DOMAIN child' = (DOMAIN child \ gone) \cup fresh
    BY <1>4, PassChild, Zenon
  <2>4. pruned' = IF Now(opCache) = Objects THEN pruned ELSE pruned \cup (gone \cap DOMAIN child)
    BY <1>4, Zenon DEF Pass, OpPass
  <2>5. ASSUME Now(opCache) = Objects PROVE <<q, e>> \notin gone
    <3>1. Objects.parent = parent
      BY DEF Objects
    <3>2. ASSUME NEW k \in gone PROVE k # <<q, parent[q].elected>>
      <4>1. k[1] = p /\ k[2] # Now(opCache).parent[p].elected
        BY <3>2, Zenon DEF ToDelete, KidsOf
      <4> QED
        BY <2>5, <3>1, <4>1
    <3> QED
      BY <2>1, <3>2, Zenon
  <2> HIDE DEF gone, e
  <2> QED
    BY <2>2, <2>3, <2>4, <2>5, Zenon
<1> QED
  BY <1>1, <1>2, <1>3, <1>4, Zenon DEF Effect

(* A base that is still elected exists, and has Succeeded.                 *)
LEMMA BaseInvResolves ==
  ASSUME BaseInv
  PROVE  BaseResolves
BY Zenon DEF BaseInv, BaseBound, ElectedKept, Bound, BaseResolves
-----------------------------------------------------------------------------
(* The artifacts.                                                          *)

(* A job that was successful has written the artifact, and nobody writes   *)
(* that of a Succeeded child, unless it is executed again.                 *)
Honest(n) ==
  /\ job[n].pc = "exec" => ~job[n].ok
  /\ job[n].pc = "finish" /\ job[n].ok => disk[n][job[n].key] = "whole"
JobHonest == \A n \in Nodes : Honest(n)
Stored(k) ==
  LET n == child[k].path
  IN  n \in Nodes /\ disk[n][k] = "whole" /\ (job[n] = Idle \/ job[n].key # k)
ArtInv == JobHonest /\ \A k \in DOMAIN child \ rerun : child[k].phase = "Succeeded" => Stored(k)

(* What the invariant says of the artifacts.                               *)
LEMMA ArtInvHolds ==
  ASSUME ArtInv
  PROVE  SucceededHasArtifact
BY Zenon DEF ArtInv, Stored, SucceededHasArtifact

(* A Succeeded child that is not news was there before, as it is.          *)
LEMMA OldSuccess ==
  ASSUME Shape, Effect, NEW k \in DOMAIN child' \ rerun', child'[k].phase = "Succeeded",
         k \in DOMAIN child => child[k].phase = "Succeeded"
  PROVE  k \in DOMAIN child \ rerun /\ child'[k] = child[k]
<1>1. rerun \subseteq rerun'
  BY Zenon DEF Effect, Calm, Clock, Synced, Wrote, Ran, Written, Pass, OpPass, rest
<1>2. CASE child' = child
  BY <1>1, <1>2, Zenon
<1>3. ASSUME NEW j, NEW c, Ran(j, c) PROVE k \in DOMAIN child /\ child'[k] = child[k]
  <2>1. CASE j = k
    <3>1. k \in DOMAIN child /\ child[k].terminated
      BY <1>3, <2>1, Zenon DEF Ran, Shape, Ended
    <3> QED
      BY <1>3, <2>1, <3>1, Zenon DEF Ran, Written
  <2>2. CASE j # k
    BY <1>3, <2>2, Zenon DEF Ran
  <2> QED
    BY <2>1, <2>2, Zenon
<1>4. ASSUME NEW p \in Parents, NEW fresh, NEW recorded, Pass(p, fresh, recorded)
      PROVE  k \in DOMAIN child /\ child'[k] = child[k]
  <2>1. /\ DOMAIN child' = (DOMAIN child \ ToDelete(Now(opCache), p)) \cup fresh
        /\ child'[k] = IF k \in fresh THEN NewChild ELSE child[k]
    BY <1>4, PassChild, Zenon
  <2>2. NewChild.phase # "Succeeded"
    BY DEF NewChild
  <2> QED
    BY <2>1, <2>2, Zenon
<1> QED
  BY <1>1, <1>2, <1>3, <1>4, Zenon DEF Effect, Calm, Clock, Synced, Wrote

NoNews ==
  \A k \in DOMAIN child' : child'[k].phase = "Succeeded" /\ k \in DOMAIN child => child[k].phase = "Succeeded"

(* Nobody executes.                                                        *)
LEMMA QuietArtifacts ==
  ASSUME Shape, Effect, ArtInv, JobShape, NoNews, UNCHANGED <<job, disk>>
  PROVE  ArtInv' /\ JobShape'
<1>1. ASSUME NEW k \in DOMAIN child' \ rerun', child'[k].phase = "Succeeded" PROVE Stored(k)'
  <2>1. k \in DOMAIN child \ rerun /\ child'[k] = child[k]
    BY <1>1, OldSuccess, Zenon DEF NoNews
  <2>2. Stored(k)
    BY <1>1, <2>1, Zenon DEF ArtInv
  <2> QED
    BY <2>1, <2>2, Zenon DEF Stored
<1>2. JobHonest'
  BY Zenon DEF ArtInv, JobHonest, Honest
<1> QED
  BY <1>1, <1>2, Zenon DEF ArtInv, JobShape

(* A pass reports no success.                                              *)
LEMMA PassArtifacts ==
  ASSUME Shape, Effect, ArtInv, JobShape, NEW p \in Parents, OpReconcile(p) \/ OpReconcileFails(p)
  PROVE  ArtInv' /\ JobShape'
<1>1. PICK fresh, recorded : Pass(p, fresh, recorded)
  BY Passes, Zenon
<1>2. \A k \in DOMAIN child' : child'[k] = IF k \in fresh THEN NewChild ELSE child[k]
  BY <1>1, PassChild, Zenon
<1>3. NewChild.phase # "Succeeded"
  BY DEF NewChild
<1>4. NoNews
  BY <1>2, <1>3, Zenon DEF NoNews
<1>5. UNCHANGED <<job, disk>>
  BY <1>1, Zenon DEF Pass, OpPass
<1> QED
  BY <1>4, <1>5, QuietArtifacts, Zenon

(* A failed execution is no success.                                       *)
LEMMA VMGoneArtifacts ==
  ASSUME Shape, Effect, ArtInv, JobShape, NEW n \in Nodes, NEW k \in Keys, AgVMGone(n, k)
  PROVE  ArtInv' /\ JobShape'
<1>1. UNCHANGED <<job, disk>>
  BY Zenon DEF AgVMGone
<1>2. CASE child' = child
  BY <1>1, <1>2, QuietArtifacts, Zenon DEF NoNews
<1>3. CASE k \in DOMAIN child /\ child' = [child EXCEPT ![k].phase = "Failed", ![k].terminated = TRUE]
  <2>1. child[k] \in Child
    BY <1>3, Zenon DEF Shape
  <2>2. child'[k].phase = "Failed" /\ \A j \in DOMAIN child' : j # k => child'[j] = child[j]
    BY <1>3, <2>1 DEF Child
  <2>3. NoNews
    BY <2>2, Zenon DEF NoNews
  <2> QED
    BY <1>1, <2>3, QuietArtifacts, Zenon
<1> QED
  BY <1>2, <1>3, Zenon DEF AgVMGone

(* The agent takes up an execution.  One that had Succeeded is executed    *)
(* again.                                                                  *)
LEMMA BeginArtifacts ==
  ASSUME Shape, Effect, ArtInv, JobShape, NEW n \in Nodes, NEW k \in Keys, AgBegin(n, k)
  PROVE  ArtInv' /\ JobShape'
<1> DEFINE r == [pc |-> "exec", key |-> k, ok |-> FALSE]
<1>1. disk' = disk
  BY Zenon DEF AgBegin
<1>2. NoNews
  <2>1. CASE child' = child
    BY <2>1, Zenon DEF NoNews
  <2>2. CASE k \in DOMAIN child /\ child' = [child EXCEPT ![k].phase = "Running"]
    <3>1. child[k] \in Child
      BY <2>2, Zenon DEF Shape
    <3>2. child'[k].phase = "Running" /\ \A j \in DOMAIN child' : j # k => child'[j] = child[j]
      BY <2>2, <3>1 DEF Child
    <3> QED
      BY <3>2, Zenon DEF NoNews
  <2> QED
    BY <2>1, <2>2, Zenon DEF AgBegin
<1>3. CASE job' = job
  BY <1>1, <1>2, <1>3, QuietArtifacts, Zenon
<1>4. CASE job' = [job EXCEPT ![n] = r] /\ Written(k)
  <2>1. r \in Job /\ r.pc = "exec" /\ r.key = k /\ ~r.ok
    BY DEF Job
  <2> HIDE DEF r
  <2>2. job'[n] = r /\ \A m \in Nodes \ {n} : job'[m] = job[m]
    BY <1>4, Zenon DEF JobShape
  <2>3. JobHonest'
    BY <1>1, <2>1, <2>2, Zenon DEF ArtInv, JobHonest, Honest
  <2>4. ASSUME NEW s \in DOMAIN child' \ rerun', child'[s].phase = "Succeeded" PROVE Stored(s)'
    <3>1. s \in DOMAIN child \ rerun /\ child'[s] = child[s]
      BY <1>2, <2>4, OldSuccess, Zenon DEF NoNews
    <3>2. Stored(s)
      BY <2>4, <3>1, Zenon DEF ArtInv
    <3>3. child[s].terminated
      BY <2>4, <3>1, Zenon DEF Shape, Ended
    <3>4. s # k
      BY <1>4, <2>4, <3>1, <3>3, Zenon DEF Written
    <3> QED
      BY <1>1, <2>1, <2>2, <3>1, <3>2, <3>4, Zenon DEF Stored
  <2>5. JobShape'
    BY <1>1, <1>4, <2>1, Zenon DEF JobShape
  <2> QED
    BY <2>3, <2>4, <2>5, Zenon DEF ArtInv
<1> QED
  BY <1>3, <1>4, Zenon DEF AgBegin
Writes(n, kk, v) == disk' = [disk EXCEPT ![n][kk] = v]
Elsewhere(n, kk) == \A m \in Nodes : \A k \in Keys : m # n \/ k # kk => disk'[m][k] = disk[m][k]
DiskTyped == disk' \in [Nodes -> [Keys -> Artifacts]]

(* An agent that executes touches the artifact of its job alone, which is  *)
(* not that of a Succeeded child.                                          *)
LEMMA OthersStored ==
  ASSUME NEW n \in Nodes, NEW kk, job[n].key = kk, job[n] # Idle,
         Elsewhere(n, kk),
         \A m \in Nodes \ {n} : job'[m] = job[m],
         job'[n] = Idle \/ job'[n].key = kk,
         NEW k \in Keys, child'[k] = child[k], Stored(k)
  PROVE  Stored(k)'
<1> DEFINE m == child[k].path
<1>1. m \in Nodes /\ disk[m][k] = "whole" /\ (job[m] = Idle \/ job[m].key # k)
  BY Zenon DEF Stored
<1>2. CASE m = n
  <2>1. job[n].key # k /\ kk # k
    BY <1>1, <1>2, Zenon
  <2>2. disk'[m][k] = disk[m][k]
    BY <1>1, <2>1, Zenon DEF Elsewhere
  <2>3. m \in Nodes /\ disk'[m][k] = "whole" /\ (job'[m] = Idle \/ job'[m].key # k)
    BY <1>1, <1>2, <2>1, <2>2, Zenon
  <2> QED
    BY <2>3, Zenon DEF Stored
<1>3. CASE m # n
  <2>1. disk'[m][k] = disk[m][k]
    BY <1>1, <1>3, Zenon DEF Elsewhere
  <2>2. job'[m] = job[m]
    BY <1>1, <1>3, Zenon
  <2>3. m \in Nodes /\ disk'[m][k] = "whole" /\ (job'[m] = Idle \/ job'[m].key # k)
    BY <1>1, <2>1, <2>2, Zenon
  <2> QED
    BY <2>3, Zenon DEF Stored
<1> QED
  BY <1>2, <1>3, Zenon

(* An artifact is written.                                                 *)
LEMMA Writing ==
  ASSUME JobShape, NEW n \in Nodes, NEW kk \in Keys, NEW v \in Artifacts, Writes(n, kk, v)
  PROVE  DiskTyped /\ disk'[n][kk] = v /\ Elsewhere(n, kk)
BY DEF JobShape, Writes, DiskTyped, Elsewhere

(* executeSnapshot: the artifact is whole when it is said to be.           *)
LEMMA ExecuteArtifacts ==
  ASSUME Shape, Effect, ArtInv, JobShape, NEW n \in Nodes, AgExecute(n)
  PROVE  ArtInv' /\ JobShape'
<1> DEFINE kk == job[n].key
<1>1. job[n] \in Job /\ job[n].pc = "exec" /\ job[n] # Idle
  <2>1. job[n].pc = "exec"
    BY Zenon DEF AgExecute
  <2>2. job[n] \in Job
    BY <2>1, Busy, Zenon
  <2> QED
    BY <2>1, <2>2, JobFields, Zenon
<1>2. kk \in Keys /\ ~job[n].ok
  BY <1>1, JobFields, Zenon DEF ArtInv, JobHonest, Honest
<1>3. child' = child /\ rerun' = rerun
  BY Zenon DEF AgExecute, objects, history
<1>4. "whole" \in Artifacts /\ "partial" \in Artifacts
  BY Zenon DEF Artifacts
<1>5. PICK r \in Job : /\ job' = [job EXCEPT ![n] = r] /\ r.pc = "finish" /\ r.key = kk
                       /\ (r.ok => Writes(n, kk, "whole"))
  <2> DEFINE a == [job[n] EXCEPT !.pc = "finish", !.ok = TRUE]  b == [job[n] EXCEPT !.pc = "finish"]
  <2>1. a \in Job /\ a.pc = "finish" /\ a.key = kk
    BY <1>1 DEF Job
  <2>2. b \in Job /\ b.pc = "finish" /\ b.key = kk
    BY <1>1 DEF Job
  <2>3. ~b.ok
    <3>1. b.ok = job[n].ok
      BY <1>1 DEF Job
    <3> QED
      BY <1>2, <3>1, Zenon
  <2>4. CASE job' = [job EXCEPT ![n].pc = "finish", ![n].ok = TRUE] /\ Writes(n, kk, "whole")
    <3>1. job' = [job EXCEPT ![n] = a]
      BY <2>4 DEF JobShape
    <3> HIDE DEF a
    <3> QED
      BY <2>1, <2>4, <3>1, Zenon
  <2>5. CASE job' = [job EXCEPT ![n].pc = "finish"]
    <3>1. job' = [job EXCEPT ![n] = b]
      BY <2>5 DEF JobShape
    <3> HIDE DEF b
    <3> QED
      BY <2>2, <2>3, <3>1, Zenon
  <2> QED
    BY <2>4, <2>5, Zenon DEF AgExecute, Writes
<1>6. DiskTyped /\ Elsewhere(n, kk)
  <2>1. disk' = disk \/ Writes(n, kk, "whole") \/ Writes(n, kk, "partial")
    BY Zenon DEF AgExecute, Writes
  <2>2. CASE disk' = disk
    BY <2>2, Zenon DEF JobShape, DiskTyped, Elsewhere
  <2> HIDE DEF kk
  <2> QED
    BY <1>2, <1>4, <2>1, <2>2, Writing, Zenon
<1>7. job'[n] = r /\ \A m \in Nodes \ {n} : job'[m] = job[m]
  BY <1>5, Zenon DEF JobShape
<1>8. JobShape'
  BY <1>5, <1>6, Zenon DEF JobShape, DiskTyped
<1>9. JobHonest'
  <2>1. r.ok => disk'[n][kk] = "whole"
    <3> HIDE DEF kk
    <3> QED
      BY <1>2, <1>4, <1>5, Writing, Zenon
  <2>2. Honest(n)'
    BY <1>5, <1>7, <2>1, Zenon DEF Honest
  <2>3. ASSUME NEW m \in Nodes, m # n PROVE Honest(m)'
    <3>1. job'[m] = job[m] /\ Honest(m)
      BY <1>7, <2>3, Zenon DEF ArtInv, JobHonest, Honest
    <3>2. ASSUME job[m].pc = "finish", job[m].ok PROVE disk'[m][job[m].key] = "whole"
      <4>1. job[m] \in Job
        BY <3>2, Busy, Zenon
      <4>2. job[m].key \in Keys
        BY <4>1, JobFields, Zenon
      <4>3. disk[m][job[m].key] = "whole"
        BY <3>1, <3>2, Zenon DEF Honest
      <4> QED
        BY <1>6, <2>3, <4>2, <4>3, Zenon DEF Elsewhere
    <3> QED
      BY <3>1, <3>2, Zenon DEF Honest
  <2> QED
    BY <2>2, <2>3, Zenon DEF JobHonest
<1>10. ASSUME NEW s \in DOMAIN child' \ rerun', child'[s].phase = "Succeeded" PROVE Stored(s)'
  <2>1. s \in Keys /\ Stored(s)
    BY <1>3, <1>10, Zenon DEF ArtInv, Shape
  <2> QED
    BY <1>1, <1>3, <1>5, <1>6, <1>7, <2>1, OthersStored, Zenon
<1> QED
  BY <1>8, <1>9, <1>10, Zenon DEF ArtInv
(* The agent dies, or its patch fails: the job is lost.                    *)
LEMMA LostArtifacts ==
  ASSUME Shape, Effect, ArtInv, JobShape, NEW n \in Nodes, AgCrash(n) \/ AgFinishFails(n)
  PROVE  ArtInv' /\ JobShape'
<1> DEFINE kk == job[n].key
<1>1. job[n] \in Job /\ job[n] # Idle
  <2>1. job[n] # Idle \/ job[n].pc = "finish"
    BY Zenon DEF AgCrash, AgFinishFails
  <2>2. job[n] \in Job
    BY <2>1, Busy, Zenon
  <2> QED
    BY <2>2, JobFields, Zenon
<1>2. kk \in Keys
  BY <1>1, JobFields, Zenon
<1>3. child' = child /\ rerun' = rerun
  BY Zenon DEF AgCrash, AgFinishFails, objects, history
<1>4. job' = [job EXCEPT ![n] = Idle]
  BY Zenon DEF AgCrash, AgFinishFails
<1>5. job'[n] = Idle /\ \A m \in Nodes \ {n} : job'[m] = job[m]
  BY <1>4, Zenon DEF JobShape
<1>6. DiskTyped /\ Elsewhere(n, kk)
  <2>1. disk' = disk \/ disk' = [disk EXCEPT ![n][kk] = IF job[n].pc = "exec" THEN "partial" ELSE @]
    BY Zenon DEF AgCrash, AgFinishFails
  <2>2. disk[n] \in [Keys -> Artifacts] /\ "partial" \in Artifacts
    BY Zenon DEF JobShape, Artifacts
  <2>3. PICK v \in Artifacts : disk' = disk \/ Writes(n, kk, v)
    BY <1>2, <2>1, <2>2, Zenon DEF Writes
  <2>4. CASE disk' = disk
    BY <2>4, Zenon DEF JobShape, DiskTyped, Elsewhere
  <2> HIDE DEF kk
  <2> QED
    BY <1>2, <2>3, <2>4, Writing, Zenon
<1>7. JobShape'
  BY <1>4, <1>6, Zenon DEF JobShape, DiskTyped
<1>8. JobHonest'
  <2>1. Honest(n)'
    <3>1. Idle.pc = "idle"
      BY Zenon DEF Idle
    <3>2. "idle" # "exec" /\ "idle" # "finish"
      OBVIOUS
    <3> QED
      BY <1>5, <3>1, <3>2, Zenon DEF Honest
  <2>2. ASSUME NEW m \in Nodes, m # n PROVE Honest(m)'
    <3>1. job'[m] = job[m] /\ Honest(m)
      BY <1>5, <2>2, Zenon DEF ArtInv, JobHonest
    <3>2. ASSUME job[m].pc = "finish", job[m].ok PROVE disk'[m][job[m].key] = "whole"
      <4>1. job[m] \in Job
        BY <3>2, Busy, Zenon
      <4>2. job[m].key \in Keys
        BY <4>1, JobFields, Zenon
      <4>3. disk[m][job[m].key] = "whole"
        BY <3>1, <3>2, Zenon DEF Honest
      <4> QED
        BY <1>6, <2>2, <4>2, <4>3, Zenon DEF Elsewhere
    <3> QED
      BY <3>1, <3>2, Zenon DEF Honest
  <2> QED
    BY <2>1, <2>2, Zenon DEF JobHonest
<1>9. ASSUME NEW s \in DOMAIN child' \ rerun', child'[s].phase = "Succeeded" PROVE Stored(s)'
  <2>1. s \in Keys /\ Stored(s)
    BY <1>3, <1>9, Zenon DEF ArtInv, Shape
  <2> QED
    BY <1>1, <1>3, <1>5, <1>6, <2>1, OthersStored, Zenon
<1> QED
  BY <1>7, <1>8, <1>9, Zenon DEF ArtInv

(* The report of an execution: Succeeded means that the artifact is whole. *)
LEMMA FinishArtifacts ==
  ASSUME Shape, Effect, ArtInv, JobShape, NEW n \in Nodes, AgFinish(n)
  PROVE  ArtInv' /\ JobShape'
<1> DEFINE kk == job[n].key
<1>1. job' = [job EXCEPT ![n] = Idle] /\ disk' = disk
  BY Zenon DEF AgFinish
<1>2. job'[n] = Idle /\ \A m \in Nodes \ {n} : job'[m] = job[m]
  BY <1>1, Zenon DEF JobShape
<1>3. JobShape'
  BY <1>1, Zenon DEF JobShape
<1>4. JobHonest'
  <2>1. Idle.pc = "idle"
    BY Zenon DEF Idle
  <2>2. "idle" # "exec" /\ "idle" # "finish"
    OBVIOUS
  <2>3. Honest(n)'
    BY <1>2, <2>1, <2>2, Zenon DEF Honest
  <2>4. ASSUME NEW m \in Nodes, m # n PROVE Honest(m)'
    BY <1>1, <1>2, <2>4, Zenon DEF ArtInv, JobHonest, Honest
  <2> QED
    BY <2>3, <2>4, Zenon DEF JobHonest
<1>5. ASSUME NEW s \in DOMAIN child, child'[s].phase = "Succeeded", child[s].phase # "Succeeded"
      PROVE  s = kk /\ job[n].ok /\ child'[s].path = n
  <2>1. child[s] \in Child
    BY <1>5, Zenon DEF Shape
  <2>2. CASE child' = child
    BY <1>5, <2>2, Zenon
  <2>3. CASE kk \in DOMAIN child /\ job[n].ok
             /\ child' = [child EXCEPT ![kk] = [phase |-> "Succeeded", terminated |-> TRUE, path |-> n]]
    <3> HIDE DEF kk
    <3> QED
      BY <1>5, <2>3, Zenon
  <2>4. CASE kk \in DOMAIN child
             /\ child' = [child EXCEPT ![kk] = [@ EXCEPT !.phase = "Failed", !.terminated = TRUE]]
    <3> HIDE DEF kk
    <3> QED
      BY <1>5, <2>1, <2>4 DEF Child
  <2> QED
    BY <2>2, <2>3, <2>4, Zenon DEF AgFinish
<1>6. ASSUME NEW s \in DOMAIN child' \ rerun', child'[s].phase = "Succeeded" PROVE Stored(s)'
  <2>1. CASE s \in DOMAIN child => child[s].phase = "Succeeded"
    <3>1. s \in DOMAIN child \ rerun /\ child'[s] = child[s]
      BY <1>6, <2>1, OldSuccess, Zenon
    <3>2. Stored(s)
      BY <1>6, <3>1, Zenon DEF ArtInv
    <3> QED
      BY <1>1, <1>2, <3>1, <3>2, Zenon DEF Stored
  <2>2. CASE s \in DOMAIN child /\ child[s].phase # "Succeeded"
    <3>1. s = kk /\ job[n].ok /\ child'[s].path = n
      BY <1>5, <1>6, <2>2, Zenon
    <3>2. disk[n][s] = "whole"
      BY <3>1, Zenon DEF AgFinish, ArtInv, JobHonest, Honest
    <3> QED
      BY <1>1, <1>2, <3>1, <3>2, Zenon DEF Stored
  <2> QED
    BY <2>1, <2>2, Zenon
<1> QED
  BY <1>3, <1>4, <1>6, Zenon DEF ArtInv
(* Every step keeps the artifacts.                                         *)
LEMMA ArtifactsStep ==
  ASSUME Shape, Effect, ArtInv, JobShape, [Next]_vars
  PROVE  ArtInv' /\ JobShape'
<1> DEFINE Goal == ArtInv' /\ JobShape'
<1>1. CASE UNCHANGED <<child, job, disk>>
  BY <1>1, QuietArtifacts, Zenon DEF NoNews
<1>2. CASE UNCHANGED snapVars
  BY <1>1, <1>2, Zenon DEF snapVars, objects, agVars
<1>3. CASE SnapshotsNext
  <2>1. ASSUME NEW p \in Parents, OpGated(p) PROVE Goal
    BY <1>1, <2>1, Zenon DEF OpGated, agVars
  <2>2. ASSUME NEW p \in Parents, OpReconcile(p) \/ OpReconcileFails(p) PROVE Goal
    BY <2>2, PassArtifacts, Zenon
  <2>3. ASSUME NEW p \in Parents, GateTimer(p) \/ Elect(p) PROVE Goal
    BY <1>1, <2>3, Zenon DEF GateTimer, Elect, objects, agVars
  <2>4. CASE Approach \/ Tick \/ Second
    BY <1>1, <2>4, Zenon DEF Approach, Tick, Second, objects, agVars
  <2>5. CASE OpFreeze \/ OpCatchUp \/ MoveVM
    BY <1>1, <2>5, Zenon DEF OpFreeze, OpCatchUp, MoveVM, objects, agVars
  <2>6. ASSUME NEW n \in Nodes, NEW k \in Keys, AgSkip(n, k) PROVE Goal
    BY <1>1, <2>6, Zenon DEF AgSkip, objects
  <2>7. ASSUME NEW n \in Nodes, NEW k \in Keys, AgVMGone(n, k) PROVE Goal
    BY <2>7, VMGoneArtifacts, Zenon
  <2>8. ASSUME NEW n \in Nodes, NEW k \in Keys, AgBegin(n, k) PROVE Goal
    BY <2>8, BeginArtifacts, Zenon
  <2>9. ASSUME NEW n \in Nodes, AgExecute(n) PROVE Goal
    BY <2>9, ExecuteArtifacts, Zenon
  <2>10. ASSUME NEW n \in Nodes, AgFinish(n) PROVE Goal
    BY <2>10, FinishArtifacts, Zenon
  <2>11. ASSUME NEW n \in Nodes, AgCrash(n) \/ AgFinishFails(n) PROVE Goal
    BY <2>11, LostArtifacts, Zenon
  <2>12. ASSUME NEW n \in Nodes, AgFreeze(n) \/ AgCatchUp(n) PROVE Goal
    BY <1>1, <2>12, Zenon DEF AgFreeze, AgCatchUp, objects
  <2> QED
    BY <1>3, <2>1, <2>2, <2>3, <2>4, <2>5, <2>6, <2>7, <2>8, <2>9, <2>10, <2>11, <2>12, Zenon
       DEF SnapshotsNext
<1>4. CASE MigNext
  <2>1. CASE Request \/ Drain \/ HandleEmpty \/ HandlePendingFails \/ HandleSnapshottingFails
             \/ BootTarget \/ MigCatchUp
    BY <1>2, <2>1, Zenon
       DEF Request, Drain, HandleEmpty, HandlePendingFails, HandleSnapshottingFails, BootTarget, MigCatchUp
  <2>2. CASE HandlePending \/ TerminateByHand
    BY <1>1, <2>2, Zenon DEF HandlePending, TerminateByHand, agVars
  <2>3. CASE CreateTargetVM \/ HandleRestoring \/ TargetDies \/ MigFreeze
    BY <1>1, <2>3, Zenon DEF CreateTargetVM, HandleRestoring, TargetDies, MigFreeze, objects, agVars
  <2> QED
    BY <1>4, <2>1, <2>2, <2>3, Zenon DEF MigNext
<1> QED
  BY <1>2, <1>3, <1>4, Zenon DEF Next, vars

-----------------------------------------------------------------------------
(* The source of a migration.                                              *)

(* Running, or has been.                                                   *)
Up(t) == t.phase \in {"Running", "Failed"}

(* What the migration has seen is so.                                      *)
ReportInv == SnapshotSucceeded(Now(opCache).parent[MigSnap]) => SnapshotSucceeded(parent[MigSnap])
RestoringInv ==
  mig.phase = "Restoring" \/ MigNow.phase = "Restoring" => SnapshotSucceeded(Now(opCache).parent[MigSnap])
TargetInv == (Up(target) => target.boot # "none") /\ (Up(TargetNow) => Up(target))

(* A report that the operator has seen stays, with the operator and with   *)
(* the object: only a parent that it sees as new becomes Pending.          *)
LEMMA ReportKept ==
  ASSUME Shape, Effect, ReportInv
  PROVE  /\ ReportInv'
         /\ SnapshotSucceeded(Now(opCache).parent[MigSnap]) => SnapshotSucceeded(Now(opCache)'.parent[MigSnap])
<1> DEFINE o == Now(opCache)
<1>1. ASSUME SnapshotSucceeded(o.parent[MigSnap]) PROVE SnapshotSucceeded(parent'[MigSnap])
  <2>1. SnapshotSucceeded(parent[MigSnap]) /\ MigSnap \in Parents
    BY <1>1, MigSnapAssumption, Zenon DEF ReportInv
  <2>2. CASE parent' = parent
    BY <2>1, <2>2, Zenon
  <2>3. ASSUME NEW p \in Parents, NEW r, Wrote(p, r) PROVE SnapshotSucceeded(parent'[MigSnap])
    <3>1. parent' = [parent EXCEPT ![p] = r]
      BY <2>3, Zenon DEF Wrote
    <3>2. p = MigSnap => SnapshotSucceeded(r)
      BY <1>1, <2>1, <2>3, Zenon DEF Wrote
    <3>3. parent'[MigSnap] = IF p = MigSnap THEN r ELSE parent[MigSnap]
      BY <2>1, <3>1, Zenon DEF Shape
    <3> QED
      BY <2>1, <3>2, <3>3, Zenon
  <2>4. ASSUME NEW p \in Parents, NEW fresh, NEW recorded, Pass(p, fresh, recorded)
        PROVE  SnapshotSucceeded(parent'[MigSnap])
    <3>1. CASE p # MigSnap
      BY <2>1, <2>4, <3>1, PassParent, Zenon
    <3>2. CASE p = MigSnap
      <4>1. parent'[p].phase = Phase(o, p) /\ parent'[p].terminated = parent[p].terminated
        BY <2>4, PassParent, Zenon
      <4>2. o.parent[p].phase # ""
        BY <1>1, <3>2, Zenon DEF SnapshotSucceeded
      <4> QED
        BY <2>1, <3>2, <4>1, <4>2, Zenon DEF Phase, SnapshotSucceeded
    <3> QED
      BY <3>1, <3>2, Zenon
  <2> QED
    BY <2>2, <2>3, <2>4, Zenon DEF Effect, Calm, Clock, Synced, Ran
<1>2. CASE Now(opCache)' = o
  BY <1>1, <1>2, Zenon DEF ReportInv
<1>3. CASE Now(opCache)'.parent = parent'
  BY <1>1, <1>3, Zenon DEF ReportInv
<1> QED
  BY <1>2, <1>3, CopyStep, Zenon

(* A target VM that is Running has been booted, also the one in the cache. *)
LEMMA TargetStep ==
  ASSUME Shape, MigShape, TargetInv, [Next]_vars
  PROVE  TargetInv' /\ target' \in Target /\ (tgtCache' = Live \/ tgtCache' \in Target)
<1> DEFINE Goal == TargetInv' /\ target' \in Target /\ (tgtCache' = Live \/ tgtCache' \in Target)
<1>1. CASE UNCHANGED <<target, tgtCache>>
  BY <1>1, Zenon DEF MigShape, TargetInv, Up, TargetNow
<1>2. CASE UNCHANGED vars \/ UNCHANGED migVars
  BY <1>1, <1>2, Zenon DEF vars, migVars
<1>3. CASE Request \/ Drain \/ HandleEmpty \/ HandlePendingFails \/ HandlePending
           \/ HandleSnapshottingFails
  BY <1>1, <1>3, Zenon
     DEF Request, Drain, HandleEmpty, HandlePendingFails, HandlePending, HandleSnapshottingFails
<1>4. CASE HandleRestoring
  BY <1>1, <1>4, Zenon DEF HandleRestoring
<1>5. CASE TerminateByHand
  BY <1>1, <1>5, Zenon DEF TerminateByHand, migVars
<1>6. ASSUME NEW t \in Target, target' = t, tgtCache' = tgtCache,
             Up(t) => t.boot # "none", Up(target) => Up(t)
      PROVE  Goal
  <2>1. Up(TargetNow)' => Up(t)
    BY <1>6, Zenon DEF TargetInv, TargetNow, Up
  <2> QED
    BY <1>6, <2>1, Zenon DEF MigShape, TargetInv, Up
<1>7. CASE CreateTargetVM
  <2> DEFINE s == Now(opCache).parent[MigSnap]
             t == [phase |-> "Pending", node |-> MigNow.node, ref |-> s.last, boot |-> "none"]
  <2>1. tgtCache' = tgtCache /\ target' = IF target.phase # "absent" THEN target ELSE t
    BY <1>7, Zenon DEF CreateTargetVM
  <2>2. CASE target.phase # "absent"
    BY <1>1, <2>1, <2>2, Zenon
  <2>3. CASE target.phase = "absent"
    <3>1. s.last \in Seconds \cup {None}
      BY ParentFields, MigSnapAssumption, Zenon DEF Shape
    <3>2. MigNow.node \in Nodes \cup {None}
      BY Zenon DEF MigShape, ImpVMMigration
    <3> HIDE DEF s
    <3>3. t \in Target /\ t.phase = "Pending"
      BY <3>1, <3>2 DEF Target
    <3> HIDE DEF t
    <3>4. ~Up(t) /\ ~Up(target)
      BY <2>3, <3>3 DEF Up
    <3> QED
      BY <1>6, <2>1, <2>3, <3>3, <3>4, Zenon
  <2> QED
    BY <2>2, <2>3, Zenon
<1>8. CASE BootTarget
  <2>1. target \in Target /\ target.phase = "Pending" /\ tgtCache' = tgtCache
    BY <1>8, Zenon DEF BootTarget, MigShape
  <2>2. PICK how \in {"cold", "restored"} : target' = [target EXCEPT !.phase = "Running", !.boot = how]
    BY <1>8, Zenon DEF BootTarget
  <2> DEFINE t == [target EXCEPT !.phase = "Running", !.boot = how]
  <2>3. t \in Target /\ t.boot # "none" /\ Up(t)
    BY <2>1, <2>2 DEF Target, Up
  <2>4. target' = t
    BY <2>2, Zenon
  <2> HIDE DEF t
  <2> QED
    BY <1>6, <2>1, <2>3, <2>4, Zenon
<1>9. CASE TargetDies
  <2>1. target \in Target /\ target.phase = "Running" /\ tgtCache' = tgtCache
    BY <1>9, Zenon DEF TargetDies, MigShape
  <2> DEFINE t == [target EXCEPT !.phase = "Failed"]
  <2>2. target' = t
    BY <1>9, Zenon DEF TargetDies
  <2>3. t \in Target /\ t.boot = target.boot /\ Up(t) /\ Up(target)
    BY <2>1 DEF Target, Up
  <2> HIDE DEF t
  <2> QED
    BY <1>6, <2>1, <2>2, <2>3, Zenon DEF TargetInv
<1>10. CASE MigFreeze \/ MigCatchUp
  <2>1. target' = target /\ (tgtCache' = Live \/ tgtCache' = target \/ tgtCache' = tgtCache)
    BY <1>10, Zenon DEF MigFreeze, MigCatchUp
  <2>2. CASE tgtCache' = Live \/ tgtCache' = target
    <3>1. TargetNow' = target
      BY <2>1, <2>2, Zenon DEF TargetNow
    <3> QED
      BY <2>1, <2>2, <3>1, Zenon DEF TargetInv, MigShape, Up
  <2> QED
    BY <1>1, <2>1, <2>2, Zenon
<1> QED
  BY <1>2, <1>3, <1>4, <1>5, <1>7, <1>8, <1>9, <1>10, Zenon DEF Next, MigNext

(* The migration in the cache stays, or becomes the one there is.          *)
LEMMA MigCopyStep ==
  ASSUME [Next]_vars
  PROVE  MigNow' \in {mig', mig, MigNow}
<1>1. CASE migCache' = migCache
  BY <1>1, Zenon DEF MigNow
<1>2. CASE mig' = mig /\ (migCache' = Live \/ migCache' = mig)
  BY <1>2, Zenon DEF MigNow
<1>3. CASE UNCHANGED vars \/ UNCHANGED migVars
  BY <1>1, <1>3, Zenon DEF vars, migVars
<1>4. CASE MigNext
  <2>1. CASE Request \/ Drain \/ HandleEmpty \/ HandlePendingFails \/ HandlePending
             \/ HandleSnapshottingFails
    BY <1>1, <2>1, Zenon
       DEF Request, Drain, HandleEmpty, HandlePendingFails, HandlePending, HandleSnapshottingFails
  <2>2. CASE CreateTargetVM \/ HandleRestoring \/ BootTarget \/ TargetDies
    BY <1>1, <2>2, Zenon DEF CreateTargetVM, HandleRestoring, BootTarget, TargetDies
  <2>3. CASE TerminateByHand
    BY <1>1, <2>3, Zenon DEF TerminateByHand, migVars
  <2>4. CASE MigFreeze \/ MigCatchUp
    BY <1>1, <1>2, <2>4, Zenon DEF MigFreeze, MigCatchUp
  <2> QED
    BY <1>4, <2>1, <2>2, <2>3, <2>4, Zenon DEF MigNext
<1> QED
  BY <1>3, <1>4, Zenon DEF Next

(* A migration restores once the operator sees its snapshot as Succeeded.  *)
LEMMA RestoringStep ==
  ASSUME Shape, MigShape, Effect, ReportInv, RestoringInv, [Next]_vars
  PROVE  RestoringInv' /\ mig' \in ImpVMMigration /\ MigNow' \in ImpVMMigration
<1> DEFINE Goal == RestoringInv' /\ mig' \in ImpVMMigration /\ MigNow' \in ImpVMMigration
<1>0. MigNow' \in {mig', mig, MigNow}
  BY MigCopyStep, Zenon
<1>1. ASSUME mig' \in ImpVMMigration,
             mig'.phase = "Restoring" =>
               mig.phase = "Restoring" \/ SnapshotSucceeded(Now(opCache).parent[MigSnap])
      PROVE  Goal
  <2>1. SnapshotSucceeded(Now(opCache).parent[MigSnap]) => SnapshotSucceeded(Now(opCache)'.parent[MigSnap])
    BY ReportKept, Zenon
  <2>2. mig'.phase = "Restoring" \/ MigNow'.phase = "Restoring" =>
          SnapshotSucceeded(Now(opCache).parent[MigSnap])
    BY <1>0, <1>1, Zenon DEF RestoringInv
  <2>3. RestoringInv'
    BY <2>1, <2>2, Zenon DEF RestoringInv
  <2> QED
    BY <1>0, <1>1, <2>3, Zenon DEF MigShape
<1>2. mig \in ImpVMMigration
  BY Zenon DEF MigShape
<1>3. CASE mig' = mig
  BY <1>1, <1>2, <1>3, Zenon
<1>4. ASSUME NEW ph \in {"", "Pending", "Snapshotting", "Succeeded", "Failed"}, NEW n \in Nodes \cup {None},
             mig' = [mig EXCEPT !.phase = ph, !.node = n]
      PROVE  Goal
  <2>1. mig' \in ImpVMMigration /\ mig'.phase = ph /\ ph # "Restoring"
    BY <1>2, <1>4 DEF ImpVMMigration
  <2> QED
    BY <1>1, <2>1, Zenon
<1>5. ASSUME NEW ph \in {"", "Pending", "Snapshotting", "Succeeded", "Failed"}, mig' = [mig EXCEPT !.phase = ph]
      PROVE  Goal
  <2>1. mig' \in ImpVMMigration /\ mig'.phase = ph /\ ph # "Restoring"
    BY <1>2, <1>5 DEF ImpVMMigration
  <2> QED
    BY <1>1, <2>1, Zenon
<1>6. CASE UNCHANGED vars \/ UNCHANGED migVars
  BY <1>3, <1>6, Zenon DEF vars, migVars
<1>7. CASE Request
  BY <1>4, <1>7, Zenon DEF Request
<1>8. CASE Drain \/ HandleEmpty \/ HandlePendingFails \/ HandleSnapshottingFails
  BY <1>5, <1>8, Zenon DEF Drain, HandleEmpty, HandlePendingFails, HandleSnapshottingFails, FailMigration
<1>9. CASE HandlePending
  <2>1. PICK n \in IF MigNow.node # None THEN {mig.node} ELSE SelectMigrationTarget :
          \/ mig' = [mig EXCEPT !.phase = "Snapshotting", !.node = n]
          \/ mig' = [mig EXCEPT !.node = n]
    BY <1>9, Zenon DEF HandlePending
  <2>2. n \in Nodes \cup {None}
    <3>1. mig.node \in Nodes \cup {None}
      BY <1>2, Zenon DEF ImpVMMigration
    <3>2. SelectMigrationTarget \subseteq Nodes
      BY ProfileAssumption, Zenon DEF SelectMigrationTarget
    <3> QED
      BY <2>1, <3>1, <3>2, Zenon
  <2>3. CASE mig' = [mig EXCEPT !.node = n]
    <3>1. mig' \in ImpVMMigration /\ mig'.phase = mig.phase
      BY <1>2, <2>2, <2>3 DEF ImpVMMigration
    <3> QED
      BY <1>1, <3>1, Zenon
  <2> QED
    BY <1>4, <2>1, <2>2, <2>3, Zenon
<1>10. CASE CreateTargetVM
  <2>1. SnapshotSucceeded(Now(opCache).parent[MigSnap])
    BY <1>10, Zenon DEF CreateTargetVM
  <2>2. CASE mig' = [mig EXCEPT !.phase = "Restoring"]
    <3>1. mig' \in ImpVMMigration
      BY <1>2, <2>2 DEF ImpVMMigration
    <3> QED
      BY <1>1, <2>1, <3>1, Zenon
  <2> QED
    BY <1>3, <1>10, <2>2, Zenon DEF CreateTargetVM
<1>11. CASE HandleRestoring
  BY <1>3, <1>5, <1>11, Zenon DEF HandleRestoring
<1>12. CASE BootTarget \/ TargetDies \/ MigFreeze \/ MigCatchUp
  BY <1>3, <1>12, Zenon DEF BootTarget, TargetDies, MigFreeze, MigCatchUp
<1>13. CASE TerminateByHand
  BY <1>3, <1>13, Zenon DEF TerminateByHand, migVars
<1> QED
  BY <1>6, <1>7, <1>8, <1>9, <1>10, <1>11, <1>12, <1>13, Zenon DEF Next, MigNext
-----------------------------------------------------------------------------
(* The inductive invariant, and what it gives.                             *)

IInv ==
  /\ Shape /\ JobShape /\ MigShape
  /\ Single /\ BaseInv /\ ArtInv
  /\ ReportInv /\ RestoringInv /\ TargetInv

(* No child, no job, no migration.                                         *)
LEMMA InitInv == Init => IInv
<1> SUFFICES ASSUME Init PROVE IInv
  BY Zenon
<1>1. PICK present : SnapshotsInit(present)
  BY Zenon DEF Init
<1>2. /\ parent = [p \in Parents |-> NewParent(IF p \in present THEN "" ELSE "absent")]
      /\ child = <<>> /\ second = 1 /\ opCache = Live /\ pruned = {}
      /\ job = [n \in Nodes |-> Idle] /\ disk = [n \in Nodes |-> [k \in Keys |-> "none"]]
  BY <1>1, Zenon DEF SnapshotsInit
<1>3. DOMAIN child = {} /\ child \in [DOMAIN child -> Child]
  <2>1. DOMAIN <<>> = {} /\ <<>> \in [{} -> Child]
    OBVIOUS
  <2> QED
    BY <1>2, <2>1, Zenon
<1>4. \A ph \in {"", "absent"} : /\ NewParent(ph) \in Parent /\ NewParent(ph).base = None
                                 /\ NewParent(ph).elected = None /\ ~NewParent(ph).terminated
  BY DEF NewParent, Parent
<1>5. ASSUME NEW p \in Parents
      PROVE  parent[p] \in Parent /\ parent[p].base = None /\ parent[p].elected = None /\ ~parent[p].terminated
  BY <1>2, <1>4, Zenon
<1>6. parent \in [Parents -> Parent]
  BY <1>2, <1>5, Zenon
<1>7. Now(opCache) = Objects /\ Objects.parent = parent /\ Objects.child = child
  BY <1>2 DEF Now, Objects
<1>8. second \in Seconds
  <2>1. 1 \in Seconds
    BY SecondAssumption DEF Seconds
  <2> QED
    BY <1>2, <2>1, Zenon
<1>9. Shape
  BY <1>3, <1>6, <1>7, <1>8, Zenon DEF Shape
<1>10. JobShape
  BY <1>2, Zenon DEF JobShape, Artifacts
<1>11. MigShape /\ target.phase = "absent" /\ mig.phase = "absent" /\ tgtCache = Live /\ MigNow = mig
  BY DEF Init, MigShape, MigNow, ImpVMMigration, Target
<1>12. Single
  BY <1>3, Zenon DEF Single, Open
<1>13. BaseInv
  BY <1>3, <1>5, <1>7, Zenon DEF BaseInv, Dated, CopyBound, BaseBound, ElectedKept
<1>14. ArtInv
  <2>1. \A n \in Nodes : job[n].pc = "idle"
    BY <1>2, Zenon DEF Idle
  <2>2. "idle" # "exec" /\ "idle" # "finish"
    OBVIOUS
  <2> QED
    BY <1>3, <2>1, <2>2, Zenon DEF ArtInv, JobHonest, Honest
<1>15. ReportInv
  BY <1>7, Zenon DEF ReportInv
<1>16. RestoringInv
  BY <1>11 DEF RestoringInv
<1>17. TargetInv
  BY <1>11 DEF TargetInv, Up, TargetNow
<1> QED
  BY <1>9, <1>10, <1>11, <1>12, <1>13, <1>14, <1>15, <1>16, <1>17, Zenon DEF IInv

(* Every step keeps it: the effects of the steps, case by case.            *)
LEMMA InvStep == IInv /\ [Next]_vars => IInv'
<1> SUFFICES ASSUME IInv, [Next]_vars PROVE IInv'
  BY Zenon
<1>1. /\ Shape /\ JobShape /\ MigShape /\ Single /\ Dated /\ CopyBound /\ BaseBound /\ ElectedKept
      /\ ArtInv /\ ReportInv /\ RestoringInv /\ TargetInv
  BY Zenon DEF IInv, BaseInv
<1>2. Effect
  BY <1>1, Effects, Zenon
<1>3. Shape' /\ Single'
  BY <1>1, <1>2, ShapeStep, SingleStep, Zenon
<1>4. BaseInv'
  <2>1. Dated'
    BY <1>1, <1>2, DatedStep, Zenon
  <2>2. CopyBound'
    BY <1>1, <1>2, CopyBoundStep, Zenon
  <2>3. BaseBound'
    BY <1>1, <1>2, BaseBoundStep, Zenon
  <2>4. ElectedKept'
    BY <1>1, <1>2, ElectedKeptStep, Zenon
  <2> QED
    BY <2>1, <2>2, <2>3, <2>4, Zenon DEF BaseInv
<1>5. ArtInv' /\ JobShape'
  BY <1>1, <1>2, ArtifactsStep, Zenon
<1>6. ReportInv'
  BY <1>1, <1>2, ReportKept, Zenon
<1>7. RestoringInv' /\ mig' \in ImpVMMigration /\ MigNow' \in ImpVMMigration
  BY <1>1, <1>2, RestoringStep, Zenon
<1>8. TargetInv' /\ target' \in Target /\ (tgtCache' = Live \/ tgtCache' \in Target)
  BY <1>1, TargetStep, Zenon
<1> QED
  BY <1>3, <1>4, <1>5, <1>6, <1>7, <1>8, Zenon DEF IInv, MigShape

(* It holds in every reachable state.                                      *)
LEMMA Invariant == Spec => []IInv
BY InitInv, InvStep, PTL DEF Spec

(* The serialization gate of the snapshot reconciler: whatever the agents  *)
(* do, and however their caches and the operator's lag, a parent has two   *)
(* executions that have not terminated only if one of them was created on  *)
(* an outdated copy of the objects.                                        *)
THEOREM GateSerializes == Spec => []OneExecution
<1>1. IInv => OneExecution
  BY SingleIsOne, Zenon DEF IInv
<1> QED
  BY <1>1, Invariant, PTL

(* An execution reported Succeeded by an agent has its whole artifact on   *)
(* that node, through failed executions, failed patches and agents that    *)
(* die, unless a child that had terminated was executed again.             *)
THEOREM SuccessIsStored == Spec => []SucceededHasArtifact
<1>1. IInv => SucceededHasArtifact
  BY ArtInvHolds, Zenon DEF IInv
<1> QED
  BY <1>1, Invariant, PTL

(* The base a parent's status names is an existing, Succeeded execution    *)
(* while the election stands: the pruning by retention does not take it,   *)
(* and no later execution takes the name of a pruned one.                  *)
THEOREM BaseStands == Spec => []BaseResolves
<1>1. IInv => BaseResolves
  BY BaseInvResolves, Zenon DEF IInv
<1> QED
  BY <1>1, Invariant, PTL

(* handleRestoring deletes the source VM only for a snapshot that is       *)
(* reported Succeeded and a target that was booted, although it goes by    *)
(* caches for both.                                                        *)
THEOREM SourceKept == Spec => SourceOutlives
<1>1. IInv /\ [Next]_vars =>
        [HandleRestoring => target.boot # "none" /\ parent[MigSnap].phase = "Succeeded"]_vars
  <2> SUFFICES ASSUME IInv, HandleRestoring
               PROVE  target.boot # "none" /\ parent[MigSnap].phase = "Succeeded"
    BY Zenon
  <2>1. MigNow.phase = "Restoring" /\ TargetNow.phase = "Running"
    BY Zenon DEF HandleRestoring, TargetRunning
  <2>2. parent[MigSnap].phase = "Succeeded"
    BY <2>1, Zenon DEF IInv, RestoringInv, ReportInv, SnapshotSucceeded
  <2>3. target.boot # "none"
    BY <2>1, Zenon DEF IInv, TargetInv, Up
  <2> QED
    BY <2>2, <2>3, Zenon
<1> QED
  BY <1>1, Invariant, PTL DEF Spec, SourceOutlives
=============================================================================
