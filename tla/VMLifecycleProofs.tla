------------------------- MODULE VMLifecycleProofs -------------------------
(***************************************************************************)
(* Proofs about VMLifecycle, for any set of nodes, any restart policy, any *)
(* bounds and any set of disturbances.                                     *)
(***************************************************************************)
EXTENDS VMLifecycle, TLAPS

(* A worker in the middle of a handler holds an object.                    *)
WorkersHoldObject ==
  /\ op.pc # "idle" => op.obj # NoVM
  /\ \A n \in Nodes : ag[n].pc # "idle" => ag[n].obj # NoVM

TypeInv == TypeOK /\ WorkersHoldObject

USE DEF Maybe

(* A merge patch of two objects on a third yields an object.               *)
LEMMA MergeType ==
  ASSUME NEW cur \in ImpVM, NEW base \in ImpVM, NEW mod \in ImpVM
  PROVE  Merge(cur, base, mod) \in ImpVM
BY Zenon DEF ImpVM, Merge, Changed

LEMMA SeenType ==
  ASSUME TypeOK, NEW c \in Controllers
  PROVE  Seen(c) \in Maybe
BY Zenon DEF TypeOK, Seen

(* The runtime's functions yield a bookkeeping record.                     *)
LEMMA RuntimeTypes ==
  ASSUME NEW r \in Runtime(Pids)
  PROVE  /\ \A p \in Pids : DriverStart(r, p) \in Runtime(Pids)
         /\ \A p \in Pids : BackendStart(r, p) \in Runtime(Pids)
         /\ \A s \in DriverStartFails(r) : s \in Runtime(Pids)
         /\ BackendStop(r) \in Runtime(Pids)
         /\ \A p \in Pids \cup {0} : BackendGet(r, p) \in Runtime(Pids)
         /\ \A p \in Pids : Reattach(r, p) \in Runtime(Pids)
         /\ \A k \in SUBSET Pids : RuntimeRestarted(r, k) \in Runtime(Pids)
<1> USE DEF Runtime, ProcEntry, Proc
<1>1. \A p \in Pids : DriverStart(r, p) \in Runtime(Pids)
  BY Zenon DEF DriverStart
<1>2. \A p \in Pids : BackendStart(r, p) \in Runtime(Pids)
  BY <1>1, Zenon DEF BackendStart
<1>3. \A s \in DriverStartFails(r) : s \in Runtime(Pids)
  BY Zenon DEF DriverStartFails
<1>4. BackendStop(r) \in Runtime(Pids)
  BY Zenon DEF BackendStop, DriverStop
<1>5. \A p \in Pids : Reattach(r, p) \in Runtime(Pids)
  BY Zenon DEF Reattach
<1>6. \A p \in Pids \cup {0} : BackendGet(r, p) \in Runtime(Pids)
  BY Zenon DEF BackendGet, Recorded, InspectRunning, IsAlive, DriverInspect, Reattach
<1>7. \A k \in SUBSET Pids : RuntimeRestarted(r, k) \in Runtime(Pids)
  BY Zenon DEF RuntimeRestarted
<1> QED BY <1>1, <1>2, <1>3, <1>4, <1>5, <1>6, <1>7, Zenon

-----------------------------------------------------------------------------
(* Type correctness.                                                       *)

LEMMA PatchedType ==
  ASSUME TypeOK, vm # NoVM, NEW base \in ImpVM, NEW mod \in ImpVM
  PROVE  Patched(base, mod) \in ImpVM
BY MergeType, Zenon DEF TypeOK, Patched

LEMMA OpPatchType ==
  ASSUME TypeInv, NEW o \in ImpVM, NEW mod \in ImpVM, OpPatch(o, mod)
  PROVE  TypeInv'
BY PatchedType, Zenon DEF TypeInv, TypeOK, WorkersHoldObject, OpPatch, Patch, Accepted, OpFrame

LEMMA OpPatchThenType ==
  ASSUME TypeInv, NEW o \in ImpVM, NEW mod \in ImpVM, NEW pc \in OpPCs, OpPatchThen(o, mod, pc)
  PROVE  TypeInv'
BY PatchedType, AbsentAssumption
DEF TypeInv, TypeOK, WorkersHoldObject, OpPatchThen, Patch, Accepted, OpFrame

LEMMA OpLastPatchType ==
  ASSUME TypeInv, NEW pc, NEW mod, op.pc # "idle" => mod \in ImpVM, pc # "idle",
         OpLastPatch(pc, mod)
  PROVE  TypeInv'
BY PatchedType, Zenon
DEF TypeInv, TypeOK, WorkersHoldObject, OpLastPatch, Accepted, OpFrame, OpIdle, OpPCs

LEMMA OpStepType ==
  ASSUME TypeInv, OpStep
  PROVE  TypeInv'
<1> DEFINE o == Seen(Operator)
<1>1. o \in Maybe
  BY SeenType, Zenon DEF TypeInv, Controllers
<1>2. op.pc # "idle" => op.obj \in ImpVM
  BY Zenon DEF TypeInv, TypeOK, WorkersHoldObject
<1> HIDE DEF o
<1>3. CASE OpAddFinalizer
  <2>1. o \in ImpVM /\ OpPatch(o, [o EXCEPT !.finalizer = TRUE])
    BY <1>1, <1>3, Zenon DEF OpAddFinalizer, OpReads, o
  <2>2. [o EXCEPT !.finalizer = TRUE] \in ImpVM
    BY <2>1, Zenon DEF ImpVM
  <2> QED BY <2>1, <2>2, OpPatchType, Zenon
<1>4. CASE OpResetRetries
  <2> DEFINE mod == [o EXCEPT !.reset = FALSE]
  <2>1. o \in ImpVM /\ (OpPatch(o, mod) \/ OpPatchThen(o, mod, "reset"))
    BY <1>1, <1>4, Zenon DEF OpResetRetries, OpReads, o
  <2>2. mod \in ImpVM
    BY <2>1, Zenon DEF ImpVM
  <2> QED BY <2>1, <2>2, OpPatchType, OpPatchThenType, Zenon DEF OpPCs
<1>5. CASE OpResetStatus
  <2> DEFINE mod == [op.obj EXCEPT !.count = 0, !.exhausted = FALSE, !.phase = "Pending"]
  <2>1. op.pc # "idle" => mod \in ImpVM
    BY <1>2, Zenon DEF ImpVM, Phases
  <2> QED BY <1>5, <2>1, OpLastPatchType, Zenon DEF OpResetStatus
<1>6. CASE OpSchedule
  <2>1. o \in ImpVM /\ op' = [pc |-> "schedule", obj |-> o]
    BY <1>1, <1>6, Zenon DEF OpSchedule, OpPasses, OpReads, o
  <2> QED BY <1>6, <2>1, AbsentAssumption
          DEF OpSchedule, TypeInv, TypeOK, WorkersHoldObject, OpFrame, OpPCs
<1>7. CASE OpUnschedulable
  <2> DEFINE mod == [op.obj EXCEPT !.phase = "Pending"]
  <2>1. op.pc # "idle" => mod \in ImpVM
    BY <1>2, Zenon DEF ImpVM, Phases
  <2> QED BY <1>7, <2>1, OpLastPatchType, Zenon DEF OpUnschedulable
<1>8. CASE \E n \in Nodes : OpAssign(n)
  <2>1. PICK n \in Nodes : OpAssign(n)
    BY <1>8, Zenon
  <2> DEFINE mod == [op.obj EXCEPT !.node = n]
  <2>2. op.obj \in ImpVM /\ mod \in ImpVM
    BY <1>2, <2>1, Zenon DEF OpAssign, ImpVM
  <2>3. Accepted(op.obj, mod) => Patched(op.obj, mod) \in ImpVM
    BY <2>2, PatchedType, Zenon DEF Accepted, TypeInv
  <2> QED BY <2>1, <2>2, <2>3, AbsentAssumption
          DEF OpAssign, OpIdle, TypeInv, TypeOK, WorkersHoldObject, OpFrame, OpPCs
<1>9. CASE OpAssigned
  <2> DEFINE mod == [op.obj EXCEPT !.ack = op.obj.node, !.phase = "Scheduled"]
  <2>1. op.pc # "idle" => mod \in ImpVM
    BY <1>2, Zenon DEF ImpVM, Phases
  <2> QED BY <1>9, <2>1, OpLastPatchType, Zenon DEF OpAssigned
<1>10. CASE OpNodeLost
  <2>1. o \in ImpVM /\ \/ OpPatchThen(o, [o EXCEPT !.node = NoNode], "unassign")
                       \/ OpPatch(o, [o EXCEPT !.phase = "Failed"])
    BY <1>1, <1>10, Zenon DEF OpNodeLost, OpPasses, OpReads, o
  <2>2. [o EXCEPT !.node = NoNode] \in ImpVM /\ [o EXCEPT !.phase = "Failed"] \in ImpVM
    BY <2>1, Zenon DEF ImpVM, Phases
  <2> QED BY <2>1, <2>2, OpPatchType, OpPatchThenType, Zenon DEF OpPCs
<1>11. CASE OpUnassigned
  <2> DEFINE mod == [op.obj EXCEPT !.ack = NoNode, !.phase = "Pending", !.suspended = FALSE]
  <2>1. op.pc # "idle" => mod \in ImpVM
    BY <1>2, Zenon DEF ImpVM, Phases
  <2> QED BY <1>11, <2>1, OpLastPatchType, Zenon DEF OpUnassigned
<1>12. CASE OpRestart
  <2> DEFINE ph == IF Policy.mode = "in-place" THEN "Scheduled" ELSE "Pending"
             mod == [o EXCEPT !.phase = ph, !.count = @ + 1]
             in == [o EXCEPT !.phase = "Scheduled", !.count = @ + 1]
             out == [o EXCEPT !.phase = "Pending", !.count = @ + 1]
  <2>1. o \in ImpVM /\ (OpPatch(o, mod) \/ OpPatchThen(o, mod, "restart"))
    BY <1>1, <1>12, Zenon DEF OpRestart, OpPasses, OpReads, o
  <2>2. in \in ImpVM /\ out \in ImpVM
    <3>1. o.count \in Nat
      BY <2>1, Zenon DEF ImpVM
    <3>2. o.count + 1 \in Nat
      BY <3>1
    <3> DEFINE k == o.count + 1
    <3>3. k \in Nat
      BY <3>2, Zenon
    <3> HIDE DEF k
    <3>4. [o EXCEPT !.phase = "Scheduled", !.count = k] \in ImpVM
      BY <2>1, <3>3, Zenon DEF ImpVM, Phases
    <3>5. [o EXCEPT !.phase = "Pending", !.count = k] \in ImpVM
      BY <2>1, <3>3, Zenon DEF ImpVM, Phases
    <3> QED BY <3>4, <3>5, Zenon DEF k
  <2>3. mod = in \/ mod = out
    BY Zenon
  <2>4. mod \in ImpVM
    BY <2>2, <2>3, Zenon
  <2> HIDE DEF mod, in, out
  <2> QED BY <2>1, <2>4, OpPatchType, OpPatchThenType, Zenon DEF OpPCs
<1>13. CASE OpRestartElsewhere
  <2> DEFINE mod == [op.obj EXCEPT !.node = NoNode]
  <2>1. op.pc # "idle" => mod \in ImpVM
    BY <1>2, Zenon DEF ImpVM
  <2> QED BY <1>13, <2>1, OpLastPatchType, Zenon DEF OpRestartElsewhere
<1>14. CASE OpExhausted
  <2> DEFINE b1 == [o EXCEPT !.exhausted = FALSE]
             m1 == [o EXCEPT !.phase = "RetryExhausted", !.exhausted = TRUE]
             m2 == [o EXCEPT !.exhausted = TRUE]
             m3 == [o EXCEPT !.phase = "Pending", !.count = 0, !.exhausted = FALSE]
  <2>1. o \in ImpVM /\ (OpPatch(b1, m1) \/ OpPatch(o, m2) \/ OpPatch(o, m3))
    BY <1>1, <1>14, Zenon DEF OpExhausted, OpPasses, OpReads, o
  <2>2. b1 \in ImpVM /\ m1 \in ImpVM /\ m2 \in ImpVM /\ m3 \in ImpVM
    BY <2>1, ZenonT(60) DEF ImpVM, Phases
  <2> QED BY <2>1, <2>2, OpPatchType, Zenon
<1>15. CASE OpDropUnscheduled \/ OpDropAcknowledged \/ OpDropTimedOut
  <2>1. RemoveFinalizer /\ OpFrame
    BY <1>15, Zenon DEF OpDropUnscheduled, OpDropAcknowledged, OpDropTimedOut
  <2>2. vm' \in Maybe
    BY <2>1, Zenon DEF RemoveFinalizer, TypeInv, TypeOK, ImpVM
  <2> QED BY <2>1, <2>2, Zenon DEF RemoveFinalizer, TypeInv, TypeOK, WorkersHoldObject, OpFrame
<1>16. CASE OpTerminate
  <2> DEFINE ack == IF o.ack = NoNode THEN o.node ELSE o.ack
             mod == [o EXCEPT !.phase = "Terminating", !.ack = ack]
  <2>1. o \in ImpVM /\ OpPatch(o, mod)
    BY <1>1, <1>16, Zenon DEF OpTerminate, OpDeletes, OpReads, o
  <2>2. mod \in ImpVM
    BY <2>1, Zenon DEF ImpVM, Phases
  <2> QED BY <2>1, <2>2, OpPatchType, Zenon
<1> QED BY <1>3, <1>4, <1>5, <1>6, <1>7, <1>8, <1>9, <1>10, <1>11, <1>12, <1>13,
           <1>14, <1>15, <1>16, Zenon DEF OpStep

(* The steps of an agent: what the patch, the worker and the runtime take. *)
LEMMA AgStepType ==
  ASSUME TypeInv, NEW n \in Nodes, AgStep(n) \/ RtStep(n)
  PROVE  TypeInv'
<1> DEFINE o == Seen(n)
           a == ag[n].obj
<1>1. o \in Maybe
  BY SeenType, Zenon DEF TypeInv, Controllers
<1>2. /\ ag[n] \in [pc : AgPCs, obj : Maybe, pid : Pids \cup {0}]
      /\ ag[n].pc # "idle" => a \in ImpVM
  BY Zenon DEF TypeInv, TypeOK, WorkersHoldObject
<1>3. AgIdle \in [pc : AgPCs, obj : Maybe, pid : Pids \cup {0}]
  BY Zenon DEF AgIdle, AgPCs
<1>a. ASSUME NEW pc \in AgPCs, NEW obj \in ImpVM, NEW p \in Pids \cup {0}, AgGoto(n, pc, obj, p)
      PROVE  /\ ag' \in [Nodes -> [pc : AgPCs, obj : Maybe, pid : Pids \cup {0}]]
             /\ \A m \in Nodes : ag'[m].pc # "idle" => ag'[m].obj # NoVM
  BY <1>a, AbsentAssumption, Zenon DEF AgGoto, TypeInv, TypeOK, WorkersHoldObject
<1>b. ASSUME AgDone(n)
      PROVE  /\ ag' \in [Nodes -> [pc : AgPCs, obj : Maybe, pid : Pids \cup {0}]]
             /\ \A m \in Nodes : ag'[m].pc # "idle" => ag'[m].obj # NoVM
  BY <1>b, <1>3, Zenon DEF AgDone, AgIdle, TypeInv, TypeOK, WorkersHoldObject
<1>c. ASSUME NEW base \in ImpVM, NEW mod \in ImpVM, Patch(base, mod)
      PROVE  vm' \in ImpVM
  BY <1>c, PatchedType, Zenon DEF Patch, Accepted, TypeInv
<1>d. ASSUME NEW mod, a \in ImpVM => mod \in ImpVM, AgLastPatch(n, mod), ag[n].pc # "idle"
      PROVE  vm' \in Maybe /\ AgDone(n)
  BY <1>d, <1>2, PatchedType, Zenon DEF AgLastPatch, Accepted, TypeInv, TypeOK
<1>e. rt[n] \in Runtime(Pids) /\ snap[n] \in Pids \cup {0} /\ vm \in Maybe
  BY Zenon DEF TypeInv, TypeOK
<1>f. ASSUME NEW r \in Runtime(Pids), rt' = [rt EXCEPT ![n] = r]
      PROVE  rt' \in [Nodes -> Runtime(Pids)]
  BY <1>f, Zenon DEF TypeInv, TypeOK
<1>g. ASSUME NEW v \in Pids \cup {0}, snap' = [snap EXCEPT ![n] = v]
      PROVE  snap' \in [Nodes -> Pids \cup {0}]
  BY <1>g, Zenon DEF TypeInv, TypeOK
<1>h. nextPid <= MaxPid => nextPid \in Pids
  BY BoundAssumption DEF TypeInv, TypeOK, Pids
<1>i. TypeInv /\ AgFrame /\ vm' \in Maybe
        /\ ag' \in [Nodes -> [pc : AgPCs, obj : Maybe, pid : Pids \cup {0}]]
        /\ (\A m \in Nodes : ag'[m].pc # "idle" => ag'[m].obj # NoVM)
        /\ rt' \in [Nodes -> Runtime(Pids)] /\ snap' \in [Nodes -> Pids \cup {0}]
        /\ nextPid' \in Nat \ {0}
      => TypeInv'
  BY Zenon DEF TypeInv, TypeOK, WorkersHoldObject, AgFrame
<1>j. /\ rt \in [Nodes -> Runtime(Pids)] /\ snap \in [Nodes -> Pids \cup {0}]
      /\ nextPid \in Nat \ {0}
      /\ ag \in [Nodes -> [pc : AgPCs, obj : Maybe, pid : Pids \cup {0}]]
      /\ \A m \in Nodes : ag[m].pc # "idle" => ag[m].obj # NoVM
  BY Zenon DEF TypeInv, TypeOK, WorkersHoldObject
<1> HIDE DEF o, a
<1>4. CASE AgStartTimeout(n)
  <2>1. o \in ImpVM /\ [o EXCEPT !.phase = "Failed", !.started = FALSE] \in ImpVM
    BY <1>1, <1>4, ZenonT(60) DEF AgStartTimeout, AgReads, o, ImpVM, Phases
  <2>2. vm' \in Maybe
    BY <1>4, <1>c, <2>1, Zenon DEF AgStartTimeout, o
  <2> QED BY <1>4, <1>i, <1>j, <2>2, Zenon DEF AgStartTimeout
<1>5. CASE AgScheduled(n)
  <2>1. /\ [o EXCEPT !.started = FALSE] \in ImpVM
        /\ [o EXCEPT !.phase = "Starting", !.started = TRUE] \in ImpVM
    BY <1>1, <1>5, Zenon DEF AgScheduled, AgReads, o, ImpVM, Phases
  <2>2. vm' \in ImpVM
    BY <1>5, <1>c, <2>1, Zenon DEF AgScheduled, o
  <2> QED BY <1>5, <1>a, <1>i, <1>j, <2>2, Zenon DEF AgScheduled, AgPCs
<1>6. CASE AgResuming(n)
  <2>1. o \in ImpVM /\ AgGoto(n, "start", o, 0)
    BY <1>1, <1>6, Zenon DEF AgResuming, AgReads, o
  <2> QED BY <1>6, <1>a, <1>e, <1>i, <1>j, <2>1, Zenon DEF AgResuming, AgPCs
<1>7. CASE AgStarted(n)
  <2> DEFINE run == [a EXCEPT !.phase = "Running", !.pid = ag[n].pid]
             m1 == [run EXCEPT !.suspended = FALSE]
             m2 == [run EXCEPT !.started = FALSE]
  <2>1. a \in ImpVM
    BY <1>2, <1>7, Zenon DEF AgStarted
  <2>2. run \in ImpVM /\ m1 \in ImpVM /\ m2 \in ImpVM
    BY <1>2, <2>1, ZenonT(60) DEF ImpVM, Phases
  <2>3. AgLastPatch(n, m1) \/ AgLastPatch(n, m2)
    BY <1>7, Zenon DEF AgStarted, a
  <2>4. vm' \in Maybe /\ AgDone(n)
    BY <1>7, <1>d, <2>2, <2>3, Zenon DEF AgStarted
  <2>5. a.pid \in Pids \cup {0}
    BY <2>1, Zenon DEF ImpVM
  <2>6. rt' \in [Nodes -> Runtime(Pids)]
    BY <1>7, <1>e, <1>f, <2>5, RuntimeTypes, Zenon DEF AgStarted, a
  <2> QED BY <1>7, <1>b, <1>i, <1>j, <2>4, <2>6, Zenon DEF AgStarted
<1>8. CASE AgSuspendRequested(n)
  <2>1. o \in ImpVM /\ [o EXCEPT !.phase = "Suspending"] \in ImpVM
    BY <1>1, <1>8, Zenon DEF AgSuspendRequested, AgReads, o, ImpVM, Phases
  <2>2. vm' \in Maybe
    BY <1>8, <1>c, <2>1, Zenon DEF AgSuspendRequested, o
  <2> QED BY <1>8, <1>i, <1>j, <2>2, Zenon DEF AgSuspendRequested
<1>9. CASE AgRunning(n)
  <2> DEFINE got == BackendGet(rt[n], o.pid)
             m1 == [o EXCEPT !.phase = "Succeeded", !.started = FALSE, !.pid = 0]
             m2 == [o EXCEPT !.phase = "Failed", !.started = FALSE]
  <2>1. o \in ImpVM /\ o.pid \in Pids \cup {0}
    BY <1>1, <1>9, Zenon DEF AgRunning, AgReads, o, ImpVM
  <2>2. m1 \in ImpVM /\ m2 \in ImpVM
    BY <2>1, Zenon DEF ImpVM, Phases
  <2>3. got \in Runtime(Pids)
    BY <1>e, <2>1, RuntimeTypes, Zenon
  <2>4. GetRunning(rt[n], o.pid) \/ o.pid \in Pids => 
          (IF GetRunning(rt[n], o.pid) THEN got ELSE Reattach(got, o.pid)) \in Runtime(Pids)
    BY <2>1, <2>3, RuntimeTypes, Zenon
  <2>5. /\ \/ rt' = [rt EXCEPT ![n] = got]
           \/ /\ GetRunning(rt[n], o.pid) \/ o.pid \in Pids
              /\ rt' = [rt EXCEPT ![n] = IF GetRunning(rt[n], o.pid)
                                         THEN got ELSE Reattach(got, o.pid)]
        /\ \/ vm' = vm
           \/ vm # NoVM /\ vm' = Patched(o, m1)
           \/ vm # NoVM /\ vm' = Patched(o, m2)
    BY <1>9, <2>1, Zenon DEF AgRunning, Accepted, o
  <2> HIDE DEF got, m1, m2
  <2>6. rt' \in [Nodes -> Runtime(Pids)]
    BY <1>f, <2>3, <2>4, <2>5, Zenon
  <2>7. vm' \in Maybe
    BY <1>e, <2>1, <2>2, <2>5, PatchedType, Zenon DEF TypeInv
  <2> QED BY <1>9, <1>i, <1>j, <2>6, <2>7, Zenon DEF AgRunning
<1>10. CASE AgTerminating(n)
  <2>1. o \in ImpVM /\ AgGoto(n, "stopped", o, 0)
    BY <1>1, <1>10, Zenon DEF AgTerminating, AgReads, o
  <2>2. rt' \in [Nodes -> Runtime(Pids)]
    BY <1>10, <1>e, <1>f, RuntimeTypes, Zenon DEF AgTerminating
  <2>3. snap' \in [Nodes -> Pids \cup {0}]
    <3>1. snap' = snap \/ snap' = [snap EXCEPT ![n] = 0]
      BY <1>10, Zenon DEF AgTerminating
    <3> QED BY <3>1, <1>g, Zenon DEF TypeInv, TypeOK
  <2> QED BY <1>10, <1>a, <1>e, <1>i, <1>j, <2>1, <2>2, <2>3, Zenon DEF AgTerminating, AgPCs
<1>11. CASE AgClearOwnership(n)
  <2>1. a \in ImpVM => [a EXCEPT !.ack = NoNode, !.pid = 0] \in ImpVM
    BY Zenon DEF ImpVM
  <2> QED BY <1>11, <1>b, <1>d, <1>i, <1>j, <2>1, Zenon DEF AgClearOwnership, a
<1>12. CASE AgSnapshot(n)
  <2>1. o \in ImpVM /\ AgGoto(n, "snapped", o, 0)
    BY <1>1, <1>12, Zenon DEF AgSnapshot, AgReads, o
  <2>2. rt[n].proc.pid \in Pids
    BY <1>12, <1>e, Zenon DEF AgSnapshot, CanSnapshot, InspectRunning, IsAlive, Runtime
  <2>3. snap' \in [Nodes -> Pids \cup {0}]
    BY <1>12, <1>g, <2>2, Zenon DEF AgSnapshot
  <2> QED BY <1>12, <1>a, <1>e, <1>i, <1>j, <2>1, <2>3, Zenon DEF AgSnapshot, AgPCs
<1>13. CASE AgSuspendStop(n)
  <2>1. a \in ImpVM /\ AgGoto(n, "parked", a, 0)
    BY <1>2, <1>13, Zenon DEF AgSuspendStop, a
  <2>2. rt' \in [Nodes -> Runtime(Pids)]
    BY <1>13, <1>e, <1>f, RuntimeTypes, Zenon DEF AgSuspendStop
  <2> QED BY <1>13, <1>a, <1>e, <1>i, <1>j, <2>1, <2>2, Zenon DEF AgSuspendStop, AgPCs
<1>14. CASE AgParked(n)
  <2>1. a \in ImpVM => [a EXCEPT !.phase = "Suspended", !.suspended = TRUE, !.pid = 0] \in ImpVM
    BY Zenon DEF ImpVM, Phases
  <2> QED BY <1>14, <1>b, <1>d, <1>i, <1>j, <2>1, Zenon DEF AgParked, a
<1>15. CASE AgResume(n)
  <2>1. o \in ImpVM /\ [o EXCEPT !.phase = "Resuming"] \in ImpVM
    BY <1>1, <1>15, Zenon DEF AgResume, AgReads, o, ImpVM, Phases
  <2>2. vm' \in Maybe
    BY <1>15, <1>c, <2>1, Zenon DEF AgResume, o
  <2> QED BY <1>15, <1>i, <1>j, <2>2, Zenon DEF AgResume
<1>16. CASE StartReturns(n)
  <2>1. a \in ImpVM /\ nextPid \in Pids /\ AgGoto(n, "started", a, nextPid)
    BY <1>2, <1>h, <1>16, Zenon DEF StartReturns, Boots, a
  <2>2. rt' \in [Nodes -> Runtime(Pids)]
    BY <1>16, <1>e, <1>f, <2>1, RuntimeTypes, Zenon DEF StartReturns
  <2>3. nextPid' \in Nat \ {0}
    BY <1>16, <1>j DEF StartReturns
  <2> QED BY <1>16, <1>a, <1>e, <1>i, <1>j, <2>1, <2>2, <2>3, Zenon DEF StartReturns, AgPCs
<1>17. CASE StartRefused(n)
  <2>1. rt' \in [Nodes -> Runtime(Pids)]
    BY <1>17, <1>e, <1>f, RuntimeTypes, Zenon DEF StartRefused
  <2> QED BY <1>17, <1>b, <1>e, <1>i, <1>j, <2>1, Zenon DEF StartRefused
<1> QED BY <1>4, <1>5, <1>6, <1>7, <1>8, <1>9, <1>10, <1>11, <1>12, <1>13, <1>14, <1>15,
           <1>16, <1>17, Zenon DEF AgStep, RtStep

LEMMA EnvStepType ==
  ASSUME TypeInv, EnvStep \/ \E c \in Controllers : Deliver(c)
  PROVE  TypeInv'
<1> USE DEF TypeInv, TypeOK, WorkersHoldObject
<1>1. AgIdle \in [pc : AgPCs, obj : Maybe, pid : Pids \cup {0}] /\ AgIdle.pc = "idle"
  BY Zenon DEF AgIdle, AgPCs
<1>2. \A kind : Happens(kind) => events' \in Nat
  BY DEF Happens
<1>a. ASSUME NEW n \in Nodes, NEW r \in Runtime(Pids), rt' = [rt EXCEPT ![n] = r]
      PROVE  rt' \in [Nodes -> Runtime(Pids)]
  BY <1>a, Zenon
<1>b. nextPid <= MaxPid => nextPid \in Pids
  BY BoundAssumption DEF Pids
<1>c. \A n \in Nodes : rt[n] \in Runtime(Pids)
  BY Zenon
<1>3. CASE \E c \in Controllers : Deliver(c)
  BY <1>3 DEF Deliver
<1>4. CASE OpAbandoned
  BY <1>2, <1>4, Zenon DEF OpAbandoned, OpIdle, OpPCs
<1>5. CASE Delete
  <2>1. vm' \in Maybe
    BY <1>5, Zenon DEF Delete, ImpVM
  <2> QED BY <1>2, <1>5, <2>1, Zenon DEF Delete
<1>6. CASE RequestReset
  <2>1. vm' \in Maybe
    BY <1>6, Zenon DEF RequestReset, ImpVM
  <2> QED BY <1>2, <1>6, <2>1, Zenon DEF RequestReset
<1>7. CASE \E d \in {"Running", "Suspended"} : SetDesired(d)
  <2>1. vm' \in Maybe
    BY <1>7, SMTT(30) DEF SetDesired, ImpVM
  <2> QED BY <1>2, <1>7, <2>1, Zenon DEF SetDesired
<1>8. ASSUME NEW n \in Nodes, AgAbandoned(n)
      PROVE  TypeInv'
  BY <1>1, <1>2, <1>8, Zenon DEF AgAbandoned, AgDone
<1>9. ASSUME NEW n \in Nodes, AgentCrash(n)
      PROVE  TypeInv'
  BY <1>1, <1>2, <1>9, Zenon DEF AgentCrash, AgDone
<1>10. ASSUME NEW n \in Nodes, OrphanReturns(n)
       PROVE  TypeInv'
  <2>1. PICK r \in Runtime(Pids) : rt' = [rt EXCEPT ![n] = r]
    BY <1>10, <1>b, <1>c, RuntimeTypes, Zenon DEF OrphanReturns, Boots
  <2>2. rt' \in [Nodes -> Runtime(Pids)]
    BY <1>a, <2>1, Zenon
  <2>3. nextPid' \in Nat \ {0}
    BY <1>10 DEF OrphanReturns
  <2> QED BY <1>10, <2>2, <2>3, Zenon DEF OrphanReturns
<1>11. ASSUME NEW n \in Nodes, StartFails(n)
       PROVE  TypeInv'
  <2>1. PICK r \in Runtime(Pids) : rt' = [rt EXCEPT ![n] = r]
    BY <1>11, <1>b, <1>c, RuntimeTypes, Zenon DEF StartFails, Boots
  <2>2. rt' \in [Nodes -> Runtime(Pids)]
    BY <1>a, <2>1, Zenon
  <2>3. nextPid' \in Nat \ {0}
    BY <1>11 DEF StartFails
  <2>4. UNCHANGED <<vm, cache, op, orphan, snap, ready>> /\ AgDone(n) /\ events' \in Nat
    BY <1>2, <1>11, Zenon DEF StartFails
  <2> QED BY <1>1, <2>2, <2>3, <2>4, Zenon DEF AgDone
<1>12. ASSUME NEW n \in Nodes, RuntimeRestart(n)
       PROVE  TypeInv'
  <2>1. rt' \in [Nodes -> Runtime(Pids)]
    <3>1. PICK kept \in {rt[n].live, {}} : rt' = [rt EXCEPT ![n] = RuntimeRestarted(@, kept)]
      BY <1>12, Zenon DEF RuntimeRestart
    <3>2. kept \in SUBSET Pids
      BY <3>1 DEF Runtime
    <3> QED BY <3>1, <3>2, RuntimeTypes, Zenon
  <2>2. /\ ag' \in [Nodes -> [pc : AgPCs, obj : Maybe, pid : Pids \cup {0}]]
        /\ \A m \in Nodes : ag'[m].pc # "idle" => ag'[m].obj # NoVM
    BY <1>1, <1>12, Zenon DEF RuntimeRestart
  <2> QED BY <1>2, <1>12, <2>1, <2>2, Zenon DEF RuntimeRestart
<1>13. ASSUME NEW n \in Nodes, ProcessExit(n)
       PROVE  TypeInv'
  <2>1. PICK p : rt' = [rt EXCEPT ![n] = [rt[n] EXCEPT !.live = rt[n].live \ {p}]]
    BY <1>13, Zenon DEF ProcessExit
  <2>2. [rt[n] EXCEPT !.live = rt[n].live \ {p}] \in Runtime(Pids)
    BY <1>c, ZenonT(60) DEF Runtime
  <2>3. rt' \in [Nodes -> Runtime(Pids)]
    BY <1>a, <2>1, <2>2, Zenon
  <2> QED BY <1>2, <1>13, <2>3, Zenon DEF ProcessExit
<1>14. ASSUME NEW n \in Nodes, NodeReadyChanges(n)
       PROVE  TypeInv'
  BY <1>2, <1>14, Zenon DEF NodeReadyChanges
<1> QED BY <1>3, <1>4, <1>5, <1>6, <1>7, <1>8, <1>9, <1>10, <1>11, <1>12, <1>13, <1>14, Zenon
        DEF EnvStep

(* Every variable keeps its type, and a worker in the middle of a handler  *)
(* of either reconciler holds the object it works on.                      *)
LEMMA TypeInvariant == Spec => []TypeInv
<1>1. Init => TypeInv
  <2>1. NewVM \in ImpVM
    BY Zenon DEF NewVM, ImpVM, Phases
  <2>2. Stopped \in Runtime(Pids)
    BY Zenon DEF Stopped, Runtime, ProcEntry
  <2>3. AgIdle \in [pc : AgPCs, obj : Maybe, pid : Pids \cup {0}] /\ AgIdle.pc = "idle"
    BY Zenon DEF AgIdle, AgPCs
  <2>4. OpIdle \in [pc : OpPCs, obj : Maybe] /\ OpIdle.pc = "idle"
    BY Zenon DEF OpIdle, OpPCs
  <2> QED BY <2>1, <2>2, <2>3, <2>4 DEF Init, TypeInv, TypeOK, WorkersHoldObject
<1>2. TypeInv /\ [Next]_vars => TypeInv'
  <2> SUFFICES ASSUME TypeInv, [Next]_vars
               PROVE  TypeInv'
    BY Zenon
  <2>1. CASE Next
    BY <2>1, OpStepType, AgStepType, EnvStepType, Zenon DEF Next
  <2>2. CASE UNCHANGED vars
    BY <2>2, Zenon DEF vars, TypeInv, TypeOK, WorkersHoldObject
  <2> QED BY <2>1, <2>2, Zenon
<1> QED BY <1>1, <1>2, PTL DEF Spec

(* Every variable keeps its type, whatever the operator, the agents, the   *)
(* runtimes and the environment do.                                        *)
THEOREM TypeCorrect == Spec => []TypeOK
<1>1. TypeInv => TypeOK
  BY Zenon DEF TypeInv
<1> QED BY <1>1, TypeInvariant, PTL

-----------------------------------------------------------------------------
(* Where the VM runs, when the webhook is enabled.                         *)

(* spec.nodeName, once set, stays as long as the object exists, and a      *)
(* deleted object does not come back.                                      *)
NodeKept ==
  /\ vm = NoVM => vm' = NoVM
  /\ vm # NoVM /\ vm' # NoVM /\ vm.node # NoNode => vm'.node = vm.node

LEMMA PatchKeepsNode ==
  ASSUME Webhook, NEW base, NEW mod, Patch(base, mod)
  PROVE  NodeKept
BY Zenon DEF Patch, Accepted, Admits, NodeKept

LEMMA LastPatchKeepsNode ==
  ASSUME Webhook, NEW base, NEW mod,
         vm' = IF Accepted(base, mod) THEN Patched(base, mod) ELSE vm
  PROVE  NodeKept
BY Zenon DEF Accepted, Admits, NodeKept

LEMMA OpStepNode ==
  ASSUME Webhook, TypeInv, OpStep
  PROVE  OpFrame /\ NodeKept
<1>1. ASSUME NEW o, NEW mod, OpPatch(o, mod)
      PROVE  OpFrame /\ NodeKept
  BY <1>1, PatchKeepsNode, Zenon DEF OpPatch
<1>2. ASSUME NEW o, NEW mod, NEW pc, OpPatchThen(o, mod, pc)
      PROVE  OpFrame /\ NodeKept
  BY <1>2, PatchKeepsNode, Zenon DEF OpPatchThen
<1>3. ASSUME NEW mod, NEW pc, OpLastPatch(pc, mod)
      PROVE  OpFrame /\ NodeKept
  BY <1>3, LastPatchKeepsNode, Zenon DEF OpLastPatch
<1>4. CASE OpSchedule
  BY <1>4, Zenon DEF OpSchedule, NodeKept
<1>5. CASE \E n \in Nodes : OpAssign(n)
  BY <1>5, Zenon DEF OpAssign, Accepted, Admits, NodeKept
<1>6. CASE OpDropUnscheduled \/ OpDropAcknowledged \/ OpDropTimedOut
  <2>1. RemoveFinalizer /\ OpFrame
    BY <1>6, Zenon DEF OpDropUnscheduled, OpDropAcknowledged, OpDropTimedOut
  <2> QED BY <2>1, Zenon DEF RemoveFinalizer, NodeKept, TypeInv, TypeOK, ImpVM
<1>7. CASE OpAddFinalizer \/ OpExhausted \/ OpTerminate
  BY <1>7, <1>1, Zenon DEF OpAddFinalizer, OpExhausted, OpTerminate
<1>8. CASE OpResetRetries \/ OpNodeLost \/ OpRestart
  BY <1>8, <1>1, <1>2, Zenon DEF OpResetRetries, OpNodeLost, OpRestart
<1>9. CASE \/ OpResetStatus \/ OpUnschedulable \/ OpAssigned \/ OpUnassigned
           \/ OpRestartElsewhere
  BY <1>9, <1>3, Zenon
     DEF OpResetStatus, OpUnschedulable, OpAssigned, OpUnassigned, OpRestartElsewhere
<1> QED BY <1>4, <1>5, <1>6, <1>7, <1>8, <1>9, Zenon DEF OpStep

(* An agent that acts is the one of the VM's node, and touches nothing     *)
(* elsewhere.                                                              *)
LEMMA AgStepNode ==
  ASSUME Webhook, TypeInv, AssignmentIsShared, NEW n \in Nodes, AgStep(n) \/ RtStep(n)
  PROVE  /\ NodeKept
         /\ vm # NoVM => vm.node = n
         /\ UNCHANGED <<cache, orphan>>
         /\ \A m \in Nodes \ {n} : ag'[m] = ag[m] /\ rt'[m] = rt[m]
<1>1. Seen(n) # NoVM /\ Seen(n).node = n /\ vm # NoVM => vm.node = n
  BY NodeAssumption, Zenon DEF Seen, AssignmentIsShared, Controllers
<1>2. ag[n].pc # "idle" /\ vm # NoVM => vm.node = n
  BY Zenon DEF AssignmentIsShared
<1>3. vm # NoVM => vm.node = n
  <2>1. (\E p : AgReads(n, Seen(n), p)) \/ ag[n].pc # "idle"
    BY Zenon DEF AgStep, RtStep, AgStartTimeout, AgScheduled, AgResuming, AgStarted, AgSuspendRequested,
       AgRunning, AgTerminating, AgClearOwnership, AgSnapshot, AgSuspendStop, AgParked, AgResume,
       StartReturns, StartRefused
  <2> QED BY <1>1, <1>2, <2>1, Zenon DEF AgReads
<1>4. AgFrame
  BY Zenon DEF AgStep, RtStep, AgStartTimeout, AgScheduled, AgResuming, AgStarted, AgSuspendRequested,
     AgRunning, AgTerminating, AgClearOwnership, AgSnapshot, AgSuspendStop, AgParked, AgResume,
     StartReturns, StartRefused
<1>5. ASSUME NEW m \in Nodes \ {n}
      PROVE  ag'[m] = ag[m] /\ rt'[m] = rt[m]
  <2>1. ag \in [Nodes -> [pc : AgPCs, obj : Maybe, pid : Pids \cup {0}]]
        /\ rt \in [Nodes -> Runtime(Pids)]
    BY Zenon DEF TypeInv, TypeOK
  <2>2. (\E a : ag' = [ag EXCEPT ![n] = a]) \/ ag' = ag
    BY Zenon DEF AgStep, RtStep, AgStartTimeout, AgScheduled, AgResuming, AgStarted, AgSuspendRequested,
       AgRunning, AgTerminating, AgClearOwnership, AgSnapshot, AgSuspendStop, AgParked, AgResume,
       StartReturns, StartRefused, AgGoto, AgDone, AgLastPatch
  <2>3. (\E r : rt' = [rt EXCEPT ![n] = r]) \/ rt' = rt
    BY Zenon DEF AgStep, RtStep, AgStartTimeout, AgScheduled, AgResuming, AgStarted, AgSuspendRequested,
       AgRunning, AgTerminating, AgClearOwnership, AgSnapshot, AgSuspendStop, AgParked, AgResume,
       StartReturns, StartRefused
  <2> QED BY <2>1, <2>2, <2>3, Zenon
<1>6. NodeKept
  <2>1. CASE AgStartTimeout(n) \/ AgScheduled(n) \/ AgSuspendRequested(n) \/ AgResume(n)
    BY <2>1, PatchKeepsNode, Zenon DEF AgStartTimeout, AgScheduled, AgSuspendRequested, AgResume
  <2>2. CASE AgResuming(n) \/ AgTerminating(n) \/ AgSnapshot(n) \/ AgSuspendStop(n)
             \/ StartReturns(n) \/ StartRefused(n)
    BY <2>2, Zenon DEF AgResuming, AgTerminating, AgSnapshot, AgSuspendStop, StartReturns, StartRefused,
       NodeKept
  <2>3. CASE AgStarted(n) \/ AgClearOwnership(n) \/ AgParked(n)
    <3>1. \E mod : AgLastPatch(n, mod)
      BY <2>3, Zenon DEF AgStarted, AgClearOwnership, AgParked
    <3> QED BY <3>1, LastPatchKeepsNode, Zenon DEF AgLastPatch
  <2>4. CASE AgRunning(n)
    BY <2>4, Zenon DEF AgRunning, Accepted, Admits, NodeKept
  <2> QED BY <2>1, <2>2, <2>3, <2>4, Zenon DEF AgStep, RtStep
<1> QED BY <1>3, <1>4, <1>5, <1>6, Zenon DEF AgFrame

LEMMA EnvStepNode ==
  ASSUME TypeInv, AssignmentIsShared, EnvStep \/ \E c \in Controllers : Deliver(c)
  PROVE  AssignmentIsShared'
<1> USE DEF AssignmentIsShared
<1>1. CASE \E c \in Controllers : Deliver(c)
  BY <1>1, Zenon DEF Deliver, TypeInv, TypeOK
<1>2. CASE OpAbandoned
  BY <1>2, Zenon DEF OpAbandoned
<1>3. CASE Delete \/ RequestReset \/ \E d \in {"Running", "Suspended"} : SetDesired(d)
  <2>1. vm' # NoVM => vm # NoVM /\ vm'.node = vm.node
    BY <1>3 DEF Delete, RequestReset, SetDesired, TypeInv, TypeOK, ImpVM
  <2>2. UNCHANGED <<cache, ag, orphan, rt>>
    BY <1>3, Zenon DEF Delete, RequestReset, SetDesired
  <2> QED BY <2>1, <2>2, Zenon
<1>4. ASSUME NEW n \in Nodes, AgAbandoned(n) \/ AgentCrash(n) \/ OrphanReturns(n) \/ StartFails(n)
      PROVE  AssignmentIsShared'
  <2>1. vm # NoVM => vm.node = n
    BY <1>4, Zenon DEF AgAbandoned, AgentCrash, OrphanReturns, StartFails
  <2>2. \A m \in Nodes \ {n} : ag'[m] = ag[m] /\ orphan'[m] = orphan[m] /\ rt'[m] = rt[m]
    BY <1>4 DEF AgAbandoned, AgentCrash, OrphanReturns, StartFails, AgDone, TypeInv, TypeOK
  <2>3. vm' = vm /\ (cache' = cache \/ cache' = [cache EXCEPT ![n] = vm])
    BY <1>4, Zenon DEF AgAbandoned, AgentCrash, OrphanReturns, StartFails
  <2> QED BY <2>1, <2>2, <2>3 DEF TypeInv, TypeOK
<1>5. ASSUME NEW n \in Nodes, RuntimeRestart(n) \/ ProcessExit(n)
      PROVE  AssignmentIsShared'
  <2>1. UNCHANGED <<vm, cache>>
    BY <1>5, Zenon DEF RuntimeRestart, ProcessExit
  <2>2. ASSUME NEW m \in Nodes
        PROVE  /\ ag'[m].pc # "idle" => ag[m].pc # "idle"
               /\ orphan'[m] # "none" => orphan[m] # "none"
               /\ rt'[m].live # {} => rt[m].live # {}
    <3>1. /\ ag'[m] = ag[m] \/ ag'[m] = AgIdle
          /\ orphan'[m] = orphan[m] \/ orphan'[m] = "none"
      BY <1>5 DEF RuntimeRestart, ProcessExit, TypeInv, TypeOK
    <3>2. CASE RuntimeRestart(n)
      BY <3>1, <3>2 DEF RuntimeRestart, RuntimeRestarted, AgIdle, TypeInv, TypeOK, Runtime
    <3>3. CASE ProcessExit(n)
      <4>1. PICK p : rt' = [rt EXCEPT ![n] = [rt[n] EXCEPT !.live = rt[n].live \ {p}]]
        BY <3>3, Zenon DEF ProcessExit
      <4>2. rt[n] \in Runtime(Pids) /\ rt \in [Nodes -> Runtime(Pids)]
        BY Zenon DEF TypeInv, TypeOK
      <4>3. [rt[n] EXCEPT !.live = rt[n].live \ {p}].live = rt[n].live \ {p}
        BY <4>2, Zenon DEF Runtime
      <4>4. rt'[m].live \subseteq rt[m].live
        BY <4>1, <4>2, <4>3, Zenon
      <4> QED BY <3>1, <4>4 DEF AgIdle
    <3> QED BY <1>5, <3>2, <3>3, Zenon
  <2> QED BY <2>1, <2>2, Zenon
<1>6. ASSUME NEW n \in Nodes, NodeReadyChanges(n)
      PROVE  AssignmentIsShared'
  BY <1>6, Zenon DEF NodeReadyChanges
<1> QED BY <1>1, <1>2, <1>3, <1>4, <1>5, <1>6, Zenon DEF EnvStep

(* With the webhook, caches, handlers, Start calls left behind and         *)
(* processes agree with spec.nodeName.                                     *)
THEOREM AssignmentShared ==
  ASSUME Webhook
  PROVE  Spec => []AssignmentIsShared
<1>1. Init => AssignmentIsShared
  <2>1. NewVM.node = NoNode /\ AgIdle.pc = "idle" /\ Stopped.live = {}
    BY Zenon DEF NewVM, AgIdle, Stopped
  <2> QED BY <2>1 DEF Init, AssignmentIsShared
<1>2. TypeInv /\ AssignmentIsShared /\ [Next]_vars => AssignmentIsShared'
  <2> SUFFICES ASSUME TypeInv, AssignmentIsShared, [Next]_vars
               PROVE  AssignmentIsShared'
    BY Zenon
  <2>1. CASE OpStep
    BY <2>1, OpStepNode, NodeAssumption, Zenon DEF OpFrame, NodeKept, AssignmentIsShared
  <2>2. ASSUME NEW n \in Nodes, AgStep(n) \/ RtStep(n)
        PROVE  AssignmentIsShared'
    BY <2>2, AgStepNode, NodeAssumption DEF NodeKept, AssignmentIsShared
  <2>3. CASE EnvStep \/ \E c \in Controllers : Deliver(c)
    BY <2>3, EnvStepNode, Zenon
  <2>4. CASE UNCHANGED vars
    BY <2>4, Zenon DEF vars, AssignmentIsShared
  <2> QED BY <2>1, <2>2, <2>3, <2>4, Zenon DEF Next
<1> QED BY <1>1, <1>2, TypeInvariant, PTL DEF Spec

(* With the webhook, an existing VM has processes only on the node         *)
(* spec.nodeName names.                                                    *)
THEOREM RunsOnlyWhereAssigned ==
  ASSUME Webhook
  PROVE  Spec => []OnlyAssignedNodeRuns
<1>1. AssignmentIsShared => OnlyAssignedNodeRuns
  BY Zenon DEF AssignmentIsShared, OnlyAssignedNodeRuns
<1> QED BY <1>1, AssignmentShared, PTL


-----------------------------------------------------------------------------
(* The suspend snapshot, when the webhook is enabled.                      *)

Parked == {"Suspended", "Resuming"}

HasMemory == \E n \in Nodes : vm.node = n /\ snap[n] # 0

(* Until the object is deleted nobody asks for its termination, whoever    *)
(* sees it as suspended is right that its node has the snapshot, and an    *)
(* agent past the snapshot has it on its node.                             *)
SnapshotInv ==
  vm # NoVM /\ ~vm.deleting =>
    /\ vm.phase # "Terminating"
    /\ vm.phase \in Parked => HasMemory
    /\ \A c \in Controllers : cache[c] # NoVM =>
         /\ ~cache[c].deleting /\ cache[c].phase # "Terminating"
         /\ cache[c].phase \in Parked => HasMemory
    /\ \A n \in Nodes : ag[n].pc \in {"snapped", "parked"} => snap[n] # 0

(* A step that neither suspends, resumes nor terminates the VM.            *)
Quiet ==
  vm' # NoVM /\ ~vm'.deleting =>
    /\ vm # NoVM /\ ~vm.deleting
    /\ vm'.phase = vm.phase \/ vm'.phase \notin Parked \cup {"Terminating"}

LEMMA PatchQuiet ==
  ASSUME NEW base, NEW mod,
         mod.phase = base.phase \/ mod.phase \notin Parked \cup {"Terminating"},
         vm' = IF Accepted(base, mod) THEN Patched(base, mod) ELSE vm
  PROVE  Quiet
<1>1. /\ Patched(base, mod).deleting = vm.deleting
      /\ Patched(base, mod).phase = IF mod.phase = base.phase THEN vm.phase ELSE mod.phase
  BY Zenon DEF Patched, Merge, Changed
<1>2. Accepted(base, mod) => vm # NoVM
  BY Zenon DEF Accepted
<1> QED BY <1>1, <1>2, Zenon DEF Quiet

LEMMA SeenAlive ==
  ASSUME SnapshotInv, NEW c \in Controllers, Seen(c) # NoVM, vm # NoVM, ~vm.deleting
  PROVE  /\ ~Seen(c).deleting /\ Seen(c).phase # "Terminating"
         /\ Seen(c).phase \in Parked => HasMemory
BY Zenon DEF SnapshotInv, Seen

LEMMA OpStepQuiet ==
  ASSUME TypeInv, SnapshotInv, OpStep
  PROVE  Quiet
<1> DEFINE o == Seen(Operator)
           p == op.obj
<1>1. o \in Maybe /\ (op.pc # "idle" => p \in ImpVM)
  BY SeenType, Zenon DEF TypeInv, TypeOK, WorkersHoldObject, Controllers
<1>2. vm # NoVM /\ o # NoVM /\ o.deleting => vm.deleting
  BY SeenAlive, Zenon DEF Controllers
<1>a. ASSUME NEW base, NEW mod,
             mod.phase = base.phase \/ mod.phase \notin Parked \cup {"Terminating"},
             OpPatch(base, mod) \/ \E pc : OpPatchThen(base, mod, pc)
      PROVE  Quiet
  BY <1>a, PatchQuiet, Zenon DEF OpPatch, OpPatchThen, Patch
<1>b. ASSUME NEW mod, NEW pc, OpLastPatch(pc, mod), pc # "idle",
             p \in ImpVM => mod.phase = p.phase \/ mod.phase \notin Parked \cup {"Terminating"}
      PROVE  Quiet
  BY <1>1, <1>b, PatchQuiet, Zenon DEF OpLastPatch
<1>c. Parked \cup {"Terminating"} = {"Suspended", "Resuming", "Terminating"}
  BY Zenon DEF Parked
<1> HIDE DEF o, p
<1>3. CASE OpAddFinalizer
  <2> DEFINE mod == [o EXCEPT !.finalizer = TRUE]
  <2>1. o \in ImpVM /\ OpPatch(o, mod)
    BY <1>1, <1>3, Zenon DEF OpAddFinalizer, OpReads, o
  <2>2. mod.phase = o.phase
    BY <2>1, Zenon DEF ImpVM
  <2> HIDE DEF mod
  <2> QED BY <1>a, <2>1, <2>2, Zenon
<1>4. CASE OpResetRetries
  <2> DEFINE mod == [o EXCEPT !.reset = FALSE]
  <2>1. o \in ImpVM /\ (OpPatch(o, mod) \/ OpPatchThen(o, mod, "reset"))
    BY <1>1, <1>4, Zenon DEF OpResetRetries, OpReads, o
  <2>2. mod.phase = o.phase
    BY <2>1, Zenon DEF ImpVM
  <2> HIDE DEF mod
  <2> QED BY <1>a, <2>1, <2>2, Zenon
<1>5. CASE OpResetStatus
  <2> DEFINE mod == [p EXCEPT !.count = 0, !.exhausted = FALSE, !.phase = "Pending"]
  <2>1. OpLastPatch("reset", mod)
    BY <1>5, Zenon DEF OpResetStatus, p
  <2>2. p \in ImpVM => mod.phase = "Pending"
    BY Zenon DEF ImpVM
  <2> HIDE DEF mod
  <2> QED BY <1>b, <1>c, <2>1, <2>2, Zenon
<1>6. CASE OpSchedule
  BY <1>6, Zenon DEF OpSchedule, Quiet
<1>7. CASE OpUnschedulable
  <2> DEFINE mod == [p EXCEPT !.phase = "Pending"]
  <2>1. OpLastPatch("schedule", mod)
    BY <1>7, Zenon DEF OpUnschedulable, p
  <2>2. p \in ImpVM => mod.phase = "Pending"
    BY Zenon DEF ImpVM
  <2> HIDE DEF mod
  <2> QED BY <1>b, <1>c, <2>1, <2>2, Zenon
<1>8. CASE \E n \in Nodes : OpAssign(n)
  <2>1. PICK n \in Nodes : OpAssign(n)
    BY <1>8, Zenon
  <2> DEFINE mod == [p EXCEPT !.node = n]
  <2>2. p \in ImpVM
    BY <1>1, <2>1, Zenon DEF OpAssign
  <2>3. mod.phase = p.phase
    BY <2>2, Zenon DEF ImpVM
  <2>4. vm' = IF Accepted(p, mod) THEN Patched(p, mod) ELSE vm
    BY <2>1, Zenon DEF OpAssign, p
  <2> HIDE DEF mod
  <2> QED BY <2>3, <2>4, PatchQuiet, Zenon
<1>9. CASE OpAssigned
  <2> DEFINE mod == [p EXCEPT !.ack = p.node, !.phase = "Scheduled"]
  <2>1. OpLastPatch("assign", mod)
    BY <1>9, Zenon DEF OpAssigned, p
  <2>2. p \in ImpVM => mod.phase = "Scheduled"
    BY Zenon DEF ImpVM
  <2> HIDE DEF mod
  <2> QED BY <1>b, <1>c, <2>1, <2>2, Zenon
<1>10. CASE OpNodeLost
  <2> DEFINE m1 == [o EXCEPT !.node = NoNode]
             m2 == [o EXCEPT !.phase = "Failed"]
  <2>1. o \in ImpVM /\ (OpPatchThen(o, m1, "unassign") \/ OpPatch(o, m2))
    BY <1>1, <1>10, Zenon DEF OpNodeLost, OpPasses, OpReads, o
  <2>2. m1.phase = o.phase /\ m2.phase = "Failed"
    BY <2>1, Zenon DEF ImpVM
  <2> HIDE DEF m1, m2
  <2> QED BY <1>a, <1>c, <2>1, <2>2, Zenon
<1>11. CASE OpUnassigned
  <2> DEFINE mod == [p EXCEPT !.ack = NoNode, !.phase = "Pending", !.suspended = FALSE]
  <2>1. OpLastPatch("unassign", mod)
    BY <1>11, Zenon DEF OpUnassigned, p
  <2>2. p \in ImpVM => mod.phase = "Pending"
    BY Zenon DEF ImpVM
  <2> HIDE DEF mod
  <2> QED BY <1>b, <1>c, <2>1, <2>2, Zenon
<1>12. CASE OpRestart
  <2> DEFINE ph == IF Policy.mode = "in-place" THEN "Scheduled" ELSE "Pending"
             mod == [o EXCEPT !.phase = ph, !.count = @ + 1]
  <2>1. o \in ImpVM /\ (OpPatch(o, mod) \/ OpPatchThen(o, mod, "restart"))
    BY <1>1, <1>12, Zenon DEF OpRestart, OpPasses, OpReads, o
  <2>2. mod.phase \in {"Scheduled", "Pending"}
    BY <2>1, Zenon DEF ImpVM
  <2> HIDE DEF mod
  <2> QED BY <1>a, <1>c, <2>1, <2>2, Zenon
<1>13. CASE OpRestartElsewhere
  <2> DEFINE mod == [p EXCEPT !.node = NoNode]
  <2>1. OpLastPatch("restart", mod)
    BY <1>13, Zenon DEF OpRestartElsewhere, p
  <2>2. p \in ImpVM => mod.phase = p.phase
    BY Zenon DEF ImpVM
  <2> HIDE DEF mod
  <2> QED BY <1>b, <2>1, <2>2, Zenon
<1>14. CASE OpExhausted
  <2> DEFINE b1 == [o EXCEPT !.exhausted = FALSE]
             m1 == [o EXCEPT !.phase = "RetryExhausted", !.exhausted = TRUE]
             m2 == [o EXCEPT !.exhausted = TRUE]
             m3 == [o EXCEPT !.phase = "Pending", !.count = 0, !.exhausted = FALSE]
  <2>1. o \in ImpVM /\ (OpPatch(b1, m1) \/ OpPatch(o, m2) \/ OpPatch(o, m3))
    BY <1>1, <1>14, Zenon DEF OpExhausted, OpPasses, OpReads, o
  <2>2. m1.phase = "RetryExhausted" /\ m2.phase = o.phase /\ m3.phase = "Pending"
    BY <2>1, Zenon DEF ImpVM
  <2> HIDE DEF b1, m1, m2, m3
  <2> QED BY <1>a, <1>c, <2>1, <2>2, Zenon
<1>15. CASE OpDropUnscheduled \/ OpDropAcknowledged \/ OpDropTimedOut \/ OpTerminate
  <2>1. o # NoVM /\ o.deleting
    BY <1>15, Zenon DEF OpDropUnscheduled, OpDropAcknowledged, OpDropTimedOut, OpTerminate, OpDeletes,
       OpReads, o
  <2>2. vm # NoVM /\ (vm' = NoVM \/ ~vm.deleting \/ \E base, mod : vm' = Patched(base, mod))
    BY <1>15, Zenon DEF OpDropUnscheduled, OpDropAcknowledged, OpDropTimedOut, OpTerminate,
       RemoveFinalizer, OpPatch, Patch, Accepted
  <2>3. \A base, mod : Patched(base, mod).deleting = vm.deleting
    BY Zenon DEF Patched, Merge
  <2> QED BY <1>2, <2>1, <2>2, <2>3, Zenon DEF Quiet
<1> QED BY <1>3, <1>4, <1>5, <1>6, <1>7, <1>8, <1>9, <1>10, <1>11, <1>12, <1>13,
           <1>14, <1>15, Zenon DEF OpStep


(* A step that keeps the assignment and the snapshots, adds nothing to the *)
(* caches but the object itself, and lets no agent pass the snapshot.      *)
LEMMA QuietKeepsSnapshot ==
  ASSUME TypeInv, SnapshotInv, Quiet, NodeKept, snap' = snap,
         \A c \in Controllers : cache'[c] = cache[c] \/ cache'[c] = vm,
         \A n \in Nodes : ag'[n].pc \in {"snapped", "parked"} => ag[n].pc \in {"snapped", "parked"}
  PROVE  SnapshotInv'
<1> SUFFICES ASSUME vm' # NoVM, ~vm'.deleting
             PROVE  /\ vm'.phase # "Terminating"
                    /\ vm'.phase \in Parked => HasMemory'
                    /\ \A c \in Controllers : cache'[c] # NoVM =>
                         /\ ~cache'[c].deleting /\ cache'[c].phase # "Terminating"
                         /\ cache'[c].phase \in Parked => HasMemory'
                    /\ \A n \in Nodes : ag'[n].pc \in {"snapped", "parked"} => snap'[n] # 0
  BY Zenon DEF SnapshotInv
<1>1. vm # NoVM /\ ~vm.deleting
  BY Zenon DEF Quiet
<1>2. HasMemory => HasMemory'
  BY <1>1, NodeAssumption, Zenon DEF HasMemory, NodeKept
<1>3. vm'.phase = vm.phase \/ vm'.phase \notin Parked \cup {"Terminating"}
  BY Zenon DEF Quiet
<1> QED BY <1>1, <1>2, <1>3, Zenon DEF SnapshotInv

(* What an agent's step does to the object and the suspend directory.      *)
LEMMA AgStepSnapshot ==
  ASSUME Webhook, TypeInv, AssignmentIsShared, SnapshotInv, NEW n \in Nodes, AgStep(n) \/ RtStep(n)
  PROVE  SnapshotInv'
<1> DEFINE o == Seen(n)
           a == ag[n].obj
<1>1. /\ o \in Maybe /\ (ag[n].pc # "idle" => a \in ImpVM) /\ n \in Controllers
      /\ ag \in [Nodes -> [pc : AgPCs, obj : Maybe, pid : Pids \cup {0}]]
      /\ snap \in [Nodes -> Pids \cup {0}]
  BY SeenType, Zenon DEF TypeInv, TypeOK, WorkersHoldObject, Controllers
<1>2. NodeKept /\ cache' = cache /\ (vm # NoVM => vm.node = n)
  BY AgStepNode, Zenon
<1>3. o # NoVM /\ vm # NoVM /\ ~vm.deleting =>
        ~o.deleting /\ o.phase # "Terminating" /\ (o.phase \in Parked => HasMemory)
  BY <1>1, SeenAlive, Zenon
<1>4. Parked = {"Suspended", "Resuming"}
  BY Zenon DEF Parked
<1>a. ASSUME NEW mod, Patch(o, mod) \/ Patch([o EXCEPT !.started = FALSE], mod),
             o \in ImpVM, mod.phase \notin Parked \cup {"Terminating"}
      PROVE  Quiet
  BY <1>a, PatchQuiet, Zenon DEF Patch, ImpVM
<1>b. ASSUME NEW mod, AgLastPatch(n, mod),
             mod.phase = a.phase \/ mod.phase \notin Parked \cup {"Terminating"}
      PROVE  Quiet /\ ag'[n].pc = "idle" /\ \A m \in Nodes \ {n} : ag'[m] = ag[m]
  BY <1>1, <1>b, PatchQuiet, Zenon DEF AgLastPatch, AgDone, AgIdle
<1>c. ASSUME Quiet, snap' = snap,
             ag'[n].pc \in {"snapped", "parked"} => ag[n].pc \in {"snapped", "parked"}
      PROVE  SnapshotInv'
  BY <1>2, <1>c, AgStepNode, QuietKeepsSnapshot, Zenon
<1>d. ASSUME NEW pc, NEW obj, NEW q, AgGoto(n, pc, obj, q)
      PROVE  ag'[n].pc = pc
  BY <1>1, <1>d, Zenon DEF AgGoto
<1>e. AgDone(n) => ag'[n].pc = "idle"
  BY <1>1 DEF AgDone, AgIdle
<1> HIDE DEF o, a
<1>5. CASE AgStartTimeout(n)
  <2> DEFINE mod == [o EXCEPT !.phase = "Failed", !.started = FALSE]
  <2>1. o \in ImpVM /\ Patch(o, mod) /\ snap' = snap /\ ag' = ag
    BY <1>1, <1>5, Zenon DEF AgStartTimeout, AgReads, o
  <2>2. mod.phase = "Failed"
    BY <2>1, Zenon DEF ImpVM
  <2> HIDE DEF mod
  <2> QED BY <1>4, <1>a, <1>c, <2>1, <2>2, Zenon
<1>6. CASE AgScheduled(n)
  <2> DEFINE mod == [o EXCEPT !.phase = "Starting", !.started = TRUE]
  <2>1. /\ o \in ImpVM /\ Patch([o EXCEPT !.started = FALSE], mod) /\ snap' = snap
        /\ AgGoto(n, "start", vm', 0)
    BY <1>1, <1>6, Zenon DEF AgScheduled, AgReads, o
  <2>2. mod.phase = "Starting"
    BY <2>1, Zenon DEF ImpVM
  <2> HIDE DEF mod
  <2> QED BY <1>4, <1>a, <1>c, <1>d, <2>1, <2>2, Zenon
<1>7. CASE AgResuming(n)
  <2>1. AgGoto(n, "start", o, 0) /\ vm' = vm /\ snap' = snap
    BY <1>7, Zenon DEF AgResuming, o
  <2> QED BY <1>c, <1>d, <2>1, Zenon DEF Quiet
<1>8. CASE AgStarted(n)
  <2> DEFINE run == [a EXCEPT !.phase = "Running", !.pid = ag[n].pid]
             m1 == [run EXCEPT !.suspended = FALSE]
             m2 == [run EXCEPT !.started = FALSE]
  <2>1. a \in ImpVM /\ snap' = snap /\ (AgLastPatch(n, m1) \/ AgLastPatch(n, m2))
    BY <1>1, <1>8, Zenon DEF AgStarted, a
  <2>2. m1.phase = "Running" /\ m2.phase = "Running"
    BY <2>1, Zenon DEF ImpVM
  <2> HIDE DEF m1, m2
  <2> QED BY <1>4, <1>b, <1>c, <2>1, <2>2, Zenon
<1>9. CASE AgSuspendRequested(n)
  <2> DEFINE mod == [o EXCEPT !.phase = "Suspending"]
  <2>1. o \in ImpVM /\ Patch(o, mod) /\ snap' = snap /\ ag' = ag
    BY <1>1, <1>9, Zenon DEF AgSuspendRequested, AgReads, o
  <2>2. mod.phase = "Suspending"
    BY <2>1, Zenon DEF ImpVM
  <2> HIDE DEF mod
  <2> QED BY <1>4, <1>a, <1>c, <2>1, <2>2, Zenon
<1>10. CASE AgRunning(n)
  <2> DEFINE m1 == [o EXCEPT !.phase = "Succeeded", !.started = FALSE, !.pid = 0]
             m2 == [o EXCEPT !.phase = "Failed", !.started = FALSE]
  <2>1. /\ o \in ImpVM /\ snap' = snap /\ ag' = ag
        /\ \/ vm' = vm
           \/ vm' = IF Accepted(o, m1) THEN Patched(o, m1) ELSE vm
           \/ vm' = IF Accepted(o, m2) THEN Patched(o, m2) ELSE vm
    BY <1>1, <1>10, Zenon DEF AgRunning, AgReads, o
  <2>2. m1.phase = "Succeeded" /\ m2.phase = "Failed"
    BY <2>1, Zenon DEF ImpVM
  <2> HIDE DEF m1, m2
  <2>3. Quiet
    BY <1>4, <2>1, <2>2, PatchQuiet, Zenon DEF Quiet
  <2> QED BY <1>c, <2>1, <2>3, Zenon
<1>11. CASE AgTerminating(n)
  BY <1>3, <1>11, Zenon DEF AgTerminating, AgReads, SnapshotInv, o
<1>12. CASE AgClearOwnership(n)
  <2> DEFINE mod == [a EXCEPT !.ack = NoNode, !.pid = 0]
  <2>1. a \in ImpVM /\ snap' = snap /\ AgLastPatch(n, mod)
    BY <1>1, <1>12, Zenon DEF AgClearOwnership, a
  <2>2. mod.phase = a.phase
    BY <2>1, Zenon DEF ImpVM
  <2> HIDE DEF mod
  <2> QED BY <1>b, <1>c, <2>1, <2>2, Zenon
<1>13. CASE AgSnapshot(n)
  <2>1. rt[n].proc.pid \in Pids /\ rt[n].proc.pid # 0
    BY <1>13 DEF AgSnapshot, CanSnapshot, InspectRunning, IsAlive, Runtime, TypeInv, TypeOK, Pids
  <2>2. /\ snap' = [snap EXCEPT ![n] = rt[n].proc.pid] /\ vm' = vm
        /\ AgGoto(n, "snapped", o, 0)
    BY <1>13, Zenon DEF AgSnapshot, o
  <2>3. /\ \A m \in Nodes : snap[m] # 0 \/ m = n => snap'[m] # 0
        /\ \A m \in Nodes \ {n} : ag'[m] = ag[m]
    BY <1>1, <2>1, <2>2, Zenon DEF AgGoto
  <2>4. HasMemory => HasMemory'
    BY <2>2, <2>3, Zenon DEF HasMemory
  <2> QED BY <1>2, <2>2, <2>3, <2>4, Zenon DEF SnapshotInv
<1>14. CASE AgSuspendStop(n)
  <2>1. ag[n].pc = "snapped" /\ vm' = vm /\ snap' = snap
    BY <1>14, Zenon DEF AgSuspendStop
  <2> QED BY <1>c, <2>1, Zenon DEF Quiet
<1>15. CASE AgParked(n)
  <2> DEFINE mod == [a EXCEPT !.phase = "Suspended", !.suspended = TRUE, !.pid = 0]
  <2>1. /\ ag[n].pc = "parked" /\ snap' = snap
        /\ AgLastPatch(n, mod)
    BY <1>15, Zenon DEF AgParked, a
  <2>2. a \in ImpVM
    BY <1>1, <2>1, Zenon
  <2>3. mod.phase = "Suspended"
    BY <2>2, Zenon DEF ImpVM
  <2> HIDE DEF mod
  <2>4. vm' = IF Accepted(a, mod) THEN Patched(a, mod) ELSE vm
    BY <2>1, Zenon DEF AgLastPatch, a
  <2>5. vm' # NoVM /\ ~vm'.deleting => vm # NoVM /\ ~vm.deleting
    BY <2>4, Zenon DEF Accepted, Patched, Merge
  <2>6. vm'.phase = vm.phase \/ vm'.phase = "Suspended"
    BY <2>3, <2>4, Zenon DEF Patched, Merge, Changed
  <2>7. vm' # NoVM /\ ~vm'.deleting => HasMemory'
    BY <1>2, <2>1, <2>5, NodeAssumption, Zenon DEF SnapshotInv, HasMemory, NodeKept
  <2>8. \A m \in Nodes : ag'[m].pc \in {"snapped", "parked"} => ag[m].pc \in {"snapped", "parked"}
    BY <1>1, <2>1, Zenon DEF AgLastPatch, AgDone, AgIdle
  <2> QED BY <1>2, <2>1, <2>5, <2>6, <2>7, <2>8, Zenon DEF SnapshotInv
<1>16. CASE AgResume(n)
  <2> DEFINE mod == [o EXCEPT !.phase = "Resuming"]
  <2>1. o \in ImpVM /\ Patch(o, mod) /\ snap' = snap /\ ag' = ag /\ o.phase = "Suspended"
    BY <1>1, <1>16, Zenon DEF AgResume, AgReads, o
  <2>2. mod.phase = "Resuming"
    BY <2>1, Zenon DEF ImpVM
  <2> HIDE DEF mod
  <2>3. vm # NoVM /\ vm' = Patched(o, mod) /\ o # NoVM
    BY <2>1, AbsentAssumption, Zenon DEF Patch, Accepted
  <2>4. /\ vm'.deleting = vm.deleting
        /\ vm'.phase = vm.phase \/ vm'.phase = "Resuming"
    BY <2>2, <2>3, Zenon DEF Patched, Merge, Changed
  <2>5. ~vm.deleting => HasMemory
    BY <1>3, <1>4, <2>1, <2>3, Zenon
  <2>6. vm' # NoVM /\ HasMemory => HasMemory'
    BY <1>2, <2>1, <2>3, NodeAssumption, Zenon DEF HasMemory, NodeKept
  <2> QED BY <1>2, <2>1, <2>3, <2>4, <2>5, <2>6, Zenon DEF SnapshotInv
<1>17. CASE StartReturns(n)
  <2>1. AgGoto(n, "started", ag[n].obj, nextPid) /\ vm' = vm /\ snap' = snap
    BY <1>17, Zenon DEF StartReturns
  <2> QED BY <1>c, <1>d, <2>1, Zenon DEF Quiet
<1>18. CASE StartRefused(n)
  <2>1. AgDone(n) /\ vm' = vm /\ snap' = snap
    BY <1>18, Zenon DEF StartRefused
  <2> QED BY <1>c, <1>e, <2>1, Zenon DEF Quiet
<1> QED BY <1>5, <1>6, <1>7, <1>8, <1>9, <1>10, <1>11, <1>12, <1>13, <1>14, <1>15,
           <1>16, <1>17, <1>18, Zenon DEF AgStep, RtStep

LEMMA EnvStepSnapshot ==
  ASSUME TypeInv, SnapshotInv, EnvStep \/ \E c \in Controllers : Deliver(c)
  PROVE  SnapshotInv'
<1>1. /\ ag \in [Nodes -> [pc : AgPCs, obj : Maybe, pid : Pids \cup {0}]]
      /\ cache \in [Controllers -> Maybe] /\ vm \in Maybe
  BY Zenon DEF TypeInv, TypeOK
<1>2. snap' = snap
  BY Zenon DEF EnvStep, Deliver, OpAbandoned, Delete, RequestReset, SetDesired, AgAbandoned, AgentCrash,
     OrphanReturns, StartFails, RuntimeRestart, ProcessExit, NodeReadyChanges
<1>3. Quiet /\ NodeKept
  <2>1. CASE Delete
    <3>1. vm' = NoVM \/ vm' = [vm EXCEPT !.deleting = TRUE]
      BY <2>1, Zenon DEF Delete
    <3> QED BY <1>1, <2>1, <3>1, Zenon DEF Delete, Quiet, NodeKept, ImpVM
  <2>2. CASE RequestReset \/ \E d \in {"Running", "Suspended"} : SetDesired(d)
    BY <1>1, <2>2, Zenon DEF RequestReset, SetDesired, Quiet, NodeKept, ImpVM
  <2>3. CASE vm' = vm
    BY <2>3, Zenon DEF Quiet, NodeKept
  <2> QED BY <2>1, <2>2, <2>3, Zenon DEF EnvStep, Deliver, OpAbandoned, AgAbandoned, AgentCrash,
             OrphanReturns, StartFails, RuntimeRestart, ProcessExit, NodeReadyChanges
<1>4. \A c \in Controllers : cache'[c] = cache[c] \/ cache'[c] = vm
  BY <1>1, Zenon DEF EnvStep, Deliver, OpAbandoned, Delete, RequestReset, SetDesired, AgAbandoned,
     AgentCrash, OrphanReturns, StartFails, RuntimeRestart, ProcessExit, NodeReadyChanges
<1>5. ASSUME NEW m \in Nodes PROVE ag'[m] = ag[m] \/ ag'[m].pc = "idle"
  <2>1. \/ ag' = ag
        \/ \E n \in Nodes : AgDone(n)
        \/ \E n \in Nodes : ag' = [ag EXCEPT ![n] = IF @.pc = "start" THEN AgIdle ELSE @]
    BY Zenon DEF EnvStep, Deliver, OpAbandoned, Delete, RequestReset, SetDesired, AgAbandoned,
       AgentCrash, OrphanReturns, StartFails, RuntimeRestart, ProcessExit, NodeReadyChanges
  <2> QED BY <1>1, <2>1 DEF AgDone, AgIdle
<1> QED BY <1>2, <1>3, <1>4, <1>5, QuietKeepsSnapshot, Zenon

(* With the webhook, a VM that is Suspended or Resuming and not deleted    *)
(* has its memory in the suspend directory of its node: however late the   *)
(* caches are, whatever else is patched in between, and wherever agent,    *)
(* runtime or operator stop.                                               *)
THEOREM MemoryKept ==
  ASSUME Webhook
  PROVE  Spec => []SuspendedHasSnapshot
<1>1. Init => SnapshotInv
  <2>1. NewVM.phase = "" /\ NewVM.deleting = FALSE /\ AgIdle.pc = "idle"
    BY Zenon DEF NewVM, AgIdle
  <2> QED BY <2>1, Zenon DEF Init, SnapshotInv, Parked
<1>2. TypeInv /\ AssignmentIsShared /\ SnapshotInv /\ [Next]_vars => SnapshotInv'
  <2> SUFFICES ASSUME TypeInv, AssignmentIsShared, SnapshotInv, [Next]_vars
               PROVE  SnapshotInv'
    BY Zenon
  <2>1. CASE OpStep
    BY <2>1, OpStepQuiet, OpStepNode, QuietKeepsSnapshot, Zenon DEF OpFrame
  <2>2. ASSUME NEW n \in Nodes, AgStep(n) \/ RtStep(n) PROVE SnapshotInv'
    BY <2>2, AgStepSnapshot, Zenon
  <2>3. CASE EnvStep \/ \E c \in Controllers : Deliver(c)
    BY <2>3, EnvStepSnapshot, Zenon
  <2>4. CASE UNCHANGED vars
    BY <2>4, Zenon DEF vars, SnapshotInv, HasMemory
  <2> QED BY <2>1, <2>2, <2>3, <2>4, Zenon DEF Next
<1>3. SnapshotInv => SuspendedHasSnapshot
  BY Zenon DEF SnapshotInv, SuspendedHasSnapshot, HasMemory, Parked
<1> QED BY <1>1, <1>2, <1>3, TypeInvariant, AssignmentShared, PTL DEF Spec


-----------------------------------------------------------------------------
(* The process that handleSuspending stops.                                *)

(* Without crashes of the agent no Start is left behind, and the entry of  *)
(* a snapshotted process stays until its own handler stops it.             *)
SnappedInv ==
  /\ \A n \in Nodes : orphan[n] = "none"
  /\ \A n \in Nodes : ag[n].pc = "snapped" => rt[n].proc = NoProc \/ rt[n].proc.pid = snap[n]

LEMMA OrphanFree ==
  ASSUME "crash" \notin Env, TypeInv, SnappedInv, [Next]_vars
  PROVE  \A n \in Nodes : orphan'[n] = "none"
<1>1. orphan \in [Nodes -> {"none", "cold", "restore"}]
  BY Zenon DEF TypeInv, TypeOK
<1>2. CASE OpStep
  <2>1. orphan' = orphan
    BY <1>2, Zenon DEF OpStep, OpAddFinalizer, OpResetRetries, OpResetStatus, OpSchedule, OpUnschedulable,
       OpAssign, OpAssigned, OpNodeLost, OpUnassigned, OpRestart, OpRestartElsewhere, OpExhausted,
       OpDropUnscheduled, OpDropAcknowledged, OpDropTimedOut, OpTerminate, OpPatch, OpPatchThen,
       OpLastPatch, OpFrame
  <2> QED BY <2>1, Zenon DEF SnappedInv
<1>3. ASSUME NEW n \in Nodes, AgStep(n) \/ RtStep(n) PROVE orphan' = orphan
  BY <1>3, Zenon DEF AgStep, RtStep, AgStartTimeout, AgScheduled, AgResuming, AgStarted,
     AgSuspendRequested, AgRunning, AgTerminating, AgClearOwnership, AgSnapshot, AgSuspendStop,
     AgParked, AgResume, StartReturns, StartRefused, AgFrame
<1>4. CASE EnvStep \/ \E c \in Controllers : Deliver(c)
  <2>1. orphan' = orphan \/ \E n \in Nodes : orphan' = [orphan EXCEPT ![n] = "none"]
    BY <1>4, Zenon DEF EnvStep, Deliver, OpAbandoned, Delete, RequestReset, SetDesired, AgAbandoned,
       AgentCrash, OrphanReturns, StartFails, RuntimeRestart, ProcessExit, NodeReadyChanges, Happens
  <2> QED BY <1>1, <2>1, Zenon DEF SnappedInv
<1>5. UNCHANGED vars => orphan' = orphan
  BY Zenon DEF vars
<1> QED BY <1>2, <1>3, <1>4, <1>5, Zenon DEF Next, SnappedInv

(* A handler between snapshot and stop is left alone with its entry.       *)
LEMMA SnappedStep ==
  ASSUME "crash" \notin Env, TypeInv, SnappedInv, [Next]_vars
  PROVE  SnappedInv'
<1>1. /\ ag \in [Nodes -> [pc : AgPCs, obj : Maybe, pid : Pids \cup {0}]]
      /\ rt \in [Nodes -> Runtime(Pids)] /\ snap \in [Nodes -> Pids \cup {0}]
  BY Zenon DEF TypeInv, TypeOK
<1> SUFFICES ASSUME NEW m \in Nodes, ag'[m].pc = "snapped"
             PROVE  rt'[m].proc = NoProc \/ rt'[m].proc.pid = snap'[m]
  BY OrphanFree, Zenon DEF SnappedInv
<1> DEFINE Kept == /\ ag'[m] = ag[m] /\ snap'[m] = snap[m]
                   /\ rt'[m].proc \in {NoProc, rt[m].proc}
<1>a. Kept => rt'[m].proc = NoProc \/ rt'[m].proc.pid = snap'[m]
  BY Zenon DEF SnappedInv
<1>2. CASE OpStep
  <2>1. UNCHANGED <<ag, rt, snap>>
    BY <1>2, Zenon DEF OpStep, OpAddFinalizer, OpResetRetries, OpResetStatus, OpSchedule, OpUnschedulable,
       OpAssign, OpAssigned, OpNodeLost, OpUnassigned, OpRestart, OpRestartElsewhere, OpExhausted,
       OpDropUnscheduled, OpDropAcknowledged, OpDropTimedOut, OpTerminate, OpPatch, OpPatchThen,
       OpLastPatch, OpFrame
  <2> QED BY <1>a, <2>1, Zenon
<1>3. ASSUME NEW n \in Nodes, AgStep(n) \/ RtStep(n), n # m PROVE Kept
  <2>1. (\E a : ag' = [ag EXCEPT ![n] = a]) \/ ag' = ag
    BY <1>3, Zenon DEF AgStep, RtStep, AgStartTimeout, AgScheduled, AgResuming, AgStarted,
       AgSuspendRequested, AgRunning, AgTerminating, AgClearOwnership, AgSnapshot, AgSuspendStop,
       AgParked, AgResume, StartReturns, StartRefused, AgGoto, AgDone, AgLastPatch
  <2>2. (\E r : rt' = [rt EXCEPT ![n] = r]) \/ rt' = rt
    BY <1>3, Zenon DEF AgStep, RtStep, AgStartTimeout, AgScheduled, AgResuming, AgStarted,
       AgSuspendRequested, AgRunning, AgTerminating, AgClearOwnership, AgSnapshot, AgSuspendStop,
       AgParked, AgResume, StartReturns, StartRefused
  <2>3. (\E p : snap' = [snap EXCEPT ![n] = p]) \/ snap' = snap
    BY <1>3, Zenon DEF AgStep, RtStep, AgStartTimeout, AgScheduled, AgResuming, AgStarted,
       AgSuspendRequested, AgRunning, AgTerminating, AgClearOwnership, AgSnapshot, AgSuspendStop,
       AgParked, AgResume, StartReturns, StartRefused
  <2>4. ag'[m] = ag[m] /\ rt'[m] = rt[m] /\ snap'[m] = snap[m]
    BY <1>1, <1>3, <2>1, <2>2, <2>3, Zenon
  <2> QED BY <2>4, Zenon
<1>4. ASSUME AgStep(m) \/ RtStep(m)
      PROVE  rt'[m].proc = NoProc \/ rt'[m].proc.pid = snap'[m]
  <2>1. AgDone(m) => ag'[m].pc = "idle"
    BY <1>1 DEF AgDone, AgIdle
  <2>2. ASSUME NEW pc, NEW obj, NEW p, AgGoto(m, pc, obj, p) PROVE pc = "snapped"
    BY <1>1, <2>2, Zenon DEF AgGoto
  <2>3. CASE AgSnapshot(m)
    BY <1>1, <2>3, Zenon DEF AgSnapshot
  <2>4. CASE ag' = ag
    BY <1>4, <2>2, <2>4, Zenon DEF AgStep, RtStep, AgStartTimeout, AgScheduled, AgResuming, AgStarted,
       AgSuspendRequested, AgRunning, AgTerminating, AgClearOwnership, AgSnapshot, AgSuspendStop,
       AgParked, AgResume, StartReturns, StartRefused, AgReads
  <2>5. CASE AgDone(m)
    BY <2>1, <2>5, Zenon
  <2> QED BY <1>4, <2>2, <2>3, <2>4, <2>5, Zenon DEF AgStep, RtStep, AgStartTimeout, AgScheduled,
             AgResuming, AgStarted, AgSuspendRequested, AgRunning, AgTerminating, AgClearOwnership,
             AgSuspendStop, AgParked, AgResume, StartReturns, StartRefused, AgLastPatch
<1>5. CASE Delete \/ RequestReset \/ (\E d \in {"Running", "Suspended"} : SetDesired(d))
           \/ OpAbandoned \/ (\E c \in Controllers : Deliver(c))
           \/ (\E n \in Nodes : NodeReadyChanges(n)) \/ UNCHANGED vars
  <2>1. UNCHANGED <<ag, rt, snap>>
    BY <1>5, Zenon DEF Deliver, OpAbandoned, Delete, RequestReset, SetDesired, NodeReadyChanges, vars
  <2> QED BY <1>a, <2>1, Zenon
<1>6. ASSUME NEW n \in Nodes, AgAbandoned(n) PROVE Kept
  BY <1>1, <1>6, Zenon DEF AgAbandoned, AgDone, AgIdle
<1>7. ASSUME NEW n \in Nodes, StartFails(n) PROVE Kept
  <2>1. (\E r : rt' = [rt EXCEPT ![n] = r]) /\ AgDone(n) /\ snap' = snap
    BY <1>7, Zenon DEF StartFails
  <2>2. m # n
    BY <1>1, <2>1, Zenon DEF AgDone, AgIdle
  <2> QED BY <1>1, <2>1, <2>2, Zenon DEF AgDone
<1>8. ASSUME NEW n \in Nodes, RuntimeRestart(n) PROVE Kept
  <2>1. PICK k : rt' = [rt EXCEPT ![n] = RuntimeRestarted(@, k)]
    BY <1>8, Zenon DEF RuntimeRestart
  <2>2. rt'[m].proc \in {NoProc, rt[m].proc}
    BY <1>1, <2>1, Zenon DEF RuntimeRestarted, Runtime
  <2>3. ag'[m] = ag[m] /\ snap' = snap
    BY <1>1, <1>8, Zenon DEF RuntimeRestart, AgIdle
  <2> QED BY <2>2, <2>3, Zenon
<1>9. ASSUME NEW n \in Nodes, ProcessExit(n) PROVE Kept
  <2>1. PICK p : rt' = [rt EXCEPT ![n] = [rt[n] EXCEPT !.live = rt[n].live \ {p}]]
    BY <1>9, Zenon DEF ProcessExit
  <2>2. [rt[n] EXCEPT !.live = rt[n].live \ {p}].proc = rt[n].proc
    BY <1>1, Zenon DEF Runtime
  <2>3. rt'[m].proc = rt[m].proc
    BY <1>1, <2>1, <2>2, Zenon
  <2> QED BY <1>9, <2>3, Zenon DEF ProcessExit
<1>10. ASSUME NEW n \in Nodes, AgentCrash(n) \/ OrphanReturns(n) PROVE FALSE
  BY <1>10, Zenon DEF AgentCrash, OrphanReturns, Happens, SnappedInv
<1> HIDE DEF Kept
<1> QED BY <1>a, <1>2, <1>3, <1>4, <1>5, <1>6, <1>7, <1>8, <1>9, <1>10, Zenon DEF Next, EnvStep

(* As long as no agent dies in a Start call, handleSuspending stops no     *)
(* process but the one whose memory it has just written to the suspend     *)
(* directory: whatever restarts of the runtime, exits of the process and   *)
(* late caches come between the two.                                       *)
THEOREM StopsWhatItSnapshotted ==
  ASSUME "crash" \notin Env
  PROVE  Spec => StopsOnlySnapshotted
<1>1. Init => SnappedInv
  BY DEF Init, SnappedInv, AgIdle
<1>2. TypeInv /\ SnappedInv /\ [Next]_vars => SnappedInv'
  BY SnappedStep, Zenon
<1>3. TypeInv /\ SnappedInv /\ [Next]_vars =>
        \A n \in Nodes : ag[n].pc = "snapped" /\ ag'[n].pc = "parked"
          => rt[n].live \ rt'[n].live \subseteq {snap[n]}
  <2> SUFFICES ASSUME TypeInv, SnappedInv, [Next]_vars, NEW n \in Nodes,
                      ag[n].pc = "snapped", ag'[n].pc = "parked"
               PROVE  rt[n].live \ rt'[n].live \subseteq {snap[n]}
    BY Zenon
  <2>1. /\ ag \in [Nodes -> [pc : AgPCs, obj : Maybe, pid : Pids \cup {0}]]
        /\ rt \in [Nodes -> Runtime(Pids)]
    BY Zenon DEF TypeInv, TypeOK
  <2>2. ASSUME NEW m \in Nodes, AgStep(m) \/ RtStep(m) PROVE AgSuspendStop(n)
    <3>1. (\E a : ag' = [ag EXCEPT ![m] = a]) \/ ag' = ag
      BY <2>2, Zenon DEF AgStep, RtStep, AgStartTimeout, AgScheduled, AgResuming, AgStarted,
         AgSuspendRequested, AgRunning, AgTerminating, AgClearOwnership, AgSnapshot, AgSuspendStop,
         AgParked, AgResume, StartReturns, StartRefused, AgGoto, AgDone, AgLastPatch
    <3>2. m = n
      BY <2>1, <3>1, Zenon
    <3> QED BY <2>2, <3>2, Zenon DEF AgStep, RtStep, AgStartTimeout, AgScheduled, AgResuming, AgStarted,
               AgSuspendRequested, AgRunning, AgTerminating, AgClearOwnership, AgSnapshot,
               AgParked, AgResume, StartReturns, StartRefused, AgReads
  <2>3. OpStep => ag' = ag
    BY Zenon DEF OpStep, OpAddFinalizer, OpResetRetries, OpResetStatus, OpSchedule, OpUnschedulable,
       OpAssign, OpAssigned, OpNodeLost, OpUnassigned, OpRestart, OpRestartElsewhere, OpExhausted,
       OpDropUnscheduled, OpDropAcknowledged, OpDropTimedOut, OpTerminate, OpPatch, OpPatchThen,
       OpLastPatch, OpFrame
  <2>4. EnvStep \/ (\E c \in Controllers : Deliver(c)) \/ UNCHANGED vars =>
          ag'[n] = ag[n] \/ ag'[n].pc = "idle"
    <3>1. EnvStep \/ (\E c \in Controllers : Deliver(c)) \/ UNCHANGED vars =>
            \/ ag' = ag
            \/ \E m \in Nodes : AgDone(m)
            \/ \E m \in Nodes : ag' = [ag EXCEPT ![m] = IF @.pc = "start" THEN AgIdle ELSE @]
      BY Zenon DEF EnvStep, Deliver, OpAbandoned, Delete, RequestReset, SetDesired, AgAbandoned,
         AgentCrash, OrphanReturns, StartFails, RuntimeRestart, ProcessExit, NodeReadyChanges, vars
    <3> QED BY <2>1, <3>1 DEF AgDone, AgIdle
  <2>5. AgSuspendStop(n)
    BY <2>2, <2>3, <2>4, Zenon DEF Next
  <2>6. rt'[n] = BackendStop(rt[n]) /\ rt[n] \in Runtime(Pids)
    BY <2>1, <2>5, Zenon DEF AgSuspendStop
  <2>7. rt[n].live \ rt'[n].live \subseteq {rt[n].proc.pid}
        /\ (rt[n].proc = NoProc => rt[n].live \ rt'[n].live = {})
    <3>1. /\ BackendStop(rt[n]).live = DriverStop(rt[n]).live
          /\ DriverStop(rt[n]).live \in {rt[n].live, rt[n].live \ {rt[n].proc.pid}}
          /\ rt[n].proc = NoProc => DriverStop(rt[n]).live = rt[n].live
      BY <2>6, Zenon DEF BackendStop, DriverStop, Runtime
    <3> QED BY <2>6, <3>1, Zenon
  <2> QED BY <2>7, Zenon DEF SnappedInv
<1>4. StopsOnlySnapshotted <=>
        [][\A n \in Nodes : ag[n].pc = "snapped" /\ ag'[n].pc = "parked"
             => rt[n].live \ rt'[n].live \subseteq {snap[n]}]_vars
  BY Zenon DEF StopsOnlySnapshotted
<1> QED BY <1>1, <1>2, <1>3, <1>4, TypeInvariant, PTL DEF Spec
=============================================================================
