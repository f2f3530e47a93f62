----------------------------- MODULE RunnerPool -----------------------------
(***************************************************************************)
(* The operator's ImpVMRunnerPoolReconciler and ImpWarmPoolReconciler: a   *)
(* pool creates the VMs it lacks, counting those it sees in its cache.  A  *)
(* runner VM is created in three writes: the VM, the Secret with its       *)
(* one-time configuration, and the reference from the VM to the Secret.    *)
(*                                                                         *)
(* A cache is Live or shows the VMs as they were when it began to lag.     *)
(***************************************************************************)
EXTENDS Naturals, FiniteSets

CONSTANTS
  VMs,         \* the VMs that may be created
  None,
  Live,        \* a cache that shows the current objects
  PoolSpecs,   \* the pools considered
  MaxDemand,   \* bound: the queue depth and the demand of a webhook
  Env,         \* the kinds of disturbance that may happen
  MaxEvents    \* bound: disturbances in a behaviour

ASSUME BoundAssumption == MaxDemand \in Nat /\ MaxEvents \in Nat
ASSUME VMsAssumption == IsFiniteSet(VMs)
ASSUME NoneAssumption == None \notin {0, 1}

RunnerScalingMode == {"", "webhook", "polling", "hybrid"}
RunnerScalingSpec ==
  [kind : {"runner"}, mode : RunnerScalingMode, minIdle : Nat \cup {None},
   maxConcurrent : (Nat \ {0}) \cup {None}, scaleUpStep : (Nat \ {0}) \cup {None},
   jdWebhook : BOOLEAN, jdPolling : BOOLEAN]   \* spec.jobDetection, deprecated
ImpWarmPoolSpec == [kind : {"warm"}, size : Nat]

ASSUME PoolAssumption == PoolSpecs \subseteq RunnerScalingSpec \cup ImpWarmPoolSpec

VARIABLES
  pool,       \* the spec of the pool
  elected,    \* warm: the snapshot has a base
  vm,         \* the VMs
  secret,     \* per VM: its Secret is "none", "stored" or "deleted"
  queued,     \* the pool is in the operator's queue
  op,         \* a pass of the pool under way, or Idle
  opCache,    \* the VMs the operator's cache is behind with, or Live
  todo,       \* the VMs in the agent's queue
  agCache,    \* the VMs the agent's cache is behind with, or Live
  overcount,  \* history: VMs were created after counting an outdated copy
  stranded,   \* history: VMs whose creation was neither finished nor undone
  returned,   \* history: VMs that were Failed and restarted
  events      \* disturbances so far

poolVars == <<pool, elected, vm, secret, queued, op, opCache, overcount, stranded, returned>>

Terminal == {"Succeeded", "Failed"}
ImpVM ==
  [phase : {"absent", "Pending", "Running", "Terminating", "gone"} \cup Terminal,
   deleting : BOOLEAN,
   ref : BOOLEAN,            \* spec.runnerConfigSecret is set
   accepted : BOOLEAN,       \* status.runnerHandoffAccepted
   exit : {0, 1, None}]      \* status.runnerExitCode
Absent == [phase |-> "absent", deleting |-> FALSE, ref |-> FALSE, accepted |-> FALSE, exit |-> None]
Exists(v) == vm[v].phase \notin {"absent", "gone"}

Idle == [pc |-> "idle"]
Pass ==
  [pc : {"create"}, left : Nat \ {0}] \cup [pc : {"mint", "patch"}, vm : VMs, left : Nat \ {0}]

PoolTypeOK ==
  /\ pool \in PoolSpecs /\ elected \in BOOLEAN
  /\ vm \in [VMs -> ImpVM] /\ secret \in [VMs -> {"none", "stored", "deleted"}]
  /\ queued \in BOOLEAN /\ op \in Pass \cup {Idle}
  /\ opCache = Live \/ opCache \in [VMs -> ImpVM]
  /\ agCache = Live \/ agCache \in [VMs -> ImpVM]
  /\ todo \subseteq VMs /\ stranded \subseteq VMs /\ returned \subseteq VMs
  /\ overcount \in BOOLEAN /\ events \in Nat

PoolInit ==
  /\ pool \in PoolSpecs /\ elected = FALSE
  /\ vm = [v \in VMs |-> Absent] /\ secret = [v \in VMs |-> "none"]
  /\ queued = TRUE /\ op = Idle /\ opCache = Live
  /\ todo = {} /\ agCache = Live
  /\ overcount = FALSE /\ stranded = {} /\ returned = {} /\ events = 0

Happens(kind) == kind \in Env /\ events < MaxEvents /\ events' = events + 1

OpVMs == IF opCache = Live THEN vm ELSE opCache
AgVMs == IF agCache = Live THEN vm ELSE agCache

(* A change of the VMs in S is an event to the agent and to the pool, when *)
(* their caches show it.                                                   *)
ToAgent(S) == todo' = IF agCache = Live THEN todo \cup S ELSE todo
ToPool == queued' = (queued \/ opCache = Live)
-----------------------------------------------------------------------------
(* resolveRunnerScaling: the defaults, and the demand signals in use.      *)
Mode(s) ==
  IF s.mode # "" THEN s.mode
  ELSE CASE s.jdWebhook /\ s.jdPolling -> "hybrid"
         [] s.jdPolling /\ ~s.jdWebhook -> "polling"
         [] s.jdWebhook /\ ~s.jdPolling -> "webhook"
         [] OTHER -> ""

OrElse(x, default) == IF x = None THEN default ELSE x
ResolveRunnerScaling(s) ==
  [minIdle |-> OrElse(s.minIdle, 0), maxConcurrent |-> OrElse(s.maxConcurrent, 10),
   scaleUpStep |-> OrElse(s.scaleUpStep, 10),
   polling |-> Mode(s) \in {"polling", "hybrid"}, webhook |-> Mode(s) \in {"webhook", "hybrid"}]

Least(S) == CHOOSE x \in S : \A y \in S : x <= y
Greatest(S) == CHOOSE x \in S : \A y \in S : x >= y
Minus(a, b) == IF a > b THEN a - b ELSE 0

(* The members that are not terminal; one being deleted still counts.      *)
Active(c) == {v \in VMs : c[v].phase \notin Terminal \cup {"absent", "gone"}}

(* Mutant: the cap is not applied to what is there already.                *)
ToCreateUncapped(active, depth, demand) ==
  IF pool.kind = "warm" THEN Minus(pool.size, active)
  ELSE LET s == ResolveRunnerScaling(pool)
           desired == Greatest({s.minIdle, IF s.polling THEN depth ELSE 0, IF s.webhook THEN demand ELSE 0})
       IN  Least({Minus(desired, active), s.maxConcurrent, s.scaleUpStep})

(* The VMs missing to the size of a warm pool, or to the largest of the    *)
(* idle runners, the queue depth and the demand of the webhook, within     *)
(* maxConcurrent and scaleUpStep.                                          *)
ToCreate(active, depth, demand) ==
  IF pool.kind = "warm" THEN Minus(pool.size, active)
  ELSE LET s == ResolveRunnerScaling(pool)
           desired == Greatest({s.minIdle, IF s.polling THEN depth ELSE 0, IF s.webhook THEN demand ELSE 0})
       IN  Least({Minus(desired, active), Minus(s.maxConcurrent, active), s.scaleUpStep})

(* What a pass may find missing, by what it reads of queue and webhook.    *)
Creations ==
  {ToCreate(Cardinality(Active(OpVMs)), depth, demand) : depth, demand \in 0..MaxDemand}

(* Reconcile up to the creations: a runner pool deletes its terminal VMs,  *)
(* which are single-use, and both count the members.  A warm pool waits    *)
(* for the election of a base.  A depth that cannot be read counts as 0.   *)
Reconcile ==
  /\ queued /\ op = Idle
  /\ pool.kind = "warm" => elected
  /\ LET dead == {v \in VMs : OpVMs[v].phase \in Terminal /\ ~OpVMs[v].deleting /\ pool.kind = "runner"}
     IN  /\ vm' = [v \in VMs |-> IF v \in dead /\ Exists(v) THEN [vm[v] EXCEPT !.deleting = TRUE] ELSE vm[v]]
         /\ ToAgent({v \in VMs : vm'[v] # vm[v]})
         /\ queued' = (vm' # vm /\ opCache = Live)
  /\ \E n \in Creations :
       /\ op' = IF n = 0 THEN Idle ELSE [pc |-> "create", left |-> n]
       /\ overcount' = (overcount \/ (n > 0 /\ OpVMs # vm))
  /\ UNCHANGED <<pool, elected, secret, opCache, agCache, stranded, returned, events>>

Wait ==
  /\ queued /\ op = Idle /\ pool.kind = "warm" /\ ~elected
  /\ queued' = FALSE
  /\ UNCHANGED <<pool, elected, vm, secret, op, opCache, todo, agCache, overcount, stranded,
                 returned, events>>

(* The pass goes on with the next creation, or ends; an error ends it and  *)
(* has the pool reconciled again.                                          *)
Continue(left) ==
  op' = IF left = 1 THEN Idle ELSE [pc |-> "create", left |-> left - 1]
GiveUp == op' = Idle /\ queued' = TRUE

(* createPoolMember, and the first write of createRunnerVM.                *)
CreateVM ==
  /\ op.pc = "create"
  /\ \/ \E v \in VMs :
          /\ vm[v].phase = "absent"
          /\ vm' = [vm EXCEPT ![v].phase = "Pending"]
          /\ IF pool.kind = "warm" THEN Continue(op.left)
             ELSE op' = [pc |-> "mint", vm |-> v, left |-> op.left]
          /\ ToAgent({v}) /\ ToPool
          /\ UNCHANGED events
     \/ GiveUp /\ Happens("api") /\ UNCHANGED <<vm, todo>>
  /\ UNCHANGED <<pool, elected, secret, opCache, agCache, overcount, stranded, returned>>

(* Mutant: a VM without its configuration is left to the next pass.        *)
NoRollback(v) == UNCHANGED <<vm, todo, stranded>>

(* The rollback of createRunnerVM: a deletion whose error is ignored.      *)
Rollback(v) ==
  \/ /\ vm' = [vm EXCEPT ![v].deleting = Exists(v)]
     /\ ToAgent({v}) /\ UNCHANGED stranded
  \/ /\ stranded' = stranded \cup {v} /\ UNCHANGED <<vm, todo>>

(* mintRunnerConfig: the configuration from the CI platform and its Secret,*)
(* owned by the VM and named by the VM's UID, so that no other has it.     *)
MintRunnerConfig ==
  /\ op.pc = "mint"
  /\ \/ /\ secret' = [secret EXCEPT ![op.vm] = "stored"]
        /\ op' = [op EXCEPT !.pc = "patch"]
        /\ UNCHANGED <<vm, todo, queued, stranded, events>>
     \/ /\ Happens("api") /\ GiveUp /\ Rollback(op.vm) /\ UNCHANGED secret
  /\ UNCHANGED <<pool, elected, opCache, agCache, overcount, returned>>

(* patchRunnerSecretReference.  The VM may be gone by then.                *)
PatchRunnerSecretReference ==
  /\ op.pc = "patch"
  /\ \/ /\ Exists(op.vm)
        /\ vm' = [vm EXCEPT ![op.vm].ref = TRUE]
        /\ Continue(op.left) /\ ToAgent({op.vm}) /\ ToPool
        /\ UNCHANGED <<stranded, events>>
     \/ /\ IF Exists(op.vm) THEN Happens("api") ELSE UNCHANGED events
        /\ GiveUp /\ Rollback(op.vm)
  /\ UNCHANGED <<pool, elected, secret, opCache, agCache, overcount, returned>>

(* The operator dies; the next one lists everything.                       *)
OpCrash ==
  /\ op # Idle /\ Happens("opcrash")
  /\ op' = Idle /\ queued' = TRUE /\ opCache' = Live
  /\ stranded' = IF op.pc \in {"mint", "patch"} THEN stranded \cup {op.vm} ELSE stranded
  /\ UNCHANGED <<pool, elected, vm, secret, todo, agCache, overcount, returned>>

(* RequeueAfter: the polling interval, the cooldown or 30 seconds.         *)
PoolTimer ==
  /\ ~queued /\ op = Idle
  /\ queued' = TRUE
  /\ UNCHANGED <<pool, elected, vm, secret, op, opCache, todo, agCache, overcount, stranded,
                 returned, events>>

(* reconcileExpiry: the operator deletes a VM that has been running for    *)
(* spec.expireAfter.                                                       *)
Expire(v) ==
  /\ vm[v].phase = "Running" /\ ~vm[v].deleting /\ Happens("expire")
  /\ vm' = [vm EXCEPT ![v].deleting = TRUE]
  /\ ToAgent({v}) /\ ToPool
  /\ UNCHANGED <<pool, elected, secret, op, opCache, agCache, overcount, stranded, returned>>

(* handleFailed: a Failed VM with restarts left, by the policy of the      *)
(* template, of the class or its own, is to start again.                   *)
HandleFailed(v) ==
  /\ OpVMs[v].phase = "Failed" /\ ~OpVMs[v].deleting /\ Exists(v) /\ Happens("restart")
  /\ vm' = [vm EXCEPT ![v].phase = "Pending"] /\ returned' = returned \cup {v}
  /\ ToAgent({v}) /\ ToPool
  /\ UNCHANGED <<pool, elected, secret, op, opCache, agCache, overcount, stranded>>

(* A user elects a base snapshot for the warm pool, which no event tells   *)
(* it: it is seen when the requeue of 30 seconds is due.                   *)
ElectBase ==
  /\ pool.kind = "warm" /\ ~elected
  /\ elected' = TRUE /\ queued' = TRUE
  /\ UNCHANGED <<pool, vm, secret, op, opCache, todo, agCache, overcount, stranded,
                 returned, events>>

OpFreeze ==
  /\ opCache = Live /\ Happens("lag") /\ opCache' = vm
  /\ UNCHANGED <<pool, elected, vm, secret, queued, op, todo, agCache, overcount, stranded,
                 returned>>

OpCatchUp ==
  /\ opCache # Live /\ opCache' = Live /\ queued' = (queued \/ opCache # vm)
  /\ UNCHANGED <<pool, elected, vm, secret, op, todo, agCache, overcount, stranded,
                 returned, events>>

PoolNext ==
  \/ Reconcile \/ Wait \/ CreateVM \/ MintRunnerConfig \/ PatchRunnerSecretReference
  \/ \E v \in VMs : Expire(v) \/ HandleFailed(v)
  \/ OpCrash \/ PoolTimer \/ ElectBase \/ OpFreeze \/ OpCatchUp
-----------------------------------------------------------------------------
(* The hard cap on simultaneous members: beside those that were restarted, *)
(* whose place was given away while they were Failed, a pool never has     *)
(* more that are to start or run than maxConcurrent or size, unless it     *)
(* created VMs after counting an outdated copy.                            *)
PoolBounded ==
  ~overcount =>
    Cardinality({v \in VMs \ returned :
                   vm[v].phase \in {"Pending", "Running"} /\ ~vm[v].deleting}) <=
      IF pool.kind = "warm" THEN pool.size ELSE ResolveRunnerScaling(pool).maxConcurrent

PoolSettled == ~queued /\ op = Idle /\ opCache = Live

(* When the pool has nothing left to do it has the members it promises:    *)
(* terminal ones were replaced, as far as the model has VMs to create, and *)
(* every runner VM that is not being deleted has its configuration, unless *)
(* the operator died in its creation or the rollback failed: a VM without  *)
(* one can never accept work.                                              *)
PoolSettles ==
  PoolSettled =>
    /\ (\E v \in VMs : vm[v].phase = "absent") =>
         LET n == Cardinality({v \in VMs : vm[v].phase \in {"Pending", "Running", "Terminating"}})
         IN  IF pool.kind = "warm" THEN elected => n >= pool.size
             ELSE LET s == ResolveRunnerScaling(pool) IN n >= Least({s.minIdle, s.maxConcurrent})
    /\ pool.kind = "runner" =>
         \A v \in VMs \ stranded : vm[v].phase \in {"Pending", "Running"} => vm[v].ref \/ vm[v].deleting
=============================================================================
