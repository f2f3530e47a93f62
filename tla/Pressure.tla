------------------------------ MODULE Pressure ------------------------------
(***************************************************************************)
(* The operator's pressure sweep over one node, beside the agent that      *)
(* suspends and resumes: while the node is short of memory, one victim at  *)
(* a time gets the annotation and desiredState Suspended in one patch.     *)
(***************************************************************************)
EXTENDS ScaleToZero

CONSTANTS
  MemoryMiB,   \* per VM: the memory of its class
  Created,     \* per VM: its creation time
  WarmPool     \* the VMs with the warm-pool label

VARIABLES
  pressure,    \* the node's MemoryPressure condition
  sweep,       \* whether a sweep is queued, or due after its interval
  opCache,     \* the operator's copy of the VMs: Live, or what it was
  touched,     \* history: victims a user has set to something since
  manual       \* history: victims resumed the way the event says

opVars == <<pressure, sweep, opCache, touched, manual>>
vars == <<apiVars, runtimeVars, agentVars, events, history, opVars>>

PressureEnv == {"frame", "api", "rpc", "user", "vmexit", "replace", "crash", "runtime", "lag", "pressure", "manual"}
ASSUME EnvAssumption == Env \subseteq PressureEnv
ASSUME VictimAssumption ==
  MemoryMiB \in [VMs -> Nat] /\ Created \in [VMs -> Nat] /\ WarmPool \subseteq VMs

TypeOK ==
  /\ StzTypeOK
  /\ pressure \in BOOLEAN /\ sweep \in BOOLEAN
  /\ opCache = Live \/ opCache \in [VMs -> ImpVM]
  /\ touched \subseteq VMs /\ manual \subseteq VMs

PInit ==
  /\ Init
  /\ pressure = FALSE /\ sweep = FALSE /\ opCache = Live
  /\ touched = {} /\ manual = {}

OpVMs == IF opCache = Live THEN vm ELSE opCache
agent == <<runtimeVars, timer, work, samples, reg, channel, batch, history>>
-----------------------------------------------------------------------------
IsSafePressureVictim(c) == c.phase = "Running" /\ c.desired = "Running" /\ ~c.pressured

(* The order of the candidates: no warm-pool members first, then by        *)
(* memory, then the older.                                                 *)
Before(v, w) ==
  \/ v \notin WarmPool /\ w \in WarmPool
  \/ /\ v \in WarmPool <=> w \in WarmPool
     /\ \/ MemoryMiB[v] > MemoryMiB[w]
        \/ MemoryMiB[v] = MemoryMiB[w] /\ Created[v] < Created[w]

Candidates == {v \in VMs : IsSafePressureVictim(OpVMs[v])}
ElectVictim == {v \in Candidates : \A w \in Candidates : ~Before(w, v)}

(* Mutant: the victim is only marked.                                      *)
SuspendVictimMarked(v) == Patch(v, [vm[v] EXCEPT !.pressured = TRUE])

(* suspendVictim: annotation and desired state in one patch, against the   *)
(* copy the victim was elected from.                                       *)
SuspendVictim(v) == Patch(v, [vm[v] EXCEPT !.pressured = TRUE, !.desired = "Suspended"])

(* A sweep: without a victim it waits for the next change of the node.     *)
Sweep ==
  /\ sweep
  /\ \/ /\ ~pressure \/ Candidates = {}
        /\ sweep' = FALSE /\ UNCHANGED <<apiVars, todo, events, touched>>
     \/ /\ pressure
        /\ \E v \in ElectVictim :
             /\ SuspendVictim(v) /\ todo' = Notify(v, todo)
             /\ touched' = touched \ {v}
        /\ UNCHANGED <<sweep, events>>
     \/ /\ pressure /\ Candidates # {} /\ Happens("api")
        /\ UNCHANGED <<apiVars, todo, sweep, touched>>
  /\ UNCHANGED <<agent, pressure, opCache, manual>>

(* A change of the node, of its MemoryPressure or of anything else, queues *)
(* a sweep.                                                                *)
NodeChanges ==
  /\ \/ Happens("pressure") /\ pressure' = ~pressure
     \/ UNCHANGED <<pressure, events>>
  /\ sweep' = TRUE
  /\ UNCHANGED <<apiVars, agent, todo, opCache, touched, manual>>

(* A user sets a victim's desired state.                                   *)
UserSets(v, d) ==
  /\ SetDesiredState(v, d)
  /\ touched' = touched \cup {v} /\ manual' = manual \ {v}
  /\ UNCHANGED <<pressure, sweep, opCache>>

(* The manual resume of the event's message: the annotation is removed     *)
(* and the phase set to Resuming.                                          *)
ResumeManually(v) ==
  /\ Happens("manual") /\ vm[v].pressured /\ vm[v].phase = "Suspended"
  /\ Patch(v, [vm[v] EXCEPT !.pressured = FALSE, !.phase = "Resuming"]) /\ todo' = Notify(v, todo)
  /\ manual' = manual \cup {v}
  /\ UNCHANGED <<agent, pressure, sweep, opCache, touched>>

OpFreeze ==
  /\ Happens("lag") /\ opCache = Live /\ opCache' = vm
  /\ UNCHANGED <<apiVars, agent, todo, pressure, sweep, touched, manual>>

OpCatchUp ==
  /\ opCache # Live /\ opCache' = Live
  /\ UNCHANGED <<apiVars, agent, todo, events, pressure, sweep, touched, manual>>
-----------------------------------------------------------------------------
Handle(v) ==
  HandleRunning(v) \/ HandleSuspending(v) \/ HandleSuspended(v) \/ HandleResuming(v) \/ Ignore(v)
Steps == PatchSuspending \/ PatchSuspended \/ RegisterWake \/ PatchRunning \/ ClearWake
Faults(v) == GuestDies(v) \/ Renew(v)

Next ==
  \/ /\ \/ \E v \in VMs : Handle(v) \/ Fire(v) \/ Faults(v)
        \/ Steps
        \/ \E ip \in IPs : OnDstIP(ip) \/ Frame(ip)
        \/ Dispatch \/ WakeHits \/ WakeHitsLost \/ Tick
        \/ AgCrash \/ RuntimeRestart \/ AgFreeze \/ AgCatchUp
     /\ UNCHANGED opVars
  \/ Sweep \/ NodeChanges \/ OpFreeze \/ OpCatchUp
  \/ \E v \in VMs : ResumeManually(v) \/ \E d \in VMDesiredState : UserSets(v, d)

Spec == PInit /\ [][Next]_vars
-----------------------------------------------------------------------------
(* Nothing of v is queued, under way or unseen in the agent.               *)
AtRest(v) == agCache = Live /\ v \notin todo /\ work.v # v /\ v \notin Range(channel)

(* StaysWakeable: a VM that is suspended and waits for traffic has not     *)
(* been signalled in vain, as a full channel, a stale copy or a failed     *)
(* patch only delays its resume (onDstIP, handleSuspended); and it is in   *)
(* the registry under the address of its status, whatever other VMs were   *)
(* suspended or resumed meanwhile, except when the agent restarted, a user *)
(* set it to ScaleToZero only then, or another VM was registered at the    *)
(* address that Stop had released (handleSuspending, register, clear).     *)
StaysWakeable ==
  \A v \in VMs : AtRest(v) /\ vm[v].phase = "Suspended" /\ vm[v].desired = "ScaleToZero" =>
    /\ v \notin reg.signalled
    /\ v \notin cut => Registered(v) /\ reg.ipByKey[v] = vm[v].ip

(* IdleGrace: a VM leaves Running for Suspending only at the wish of its   *)
(* desiredState or after a probe that found it idle, and a probe finds it  *)
(* idle only after a full idleTimeout without traffic, counted from its    *)
(* resume too (observe, maybeSuspendIdle); except a VM that was started    *)
(* anew and shows the very counter of its old sample.  Traffic between the *)
(* probe and the patch does not stop the suspension.                       *)
IdleGrace ==
  [][\A v \in VMs :
       /\ vm[v].phase = "Running" /\ vm'[v].phase = "Suspending" =>
            (work.pc = "probed" /\ work.v = v) \/ AgVMs[v].desired = "Suspended"
       /\ work.pc = "idle" /\ work'.pc = "probed" /\ work'.v = v /\ v \notin renewed =>
            quiet[v] >= IdleTimeout]_vars

(* PressureHolds: a victim is suspended and nothing resumes it by itself:  *)
(* not traffic, not a stale agent, not a restart (annotation of            *)
(* suspendVictim, handleRunning, handleSuspended).                         *)
PressureHolds ==
  \A v \in VMs : AtRest(v) /\ vm[v].pressured /\ v \notin touched
                 => vm[v].phase \notin {"Running", "Resuming"}

(* WakesOnPacket: "first packet -> resume": a suspended ScaleToZero VM     *)
(* whose address a captured frame was for does not stay suspended.         *)
WakesOnPacket ==
  \A v \in VMs : /\ AtRest(v) /\ hits = {} /\ batch = {} /\ v \in called
                 => ~(vm[v].phase = "Suspended" /\ vm[v].desired = "ScaleToZero")

(* ManualResumeHolds: a victim resumed the way the event says is Running   *)
(* in the end.                                                             *)
ManualResumeHolds ==
  \A v \in VMs : AtRest(v) /\ v \in manual => vm[v].phase = "Running"
=============================================================================
