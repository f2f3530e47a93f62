---------------------------- MODULE RunnerLaunch ----------------------------
(***************************************************************************)
(* The agent's side of a runner VM: maybeLaunchRunner hands the one-time   *)
(* configuration to the guest in a goroutine, Launcher.Run, which lives as *)
(* long as the runner and then marks the VM.  Of the rest of the VM's life *)
(* there is its start, the end of its process and its termination.         *)
(***************************************************************************)
EXTENDS RunnerPool

VARIABLES
  guest,     \* per VM: "off", "up", "busy" with the runner, "over" or "dead"
  code,      \* per VM: the exit code of the runner that is over
  runs,      \* per VM: how often the runner was started
  launch,    \* per VM: the goroutine in Launcher.Run
  marks,     \* per VM: the results of those that have returned and not yet marked it
  outdated,  \* history: VMs launched from an outdated copy
  kept,      \* history: VMs whose Secret could not be deleted after the handoff
  unmarked   \* history: VMs whose handoff ended without the mark it calls for

launchVars == <<guest, code, runs, launch, marks, outdated, kept, unmarked>>
vars == <<poolVars, todo, agCache, events, launchVars>>

LaunchEnv ==
  {"lag", "api", "opcrash", "dial", "rpc", "crash", "vmexit", "startfail", "expire", "restart"}
ASSUME EnvAssumption == Env \subseteq LaunchEnv

Results == {"ok", "err"}
Launch ==
  [pc : {"idle", "get", "accept", "exec", "wait", "record"}, res : {"none"}]
    \cup [pc : {"cleanup"}, res : Results]
NoLaunch == [pc |-> "idle", res |-> "none"]

TypeOK ==
  /\ PoolTypeOK
  /\ guest \in [VMs -> {"off", "up", "busy", "over", "dead"}]
  /\ code \in [VMs -> {0, 1}] /\ runs \in [VMs -> Nat]
  /\ launch \in [VMs -> Launch] /\ marks \in [VMs -> SUBSET Results]
  /\ outdated \subseteq VMs /\ kept \subseteq VMs /\ unmarked \subseteq VMs

Init ==
  /\ PoolInit
  /\ guest = [v \in VMs |-> "off"] /\ code = [v \in VMs |-> 0] /\ runs = [v \in VMs |-> 0]
  /\ launch = [v \in VMs |-> NoLaunch] /\ marks = [v \in VMs |-> {}]
  /\ outdated = {} /\ kept = {} /\ unmarked = {}

(* A write of the agent to VM v, and its event.                            *)
Write(v, new) ==
  /\ vm' = [vm EXCEPT ![v] = new]
  /\ todo' = IF agCache = Live /\ new # vm[v] THEN todo \cup {v} ELSE todo
  /\ queued' = (queued \/ (opCache = Live /\ new # vm[v]))
Unwritten == UNCHANGED <<vm, todo, queued>>
poolRest == <<pool, elected, op, opCache, agCache, overcount, stranded, returned>>
-----------------------------------------------------------------------------
(* Mutant: a restart after the marker replays.                             *)
BeginAnyway(c) == IF c.exit = None THEN [pc |-> "get", res |-> "none"] ELSE NoLaunch

(* Launcher.Run up to the Secret: a copy with a marker ends it at once ... *)
Begin(c) ==
  IF c.exit = None /\ ~c.accepted THEN [pc |-> "get", res |-> "none"] ELSE NoLaunch

(* ... with the recorded code, or with an error.  A code other than 0 is   *)
(* a result without an error, on which maybeLaunchRunner does nothing.     *)
Verdict(c) ==
  IF c.exit = 0 THEN {"ok"} ELSE IF c.exit = None /\ c.accepted THEN {"err"} ELSE {}

(* Mutant: the handoff is not tried.                                       *)
DontLaunch(v, c) == UNCHANGED <<launch, marks>>

(* maybeLaunchRunner, with the launches under way kept apart: a VM is      *)
(* launched while no Launcher.Run has it.                                  *)
MaybeLaunchRunner(v, c) ==
  IF c.ref /\ launch[v] = NoLaunch
  THEN /\ launch' = [launch EXCEPT ![v] = Begin(c)]
       /\ marks' = [marks EXCEPT ![v] = @ \cup Verdict(c)]
  ELSE UNCHANGED <<launch, marks>>

(* It does not find the guest's VSOCK, or the runtime does not answer:     *)
(* the VM is to be Failed, and an error of that is only logged.            *)
NoVSOCK(v, c, failed, otherwise) ==
  /\ c.ref /\ Happens("rpc") /\ UNCHANGED <<launch, marks>>
  /\ \/ failed /\ UNCHANGED unmarked
     \/ otherwise /\ unmarked' = unmarked \cup {v}

(* handleScheduled: the VM starts, and its status as the API server        *)
(* returned it is what the launch is given.  (A second start from an       *)
(* outdated copy is in VMLifecycle.)                                       *)
HandleScheduled(v) ==
  LET new == [vm[v] EXCEPT !.phase = "Running"]
      failed == [vm[v] EXCEPT !.phase = "Failed"]
  IN  /\ v \in todo /\ AgVMs[v].phase = "Pending" /\ vm[v].phase = "Pending" /\ ~vm[v].deleting
      /\ \/ /\ Write(v, new) /\ MaybeLaunchRunner(v, new)
            /\ guest' = [guest EXCEPT ![v] = "up"]
            /\ UNCHANGED <<unmarked, events>>
         \/ NoVSOCK(v, new, Write(v, failed), Write(v, new)) /\ guest' = [guest EXCEPT ![v] = "up"]
         \/ Happens("startfail") /\ Write(v, failed)
            /\ UNCHANGED <<guest, launch, marks, unmarked>>
      /\ UNCHANGED <<poolRest, secret, code, runs, outdated, kept>>

(* The process is looked at in handleRunning; an ephemeral VM whose        *)
(* process is gone is Succeeded.                                           *)
Settle(v, alive) ==
  LET phase == IF guest[v] = "dead" THEN "Succeeded" ELSE alive
  IN  IF Exists(v) /\ phase # AgVMs[v].phase
      THEN /\ vm' = [vm EXCEPT ![v].phase = phase]
           /\ todo' = IF agCache = Live THEN todo ELSE todo \ {v}
           /\ ToPool
      ELSE todo' = todo \ {v} /\ UNCHANGED <<vm, queued>>

(* handleRunning: the handoff is tried again, then the process is checked. *)
HandleRunning(v) ==
  LET c == AgVMs[v]
  IN  /\ v \in todo /\ c.phase = "Running"
      /\ \/ /\ MaybeLaunchRunner(v, c) /\ Settle(v, "Running")
            /\ outdated' = IF c.ref /\ launch[v] = NoLaunch /\ c # vm[v]
                           THEN outdated \cup {v} ELSE outdated
            /\ UNCHANGED <<unmarked, events>>
         \/ NoVSOCK(v, c, Settle(v, "Failed"), Settle(v, "Running")) /\ UNCHANGED outdated
      /\ UNCHANGED <<poolRest, secret, guest, code, runs, kept>>

(* Pending without a node, Succeeded and Failed are not the agent's.       *)
Ignore(v) ==
  /\ v \in todo /\ AgVMs[v].phase \notin {"Running", "Pending", "Terminating"}
  /\ todo' = todo \ {v}
  /\ UNCHANGED <<poolVars, agCache, launchVars, events>>

(* handleDeletion of the operator, and handleTerminating: the process is   *)
(* stopped, the object goes, and its Secret with it.                       *)
HandleDeletion(v) ==
  /\ vm[v].deleting /\ Exists(v) /\ vm[v].phase # "Terminating"
  /\ Write(v, [vm[v] EXCEPT !.phase = "Terminating"])
  /\ UNCHANGED <<poolRest, secret, launchVars, events>>

HandleTerminating(v) ==
  /\ vm[v].phase = "Terminating"
  /\ vm' = [vm EXCEPT ![v].phase = "gone"] /\ todo' = todo \ {v} /\ ToPool
  /\ guest' = [guest EXCEPT ![v] = "dead"]
  /\ secret' = [secret EXCEPT ![v] = IF @ = "stored" THEN "deleted" ELSE @]
  /\ UNCHANGED <<poolRest, code, runs, launch, marks, outdated, kept, unmarked, events>>
-----------------------------------------------------------------------------
(* Launcher.Run from the Secret on.                                        *)

Goes(v, pc) == launch' = [launch EXCEPT ![v].pc = pc] /\ UNCHANGED marks
CleansUp(v, res) ==
  launch' = [launch EXCEPT ![v] = [pc |-> "cleanup", res |-> res]] /\ UNCHANGED marks

(* It returns, which lets the next one begin, and has the VM marked.       *)
Returns(v, res) ==
  launch' = [launch EXCEPT ![v] = NoLaunch] /\ marks' = [marks EXCEPT ![v] = @ \cup {res}]

(* The Secret is read past the cache, and the guest dialled.               *)
GetSecretAndDial(v) ==
  /\ launch[v].pc = "get"
  /\ \/ secret[v] = "stored" /\ guest[v] # "dead" /\ Goes(v, "accept") /\ UNCHANGED events
     \/ secret[v] # "stored" /\ Returns(v, "err") /\ UNCHANGED events
     \/ secret[v] = "stored" /\ Returns(v, "err")
        /\ IF guest[v] = "dead" THEN UNCHANGED events ELSE Happens("dial")
  /\ UNCHANGED <<poolVars, todo, agCache, guest, code, runs, outdated, kept, unmarked>>

RecordAccepted(v) ==
  /\ launch[v].pc = "accept"
  /\ \/ Exists(v) /\ Write(v, [vm[v] EXCEPT !.accepted = TRUE]) /\ Goes(v, "exec")
        /\ UNCHANGED events
     \/ Unwritten /\ Returns(v, "err")
        /\ IF Exists(v) THEN Happens("api") ELSE UNCHANGED events
  /\ UNCHANGED <<poolRest, secret, guest, code, runs, outdated, kept, unmarked>>

(* The guest starts the runner; a guest that is gone answers with an error.*)
Exec(v) ==
  /\ launch[v].pc = "exec"
  /\ IF guest[v] = "dead" THEN CleansUp(v, "err") /\ UNCHANGED <<guest, runs>>
     ELSE /\ Goes(v, "wait")
          /\ guest' = [guest EXCEPT ![v] = "busy"] /\ runs' = [runs EXCEPT ![v] = @ + 1]
  /\ UNCHANGED <<poolVars, todo, agCache, code, outdated, kept, unmarked, events>>

(* The runner is over and Exec returns its code, or Exec fails and whether *)
(* the runner still runs is not known.  The guest of a VM that was started *)
(* again in the meantime is another one; that of the call ends somehow.    *)
ExecReturns(v) ==
  /\ launch[v].pc = "wait"
  /\ \/ guest[v] = "over" /\ Goes(v, "record") /\ UNCHANGED <<code, events>>
     \/ guest[v] \in {"dead", "up"} /\ CleansUp(v, "err") /\ UNCHANGED <<code, events>>
     \/ guest[v] = "up" /\ Goes(v, "record") /\ (\E x \in {0, 1} : code' = [code EXCEPT ![v] = x])
        /\ UNCHANGED events
     \/ guest[v] = "busy" /\ CleansUp(v, "err") /\ Happens("rpc") /\ UNCHANGED code
  /\ UNCHANGED <<poolVars, todo, agCache, guest, runs, outdated, kept, unmarked>>

(* recordOutcome, whose error is only logged.                              *)
RecordOutcome(v) ==
  /\ launch[v].pc = "record"
  /\ CleansUp(v, IF code[v] = 0 THEN "ok" ELSE "err")
  /\ \/ Exists(v) /\ Write(v, [vm[v] EXCEPT !.exit = code[v]]) /\ UNCHANGED events
     \/ Unwritten /\ IF Exists(v) THEN Happens("api") ELSE UNCHANGED events
  /\ UNCHANGED <<poolRest, secret, guest, code, runs, outdated, kept, unmarked>>

(* The Secret is deleted; an error of that is only logged.                 *)
DeleteSecret(v) ==
  /\ launch[v].pc = "cleanup" /\ Returns(v, launch[v].res)
  /\ \/ secret' = [secret EXCEPT ![v] = "deleted"] /\ UNCHANGED <<kept, events>>
     \/ secret[v] = "stored" /\ Happens("api") /\ kept' = kept \cup {v} /\ UNCHANGED secret
  /\ UNCHANGED <<poolRest, vm, queued, todo, guest, code, runs, outdated, unmarked>>

(* finishRunnerLaunchSucceeded and finishRunnerLaunchFailed, which look at *)
(* the VM in the cache; an error of the patch is only logged.              *)
FinishRunnerLaunch(v) ==
  \E res \in marks[v] :
    /\ marks' = [marks EXCEPT ![v] = @ \ {res}]
    /\ IF AgVMs[v].phase \in Terminal \cup {"Terminating", "absent", "gone"} \/ ~Exists(v)
       THEN Unwritten /\ UNCHANGED <<unmarked, events>>
       ELSE \/ /\ Write(v, [vm[v] EXCEPT !.phase = IF res = "ok" THEN "Succeeded" ELSE "Failed"])
               /\ UNCHANGED <<unmarked, events>>
            \/ Unwritten /\ unmarked' = unmarked \cup {v} /\ Happens("api")
    /\ UNCHANGED <<poolRest, secret, guest, code, runs, launch, outdated, kept>>
-----------------------------------------------------------------------------
(* The guest and the agent's process.                                      *)

RunnerExits(v) ==
  /\ guest[v] = "busy"
  /\ guest' = [guest EXCEPT ![v] = "over"]
  /\ \E x \in {0, 1} : code' = [code EXCEPT ![v] = x]
  /\ UNCHANGED <<poolVars, todo, agCache, runs, launch, marks, outdated, kept, unmarked, events>>

GuestDies(v) ==
  /\ guest[v] \in {"up", "busy", "over"} /\ Happens("vmexit")
  /\ guest' = [guest EXCEPT ![v] = "dead"]
  /\ UNCHANGED <<poolVars, todo, agCache, code, runs, launch, marks, outdated, kept, unmarked>>

(* The agent dies and its goroutines with it; the guests live on in the    *)
(* node runtime.  A recorded code other than 0 will not be acted on.       *)
AgCrash ==
  /\ \E v \in VMs : launch[v] # NoLaunch \/ marks[v] # {}
  /\ Happens("crash")
  /\ launch' = [v \in VMs |-> NoLaunch] /\ marks' = [v \in VMs |-> {}]
  /\ agCache' = Live /\ todo' = {v \in VMs : Exists(v)}
  /\ unmarked' = unmarked \cup
       {v \in VMs : (launch[v].pc = "cleanup" \/ marks[v] # {}) /\ vm[v].exit = 1}
  /\ UNCHANGED <<poolVars, guest, code, runs, outdated, kept>>

AgFreeze ==
  /\ agCache = Live /\ Happens("lag") /\ agCache' = vm
  /\ UNCHANGED <<poolVars, todo, launchVars>>

AgCatchUp ==
  /\ agCache # Live /\ agCache' = Live
  /\ todo' = todo \cup {v \in VMs : agCache[v] # vm[v] /\ Exists(v)}
  /\ UNCHANGED <<poolVars, launchVars, events>>

Next ==
  \/ PoolNext /\ UNCHANGED launchVars
  \/ \E v \in VMs :
       \/ HandleScheduled(v) \/ HandleRunning(v) \/ Ignore(v)
       \/ HandleDeletion(v) \/ HandleTerminating(v)
       \/ GetSecretAndDial(v) \/ RecordAccepted(v) \/ Exec(v) \/ ExecReturns(v)
       \/ RecordOutcome(v) \/ DeleteSecret(v) \/ FinishRunnerLaunch(v)
       \/ RunnerExits(v) \/ GuestDies(v)
  \/ AgCrash \/ AgFreeze \/ AgCatchUp

Spec == Init /\ [][Next]_vars
-----------------------------------------------------------------------------
(* The payload is one-time and is not replayed after an ambiguous handoff: *)
(* a runner is started at most once, through crashes of the agent, lost    *)
(* answers and retries, unless a launch was given an outdated copy and the *)
(* Secret of the handoff before could not be deleted.                      *)
HandedOverOnce == \A v \in VMs : runs[v] > 1 => v \in outdated \cap kept

LaunchSettled ==
  /\ todo = {} /\ agCache = Live
  /\ \A v \in VMs : /\ launch[v] = NoLaunch \/ (launch[v].pc = "wait" /\ guest[v] = "busy")
                    /\ marks[v] = {}

(* A runner whose handoff is over, or can never be, does not stay Running: *)
(* when the agent has nothing left to do, the launcher of every Running VM *)
(* with a configuration waits for a runner at work.  Except where the mark *)
(* could not be written, the agent died after it had recorded a failure,   *)
(* or the VM was restarted after that.                                     *)
RunningMeansWorking ==
  LaunchSettled =>
    \A v \in VMs \ unmarked :
      vm[v].phase = "Running" /\ vm[v].ref /\ ~vm[v].deleting =>
        launch[v].pc = "wait" \/ (v \in returned /\ vm[v].exit = 1)
=============================================================================
