---------------------------- MODULE ScaleToZero ----------------------------
(***************************************************************************)
(* Scale to zero on one node: the agent suspends a VM that saw no traffic  *)
(* for its idleTimeout, keeps it in the wake registry, and resumes it when *)
(* the node runtime's capture reports a frame for its address.  The agent  *)
(* has one worker for its VMs and a goroutine, the activator, that polls   *)
(* the runtime.  Suspend and resume are cut where the activator or a user  *)
(* can come in between: after the probe, the driver and the status patch.  *)
(***************************************************************************)
EXTENDS Naturals, Sequences, FiniteSets, SequencesExt

CONSTANTS
  VMs, None, Live,
  IPs,          \* the addresses of the network, 1..n
  IdleTimeout,  \* idleTimeout in probe intervals
  BufSize,      \* the capacity of the registry's event channel
  Env,          \* the disturbances that may happen
  MaxEvents     \* how many of them

VARIABLES
  vm,        \* per VM: the ImpVM object, as the API server has it
  agCache,   \* the agent's copy of the VMs: Live, or what it was
  todo,      \* the agent's work queue
  timer,     \* VMs with a probe due after the interval
  work,      \* the agent's worker: the handler it is in
  proc,      \* per VM: its process: "none", "owned", or "found" again by the runtime
  tap,       \* per VM: its TAP, with its address and its byte counter, or None
  samples,   \* per VM: ScaleToZero.samples, None or the bytes and their age
  reg,       \* the wakeRegistry
  channel,   \* its event channel
  hits,      \* the runtime's wakeHits
  capturing, \* whether the runtime's capture was started
  batch,     \* addresses the activator polled and has not looked up yet
  events,    \* how many disturbances happened
  quiet,     \* history: per VM, ticks since its last traffic or resume
  cut,       \* history: suspended VMs whose registration something undid
  called,    \* history: VMs a captured frame was for while they were suspended
  renewed    \* history: VMs started anew since they were sampled

apiVars == <<vm, agCache>>
runtimeVars == <<proc, tap, hits, capturing>>
agentVars == <<todo, timer, work, samples, reg, channel, batch>>
history == <<quiet, cut, called, renewed>>

ASSUME BoundsAssumption == IdleTimeout \in Nat \ {0} /\ BufSize \in Nat \ {0} /\ MaxEvents \in Nat
ASSUME AddressAssumption == IPs \subseteq Nat \ {0}

VMPhase == {"Running", "Suspending", "Suspended", "Resuming", "Failed"}
VMDesiredState == {"Running", "Suspended", "ScaleToZero"}
ImpVM == [phase : VMPhase, desired : VMDesiredState, ip : IPs, pressured : BOOLEAN]
IdleSample == [bytes : Nat, age : 0..IdleTimeout]
WakeRegistry ==
  [keyByIP : [IPs -> VMs \cup {None}], ipByKey : [VMs -> IPs \cup {None}], signalled : SUBSET VMs]
Handlers == {"idle", "probed", "stopped", "patched", "started", "resumed"}

StzTypeOK ==
  /\ vm \in [VMs -> ImpVM]
  /\ agCache = Live \/ agCache \in [VMs -> ImpVM]
  /\ todo \subseteq VMs /\ timer \subseteq VMs
  /\ work \in [pc : Handlers, v : VMs \cup {None}, ip : IPs \cup {None}]
  /\ proc \in [VMs -> {"none", "owned", "found"}]
  /\ \A v \in VMs : tap[v] = None \/ tap[v] \in [ip : IPs, bytes : Nat]
  /\ \A v \in VMs : samples[v] = None \/ samples[v] \in IdleSample
  /\ reg \in WakeRegistry
  /\ channel \in Seq(VMs) /\ Len(channel) <= BufSize
  /\ hits \subseteq IPs /\ batch \subseteq IPs /\ capturing \in BOOLEAN
  /\ quiet \in [VMs -> 0..IdleTimeout]
  /\ cut \subseteq VMs /\ called \subseteq VMs /\ renewed \subseteq VMs
-----------------------------------------------------------------------------
Happens(e) == e \in Env /\ events < MaxEvents /\ events' = events + 1
AgVMs == IF agCache = Live THEN vm ELSE agCache
Idle == [pc |-> "idle", v |-> None, ip |-> None]

(* A patch of VM v: its event reaches the queue once the cache has it.     *)
Patch(v, new) == vm' = [vm EXCEPT ![v] = new] /\ agCache' = agCache
Notify(v, queue) == IF agCache = Live /\ vm'[v] # vm[v] THEN queue \cup {v} ELSE queue

(* Driver.Start gives v the first address that no other VM's TAP holds.    *)
FreeIPs(v) == IPs \ {tap[w].ip : w \in {u \in VMs \ {v} : tap[u] # None}}
FirstFree(v) == CHOOSE i \in FreeIPs(v) : \A j \in FreeIPs(v) : i <= j

NewWakeRegistry ==
  [keyByIP |-> [i \in IPs |-> None], ipByKey |-> [v \in VMs |-> None], signalled |-> {}]

(* Whose address ip is in the registry, if not v's.                        *)
Other(ip, v) == IF ip = None THEN {} ELSE {reg.keyByIP[ip]} \ {v, None}
Registered(v) == reg.ipByKey[v] # None /\ reg.keyByIP[reg.ipByKey[v]] = v

Init ==
  /\ \E ip \in [VMs -> IPs], desired \in VMDesiredState \ {"Suspended"} :
       /\ \A v, w \in VMs : v # w => ip[v] # ip[w]
       /\ vm = [v \in VMs |-> [phase |-> "Running", desired |-> desired, ip |-> ip[v], pressured |-> FALSE]]
       /\ tap = [v \in VMs |-> [ip |-> ip[v], bytes |-> 0]]
  /\ agCache = Live /\ todo = VMs /\ timer = {} /\ work = Idle
  /\ proc = [v \in VMs |-> "owned"]
  /\ samples = [v \in VMs |-> None]
  /\ reg = NewWakeRegistry
  /\ channel = <<>> /\ hits = {} /\ capturing = FALSE /\ batch = {}
  /\ events = 0
  /\ quiet = [v \in VMs |-> 0] /\ cut = {} /\ called = {} /\ renewed = {}
-----------------------------------------------------------------------------
(* The wake registry.                                                      *)

(* register drops the VM's old address first, whoever has it by now.       *)
Register(r, ip, v) ==
  LET old == IF r.ipByKey[v] = None THEN r.keyByIP ELSE [r.keyByIP EXCEPT ![r.ipByKey[v]] = None]
  IN  [r EXCEPT !.keyByIP = [old EXCEPT ![ip] = v], !.ipByKey[v] = ip]

(* clear drops the mapping of the VM's address, whoever has it by now.     *)
Clear(r, v) ==
  [keyByIP   |-> IF r.ipByKey[v] = None THEN r.keyByIP ELSE [r.keyByIP EXCEPT ![r.ipByKey[v]] = None],
   ipByKey   |-> [r.ipByKey EXCEPT ![v] = None],
   signalled |-> r.signalled \ {v}]

(* Mutant: a VM is signalled although the channel was full.                *)
OnDstIPDropped(ip) ==
  LET v == reg.keyByIP[ip]
  IN  /\ ip \in batch /\ batch' = batch \ {ip}
      /\ IF v = None \/ v \in reg.signalled THEN UNCHANGED <<reg, channel>>
         ELSE /\ channel' = IF Len(channel) < BufSize THEN Append(channel, v) ELSE channel
              /\ reg' = [reg EXCEPT !.signalled = @ \cup {v}]
      /\ UNCHANGED <<apiVars, runtimeVars, todo, timer, work, samples, events, history>>

(* onDstIP: a registered VM that is not signalled yet is sent to the       *)
(* channel, and is signalled only if there was room for it.                *)
OnDstIP(ip) ==
  LET v == reg.keyByIP[ip]
  IN  /\ ip \in batch /\ batch' = batch \ {ip}
      /\ IF v = None \/ v \in reg.signalled \/ Len(channel) >= BufSize
         THEN UNCHANGED <<reg, channel>>
         ELSE /\ channel' = Append(channel, v)
              /\ reg' = [reg EXCEPT !.signalled = @ \cup {v}]
      /\ UNCHANGED <<apiVars, runtimeVars, todo, timer, work, samples, events, history>>

(* The channel source of the agent's controller.                           *)
Dispatch ==
  /\ channel # <<>>
  /\ todo' = todo \cup {Head(channel)} /\ channel' = Tail(channel)
  /\ UNCHANGED <<apiVars, runtimeVars, timer, work, samples, reg, batch, events, history>>

(* The runtime's capture records the destination of every frame, and take  *)
(* hands the set out and starts with an empty one.                         *)
Capture(ip) == hits' = IF capturing THEN hits \cup {ip} ELSE hits
Take == hits' = {} /\ capturing' = TRUE

(* A frame for address ip: it counts on the TAP that has the address.      *)
Frame(ip) ==
  /\ Happens("frame")
  /\ tap' = [v \in VMs |-> IF tap[v] # None /\ tap[v].ip = ip THEN [tap[v] EXCEPT !.bytes = @ + 1] ELSE tap[v]]
  /\ quiet' = [v \in VMs |-> IF tap[v] # None /\ tap[v].ip = ip THEN 0 ELSE quiet[v]]
  /\ Capture(ip)
  /\ called' = called \cup {v \in VMs : capturing /\ vm[v].phase = "Suspended" /\ vm[v].ip = ip /\ work.v # v}
  /\ UNCHANGED <<apiVars, agentVars, proc, capturing, cut, renewed>>

(* runtimeWakeSource polls; the first poll starts the capture.             *)
WakeHits ==
  /\ batch = {} /\ (hits # {} \/ ~capturing)
  /\ Take /\ batch' = hits
  /\ UNCHANGED <<apiVars, proc, tap, todo, timer, work, samples, reg, channel, events, history>>

(* The answer to a poll is lost: take has emptied the set.                 *)
WakeHitsLost ==
  /\ batch = {} /\ hits # {} /\ Happens("rpc") /\ Take
  /\ UNCHANGED <<apiVars, proc, tap, agentVars, history>>
-----------------------------------------------------------------------------
(* The handlers of the agent.  A handler that fails leaves v in the queue. *)

Begin(v, phase) == work = Idle /\ v \in todo /\ AgVMs[v].phase = phase
Done(v) == todo' = Notify(v, todo \ {v})
MoveTo(v, phase) == Patch(v, [vm[v] EXCEPT !.phase = phase])

(* The byte counter of the VM's TAP, asked of the runtime.                 *)
LinkStats(v) == tap[v].bytes

(* observe: no sample, or another counter, starts the idle window again.   *)
Changed(v) == samples[v] = None \/ samples[v].bytes # LinkStats(v)
IdleFor(v) == ~Changed(v) /\ samples[v].age >= IdleTimeout

(* Mutant: the window is not started again by traffic.                     *)
ObserveOnce(v) ==
  /\ samples' = [samples EXCEPT ![v] = IF @ = None THEN [bytes |-> LinkStats(v), age |-> 0]
                                       ELSE [@ EXCEPT !.bytes = LinkStats(v)]]
  /\ renewed' = renewed \ {v}

Observe(v) ==
  IF Changed(v)
  THEN /\ samples' = [samples EXCEPT ![v] = [bytes |-> LinkStats(v), age |-> 0]]
       /\ renewed' = renewed \ {v}
  ELSE UNCHANGED <<samples, renewed>>

(* runningResult: only a ScaleToZero VM is polled.                         *)
RunningResult(v, c) ==
  timer' = IF c.desired = "ScaleToZero" THEN timer \cup {v} ELSE timer

(* handleRunning when the VM is neither to be suspended nor idle: Inspect  *)
(* finds its process, or the agent attaches to a process the runtime has   *)
(* no record of, which asks for no other probe, or the VM has failed.      *)
Inspect(v, c) ==
  \/ proc[v] # "none" /\ RunningResult(v, c) /\ todo' = todo \ {v} /\ UNCHANGED apiVars
  \/ proc[v] = "found" /\ todo' = todo \ {v} /\ UNCHANGED <<apiVars, timer>>
  \/ proc[v] = "none" /\ MoveTo(v, "Failed") /\ Done(v) /\ UNCHANGED timer

(* handleRunning with the probe of maybeSuspendIdle.                       *)
HandleRunning(v) ==
  LET c == AgVMs[v]
  IN  /\ Begin(v, "Running")
      /\ \/ /\ c.desired = "Suspended"
            /\ MoveTo(v, "Suspending") /\ Done(v)
            /\ UNCHANGED <<timer, work, samples, renewed, events>>
         \/ /\ c.desired = "ScaleToZero" /\ ~IdleFor(v)
            /\ Observe(v) /\ Inspect(v, c) /\ UNCHANGED <<work, events>>
         \/ /\ c.desired = "ScaleToZero" /\ IdleFor(v)
            /\ work' = [pc |-> "probed", v |-> v, ip |-> None] /\ todo' = todo \ {v}
            /\ UNCHANGED <<apiVars, timer, samples, renewed, events>>
         \/ /\ c.desired = "ScaleToZero"   \* the probe fails
            /\ Happens("api")
            /\ timer' = timer \cup {v} /\ todo' = todo \ {v}
            /\ UNCHANGED <<apiVars, work, samples, renewed>>
         \/ /\ c.desired = "Running"
            /\ Inspect(v, c) /\ UNCHANGED <<work, samples, renewed, events>>
      /\ UNCHANGED <<runtimeVars, reg, channel, batch, quiet, cut, called>>

(* The rest of maybeSuspendIdle: the patch of a VM that was found idle,    *)
(* whatever came in since.                                                 *)
PatchSuspending ==
  LET v == work.v
  IN  /\ work.pc = "probed"
      /\ \/ MoveTo(v, "Suspending") /\ todo' = Notify(v, todo) /\ UNCHANGED <<timer, events>>
         \/ Happens("api") /\ timer' = timer \cup {v} /\ UNCHANGED <<apiVars, todo>>
      /\ work' = Idle
      /\ UNCHANGED <<runtimeVars, samples, reg, channel, batch, history>>

(* handleSuspending up to Stop.  Snapshot needs the machine handle.        *)
HandleSuspending(v) ==
  /\ Begin(v, "Suspending") /\ proc[v] = "owned"
  /\ proc' = [proc EXCEPT ![v] = "none"] /\ tap' = [tap EXCEPT ![v] = None]
  /\ work' = [pc |-> "stopped", v |-> v, ip |-> None] /\ todo' = todo \ {v}
  /\ UNCHANGED <<apiVars, hits, capturing, timer, samples, reg, channel, batch, events, history>>

(* The patch to Suspended, whose answer is the object that is looked at    *)
(* next: a ScaleToZero VM is to be registered.                             *)
PatchSuspended ==
  LET v == work.v
  IN  /\ work.pc = "stopped"
      /\ \/ /\ MoveTo(v, "Suspended") /\ todo' = Notify(v, todo)
            /\ work' = IF vm[v].desired = "ScaleToZero"
                       THEN [pc |-> "patched", v |-> v, ip |-> vm[v].ip] ELSE Idle
            /\ UNCHANGED events
         \/ /\ Happens("api")
            /\ work' = Idle /\ todo' = todo \cup {v} /\ UNCHANGED apiVars
      /\ UNCHANGED <<runtimeVars, timer, samples, reg, channel, batch, history>>

RegisterWake ==
  /\ work.pc = "patched"
  /\ reg' = Register(reg, work.ip, work.v)
  /\ samples' = [samples EXCEPT ![work.v] = None]
  /\ cut' = (cut \cup Other(work.ip, work.v) \cup Other(reg.ipByKey[work.v], work.v)) \ {work.v}
  /\ work' = Idle
  /\ UNCHANGED <<apiVars, runtimeVars, todo, timer, channel, batch, events, quiet, called, renewed>>

(* handleSuspended: suspended by request, or waiting for a packet, it      *)
(* stays; else it is resumed.                                              *)
HandleSuspended(v) ==
  LET c == AgVMs[v]
      stays == c.desired = "Suspended" \/ (c.desired = "ScaleToZero" /\ v \notin reg.signalled)
  IN  /\ Begin(v, "Suspended")
      /\ \/ stays /\ todo' = todo \ {v} /\ UNCHANGED <<apiVars, events>>
         \/ ~stays /\ MoveTo(v, "Resuming") /\ Done(v) /\ UNCHANGED events
         \/ ~stays /\ Happens("api") /\ UNCHANGED <<apiVars, todo>>
      /\ UNCHANGED <<runtimeVars, timer, work, samples, reg, channel, batch, history>>

(* A process for v with a TAP of its own.                                  *)
StartAt(v, ip) ==
  /\ proc' = [proc EXCEPT ![v] = "owned"]
  /\ tap' = [tap EXCEPT ![v] = [ip |-> ip, bytes |-> 0]]

(* handleResuming up to the patch: Start.                                  *)
HandleResuming(v) ==
  /\ Begin(v, "Resuming")
  /\ StartAt(v, FirstFree(v))
  /\ work' = [pc |-> "started", v |-> v, ip |-> FirstFree(v)] /\ todo' = todo \ {v}
  /\ quiet' = [quiet EXCEPT ![v] = 0]
  /\ UNCHANGED <<apiVars, hits, capturing, timer, samples, reg, channel, batch, events, cut, called, renewed>>

PatchRunning ==
  LET v == work.v
  IN  /\ work.pc = "started"
      /\ \/ /\ Patch(v, [vm[v] EXCEPT !.phase = "Running", !.ip = work.ip])
            /\ todo' = Notify(v, todo)
            /\ work' = [work EXCEPT !.pc = "resumed"] /\ UNCHANGED events
         \/ /\ Happens("api")
            /\ work' = Idle /\ todo' = todo \cup {v} /\ UNCHANGED apiVars
      /\ UNCHANGED <<runtimeVars, timer, samples, reg, channel, batch, history>>

ClearWake ==
  /\ work.pc = "resumed"
  /\ reg' = Clear(reg, work.v)
  /\ samples' = [samples EXCEPT ![work.v] = None]
  /\ cut' = (cut \cup Other(reg.ipByKey[work.v], work.v)) \ {work.v}
  /\ called' = called \ {work.v}
  /\ work' = Idle
  /\ UNCHANGED <<apiVars, runtimeVars, todo, timer, channel, batch, events, quiet, renewed>>

(* A Failed VM is the operator's.                                          *)
Ignore(v) ==
  /\ Begin(v, "Failed") /\ todo' = todo \ {v}
  /\ UNCHANGED <<apiVars, runtimeVars, timer, work, samples, reg, channel, batch, events, history>>
-----------------------------------------------------------------------------
(* Time, the rest of the VM's life in brief, and what goes wrong.          *)

Older(n) == IF n < IdleTimeout THEN n + 1 ELSE n

(* An interval passes.                                                     *)
Tick ==
  /\ samples' = [v \in VMs |-> IF samples[v] = None THEN None ELSE [samples[v] EXCEPT !.age = Older(@)]]
  /\ quiet' = [v \in VMs |-> Older(quiet[v])]
  /\ UNCHANGED <<apiVars, runtimeVars, todo, timer, work, reg, channel, batch, events, cut, called, renewed>>

(* The probe that is due.                                                  *)
Fire(v) ==
  /\ v \in timer /\ timer' = timer \ {v} /\ todo' = todo \cup {v}
  /\ UNCHANGED <<apiVars, runtimeVars, work, samples, reg, channel, batch, events, history>>

(* A user patches spec.desiredState.                                       *)
SetDesiredState(v, d) ==
  /\ Happens("user") /\ vm[v].desired # d
  /\ Patch(v, [vm[v] EXCEPT !.desired = d]) /\ todo' = Notify(v, todo)
  /\ cut' = IF vm[v].phase = "Suspended" THEN cut \cup {v} ELSE cut
  /\ UNCHANGED <<runtimeVars, timer, work, samples, reg, channel, batch, quiet, called, renewed>>

GuestDies(v) ==
  /\ Happens("vmexit") /\ proc[v] # "none"
  /\ proc' = [proc EXCEPT ![v] = "none"] /\ todo' = todo \cup {v}
  /\ UNCHANGED <<apiVars, tap, hits, capturing, timer, work, samples, reg, channel, batch, history>>

(* The VM is Running anew: a failed one the operator restarts, or one that *)
(* was deleted and created again under its name.  Its sample and its       *)
(* registration, if any, are still those of the old one.                   *)
Renew(v) ==
  /\ work = Idle /\ agCache = Live
  /\ LET new == [vm[v] EXCEPT !.phase = "Running", !.ip = FirstFree(v)]
     IN  \/ vm[v].phase = "Failed" /\ Patch(v, new) /\ UNCHANGED events
         \/ /\ Happens("replace") /\ vm[v].phase \in {"Running", "Suspended"}
            /\ Patch(v, [new EXCEPT !.pressured = FALSE])
  /\ StartAt(v, FirstFree(v))
  /\ todo' = todo \cup {v} /\ renewed' = renewed \cup {v} /\ called' = called \ {v}
  /\ UNCHANGED <<hits, capturing, timer, work, samples, reg, channel, batch, quiet, cut>>

(* The agent restarts with everything to do and nothing registered.        *)
AgCrash ==
  /\ Happens("crash")
  /\ agCache' = Live /\ todo' = VMs /\ timer' = {} /\ work' = Idle
  /\ samples' = [v \in VMs |-> None] /\ reg' = NewWakeRegistry
  /\ channel' = <<>> /\ batch' = {}
  /\ cut' = cut \cup {v \in VMs : vm[v].phase = "Suspended"}
  /\ called' = {}
  /\ UNCHANGED <<vm, runtimeVars, quiet, renewed>>

(* The node runtime restarts; the processes are found again without their  *)
(* machine handles.                                                        *)
RuntimeRestart ==
  /\ Happens("runtime")
  /\ proc' = [v \in VMs |-> IF proc[v] = "none" THEN "none" ELSE "found"]
  /\ hits' = {} /\ capturing' = FALSE
  /\ UNCHANGED <<apiVars, agentVars, tap, history>>

AgFreeze ==
  /\ Happens("lag") /\ agCache = Live /\ agCache' = vm
  /\ UNCHANGED <<vm, runtimeVars, agentVars, history>>

AgCatchUp ==
  /\ agCache # Live /\ agCache' = Live
  /\ todo' = todo \cup {v \in VMs : vm[v] # agCache[v]}
  /\ UNCHANGED <<vm, runtimeVars, timer, work, samples, reg, channel, batch, events, history>>
=============================================================================
