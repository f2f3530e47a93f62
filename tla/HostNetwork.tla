---------------------------- MODULE HostNetwork ----------------------------
(***************************************************************************)
(* What FirecrackerDriver does on the hosts for the VMs of one ImpNetwork: *)
(* the address claims (Lease objects, shared by all nodes), the node-local *)
(* Allocator that decides when the NAT rule goes, the TAP devices, and the *)
(* procs entries that remember what has to be given back.                  *)
(*                                                                         *)
(* An address is a number in 0 .. SubnetSize - 1: 0 is the network address *)
(* and the last one the broadcast address.  The agent of a node makes one  *)
(* runtime call at a time (one worker per controller); when the agent dies *)
(* its call goes on in the runtime as an orphan while the new agent makes  *)
(* others.  A call is a sequence of steps, one per store it touches.       *)
(*                                                                         *)
(* The life of a VM is reduced to what decides which call is made:         *)
(* VMLifecycle has the rest.                                               *)
(***************************************************************************)
EXTENDS Naturals, FiniteSets, LocalAllocator

CONSTANTS
  Nodes,
  VMs,          \* VM keys (namespace/name): claim holders, TAP names
  Free,         \* no Lease for the address
  NoNode,
  NoProc,       \* no entry in the procs map
  SubnetSize,   \* addresses of the allocation subnet
  Gateway,      \* the reserved host address
  MaxLive,      \* bound: processes of the network on one node
  Env,          \* the kinds of disturbance that may happen
  MaxEvents     \* bound: disturbances in a behaviour

EnvKinds == {"crash", "restart", "exit", "startfail", "api", "suspend", "move",
             "recreate"}

ASSUME SubnetAssumption == SubnetSize \in Nat /\ Gateway \in Nat
ASSUME BoundAssumption == MaxLive \in Nat /\ MaxEvents \in Nat
ASSUME EnvAssumption == Env \subseteq EnvKinds
ASSUME VMsAssumption == IsFiniteSet(VMs)
ASSUME AbsentAssumption == Free \notin VMs /\ NoNode \notin Nodes

Addresses == 1 .. SubnetSize - 2
NoIP == 0
Slots == {"agent", "orphan"}
Pids == 1 .. MaxLive + Cardinality(VMs) + Cardinality(Slots) + 1
Phases == {"absent", "Scheduled", "Starting", "Running", "Suspending", "Suspended", "Resuming",
           "Failed", "Terminating", "gone"}

StartPCs == {"create", "get", "setup", "boot", "undo", "undone", "unclaim", "unclaimed"}
StopPCs == {"stop", "release", "forget", "unnat", "drop"}

ImpVM ==
  [phase : Phases, node : Nodes \cup {NoNode}, mem : Addresses \cup {NoIP}, deleting : BOOLEAN]
Entry == [pid : Pids, ip : Addresses \cup {NoIP}]

ASSUME EntryAssumption == NoProc \notin Entry

(* A call in flight: its target, the address it has come to, for a Start   *)
(* the guest address in the suspend snapshot it restores, and for a Stop   *)
(* the process it found in the procs map.                                  *)
Call ==
  [pc : StartPCs \cup StopPCs, vm : VMs, ip : Addresses \cup {NoIP},
   mem : Addresses \cup {NoIP}, pid : Pids \cup {0}]
Idle == [pc |-> "idle"]

VARIABLES
  vm,          \* per VM, mem: the guest address in its suspend snapshot
  lease,       \* per address: the holder of its Lease, or Free
  local,       \* per node: the Allocator, [allocated, count]
  procs,       \* per node and VM: [pid, ip], ip = NoIP without netInfo; or NoProc
  live,        \* per node: the Firecracker processes, [pid, vm, ip], ip as the guest sees it
  tap,         \* per node: the VMs whose TAP device exists
  nat,         \* per node: the MASQUERADE rule of the subnet is installed
  calls,       \* per node and slot: the runtime call in flight
  overlapped,  \* history: VMs with two calls at a time, or a call while a process was left elsewhere
  leftover,    \* history: a VM was started while an entry of an earlier start was left
  crashed,     \* history: an agent died in a call
  events       \* disturbances so far

vars == <<vm, lease, local, procs, live, tap, nat, calls, overlapped, leftover, crashed, events>>

TypeOK ==
  /\ vm \in [VMs -> ImpVM]
  /\ lease \in [Addresses -> VMs \cup {Free}]
  /\ local \in [Nodes -> [allocated : SUBSET Addresses, count : Nat]]
  /\ procs \in [Nodes -> [VMs -> Entry \cup {NoProc}]]
  /\ live \in [Nodes -> SUBSET [pid : Pids, vm : VMs, ip : Addresses]]
  /\ tap \in [Nodes -> SUBSET VMs]
  /\ nat \in [Nodes -> BOOLEAN]
  /\ calls \in [Nodes -> [Slots -> Call \cup {Idle}]]
  /\ overlapped \subseteq VMs
  /\ leftover \in BOOLEAN
  /\ crashed \in BOOLEAN
  /\ events \in Nat

Init ==
  /\ vm = [v \in VMs |-> [phase |-> "absent", node |-> NoNode, mem |-> NoIP,
                      deleting |-> FALSE]]
  /\ lease = [a \in Addresses |-> Free]
  /\ local = [n \in Nodes |-> NewAllocator]
  /\ procs = [n \in Nodes |-> [v \in VMs |-> NoProc]]
  /\ live = [n \in Nodes |-> {}]
  /\ tap = [n \in Nodes |-> {}]
  /\ nat = [n \in Nodes |-> FALSE]
  /\ calls = [n \in Nodes |-> [s \in Slots |-> Idle]]
  /\ overlapped = {}
  /\ leftover = FALSE
  /\ crashed = FALSE
  /\ events = 0

Happens(kind) ==
  /\ kind \in Env /\ events < MaxEvents
  /\ events' = events + 1 /\ crashed' = (crashed \/ kind = "crash")
  /\ UNCHANGED leftover

NoEvent == UNCHANGED <<leftover, crashed, events>>

-----------------------------------------------------------------------------
(* The claims.                                                             *)

(* The addresses LeaseAllocator.Allocate tries from a on, and the first.   *)
Candidates(a) == {h \in Addresses : h >= a /\ h # Gateway}

First(S) == CHOOSE x \in S : \A y \in S : x <= y

(* Mutant: the claim is deleted whoever holds it.                          *)
ReleasedUnchecked(l, ip, v) == [l EXCEPT ![ip] = Free]

(* LeaseAllocator.Release refuses to delete another VM's claim.            *)
Released(l, ip, v) == IF l[ip] = v THEN [l EXCEPT ![ip] = Free] ELSE l

-----------------------------------------------------------------------------
(* A call in flight.                                                       *)

Goto(n, s, c) == calls' = [calls EXCEPT ![n][s] = c]

(* A call returns.  Only an agent that is still there records the outcome. *)
Return(n, s, o) ==
  /\ Goto(n, s, Idle)
  /\ vm' = IF s = "agent" THEN [vm EXCEPT ![calls[n][s].vm] = o] ELSE vm

(* An error leaves the VM as it is.                                        *)
ReturnError(n, s) == Goto(n, s, Idle) /\ UNCHANGED vm

Active(v) == \E n \in Nodes, s \in Slots : calls[n][s] # Idle /\ calls[n][s].vm = v
Alive(n, v) == {p \in live[n] : p.vm = v}
Overlaps(v, left) == overlapped' = IF left THEN overlapped \cup {v} ELSE overlapped

-----------------------------------------------------------------------------
(* Start, as handleScheduled and handleResuming call it:                   *)
(* LeaseAllocator.Allocate walks the candidates, then setupNetwork         *)
(* prepares the host, then the VMM boots.                                  *)

BeginStart(n, v) ==
  /\ vm[v].phase \in {"Scheduled", "Resuming"} /\ vm[v].node = n
  /\ calls[n]["agent"] = Idle
  /\ Candidates(1) # {}
  /\ Goto(n, "agent", [pc |-> "create", vm |-> v, ip |-> First(Candidates(1)),
                       mem |-> vm[v].mem, pid |-> 0])
  /\ vm' = [vm EXCEPT ![v].phase = IF @ = "Scheduled" THEN "Starting" ELSE @]
  /\ Overlaps(v, Active(v) \/ \E m \in Nodes : Alive(m, v) # {})
  /\ leftover' = (leftover \/ \E m \in Nodes : procs[m][v] # NoProc)
  /\ UNCHANGED <<lease, local, procs, live, tap, nat, crashed, events>>

(* Mutant: an existing Lease is updated to name the caller.                *)
ClaimCreateTakesOver(n, s) ==
  LET c == calls[n][s] IN
  /\ c.pc = "create"
  /\ lease' = [lease EXCEPT ![c.ip] = c.vm] /\ Goto(n, s, [c EXCEPT !.pc = "setup"])
  /\ UNCHANGED <<vm, local, procs, live, tap, nat, overlapped>> /\ NoEvent

(* Create is atomic in the API server; AlreadyExists leads to a Get.       *)
ClaimCreate(n, s) ==
  LET c == calls[n][s] IN
  /\ c.pc = "create"
  /\ IF lease[c.ip] = Free
     THEN lease' = [lease EXCEPT ![c.ip] = c.vm] /\ Goto(n, s, [c EXCEPT !.pc = "setup"])
     ELSE Goto(n, s, [c EXCEPT !.pc = "get"]) /\ UNCHANGED lease
  /\ UNCHANGED <<vm, local, procs, live, tap, nat, overlapped>> /\ NoEvent

(* The existing claim: one's own is used again, another's is skipped, one  *)
(* that has just gone is an error, and so is the end of the subnet.        *)
ClaimGet(n, s) ==
  LET c == calls[n][s]
      rest == Candidates(c.ip + 1) IN
  /\ c.pc = "get"
  /\ \/ /\ lease[c.ip] = c.vm
        /\ Goto(n, s, [c EXCEPT !.pc = "setup"]) /\ UNCHANGED vm
     \/ /\ lease[c.ip] \notin {c.vm, Free} /\ rest # {}
        /\ Goto(n, s, [c EXCEPT !.pc = "create", !.ip = First(rest)]) /\ UNCHANGED vm
     \/ /\ lease[c.ip] # c.vm /\ (lease[c.ip] = Free \/ rest = {})
        /\ ReturnError(n, s)
  /\ UNCHANGED <<lease, local, procs, live, tap, nat, overlapped>> /\ NoEvent

(* Reserve, then bridge, TAP and NAT rule.                                 *)
SetupNetwork(n, s) ==
  LET c == calls[n][s] IN
  /\ c.pc = "setup"
  /\ local' = [local EXCEPT ![n] = Reserve(@, c.ip)]
  /\ tap' = [tap EXCEPT ![n] = @ \cup {c.vm}]
  /\ nat' = [nat EXCEPT ![n] = TRUE]
  /\ Goto(n, s, [c EXCEPT !.pc = "boot"])
  /\ UNCHANGED <<vm, lease, procs, live, overlapped>> /\ NoEvent

(* The bridge, the TAP or the egress policy fails; only the last also      *)
(* takes the TAP down again.                                               *)
SetupFails(n, s) ==
  LET c == calls[n][s] IN
  /\ c.pc = "setup" /\ Happens("startfail")
  /\ local' = [local EXCEPT ![n] = Reserve(@, c.ip)]
  /\ \/ /\ Goto(n, s, [c EXCEPT !.pc = "unclaim"])
        /\ tap' \in {tap, [tap EXCEPT ![n] = @ \cup {c.vm}]}
        /\ UNCHANGED nat
     \/ /\ Goto(n, s, [c EXCEPT !.pc = "undo"])
        /\ tap' = [tap EXCEPT ![n] = @ \cup {c.vm}]
        /\ nat' = [nat EXCEPT ![n] = TRUE]
  /\ UNCHANGED <<vm, lease, procs, live, overlapped>>

(* The PID of the next process, none of those in use on the node.          *)
NewPid(n) ==
  First(Pids \ ({p.pid : p \in live[n]}
                \cup {procs[n][v].pid : v \in {w \in VMs : procs[n][w] # NoProc}}
                \cup {calls[n][s].pid : s \in {t \in Slots : calls[n][t] # Idle}}))

(* The machine starts: the entry overwrites whatever the map held.  A      *)
(* guest restored from a snapshot still has the address it had then.       *)
Launch(n, s) ==
  LET c == calls[n][s]
      guest == IF c.mem = NoIP THEN c.ip ELSE c.mem IN
  /\ c.pc = "boot" /\ Cardinality(live[n]) < MaxLive
  /\ live' = [live EXCEPT ![n] = @ \cup {[pid |-> NewPid(n), vm |-> c.vm, ip |-> guest]}]
  /\ procs' = [procs EXCEPT ![n][c.vm] = [pid |-> NewPid(n), ip |-> c.ip]]
  /\ UNCHANGED <<lease, local, tap, nat, overlapped>>

Boot(n, s) ==
  LET c == calls[n][s] IN
  /\ Launch(n, s)
  /\ Return(n, s, [vm[c.vm] EXCEPT !.phase = "Running", !.mem = NoIP])
  /\ NoEvent

(* The patch to Running fails.                                             *)
BootUnreported(n, s) == Launch(n, s) /\ ReturnError(n, s) /\ Happens("api")

(* The machine does not start: the deferred cleanup runs.                  *)
BootFails(n, s) ==
  LET c == calls[n][s] IN
  /\ c.pc = "boot" /\ Happens("startfail")
  /\ Goto(n, s, [c EXCEPT !.pc = "undo"])
  /\ UNCHANGED <<vm, lease, local, procs, live, tap, nat, overlapped>>

(* releaseNetworkIP after a failure: the claim, then the local allocator,  *)
(* whose answer is not looked at.                                          *)
UndoClaim(n, s) ==
  LET c == calls[n][s] IN
  /\ c.pc \in {"undo", "unclaim"}
  /\ lease' = Released(lease, c.ip, c.vm)
  /\ Goto(n, s, [c EXCEPT !.pc = IF @ = "undo" THEN "undone" ELSE "unclaimed"])
  /\ UNCHANGED <<vm, local, procs, live, tap, nat, overlapped>> /\ NoEvent

UndoLocal(n, s) ==
  LET c == calls[n][s] IN
  /\ c.pc \in {"undone", "unclaimed"}
  /\ local' = [local EXCEPT ![n] = Release(@, c.ip)]
  /\ tap' = IF c.pc = "undone" THEN [tap EXCEPT ![n] = @ \ {c.vm}] ELSE tap
  /\ ReturnError(n, s)
  /\ UNCHANGED <<lease, procs, live, nat, overlapped>> /\ NoEvent

(* A call to the API server fails while the claim is made or given back.   *)
ClaimFails(n, s) ==
  /\ calls[n][s] # Idle /\ calls[n][s].pc \in {"create", "get"} /\ Happens("api")
  /\ ReturnError(n, s)
  /\ UNCHANGED <<lease, local, procs, live, tap, nat, overlapped>>

ReleaseFails(n, s) ==
  LET c == calls[n][s] IN
  /\ c # Idle /\ c.pc \in {"undo", "unclaim", "release"} /\ Happens("api")
  /\ Goto(n, s, [c EXCEPT !.pc = CASE @ = "undo" -> "undone"
                                   [] @ = "unclaim" -> "unclaimed"
                                   [] @ = "release" -> "forget"])
  /\ UNCHANGED <<vm, lease, local, procs, live, tap, nat, overlapped>>

StartStep(n, s) ==
  /\ calls[n][s] # Idle
  /\ \/ ClaimCreate(n, s) \/ ClaimGet(n, s) \/ SetupNetwork(n, s) \/ SetupFails(n, s)
     \/ Boot(n, s) \/ BootUnreported(n, s) \/ BootFails(n, s)
     \/ UndoClaim(n, s) \/ UndoLocal(n, s)

-----------------------------------------------------------------------------
(* Stop, as handleTerminating and handleSuspending call it.                *)

(* Stop looks the entry up once; without one it returns at once.           *)
BeginStop(n, v) ==
  /\ vm[v].phase = "Terminating" /\ vm[v].node = n
  /\ calls[n]["agent"] = Idle
  /\ IF procs[n][v] = NoProc
     THEN vm' = [vm EXCEPT ![v].phase = "gone"] /\ UNCHANGED <<calls, overlapped>>
     ELSE /\ Goto(n, "agent", [pc |-> "stop", vm |-> v, ip |-> procs[n][v].ip,
                               mem |-> NoIP, pid |-> procs[n][v].pid])
          /\ Overlaps(v, Active(v) \/ \E m \in Nodes \ {n} : Alive(m, v) # {})
          /\ UNCHANGED vm
  /\ UNCHANGED <<lease, local, procs, live, tap, nat>> /\ NoEvent

(* handleSuspending: the snapshot needs a machine handle and its process,  *)
(* then comes Stop.                                                        *)
BeginSuspend(n, v) ==
  LET e == procs[n][v] IN
  /\ vm[v].phase = "Suspending" /\ vm[v].node = n
  /\ calls[n]["agent"] = Idle
  /\ e # NoProc /\ e.ip # NoIP
  /\ \E p \in Alive(n, v) :
       /\ p.pid = e.pid
       /\ Goto(n, "agent", [pc |-> "stop", vm |-> v, ip |-> e.ip, mem |-> p.ip, pid |-> e.pid])
  /\ Overlaps(v, Active(v))
  /\ UNCHANGED <<vm, lease, local, procs, live, tap, nat>> /\ NoEvent

(* The machine is shut down and the TAP removed.  A reattached entry has   *)
(* neither machine nor netInfo: nothing is stopped or given back.          *)
StopMachine(n, s) ==
  LET c == calls[n][s] IN
  /\ c.pc = "stop"
  /\ IF c.ip = NoIP
     THEN Goto(n, s, [c EXCEPT !.pc = "drop"]) /\ UNCHANGED <<live, tap>>
     ELSE /\ Goto(n, s, [c EXCEPT !.pc = "release"])
          /\ live' = [live EXCEPT ![n] = {p \in @ : p.pid # c.pid}]
          /\ tap' = [tap EXCEPT ![n] = @ \ {c.vm}]
  /\ UNCHANGED <<vm, lease, local, procs, nat, overlapped>> /\ NoEvent

StopRelease(n, s) ==
  LET c == calls[n][s] IN
  /\ c.pc = "release"
  /\ lease' = Released(lease, c.ip, c.vm)
  /\ Goto(n, s, [c EXCEPT !.pc = "forget"])
  /\ UNCHANGED <<vm, local, procs, live, tap, nat, overlapped>> /\ NoEvent

(* Mutant: the NAT rule goes with every VM.                                *)
StopForgetAlways(n, s) ==
  LET c == calls[n][s] IN
  /\ c.pc = "forget"
  /\ local' = [local EXCEPT ![n] = Release(@, c.ip)]
  /\ Goto(n, s, [c EXCEPT !.pc = "unnat"])
  /\ UNCHANGED <<vm, lease, procs, live, tap, nat, overlapped>> /\ NoEvent

(* The NAT rule goes with the last address of the node, in a step of its   *)
(* own: the allocator's lock is not held until then.                       *)
StopForget(n, s) ==
  LET c == calls[n][s] IN
  /\ c.pc = "forget"
  /\ local' = [local EXCEPT ![n] = Release(@, c.ip)]
  /\ Goto(n, s, [c EXCEPT !.pc = IF WasLast(local[n]) THEN "unnat" ELSE "drop"])
  /\ UNCHANGED <<vm, lease, procs, live, tap, nat, overlapped>> /\ NoEvent

StopRemoveNAT(n, s) ==
  LET c == calls[n][s] IN
  /\ c.pc = "unnat"
  /\ nat' = [nat EXCEPT ![n] = FALSE]
  /\ Goto(n, s, [c EXCEPT !.pc = "drop"])
  /\ UNCHANGED <<vm, lease, local, procs, live, tap, overlapped>> /\ NoEvent

(* Whatever entry the VM has by now is deleted; the VM is recorded as      *)
(* Suspended, or acknowledged as stopped.                                  *)
StopDrop(n, s) ==
  LET c == calls[n][s]
      o == vm[c.vm] IN
  /\ c.pc = "drop"
  /\ procs' = [procs EXCEPT ![n][c.vm] = NoProc]
  /\ Return(n, s, IF c.mem # NoIP THEN [o EXCEPT !.phase = "Suspended", !.mem = c.mem]
                  ELSE [o EXCEPT !.phase = "gone"])
  /\ UNCHANGED <<lease, local, live, tap, nat, overlapped>> /\ NoEvent

StopStep(n, s) ==
  /\ calls[n][s] # Idle
  /\ \/ StopMachine(n, s) \/ StopRelease(n, s) \/ StopForget(n, s)
     \/ StopRemoveNAT(n, s) \/ StopDrop(n, s)

-----------------------------------------------------------------------------
(* The other reconciles, and what happens to the processes.                *)

Frame == UNCHANGED <<lease, local, tap, nat, calls, overlapped>>

(* handleRunning, with Backend.Get: a dead process's entry is dropped with *)
(* its netInfo, and nothing is given back.  If the process in the status   *)
(* is alive it is reattached, without netInfo; the agent has no Allocator  *)
(* to reserve its address in.  Of two processes the status may name either.*)
Inspect(n, v) ==
  LET e == procs[n][v] IN
  /\ vm[v].phase = "Running" /\ vm[v].node = n
  /\ calls[n]["agent"] = Idle
  /\ ~\E p \in live[n] : e # NoProc /\ p.pid = e.pid
  /\ \/ /\ Alive(n, v) = {} \/ v \in overlapped
        /\ procs' = [procs EXCEPT ![n][v] = NoProc]
        /\ vm' = [vm EXCEPT ![v].phase = "Failed"]
     \/ /\ \E p \in Alive(n, v) : procs' = [procs EXCEPT ![n][v] = [pid |-> p.pid, ip |-> NoIP]]
        /\ UNCHANGED vm
  /\ UNCHANGED live /\ Frame /\ NoEvent

(* handleStarting gives a start that left no trace up.                     *)
StartTimeout(n, v) ==
  /\ vm[v].phase = "Starting" /\ vm[v].node = n
  /\ calls[n]["agent"] = Idle
  /\ vm' = [vm EXCEPT ![v].phase = "Failed"]
  /\ UNCHANGED <<procs, live>> /\ Frame /\ NoEvent

(* A new VM is scheduled, or a Failed one again: here or elsewhere.        *)
Schedule(n, v) ==
  /\ \/ vm[v].phase = "absent" /\ NoEvent
     \/ vm[v].phase = "Failed" /\ ~vm[v].deleting /\ vm[v].node = n /\ NoEvent
     \/ vm[v].phase = "Failed" /\ ~vm[v].deleting /\ vm[v].node # n /\ Happens("move")
     \/ vm[v].phase = "gone" /\ Happens("recreate")
  /\ vm' = [vm EXCEPT ![v] = [phase |-> "Scheduled", node |-> n, deleting |-> FALSE,
                              mem |-> IF @.phase = "Failed" THEN @.mem ELSE NoIP]]
  /\ UNCHANGED <<procs, live>> /\ Frame

(* The VM is deleted; the operator signals the agent, again if need be.    *)
Terminate(v) ==
  /\ vm[v].phase \notin {"absent", "gone", "Terminating"}
  /\ vm' = [vm EXCEPT ![v].phase = "Terminating", ![v].deleting = TRUE]
  /\ UNCHANGED <<procs, live>> /\ Frame /\ NoEvent

(* handleRunning and handleSuspended follow spec.desiredState.             *)
Suspend(v) ==
  /\ vm[v].phase = "Running" /\ calls[vm[v].node]["agent"] = Idle /\ Happens("suspend")
  /\ vm' = [vm EXCEPT ![v].phase = "Suspending"]
  /\ UNCHANGED <<procs, live>> /\ Frame

Resume(v) ==
  /\ vm[v].phase = "Suspended" /\ calls[vm[v].node]["agent"] = Idle
  /\ vm' = [vm EXCEPT ![v].phase = "Resuming"]
  /\ UNCHANGED <<procs, live>> /\ Frame /\ NoEvent

(* The agent dies; its call goes on.                                       *)
AgentCrash(n) ==
  /\ calls[n]["agent"] # Idle /\ calls[n]["orphan"] = Idle /\ Happens("crash")
  /\ calls' = [calls EXCEPT ![n] = [agent |-> Idle, orphan |-> @["agent"]]]
  /\ UNCHANGED <<vm, lease, local, procs, live, tap, nat, overlapped>>

(* The runtime restarts: its memory and its calls are lost, the processes  *)
(* survive or are killed with it.                                          *)
RuntimeRestart(n) ==
  /\ Happens("restart")
  /\ local' = [local EXCEPT ![n] = NewAllocator]
  /\ procs' = [procs EXCEPT ![n] = [v \in VMs |-> NoProc]]
  /\ calls' = [calls EXCEPT ![n] = [s \in Slots |-> Idle]]
  /\ live' \in {live, [live EXCEPT ![n] = {}]}
  /\ UNCHANGED <<vm, lease, tap, nat, overlapped>>

ProcessExit(n) ==
  /\ Happens("exit")
  /\ \E p \in live[n] : live' = [live EXCEPT ![n] = @ \ {p}]
  /\ UNCHANGED <<vm, procs>> /\ Frame

Next ==
  \/ \E n \in Nodes, s \in Slots :
       StartStep(n, s) \/ StopStep(n, s) \/ ClaimFails(n, s) \/ ReleaseFails(n, s)
  \/ \E n \in Nodes, v \in VMs :
       \/ BeginStart(n, v) \/ BeginStop(n, v) \/ BeginSuspend(n, v)
       \/ Inspect(n, v) \/ StartTimeout(n, v) \/ Schedule(n, v)
  \/ \E v \in VMs : Terminate(v) \/ Suspend(v) \/ Resume(v)
  \/ \E n \in Nodes : AgentCrash(n) \/ RuntimeRestart(n) \/ ProcessExit(n)

Spec == Init /\ [][Next]_vars

-----------------------------------------------------------------------------
(* What the host network promises.                                         *)

(* The VMs of node n whose process runs and whose entry has the netInfo.   *)
Owned(n) ==
  {v \in VMs : /\ procs[n][v] # NoProc /\ procs[n][v].ip # NoIP
               /\ \E p \in Alive(n, v) : p.pid = procs[n][v].pid}

(* A VM that the runtime runs and knows the network of holds the Lease of  *)
(* its address and has its TAP, unless two calls for it were made at a     *)
(* time, or one while a process of it was left elsewhere: whatever other   *)
(* VMs' calls, failed starts and their cleanups, crashes and restarts do   *)
(* in between.  As a Lease has one holder, no two such VMs have the same   *)
(* address.                                                                *)
OwnedKeepsItsNetwork ==
  \A n \in Nodes : \A v \in Owned(n) \ overlapped :
    v \in tap[n] /\ lease[procs[n][v].ip] = v

(* The address the guest of an owned VM uses, as far as the Leases answer  *)
(* for it: not for a VM whose calls overlapped.                            *)
Owners(v) == {n \in Nodes : v \in Owned(n)}
UsedBy(v) ==
  IF v \in overlapped \/ Owners(v) = {} THEN NoIP
  ELSE procs[CHOOSE n \in Owners(v) : TRUE][v].ip

Claims ==
  INSTANCE AddressClaims WITH holder <- lease, used <- [v \in VMs |-> UsedBy(v)]

(* The Leases, the procs maps and the processes of all nodes implement the *)
(* claims of AddressClaims: Allocate takes only a free address or finds    *)
(* its own, a VM comes to run only on an address it holds, and no Release, *)
(* of a Stop, a failed start or a call left over from a dead agent, gives  *)
(* an address up while the guest of its holder runs.                       *)
ClaimsHandedOver == Claims!Spec

(* As long as no agent died in a call and no VM was started over what an   *)
(* earlier start of it left behind, Stop removes the NAT rule of the       *)
(* subnet only when no VM the runtime knows the network of still runs.     *)
NATKeptWhileOwned ==
  [][\A n \in Nodes :
       nat[n] /\ ~nat'[n] /\ ~crashed /\ ~leftover /\ overlapped = {} => Owned(n) = {}]_vars

(* A reattached VM counts too: "Restore in-memory IP allocation so Release *)
(* works correctly later" (handleRunning), where Release tells Stop that   *)
(* the last VM of the network on the node has gone.                        *)
NATKeptWhileRunning ==
  [][\A n \in Nodes : nat[n] /\ ~nat'[n] => live[n] = {}]_vars

(* Guests of different VMs do not use the same address: the claim is there *)
(* "so separate nodes cannot configure the same address concurrently"      *)
(* (setupNetwork).                                                         *)
GuestAddressesDistinct ==
  \A n, m \in Nodes : \A p \in live[n], q \in live[m] : p.vm # q.vm => p.ip # q.ip
=============================================================================
