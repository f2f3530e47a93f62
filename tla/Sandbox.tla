------------------------------ MODULE Sandbox ------------------------------
(***************************************************************************)
(* The sandbox add-on: ImpSandboxReconciler turns an ImpSandbox into a     *)
(* network with a free /30 of the base block, a VM and a session Secret,   *)
(* all owned by the sandbox.  The reconcile is cut at its API calls, where *)
(* users, the VM's own controllers and the garbage collector come in       *)
(* between; it reads from one informer cache, which may lag.               *)
(***************************************************************************)
EXTENDS Naturals, FiniteSets, FiniteSetsExt

CONSTANTS
  Sandboxes, None, Live,
  BlockStart, BlockSize, \* the base block: its first address and its size
  SlotSize,              \* the addresses of a generated subnet
  Foreign,               \* the subnets users may create, <<address, size>>
  Specs,                 \* the sandbox specs users may ask for
  MaxUID,                \* how often a sandbox of one name may be created
  Env, MaxEvents         \* the disturbances that may happen, and how many

VARIABLES
  sb,        \* per name: the ImpSandbox object, or None
  vm,        \* per name: its ImpVM, or None
  net,       \* per name: its generated ImpNetwork, or None
  sec,       \* per name: the sandbox UID its session Secret is for, or None
  foreign,   \* the subnets of the other ImpNetworks
  floor,     \* ClusterImpConfig.sandbox.floorTenancy
  cni,       \* the CNIStore: "unknown", "cilium" or "other"
  admission, \* whether the admission webhooks are installed
  cache,     \* what the controller reads: Live, or an outdated copy
  queue,     \* its work queue
  timer,     \* sandboxes to be queued again after retryInterval
  work,      \* its worker: the reconcile it is in
  uids,      \* per name: the last UID given out
  events,    \* how many disturbances happened
  refused,   \* history: sandboxes whose VM was refused on creation
  lost,      \* history: sandboxes whose last status patch failed
  reused     \* history: sandboxes that found the network of a predecessor

objects == <<sb, vm, net, sec, foreign>>
settings == <<floor, cni, admission>>
worker == <<cache, queue, timer, work>>
history == <<refused, lost, reused>>
sbVars == <<objects, settings, worker, uids, events, history>>

(* Prefixes are masked and their sizes are powers of two, so that of two   *)
(* sizes one divides the other.                                            *)
ASSUME BlockAssumption ==
  /\ SlotSize \in Nat \ {0} /\ BlockSize \in Nat \ {0} /\ BlockStart \in Nat
  /\ BlockSize % SlotSize = 0 /\ BlockStart % BlockSize = 0
  /\ Foreign \subseteq Nat \X (Nat \ {0})
  /\ \A p \in Foreign : p[1] % p[2] = 0 /\ (BlockSize % p[2] = 0 \/ p[2] % BlockSize = 0)
ASSUME CountAssumption == MaxUID \in Nat \ {0} /\ MaxEvents \in Nat

UIDs == 1..MaxUID
TenancyMode == {"standard", "hard"}
ConditionStatus == {"", "True", "False", "Unknown"}
ImpSandboxSpec ==
  [tenancy : TenancyMode, template : BOOLEAN, class : BOOLEAN, image : BOOLEAN, networkRef : BOOLEAN,
   expireAfter : {"unset", "short", "long"}]
ImpSandbox ==
  [uid : UIDs, spec : ImpSandboxSpec, finalizer : BOOLEAN, deleting : BOOLEAN,
   ready : ConditionStatus, enforced : ConditionStatus]
ImpVM ==
  [owner : UIDs, node : BOOLEAN, phase : {"", "Scheduled", "Running", "Failed"},
   expires : BOOLEAN, ran : BOOLEAN, deleting : BOOLEAN]
TotalGeneratedSubnets == BlockSize \div SlotSize
ImpNetwork == [owner : UIDs, slot : 0..TotalGeneratedSubnets - 1]

OrNone(S) == S \cup {None}

ASSUME SpecsAssumption == Specs \subseteq ImpSandboxSpec
ASSUME NoneAssumption == None \notin ImpSandbox \cup ImpVM \cup ImpNetwork \cup UIDs

Copies ==
  [sb : [Sandboxes -> OrNone(ImpSandbox)], vm : [Sandboxes -> OrNone(ImpVM)],
   net : [Sandboxes -> OrNone(ImpNetwork)], sec : [Sandboxes -> OrNone(UIDs)],
   foreign : SUBSET Foreign, floor : TenancyMode]
Idle == [pc |-> "idle", s |-> None, o |-> None]

SandboxTypeOK ==
  /\ sb \in [Sandboxes -> OrNone(ImpSandbox)] /\ vm \in [Sandboxes -> OrNone(ImpVM)]
  /\ net \in [Sandboxes -> OrNone(ImpNetwork)] /\ sec \in [Sandboxes -> OrNone(UIDs)]
  /\ foreign \subseteq Foreign /\ floor \in TenancyMode
  /\ cni \in {"unknown", "cilium", "other"} /\ admission \in BOOLEAN
  /\ cache = Live \/ cache \in Copies
  /\ queue \subseteq Sandboxes /\ timer \subseteq Sandboxes
  /\ \/ work = Idle
     \/ work \in [pc : {"tenancy", "network", "vm", "status", "secret"}, s : Sandboxes, o : ImpSandbox]
  /\ uids \in [Sandboxes -> 0..MaxUID] /\ events \in 0..MaxEvents
  /\ \A h \in {refused, lost, reused} : h \subseteq Sandboxes

SandboxInit ==
  /\ sb = [s \in Sandboxes |-> None] /\ vm = [s \in Sandboxes |-> None]
  /\ net = [s \in Sandboxes |-> None] /\ sec = [s \in Sandboxes |-> None]
  /\ foreign = {} /\ floor = "standard" /\ cni = "unknown" /\ admission \in BOOLEAN
  /\ cache = Live /\ queue = {} /\ timer = {} /\ work = Idle
  /\ uids = [s \in Sandboxes |-> 0] /\ events = 0
  /\ refused = {} /\ lost = {} /\ reused = {}

Happens(e) == e \in Env /\ events < MaxEvents /\ events' = events + 1

(* What the controller reads.                                              *)
Now == [sb |-> sb, vm |-> vm, net |-> net, sec |-> sec, foreign |-> foreign, floor |-> floor]
Seen == IF cache = Live THEN Now ELSE cache

(* Mutant: the VMs are not watched.                                        *)
WatchedSandboxes(q) ==
  IF cache = Live THEN q \cup {s \in Sandboxes : sb'[s] # sb[s]} ELSE q

(* Changes of a sandbox or of its VM queue it; networks, Secrets and the   *)
(* ClusterImpConfig are not watched.                                       *)
Watched(q) ==
  IF cache = Live THEN q \cup {s \in Sandboxes : sb'[s] # sb[s] \/ vm'[s] # vm[s]} ELSE q
-----------------------------------------------------------------------------
(* Admission.                                                              *)

TenancyRank(t) == IF t = "hard" THEN 2 ELSE 1

(* validateTenancyAgainstFloor and resolveTenancy agree: below the floor   *)
(* is refused, and so is hard tenancy unless Cilium was detected.          *)
TenancyAllowed(t, fl) == TenancyRank(fl) <= TenancyRank(t) /\ (t = "hard" => cni = "cilium")

ValidSource(spec) ==
  /\ spec.template # spec.class
  /\ spec.class => spec.image

ValidExpiry(spec) == spec.expireAfter # "short"

(* Mutant: the expiry is left to the VM's webhook.                         *)
ValidateNoExpiry(spec) == ValidSource(spec) /\ TenancyAllowed(spec.tenancy, Seen.floor)

Validate(spec) == ValidSource(spec) /\ ValidExpiry(spec) /\ TenancyAllowed(spec.tenancy, Seen.floor)

ValidateUpdate(old, new) == Validate(new) /\ (old.tenancy = "hard" => new.tenancy = "hard")

(* The VM webhook: validateImpVM of the spec ensureVM writes.              *)
ValidateImpVM(spec) == ValidSource(spec) /\ ValidExpiry(spec)

(* An update of the sandbox itself, the finalizer's included.              *)
Admitted(s) == admission => ValidateUpdate(sb[s].spec, sb[s].spec)
-----------------------------------------------------------------------------
(* Subnets.                                                                *)

Overlaps(p, q) == p[1] < q[1] + q[2] /\ q[1] < p[1] + p[2]
IndexToCIDR(i) == <<BlockStart + i * SlotSize, SlotSize>>
Subnets(c) == c.foreign \cup {IndexToCIDR(c.net[s].slot) : s \in {t \in Sandboxes : c.net[t] # None}}

(* An address's position in a block, whichever block it is in.             *)
Ipv4Offset(a) == a % BlockSize

(* Mutant: the slot of the first address only.                             *)
OccupiedIndicesFirst(nets) ==
  {Ipv4Offset(p[1]) \div SlotSize : p \in {q \in nets : Overlaps(q, <<BlockStart, BlockSize>>)}}

OccupiedIndices(nets) ==
  UNION {LET first == Ipv4Offset(p[1])
             last == first + p[2] - 1 IN
         {i \in 0..TotalGeneratedSubnets - 1 : first \div SlotSize <= i /\ i <= last \div SlotSize}
         : p \in {q \in nets : Overlaps(q, <<BlockStart, BlockSize>>)}}

FreeIndices(c) == (0..TotalGeneratedSubnets - 1) \ OccupiedIndices(Subnets(c))
-----------------------------------------------------------------------------
(* The reconciler.                                                         *)

Done(again) == work' = Idle /\ queue' = Watched(again)
GoOn(pc, o) == work' = [pc |-> pc, s |-> work.s, o |-> o] /\ queue' = Watched(queue)

(* A call that fails ends the reconcile, and the sandbox is queued again.  *)
Retry == Done(queue \cup {work.s})

(* updateStatus: a merge patch against the copy, to whatever has the name; *)
(* its error is only logged. The conditions are one list, sent as a whole  *)
(* when one of them differs from the copy, if only in its message.         *)
UpdateStatus(s, o, ready, enforced) ==
  \/ /\ \E sent \in {TRUE, ready # o.ready \/ enforced # o.enforced} :
          sb' = IF sb[s] = None \/ ~sent THEN sb
                ELSE [sb EXCEPT ![s].ready = ready, ![s].enforced = enforced]
     /\ lost' = lost \ {s} /\ UNCHANGED events
  \/ Happens("api") /\ lost' = lost \cup {s} /\ UNCHANGED sb

(* reconcileDelete: first the VM, then the finalizer.                      *)
ReconcileDelete(s, o) ==
  \/ /\ Seen.vm[s] # None
     /\ vm' = IF vm[s] = None \/ Seen.vm[s].deleting THEN vm ELSE [vm EXCEPT ![s].deleting = TRUE]
     /\ UNCHANGED sb
     /\ timer' = timer \cup {s} /\ queue' = Watched(queue \ {s})
  \/ /\ Seen.vm[s] = None
     /\ UNCHANGED <<vm, timer>>
     /\ IF sb[s] = None \/ ~o.finalizer
        THEN UNCHANGED sb /\ queue' = queue \ {s}
        ELSE IF Admitted(s)
        THEN /\ sb' = [sb EXCEPT ![s] = IF @.deleting THEN None ELSE [@ EXCEPT !.finalizer = FALSE]]
             /\ queue' = Watched(queue \ {s})
        ELSE UNCHANGED <<sb, queue>>

(* Reconcile, up to the finalizer.                                         *)
Reconcile(s) ==
  LET o == Seen.sb[s] IN
  /\ work = Idle /\ s \in queue
  /\ \/ o = None /\ queue' = queue \ {s} /\ UNCHANGED <<sb, vm, timer, work>>
     \/ /\ o # None /\ o.deleting
        /\ ReconcileDelete(s, o) /\ UNCHANGED work
     \/ /\ o # None /\ ~o.deleting /\ ~o.finalizer /\ sb[s] # None /\ Admitted(s)
        /\ sb' = [sb EXCEPT ![s].finalizer = TRUE] /\ UNCHANGED <<vm, timer>>
        /\ work' = [pc |-> "tenancy", s |-> s, o |-> sb'[s]] /\ queue' = Watched(queue \ {s})
     \/ /\ o # None /\ ~o.deleting /\ o.finalizer
        /\ work' = [pc |-> "tenancy", s |-> s, o |-> o] /\ queue' = queue \ {s}
        /\ UNCHANGED <<sb, vm, timer>>
  /\ UNCHANGED <<net, sec, foreign, settings, cache, uids, events, history>>

(* resolveTenancy, and what a refusal reports.                             *)
ResolveTenancy ==
  LET s == work.s
      o == work.o IN
  /\ work.pc = "tenancy"
  /\ UNCHANGED <<vm, net, sec, foreign, settings, cache, uids, refused, reused>>
  /\ \/ /\ TenancyAllowed(o.spec.tenancy, Seen.floor)
        /\ UNCHANGED <<sb, timer, events, lost>> /\ GoOn("network", o)
     \/ /\ ~TenancyAllowed(o.spec.tenancy, Seen.floor)
        /\ UpdateStatus(s, o, "False", "False")
        /\ timer' = timer \cup {s} /\ Done(queue)

(* ensureNetwork: a network the spec refers to is managed elsewhere, an    *)
(* existing one is kept, whoever owns it, and a new one gets the lowest    *)
(* free slot of the networks seen.                                         *)
EnsureNetwork ==
  LET s == work.s
      o == work.o IN
  /\ work.pc = "network"
  /\ UNCHANGED <<vm, sec, foreign, settings, cache, timer, uids, refused>>
  /\ \/ /\ o.spec.networkRef
        /\ UNCHANGED <<sb, net, events, reused, lost>> /\ GoOn("vm", o)
     \/ /\ ~o.spec.networkRef /\ Seen.net[s] # None /\ net[s] # None
        /\ reused' = IF net[s].owner = o.uid THEN reused ELSE reused \cup {s}
        /\ UNCHANGED <<sb, net, events, lost>> /\ GoOn("vm", o)
     \/ /\ ~o.spec.networkRef /\ Seen.net[s] = None /\ net[s] = None /\ FreeIndices(Seen) # {}
        /\ net' = [net EXCEPT ![s] = [owner |-> o.uid, slot |-> Min(FreeIndices(Seen))]]
        /\ UNCHANGED <<sb, events, reused, lost>> /\ GoOn("vm", o)
     \/ /\ ~o.spec.networkRef
        /\ \/ Seen.net[s] # None /\ net[s] = None
           \/ Seen.net[s] = None /\ (net[s] # None \/ FreeIndices(Seen) = {})
        /\ UpdateStatus(s, o, "False", o.enforced)
        /\ UNCHANGED <<net, reused>> /\ Retry

(* The VM webhook on the spec ensureVM writes, which never names a node.   *)
VMAdmitted(s, o) == admission => ValidateImpVM(o.spec) /\ (vm[s] # None => ~vm[s].node)

(* ensureVM: the whole spec is replaced; a VM another sandbox object owns  *)
(* is an error.                                                            *)
EnsureVM ==
  LET s == work.s
      o == work.o
      seen == Seen.vm[s] IN
  /\ work.pc = "vm"
  /\ UNCHANGED <<sb, net, sec, foreign, settings, cache, timer, uids, events, lost, reused>>
  /\ \/ /\ seen = None /\ vm[s] = None /\ VMAdmitted(s, o)
        /\ vm' = [vm EXCEPT ![s] = [owner |-> o.uid, node |-> FALSE, phase |-> "",
                                    expires |-> o.spec.expireAfter # "unset",
                                    ran |-> FALSE, deleting |-> FALSE]]
        /\ UNCHANGED refused /\ GoOn("status", o)
     \/ /\ seen # None /\ seen.owner = o.uid /\ vm[s] # None
        /\ seen.node => VMAdmitted(s, o)
        /\ vm' = IF seen.node THEN [vm EXCEPT ![s].node = FALSE] ELSE vm
        /\ UNCHANGED refused /\ GoOn("status", o)
     \/ /\ \/ seen = None /\ (vm[s] # None \/ ~VMAdmitted(s, o))
           \/ seen # None /\ (seen.owner # o.uid \/ vm[s] = None \/ (seen.node /\ ~VMAdmitted(s, o)))
        /\ refused' = IF vm[s] = None /\ ~VMAdmitted(s, o) THEN refused \cup {s} ELSE refused
        /\ UNCHANGED vm /\ Retry

SetReadyFromPhase(phase) ==
  CASE phase = "Running" -> "True" [] phase = "Failed" -> "False" [] OTHER -> "Unknown"

(* The VM is read again, for the status; the patch's answer is the copy    *)
(* the reconcile goes on with.                                             *)
ReportStatus ==
  LET s == work.s
      seen == Seen.vm[s] IN
  /\ work.pc = "status"
  /\ UNCHANGED <<vm, net, sec, foreign, settings, cache, timer, uids, refused, reused>>
  /\ \/ seen = None /\ UNCHANGED <<sb, events, lost>> /\ Retry
     \/ /\ seen # None
        /\ UpdateStatus(s, work.o, SetReadyFromPhase(seen.phase), "True")
        /\ GoOn("secret", IF sb'[s] = None \/ lost' # lost \ {s} THEN work.o ELSE sb'[s])

(* Mutant: whatever Secret there is will do.                               *)
EnsureSessionSecretAny ==
  LET s == work.s IN
  /\ work.pc = "secret"
  /\ UNCHANGED <<sb, vm, net, foreign, settings, cache, timer, uids, events, history>>
  /\ sec' = [sec EXCEPT ![s] = IF @ = None THEN work.o.uid ELSE @]
  /\ Done(queue)

(* ensureSessionSecret: the token is that of the sandbox's UID; a Secret   *)
(* another sandbox object owns is an error.                                *)
EnsureSessionSecret ==
  LET s == work.s
      u == work.o.uid IN
  /\ work.pc = "secret"
  /\ UNCHANGED <<sb, vm, net, foreign, settings, cache, timer, uids, events, history>>
  /\ \/ Seen.sec[s] = None /\ sec[s] = None /\ sec' = [sec EXCEPT ![s] = u] /\ Done(queue)
     \/ Seen.sec[s] = u /\ UNCHANGED sec /\ Done(queue)
     \/ Seen.sec[s] \notin {None, u} /\ UNCHANGED sec /\ Retry
     \/ Seen.sec[s] = None /\ sec[s] # None /\ UNCHANGED sec /\ Retry

(* A call of the reconcile fails.                                          *)
CallFails ==
  /\ work # Idle /\ Happens("api")
  /\ UNCHANGED <<objects, settings, cache, timer, uids, history>> /\ Retry

Fire(s) ==
  /\ s \in timer /\ timer' = timer \ {s} /\ queue' = queue \cup {s}
  /\ UNCHANGED <<objects, settings, cache, work, uids, events, history>>
-----------------------------------------------------------------------------
(* The controller's process.                                               *)

DetectCNI ==
  /\ cni = "unknown" /\ cni' \in {"cilium", "other"}
  /\ UNCHANGED <<objects, floor, admission, worker, uids, events, history>>

(* A restart: the store is empty, everything is listed and queued.         *)
Restart ==
  /\ Happens("crash")
  /\ cni' = "unknown" /\ cache' = Live /\ work' = Idle /\ timer' = {}
  /\ queue' = {s \in Sandboxes : sb[s] # None}
  /\ UNCHANGED <<objects, floor, admission, uids, history>>

Freeze ==
  /\ cache = Live /\ Happens("lag") /\ cache' = Now
  /\ UNCHANGED <<objects, settings, queue, timer, work, uids, history>>

CatchUp ==
  /\ cache # Live /\ cache' = Live
  /\ queue' = queue \cup {s \in Sandboxes : cache.sb[s] # sb[s] \/ cache.vm[s] # vm[s]}
  /\ UNCHANGED <<objects, settings, timer, work, uids, events, history>>
-----------------------------------------------------------------------------
(* Users.                                                                  *)

others == <<settings, cache, timer, work, history>>

CreateSandbox(s, spec) ==
  /\ sb[s] = None /\ uids[s] < MaxUID
  /\ UNCHANGED <<vm, net, sec, foreign, settings, cache, timer, work, events>>
  /\ uids[s] > 0 => "recreate" \in Env
  /\ admission => Validate(spec)
  /\ uids' = [uids EXCEPT ![s] = @ + 1]
  /\ sb' = [sb EXCEPT ![s] = [uid |-> uids[s] + 1, spec |-> spec, finalizer |-> FALSE,
                              deleting |-> FALSE, ready |-> "", enforced |-> ""]]
  /\ queue' = Watched(queue)
  /\ refused' = refused \ {s} /\ lost' = lost \ {s}
  /\ reused' = reused \ {s}

UpdateTenancy(s, t) ==
  /\ sb[s] # None /\ t # sb[s].spec.tenancy /\ Happens("user")
  /\ UNCHANGED <<vm, net, sec, foreign, others, uids>>
  /\ admission => ValidateUpdate(sb[s].spec, [sb[s].spec EXCEPT !.tenancy = t])
  /\ sb' = [sb EXCEPT ![s].spec.tenancy = t] /\ queue' = Watched(queue)

DeleteSandbox(s) ==
  /\ sb[s] # None /\ ~sb[s].deleting /\ Happens("delete")
  /\ UNCHANGED <<vm, net, sec, foreign, others, uids>>
  /\ sb' = [sb EXCEPT ![s] = IF @.finalizer THEN [@ EXCEPT !.deleting = TRUE] ELSE None]
  /\ queue' = Watched(queue)

SetFloor ==
  /\ Happens("config")
  /\ floor' = IF floor = "hard" THEN "standard" ELSE "hard"
  /\ UNCHANGED <<objects, cni, admission, worker, uids, history>>

CreateNetwork(p) ==
  /\ p \notin foreign /\ Happens("foreign") /\ foreign' = foreign \cup {p}
  /\ UNCHANGED <<sb, vm, net, sec, others, queue, uids>>
-----------------------------------------------------------------------------
(* The VM's controllers, as far as a sandbox sees them, and the garbage    *)
(* collector.                                                              *)

SetVM(s, v) ==
  /\ vm' = [vm EXCEPT ![s] = v]
  /\ UNCHANGED <<sb, net, sec, foreign, settings, cache, timer, work, uids, refused, lost, reused>>
  /\ queue' = Watched(queue)

(* A VM without a node is given one, whatever its phase.                   *)
ScheduleVM(s) ==
  /\ vm[s] # None /\ ~vm[s].node /\ ~vm[s].deleting
  /\ SetVM(s, [vm[s] EXCEPT !.node = TRUE, !.phase = "Scheduled"])
  /\ UNCHANGED events

StartVM(s) ==
  /\ vm[s] # None /\ vm[s].node /\ vm[s].phase = "Scheduled" /\ ~vm[s].deleting
  /\ SetVM(s, [vm[s] EXCEPT !.phase = "Running", !.ran = TRUE])
  /\ UNCHANGED events

FailVM(s) ==
  /\ vm[s] # None /\ vm[s].phase = "Running" /\ Happens("exit")
  /\ SetVM(s, [vm[s] EXCEPT !.phase = "Failed"])

(* reconcileExpiry: expireAfter has passed since the VM first ran.         *)
ExpireVM(s) ==
  /\ vm[s] # None /\ vm[s].expires /\ vm[s].ran /\ ~vm[s].deleting /\ Happens("expire")
  /\ SetVM(s, [vm[s] EXCEPT !.deleting = TRUE])

RemoveVM(s) ==
  /\ vm[s] # None /\ vm[s].deleting
  /\ SetVM(s, None)
  /\ UNCHANGED events

Orphaned(s, u) == sb[s] # None => sb[s].uid # u

Collect(s) ==
  /\ \/ /\ vm[s] # None /\ ~vm[s].deleting /\ Orphaned(s, vm[s].owner)
        /\ vm' = [vm EXCEPT ![s].deleting = TRUE] /\ UNCHANGED <<net, sec>>
     \/ /\ net[s] # None /\ Orphaned(s, net[s].owner)
        /\ net' = [net EXCEPT ![s] = None] /\ UNCHANGED <<vm, sec>>
     \/ /\ sec[s] # None /\ Orphaned(s, sec[s])
        /\ sec' = [sec EXCEPT ![s] = None] /\ UNCHANGED <<vm, net>>
  /\ UNCHANGED sb /\ queue' = Watched(queue)
  /\ UNCHANGED <<foreign, others, uids, events>>
-----------------------------------------------------------------------------
Controller ==
  \/ \E s \in Sandboxes : Reconcile(s) \/ Fire(s)
  \/ ResolveTenancy \/ EnsureNetwork \/ EnsureVM \/ ReportStatus \/ EnsureSessionSecret

Surroundings ==
  \/ CallFails \/ DetectCNI \/ Restart \/ Freeze \/ CatchUp \/ SetFloor
  \/ \E s \in Sandboxes :
       \/ \E spec \in Specs : CreateSandbox(s, spec)
       \/ \E t \in TenancyMode : UpdateTenancy(s, t)
       \/ DeleteSandbox(s)
       \/ ScheduleVM(s) \/ StartVM(s) \/ FailVM(s) \/ ExpireVM(s) \/ RemoveVM(s)
       \/ Collect(s)
  \/ \E p \in Foreign : CreateNetwork(p)

SandboxNext == Controller \/ Surroundings

(* Fairness: the queue is served, timers fire, the watch delivers, the     *)
(* VM's controllers and the collector do their work.                       *)
SandboxFairness ==
  /\ WF_sbVars(ResolveTenancy) /\ WF_sbVars(EnsureNetwork) /\ WF_sbVars(EnsureVM)
  /\ WF_sbVars(ReportStatus) /\ WF_sbVars(EnsureSessionSecret)
  /\ WF_sbVars(CatchUp) /\ WF_sbVars(DetectCNI)
  /\ \A s \in Sandboxes :
       /\ SF_sbVars(Reconcile(s)) /\ WF_sbVars(Fire(s)) /\ WF_sbVars(Collect(s))
       /\ WF_sbVars(ScheduleVM(s)) /\ WF_sbVars(StartVM(s)) /\ WF_sbVars(RemoveVM(s))
-----------------------------------------------------------------------------
(* Properties.                                                             *)

AtRest == work = Idle /\ queue = {} /\ cache = Live

(* A generated subnet overlaps no network that exists when it is created,  *)
(* whatever the prefix lengths, and a sandbox is turned away for lack of   *)
(* subnets only when every slot is taken: allocateSubnet, unless the list  *)
(* it read was outdated.                                                   *)
AllocationExact ==
  [][\A s \in Sandboxes :
       (cache = Live /\ work.pc = "network" /\ work.s = s /\ ~work.o.spec.networkRef /\ net[s] = None) =>
         \/ /\ net'[s] # None
            /\ \A p \in Subnets(Now) : ~Overlaps(p, IndexToCIDR(net'[s].slot))
         \/ work' = work
         \/ events' > events
         \/ \A i \in 0..TotalGeneratedSubnets - 1 :
              \E p \in Subnets(Now) : Overlaps(p, IndexToCIDR(i))]_sbVars

(* With the webhooks installed a sandbox that was admitted gets a VM the   *)
(* VM webhook admits: the two validations agree on what ensureVM copies.   *)
AdmittedGetsVM == admission => refused = {}

(* Once the controller is idle, Ready tells whether the VM runs, unless    *)
(* the last status patch failed or the tenancy is refused, and a sandbox   *)
(* with an enforced tenancy has its Secret and, if it names none, a        *)
(* network of its own, unless it found the network of a sandbox of the     *)
(* same name that was being torn down.                                     *)
SandboxSettles ==
  AtRest => \A s \in Sandboxes \ lost :
    (sb[s] # None /\ ~sb[s].deleting) =>
      LET running == vm[s] # None /\ vm[s].phase = "Running"
          enforced == sb[s].enforced = "True" IN
      /\ sb[s].ready = "True" => running
      /\ running /\ enforced => sb[s].ready = "True"
      /\ enforced /\ s \notin reused => (sb[s].spec.networkRef \/ net[s] # None) /\ sec[s] = sb[s].uid

(* "watches owned ImpVMs so sandbox status tracks VM lifecycle changes": a *)
(* VM that keeps running is reported Ready.                                *)
RunningIsReported ==
  \A s \in Sandboxes :
    <>[](sb[s] # None /\ vm[s] # None /\ vm[s].phase = "Running")
      => <>(sb[s] # None /\ sb[s].ready = "True")
=============================================================================
