--------------------------- MODULE LANAttachment ----------------------------
(***************************************************************************)
(* LAN attachments beside the placement of their VMs: admission, the       *)
(* operator's authorization against the VM's node, and what the node's     *)
(* runtime builds on start and removes on stop. One definition, one        *)
(* attachment per VM and of its name.                                      *)
(***************************************************************************)
EXTENDS Placement, Sequences

CONSTANTS
  Users,
  Groups,        \* per user: the names of its groups, as the parts between commas
  Definitions,   \* what the allowlist may hold under the one name, or None
  Requests       \* the attachment specs users write

VARIABLES
  att,           \* the attachments, per VM they reference
  lan,           \* the definition in ClusterImpConfig
  binding,       \* per node: whether its profile binds the definition
  attQueue,      \* the attachments queued
  host,          \* per node: the bridge, the VLAN subinterface, the taps
  info,          \* per VM: the NetworkInfo the runtime holds for it
  agent,         \* per VM: where its agent is in a start, and on which node
  unguarded,     \* history: attachments deleted past the guard
  outdated,      \* history: attachments whose node's binding changed unseen
  changed        \* history: requests the definition changed under

lanVars == <<att, lan, binding, attQueue, host, info, agent, unguarded, outdated, changed>>
vars == <<placeVars, lanVars>>

Parts == UNION {Range(g) : g \in UNION {Groups[u] : u \in Users}}
ImpNetworkAttachment ==
  [spec : Requests, requester : Users \cup {None}, groups : SUBSET Parts,
   phase : {"", "Pending", "Authorized", "Denied"},
   reason : {"", "WaitingForVM", "WaitingForSchedule", "DefinitionMissing", "SubjectNotAllowed",
             "NodeBindingMissing", "Allowed"},
   node : Nodes \cup {None}, ip : BOOLEAN, uid : 0..MaxEvents]
NetworkInfo == [node : Nodes, bridge : {"", "imp", "admin"}]
Host == [bridge : BOOLEAN, vlan : BOOLEAN, tap : [VMs -> {"", "imp", "admin"}]]
NotStarting == [pc |-> "", node |-> None]
Copies ==
  [vm : [VMs -> ImpVM \cup {None}], health : [Nodes -> Health],
   att : [VMs -> ImpNetworkAttachment \cup {None}], lan : Definitions, binding : SUBSET Nodes]

TypeOK ==
  /\ PlacementTypeOK
  /\ cache = Live \/ cache \in Copies
  /\ att \in [VMs -> ImpNetworkAttachment \cup {None}] /\ lan \in Definitions
  /\ binding \subseteq Nodes /\ attQueue \subseteq VMs
  /\ host \in [Nodes -> Host] /\ info \in [VMs -> NetworkInfo \cup {None}]
  /\ \A v \in VMs : agent[v] = NotStarting \/ agent[v] \in [pc : {"start", "report"}, node : Nodes]
  /\ unguarded \subseteq VMs /\ outdated \subseteq VMs /\ changed \subseteq VMs

Init ==
  /\ PlacementInit /\ cache = Live
  /\ att = [v \in VMs |-> None] /\ lan \in Definitions \ {None} /\ binding \in SUBSET Nodes
  /\ attQueue = {}
  /\ host = [n \in Nodes |-> [bridge |-> FALSE, vlan |-> FALSE, tap |-> [v \in VMs |-> ""]]]
  /\ info = [v \in VMs |-> None] /\ agent = [v \in VMs |-> NotStarting]
  /\ unguarded = {} /\ outdated = {} /\ changed = {}

Now == [vm |-> vm, health |-> health, att |-> att, lan |-> lan, binding |-> binding]
Seen == IF cache = Live THEN Now ELSE cache
nodeVars == <<host, info, agent>>
marks == <<unguarded, outdated, changed>>
-----------------------------------------------------------------------------
(* Admission.                                                              *)

UserSubject(user) == [kind |-> "user", name |-> user]
GroupSubject(group) == [kind |-> "group", name |-> group]

(* Whether the definition permits a user; an empty list permits all.       *)
Permits(def, user, groups) ==
  \/ def.allowed = {}
  \/ user # None /\ (UserSubject(user) \in def.allowed \/ \E g \in groups : GroupSubject(g) \in def.allowed)

(* The groups in the annotation are joined with commas, and what is        *)
(* between two commas is a group again.                                    *)
JoinGroups(groups) == UNION {Range(g) : g \in groups}
RequesterGroups(a) == {<<part>> : part \in a.groups}

ValidAddress(def, spec) ==
  IF spec.dhcp THEN def.allowDHCP /\ spec.ip = "" ELSE spec.ip = "inside"

NotSandboxed(v) == Seen.vm[v] # None => ~Seen.vm[v].spec.sandbox

(* Mutant: the subjects are left to the controller.                        *)
ValidateSpecNoSubject(v, spec, user) ==
  NotSandboxed(v) /\ Seen.lan # None /\ ValidAddress(Seen.lan, spec)

ValidateSpec(v, spec, user) ==
  NotSandboxed(v) /\ Seen.lan # None /\ ValidAddress(Seen.lan, spec)
  /\ Permits(Seen.lan, user, Groups[user])

(* Mutant: a VM that is starting does not count.                           *)
ValidateDeleteRunning(v) == Seen.vm[v] # None => Seen.vm[v].phase # "Running"

ValidateDelete(v) == Seen.vm[v] # None => Seen.vm[v].phase \notin {"Running", "Starting"}
-----------------------------------------------------------------------------
(* The attachment controller.                                              *)

(* Mutant: the VMs are not watched.                                        *)
AttWatchedNoVM(q) ==
  IF cache # Live THEN q
  ELSE q \cup {v \in VMs : att'[v] # att[v] \/ (att[v] # None /\ lan' # lan)}

(* attachmentsForVM and attachmentsForAllowlist; node profiles are not     *)
(* watched.                                                                *)
AttWatched(q) ==
  IF cache # Live THEN q
  ELSE q \cup {v \in VMs : att'[v] # att[v] \/ (att[v] # None /\ (vm'[v] # vm[v] \/ lan' # lan))}

(* Reconcile's checks in their order.                                      *)
Decision(v, s) ==
  CASE s.vm[v] = None -> "WaitingForVM"
    [] s.vm[v] # None /\ s.vm[v].statusNode = None -> "WaitingForSchedule"
    [] OTHER ->
       CASE s.lan = None -> "DefinitionMissing"
         [] s.lan # None /\ ~Permits(s.lan, s.att[v].requester, RequesterGroups(s.att[v]))
              -> "SubjectNotAllowed"
         [] OTHER -> IF s.vm[v].statusNode \in s.binding THEN "Allowed" ELSE "NodeBindingMissing"

PhaseOf(reason) ==
  CASE reason = "Allowed" -> "Authorized"
    [] reason \in {"WaitingForVM", "WaitingForSchedule"} -> "Pending"
    [] OTHER -> "Denied"

(* decide: the node stays when there is none to report, the address when   *)
(* there was one. The update carries a resourceVersion, so a copy behind   *)
(* the object makes no change.                                             *)
Decide(a, v) ==
  LET reason == Decision(v, Seen) IN
    [a EXCEPT !.phase = PhaseOf(reason), !.reason = reason,
              !.node = IF PhaseOf(reason) = "Pending" THEN @ ELSE Seen.vm[v].statusNode,
              !.ip = @ \/ (reason = "Allowed" /\ ~a.spec.dhcp)]

Authorize(v) ==
  /\ v \in attQueue /\ Seen.att[v] = att[v]
  /\ att' = [att EXCEPT ![v] = IF @ = None THEN None ELSE Decide(@, v)]
  /\ outdated' = IF Seen.binding = binding THEN outdated \ {v} ELSE outdated
  /\ UNCHANGED <<placeVars, lan, binding, nodeVars, unguarded, changed>>
  /\ attQueue' = AttWatched(attQueue \ {v})
-----------------------------------------------------------------------------
(* The node: agent, runtime and host network.                              *)

(* The definition and the binding are read anew; an attachment whose       *)
(* condition is still True may fail here.                                  *)
HasAttachment(v) == ~vm[v].spec.network /\ att[v] # None /\ att[v].phase = "Authorized"
CanAttach(v, n) == HasAttachment(v) => lan # None /\ n \in binding
BridgeOf(v) == IF ~HasAttachment(v) THEN "" ELSE IF lan.vlan > 0 THEN "imp" ELSE "admin"

(* EnsureLANBridge, then SetupVM.                                          *)
EnsureLANBridge(h, v) ==
  CASE BridgeOf(v) = "imp" -> [h EXCEPT !.bridge = TRUE, !.vlan = TRUE, !.tap[v] = "imp"]
    [] BridgeOf(v) = "admin" -> [h EXCEPT !.tap[v] = "admin"]
    [] OTHER -> h

(* Mutant: the ports are not listed.                                       *)
TeardownLANBridgeAnyway(h) == [h EXCEPT !.bridge = FALSE, !.vlan = FALSE]

(* The subinterface is a port of the bridge like the taps.                 *)
TeardownLANBridgeIfUnused(h) ==
  IF h.vlan \/ \E v \in VMs : h.tap[v] = "imp" THEN h ELSE [h EXCEPT !.bridge = FALSE, !.vlan = FALSE]

(* Stop: what the runtime does not remember it does not tear down.         *)
Stop(v) ==
  /\ info' = [info EXCEPT ![v] = None]
  /\ host' = IF info[v] = None \/ info[v].bridge = "" THEN host
             ELSE [host EXCEPT ![info[v].node] =
                     IF info[v].bridge = "imp" THEN TeardownLANBridgeIfUnused([@ EXCEPT !.tap[v] = ""])
                     ELSE [@ EXCEPT !.tap[v] = ""]]

(* A handler of the agent changes its VM.                                  *)
Handles(v, new) ==
  /\ SetVM(v, new)
  /\ UNCHANGED <<att, lan, binding, marks, via, stale>>
  /\ attQueue' = AttWatched(attQueue)

HandleScheduled(v) ==
  /\ vm[v] # None /\ vm[v].phase = "Scheduled" /\ vm[v].node # None /\ agent[v] = NotStarting
  /\ agent' = [agent EXCEPT ![v] = [pc |-> "start", node |-> vm[v].node]]
  /\ Handles(v, [vm[v] EXCEPT !.phase = "Starting"])
  /\ UNCHANGED <<events, returned, host, info>>

(* Driver.Start up to the process. A start that cannot attach is an error: *)
(* a resume is retried, a start waits for its timeout.                     *)
DriverStart(v) ==
  LET n == agent[v].node IN
  /\ agent[v].pc = "start" /\ vm[v] # None
  /\ IF CanAttach(v, n)
     THEN /\ host' = [host EXCEPT ![n] = EnsureLANBridge(@, v)]
          /\ info' = [info EXCEPT ![v] = [node |-> n, bridge |-> BridgeOf(v)]]
          /\ agent' = [agent EXCEPT ![v].pc = "report"]
     ELSE /\ vm[v].phase # "Resuming"
          /\ agent' = [agent EXCEPT ![v] = NotStarting] /\ UNCHANGED <<host, info>>
  /\ UNCHANGED <<placeVars, att, lan, binding, attQueue, marks>>

(* The process does not come up. The deferred teardown removes the tap but *)
(* not the bridge; without an attachment it dereferences a NetworkInfo     *)
(* that is nil, and the runtime starts anew with no memory of its VMs.     *)
StartFails(v) ==
  LET n == agent[v].node IN
  /\ agent[v].pc = "start" /\ vm[v] # None /\ CanAttach(v, n) /\ Happens("start")
  /\ host' = IF ~HasAttachment(v) THEN host
             ELSE [host EXCEPT ![n] = [EnsureLANBridge(@, v) EXCEPT !.tap[v] = ""]]
  /\ info' = IF HasAttachment(v) \/ vm[v].spec.network THEN info
             ELSE [w \in VMs |-> IF info[w] # None /\ info[w].node = n THEN None ELSE info[w]]
  /\ agent' = [agent EXCEPT ![v] = IF vm[v].phase = "Resuming" THEN @ ELSE NotStarting]
  /\ UNCHANGED <<vm, health, settings, worker, born, history, att, lan, binding, attQueue, marks>>

(* The report overwrites whatever the phase has become, and with it what   *)
(* the scheduler counts.                                                   *)
ReportRunning(v) ==
  /\ agent[v].pc = "report" /\ agent' = [agent EXCEPT ![v] = NotStarting]
  /\ returned' = IF vm[v] # None /\ vm[v].phase \in Vacating THEN returned \cup {v} ELSE returned
  /\ Handles(v, [vm[v] EXCEPT !.phase = "Running"])
  /\ UNCHANGED <<events, host, info>>

(* handleStarting after the start timeout.                                 *)
HandleStarting(v) ==
  /\ vm[v] # None /\ vm[v].phase = "Starting" /\ agent[v] = NotStarting
  /\ Handles(v, [vm[v] EXCEPT !.phase = "Failed"])
  /\ UNCHANGED <<events, returned, nodeVars>>

(* The VM is gone when its agent reports.                                  *)
Forgets(v) ==
  /\ agent[v] # NotStarting /\ vm[v] = None /\ agent' = [agent EXCEPT ![v] = NotStarting]
  /\ UNCHANGED <<placeVars, att, lan, binding, attQueue, host, info, marks>>

(* handleRunning finds the process gone; Inspect has dropped its entry,    *)
(* the tap stays.                                                          *)
HandleExit(v) ==
  /\ vm[v] # None /\ vm[v].phase = "Running" /\ Happens("vmexit")
  /\ info' = [info EXCEPT ![v] = None]
  /\ Handles(v, [vm[v] EXCEPT !.phase = IF vm[v].spec.lifecycle = "ephemeral" THEN "Succeeded" ELSE "Failed"])
  /\ UNCHANGED <<returned, host, agent>>

(* handleSuspending: the process is stopped, the VM keeps its node.        *)
HandleSuspending(v) ==
  /\ vm[v] # None /\ vm[v].phase = "Running" /\ Happens("user")
  /\ Stop(v) /\ Handles(v, [vm[v] EXCEPT !.phase = "Suspended"])
  /\ UNCHANGED <<returned, agent>>

(* handleSuspended: nothing asks whether the node still has room.          *)
HandleSuspended(v) ==
  /\ vm[v] # None /\ vm[v].phase = "Suspended" /\ agent[v] = NotStarting /\ Happens("user")
  /\ agent' = [agent EXCEPT ![v] = [pc |-> "start", node |-> vm[v].node]]
  /\ returned' = returned \cup {v}
  /\ Handles(v, [vm[v] EXCEPT !.phase = "Resuming"])
  /\ UNCHANGED <<host, info>>

(* handleTerminating and clearOwnership.                                   *)
HandleTerminating(v) ==
  /\ vm[v] # None /\ vm[v].phase = "Terminating" /\ vm[v].statusNode # None /\ agent[v] = NotStarting
  /\ Stop(v) /\ Handles(v, [vm[v] EXCEPT !.statusNode = None])
  /\ UNCHANGED <<events, returned, agent>>

Agent ==
  \E v \in VMs : \/ HandleScheduled(v) \/ DriverStart(v) \/ ReportRunning(v) \/ HandleStarting(v)
                 \/ Forgets(v) \/ HandleTerminating(v)
-----------------------------------------------------------------------------
(* Users, administrators, and the operator's cache.                        *)

others == <<vm, health, settings, worker, born, history>>

(* Default stamps the requester; without webhooks nobody does.             *)
Stamp(a, u) ==
  IF admission THEN [a EXCEPT !.requester = u, !.groups = JoinGroups(Groups[u])] ELSE a

CreateAttachment(v) ==
  /\ att[v] = None /\ "attach" \in Env
  /\ \E spec \in Requests, u \in Users :
       /\ admission => ValidateSpec(v, spec, u)
       /\ att' = [att EXCEPT ![v] =
                    Stamp([spec |-> spec, requester |-> None, groups |-> {}, phase |-> "", reason |-> "",
                           node |-> None, ip |-> FALSE, uid |-> events], u)]
  /\ changed' = IF cache = Live THEN changed \ {v} ELSE changed \cup {v}
  /\ UNCHANGED <<others, lan, binding, events, nodeVars, unguarded, outdated>>
  /\ attQueue' = AttWatched(attQueue)

(* A deletion, by force or past the guard. A VM may be started without     *)
(* being Starting: one that resumes, or was failed or deleted meanwhile.   *)
DeleteAttachment(v) ==
  /\ att[v] # None /\ Happens("attach")
  /\ \/ /\ ValidateDelete(v)
        /\ unguarded' = IF cache # Live \/ (agent[v] # NotStarting /\ vm[v].phase # "Starting")
                        THEN unguarded \cup {v} ELSE unguarded
     \/ unguarded' = unguarded \cup {v}
  /\ att' = [att EXCEPT ![v] = None]
  /\ UNCHANGED <<others, lan, binding, nodeVars, outdated, changed>>
  /\ attQueue' = AttWatched(attQueue)

SetDefinition ==
  /\ Happens("admin") /\ \E d \in Definitions \ {lan} : lan' = d
  /\ changed' = changed \cup {v \in VMs : att[v] # None}
  /\ UNCHANGED <<others, att, binding, nodeVars, unguarded, outdated>>
  /\ attQueue' = AttWatched(attQueue)

SetBinding(n) ==
  /\ Happens("admin") /\ binding' = IF n \in binding THEN binding \ {n} ELSE binding \cup {n}
  /\ outdated' = outdated \cup {v \in VMs : att[v] # None}
  /\ UNCHANGED <<others, att, lan, attQueue, nodeVars, unguarded, changed>>

Freeze ==
  /\ cache = Live /\ Happens("lag") /\ cache' = Now
  /\ UNCHANGED <<vm, health, settings, queue, work, born, history, lanVars>>

CatchUp ==
  /\ cache # Live /\ cache' = Live
  /\ queue' = queue \cup {v \in VMs : cache.vm[v] # vm[v]}
                    \cup {v \in VMs : vm[v] # None /\ vm[v].node # None
                                      /\ cache.health[vm[v].node] # health[vm[v].node]}
  /\ attQueue' = attQueue \cup {v \in VMs : \/ cache.att[v] # att[v]
                                            \/ att[v] # None /\ (cache.vm[v] # vm[v] \/ cache.lan # lan)}
  /\ UNCHANGED <<vm, health, settings, work, born, events, history,
                 att, lan, binding, nodeVars, marks>>

(* Steps of Placement, as the attachments see them.                        *)
Follows == UNCHANGED <<att, lan, binding, nodeVars, marks>> /\ attQueue' = AttWatched(attQueue)
RestartAll ==
  /\ Restart /\ attQueue' = {v \in VMs : att[v] # None}
  /\ UNCHANGED <<att, lan, binding, nodeVars, marks>>

Next ==
  \/ Operator /\ Follows
  \/ \E v \in VMs : (CreateVM(v) \/ DeleteVM(v) \/ EditVM(v)) /\ Follows
  \/ \E n \in Nodes : NodeChanges(n) /\ Follows
  \/ RestartAll
  \/ Agent
  \/ \E v \in VMs : \/ Authorize(v) \/ StartFails(v) \/ HandleExit(v) \/ HandleSuspending(v)
                    \/ HandleSuspended(v) \/ CreateAttachment(v) \/ DeleteAttachment(v)
  \/ SetDefinition
  \/ \E n \in Nodes : SetBinding(n)
  \/ Freeze
  \/ CatchUp

Spec == Init /\ [][Next]_vars
-----------------------------------------------------------------------------
(* Properties.                                                             *)

(* When the operator has caught up and has no attachment queued, every     *)
(* attachment says what the checks of Reconcile give for its VM's node and *)
(* the allowlist as they are, unless a node's binding changed, which       *)
(* nothing watches. And admission and the controller agree on the          *)
(* subjects (Permits in both): an attachment the webhook let in is denied  *)
(* for its requester only if the definition has changed since, or the      *)
(* webhook read an older one, or the definition names a group of the       *)
(* requester with a comma in its name, which the annotation does not keep. *)
AuthorizationFollows ==
  /\ cache = Live /\ attQueue = {} =>
       \A v \in VMs : att[v] # None /\ v \notin outdated => att[v].reason = Decision(v, Now)
  /\ \A v \in VMs :
       admission /\ att[v] # None /\ att[v].reason = "SubjectNotAllowed"
         => v \in changed \/ \E g \in Groups[att[v].requester] :
                                  Len(g) > 1 /\ lan # None /\ GroupSubject(g) \in lan.allowed

(* A VM runs with a LAN interface only while its attachment exists, so     *)
(* that its teardown flows through the VM's stop (ValidateDelete), unless  *)
(* the deletion was forced, decided on an older copy, or came during a     *)
(* start that the phase does not show.                                     *)
GrantOutlivesInterface ==
  \A v \in VMs :
    vm[v] # None /\ vm[v].phase = "Running" /\ info[v] # None /\ info[v].bridge # "" /\ v \notin unguarded
      => att[v] # None

(* Whatever VMs start, fail and stop beside it, a running VM's tap on an   *)
(* Imp bridge has that bridge and its VLAN subinterface                    *)
(* (EnsureLANBridge, TeardownLANBridgeIfUnused).                           *)
UplinkKept ==
  \A v \in VMs :
    vm[v] # None /\ vm[v].phase = "Running" /\ info[v] # None /\ info[v].bridge = "imp"
      => LET h == host[info[v].node] IN h.bridge /\ h.vlan /\ h.tap[v] = "imp"
=============================================================================
