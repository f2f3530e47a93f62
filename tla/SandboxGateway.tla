--------------------------- MODULE SandboxGateway ---------------------------
(***************************************************************************)
(* The data plane of the sandboxes: the node's gateway authorizes a call   *)
(* for a sandbox UID, dials the VM's guest and works in a session the      *)
(* guest opens for the token of that UID.  A guest lives as long as the    *)
(* VM's process; a call's deadline, a lost answer or a wedged guest may    *)
(* come in between any two of its steps.                                   *)
(***************************************************************************)
EXTENDS Sandbox

CONSTANT Calls   \* the calls clients make

VARIABLES
  guest,   \* per name: the guest's SandboxServer, or None
  call,    \* per call: where the gateway is with it
  tokens,  \* per name: the UIDs whose token a client has read
  served   \* history: the calls a guest has worked for, with the guest's token

gwVars == <<guest, call, tokens, served>>
vars == <<sbVars, gwVars>>

Methods == {"Exec", "File"}
SandboxServer == [token : UIDs, sessions : SUBSET Calls, wedged : BOOLEAN]
ASSUME NoServerAssumption == None \notin SandboxServer
NoCall == [pc |-> "idle", s |-> None, uid |-> None, method |-> None]
Stages == {"open", "opened", "work", "close", "done"}

TypeOK ==
  /\ SandboxTypeOK
  /\ guest \in [Sandboxes -> OrNone(SandboxServer)]
  /\ call \in [Calls -> {NoCall} \cup [pc : Stages, s : Sandboxes, uid : UIDs, method : Methods]]
  /\ tokens \in [Sandboxes -> SUBSET UIDs]
  /\ served \subseteq Calls \X UIDs

Init ==
  /\ SandboxInit
  /\ guest = [s \in Sandboxes |-> None] /\ call = [c \in Calls |-> NoCall]
  /\ tokens = [s \in Sandboxes |-> {}] /\ served = {}
-----------------------------------------------------------------------------
(* NewSandboxServer: a fresh guest with the token of the VM's environment. *)
NewSandboxServer(u) == [token |-> u, sessions |-> {}, wedged |-> FALSE]

Up(v) == v # None /\ v.phase = "Running"

(* What a step of the controllers means for the guests: one boots with the *)
(* VM's process and dies with it; the Secret hands out the token.          *)
Follow ==
  /\ guest' = [s \in Sandboxes |->
       IF ~Up(vm'[s]) THEN None
       ELSE IF Up(vm[s]) THEN guest[s] ELSE NewSandboxServer(vm'[s].owner)]
  /\ tokens' = [s \in Sandboxes |-> IF sec'[s] = None THEN tokens[s] ELSE tokens[s] \cup {sec'[s]}]
  /\ UNCHANGED <<call, served>>

Control == SandboxNext /\ Follow
-----------------------------------------------------------------------------
(* The gateway.                                                            *)

Step(c, pc) == call' = [call EXCEPT ![c].pc = pc]
Guest(c) == guest[call[c].s]
SetGuest(c, g) == guest' = [guest EXCEPT ![call[c].s] = g]

(* An answer needs a guest that is up and not wedged.                      *)
Answers(c) == Guest(c) # None /\ ~Guest(c).wedged

(* authorize and requireVM accept the token of uid for the VM it was made  *)
(* for; without the VM's socket on this node the call ends at once.        *)
Authorize(c, s, u, m) ==
  /\ call[c].pc = "idle" /\ u \in tokens[s] /\ Happens("call")
  /\ call' = [call EXCEPT ![c] = [pc |-> IF guest[s] = None THEN "done" ELSE "open", s |-> s,
                                  uid |-> u, method |-> m]]
  /\ UNCHANGED <<objects, settings, worker, uids, history, guest, tokens, served>>

quiet == <<objects, settings, worker, uids, events, history, tokens>>

(* OpenSession in the guest: the token must be its own.                    *)
OpenSession(c) ==
  /\ call[c].pc = "open" /\ Answers(c)
  /\ IF Guest(c).token = call[c].uid
     THEN SetGuest(c, [Guest(c) EXCEPT !.sessions = @ \cup {c}]) /\ Step(c, "opened")
     ELSE UNCHANGED guest /\ Step(c, "done")
  /\ UNCHANGED <<quiet, served>>

(* The answer reaches the gateway.                                         *)
SessionOpened(c) ==
  /\ call[c].pc = "opened" /\ Answers(c) /\ Step(c, "work")
  /\ UNCHANGED <<quiet, guest, served>>

(* Mutant: sessions are not looked up.                                     *)
VerifySessionNot(c) == TRUE

(* The guest's handlers, of a command or a file, work only in an open      *)
(* session.  Whether they succeed or refuse, the gateway closes after it.  *)
VerifySession(c) == c \in Guest(c).sessions

GuestHandles(c) ==
  /\ call[c].pc = "work" /\ Answers(c) /\ Step(c, "close")
  /\ served' = IF VerifySession(c) THEN served \cup {<<c, Guest(c).token>>} ELSE served
  /\ UNCHANGED <<quiet, guest>>

CloseSession(c) ==
  /\ call[c].pc = "close" /\ Answers(c)
  /\ SetGuest(c, [Guest(c) EXCEPT !.sessions = @ \ {c}]) /\ Step(c, "done")
  /\ UNCHANGED <<quiet, served>>

GuestLost(c) ==
  /\ call[c].pc \in Stages \ {"done"} /\ Guest(c) = None /\ Step(c, "done")
  /\ UNCHANGED <<quiet, guest, served>>

(* Exec's deadline, which the deferred close has as well: the session      *)
(* stays.  The file calls have no deadline.                                *)
Deadline(c) ==
  /\ call[c].pc \in Stages \ {"done"} /\ call[c].method = "Exec" /\ Step(c, "done")
  /\ UNCHANGED <<quiet, guest, served>>

(* closeGuestSession is best-effort.                                       *)
CloseLost(c) ==
  /\ call[c].pc = "close" /\ Happens("rpc") /\ Step(c, "done")
  /\ UNCHANGED <<objects, settings, worker, uids, history, guest, tokens, served>>

WedgeGuest(s) ==
  /\ guest[s] # None /\ Happens("wedge") /\ guest' = [guest EXCEPT ![s].wedged = TRUE]
  /\ UNCHANGED <<objects, settings, worker, uids, history, call, tokens, served>>

(* The gateway's process ends, with its calls.                             *)
GatewayRestart ==
  /\ Happens("gateway")
  /\ call' = [c \in Calls |-> IF call[c].pc = "idle" THEN NoCall ELSE [call[c] EXCEPT !.pc = "done"]]
  /\ UNCHANGED <<objects, settings, worker, uids, history, guest, tokens, served>>

Gateway ==
  \/ \E c \in Calls :
       \/ \E s \in Sandboxes, u \in UIDs, m \in Methods : Authorize(c, s, u, m)
       \/ OpenSession(c) \/ SessionOpened(c) \/ GuestHandles(c) \/ CloseSession(c)
       \/ GuestLost(c) \/ Deadline(c) \/ CloseLost(c)
  \/ \E s \in Sandboxes : WedgeGuest(s)
  \/ GatewayRestart

Next == Control \/ Gateway
Spec == Init /\ [][Next]_vars
FairSpec == Spec /\ SandboxFairness
-----------------------------------------------------------------------------
(* A guest works only for calls that showed the token of its own sandbox   *)
(* object, also when it has replaced the guest the call was dialled to.    *)
RightGuest == \A w \in served : call[w[1]].uid = w[2]

(* Disagreement: the guest forgets the session of a call that is over, as  *)
(* closeGuestSession expects of it when its own close is lost.             *)
SessionsExpire ==
  \A s \in Sandboxes, c \in Calls :
    (guest[s] # None /\ c \in guest[s].sessions /\ call[c].pc = "done")
      ~> (guest[s] = None \/ c \notin guest[s].sessions)
=============================================================================
