----------------------------- MODULE HostSetup -----------------------------
(***************************************************************************)
(* Start and Stop of FirecrackerDriver on one node, command by command:    *)
(* the ext4 image of rootfs.Builder, and the bridge, TAP devices, NAT rule *)
(* and egress-deny chain that LinuxNetManager keeps for one subnet with    *)
(* netlink and nft or iptables.  HostNetwork has the same calls on several *)
(* nodes with the claims, and takes what is here as one step.              *)
(*                                                                         *)
(* The VMs have one image, one class and one network with NAT, so one      *)
(* cache file and one subnet.  As in HostNetwork the agent makes one call  *)
(* at a time, and when it dies its call goes on as an orphan.  Commands    *)
(* that only one call can be affected by are one step; a check and the     *)
(* command that relies on it are two.                                      *)
(***************************************************************************)
EXTENDS Naturals, FiniteSets, LocalAllocator

CONSTANTS
  VMs,
  NoProc,     \* no entry in the procs map
  Texts,      \* CIDRs as a deny list may spell them
  Printed,    \* per backend and text: how it prints the rule made from the text
  Lists,      \* the deny lists the network may have
  Env,        \* the kinds of disturbance that may happen
  MaxEvents   \* bound: disturbances in a behaviour

EnvKinds == {"crash", "restart", "exit", "command", "build", "bootfail", "policy"}

ASSUME TextAssumption ==
  /\ Lists \subseteq SUBSET Texts
  /\ \A b \in {"nftables", "iptables"}, t \in Texts : Printed[b][t] \notin {"nat", "jump"}
  /\ \A b \in {"nftables", "iptables"}, s, t \in Texts : Printed[b][s] = t => Printed[b][t] = t
ASSUME VMsAssumption == IsFiniteSet(VMs)
ASSUME BoundAssumption == MaxEvents \in Nat /\ Env \subseteq EnvKinds

Slots == {"agent", "orphan"}
Backends == {"nftables", "iptables"}
Targets == {Printed[b][t] : b \in Backends, t \in Texts}
Handles == 1 .. 4 * (Cardinality(Texts) + 2)   \* bound: rules that exist or are remembered
Rule == [what : Targets \cup {"nat", "jump"}, h : Handles]

BuildPCs == {"stat", "open", "write", "rename", "read"}
SetupPCs == {"brnew", "brfresh", "braddr", "brup", "tap", "tapnew", "tapon", "nat", "natadd",
             "chain", "newchain", "look", "jump", "list", "sync", "unreserve", "undo", "clear"}
StopPCs == {"stop", "untap", "release", "unnat", "unnatdel", "unchk", "unlook", "unjump",
            "flush", "unchain", "drop"}

Entry == [net : BOOLEAN, deny : SUBSET Texts]

ASSUME EntryAssumption == NoProc \notin Entry

(* A call in flight: its VM, the deny list it has read (or found in the    *)
(* entry), the drops still to add, the rules it has listed and will        *)
(* delete; for a build, the file mke2fs has open and whether it has had it *)
(* to itself.                                                              *)
Call ==
  [pc : BuildPCs \cup SetupPCs \cup StopPCs \cup {"boot"}, vm : VMs, deny : SUBSET Texts,
   add : SUBSET Texts, del : SUBSET Rule, file : {"none", "tmp", "dest", "gone"}, clean : BOOLEAN]
Idle == [pc |-> "idle"]

NewCall(pc, v, deny) ==
  [pc |-> pc, vm |-> v, deny |-> deny, add |-> {}, del |-> {}, file |-> "none", clean |-> FALSE]

VARIABLES
  backend,     \* natBackend
  denyCIDRs,   \* spec.firewall.denyCidrs of the network, {} without a firewall
  img,         \* the cache: the files tmp and dest, and users, the VMs that run on dest
  bridge,      \* "none", "bare", "addressed" (has the gateway address) or "up"
  tap,         \* per VM: "none", "made" or "up" (attached to the bridge)
  chain,       \* the deny chain of the subnet exists
  rules,       \* the rules of the subnet: MASQUERADE, jumps to the chain, drops in it
  alloc,       \* the Allocator
  procs,       \* per VM: the entry, net when it has a netInfo; or NoProc
  live,        \* the VMs with a Firecracker process
  phase,       \* per VM: "down", "starting" or "up", as the agent sees it
  calls,       \* per slot: the runtime call in flight
  kept,        \* history: per VM, what every deny list since its start denies
  overlapped,  \* history: VMs with two calls at once, or started while running
  leftover,    \* history: a VM was started while an entry of an earlier start was left
  raced,       \* history: two calls have worked on the host network at once
  shared,      \* history: two builds have had the temporary file at once
  doubled,     \* history: a call has found equal drops in the chain
  events       \* disturbances so far

links == <<bridge, tap>>
filter == <<chain, rules>>
book == <<alloc, procs, live>>
status == <<phase, kept>>
env == <<backend, denyCIDRs>>
hist == <<overlapped, leftover, raced, shared, doubled>>
vars == <<env, img, links, filter, book, status, calls, hist, events>>

TypeOK ==
  /\ backend \in Backends
  /\ denyCIDRs \in Lists
  /\ img \in [tmp : {"none", "partial", "whole"}, dest : {"none", "partial", "whole"},
              users : SUBSET VMs]
  /\ bridge \in {"none", "bare", "addressed", "up"}
  /\ tap \in [VMs -> {"none", "made", "up"}]
  /\ chain \in BOOLEAN
  /\ rules \subseteq Rule
  /\ alloc \in [allocated : SUBSET VMs, count : Nat]
  /\ procs \in [VMs -> Entry \cup {NoProc}]
  /\ live \subseteq VMs
  /\ phase \in [VMs -> {"down", "starting", "up"}]
  /\ calls \in [Slots -> Call \cup {Idle}]
  /\ kept \in [VMs -> SUBSET Targets]
  /\ overlapped \subseteq VMs
  /\ leftover \in BOOLEAN /\ raced \in BOOLEAN /\ shared \in BOOLEAN /\ doubled \in BOOLEAN
  /\ events \in Nat

Init ==
  /\ backend \in Backends
  /\ denyCIDRs \in Lists
  /\ img = [tmp |-> "none", dest |-> "none", users |-> {}]
  /\ bridge = "none"
  /\ tap = [v \in VMs |-> "none"]
  /\ chain = FALSE
  /\ rules = {}
  /\ alloc = NewAllocator
  /\ procs = [v \in VMs |-> NoProc]
  /\ live = {}
  /\ phase = [v \in VMs |-> "down"]
  /\ calls = [s \in Slots |-> Idle]
  /\ kept = [v \in VMs |-> {}]
  /\ overlapped = {}
  /\ leftover = FALSE /\ raced = FALSE /\ shared = FALSE /\ doubled = FALSE
  /\ events = 0

Happens(kind) == kind \in Env /\ events < MaxEvents /\ events' = events + 1

NoEvent == UNCHANGED events

-----------------------------------------------------------------------------
(* A call in flight.                                                       *)

Goto(s, pc) == calls' = [calls EXCEPT ![s].pc = pc]

(* Only an agent that is still there records the outcome.                  *)
Return(s, p) ==
  LET v == calls[s].vm IN
  /\ calls' = [calls EXCEPT ![s] = Idle]
  /\ phase' = IF s = "agent" THEN [phase EXCEPT ![v] = p] ELSE phase
  /\ kept' = IF p = "down" THEN [kept EXCEPT ![v] = {}] ELSE kept

(* What the rules made from a deny list read like.                         *)
PrintedAs(list) == {Printed[backend][t] : t \in list}

Calls(v) == {s \in Slots : calls[s] # Idle /\ calls[s].vm = v}

(* Another call is at work on the host network.                            *)
Busy(s) == \E t \in Slots \ {s} : calls[t].pc \in SetupPCs \cup StopPCs

-----------------------------------------------------------------------------
(* rootfs.Builder.                                                         *)

BeginStart(v) ==
  /\ phase[v] = "down" /\ calls["agent"] = Idle
  /\ calls' = [calls EXCEPT !["agent"] = NewCall("stat", v, {})]
  /\ phase' = [phase EXCEPT ![v] = "starting"]
  /\ overlapped' = IF v \in live \/ Calls(v) # {} THEN overlapped \cup {v} ELSE overlapped
  /\ leftover' = (leftover \/ procs[v] # NoProc)
  /\ UNCHANGED <<env, img, links, filter, book, kept, raced, shared, doubled>> /\ NoEvent

(* A cached image is used as it is.                                        *)
CacheStat(s) ==
  /\ calls[s].pc = "stat"
  /\ Goto(s, IF img.dest = "none" THEN "open" ELSE "read")
  /\ UNCHANGED <<env, img, links, filter, book, status, hist>> /\ NoEvent

(* Mutant: mke2fs writes to the cache path.                                *)
BuildExt4InPlace(s) ==
  /\ calls[s].pc = "open"
  /\ img' = [img EXCEPT !.dest = "partial", !.tmp = "whole"]
  /\ calls' = [calls EXCEPT ![s] = [@ EXCEPT !.pc = "write", !.file = "dest", !.clean = TRUE]]
  /\ UNCHANGED <<env, links, filter, book, status, hist>> /\ NoEvent

(* The layers are extracted to a directory of the call's own; then mke2fs  *)
(* opens the temporary file, which all builds of the image share, and      *)
(* writes over what is there.                                              *)
BuildExt4(s) ==
  LET writers == {t \in Slots \ {s} : calls[t].pc = "write" /\ calls[t].file = "tmp"} IN
  /\ calls[s].pc = "open"
  /\ img' = [img EXCEPT !.tmp = "partial"]
  /\ calls' = [t \in Slots |->
                 CASE t = s -> [calls[t] EXCEPT !.pc = "write", !.file = "tmp",
                                                !.clean = (writers = {})]
                   [] t \in writers -> [calls[t] EXCEPT !.clean = FALSE]
                   [] OTHER -> calls[t]]
  /\ shared' = (shared \/ \E t \in Slots \ {s} : calls[t].pc \in {"write", "rename"})
  /\ UNCHANGED <<env, links, filter, book, status, overlapped, leftover, raced, doubled>> /\ NoEvent

(* mke2fs is done with its file, wherever that is by now.                  *)
Ext4Written(s) ==
  LET c == calls[s] IN
  /\ c.pc = "write"
  /\ img' = IF c.file \in {"tmp", "dest"} /\ c.clean THEN [img EXCEPT ![c.file] = "whole"] ELSE img
  /\ Goto(s, "rename")
  /\ UNCHANGED <<env, links, filter, book, status, hist>> /\ NoEvent

(* What the files are called after the temporary one is renamed or removed.*)
Moved(c, to) ==
  CASE c = Idle -> c
    [] c # Idle /\ c.file = "tmp" -> [c EXCEPT !.file = to]
    [] c # Idle /\ c.file = "dest" /\ to = "dest" -> [c EXCEPT !.file = "gone"]
    [] OTHER -> c

(* os.Rename; without a temporary file it is an error.                     *)
CacheRename(s) ==
  /\ calls[s].pc = "rename"
  /\ IF img.tmp = "none"
     THEN Return(s, "down") /\ UNCHANGED img
     ELSE /\ img' = [tmp |-> "none", dest |-> img.tmp, users |-> {}]
          /\ calls' = [t \in Slots |->
                         LET c == Moved(calls[t], "dest")
                         IN  IF t = s THEN [c EXCEPT !.pc = "read", !.file = "none"] ELSE c]
          /\ UNCHANGED status
  /\ UNCHANGED <<env, links, filter, book, hist>> /\ NoEvent

(* Pulling, extracting, an option or the size check fails; or mke2fs or    *)
(* the rename does, and the temporary file is removed.                     *)
BuildFails(s) ==
  LET c == calls[s] IN
  /\ c.pc \in {"stat", "open", "write", "rename"} /\ Happens("build")
  /\ img' = IF c.pc \in {"write", "rename"} THEN [img EXCEPT !.tmp = "none"] ELSE img
  /\ calls' = [t \in Slots |-> IF t = s THEN Idle
                               ELSE IF c.pc \in {"write", "rename"} THEN Moved(calls[t], "gone") ELSE calls[t]]
  /\ phase' = IF s = "agent" THEN [phase EXCEPT ![c.vm] = "down"] ELSE phase
  /\ UNCHANGED <<env, links, filter, book, kept, hist>>

Build(s) == CacheStat(s) \/ BuildExt4(s) \/ Ext4Written(s) \/ CacheRename(s) \/ BuildFails(s)

-----------------------------------------------------------------------------
(* setupNetwork: the bridge and the TAP device.                            *)

(* The network is read, the address claimed and reserved, and the bridge   *)
(* looked for.                                                             *)
ReadNetwork(s) ==
  LET c == calls[s] IN
  /\ c.pc = "read"
  /\ alloc' = Reserve(alloc, c.vm)
  /\ calls' = [calls EXCEPT ![s].pc = IF bridge = "none" THEN "brnew" ELSE "braddr",
                            ![s].deny = denyCIDRs]
  /\ kept' = [kept EXCEPT ![c.vm] = PrintedAs(denyCIDRs)]
  /\ raced' = (raced \/ Busy(s))
  /\ UNCHANGED <<env, img, links, filter, procs, live, phase, overlapped, leftover, shared, doubled>> /\ NoEvent

(* EnsureNetwork makes the bridge; one that has appeared meanwhile is an   *)
(* error.                                                                  *)
BridgeAdd(s) ==
  /\ calls[s].pc = "brnew"
  /\ IF bridge = "none" THEN bridge' = "bare" /\ Goto(s, "brfresh")
     ELSE Goto(s, "unreserve") /\ UNCHANGED bridge
  /\ UNCHANGED <<env, img, tap, filter, book, status, hist>> /\ NoEvent

(* An address that is there already is an error on a bridge just made.     *)
BridgeAddress(s) ==
  /\ calls[s].pc \in {"brfresh", "braddr"}
  /\ bridge' = IF bridge = "bare" THEN "addressed" ELSE bridge
  /\ Goto(s, IF calls[s].pc = "brfresh" /\ bridge # "bare" THEN "unreserve" ELSE "brup")
  /\ UNCHANGED <<env, img, tap, filter, book, status, hist>> /\ NoEvent

BridgeUp(s) ==
  /\ calls[s].pc = "brup"
  /\ bridge' = "up" /\ Goto(s, "tap")
  /\ UNCHANGED <<env, img, tap, filter, book, status, hist>> /\ NoEvent

(* SetupVM: look for the TAP, make it, attach it.                          *)
TapLook(s) ==
  /\ calls[s].pc = "tap"
  /\ Goto(s, IF tap[calls[s].vm] = "none" THEN "tapnew" ELSE "tapon")
  /\ UNCHANGED <<env, img, links, filter, book, status, hist>> /\ NoEvent

TapAdd(s) ==
  LET v == calls[s].vm IN
  /\ calls[s].pc = "tapnew"
  /\ IF tap[v] = "none" THEN tap' = [tap EXCEPT ![v] = "made"] /\ Goto(s, "tapon")
     ELSE Goto(s, "unreserve") /\ UNCHANGED tap
  /\ UNCHANGED <<env, img, bridge, filter, book, status, hist>> /\ NoEvent

TapAttach(s) ==
  LET v == calls[s].vm IN
  /\ calls[s].pc = "tapon"
  /\ IF tap[v] # "none" THEN tap' = [tap EXCEPT ![v] = "up"] /\ Goto(s, "nat")
     ELSE Goto(s, "unreserve") /\ UNCHANGED tap
  /\ UNCHANGED <<env, img, bridge, filter, book, status, hist>> /\ NoEvent

Links(s) ==
  \/ ReadNetwork(s) \/ BridgeAdd(s) \/ BridgeAddress(s) \/ BridgeUp(s)
  \/ TapLook(s) \/ TapAdd(s) \/ TapAttach(s)
-----------------------------------------------------------------------------
(* EnsureNAT and EnsureEgressDeny.                                         *)

First(S) == CHOOSE r \in S : TRUE

Of(what) == {r \in rules : r.what = what}
Drops == {r \in rules : r.what \in Targets}

(* A rule is added under a handle that no rule has and no call remembers.  *)
(* Handles are used again, so their order is not that of the chain: which  *)
(* of several equal rules is taken is arbitrary, as they do the same.      *)
FreeHandles ==
  Handles \ {r.h : r \in rules \cup UNION {calls[t].del : t \in {u \in Slots : calls[u] # Idle}}}

CanAdd == FreeHandles # {}
Added(what) == rules \cup {[what |-> what, h |-> CHOOSE h \in FreeHandles : TRUE]}

(* nft deletes by handle, iptables the first rule that reads the same.     *)
Deleted(r) ==
  IF backend = "nftables" THEN rules \ {r}
  ELSE IF Of(r.what) = {} THEN rules ELSE rules \ {First(Of(r.what))}

AfterNAT(c) == IF c.deny = {} THEN "boot" ELSE "chain"

NATLook(s) ==
  /\ calls[s].pc = "nat"
  /\ Goto(s, IF Of("nat") = {} THEN "natadd" ELSE AfterNAT(calls[s]))
  /\ UNCHANGED <<env, img, links, filter, book, status, hist>> /\ NoEvent

NATAdd(s) ==
  /\ calls[s].pc = "natadd" /\ CanAdd
  /\ rules' = Added("nat") /\ Goto(s, AfterNAT(calls[s]))
  /\ UNCHANGED <<env, img, links, chain, book, status, hist>> /\ NoEvent

(* nft adds the chain and ignores that it exists; iptables looks first.    *)
ChainEnsure(s) ==
  /\ calls[s].pc = "chain"
  /\ IF backend = "nftables" THEN chain' = TRUE /\ Goto(s, "look")
     ELSE Goto(s, IF chain THEN "look" ELSE "newchain") /\ UNCHANGED chain
  /\ UNCHANGED <<env, img, links, rules, book, status, hist>> /\ NoEvent

ChainNew(s) ==
  /\ calls[s].pc = "newchain"
  /\ chain' = TRUE /\ Goto(s, IF chain THEN "undo" ELSE "look")
  /\ UNCHANGED <<env, img, links, rules, book, status, hist>> /\ NoEvent

JumpLook(s) ==
  /\ calls[s].pc = "look"
  /\ Goto(s, IF Of("jump") = {} THEN "jump" ELSE "list")
  /\ UNCHANGED <<env, img, links, filter, book, status, hist>> /\ NoEvent

JumpAdd(s) ==
  /\ calls[s].pc = "jump" /\ CanAdd
  /\ IF chain THEN rules' = Added("jump") /\ Goto(s, "list")
     ELSE Goto(s, "undo") /\ UNCHANGED rules
  /\ UNCHANGED <<env, img, links, chain, book, status, hist>> /\ NoEvent

(* The chain is listed.  A text that is not printed the way it is spelled  *)
(* is missing every time; of equal rules that are not wanted one is noted. *)
DropsList(s) ==
  LET c == calls[s]
      existing == {r.what : r \in Drops} IN
  /\ c.pc = "list"
  /\ IF chain
     THEN calls' = [calls EXCEPT ![s] = [c EXCEPT !.pc = "sync",
                      !.add = {t \in c.deny : t \notin existing},
                      !.del = {First(Of(w)) : w \in existing \ c.deny}]]
     ELSE Goto(s, "undo")
  /\ doubled' = (doubled \/ \E r, q \in Drops : r # q /\ r.what = q.what)
  /\ UNCHANGED <<env, img, links, filter, book, status, overlapped, leftover, raced, shared>> /\ NoEvent

(* Mutant: what is not wanted is deleted first.                            *)
DropsSyncDeleteFirst(s) ==
  LET c == calls[s] IN
  /\ c.pc = "sync"
  /\ \/ /\ c.add # {} /\ c.del = {} /\ chain /\ CanAdd
        /\ \E t \in c.add : rules' = Added(Printed[backend][t])
                            /\ calls' = [calls EXCEPT ![s].add = @ \ {t}]
     \/ /\ c.del # {}
        /\ \E r \in c.del : rules' = Deleted(r) /\ calls' = [calls EXCEPT ![s].del = @ \ {r}]
     \/ c.add = {} /\ c.del = {} /\ Goto(s, "boot") /\ UNCHANGED rules
  /\ UNCHANGED <<env, img, links, chain, book, status, hist>> /\ NoEvent

(* Mutant: nothing is deleted.                                             *)
DropsSyncAddOnly(s) ==
  LET c == calls[s] IN
  /\ c.pc = "sync"
  /\ \/ /\ c.add # {} /\ chain /\ CanAdd
        /\ \E t \in c.add : rules' = Added(Printed[backend][t])
                            /\ calls' = [calls EXCEPT ![s].add = @ \ {t}]
     \/ c.add = {} /\ Goto(s, "boot") /\ UNCHANGED rules
  /\ UNCHANGED <<env, img, links, chain, book, status, hist>> /\ NoEvent

(* The missing drops are added, then the others deleted; an error ends it. *)
DropsSync(s) ==
  LET c == calls[s] IN
  /\ c.pc = "sync"
  /\ \/ /\ c.add # {} /\ chain /\ CanAdd
        /\ \E t \in c.add : rules' = Added(Printed[backend][t])
                            /\ calls' = [calls EXCEPT ![s].add = @ \ {t}]
     \/ /\ c.add = {} /\ \E r \in c.del : Deleted(r) # rules
        /\ \E r \in c.del :
             /\ Deleted(r) # rules /\ rules' = Deleted(r)
             /\ calls' = [calls EXCEPT ![s].del = @ \ {r}]
     \/ /\ \/ c.add # {} /\ ~chain
           \/ c.add = {} /\ \E r \in c.del : Deleted(r) = rules
        /\ Goto(s, "undo") /\ UNCHANGED rules
     \/ c.add = {} /\ c.del = {} /\ Goto(s, "boot") /\ UNCHANGED rules
  /\ UNCHANGED <<env, img, links, chain, book, status, hist>> /\ NoEvent

Filter(s) ==
  \/ NATLook(s) \/ NATAdd(s) \/ ChainEnsure(s) \/ ChainNew(s)
  \/ JumpLook(s) \/ JumpAdd(s) \/ DropsList(s) \/ DropsSync(s)

-----------------------------------------------------------------------------
(* The end of Start.                                                       *)

(* The machine starts, with the cache file as its writable root disk.      *)
Boot(s) ==
  LET c == calls[s] IN
  /\ c.pc = "boot"
  /\ live' = live \cup {c.vm}
  /\ procs' = [procs EXCEPT ![c.vm] = [net |-> TRUE, deny |-> c.deny]]
  /\ img' = [img EXCEPT !.users = @ \cup {c.vm}]
  /\ Return(s, "up")
  /\ UNCHANGED <<env, links, filter, alloc, hist>> /\ NoEvent

BootFails(s) ==
  /\ calls[s].pc = "boot" /\ Happens("bootfail")
  /\ Goto(s, "undo")
  /\ UNCHANGED <<env, img, links, filter, book, status, hist>>

(* releaseNetworkIP, whose answer is not looked at; after a failure of the *)
(* policy or of the machine also TeardownVM.                               *)
UndoReserve(s) ==
  LET c == calls[s] IN
  /\ c.pc \in {"unreserve", "undo"}
  /\ alloc' = Release(alloc, c.vm)
  /\ IF c.pc = "undo" THEN Goto(s, "clear") /\ UNCHANGED status ELSE Return(s, "down")
  /\ UNCHANGED <<env, img, links, filter, procs, live, hist>> /\ NoEvent

UndoTap(s) ==
  /\ calls[s].pc = "clear"
  /\ tap' = [tap EXCEPT ![calls[s].vm] = "none"]
  /\ Return(s, "down")
  /\ UNCHANGED <<env, img, bridge, filter, book, hist>> /\ NoEvent

Finish(s) == Boot(s) \/ BootFails(s) \/ UndoReserve(s) \/ UndoTap(s)
-----------------------------------------------------------------------------
(* Stop.                                                                   *)

(* A reattached entry has neither machine nor netInfo: it is just dropped. *)
BeginStop(v) ==
  LET e == procs[v] IN
  /\ calls["agent"] = Idle /\ e # NoProc
  /\ calls' = [calls EXCEPT !["agent"] = NewCall(IF e.net THEN "stop" ELSE "drop", v, e.deny)]
  /\ overlapped' = IF Calls(v) # {} THEN overlapped \cup {v} ELSE overlapped
  /\ raced' = (raced \/ Busy("agent"))
  /\ UNCHANGED <<env, img, links, filter, book, status, leftover, shared, doubled>> /\ NoEvent

(* Of two processes of a VM the other one may be left.                     *)
StopMachine(s) ==
  LET v == calls[s].vm IN
  /\ calls[s].pc = "stop"
  /\ live' \in {live \ {v}} \cup (IF v \in overlapped THEN {live} ELSE {})
  /\ img' = [img EXCEPT !.users = @ \cap live']
  /\ Goto(s, "untap")
  /\ UNCHANGED <<env, links, filter, alloc, procs, status, hist>> /\ NoEvent

TeardownVM(s) ==
  /\ calls[s].pc = "untap"
  /\ tap' = [tap EXCEPT ![calls[s].vm] = "none"]
  /\ Goto(s, "release")
  /\ UNCHANGED <<env, img, bridge, filter, book, status, hist>> /\ NoEvent

(* The rules of the subnet go with the last address.                       *)
StopRelease(s) ==
  /\ calls[s].pc = "release"
  /\ alloc' = Release(alloc, calls[s].vm)
  /\ Goto(s, IF WasLast(alloc) THEN "unnat" ELSE "drop")
  /\ UNCHANGED <<env, img, links, filter, procs, live, status, hist>> /\ NoEvent

AfterRemoveNAT(c) ==
  IF c.deny = {} THEN "drop" ELSE IF backend = "nftables" THEN "unlook" ELSE "unchk"

(* RemoveNAT finds the first rule of the subnet, then deletes it.          *)
NATFind(s) ==
  LET c == calls[s] IN
  /\ c.pc = "unnat"
  /\ calls' = [calls EXCEPT ![s] =
                 IF Of("nat") = {} THEN [c EXCEPT !.pc = AfterRemoveNAT(c)]
                 ELSE [c EXCEPT !.pc = "unnatdel", !.del = {First(Of("nat"))}]]
  /\ UNCHANGED <<env, img, links, filter, book, status, hist>> /\ NoEvent

(* The rule a call has noted is deleted, if it is still there.             *)
DeleteNoted(s, next) ==
  /\ \E r \in calls[s].del : rules' = Deleted(r)
  /\ calls' = [calls EXCEPT ![s] = [@ EXCEPT !.pc = next, !.del = {}]]
  /\ UNCHANGED <<env, img, links, chain, book, status, hist>> /\ NoEvent

NATDelete(s) == calls[s].pc = "unnatdel" /\ DeleteNoted(s, AfterRemoveNAT(calls[s]))

(* RemoveEgressDeny with iptables stops here without a chain.              *)
ChainLook(s) ==
  /\ calls[s].pc = "unchk"
  /\ Goto(s, IF chain THEN "unlook" ELSE "drop")
  /\ UNCHANGED <<env, img, links, filter, book, status, hist>> /\ NoEvent

AfterJump == IF backend = "nftables" THEN "unchain" ELSE "flush"

JumpFind(s) ==
  LET c == calls[s] IN
  /\ c.pc = "unlook"
  /\ calls' = [calls EXCEPT ![s] =
                 IF Of("jump") = {} THEN [c EXCEPT !.pc = AfterJump]
                 ELSE [c EXCEPT !.pc = "unjump", !.del = {First(Of("jump"))}]]
  /\ UNCHANGED <<env, img, links, filter, book, status, hist>> /\ NoEvent

JumpDelete(s) == calls[s].pc = "unjump" /\ DeleteNoted(s, AfterJump)

ChainFlush(s) ==
  /\ calls[s].pc = "flush"
  /\ rules' = rules \ Drops
  /\ Goto(s, "unchain")
  /\ UNCHANGED <<env, img, links, chain, book, status, hist>> /\ NoEvent

(* A chain that a jump refers to is not deleted, by iptables not one with  *)
(* rules; nft may take the rules along or refuse.  The error is ignored.   *)
ChainDelete(s) ==
  /\ calls[s].pc = "unchain"
  /\ \/ /\ Of("jump") = {} /\ (Drops = {} \/ backend = "nftables")
        /\ chain' = FALSE /\ rules' = rules \ Drops
     \/ /\ Of("jump") # {} \/ Drops # {}
        /\ UNCHANGED <<chain, rules>>
  /\ Goto(s, "drop")
  /\ UNCHANGED <<env, img, links, book, status, hist>> /\ NoEvent

StopDrop(s) ==
  /\ calls[s].pc = "drop"
  /\ procs' = [procs EXCEPT ![calls[s].vm] = NoProc]
  /\ Return(s, "down")
  /\ UNCHANGED <<env, img, links, filter, alloc, live, hist>> /\ NoEvent

Stop(s) ==
  \/ StopMachine(s) \/ TeardownVM(s) \/ StopRelease(s) \/ NATFind(s) \/ NATDelete(s)
  \/ ChainLook(s) \/ JumpFind(s) \/ JumpDelete(s) \/ ChainFlush(s) \/ ChainDelete(s) \/ StopDrop(s)

-----------------------------------------------------------------------------
(* Failures, and what else happens on the node.                            *)

(* Where a call goes on when the command it is at fails.  A look-up that   *)
(* fails counts as "not found", but listing a chain of nft is an error.    *)
(* EnsureNAT, TeardownVM and the removals are best effort.                 *)
OnError(c) ==
  CASE c.pc \in {"brnew", "brfresh", "braddr", "brup", "tapnew", "tapon"} -> "unreserve"
    [] c.pc \in {"newchain", "jump", "list", "sync"} -> "undo"
    [] c.pc = "tap" -> "tapnew"
    [] c.pc = "nat" -> "natadd"
    [] c.pc = "natadd" -> AfterNAT(c)
    [] c.pc = "chain" -> IF backend = "nftables" THEN "look" ELSE "newchain"
    [] c.pc = "look" -> IF backend = "nftables" THEN "undo" ELSE "jump"
    [] c.pc = "untap" -> "release"
    [] c.pc \in {"unnat", "unnatdel"} -> AfterRemoveNAT(c)
    [] c.pc \in {"unchk", "unchain"} -> "drop"
    [] c.pc \in {"unlook", "unjump"} -> AfterJump
    [] c.pc = "flush" -> "unchain"

CommandFails(s) ==
  LET c == calls[s] IN
  /\ c.pc \in (SetupPCs \cup StopPCs) \ {"unreserve", "undo", "clear", "stop", "release", "drop"}
  /\ Happens("command")
  /\ Goto(s, OnError(c))
  /\ UNCHANGED <<env, img, links, filter, book, status, hist>>

(* The network's list is changed; nothing is done on the host before the   *)
(* next Start.                                                             *)
ChangePolicy ==
  /\ Happens("policy")
  /\ \E l \in Lists \ {denyCIDRs} :
       /\ denyCIDRs' = l
       /\ kept' = [v \in VMs |-> kept[v] \cap PrintedAs(l)]
  /\ UNCHANGED <<backend, img, links, filter, alloc, procs, live, phase, calls, hist>>

(* handleRunning with Backend.Get: a process that the map has lost is      *)
(* reattached; the entry of one that has gone is dropped.                  *)
Inspect(v) ==
  /\ phase[v] = "up" /\ calls["agent"] = Idle
  /\ IF v \in live
     THEN /\ procs[v] = NoProc
          /\ procs' = [procs EXCEPT ![v] = [net |-> FALSE, deny |-> {}]]
          /\ UNCHANGED status
     ELSE /\ procs' = [procs EXCEPT ![v] = NoProc]
          /\ phase' = [phase EXCEPT ![v] = "down"]
          /\ kept' = [kept EXCEPT ![v] = {}]
  /\ UNCHANGED <<env, img, links, filter, alloc, live, calls, hist>> /\ NoEvent

(* handleStarting gives a start that left no trace up.                     *)
StartTimeout(v) ==
  /\ phase[v] = "starting" /\ calls["agent"] = Idle
  /\ phase' = [phase EXCEPT ![v] = "down"]
  /\ UNCHANGED <<env, img, links, filter, book, kept, calls, hist>> /\ NoEvent

ProcessExit(v) ==
  /\ v \in live /\ Happens("exit")
  /\ live' = live \ {v} /\ img' = [img EXCEPT !.users = @ \ {v}]
  /\ UNCHANGED <<env, links, filter, alloc, procs, status, calls, hist>>

(* The agent dies; its call goes on.                                       *)
AgentCrash ==
  /\ calls["agent"] # Idle /\ calls["orphan"] = Idle /\ Happens("crash")
  /\ calls' = [agent |-> Idle, orphan |-> calls["agent"]]
  /\ UNCHANGED <<env, img, links, filter, book, status, hist>>

(* The runtime restarts: its memory and its calls are lost, and mke2fs     *)
(* with them; the VMs survive or are killed too.                           *)
RuntimeRestart ==
  /\ Happens("restart")
  /\ alloc' = NewAllocator
  /\ procs' = [v \in VMs |-> NoProc]
  /\ calls' = [s \in Slots |-> Idle]
  /\ live' \in {live, {}} /\ img' = [img EXCEPT !.users = @ \cap live']
  /\ kept' = [v \in VMs |-> {}]
  /\ UNCHANGED <<env, links, filter, phase, hist>>

Next ==
  \/ \E s \in Slots :
       /\ calls[s] # Idle
       /\ Build(s) \/ Links(s) \/ Filter(s) \/ Finish(s) \/ Stop(s) \/ CommandFails(s)
  \/ \E v \in VMs :
       BeginStart(v) \/ BeginStop(v) \/ Inspect(v) \/ StartTimeout(v) \/ ProcessExit(v)
  \/ ChangePolicy \/ AgentCrash \/ RuntimeRestart

Spec == Init /\ [][Next]_vars

-----------------------------------------------------------------------------
(* What the host is promised.                                              *)

(* The VMs whose process runs and whose entry has the netInfo.             *)
Owned == {v \in live : procs[v] # NoProc /\ procs[v].net}

(* What packets from the subnet are dropped for.                           *)
Dropped == IF chain /\ Of("jump") # {} THEN {r.what : r \in Drops} ELSE {}

(* "This prevents a partially-written file from poisoning the cache"       *)
(* (buildFromImageWithIdentity): whatever fails, and wherever the runtime  *)
(* restarts, a file at the cache path is one mke2fs has finished, as long  *)
(* as no two builds of the image ran at once.                              *)
CacheWhole == ~shared => img.dest # "partial"

(* "A sandbox network that cannot enforce its deny list must not boot with *)
(* unrestricted egress" (setupNetwork), nor lose it later: what all lists  *)
(* since its start deny is dropped for a VM the runtime knows the network  *)
(* of, through other VMs' starts and stops, changes of the list, failing   *)
(* commands and restarts, unless two calls worked on the network at once   *)
(* or a VM was started twice over, or over what an earlier start left.     *)
EgressKept ==
  ~raced /\ ~leftover /\ overlapped = {} => \A v \in Owned : kept[v] \subseteq Dropped

(* "The installed rule set for this subnet must exactly equal denyCIDRs    *)
(* after the call" (NetManager), whatever an earlier call left behind, if  *)
(* no other call interferes and none found equal rules in the chain.       *)
EgressReconciled ==
  [][\A s \in Slots :
       /\ calls[s].pc = "sync" /\ calls'[s] # Idle /\ calls'[s].pc = "boot"
       /\ ~raced /\ ~doubled
       => Dropped = PrintedAs(calls[s].deny)]_vars

(* CacheWhole for builds of one image at the same time, which share        *)
(* dest + ".tmp" (buildFromImageWithIdentity).                             *)
CacheNeverPartial == img.dest # "partial"

(* EgressKept for a Stop and a Start at the same time, of which the one    *)
(* removes the chain the other has found (RemoveEgressDeny).               *)
EgressNeverLost == overlapped = {} => \A v \in Owned : kept[v] \subseteq Dropped

(* EgressReconciled also when the chain has a rule twice, of which the     *)
(* handles by target keep one (nftDropHandles).                            *)
EgressExact ==
  [][\A s \in Slots :
       /\ calls[s].pc = "sync" /\ calls'[s] # Idle /\ calls'[s].pc = "boot" /\ ~raced
       => Dropped = PrintedAs(calls[s].deny)]_vars

(* "CPU/memory/storage-isolated microVM workloads" (README.md): no two VMs *)
(* that run have the same file as their writable root disk.                *)
DisksIsolated == Cardinality(img.users) <= 1
=============================================================================
