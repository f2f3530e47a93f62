-------------------------- MODULE HostSetupProofs --------------------------
(***************************************************************************)
(* Proofs about HostSetup, for any VMs, deny lists and ways to print them  *)
(* and any number of disturbances: its types, what each step leaves alone, *)
(* and the cache of root filesystems.                                      *)
(***************************************************************************)
EXTENDS HostSetup, TLAPS

-----------------------------------------------------------------------------
(* Type correctness.                                                       *)

PCs == BuildPCs \cup SetupPCs \cup StopPCs \cup {"boot"}

LEMMA IdleIsNoCall == Idle \notin Call /\ Idle.pc \notin PCs
BY Zenon DEF Idle, Call, PCs, BuildPCs, SetupPCs, StopPCs

(* A call in flight has the fields of one.                                 *)
LEMMA CallFields ==
  ASSUME TypeOK, NEW s \in Slots, calls[s] # Idle
  PROVE  /\ calls[s] \in Call /\ calls[s].pc \in PCs /\ calls[s].vm \in VMs
         /\ calls[s].deny \subseteq Texts /\ calls[s].add \subseteq Texts
         /\ calls[s].del \subseteq Rule
BY Zenon DEF TypeOK, Call, PCs

LEMMA AtPC ==
  ASSUME TypeOK, NEW s \in Slots, calls[s].pc \in PCs
  PROVE  calls[s] # Idle
BY IdleIsNoCall, Zenon

(* What does not change when a call goes on.                               *)
SameButPC(c, d) ==
  /\ d.vm = c.vm /\ d.deny = c.deny /\ d.add = c.add /\ d.del = c.del
  /\ d.file = c.file /\ d.clean = c.clean

LEMMA CallMoves ==
  ASSUME NEW c \in Call, NEW x \in PCs
  PROVE  /\ [c EXCEPT !.pc = x] \in Call
         /\ [c EXCEPT !.pc = x].pc = x
         /\ SameButPC(c, [c EXCEPT !.pc = x])
BY Zenon DEF Call, PCs, SameButPC

(* What a step that changes one call does to the calls.                    *)
LEMMA CallSet ==
  ASSUME TypeOK, NEW s \in Slots, NEW c \in Call \cup {Idle}, calls' = [calls EXCEPT ![s] = c]
  PROVE  /\ calls' \in [Slots -> Call \cup {Idle}]
         /\ calls'[s] = c
         /\ \A t \in Slots \ {s} : calls'[t] = calls[t]
BY Zenon DEF TypeOK

LEMMA GotoSet ==
  ASSUME TypeOK, NEW s \in Slots, calls[s] # Idle, NEW x \in PCs, Goto(s, x)
  PROVE  /\ calls' \in [Slots -> Call \cup {Idle}]
         /\ calls'[s] \in Call /\ calls'[s].pc = x /\ SameButPC(calls[s], calls'[s])
         /\ \A t \in Slots \ {s} : calls'[t] = calls[t]
<1> DEFINE c == [calls[s] EXCEPT !.pc = x]
<1>1. c \in Call /\ c.pc = x /\ SameButPC(calls[s], c)
  BY CallFields, CallMoves, Zenon
<1>2. calls' = [calls EXCEPT ![s] = c]
  BY Zenon DEF Goto
<1> HIDE DEF c
<1> QED
  BY <1>1, <1>2, CallSet, Zenon

LEMMA ReturnSet ==
  ASSUME TypeOK, NEW s \in Slots, calls[s] # Idle, NEW p \in {"down", "up"}, Return(s, p)
  PROVE  /\ calls' \in [Slots -> Call \cup {Idle}]
         /\ calls'[s] = Idle /\ \A t \in Slots \ {s} : calls'[t] = calls[t]
         /\ phase' \in [VMs -> {"down", "starting", "up"}]
         /\ kept' \in [VMs -> SUBSET Targets]
         /\ \A v \in VMs : v # calls[s].vm => phase'[v] = phase[v] /\ kept'[v] = kept[v]
         /\ kept'[calls[s].vm] \subseteq kept[calls[s].vm]
         /\ p = "up" => kept' = kept
<1>1. calls' = [calls EXCEPT ![s] = Idle]
  BY Zenon DEF Return
<1>2. calls[s].vm \in VMs
  BY CallFields, Zenon
<1>3. phase' \in [VMs -> {"down", "starting", "up"}] /\ kept' \in [VMs -> SUBSET Targets]
  BY <1>2, Zenon DEF Return, TypeOK
<1>4. /\ \A v \in VMs : v # calls[s].vm => phase'[v] = phase[v] /\ kept'[v] = kept[v]
      /\ kept'[calls[s].vm] \subseteq kept[calls[s].vm]
      /\ p = "up" => kept' = kept
  BY <1>2, Zenon DEF Return, TypeOK
<1> QED
  BY <1>1, <1>3, <1>4, CallSet, Zenon

LEMMA EventType ==
  ASSUME TypeOK, NEW k, NoEvent \/ Happens(k)
  PROVE  events' \in Nat
BY DEF TypeOK, NoEvent, Happens

LEMMA AllocatorType ==
  ASSUME NEW a \in [allocated : SUBSET VMs, count : Nat], NEW v \in VMs
  PROVE  /\ Reserve(a, v) \in [allocated : SUBSET VMs, count : Nat]
         /\ Release(a, v) \in [allocated : SUBSET VMs, count : Nat]
BY DEF Reserve, Release

(* What the rules made from a deny list read like is among the targets.    *)
LEMMA PrintedType ==
  ASSUME TypeOK, NEW l \in SUBSET Texts
  PROVE  PrintedAs(l) \subseteq Targets
BY DEF TypeOK, PrintedAs, Targets

LEMMA ListsAreTexts == TypeOK => denyCIDRs \subseteq Texts
BY TextAssumption, Zenon DEF TypeOK

(* A free handle is one, and the rule added under it is new.               *)
LEMMA AddedRules ==
  ASSUME TypeOK, CanAdd, NEW w \in Targets \cup {"nat", "jump"}
  PROVE  \E q \in Rule :
           /\ Added(w) = rules \cup {q} /\ q.what = w /\ q \notin rules
           /\ \A t \in Slots : calls[t] # Idle => q \notin calls[t].del
<1> DEFINE h == CHOOSE h \in FreeHandles : TRUE
           q == [what |-> w, h |-> h]
<1>1. h \in FreeHandles
  BY Zenon DEF CanAdd
<1> HIDE DEF h
<1>2. q \in Rule /\ q.what = w /\ q.h = h
  BY <1>1, Zenon DEF Rule, FreeHandles
<1>3. Added(w) = rules \cup {q}
  BY Zenon DEF Added, h
<1>4. q \notin rules
  BY <1>1, <1>2, Zenon DEF FreeHandles
<1>5. ASSUME NEW t \in Slots, calls[t] # Idle, q \in calls[t].del PROVE FALSE
  <2>1. q \in UNION {calls[u].del : u \in {x \in Slots : calls[x] # Idle}}
    BY <1>5, Zenon
  <2>2. q.h \in {r.h : r \in rules \cup UNION {calls[u].del : u \in {x \in Slots : calls[x] # Idle}}}
    BY <2>1, Zenon
  <2> QED
    BY <1>1, <1>2, <2>2, Zenon DEF FreeHandles
<1> HIDE DEF q
<1> QED
  BY <1>2, <1>3, <1>4, <1>5, Zenon

LEMMA FirstOf ==
  ASSUME NEW S, S # {}
  PROVE  First(S) \in S
BY Zenon DEF First

LEMMA DeletedRules == \A r : Deleted(r) \subseteq rules
BY Zenon DEF Deleted

LEMMA InitTyped == Init => TypeOK
<1> SUFFICES ASSUME Init PROVE TypeOK
  BY Zenon
<1>1. alloc \in [allocated : SUBSET VMs, count : Nat]
  BY Zenon DEF Init, NewAllocator
<1>2. calls \in [Slots -> Call \cup {Idle}]
  BY Zenon DEF Init
<1> QED
  BY <1>1, <1>2, Zenon DEF Init, TypeOK

(* Another build may change what a call knows of its file, nothing else.   *)
Alike(c, d) ==
  /\ c = Idle <=> d = Idle
  /\ c # Idle => d.pc = c.pc /\ d.vm = c.vm /\ d.deny = c.deny /\ d.add = c.add /\ d.del = c.del

LEMMA MovedFile ==
  ASSUME NEW c \in Call \cup {Idle}, NEW to \in {"dest", "gone"}
  PROVE  /\ Moved(c, to) \in Call \cup {Idle} /\ Alike(c, Moved(c, to))
         /\ c \in Call => Moved(c, to) \in Call /\ Moved(c, to).clean = c.clean
<1>1. CASE c = Idle
  BY <1>1, IdleIsNoCall, Zenon DEF Moved, Alike
<1>2. CASE c # Idle
  <2>1. c \in Call
    BY <1>2, Zenon
  <2>2. \A f \in {"dest", "gone"} :
          LET d == [c EXCEPT !.file = f]
          IN  /\ d \in Call /\ d.clean = c.clean
              /\ d.pc = c.pc /\ d.vm = c.vm /\ d.deny = c.deny /\ d.add = c.add /\ d.del = c.del
    BY <2>1, Zenon DEF Call
  <2>3. Moved(c, to) \in {c, [c EXCEPT !.file = to], [c EXCEPT !.file = "gone"]}
    BY <1>2, Zenon DEF Moved
  <2> QED
    BY <1>2, <2>1, <2>2, <2>3, IdleIsNoCall, Zenon DEF Alike
<1> QED
  BY <1>1, <1>2, Zenon

(* mke2fs opens the temporary file.                                        *)
LEMMA BuildExt4Calls ==
  ASSUME TypeOK, NEW s \in Slots, calls[s] # Idle, BuildExt4(s)
  PROVE  /\ calls' \in [Slots -> Call \cup {Idle}]
         /\ \A t \in Slots \ {s} : Alike(calls[t], calls'[t])
         /\ calls'[s] \in Call /\ calls'[s].pc = "write" /\ calls'[s].file = "tmp"
         /\ calls'[s].vm = calls[s].vm /\ calls'[s].deny = calls[s].deny
<1> DEFINE writers == {t \in Slots \ {s} : calls[t].pc = "write" /\ calls[t].file = "tmp"}
<1>1. /\ \A t \in Slots : t # s => calls'[t] \in {calls[t], [calls[t] EXCEPT !.clean = FALSE]}
      /\ \A t \in Slots : t # s /\ calls[t].pc # "write" => calls'[t] = calls[t]
      /\ calls' = [t \in Slots |-> calls'[t]]
      /\ calls'[s] = [calls[s] EXCEPT !.pc = "write", !.file = "tmp", !.clean = (writers = {})]
  BY Zenon DEF BuildExt4
<1>2. calls[s] \in Call /\ (writers = {}) \in BOOLEAN
  BY CallFields, Zenon
<1> HIDE DEF writers
<1>3. /\ calls'[s] \in Call /\ calls'[s].pc = "write" /\ calls'[s].file = "tmp"
      /\ calls'[s].vm = calls[s].vm /\ calls'[s].deny = calls[s].deny
  BY <1>1, <1>2, Zenon DEF Call, BuildPCs
<1>4. ASSUME NEW t \in Slots \ {s} PROVE calls'[t] \in Call \cup {Idle} /\ Alike(calls[t], calls'[t])
  <2>1. CASE calls[t] = Idle
    <3>1. calls[t].pc # "write"
      BY <2>1 DEF Idle
    <3> QED
      BY <1>1, <2>1, <3>1, Zenon DEF Alike
  <2>2. CASE calls[t] # Idle
    <3>1. calls[t] \in Call
      BY <2>2, CallFields, Zenon
    <3>2. LET d == [calls[t] EXCEPT !.clean = FALSE]
          IN  /\ d \in Call /\ d.pc = calls[t].pc /\ d.vm = calls[t].vm /\ d.deny = calls[t].deny
              /\ d.add = calls[t].add /\ d.del = calls[t].del
      BY <3>1, Zenon DEF Call
    <3> QED
      BY <1>1, <2>2, <3>1, <3>2, IdleIsNoCall, Zenon DEF Alike
  <2> QED
    BY <2>1, <2>2, Zenon
<1> QED
  BY <1>1, <1>3, <1>4, Zenon

(* A build's rename moves the file of the others, and ends the build.      *)
LEMMA CacheRenameCalls ==
  ASSUME TypeOK, NEW s \in Slots, calls[s] # Idle, CacheRename(s), img.tmp # "none"
  PROVE  /\ calls' \in [Slots -> Call \cup {Idle}]
         /\ \A t \in Slots \ {s} : calls'[t] = Moved(calls[t], "dest")
         /\ calls'[s] \in Call /\ calls'[s].pc = "read"
         /\ calls'[s].vm = calls[s].vm /\ calls'[s].deny = calls[s].deny
<1> DEFINE m(t) == Moved(calls[t], "dest")
<1>1. /\ calls' = [t \in Slots |-> calls'[t]]
      /\ \A t \in Slots \ {s} : calls'[t] = m(t)
      /\ calls'[s] = [m(s) EXCEPT !.pc = "read", !.file = "none"]
  BY Zenon DEF CacheRename
<1>2. \A t \in Slots : m(t) \in Call \cup {Idle} /\ Alike(calls[t], m(t))
  BY MovedFile, Zenon DEF TypeOK
<1>3. m(s) \in Call /\ m(s).vm = calls[s].vm /\ m(s).deny = calls[s].deny
  BY <1>2, Zenon DEF Alike
<1> HIDE DEF m
<1>4. /\ calls'[s] \in Call /\ calls'[s].pc = "read"
      /\ calls'[s].vm = calls[s].vm /\ calls'[s].deny = calls[s].deny
  BY <1>1, <1>3, Zenon DEF Call, BuildPCs
<1> QED
  BY <1>1, <1>2, <1>4 DEF m

LEMMA BuildFailsCalls ==
  ASSUME TypeOK, NEW s \in Slots, calls[s] # Idle, BuildFails(s)
  PROVE  /\ calls' \in [Slots -> Call \cup {Idle}]
         /\ \A t \in Slots \ {s} : calls'[t] \in {calls[t], Moved(calls[t], "gone")}
         /\ \A t \in Slots \ {s} : Alike(calls[t], calls'[t])
         /\ calls'[s] = Idle
<1> DEFINE m(t) == Moved(calls[t], "gone")
<1>1. /\ calls' = [t \in Slots |-> calls'[t]]
      /\ \A t \in Slots \ {s} : calls'[t] \in {calls[t], m(t)}
      /\ calls'[s] = Idle
  BY Zenon DEF BuildFails
<1>2. \A t \in Slots : m(t) \in Call \cup {Idle} /\ Alike(calls[t], m(t))
  BY MovedFile, Zenon DEF TypeOK
<1> HIDE DEF m
<1>3. \A t \in Slots : calls[t] \in Call \cup {Idle} /\ Alike(calls[t], calls[t])
  BY Zenon DEF TypeOK, Alike
<1>4. \A t \in Slots \ {s} : Alike(calls[t], calls'[t])
  BY <1>1, <1>2, <1>3, Zenon
<1> QED
  BY <1>1, <1>2, <1>3, <1>4, Zenon DEF m

Image == [tmp : {"none", "partial", "whole"}, dest : {"none", "partial", "whole"}, users : SUBSET VMs]

LEMMA BuildTyped ==
  ASSUME TypeOK, NEW s \in Slots, calls[s] # Idle, Build(s)
  PROVE  TypeOK'
<1>1. img \in Image
  BY Zenon DEF TypeOK, Image
<1>2. CASE CacheStat(s)
  <2>1. PICK x \in PCs : Goto(s, x)
    BY <1>2, Zenon DEF CacheStat, PCs, BuildPCs
  <2>2. calls' \in [Slots -> Call \cup {Idle}]
    BY <2>1, GotoSet, Zenon
  <2> QED
    BY <1>2, <2>2 DEF CacheStat, TypeOK, env, links, filter, book, status, hist, NoEvent
<1>3. CASE BuildExt4(s)
  <2>1. calls' \in [Slots -> Call \cup {Idle}]
    BY <1>3, BuildExt4Calls, Zenon
  <2>2. img' \in Image
    BY <1>1, <1>3, Zenon DEF BuildExt4, Image
  <2>3. shared' \in BOOLEAN
    BY <1>3, Zenon DEF BuildExt4, TypeOK
  <2> QED
    BY <1>3, <2>1, <2>2, <2>3, Zenon DEF BuildExt4, TypeOK, Image, env, links, filter, book, status, NoEvent
<1>4. CASE Ext4Written(s)
  <2>1. Goto(s, "rename")
    BY <1>4, Zenon DEF Ext4Written
  <2>2. calls' \in [Slots -> Call \cup {Idle}]
    BY <2>1, GotoSet, Zenon DEF PCs, BuildPCs
  <2>3. img' \in Image
    BY <1>1, <1>4, Zenon DEF Ext4Written, Image
  <2> QED
    BY <1>4, <2>2, <2>3, Zenon DEF Ext4Written, TypeOK, Image, env, links, filter, book, status, hist, NoEvent
<1>5. CASE CacheRename(s) /\ img.tmp = "none"
  <2>1. Return(s, "down")
    BY <1>5, Zenon DEF CacheRename
  <2>2. /\ calls' \in [Slots -> Call \cup {Idle}]
        /\ phase' \in [VMs -> {"down", "starting", "up"}]
        /\ kept' \in [VMs -> SUBSET Targets]
    BY <2>1, ReturnSet, Zenon
  <2> QED
    BY <1>5, <2>2, Zenon DEF CacheRename, TypeOK, env, links, filter, book, hist, NoEvent
<1>6. CASE CacheRename(s) /\ img.tmp # "none"
  <2>1. calls' \in [Slots -> Call \cup {Idle}]
    BY <1>6, CacheRenameCalls, Zenon
  <2>2. img' \in Image
    <3>1. img' = [tmp |-> "none", dest |-> img.tmp, users |-> {}]
      BY <1>6, Zenon DEF CacheRename
    <3>2. img.tmp \in {"none", "partial", "whole"}
      BY <1>1, Zenon DEF Image
    <3> QED
      BY <3>1, <3>2, Zenon DEF Image
  <2> QED
    BY <1>6, <2>1, <2>2, Zenon DEF CacheRename, TypeOK, Image, env, links, filter, book, status, hist, NoEvent
<1>7. CASE BuildFails(s)
  <2>1. calls' \in [Slots -> Call \cup {Idle}]
    BY <1>7, BuildFailsCalls, Zenon
  <2>2. img' \in Image
    BY <1>1, <1>7, Zenon DEF BuildFails, Image
  <2>3. phase' \in [VMs -> {"down", "starting", "up"}]
    BY <1>7, CallFields, Zenon DEF BuildFails, TypeOK
  <2>4. events' \in Nat
    BY <1>7, EventType, Zenon DEF BuildFails
  <2> QED
    BY <1>7, <2>1, <2>2, <2>3, <2>4, Zenon DEF BuildFails, TypeOK, Image, env, links, filter, book, hist
<1> QED
  BY <1>2, <1>3, <1>4, <1>5, <1>6, <1>7, Zenon DEF Build

(* The network is read.                                                    *)
LEMMA ReadCalls ==
  ASSUME TypeOK, NEW s \in Slots, calls[s] # Idle, ReadNetwork(s)
  PROVE  /\ calls' \in [Slots -> Call \cup {Idle}]
         /\ \A t \in Slots \ {s} : calls'[t] = calls[t]
         /\ calls'[s] \in Call /\ calls'[s].pc \in {"brnew", "braddr"}
         /\ calls'[s].vm = calls[s].vm /\ calls'[s].deny = denyCIDRs
<1> DEFINE x == IF bridge = "none" THEN "brnew" ELSE "braddr"
           d == [calls[s] EXCEPT !.pc = x, !.deny = denyCIDRs]
<1>1. d \in Call /\ d.pc \in {"brnew", "braddr"} /\ d.vm = calls[s].vm /\ d.deny = denyCIDRs
  BY CallFields, ListsAreTexts, ZenonT(60) DEF Call, SetupPCs
<1>2. calls' = [calls EXCEPT ![s] = d]
  BY Zenon DEF ReadNetwork
<1> HIDE DEF d
<1> QED
  BY <1>1, <1>2, CallSet, Zenon

LEMMA LinksTyped ==
  ASSUME TypeOK, NEW s \in Slots, calls[s] # Idle, Links(s)
  PROVE  TypeOK'
<1>1. calls[s].vm \in VMs /\ calls[s] \in Call
  BY CallFields, Zenon
<1>2. CASE ReadNetwork(s)
  <2>3. calls' \in [Slots -> Call \cup {Idle}]
    BY <1>2, ReadCalls, Zenon
  <2>4. kept' \in [VMs -> SUBSET Targets]
    <3>1. PrintedAs(denyCIDRs) \subseteq Targets
      BY ListsAreTexts, PrintedType, Zenon
    <3> QED
      BY <1>1, <1>2, <3>1, Zenon DEF ReadNetwork, TypeOK
  <2>5. alloc' \in [allocated : SUBSET VMs, count : Nat]
    BY <1>1, <1>2, AllocatorType, Zenon DEF ReadNetwork, TypeOK
  <2>6. raced' \in BOOLEAN
    BY <1>2, Zenon DEF ReadNetwork, TypeOK, Busy
  <2> QED
    BY <1>2, <2>3, <2>4, <2>5, <2>6 DEF ReadNetwork, TypeOK, env, links, filter, NoEvent
<1>3. CASE BridgeAdd(s) \/ BridgeAddress(s) \/ BridgeUp(s) \/ TapLook(s) \/ TapAdd(s) \/ TapAttach(s)
  <2>1. PICK x \in PCs : Goto(s, x)
    BY <1>3, Zenon DEF BridgeAdd, BridgeAddress, BridgeUp, TapLook, TapAdd, TapAttach, PCs, SetupPCs
  <2>2. calls' \in [Slots -> Call \cup {Idle}]
    BY <2>1, GotoSet, Zenon
  <2>3. bridge' \in {"none", "bare", "addressed", "up"} /\ tap' \in [VMs -> {"none", "made", "up"}]
    BY <1>1, <1>3
    DEF BridgeAdd, BridgeAddress, BridgeUp, TapLook, TapAdd, TapAttach, TypeOK, links
  <2>4. UNCHANGED <<env, img, filter, book, status, hist, events>>
    BY <1>3, Zenon
    DEF BridgeAdd, BridgeAddress, BridgeUp, TapLook, TapAdd, TapAttach, NoEvent
  <2> QED
    BY <2>2, <2>3, <2>4, Zenon DEF TypeOK, env, filter, book, status, hist
<1> QED
  BY <1>2, <1>3, Zenon DEF Links

LEMMA FilterTyped ==
  ASSUME TypeOK, NEW s \in Slots, calls[s] # Idle, Filter(s)
  PROVE  TypeOK'
<1>1. /\ calls[s] \in Call /\ calls[s].deny \subseteq Texts
      /\ calls[s].add \subseteq Texts /\ calls[s].del \subseteq Rule
  BY CallFields, Zenon
<1>2. ASSUME NEW w \in Targets \cup {"nat", "jump"}, CanAdd PROVE Added(w) \subseteq Rule
  BY <1>2, AddedRules DEF TypeOK
<1>3. ASSUME NEW w \in Targets \cup {"nat", "jump"}, Of(w) # {} PROVE First(Of(w)) \in Rule
  BY <1>3, FirstOf, Zenon DEF Of, TypeOK
<1>4. CASE NATLook(s) \/ NATAdd(s) \/ ChainEnsure(s) \/ ChainNew(s) \/ JumpLook(s) \/ JumpAdd(s)
  <2>1. PICK x \in PCs : Goto(s, x)
    BY <1>4, Zenon
    DEF NATLook, NATAdd, ChainEnsure, ChainNew, JumpLook, JumpAdd, AfterNAT, PCs, SetupPCs
  <2>2. calls' \in [Slots -> Call \cup {Idle}]
    BY <2>1, GotoSet, Zenon
  <2>3. chain' \in BOOLEAN
    BY <1>4, Zenon DEF NATLook, NATAdd, ChainEnsure, ChainNew, JumpLook, JumpAdd, TypeOK, filter
  <2>4. rules' \subseteq Rule
    <3>1. \/ UNCHANGED rules
          \/ CanAdd /\ (rules' = Added("nat") \/ rules' = Added("jump"))
      <4>1. CASE NATAdd(s)
        BY <4>1, Zenon DEF NATAdd
      <4>2. CASE JumpAdd(s)
        BY <4>2, Zenon DEF JumpAdd
      <4>3. CASE NATLook(s) \/ ChainEnsure(s) \/ ChainNew(s) \/ JumpLook(s)
        BY <4>3, Zenon DEF NATLook, ChainEnsure, ChainNew, JumpLook, filter
      <4> QED
        BY <1>4, <4>1, <4>2, <4>3, Zenon
    <3> QED
      BY <1>2, <3>1 DEF TypeOK
  <2>5. UNCHANGED <<env, img, links, book, status, hist, events>>
    BY <1>4, Zenon
    DEF NATLook, NATAdd, ChainEnsure, ChainNew, JumpLook, JumpAdd, NoEvent
  <2> QED
    BY <2>2, <2>3, <2>4, <2>5 DEF TypeOK, env, links, book, status, hist
<1>5. CASE DropsList(s)
  <2> DEFINE existing == {r.what : r \in Drops}
             D == {First(Of(w)) : w \in existing \ calls[s].deny}
             A == {t \in calls[s].deny : t \notin existing}
             d == [calls[s] EXCEPT !.pc = "sync", !.add = A, !.del = D]
  <2>1. calls' \in [Slots -> Call \cup {Idle}]
    <3>1. CASE chain
      <4>1. \A w \in existing : w \in Targets /\ Of(w) # {}
        BY Zenon DEF Drops, Of
      <4>2. D \subseteq Rule /\ A \subseteq Texts
        BY <1>1, <1>3, <4>1, Zenon
      <4> HIDE DEF D, A
      <4>3. d \in Call
        BY <1>1, <4>2, Zenon DEF Call, SetupPCs
      <4>4. calls' = [calls EXCEPT ![s] = d]
        BY <1>5, <3>1, Zenon DEF DropsList, D, A
      <4> HIDE DEF d
      <4> QED
        BY <4>3, <4>4, CallSet, Zenon
    <3>2. CASE ~chain
      <4>1. Goto(s, "undo")
        BY <1>5, <3>2, Zenon DEF DropsList
      <4> QED
        BY <4>1, GotoSet, Zenon DEF PCs, SetupPCs
    <3> QED
      BY <3>1, <3>2, Zenon
  <2>2. doubled' \in BOOLEAN
    BY <1>5, Zenon DEF DropsList, TypeOK
  <2> QED
    BY <1>5, <2>1, <2>2 DEF DropsList, TypeOK, env, links, filter, book, status, NoEvent
<1>6. CASE DropsSync(s)
  <2>1. calls' \in [Slots -> Call \cup {Idle}]
    <3>1. CASE \E t \in calls[s].add : calls' = [calls EXCEPT ![s].add = @ \ {t}]
      <4>1. PICK t \in calls[s].add : calls' = [calls EXCEPT ![s] = [calls[s] EXCEPT !.add = calls[s].add \ {t}]]
        BY <3>1, Zenon
      <4> DEFINE d == [calls[s] EXCEPT !.add = calls[s].add \ {t}]
      <4>2. d \in Call
        BY <1>1, Zenon DEF Call
      <4> HIDE DEF d
      <4> QED
        BY <4>1, <4>2, CallSet, Zenon DEF d
    <3>2. CASE \E r \in calls[s].del : calls' = [calls EXCEPT ![s].del = @ \ {r}]
      <4>1. PICK r \in calls[s].del : calls' = [calls EXCEPT ![s] = [calls[s] EXCEPT !.del = calls[s].del \ {r}]]
        BY <3>2, Zenon
      <4> DEFINE d == [calls[s] EXCEPT !.del = calls[s].del \ {r}]
      <4>2. d \in Call
        BY <1>1, Zenon DEF Call
      <4> HIDE DEF d
      <4> QED
        BY <4>1, <4>2, CallSet, Zenon DEF d
    <3>3. CASE Goto(s, "undo") \/ Goto(s, "boot")
      BY <3>3, GotoSet, Zenon DEF PCs, SetupPCs
    <3> QED
      BY <1>6, <3>1, <3>2, <3>3, Zenon DEF DropsSync
  <2>2. rules' \subseteq Rule
    <3>1. \A t \in calls[s].add : Printed[backend][t] \in Targets
      BY <1>1 DEF TypeOK, Targets
    <3>2. \A r : Deleted(r) \subseteq Rule
      BY DeletedRules, Zenon DEF TypeOK
    <3>3. CASE calls[s].add # {} /\ CanAdd /\ \E t \in calls[s].add : rules' = Added(Printed[backend][t])
      BY <1>2, <3>1, <3>3, Zenon
    <3>4. CASE \E r \in calls[s].del : rules' = Deleted(r)
      BY <3>2, <3>4, Zenon
    <3>5. CASE UNCHANGED rules
      BY <3>5, Zenon DEF TypeOK
    <3> QED
      BY <1>6, <3>3, <3>4, <3>5, Zenon DEF DropsSync
  <2> QED
    BY <1>6, <2>1, <2>2 DEF DropsSync, TypeOK, env, links, book, status, hist, NoEvent
<1> QED
  BY <1>4, <1>5, <1>6, Zenon DEF Filter

LEMMA FinishTyped ==
  ASSUME TypeOK, NEW s \in Slots, calls[s] # Idle, Finish(s)
  PROVE  TypeOK'
<1>1. calls[s] \in Call /\ calls[s].vm \in VMs /\ calls[s].deny \subseteq Texts /\ img \in Image
  BY CallFields, Zenon DEF TypeOK, Image
<1>2. CASE Boot(s)
  <2>1. Return(s, "up")
    BY <1>2, Zenon DEF Boot
  <2>2. /\ calls' \in [Slots -> Call \cup {Idle}]
        /\ phase' \in [VMs -> {"down", "starting", "up"}]
        /\ kept' \in [VMs -> SUBSET Targets]
    BY <2>1, ReturnSet, Zenon
  <2>3. img' \in Image
    BY <1>1, <1>2, Zenon DEF Boot, Image
  <2>4. procs' \in [VMs -> Entry \cup {NoProc}]
    BY <1>1, <1>2, Zenon DEF Boot, TypeOK, Entry
  <2>5. live' \subseteq VMs
    BY <1>1, <1>2, Zenon DEF Boot, TypeOK
  <2> QED
    BY <1>2, <2>2, <2>3, <2>4, <2>5, Zenon DEF Boot, TypeOK, Image, env, links, filter, hist, NoEvent
<1>3. CASE BootFails(s)
  <2>1. Goto(s, "undo") /\ events' \in Nat
    BY <1>3, EventType, Zenon DEF BootFails
  <2>2. calls' \in [Slots -> Call \cup {Idle}]
    BY <2>1, GotoSet, Zenon DEF PCs, SetupPCs
  <2> QED
    BY <1>3, <2>1, <2>2 DEF BootFails, TypeOK, env, links, filter, book, status, hist
<1>4. CASE UndoReserve(s)
  <2>1. alloc' \in [allocated : SUBSET VMs, count : Nat]
    BY <1>1, <1>4, AllocatorType, Zenon DEF UndoReserve, TypeOK
  <2>2. /\ calls' \in [Slots -> Call \cup {Idle}]
        /\ phase' \in [VMs -> {"down", "starting", "up"}]
        /\ kept' \in [VMs -> SUBSET Targets]
    <3>1. CASE Return(s, "down")
      BY <3>1, ReturnSet, Zenon
    <3>2. CASE Goto(s, "clear") /\ UNCHANGED status
      BY <3>2, GotoSet, Zenon DEF PCs, SetupPCs, TypeOK, status
    <3> QED
      BY <1>4, <3>1, <3>2, Zenon DEF UndoReserve
  <2> QED
    BY <1>4, <2>1, <2>2 DEF UndoReserve, TypeOK, env, links, filter, hist, NoEvent
<1>5. CASE UndoTap(s)
  <2>1. Return(s, "down")
    BY <1>5, Zenon DEF UndoTap
  <2>2. /\ calls' \in [Slots -> Call \cup {Idle}]
        /\ phase' \in [VMs -> {"down", "starting", "up"}]
        /\ kept' \in [VMs -> SUBSET Targets]
    BY <2>1, ReturnSet, Zenon
  <2>3. tap' \in [VMs -> {"none", "made", "up"}]
    BY <1>1, <1>5, Zenon DEF UndoTap, TypeOK
  <2> QED
    BY <1>5, <2>2, <2>3 DEF UndoTap, TypeOK, env, filter, book, hist, NoEvent
<1> QED
  BY <1>2, <1>3, <1>4, <1>5, Zenon DEF Finish

(* A rule is found, or the call goes on without.                           *)
LEMMA FindCalls ==
  ASSUME TypeOK, NEW s \in Slots, calls[s] # Idle, NATFind(s) \/ JumpFind(s)
  PROVE  /\ calls' \in [Slots -> Call \cup {Idle}]
         /\ \A t \in Slots \ {s} : calls'[t] = calls[t]
         /\ calls'[s] \in Call /\ calls'[s].vm = calls[s].vm /\ calls'[s].deny = calls[s].deny
         /\ calls[s].pc \in {"unnat", "unlook"}
         /\ calls'[s].pc \in StopPCs \ {"stop", "untap", "release"}
<1>1. calls[s] \in Call
  BY CallFields, Zenon
<1>2. PICK x \in StopPCs \ {"stop", "untap", "release"}, w \in {"nat", "jump"} :
        calls' = [calls EXCEPT ![s] = IF Of(w) = {} THEN [calls[s] EXCEPT !.pc = x]
                                      ELSE [calls[s] EXCEPT !.pc = x, !.del = {First(Of(w))}]]
  <2>1. CASE NATFind(s)
    <3>1. AfterRemoveNAT(calls[s]) \in StopPCs \ {"stop", "untap", "release"}
      BY Zenon DEF AfterRemoveNAT, StopPCs
    <3>2. CASE Of("nat") = {}
      BY <2>1, <3>1, <3>2, Zenon DEF NATFind
    <3>3. CASE Of("nat") # {}
      BY <2>1, <3>3, Zenon DEF NATFind, StopPCs
    <3> QED
      BY <3>2, <3>3, Zenon
  <2>2. CASE JumpFind(s)
    <3>1. AfterJump \in StopPCs \ {"stop", "untap", "release"}
      BY Zenon DEF AfterJump, StopPCs
    <3>2. CASE Of("jump") = {}
      BY <2>2, <3>1, <3>2, Zenon DEF JumpFind
    <3>3. CASE Of("jump") # {}
      BY <2>2, <3>3, Zenon DEF JumpFind, StopPCs
    <3> QED
      BY <3>2, <3>3, Zenon
  <2> QED
    BY <2>1, <2>2, Zenon
<1>3. Of(w) # {} => First(Of(w)) \in Rule
  BY FirstOf, Zenon DEF Of, TypeOK
<1> DEFINE d == IF Of(w) = {} THEN [calls[s] EXCEPT !.pc = x]
                ELSE [calls[s] EXCEPT !.pc = x, !.del = {First(Of(w))}]
<1>4. d \in Call /\ d.pc = x /\ d.vm = calls[s].vm /\ d.deny = calls[s].deny
  BY <1>1, <1>3, Zenon DEF Call
<1>5. calls' = [calls EXCEPT ![s] = d]
  BY <1>2, Zenon
<1> HIDE DEF d
<1>6. calls[s].pc \in {"unnat", "unlook"}
  BY Zenon DEF NATFind, JumpFind
<1> QED
  BY <1>4, <1>5, <1>6, CallSet, Zenon

LEMMA DeleteCalls ==
  ASSUME TypeOK, NEW s \in Slots, calls[s] # Idle, NEW x \in PCs, DeleteNoted(s, x)
  PROVE  /\ calls' \in [Slots -> Call \cup {Idle}]
         /\ \A t \in Slots \ {s} : calls'[t] = calls[t]
         /\ calls'[s] \in Call /\ calls'[s].vm = calls[s].vm /\ calls'[s].deny = calls[s].deny
         /\ calls'[s].pc = x
<1> DEFINE d == [calls[s] EXCEPT !.pc = x, !.del = {}]
<1>1. calls[s] \in Call
  BY CallFields, Zenon
<1>2. d \in Call /\ d.pc = x /\ d.vm = calls[s].vm /\ d.deny = calls[s].deny
  BY <1>1, Zenon DEF Call, PCs
<1>3. calls' = [calls EXCEPT ![s] = d]
  BY Zenon DEF DeleteNoted
<1> HIDE DEF d
<1> QED
  BY <1>2, <1>3, CallSet, Zenon

LEMMA AfterRemoval ==
  /\ AfterJump \in StopPCs \ {"stop", "untap", "release"}
  /\ \A c : AfterRemoveNAT(c) \in StopPCs \ {"stop", "untap", "release"}
BY Zenon DEF AfterRemoveNAT, AfterJump, StopPCs

LEMMA StopTyped ==
  ASSUME TypeOK, NEW s \in Slots, calls[s] # Idle, Stop(s)
  PROVE  TypeOK'
<1>1. calls[s] \in Call /\ calls[s].vm \in VMs /\ img \in Image /\ StopPCs \subseteq PCs
  BY CallFields, Zenon DEF TypeOK, Image, PCs
<1>2. CASE StopMachine(s)
  <2>1. Goto(s, "untap") /\ live' \subseteq VMs
    BY <1>2, Zenon DEF StopMachine, TypeOK
  <2>2. calls' \in [Slots -> Call \cup {Idle}]
    BY <1>1, <2>1, GotoSet, Zenon DEF StopPCs
  <2>3. img' \in Image
    BY <1>1, <1>2, Zenon DEF StopMachine, Image
  <2> QED
    BY <1>2, <2>1, <2>2, <2>3, Zenon DEF StopMachine, TypeOK, Image, env, links, filter, status, hist, NoEvent
<1>3. CASE TeardownVM(s)
  <2>1. Goto(s, "release") /\ tap' \in [VMs -> {"none", "made", "up"}]
    BY <1>1, <1>3, Zenon DEF TeardownVM, TypeOK
  <2>2. calls' \in [Slots -> Call \cup {Idle}]
    BY <1>1, <2>1, GotoSet, Zenon DEF StopPCs
  <2> QED
    BY <1>3, <2>1, <2>2 DEF TeardownVM, TypeOK, env, filter, book, status, hist, NoEvent
<1>4. CASE StopRelease(s)
  <2>1. Goto(s, "unnat") \/ Goto(s, "drop")
    BY <1>4, Zenon DEF StopRelease
  <2>2. calls' \in [Slots -> Call \cup {Idle}]
    BY <1>1, <2>1, GotoSet, Zenon DEF StopPCs
  <2>3. alloc' \in [allocated : SUBSET VMs, count : Nat]
    BY <1>1, <1>4, AllocatorType, Zenon DEF StopRelease, TypeOK
  <2> QED
    BY <1>4, <2>2, <2>3 DEF StopRelease, TypeOK, env, links, filter, status, hist, NoEvent
<1>5. CASE NATFind(s) \/ JumpFind(s)
  <2>1. calls' \in [Slots -> Call \cup {Idle}]
    BY <1>5, FindCalls, Zenon
  <2>2. UNCHANGED <<env, img, links, filter, book, status, hist, events>>
    BY <1>5, Zenon DEF NATFind, JumpFind, NoEvent
  <2> QED
    BY <2>1, <2>2 DEF TypeOK, env, links, filter, book, status, hist
<1>6. CASE NATDelete(s) \/ JumpDelete(s)
  <2>1. PICK x \in PCs : DeleteNoted(s, x)
    BY <1>1, <1>6, AfterRemoval, Zenon DEF NATDelete, JumpDelete
  <2>2. calls' \in [Slots -> Call \cup {Idle}]
    BY <2>1, DeleteCalls, Zenon
  <2>3. rules' \subseteq rules
    BY <2>1, DeletedRules, Zenon DEF DeleteNoted
  <2>4. UNCHANGED <<env, img, links, chain, book, status, hist, events>>
    BY <2>1, Zenon DEF DeleteNoted, NoEvent
  <2> QED
    BY <2>2, <2>3, <2>4 DEF TypeOK, env, links, book, status, hist
<1>7. CASE ChainLook(s) \/ ChainFlush(s) \/ ChainDelete(s)
  <2>1. PICK x \in PCs : Goto(s, x)
    BY <1>7, Zenon DEF ChainLook, ChainFlush, ChainDelete, PCs, StopPCs
  <2>2. calls' \in [Slots -> Call \cup {Idle}]
    BY <2>1, GotoSet, Zenon
  <2>3. rules' \subseteq Rule /\ chain' \in BOOLEAN
    <3>1. CASE ChainLook(s)
      BY <3>1, Zenon DEF ChainLook, TypeOK, filter
    <3>2. CASE ChainFlush(s)
      BY <3>2, Zenon DEF ChainFlush, TypeOK
    <3>3. CASE ChainDelete(s)
      BY <3>3, Zenon DEF ChainDelete, TypeOK
    <3> QED
      BY <1>7, <3>1, <3>2, <3>3, Zenon
  <2>4. UNCHANGED <<env, img, links, book, status, hist, events>>
    BY <1>7, Zenon DEF ChainLook, ChainFlush, ChainDelete, NoEvent
  <2> QED
    BY <2>2, <2>3, <2>4 DEF TypeOK, env, links, book, status, hist
<1>8. CASE StopDrop(s)
  <2>1. Return(s, "down")
    BY <1>8, Zenon DEF StopDrop
  <2>2. /\ calls' \in [Slots -> Call \cup {Idle}]
        /\ phase' \in [VMs -> {"down", "starting", "up"}]
        /\ kept' \in [VMs -> SUBSET Targets]
    BY <2>1, ReturnSet, Zenon
  <2>3. procs' \in [VMs -> Entry \cup {NoProc}]
    BY <1>1, <1>8, Zenon DEF StopDrop, TypeOK
  <2> QED
    BY <1>8, <2>2, <2>3 DEF StopDrop, TypeOK, env, links, filter, hist, NoEvent
<1> QED
  BY <1>2, <1>3, <1>4, <1>5, <1>6, <1>7, <1>8, Zenon DEF Stop

LEMMA OnErrorGoes ==
  ASSUME NEW c, c.pc \in (SetupPCs \cup StopPCs) \ {"unreserve", "undo", "clear", "stop", "release", "drop"}
  PROVE  OnError(c) \in PCs
BY DEF OnError, AfterNAT, AfterRemoveNAT, AfterJump, PCs, SetupPCs, StopPCs

LEMMA CommandFailsTyped ==
  ASSUME TypeOK, NEW s \in Slots, calls[s] # Idle, CommandFails(s)
  PROVE  TypeOK'
<1>1. OnError(calls[s]) \in PCs /\ Goto(s, OnError(calls[s]))
  BY OnErrorGoes, Zenon DEF CommandFails
<1>2. calls' \in [Slots -> Call \cup {Idle}]
  BY <1>1, GotoSet, Zenon
<1>3. events' \in Nat
  BY EventType, Zenon DEF CommandFails
<1> QED
  BY <1>2, <1>3 DEF CommandFails, TypeOK, env, links, filter, book, status, hist

LEMMA NewCallFields ==
  ASSUME NEW x \in PCs, NEW v \in VMs, NEW l \in SUBSET Texts
  PROVE  /\ NewCall(x, v, l) \in Call
         /\ NewCall(x, v, l).pc = x /\ NewCall(x, v, l).vm = v
BY Zenon DEF NewCall, Call, PCs

LEMMA AgentTyped ==
  ASSUME TypeOK, NEW v \in VMs,
         BeginStart(v) \/ BeginStop(v) \/ Inspect(v) \/ StartTimeout(v) \/ ProcessExit(v)
  PROVE  TypeOK'
<1>1. "agent" \in Slots /\ img \in Image
  BY Zenon DEF Slots, TypeOK, Image
<1>2. CASE BeginStart(v)
  <2> DEFINE d == NewCall("stat", v, {})
  <2>1. d \in Call /\ calls' = [calls EXCEPT !["agent"] = d]
    BY <1>2, NewCallFields, Zenon DEF BeginStart, PCs, BuildPCs
  <2> HIDE DEF d
  <2>2. calls' \in [Slots -> Call \cup {Idle}]
    BY <1>1, <2>1, CallSet, Zenon
  <2>3. phase' \in [VMs -> {"down", "starting", "up"}] /\ overlapped' \subseteq VMs
    BY <1>2, Zenon DEF BeginStart, TypeOK
  <2>4. leftover' \in BOOLEAN
    BY <1>2, Zenon DEF BeginStart, TypeOK
  <2> QED
    BY <1>2, <2>2, <2>3, <2>4 DEF BeginStart, TypeOK, env, links, filter, book, NoEvent
<1>3. CASE BeginStop(v)
  <2> DEFINE x == IF procs[v].net THEN "stop" ELSE "drop"
             d == NewCall(x, v, procs[v].deny)
  <2>1. procs[v] \in Entry
    BY <1>3, Zenon DEF BeginStop, TypeOK
  <2>2. d \in Call /\ calls' = [calls EXCEPT !["agent"] = d]
    BY <1>3, <2>1, NewCallFields DEF BeginStop, PCs, StopPCs, Entry
  <2> HIDE DEF d
  <2>3. calls' \in [Slots -> Call \cup {Idle}]
    BY <1>1, <2>2, CallSet, Zenon
  <2>4. overlapped' \subseteq VMs
    BY <1>3, Zenon DEF BeginStop, TypeOK
  <2>5. raced' \in BOOLEAN
    BY <1>3, Zenon DEF BeginStop, TypeOK, Busy
  <2> QED
    BY <1>3, <2>3, <2>4, <2>5 DEF BeginStop, TypeOK, env, links, filter, book, status, NoEvent
<1>4. CASE Inspect(v)
  <2>1. procs' \in [VMs -> Entry \cup {NoProc}]
    <3>1. [net |-> FALSE, deny |-> {}] \in Entry
      BY Zenon DEF Entry
    <3>2. PICK e : e \in Entry \cup {NoProc} /\ procs' = [procs EXCEPT ![v] = e]
      BY <1>4, <3>1, Zenon DEF Inspect
    <3> QED
      BY <3>2, Zenon DEF TypeOK
  <2>2. phase' \in [VMs -> {"down", "starting", "up"}] /\ kept' \in [VMs -> SUBSET Targets]
    BY <1>4, Zenon DEF Inspect, TypeOK, status
  <2> QED
    BY <1>4, <2>1, <2>2 DEF Inspect, TypeOK, env, links, filter, hist, NoEvent
<1>5. CASE StartTimeout(v)
  BY <1>5 DEF StartTimeout, TypeOK, env, links, filter, book, hist, NoEvent
<1>6. CASE ProcessExit(v)
  <2>1. img' \in Image /\ live' \subseteq VMs
    BY <1>1, <1>6, Zenon DEF ProcessExit, TypeOK, Image
  <2>2. events' \in Nat
    BY <1>6, EventType, Zenon DEF ProcessExit
  <2> QED
    BY <1>6, <2>1, <2>2, Zenon DEF ProcessExit, TypeOK, Image, env, links, filter, status, hist
<1> QED
  BY <1>2, <1>3, <1>4, <1>5, <1>6, Zenon

LEMMA NodeTyped ==
  ASSUME TypeOK, ChangePolicy \/ AgentCrash \/ RuntimeRestart
  PROVE  TypeOK'
<1>1. events' \in Nat
  BY EventType, Zenon DEF ChangePolicy, AgentCrash, RuntimeRestart
<1>2. CASE ChangePolicy
  BY <1>1, <1>2 DEF ChangePolicy, TypeOK, links, filter, hist
<1>3. CASE AgentCrash
  <2>1. calls' \in [Slots -> Call \cup {Idle}]
    BY <1>3 DEF AgentCrash, TypeOK, Slots
  <2> QED
    BY <1>1, <1>3, <2>1 DEF AgentCrash, TypeOK, env, links, filter, book, status, hist
<1>4. CASE RuntimeRestart
  <2>1. live' \subseteq VMs /\ img' \in Image
    BY <1>4, Zenon DEF RuntimeRestart, TypeOK, Image
  <2>2. alloc' \in [allocated : SUBSET VMs, count : Nat]
    BY <1>4, Zenon DEF RuntimeRestart, NewAllocator
  <2>3. calls' \in [Slots -> Call \cup {Idle}]
    BY <1>4, Zenon DEF RuntimeRestart
  <2>4. procs' \in [VMs -> Entry \cup {NoProc}] /\ kept' \in [VMs -> SUBSET Targets]
    BY <1>4, Zenon DEF RuntimeRestart
  <2> QED
    BY <1>1, <1>4, <2>1, <2>2, <2>3, <2>4, Zenon DEF RuntimeRestart, TypeOK, Image, env, links, filter, hist
<1> QED
  BY <1>2, <1>3, <1>4, Zenon

LEMMA TypedStep == TypeOK /\ [Next]_vars => TypeOK'
<1> SUFFICES ASSUME TypeOK, [Next]_vars PROVE TypeOK'
  BY Zenon
<1>1. CASE UNCHANGED vars
  BY <1>1 DEF TypeOK, vars, env, links, filter, book, status, hist
<1>2. ASSUME NEW s \in Slots, calls[s] # Idle,
             Build(s) \/ Links(s) \/ Filter(s) \/ Finish(s) \/ Stop(s) \/ CommandFails(s)
      PROVE  TypeOK'
  BY <1>2, BuildTyped, LinksTyped, FilterTyped, FinishTyped, StopTyped, CommandFailsTyped, Zenon
<1> QED
  BY <1>1, <1>2, AgentTyped, NodeTyped, Zenon DEF Next

(* Every state of HostSetup has its type.                                  *)
LEMMA Typing == Spec => []TypeOK
BY InitTyped, TypedStep, PTL DEF Spec

-----------------------------------------------------------------------------
(* The steps of a call.                                                    *)

(* The call of a Start; at work on the host network; with the address of   *)
(* its VM reserved; removing the rules of the subnet; behind mke2fs' back. *)
Starts == BuildPCs \cup SetupPCs \cup {"boot"}
Works == (SetupPCs \cup StopPCs) \ {"undo", "clear"}
Holds == (SetupPCs \ {"clear"}) \cup {"boot", "stop", "untap", "release"}
Removes == {"unnat", "unnatdel", "unchk", "unlook", "unjump", "flush", "unchain"}
Writes == {"write", "rename"}

(* From where to where a call goes that neither reads the network, stops   *)
(* the machine nor gives the address back.                                 *)
Advances(p, q) ==
  /\ p \in Starts <=> q \in Starts
  /\ q \in Works => p \in Works
  /\ q \in Holds => p \in Holds
  /\ p \in StopPCs \ Holds => q \in StopPCs \ Holds
  /\ q \in StopPCs \ {"stop", "drop"} => p \in StopPCs \ {"stop", "drop"}
  /\ q \in Removes => p \in Removes
  /\ q \in SetupPCs \cap Works => p \in SetupPCs \cap Works
  /\ q \in Writes => p \in {"open", "write"}

Plain(s) ==
  /\ UNCHANGED <<env, book, status, overlapped, leftover, raced>>
  /\ calls'[s] \in Call /\ calls'[s].vm = calls[s].vm /\ calls'[s].deny = calls[s].deny
  /\ Advances(calls[s].pc, calls'[s].pc)
  /\ \A t \in Slots \ {s} : Alike(calls[t], calls'[t])

LEMMA SameIsAlike == \A c : Alike(c, c)
BY Zenon DEF Alike

LEMMA PlainGoto ==
  ASSUME TypeOK, NEW s \in Slots, calls[s] # Idle, NEW x \in PCs, Goto(s, x),
         Advances(calls[s].pc, x), UNCHANGED <<env, book, status, overlapped, leftover, raced>>
  PROVE  Plain(s) /\ \A t \in Slots \ {s} : calls'[t] = calls[t]
<1>1. /\ calls'[s] \in Call /\ calls'[s].pc = x /\ SameButPC(calls[s], calls'[s])
      /\ \A t \in Slots \ {s} : calls'[t] = calls[t]
  BY GotoSet, Zenon
<1> QED
  BY <1>1, SameIsAlike, Zenon DEF Plain, SameButPC

(* The building of an image, unless it ends the call.                      *)
LEMMA BuildPlain ==
  ASSUME TypeOK, NEW s \in Slots, calls[s] # Idle,
         CacheStat(s) \/ BuildExt4(s) \/ Ext4Written(s) \/ (CacheRename(s) /\ img.tmp # "none")
  PROVE  Plain(s)
<1> USE DEF PCs, BuildPCs, SetupPCs, StopPCs, Starts, Works, Holds, Removes, Writes
<1>1. CASE CacheStat(s)
  <2>1. PICK x \in PCs : Goto(s, x) /\ Advances(calls[s].pc, x)
    BY <1>1 DEF CacheStat, Advances
  <2> QED
    BY <1>1, <2>1, PlainGoto, Zenon DEF CacheStat, hist
<1>2. CASE BuildExt4(s)
  <2>1. calls[s].pc = "open" /\ calls'[s].pc = "write"
    BY <1>2, BuildExt4Calls, Zenon DEF BuildExt4
  <2>2. Advances(calls[s].pc, calls'[s].pc)
    BY <2>1, Zenon DEF Advances
  <2> QED
    BY <1>2, <2>2, BuildExt4Calls, Zenon DEF BuildExt4, Plain
<1>3. CASE Ext4Written(s)
  <2>1. Goto(s, "rename") /\ Advances(calls[s].pc, "rename")
    BY <1>3, Zenon DEF Ext4Written, Advances
  <2> QED
    BY <1>3, <2>1, PlainGoto, Zenon DEF Ext4Written, hist
<1>4. CASE CacheRename(s) /\ img.tmp # "none"
  <2>1. calls[s].pc = "rename" /\ calls'[s].pc = "read"
    BY <1>4, CacheRenameCalls, Zenon DEF CacheRename
  <2>2. Advances(calls[s].pc, calls'[s].pc)
    BY <2>1, Zenon DEF Advances
  <2>3. \A t \in Slots \ {s} : Alike(calls[t], calls'[t])
    BY <1>4, CacheRenameCalls, MovedFile DEF TypeOK
  <2>4. UNCHANGED <<env, book, status, hist>>
    BY <1>4, Zenon DEF CacheRename
  <2>5. calls'[s] \in Call /\ calls'[s].vm = calls[s].vm /\ calls'[s].deny = calls[s].deny
    BY <1>4, CacheRenameCalls, Zenon
  <2> QED
    BY <2>2, <2>3, <2>4, <2>5, Zenon DEF Plain, hist
<1> QED
  BY <1>1, <1>2, <1>3, <1>4, Zenon

(* Bridge and TAP.                                                         *)
LEMMA LinksPlain ==
  ASSUME TypeOK, NEW s \in Slots, calls[s] # Idle,
         BridgeAdd(s) \/ BridgeAddress(s) \/ BridgeUp(s) \/ TapLook(s) \/ TapAdd(s) \/ TapAttach(s)
  PROVE  /\ Plain(s) /\ \A t \in Slots \ {s} : calls'[t] = calls[t]
         /\ UNCHANGED <<img, filter, hist>>
         /\ calls'[s].pc \notin {"list", "sync", "boot"}
<1> USE DEF PCs, BuildPCs, SetupPCs, StopPCs, Starts, Works, Holds, Removes, Writes
<1>1. PICK x \in PCs : Goto(s, x) /\ Advances(calls[s].pc, x) /\ x \notin {"list", "sync", "boot"}
  <2>1. CASE BridgeAdd(s)
    BY <2>1 DEF BridgeAdd, Advances
  <2>2. CASE BridgeAddress(s)
    <3>1. calls[s].pc \in {"brfresh", "braddr"} /\ (Goto(s, "unreserve") \/ Goto(s, "brup"))
      BY <2>2, Zenon DEF BridgeAddress
    <3>2. Advances(calls[s].pc, "unreserve") /\ Advances(calls[s].pc, "brup")
      BY <3>1, Zenon DEF Advances
    <3> QED
      BY <3>1, <3>2
  <2>3. CASE BridgeUp(s)
    BY <2>3 DEF BridgeUp, Advances
  <2>4. CASE TapLook(s)
    BY <2>4 DEF TapLook, Advances
  <2>5. CASE TapAdd(s)
    BY <2>5 DEF TapAdd, Advances
  <2>6. CASE TapAttach(s)
    BY <2>6 DEF TapAttach, Advances
  <2> QED
    BY <2>1, <2>2, <2>3, <2>4, <2>5, <2>6, Zenon
<1>2. UNCHANGED <<env, img, filter, book, status, hist>>
  BY Zenon DEF BridgeAdd, BridgeAddress, BridgeUp, TapLook, TapAdd, TapAttach
<1>3. calls'[s].pc = x
  BY <1>1, GotoSet, Zenon
<1> QED
  BY <1>1, <1>2, <1>3, PlainGoto, Zenon DEF hist

(* NAT and egress policy.                                                  *)
LEMMA FilterPlain ==
  ASSUME TypeOK, NEW s \in Slots, calls[s] # Idle, Filter(s)
  PROVE  /\ Plain(s) /\ \A t \in Slots \ {s} : calls'[t] = calls[t]
         /\ UNCHANGED <<img, shared>>
         /\ calls[s].pc \in SetupPCs \cap Works
<1> USE DEF PCs, BuildPCs, SetupPCs, StopPCs, Starts, Works, Holds, Removes, Writes
<1>1. CASE NATLook(s) \/ NATAdd(s) \/ ChainEnsure(s) \/ ChainNew(s) \/ JumpLook(s) \/ JumpAdd(s)
  <2>1. PICK x \in PCs : Goto(s, x) /\ Advances(calls[s].pc, x)
    <3>1. CASE NATLook(s)
      BY <3>1 DEF NATLook, AfterNAT, Advances
    <3>2. CASE NATAdd(s)
      BY <3>2 DEF NATAdd, AfterNAT, Advances
    <3>3. CASE ChainEnsure(s)
      BY <3>3 DEF ChainEnsure, Advances
    <3>4. CASE ChainNew(s)
      BY <3>4 DEF ChainNew, Advances
    <3>5. CASE JumpLook(s)
      BY <3>5 DEF JumpLook, Advances
    <3>6. CASE JumpAdd(s)
      BY <3>6 DEF JumpAdd, Advances
    <3> QED
      BY <1>1, <3>1, <3>2, <3>3, <3>4, <3>5, <3>6, Zenon
  <2>2. UNCHANGED <<env, img, book, status, hist>>
    BY <1>1, Zenon DEF NATLook, NATAdd, ChainEnsure, ChainNew, JumpLook, JumpAdd
  <2>3. calls[s].pc \in SetupPCs \cap Works
    BY <1>1, Zenon DEF NATLook, NATAdd, ChainEnsure, ChainNew, JumpLook, JumpAdd
  <2> QED
    BY <2>1, <2>2, <2>3, PlainGoto, Zenon DEF hist
<1>2. CASE DropsList(s) /\ ~chain
  <2>1. Goto(s, "undo") /\ calls[s].pc = "list" /\ Advances(calls[s].pc, "undo")
    BY <1>2, Zenon DEF DropsList, Advances
  <2> QED
    BY <1>2, <2>1, PlainGoto, Zenon DEF DropsList
<1>3. ASSUME NEW d \in Call, calls' = [calls EXCEPT ![s] = d],
             d.vm = calls[s].vm, d.deny = calls[s].deny, d.pc = "sync",
             calls[s].pc \in {"list", "sync"}, UNCHANGED <<env, book, status, overlapped, leftover, raced>>
      PROVE  Plain(s) /\ \A t \in Slots \ {s} : calls'[t] = calls[t]
  <2>1. calls'[s] = d /\ \A t \in Slots \ {s} : calls'[t] = calls[t]
    BY <1>3, CallSet, Zenon
  <2>2. Advances(calls[s].pc, d.pc)
    BY <1>3, Zenon DEF Advances
  <2> QED
    BY <1>3, <2>1, <2>2, SameIsAlike, Zenon DEF Plain
<1>4. calls[s] \in Call
  BY CallFields, Zenon
<1>5. CASE DropsList(s) /\ chain
  <2> DEFINE d == calls'[s]
  <2>1. PICK A, D : calls' = [calls EXCEPT ![s] = [calls[s] EXCEPT !.pc = "sync", !.add = A, !.del = D]]
    BY <1>5, Zenon DEF DropsList
  <2>2. calls'[s] = [calls[s] EXCEPT !.pc = "sync", !.add = A, !.del = D]
    BY <2>1, Zenon DEF TypeOK
  <2>3. d.vm = calls[s].vm /\ d.deny = calls[s].deny /\ d.pc = "sync"
    BY <1>4, <2>2, Zenon DEF Call
  <2>4. d \in Call
    <3>1. TypeOK'
      BY FilterTyped, Zenon
    <3>2. d # Idle
      BY <2>3 DEF Idle
    <3> QED
      BY <3>1, <3>2 DEF TypeOK
  <2>5. calls' = [calls EXCEPT ![s] = d]
    BY <2>1, <2>2, Zenon
  <2> HIDE DEF d
  <2>6. calls[s].pc = "list"
    BY <1>5, Zenon DEF DropsList
  <2> QED
    BY <1>3, <1>5, <2>3, <2>4, <2>5, <2>6, Zenon DEF DropsList
<1>6. CASE DropsSync(s)
  <2>1. calls[s].pc = "sync" /\ UNCHANGED <<env, img, book, status, hist>>
    BY <1>6, Zenon DEF DropsSync
  <2>2. CASE \E t \in calls[s].add : calls' = [calls EXCEPT ![s].add = @ \ {t}]
    <3>1. PICK t \in calls[s].add : calls' = [calls EXCEPT ![s] = [calls[s] EXCEPT !.add = calls[s].add \ {t}]]
      BY <2>2, Zenon
    <3> DEFINE d == [calls[s] EXCEPT !.add = calls[s].add \ {t}]
    <3>2. d \in Call /\ d.vm = calls[s].vm /\ d.deny = calls[s].deny /\ d.pc = "sync"
      BY <1>4, <2>1, Zenon DEF Call
    <3> HIDE DEF d
    <3> QED
      BY <1>3, <2>1, <3>1, <3>2, Zenon DEF d, hist
  <2>3. CASE \E r \in calls[s].del : calls' = [calls EXCEPT ![s].del = @ \ {r}]
    <3>1. PICK r \in calls[s].del : calls' = [calls EXCEPT ![s] = [calls[s] EXCEPT !.del = calls[s].del \ {r}]]
      BY <2>3, Zenon
    <3> DEFINE d == [calls[s] EXCEPT !.del = calls[s].del \ {r}]
    <3>2. d \in Call /\ d.vm = calls[s].vm /\ d.deny = calls[s].deny /\ d.pc = "sync"
      BY <1>4, <2>1, Zenon DEF Call
    <3> HIDE DEF d
    <3> QED
      BY <1>3, <2>1, <3>1, <3>2, Zenon DEF d, hist
  <2>4. CASE Goto(s, "undo") \/ Goto(s, "boot")
    <3>1. PICK x \in PCs : Goto(s, x) /\ Advances(calls[s].pc, x)
      BY <2>1, <2>4 DEF Advances
    <3> QED
      BY <2>1, <3>1, PlainGoto, Zenon DEF hist
  <2> QED
    BY <1>6, <2>2, <2>3, <2>4, Zenon DEF DropsSync
<1> QED
  BY <1>1, <1>2, <1>5, <1>6, Zenon DEF Filter

(* Stop, but for the machine, the address and the entry.                   *)
LEMMA StopPlain ==
  ASSUME TypeOK, NEW s \in Slots, calls[s] # Idle,
         \/ TeardownVM(s) \/ NATFind(s) \/ NATDelete(s) \/ ChainLook(s)
         \/ JumpFind(s) \/ JumpDelete(s) \/ ChainFlush(s) \/ ChainDelete(s)
  PROVE  /\ Plain(s) /\ \A t \in Slots \ {s} : calls'[t] = calls[t]
         /\ UNCHANGED <<img, hist>> /\ calls[s].pc \in StopPCs \cap Works
         /\ UNCHANGED filter \/ calls[s].pc \in Removes
         /\ calls'[s].pc \notin {"list", "sync", "boot"}
<1> USE DEF PCs, BuildPCs, SetupPCs, StopPCs, Starts, Works, Holds, Removes, Writes
<1>1. CASE TeardownVM(s)
  <2>1. Goto(s, "release") /\ Advances(calls[s].pc, "release") /\ calls[s].pc = "untap"
    BY <1>1, Zenon DEF TeardownVM, Advances
  <2>2. calls'[s].pc = "release"
    BY <2>1, GotoSet, Zenon
  <2> QED
    BY <1>1, <2>1, <2>2, PlainGoto, Zenon DEF TeardownVM, hist
<1>2. CASE NATFind(s) \/ JumpFind(s)
  <2>1. /\ calls[s].pc \in {"unnat", "unlook"} /\ calls'[s].pc \in StopPCs \ {"stop", "untap", "release"}
        /\ calls'[s] \in Call /\ calls'[s].vm = calls[s].vm /\ calls'[s].deny = calls[s].deny
        /\ \A t \in Slots \ {s} : calls'[t] = calls[t]
    BY <1>2, FindCalls, Zenon
  <2>2. Advances(calls[s].pc, calls'[s].pc)
    BY <2>1 DEF Advances
  <2>3. UNCHANGED <<env, img, book, status, hist, filter>>
    BY <1>2, Zenon DEF NATFind, JumpFind
  <2> QED
    BY <2>1, <2>2, <2>3, SameIsAlike, Zenon DEF Plain, hist
<1>3. CASE NATDelete(s) \/ JumpDelete(s)
  <2>1. PICK x \in StopPCs \ {"stop", "untap", "release"} : DeleteNoted(s, x)
    BY <1>3, AfterRemoval, Zenon DEF NATDelete, JumpDelete
  <2>2. calls[s].pc \in {"unnatdel", "unjump"}
    BY <1>3, Zenon DEF NATDelete, JumpDelete
  <2>3. /\ calls'[s] \in Call /\ calls'[s].vm = calls[s].vm /\ calls'[s].deny = calls[s].deny
        /\ calls'[s].pc = x /\ \A t \in Slots \ {s} : calls'[t] = calls[t]
    BY <2>1, DeleteCalls, Zenon
  <2>4. Advances(calls[s].pc, calls'[s].pc)
    BY <2>2, <2>3 DEF Advances
  <2>5. UNCHANGED <<env, img, book, status, hist>>
    BY <2>1, Zenon DEF DeleteNoted
  <2> QED
    BY <2>2, <2>3, <2>4, <2>5, SameIsAlike, Zenon DEF Plain, hist
<1>4. CASE ChainLook(s) \/ ChainFlush(s) \/ ChainDelete(s)
  <2>1. PICK x \in {"unlook", "drop", "unchain"} : Goto(s, x)
    BY <1>4, Zenon DEF ChainLook, ChainFlush, ChainDelete
  <2>2. calls[s].pc \in {"unchk", "flush", "unchain"}
    BY <1>4, Zenon DEF ChainLook, ChainFlush, ChainDelete
  <2>3. Advances(calls[s].pc, x)
    BY <2>1, <2>2, Zenon DEF Advances
  <2>4. calls'[s].pc = x
    BY <2>1, GotoSet, Zenon
  <2>5. UNCHANGED <<env, img, book, status, hist>>
    BY <1>4, Zenon DEF ChainLook, ChainFlush, ChainDelete
  <2> QED
    BY <2>1, <2>2, <2>3, <2>4, <2>5, PlainGoto, Zenon DEF hist
<1> QED
  BY <1>1, <1>2, <1>3, <1>4, Zenon

(* A command that fails, and a machine that does not start.                *)
LEMMA FailPlain ==
  ASSUME TypeOK, NEW s \in Slots, calls[s] # Idle, CommandFails(s) \/ BootFails(s)
  PROVE  /\ Plain(s) /\ \A t \in Slots \ {s} : calls'[t] = calls[t]
         /\ UNCHANGED <<img, filter, hist>> /\ calls'[s].pc \notin {"list", "sync"}
         /\ calls'[s].pc = "boot" => calls[s].deny = {}
<1> USE DEF PCs, BuildPCs, SetupPCs, StopPCs, Starts, Works, Holds, Removes, Writes
<1>1. PICK x \in PCs : /\ Goto(s, x) /\ Advances(calls[s].pc, x) /\ x \notin {"list", "sync"}
                       /\ x = "boot" => calls[s].deny = {}
  <2>1. CASE CommandFails(s)
    <3> DEFINE c == calls[s]
    <3>1. /\ Goto(s, OnError(c))
          /\ c.pc \in (SetupPCs \cup StopPCs) \ {"unreserve", "undo", "clear", "stop", "release", "drop"}
      BY <2>1, Zenon DEF CommandFails
    <3>2. OnError(c) \in PCs
      BY <3>1, OnErrorGoes, Zenon
    <3>3. Advances(c.pc, OnError(c)) /\ OnError(c) \notin {"list", "sync"} /\ (OnError(c) = "boot" => c.deny = {})
      <4>1. CASE c.pc \in {"brnew", "brfresh", "braddr", "brup", "tapnew", "tapon", "newchain", "jump", "list", "sync"}
        BY <4>1, ZenonT(60) DEF OnError, Advances
      <4>2. CASE c.pc \in {"tap", "nat", "natadd", "chain", "look"}
        BY <4>2, ZenonT(60) DEF OnError, Advances, AfterNAT
      <4>3. CASE c.pc \in {"untap", "unnat", "unnatdel", "unchk", "unchain", "unlook", "unjump", "flush"}
        <5>1. c.pc = "untap" => OnError(c) = "release"
          BY Zenon DEF OnError
        <5>2. c.pc \in {"unchk", "unchain", "flush"} => OnError(c) \in {"drop", "unchain"}
          BY Zenon DEF OnError
        <5>3. c.pc \in {"unnat", "unnatdel"} => OnError(c) = AfterRemoveNAT(c)
          BY Zenon DEF OnError
        <5>4. c.pc \in {"unlook", "unjump"} => OnError(c) = AfterJump
          BY Zenon DEF OnError
        <5>5. AfterRemoveNAT(c) \in {"drop", "unlook", "unchk"} /\ AfterJump \in {"unchain", "flush"}
          BY Zenon DEF AfterRemoveNAT, AfterJump
        <5>6. c.pc # "untap" => c.pc \in Removes /\ OnError(c) \in {"drop", "unlook", "unchk", "unchain", "flush"}
          BY <4>3, <5>2, <5>3, <5>4, <5>5, Zenon
        <5> QED
          BY <5>1, <5>6 DEF Advances
      <4> QED
        BY <3>1, <4>1, <4>2, <4>3, Zenon
    <3> QED
      BY <3>1, <3>2, <3>3, Zenon
  <2>2. CASE BootFails(s)
    BY <2>2 DEF BootFails, Advances
  <2> QED
    BY <2>1, <2>2, Zenon
<1>2. UNCHANGED <<env, img, filter, book, status, hist>>
  BY Zenon DEF CommandFails, BootFails
<1>3. calls'[s].pc = x
  BY <1>1, GotoSet, Zenon
<1> QED
  BY <1>1, <1>2, <1>3, PlainGoto, Zenon DEF hist

(* The steps that are not plain ones.                                      *)
Special(s) ==
  \/ (CacheRename(s) /\ img.tmp = "none") \/ BuildFails(s) \/ ReadNetwork(s)
  \/ Boot(s) \/ UndoReserve(s) \/ UndoTap(s)
  \/ StopMachine(s) \/ StopRelease(s) \/ StopDrop(s)

CallStep(s) == Build(s) \/ Links(s) \/ Filter(s) \/ Finish(s) \/ Stop(s) \/ CommandFails(s)

LEMMA PlainOrSpecial ==
  ASSUME TypeOK, NEW s \in Slots, calls[s] # Idle, CallStep(s)
  PROVE  Plain(s) \/ Special(s)
<1>1. CASE Build(s)
  BY <1>1, BuildPlain, Zenon DEF Build, Special
<1>2. CASE Links(s)
  BY <1>2, LinksPlain, Zenon DEF Links, Special
<1>3. CASE Filter(s)
  BY <1>3, FilterPlain, Zenon
<1>4. CASE Finish(s)
  BY <1>4, FailPlain, Zenon DEF Finish, Special
<1>5. CASE Stop(s)
  BY <1>5, StopPlain, Zenon DEF Stop, Special
<1>6. CASE CommandFails(s)
  BY <1>6, FailPlain, Zenon
<1> QED
  BY <1>1, <1>2, <1>3, <1>4, <1>5, <1>6, Zenon DEF CallStep

-----------------------------------------------------------------------------
(* The image cache.                                                        *)

(* Whoever writes has the temporary file open and to itself, what is about *)
(* to be renamed is whole, and nobody else is between the two.             *)
CacheInv ==
  ~shared =>
    /\ img.dest # "partial"
    /\ \A s \in Slots : /\ calls[s].pc = "write" => calls[s].file = "tmp" /\ calls[s].clean
                        /\ calls[s].pc = "rename" => img.tmp = "whole"
    /\ \A s, t \in Slots : calls[s].pc \in Writes /\ calls[t].pc \in Writes => s = t

(* Only a build touches the cache.                                         *)
LEMMA NoBuild ==
  ASSUME TypeOK, NEW s \in Slots, calls[s] # Idle,
         Links(s) \/ Filter(s) \/ Finish(s) \/ Stop(s) \/ CommandFails(s)
  PROVE  /\ img'.tmp = img.tmp /\ img'.dest = img.dest /\ UNCHANGED shared
         /\ \A t \in Slots \ {s} : calls'[t] = calls[t]
         /\ calls'[s].pc \notin Writes
<1> DEFINE Quiet == /\ img'.tmp = img.tmp /\ img'.dest = img.dest /\ UNCHANGED shared
                    /\ \A t \in Slots \ {s} : calls'[t] = calls[t]
                    /\ calls'[s].pc \notin Writes
<1>1. ASSUME Plain(s), calls[s].pc \notin {"open", "write"}, UNCHANGED <<img, shared>>,
             \A t \in Slots \ {s} : calls'[t] = calls[t]
      PROVE  Quiet
  BY <1>1, Zenon DEF Plain, Advances
<1>2. ASSUME calls'[s] = Idle PROVE calls'[s].pc \notin Writes
  BY <1>2 DEF Idle, Writes
<1>3. img \in Image /\ calls[s].vm \in VMs
  BY CallFields, Zenon DEF TypeOK, Image
<1>4. CASE ReadNetwork(s)
  BY <1>4, ReadCalls, Zenon DEF ReadNetwork, Writes
<1>5. CASE BridgeAdd(s) \/ BridgeAddress(s) \/ BridgeUp(s) \/ TapLook(s) \/ TapAdd(s) \/ TapAttach(s)
  <2>1. calls[s].pc \notin {"open", "write"}
    BY <1>5, Zenon DEF BridgeAdd, BridgeAddress, BridgeUp, TapLook, TapAdd, TapAttach
  <2> QED
    BY <1>1, <1>5, <2>1, LinksPlain, Zenon DEF hist
<1>6. CASE Filter(s)
  BY <1>1, <1>6, FilterPlain, Zenon DEF SetupPCs
<1>7. CASE CommandFails(s) \/ BootFails(s)
  <2>1. calls[s].pc \notin {"open", "write"}
    BY <1>7, Zenon DEF CommandFails, BootFails, SetupPCs, StopPCs
  <2> QED
    BY <1>1, <1>7, <2>1, FailPlain, Zenon DEF hist
<1>8. CASE \/ TeardownVM(s) \/ NATFind(s) \/ NATDelete(s) \/ ChainLook(s)
           \/ JumpFind(s) \/ JumpDelete(s) \/ ChainFlush(s) \/ ChainDelete(s)
  BY <1>1, <1>8, StopPlain, Zenon DEF hist, StopPCs
<1>9. CASE Boot(s)
  <2>1. Return(s, "up") /\ img' = [img EXCEPT !.users = @ \cup {calls[s].vm}] /\ UNCHANGED hist
    BY <1>9, Zenon DEF Boot
  <2>2. img'.tmp = img.tmp /\ img'.dest = img.dest
    BY <1>3, <2>1, Zenon DEF Image
  <2> QED
    BY <1>2, <2>1, <2>2, ReturnSet, Zenon DEF hist
<1>10. CASE UndoReserve(s) \/ UndoTap(s) \/ StopDrop(s)
  <2>1. Return(s, "down") \/ Goto(s, "clear")
    BY <1>10, Zenon DEF UndoReserve, UndoTap, StopDrop
  <2>2. UNCHANGED <<img, hist>>
    BY <1>10, Zenon DEF UndoReserve, UndoTap, StopDrop
  <2>3. CASE Return(s, "down")
    BY <1>2, <2>2, <2>3, ReturnSet, Zenon DEF hist
  <2>4. CASE Goto(s, "clear")
    BY <2>2, <2>4, GotoSet DEF hist, PCs, SetupPCs, Writes
  <2> QED
    BY <2>1, <2>3, <2>4, Zenon
<1>11. CASE StopMachine(s) \/ StopRelease(s)
  <2>1. PICK x \in {"untap", "unnat", "drop"} : Goto(s, x)
    BY <1>11, Zenon DEF StopMachine, StopRelease
  <2>2. img'.tmp = img.tmp /\ img'.dest = img.dest /\ UNCHANGED hist
    BY <1>3, <1>11, Zenon DEF StopMachine, StopRelease, Image
  <2> QED
    BY <2>1, <2>2, GotoSet, Zenon DEF hist, PCs, StopPCs, Writes
<1> QED
  BY <1>4, <1>5, <1>6, <1>7, <1>8, <1>9, <1>10, <1>11, Zenon DEF Links, Finish, Stop

LEMMA BuildKeepsCache ==
  ASSUME TypeOK, CacheInv, NEW s \in Slots, calls[s] # Idle, Build(s), ~shared'
  PROVE  CacheInv'
<1>1. img \in Image /\ calls[s] \in Call
  BY CallFields, Zenon DEF TypeOK, Image
<1>2. ASSUME NEW c \in Call \cup {Idle}, NEW d, Alike(c, d) PROVE d.pc = c.pc
  BY <1>2, Zenon DEF Alike
<1>3. CASE CacheStat(s)
  <2>1. PICK x \in {"open", "read"} : Goto(s, x)
    BY <1>3, Zenon DEF CacheStat
  <2>2. calls'[s].pc = x /\ \A t \in Slots \ {s} : calls'[t] = calls[t]
    BY <2>1, GotoSet, Zenon DEF PCs, BuildPCs
  <2>3. UNCHANGED <<img, shared>>
    BY <1>3, Zenon DEF CacheStat, hist
  <2> QED
    BY <2>1, <2>2, <2>3 DEF CacheInv, Writes
<1>4. CASE BuildExt4(s)
  <2>1. ~shared /\ \A t \in Slots \ {s} : calls[t].pc \notin Writes
    <3>1. ~(shared \/ \E t \in Slots \ {s} : calls[t].pc \in {"write", "rename"})
      BY <1>4, Zenon DEF BuildExt4
    <3> QED
      BY <3>1, Zenon DEF Writes
  <2>2. \A t \in Slots \ {s} : calls'[t].pc = calls[t].pc
    BY <1>2, <1>4, BuildExt4Calls DEF TypeOK
  <2>3. calls'[s].pc = "write" /\ calls'[s].file = "tmp"
    BY <1>4, BuildExt4Calls, Zenon
  <2>4. calls'[s].clean
    <3> DEFINE W == {t \in Slots \ {s} : calls[t].pc = "write" /\ calls[t].file = "tmp"}
    <3>1. W = {}
      BY <2>1, Zenon DEF Writes
    <3>2. calls'[s] = [calls[s] EXCEPT !.pc = "write", !.file = "tmp", !.clean = (W = {})]
      BY <1>4, Zenon DEF BuildExt4
    <3> HIDE DEF W
    <3>3. calls'[s].clean = (W = {})
      BY <1>1, <3>2, Zenon DEF Call
    <3> QED
      BY <3>1, <3>3, Zenon
  <2>5. img'.dest = img.dest
    BY <1>1, <1>4, Zenon DEF BuildExt4, Image
  <2> QED
    BY <2>1, <2>2, <2>3, <2>4, <2>5 DEF CacheInv, Writes
<1>5. CASE Ext4Written(s)
  <2>1. ~shared /\ calls[s].pc = "write" /\ Goto(s, "rename")
    BY <1>5, Zenon DEF Ext4Written, hist
  <2>2. calls[s].file = "tmp" /\ calls[s].clean /\ \A t \in Slots \ {s} : calls[t].pc \notin Writes
    BY <2>1, Zenon DEF CacheInv, Writes
  <2>3. img' = [img EXCEPT !.tmp = "whole"]
    BY <1>5, <2>2, Zenon DEF Ext4Written
  <2>4. img'.tmp = "whole" /\ img'.dest = img.dest
    BY <1>1, <2>3, Zenon DEF Image
  <2>5. calls'[s].pc = "rename" /\ \A t \in Slots \ {s} : calls'[t] = calls[t]
    BY <2>1, GotoSet, Zenon DEF PCs, BuildPCs
  <2> QED
    BY <2>1, <2>2, <2>4, <2>5 DEF CacheInv, Writes
<1>6. CASE CacheRename(s) /\ img.tmp # "none"
  <2>1. ~shared /\ calls[s].pc = "rename" /\ img' = [tmp |-> "none", dest |-> img.tmp, users |-> {}]
    BY <1>6, Zenon DEF CacheRename, hist
  <2>2. img.tmp = "whole" /\ \A t \in Slots \ {s} : calls[t].pc \notin Writes
    BY <2>1, Zenon DEF CacheInv, Writes
  <2>3. img'.dest = "whole"
    BY <2>1, <2>2, Zenon
  <2>4. \A t \in Slots \ {s} : calls'[t].pc = calls[t].pc
    BY <1>2, <1>6, CacheRenameCalls, MovedFile DEF TypeOK
  <2>5. calls'[s].pc = "read"
    BY <1>6, CacheRenameCalls, Zenon
  <2> QED
    BY <2>2, <2>3, <2>4, <2>5 DEF CacheInv, Writes
<1>7. CASE CacheRename(s) /\ img.tmp = "none"
  <2>1. ~shared /\ calls[s].pc = "rename"
    BY <1>7, Zenon DEF CacheRename, hist
  <2> QED
    BY <1>7, <2>1, Zenon DEF CacheInv
<1>8. CASE BuildFails(s)
  <2>1. ~shared /\ calls'[s] = Idle /\ \A t \in Slots \ {s} : calls'[t].pc = calls[t].pc
    BY <1>2, <1>8, BuildFailsCalls, Zenon DEF BuildFails, hist, TypeOK
  <2>2. calls'[s].pc \notin Writes
    BY <2>1 DEF Idle, Writes
  <2>3. CASE calls[s].pc \in Writes
    <3>1. \A t \in Slots \ {s} : calls[t].pc \notin Writes
      BY <2>1, <2>3, Zenon DEF CacheInv
    <3>2. img'.dest = img.dest
      BY <1>1, <1>8, Zenon DEF BuildFails, Image
    <3> QED
      BY <2>1, <2>2, <3>1, <3>2 DEF CacheInv, Writes
  <2>4. CASE calls[s].pc \notin Writes
    <3>1. img' = img /\ \A t \in Slots \ {s} : calls'[t] = calls[t]
      BY <1>8, <2>4, Zenon DEF BuildFails, Writes
    <3> QED
      BY <2>1, <2>2, <3>1 DEF CacheInv, Writes
  <2> QED
    BY <2>3, <2>4, Zenon
<1> QED
  BY <1>3, <1>4, <1>5, <1>6, <1>7, <1>8, Zenon DEF Build

LEMMA CacheStep == TypeOK /\ CacheInv /\ [Next]_vars => CacheInv'
<1> SUFFICES ASSUME TypeOK, CacheInv, [Next]_vars, ~shared' PROVE CacheInv'
  BY Zenon DEF CacheInv
<1>1. CASE UNCHANGED vars
  BY <1>1, Zenon DEF CacheInv, vars, hist
<1>2. ASSUME NEW s \in Slots, calls[s] # Idle, CallStep(s) PROVE CacheInv'
  <2>1. CASE Build(s)
    BY <1>2, <2>1, BuildKeepsCache, Zenon
  <2>2. CASE Links(s) \/ Filter(s) \/ Finish(s) \/ Stop(s) \/ CommandFails(s)
    BY <1>2, <2>2, NoBuild DEF CacheInv, Writes
  <2> QED
    BY <1>2, <2>1, <2>2, Zenon DEF CallStep
<1>3. ASSUME NEW v \in VMs, BeginStart(v) \/ BeginStop(v) PROVE CacheInv'
  <2>1. PICK x, l : x \in {"stat", "stop", "drop"} /\ calls' = [calls EXCEPT !["agent"] = NewCall(x, v, l)]
    BY <1>3 DEF BeginStart, BeginStop
  <2>2. \A t \in Slots : calls'[t] = calls[t] \/ calls'[t] = NewCall(x, v, l)
    BY <2>1, Zenon DEF TypeOK
  <2>3. NewCall(x, v, l).pc \notin Writes
    BY <2>1, Zenon DEF NewCall, Writes
  <2>4. UNCHANGED <<img, shared>>
    BY <1>3, Zenon DEF BeginStart, BeginStop
  <2> QED
    BY <2>2, <2>3, <2>4, Zenon DEF CacheInv, Writes
<1>4. ASSUME NEW v \in VMs, Inspect(v) \/ StartTimeout(v) PROVE CacheInv'
  BY <1>4, Zenon DEF Inspect, StartTimeout, CacheInv, hist
<1>5. ASSUME NEW v \in VMs, ProcessExit(v) PROVE CacheInv'
  <2>1. img'.tmp = img.tmp /\ img'.dest = img.dest /\ UNCHANGED <<calls, shared>>
    BY <1>5, Zenon DEF ProcessExit, hist, TypeOK
  <2> QED
    BY <2>1, Zenon DEF CacheInv
<1>6. CASE ChangePolicy
  BY <1>6, Zenon DEF ChangePolicy, CacheInv, hist
<1>7. CASE AgentCrash
  <2>1. /\ UNCHANGED <<img, shared>> /\ calls["orphan"] = Idle
        /\ calls'["agent"] = Idle /\ calls'["orphan"] = calls["agent"]
    BY <1>7, Zenon DEF AgentCrash, hist
  <2>2. Idle.pc \notin Writes /\ Slots = {"agent", "orphan"}
    BY Zenon DEF Idle, Writes, Slots
  <2> QED
    BY <2>1, <2>2 DEF CacheInv, Writes
<1>8. CASE RuntimeRestart
  <2>1. img'.dest = img.dest /\ UNCHANGED shared /\ \A s \in Slots : calls'[s] = Idle
    BY <1>8, Zenon DEF RuntimeRestart, hist, TypeOK
  <2>2. Idle.pc \notin Writes
    BY Zenon DEF Idle, Writes
  <2> QED
    BY <2>1, <2>2, Zenon DEF CacheInv, Writes
<1> QED
  BY <1>1, <1>2, <1>3, <1>4, <1>5, <1>6, <1>7, <1>8, Zenon DEF Next, CallStep

(* The cache is not poisoned (buildFromImageWithIdentity): a file at the   *)
(* cache path is one mke2fs has finished, whatever fails and wherever the  *)
(* runtime restarts, as long as no two builds of the image ran at once.    *)
THEOREM CacheNotPoisoned == Spec => []CacheWhole
<1>1. Init => CacheInv
  BY DEF Init, CacheInv, Idle, Writes
<1>2. CacheInv => CacheWhole
  BY Zenon DEF CacheInv, CacheWhole
<1> QED
  BY <1>1, <1>2, Typing, CacheStep, PTL DEF Spec
=============================================================================
