---------------------------- MODULE EgressProofs ----------------------------
(***************************************************************************)
(* Proofs about the egress rules of HostSetup.                             *)
(***************************************************************************)
EXTENDS HostSetupProofs

-----------------------------------------------------------------------------
(* The rules of the subnet.                                                *)

(* A call between listing the chain and the machine's start: what it has   *)
(* noted is there, one rule of a kind; every text it does not have to add  *)
(* any more has a rule it will not delete; and if it found no rule twice,  *)
(* what it will not delete is on the list.                                 *)
Syncing(c) ==
  /\ chain /\ c.del \subseteq Drops /\ c.add \subseteq c.deny
  /\ \A q, r \in c.del : q.what = r.what => q = r
  /\ \A t \in c.deny \ c.add : \E q \in Drops \ c.del : q.what = Printed[backend][t]
  /\ ~doubled => \A q \in Drops \ c.del : q.what \in PrintedAs(c.deny)

Chained(c) ==
  /\ c.pc \in {"list", "sync"} => Of("jump") # {}
  /\ c.pc = "sync" => Syncing(c)

OneWorks == \A s, t \in Slots : calls[s].pc \in Works /\ calls[t].pc \in Works => s = t

DropsPrinted == \A r \in Drops : \E t \in Texts : r.what = Printed[backend][t]

FilterInv == DropsPrinted /\ (~raced => OneWorks /\ \A s \in Slots : Chained(calls[s]))

LEMMA NoDrop == "nat" \notin Targets /\ "jump" \notin Targets
BY TextAssumption DEF Targets, Backends

(* A call stays in line with the rules as long as nobody changes them.     *)
LEMMA ChainedFrame ==
  ASSUME NEW t \in Slots, Alike(calls[t], calls'[t]), UNCHANGED <<chain, rules, backend>>,
         doubled => doubled', Chained(calls[t])
  PROVE  Chained(calls[t])'
<1>1. CASE calls[t] = Idle
  <2>1. calls'[t] = Idle
    BY <1>1, Zenon DEF Alike
  <2> QED
    BY <2>1 DEF Chained, Idle
<1>2. CASE calls[t] # Idle
  <2>1. /\ calls'[t].pc = calls[t].pc /\ calls'[t].deny = calls[t].deny
        /\ calls'[t].add = calls[t].add /\ calls'[t].del = calls[t].del
    BY <1>2, Zenon DEF Alike
  <2>2. Drops' = Drops /\ Of("jump")' = Of("jump") /\ PrintedAs(calls[t].deny)' = PrintedAs(calls[t].deny)
    BY <2>1, Zenon DEF Drops, Of, PrintedAs
  <2>3. CASE calls[t].pc = "sync"
    <3>1. Syncing(calls[t])
      BY <2>3, Zenon DEF Chained
    <3>2. Syncing(calls[t])'
      BY <2>1, <2>2, <3>1, Zenon DEF Syncing
    <3> QED
      BY <2>1, <2>2, <2>3, <3>2, Zenon DEF Chained
  <2>4. CASE calls[t].pc # "sync"
    BY <2>1, <2>2, <2>4, Zenon DEF Chained
  <2> QED
    BY <2>3, <2>4, Zenon
<1> QED
  BY <1>1, <1>2, Zenon

(* A rule that is deleted is one of the kind that was noted.               *)
LEMMA DeletedOne ==
  ASSUME NEW r \in rules
  PROVE  \E x \in rules : x.what = r.what /\ Deleted(r) = rules \ {x}
<1>1. CASE backend = "nftables"
  BY <1>1, Zenon DEF Deleted
<1>2. CASE backend # "nftables"
  <2>1. r \in Of(r.what)
    BY Zenon DEF Of
  <2>2. First(Of(r.what)) \in Of(r.what)
    BY <2>1, FirstOf, Zenon
  <2>3. Deleted(r) = rules \ {First(Of(r.what))}
    BY <1>2, <2>1, Zenon DEF Deleted
  <2> QED
    BY <2>2, <2>3, Zenon DEF Of
<1> QED
  BY <1>1, <1>2, Zenon

(* The listing of the chain.                                               *)
LEMMA ListSyncs ==
  ASSUME TypeOK, DropsPrinted, NEW s \in Slots, calls[s] # Idle, DropsList(s), chain, Of("jump") # {}
  PROVE  Chained(calls[s])'
<1> DEFINE c == calls[s]
           d == calls'[s]
           existing == {r.what : r \in Drops}
           A == {t \in c.deny : t \notin existing}
           D == {First(Of(w)) : w \in existing \ c.deny}
<1>1. c \in Call /\ c.deny \subseteq Texts
  BY CallFields, Zenon
<1>2. calls'[s] = [c EXCEPT !.pc = "sync", !.add = A, !.del = D]
  BY Zenon DEF DropsList, TypeOK
<1>3. d.pc = "sync" /\ d.add = A /\ d.del = D /\ d.deny = c.deny
  BY <1>1, <1>2, Zenon DEF Call
<1>4. UNCHANGED <<chain, rules, backend>>
  BY Zenon DEF DropsList, filter, env
<1>5. Drops' = Drops /\ Of("jump")' = Of("jump") /\ PrintedAs(calls[s].deny)' = PrintedAs(c.deny)
  BY <1>3, <1>4, Zenon DEF Drops, Of, PrintedAs
<1>6. \A w \in existing : First(Of(w)) \in Drops /\ First(Of(w)).what = w
  <2> SUFFICES ASSUME NEW w \in existing PROVE First(Of(w)) \in Drops /\ First(Of(w)).what = w
    BY Zenon
  <2>1. Of(w) # {} /\ w \in Targets
    BY Zenon DEF Of, Drops
  <2>2. First(Of(w)) \in Of(w)
    BY <2>1, FirstOf, Zenon
  <2> QED
    BY <2>1, <2>2, Zenon DEF Of, Drops
<1>7. D \subseteq Drops /\ A \subseteq c.deny /\ \A q \in D : q.what \in existing \ c.deny
  BY <1>6, Zenon
<1>8. \A q, r \in D : q.what = r.what => q = r
  BY <1>6
<1>9. \A t \in Texts : t \in existing => Printed[backend][t] = t
  <2> SUFFICES ASSUME NEW t \in Texts, t \in existing PROVE Printed[backend][t] = t
    BY Zenon
  <2>1. PICK u \in Texts : t = Printed[backend][u]
    BY Zenon DEF DropsPrinted
  <2>2. backend \in {"nftables", "iptables"}
    BY Zenon DEF TypeOK, Backends
  <2> QED
    BY <2>1, <2>2, TextAssumption
<1>10. \A t \in c.deny \ A : \E q \in Drops \ D : q.what = Printed[backend][t]
  <2> SUFFICES ASSUME NEW t \in c.deny \ A PROVE \E q \in Drops \ D : q.what = Printed[backend][t]
    BY Zenon
  <2>1. PICK q \in Drops : q.what = t
    BY Zenon
  <2>2. q \notin D
    BY <1>7, <2>1, Zenon
  <2>3. Printed[backend][t] = t
    BY <1>1, <1>9, Zenon
  <2> QED
    BY <2>1, <2>2, <2>3, Zenon
<1>11. ASSUME ~doubled', NEW q \in Drops \ D PROVE q.what \in PrintedAs(c.deny)
  <2>1. q.what \in existing
    BY Zenon
  <2>2. CASE q.what \in c.deny
    <3>1. Printed[backend][q.what] = q.what
      BY <1>1, <1>9, <2>1, <2>2, Zenon
    <3> QED
      BY <2>2, <3>1, Zenon DEF PrintedAs
  <2>3. CASE q.what \notin c.deny
    <3>1. First(Of(q.what)) \in D
      BY <2>1, <2>3, Zenon
    <3>2. ~(doubled \/ \E r, p \in Drops : r # p /\ r.what = p.what)
      BY <1>11, Zenon DEF DropsList
    <3>3. First(Of(q.what)) = q
      <4>1. First(Of(q.what)) \in Drops /\ First(Of(q.what)).what = q.what
        BY <1>6, <2>1, Zenon
      <4>2. \A r, p \in Drops : r.what = p.what => r = p
        BY <3>2, Zenon
      <4> QED
        BY <4>1, <4>2, Zenon
    <3> QED
      BY <3>1, <3>3, Zenon
  <2> QED
    BY <2>2, <2>3, Zenon
<1> HIDE DEF A, D, existing
<1>12. Syncing(calls[s])'
  BY <1>3, <1>4, <1>5, <1>7, <1>8, <1>10, <1>11 DEF Syncing
<1> QED
  BY <1>3, <1>5, <1>12, Zenon DEF Chained

(* A drop is added.                                                        *)
LEMMA AddSyncs ==
  ASSUME TypeOK, NEW s \in Slots, calls[s] # Idle, Chained(calls[s]), calls[s].pc = "sync",
         NEW t \in calls[s].add, CanAdd, rules' = Added(Printed[backend][t]),
         calls' = [calls EXCEPT ![s].add = @ \ {t}], UNCHANGED <<backend, chain, doubled>>
  PROVE  Chained(calls[s])' /\ calls'[s].pc = "sync"
<1> DEFINE c == calls[s]
<1>1. c \in Call /\ c.add \subseteq Texts /\ Syncing(c) /\ Of("jump") # {}
  BY CallFields, Zenon DEF Chained
<1>2. calls'[s] = [c EXCEPT !.add = c.add \ {t}]
  BY Zenon DEF TypeOK
<1>3. /\ calls'[s].pc = "sync" /\ calls'[s].add = c.add \ {t}
      /\ calls'[s].del = c.del /\ calls'[s].deny = c.deny
  BY <1>1, <1>2 DEF Call
<1>4. Printed[backend][t] \in Targets
  BY <1>1 DEF TypeOK, Targets
<1>5. PICK q \in Rule : /\ rules' = rules \cup {q} /\ q.what = Printed[backend][t]
                        /\ q \notin rules /\ q \notin c.del
  BY <1>4, AddedRules, Zenon
<1>6. Drops' = Drops \cup {q} /\ q \notin Drops /\ Of("jump") \subseteq Of("jump")'
  BY <1>4, <1>5, Zenon DEF Drops, Of
<1>7. PrintedAs(calls[s].deny)' = PrintedAs(c.deny)
  BY <1>3, Zenon DEF PrintedAs
<1>8. q.what \in PrintedAs(c.deny)
  BY <1>1, <1>5, Zenon DEF PrintedAs, Syncing
<1>9. Syncing(calls[s])'
  <2>1. \A u \in c.deny \ (c.add \ {t}) : \E p \in (Drops \cup {q}) \ c.del : p.what = Printed[backend][u]
    BY <1>1, <1>5, Zenon DEF Syncing
  <2>2. c.add \ {t} \subseteq c.deny /\ c.del \subseteq Drops \cup {q}
    BY <1>1, Zenon DEF Syncing
  <2>3. ~doubled => \A p \in (Drops \cup {q}) \ c.del : p.what \in PrintedAs(c.deny)
    BY <1>1, <1>8, Zenon DEF Syncing
  <2>4. chain /\ \A p, r \in c.del : p.what = r.what => p = r
    BY <1>1, Zenon DEF Syncing
  <2> HIDE DEF c
  <2> QED
    BY <1>3, <1>6, <1>7, <2>1, <2>2, <2>3, <2>4 DEF Syncing
<1> QED
  BY <1>1, <1>3, <1>6, <1>9, Zenon DEF Chained

(* A noted drop is deleted.  With iptables that may be an equal one, and   *)
(* the noted one stays.                                                    *)
LEMMA DeleteSyncs ==
  ASSUME TypeOK, NEW s \in Slots, calls[s] # Idle, Chained(calls[s]), calls[s].pc = "sync",
         calls[s].add = {}, NEW r \in calls[s].del, rules' = Deleted(r),
         calls' = [calls EXCEPT ![s].del = @ \ {r}], UNCHANGED <<backend, chain, doubled>>
  PROVE  Chained(calls[s])' /\ calls'[s].pc = "sync"
<1> DEFINE c == calls[s]
<1>1. c \in Call /\ Syncing(c) /\ Of("jump") # {}
  BY CallFields, Zenon DEF Chained
<1>2. calls'[s] = [c EXCEPT !.del = c.del \ {r}]
  BY Zenon DEF TypeOK
<1>3. /\ calls'[s].pc = "sync" /\ calls'[s].add = {}
      /\ calls'[s].del = c.del \ {r} /\ calls'[s].deny = c.deny
  BY <1>1, <1>2 DEF Call
<1>4. r \in Drops
  BY <1>1, Zenon DEF Syncing
<1>5. PICK x \in rules : x.what = r.what /\ rules' = rules \ {x}
  BY <1>4, DeletedOne, Zenon DEF Drops
<1>6. /\ x \in Drops /\ Drops' = Drops \ {x}
      /\ x \in c.del => x = r
  BY <1>1, <1>4, <1>5, Zenon DEF Drops, Syncing
<1>7. Of("jump")' = Of("jump")
  BY <1>4, <1>5, NoDrop, Zenon DEF Drops, Of
<1>8. PrintedAs(calls[s].deny)' = PrintedAs(c.deny)
  BY <1>3, Zenon DEF PrintedAs
<1>9. c.del \ {r} \subseteq Drops \ {x}
  BY <1>1, <1>6, Zenon DEF Syncing
<1>10. \A u \in c.deny : \E p \in (Drops \ {x}) \ (c.del \ {r}) : p.what = Printed[backend][u]
  <2> SUFFICES ASSUME NEW u \in c.deny
               PROVE  \E p \in (Drops \ {x}) \ (c.del \ {r}) : p.what = Printed[backend][u]
    BY Zenon
  <2>1. PICK q \in Drops \ c.del : q.what = Printed[backend][u]
    BY <1>1, Zenon DEF Syncing
  <2>2. CASE q # x
    BY <2>1, <2>2, Zenon
  <2>3. CASE q = x
    <3>1. r # x /\ r \in Drops /\ r.what = Printed[backend][u]
      BY <1>4, <1>5, <2>1, <2>3, Zenon
    <3> QED
      BY <3>1, Zenon
  <2> QED
    BY <2>2, <2>3, Zenon
<1>11. ASSUME ~doubled, NEW y \in (Drops \ {x}) \ (c.del \ {r}) PROVE y.what \in PrintedAs(c.deny)
  <2>1. CASE y = r
    <3>1. x \in Drops \ c.del /\ x.what = y.what
      BY <1>5, <1>6, <2>1, Zenon
    <3> QED
      BY <1>1, <1>11, <3>1, Zenon DEF Syncing
  <2>2. CASE y # r
    BY <1>1, <1>11, <2>2, Zenon DEF Syncing
  <2> QED
    BY <2>1, <2>2, Zenon
<1>12. Syncing(calls[s])'
  <2>1. chain /\ \A p, q \in c.del : p.what = q.what => p = q
    BY <1>1, Zenon DEF Syncing
  <2> HIDE DEF c
  <2> QED
    BY <1>3, <1>6, <1>8, <1>9, <1>10, <1>11, <2>1 DEF Syncing
<1> QED
  BY <1>1, <1>3, <1>7, <1>12, Zenon DEF Chained

(* What a step that sets up rules does to the call's own knowledge.        *)
LEMMA FilterChained ==
  ASSUME TypeOK, DropsPrinted, NEW s \in Slots, calls[s] # Idle, Filter(s), Chained(calls[s])
  PROVE  Chained(calls[s])'
<1> USE DEF PCs, SetupPCs
<1>1. ASSUME NEW x \in PCs \ {"list", "sync"}, Goto(s, x) PROVE Chained(calls[s])'
  BY <1>1, GotoSet, Zenon DEF Chained
<1>2. CASE NATLook(s) \/ NATAdd(s) \/ ChainEnsure(s) \/ ChainNew(s)
  <2>1. PICK x \in PCs \ {"list", "sync"} : Goto(s, x)
    BY <1>2, Zenon DEF NATLook, NATAdd, ChainEnsure, ChainNew, AfterNAT
  <2> QED
    BY <1>1, <2>1, Zenon
<1>3. ASSUME Goto(s, "list"), Of("jump")' # {} PROVE Chained(calls[s])'
  BY <1>3, GotoSet DEF Chained
<1>4. CASE JumpLook(s)
  <2>1. Of("jump")' = Of("jump")
    BY <1>4, Zenon DEF JumpLook, filter, Of
  <2>2. CASE Of("jump") = {}
    BY <1>1, <1>4, <2>2, Zenon DEF JumpLook
  <2>3. CASE Of("jump") # {}
    BY <1>3, <1>4, <2>1, <2>3, Zenon DEF JumpLook
  <2> QED
    BY <2>2, <2>3, Zenon
<1>5. CASE JumpAdd(s)
  <2>1. CASE chain
    <3>1. PICK q \in Rule : rules' = rules \cup {q} /\ q.what = "jump"
      BY <1>5, <2>1, AddedRules, Zenon DEF JumpAdd
    <3>2. Of("jump")' # {}
      BY <3>1, Zenon DEF Of
    <3> QED
      BY <1>3, <1>5, <2>1, <3>2, Zenon DEF JumpAdd
  <2>2. CASE ~chain
    BY <1>1, <1>5, <2>2, Zenon DEF JumpAdd
  <2> QED
    BY <2>1, <2>2, Zenon
<1>6. CASE DropsList(s)
  <2>1. Of("jump") # {}
    BY <1>6, Zenon DEF DropsList, Chained
  <2>2. CASE chain
    BY <1>6, <2>1, <2>2, ListSyncs, Zenon
  <2>3. CASE ~chain
    BY <1>1, <1>6, <2>3, Zenon DEF DropsList
  <2> QED
    BY <2>2, <2>3, Zenon
<1>7. CASE DropsSync(s)
  <2>1. calls[s].pc = "sync" /\ UNCHANGED <<backend, chain, doubled>>
    BY <1>7, Zenon DEF DropsSync, env, hist
  <2>2. CASE /\ calls[s].add # {} /\ chain /\ CanAdd
             /\ \E t \in calls[s].add : rules' = Added(Printed[backend][t])
                                        /\ calls' = [calls EXCEPT ![s].add = @ \ {t}]
    BY <2>1, <2>2, AddSyncs, Zenon
  <2>3. CASE /\ calls[s].add = {}
             /\ \E r \in calls[s].del :
                  /\ rules' = Deleted(r)
                  /\ calls' = [calls EXCEPT ![s].del = @ \ {r}]
    BY <2>1, <2>3, DeleteSyncs, Zenon
  <2>4. CASE Goto(s, "undo") \/ Goto(s, "boot")
    BY <1>1, <2>4, Zenon
  <2> QED
    BY <1>7, <2>2, <2>3, <2>4, Zenon DEF DropsSync
<1> QED
  BY <1>2, <1>4, <1>5, <1>6, <1>7, Zenon DEF Filter

(* What a step does to the rules: it deletes some, or adds one.            *)
RulesStep ==
  \/ rules' \subseteq rules
  \/ \E q : rules' = rules \cup {q} /\ q.what \in {"nat", "jump"} \cup PrintedAs(Texts)

LEMMA FilterRules ==
  ASSUME TypeOK, NEW s \in Slots, calls[s] # Idle, Filter(s)
  PROVE  RulesStep
<1>1. calls[s].add \subseteq Texts
  BY CallFields, Zenon
<1>2. CASE UNCHANGED rules
  BY <1>2, Zenon DEF RulesStep
<1>3. ASSUME NEW w \in {"nat", "jump"} \cup PrintedAs(Texts), CanAdd, rules' = Added(w) PROVE RulesStep
  <2>1. w \in Targets \cup {"nat", "jump"}
    BY PrintedType, Zenon
  <2> QED
    BY <1>3, <2>1, AddedRules DEF RulesStep
<1>4. CASE NATAdd(s)
  BY <1>3, <1>4, Zenon DEF NATAdd
<1>5. CASE JumpAdd(s)
  BY <1>2, <1>3, <1>5, Zenon DEF JumpAdd
<1>6. CASE NATLook(s) \/ ChainEnsure(s) \/ ChainNew(s) \/ JumpLook(s) \/ DropsList(s)
  BY <1>2, <1>6, Zenon DEF NATLook, ChainEnsure, ChainNew, JumpLook, DropsList, filter
<1>7. CASE DropsSync(s)
  <2>1. CASE CanAdd /\ \E t \in calls[s].add : rules' = Added(Printed[backend][t])
    BY <1>1, <1>3, <2>1, Zenon DEF PrintedAs
  <2>2. CASE \E r : rules' = Deleted(r)
    BY <2>2, DeletedRules, Zenon DEF RulesStep
  <2> QED
    BY <1>2, <1>7, <2>1, <2>2, Zenon DEF DropsSync
<1> QED
  BY <1>4, <1>5, <1>6, <1>7, Zenon DEF Filter

LEMMA StopRules ==
  ASSUME TypeOK, NEW s \in Slots, Stop(s)
  PROVE  rules' \subseteq rules
<1>1. CASE NATDelete(s) \/ JumpDelete(s)
  BY <1>1, DeletedRules, Zenon DEF NATDelete, JumpDelete, DeleteNoted
<1>2. CASE ChainFlush(s) \/ ChainDelete(s)
  BY <1>2, Zenon DEF ChainFlush, ChainDelete
<1>3. CASE \/ StopMachine(s) \/ TeardownVM(s) \/ StopRelease(s) \/ NATFind(s)
           \/ ChainLook(s) \/ JumpFind(s) \/ StopDrop(s)
  BY <1>3, Zenon DEF StopMachine, TeardownVM, StopRelease, NATFind, ChainLook, JumpFind, StopDrop, filter
<1> QED
  BY <1>1, <1>2, <1>3, Zenon DEF Stop

(* What a step that is not a plain one does to the calls.                  *)
LEMMA SpecialCalls ==
  ASSUME TypeOK, NEW s \in Slots, calls[s] # Idle, Special(s)
  PROVE  /\ UNCHANGED <<env, filter, overlapped, leftover, doubled>>
         /\ \A t \in Slots \ {s} : Alike(calls[t], calls'[t])
         /\ ReadNetwork(s) \/ UNCHANGED raced
         /\ ReadNetwork(s) => calls'[s].pc \in {"brnew", "braddr"}
         /\ ~ReadNetwork(s) =>
              \/ calls'[s] = Idle
              \/ /\ calls'[s] \in Call /\ SameButPC(calls[s], calls'[s])
                 /\ calls'[s].pc \in {"clear", "untap", "unnat", "drop"}
                 /\ calls'[s].pc # "clear" => calls[s].pc \in Works
<1>1. CASE (CacheRename(s) /\ img.tmp = "none") \/ UndoTap(s) \/ StopDrop(s) \/ Boot(s)
  <2>1. PICK p \in {"down", "up"} : Return(s, p)
    BY <1>1, Zenon DEF CacheRename, UndoTap, StopDrop, Boot
  <2>2. UNCHANGED <<env, filter, hist>>
    BY <1>1, Zenon DEF CacheRename, UndoTap, StopDrop, Boot
  <2>3. ~ReadNetwork(s)
    BY <1>1, Zenon DEF CacheRename, UndoTap, StopDrop, Boot, ReadNetwork
  <2> QED
    BY <2>1, <2>2, <2>3, ReturnSet, SameIsAlike, Zenon DEF hist
<1>2. CASE BuildFails(s)
  <2>1. ~ReadNetwork(s) /\ UNCHANGED <<env, filter, hist>>
    BY <1>2, Zenon DEF BuildFails, ReadNetwork
  <2> QED
    BY <1>2, <2>1, BuildFailsCalls, Zenon DEF hist
<1>3. CASE ReadNetwork(s)
  <2>4. UNCHANGED <<env, filter, overlapped, leftover, doubled>>
    BY <1>3, Zenon DEF ReadNetwork
  <2> QED
    BY <1>3, <2>4, ReadCalls, SameIsAlike, Zenon
<1>4. CASE UndoReserve(s)
  <2>1. ~ReadNetwork(s) /\ UNCHANGED <<env, filter, hist>>
    BY <1>4, Zenon DEF UndoReserve, ReadNetwork
  <2>2. Return(s, "down") \/ Goto(s, "clear")
    BY <1>4, Zenon DEF UndoReserve
  <2>3. CASE Return(s, "down")
    BY <2>1, <2>3, ReturnSet, SameIsAlike, Zenon DEF hist
  <2>4. CASE Goto(s, "clear")
    BY <2>1, <2>4, GotoSet, SameIsAlike, Zenon DEF hist, PCs, SetupPCs
  <2> QED
    BY <2>2, <2>3, <2>4, Zenon
<1>5. CASE StopMachine(s) \/ StopRelease(s)
  <2>1. ~ReadNetwork(s) /\ UNCHANGED <<env, filter, hist>>
    BY <1>5, Zenon DEF StopMachine, StopRelease, ReadNetwork
  <2>2. PICK x \in {"untap", "unnat", "drop"} : Goto(s, x)
    BY <1>5, Zenon DEF StopMachine, StopRelease
  <2>3. calls[s].pc \in Works
    BY <1>5, Zenon DEF StopMachine, StopRelease, Works, StopPCs
  <2>4. /\ calls'[s] \in Call /\ calls'[s].pc = x /\ SameButPC(calls[s], calls'[s])
        /\ \A t \in Slots \ {s} : calls'[t] = calls[t]
    BY <2>2, GotoSet, Zenon DEF PCs, StopPCs
  <2> QED
    BY <2>1, <2>2, <2>3, <2>4, SameIsAlike, Zenon DEF hist
<1> QED
  BY <1>1, <1>2, <1>3, <1>4, <1>5, Zenon DEF Special

(* What a call's step does to the rules and to the other calls.            *)
LEMMA CallEffect ==
  ASSUME TypeOK, NEW s \in Slots, calls[s] # Idle, CallStep(s)
  PROVE  /\ UNCHANGED <<env, overlapped, leftover>> /\ (doubled => doubled')
         /\ raced' = raced \/ (calls[s].pc = "read" /\ raced' = (raced \/ Busy(s)))
         /\ \A t \in Slots \ {s} : Alike(calls[t], calls'[t])
         /\ UNCHANGED filter \/ calls[s].pc \in Works
         /\ Filter(s) \/ calls'[s].pc \notin {"list", "sync"}
         /\ calls'[s].pc \in Works => calls[s].pc \in Works \/ ReadNetwork(s)
         /\ RulesStep
<1>1. CASE Filter(s)
  <2>1. doubled => doubled'
    BY <1>1, Zenon DEF Filter, NATLook, NATAdd, ChainEnsure, ChainNew, JumpLook, JumpAdd, DropsList, DropsSync, hist
  <2> QED
    BY <1>1, <2>1, FilterPlain, FilterRules, Zenon DEF Plain, Advances
<1>2. ASSUME Plain(s), UNCHANGED <<filter, hist>>, calls'[s].pc \notin {"list", "sync"}
      PROVE  /\ UNCHANGED <<env, overlapped, leftover>> /\ (doubled => doubled')
             /\ raced' = raced
             /\ \A t \in Slots \ {s} : Alike(calls[t], calls'[t])
             /\ calls'[s].pc \in Works => calls[s].pc \in Works
             /\ RulesStep
  BY <1>2, Zenon DEF Plain, Advances, RulesStep, filter, hist
<1>3. CASE CacheStat(s) \/ BuildExt4(s) \/ Ext4Written(s) \/ (CacheRename(s) /\ img.tmp # "none")
  <2>1. Plain(s)
    BY <1>3, BuildPlain, Zenon
  <2>2. UNCHANGED <<filter, doubled>>
    BY <1>3, Zenon DEF CacheStat, BuildExt4, Ext4Written, CacheRename, hist
  <2>3. calls[s].pc \in BuildPCs /\ calls'[s].pc \in {"open", "read", "write", "rename"}
    <3>1. CASE CacheStat(s)
      BY <3>1, GotoSet, Zenon DEF CacheStat, PCs, BuildPCs
    <3>2. CASE BuildExt4(s)
      BY <3>2, BuildExt4Calls, Zenon DEF BuildExt4, BuildPCs
    <3>3. CASE Ext4Written(s)
      BY <3>3, GotoSet, Zenon DEF Ext4Written, PCs, BuildPCs
    <3>4. CASE CacheRename(s) /\ img.tmp # "none"
      BY <3>4, CacheRenameCalls, Zenon DEF CacheRename, BuildPCs
    <3> QED
      BY <1>3, <3>1, <3>2, <3>3, <3>4, Zenon
  <2> QED
    BY <2>1, <2>2, <2>3, Zenon DEF Plain, Advances, RulesStep, filter
<1>4. CASE BridgeAdd(s) \/ BridgeAddress(s) \/ BridgeUp(s) \/ TapLook(s) \/ TapAdd(s) \/ TapAttach(s)
  BY <1>2, <1>4, LinksPlain, Zenon
<1>5. CASE CommandFails(s) \/ BootFails(s)
  BY <1>2, <1>5, FailPlain, Zenon
<1>6. CASE \/ TeardownVM(s) \/ NATFind(s) \/ NATDelete(s) \/ ChainLook(s)
           \/ JumpFind(s) \/ JumpDelete(s) \/ ChainFlush(s) \/ ChainDelete(s)
  <2>1. rules' \subseteq rules
    BY <1>6, StopRules, Zenon DEF Stop
  <2> QED
    BY <1>6, <2>1, StopPlain, Zenon DEF Plain, Advances, RulesStep, hist
<1>7. CASE Special(s)
  <2>1. calls'[s] = Idle => calls'[s].pc \notin Works \cup {"list", "sync"}
    BY DEF Idle, Works, SetupPCs, StopPCs
  <2>2. ReadNetwork(s) => calls[s].pc = "read" /\ raced' = (raced \/ Busy(s))
    BY Zenon DEF ReadNetwork
  <2>3. UNCHANGED <<chain, rules>>
    BY <1>7, SpecialCalls, Zenon DEF filter
  <2>4. calls'[s].pc \in Works => calls[s].pc \in Works \/ ReadNetwork(s)
    BY <1>7, <2>1, SpecialCalls, Zenon DEF Works
  <2>5. calls'[s].pc \notin {"list", "sync"}
    BY <1>7, <2>1, SpecialCalls, Zenon
  <2> QED
    BY <1>7, <2>2, <2>3, <2>4, <2>5, SpecialCalls, Zenon DEF RulesStep
<1> QED
  BY <1>1, <1>3, <1>4, <1>5, <1>6, <1>7, Zenon DEF CallStep, Build, Links, Finish, Stop, Special

LEMMA PrintedKept ==
  ASSUME TypeOK, DropsPrinted, UNCHANGED backend, RulesStep
  PROVE  DropsPrinted'
<1>1. CASE rules' \subseteq rules
  BY <1>1, Zenon DEF DropsPrinted, Drops
<1>2. ASSUME NEW q, rules' = rules \cup {q}, q.what \in {"nat", "jump"} \cup PrintedAs(Texts)
      PROVE  DropsPrinted'
  BY <1>2, NoDrop, Zenon DEF DropsPrinted, Drops, PrintedAs
<1> QED
  BY <1>1, <1>2, Zenon DEF RulesStep

(* Two calls do not come to work on the network at once unnoticed.         *)
LEMMA CallOneWorks ==
  ASSUME TypeOK, FilterInv, NEW s \in Slots, calls[s] # Idle, CallStep(s), ~raced'
  PROVE  ~raced /\ OneWorks'
<1>1. raced \in BOOLEAN /\ \A t \in Slots : calls[t] \in Call \cup {Idle}
  BY Zenon DEF TypeOK
<1>2. ~raced
  <2>1. CASE raced' = raced
    BY <2>1, Zenon
  <2>2. CASE raced' = (raced \/ Busy(s))
    BY <2>2, Zenon
  <2> QED
    BY <2>1, <2>2, CallEffect, Zenon
<1>3. \A t \in Slots \ {s} : calls'[t].pc = calls[t].pc
  <2>1. \A t \in Slots \ {s} : Alike(calls[t], calls'[t])
    BY CallEffect, Zenon
  <2> QED
    BY <2>1, Zenon DEF Alike
<1>4. OneWorks
  BY <1>2, Zenon DEF FilterInv
<1>5. CASE calls'[s].pc \in Works => calls[s].pc \in Works
  BY <1>2, <1>3, <1>4, <1>5, Zenon DEF OneWorks
<1>6. CASE ReadNetwork(s)
  <2>1. ~Busy(s)
    BY <1>6, Zenon DEF ReadNetwork
  <2>2. \A t \in Slots \ {s} : calls[t].pc \notin Works
    BY <2>1, Zenon DEF Busy, Works
  <2> QED
    BY <1>2, <1>3, <2>2, Zenon DEF OneWorks
<1> QED
  BY <1>2, <1>5, <1>6, CallEffect, Zenon

LEMMA CallFilterInv ==
  ASSUME TypeOK, FilterInv, NEW s \in Slots, calls[s] # Idle, CallStep(s)
  PROVE  FilterInv'
<1>1. UNCHANGED <<backend, denyCIDRs>> /\ (doubled => doubled')
  BY CallEffect, Zenon DEF env
<1>2. DropsPrinted'
  BY <1>1, CallEffect, PrintedKept, Zenon DEF FilterInv
<1>3. ASSUME ~raced' PROVE OneWorks' /\ \A t \in Slots : Chained(calls[t])'
  <2>1. ~raced /\ OneWorks' /\ OneWorks /\ \A t \in Slots : Chained(calls[t])
    BY <1>3, CallOneWorks, Zenon DEF FilterInv
  <2>2. ASSUME NEW t \in Slots \ {s} PROVE Chained(calls[t])'
    <3>1. Alike(calls[t], calls'[t])
      BY CallEffect, Zenon
    <3>2. CASE UNCHANGED filter
      BY <1>1, <2>1, <3>1, <3>2, ChainedFrame, Zenon DEF filter
    <3>3. CASE calls[s].pc \in Works
      <4>1. calls[t].pc \notin Works
        BY <2>1, <3>3, Zenon DEF OneWorks
      <4>2. calls'[t].pc \notin Works
        BY <3>1, <4>1, Zenon DEF Alike
      <4> QED
        BY <4>2, Zenon DEF Chained, Works, SetupPCs
    <3> QED
      BY <3>2, <3>3, CallEffect, Zenon
  <2>3. Chained(calls[s])'
    <3>1. CASE Filter(s)
      BY <2>1, <3>1, FilterChained, Zenon DEF FilterInv
    <3>2. CASE calls'[s].pc \notin {"list", "sync"}
      BY <3>2, Zenon DEF Chained
    <3> QED
      BY <3>1, <3>2, CallEffect, Zenon
  <2> QED
    BY <2>1, <2>2, <2>3, Zenon
<1> QED
  BY <1>2, <1>3, Zenon DEF FilterInv

LEMMA FilterStep == TypeOK /\ FilterInv /\ [Next]_vars => FilterInv'
<1> SUFFICES ASSUME TypeOK, FilterInv, [Next]_vars PROVE FilterInv'
  BY Zenon
<1>1. Slots = {"agent", "orphan"} /\ Alike(Idle, Idle) /\ Idle.pc \notin Works \cup {"list", "sync"}
  BY Zenon DEF Slots, Alike, Idle, Works, SetupPCs, StopPCs
<1>2. ASSUME UNCHANGED <<backend, chain, rules>>, (doubled => doubled'), (raced => raced'),
             \A s \in Slots : \/ calls'[s] = calls[s]
                              \/ calls'[s].pc \notin Works \cup {"list", "sync"}
      PROVE  FilterInv'
  <2>1. DropsPrinted'
    BY <1>2, Zenon DEF FilterInv, DropsPrinted, Drops
  <2>2. ASSUME ~raced' PROVE OneWorks' /\ \A s \in Slots : Chained(calls[s])'
    <3>1. ~raced /\ OneWorks /\ \A s \in Slots : Chained(calls[s])
      BY <1>2, <2>2, Zenon DEF FilterInv
    <3>2. OneWorks'
      BY <1>2, <3>1, Zenon DEF OneWorks
    <3>3. ASSUME NEW s \in Slots PROVE Chained(calls[s])'
      <4>1. CASE calls'[s] = calls[s]
        BY <1>2, <3>1, <4>1, ChainedFrame, SameIsAlike, Zenon
      <4>2. CASE calls'[s].pc \notin {"list", "sync"}
        BY <4>2, Zenon DEF Chained
      <4> QED
        BY <1>2, <4>1, <4>2, Zenon
    <3> QED
      BY <3>2, <3>3, Zenon
  <2> QED
    BY <2>1, <2>2, Zenon DEF FilterInv
<1>3. CASE UNCHANGED vars
  BY <1>2, <1>3, Zenon DEF vars, env, filter, hist
<1>4. ASSUME NEW s \in Slots, calls[s] # Idle, CallStep(s) PROVE FilterInv'
  BY <1>4, CallFilterInv, Zenon
<1>5. ASSUME NEW v \in VMs, BeginStart(v) PROVE FilterInv'
  <2>1. calls'["agent"].pc = "stat" /\ calls'["orphan"] = calls["orphan"]
    BY <1>1, <1>5, Zenon DEF BeginStart, NewCall, TypeOK
  <2>2. UNCHANGED <<backend, chain, rules, doubled, raced>>
    BY <1>5, Zenon DEF BeginStart, env, filter
  <2>3. "stat" \notin Works \cup {"list", "sync"}
    BY Zenon DEF Works, SetupPCs, StopPCs
  <2> QED
    BY <1>1, <1>2, <2>1, <2>2, <2>3, Zenon
<1>6. ASSUME NEW v \in VMs, BeginStop(v) PROVE FilterInv'
  <2>1. calls'["agent"].pc \in {"stop", "drop"} /\ calls'["orphan"] = calls["orphan"]
    BY <1>1, <1>6, Zenon DEF BeginStop, NewCall, TypeOK
  <2>2. UNCHANGED <<backend, chain, rules, doubled>> /\ raced' = (raced \/ Busy("agent"))
    BY <1>6, Zenon DEF BeginStop, env, filter
  <2>3. DropsPrinted'
    BY <2>2, Zenon DEF FilterInv, DropsPrinted, Drops
  <2>4. ASSUME ~raced' PROVE OneWorks' /\ \A s \in Slots : Chained(calls[s])'
    <3>1. ~raced /\ ~Busy("agent")
      BY <2>2, <2>4, Zenon
    <3>2. calls["orphan"].pc \notin Works /\ Chained(calls["orphan"])
      BY <1>1, <3>1, Zenon DEF Busy, Works, FilterInv
    <3>3. OneWorks'
      BY <1>1, <2>1, <3>2, Zenon DEF OneWorks
    <3>4. Chained(calls["orphan"])'
      BY <1>1, <2>1, <2>2, <3>2, ChainedFrame, SameIsAlike, Zenon
    <3>5. Chained(calls["agent"])'
      BY <2>1, Zenon DEF Chained
    <3> QED
      BY <1>1, <3>3, <3>4, <3>5, Zenon
  <2> QED
    BY <2>3, <2>4, Zenon DEF FilterInv
<1>7. ASSUME NEW v \in VMs, Inspect(v) \/ StartTimeout(v) \/ ProcessExit(v) PROVE FilterInv'
  <2>1. UNCHANGED <<backend, chain, rules, doubled, raced, calls>>
    BY <1>7, Zenon DEF Inspect, StartTimeout, ProcessExit, env, filter, hist
  <2> QED
    BY <1>2, <2>1, Zenon
<1>8. CASE ChangePolicy
  <2>1. UNCHANGED <<backend, chain, rules, doubled, raced, calls>>
    BY <1>8, Zenon DEF ChangePolicy, filter, hist
  <2> QED
    BY <1>2, <2>1, Zenon
<1>9. CASE AgentCrash
  <2>1. /\ UNCHANGED <<backend, chain, rules, doubled, raced>>
        /\ calls'["agent"] = Idle /\ calls'["orphan"] = calls["agent"]
    BY <1>9, Zenon DEF AgentCrash, env, filter, hist
  <2>2. DropsPrinted'
    BY <2>1, Zenon DEF FilterInv, DropsPrinted, Drops
  <2>3. ASSUME ~raced' PROVE OneWorks' /\ \A s \in Slots : Chained(calls[s])'
    <3>1. Chained(calls["agent"])
      BY <1>1, <2>1, <2>3, Zenon DEF FilterInv
    <3>2. OneWorks'
      BY <1>1, <2>1, Zenon DEF OneWorks
    <3>3. Chained(calls["agent"])'
      BY <1>1, <2>1, Zenon DEF Chained
    <3>4. Drops' = Drops /\ Of("jump")' = Of("jump")
          /\ PrintedAs(calls["orphan"].deny)' = PrintedAs(calls["agent"].deny)
      BY <2>1, Zenon DEF Drops, Of, PrintedAs
    <3>5. Chained(calls["orphan"])'
      BY <2>1, <3>1, <3>4, Zenon DEF Chained, Syncing
    <3> QED
      BY <1>1, <3>2, <3>3, <3>5, Zenon
  <2> QED
    BY <2>2, <2>3, Zenon DEF FilterInv
<1>10. CASE RuntimeRestart
  <2>1. UNCHANGED <<backend, chain, rules, doubled, raced>> /\ \A s \in Slots : calls'[s] = Idle
    BY <1>10, Zenon DEF RuntimeRestart, env, filter, hist
  <2> QED
    BY <1>1, <1>2, <2>1, Zenon
<1> QED
  BY <1>3, <1>4, <1>5, <1>6, <1>7, <1>8, <1>9, <1>10, Zenon DEF Next, CallStep

LEMMA FilterInvariant == Spec => []FilterInv
<1>1. Init => FilterInv
  <2> SUFFICES ASSUME Init PROVE FilterInv
    BY Zenon
  <2>1. Drops = {} /\ \A s \in Slots : calls[s].pc = "idle"
    BY Zenon DEF Init, Drops, Idle
  <2> QED
    BY <2>1, Zenon DEF FilterInv, DropsPrinted, OneWorks, Chained, Works, SetupPCs, StopPCs
<1> QED
  BY <1>1, Typing, FilterStep, PTL DEF Spec

(* A call that has synchronised the chain leaves it at "sync" only for     *)
(* the machine's start once nothing is to be added or deleted.             *)
LEMMA SyncEnds ==
  ASSUME TypeOK, [Next]_vars, NEW s \in Slots, calls[s].pc = "sync", calls'[s] # Idle, calls'[s].pc = "boot"
  PROVE  calls[s].add = {} /\ calls[s].del = {}
<1>1. calls[s] # Idle
  BY DEF Idle
<1>2. CASE CallStep(s)
  <2>1. CASE DropsSync(s)
    <3>1. CASE calls'[s].pc = "sync"
      BY <3>1, Zenon
    <3>2. CASE Goto(s, "undo")
      BY <1>1, <3>2, GotoSet DEF PCs, SetupPCs
    <3>3. ASSUME NEW t \in calls[s].add, calls' = [calls EXCEPT ![s].add = @ \ {t}] PROVE FALSE
      <4>1. calls'[s].pc = calls[s].pc
        BY <1>1, <3>3, CallFields DEF TypeOK, Call
      <4> QED
        BY <4>1, Zenon
    <3>4. ASSUME NEW t \in calls[s].del, calls' = [calls EXCEPT ![s].del = @ \ {t}] PROVE FALSE
      <4>1. calls'[s].pc = calls[s].pc
        BY <1>1, <3>4, CallFields DEF TypeOK, Call
      <4> QED
        BY <4>1, Zenon
    <3> QED
      BY <2>1, <3>2, <3>3, <3>4, Zenon DEF DropsSync
  <2>2. CASE CommandFails(s)
    <3>1. Goto(s, "undo")
      BY <2>2, Zenon DEF CommandFails, OnError
    <3> QED
      BY <1>1, <3>1, GotoSet DEF PCs, SetupPCs
  <2>3. CASE Build(s) \/ Links(s) \/ (Filter(s) /\ ~DropsSync(s))
    BY <2>3, Zenon
    DEF Build, CacheStat, BuildExt4, Ext4Written, CacheRename, BuildFails, Links, ReadNetwork, BridgeAdd,
        BridgeAddress, BridgeUp, TapLook, TapAdd, TapAttach, Filter, NATLook, NATAdd, ChainEnsure, ChainNew,
        JumpLook, JumpAdd, DropsList
  <2>4. CASE Finish(s) \/ Stop(s)
    BY <2>4, Zenon
    DEF Finish, Boot, BootFails, UndoReserve, UndoTap, Stop, StopMachine, TeardownVM, StopRelease, NATFind,
        NATDelete, ChainLook, JumpFind, JumpDelete, ChainFlush, ChainDelete, StopDrop
  <2> QED
    BY <1>2, <2>1, <2>2, <2>3, <2>4, Zenon DEF CallStep
<1>3. ASSUME NEW t \in Slots, t # s, calls[t] # Idle, CallStep(t) PROVE FALSE
  <2>1. Alike(calls[s], calls'[s])
    BY <1>3, CallEffect, Zenon
  <2> QED
    BY <1>1, <2>1, Zenon DEF Alike
<1>4. ASSUME calls'[s] = calls[s] PROVE FALSE
  BY <1>4, Zenon
<1>5. ASSUME NEW v \in VMs, BeginStart(v) \/ BeginStop(v) PROVE FALSE
  <2>1. calls["agent"] = Idle /\ calls'["orphan"] = calls["orphan"]
    BY <1>5, Zenon DEF BeginStart, BeginStop, TypeOK, Slots
  <2> QED
    BY <1>1, <1>4, <2>1, Zenon DEF Slots
<1>6. ASSUME \/ UNCHANGED vars \/ ChangePolicy
             \/ \E v \in VMs : Inspect(v) \/ StartTimeout(v) \/ ProcessExit(v) PROVE FALSE
  BY <1>4, <1>6, Zenon DEF vars, ChangePolicy, Inspect, StartTimeout, ProcessExit
<1>7. ASSUME AgentCrash \/ RuntimeRestart PROVE FALSE
  <2>1. CASE AgentCrash
    BY <1>1, <2>1 DEF AgentCrash, Slots
  <2>2. CASE RuntimeRestart
    BY <2>2, Zenon DEF RuntimeRestart
  <2> QED
    BY <1>7, <2>1, <2>2, Zenon
<1> QED
  BY <1>2, <1>3, <1>5, <1>6, <1>7, Zenon DEF Next, CallStep

(* The rules are what the list says (NetManager): when a call has finished *)
(* synchronising, what is dropped is exactly what its list denies, however *)
(* the backend prints it and whatever earlier calls left behind, if no     *)
(* other call interfered and none found a rule twice.                      *)
THEOREM PolicyInstalled == Spec => EgressReconciled
<1> DEFINE Exact == \A s \in Slots :
                      /\ calls[s].pc = "sync" /\ calls'[s] # Idle /\ calls'[s].pc = "boot"
                      /\ ~raced /\ ~doubled
                      => Dropped = PrintedAs(calls[s].deny)
<1>1. TypeOK /\ FilterInv /\ [Next]_vars => [Exact]_vars
  <2> SUFFICES ASSUME TypeOK, FilterInv, [Next]_vars, NEW s \in Slots, calls[s].pc = "sync",
                      calls'[s] # Idle, calls'[s].pc = "boot", ~raced, ~doubled
               PROVE  Dropped = PrintedAs(calls[s].deny)
    BY Zenon
  <2>1. calls[s].add = {} /\ calls[s].del = {}
    BY SyncEnds, Zenon
  <2>2. Syncing(calls[s]) /\ Of("jump") # {}
    BY Zenon DEF FilterInv, Chained
  <2>3. Dropped = {r.what : r \in Drops}
    BY <2>2, Zenon DEF Dropped, Syncing
  <2>4. \A t \in calls[s].deny : \E q \in Drops : q.what = Printed[backend][t]
    BY <2>1, <2>2, Zenon DEF Syncing
  <2>5. \A q \in Drops : q.what \in PrintedAs(calls[s].deny)
    BY <2>1, <2>2, Zenon DEF Syncing
  <2> QED
    BY <2>3, <2>4, <2>5 DEF PrintedAs
<1> QED
  BY <1>1, Typing, FilterInvariant, PTL DEF Spec, EgressReconciled

-----------------------------------------------------------------------------
(* What is denied stays dropped.                                           *)

Calm == ~raced /\ ~leftover /\ overlapped = {}

(* The allocator counts the addresses that are out: they can be numbered   *)
(* from 1 to the count, each once.                                         *)
Numbered(a) ==
  \E f \in [1 .. a.count -> a.allocated] :
    /\ \A x \in a.allocated : \E i \in 1 .. a.count : f[i] = x
    /\ \A i, j \in 1 .. a.count : f[i] = f[j] => i = j

Counted == Numbered(alloc)

(* A call that has reserved its address and not released it holds it, and  *)
(* so does an entry, until the Stop that gives the address back drops it.  *)
CallsHold == \A s \in Slots : calls[s].pc \in Holds => calls[s].vm \in alloc.allocated
EntriesHold ==
  \A v \in VMs :
    procs[v] # NoProc /\ procs[v].net =>
      v \in alloc.allocated \/ \E s \in Slots : calls[s].pc \in StopPCs \ Holds /\ calls[s].vm = v

(* No two calls are about one VM; what is being started has no entry and   *)
(* is not seen as running; what is past stopping its machine has none.     *)
Apart ==
  \A s, t \in Slots : calls[s] # Idle /\ calls[t] # Idle /\ calls[s].vm = calls[t].vm => s = t
StartsFresh ==
  \A s \in Slots : calls[s].pc \in Starts => procs[calls[s].vm] = NoProc /\ phase[calls[s].vm] # "up"
MachineGone ==
  \A s \in Slots : calls[s].pc \in StopPCs \ {"stop", "drop"} => calls[s].vm \notin live

BookInv == Counted /\ CallsHold /\ EntriesHold /\ Apart /\ StartsFresh /\ MachineGone

(* The VMs for which the rules are needed, from the end of setupNetwork.   *)
Enforced == Owned \cup {v \in VMs : \E s \in Slots : calls[s].pc = "boot" /\ calls[s].vm = v}

(* The rules are removed when nobody needs them; a call that sets them up  *)
(* has a list that covers what is owed to every VM; and that is dropped.   *)
RemovesLast == \A s \in Slots : calls[s].pc \in Removes => Enforced = {}
ListCovers ==
  \A s \in Slots : calls[s].pc \in SetupPCs \cap Works =>
                     \A v \in VMs : kept[v] \subseteq PrintedAs(calls[s].deny)
Enforces == \A v \in Enforced : kept[v] \subseteq Dropped

EgressInv == Calm => BookInv /\ RemovesLast /\ ListCovers /\ Enforces

(* What is owed to a VM is on the present list.                            *)
KeptListed == \A v \in VMs : kept[v] \subseteq PrintedAs(denyCIDRs)

LEMMA PCSets ==
  /\ Holds \subseteq PCs /\ Starts \subseteq PCs /\ StopPCs \subseteq PCs /\ SetupPCs \subseteq PCs
  /\ Removes \subseteq StopPCs \ Holds /\ Removes \subseteq StopPCs \ {"stop", "drop"}
  /\ Removes \subseteq Works /\ SetupPCs \cap Works \subseteq Starts
  /\ Idle.pc \notin PCs /\ "boot" \in PCs /\ "boot" \notin Works /\ "boot" \in Holds
BY DEF Holds, Starts, PCs, Removes, Works, BuildPCs, SetupPCs, StopPCs, Idle

(* Another call's step leaves a call where it is.                          *)
LEMMA AlikeFields ==
  ASSUME TypeOK, NEW t \in Slots, Alike(calls[t], calls'[t])
  PROVE  /\ calls'[t].pc = calls[t].pc
         /\ calls[t].pc \in PCs => calls[t] # Idle /\ calls'[t].vm = calls[t].vm /\ calls'[t].deny = calls[t].deny
         /\ calls'[t] # Idle => calls[t] # Idle /\ calls'[t].vm = calls[t].vm
BY IdleIsNoCall, Zenon DEF Alike

LEMMA PlainBook ==
  ASSUME TypeOK, NEW s \in Slots, calls[s] # Idle, Plain(s), BookInv
  PROVE  BookInv'
<1>1. UNCHANGED <<alloc, procs, live, phase, kept>>
  BY Zenon DEF Plain, book, status
<1>2. \A t \in Slots \ {s} :
        /\ calls'[t].pc = calls[t].pc
        /\ calls[t].pc \in PCs => calls[t] # Idle /\ calls'[t].vm = calls[t].vm
        /\ calls'[t] # Idle => calls[t] # Idle /\ calls'[t].vm = calls[t].vm
  BY AlikeFields, Zenon DEF Plain
<1>3. calls'[s].vm = calls[s].vm /\ Advances(calls[s].pc, calls'[s].pc)
  BY Zenon DEF Plain
<1>4. Counted'
  BY <1>1, Zenon DEF BookInv, Counted
<1>5. CallsHold'
  BY <1>1, <1>2, <1>3, PCSets, Zenon DEF BookInv, CallsHold, Advances
<1>6. EntriesHold'
  <2> SUFFICES ASSUME NEW v \in VMs, procs[v] # NoProc, procs[v].net, v \notin alloc.allocated
               PROVE  \E t \in Slots : calls'[t].pc \in StopPCs \ Holds /\ calls'[t].vm = v
    BY <1>1, Zenon DEF EntriesHold
  <2>1. PICK t \in Slots : calls[t].pc \in StopPCs \ Holds /\ calls[t].vm = v
    BY Zenon DEF BookInv, EntriesHold
  <2>2. calls'[t].pc \in StopPCs \ Holds /\ calls'[t].vm = v
    BY <1>2, <1>3, <2>1, PCSets, Zenon DEF Advances
  <2> QED
    BY <2>2, Zenon
<1>7. Apart'
  BY <1>2, <1>3 DEF BookInv, Apart
<1>8. StartsFresh'
  BY <1>1, <1>2, <1>3, PCSets DEF BookInv, StartsFresh, Advances
<1>9. MachineGone'
  BY <1>1, <1>2, <1>3, PCSets, Zenon DEF BookInv, MachineGone, Advances
<1> QED
  BY <1>4, <1>5, <1>6, <1>7, <1>8, <1>9, Zenon DEF BookInv

(* The end of a call, with the address kept.                               *)
LEMMA EndBook ==
  ASSUME TypeOK, NEW s \in Slots, calls[s] # Idle, BookInv, calls'[s] = Idle, UNCHANGED <<alloc, live>>,
         \A t \in Slots \ {s} : Alike(calls[t], calls'[t]),
         \A v \in VMs : v # calls[s].vm => procs'[v] = procs[v] /\ phase'[v] = phase[v],
         procs'[calls[s].vm] # NoProc /\ procs'[calls[s].vm].net => calls[s].vm \in alloc.allocated
  PROVE  BookInv'
<1>1. \A t \in Slots \ {s} :
        /\ calls'[t].pc = calls[t].pc
        /\ calls[t].pc \in PCs => calls[t] # Idle /\ calls'[t].vm = calls[t].vm
        /\ calls'[t] # Idle => calls[t] # Idle /\ calls'[t].vm = calls[t].vm
  BY AlikeFields, Zenon
<1>2. calls'[s].pc \notin PCs
  BY PCSets, Zenon
<1>3. \A t \in Slots \ {s} : calls[t] # Idle => calls[t].vm # calls[s].vm /\ calls[t].vm \in VMs
  BY CallFields, Zenon DEF BookInv, Apart
<1>4. Counted'
  BY Zenon DEF BookInv, Counted
<1>5. CallsHold'
  BY <1>1, <1>2, PCSets, Zenon DEF BookInv, CallsHold
<1>6. EntriesHold'
  <2> SUFFICES ASSUME NEW v \in VMs, procs'[v] # NoProc, procs'[v].net, v \notin alloc.allocated
               PROVE  \E t \in Slots : calls'[t].pc \in StopPCs \ Holds /\ calls'[t].vm = v
    BY Zenon DEF EntriesHold
  <2>1. v # calls[s].vm /\ procs'[v] = procs[v]
    BY Zenon
  <2>2. PICK t \in Slots : calls[t].pc \in StopPCs \ Holds /\ calls[t].vm = v
    BY <2>1, Zenon DEF BookInv, EntriesHold
  <2>3. calls'[t].pc \in StopPCs \ Holds /\ calls'[t].vm = v
    BY <1>1, <2>1, <2>2, PCSets, Zenon
  <2> QED
    BY <2>3, Zenon
<1>7. Apart'
  BY <1>1 DEF BookInv, Apart
<1>8. StartsFresh'
  BY <1>1, <1>2, <1>3, PCSets DEF BookInv, StartsFresh
<1>9. MachineGone'
  BY <1>1, <1>2, PCSets, Zenon DEF BookInv, MachineGone
<1> QED
  BY <1>4, <1>5, <1>6, <1>7, <1>8, <1>9, Zenon DEF BookInv

(* What numbers the elements of a set counts them.                         *)
LEMMA Numbering ==
  ASSUME NEW B, NEW m, NEW g \in [1 .. m -> B],
         \A x \in B : \E i \in 1 .. m : g[i] = x,
         \A i, j \in 1 .. m : g[i] = g[j] => i = j
  PROVE  Numbered([allocated |-> B, count |-> m])
<1> DEFINE a == [allocated |-> B, count |-> m]
<1>1. a.allocated = B /\ a.count = m
  BY Zenon
<1> HIDE DEF a
<1>2. Numbered(a)
  BY <1>1, Zenon DEF Numbered
<1> QED
  BY <1>2, Zenon DEF a

(* A new allocator, and reserving and releasing, keep the count right.     *)
LEMMA NoneCounted == Numbered(NewAllocator)
<1>1. 1 .. 0 = {}
  OBVIOUS
<1>2. [i \in {} |-> i] \in [{} -> {}]
  BY Zenon
<1> QED
  BY <1>1, <1>2, Zenon DEF Numbered, NewAllocator

LEMMA CountKept ==
  ASSUME TypeOK, Counted, NEW v \in VMs
  PROVE  /\ Numbered(Reserve(alloc, v))
         /\ v \in alloc.allocated =>
              /\ Numbered(Release(alloc, v))
              /\ WasLast(alloc) => alloc.allocated = {v}
<1> DEFINE n == alloc.count  A == alloc.allocated
<1>1. n \in Nat
  BY Zenon DEF TypeOK
<1>2. PICK f \in [1 .. n -> A] : /\ \A x \in A : \E i \in 1 .. n : f[i] = x
                               /\ \A i, j \in 1 .. n : f[i] = f[j] => i = j
  BY Zenon DEF Counted, Numbered
<1> HIDE DEF n, A
<1>3. CASE v \in A
  <2>1. PICK k \in 1 .. n : f[k] = v
    BY <1>2, <1>3, Zenon
  <2>2. Reserve(alloc, v) = alloc
    BY <1>3, Zenon DEF Reserve, A
  <2>3. n - 1 \in Nat /\ Release(alloc, v) = [allocated |-> A \ {v}, count |-> n - 1]
    <3>1. n - 1 \in Nat /\ (n <= 1 => n - 1 = 0)
      BY <1>1, <2>1
    <3> QED
      BY <3>1, Zenon DEF Release, A, n
  <2>4. Numbered([allocated |-> A \ {v}, count |-> n - 1])
    <3> DEFINE g == [i \in 1 .. n - 1 |-> IF i = k THEN f[n] ELSE f[i]]
    <3>1. ASSUME NEW i \in 1 .. n - 1 PROVE i \in 1 .. n /\ i # n /\ n \in 1 .. n
      BY <1>1
    <3>2. g \in [1 .. n - 1 -> A \ {v}]
      BY <1>2, <2>1, <3>1, Zenon
    <3>3. ASSUME NEW x \in A \ {v} PROVE \E i \in 1 .. n - 1 : g[i] = x
      <4>1. PICK j \in 1 .. n : f[j] = x
        BY <1>2, <3>3, Zenon
      <4>2. j # k
        BY <2>1, <3>3, <4>1, Zenon
      <4>3. j = n => k \in 1 .. n - 1
        BY <1>1, <4>2
      <4>4. j # n => j \in 1 .. n - 1
        BY <1>1
      <4> QED
        BY <4>1, <4>2, <4>3, <4>4, Zenon
    <3>4. ASSUME NEW i \in 1 .. n - 1, NEW j \in 1 .. n - 1, g[i] = g[j] PROVE i = j
      BY <1>2, <2>1, <3>1, <3>4, Zenon
    <3> HIDE DEF g
    <3> QED
      BY <3>2, <3>3, <3>4, Numbering, Zenon
  <2>5. WasLast(alloc) => A = {v}
    <3>1. WasLast(alloc) => 1 .. n = {k}
      BY <1>1, <2>1 DEF WasLast, n
    <3> QED
      BY <1>2, <1>3, <2>1, <3>1
  <2> QED
    BY <2>2, <2>3, <2>4, <2>5, Zenon DEF Counted, A
<1>4. CASE v \notin A
  <2> DEFINE g == [i \in 1 .. n + 1 |-> IF i = n + 1 THEN v ELSE f[i]]
  <2>1. ASSUME NEW i \in 1 .. n + 1, i # n + 1 PROVE i \in 1 .. n
    BY <1>1, <2>1
  <2>2. n + 1 \in 1 .. n + 1 /\ \A i \in 1 .. n : i \in 1 .. n + 1 /\ i # n + 1
    BY <1>1
  <2>3. g \in [1 .. n + 1 -> A \cup {v}]
    BY <1>2, <2>1, Zenon
  <2>4. \A x \in A \cup {v} : \E i \in 1 .. n + 1 : g[i] = x
    BY <1>2, <2>2, Zenon
  <2>5. ASSUME NEW i \in 1 .. n + 1, NEW j \in 1 .. n + 1, g[i] = g[j] PROVE i = j
    BY <1>2, <1>4, <2>1, <2>5
  <2> HIDE DEF g
  <2>6. Numbered([allocated |-> A \cup {v}, count |-> n + 1])
    BY <2>3, <2>4, <2>5, Numbering, Zenon
  <2> QED
    BY <1>4, <2>6, Zenon DEF Reserve, A, n
<1> QED
  BY <1>3, <1>4, Zenon DEF A

LEMMA SpecialBook ==
  ASSUME TypeOK, NEW s \in Slots, calls[s] # Idle, Special(s), BookInv, overlapped = {}
  PROVE  BookInv'
<1> DEFINE v == calls[s].vm
<1>1. v \in VMs /\ calls[s] \in Call /\ calls[s].pc \in PCs
  BY CallFields, Zenon
<1>2. \A t \in Slots \ {s} : Alike(calls[t], calls'[t])
  BY SpecialCalls, Zenon
<1>3. \A t \in Slots \ {s} :
        /\ calls'[t].pc = calls[t].pc
        /\ calls[t].pc \in PCs => calls[t] # Idle /\ calls'[t].vm = calls[t].vm
        /\ calls'[t] # Idle => calls[t] # Idle /\ calls'[t].vm = calls[t].vm
  BY <1>2, AlikeFields, Zenon
<1>4. \A t \in Slots \ {s} : calls[t] # Idle => calls[t].vm # v /\ calls[t].vm \in VMs
  BY CallFields, Zenon DEF BookInv, Apart
<1>5. CASE (CacheRename(s) /\ img.tmp = "none") \/ UndoTap(s)
  <2>1. Return(s, "down") /\ UNCHANGED <<alloc, procs, live>>
    BY <1>5, Zenon DEF CacheRename, UndoTap, book
  <2>2. calls'[s] = Idle /\ \A w \in VMs : w # v => phase'[w] = phase[w]
    BY <2>1, ReturnSet, Zenon
  <2>3. calls[s].pc \in Starts
    BY <1>5, Zenon DEF CacheRename, UndoTap, Starts, BuildPCs, SetupPCs
  <2>4. procs[v] = NoProc
    BY <2>3, Zenon DEF BookInv, StartsFresh
  <2> QED
    BY <1>2, <2>1, <2>2, <2>4, EndBook, Zenon
<1>6. CASE BuildFails(s)
  <2>1. calls'[s] = Idle /\ UNCHANGED <<alloc, procs, live>>
    BY <1>6, BuildFailsCalls, Zenon DEF BuildFails, book
  <2>2. \A w \in VMs : w # v => phase'[w] = phase[w]
    BY <1>6, Zenon DEF BuildFails, TypeOK
  <2>3. calls[s].pc \in Starts
    BY <1>6, Zenon DEF BuildFails, Starts, BuildPCs
  <2>4. procs[v] = NoProc
    BY <2>3, Zenon DEF BookInv, StartsFresh
  <2> QED
    BY <1>2, <2>1, <2>2, <2>4, EndBook, Zenon
<1>7. CASE ReadNetwork(s)
  <2>1. /\ alloc' = Reserve(alloc, v) /\ UNCHANGED <<procs, live, phase>>
        /\ calls[s].pc = "read" /\ calls'[s].pc \in {"brnew", "braddr"} /\ calls'[s].vm = v
    BY <1>7, ReadCalls, Zenon DEF ReadNetwork
  <2>2. v \in alloc'.allocated /\ alloc.allocated \subseteq alloc'.allocated
    BY <2>1, Zenon DEF Reserve
  <2>3. Counted'
    BY <1>1, <2>1, CountKept, Zenon DEF BookInv, Counted
  <2>4. CallsHold'
    BY <1>3, <2>1, <2>2, PCSets, Zenon DEF BookInv, CallsHold
  <2>5. EntriesHold'
    <3> SUFFICES ASSUME NEW w \in VMs, procs[w] # NoProc, procs[w].net, w \notin alloc'.allocated
                 PROVE  \E t \in Slots : calls'[t].pc \in StopPCs \ Holds /\ calls'[t].vm = w
      BY <2>1, Zenon DEF EntriesHold
    <3>1. PICK t \in Slots : calls[t].pc \in StopPCs \ Holds /\ calls[t].vm = w
      BY <2>2, Zenon DEF BookInv, EntriesHold
    <3>2. t # s
      BY <2>1, <3>1, Zenon DEF StopPCs
    <3>3. calls'[t].pc \in StopPCs \ Holds /\ calls'[t].vm = w
      BY <1>3, <3>1, <3>2, PCSets, Zenon
    <3> QED
      BY <3>3, Zenon
  <2>6. Apart'
    BY <1>3, <2>1 DEF BookInv, Apart
  <2>7. StartsFresh'
    <3>1. "read" \in Starts
      BY Zenon DEF Starts, BuildPCs
    <3> QED
      BY <1>3, <2>1, <3>1, PCSets DEF BookInv, StartsFresh
  <2>8. MachineGone'
    <3>1. calls'[s].pc \notin StopPCs
      BY <2>1, Zenon DEF StopPCs
    <3> QED
      BY <1>3, <2>1, <3>1, PCSets, Zenon DEF BookInv, MachineGone
  <2> QED
    BY <2>3, <2>4, <2>5, <2>6, <2>7, <2>8, Zenon DEF BookInv
<1>8. CASE Boot(s)
  <2>1. /\ Return(s, "up") /\ alloc' = alloc /\ calls[s].pc = "boot" /\ live' = live \cup {v}
        /\ procs' = [procs EXCEPT ![v] = [net |-> TRUE, deny |-> calls[s].deny]]
    BY <1>8, Zenon DEF Boot
  <2>2. calls'[s] = Idle /\ \A w \in VMs : w # v => phase'[w] = phase[w] /\ procs'[w] = procs[w]
    BY <2>1, ReturnSet DEF TypeOK
  <2>3. v \in alloc.allocated
    BY <2>1, PCSets, Zenon DEF BookInv, CallsHold
  <2>4. Counted' /\ CallsHold' /\ Apart'
    BY <1>3, <2>1, <2>2, PCSets DEF BookInv, Counted, CallsHold, Apart
  <2>5. EntriesHold'
    <3> SUFFICES ASSUME NEW w \in VMs, procs'[w] # NoProc, procs'[w].net, w \notin alloc.allocated
                 PROVE  \E t \in Slots : calls'[t].pc \in StopPCs \ Holds /\ calls'[t].vm = w
      BY <2>1, Zenon DEF EntriesHold
    <3>1. w # v
      BY <2>3, Zenon
    <3>2. PICK t \in Slots : calls[t].pc \in StopPCs \ Holds /\ calls[t].vm = w
      BY <2>2, <3>1, Zenon DEF BookInv, EntriesHold
    <3>3. calls'[t].pc \in StopPCs \ Holds /\ calls'[t].vm = w
      BY <1>3, <3>1, <3>2, PCSets, Zenon
    <3> QED
      BY <3>3, Zenon
  <2>6. StartsFresh'
    BY <1>3, <1>4, <2>2, PCSets DEF BookInv, StartsFresh
  <2>7. MachineGone'
    BY <1>3, <1>4, <2>1, <2>2, PCSets DEF BookInv, MachineGone
  <2> QED
    BY <2>4, <2>5, <2>6, <2>7, Zenon DEF BookInv
<1>9. ASSUME alloc' = Release(alloc, v), v \in alloc.allocated, UNCHANGED <<procs, live>>,
             procs[v] = NoProc \/ (calls'[s].pc \in StopPCs \ Holds /\ calls'[s].vm = v),
             calls'[s].pc \notin Holds, calls'[s] # Idle => calls'[s].vm = v,
             calls'[s].pc \in Starts => calls[s].pc \in Starts /\ phase' = phase,
             \A w \in VMs : w # v => phase'[w] = phase[w],
             calls'[s].pc \in StopPCs \ {"stop", "drop"} => v \notin live
      PROVE  BookInv'
  <2>1. alloc'.allocated = alloc.allocated \ {v}
    BY <1>9, Zenon DEF Release
  <2>2. Counted'
    BY <1>1, <1>9, CountKept, Zenon DEF BookInv, Counted
  <2>3. CallsHold'
    BY <1>3, <1>4, <1>9, <2>1, PCSets, Zenon DEF BookInv, CallsHold
  <2>4. EntriesHold'
    <3> SUFFICES ASSUME NEW w \in VMs, procs[w] # NoProc, procs[w].net, w \notin alloc'.allocated
                 PROVE  \E t \in Slots : calls'[t].pc \in StopPCs \ Holds /\ calls'[t].vm = w
      BY <1>9, Zenon DEF EntriesHold
    <3>1. CASE w = v
      BY <1>9, <3>1, Zenon
    <3>2. CASE w # v
      <4>1. PICK t \in Slots : calls[t].pc \in StopPCs \ Holds /\ calls[t].vm = w
        BY <2>1, <3>2, Zenon DEF BookInv, EntriesHold
      <4>2. calls'[t].pc \in StopPCs \ Holds /\ calls'[t].vm = w
        BY <1>3, <3>2, <4>1, PCSets, Zenon
      <4> QED
        BY <4>2, Zenon
    <3> QED
      BY <3>1, <3>2, Zenon
  <2>5. Apart'
    BY <1>3, <1>9 DEF BookInv, Apart
  <2>6. StartsFresh'
    BY <1>3, <1>4, <1>9, PCSets DEF BookInv, StartsFresh
  <2>7. MachineGone'
    BY <1>3, <1>9, PCSets DEF BookInv, MachineGone
  <2> QED
    BY <2>2, <2>3, <2>4, <2>5, <2>6, <2>7, Zenon DEF BookInv
<1>10. CASE UndoReserve(s)
  <2>1. alloc' = Release(alloc, v) /\ UNCHANGED <<procs, live>> /\ calls[s].pc \in {"unreserve", "undo"}
    BY <1>10, Zenon DEF UndoReserve
  <2>2. calls[s].pc \in Holds /\ calls[s].pc \in Starts
    BY <2>1, Zenon DEF Holds, Starts, SetupPCs
  <2>3. v \in alloc.allocated /\ procs[v] = NoProc
    BY <2>2, Zenon DEF BookInv, CallsHold, StartsFresh
  <2>4. CASE Return(s, "down")
    BY <1>9, <2>1, <2>3, <2>4, ReturnSet, PCSets, Zenon
  <2>5. CASE Goto(s, "clear") /\ UNCHANGED status
    <3>1. calls'[s].pc = "clear" /\ calls'[s].vm = v
      BY <2>5, GotoSet, Zenon DEF PCs, SetupPCs, SameButPC
    <3>2. "clear" \notin Holds /\ "clear" \notin StopPCs
      BY Zenon DEF Holds, StopPCs
    <3> QED
      BY <1>9, <2>1, <2>2, <2>3, <2>5, <3>1, <3>2, Zenon DEF status
  <2> QED
    BY <1>10, <2>4, <2>5, Zenon DEF UndoReserve
<1>11. CASE StopRelease(s)
  <2>1. alloc' = Release(alloc, v) /\ UNCHANGED <<procs, live, phase>> /\ calls[s].pc = "release"
    BY <1>11, Zenon DEF StopRelease, status
  <2>2. PICK x \in {"unnat", "drop"} : Goto(s, x)
    BY <1>11, Zenon DEF StopRelease
  <2>3. calls'[s].pc = x /\ calls'[s].vm = v
    BY <2>2, GotoSet, Zenon DEF PCs, StopPCs, SameButPC
  <2>4. v \in alloc.allocated /\ v \notin live
    BY <2>1, Zenon DEF BookInv, CallsHold, MachineGone, Holds, StopPCs
  <2>5. x \in StopPCs \ Holds /\ x \notin Starts
    BY Zenon DEF StopPCs, Holds, Starts, SetupPCs, BuildPCs
  <2> QED
    BY <1>9, <2>1, <2>3, <2>4, <2>5, Zenon
<1>12. CASE StopMachine(s)
  <2>1. /\ UNCHANGED <<alloc, procs, phase>> /\ calls[s].pc = "stop" /\ Goto(s, "untap")
        /\ live' = live \ {v}
    BY <1>12, Zenon DEF StopMachine, status
  <2>2. calls'[s].pc = "untap" /\ calls'[s].vm = v
    BY <2>1, GotoSet, Zenon DEF PCs, StopPCs, SameButPC
  <2>3. "stop" \in Holds /\ "untap" \in Holds /\ "untap" \notin Starts
    BY Zenon DEF Holds, Starts, BuildPCs, SetupPCs
  <2>4. Counted' /\ CallsHold' /\ Apart' /\ StartsFresh' /\ MachineGone'
    BY <1>3, <2>1, <2>2, <2>3, PCSets
    DEF BookInv, Counted, CallsHold, Apart, StartsFresh, MachineGone
  <2>5. EntriesHold'
    <3> SUFFICES ASSUME NEW w \in VMs, procs[w] # NoProc, procs[w].net, w \notin alloc.allocated
                 PROVE  \E t \in Slots : calls'[t].pc \in StopPCs \ Holds /\ calls'[t].vm = w
      BY <2>1, Zenon DEF EntriesHold
    <3>1. PICK t \in Slots : calls[t].pc \in StopPCs \ Holds /\ calls[t].vm = w
      BY Zenon DEF BookInv, EntriesHold
    <3>2. calls'[t].pc \in StopPCs \ Holds /\ calls'[t].vm = w
      BY <1>3, <2>1, <2>3, <3>1, PCSets, Zenon
    <3> QED
      BY <3>2, Zenon
  <2> QED
    BY <2>4, <2>5, Zenon DEF BookInv
<1>13. CASE StopDrop(s)
  <2>1. /\ Return(s, "down") /\ UNCHANGED <<alloc, live>>
        /\ procs' = [procs EXCEPT ![v] = NoProc]
    BY <1>13, Zenon DEF StopDrop
  <2>2. calls'[s] = Idle /\ \A w \in VMs : w # v => phase'[w] = phase[w] /\ procs'[w] = procs[w]
    BY <2>1, ReturnSet, Zenon DEF TypeOK
  <2>3. procs'[v] = NoProc
    BY <1>1, <2>1, Zenon DEF TypeOK
  <2> QED
    BY <1>2, <2>1, <2>2, <2>3, EndBook, Zenon
<1> QED
  BY <1>5, <1>6, <1>7, <1>8, <1>10, <1>11, <1>12, <1>13, Zenon DEF Special

LEMMA DroppedGrows ==
  ASSUME rules \subseteq rules', chain => chain'
  PROVE  Dropped \subseteq Dropped'
<1>1. Of("jump") \subseteq Of("jump")' /\ Drops \subseteq Drops'
  BY Zenon DEF Of, Drops
<1> QED
  BY <1>1, Zenon DEF Dropped

(* A call with nothing left to add has all of its list dropped.            *)
LEMMA SyncedDrops ==
  ASSUME NEW s \in Slots, Chained(calls[s]), calls[s].pc = "sync", calls[s].add = {}
  PROVE  PrintedAs(calls[s].deny) \subseteq Dropped
<1>1. Syncing(calls[s]) /\ Of("jump") # {}
  BY Zenon DEF Chained
<1>2. Dropped = {r.what : r \in Drops}
  BY <1>1, Zenon DEF Dropped, Syncing
<1>3. \A t \in calls[s].deny : \E q \in Drops : q.what = Printed[backend][t]
  BY <1>1, Zenon DEF Syncing
<1> QED
  BY <1>2, <1>3, Zenon DEF PrintedAs

(* A step that sets up rules drops no less, or all of the call's list.     *)
LEMMA FilterDrops ==
  ASSUME TypeOK, FilterInv, FilterInv', ~raced, NEW s \in Slots, calls[s] # Idle, Filter(s)
  PROVE  Dropped \subseteq Dropped' \/ PrintedAs(calls[s].deny) \subseteq Dropped'
<1>1. CASE UNCHANGED rules /\ (chain => chain')
  BY <1>1, DroppedGrows, Zenon
<1>2. ASSUME NEW w, rules' = Added(w), UNCHANGED chain PROVE Dropped \subseteq Dropped'
  BY <1>2, DroppedGrows, Zenon DEF Added
<1>3. CASE NATAdd(s)
  BY <1>2, <1>3, Zenon DEF NATAdd
<1>4. CASE JumpAdd(s)
  BY <1>1, <1>2, <1>4, Zenon DEF JumpAdd
<1>5. CASE NATLook(s) \/ ChainEnsure(s) \/ ChainNew(s) \/ JumpLook(s) \/ DropsList(s)
  <2>1. UNCHANGED rules /\ (chain => chain')
    BY <1>5 DEF NATLook, ChainEnsure, ChainNew, JumpLook, DropsList, filter
  <2> QED
    BY <1>1, <2>1, Zenon
<1>6. CASE DropsSync(s)
  <2>1. UNCHANGED <<chain, backend, raced>> /\ calls[s].pc = "sync"
    BY <1>6, Zenon DEF DropsSync, env, hist
  <2>2. CASE \E t \in calls[s].add : rules' = Added(Printed[backend][t])
    BY <1>2, <2>1, <2>2, Zenon
  <2>3. CASE UNCHANGED rules
    BY <1>1, <2>1, <2>3, Zenon
  <2>4. ASSUME calls[s].add = {}, NEW r \in calls[s].del, calls' = [calls EXCEPT ![s].del = @ \ {r}]
        PROVE  PrintedAs(calls[s].deny) \subseteq Dropped'
    <3>1. calls[s] \in Call
      BY CallFields, Zenon
    <3>2. calls'[s] = [calls[s] EXCEPT !.del = calls[s].del \ {r}]
      BY <2>4, Zenon DEF TypeOK
    <3>3. calls'[s].pc = "sync" /\ calls'[s].add = {} /\ calls'[s].deny = calls[s].deny
      BY <2>1, <2>4, <3>1, <3>2 DEF Call
    <3>4. Chained(calls[s])'
      BY <2>1, Zenon DEF FilterInv
    <3>5. (PrintedAs(calls[s].deny) \subseteq Dropped)'
      <4>1. (Syncing(calls[s]) /\ Of("jump") # {})'
        BY <3>3, <3>4, Zenon DEF Chained
      <4>2. Dropped' = {q.what : q \in Drops'}
        BY <4>1, Zenon DEF Dropped, Syncing
      <4>3. \A t \in calls'[s].deny : \E q \in Drops' : q.what = Printed[backend'][t]
        BY <3>3, <4>1, Zenon DEF Syncing
      <4> QED
        BY <4>2, <4>3, Zenon DEF PrintedAs
    <3> QED
      BY <2>1, <3>3, <3>5, Zenon DEF PrintedAs
  <2> QED
    BY <1>6, <2>2, <2>3, <2>4, Zenon DEF DropsSync
<1> QED
  BY <1>3, <1>4, <1>5, <1>6, Zenon DEF Filter

(* A call comes to start the machine with the policy in place.             *)
LEMMA BootReached ==
  ASSUME TypeOK, FilterInv, ~raced, NEW s \in Slots, calls[s] # Idle, CallStep(s), calls'[s].pc = "boot"
  PROVE  /\ calls[s].pc \in SetupPCs \cap Works
         /\ calls[s].deny = {} \/ (PrintedAs(calls[s].deny) \subseteq Dropped /\ UNCHANGED <<chain, rules>>)
<1>1. ASSUME NEW x \in PCs, Goto(s, x) PROVE x = "boot"
  BY <1>1, GotoSet, Zenon
<1>2. CASE Filter(s)
  <2>1. calls[s].pc \in SetupPCs \cap Works
    BY <1>2, FilterPlain, Zenon
  <2>2. CASE NATLook(s) \/ NATAdd(s)
    <3>1. PICK x \in {"natadd", "chain", "boot"} : Goto(s, x) /\ (x = "boot" => calls[s].deny = {})
      BY <2>2, Zenon DEF NATLook, NATAdd, AfterNAT
    <3> QED
      BY <1>1, <2>1, <3>1, Zenon DEF PCs, SetupPCs
  <2>3. CASE ChainEnsure(s) \/ ChainNew(s) \/ JumpLook(s) \/ JumpAdd(s)
    <3>1. PICK x \in {"look", "newchain", "undo", "jump", "list"} : Goto(s, x)
      BY <2>3, Zenon DEF ChainEnsure, ChainNew, JumpLook, JumpAdd
    <3> QED
      BY <1>1, <3>1, Zenon DEF PCs, SetupPCs
  <2>4. CASE DropsList(s)
    <3>1. CASE chain
      <4>1. PICK A, D : calls' = [calls EXCEPT ![s] = [calls[s] EXCEPT !.pc = "sync", !.add = A, !.del = D]]
        BY <2>4, <3>1, Zenon DEF DropsList
      <4>2. calls'[s].pc = "sync"
        BY <4>1, CallFields DEF TypeOK, Call
      <4> QED
        BY <4>2, Zenon
    <3>2. CASE ~chain
      BY <1>1, <2>4, <3>2, Zenon DEF DropsList, PCs, SetupPCs
    <3> QED
      BY <3>1, <3>2, Zenon
  <2>5. CASE DropsSync(s)
    <3>1. calls[s].pc = "sync" /\ UNCHANGED chain
      BY <2>5, Zenon DEF DropsSync
    <3>2. CASE calls[s].add = {} /\ UNCHANGED rules
      <4>1. Chained(calls[s])
        BY Zenon DEF FilterInv
      <4> QED
        BY <2>1, <3>1, <3>2, <4>1, SyncedDrops, Zenon
    <3>3. CASE Goto(s, "undo")
      BY <1>1, <3>3, Zenon DEF PCs, SetupPCs
    <3>4. ASSUME NEW t \in calls[s].add, calls' = [calls EXCEPT ![s].add = @ \ {t}] PROVE FALSE
      <4>1. calls'[s].pc = calls[s].pc
        BY <3>4, CallFields DEF TypeOK, Call
      <4> QED
        BY <3>1, <4>1, Zenon
    <3>5. ASSUME NEW t \in calls[s].del, calls' = [calls EXCEPT ![s].del = @ \ {t}] PROVE FALSE
      <4>1. calls'[s].pc = calls[s].pc
        BY <3>5, CallFields DEF TypeOK, Call
      <4> QED
        BY <3>1, <4>1, Zenon
    <3> QED
      BY <2>5, <3>2, <3>3, <3>4, <3>5, Zenon DEF DropsSync
  <2> QED
    BY <1>2, <2>2, <2>3, <2>4, <2>5, Zenon DEF Filter
<1>3. CASE CommandFails(s) \/ BootFails(s)
  <2>1. calls[s].deny = {}
    BY <1>3, FailPlain, Zenon
  <2>2. ~BootFails(s)
    BY <1>1, Zenon DEF BootFails, PCs, SetupPCs
  <2>3. Goto(s, OnError(calls[s])) /\ calls[s].pc \in (SetupPCs \cup StopPCs) \ {"unreserve", "undo", "clear", "stop", "release", "drop"}
    BY <1>3, <2>2, Zenon DEF CommandFails
  <2>4. OnError(calls[s]) = "boot"
    BY <1>1, <2>3, OnErrorGoes, Zenon
  <2>5. calls[s].pc = "natadd"
    BY <2>3, <2>4, Zenon DEF OnError, AfterRemoveNAT, AfterJump, SetupPCs, StopPCs
  <2> QED
    BY <2>1, <2>5, Zenon DEF SetupPCs, Works
<1>4. CASE BridgeAdd(s) \/ BridgeAddress(s) \/ BridgeUp(s) \/ TapLook(s) \/ TapAdd(s) \/ TapAttach(s)
  BY <1>4, LinksPlain, Zenon
<1>5. CASE \/ TeardownVM(s) \/ NATFind(s) \/ NATDelete(s) \/ ChainLook(s)
           \/ JumpFind(s) \/ JumpDelete(s) \/ ChainFlush(s) \/ ChainDelete(s)
  BY <1>5, StopPlain, Zenon
<1>6. CASE Special(s)
  <2>1. calls'[s] # Idle
    BY DEF Idle
  <2> QED
    BY <1>6, <2>1, SpecialCalls, Zenon
<1>7. CASE CacheStat(s) \/ BuildExt4(s) \/ Ext4Written(s) \/ (CacheRename(s) /\ img.tmp # "none")
  <2>1. CASE CacheStat(s)
    <3>1. Goto(s, "open") \/ Goto(s, "read")
      BY <2>1, Zenon DEF CacheStat
    <3> QED
      BY <1>1, <3>1, Zenon DEF PCs, BuildPCs
  <2>2. CASE Ext4Written(s)
    BY <1>1, <2>2, Zenon DEF Ext4Written, PCs, BuildPCs
  <2> QED
    BY <1>7, <2>1, <2>2, BuildExt4Calls, CacheRenameCalls, Zenon
<1> QED
  BY <1>2, <1>3, <1>4, <1>5, <1>6, <1>7, Zenon DEF CallStep, Build, Links, Finish, Stop, Special

(* What a plain step leaves of what is enforced.                           *)
LEMMA PlainEgress ==
  ASSUME TypeOK, FilterInv, FilterInv', ~raced, NEW s \in Slots, calls[s] # Idle, CallStep(s), Plain(s),
         RemovesLast, ListCovers, Enforces
  PROVE  RemovesLast' /\ ListCovers' /\ Enforces'
<1>1. UNCHANGED <<backend, procs, live, kept, raced>> /\ OneWorks
  BY Zenon DEF Plain, env, book, status, FilterInv
<1>2. \A t \in Slots \ {s} :
        /\ calls'[t].pc = calls[t].pc
        /\ calls[t].pc \in PCs => calls'[t].vm = calls[t].vm /\ calls'[t].deny = calls[t].deny
  BY AlikeFields, Zenon DEF Plain
<1>3. /\ calls'[s].vm = calls[s].vm /\ calls'[s].deny = calls[s].deny
      /\ Advances(calls[s].pc, calls'[s].pc) /\ calls[s].vm \in VMs
  BY CallFields, Zenon DEF Plain
<1>4. Owned' = Owned
  BY <1>1, Zenon DEF Owned
<1>5. \A v \in Enforced' : v \in Enforced \/ (calls'[s].pc = "boot" /\ v = calls[s].vm)
  BY <1>2, <1>3, <1>4, PCSets DEF Enforced
<1>6. RemovesLast'
  <2> SUFFICES ASSUME NEW t \in Slots, calls'[t].pc \in Removes PROVE Enforced' = {}
    BY Zenon DEF RemovesLast
  <2>1. calls[t].pc \in Removes
    BY <1>2, <1>3, Zenon DEF Advances
  <2>2. Enforced = {}
    BY <2>1, Zenon DEF RemovesLast
  <2>3. calls'[s].pc # "boot"
    <3> SUFFICES ASSUME calls'[s].pc = "boot" PROVE FALSE
      BY Zenon
    <3>1. calls[s].pc \in SetupPCs \cap Works
      BY BootReached, Zenon
    <3>2. t = s
      BY <1>1, <2>1, <3>1, PCSets, Zenon DEF OneWorks
    <3> QED
      BY <3>2, Zenon DEF Removes
  <2> QED
    BY <1>5, <2>2, <2>3, Zenon
<1>7. ListCovers'
  <2> SUFFICES ASSUME NEW t \in Slots, calls'[t].pc \in SetupPCs \cap Works, NEW v \in VMs
               PROVE  kept'[v] \subseteq PrintedAs(calls[t].deny)'
    BY Zenon DEF ListCovers
  <2>1. calls[t].pc \in SetupPCs \cap Works
    BY <1>2, <1>3, Zenon DEF Advances
  <2>2. calls'[t].deny = calls[t].deny
    BY <1>2, <1>3, <2>1, PCSets, Zenon
  <2>3. kept[v] \subseteq PrintedAs(calls[t].deny)
    BY <2>1, Zenon DEF ListCovers
  <2> QED
    BY <1>1, <2>2, <2>3, Zenon DEF PrintedAs
<1>8. Enforces'
  <2> SUFFICES ASSUME NEW v \in Enforced' PROVE kept[v] \subseteq Dropped'
    BY <1>1, Zenon DEF Enforces
  <2>1. CASE calls'[s].pc = "boot" /\ v = calls[s].vm
    <3>1. kept[v] \subseteq PrintedAs(calls[s].deny)
      BY <1>3, <2>1, BootReached, Zenon DEF ListCovers
    <3>2. CASE calls[s].deny = {}
      BY <3>1, <3>2, Zenon DEF PrintedAs
    <3>3. CASE PrintedAs(calls[s].deny) \subseteq Dropped /\ UNCHANGED <<chain, rules>>
      BY <3>1, <3>3, DroppedGrows, Zenon
    <3> QED
      BY <2>1, <3>2, <3>3, BootReached, Zenon
  <2>2. CASE v \in Enforced
    <3>1. kept[v] \subseteq Dropped /\ v \in VMs
      BY <2>2, Zenon DEF Enforces, Enforced, Owned, TypeOK
    <3>2. CASE UNCHANGED filter
      BY <3>1, <3>2, DroppedGrows, Zenon DEF filter
    <3>3. CASE Filter(s)
      <4>1. kept[v] \subseteq PrintedAs(calls[s].deny)
        BY <3>1, <3>3, FilterPlain, Zenon DEF ListCovers
      <4> QED
        BY <3>1, <3>3, <4>1, FilterDrops, Zenon
    <3>4. CASE calls[s].pc \in Removes
      BY <2>2, <3>4, Zenon DEF RemovesLast
    <3>5. UNCHANGED filter \/ Filter(s) \/ calls[s].pc \in Removes
      <4>1. CASE Build(s)
        BY <4>1, Zenon DEF Build, CacheStat, BuildExt4, Ext4Written, CacheRename, BuildFails
      <4>2. CASE Links(s)
        BY <4>2, LinksPlain, Zenon DEF Links, ReadNetwork
      <4>3. CASE Finish(s)
        BY <4>3, Zenon DEF Finish, Boot, BootFails, UndoReserve, UndoTap
      <4>4. CASE Stop(s)
        BY <4>4, StopPlain, Zenon DEF Stop, StopMachine, StopRelease, StopDrop
      <4>5. CASE CommandFails(s)
        BY <4>5, Zenon DEF CommandFails
      <4> QED
        BY <4>1, <4>2, <4>3, <4>4, <4>5, Zenon DEF CallStep
    <3> QED
      BY <3>2, <3>3, <3>4, <3>5, Zenon
  <2> QED
    BY <1>5, <2>1, <2>2, Zenon
<1> QED
  BY <1>6, <1>7, <1>8, Zenon

(* Steps after which no more is enforced, and nothing more owed.           *)
LEMMA Relaxed ==
  ASSUME UNCHANGED <<backend, chain, rules>>, RemovesLast, ListCovers, Enforces,
         Enforced' \subseteq Enforced,
         \A v \in VMs : kept'[v] \subseteq kept[v],
         \A t \in Slots :
           /\ calls'[t].pc \in Removes => \E u \in Slots : calls[u].pc \in Removes
           /\ calls'[t].pc \in SetupPCs \cap Works =>
                \E u \in Slots : calls[u].pc \in SetupPCs \cap Works /\ calls'[t].deny = calls[u].deny,
         Enforced \subseteq VMs
  PROVE  RemovesLast' /\ ListCovers' /\ Enforces'
<1>1. RemovesLast'
  BY Zenon DEF RemovesLast
<1>2. ListCovers'
  <2> SUFFICES ASSUME NEW t \in Slots, calls'[t].pc \in SetupPCs \cap Works, NEW v \in VMs
               PROVE  kept'[v] \subseteq PrintedAs(calls[t].deny)'
    BY Zenon DEF ListCovers
  <2>1. PICK u \in Slots : calls[u].pc \in SetupPCs \cap Works /\ calls'[t].deny = calls[u].deny
    BY Zenon
  <2>2. kept[v] \subseteq PrintedAs(calls[u].deny)
    BY <2>1, Zenon DEF ListCovers
  <2> QED
    BY <2>1, <2>2 DEF PrintedAs
<1>3. Enforces'
  <2>1. Dropped' = Dropped
    BY Zenon DEF Dropped, Of, Drops
  <2> QED
    BY <2>1, Zenon DEF Enforces
<1> QED
  BY <1>1, <1>2, <1>3, Zenon

LEMMA EnforcedVMs == TypeOK => Enforced \subseteq VMs
BY Zenon DEF Enforced, Owned, TypeOK

LEMMA SpecialEgress ==
  ASSUME TypeOK, FilterInv, KeptListed, NEW s \in Slots, calls[s] # Idle, Special(s), Calm, ~raced',
         BookInv, RemovesLast, ListCovers, Enforces
  PROVE  RemovesLast' /\ ListCovers' /\ Enforces'
<1> DEFINE v == calls[s].vm
<1>1. v \in VMs /\ calls[s] \in Call /\ calls[s].pc \in PCs
  BY CallFields, Zenon
<1>2. UNCHANGED <<backend, denyCIDRs, chain, rules>>
  BY SpecialCalls, Zenon DEF env, filter
<1>3. \A t \in Slots \ {s} :
        /\ calls'[t].pc = calls[t].pc
        /\ calls[t].pc \in PCs => calls[t] # Idle /\ calls'[t].vm = calls[t].vm /\ calls'[t].deny = calls[t].deny
  BY SpecialCalls, AlikeFields, Zenon
<1>4. OneWorks /\ \A t \in Slots \ {s} : calls[t] # Idle => calls[t].vm # v
  BY Zenon DEF FilterInv, Calm, BookInv, Apart
<1>5. Enforced \subseteq VMs
  BY EnforcedVMs, Zenon
<1>6. ASSUME \A w \in VMs : kept'[w] \subseteq kept[w], Owned' \subseteq Enforced,
             calls'[s].pc \notin Removes \cup SetupPCs \cup {"boot"} \/ calls'[s].pc = "clear"
      PROVE  RemovesLast' /\ ListCovers' /\ Enforces'
  <2>1. Enforced' \subseteq Enforced
    BY <1>3, <1>6, PCSets DEF Enforced
  <2>2. calls'[s].pc \notin Removes /\ calls'[s].pc \notin SetupPCs \cap Works
    BY <1>6, Zenon DEF Works, Removes
  <2> QED
    BY <1>2, <1>3, <1>5, <1>6, <2>1, <2>2, PCSets, Relaxed, Zenon
<1>7. CASE Boot(s)
  <2>1. /\ Return(s, "up") /\ calls[s].pc = "boot" /\ live' = live \cup {v}
        /\ procs' = [procs EXCEPT ![v] = [net |-> TRUE, deny |-> calls[s].deny]]
    BY <1>7, Zenon DEF Boot
  <2>2. calls'[s] = Idle /\ kept' = kept
    BY <2>1, ReturnSet, Zenon
  <2>3. v \in Enforced
    BY <1>1, <2>1, Zenon DEF Enforced
  <2>4. Owned' \subseteq Owned \cup {v}
    BY <1>1, <2>1, Zenon DEF Owned, TypeOK
  <2> QED
    BY <1>6, <2>2, <2>3, <2>4, PCSets, Zenon DEF Enforced, PCs
<1>8. CASE (CacheRename(s) /\ img.tmp = "none") \/ UndoTap(s) \/ BuildFails(s)
  <2>1. calls'[s] = Idle /\ UNCHANGED <<procs, live>> /\ \A w \in VMs : kept'[w] \subseteq kept[w]
    <3>1. CASE (CacheRename(s) /\ img.tmp = "none") \/ UndoTap(s)
      <4>1. Return(s, "down") /\ UNCHANGED <<procs, live>>
        BY <3>1, Zenon DEF CacheRename, UndoTap, book
      <4> QED
        BY <1>1, <4>1, ReturnSet, Zenon
    <3>2. CASE BuildFails(s)
      BY <3>2, BuildFailsCalls, Zenon DEF BuildFails, book
    <3> QED
      BY <1>8, <3>1, <3>2, Zenon
  <2>2. Owned' = Owned
    BY <2>1, Zenon DEF Owned
  <2> QED
    BY <1>6, <2>1, <2>2, PCSets, Zenon DEF Enforced, PCs
<1>9. CASE ReadNetwork(s)
  <2>1. /\ UNCHANGED <<procs, live>> /\ kept' = [kept EXCEPT ![v] = PrintedAs(denyCIDRs)]
        /\ calls[s].pc = "read" /\ ~Busy(s)
    BY <1>9, Zenon DEF ReadNetwork
  <2>2. calls'[s].pc \in {"brnew", "braddr"} /\ calls'[s].deny = denyCIDRs
    BY <1>9, ReadCalls, Zenon
  <2>3. \A t \in Slots \ {s} : calls[t].pc \notin SetupPCs \cup StopPCs
    BY <2>1, Zenon DEF Busy
  <2>4. RemovesLast'
    BY <1>3, <2>2, <2>3, Zenon DEF RemovesLast, Removes, StopPCs
  <2>5. \A w \in VMs : kept'[w] \subseteq PrintedAs(denyCIDRs)
    BY <1>1, <2>1, Zenon DEF KeptListed, TypeOK
  <2>6. ListCovers'
    <3> SUFFICES ASSUME NEW t \in Slots, calls'[t].pc \in SetupPCs \cap Works, NEW w \in VMs
                 PROVE  kept'[w] \subseteq PrintedAs(calls[t].deny)'
      BY Zenon DEF ListCovers
    <3>1. t = s
      BY <1>3, <2>3, Zenon
    <3> QED
      BY <1>2, <2>2, <2>5, <3>1, Zenon DEF PrintedAs
  <2>7. Enforced' \subseteq Enforced
    <3>1. Owned' = Owned
      BY <2>1, Zenon DEF Owned
    <3> QED
      BY <1>3, <2>2, <3>1, PCSets DEF Enforced
  <2>8. v \notin Enforced
    <3>1. procs[v] = NoProc
      BY <2>1, Zenon DEF BookInv, StartsFresh, Starts, BuildPCs
    <3>2. \A t \in Slots : calls[t].pc = "boot" => calls[t].vm # v
      BY <1>3, <1>4, <2>1, PCSets, Zenon
    <3> QED
      BY <3>1, <3>2, Zenon DEF Enforced, Owned
  <2>9. Enforces'
    <3>1. \A w \in Enforced' : kept'[w] = kept[w] /\ w \in Enforced
      BY <1>5, <2>1, <2>7, <2>8, Zenon DEF TypeOK
    <3>2. Dropped' = Dropped
      BY <1>2, Zenon DEF Dropped, Of, Drops
    <3> QED
      BY <3>1, <3>2, Zenon DEF Enforces
  <2> QED
    BY <2>4, <2>6, <2>9, Zenon
<1>10. CASE UndoReserve(s)
  <2>1. UNCHANGED <<procs, live>>
    BY <1>10, Zenon DEF UndoReserve
  <2>2. Owned' = Owned
    BY <2>1, Zenon DEF Owned
  <2>3. CASE Return(s, "down")
    BY <1>1, <1>6, <2>2, <2>3, ReturnSet, PCSets, Zenon DEF Enforced, PCs
  <2>4. CASE Goto(s, "clear") /\ UNCHANGED status
    <3>1. calls'[s].pc = "clear"
      BY <2>4, GotoSet, Zenon DEF PCs, SetupPCs
    <3> QED
      BY <1>6, <2>2, <2>4, <3>1, Zenon DEF Enforced, status
  <2> QED
    BY <1>10, <2>3, <2>4, Zenon DEF UndoReserve
<1>11. CASE StopMachine(s)
  <2>1. Goto(s, "untap") /\ live' \subseteq live /\ UNCHANGED <<procs, kept>>
    BY <1>11, Zenon DEF StopMachine, status
  <2>2. calls'[s].pc = "untap" /\ Owned' \subseteq Owned
    BY <2>1, GotoSet, Zenon DEF PCs, StopPCs, Owned
  <2>3. "untap" \notin Removes \cup SetupPCs \cup {"boot"}
    BY Zenon DEF Removes, SetupPCs
  <2> QED
    BY <1>6, <2>1, <2>2, <2>3, Zenon DEF Enforced
<1>12. CASE StopDrop(s)
  <2>1. Return(s, "down") /\ UNCHANGED live /\ procs' = [procs EXCEPT ![v] = NoProc]
    BY <1>12, Zenon DEF StopDrop
  <2>2. Owned' \subseteq Owned
    BY <1>1, <2>1, Zenon DEF Owned, TypeOK
  <2> QED
    BY <1>1, <1>6, <2>1, <2>2, ReturnSet, PCSets, Zenon DEF Enforced, PCs
<1>13. CASE StopRelease(s)
  <2>1. /\ UNCHANGED <<procs, live, kept>> /\ calls[s].pc = "release"
        /\ Goto(s, IF WasLast(alloc) THEN "unnat" ELSE "drop")
    BY <1>13, Zenon DEF StopRelease, status
  <2>2. Owned' = Owned
    BY <2>1, Zenon DEF Owned
  <2>3. CASE ~WasLast(alloc)
    <3>1. calls'[s].pc = "drop"
      BY <2>1, <2>3, GotoSet, Zenon DEF PCs, StopPCs
    <3>2. "drop" \notin Removes \cup SetupPCs \cup {"boot"}
      BY Zenon DEF Removes, SetupPCs
    <3> QED
      BY <1>6, <2>1, <2>2, <3>1, <3>2, Zenon DEF Enforced
  <2>4. CASE WasLast(alloc)
    <3>1. calls'[s].pc = "unnat"
      BY <2>1, <2>4, GotoSet, Zenon DEF PCs, StopPCs
    <3>2. "release" \in Holds /\ "release" \in Works /\ "release" \in StopPCs \ {"stop", "drop"} /\ "unnat" \notin SetupPCs
      BY Zenon DEF Holds, Works, StopPCs, SetupPCs
    <3>3. v \in alloc.allocated /\ v \notin live
      BY <2>1, <3>2, Zenon DEF BookInv, CallsHold, MachineGone
    <3>4. alloc.allocated = {v}
      BY <1>1, <2>4, <3>3, CountKept, Zenon DEF BookInv
    <3>5. Enforced = {}
      <4>1. ASSUME NEW w \in Owned PROVE FALSE
        <5>1. w \in VMs /\ procs[w] # NoProc /\ procs[w].net /\ w # v
          BY <3>3, Zenon DEF Owned, TypeOK
        <5>2. PICK t \in Slots : calls[t].pc \in StopPCs \ Holds /\ calls[t].vm = w
          BY <3>4, <5>1, Zenon DEF BookInv, EntriesHold
        <5>3. calls[t].pc \in Works
          BY <5>2, Zenon DEF Works, StopPCs
        <5>4. t = s
          BY <1>4, <2>1, <3>2, <5>3, Zenon DEF OneWorks
        <5> QED
          BY <2>1, <3>2, <5>2, <5>4, Zenon
      <4>2. ASSUME NEW t \in Slots, calls[t].pc = "boot" PROVE FALSE
        <5>1. calls[t].vm = v
          BY <3>4, <4>2, PCSets, Zenon DEF BookInv, CallsHold
        <5> QED
          BY <1>3, <1>4, <2>1, <4>2, <5>1, PCSets, Zenon
      <4> QED
        BY <4>1, <4>2, Zenon DEF Enforced
    <3>6. Enforced' = {}
      BY <1>3, <2>2, <3>1, <3>5, PCSets DEF Enforced
    <3>7. RemovesLast' /\ Enforces'
      BY <3>6, Zenon DEF RemovesLast, Enforces
    <3>8. ListCovers'
      <4> SUFFICES ASSUME NEW t \in Slots, calls'[t].pc \in SetupPCs \cap Works, NEW w \in VMs
                   PROVE  kept'[w] \subseteq PrintedAs(calls[t].deny)'
        BY Zenon DEF ListCovers
      <4>1. t # s
        BY <3>1, <3>2, Zenon
      <4>2. calls[t].pc \in SetupPCs \cap Works /\ calls'[t].deny = calls[t].deny
        BY <1>3, <4>1, PCSets, Zenon
      <4>3. kept[w] \subseteq PrintedAs(calls[t].deny)
        BY <4>2, Zenon DEF ListCovers
      <4> QED
        BY <1>2, <2>1, <4>2, <4>3, Zenon DEF PrintedAs
    <3> QED
      BY <3>7, <3>8, Zenon
  <2> QED
    BY <2>3, <2>4, Zenon
<1> QED
  BY <1>7, <1>8, <1>9, <1>10, <1>11, <1>12, <1>13, Zenon DEF Special

LEMMA CallEgress ==
  ASSUME TypeOK, FilterInv, FilterInv', KeptListed, EgressInv, NEW s \in Slots, calls[s] # Idle, CallStep(s)
  PROVE  EgressInv'
<1> SUFFICES ASSUME Calm' PROVE BookInv' /\ RemovesLast' /\ ListCovers' /\ Enforces'
  BY Zenon DEF EgressInv
<1>1. UNCHANGED <<overlapped, leftover>> /\ (raced => raced')
  BY CallEffect, Zenon
<1>2. Calm /\ ~raced' /\ ~raced /\ overlapped = {}
  BY <1>1, Zenon DEF Calm
<1>3. BookInv /\ RemovesLast /\ ListCovers /\ Enforces
  BY <1>2, Zenon DEF EgressInv
<1>4. CASE Plain(s)
  BY <1>2, <1>3, <1>4, PlainBook, PlainEgress, Zenon
<1>5. CASE Special(s)
  BY <1>2, <1>3, <1>5, SpecialBook, SpecialEgress, Zenon
<1> QED
  BY <1>4, <1>5, PlainOrSpecial, Zenon

(* The agent's next call is about a VM that no call is about.              *)
LEMMA BeginEgress ==
  ASSUME TypeOK, EgressInv, NEW v \in VMs, BeginStart(v) \/ BeginStop(v)
  PROVE  EgressInv'
<1> SUFFICES ASSUME Calm' PROVE BookInv' /\ RemovesLast' /\ ListCovers' /\ Enforces'
  BY Zenon DEF EgressInv
<1> DEFINE d == calls'["agent"]
<1>1. /\ UNCHANGED <<backend, chain, rules, alloc, procs, live, kept>>
      /\ (raced => raced') /\ (leftover => leftover') /\ overlapped \subseteq overlapped'
      /\ Calls(v) # {} => v \in overlapped'
  <2>1. UNCHANGED <<backend, chain, rules, alloc, procs, live, kept>>
    BY Zenon DEF BeginStart, BeginStop, env, filter, book, status
  <2>2. overlapped \subseteq overlapped' /\ (Calls(v) # {} => v \in overlapped')
    BY Zenon DEF BeginStart, BeginStop
  <2>3. (raced => raced') /\ (leftover => leftover')
    <3>1. CASE BeginStart(v)
      <4>1. raced' = raced
        BY <3>1, Zenon DEF BeginStart
      <4>2. leftover' = (leftover \/ procs[v] # NoProc)
        BY <3>1, Zenon DEF BeginStart
      <4> QED
        BY <4>1, <4>2, Zenon
    <3>2. CASE BeginStop(v)
      <4>1. leftover' = leftover
        BY <3>2, Zenon DEF BeginStop
      <4>2. raced' = (raced \/ Busy("agent"))
        BY <3>2, Zenon DEF BeginStop
      <4> QED
        BY <4>1, <4>2, Zenon
    <3> QED
      BY <3>1, <3>2, Zenon
  <2> QED
    BY <2>1, <2>2, <2>3, Zenon
<1>2. Calm /\ Calls(v) = {}
  BY <1>1, Zenon DEF Calm
<1>3. BookInv /\ RemovesLast /\ ListCovers /\ Enforces
  BY <1>2, Zenon DEF EgressInv
<1>4. calls["agent"] = Idle /\ "agent" \in Slots
  BY Zenon DEF BeginStart, BeginStop, Slots
<1>5. \A t \in Slots \ {"agent"} : calls'[t] = calls[t]
  BY Zenon DEF BeginStart, BeginStop, TypeOK
<1>6. d # Idle /\ d.vm = v /\ d.pc \in {"stat", "stop", "drop"}
  <2>1. \E x \in {"stat", "stop", "drop"}, l \in {{}, procs[v].deny} : d = NewCall(x, v, l)
    BY <1>4, Zenon DEF BeginStart, BeginStop, TypeOK
  <2> QED
    BY <2>1 DEF NewCall, Idle
<1>7. \A t \in Slots \ {"agent"} : calls[t] # Idle => calls[t].vm # v
  BY <1>2, Zenon DEF Calls
<1>8. {"stat", "stop", "drop"} \cap (Removes \cup (SetupPCs \cap Works) \cup {"boot"}) = {}
  BY Zenon DEF Removes, SetupPCs
<1>9. Enforced' = Enforced
  <2>1. Owned' = Owned
    BY <1>1, Zenon DEF Owned
  <2>2. \A t \in Slots : calls'[t].pc = "boot" <=> calls[t].pc = "boot"
    BY <1>4, <1>5, <1>6, <1>8 DEF Idle
  <2>3. \A t \in Slots : calls[t].pc = "boot" => calls'[t].vm = calls[t].vm
    BY <1>4, <1>5 DEF Idle
  <2> QED
    BY <2>1, <2>2, <2>3, Zenon DEF Enforced
<1>10. RemovesLast' /\ ListCovers' /\ Enforces'
  <2>1. \A t \in Slots :
          /\ calls'[t].pc \in Removes => \E u \in Slots : calls[u].pc \in Removes
          /\ calls'[t].pc \in SetupPCs \cap Works =>
               \E u \in Slots : calls[u].pc \in SetupPCs \cap Works /\ calls'[t].deny = calls[u].deny
    BY <1>5, <1>6, <1>8, Zenon
  <2> QED
    BY <1>1, <1>3, <1>9, <2>1, EnforcedVMs, Relaxed, Zenon
<1>11. Counted' /\ Apart'
  BY <1>1, <1>3, <1>4, <1>5, <1>6, <1>7 DEF BookInv, Counted, Apart
<1>12. "stat" \notin Holds \cup StopPCs /\ "drop" \notin Holds /\ {"stop", "drop"} \cap Starts = {}
  BY Zenon DEF Holds, Starts, StopPCs, SetupPCs, BuildPCs
<1>13. EntriesHold'
  <2>1. \A t \in Slots : calls[t].pc \in StopPCs \ Holds => calls'[t] = calls[t]
    BY <1>4, <1>5, PCSets, Zenon
  <2> QED
    BY <1>1, <1>3, <2>1, Zenon DEF BookInv, EntriesHold
<1>14. CallsHold'
  <2>1. CASE d.pc # "stop"
    BY <1>1, <1>3, <1>5, <1>6, <1>12, <2>1, Zenon DEF BookInv, CallsHold
  <2>2. CASE d.pc = "stop"
    <3>1. procs[v] # NoProc /\ procs[v].net
      BY <1>4, <2>2 DEF BeginStart, BeginStop, NewCall, TypeOK
    <3>2. \A t \in Slots : calls[t].pc \in PCs => calls[t].vm # v
      BY <1>4, <1>7, PCSets, Zenon
    <3>3. v \in alloc.allocated
      BY <1>3, <3>1, <3>2, PCSets, Zenon DEF BookInv, EntriesHold
    <3> QED
      BY <1>1, <1>3, <1>5, <1>6, <3>3, ZenonT(60) DEF BookInv, CallsHold
  <2> QED
    BY <2>1, <2>2, Zenon
<1>15. MachineGone'
  BY <1>1, <1>3, <1>5, <1>6, <1>12, Zenon DEF BookInv, MachineGone
<1>16. StartsFresh'
  <2> SUFFICES ASSUME NEW t \in Slots, calls'[t].pc \in Starts
               PROVE  procs[calls'[t].vm] = NoProc /\ phase'[calls'[t].vm] # "up"
    BY <1>1, Zenon DEF StartsFresh
  <2>1. CASE t = "agent"
    <3>1. BeginStart(v)
      BY <1>4, <1>12, <2>1 DEF BeginStop, NewCall, TypeOK
    <3>2. procs[v] = NoProc
      <4>1. leftover' = (leftover \/ procs[v] # NoProc)
        BY <3>1, Zenon DEF BeginStart
      <4> QED
        BY <4>1, Zenon DEF Calm
    <3>3. phase'[v] = "starting"
      BY <3>1, Zenon DEF BeginStart, TypeOK
    <3> QED
      BY <1>6, <2>1, <3>2, <3>3, Zenon
  <2>2. CASE t # "agent"
    <3>1. calls'[t] = calls[t] /\ calls[t].vm # v
      BY <1>5, <1>7, <2>2, PCSets, Zenon DEF Idle
    <3>2. phase'[calls[t].vm] = phase[calls[t].vm]
      <4>1. CASE BeginStart(v)
        <5>1. calls[t].vm \in VMs
          BY <1>5, <2>2, PCSets, CallFields, Zenon
        <5> QED
          BY <3>1, <4>1, <5>1, Zenon DEF BeginStart, TypeOK
      <4>2. CASE BeginStop(v)
        BY <4>2, Zenon DEF BeginStop, status
      <4> QED
        BY <4>1, <4>2, Zenon
    <3> QED
      BY <1>3, <3>1, <3>2, Zenon DEF BookInv, StartsFresh
  <2> QED
    BY <2>1, <2>2, Zenon
<1> QED
  BY <1>3, <1>10, <1>11, <1>13, <1>14, <1>15, <1>16, Zenon DEF BookInv

(* What else happens to one VM: less runs, and an entry that is made for a *)
(* process has no netInfo.                                                 *)
LEMMA HappensEgress ==
  ASSUME TypeOK, EgressInv, NEW v \in VMs, Inspect(v) \/ StartTimeout(v) \/ ProcessExit(v)
  PROVE  EgressInv'
<1> SUFFICES ASSUME Calm' PROVE BookInv' /\ RemovesLast' /\ ListCovers' /\ Enforces'
  BY Zenon DEF EgressInv
<1>1. UNCHANGED <<backend, chain, rules, alloc, calls, raced, leftover, overlapped>>
  BY Zenon DEF Inspect, StartTimeout, ProcessExit, env, filter, book, hist
<1>2. Calm /\ BookInv /\ RemovesLast /\ ListCovers /\ Enforces
  BY <1>1, Zenon DEF Calm, EgressInv
<1>3. /\ live' \subseteq live /\ \A w \in VMs : kept'[w] \subseteq kept[w]
      /\ \A w \in VMs : phase'[w] = "up" => phase[w] = "up"
  BY Zenon DEF Inspect, StartTimeout, ProcessExit, book, status, TypeOK
<1>4. \A w \in VMs : \/ procs'[w] = procs[w]
                     \/ phase[w] = "up" /\ (procs'[w] = NoProc \/ ~procs'[w].net)
  BY DEF Inspect, StartTimeout, ProcessExit, book, TypeOK
<1>5. Enforced' \subseteq Enforced
  <2>1. Owned' \subseteq Owned
    BY <1>3, <1>4, Zenon DEF Owned, TypeOK
  <2> QED
    BY <1>1, <2>1, Zenon DEF Enforced
<1>6. RemovesLast' /\ ListCovers' /\ Enforces'
  BY <1>1, <1>2, <1>3, <1>5, EnforcedVMs, Relaxed, Zenon
<1>7. Counted' /\ Apart' /\ CallsHold' /\ MachineGone'
  BY <1>1, <1>2, <1>3, Zenon DEF BookInv, Counted, Apart, CallsHold, MachineGone
<1>8. EntriesHold'
  BY <1>1, <1>2, <1>4, Zenon DEF BookInv, EntriesHold
<1>9. StartsFresh'
  <2> SUFFICES ASSUME NEW t \in Slots, calls[t].pc \in Starts
               PROVE  procs'[calls[t].vm] = NoProc /\ phase'[calls[t].vm] # "up"
    BY <1>1, Zenon DEF StartsFresh
  <2>1. calls[t].vm \in VMs
    BY PCSets, CallFields, Zenon
  <2> QED
    BY <1>2, <1>3, <1>4, <2>1, Zenon DEF BookInv, StartsFresh
<1> QED
  BY <1>6, <1>7, <1>8, <1>9, Zenon DEF BookInv

LEMMA ElseEgress ==
  ASSUME TypeOK, EgressInv, ChangePolicy \/ AgentCrash \/ RuntimeRestart
  PROVE  EgressInv'
<1> SUFFICES ASSUME Calm' PROVE BookInv' /\ RemovesLast' /\ ListCovers' /\ Enforces'
  BY Zenon DEF EgressInv
<1>1. UNCHANGED <<backend, chain, rules, raced, leftover, overlapped>>
  BY Zenon DEF ChangePolicy, AgentCrash, RuntimeRestart, env, filter, hist
<1>2. Calm /\ BookInv /\ RemovesLast /\ ListCovers /\ Enforces
  BY <1>1, Zenon DEF Calm, EgressInv
<1>3. Slots = {"agent", "orphan"}
  BY Zenon DEF Slots
<1>4. CASE ChangePolicy
  <2>1. UNCHANGED <<alloc, procs, live, phase, calls>> /\ \A v \in VMs : kept'[v] \subseteq kept[v]
    BY <1>4, Zenon DEF ChangePolicy
  <2>2. BookInv'
    BY <1>2, <2>1, Zenon DEF BookInv, Counted, CallsHold, EntriesHold, Apart, StartsFresh, MachineGone
  <2>3. Enforced' = Enforced
    BY <2>1, Zenon DEF Enforced, Owned
  <2> QED
    BY <1>1, <1>2, <2>1, <2>2, <2>3, EnforcedVMs, Relaxed, Zenon
<1>5. CASE AgentCrash
  <2>1. /\ UNCHANGED <<alloc, procs, live, phase, kept>>
        /\ calls'["agent"] = Idle /\ calls'["orphan"] = calls["agent"] /\ calls["orphan"] = Idle
    BY <1>5, Zenon DEF AgentCrash, book, status
  <2>2. Counted' /\ Apart'
    BY <1>2, <1>3, <2>1, Zenon DEF BookInv, Counted, Apart
  <2>3. CallsHold' /\ StartsFresh' /\ MachineGone'
    BY <1>2, <1>3, <2>1, PCSets, Zenon DEF BookInv, CallsHold, StartsFresh, MachineGone
  <2>4. EntriesHold'
    <3>1. \A v \in VMs : (\E s \in Slots : calls[s].pc \in StopPCs \ Holds /\ calls[s].vm = v) =>
                         (\E s \in Slots : calls'[s].pc \in StopPCs \ Holds /\ calls'[s].vm = v)
      BY <1>3, <2>1, PCSets, Zenon
    <3> QED
      BY <1>2, <2>1, <3>1, Zenon DEF BookInv, EntriesHold
  <2>5. Enforced' \subseteq Enforced
    <3>1. Owned' = Owned
      BY <2>1, Zenon DEF Owned
    <3> QED
      BY <1>3, <2>1, <3>1, PCSets, Zenon DEF Enforced
  <2>6. \A t \in Slots :
          /\ calls'[t].pc \in Removes => \E u \in Slots : calls[u].pc \in Removes
          /\ calls'[t].pc \in SetupPCs \cap Works =>
               \E u \in Slots : calls[u].pc \in SetupPCs \cap Works /\ calls'[t].deny = calls[u].deny
    BY <1>3, <2>1, PCSets, Zenon
  <2>7. RemovesLast' /\ ListCovers' /\ Enforces'
    BY <1>1, <1>2, <2>1, <2>5, <2>6, EnforcedVMs, Relaxed, Zenon
  <2> QED
    BY <2>2, <2>3, <2>4, <2>7, Zenon DEF BookInv
<1>6. CASE RuntimeRestart
  <2>1. /\ alloc' = NewAllocator /\ \A v \in VMs : procs'[v] = NoProc /\ kept'[v] = {}
        /\ \A s \in Slots : calls'[s] = Idle
        /\ live' \subseteq live
    BY <1>6, Zenon DEF RuntimeRestart
  <2>2. Counted'
    BY <2>1, NoneCounted, Zenon DEF Counted
  <2>3. CallsHold' /\ EntriesHold' /\ Apart' /\ StartsFresh' /\ MachineGone'
    BY <2>1, PCSets, Zenon DEF CallsHold, EntriesHold, Apart, StartsFresh, MachineGone
  <2>4. Enforced' = {}
    BY <2>1, PCSets DEF Enforced, Owned, TypeOK
  <2>5. RemovesLast' /\ ListCovers' /\ Enforces'
    BY <2>1, <2>4, PCSets, Zenon DEF RemovesLast, ListCovers, Enforces
  <2> QED
    BY <2>2, <2>3, <2>5, Zenon DEF BookInv
<1> QED
  BY <1>4, <1>5, <1>6, Zenon

LEMMA EgressStep ==
  TypeOK /\ FilterInv /\ FilterInv' /\ KeptListed /\ EgressInv /\ [Next]_vars => EgressInv'
<1> SUFFICES ASSUME TypeOK, FilterInv, FilterInv', KeptListed, EgressInv, [Next]_vars PROVE EgressInv'
  BY Zenon
<1>1. CASE UNCHANGED vars
  BY <1>1 DEF vars, env, filter, book, status, hist, EgressInv, Calm, BookInv, Counted, CallsHold,
     EntriesHold, Apart, StartsFresh, MachineGone, RemovesLast, ListCovers, Enforces, Enforced, Owned,
     Dropped, Of, Drops, PrintedAs
<1>2. ASSUME NEW s \in Slots, calls[s] # Idle, CallStep(s) PROVE EgressInv'
  BY <1>2, CallEgress, Zenon
<1>3. ASSUME NEW v \in VMs, BeginStart(v) \/ BeginStop(v) PROVE EgressInv'
  BY <1>3, BeginEgress, Zenon
<1>4. ASSUME NEW v \in VMs, Inspect(v) \/ StartTimeout(v) \/ ProcessExit(v) PROVE EgressInv'
  BY <1>4, HappensEgress, Zenon
<1>5. CASE ChangePolicy \/ AgentCrash \/ RuntimeRestart
  BY <1>5, ElseEgress, Zenon
<1> QED
  BY <1>1, <1>2, <1>3, <1>4, <1>5, Zenon DEF Next, CallStep

(* What is owed is on the present list: a Start owes the whole list, and a *)
(* change of the list takes away what is no longer on it.                  *)
LEMMA ListedStep == TypeOK /\ KeptListed /\ [Next]_vars => KeptListed'
<1> SUFFICES ASSUME TypeOK, KeptListed, [Next]_vars PROVE KeptListed'
  BY Zenon
<1>1. ASSUME UNCHANGED <<backend, denyCIDRs>>,
             \A v \in VMs : kept'[v] \subseteq kept[v] \/ kept'[v] = PrintedAs(denyCIDRs)
      PROVE  KeptListed'
  BY <1>1, Zenon DEF KeptListed, PrintedAs
<1>2. CASE UNCHANGED vars
  BY <1>1, <1>2, Zenon DEF vars, env, status
<1>3. ASSUME NEW s \in Slots, calls[s] # Idle, CallStep(s) PROVE KeptListed'
  <2>1. UNCHANGED <<backend, denyCIDRs>>
    BY <1>3, CallEffect, Zenon DEF env
  <2>2. ASSUME NEW p, Return(s, p) PROVE \A v \in VMs : kept'[v] \subseteq kept[v]
    BY <2>2, Zenon DEF Return, TypeOK
  <2>3. CASE Plain(s)
    BY <1>1, <2>1, <2>3, Zenon DEF Plain, status
  <2>4. CASE ReadNetwork(s)
    BY <1>1, <2>1, <2>4, Zenon DEF ReadNetwork, TypeOK
  <2>5. CASE Special(s) /\ ~ReadNetwork(s)
    <3>1. \A v \in VMs : kept'[v] \subseteq kept[v]
      BY <2>2, <2>5, Zenon DEF Special, Boot, CacheRename, UndoTap, BuildFails, UndoReserve, StopMachine,
         StopRelease, StopDrop, status
    <3> QED
      BY <1>1, <2>1, <3>1, Zenon
  <2> QED
    BY <1>3, <2>3, <2>4, <2>5, PlainOrSpecial, Zenon
<1>4. ASSUME NEW v \in VMs,
             BeginStart(v) \/ BeginStop(v) \/ Inspect(v) \/ StartTimeout(v) \/ ProcessExit(v)
      PROVE  KeptListed'
  <2>1. UNCHANGED <<backend, denyCIDRs>>
    BY <1>4, Zenon DEF BeginStart, BeginStop, Inspect, StartTimeout, ProcessExit, env
  <2>2. \A w \in VMs : kept'[w] \subseteq kept[w]
    BY <1>4, Zenon DEF BeginStart, BeginStop, Inspect, StartTimeout, ProcessExit, status, TypeOK
  <2> QED
    BY <1>1, <2>1, <2>2, Zenon
<1>5. CASE ChangePolicy
  BY <1>5 DEF ChangePolicy, KeptListed, PrintedAs
<1>6. CASE AgentCrash \/ RuntimeRestart
  <2>1. UNCHANGED <<backend, denyCIDRs>> /\ \A w \in VMs : kept'[w] \subseteq kept[w]
    BY <1>6, Zenon DEF AgentCrash, RuntimeRestart, env, status
  <2> QED
    BY <1>1, <2>1, Zenon
<1> QED
  BY <1>2, <1>3, <1>4, <1>5, <1>6, Zenon DEF Next, CallStep

(* Whatever the size of the node and whatever list is written: what every  *)
(* deny list since its start has denied is dropped for a VM that runs and  *)
(* is owned, from setupNetwork on, through the starts, stops, failures and *)
(* restarts of the others, unless two calls worked on the host network at  *)
(* once or a VM was started over what was left of it.                      *)
THEOREM PolicyKept == Spec => []EgressKept
<1>1. Init => KeptListed /\ EgressInv
  <2> SUFFICES ASSUME Init PROVE KeptListed /\ EgressInv
    BY Zenon
  <2>1. /\ alloc = NewAllocator /\ \A v \in VMs : procs[v] = NoProc /\ kept[v] = {}
        /\ \A s \in Slots : calls[s] = Idle
        /\ live = {}
    BY Zenon DEF Init
  <2>2. Counted
    BY <2>1, NoneCounted, Zenon DEF Counted
  <2>3. CallsHold /\ EntriesHold /\ Apart /\ StartsFresh /\ MachineGone
    BY <2>1, PCSets, Zenon DEF CallsHold, EntriesHold, Apart, StartsFresh, MachineGone
  <2>4. Enforced = {}
    BY <2>1, PCSets, Zenon DEF Enforced, Owned
  <2>5. RemovesLast /\ ListCovers /\ Enforces
    BY <2>1, <2>4, PCSets, Zenon DEF RemovesLast, ListCovers, Enforces
  <2> QED
    BY <2>1, <2>2, <2>3, <2>5, Zenon DEF BookInv, EgressInv, KeptListed
<1>2. EgressInv => EgressKept
  BY Zenon DEF EgressInv, Calm, Enforces, Enforced, EgressKept
<1> QED
  BY <1>1, <1>2, Typing, FilterInvariant, ListedStep, EgressStep, PTL DEF Spec
=============================================================================
