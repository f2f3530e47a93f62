------------------------- MODULE HostNetworkProofs -------------------------
(***************************************************************************)
(* Proofs about HostNetwork, for any nodes, VMs and addresses and any      *)
(* number of disturbances.                                                 *)
(***************************************************************************)
EXTENDS HostNetwork, FiniteSetTheorems, WellFoundedInduction, TLAPS

-----------------------------------------------------------------------------
(* The addresses and PIDs the steps choose.                                *)

(* A set of numbers has a least element, so the walk of Allocate comes to  *)
(* one of its candidates.                                                  *)
LEMMA FirstIn ==
  ASSUME NEW S \in SUBSET Nat, S # {}
  PROVE  First(S) \in S
<1>1. \E x \in S : \A y \in S : ~ (<<y, x>> \in OpToRel(<, Nat))
  BY NatLessThanWellFounded, WFMin, Zenon
<1>2. PICK x \in S : \A y \in S : ~ (<<y, x>> \in OpToRel(<, Nat))
  BY <1>1, Zenon
<1>3. \A y \in S : ~ (y < x)
  BY <1>2, Zenon DEF OpToRel
<1>4. \A y \in S : x <= y
  BY <1>3
<1> QED
  BY <1>4, Zenon DEF First

LEMMA CandidateIsAddress ==
  ASSUME NEW a \in Nat, Candidates(a) # {}
  PROVE  First(Candidates(a)) \in Addresses
<1>1. Candidates(a) \in SUBSET Nat /\ Candidates(a) \subseteq Addresses
  BY SubnetAssumption DEF Candidates, Addresses
<1> QED
  BY <1>1, FirstIn, Zenon

(* The entries of the procs map, and the calls, of one node.               *)
Entries(n) == {w \in VMs : procs[n][w] # NoProc}
InFlight(n) == {t \in Slots : calls[n][t] # Idle}

(* There are more PIDs than processes, entries and calls on a node.        *)
LEMMA NewPidExists ==
  ASSUME NEW n \in Nodes, IsFiniteSet(live[n]), Cardinality(live[n]) < MaxLive
  PROVE  NewPid(n) \in Pids
<1> DEFINE A == {p.pid : p \in live[n]}
           B == {procs[n][v].pid : v \in Entries(n)}
           C == {calls[n][s].pid : s \in InFlight(n)}
           f == [p \in live[n] |-> p.pid]
           g == [v \in Entries(n) |-> procs[n][v].pid]
           h == [s \in InFlight(n) |-> calls[n][s].pid]
<1>1. IsFiniteSet(A) /\ Cardinality(A) <= Cardinality(live[n])
  <2>1. f \in Surjection(live[n], A)
    BY Zenon DEF Surjection
  <2> QED
    BY <2>1, FS_Surjection, Zenon
<1>2. IsFiniteSet(Entries(n)) /\ Cardinality(Entries(n)) <= Cardinality(VMs)
  BY VMsAssumption, FS_Subset, Zenon DEF Entries
<1>3. IsFiniteSet(B) /\ Cardinality(B) <= Cardinality(Entries(n))
  <2>1. g \in Surjection(Entries(n), B)
    BY Zenon DEF Surjection
  <2> QED
    BY <1>2, <2>1, FS_Surjection, Zenon
<1>4. IsFiniteSet(Slots) /\ Cardinality(Slots) \in Nat
  <2>1. Slots = {"agent"} \cup {"orphan"}
    BY Zenon DEF Slots
  <2> QED
    BY <2>1, FS_Singleton, FS_AddElement, FS_CardinalityType, Zenon
<1>5. IsFiniteSet(InFlight(n)) /\ Cardinality(InFlight(n)) <= Cardinality(Slots)
  BY <1>4, FS_Subset, Zenon DEF InFlight
<1>6. IsFiniteSet(C) /\ Cardinality(C) <= Cardinality(InFlight(n))
  <2>1. h \in Surjection(InFlight(n), C)
    BY Zenon DEF Surjection
  <2> QED
    BY <1>5, <2>1, FS_Surjection, Zenon
<1>7. /\ Cardinality(live[n]) \in Nat /\ Cardinality(VMs) \in Nat
      /\ Cardinality(Entries(n)) \in Nat /\ Cardinality(InFlight(n)) \in Nat
      /\ Cardinality(A) \in Nat /\ Cardinality(B) \in Nat /\ Cardinality(C) \in Nat
  BY <1>1, <1>2, <1>3, <1>5, <1>6, VMsAssumption, FS_CardinalityType, Zenon
<1> HIDE DEF A, B, C, f, g, h
<1>8. /\ IsFiniteSet(A \cup B)
      /\ Cardinality(A \cup B) \in Nat
      /\ Cardinality(A \cup B) <= Cardinality(A) + Cardinality(B)
  <2>1. /\ IsFiniteSet(A \cup B)
        /\ Cardinality(A \cup B) = Cardinality(A) + Cardinality(B) - Cardinality(A \cap B)
    BY <1>1, <1>3, FS_Union, Zenon
  <2>2. Cardinality(A \cap B) \in Nat /\ Cardinality(A \cup B) \in Nat
    BY <1>1, <2>1, FS_Intersection, FS_CardinalityType, Zenon
  <2> QED
    BY <1>7, <2>1, <2>2
<1>9. /\ IsFiniteSet(A \cup B \cup C)
      /\ Cardinality(A \cup B \cup C) \in Nat
      /\ Cardinality(A \cup B \cup C) <= Cardinality(A \cup B) + Cardinality(C)
  <2>1. /\ IsFiniteSet(A \cup B \cup C)
        /\ Cardinality(A \cup B \cup C) =
             Cardinality(A \cup B) + Cardinality(C) - Cardinality((A \cup B) \cap C)
    BY <1>6, <1>8, FS_Union, Zenon
  <2>2. Cardinality((A \cup B) \cap C) \in Nat /\ Cardinality(A \cup B \cup C) \in Nat
    BY <1>8, <2>1, FS_Intersection, FS_CardinalityType, Zenon
  <2> QED
    BY <1>7, <1>8, <2>1, <2>2
<1>10. Cardinality(Pids) = MaxLive + Cardinality(VMs) + Cardinality(Slots) + 1
  <2>1. MaxLive + Cardinality(VMs) + Cardinality(Slots) + 1 \in Nat
    BY <1>4, <1>7, BoundAssumption
  <2> QED
    BY <2>1, FS_Interval DEF Pids
<1>11. Cardinality(A \cup B \cup C) < Cardinality(Pids)
  BY <1>1, <1>2, <1>3, <1>4, <1>5, <1>6, <1>7, <1>8, <1>9, <1>10, BoundAssumption
<1>12. Pids \ (A \cup B \cup C) # {}
  <2>1. SUFFICES ASSUME Pids \subseteq A \cup B \cup C PROVE FALSE
    BY Zenon
  <2>2. Cardinality(Pids) <= Cardinality(A \cup B \cup C)
    BY <1>9, <2>1, FS_Subset, Zenon
  <2> QED
    BY <1>9, <1>10, <1>11, <1>4, <1>7, <2>2, BoundAssumption
<1>13. Pids \ (A \cup B \cup C) \in SUBSET Nat
  BY DEF Pids
<1>14. First(Pids \ (A \cup B \cup C)) \in Pids
  BY <1>12, <1>13, FirstIn, Zenon
<1> QED
  BY <1>14, Zenon DEF NewPid, A, B, C, Entries, InFlight

-----------------------------------------------------------------------------
(* Type correctness.                                                       *)

NeedsAddress == StartPCs \cup {"release", "forget", "unnat"}

(* A Start has an address from the beginning, and a Stop that gives one    *)
(* back has one to give.                                                   *)
AddressKnown ==
  \A n \in Nodes, s \in Slots :
    calls[n][s] # Idle /\ calls[n][s].pc \in NeedsAddress => calls[n][s].ip # NoIP

Typed == TypeOK /\ AddressKnown /\ \A n \in Nodes : IsFiniteSet(live[n])

LEMMA CallFields ==
  ASSUME Typed, NEW n \in Nodes, NEW s \in Slots, calls[n][s] # Idle
  PROVE  /\ calls[n][s] \in Call
         /\ calls[n][s].vm \in VMs
         /\ calls[n][s].ip \in Addresses \cup {NoIP}
         /\ calls[n][s].pc \in NeedsAddress => calls[n][s].ip \in Addresses
BY DEF Typed, TypeOK, AddressKnown, Call

LEMMA AddressesAreNumbers == Addresses \subseteq Nat /\ NoIP \notin Addresses
BY SubnetAssumption DEF Addresses, NoIP

(* A call that moves on stays a call, and keeps what it is about.          *)
LEMMA CallMoves ==
  ASSUME NEW c \in Call, NEW x \in StartPCs \cup StopPCs
  PROVE  /\ [c EXCEPT !.pc = x] \in Call
         /\ [c EXCEPT !.pc = x] # Idle
         /\ [c EXCEPT !.pc = x].pc = x
         /\ [c EXCEPT !.pc = x].vm = c.vm
         /\ [c EXCEPT !.pc = x].ip = c.ip
         /\ [c EXCEPT !.pc = x].mem = c.mem
         /\ [c EXCEPT !.pc = x].pid = c.pid
BY DEF Call, Idle, StartPCs, StopPCs

LEMMA CallIsNotIdle == Idle \notin Call
BY Zenon DEF Idle, Call, StartPCs, StopPCs

(* What a step that lets one call go on does to the calls.                 *)
LEMMA GotoType ==
  ASSUME Typed, NEW n \in Nodes, NEW s \in Slots, NEW c \in Call \cup {Idle}, Goto(n, s, c),
         c # Idle /\ c.pc \in NeedsAddress => c.ip # NoIP
  PROVE  /\ calls' \in [Nodes -> [Slots -> Call \cup {Idle}]]
         /\ calls'[n][s] = c
         /\ \A m \in Nodes, t \in Slots : m # n \/ t # s => calls'[m][t] = calls[m][t]
         /\ AddressKnown'
<1>1. calls \in [Nodes -> [Slots -> Call \cup {Idle}]]
  BY Zenon DEF Typed, TypeOK
<1>2. calls' = [calls EXCEPT ![n][s] = c]
  BY Zenon DEF Goto
<1>3. /\ calls' \in [Nodes -> [Slots -> Call \cup {Idle}]]
      /\ calls'[n][s] = c
      /\ \A m \in Nodes, t \in Slots : m # n \/ t # s => calls'[m][t] = calls[m][t]
  BY <1>1, <1>2, Zenon
<1> QED
  BY <1>3 DEF Typed, AddressKnown

(* A call that takes a step to x.                                          *)
LEMMA MoveType ==
  ASSUME Typed, NEW n \in Nodes, NEW s \in Slots, calls[n][s] # Idle,
         NEW x \in StartPCs \cup StopPCs,
         x \in NeedsAddress => calls[n][s].ip # NoIP,
         Goto(n, s, [calls[n][s] EXCEPT !.pc = x])
  PROVE  calls' \in [Nodes -> [Slots -> Call \cup {Idle}]] /\ AddressKnown'
<1> DEFINE c == [calls[n][s] EXCEPT !.pc = x]
<1>1. calls[n][s] \in Call
  BY CallFields, Zenon
<1>2. c \in Call /\ c.pc = x /\ c.ip = calls[n][s].ip
  BY <1>1, CallMoves, Zenon
<1> HIDE DEF c
<1> QED
  BY <1>2, GotoType, Zenon DEF c

LEMMA IdleType ==
  ASSUME Typed, NEW n \in Nodes, NEW s \in Slots, Goto(n, s, Idle)
  PROVE  calls' \in [Nodes -> [Slots -> Call \cup {Idle}]] /\ AddressKnown'
BY GotoType, Zenon

LEMMA HistoryType ==
  ASSUME Typed, NEW k, NoEvent \/ Happens(k)
  PROVE  leftover' \in BOOLEAN /\ crashed' \in BOOLEAN /\ events' \in Nat
<1>1. leftover \in BOOLEAN /\ crashed \in BOOLEAN /\ events \in Nat
  BY Zenon DEF Typed, TypeOK
<1>2. leftover' = leftover
  BY Zenon DEF NoEvent, Happens
<1>3. events' \in Nat
  BY <1>1 DEF NoEvent, Happens
<1>4. crashed' \in BOOLEAN
  BY <1>1, Zenon DEF NoEvent, Happens
<1> QED
  BY <1>1, <1>2, <1>3, <1>4, Zenon

(* The allocator of a node stays one.                                      *)
LEMMA AllocatorType ==
  ASSUME NEW a \in [allocated : SUBSET Addresses, count : Nat], NEW ip \in Addresses
  PROVE  /\ Reserve(a, ip) \in [allocated : SUBSET Addresses, count : Nat]
         /\ Release(a, ip) \in [allocated : SUBSET Addresses, count : Nat]
         /\ NewAllocator \in [allocated : SUBSET Addresses, count : Nat]
BY DEF Reserve, Release, NewAllocator

(* The record of a VM stays one.                                           *)
LEMMA VMUpdateType ==
  ASSUME NEW o \in ImpVM
  PROVE  /\ [o EXCEPT !.phase = "Running", !.mem = NoIP] \in ImpVM
         /\ \A a \in Addresses \cup {NoIP} : [o EXCEPT !.phase = "Suspended", !.mem = a] \in ImpVM
         /\ \A x \in Phases : [o EXCEPT !.phase = x] \in ImpVM
         /\ [o EXCEPT !.phase = "Terminating", !.deleting = TRUE] \in ImpVM
<1>1. "Running" \in Phases /\ "Suspended" \in Phases /\ "Terminating" \in Phases
  BY Zenon DEF Phases
<1> QED
  BY <1>1, Zenon DEF ImpVM

LEMMA NATUpdateType ==
  ASSUME NEW f \in [Nodes -> BOOLEAN], NEW n \in Nodes, NEW b \in BOOLEAN
  PROVE  [f EXCEPT ![n] = b] \in [Nodes -> BOOLEAN]
BY Zenon

LEMMA InitTyped == Init => Typed
<1> SUFFICES ASSUME Init PROVE Typed
  BY Zenon
<1>1. vm \in [VMs -> ImpVM]
  BY Zenon DEF Init, ImpVM, Phases
<1>2. calls \in [Nodes -> [Slots -> Call \cup {Idle}]]
  BY Zenon DEF Init
<1>3. AddressKnown
  BY Zenon DEF Init, AddressKnown
<1>4. \A n \in Nodes : live[n] = {}
  BY Zenon DEF Init
<1>5. \A n \in Nodes : IsFiniteSet(live[n])
  BY <1>4, FS_EmptySet, Zenon
<1> QED
  BY <1>1, <1>2, <1>3, <1>5, Zenon DEF Init, Typed, TypeOK, NewAllocator

(* A Start or one of its steps.                                            *)
LEMMA StartTyped ==
  ASSUME Typed, NEW n \in Nodes, NEW s \in Slots, StartStep(n, s)
  PROVE  Typed'
<1> DEFINE c == calls[n][s]
<1>1. /\ c # Idle /\ c \in Call /\ c.vm \in VMs /\ c.ip \in Addresses \cup {NoIP}
      /\ c.pc \in NeedsAddress => c.ip \in Addresses /\ c.ip # NoIP
      /\ c.mem \in Addresses \cup {NoIP}
  BY CallFields, AddressesAreNumbers, Zenon DEF StartStep, Call
<1>2. {"create", "get", "setup", "boot", "undo", "undone", "unclaim", "unclaimed"} \subseteq StartPCs
  BY Zenon DEF StartPCs
<1>3. ASSUME ClaimCreate(n, s) PROVE Typed'
  <2>1. c.ip \in Addresses /\ c.ip # NoIP
    BY <1>1, <1>3, Zenon DEF ClaimCreate, NeedsAddress, StartPCs
  <2>2. calls' \in [Nodes -> [Slots -> Call \cup {Idle}]] /\ AddressKnown'
    BY <1>1, <1>2, <1>3, <2>1, MoveType, Zenon DEF ClaimCreate
  <2>3. lease' \in [Addresses -> VMs \cup {Free}]
    BY <1>1, <1>3, Zenon DEF ClaimCreate, Typed, TypeOK
  <2>4. leftover' \in BOOLEAN /\ crashed' \in BOOLEAN /\ events' \in Nat
    BY <1>3, HistoryType, Zenon DEF ClaimCreate
  <2> QED
    BY <1>3, <2>2, <2>3, <2>4, Zenon DEF ClaimCreate, Typed, TypeOK
<1>4. ASSUME ClaimGet(n, s) PROVE Typed'
  <2>1. c.ip \in Addresses /\ c.ip # NoIP
    BY <1>1, <1>4, Zenon DEF ClaimGet, NeedsAddress, StartPCs
  <2> DEFINE rest == Candidates(c.ip + 1)
             d == [c EXCEPT !.pc = "create", !.ip = First(rest)]
  <2>2. calls' \in [Nodes -> [Slots -> Call \cup {Idle}]] /\ AddressKnown' /\ vm' = vm
    <3>1. CASE Goto(n, s, [c EXCEPT !.pc = "setup"]) /\ UNCHANGED vm
      BY <1>1, <1>2, <2>1, <3>1, MoveType, Zenon
    <3>2. CASE rest # {} /\ Goto(n, s, d) /\ UNCHANGED vm
      <4>1. First(rest) \in Addresses /\ First(rest) # NoIP
        BY <2>1, <3>2, AddressesAreNumbers, CandidateIsAddress
      <4>2. d \in Call /\ d.ip # NoIP
        BY <1>1, <1>2, <4>1, Zenon DEF Call
      <4> HIDE DEF d
      <4> QED
        BY <3>2, <4>2, GotoType, Zenon
    <3>3. CASE ReturnError(n, s)
      BY <3>3, IdleType, Zenon DEF ReturnError
    <3> QED
      BY <1>4, <3>1, <3>2, <3>3, Zenon DEF ClaimGet
  <2>3. leftover' \in BOOLEAN /\ crashed' \in BOOLEAN /\ events' \in Nat
    BY <1>4, HistoryType, Zenon DEF ClaimGet
  <2> QED
    BY <1>4, <2>2, <2>3, Zenon DEF ClaimGet, Typed, TypeOK
<1>5. ASSUME SetupNetwork(n, s) \/ SetupFails(n, s) PROVE Typed'
  <2>1. c.ip \in Addresses /\ c.ip # NoIP
    BY <1>1, <1>5, Zenon DEF SetupNetwork, SetupFails, NeedsAddress, StartPCs
  <2>2. calls' \in [Nodes -> [Slots -> Call \cup {Idle}]] /\ AddressKnown'
    BY <1>1, <1>2, <1>5, <2>1, MoveType, Zenon DEF SetupNetwork, SetupFails
  <2>3. local' \in [Nodes -> [allocated : SUBSET Addresses, count : Nat]]
    <3>1. local' = [local EXCEPT ![n] = Reserve(@, c.ip)]
      BY <1>5, Zenon DEF SetupNetwork, SetupFails
    <3>2. local \in [Nodes -> [allocated : SUBSET Addresses, count : Nat]]
      BY Zenon DEF Typed, TypeOK
    <3>3. Reserve(local[n], c.ip) \in [allocated : SUBSET Addresses, count : Nat]
      BY <2>1, <3>2, AllocatorType, Zenon
    <3> QED
      BY <3>1, <3>2, <3>3, Zenon
  <2>4. tap' \in [Nodes -> SUBSET VMs] /\ nat' \in [Nodes -> BOOLEAN]
    <3>1. tap' \in {tap, [tap EXCEPT ![n] = @ \cup {c.vm}]} /\ nat' \in {nat, [nat EXCEPT ![n] = TRUE]}
      BY <1>5, Zenon DEF SetupNetwork, SetupFails
    <3>2. tap \in [Nodes -> SUBSET VMs] /\ nat \in [Nodes -> BOOLEAN]
      BY Zenon DEF Typed, TypeOK
    <3>3. tap' \in [Nodes -> SUBSET VMs]
      BY <1>1, <3>1, <3>2
    <3>4. nat' \in [Nodes -> BOOLEAN]
      BY <3>1, <3>2, NATUpdateType, Zenon
    <3> QED
      BY <3>3, <3>4, Zenon
  <2>5. leftover' \in BOOLEAN /\ crashed' \in BOOLEAN /\ events' \in Nat
    BY <1>5, HistoryType, Zenon DEF SetupNetwork, SetupFails
  <2> QED
    BY <1>5, <2>2, <2>3, <2>4, <2>5, Zenon DEF SetupNetwork, SetupFails, Typed, TypeOK
<1>6. ASSUME Boot(n, s) \/ BootUnreported(n, s) PROVE Typed'
  <2>1. /\ c.ip \in Addresses /\ c.ip # NoIP
        /\ Launch(n, s) /\ Cardinality(live[n]) < MaxLive
    BY <1>1, <1>6, Zenon DEF Boot, BootUnreported, Launch, NeedsAddress, StartPCs
  <2>2. calls' \in [Nodes -> [Slots -> Call \cup {Idle}]] /\ AddressKnown'
    BY <1>6, IdleType, Zenon DEF Boot, BootUnreported, Return, ReturnError
  <2>3. vm' \in [VMs -> ImpVM]
    <3>1. vm \in [VMs -> ImpVM]
      BY Zenon DEF Typed, TypeOK
    <3>2. [vm[c.vm] EXCEPT !.phase = "Running", !.mem = NoIP] \in ImpVM
      BY <1>1, <3>1, VMUpdateType, Zenon
    <3>3. vm' \in {vm, [vm EXCEPT ![c.vm] = [vm[c.vm] EXCEPT !.phase = "Running", !.mem = NoIP]]}
      BY <1>6, Zenon DEF Boot, BootUnreported, Return, ReturnError
    <3> QED
      BY <1>1, <3>1, <3>2, <3>3, Zenon
  <2>4. NewPid(n) \in Pids
    BY <2>1, NewPidExists, Zenon DEF Typed
  <2> DEFINE g == IF c.mem = NoIP THEN c.ip ELSE c.mem
             p == [pid |-> NewPid(n), vm |-> c.vm, ip |-> g]
             e == [pid |-> NewPid(n), ip |-> c.ip]
  <2>5. p \in [pid : Pids, vm : VMs, ip : Addresses] /\ e \in Entry
    BY <1>1, <2>1, <2>4, Zenon DEF Entry
  <2>6. live' = [live EXCEPT ![n] = @ \cup {p}] /\ procs' = [procs EXCEPT ![n][c.vm] = e]
    BY <2>1, Zenon DEF Launch
  <2> HIDE DEF p, e
  <2>7. /\ live' \in [Nodes -> SUBSET [pid : Pids, vm : VMs, ip : Addresses]]
        /\ \A m \in Nodes : live'[m] = IF m = n THEN live[n] \cup {p} ELSE live[m]
    BY <2>5, <2>6, Zenon DEF Typed, TypeOK
  <2>8. \A m \in Nodes : IsFiniteSet(live'[m])
    <3>1. \A m \in Nodes : IsFiniteSet(live[m])
      BY Zenon DEF Typed
    <3>2. IsFiniteSet(live[n] \cup {p})
      BY <3>1, FS_AddElement, Zenon
    <3> QED
      BY <2>7, <3>1, <3>2, Zenon
  <2>9. procs' \in [Nodes -> [VMs -> Entry \cup {NoProc}]]
    BY <1>1, <2>5, <2>6, Zenon DEF Typed, TypeOK
  <2>10. leftover' \in BOOLEAN /\ crashed' \in BOOLEAN /\ events' \in Nat
    <3>1. NoEvent \/ Happens("api")
      BY <1>6, Zenon DEF Boot, BootUnreported
    <3> QED
      BY <3>1, HistoryType, Zenon
  <2> QED
    BY <2>1, <2>2, <2>3, <2>7, <2>8, <2>9, <2>10, Zenon DEF Launch, Typed, TypeOK
<1>7. ASSUME BootFails(n, s) PROVE Typed'
  <2>1. c.ip # NoIP
    BY <1>1, <1>7, Zenon DEF BootFails, NeedsAddress, StartPCs
  <2>2. calls' \in [Nodes -> [Slots -> Call \cup {Idle}]] /\ AddressKnown'
    BY <1>1, <1>2, <1>7, <2>1, MoveType, Zenon DEF BootFails
  <2>3. leftover' \in BOOLEAN /\ crashed' \in BOOLEAN /\ events' \in Nat
    BY <1>7, HistoryType, Zenon DEF BootFails
  <2> QED
    BY <1>7, <2>2, <2>3, Zenon DEF BootFails, Typed, TypeOK
<1>8. ASSUME UndoClaim(n, s) PROVE Typed'
  <2>1. c.ip # NoIP
    BY <1>1, <1>8, Zenon DEF UndoClaim, NeedsAddress, StartPCs
  <2>2. calls' \in [Nodes -> [Slots -> Call \cup {Idle}]] /\ AddressKnown'
    <3>1. CASE c.pc = "undo"
      <4>1. Goto(n, s, [c EXCEPT !.pc = "undone"])
        BY <1>8, <3>1, Zenon DEF UndoClaim
      <4> QED
        BY <1>1, <1>2, <2>1, <4>1, MoveType, Zenon
    <3>2. CASE c.pc # "undo"
      <4>1. Goto(n, s, [c EXCEPT !.pc = "unclaimed"])
        BY <1>8, <3>2, Zenon DEF UndoClaim
      <4> QED
        BY <1>1, <1>2, <2>1, <4>1, MoveType, Zenon
    <3> QED
      BY <3>1, <3>2, Zenon
  <2>3. lease' \in [Addresses -> VMs \cup {Free}]
    BY <1>8, Zenon DEF UndoClaim, Released, Typed, TypeOK
  <2>4. leftover' \in BOOLEAN /\ crashed' \in BOOLEAN /\ events' \in Nat
    BY <1>8, HistoryType, Zenon DEF UndoClaim
  <2> QED
    BY <1>8, <2>2, <2>3, <2>4, Zenon DEF UndoClaim, Typed, TypeOK
<1>9. ASSUME UndoLocal(n, s) PROVE Typed'
  <2>1. c.ip \in Addresses
    BY <1>1, <1>9, Zenon DEF UndoLocal, NeedsAddress, StartPCs
  <2>2. calls' \in [Nodes -> [Slots -> Call \cup {Idle}]] /\ AddressKnown' /\ vm' = vm
    BY <1>9, IdleType, Zenon DEF UndoLocal, ReturnError
  <2>3. local' \in [Nodes -> [allocated : SUBSET Addresses, count : Nat]]
    BY <1>9, <2>1, AllocatorType, Zenon DEF UndoLocal, Typed, TypeOK
  <2>4. tap' \in [Nodes -> SUBSET VMs]
    BY <1>9, Zenon DEF UndoLocal, Typed, TypeOK
  <2>5. leftover' \in BOOLEAN /\ crashed' \in BOOLEAN /\ events' \in Nat
    BY <1>9, HistoryType, Zenon DEF UndoLocal
  <2> QED
    BY <1>9, <2>2, <2>3, <2>4, <2>5, Zenon DEF UndoLocal, Typed, TypeOK
<1> QED
  BY <1>3, <1>4, <1>5, <1>6, <1>7, <1>8, <1>9, Zenon DEF StartStep

(* A Stop or one of its steps.                                             *)
LEMMA StopTyped ==
  ASSUME Typed, NEW n \in Nodes, NEW s \in Slots, StopStep(n, s)
  PROVE  Typed'
<1> DEFINE c == calls[n][s]
<1>1. /\ c # Idle /\ c \in Call /\ c.vm \in VMs /\ c.ip \in Addresses \cup {NoIP}
      /\ c.pc \in NeedsAddress => c.ip \in Addresses /\ c.ip # NoIP
      /\ c.mem \in Addresses \cup {NoIP}
  BY CallFields, AddressesAreNumbers, Zenon DEF StopStep, Call
<1>2. /\ {"stop", "release", "forget", "unnat", "drop"} \subseteq StopPCs
      /\ "drop" \notin NeedsAddress
  BY Zenon DEF StopPCs, StartPCs, NeedsAddress
<1>3. ASSUME StopMachine(n, s) PROVE Typed'
  <2>1. calls' \in [Nodes -> [Slots -> Call \cup {Idle}]] /\ AddressKnown'
    <3>1. CASE c.ip = NoIP
      <4>1. Goto(n, s, [c EXCEPT !.pc = "drop"])
        BY <1>3, <3>1, Zenon DEF StopMachine
      <4> QED
        BY <1>1, <1>2, <4>1, MoveType, Zenon
    <3>2. CASE c.ip # NoIP
      <4>1. Goto(n, s, [c EXCEPT !.pc = "release"])
        BY <1>3, <3>2, Zenon DEF StopMachine
      <4> QED
        BY <1>1, <1>2, <3>2, <4>1, MoveType, Zenon
    <3> QED
      BY <3>1, <3>2, Zenon
  <2>2. tap' \in {tap, [tap EXCEPT ![n] = @ \ {c.vm}]}
    BY <1>3, Zenon DEF StopMachine
  <2>3. tap' \in [Nodes -> SUBSET VMs]
    <3>1. tap \in [Nodes -> SUBSET VMs]
      BY Zenon DEF Typed, TypeOK
    <3> QED
      BY <2>2, <3>1, Zenon
  <2>4. live' \in {live, [live EXCEPT ![n] = {p \in @ : p.pid # c.pid}]}
    BY <1>3, Zenon DEF StopMachine
  <2>5. /\ live' \in [Nodes -> SUBSET [pid : Pids, vm : VMs, ip : Addresses]]
        /\ \A m \in Nodes : live'[m] \subseteq live[m]
    <3>1. live \in [Nodes -> SUBSET [pid : Pids, vm : VMs, ip : Addresses]]
      BY Zenon DEF Typed, TypeOK
    <3>2. CASE live' = live
      BY <3>1, <3>2, Zenon
    <3>3. CASE live' = [live EXCEPT ![n] = {p \in live[n] : p.pid # c.pid}]
      <4> DEFINE Q == {p \in live[n] : p.pid # c.pid}
      <4>1. Q \subseteq live[n]
        BY Zenon
      <4> HIDE DEF Q
      <4> QED
        BY <3>1, <3>3, <4>1, Zenon DEF Q
    <3> QED
      BY <2>4, <3>2, <3>3, Zenon
  <2>6. \A m \in Nodes : IsFiniteSet(live'[m])
    BY <2>5, FS_Subset, Zenon DEF Typed
  <2>7. leftover' \in BOOLEAN /\ crashed' \in BOOLEAN /\ events' \in Nat
    BY <1>3, HistoryType, Zenon DEF StopMachine
  <2> QED
    BY <1>3, <2>1, <2>3, <2>5, <2>6, <2>7, Zenon DEF StopMachine, Typed, TypeOK
<1>4. ASSUME StopRelease(n, s) PROVE Typed'
  <2>1. c.ip # NoIP
    BY <1>1, <1>4, Zenon DEF StopRelease, NeedsAddress
  <2>2. calls' \in [Nodes -> [Slots -> Call \cup {Idle}]] /\ AddressKnown'
    BY <1>1, <1>2, <1>4, <2>1, MoveType, Zenon DEF StopRelease
  <2>3. lease' \in [Addresses -> VMs \cup {Free}]
    BY <1>4, Zenon DEF StopRelease, Released, Typed, TypeOK
  <2>4. leftover' \in BOOLEAN /\ crashed' \in BOOLEAN /\ events' \in Nat
    BY <1>4, HistoryType, Zenon DEF StopRelease
  <2> QED
    BY <1>4, <2>2, <2>3, <2>4, Zenon DEF StopRelease, Typed, TypeOK
<1>5. ASSUME StopForget(n, s) PROVE Typed'
  <2>1. c.ip \in Addresses /\ c.ip # NoIP
    BY <1>1, <1>5, Zenon DEF StopForget, NeedsAddress
  <2>2. calls' \in [Nodes -> [Slots -> Call \cup {Idle}]] /\ AddressKnown'
    <3>1. \/ Goto(n, s, [c EXCEPT !.pc = "unnat"])
          \/ Goto(n, s, [c EXCEPT !.pc = "drop"])
      BY <1>5, Zenon DEF StopForget
    <3> QED
      BY <1>1, <1>2, <2>1, <3>1, MoveType, Zenon
  <2>3. local' \in [Nodes -> [allocated : SUBSET Addresses, count : Nat]]
    BY <1>5, <2>1, AllocatorType, Zenon DEF StopForget, Typed, TypeOK
  <2>4. leftover' \in BOOLEAN /\ crashed' \in BOOLEAN /\ events' \in Nat
    BY <1>5, HistoryType, Zenon DEF StopForget
  <2> QED
    BY <1>5, <2>2, <2>3, <2>4, Zenon DEF StopForget, Typed, TypeOK
<1>6. ASSUME StopRemoveNAT(n, s) PROVE Typed'
  <2>1. calls' \in [Nodes -> [Slots -> Call \cup {Idle}]] /\ AddressKnown'
    BY <1>1, <1>2, <1>6, MoveType, Zenon DEF StopRemoveNAT
  <2>2. nat' \in [Nodes -> BOOLEAN]
    BY <1>6, NATUpdateType, Zenon DEF StopRemoveNAT, Typed, TypeOK
  <2>3. leftover' \in BOOLEAN /\ crashed' \in BOOLEAN /\ events' \in Nat
    BY <1>6, HistoryType, Zenon DEF StopRemoveNAT
  <2> QED
    BY <1>6, <2>1, <2>2, <2>3, Zenon DEF StopRemoveNAT, Typed, TypeOK
<1>7. ASSUME StopDrop(n, s) PROVE Typed'
  <2> DEFINE o == IF c.mem # NoIP THEN [vm[c.vm] EXCEPT !.phase = "Suspended", !.mem = c.mem]
                  ELSE [vm[c.vm] EXCEPT !.phase = "gone"]
  <2>1. calls' \in [Nodes -> [Slots -> Call \cup {Idle}]] /\ AddressKnown'
    BY <1>7, IdleType, Zenon DEF StopDrop, Return
  <2>2. vm \in [VMs -> ImpVM]
    BY Zenon DEF Typed, TypeOK
  <2>3. o \in ImpVM
    BY <1>1, <2>2, VMUpdateType, Zenon DEF Phases
  <2>4. vm' \in {vm, [vm EXCEPT ![c.vm] = o]}
    BY <1>7, Zenon DEF StopDrop, Return
  <2> HIDE DEF o
  <2>5. vm' \in [VMs -> ImpVM]
    BY <1>1, <2>2, <2>3, <2>4, Zenon
  <2>6. procs' \in [Nodes -> [VMs -> Entry \cup {NoProc}]]
    BY <1>1, <1>7, Zenon DEF StopDrop, Typed, TypeOK
  <2>7. leftover' \in BOOLEAN /\ crashed' \in BOOLEAN /\ events' \in Nat
    BY <1>7, HistoryType, Zenon DEF StopDrop
  <2> QED
    BY <1>7, <2>1, <2>5, <2>6, <2>7, Zenon DEF StopDrop, Typed, TypeOK
<1> QED
  BY <1>3, <1>4, <1>5, <1>6, <1>7, Zenon DEF StopStep

(* A failing call to the API server.                                       *)
LEMMA FailTyped ==
  ASSUME Typed, NEW n \in Nodes, NEW s \in Slots, ClaimFails(n, s) \/ ReleaseFails(n, s)
  PROVE  Typed'
<1> DEFINE c == calls[n][s]
<1>1. leftover' \in BOOLEAN /\ crashed' \in BOOLEAN /\ events' \in Nat
  BY HistoryType, Zenon DEF ClaimFails, ReleaseFails
<1>2. CASE ClaimFails(n, s)
  <2>1. calls' \in [Nodes -> [Slots -> Call \cup {Idle}]] /\ AddressKnown'
    BY <1>2, IdleType, Zenon DEF ClaimFails, ReturnError
  <2> QED
    BY <1>1, <1>2, <2>1, Zenon DEF ClaimFails, ReturnError, Typed, TypeOK
<1>3. CASE ReleaseFails(n, s)
  <2>1. c # Idle /\ c.ip # NoIP
    BY <1>3, CallFields, AddressesAreNumbers, Zenon DEF ReleaseFails, NeedsAddress, StartPCs
  <2>2. \/ Goto(n, s, [c EXCEPT !.pc = "undone"])
        \/ Goto(n, s, [c EXCEPT !.pc = "unclaimed"])
        \/ Goto(n, s, [c EXCEPT !.pc = "forget"])
    BY <1>3, Zenon DEF ReleaseFails
  <2>3. {"undone", "unclaimed", "forget"} \subseteq StartPCs \cup StopPCs
    BY Zenon DEF StartPCs, StopPCs
  <2>4. calls' \in [Nodes -> [Slots -> Call \cup {Idle}]] /\ AddressKnown'
    BY <2>1, <2>2, <2>3, MoveType, Zenon
  <2> QED
    BY <1>1, <1>3, <2>4, Zenon DEF ReleaseFails, Typed, TypeOK
<1> QED
  BY <1>2, <1>3, Zenon

(* The beginning of a call.                                                *)
LEMMA BeginTyped ==
  ASSUME Typed, NEW n \in Nodes, NEW v \in VMs,
         BeginStart(n, v) \/ BeginStop(n, v) \/ BeginSuspend(n, v)
  PROVE  Typed'
<1>1. /\ vm \in [VMs -> ImpVM] /\ vm[v] \in ImpVM
      /\ vm[v].mem \in Addresses \cup {NoIP}
      /\ procs[n][v] \in Entry \cup {NoProc}
      /\ overlapped \subseteq VMs
  BY DEF Typed, TypeOK, ImpVM
<1>2. overlapped' \subseteq VMs
  BY <1>1, Zenon DEF BeginStart, BeginStop, BeginSuspend, Overlaps
<1>3. "agent" \in Slots /\ "create" \in StartPCs /\ "stop" \in StopPCs /\ "stop" \notin NeedsAddress
  BY Zenon DEF Slots, StartPCs, StopPCs, NeedsAddress
<1>4. ASSUME BeginStart(n, v) PROVE Typed'
  <2> DEFINE a == First(Candidates(1))
             c == [pc |-> "create", vm |-> v, ip |-> a, mem |-> vm[v].mem, pid |-> 0]
  <2>1. a \in Addresses /\ a # NoIP
    BY <1>4, CandidateIsAddress, AddressesAreNumbers, Zenon DEF BeginStart
  <2>2. c \in Call /\ c.ip # NoIP
    BY <1>1, <1>3, <2>1, Zenon DEF Call
  <2>3. Goto(n, "agent", c)
    BY <1>4, Zenon DEF BeginStart
  <2> HIDE DEF c
  <2>4. calls' \in [Nodes -> [Slots -> Call \cup {Idle}]] /\ AddressKnown'
    BY <1>3, <2>2, <2>3, GotoType, Zenon
  <2>5. vm' \in [VMs -> ImpVM]
    <3>1. PICK x \in Phases : vm' = [vm EXCEPT ![v].phase = x]
      BY <1>1, <1>4, Zenon DEF BeginStart, ImpVM, Phases
    <3> QED
      BY <1>1, <3>1, VMUpdateType, Zenon
  <2>6. leftover' \in BOOLEAN
    <3>1. leftover \in BOOLEAN
      BY Zenon DEF Typed, TypeOK
    <3> QED
      BY <1>4, <3>1, Zenon DEF BeginStart
  <2> QED
    BY <1>2, <1>4, <2>4, <2>5, <2>6, Zenon DEF BeginStart, Typed, TypeOK
<1>5. ASSUME BeginStop(n, v) PROVE Typed'
  <2>1. leftover' \in BOOLEAN /\ crashed' \in BOOLEAN /\ events' \in Nat
    BY <1>5, HistoryType, Zenon DEF BeginStop
  <2>2. CASE procs[n][v] = NoProc
    <3>1. vm' = [vm EXCEPT ![v].phase = "gone"] /\ calls' = calls
      BY <1>5, <2>2, Zenon DEF BeginStop
    <3>2. vm' \in [VMs -> ImpVM]
      BY <1>1, <3>1, VMUpdateType, Zenon DEF Phases
    <3>3. AddressKnown'
      BY <3>1, Zenon DEF Typed, AddressKnown
    <3> QED
      BY <1>2, <1>5, <2>1, <3>1, <3>2, <3>3, Zenon DEF BeginStop, Typed, TypeOK
  <2>3. CASE procs[n][v] # NoProc
    <3> DEFINE c == [pc |-> "stop", vm |-> v, ip |-> procs[n][v].ip, mem |-> NoIP,
                     pid |-> procs[n][v].pid]
    <3>1. c \in Call /\ c.pc = "stop"
      BY <1>1, <1>3, <2>3, Zenon DEF Call, Entry
    <3>2. Goto(n, "agent", c) /\ vm' = vm
      BY <1>5, <2>3, Zenon DEF BeginStop
    <3> HIDE DEF c
    <3>3. calls' \in [Nodes -> [Slots -> Call \cup {Idle}]] /\ AddressKnown'
      BY <1>3, <3>1, <3>2, GotoType, Zenon
    <3> QED
      BY <1>2, <1>5, <2>1, <3>2, <3>3, Zenon DEF BeginStop, Typed, TypeOK
  <2> QED
    BY <2>2, <2>3, Zenon
<1>6. ASSUME BeginSuspend(n, v) PROVE Typed'
  <2>1. leftover' \in BOOLEAN /\ crashed' \in BOOLEAN /\ events' \in Nat
    BY <1>6, HistoryType, Zenon DEF BeginSuspend
  <2>2. PICK p \in Alive(n, v) :
          Goto(n, "agent", [pc |-> "stop", vm |-> v, ip |-> procs[n][v].ip, mem |-> p.ip,
                            pid |-> procs[n][v].pid])
    BY <1>6, Zenon DEF BeginSuspend
  <2>3. p.ip \in Addresses /\ procs[n][v] \in Entry
    BY <1>1, <1>6 DEF Alive, Typed, TypeOK, BeginSuspend
  <2> DEFINE c == [pc |-> "stop", vm |-> v, ip |-> procs[n][v].ip, mem |-> p.ip,
                   pid |-> procs[n][v].pid]
  <2>4. c \in Call /\ c.pc = "stop"
    BY <1>3, <2>3, Zenon DEF Call, Entry
  <2>5. Goto(n, "agent", c)
    BY <2>2, Zenon
  <2> HIDE DEF c
  <2>6. calls' \in [Nodes -> [Slots -> Call \cup {Idle}]] /\ AddressKnown'
    BY <1>3, <2>4, <2>5, GotoType, Zenon
  <2> QED
    BY <1>2, <1>6, <2>1, <2>6, Zenon DEF BeginSuspend, Typed, TypeOK
<1> QED
  BY <1>4, <1>5, <1>6, Zenon

(* The other reconciles.                                                   *)
LEMMA ReconcileTyped ==
  ASSUME Typed, NEW n, NEW v \in VMs,
         \/ n \in Nodes /\ (Inspect(n, v) \/ StartTimeout(n, v) \/ Schedule(n, v))
         \/ Terminate(v) \/ Suspend(v) \/ Resume(v)
  PROVE  Typed'
<1>1. vm \in [VMs -> ImpVM] /\ vm[v] \in ImpVM
  BY Zenon DEF Typed, TypeOK
<1>2. vm' \in [VMs -> ImpVM]
  <2>1. CASE \E x \in Phases : vm' = [vm EXCEPT ![v].phase = x]
    BY <1>1, <2>1, VMUpdateType, Zenon
  <2>2. CASE vm' = vm
    BY <1>1, <2>2, Zenon
  <2>3. CASE Terminate(v)
    <3>1. vm' = [vm EXCEPT ![v] = [vm[v] EXCEPT !.phase = "Terminating", !.deleting = TRUE]]
      BY <1>1, <2>3, Zenon DEF Terminate
    <3> QED
      BY <1>1, <3>1, VMUpdateType, Zenon
  <2>4. CASE n \in Nodes /\ Schedule(n, v)
    <3> DEFINE o == [phase |-> "Scheduled", node |-> n, deleting |-> FALSE,
                     mem |-> IF vm[v].phase = "Failed" THEN vm[v].mem ELSE NoIP]
    <3>1. o \in ImpVM
      BY <1>1, <2>4, Zenon DEF ImpVM, Phases
    <3>2. vm' = [vm EXCEPT ![v] = o]
      BY <2>4, Zenon DEF Schedule
    <3> HIDE DEF o
    <3> QED
      BY <1>1, <3>1, <3>2, Zenon
  <2> QED
    BY <2>1, <2>2, <2>3, <2>4, Zenon DEF Inspect, StartTimeout, Suspend, Resume, Phases
<1>3. leftover' \in BOOLEAN /\ crashed' \in BOOLEAN /\ events' \in Nat
  <2>1. NoEvent \/ Happens("move") \/ Happens("recreate") \/ Happens("suspend")
    BY Zenon DEF Inspect, StartTimeout, Schedule, Terminate, Suspend, Resume
  <2> QED
    BY <2>1, HistoryType, Zenon
<1>4. Frame /\ live' = live
  BY Zenon DEF Inspect, StartTimeout, Schedule, Terminate, Suspend, Resume
<1>5. procs' \in [Nodes -> [VMs -> Entry \cup {NoProc}]]
  <2>1. procs \in [Nodes -> [VMs -> Entry \cup {NoProc}]]
    BY Zenon DEF Typed, TypeOK
  <2>2. CASE procs' = procs \/ procs' = [procs EXCEPT ![n][v] = NoProc]
    BY <2>1, <2>2
  <2>3. CASE /\ n \in Nodes
             /\ \E p \in Alive(n, v) : procs' = [procs EXCEPT ![n][v] = [pid |-> p.pid, ip |-> NoIP]]
    <3>1. PICK p \in Alive(n, v) : procs' = [procs EXCEPT ![n][v] = [pid |-> p.pid, ip |-> NoIP]]
      BY <2>3, Zenon
    <3>2. [pid |-> p.pid, ip |-> NoIP] \in Entry
      BY <2>3 DEF Alive, Entry, Typed, TypeOK
    <3> QED
      BY <2>1, <3>1, <3>2, Zenon
  <2> QED
    BY <2>2, <2>3, Zenon DEF Inspect, StartTimeout, Schedule, Terminate, Suspend, Resume
<1>6. AddressKnown'
  BY <1>4, Zenon DEF Frame, Typed, AddressKnown
<1> QED
  BY <1>2, <1>3, <1>4, <1>5, <1>6, Zenon DEF Frame, Typed, TypeOK

(* What fails on a node.                                                   *)
LEMMA NodeTyped ==
  ASSUME Typed, NEW n \in Nodes, AgentCrash(n) \/ RuntimeRestart(n) \/ ProcessExit(n)
  PROVE  Typed'
<1>1. leftover' \in BOOLEAN /\ crashed' \in BOOLEAN /\ events' \in Nat
  BY HistoryType, Zenon DEF AgentCrash, RuntimeRestart, ProcessExit
<1>2. ASSUME AgentCrash(n) PROVE Typed'
  <2>1. calls' = [calls EXCEPT ![n] = [agent |-> Idle, orphan |-> calls[n]["agent"]]]
    BY <1>2, Zenon DEF AgentCrash
  <2>2. [agent |-> Idle, orphan |-> calls[n]["agent"]] \in [Slots -> Call \cup {Idle}]
    BY DEF Slots, Typed, TypeOK
  <2>3. calls' \in [Nodes -> [Slots -> Call \cup {Idle}]]
    BY <2>1, <2>2, Zenon DEF Typed, TypeOK
  <2>4. AddressKnown'
    BY <2>1 DEF Slots, Typed, TypeOK, AddressKnown
  <2> QED
    BY <1>1, <1>2, <2>3, <2>4, Zenon DEF AgentCrash, Typed, TypeOK
<1>3. ASSUME RuntimeRestart(n) PROVE Typed'
  <2>1. /\ local' \in [Nodes -> [allocated : SUBSET Addresses, count : Nat]]
        /\ procs' \in [Nodes -> [VMs -> Entry \cup {NoProc}]]
        /\ calls' \in [Nodes -> [Slots -> Call \cup {Idle}]]
    BY <1>3, Zenon DEF RuntimeRestart, NewAllocator, Typed, TypeOK
  <2>2. live' \in {live, [live EXCEPT ![n] = {}]}
    BY <1>3, Zenon DEF RuntimeRestart
  <2>3. /\ live' \in [Nodes -> SUBSET [pid : Pids, vm : VMs, ip : Addresses]]
        /\ \A m \in Nodes : live'[m] \subseteq live[m]
    BY <2>2, Zenon DEF Typed, TypeOK
  <2>4. \A m \in Nodes : IsFiniteSet(live'[m])
    BY <2>3, FS_Subset, Zenon DEF Typed
  <2>5. AddressKnown'
    BY <1>3, Zenon DEF RuntimeRestart, Typed, TypeOK, AddressKnown
  <2> QED
    BY <1>1, <1>3, <2>1, <2>3, <2>4, <2>5, Zenon DEF RuntimeRestart, Typed, TypeOK
<1>4. ASSUME ProcessExit(n) PROVE Typed'
  <2>1. PICK p \in live[n] : live' = [live EXCEPT ![n] = @ \ {p}]
    BY <1>4, Zenon DEF ProcessExit
  <2>2. /\ live' \in [Nodes -> SUBSET [pid : Pids, vm : VMs, ip : Addresses]]
        /\ \A m \in Nodes : live'[m] \subseteq live[m]
    BY <2>1, Zenon DEF Typed, TypeOK
  <2>3. \A m \in Nodes : IsFiniteSet(live'[m])
    BY <2>2, FS_Subset, Zenon DEF Typed
  <2>4. Frame /\ vm' = vm /\ procs' = procs
    BY <1>4, Zenon DEF ProcessExit
  <2>5. AddressKnown'
    BY <2>4, Zenon DEF Frame, Typed, AddressKnown
  <2> QED
    BY <1>1, <2>2, <2>3, <2>4, <2>5, Zenon DEF Frame, Typed, TypeOK
<1> QED
  BY <1>2, <1>3, <1>4, Zenon

LEMMA StutterTyped == Typed /\ UNCHANGED vars => Typed'
BY Zenon DEF vars, Typed, TypeOK, AddressKnown

LEMMA TypedStep == Typed /\ [Next]_vars => Typed'
BY StartTyped, StopTyped, FailTyped, BeginTyped, ReconcileTyped, NodeTyped, StutterTyped, Zenon DEF Next

-----------------------------------------------------------------------------
(* The inductive invariant behind OwnedKeepsItsNetwork: what holds of a VM *)
(* that is not overlapped.                                                 *)

Busy(n, s, v) == calls[n][s] # Idle /\ calls[n][s].vm = v

NoGuest(v) == \A m \in Nodes : Alive(m, v) = {}

(* There is one call of it at a time, on whatever node, and one process.   *)
OneCall(v) ==
  \A n, m \in Nodes : \A s, t \in Slots : Busy(n, s, v) /\ Busy(m, t, v) => n = m /\ s = t

OneProcess(v) ==
  \A n, m \in Nodes : \A p \in Alive(n, v), q \in Alive(m, v) : n = m /\ p.pid = q.pid

(* An entry on the node of its process is that of the process.             *)
EntryNames(v) ==
  \A n \in Nodes : \A p \in Alive(n, v) :
    procs[n][v] = NoProc \/ procs[n][v].pid = p.pid

(* It has no process while a Start is under way or a Stop gives back what  *)
(* it had; a Start that has made its claim holds the Lease, and the TAP    *)
(* once the host is prepared; a Stop is about to stop the right process.   *)
CallHolds(n, s, v) ==
  /\ calls[n][s].pc \in NeedsAddress => NoGuest(v)
  /\ calls[n][s].pc \in {"setup", "boot"} => lease[calls[n][s].ip] = v
  /\ calls[n][s].pc = "boot" => v \in tap[n]
  /\ calls[n][s].pc = "stop" =>
       \A m \in Nodes : \A p \in Alive(m, v) : m = n /\ p.pid = calls[n][s].pid

Kept(v) ==
  \A n \in Nodes : v \in Owned(n) => v \in tap[n] /\ lease[procs[n][v].ip] = v

Sound(v) ==
  /\ OneCall(v)
  /\ OneProcess(v)
  /\ EntryNames(v)
  /\ \A n \in Nodes, s \in Slots : Busy(n, s, v) => CallHolds(n, s, v)
  /\ Kept(v)

NetInv == \A v \in VMs : v \in overlapped \/ Sound(v)

(* A step that leaves a VM no more than it had, and no less of its Leases  *)
(* and its TAPs.                                                           *)
Stable(v) ==
  /\ \A n \in Nodes, s \in Slots :
       Busy(n, s, v)' => Busy(n, s, v) /\ calls'[n][s] = calls[n][s]
  /\ \A n \in Nodes : Alive(n, v)' \subseteq Alive(n, v)
  /\ \A n \in Nodes : procs'[n][v] \in {NoProc, procs[n][v]}
  /\ \A a \in Addresses : lease[a] = v => lease'[a] = v
  /\ \A n \in Nodes : v \in tap[n] => v \in tap'[n]

LEMMA StableKeeps ==
  ASSUME Typed, NEW v \in VMs, Sound(v), Stable(v)
  PROVE  Sound(v)'
<1>1. OneCall(v)'
  BY Zenon DEF Sound, Stable, OneCall
<1>2. OneProcess(v)'
  BY DEF Sound, Stable, OneProcess
<1>3. EntryNames(v)'
  BY DEF Sound, Stable, EntryNames
<1>4. ASSUME NEW n \in Nodes, NEW s \in Slots, Busy(n, s, v)' PROVE CallHolds(n, s, v)'
  <2>1. Busy(n, s, v) /\ calls'[n][s] = calls[n][s] /\ CallHolds(n, s, v)
    BY <1>4, Zenon DEF Stable, Sound
  <2>2. calls[n][s].pc \in NeedsAddress => calls[n][s].ip \in Addresses
    BY <2>1, CallFields, Zenon DEF Busy
  <2>3. NoGuest(v) => NoGuest(v)'
    BY Zenon DEF Stable, NoGuest
  <2>4. "setup" \in NeedsAddress /\ "boot" \in NeedsAddress
    BY Zenon DEF NeedsAddress, StartPCs
  <2> QED
    BY <2>1, <2>2, <2>3, <2>4 DEF CallHolds, Stable
<1>5. Kept(v)'
  <2> SUFFICES ASSUME NEW n \in Nodes, v \in Owned(n)'
               PROVE  v \in tap'[n] /\ lease'[procs'[n][v].ip] = v
    BY Zenon DEF Kept
  <2>1. procs'[n][v] = procs[n][v] /\ v \in Owned(n)
    BY Zenon DEF Owned, Stable
  <2>2. procs[n][v].ip \in Addresses
    BY <2>1 DEF Owned, Typed, TypeOK, Entry
  <2>3. v \in tap[n] /\ lease[procs[n][v].ip] = v
    BY <2>1, Zenon DEF Sound, Kept
  <2> QED
    BY <2>1, <2>2, <2>3, Zenon DEF Stable
<1> QED
  BY <1>1, <1>2, <1>3, <1>4, <1>5, Zenon DEF Sound

(* Nothing that a VM's state is made of changes.                           *)
LEMMA SameIsStable ==
  ASSUME NEW v \in VMs, UNCHANGED <<lease, procs, live, tap, calls>>
  PROVE  Stable(v)
BY Zenon DEF Stable, Busy, Alive

(* What one call does to the calls of other VMs, and to its own.           *)
LEMMA GotoOthers ==
  ASSUME Typed, NEW n \in Nodes, NEW s \in Slots, NEW d, Goto(n, s, d),
         NEW v, d = Idle \/ d.vm # v
  PROVE  \A m \in Nodes, t \in Slots :
           Busy(m, t, v)' => Busy(m, t, v) /\ calls'[m][t] = calls[m][t]
<1>1. calls \in [Nodes -> [Slots -> Call \cup {Idle}]] /\ calls' = [calls EXCEPT ![n][s] = d]
  BY Zenon DEF Typed, TypeOK, Goto
<1>2. calls'[n][s] = d /\ \A m \in Nodes, t \in Slots : m # n \/ t # s => calls'[m][t] = calls[m][t]
  BY <1>1, Zenon
<1> QED
  BY <1>2, Zenon DEF Busy

LEMMA GotoOwn ==
  ASSUME Typed, NEW n \in Nodes, NEW s \in Slots, NEW d, Goto(n, s, d),
         NEW v, \A m \in Nodes, t \in Slots : Busy(m, t, v) => m = n /\ t = s
  PROVE  /\ calls'[n][s] = d
         /\ \A m \in Nodes, t \in Slots : Busy(m, t, v)' => m = n /\ t = s
<1>1. calls \in [Nodes -> [Slots -> Call \cup {Idle}]] /\ calls' = [calls EXCEPT ![n][s] = d]
  BY Zenon DEF Typed, TypeOK, Goto
<1>2. calls'[n][s] = d /\ \A m \in Nodes, t \in Slots : m # n \/ t # s => calls'[m][t] = calls[m][t]
  BY <1>1, Zenon
<1> QED
  BY <1>2 DEF Busy

(* A call of the VM goes on while the VM has no process.                   *)
LEMMA OwnMoves ==
  ASSUME Typed, NEW n \in Nodes, NEW s \in Slots, NEW d, Goto(n, s, d),
         NEW v \in VMs, \A m \in Nodes, t \in Slots : Busy(m, t, v) => m = n /\ t = s,
         NoGuest(v)',
         d.pc \in {"setup", "boot"} => lease'[d.ip] = v,
         d.pc = "boot" => v \in tap'[n]
  PROVE  Sound(v)'
<1>1. /\ calls'[n][s] = d
      /\ \A m \in Nodes, t \in Slots : Busy(m, t, v)' => m = n /\ t = s
  BY GotoOwn, Zenon
<1>2. OneCall(v)'
  BY <1>1, Zenon DEF OneCall
<1>3. OneProcess(v)' /\ EntryNames(v)'
  BY Zenon DEF OneProcess, EntryNames, NoGuest
<1>4. \A m \in Nodes, t \in Slots : Busy(m, t, v)' => CallHolds(m, t, v)'
  BY <1>1, Zenon DEF CallHolds, NoGuest
<1>5. Kept(v)'
  BY Zenon DEF Kept, Owned, NoGuest
<1> QED
  BY <1>2, <1>3, <1>4, <1>5, Zenon DEF Sound

LEMMA OwnMovesTo ==
  ASSUME Typed, NEW n \in Nodes, NEW s \in Slots, NEW v \in VMs, Busy(n, s, v), Sound(v),
         NEW x \in StartPCs \cup StopPCs, Goto(n, s, [calls[n][s] EXCEPT !.pc = x]),
         NoGuest(v)',
         x \in {"setup", "boot"} => lease'[calls[n][s].ip] = v,
         x = "boot" => v \in tap'[n]
  PROVE  Sound(v)'
<1> DEFINE d == [calls[n][s] EXCEPT !.pc = x]
<1>1. calls[n][s] \in Call
  BY CallFields, Zenon DEF Busy
<1>2. d.pc = x /\ d.ip = calls[n][s].ip
  BY <1>1, CallMoves, Zenon
<1>3. \A m \in Nodes, t \in Slots : Busy(m, t, v) => m = n /\ t = s
  BY Zenon DEF Sound, OneCall
<1>4. Goto(n, s, d)
  BY Zenon
<1> HIDE DEF d
<1> QED
  BY <1>2, <1>3, <1>4, OwnMoves, Zenon

(* The Lease of a VM is released only by a call of that VM.                *)
LEMMA ReleasedOthers ==
  ASSUME Typed, NEW ip, NEW w, NEW v, w # v, lease' = Released(lease, ip, w)
  PROVE  \A a \in Addresses : lease[a] = v => lease'[a] = v
BY Zenon DEF Released, Typed, TypeOK

(* A step of a Start changes nothing for other VMs.                        *)
LEMMA StartOthers ==
  ASSUME Typed, NEW n \in Nodes, NEW s \in Slots, StartStep(n, s),
         NEW v \in VMs, calls[n][s].vm # v
  PROVE  Stable(v)
<1> DEFINE c == calls[n][s]
<1>0. c # Idle /\ c \in Call /\ (c.pc \in NeedsAddress => c.ip \in Addresses)
  BY CallFields, Zenon DEF StartStep
<1>1. \A m \in Nodes, t \in Slots :
        Busy(m, t, v)' => Busy(m, t, v) /\ calls'[m][t] = calls[m][t]
  <2>1. PICK d : Goto(n, s, d) /\ (d = Idle \/ d.vm = c.vm)
    <3>1. \A x : [c EXCEPT !.pc = x].vm = c.vm
      BY <1>0, Zenon DEF Call
    <3>2. \A a : [c EXCEPT !.pc = "create", !.ip = a].vm = c.vm
      BY <1>0, Zenon DEF Call
    <3> QED
      BY <3>1, <3>2, Zenon DEF StartStep, ClaimCreate, ClaimGet, SetupNetwork, SetupFails, Boot,
         BootUnreported, BootFails, UndoClaim, UndoLocal, Return, ReturnError
  <2> QED
    BY <2>1, GotoOthers
<1>2. \A a \in Addresses : lease[a] = v => lease'[a] = v
  <2>1. CASE ClaimCreate(n, s)
    <3>1. lease' = lease \/ (lease[c.ip] = Free /\ lease' = [lease EXCEPT ![c.ip] = c.vm])
      BY <2>1, Zenon DEF ClaimCreate
    <3> QED
      BY <3>1, AbsentAssumption DEF Typed, TypeOK
  <2>2. CASE UndoClaim(n, s)
    BY <2>2, ReleasedOthers, ZenonT(60) DEF UndoClaim
  <2>3. CASE lease' = lease
    BY <2>3, Zenon
  <2> QED
    BY <2>1, <2>2, <2>3, Zenon DEF StartStep, ClaimGet, SetupNetwork, SetupFails, Boot,
       BootUnreported, Launch, BootFails, UndoLocal
<1>3. \A m \in Nodes : v \in tap[m] => v \in tap'[m]
  <2>1. tap' \in {tap, [tap EXCEPT ![n] = @ \cup {c.vm}], [tap EXCEPT ![n] = @ \ {c.vm}]}
    BY Zenon DEF StartStep, ClaimCreate, ClaimGet, SetupNetwork, SetupFails, Boot,
       BootUnreported, Launch, BootFails, UndoClaim, UndoLocal
  <2>2. tap \in [Nodes -> SUBSET VMs]
    BY Zenon DEF Typed, TypeOK
  <2> QED
    BY <2>1, <2>2, Zenon
<1>4. /\ \A m \in Nodes : Alive(m, v)' \subseteq Alive(m, v)
      /\ \A m \in Nodes : procs'[m][v] \in {NoProc, procs[m][v]}
  <2>1. CASE Boot(n, s) \/ BootUnreported(n, s)
    <3>1. PICK p, e : p.vm = c.vm /\ live' = [live EXCEPT ![n] = @ \cup {p}]
                      /\ procs' = [procs EXCEPT ![n][c.vm] = e]
      BY <2>1, Zenon DEF Boot, BootUnreported, Launch
    <3> QED
      BY <3>1, Zenon DEF Alive, Typed, TypeOK
  <2>2. CASE live' = live /\ procs' = procs
    BY <2>2, Zenon DEF Alive
  <2> QED
    BY <2>1, <2>2, Zenon DEF StartStep, ClaimCreate, ClaimGet, SetupNetwork, SetupFails,
       BootFails, UndoClaim, UndoLocal
<1> QED
  BY <1>1, <1>2, <1>3, <1>4, Zenon DEF Stable

(* A step of a Start and the VM it starts.                                 *)
LEMMA StartOwn ==
  ASSUME Typed, NEW n \in Nodes, NEW s \in Slots, StartStep(n, s),
         NEW v \in VMs, calls[n][s].vm = v, Sound(v)
  PROVE  Sound(v)'
<1> DEFINE c == calls[n][s]
<1>1. /\ c # Idle /\ c \in Call /\ (c.pc \in NeedsAddress => c.ip \in Addresses)
      /\ StartPCs \subseteq NeedsAddress
  BY CallFields, Zenon DEF StartStep, NeedsAddress
<1>2. Busy(n, s, v) /\ CallHolds(n, s, v)
  BY <1>1, Zenon DEF Busy, Sound
<1>3. \A m \in Nodes, t \in Slots : Busy(m, t, v) => m = n /\ t = s
  BY <1>2, Zenon DEF Sound, OneCall
<1>4. c.pc \in StartPCs /\ c.ip \in Addresses /\ NoGuest(v)
  <2>1. c.pc \in StartPCs
    BY Zenon DEF StartStep, ClaimCreate, ClaimGet, SetupNetwork, SetupFails, Boot,
       BootUnreported, Launch, BootFails, UndoClaim, UndoLocal, StartPCs
  <2> QED
    BY <1>1, <1>2, <2>1, Zenon DEF CallHolds
<1>6. {"create", "get", "setup", "boot", "undo", "undone", "unclaim", "unclaimed"} \subseteq StartPCs
  BY Zenon DEF StartPCs
<1>7. Idle.pc = "idle"
  BY Zenon DEF Idle
<1>8. live' = live => NoGuest(v)'
  BY <1>4, Zenon DEF NoGuest, Alive
<1>9. CASE ClaimCreate(n, s)
  <2>1. CASE lease' = [lease EXCEPT ![c.ip] = c.vm] /\ Goto(n, s, [c EXCEPT !.pc = "setup"])
    <3>1. lease'[c.ip] = v
      BY <1>4, <2>1, Zenon DEF Typed, TypeOK
    <3> QED
      BY <1>2, <1>6, <1>8, <1>9, <2>1, <3>1, OwnMovesTo, Zenon DEF ClaimCreate
  <2>2. CASE Goto(n, s, [c EXCEPT !.pc = "get"])
    BY <1>2, <1>6, <1>8, <1>9, <2>2, OwnMovesTo, Zenon DEF ClaimCreate
  <2> QED
    BY <1>9, <2>1, <2>2, Zenon DEF ClaimCreate
<1>10. CASE ClaimGet(n, s)
  <2>1. live' = live /\ lease' = lease
    BY <1>10, Zenon DEF ClaimGet
  <2>2. CASE lease[c.ip] = c.vm /\ Goto(n, s, [c EXCEPT !.pc = "setup"])
    BY <1>2, <1>6, <1>8, <2>1, <2>2, OwnMovesTo, Zenon
  <2>3. CASE \E a : Goto(n, s, [c EXCEPT !.pc = "create", !.ip = a])
    <3>1. PICK a : Goto(n, s, [c EXCEPT !.pc = "create", !.ip = a])
      BY <2>3, Zenon
    <3>2. [c EXCEPT !.pc = "create", !.ip = a].pc = "create"
      BY <1>1, Zenon DEF Call
    <3> QED
      BY <1>3, <1>8, <2>1, <3>1, <3>2, OwnMoves, Zenon
  <2>4. CASE Goto(n, s, Idle)
    BY <1>3, <1>7, <1>8, <2>1, <2>4, OwnMoves, Zenon
  <2> QED
    BY <1>10, <2>2, <2>3, <2>4, Zenon DEF ClaimGet, ReturnError
<1>11. CASE SetupNetwork(n, s)
  <2>1. lease[c.ip] = v
    BY <1>2, <1>11, Zenon DEF CallHolds, SetupNetwork
  <2>2. v \in tap'[n]
    BY <1>11, Zenon DEF SetupNetwork, Typed, TypeOK
  <2>3. live' = live /\ lease' = lease /\ Goto(n, s, [c EXCEPT !.pc = "boot"])
    BY <1>11, Zenon DEF SetupNetwork
  <2> QED
    BY <1>2, <1>6, <1>8, <2>1, <2>2, <2>3, OwnMovesTo, Zenon
<1>12. CASE SetupFails(n, s) \/ BootFails(n, s) \/ UndoClaim(n, s)
  <2>1. live' = live
    BY <1>12, Zenon DEF SetupFails, BootFails, UndoClaim
  <2>2. PICK x \in {"unclaim", "undo", "undone", "unclaimed"} : Goto(n, s, [c EXCEPT !.pc = x])
    BY <1>12, Zenon DEF SetupFails, BootFails, UndoClaim
  <2> QED
    BY <1>2, <1>6, <1>8, <2>1, <2>2, OwnMovesTo, Zenon
<1>13. CASE UndoLocal(n, s)
  <2>1. live' = live /\ Goto(n, s, Idle)
    BY <1>13, Zenon DEF UndoLocal, ReturnError
  <2> QED
    BY <1>3, <1>7, <1>8, <2>1, OwnMoves, Zenon
<1>14. CASE Boot(n, s) \/ BootUnreported(n, s)
  <2>1. Launch(n, s) /\ Goto(n, s, Idle) /\ c.pc = "boot"
    BY <1>14, Zenon DEF Boot, BootUnreported, Return, ReturnError, Launch
  <2> DEFINE p == [pid |-> NewPid(n), vm |-> v, ip |-> IF c.mem = NoIP THEN c.ip ELSE c.mem]
             e == [pid |-> NewPid(n), ip |-> c.ip]
  <2>2. /\ p.vm = v /\ e.pid = p.pid /\ e.ip = c.ip
        /\ live' = [live EXCEPT ![n] = @ \cup {p}]
        /\ procs' = [procs EXCEPT ![n][v] = e]
    BY <2>1, Zenon DEF Launch
  <2> HIDE DEF p, e
  <2>3. \A m \in Nodes : Alive(m, v)' = IF m = n THEN {p} ELSE {}
    BY <1>4, <2>2, Zenon DEF NoGuest, Alive, Typed, TypeOK
  <2>4. procs'[n][v] = e
    BY <2>2, Zenon DEF Typed, TypeOK
  <2>5. \A m \in Nodes, t \in Slots : ~Busy(m, t, v)'
    <3>1. calls'[n][s] = Idle /\ \A m \in Nodes, t \in Slots : Busy(m, t, v)' => m = n /\ t = s
      BY <1>3, <2>1, GotoOwn
    <3> QED
      BY <3>1, Zenon DEF Busy
  <2>6. OneCall(v)' /\ OneProcess(v)' /\ EntryNames(v)'
    BY <2>2, <2>3, <2>4, <2>5, Zenon DEF OneCall, OneProcess, EntryNames
  <2>7. v \in tap[n] /\ lease[c.ip] = v
    BY <1>2, <2>1, Zenon DEF CallHolds
  <2>8. tap' = tap /\ lease' = lease
    BY <2>1, Zenon DEF Launch
  <2>9. Kept(v)'
    BY <2>2, <2>3, <2>4, <2>7, <2>8, Zenon DEF Kept, Owned
  <2> QED
    BY <2>5, <2>6, <2>9, Zenon DEF Sound
<1> QED
  BY <1>9, <1>10, <1>11, <1>12, <1>13, <1>14, Zenon DEF StartStep

(* A Stop only takes processes away.                                       *)
LEMMA StopShrinks ==
  ASSUME Typed, NEW n \in Nodes, NEW s \in Slots, StopStep(n, s)
  PROVE  \A v : \A m \in Nodes : Alive(m, v)' \subseteq Alive(m, v)
<1>1. live \in [Nodes -> SUBSET [pid : Pids, vm : VMs, ip : Addresses]]
  BY Zenon DEF Typed, TypeOK
<1>2. CASE live' = live
  BY <1>2, Zenon DEF Alive
<1>3. CASE live' = [live EXCEPT ![n] = {p \in @ : p.pid # calls[n][s].pid}]
  BY <1>1, <1>3, Zenon DEF Alive
<1> QED
  BY <1>2, <1>3, Zenon DEF StopStep, StopMachine, StopRelease, StopForget, StopRemoveNAT, StopDrop

(* A step of a Stop leaves other VMs their Leases and TAPs.                *)
LEMMA StopOthers ==
  ASSUME Typed, NEW n \in Nodes, NEW s \in Slots, StopStep(n, s),
         NEW v \in VMs, calls[n][s].vm # v
  PROVE  Stable(v)
<1> DEFINE c == calls[n][s]
<1>1. c # Idle /\ c \in Call
  BY CallFields, Zenon DEF StopStep
<1>2. \A m \in Nodes, t \in Slots :
        Busy(m, t, v)' => Busy(m, t, v) /\ calls'[m][t] = calls[m][t]
  <2>1. \A x : [c EXCEPT !.pc = x].vm = c.vm
    BY <1>1, Zenon DEF Call
  <2>2. PICK d : Goto(n, s, d) /\ (d = Idle \/ d.vm = c.vm)
    BY <2>1, Zenon DEF StopStep, StopMachine, StopRelease, StopForget, StopRemoveNAT, StopDrop, Return
  <2> QED
    BY <2>2, GotoOthers
<1>3. \A a \in Addresses : lease[a] = v => lease'[a] = v
  <2>1. CASE StopRelease(n, s)
    BY <2>1, ReleasedOthers, ZenonT(60) DEF StopRelease
  <2>2. CASE lease' = lease
    BY <2>2, Zenon
  <2> QED
    BY <2>1, <2>2, Zenon DEF StopStep, StopMachine, StopForget, StopRemoveNAT, StopDrop
<1>4. \A m \in Nodes : v \in tap[m] => v \in tap'[m]
  <2>1. tap' \in {tap, [tap EXCEPT ![n] = @ \ {c.vm}]}
    BY Zenon DEF StopStep, StopMachine, StopRelease, StopForget, StopRemoveNAT, StopDrop
  <2>2. tap \in [Nodes -> SUBSET VMs]
    BY Zenon DEF Typed, TypeOK
  <2> QED
    BY <2>1, <2>2, Zenon
<1>5. \A m \in Nodes : Alive(m, v)' \subseteq Alive(m, v)
  BY StopShrinks, Zenon
<1>6. \A m \in Nodes : procs'[m][v] \in {NoProc, procs[m][v]}
  <2>1. procs' \in {procs, [procs EXCEPT ![n][c.vm] = NoProc]}
    BY Zenon DEF StopStep, StopMachine, StopRelease, StopForget, StopRemoveNAT, StopDrop
  <2>2. procs \in [Nodes -> [VMs -> Entry \cup {NoProc}]]
    BY Zenon DEF Typed, TypeOK
  <2> QED
    BY <2>1, <2>2
<1> QED
  BY <1>2, <1>3, <1>4, <1>5, <1>6, Zenon DEF Stable

(* A step of a Stop and the VM it stops.                                   *)
LEMMA StopOwn ==
  ASSUME Typed, NEW n \in Nodes, NEW s \in Slots, StopStep(n, s),
         NEW v \in VMs, calls[n][s].vm = v, Sound(v)
  PROVE  Sound(v)'
<1> DEFINE c == calls[n][s]
<1>1. c # Idle /\ c \in Call
  BY CallFields, Zenon DEF StopStep
<1>2. Busy(n, s, v) /\ CallHolds(n, s, v)
  BY <1>1, Zenon DEF Busy, Sound
<1>3. \A m \in Nodes, t \in Slots : Busy(m, t, v) => m = n /\ t = s
  BY <1>2, Zenon DEF Sound, OneCall
<1>4. {"release", "forget", "unnat", "drop"} \subseteq StopPCs
  BY Zenon DEF StopPCs
<1>5. CASE StopMachine(n, s) /\ c.ip = NoIP
  <2>1. UNCHANGED <<live, tap, lease, procs>> /\ Goto(n, s, [c EXCEPT !.pc = "drop"])
    BY <1>5, Zenon DEF StopMachine
  <2>2. /\ calls'[n][s] = [c EXCEPT !.pc = "drop"]
        /\ \A m \in Nodes, t \in Slots : Busy(m, t, v)' => m = n /\ t = s
    BY <1>3, <2>1, GotoOwn
  <2>3. calls'[n][s].pc = "drop"
    BY <1>1, <1>4, <2>2, CallMoves
  <2>4. \A m \in Nodes, t \in Slots : Busy(m, t, v)' => CallHolds(m, t, v)'
    BY <2>2, <2>3, Zenon DEF CallHolds, NeedsAddress, StartPCs
  <2>5. OneCall(v)'
    BY <2>2, Zenon DEF OneCall
  <2>6. OneProcess(v)' /\ EntryNames(v)' /\ Kept(v)'
    BY <2>1 DEF Sound, OneProcess, EntryNames, Kept, Owned, Alive
  <2> QED
    BY <2>4, <2>5, <2>6, Zenon DEF Sound
<1>6. CASE StopMachine(n, s) /\ c.ip # NoIP
  <2>1. /\ live' = [live EXCEPT ![n] = {p \in @ : p.pid # c.pid}]
        /\ Goto(n, s, [c EXCEPT !.pc = "release"]) /\ c.pc = "stop"
    BY <1>6, Zenon DEF StopMachine
  <2>2. \A m \in Nodes : \A p \in Alive(m, v) : m = n /\ p.pid = c.pid
    BY <1>2, <2>1, Zenon DEF CallHolds
  <2>3. NoGuest(v)'
    BY <2>1, <2>2, Zenon DEF NoGuest, Alive, Typed, TypeOK
  <2> QED
    BY <1>2, <1>4, <2>1, <2>3, OwnMovesTo, Zenon
<1>7. CASE StopRelease(n, s) \/ StopForget(n, s) \/ StopRemoveNAT(n, s)
  <2>1. c.pc \in NeedsAddress /\ live' = live
    BY <1>7, Zenon DEF StopRelease, StopForget, StopRemoveNAT, NeedsAddress
  <2>2. NoGuest(v)'
    BY <1>2, <2>1, Zenon DEF CallHolds, NoGuest, Alive
  <2>3. PICK x \in {"forget", "unnat", "drop"} : Goto(n, s, [c EXCEPT !.pc = x])
    BY <1>7, Zenon DEF StopRelease, StopForget, StopRemoveNAT
  <2> QED
    BY <1>2, <1>4, <2>2, <2>3, OwnMovesTo, Zenon
<1>8. CASE StopDrop(n, s)
  <2>1. Goto(n, s, Idle) /\ UNCHANGED <<lease, live, tap>> /\ procs' = [procs EXCEPT ![n][v] = NoProc]
    BY <1>8, Zenon DEF StopDrop, Return
  <2>2. \A m \in Nodes, t \in Slots :
          Busy(m, t, v)' => Busy(m, t, v) /\ calls'[m][t] = calls[m][t]
    BY <2>1, GotoOthers
  <2>3. Stable(v)
    BY <2>1, <2>2, Zenon DEF Stable, Alive, Typed, TypeOK
  <2> QED
    BY <2>3, StableKeeps, Zenon
<1> QED
  BY <1>5, <1>6, <1>7, <1>8, Zenon DEF StopStep

(* A failing call to the API server, and the call that made it.            *)
LEMMA FailSound ==
  ASSUME Typed, NEW n \in Nodes, NEW s \in Slots, ClaimFails(n, s) \/ ReleaseFails(n, s),
         NEW v \in VMs, Sound(v)
  PROVE  Sound(v)'
<1> DEFINE c == calls[n][s]
<1>1. c # Idle /\ c \in Call
  BY CallFields, Zenon DEF ClaimFails, ReleaseFails
<1>2. UNCHANGED <<lease, procs, live, tap>>
  BY Zenon DEF ClaimFails, ReleaseFails
<1>3. CASE ClaimFails(n, s)
  <2>1. \A m \in Nodes, t \in Slots :
          Busy(m, t, v)' => Busy(m, t, v) /\ calls'[m][t] = calls[m][t]
    BY <1>3, GotoOthers DEF ClaimFails, ReturnError
  <2>2. Stable(v)
    BY <1>2, <2>1, Zenon DEF Stable, Alive
  <2> QED
    BY <2>2, StableKeeps, Zenon
<1>4. CASE ReleaseFails(n, s)
  <2>1. PICK x \in {"undone", "unclaimed", "forget"} : Goto(n, s, [c EXCEPT !.pc = x])
    BY <1>4, Zenon DEF ReleaseFails
  <2>2. c.pc \in NeedsAddress
    BY <1>4, Zenon DEF ReleaseFails, NeedsAddress, StartPCs
  <2>3. CASE c.vm = v
    <3>1. Busy(n, s, v) /\ CallHolds(n, s, v)
      BY <1>1, <2>3, Zenon DEF Busy, Sound
    <3>2. NoGuest(v)'
      BY <1>2, <2>2, <3>1, Zenon DEF CallHolds, NoGuest, Alive
    <3>3. x \in StartPCs \cup StopPCs /\ x \notin {"setup", "boot"}
      BY <2>1, Zenon DEF StartPCs, StopPCs
    <3> QED
      BY <2>1, <3>1, <3>2, <3>3, OwnMovesTo, Zenon
  <2>4. CASE c.vm # v
    <3> DEFINE d == [c EXCEPT !.pc = x]
    <3>1. d.vm = c.vm /\ Goto(n, s, d)
      BY <1>1, <2>1, Zenon DEF Call
    <3> HIDE DEF d
    <3>2. \A m \in Nodes, t \in Slots :
            Busy(m, t, v)' => Busy(m, t, v) /\ calls'[m][t] = calls[m][t]
      BY <2>4, <3>1, GotoOthers
    <3>3. Stable(v)
      BY <1>2, <3>2, Zenon DEF Stable, Alive
    <3> QED
      BY <3>3, StableKeeps, Zenon
  <2> QED
    BY <2>3, <2>4, Zenon
<1> QED
  BY <1>3, <1>4, Zenon

(* The call that begins.                                                   *)
LEMMA GotoSelf ==
  ASSUME Typed, NEW n \in Nodes, NEW s \in Slots, NEW d, Goto(n, s, d)
  PROVE  calls'[n][s] = d /\ Goto(n, s, calls'[n][s])
<1>1. calls \in [Nodes -> [Slots -> Call \cup {Idle}]] /\ calls' = [calls EXCEPT ![n][s] = d]
  BY Zenon DEF Typed, TypeOK, Goto
<1>2. calls'[n][s] = d
  BY <1>1, Zenon
<1> QED
  BY <1>2, Zenon

LEMMA BeginCall ==
  ASSUME Typed, NEW n \in Nodes, NEW w \in VMs, calls' # calls,
         BeginStart(n, w) \/ BeginStop(n, w) \/ BeginSuspend(n, w)
  PROVE  /\ Goto(n, "agent", calls'[n]["agent"])
         /\ calls'[n]["agent"].vm = w
         /\ BeginStart(n, w) => calls'[n]["agent"].pc = "create"
         /\ ~BeginStart(n, w) => /\ procs[n][w] # NoProc
                                 /\ calls'[n]["agent"].pc = "stop"
                                 /\ calls'[n]["agent"].pid = procs[n][w].pid
                                 /\ calls'[n]["agent"].ip = procs[n][w].ip
<1>1. "agent" \in Slots
  BY Zenon DEF Slots
<1>2. CASE BeginStart(n, w)
  <2> DEFINE d == [pc |-> "create", vm |-> w, ip |-> First(Candidates(1)),
                   mem |-> vm[w].mem, pid |-> 0]
  <2>1. Goto(n, "agent", d) /\ d.vm = w /\ d.pc = "create"
    BY <1>2, Zenon DEF BeginStart
  <2> HIDE DEF d
  <2> QED
    BY <1>1, <1>2, <2>1, GotoSelf, Zenon
<1>3. CASE BeginStop(n, w) /\ ~BeginStart(n, w)
  <2> DEFINE d == [pc |-> "stop", vm |-> w, ip |-> procs[n][w].ip, mem |-> NoIP,
                   pid |-> procs[n][w].pid]
  <2>1. Goto(n, "agent", d) /\ procs[n][w] # NoProc
    BY <1>3, Zenon DEF BeginStop
  <2>2. d.vm = w /\ d.pc = "stop" /\ d.pid = procs[n][w].pid /\ d.ip = procs[n][w].ip
    BY Zenon
  <2> HIDE DEF d
  <2> QED
    BY <1>1, <1>3, <2>1, <2>2, GotoSelf
<1>4. CASE BeginSuspend(n, w) /\ ~BeginStart(n, w)
  <2>1. PICK p \in Alive(n, w) :
          Goto(n, "agent", [pc |-> "stop", vm |-> w, ip |-> procs[n][w].ip, mem |-> p.ip,
                            pid |-> procs[n][w].pid])
    BY <1>4, Zenon DEF BeginSuspend
  <2> DEFINE d == [pc |-> "stop", vm |-> w, ip |-> procs[n][w].ip, mem |-> p.ip,
                   pid |-> procs[n][w].pid]
  <2>2. Goto(n, "agent", d) /\ procs[n][w] # NoProc
    BY <1>4, <2>1, Zenon DEF BeginSuspend
  <2>3. d.vm = w /\ d.pc = "stop" /\ d.pid = procs[n][w].pid /\ d.ip = procs[n][w].ip
    BY Zenon
  <2> HIDE DEF d
  <2> QED
    BY <1>1, <1>4, <2>2, <2>3, GotoSelf
<1> QED
  BY <1>2, <1>3, <1>4, Zenon

(* The beginning of a call.  A VM that comes to be overlapped is of no     *)
(* concern any more.                                                       *)
LEMMA BeginSound ==
  ASSUME Typed, NEW n \in Nodes, NEW w \in VMs,
         BeginStart(n, w) \/ BeginStop(n, w) \/ BeginSuspend(n, w),
         NEW v \in VMs, Sound(v)
  PROVE  v \in overlapped' \/ Sound(v)'
<1>1. UNCHANGED <<lease, procs, live, tap>> /\ "agent" \in Slots
  BY Zenon DEF BeginStart, BeginStop, BeginSuspend, Slots
<1>2. CASE calls' = calls
  BY <1>1, <1>2, SameIsStable, StableKeeps, Zenon
<1>3. CASE v # w /\ calls' # calls
  <2>1. Goto(n, "agent", calls'[n]["agent"]) /\ calls'[n]["agent"].vm = w
    BY <1>3, BeginCall, Zenon
  <2>2. \A m \in Nodes, t \in Slots :
          Busy(m, t, v)' => Busy(m, t, v) /\ calls'[m][t] = calls[m][t]
    BY <1>1, <1>3, <2>1, GotoOthers
  <2>3. Stable(v)
    BY <1>1, <2>2, Zenon DEF Stable, Alive
  <2> QED
    BY <2>3, StableKeeps, Zenon
<1>4. CASE v = w /\ calls' # calls /\ v \notin overlapped'
  <2>1. ~Active(v)
    BY <1>4, Zenon DEF BeginStart, BeginStop, BeginSuspend, Overlaps
  <2>2. \A m \in Nodes, t \in Slots : ~Busy(m, t, v)
    BY <2>1, Zenon DEF Active, Busy
  <2> DEFINE d == calls'[n]["agent"]
  <2>3. CASE BeginStart(n, v)
    <3>1. Goto(n, "agent", d) /\ d.pc = "create"
      BY <1>4, <2>3, BeginCall, Zenon
    <3>2. NoGuest(v)'
      BY <1>1, <1>4, <2>3, Zenon DEF BeginStart, Overlaps, NoGuest, Alive
    <3> QED
      BY <1>1, <2>2, <3>1, <3>2, OwnMoves, Zenon
  <2>4. CASE ~BeginStart(n, v)
    <3>1. Goto(n, "agent", d) /\ d.pc = "stop" /\ d.vm = v /\ d.pid = procs[n][v].pid
      BY <1>4, <2>4, BeginCall, Zenon
    <3>2. \A m \in Nodes : \A p \in Alive(m, v) : m = n /\ p.pid = procs[n][v].pid
      <4>1. CASE BeginStop(n, v)
        <5>1. procs[n][v] # NoProc /\ \A m \in Nodes \ {n} : Alive(m, v) = {}
          BY <1>4, <4>1, Zenon DEF BeginStop, Overlaps
        <5> QED
          BY <5>1, Zenon DEF Sound, EntryNames
      <4>2. CASE BeginSuspend(n, v)
        <5>1. PICK q \in Alive(n, v) : q.pid = procs[n][v].pid
          BY <4>2, Zenon DEF BeginSuspend
        <5> QED
          BY <5>1, Zenon DEF Sound, OneProcess
      <4> QED
        BY <1>4, <2>4, <4>1, <4>2, Zenon
    <3>3. \A m \in Nodes, t \in Slots : Busy(m, t, v)' => m = n /\ t = "agent"
      BY <1>1, <2>2, <3>1, GotoOwn
    <3>4. CallHolds(n, "agent", v)'
      BY <1>1, <3>1, <3>2, <3>3, Zenon DEF CallHolds, Alive, NeedsAddress, StartPCs
    <3>5. OneCall(v)' /\ OneProcess(v)' /\ EntryNames(v)' /\ Kept(v)'
      BY <1>1, <3>3 DEF Sound, OneCall, OneProcess, EntryNames, Kept, Owned, Alive
    <3> QED
      BY <3>3, <3>4, <3>5, Zenon DEF Sound
  <2> QED
    BY <2>3, <2>4, Zenon
<1> QED
  BY <1>2, <1>3, <1>4, Zenon

(* The other reconciles.                                                   *)
LEMMA ReconcileSound ==
  ASSUME Typed, NEW n, NEW w \in VMs,
         \/ n \in Nodes /\ (Inspect(n, w) \/ StartTimeout(n, w) \/ Schedule(n, w))
         \/ Terminate(w) \/ Suspend(w) \/ Resume(w),
         NEW v \in VMs, Sound(v)
  PROVE  Sound(v)'
<1>1. Frame /\ live' = live
  BY Zenon DEF Inspect, StartTimeout, Schedule, Terminate, Suspend, Resume
<1>2. \A m \in Nodes, t \in Slots :
        Busy(m, t, v)' => Busy(m, t, v) /\ calls'[m][t] = calls[m][t]
  BY <1>1, Zenon DEF Frame, Busy
<1>3. CASE \A m \in Nodes : procs'[m][v] \in {NoProc, procs[m][v]}
  <2>1. Stable(v)
    BY <1>1, <1>2, <1>3, Zenon DEF Stable, Frame, Alive
  <2> QED
    BY <2>1, StableKeeps, Zenon
<1>4. CASE ~\A m \in Nodes : procs'[m][v] \in {NoProc, procs[m][v]}
  <2>1. procs \in [Nodes -> [VMs -> Entry \cup {NoProc}]]
    BY Zenon DEF Typed, TypeOK
  <2>2. n \in Nodes /\ Inspect(n, w)
    BY <1>4, Zenon DEF Inspect, StartTimeout, Schedule, Terminate, Suspend, Resume
  <2>3. procs' # [procs EXCEPT ![n][w] = NoProc]
    BY <1>4, <2>1
  <2>4. PICK p \in Alive(n, w) : procs' = [procs EXCEPT ![n][w] = [pid |-> p.pid, ip |-> NoIP]]
    BY <2>2, <2>3, Zenon DEF Inspect
  <2>5. v = w
    BY <1>4, <2>1, <2>4, Zenon
  <2>6. /\ procs'[n][v] = [pid |-> p.pid, ip |-> NoIP]
        /\ \A m \in Nodes \ {n} : procs'[m][v] = procs[m][v]
    BY <2>1, <2>2, <2>4, <2>5, Zenon
  <2>7. \A m \in Nodes : Alive(m, v)' = Alive(m, v)
    BY <1>1, Zenon DEF Alive
  <2>8. OneCall(v)' /\ OneProcess(v)'
    BY <1>2, <2>7 DEF Sound, OneCall, OneProcess
  <2>9. EntryNames(v)'
    BY <2>2, <2>4, <2>5, <2>6, <2>7 DEF Sound, OneProcess, EntryNames
  <2>10. \A m \in Nodes, t \in Slots : Busy(m, t, v)' => CallHolds(m, t, v)'
    BY <1>1, <1>2, <2>7 DEF Sound, CallHolds, NoGuest, Frame
  <2>11. Kept(v)'
    BY <1>1, <2>6, <2>7 DEF Sound, Kept, Owned, Frame
  <2> QED
    BY <2>8, <2>9, <2>10, <2>11, Zenon DEF Sound
<1> QED
  BY <1>3, <1>4, Zenon

(* What fails on a node.                                                   *)
LEMMA NodeSound ==
  ASSUME Typed, NEW n \in Nodes, AgentCrash(n) \/ RuntimeRestart(n) \/ ProcessExit(n),
         NEW v \in VMs, Sound(v)
  PROVE  Sound(v)'
<1>1. CASE AgentCrash(n)
  <2>1. UNCHANGED <<lease, procs, live, tap>>
    BY <1>1, Zenon DEF AgentCrash
  <2>2. calls' = [calls EXCEPT ![n] = [agent |-> Idle, orphan |-> calls[n]["agent"]]]
    BY <1>1, Zenon DEF AgentCrash
  <2>3. /\ calls'[n]["agent"] = Idle /\ calls'[n]["orphan"] = calls[n]["agent"]
        /\ \A m \in Nodes \ {n} : calls'[m] = calls[m]
    BY <2>2, Zenon DEF Typed, TypeOK
  <2>4. OneCall(v)'
    BY <2>3 DEF Sound, OneCall, Busy, Slots
  <2>5. OneProcess(v)' /\ EntryNames(v)' /\ Kept(v)'
    BY <2>1 DEF Sound, OneProcess, EntryNames, Kept, Owned, Alive
  <2>6. ASSUME NEW m \in Nodes, NEW t \in Slots, Busy(m, t, v)' PROVE CallHolds(m, t, v)'
    <3>1. PICK u \in Slots : Busy(m, u, v) /\ calls'[m][t] = calls[m][u]
      BY <2>3, <2>6, Zenon DEF Busy, Slots
    <3>2. CallHolds(m, u, v)
      BY <3>1, Zenon DEF Sound
    <3> QED
      BY <2>1, <3>1, <3>2, Zenon DEF CallHolds, NoGuest, Alive
  <2> QED
    BY <2>4, <2>5, <2>6, Zenon DEF Sound
<1>2. CASE RuntimeRestart(n)
  <2>1. lease' = lease /\ tap' = tap
    BY <1>2, Zenon DEF RuntimeRestart
  <2>2. \A m \in Nodes : Alive(m, v)' \subseteq Alive(m, v)
    BY <1>2, Zenon DEF RuntimeRestart, Alive, Typed, TypeOK
  <2>3. \A m \in Nodes : procs'[m][v] \in {NoProc, procs[m][v]}
    BY <1>2, Zenon DEF RuntimeRestart, Typed, TypeOK
  <2>4. \A m \in Nodes, t \in Slots :
          Busy(m, t, v)' => Busy(m, t, v) /\ calls'[m][t] = calls[m][t]
    BY <1>2, Zenon DEF RuntimeRestart, Busy, Typed, TypeOK
  <2>5. Stable(v)
    BY <2>1, <2>2, <2>3, <2>4, Zenon DEF Stable
  <2> QED
    BY <2>5, StableKeeps, Zenon
<1>3. CASE ProcessExit(n)
  <2>1. Frame /\ procs' = procs
    BY <1>3, Zenon DEF ProcessExit
  <2>2. PICK p \in live[n] : live' = [live EXCEPT ![n] = @ \ {p}]
    BY <1>3, Zenon DEF ProcessExit
  <2>3. \A m \in Nodes : Alive(m, v)' \subseteq Alive(m, v)
    BY <2>2, Zenon DEF Alive, Typed, TypeOK
  <2>4. Stable(v)
    BY <2>1, <2>3, Zenon DEF Stable, Frame, Busy
  <2> QED
    BY <2>4, StableKeeps, Zenon
<1> QED
  BY <1>1, <1>2, <1>3, Zenon

LEMMA OverlappedGrows == [Next]_vars => overlapped \subseteq overlapped'
<1> SUFFICES ASSUME [Next]_vars PROVE overlapped \subseteq overlapped'
  BY Zenon
<1>1. ASSUME NEW n, NEW s, StartStep(n, s) PROVE overlapped' = overlapped
  BY <1>1, Zenon DEF StartStep, ClaimCreate, ClaimGet, SetupNetwork, SetupFails, Boot,
     BootUnreported, Launch, BootFails, UndoClaim, UndoLocal
<1>2. ASSUME NEW n, NEW s, StopStep(n, s) \/ ClaimFails(n, s) \/ ReleaseFails(n, s)
      PROVE  overlapped' = overlapped
  BY <1>2, Zenon DEF StopStep, StopMachine, StopRelease, StopForget, StopRemoveNAT, StopDrop,
     ClaimFails, ReleaseFails
<1>3. ASSUME NEW n, NEW v, BeginStart(n, v) \/ BeginStop(n, v) \/ BeginSuspend(n, v)
      PROVE  overlapped \subseteq overlapped'
  BY <1>3, Zenon DEF BeginStart, BeginStop, BeginSuspend, Overlaps
<1>4. ASSUME NEW n, NEW v,
             \/ Inspect(n, v) \/ StartTimeout(n, v) \/ Schedule(n, v)
             \/ Terminate(v) \/ Suspend(v) \/ Resume(v)
      PROVE  overlapped' = overlapped
  BY <1>4, Zenon DEF Inspect, StartTimeout, Schedule, Terminate, Suspend, Resume, Frame
<1>5. ASSUME NEW n, AgentCrash(n) \/ RuntimeRestart(n) \/ ProcessExit(n)
      PROVE  overlapped' = overlapped
  BY <1>5, Zenon DEF AgentCrash, RuntimeRestart, ProcessExit, Frame
<1>6. UNCHANGED vars => overlapped' = overlapped
  BY Zenon DEF vars
<1> QED
  BY <1>1, <1>2, <1>3, <1>4, <1>5, <1>6, Zenon DEF Next

LEMMA NetInvInit == Init => NetInv
<1> SUFFICES ASSUME Init, NEW v \in VMs PROVE Sound(v)
  BY Zenon DEF NetInv
<1>1. \A n \in Nodes, s \in Slots : ~Busy(n, s, v)
  BY Zenon DEF Init, Busy
<1>2. \A n \in Nodes : Alive(n, v) = {}
  BY Zenon DEF Init, Alive
<1> QED
  BY <1>1, <1>2, Zenon DEF Sound, OneCall, OneProcess, EntryNames, Kept, Owned

LEMMA NetInvStep == Typed /\ NetInv /\ [Next]_vars => NetInv'
<1> SUFFICES ASSUME Typed, NetInv, [Next]_vars, NEW v \in VMs, v \notin overlapped'
             PROVE  Sound(v)'
  BY Zenon DEF NetInv
<1>1. Sound(v)
  BY OverlappedGrows, Zenon DEF NetInv
<1>2. CASE \E n \in Nodes, s \in Slots : StartStep(n, s)
  BY <1>1, <1>2, StartOthers, StartOwn, StableKeeps, Zenon
<1>3. CASE \E n \in Nodes, s \in Slots : StopStep(n, s)
  BY <1>1, <1>3, StopOthers, StopOwn, StableKeeps, Zenon
<1>4. CASE \E n \in Nodes, s \in Slots : ClaimFails(n, s) \/ ReleaseFails(n, s)
  BY <1>1, <1>4, FailSound, Zenon
<1>5. CASE \E n \in Nodes, w \in VMs : BeginStart(n, w) \/ BeginStop(n, w) \/ BeginSuspend(n, w)
  BY <1>1, <1>5, BeginSound, Zenon
<1>6. CASE \/ \E n \in Nodes, w \in VMs : Inspect(n, w) \/ StartTimeout(n, w) \/ Schedule(n, w)
           \/ \E w \in VMs : Terminate(w) \/ Suspend(w) \/ Resume(w)
  BY <1>1, <1>6, ReconcileSound, Zenon
<1>7. CASE \E n \in Nodes : AgentCrash(n) \/ RuntimeRestart(n) \/ ProcessExit(n)
  BY <1>1, <1>7, NodeSound, Zenon
<1>8. CASE UNCHANGED vars
  BY <1>1, <1>8, SameIsStable, StableKeeps, Zenon DEF vars
<1> QED
  BY <1>2, <1>3, <1>4, <1>5, <1>6, <1>7, <1>8, Zenon DEF Next

LEMMA NetInvariant == Spec => [](Typed /\ NetInv)
<1>1. Init => Typed /\ NetInv
  BY InitTyped, NetInvInit, Zenon
<1>2. Typed /\ NetInv /\ [Next]_vars => (Typed /\ NetInv)'
  BY TypedStep, NetInvStep, Zenon
<1> QED
  BY <1>1, <1>2, PTL DEF Spec

(* A VM whose process runs and whose entry has the netInfo holds the Lease *)
(* of its address and has its TAP, through every step of other VMs' calls, *)
(* of cleanups, crashes and restarts, for any nodes, VMs and subnet, unless*)
(* it was overlapped.                                                      *)
THEOREM NetworkKept == Spec => []OwnedKeepsItsNetwork
<1>1. NetInv => OwnedKeepsItsNetwork
  BY Zenon DEF NetInv, Sound, Kept, OwnedKeepsItsNetwork, Owned
<1> QED
  BY <1>1, NetInvariant, PTL

-----------------------------------------------------------------------------
(* The refinement: every step of HostNetwork is a step of AddressClaims,   *)
(* with the Leases as holders, or changes nothing there.                   *)

(* The address of a VM is that of the one node that owns it.               *)
LEMMA UsedValue ==
  ASSUME NEW v \in VMs, v \notin overlapped, OneProcess(v), NEW n \in Nodes, v \in Owned(n)
  PROVE  UsedBy(v) = procs[n][v].ip
<1>1. Owners(v) = {n}
  BY Zenon DEF Owners, OneProcess, Owned
<1> QED
  BY <1>1, Zenon DEF UsedBy

LEMMA UsedValueNext ==
  ASSUME NEW v \in VMs, v \notin overlapped', OneProcess(v)', NEW n \in Nodes, v \in Owned(n)'
  PROVE  UsedBy(v)' = procs'[n][v].ip
<1>1. Owners(v)' = {n}
  BY Zenon DEF Owners, OneProcess, Owned
<1> QED
  BY <1>1, Zenon DEF UsedBy

(* A step that starts no process of the VM.                                *)
Shrinks(v) ==
  /\ \A m \in Nodes : Alive(m, v)' \subseteq Alive(m, v)
  /\ \A m \in Nodes : \/ procs'[m][v] \in {NoProc, procs[m][v]}
                      \/ procs'[m][v].ip = NoIP

LEMMA UsedShrinks ==
  ASSUME NEW v \in VMs, v \in overlapped \/ Sound(v), overlapped \subseteq overlapped', Shrinks(v)
  PROVE  UsedBy(v)' \in {UsedBy(v), NoIP}
<1>1. CASE v \in overlapped' \/ Owners(v)' = {}
  BY <1>1, Zenon DEF UsedBy
<1>2. CASE v \notin overlapped' /\ Owners(v)' # {}
  <2>1. PICK n \in Nodes : v \in Owned(n)'
    BY <1>2, Zenon DEF Owners, Owned, Alive
  <2>2. v \in Owned(n) /\ procs'[n][v] = procs[n][v]
    BY <2>1, Zenon DEF Owned, Shrinks
  <2>3. v \notin overlapped /\ OneProcess(v)
    BY <1>2, Zenon DEF Sound
  <2>4. OneProcess(v)'
    BY <2>3 DEF OneProcess, Shrinks
  <2>5. UsedBy(v) = procs[n][v].ip /\ UsedBy(v)' = procs'[n][v].ip
    BY <1>2, <2>1, <2>2, <2>3, <2>4, UsedValue, UsedValueNext, Zenon
  <2> QED
    BY <2>2, <2>5, Zenon
<1> QED
  BY <1>1, <1>2, Zenon

(* A VM without a process uses no address.                                 *)
LEMMA NoGuestUses ==
  ASSUME NEW v \in VMs, NoGuest(v)
  PROVE  UsedBy(v) = NoIP
BY Zenon DEF NoGuest, Owned, Owners, UsedBy

LEMMA CeaseStep ==
  ASSUME NetInv, overlapped \subseteq overlapped', lease' = lease, \A v \in VMs : Shrinks(v)
  PROVE  Claims!Next
<1> DEFINE S == {v \in VMs : UsedBy(v)' # UsedBy(v)}
<1>1. \A v \in VMs : UsedBy(v)' \in {UsedBy(v), NoIP}
  BY UsedShrinks, Zenon DEF NetInv
<1>2. \A v \in VMs : UsedBy(v)' = IF v \in S THEN NoIP ELSE UsedBy(v)
  BY <1>1, Zenon
<1>3. S \in SUBSET VMs
  BY Zenon
<1> HIDE DEF S
<1>4. Claims!Cease(S)
  BY <1>2, Zenon DEF Claims!Cease
<1> QED
  BY <1>3, <1>4, Zenon DEF Claims!Next

LEMMA SameUse ==
  ASSUME UNCHANGED <<procs, live, overlapped>>
  PROVE  [v \in VMs |-> UsedBy(v)]' = [v \in VMs |-> UsedBy(v)]
BY DEF UsedBy, Owners, Owned, Alive

(* A Release gives up what its VM does not use, or nothing.                *)
LEMMA YieldStep ==
  ASSUME Typed, NEW w \in VMs, NEW a \in Addresses, lease' = Released(lease, a, w),
         w \in overlapped \/ NoGuest(w), UNCHANGED <<procs, live, overlapped>>
  PROVE  Claims!Next \/ UNCHANGED <<lease, [v \in VMs |-> UsedBy(v)]>>
<1>1. [v \in VMs |-> UsedBy(v)]' = [v \in VMs |-> UsedBy(v)]
  BY SameUse, Zenon
<1>2. UsedBy(w) = NoIP /\ NoIP # a
  BY NoGuestUses, AddressesAreNumbers, Zenon DEF UsedBy
<1>3. CASE lease[a] # w
  BY <1>1, <1>3, Zenon DEF Released
<1>4. CASE lease[a] = w
  <2>1. lease' = [lease EXCEPT ![a] = Free]
    BY <1>4, Zenon DEF Released
  <2>2. Claims!Yield(w, a)
    BY <1>1, <1>2, <1>4, <2>1, Zenon DEF Claims!Yield
  <2> QED
    BY <2>2, Zenon DEF Claims!Next
<1> QED
  BY <1>3, <1>4, Zenon

(* A Start takes a free address, or comes to run on one it holds, or gives *)
(* up what it took.                                                        *)
LEMMA StartRefines ==
  ASSUME Typed, NetInv, NetInv', NEW n \in Nodes, NEW s \in Slots, StartStep(n, s)
  PROVE  Claims!Next \/ UNCHANGED <<lease, [v \in VMs |-> UsedBy(v)]>>
<1> DEFINE c == calls[n][s]
<1>1. c # Idle /\ c.vm \in VMs /\ (c.pc \in NeedsAddress => c.ip \in Addresses)
  BY CallFields, Zenon DEF StartStep
<1>2. c.vm \in overlapped \/ CallHolds(n, s, c.vm)
  BY <1>1, Zenon DEF NetInv, Sound, Busy
<1>3. CASE ClaimCreate(n, s)
  <2>1. c.ip \in Addresses
    BY <1>1, <1>3, Zenon DEF ClaimCreate, NeedsAddress, StartPCs
  <2>2. [v \in VMs |-> UsedBy(v)]' = [v \in VMs |-> UsedBy(v)]
    BY <1>3, SameUse, Zenon DEF ClaimCreate
  <2>3. CASE lease[c.ip] = Free
    <3>1. lease' = [lease EXCEPT ![c.ip] = c.vm]
      BY <1>3, <2>3, Zenon DEF ClaimCreate
    <3>2. Claims!Claim(c.vm, c.ip)
      BY <2>2, <2>3, <3>1, Zenon DEF Claims!Claim
    <3> QED
      BY <1>1, <2>1, <3>2, Zenon DEF Claims!Next
  <2>4. CASE lease[c.ip] # Free
    BY <1>3, <2>2, <2>4, Zenon DEF ClaimCreate
  <2> QED
    BY <2>3, <2>4, Zenon
<1>4. CASE UndoClaim(n, s)
  <2>1. c.pc \in NeedsAddress
    BY <1>4, Zenon DEF UndoClaim, NeedsAddress, StartPCs
  <2>2. c.vm \in overlapped \/ NoGuest(c.vm)
    BY <1>2, <2>1, Zenon DEF CallHolds
  <2> QED
    BY <1>1, <1>4, <2>1, <2>2, YieldStep, Zenon DEF UndoClaim
<1>5. CASE Boot(n, s) \/ BootUnreported(n, s)
  <2>a. PICK a : a = c.ip
    BY Zenon
  <2>0. PICK w \in VMs : w = c.vm /\ a = c.ip
    BY <1>1, <2>a, Zenon
  <2>1. /\ Launch(n, s) /\ c.pc = "boot" /\ lease' = lease /\ overlapped' = overlapped
        /\ a \in Addresses
    BY <1>1, <1>5, <2>0, Zenon DEF Boot, BootUnreported, Launch, NeedsAddress, StartPCs
  <2> DEFINE p == [pid |-> NewPid(n), vm |-> w, ip |-> IF c.mem = NoIP THEN a ELSE c.mem]
             e == [pid |-> NewPid(n), ip |-> a]
  <2>2. /\ p.vm = w /\ e.pid = p.pid /\ e.ip = a /\ e \in Entry
        /\ live' = [live EXCEPT ![n] = @ \cup {p}]
        /\ procs' = [procs EXCEPT ![n][w] = e]
    BY <2>0, <2>1, NewPidExists, Zenon DEF Launch, Entry, Typed
  <2> HIDE DEF p, e
  <2>3. \A v \in VMs \ {w} : UsedBy(v)' = UsedBy(v)
    <3> SUFFICES ASSUME NEW v \in VMs \ {w} PROVE UsedBy(v)' = UsedBy(v)
      BY Zenon
    <3>1. \A m \in Nodes : Alive(m, v)' = Alive(m, v) /\ procs'[m][v] = procs[m][v]
      BY <2>2, Zenon DEF Alive, Typed, TypeOK
    <3>2. Owners(v)' = Owners(v) /\ Owners(v) \subseteq Nodes
      BY <3>1, Zenon DEF Owners, Owned
    <3> DEFINE k == CHOOSE m \in Owners(v) : TRUE
    <3>3. Owners(v) # {} => k \in Nodes
      BY <3>2, Zenon
    <3> HIDE DEF k
    <3> QED
      BY <2>1, <3>1, <3>2, <3>3 DEF UsedBy, k
  <2>4. CASE w \in overlapped
    <3>1. UsedBy(w) = NoIP /\ UsedBy(w)' = NoIP
      BY <2>1, <2>4, Zenon DEF UsedBy
    <3>2. [v \in VMs |-> UsedBy(v)]' = [v \in VMs |-> UsedBy(v)]
      BY <2>3, <3>1, Zenon
    <3> QED
      BY <2>1, <3>2, Zenon
  <2>5. CASE w \notin overlapped
    <3>1. NoGuest(w) /\ lease[a] = w
      BY <1>2, <2>0, <2>1, <2>5, Zenon DEF CallHolds, NeedsAddress, StartPCs
    <3>2. UsedBy(w) = NoIP
      BY <3>1, NoGuestUses, Zenon
    <3>3. procs'[n][w] = e /\ p \in Alive(n, w)'
      BY <2>2, Zenon DEF Alive, Typed, TypeOK
    <3>4. e # NoProc /\ e.ip # NoIP
      BY <2>1, <2>2, EntryAssumption, AddressesAreNumbers, Zenon
    <3>5. w \in Owned(n)'
      BY <2>2, <3>3, <3>4, Zenon DEF Owned
    <3>6. OneProcess(w)'
      BY <2>1, <2>5, Zenon DEF NetInv, Sound
    <3>7. UsedBy(w)' = a
      BY <2>1, <2>2, <2>5, <3>3, <3>5, <3>6, UsedValueNext, Zenon
    <3>8. [v \in VMs |-> UsedBy(v)]' = [[v \in VMs |-> UsedBy(v)] EXCEPT ![w] = a]
      BY <2>3, <3>7, Zenon
    <3>9. Claims!Use(w, a)
      BY <2>1, <3>1, <3>2, <3>8, Zenon DEF Claims!Use
    <3> QED
      BY <2>1, <3>9, Zenon DEF Claims!Next
  <2> QED
    BY <2>4, <2>5, Zenon
<1>6. CASE UNCHANGED <<lease, procs, live, overlapped>>
  BY <1>6, SameUse, Zenon
<1> QED
  BY <1>3, <1>4, <1>5, <1>6, Zenon DEF StartStep, ClaimGet, SetupNetwork, SetupFails, BootFails, UndoLocal

(* A Stop gives up an address nobody uses any more.                        *)
LEMMA StopRefines ==
  ASSUME Typed, NetInv, NEW n \in Nodes, NEW s \in Slots, StopStep(n, s)
  PROVE  Claims!Next \/ UNCHANGED <<lease, [v \in VMs |-> UsedBy(v)]>>
<1> DEFINE c == calls[n][s]
<1>1. c # Idle /\ c.vm \in VMs /\ (c.pc \in NeedsAddress => c.ip \in Addresses)
  BY CallFields, Zenon DEF StopStep
<1>2. c.vm \in overlapped \/ CallHolds(n, s, c.vm)
  BY <1>1, Zenon DEF NetInv, Sound, Busy
<1>3. CASE StopRelease(n, s)
  <2>1. c.pc \in NeedsAddress
    BY <1>3, Zenon DEF StopRelease, NeedsAddress
  <2>2. c.vm \in overlapped \/ NoGuest(c.vm)
    BY <1>2, <2>1, Zenon DEF CallHolds
  <2> QED
    BY <1>1, <1>3, <2>1, <2>2, YieldStep, Zenon DEF StopRelease
<1>4. CASE lease' = lease
  <2>1. procs' \in {procs, [procs EXCEPT ![n][c.vm] = NoProc]} /\ overlapped' = overlapped
    BY Zenon DEF StopStep, StopMachine, StopRelease, StopForget, StopRemoveNAT, StopDrop
  <2>2. procs \in [Nodes -> [VMs -> Entry \cup {NoProc}]]
    BY Zenon DEF Typed, TypeOK
  <2>3. \A v \in VMs : \A m \in Nodes : procs'[m][v] \in {NoProc, procs[m][v]}
    BY <2>1, <2>2
  <2>4. \A v \in VMs : Shrinks(v)
    BY <2>3, StopShrinks, Zenon DEF Shrinks
  <2> QED
    BY <1>4, <2>1, <2>4, CeaseStep, Zenon
<1> QED
  BY <1>3, <1>4, Zenon DEF StopStep, StopMachine, StopForget, StopRemoveNAT, StopDrop

(* The other steps make and release no claim and start no process.         *)
LEMMA OtherRefines ==
  ASSUME Typed, NetInv, Next, ~\E n \in Nodes, s \in Slots : StartStep(n, s) \/ StopStep(n, s)
  PROVE  Claims!Next \/ UNCHANGED <<lease, [v \in VMs |-> UsedBy(v)]>>
<1>1. procs \in [Nodes -> [VMs -> Entry \cup {NoProc}]]
  BY Zenon DEF Typed, TypeOK
<1>2. ASSUME NEW n \in Nodes, NEW s \in Slots, ClaimFails(n, s) \/ ReleaseFails(n, s)
      PROVE  lease' = lease /\ \A v \in VMs : Shrinks(v)
  BY <1>2, Zenon DEF ClaimFails, ReleaseFails, Shrinks, Alive
<1>3. ASSUME NEW n \in Nodes, NEW w \in VMs, BeginStart(n, w) \/ BeginStop(n, w) \/ BeginSuspend(n, w)
      PROVE  lease' = lease /\ \A v \in VMs : Shrinks(v)
  BY <1>3, Zenon DEF BeginStart, BeginStop, BeginSuspend, Shrinks, Alive
<1>4. ASSUME NEW n \in Nodes, NEW w \in VMs, Inspect(n, w)
      PROVE  lease' = lease /\ \A v \in VMs : Shrinks(v)
  <2>1. lease' = lease /\ live' = live
    BY <1>4, Zenon DEF Inspect, Frame
  <2>2. PICK e : /\ procs' = [procs EXCEPT ![n][w] = e]
                 /\ e = NoProc \/ e.ip = NoIP
    <3>1. CASE procs' = [procs EXCEPT ![n][w] = NoProc]
      BY <3>1, Zenon
    <3>2. CASE \E p \in Alive(n, w) : procs' = [procs EXCEPT ![n][w] = [pid |-> p.pid, ip |-> NoIP]]
      <4>1. PICK p \in Alive(n, w) : procs' = [procs EXCEPT ![n][w] = [pid |-> p.pid, ip |-> NoIP]]
        BY <3>2, Zenon
      <4> DEFINE e == [pid |-> p.pid, ip |-> NoIP]
      <4>2. procs' = [procs EXCEPT ![n][w] = e] /\ e.ip = NoIP
        BY <4>1, Zenon
      <4> HIDE DEF e
      <4> QED
        BY <4>2, Zenon
    <3> QED
      BY <1>4, <3>1, <3>2, Zenon DEF Inspect
  <2>3. \A v \in VMs, m \in Nodes :
          procs'[m][v] = procs[m][v] \/ procs'[m][v] = NoProc \/ procs'[m][v].ip = NoIP
    BY <1>1, <2>2, Zenon
  <2> QED
    BY <2>1, <2>3, Zenon DEF Shrinks, Alive
<1>5. ASSUME NEW n, NEW w \in VMs,
             \/ StartTimeout(n, w) \/ Schedule(n, w)
             \/ Terminate(w) \/ Suspend(w) \/ Resume(w)
      PROVE  lease' = lease /\ \A v \in VMs : Shrinks(v)
  BY <1>5, Zenon DEF StartTimeout, Schedule, Terminate, Suspend, Resume, Frame, Shrinks, Alive
<1>6. ASSUME NEW n \in Nodes, AgentCrash(n)
      PROVE  lease' = lease /\ \A v \in VMs : Shrinks(v)
  BY <1>6, Zenon DEF AgentCrash, Shrinks, Alive
<1>7. ASSUME NEW n \in Nodes, RuntimeRestart(n)
      PROVE  lease' = lease /\ \A v \in VMs : Shrinks(v)
  BY <1>7, Zenon DEF RuntimeRestart, Shrinks, Alive, Typed, TypeOK
<1>8. ASSUME NEW n \in Nodes, ProcessExit(n)
      PROVE  lease' = lease /\ \A v \in VMs : Shrinks(v)
  <2>1. PICK p \in live[n] : live' = [live EXCEPT ![n] = @ \ {p}]
    BY <1>8, Zenon DEF ProcessExit
  <2> QED
    BY <1>8, <2>1, Zenon DEF ProcessExit, Frame, Shrinks, Alive, Typed, TypeOK
<1>9. lease' = lease /\ \A v \in VMs : Shrinks(v)
  BY <1>2, <1>3, <1>4, <1>5, <1>6, <1>7, <1>8, Zenon DEF Next
<1> QED
  BY <1>9, OverlappedGrows, CeaseStep, Zenon

(* HostNetwork implements AddressClaims: Allocate takes only free          *)
(* addresses or finds its own, a VM comes to run only on an address it     *)
(* holds, and no Release, of a Stop, a failed start or the call of a dead  *)
(* agent, gives an address up while the guest of its holder runs.          *)
THEOREM ClaimsImplemented == Spec => ClaimsHandedOver
<1>1. Init => Claims!Init
  BY DEF Init, Claims!Init, UsedBy, Owners, Owned
<1>2. Typed /\ NetInv /\ NetInv' /\ [Next]_vars => [Claims!Next]_<<lease, [v \in VMs |-> UsedBy(v)]>>
  <2> SUFFICES ASSUME Typed, NetInv, NetInv', [Next]_vars
               PROVE  Claims!Next \/ UNCHANGED <<lease, [v \in VMs |-> UsedBy(v)]>>
    BY Zenon
  <2>1. CASE UNCHANGED vars
    BY <2>1, SameUse, Zenon DEF vars
  <2>2. CASE Next
    BY <2>2, StartRefines, StopRefines, OtherRefines, Zenon
  <2> QED
    BY <2>1, <2>2, Zenon
<1> QED
  BY <1>1, <1>2, NetInvariant, PTL DEF Spec, ClaimsHandedOver, Claims!Spec, Claims!claims

-----------------------------------------------------------------------------
(* The inductive invariant behind NATKeptWhileOwned, as long as no agent   *)
(* died in a call and no VM was started over what was left of it.          *)

Clean == ~crashed /\ ~leftover /\ overlapped = {}

(* A VM that is being started has no entry anywhere.                       *)
StartsAlone ==
  \A n \in Nodes, v \in VMs :
    Busy(n, "agent", v) /\ calls[n]["agent"].pc \in StartPCs => \A m \in Nodes : procs[m][v] = NoProc

(* A VM with an entry on one node has neither entry nor process elsewhere. *)
Apart ==
  \A n, m \in Nodes, v \in VMs :
    procs[n][v] # NoProc /\ n # m => procs[m][v] = NoProc /\ Alive(m, v) = {}

HasNetInfo(n, v) == procs[n][v] # NoProc /\ procs[n][v].ip # NoIP

(* Another VM's entry on the node has the address.                         *)
Taken(n, v, a) == \E w \in VMs \ {v} : HasNetInfo(n, w) /\ procs[n][w].ip = a

(* A Stop of the VM has come to one of the steps.                          *)
Dropping(n, v, pcs) == Busy(n, "agent", v) /\ calls[n]["agent"].pc \in pcs

(* The address of an entry is claimed by its VM, and allocated on the      *)
(* node, until the Stop of the VM gives them back.                         *)
EntryHolds(n, v) ==
  HasNetInfo(n, v) =>
    /\ Dropping(n, v, {"forget", "unnat", "drop"}) \/ lease[procs[n][v].ip] = v
    /\ Dropping(n, v, {"unnat", "drop"}) \/ procs[n][v].ip \in local[n].allocated

(* A call gives back to the node's Allocator only what is allocated there  *)
(* for its own VM, and goes on to remove the NAT rule only when no other   *)
(* VM has an entry with an address.                                        *)
AgentHolds(n) ==
  LET c == calls[n]["agent"] IN
  c # Idle =>
    /\ c.pc \in {"boot", "undo", "undone", "unclaim", "unclaimed", "forget"} =>
         c.ip \in local[n].allocated /\ ~Taken(n, c.vm, c.ip)
    /\ c.pc \in {"stop", "release"} => procs[n][c.vm] # NoProc /\ procs[n][c.vm].ip = c.ip
    /\ c.pc = "unnat" => \A w \in VMs : HasNetInfo(n, w) => w = c.vm

NodeOK(n) ==
  /\ local[n].count = Cardinality(local[n].allocated)
  /\ AgentHolds(n)
  /\ \A v \in VMs : EntryHolds(n, v)

NATBody ==
  /\ \A n \in Nodes : calls[n]["orphan"] = Idle
  /\ StartsAlone
  /\ Apart
  /\ \A n \in Nodes : NodeOK(n)

NATInv == Clean => NATBody

CallStep(n, s) == StartStep(n, s) \/ StopStep(n, s) \/ ClaimFails(n, s) \/ ReleaseFails(n, s)

(* A step of a call and the call it comes to.                              *)
LEMMA StepCall ==
  ASSUME Typed, NEW n \in Nodes, NEW s \in Slots, CallStep(n, s)
  PROVE  /\ calls[n][s] # Idle
         /\ Goto(n, s, calls'[n][s])
         /\ calls'[n][s] # Idle =>
              /\ calls'[n][s].vm = calls[n][s].vm
              /\ calls'[n][s].pc \in StartPCs <=> calls[n][s].pc \in StartPCs
<1> DEFINE c == calls[n][s]
<1>1. c # Idle /\ c \in Call
  BY CallFields, Zenon DEF CallStep, StartStep, StopStep, ClaimFails, ReleaseFails
<1>2. ASSUME NEW x \in StartPCs \cup StopPCs, x \in StartPCs <=> c.pc \in StartPCs,
             Goto(n, s, [c EXCEPT !.pc = x])
      PROVE  /\ Goto(n, s, calls'[n][s])
             /\ calls'[n][s].vm = calls[n][s].vm
             /\ calls'[n][s].pc \in StartPCs <=> calls[n][s].pc \in StartPCs
  <2> DEFINE d == [c EXCEPT !.pc = x]
  <2>1. d.vm = c.vm /\ d.pc = x /\ Goto(n, s, d)
    BY <1>1, <1>2, CallMoves, Zenon
  <2> HIDE DEF d
  <2> QED
    BY <1>2, <2>1, GotoSelf
<1>3. Goto(n, s, Idle) => Goto(n, s, calls'[n][s]) /\ calls'[n][s] = Idle
  BY GotoSelf, Zenon
<1>4. ASSUME NEW a, Goto(n, s, [c EXCEPT !.pc = "create", !.ip = a]), c.pc \in StartPCs
      PROVE  /\ Goto(n, s, calls'[n][s])
             /\ calls'[n][s].vm = calls[n][s].vm
             /\ calls'[n][s].pc \in StartPCs <=> calls[n][s].pc \in StartPCs
  <2> DEFINE d == [c EXCEPT !.pc = "create", !.ip = a]
  <2>1. d.vm = c.vm /\ d.pc = "create" /\ Goto(n, s, d)
    BY <1>1, <1>4, Zenon DEF Call
  <2>2. "create" \in StartPCs
    BY Zenon DEF StartPCs
  <2> HIDE DEF d
  <2> QED
    BY <1>4, <2>1, <2>2, GotoSelf, Zenon
<1>5. \/ Goto(n, s, Idle)
      \/ \E a : Goto(n, s, [c EXCEPT !.pc = "create", !.ip = a]) /\ c.pc = "get"
      \/ \E x \in {"get", "setup", "boot", "undo", "undone", "unclaim", "unclaimed"} :
           /\ Goto(n, s, [c EXCEPT !.pc = x])
           /\ c.pc \in {"create", "get", "setup", "boot", "undo", "unclaim"}
      \/ \E x \in {"release", "forget", "unnat", "drop"} :
           /\ Goto(n, s, [c EXCEPT !.pc = x])
           /\ c.pc \in {"stop", "release", "forget", "unnat"}
  <2>1. CASE StartStep(n, s)
    BY <2>1, Zenon DEF StartStep, ClaimCreate, ClaimGet, SetupNetwork, SetupFails, Boot,
       BootUnreported, BootFails, UndoClaim, UndoLocal, Return, ReturnError
  <2>2. CASE StopStep(n, s)
    BY <2>2, Zenon DEF StopStep, StopMachine, StopRelease, StopForget, StopRemoveNAT, StopDrop, Return
  <2>3. CASE ClaimFails(n, s)
    BY <2>3, Zenon DEF ClaimFails, ReturnError
  <2>4. CASE ReleaseFails(n, s)
    BY <2>4, Zenon DEF ReleaseFails
  <2> QED
    BY <2>1, <2>2, <2>3, <2>4, Zenon DEF CallStep
<1>6. /\ {"create", "get", "setup", "boot", "undo", "undone", "unclaim", "unclaimed"} = StartPCs
      /\ {"release", "forget", "unnat", "drop"} \subseteq StopPCs
      /\ {"stop", "release", "forget", "unnat", "drop"} \cap StartPCs = {}
  BY Zenon DEF StartPCs, StopPCs
<1> QED
  BY <1>1, <1>2, <1>3, <1>4, <1>5, <1>6, ZenonT(60)

(* The history only grows.                                                 *)
LEMMA CleanBefore ==
  ASSUME Typed, [Next]_vars, Clean'
  PROVE  Clean
<1>0. crashed \in BOOLEAN /\ leftover \in BOOLEAN /\ ~crashed' /\ ~leftover'
  BY Zenon DEF Typed, TypeOK, Clean
<1>1. ASSUME NEW k, NoEvent \/ Happens(k) PROVE ~crashed /\ ~leftover
  <2>1. leftover' = leftover /\ (crashed' = crashed \/ crashed' = (crashed \/ k = "crash"))
    BY <1>1, Zenon DEF NoEvent, Happens
  <2>2. crashed => crashed'
    BY <1>0, <2>1, Zenon
  <2> QED
    BY <1>0, <2>1, <2>2, Zenon
<1>2. ASSUME NEW n, NEW s, StartStep(n, s) PROVE ~crashed /\ ~leftover
  <2>1. NoEvent \/ Happens("startfail") \/ Happens("api")
    BY <1>2, Zenon DEF StartStep, ClaimCreate, ClaimGet, SetupNetwork, SetupFails, Boot,
       BootUnreported, BootFails, UndoClaim, UndoLocal
  <2> QED
    BY <1>1, <2>1, Zenon
<1>3. ASSUME NEW n, NEW s, StopStep(n, s) \/ ClaimFails(n, s) \/ ReleaseFails(n, s)
      PROVE  ~crashed /\ ~leftover
  <2>1. NoEvent \/ Happens("api")
    BY <1>3, Zenon DEF StopStep, StopMachine, StopRelease, StopForget, StopRemoveNAT, StopDrop,
       ClaimFails, ReleaseFails
  <2> QED
    BY <1>1, <2>1, Zenon
<1>4. ASSUME NEW n, NEW v, BeginStart(n, v) \/ BeginStop(n, v) \/ BeginSuspend(n, v)
      PROVE  ~crashed /\ ~leftover
  <2>1. \/ NoEvent
        \/ crashed' = crashed /\ leftover' = (leftover \/ \E m \in Nodes : procs[m][v] # NoProc)
    BY <1>4, Zenon DEF BeginStart, BeginStop, BeginSuspend
  <2>2. CASE NoEvent
    BY <1>0, <2>2, Zenon DEF NoEvent
  <2>3. CASE crashed' = crashed /\ leftover' = (leftover \/ \E m \in Nodes : procs[m][v] # NoProc)
    <3>1. leftover => leftover'
      BY <1>0, <2>3, Zenon
    <3> QED
      BY <1>0, <2>3, <3>1, Zenon
  <2> QED
    BY <2>1, <2>2, <2>3, Zenon
<1>5. ASSUME NEW n, NEW v,
             \/ Inspect(n, v) \/ StartTimeout(n, v) \/ Schedule(n, v)
             \/ Terminate(v) \/ Suspend(v) \/ Resume(v)
      PROVE  ~crashed /\ ~leftover
  <2>1. NoEvent \/ Happens("move") \/ Happens("recreate") \/ Happens("suspend")
    BY <1>5, Zenon DEF Inspect, StartTimeout, Schedule, Terminate, Suspend, Resume
  <2> QED
    BY <1>1, <2>1, Zenon
<1>6. ASSUME NEW n, AgentCrash(n) \/ RuntimeRestart(n) \/ ProcessExit(n)
      PROVE  ~crashed /\ ~leftover
  <2>1. Happens("crash") \/ Happens("restart") \/ Happens("exit")
    BY <1>6, Zenon DEF AgentCrash, RuntimeRestart, ProcessExit
  <2> QED
    BY <1>1, <2>1, Zenon
<1>7. UNCHANGED vars => ~crashed /\ ~leftover
  BY DEF vars, Clean
<1>8. ~crashed /\ ~leftover
  BY <1>2, <1>3, <1>4, <1>5, <1>6, <1>7, Zenon DEF Next
<1> QED
  BY <1>8, OverlappedGrows, Zenon DEF Clean

LEMMA CrashIsSeen ==
  ASSUME NEW n, AgentCrash(n)
  PROVE  ~Clean'
BY Zenon DEF AgentCrash, Happens, Clean

(* Only agents' calls are in flight.                                       *)
LEMMA OnlyAgents ==
  ASSUME NATBody, NEW n \in Nodes, NEW s \in Slots, calls[n][s] # Idle
  PROVE  s = "agent"
BY Zenon DEF NATBody, Slots

LEMMA GotoRest ==
  ASSUME Typed, NEW n \in Nodes, NEW s \in Slots, NEW d, Goto(n, s, d)
  PROVE  /\ calls'[n][s] = d
         /\ \A m \in Nodes, t \in Slots : m # n \/ t # s => calls'[m][t] = calls[m][t]
<1>1. calls \in [Nodes -> [Slots -> Call \cup {Idle}]] /\ calls' = [calls EXCEPT ![n][s] = d]
  BY Zenon DEF Typed, TypeOK, Goto
<1> QED
  BY <1>1, Zenon

LEMMA OrphanStep ==
  ASSUME Typed, NATBody, [Next]_vars, Clean'
  PROVE  \A n \in Nodes : calls'[n]["orphan"] = Idle
<1>1. "agent" \in Slots /\ "orphan" \in Slots /\ \A n \in Nodes : calls[n]["orphan"] = Idle
  BY Zenon DEF Slots, NATBody
<1>2. ASSUME NEW n \in Nodes, NEW s \in Slots, CallStep(n, s)
      PROVE  \A m \in Nodes : calls'[m]["orphan"] = Idle
  <2>1. s = "agent" /\ Goto(n, s, calls'[n][s])
    BY <1>2, StepCall, OnlyAgents, Zenon
  <2> QED
    BY <1>1, <2>1, GotoRest
<1>3. ASSUME NEW n \in Nodes, NEW v \in VMs, BeginStart(n, v) \/ BeginStop(n, v) \/ BeginSuspend(n, v)
      PROVE  \A m \in Nodes : calls'[m]["orphan"] = Idle
  BY <1>1, <1>3, BeginCall, GotoRest
<1>4. ASSUME NEW n, NEW v,
             \/ Inspect(n, v) \/ StartTimeout(n, v) \/ Schedule(n, v)
             \/ Terminate(v) \/ Suspend(v) \/ Resume(v) \/ ProcessExit(n)
      PROVE  \A m \in Nodes : calls'[m]["orphan"] = Idle
  BY <1>1, <1>4, Zenon DEF Inspect, StartTimeout, Schedule, Terminate, Suspend, Resume, ProcessExit, Frame
<1>5. ASSUME NEW n \in Nodes, RuntimeRestart(n)
      PROVE  \A m \in Nodes : calls'[m]["orphan"] = Idle
  BY <1>1, <1>5, Zenon DEF RuntimeRestart, Typed, TypeOK
<1>6. UNCHANGED vars => \A m \in Nodes : calls'[m]["orphan"] = Idle
  BY <1>1, Zenon DEF vars
<1> QED
  BY <1>2, <1>3, <1>4, <1>5, <1>6, CrashIsSeen, Zenon DEF Next, CallStep

(* What the steps do to the entries of a VM.                               *)
LEMMA EntryChanges ==
  ASSUME Typed, [Next]_vars, NEW n \in Nodes, NEW v \in VMs,
         procs'[n][v] # procs[n][v], procs'[n][v] # NoProc
  PROVE  \/ /\ procs'[n][v].ip = NoIP
            /\ Inspect(n, v) /\ Alive(n, v) # {}
         \/ \E s \in Slots :
              /\ Busy(n, s, v)
              /\ Boot(n, s) \/ BootUnreported(n, s)
              /\ procs'[n][v].ip = calls[n][s].ip
<1>1. procs \in [Nodes -> [VMs -> Entry \cup {NoProc}]]
  BY Zenon DEF Typed, TypeOK
<1>2. ASSUME NEW m \in Nodes, NEW s \in Slots, CallStep(m, s), ~Boot(m, s), ~BootUnreported(m, s)
      PROVE  FALSE
  <2>1. procs' = procs \/ procs' = [procs EXCEPT ![m][calls[m][s].vm] = NoProc]
    BY <1>2, Zenon DEF CallStep, StartStep, ClaimCreate, ClaimGet, SetupNetwork, SetupFails,
       BootFails, UndoClaim, UndoLocal, ClaimFails, ReleaseFails,
       StopStep, StopMachine, StopRelease, StopForget, StopRemoveNAT, StopDrop
  <2> QED
    BY <1>1, <2>1
<1>3. ASSUME NEW m \in Nodes, NEW s \in Slots, calls[m][s] # Idle, Boot(m, s) \/ BootUnreported(m, s)
      PROVE  m = n /\ Busy(n, s, v) /\ procs'[n][v].ip = calls[n][s].ip
  <2> DEFINE e == [pid |-> NewPid(m), ip |-> calls[m][s].ip]
  <2>1. procs' = [procs EXCEPT ![m][calls[m][s].vm] = e] /\ e.ip = calls[m][s].ip
    BY <1>3, Zenon DEF Boot, BootUnreported, Launch
  <2> HIDE DEF e
  <2> QED
    BY <1>1, <1>3, <2>1, Zenon DEF Busy
<1>4. ASSUME NEW m \in Nodes, NEW w \in VMs, Inspect(m, w)
      PROVE  m = n /\ w = v /\ procs'[n][v].ip = NoIP /\ Alive(n, v) # {}
  <2>1. PICK p \in Alive(m, w) : procs' = [procs EXCEPT ![m][w] = [pid |-> p.pid, ip |-> NoIP]]
    BY <1>1, <1>4 DEF Inspect
  <2> QED
    BY <1>1, <2>1, Zenon
<1>5. procs' # procs
  BY Zenon
<1>6. ASSUME NEW m \in Nodes, RuntimeRestart(m) PROVE FALSE
  BY <1>1, <1>6, Zenon DEF RuntimeRestart
<1>7. ~UNCHANGED vars
  BY <1>5, Zenon DEF vars
<1>8. CASE \E m \in Nodes, s \in Slots : CallStep(m, s)
  <2>1. PICK m \in Nodes, s \in Slots : CallStep(m, s)
    BY <1>8, Zenon
  <2>2. calls[m][s] # Idle /\ (Boot(m, s) \/ BootUnreported(m, s))
    BY <1>2, <2>1, StepCall, Zenon
  <2> QED
    BY <1>3, <2>2, Zenon
<1>9. CASE \E m \in Nodes, w \in VMs : Inspect(m, w)
  BY <1>4, <1>9, Zenon
<1>10. ASSUME NEW m \in Nodes, NEW w \in VMs,
              BeginStart(m, w) \/ BeginStop(m, w) \/ BeginSuspend(m, w) \/ StartTimeout(m, w) \/ Schedule(m, w)
       PROVE  FALSE
  BY <1>5, <1>10, Zenon DEF BeginStart, BeginStop, BeginSuspend, StartTimeout, Schedule
<1>11. ASSUME NEW w \in VMs, Terminate(w) \/ Suspend(w) \/ Resume(w) PROVE FALSE
  BY <1>5, <1>11, Zenon DEF Terminate, Suspend, Resume
<1>12. ASSUME NEW m \in Nodes, AgentCrash(m) \/ ProcessExit(m) PROVE FALSE
  BY <1>5, <1>12, Zenon DEF AgentCrash, ProcessExit
<1> QED
  BY <1>6, <1>7, <1>8, <1>9, <1>10, <1>11, <1>12, ZenonT(60) DEF Next, CallStep

LEMMA AliveGrows ==
  ASSUME Typed, [Next]_vars, NEW n \in Nodes, NEW v \in VMs, ~(Alive(n, v)' \subseteq Alive(n, v))
  PROVE  \E s \in Slots : Busy(n, s, v) /\ (Boot(n, s) \/ BootUnreported(n, s))
<1>1. live \in [Nodes -> SUBSET [pid : Pids, vm : VMs, ip : Addresses]]
  BY Zenon DEF Typed, TypeOK
<1>2. live' # live
  BY Zenon DEF Alive
<1>3. ASSUME NEW m \in Nodes, NEW s \in Slots, StopStep(m, s) PROVE FALSE
  BY <1>3, StopShrinks, Zenon
<1>4. ASSUME NEW m \in Nodes, NEW s \in Slots, StartStep(m, s)
      PROVE  m = n /\ Busy(n, s, v) /\ (Boot(n, s) \/ BootUnreported(n, s))
  <2>1. calls[m][s] # Idle /\ (Boot(m, s) \/ BootUnreported(m, s))
    BY <1>2, <1>4, Zenon DEF StartStep, ClaimCreate, ClaimGet, SetupNetwork, SetupFails, BootFails,
       UndoClaim, UndoLocal
  <2> DEFINE p == [pid |-> NewPid(m), vm |-> calls[m][s].vm,
                   ip |-> IF calls[m][s].mem = NoIP THEN calls[m][s].ip ELSE calls[m][s].mem]
  <2>2. live' = [live EXCEPT ![m] = @ \cup {p}] /\ p.vm = calls[m][s].vm
    BY <2>1, Zenon DEF Boot, BootUnreported, Launch
  <2> HIDE DEF p
  <2>3. m = n /\ p.vm = v
    BY <1>1, <2>2, Zenon DEF Alive
  <2> QED
    BY <2>1, <2>2, <2>3, Zenon DEF Busy
<1>5. ASSUME NEW m \in Nodes, RuntimeRestart(m) \/ ProcessExit(m) PROVE FALSE
  <2>1. CASE RuntimeRestart(m)
    BY <1>1, <2>1, Zenon DEF RuntimeRestart, Alive
  <2>2. CASE ProcessExit(m)
    <3>1. PICK p \in live[m] : live' = [live EXCEPT ![m] = @ \ {p}]
      BY <2>2, Zenon DEF ProcessExit
    <3> QED
      BY <1>1, <3>1, Zenon DEF Alive
  <2> QED
    BY <1>5, <2>1, <2>2, Zenon
<1>6. ASSUME NEW m, NEW w, NEW s,
             \/ ClaimFails(m, s) \/ ReleaseFails(m, s)
             \/ BeginStart(m, w) \/ BeginStop(m, w) \/ BeginSuspend(m, w)
             \/ Inspect(m, w) \/ StartTimeout(m, w) \/ Schedule(m, w)
             \/ Terminate(w) \/ Suspend(w) \/ Resume(w) \/ AgentCrash(m) \/ UNCHANGED vars
      PROVE  FALSE
  BY <1>2, <1>6, Zenon DEF ClaimFails, ReleaseFails, BeginStart, BeginStop, BeginSuspend, Inspect,
     StartTimeout, Schedule, Terminate, Suspend, Resume, AgentCrash, vars
<1> QED
  BY <1>3, <1>4, <1>5, <1>6, Zenon DEF Next

(* A Start that is under way was so before, or has just begun.             *)
LEMMA StartOrigin ==
  ASSUME Typed, NATBody, [Next]_vars, Clean', NEW n \in Nodes, NEW v \in VMs,
         Busy(n, "agent", v)', calls'[n]["agent"].pc \in StartPCs
  PROVE  \/ Busy(n, "agent", v) /\ calls[n]["agent"].pc \in StartPCs
         \/ BeginStart(n, v)
<1>1. "agent" \in Slots /\ "stop" \notin StartPCs
  BY Zenon DEF Slots, StartPCs
<1>2. calls'[n]["agent"] # Idle /\ calls'[n]["agent"].vm = v
  BY Zenon DEF Busy
<1>3. CASE calls'[n]["agent"] = calls[n]["agent"]
  BY <1>2, <1>3, Zenon DEF Busy
<1>4. CASE calls'[n]["agent"] # calls[n]["agent"]
  <2>1. ASSUME NEW m \in Nodes, NEW s \in Slots, CallStep(m, s)
        PROVE  Busy(n, "agent", v) /\ calls[n]["agent"].pc \in StartPCs
    <3>1. s = "agent" /\ Goto(m, s, calls'[m][s])
      BY <2>1, StepCall, OnlyAgents, Zenon
    <3>2. m = n
      BY <1>1, <1>4, <3>1, GotoRest
    <3> QED
      BY <1>2, <2>1, <3>1, <3>2, StepCall, Zenon DEF Busy
  <2>2. ASSUME NEW m \in Nodes, NEW w \in VMs, BeginStart(m, w) \/ BeginStop(m, w) \/ BeginSuspend(m, w)
        PROVE  BeginStart(n, v)
    <3>1. Goto(m, "agent", calls'[m]["agent"]) /\ calls'[m]["agent"].vm = w
      BY <1>4, <2>2, BeginCall, Zenon
    <3>2. m = n
      BY <1>1, <1>4, <3>1, GotoRest
    <3>3. v = w
      BY <1>2, <3>1, <3>2, Zenon
    <3> QED
      BY <1>1, <1>4, <2>2, <3>2, <3>3, BeginCall, Zenon
  <2>3. ASSUME NEW m \in Nodes, RuntimeRestart(m) PROVE FALSE
    <3>1. calls' = [calls EXCEPT ![m] = [s \in Slots |-> Idle]]
      BY <2>3, Zenon DEF RuntimeRestart
    <3> QED
      BY <1>1, <1>2, <1>4, <3>1, Zenon DEF Typed, TypeOK
  <2>4. calls' # calls /\ ~UNCHANGED vars
    BY <1>4, Zenon DEF vars
  <2> QED
    BY <2>1, <2>2, <2>3, <2>4, CrashIsSeen, ZenonT(60) DEF Next, CallStep, Inspect, StartTimeout, Schedule,
       Terminate, Suspend, Resume, ProcessExit, Frame
<1> QED
  BY <1>3, <1>4, Zenon

(* While Clean, every VM is Sound.                                         *)
LEMMA AllSound ==
  ASSUME Clean, NetInv
  PROVE  \A v \in VMs : Sound(v)
BY Zenon DEF Clean, NetInv

(* A Boot is that of an agent's Start, which has its address and TAP.      *)
LEMMA BootStarts ==
  ASSUME Typed, Clean, NetInv, NATBody, NEW n \in Nodes, NEW s \in Slots, NEW v \in VMs,
         Busy(n, s, v), Boot(n, s) \/ BootUnreported(n, s)
  PROVE  /\ s = "agent" /\ calls[n][s].pc = "boot" /\ calls'[n]["agent"] = Idle
         /\ NoGuest(v) /\ \A m \in Nodes : procs[m][v] = NoProc
         /\ lease[calls[n][s].ip] = v
<1>1. s = "agent"
  BY OnlyAgents, Zenon DEF Busy
<1>2. calls[n][s].pc = "boot" /\ Goto(n, s, Idle)
  BY Zenon DEF Boot, BootUnreported, Launch, Return, ReturnError
<1>3. CallHolds(n, s, v)
  BY AllSound, Zenon DEF Sound
<1>4. "boot" \in StartPCs /\ StartPCs \subseteq NeedsAddress
  BY Zenon DEF StartPCs, NeedsAddress
<1>5. NoGuest(v) /\ lease[calls[n][s].ip] = v
  BY <1>2, <1>3, <1>4, Zenon DEF CallHolds
<1>6. \A m \in Nodes : procs[m][v] = NoProc
  BY <1>1, <1>2, <1>4, Zenon DEF NATBody, StartsAlone
<1>7. calls'[n]["agent"] = Idle
  BY <1>1, <1>2, GotoRest, Zenon
<1> QED
  BY <1>1, <1>2, <1>5, <1>6, <1>7, Zenon

LEMMA StartsAloneStep ==
  ASSUME Typed, Clean, NetInv, NATBody, [Next]_vars, Clean'
  PROVE  StartsAlone'
<1> SUFFICES ASSUME NEW n \in Nodes, NEW v \in VMs, Busy(n, "agent", v)',
                    calls'[n]["agent"].pc \in StartPCs, NEW m \in Nodes
             PROVE  procs'[m][v] = NoProc
  BY Zenon DEF StartsAlone
<1>1. CASE BeginStart(n, v)
  <2>1. leftover' = (leftover \/ \E k \in Nodes : procs[k][v] # NoProc) /\ procs' = procs /\ ~leftover'
    BY <1>1, Zenon DEF BeginStart, Clean
  <2>2. ~\E k \in Nodes : procs[k][v] # NoProc
    BY <2>1, Zenon
  <2> QED
    BY <2>1, <2>2, Zenon
<1>2. CASE Busy(n, "agent", v) /\ calls[n]["agent"].pc \in StartPCs
  <2> SUFFICES ASSUME procs'[m][v] # NoProc PROVE FALSE
    BY Zenon
  <2>1. procs[m][v] = NoProc
    BY <1>2, Zenon DEF NATBody, StartsAlone
  <2>2. "agent" \in Slots /\ StartPCs \subseteq NeedsAddress
    BY Zenon DEF Slots, NeedsAddress
  <2>3. NoGuest(v) /\ OneCall(v)
    BY <1>2, <2>2, AllSound, Zenon DEF Sound, CallHolds
  <2>4. PICK s \in Slots : Busy(m, s, v) /\ (Boot(m, s) \/ BootUnreported(m, s))
    BY <2>1, <2>3, EntryChanges, Zenon DEF NoGuest
  <2>5. m = n /\ s = "agent"
    BY <1>2, <2>2, <2>3, <2>4, Zenon DEF OneCall
  <2>6. calls'[n]["agent"] = Idle
    BY <2>4, <2>5, BootStarts, Zenon
  <2> QED
    BY <2>6, Zenon DEF Busy
<1> QED
  BY <1>1, <1>2, StartOrigin, Zenon

LEMMA ApartStep ==
  ASSUME Typed, Clean, NetInv, NATBody, [Next]_vars
  PROVE  Apart'
<1> SUFFICES ASSUME NEW n \in Nodes, NEW m \in Nodes, NEW v \in VMs, procs'[n][v] # NoProc, n # m
             PROVE  procs'[m][v] = NoProc /\ Alive(m, v)' = {}
  BY Zenon DEF Apart
<1>1. Sound(v)
  BY AllSound, Zenon
<1>2. ASSUME NEW s \in Slots, Busy(m, s, v), Boot(m, s) \/ BootUnreported(m, s)
      PROVE  FALSE
  <2>1. procs[n][v] = NoProc /\ NoGuest(v)
    BY <1>2, BootStarts
  <2>2. PICK t \in Slots : Busy(n, t, v)
    BY <2>1, EntryChanges, Zenon DEF NoGuest
  <2> QED
    BY <1>1, <1>2, <2>2, Zenon DEF Sound, OneCall
<1>3. procs[m][v] = NoProc /\ Alive(m, v) = {}
  <2>1. CASE procs'[n][v] = procs[n][v]
    BY <2>1, Zenon DEF NATBody, Apart
  <2>2. CASE procs'[n][v] # procs[n][v] /\ Alive(n, v) # {}
    BY <1>1, <2>2 DEF NATBody, Apart, Sound, OneProcess
  <2>3. CASE \E s \in Slots : Busy(n, s, v) /\ (Boot(n, s) \/ BootUnreported(n, s))
    BY <2>3, BootStarts DEF NoGuest
  <2> QED
    BY <2>1, <2>2, <2>3, EntryChanges, Zenon
<1>4. procs'[m][v] = NoProc
  BY <1>2, <1>3, EntryChanges, Zenon
<1>5. Alive(m, v)' = {}
  BY <1>2, <1>3, AliveGrows, Zenon
<1> QED
  BY <1>4, <1>5, Zenon

(* The Lease of an entry's address stays with its VM until a Stop on the   *)
(* node of the entry releases it.                                          *)
LEMMA LeaseKept ==
  ASSUME Typed, Clean, NetInv, NATBody, [Next]_vars, NEW n \in Nodes, NEW v \in VMs,
         HasNetInfo(n, v), NEW a \in Addresses, lease[a] = v
  PROVE  lease'[a] = v \/ (Busy(n, "agent", v) /\ StopRelease(n, "agent"))
<1>1. ASSUME NEW m \in Nodes, NEW s \in Slots, StartStep(m, s) PROVE lease'[a] = v
  <2>1. CASE calls[m][s].vm # v
    BY <1>1, <2>1, StartOthers DEF Stable
  <2>2. CASE calls[m][s].vm = v
    <3>1. calls[m][s] # Idle /\ calls[m][s].pc \in StartPCs
      BY <1>1, Zenon DEF StartStep, ClaimCreate, ClaimGet, SetupNetwork, SetupFails, Boot,
         BootUnreported, Launch, BootFails, UndoClaim, UndoLocal, StartPCs
    <3>2. s = "agent"
      BY <3>1, OnlyAgents, Zenon
    <3> QED
      BY <2>2, <3>1, <3>2, Zenon DEF NATBody, StartsAlone, Busy, HasNetInfo
  <2> QED
    BY <2>1, <2>2, Zenon
<1>2. ASSUME NEW m \in Nodes, NEW s \in Slots, StopStep(m, s)
      PROVE  lease'[a] = v \/ (Busy(n, "agent", v) /\ StopRelease(n, "agent"))
  <2>1. CASE calls[m][s].vm # v
    BY <1>2, <2>1, StopOthers DEF Stable
  <2>2. CASE calls[m][s].vm = v /\ StopRelease(m, s)
    <3>1. calls[m][s] # Idle /\ calls[m][s].pc = "release" /\ s = "agent"
      BY <1>2, <2>2, OnlyAgents, Zenon DEF StopStep, StopRelease
    <3>2. procs[m][v] # NoProc
      BY <2>2, <3>1, Zenon DEF NATBody, NodeOK, AgentHolds
    <3>3. m = n
      BY <3>2, Zenon DEF NATBody, Apart, HasNetInfo
    <3> QED
      BY <2>2, <3>1, <3>3, Zenon DEF Busy
  <2>3. CASE lease' = lease
    BY <2>3, Zenon
  <2> QED
    BY <1>2, <2>1, <2>2, <2>3, ZenonT(60) DEF StopStep, StopMachine, StopForget, StopRemoveNAT, StopDrop
<1>3. ASSUME NEW m, NEW w, NEW s,
             \/ ClaimFails(m, s) \/ ReleaseFails(m, s)
             \/ BeginStart(m, w) \/ BeginStop(m, w) \/ BeginSuspend(m, w)
             \/ Inspect(m, w) \/ StartTimeout(m, w) \/ Schedule(m, w)
             \/ Terminate(w) \/ Suspend(w) \/ Resume(w)
             \/ AgentCrash(m) \/ RuntimeRestart(m) \/ ProcessExit(m) \/ UNCHANGED vars
      PROVE  lease' = lease
  BY <1>3, Zenon DEF ClaimFails, ReleaseFails, BeginStart, BeginStop, BeginSuspend, Inspect,
     StartTimeout, Schedule, Terminate, Suspend, Resume, AgentCrash, RuntimeRestart, ProcessExit,
     Frame, vars
<1> QED
  BY <1>1, <1>2, <1>3, Zenon DEF Next

LEMMA NetInfoAddress ==
  ASSUME Typed, NEW n \in Nodes, NEW v \in VMs, HasNetInfo(n, v)
  PROVE  procs[n][v].ip \in Addresses
BY DEF HasNetInfo, Typed, TypeOK, Entry

(* A node on which nothing changes.                                        *)
LEMMA NodeSame ==
  ASSUME NEW n \in Nodes, NodeOK(n), local'[n] = local[n], procs'[n] = procs[n],
         calls'[n]["agent"] = calls[n]["agent"],
         \A v \in VMs : HasNetInfo(n, v) /\ lease[procs[n][v].ip] = v => lease'[procs[n][v].ip] = v
  PROVE  NodeOK(n)'
<1>1. AgentHolds(n)'
  BY Zenon DEF NodeOK, AgentHolds, Taken, HasNetInfo
<1>2. \A v \in VMs : EntryHolds(n, v)'
  BY Zenon DEF NodeOK, EntryHolds, HasNetInfo, Dropping, Busy
<1> QED
  BY <1>1, <1>2, Zenon DEF NodeOK

(* The Allocator's count is that of its addresses.                         *)
LEMMA CountKept ==
  ASSUME NEW a \in [allocated : SUBSET Addresses, count : Nat], NEW ip,
         a.count = Cardinality(a.allocated)
  PROVE  /\ Reserve(a, ip).count = Cardinality(Reserve(a, ip).allocated)
         /\ Reserve(a, ip).allocated = a.allocated \cup {ip}
         /\ ip \in a.allocated =>
              Release(a, ip).count = Cardinality(Release(a, ip).allocated)
         /\ Release(a, ip).allocated = a.allocated \ {ip}
         /\ ip \in a.allocated /\ WasLast(a) => a.allocated = {ip}
<1>1. IsFiniteSet(Addresses)
  BY SubnetAssumption, FS_Interval DEF Addresses
<1>2. IsFiniteSet(a.allocated) /\ Cardinality(a.allocated) \in Nat
  BY <1>1, FS_Subset, FS_CardinalityType, Zenon
<1>3. /\ Reserve(a, ip).count = Cardinality(Reserve(a, ip).allocated)
      /\ Reserve(a, ip).allocated = a.allocated \cup {ip}
  <2>1. CASE ip \in a.allocated
    BY <2>1, Zenon DEF Reserve
  <2>2. CASE ip \notin a.allocated
    <3>1. Cardinality(a.allocated \cup {ip}) = Cardinality(a.allocated) + 1
      BY <1>2, <2>2, FS_AddElement, Zenon
    <3> QED
      BY <2>2, <3>1, Zenon DEF Reserve
  <2> QED
    BY <2>1, <2>2, Zenon
<1>4. ASSUME ip \in a.allocated
      PROVE  /\ Release(a, ip).count = Cardinality(Release(a, ip).allocated)
             /\ WasLast(a) => a.allocated = {ip}
  <2>1. /\ Cardinality(a.allocated \ {ip}) = Cardinality(a.allocated) - 1
        /\ IsFiniteSet(a.allocated \ {ip})
    BY <1>2, <1>4, FS_RemoveElement, Zenon
  <2>2. Cardinality(a.allocated \ {ip}) \in Nat
    BY <2>1, FS_CardinalityType, Zenon
  <2>3. Release(a, ip).count = Cardinality(Release(a, ip).allocated)
    BY <1>2, <2>1, <2>2 DEF Release
  <2>4. WasLast(a) => Cardinality(a.allocated \ {ip}) = 0
    BY <1>2, <2>1, <2>2 DEF WasLast
  <2>5. WasLast(a) => a.allocated \ {ip} = {}
    BY <2>1, <2>4, FS_EmptySet, Zenon
  <2> QED
    BY <1>4, <2>3, <2>5, Zenon
<1>5. Release(a, ip).allocated = a.allocated \ {ip}
  BY Zenon DEF Release
<1> QED
  BY <1>3, <1>4, <1>5, Zenon

(* Nothing but its own call names the address a call claimed or stops.     *)
LEMMA NotTaken ==
  ASSUME Typed, NEW n \in Nodes, NodeOK(n), NEW c, c = calls[n]["agent"], c # Idle,
         c.ip \in Addresses, lease[c.ip] = c.vm
  PROVE  ~Taken(n, c.vm, c.ip)
<1> SUFFICES ASSUME NEW w \in VMs \ {c.vm}, HasNetInfo(n, w), procs[n][w].ip = c.ip
             PROVE  FALSE
  BY Zenon DEF Taken
<1>1. \A pcs : ~Dropping(n, w, pcs)
  BY Zenon DEF Dropping, Busy
<1>2. lease[procs[n][w].ip] = w
  BY <1>1, Zenon DEF NodeOK, EntryHolds
<1> QED
  BY <1>2, Zenon


(* A node's Allocator, entries and agent change only with a step on it.    *)
LEMMA Elsewhere ==
  ASSUME Typed, NATBody, [Next]_vars, Clean', NEW n \in Nodes
  PROVE  \/ /\ local'[n] = local[n] /\ procs'[n] = procs[n]
            /\ calls'[n]["agent"] = calls[n]["agent"]
         \/ CallStep(n, "agent")
         \/ \E v \in VMs :
              BeginStart(n, v) \/ BeginStop(n, v) \/ BeginSuspend(n, v) \/ Inspect(n, v)
         \/ RuntimeRestart(n)
<1> DEFINE Same == /\ local'[n] = local[n] /\ procs'[n] = procs[n]
                   /\ calls'[n]["agent"] = calls[n]["agent"]
<1>1. /\ local \in [Nodes -> [allocated : SUBSET Addresses, count : Nat]]
      /\ procs \in [Nodes -> [VMs -> Entry \cup {NoProc}]]
      /\ calls \in [Nodes -> [Slots -> Call \cup {Idle}]]
      /\ "agent" \in Slots
  BY Zenon DEF Typed, TypeOK, Slots
<1>2. ASSUME NEW m \in Nodes, NEW s \in Slots, CallStep(m, s)
      PROVE  Same \/ CallStep(n, "agent")
  <2>1. s = "agent" /\ Goto(m, s, calls'[m][s])
    BY <1>2, StepCall, OnlyAgents, Zenon
  <2>2. CASE m = n
    BY <1>2, <2>1, <2>2, Zenon
  <2>3. CASE m # n
    <3>1. calls'[n]["agent"] = calls[n]["agent"]
      BY <1>1, <2>1, <2>3, GotoRest
    <3>2. \/ local' = local
          \/ \E a : local' = [local EXCEPT ![m] = a]
      BY <1>2, ZenonT(60) DEF CallStep, StartStep, ClaimCreate, ClaimGet, SetupNetwork, SetupFails,
         Boot, BootUnreported, Launch, BootFails, UndoClaim, UndoLocal, ClaimFails, ReleaseFails,
         StopStep, StopMachine, StopRelease, StopForget, StopRemoveNAT, StopDrop
    <3>3. \/ procs' = procs
          \/ \E w, e : procs' = [procs EXCEPT ![m][w] = e]
      BY <1>2, Zenon DEF CallStep, StartStep, ClaimCreate, ClaimGet, SetupNetwork, SetupFails,
         Boot, BootUnreported, Launch, BootFails, UndoClaim, UndoLocal, ClaimFails, ReleaseFails,
         StopStep, StopMachine, StopRelease, StopForget, StopRemoveNAT, StopDrop
    <3>4. local'[n] = local[n]
      BY <1>1, <2>3, <3>2, Zenon
    <3>5. procs'[n] = procs[n]
      BY <1>1, <2>3, <3>3, Zenon
    <3> QED
      BY <3>1, <3>4, <3>5, Zenon
  <2> QED
    BY <2>2, <2>3, Zenon
<1>3. ASSUME NEW m \in Nodes, NEW v \in VMs,
             BeginStart(m, v) \/ BeginStop(m, v) \/ BeginSuspend(m, v)
      PROVE  m = n \/ Same
  <2>1. local' = local /\ procs' = procs
    BY <1>3, Zenon DEF BeginStart, BeginStop, BeginSuspend
  <2>2. calls' = calls \/ Goto(m, "agent", calls'[m]["agent"])
    BY <1>3, BeginCall, Zenon
  <2> QED
    BY <1>1, <2>1, <2>2, GotoRest
<1>4. ASSUME NEW m \in Nodes, NEW v \in VMs, Inspect(m, v)
      PROVE  m = n \/ Same
  <2>1. local' = local /\ calls' = calls
    BY <1>4, Zenon DEF Inspect, Frame
  <2>2. \E e : procs' = [procs EXCEPT ![m][v] = e]
    BY <1>4, Zenon DEF Inspect
  <2> QED
    BY <1>1, <2>1, <2>2, Zenon
<1>5. ASSUME NEW m \in Nodes, RuntimeRestart(m) PROVE m = n \/ Same
  BY <1>1, <1>5, Zenon DEF RuntimeRestart
<1>6. ASSUME NEW m, NEW v,
             \/ StartTimeout(m, v) \/ Schedule(m, v) \/ Terminate(v) \/ Suspend(v) \/ Resume(v)
             \/ ProcessExit(m) \/ UNCHANGED vars
      PROVE  Same
  BY <1>6, Zenon DEF StartTimeout, Schedule, Terminate, Suspend, Resume, ProcessExit, Frame, vars
<1> HIDE DEF Same
<1>7. \/ Same \/ CallStep(n, "agent")
      \/ \E v \in VMs :
           BeginStart(n, v) \/ BeginStop(n, v) \/ BeginSuspend(n, v) \/ Inspect(n, v)
      \/ RuntimeRestart(n)
  BY <1>2, <1>3, <1>4, <1>5, <1>6, CrashIsSeen, ZenonT(60) DEF Next, CallStep
<1> QED
  BY <1>7, Zenon DEF Same

(* A node without a step of its own.                                       *)
LEMMA NodeKept ==
  ASSUME Typed, Clean, NetInv, NATBody, [Next]_vars, NEW n \in Nodes,
         local'[n] = local[n], procs'[n] = procs[n],
         calls'[n]["agent"] = calls[n]["agent"]
  PROVE  NodeOK(n)'
<1>1. ~(calls[n]["agent"] # Idle /\ StopRelease(n, "agent"))
  <2> SUFFICES ASSUME calls[n]["agent"] # Idle, StopRelease(n, "agent") PROVE FALSE
    BY Zenon
  <2> DEFINE c == calls[n]["agent"]
             d == [c EXCEPT !.pc = "forget"]
  <2>1. c.pc = "release" /\ Goto(n, "agent", d) /\ "agent" \in Slots
    BY Zenon DEF StopRelease, Slots
  <2>2. c \in Call
    BY <2>1, CallFields, Zenon
  <2>3. d.pc = "forget"
    BY <2>2, CallMoves, Zenon DEF StopPCs
  <2> HIDE DEF d
  <2>4. calls'[n]["agent"] = d
    BY <2>1, GotoRest, Zenon
  <2> QED
    BY <2>1, <2>3, <2>4, Zenon
<1>2. ASSUME NEW v \in VMs, HasNetInfo(n, v), lease[procs[n][v].ip] = v
      PROVE  lease'[procs[n][v].ip] = v
  BY <1>1, <1>2, NetInfoAddress, LeaseKept, Zenon DEF Busy
<1> QED
  BY <1>2, NodeSame, Zenon DEF NATBody

(* The entries of the VMs that the node's agent is not busy with.          *)
LEMMA OtherEntries ==
  ASSUME Typed, Clean, NetInv, NATBody, [Next]_vars, NEW n \in Nodes, NEW w \in VMs,
         ~Busy(n, "agent", w), procs'[n][w] = procs[n][w],
         HasNetInfo(n, w) /\ procs[n][w].ip \in local[n].allocated =>
           procs[n][w].ip \in local'[n].allocated
  PROVE  EntryHolds(n, w)'
<1> SUFFICES ASSUME HasNetInfo(n, w)
             PROVE  lease'[procs[n][w].ip] = w /\ procs[n][w].ip \in local'[n].allocated
  BY Zenon DEF EntryHolds, HasNetInfo
<1>1. lease[procs[n][w].ip] = w /\ procs[n][w].ip \in local[n].allocated
  BY Zenon DEF NATBody, NodeOK, EntryHolds, Dropping
<1> QED
  BY <1>1, NetInfoAddress, LeaseKept, Zenon


LEMMA AgentMoves ==
  ASSUME Typed, NEW n \in Nodes, calls[n]["agent"] # Idle, NEW x \in StartPCs \cup StopPCs,
         Goto(n, "agent", [calls[n]["agent"] EXCEPT !.pc = x])
  PROVE  /\ calls'[n]["agent"] # Idle
         /\ calls'[n]["agent"].pc = x
         /\ calls'[n]["agent"].vm = calls[n]["agent"].vm
         /\ calls'[n]["agent"].ip = calls[n]["agent"].ip
<1> DEFINE d == [calls[n]["agent"] EXCEPT !.pc = x]
<1>1. "agent" \in Slots
  BY Zenon DEF Slots
<1>2. d # Idle /\ d.pc = x /\ d.vm = calls[n]["agent"].vm /\ d.ip = calls[n]["agent"].ip
  BY <1>1, CallFields, CallMoves
<1> HIDE DEF d
<1>3. calls'[n]["agent"] = d
  BY <1>1, GotoSelf, Zenon DEF d
<1> QED
  BY <1>2, <1>3, Zenon

(* What the steps of a Start before the machine runs do to the node.       *)
LEMMA StartEffect ==
  ASSUME Typed, Clean, NetInv, NATBody, NEW n \in Nodes, NEW c, c = calls[n]["agent"],
         StartStep(n, "agent"), ~Boot(n, "agent"), ~BootUnreported(n, "agent")
  PROVE  /\ procs' = procs /\ c # Idle /\ c.pc \in StartPCs
         /\ \/ local' = local
            \/ local' = [local EXCEPT ![n] = Reserve(@, c.ip)]
            \/ /\ local' = [local EXCEPT ![n] = Release(@, c.ip)]
               /\ c.pc \in {"undone", "unclaimed"}
         /\ \/ calls'[n]["agent"] = Idle
            \/ /\ calls'[n]["agent"].pc \in {"create", "get", "setup"}
            \/ /\ calls'[n]["agent"].pc \in {"boot", "undo", "undone", "unclaim", "unclaimed"}
               /\ calls'[n]["agent"].vm = c.vm /\ calls'[n]["agent"].ip = c.ip
               /\ \/ c.pc = "setup" /\ local' = [local EXCEPT ![n] = Reserve(@, c.ip)]
                  \/ c.pc \in {"boot", "undo", "unclaim"} /\ local' = local
<1>1. "agent" \in Slots /\ StartPCs \subseteq StartPCs \cup StopPCs /\ c # Idle
  BY Zenon DEF Slots, StartStep
<1>2. {"create", "get", "setup", "boot", "undo", "undone", "unclaim", "unclaimed"} = StartPCs
  BY Zenon DEF StartPCs
<1>3. CASE ClaimCreate(n, "agent")
  <2>1. \E x \in {"get", "setup"} : Goto(n, "agent", [c EXCEPT !.pc = x])
    BY <1>3, Zenon DEF ClaimCreate
  <2>2. calls'[n]["agent"].pc \in {"get", "setup"}
    BY <1>1, <1>2, <2>1, AgentMoves, Zenon
  <2> QED
    BY <1>1, <1>2, <1>3, <2>2, Zenon DEF ClaimCreate
<1>4. CASE ClaimGet(n, "agent")
  <2>1. CASE Goto(n, "agent", Idle)
    BY <1>1, <1>2, <1>4, <2>1, GotoSelf, Zenon DEF ClaimGet
  <2>2. CASE Goto(n, "agent", [c EXCEPT !.pc = "setup"])
    <3>1. calls'[n]["agent"].pc = "setup"
      BY <1>1, <1>2, <2>2, AgentMoves, Zenon
    <3> QED
      BY <1>1, <1>2, <1>4, <3>1, Zenon DEF ClaimGet
  <2>3. CASE Goto(n, "agent", [c EXCEPT !.pc = "create", !.ip = First(Candidates(c.ip + 1))])
    <3> DEFINE d == [c EXCEPT !.pc = "create", !.ip = First(Candidates(c.ip + 1))]
    <3>1. d.pc = "create" /\ Goto(n, "agent", d)
      BY <1>1, <2>3, CallFields DEF Call
    <3> HIDE DEF d
    <3>2. calls'[n]["agent"].pc = "create"
      BY <1>1, <3>1, GotoSelf, Zenon
    <3> QED
      BY <1>1, <1>2, <1>4, <3>2, ZenonT(60) DEF ClaimGet
  <2> QED
    BY <1>4, <2>1, <2>2, <2>3, Zenon DEF ClaimGet, ReturnError
<1>5. CASE SetupNetwork(n, "agent") \/ SetupFails(n, "agent")
  <2>1. /\ \E x \in {"boot", "unclaim", "undo"} : Goto(n, "agent", [c EXCEPT !.pc = x])
        /\ procs' = procs /\ c.pc = "setup" /\ local' = [local EXCEPT ![n] = Reserve(@, c.ip)]
    BY <1>5, Zenon DEF SetupNetwork, SetupFails
  <2>2. /\ calls'[n]["agent"].pc \in {"boot", "unclaim", "undo"}
        /\ calls'[n]["agent"].vm = c.vm /\ calls'[n]["agent"].ip = c.ip
    BY <1>1, <1>2, <2>1, AgentMoves, Zenon
  <2> QED
    BY <1>1, <1>2, <2>1, <2>2, Zenon
<1>6. CASE BootFails(n, "agent") \/ UndoClaim(n, "agent")
  <2>1. /\ \E x \in {"undo", "undone", "unclaimed"} : Goto(n, "agent", [c EXCEPT !.pc = x])
        /\ procs' = procs /\ c.pc \in {"boot", "undo", "unclaim"} /\ local' = local
    BY <1>6, Zenon DEF BootFails, UndoClaim
  <2>2. /\ calls'[n]["agent"].pc \in {"undo", "undone", "unclaimed"}
        /\ calls'[n]["agent"].vm = c.vm /\ calls'[n]["agent"].ip = c.ip
    BY <1>1, <1>2, <2>1, AgentMoves, Zenon
  <2> QED
    BY <1>1, <1>2, <2>1, <2>2, Zenon
<1>7. CASE UndoLocal(n, "agent")
  BY <1>1, <1>2, <1>7, GotoSelf, Zenon DEF UndoLocal, ReturnError
<1> QED
  BY <1>3, <1>4, <1>5, <1>6, <1>7, ZenonT(60) DEF StartStep

LEMMA NodeStart ==
  ASSUME Typed, Clean, NetInv, NATBody, [Next]_vars, NEW n \in Nodes,
         StartStep(n, "agent"), ~Boot(n, "agent"), ~BootUnreported(n, "agent")
  PROVE  NodeOK(n)'
<1>0. PICK c : c = calls[n]["agent"]
  BY Zenon
<1>1. /\ procs' = procs /\ c # Idle /\ c.pc \in StartPCs
      /\ \/ local' = local
         \/ local' = [local EXCEPT ![n] = Reserve(@, c.ip)]
         \/ /\ local' = [local EXCEPT ![n] = Release(@, c.ip)]
            /\ c.pc \in {"undone", "unclaimed"}
      /\ \/ calls'[n]["agent"] = Idle
         \/ /\ calls'[n]["agent"].pc \in {"create", "get", "setup"}
         \/ /\ calls'[n]["agent"].pc \in {"boot", "undo", "undone", "unclaim", "unclaimed"}
            /\ calls'[n]["agent"].vm = c.vm /\ calls'[n]["agent"].ip = c.ip
            /\ \/ c.pc = "setup" /\ local' = [local EXCEPT ![n] = Reserve(@, c.ip)]
               \/ c.pc \in {"boot", "undo", "unclaim"} /\ local' = local
  BY <1>0, StartEffect, Zenon
<1>2. /\ local \in [Nodes -> [allocated : SUBSET Addresses, count : Nat]]
      /\ "agent" \in Slots /\ c.vm \in VMs /\ c.ip \in Addresses
  BY <1>0, <1>1, CallFields, Zenon DEF Typed, TypeOK, Slots, NeedsAddress
<1>3. NodeOK(n) /\ Busy(n, "agent", c.vm)
  BY <1>0, <1>1, Zenon DEF NATBody, Busy
<1>4. c.pc \in {"boot", "undo", "undone", "unclaim", "unclaimed"} =>
        c.ip \in local[n].allocated /\ ~Taken(n, c.vm, c.ip)
  BY <1>0, <1>1, <1>3, ZenonT(60) DEF NodeOK, AgentHolds
<1>5. local'[n].count = Cardinality(local'[n].allocated)
  <2>1. local[n] \in [allocated : SUBSET Addresses, count : Nat]
        /\ local[n].count = Cardinality(local[n].allocated)
    BY <1>2, <1>3, Zenon DEF NodeOK
  <2>2. local'[n] \in {local[n], Reserve(local[n], c.ip)} \/
        (local'[n] = Release(local[n], c.ip) /\ c.ip \in local[n].allocated)
    BY <1>1, <1>2, <1>4, Zenon
  <2> QED
    BY <2>1, <2>2, CountKept
<1>6. ASSUME NEW w \in VMs PROVE EntryHolds(n, w)'
  <2>1. CASE w = c.vm
    <3>1. procs[n][w] = NoProc
      BY <1>0, <1>1, <1>3, <2>1, Zenon DEF NATBody, StartsAlone
    <3> QED
      BY <1>1, <3>1, Zenon DEF EntryHolds, HasNetInfo
  <2>2. CASE w # c.vm
    <3>1. ~Busy(n, "agent", w)
      BY <1>0, <2>2, Zenon DEF Busy
    <3>2. ASSUME HasNetInfo(n, w), procs[n][w].ip \in local[n].allocated
          PROVE  procs[n][w].ip \in local'[n].allocated
      <4>1. CASE local'[n] = local[n]
        BY <3>2, <4>1, ZenonT(60)
      <4>2. CASE local'[n] = Reserve(local[n], c.ip)
        BY <3>2, <4>2 DEF Reserve
      <4>3. CASE local'[n] = Release(local[n], c.ip) /\ c.pc \in {"undone", "unclaimed"}
        <5>1. procs[n][w].ip # c.ip
          BY <1>4, <2>2, <3>2, <4>3, Zenon DEF Taken
        <5> QED
          BY <3>2, <4>3, <5>1 DEF Release
      <4> QED
        BY <1>1, <1>2, <4>1, <4>2, <4>3, ZenonT(60)
    <3> QED
      BY <1>1, <3>1, <3>2, OtherEntries, Zenon
  <2> QED
    BY <2>1, <2>2, Zenon
<1>7. AgentHolds(n)'
  <2>1. CASE calls'[n]["agent"] = Idle \/ calls'[n]["agent"].pc \in {"create", "get", "setup"}
    BY <2>1, Zenon DEF AgentHolds
  <2>2. ASSUME calls'[n]["agent"].pc \in {"boot", "undo", "undone", "unclaim", "unclaimed"},
               calls'[n]["agent"].vm = c.vm, calls'[n]["agent"].ip = c.ip,
               c.ip \in local'[n].allocated, ~Taken(n, c.vm, c.ip)
        PROVE  AgentHolds(n)'
    BY <1>1, <2>2, Zenon DEF AgentHolds, Taken, HasNetInfo
  <2>3. CASE c.pc = "setup" /\ local' = [local EXCEPT ![n] = Reserve(@, c.ip)]
    <3>1. c.ip \in local'[n].allocated
      BY <1>2, <2>3, ZenonT(60) DEF Reserve
    <3>2. lease[c.ip] = c.vm
      BY <1>0, <1>2, <1>3, <2>3, AllSound DEF Sound, CallHolds
    <3>3. ~Taken(n, c.vm, c.ip)
      BY <1>0, <1>1, <1>2, <1>3, <3>2, NotTaken, ZenonT(60)
    <3> QED
      BY <1>1, <2>1, <2>2, <3>1, <3>3, ZenonT(60)
  <2> QED
    BY <1>1, <1>4, <2>1, <2>2, <2>3, Zenon
<1> QED
  BY <1>5, <1>6, <1>7, Zenon DEF NodeOK

LEMMA NodeBoot ==
  ASSUME Typed, Clean, NetInv, NATBody, [Next]_vars, NEW n \in Nodes, calls[n]["agent"] # Idle,
         Boot(n, "agent") \/ BootUnreported(n, "agent")
  PROVE  NodeOK(n)'
<1>0. PICK c : c = calls[n]["agent"]
  BY Zenon
<1>1. /\ "agent" \in Slots /\ c.vm \in VMs /\ Busy(n, "agent", c.vm) /\ NodeOK(n)
      /\ procs \in [Nodes -> [VMs -> Entry \cup {NoProc}]]
  BY <1>0, CallFields, ZenonT(60) DEF Slots, Busy, NATBody, Typed, TypeOK
<1>2. c.pc = "boot" /\ calls'[n]["agent"] = Idle /\ lease[c.ip] = c.vm
  BY <1>0, <1>1, BootStarts
<1> DEFINE e == [pid |-> NewPid(n), ip |-> c.ip]
<1>3. /\ local' = local /\ lease' = lease /\ procs' = [procs EXCEPT ![n][c.vm] = e]
      /\ e.ip = c.ip
  BY <1>0, Zenon DEF Boot, BootUnreported, Launch
<1> HIDE DEF e
<1>4. c.ip \in local[n].allocated
  BY <1>0, <1>1, <1>2, Zenon DEF NodeOK, AgentHolds
<1>5. EntryHolds(n, c.vm)'
  BY <1>1, <1>2, <1>3, <1>4, Zenon DEF EntryHolds
<1>6. ASSUME NEW w \in VMs, w # c.vm PROVE EntryHolds(n, w)'
  <2>1. ~Busy(n, "agent", w) /\ procs'[n][w] = procs[n][w]
    BY <1>0, <1>1, <1>3, <1>6, Zenon DEF Busy
  <2> QED
    BY <1>3, <2>1, OtherEntries, Zenon
<1> QED
  BY <1>1, <1>2, <1>3, <1>5, <1>6, Zenon DEF NodeOK, AgentHolds


(* The address a Stop gives back is that of its VM's entry alone.          *)
LEMMA StopOwns ==
  ASSUME Typed, NEW n \in Nodes, NodeOK(n), NEW c, c = calls[n]["agent"], c # Idle,
         c.pc = "release"
  PROVE  /\ c.vm \in VMs /\ HasNetInfo(n, c.vm) /\ procs[n][c.vm].ip = c.ip
         /\ c.ip \in local[n].allocated /\ ~Taken(n, c.vm, c.ip)
<1>1. "agent" \in Slots /\ "release" \in NeedsAddress
  BY Zenon DEF Slots, NeedsAddress
<1>2. c.vm \in VMs /\ c.ip \in Addresses /\ c.ip # NoIP
  BY <1>1, CallFields, AddressesAreNumbers, Zenon
<1>3. HasNetInfo(n, c.vm) /\ procs[n][c.vm].ip = c.ip
  BY <1>2, Zenon DEF NodeOK, AgentHolds, HasNetInfo
<1>4. c.ip \in local[n].allocated /\ lease[c.ip] = c.vm
  BY <1>2, <1>3, Zenon DEF NodeOK, EntryHolds, Dropping
<1> QED
  BY <1>2, <1>3, <1>4, NotTaken, Zenon

(* A call goes on with nothing of the node's changed.                      *)
LEMMA NodeMoves ==
  ASSUME Typed, Clean, NetInv, NATBody, [Next]_vars, NEW n \in Nodes, local' = local, procs' = procs,
         NEW c, c = calls[n]["agent"], c # Idle,
         NEW x, calls'[n]["agent"].pc = x,
         calls'[n]["agent"].vm = c.vm, calls'[n]["agent"].ip = c.ip,
         calls'[n]["agent"] # Idle,
         \/ c.pc = "stop" /\ x \in {"release", "drop"} /\ lease' = lease
         \/ c.pc = "release" /\ x = "forget"
         \/ c.pc = "unnat" /\ x = "drop"
         \/ c.pc = "undo" /\ x = "undone"
         \/ c.pc = "unclaim" /\ x = "unclaimed"
  PROVE  NodeOK(n)'
<1>1. NodeOK(n) /\ "agent" \in Slots /\ c.vm \in VMs /\ Busy(n, "agent", c.vm)
  BY CallFields, Zenon DEF NATBody, Slots, Busy
<1>2. AgentHolds(n)'
  <2>1. CASE x = "release"
    BY <1>1, <2>1, Zenon DEF NodeOK, AgentHolds
  <2>2. CASE x = "forget"
    <3>1. c.ip \in local[n].allocated /\ ~Taken(n, c.vm, c.ip)
      BY <1>1, <2>2, StopOwns, Zenon
    <3> QED
      BY <2>2, <3>1, Zenon DEF AgentHolds, Taken, HasNetInfo
  <2>3. CASE x = "drop"
    BY <2>3, Zenon DEF AgentHolds
  <2>4. CASE x \in {"undone", "unclaimed"}
    BY <1>1, <2>4, Zenon DEF NodeOK, AgentHolds, Taken, HasNetInfo
  <2> QED
    BY <2>1, <2>2, <2>3, <2>4, Zenon
<1>3. ASSUME NEW w \in VMs, w # c.vm PROVE EntryHolds(n, w)'
  <2>1. ~Busy(n, "agent", w)
    BY <1>3, Zenon DEF Busy
  <2> QED
    BY <2>1, OtherEntries, Zenon
<1>4. EntryHolds(n, c.vm)'
  <2>1. CASE c.pc \in {"undo", "unclaim"}
    <3>1. procs[n][c.vm] = NoProc
      BY <1>1, <2>1, Zenon DEF NATBody, StartsAlone, StartPCs
    <3> QED
      BY <3>1, Zenon DEF EntryHolds, HasNetInfo
  <2>2. CASE c.pc = "stop"
    BY <1>1, <2>2, Zenon DEF NodeOK, EntryHolds, HasNetInfo, Dropping
  <2>3. CASE c.pc = "release"
    BY <1>1, <2>3, Zenon DEF NodeOK, EntryHolds, HasNetInfo, Dropping, Busy
  <2>4. CASE c.pc = "unnat"
    BY <1>1, <2>4, Zenon DEF NodeOK, EntryHolds, HasNetInfo, Dropping, Busy
  <2> QED
    BY <2>1, <2>2, <2>3, <2>4, Zenon
<1> QED
  BY <1>1, <1>2, <1>3, <1>4, Zenon DEF NodeOK

LEMMA NodeForgets ==
  ASSUME Typed, Clean, NetInv, NATBody, [Next]_vars, NEW n \in Nodes, calls[n]["agent"] # Idle,
         StopForget(n, "agent")
  PROVE  NodeOK(n)'
<1>0. PICK c : c = calls[n]["agent"]
  BY Zenon
<1>1. /\ c.pc = "forget" /\ local' = [local EXCEPT ![n] = Release(@, c.ip)] /\ procs' = procs
      /\ Goto(n, "agent", [c EXCEPT !.pc = IF WasLast(local[n]) THEN "unnat" ELSE "drop"])
  BY <1>0, Zenon DEF StopForget
<1>2. /\ NodeOK(n) /\ "agent" \in Slots /\ c.vm \in VMs /\ {"unnat", "drop"} \subseteq StopPCs
      /\ local \in [Nodes -> [allocated : SUBSET Addresses, count : Nat]]
  BY <1>0, CallFields, Zenon DEF NATBody, Slots, StopPCs, Typed, TypeOK
<1>3. PICK x \in {"unnat", "drop"} : /\ Goto(n, "agent", [c EXCEPT !.pc = x])
                                     /\ x = "unnat" => WasLast(local[n])
  BY <1>1, Zenon
<1>4. /\ calls'[n]["agent"] # Idle /\ calls'[n]["agent"].pc = x
      /\ calls'[n]["agent"].vm = c.vm
  BY <1>0, <1>2, <1>3, AgentMoves, Zenon
<1>5. c.ip \in local[n].allocated /\ ~Taken(n, c.vm, c.ip)
  BY <1>0, <1>1, <1>2, Zenon DEF NodeOK, AgentHolds
<1>6. local'[n] = Release(local[n], c.ip)
  BY <1>1, <1>2, Zenon
<1>7. /\ local'[n].count = Cardinality(local'[n].allocated)
      /\ local'[n].allocated = local[n].allocated \ {c.ip}
      /\ x = "unnat" => local[n].allocated = {c.ip}
  <2>1. local[n] \in [allocated : SUBSET Addresses, count : Nat]
        /\ local[n].count = Cardinality(local[n].allocated)
    BY <1>2, Zenon DEF NodeOK
  <2> QED
    BY <1>3, <1>5, <1>6, <2>1, CountKept
<1>8. ASSUME NEW w \in VMs, HasNetInfo(n, w), w # c.vm
      PROVE  procs[n][w].ip # c.ip /\ procs[n][w].ip \in local[n].allocated
  BY <1>0, <1>2, <1>5, <1>8, ZenonT(60) DEF Taken, NodeOK, EntryHolds, Dropping, Busy
<1>9. ASSUME NEW w \in VMs PROVE EntryHolds(n, w)'
  <2>1. CASE w = c.vm
    BY <1>3, <1>4, <2>1, Zenon DEF EntryHolds, Dropping, Busy
  <2>2. CASE w # c.vm
    <3>1. ~Busy(n, "agent", w)
      BY <1>0, <2>2, Zenon DEF Busy
    <3> QED
      BY <1>1, <1>7, <1>8, <2>2, <3>1, OtherEntries, ZenonT(60)
  <2> QED
    BY <2>1, <2>2, Zenon
<1>10. AgentHolds(n)'
  <2>1. x = "unnat" => \A w \in VMs : HasNetInfo(n, w) => w = c.vm
    BY <1>7, <1>8, Zenon
  <2> QED
    BY <1>1, <1>3, <1>4, <2>1, Zenon DEF AgentHolds, HasNetInfo
<1> QED
  BY <1>7, <1>9, <1>10, Zenon DEF NodeOK

LEMMA NodeDrops ==
  ASSUME Typed, Clean, NetInv, NATBody, [Next]_vars, NEW n \in Nodes, calls[n]["agent"] # Idle,
         StopDrop(n, "agent")
  PROVE  NodeOK(n)'
<1>0. PICK c : c = calls[n]["agent"]
  BY Zenon
<1>1. /\ procs' = [procs EXCEPT ![n][c.vm] = NoProc] /\ local' = local
      /\ Goto(n, "agent", Idle)
  BY <1>0, Zenon DEF StopDrop, Return
<1>2. /\ NodeOK(n) /\ "agent" \in Slots /\ c.vm \in VMs
      /\ procs \in [Nodes -> [VMs -> Entry \cup {NoProc}]]
  BY <1>0, CallFields, Zenon DEF NATBody, Slots, Typed, TypeOK
<1>3. calls'[n]["agent"] = Idle
  BY <1>1, <1>2, GotoSelf, Zenon
<1>4. EntryHolds(n, c.vm)'
  BY <1>1, <1>2, Zenon DEF EntryHolds, HasNetInfo
<1>5. ASSUME NEW w \in VMs, w # c.vm PROVE EntryHolds(n, w)'
  <2>1. ~Busy(n, "agent", w) /\ procs'[n][w] = procs[n][w]
    BY <1>0, <1>1, <1>2, <1>5, Zenon DEF Busy
  <2> QED
    BY <1>1, <2>1, OtherEntries, Zenon
<1> QED
  BY <1>1, <1>2, <1>3, <1>4, <1>5, Zenon DEF NodeOK, AgentHolds

LEMMA NodeCallStep ==
  ASSUME Typed, Clean, NetInv, NATBody, [Next]_vars, NEW n \in Nodes, CallStep(n, "agent")
  PROVE  NodeOK(n)'
<1>0. PICK c : c = calls[n]["agent"]
  BY Zenon
<1>1. c # Idle /\ "agent" \in Slots /\ NodeOK(n)
  BY <1>0, StepCall, Zenon DEF Slots, NATBody
<1>2. {"release", "forget", "drop", "undone", "unclaimed"} \subseteq StartPCs \cup StopPCs
  BY Zenon DEF StartPCs, StopPCs
<1>3. CASE StartStep(n, "agent")
  BY <1>0, <1>1, <1>3, NodeStart, NodeBoot, ZenonT(60)
<1>4. CASE StopMachine(n, "agent")
  <2>1. PICK x \in {"release", "drop"} :
          /\ Goto(n, "agent", [c EXCEPT !.pc = x])
          /\ c.pc = "stop" /\ local' = local /\ procs' = procs /\ lease' = lease
    BY <1>0, <1>4, Zenon DEF StopMachine
  <2> QED
    BY <1>0, <1>1, <1>2, <2>1, AgentMoves, NodeMoves, SMTT(30)
<1>5. CASE StopRelease(n, "agent")
  <2>1. /\ Goto(n, "agent", [c EXCEPT !.pc = "forget"])
        /\ c.pc = "release" /\ local' = local /\ procs' = procs
    BY <1>0, <1>5, Zenon DEF StopRelease
  <2> QED
    BY <1>0, <1>1, <1>2, <2>1, AgentMoves, NodeMoves, ZenonT(60)
<1>6. CASE StopRemoveNAT(n, "agent")
  <2>1. /\ Goto(n, "agent", [c EXCEPT !.pc = "drop"])
        /\ c.pc = "unnat" /\ local' = local /\ procs' = procs
    BY <1>0, <1>6, Zenon DEF StopRemoveNAT
  <2> QED
    BY <1>0, <1>1, <1>2, <2>1, AgentMoves, NodeMoves, ZenonT(60)
<1>7. CASE ReleaseFails(n, "agent")
  <2>1. PICK x \in {"undone", "unclaimed", "forget"} :
          /\ Goto(n, "agent", [c EXCEPT !.pc = x])
          /\ \/ c.pc = "undo" /\ x = "undone"
             \/ c.pc = "unclaim" /\ x = "unclaimed"
             \/ c.pc = "release" /\ x = "forget"
          /\ local' = local /\ procs' = procs
    BY <1>0, <1>7, Zenon DEF ReleaseFails
  <2> QED
    BY <1>0, <1>1, <1>2, <2>1, AgentMoves, NodeMoves, ZenonT(60)
<1>8. CASE ClaimFails(n, "agent")
  <2>1. /\ Goto(n, "agent", Idle) /\ c.pc \in {"create", "get"}
        /\ local' = local /\ procs' = procs /\ lease' = lease
    BY <1>0, <1>8, ZenonT(60) DEF ClaimFails, ReturnError
  <2>2. calls'[n]["agent"] = Idle
    BY <1>1, <2>1, GotoSelf, Zenon
  <2>3. ASSUME NEW w \in VMs PROVE EntryHolds(n, w)'
    BY <1>0, <1>1, <2>1, Zenon DEF NodeOK, EntryHolds, HasNetInfo, Dropping
  <2> QED
    BY <1>1, <2>1, <2>2, <2>3, ZenonT(60) DEF NodeOK, AgentHolds
<1> QED
  BY <1>0, <1>1, <1>3, <1>4, <1>5, <1>6, <1>7, <1>8, NodeForgets, NodeDrops, ZenonT(60) DEF CallStep, StopStep


LEMMA NodeBegins ==
  ASSUME Typed, Clean, NetInv, NATBody, [Next]_vars, NEW n \in Nodes, NEW v \in VMs,
         BeginStart(n, v) \/ BeginStop(n, v) \/ BeginSuspend(n, v)
  PROVE  NodeOK(n)'
<1>1. local' = local /\ procs' = procs /\ lease' = lease /\ calls[n]["agent"] = Idle /\ NodeOK(n)
  BY Zenon DEF BeginStart, BeginStop, BeginSuspend, NATBody
<1>2. CASE calls' = calls
  BY <1>1, <1>2, NodeKept, Zenon
<1>3. CASE calls' # calls
  <2>1. /\ calls'[n]["agent"].vm = v
        /\ \/ calls'[n]["agent"].pc = "create"
           \/ /\ procs[n][v] # NoProc /\ calls'[n]["agent"].pc = "stop"
              /\ calls'[n]["agent"].ip = procs[n][v].ip
    BY <1>3, BeginCall, Zenon
  <2>2. AgentHolds(n)'
    BY <1>1, <2>1, Zenon DEF AgentHolds
  <2>3. ASSUME NEW w \in VMs PROVE EntryHolds(n, w)'
    BY <1>1, Zenon DEF NodeOK, EntryHolds, HasNetInfo, Dropping, Busy
  <2> QED
    BY <1>1, <2>2, <2>3, Zenon DEF NodeOK
<1> QED
  BY <1>2, <1>3, Zenon

LEMMA NodeInspects ==
  ASSUME Typed, Clean, NetInv, NATBody, [Next]_vars, NEW n \in Nodes, NEW v \in VMs, Inspect(n, v)
  PROVE  NodeOK(n)'
<1>1. /\ local' = local /\ calls' = calls /\ calls[n]["agent"] = Idle /\ NodeOK(n)
      /\ procs \in [Nodes -> [VMs -> Entry \cup {NoProc}]]
  BY Zenon DEF Inspect, Frame, NATBody, Typed, TypeOK
<1>2. PICK e : procs' = [procs EXCEPT ![n][v] = e] /\ (e = NoProc \/ e.ip = NoIP)
  <2>1. CASE procs' = [procs EXCEPT ![n][v] = NoProc]
    BY <2>1, Zenon
  <2>2. ASSUME NEW p, procs' = [procs EXCEPT ![n][v] = [pid |-> p.pid, ip |-> NoIP]]
        PROVE  \E e : procs' = [procs EXCEPT ![n][v] = e] /\ (e = NoProc \/ e.ip = NoIP)
    <3> DEFINE e == [pid |-> p.pid, ip |-> NoIP]
    <3>1. e.ip = NoIP /\ procs' = [procs EXCEPT ![n][v] = e]
      BY <2>2, Zenon
    <3> HIDE DEF e
    <3> QED
      BY <3>1, Zenon
  <2> QED
    BY <2>1, <2>2, Zenon DEF Inspect
<1>3. EntryHolds(n, v)'
  BY <1>1, <1>2, Zenon DEF EntryHolds, HasNetInfo
<1>4. ASSUME NEW w \in VMs, w # v PROVE EntryHolds(n, w)'
  <2>1. procs'[n][w] = procs[n][w] /\ ~Busy(n, "agent", w)
    BY <1>1, <1>2, <1>4, ZenonT(60) DEF Busy
  <2> QED
    BY <1>1, <2>1, OtherEntries, Zenon
<1> QED
  BY <1>1, <1>3, <1>4, Zenon DEF NodeOK, AgentHolds

LEMMA NodeRestarts ==
  ASSUME Typed, NEW n \in Nodes, RuntimeRestart(n)
  PROVE  NodeOK(n)'
<1>1. /\ local'[n] = NewAllocator
      /\ \A v \in VMs : procs'[n][v] = NoProc
      /\ calls'[n]["agent"] = Idle
  BY Zenon DEF RuntimeRestart, Typed, TypeOK, Slots
<1>2. Cardinality({}) = 0
  BY FS_EmptySet, Zenon
<1> QED
  BY <1>1, <1>2 DEF NodeOK, AgentHolds, EntryHolds, HasNetInfo, NewAllocator

LEMMA NATInvInit == Init => NATInv
<1> SUFFICES ASSUME Init PROVE NATBody
  BY Zenon DEF NATInv
<1>1. /\ \A n \in Nodes : /\ local[n] = NewAllocator /\ live[n] = {}
                          /\ calls[n]["agent"] = Idle /\ calls[n]["orphan"] = Idle
      /\ \A n \in Nodes, v \in VMs : procs[n][v] = NoProc
  BY Zenon DEF Init, Slots
<1>2. Cardinality({}) = 0
  BY FS_EmptySet, ZenonT(60)
<1>3. ASSUME NEW n \in Nodes PROVE NodeOK(n)
  BY <1>1, <1>2, SMTT(30) DEF NodeOK, AgentHolds, EntryHolds, HasNetInfo, NewAllocator
<1> QED
  BY <1>1, <1>3, Zenon DEF NATBody, StartsAlone, Apart, Busy

LEMMA NATInvStep == Typed /\ NetInv /\ NATInv /\ [Next]_vars => NATInv'
<1> SUFFICES ASSUME Typed, NetInv, NATInv, [Next]_vars, Clean' PROVE NATBody'
  BY Zenon DEF NATInv
<1>1. Clean /\ NATBody
  BY CleanBefore, Zenon DEF NATInv
<1>2. ASSUME NEW n \in Nodes PROVE NodeOK(n)'
  BY <1>1, Elsewhere, NodeKept, NodeCallStep, NodeBegins, NodeInspects, NodeRestarts, Zenon
<1> QED
  BY <1>1, <1>2, OrphanStep, StartsAloneStep, ApartStep, Zenon DEF NATBody

LEMMA NATInvariant == Spec => [](Typed /\ NetInv /\ NATInv)
BY InitTyped, NetInvInit, NATInvInit, TypedStep, NetInvStep, NATInvStep, PTL DEF Spec

(* Only StopRemoveNAT takes the rule away.                                 *)
LEMMA RuleRemoved ==
  ASSUME Typed, [Next]_vars, NEW n \in Nodes, nat[n], ~nat'[n]
  PROVE  \E s \in Slots : calls[n][s] # Idle /\ calls[n][s].pc = "unnat"
<1>1. nat \in [Nodes -> BOOLEAN] /\ nat' # nat
  BY Zenon DEF Typed, TypeOK
<1>2. ASSUME NEW m \in Nodes, NEW s \in Slots, StartStep(m, s) PROVE FALSE
  <2>1. nat' = nat \/ nat' = [nat EXCEPT ![m] = TRUE]
    BY <1>2, Zenon DEF StartStep, ClaimCreate, ClaimGet, SetupNetwork, SetupFails, Boot,
       BootUnreported, Launch, BootFails, UndoClaim, UndoLocal
  <2>2. nat' = [nat EXCEPT ![m] = TRUE]
    BY <1>1, <2>1, Zenon
  <2>3. nat'[n] = TRUE \/ nat'[n] = nat[n]
    BY <1>1, <2>2, Zenon
  <2> QED
    BY <2>3, Zenon
<1>3. ASSUME NEW m \in Nodes, NEW s \in Slots, StopStep(m, s)
      PROVE  m = n /\ calls[m][s] # Idle /\ calls[m][s].pc = "unnat"
  <2>1. StopRemoveNAT(m, s) /\ calls[m][s] # Idle
    BY <1>1, <1>3, Zenon DEF StopStep, StopMachine, StopRelease, StopForget, StopDrop
  <2>2. nat' = [nat EXCEPT ![m] = FALSE] /\ calls[m][s].pc = "unnat"
    BY <2>1, Zenon DEF StopRemoveNAT
  <2>3. m = n \/ nat'[n] = nat[n]
    BY <1>1, <2>2, Zenon
  <2> QED
    BY <2>1, <2>2, <2>3, Zenon
<1>4. ASSUME NEW m, NEW w, NEW s,
             \/ ClaimFails(m, s) \/ ReleaseFails(m, s)
             \/ BeginStart(m, w) \/ BeginStop(m, w) \/ BeginSuspend(m, w)
             \/ Inspect(m, w) \/ StartTimeout(m, w) \/ Schedule(m, w)
             \/ Terminate(w) \/ Suspend(w) \/ Resume(w)
             \/ AgentCrash(m) \/ RuntimeRestart(m) \/ ProcessExit(m) \/ UNCHANGED vars
      PROVE  FALSE
  BY <1>1, <1>4, ZenonT(60) DEF ClaimFails, ReleaseFails, BeginStart, BeginStop, BeginSuspend, Inspect,
     StartTimeout, Schedule, Terminate, Suspend, Resume, AgentCrash, RuntimeRestart, ProcessExit,
     Frame, vars
<1> QED
  BY <1>2, <1>3, <1>4, ZenonT(60) DEF Next

(* Stop takes the NAT rule of the subnet away only once no VM whose        *)
(* network the runtime knows runs on the node, as long as no agent died in *)
(* a call and no VM was started over what was left of it: the Allocator's  *)
(* count is that of the entries with an address, and the one call a node   *)
(* makes holds the rest off between Release and the removal.               *)
THEOREM NATRuleKept == Spec => NATKeptWhileOwned
<1>1. ASSUME Typed, NetInv, NATInv, [Next]_vars
      PROVE  \A n \in Nodes :
               nat[n] /\ ~nat'[n] /\ ~crashed /\ ~leftover /\ overlapped = {} => Owned(n) = {}
  <2> SUFFICES ASSUME NEW n \in Nodes, nat[n], ~nat'[n], Clean, NEW v \in VMs, v \in Owned(n)
               PROVE  FALSE
    BY Zenon DEF Clean, Owned
  <2>1. NATBody /\ NodeOK(n)
    BY <1>1, Zenon DEF NATInv, NATBody
  <2>2. calls[n]["agent"] # Idle /\ calls[n]["agent"].pc = "unnat" /\ "agent" \in Slots
    BY <1>1, <2>1, RuleRemoved, OnlyAgents, Zenon DEF Slots
  <2>3. v = calls[n]["agent"].vm
    BY <2>1, <2>2, ZenonT(60) DEF NodeOK, AgentHolds, Owned, HasNetInfo
  <2>4. NoGuest(v)
    BY <1>1, <2>2, <2>3, AllSound DEF Sound, CallHolds, Busy, NeedsAddress
  <2> QED
    BY <2>4, Zenon DEF NoGuest, Owned
<1>2. NATKeptWhileOwned <=>
        [][\A n \in Nodes :
             nat[n] /\ ~nat'[n] /\ ~crashed /\ ~leftover /\ overlapped = {} => Owned(n) = {}]_vars
  BY Zenon DEF NATKeptWhileOwned
<1> QED
  BY <1>1, <1>2, NATInvariant, PTL DEF Spec
=============================================================================
