--------------------------- MODULE SandboxProofs ---------------------------
(***************************************************************************)
(* Proofs about the sandbox add-on: the subnets it generates are disjoint  *)
(* from what exists, what it admits gets a VM, and its data plane works    *)
(* for the right guest and leaves no session behind.                       *)
(***************************************************************************)
EXTENDS SandboxGateway, WellFoundedInduction, TLAPS

-----------------------------------------------------------------------------
(* Arithmetic of slots.                                                    *)

LEMMA QuotientAtMost ==
  ASSUME NEW a \in Nat, NEW n \in Nat \ {0}, NEW i \in Nat
  PROVE  (a \div n <= i) <=> (a < i * n + n)
BY SMT

LEMMA QuotientAtLeast ==
  ASSUME NEW a \in Nat, NEW n \in Nat \ {0}, NEW i \in Nat
  PROVE  (i <= a \div n) <=> (i * n <= a)
BY SMT

LEMMA Multiple ==
  ASSUME NEW a \in Nat, NEW n \in Nat \ {0}, a % n = 0
  PROVE  \E q \in Nat : a = q * n
BY SMT

LEMMA Remainder ==
  ASSUME NEW q \in Nat, NEW n \in Nat \ {0}, NEW r \in 0..n - 1
  PROVE  (q * n + r) % n = r
BY SMT

LEMMA Cancel ==
  ASSUME NEW a \in Nat, NEW b \in Nat, NEW n \in Nat \ {0}, a * n < b * n
  PROVE  a < b
BY SMT

LEMMA MinIn ==
  ASSUME NEW S, S \subseteq Nat, S # {}
  PROVE  Min(S) \in S
<1>1. PICK x \in S : \A y \in S : ~(<<y, x>> \in OpToRel(<, Nat))
  BY NatLessThanWellFounded, WFMin, Zenon
<1>2. ASSUME NEW y \in S PROVE x <= y
  <2>1. x \in Nat /\ y \in Nat
    BY Zenon
  <2>2. y < x => <<y, x>> \in OpToRel(<, Nat)
    BY <2>1, Zenon DEF OpToRel
  <2>3. ~(y < x)
    BY <1>1, <2>2, Zenon
  <2> QED
    BY <2>1, <2>3
<1> QED
  BY <1>2, Zenon DEF Min

(* The base block is made of whole slots.                                  *)
LEMMA WholeSlots ==
  /\ TotalGeneratedSubnets \in Nat
  /\ \A i \in 0..TotalGeneratedSubnets - 1 : i * SlotSize + SlotSize <= BlockSize
<1>1. PICK t \in Nat : BlockSize = t * SlotSize
  BY BlockAssumption, Multiple, Zenon
<1>2. TotalGeneratedSubnets = t
  BY <1>1, BlockAssumption, SMT DEF TotalGeneratedSubnets
<1>3. ASSUME NEW i \in 0..t - 1 PROVE i * SlotSize + SlotSize <= t * SlotSize
  BY <1>3, BlockAssumption, SMT
<1> QED
  BY <1>1, <1>2, <1>3, Zenon

(* A masked prefix whose size divides, or is divided by, the block's.      *)
Masked(p) ==
  /\ p \in Nat \X (Nat \ {0}) /\ p[1] % p[2] = 0
  /\ BlockSize % p[2] = 0 \/ p[2] % BlockSize = 0

Block == <<BlockStart, BlockSize>>
SlotsOf(p) ==
  LET first == Ipv4Offset(p[1])
      last == first + p[2] - 1 IN
  {i \in 0..TotalGeneratedSubnets - 1 : first \div SlotSize <= i /\ i <= last \div SlotSize}

LEMMA GeneratedMasked ==
  ASSUME NEW i \in 0..TotalGeneratedSubnets - 1
  PROVE  Masked(IndexToCIDR(i)) /\ Overlaps(IndexToCIDR(i), Block)
<1>1. PICK m \in Nat : BlockStart = m * BlockSize
  BY BlockAssumption, Multiple, Zenon
<1>2. PICK t \in Nat : BlockSize = t * SlotSize
  BY BlockAssumption, Multiple, Zenon
<1>3. i \in Nat /\ i * SlotSize + SlotSize <= BlockSize /\ i * SlotSize \in Nat
  BY WholeSlots, BlockAssumption
<1>4. BlockStart + i * SlotSize = (m * t + i) * SlotSize + 0 /\ m * t + i \in Nat
  BY <1>1, <1>2, <1>3, BlockAssumption, SMT
<1>5. (BlockStart + i * SlotSize) % SlotSize = 0
  <2> DEFINE q == m * t + i
  <2>1. q \in Nat /\ BlockStart + i * SlotSize = q * SlotSize + 0 /\ 0 \in 0..SlotSize - 1
    BY <1>4, BlockAssumption
  <2> HIDE DEF q
  <2>2. (q * SlotSize + 0) % SlotSize = 0
    BY <2>1, BlockAssumption, Remainder, Zenon
  <2> QED
    BY <2>1, <2>2, Zenon
<1>6. BlockStart + i * SlotSize \in Nat
  BY <1>3, BlockAssumption
<1> QED
  BY <1>3, <1>5, <1>6, BlockAssumption DEF Masked, IndexToCIDR, Overlaps, Block

(* A prefix inside the block.                                              *)
LEMMA SmallInside ==
  ASSUME NEW p, Masked(p), BlockSize % p[2] = 0, Overlaps(p, Block)
  PROVE  BlockStart <= p[1] /\ p[1] + p[2] <= BlockStart + BlockSize /\ Ipv4Offset(p[1]) = p[1] - BlockStart
<1> DEFINE n == p[2]
<1>0. p[1] \in Nat /\ n \in Nat \ {0} /\ BlockStart \in Nat /\ BlockSize \in Nat \ {0}
  BY BlockAssumption, Zenon DEF Masked
<1>1. PICK m \in Nat : BlockStart = m * BlockSize
  BY BlockAssumption, Multiple, Zenon
<1>2. PICK k \in Nat : BlockSize = k * n
  BY <1>0, Multiple, Zenon
<1>3. PICK j \in Nat : p[1] = j * n
  BY <1>0, Multiple, Zenon DEF Masked
<1>4. p[1] < BlockStart + BlockSize /\ BlockStart < p[1] + n
  BY Zenon DEF Overlaps, Block
<1> HIDE DEF n
<1>5. m * k \in Nat /\ BlockStart = (m * k) * n /\ BlockStart + BlockSize = (m * k + k) * n
  BY <1>0, <1>1, <1>2, SMT
<1>6. p[1] + n = (j + 1) * n
  BY <1>0, <1>3, SMT
<1>7. m * k < j + 1 /\ j < m * k + k
  BY <1>0, <1>3, <1>4, <1>5, <1>6, Cancel
<1>8. BlockStart <= p[1] /\ p[1] + n <= BlockStart + BlockSize
  <2>1. ASSUME NEW a \in Nat, NEW b \in Nat, a <= b PROVE a * n <= b * n
    BY <1>0, <2>1, SMT
  <2>2. m * k <= j /\ j + 1 <= m * k + k
    BY <1>5, <1>7
  <2> QED
    BY <1>3, <1>5, <1>6, <2>1, <2>2
<1>9. p[1] - BlockStart \in 0..BlockSize - 1 /\ p[1] = m * BlockSize + (p[1] - BlockStart)
  BY <1>0, <1>1, <1>8
<1>10. p[1] % BlockSize = p[1] - BlockStart
  BY <1>0, <1>9, Remainder, ZenonT(60)
<1> QED
  BY <1>8, <1>10, Zenon DEF Ipv4Offset, n

(* A prefix around the block.                                              *)
LEMMA LargeAround ==
  ASSUME NEW p, Masked(p), p[2] % BlockSize = 0, Overlaps(p, Block)
  PROVE  p[1] <= BlockStart /\ BlockStart + BlockSize <= p[1] + p[2] /\ Ipv4Offset(p[1]) = 0
<1> DEFINE n == p[2]
           B == BlockSize
<1>0. p[1] \in Nat /\ n \in Nat \ {0} /\ BlockStart \in Nat /\ B \in Nat \ {0}
  BY BlockAssumption, Zenon DEF Masked
<1>1. PICK m \in Nat : BlockStart = m * B
  BY BlockAssumption, Multiple, Zenon
<1>2. PICK k \in Nat : n = k * B
  BY <1>0, Multiple, Zenon
<1>3. PICK j \in Nat : p[1] = j * n
  BY <1>0, Multiple, Zenon DEF Masked
<1>4. p[1] < BlockStart + B /\ BlockStart < p[1] + n
  BY Zenon DEF Overlaps, Block
<1>10. B = BlockSize
  BY Zenon
<1> HIDE DEF n, B
<1>5. j * k \in Nat /\ p[1] = (j * k) * B /\ p[1] + n = (j * k + k) * B
  BY <1>0, <1>2, <1>3, SMT
<1>6. BlockStart + B = (m + 1) * B
  BY <1>0, <1>1, SMT
<1>7. j * k < m + 1 /\ m < j * k + k
  BY <1>0, <1>1, <1>4, <1>5, <1>6, Cancel
<1>8. p[1] <= BlockStart /\ BlockStart + B <= p[1] + n
  <2>1. ASSUME NEW a \in Nat, NEW b \in Nat, a <= b PROVE a * B <= b * B
    BY <1>0, <2>1, SMT
  <2>2. j * k <= m /\ m + 1 <= j * k + k
    BY <1>5, <1>7
  <2> QED
    BY <1>1, <1>5, <1>6, <2>1, <2>2
<1>9. p[1] % B = 0
  <2>1. p[1] = (j * k) * B + 0
    BY <1>0, <1>5
  <2> QED
    BY <1>0, <1>5, <2>1, Remainder
<1> QED
  BY <1>8, <1>9, <1>10, Zenon DEF Ipv4Offset, n

(* occupiedIndices marks exactly the slots a prefix overlaps.              *)
LEMMA SlotsExact ==
  ASSUME NEW p, Masked(p), NEW i \in 0..TotalGeneratedSubnets - 1
  PROVE  Overlaps(p, IndexToCIDR(i)) <=> Overlaps(p, Block) /\ i \in SlotsOf(p)
<1> DEFINE first == Ipv4Offset(p[1])
           last == first + p[2] - 1
           at == i * SlotSize
<1>0. p[1] \in Nat /\ p[2] \in Nat \ {0} /\ BlockStart \in Nat /\ BlockSize \in Nat \ {0}
      /\ SlotSize \in Nat \ {0}
  BY BlockAssumption, Zenon DEF Masked
<1>1. i \in Nat /\ at \in Nat /\ at + SlotSize <= BlockSize
  BY <1>0, WholeSlots
<1>2. Overlaps(p, IndexToCIDR(i)) <=> p[1] < BlockStart + at + SlotSize /\ BlockStart + at < p[1] + p[2]
  BY Zenon DEF Overlaps, IndexToCIDR
<1>3. Overlaps(p, Block) <=> p[1] < BlockStart + BlockSize /\ BlockStart < p[1] + p[2]
  BY Zenon DEF Overlaps, Block
<1>4. ASSUME first \in Nat
      PROVE  i \in SlotsOf(p) <=> first < at + SlotSize /\ at <= last
  <2>1. last \in Nat
    BY <1>0, <1>4
  <2>2. (first \div SlotSize <= i) <=> (first < i * SlotSize + SlotSize)
    BY <1>0, <1>1, <1>4, QuotientAtMost, Zenon
  <2>3. (i <= last \div SlotSize) <=> (i * SlotSize <= last)
    BY <1>0, <1>1, <2>1, QuotientAtLeast, Zenon
  <2> QED
    BY <2>2, <2>3, Zenon DEF SlotsOf
<1>5. CASE ~Overlaps(p, Block)
  <2> HIDE DEF at
  <2> QED
    BY <1>0, <1>1, <1>2, <1>3, <1>5
<1>6. CASE Overlaps(p, Block) /\ BlockSize % p[2] = 0
  <2>1. BlockStart <= p[1] /\ p[1] + p[2] <= BlockStart + BlockSize /\ first = p[1] - BlockStart
    BY <1>6, SmallInside, Zenon
  <2>2. first \in Nat
    BY <1>0, <2>1
  <2> HIDE DEF at, first
  <2> QED
    BY <1>0, <1>1, <1>2, <1>4, <1>6, <2>1, <2>2
<1>7. CASE Overlaps(p, Block) /\ p[2] % BlockSize = 0
  <2>1. p[1] <= BlockStart /\ BlockStart + BlockSize <= p[1] + p[2] /\ first = 0
    BY <1>7, LargeAround, Zenon
  <2>2. first \in Nat
    BY <2>1
  <2> HIDE DEF at, first
  <2> QED
    BY <1>0, <1>1, <1>2, <1>4, <1>7, <2>1, <2>2
<1> QED
  BY <1>5, <1>6, <1>7, Zenon DEF Masked

LEMMA FreeExact ==
  ASSUME NEW nets, \A p \in nets : Masked(p), NEW i \in 0..TotalGeneratedSubnets - 1
  PROVE  i \in OccupiedIndices(nets) <=> \E p \in nets : Overlaps(p, IndexToCIDR(i))
<1>1. i \in OccupiedIndices(nets) <=> \E p \in nets : Overlaps(p, Block) /\ i \in SlotsOf(p)
  BY Zenon DEF OccupiedIndices, SlotsOf, Block
<1> QED
  BY <1>1, SlotsExact, Zenon

-----------------------------------------------------------------------------
(* Type correctness of the controllers.                                    *)

LEMMA NowTyped == SandboxTypeOK => Now \in Copies /\ Seen \in Copies
BY Zenon DEF SandboxTypeOK, Now, Seen, Copies

LEMMA SeenFields ==
  ASSUME SandboxTypeOK, NEW s \in Sandboxes
  PROVE  /\ Seen.sb[s] \in OrNone(ImpSandbox) /\ Seen.vm[s] \in OrNone(ImpVM)
         /\ Seen.net[s] \in OrNone(ImpNetwork) /\ Seen.sec[s] \in OrNone(UIDs)
         /\ Seen.foreign \subseteq Foreign
BY NowTyped, Zenon DEF Copies

LEMMA Fields ==
  ASSUME SandboxTypeOK, NEW s \in Sandboxes
  PROVE  /\ sb[s] # None => sb[s] \in ImpSandbox
         /\ vm[s] # None => vm[s] \in ImpVM
         /\ net[s] # None => net[s] \in ImpNetwork
         /\ sec[s] # None => sec[s] \in UIDs
BY Zenon DEF SandboxTypeOK, OrNone

LEMMA AtWork ==
  ASSUME SandboxTypeOK, work.pc # "idle"
  PROVE  work # Idle /\ work.s \in Sandboxes /\ work.o \in ImpSandbox
BY DEF SandboxTypeOK, Idle

LEMMA WatchedTyped ==
  ASSUME NEW q, q \subseteq Sandboxes
  PROVE  Watched(q) \subseteq Sandboxes
BY Zenon DEF Watched

LEMMA SandboxSet ==
  ASSUME NEW o \in ImpSandbox, NEW r \in ConditionStatus, NEW e \in ConditionStatus,
         NEW b \in BOOLEAN, NEW t \in TenancyMode
  PROVE  /\ [o EXCEPT !.ready = r, !.enforced = e] \in ImpSandbox
         /\ [o EXCEPT !.finalizer = b] \in ImpSandbox /\ [o EXCEPT !.deleting = b] \in ImpSandbox
         /\ [o EXCEPT !.spec.tenancy = t] \in ImpSandbox
         /\ [o.spec EXCEPT !.tenancy = t] \in ImpSandboxSpec
         /\ o.spec \in ImpSandboxSpec /\ o.uid \in UIDs
         /\ o.ready \in ConditionStatus /\ o.enforced \in ConditionStatus
<1>1. o.spec \in ImpSandboxSpec /\ o.uid \in UIDs /\ o.ready \in ConditionStatus /\ o.enforced \in ConditionStatus
  BY Zenon DEF ImpSandbox
<1>2. [o.spec EXCEPT !.tenancy = t] \in ImpSandboxSpec
  BY <1>1, Zenon DEF ImpSandboxSpec
<1>3. /\ [o EXCEPT !.ready = r, !.enforced = e] \in ImpSandbox
      /\ [o EXCEPT !.finalizer = b] \in ImpSandbox /\ [o EXCEPT !.deleting = b] \in ImpSandbox
  BY Zenon DEF ImpSandbox
<1>4. [o EXCEPT !.spec.tenancy = t] \in ImpSandbox
  BY <1>2, Zenon DEF ImpSandbox
<1> QED
  BY <1>1, <1>2, <1>3, <1>4, Zenon

LEMMA VMSet ==
  ASSUME NEW v \in ImpVM, NEW b \in BOOLEAN, NEW c \in BOOLEAN,
         NEW p \in {"", "Scheduled", "Running", "Failed"}
  PROVE  /\ [v EXCEPT !.deleting = b] \in ImpVM /\ [v EXCEPT !.node = b] \in ImpVM
         /\ [v EXCEPT !.node = b, !.phase = p] \in ImpVM /\ [v EXCEPT !.phase = p] \in ImpVM
         /\ [v EXCEPT !.phase = p, !.ran = b] \in ImpVM
         /\ v.owner \in UIDs /\ v.deleting \in BOOLEAN /\ v.node \in BOOLEAN
         /\ v.phase \in {"", "Scheduled", "Running", "Failed"}
BY Zenon DEF ImpVM

(* A step that leaves the typing of what it changes intact.                *)
LEMMA Typed ==
  ASSUME SandboxTypeOK,
         sb' \in [Sandboxes -> OrNone(ImpSandbox)], vm' \in [Sandboxes -> OrNone(ImpVM)],
         net' \in [Sandboxes -> OrNone(ImpNetwork)], sec' \in [Sandboxes -> OrNone(UIDs)],
         foreign' \subseteq Foreign, floor' \in TenancyMode,
         cni' \in {"unknown", "cilium", "other"}, admission' = admission,
         cache' = Live \/ cache' \in Copies,
         queue' \subseteq Sandboxes, timer' \subseteq Sandboxes,
         \/ work' = Idle
         \/ work' \in [pc : {"tenancy", "network", "vm", "status", "secret"}, s : Sandboxes, o : ImpSandbox],
         uids' \in [Sandboxes -> 0..MaxUID], events' \in 0..MaxEvents,
         refused' \subseteq Sandboxes, lost' \subseteq Sandboxes, reused' \subseteq Sandboxes
  PROVE  SandboxTypeOK'
BY Zenon DEF SandboxTypeOK

LEMMA EventsTyped == ASSUME SandboxTypeOK, NEW e, Happens(e) PROVE events' \in 0..MaxEvents
BY CountAssumption DEF SandboxTypeOK, Happens

LEMMA StatusTyped ==
  ASSUME SandboxTypeOK, NEW s \in Sandboxes, NEW o \in ImpSandbox,
         NEW r \in ConditionStatus, NEW e \in ConditionStatus, UpdateStatus(s, o, r, e)
  PROVE  /\ sb' \in [Sandboxes -> OrNone(ImpSandbox)] /\ lost' \subseteq Sandboxes
         /\ events' \in 0..MaxEvents
         /\ \A t \in Sandboxes : /\ sb'[t] = None <=> sb[t] = None
                                 /\ sb[t] # None => sb'[t].spec = sb[t].spec /\ sb'[t].uid = sb[t].uid
<1>1. CASE Happens("api") /\ lost' = lost \cup {s} /\ UNCHANGED sb
  BY <1>1, EventsTyped, Zenon DEF SandboxTypeOK
<1>2. ASSUME NEW sent \in BOOLEAN,
             sb' = IF sb[s] = None \/ ~sent THEN sb ELSE [sb EXCEPT ![s].ready = r, ![s].enforced = e],
             lost' = lost \ {s}, UNCHANGED events
      PROVE  /\ sb' \in [Sandboxes -> OrNone(ImpSandbox)] /\ lost' \subseteq Sandboxes
             /\ events' \in 0..MaxEvents
             /\ \A t \in Sandboxes : /\ sb'[t] = None <=> sb[t] = None
                                     /\ sb[t] # None => sb'[t].spec = sb[t].spec /\ sb'[t].uid = sb[t].uid
  <2>1. CASE sb[s] = None \/ ~sent
    BY <1>2, <2>1, Zenon DEF SandboxTypeOK
  <2>2. CASE sb[s] # None /\ sent
    <3> DEFINE n == [sb[s] EXCEPT !.ready = r, !.enforced = e]
    <3>1. sb[s] \in ImpSandbox
      BY <2>2, Fields, Zenon
    <3>3. n \in ImpSandbox /\ n.spec = sb[s].spec /\ n.uid = sb[s].uid
      BY <3>1, SandboxSet, Zenon DEF ImpSandbox
    <3>4. sb' = [sb EXCEPT ![s] = n]
      BY <1>2, <2>2, <3>1, Zenon DEF SandboxTypeOK, ImpSandbox
    <3>5. n # None
      BY <3>3, NoneAssumption, Zenon
    <3> HIDE DEF n
    <3>6. sb' \in [Sandboxes -> OrNone(ImpSandbox)]
      BY <3>3, <3>4, Zenon DEF SandboxTypeOK, OrNone
    <3>7. \A t \in Sandboxes : sb'[t] = IF t = s THEN n ELSE sb[t]
      BY <3>4, Zenon DEF SandboxTypeOK
    <3> QED
      BY <1>2, <2>2, <3>3, <3>5, <3>6, <3>7, Zenon DEF SandboxTypeOK
  <2> QED
    BY <2>1, <2>2, Zenon
<1> QED
  BY <1>1, <1>2, Zenon DEF UpdateStatus


Working == [pc : {"tenancy", "network", "vm", "status", "secret"}, s : Sandboxes, o : ImpSandbox]

LEMMA GoOnTyped ==
  ASSUME SandboxTypeOK, work.pc # "idle", NEW o \in ImpSandbox,
         NEW p \in {"tenancy", "network", "vm", "status", "secret"}, GoOn(p, o)
  PROVE  work' \in Working /\ work'.o = o /\ queue' \subseteq Sandboxes
<1>1. queue' \subseteq Sandboxes
  BY WatchedTyped, Zenon DEF GoOn, SandboxTypeOK
<1> QED
  BY <1>1, AtWork, Zenon DEF GoOn, Working

LEMMA DoneTyped ==
  ASSUME SandboxTypeOK, NEW q, q \subseteq Sandboxes, Done(q)
  PROVE  work' = Idle /\ queue' \subseteq Sandboxes
BY WatchedTyped, Zenon DEF Done

LEMMA RetryTyped ==
  ASSUME SandboxTypeOK, work.pc # "idle", Retry
  PROVE  work' = Idle /\ queue' \subseteq Sandboxes
<1>1. queue \cup {work.s} \subseteq Sandboxes
  BY AtWork, Zenon DEF SandboxTypeOK
<1> QED
  BY <1>1, DoneTyped, Zenon DEF Retry

LEMMA SetSandbox ==
  ASSUME SandboxTypeOK, NEW s \in Sandboxes, NEW o, o \in OrNone(ImpSandbox), sb' = [sb EXCEPT ![s] = o]
  PROVE  /\ sb' \in [Sandboxes -> OrNone(ImpSandbox)]
         /\ \A t \in Sandboxes : sb'[t] = IF t = s THEN o ELSE sb[t]
BY Zenon DEF SandboxTypeOK

LEMMA SetTheVM ==
  ASSUME SandboxTypeOK, NEW s \in Sandboxes, NEW v, v \in OrNone(ImpVM), vm' = [vm EXCEPT ![s] = v]
  PROVE  vm' \in [Sandboxes -> OrNone(ImpVM)]
BY Zenon DEF SandboxTypeOK

(* What a step may do to the sandbox objects: remove them, or leave their  *)
(* specs alone.                                                            *)
SpecsKept ==
  \A t \in Sandboxes : sb'[t] = None \/ (sb[t] # None /\ sb'[t].spec = sb[t].spec)

LEMMA DeleteTyped ==
  ASSUME SandboxTypeOK, NEW s \in Sandboxes, NEW o \in ImpSandbox, ReconcileDelete(s, o)
  PROVE  /\ sb' \in [Sandboxes -> OrNone(ImpSandbox)] /\ vm' \in [Sandboxes -> OrNone(ImpVM)]
         /\ timer' \subseteq Sandboxes /\ queue' \subseteq Sandboxes /\ SpecsKept
<1>1. queue \ {s} \subseteq Sandboxes /\ timer \cup {s} \subseteq Sandboxes
  BY Zenon DEF SandboxTypeOK
<1>2. CASE /\ Seen.vm[s] # None
           /\ vm' = IF vm[s] = None \/ Seen.vm[s].deleting THEN vm ELSE [vm EXCEPT ![s].deleting = TRUE]
           /\ UNCHANGED sb
           /\ timer' = timer \cup {s} /\ queue' = Watched(queue \ {s})
  <2>1. vm' \in [Sandboxes -> OrNone(ImpVM)]
    <3>1. CASE UNCHANGED vm
      BY <3>1, Zenon DEF SandboxTypeOK
    <3>2. CASE vm[s] # None /\ vm' = [vm EXCEPT ![s].deleting = TRUE]
      <4>1. [vm[s] EXCEPT !.deleting = TRUE] \in ImpVM
        BY <3>2, Fields, Zenon DEF ImpVM
      <4>2. vm' = [vm EXCEPT ![s] = [vm[s] EXCEPT !.deleting = TRUE]]
        BY <3>2, Zenon
      <4> QED
        BY <4>1, <4>2, SetTheVM, Zenon DEF OrNone
    <3> QED
      BY <1>2, <3>1, <3>2, Zenon
  <2> QED
    BY <1>1, <1>2, <2>1, WatchedTyped, Zenon DEF SandboxTypeOK, SpecsKept
<1>3. CASE UNCHANGED <<vm, timer, sb>> /\ queue' \in {queue, queue \ {s}}
  BY <1>1, <1>3, Zenon DEF SandboxTypeOK, SpecsKept
<1>4. CASE /\ UNCHANGED <<vm, timer>> /\ sb[s] # None /\ queue' = Watched(queue \ {s})
           /\ sb' = [sb EXCEPT ![s] = IF @.deleting THEN None ELSE [@ EXCEPT !.finalizer = FALSE]]
  <2> DEFINE n == IF sb[s].deleting THEN None ELSE [sb[s] EXCEPT !.finalizer = FALSE]
  <2>1. n \in OrNone(ImpSandbox) /\ (n # None => n.spec = sb[s].spec)
    BY <1>4, Fields, Zenon DEF ImpSandbox, OrNone
  <2>2. sb' = [sb EXCEPT ![s] = n]
    BY <1>4, Zenon
  <2> HIDE DEF n
  <2>3. /\ sb' \in [Sandboxes -> OrNone(ImpSandbox)]
        /\ \A t \in Sandboxes : sb'[t] = IF t = s THEN n ELSE sb[t]
    BY <2>1, <2>2, SetSandbox, Zenon
  <2> QED
    BY <1>1, <1>4, <2>1, <2>3, WatchedTyped, Zenon DEF SandboxTypeOK, SpecsKept
<1> QED
  BY <1>2, <1>3, <1>4, Zenon DEF ReconcileDelete

LEMMA ReconcileTyped ==
  ASSUME SandboxTypeOK, NEW s \in Sandboxes, Reconcile(s)
  PROVE  /\ SandboxTypeOK' /\ SpecsKept
         /\ work' = Idle \/ work'.o \in {sb'[s], Seen.sb[s]}
<1> DEFINE o == Seen.sb[s]
<1>0. /\ UNCHANGED <<net, sec, foreign, settings, cache, uids, events, history>>
      /\ work = Idle /\ queue \ {s} \subseteq Sandboxes
  BY Zenon DEF Reconcile, SandboxTypeOK
<1>1. o # None => o \in ImpSandbox
  BY SeenFields, Zenon DEF OrNone
<1>2. ASSUME sb' \in [Sandboxes -> OrNone(ImpSandbox)], vm' \in [Sandboxes -> OrNone(ImpVM)],
             queue' \subseteq Sandboxes, timer' \subseteq Sandboxes, work' = Idle \/ work' \in Working
      PROVE  SandboxTypeOK'
  BY <1>0, <1>2, Zenon DEF SandboxTypeOK, settings, history, Working
<1>3. CASE o = None /\ queue' = queue \ {s} /\ UNCHANGED <<sb, vm, timer, work>>
  BY <1>0, <1>2, <1>3, Zenon DEF SandboxTypeOK, SpecsKept
<1>4. CASE o # None /\ ReconcileDelete(s, o) /\ UNCHANGED work
  BY <1>0, <1>1, <1>2, <1>4, DeleteTyped, Zenon
<1>5. CASE /\ sb[s] # None /\ sb' = [sb EXCEPT ![s].finalizer = TRUE] /\ UNCHANGED <<vm, timer>>
           /\ work' = [pc |-> "tenancy", s |-> s, o |-> sb'[s]] /\ queue' = Watched(queue \ {s})
  <2> DEFINE n == [sb[s] EXCEPT !.finalizer = TRUE]
  <2>1. n \in ImpSandbox /\ n.spec = sb[s].spec
    BY <1>5, Fields, Zenon DEF ImpSandbox
  <2>2. sb' = [sb EXCEPT ![s] = n]
    BY <1>5, Zenon
  <2> HIDE DEF n
  <2>3. /\ sb' \in [Sandboxes -> OrNone(ImpSandbox)]
        /\ \A t \in Sandboxes : sb'[t] = IF t = s THEN n ELSE sb[t]
    BY <2>1, <2>2, SetSandbox, Zenon DEF OrNone
  <2>4. work' \in Working /\ work'.o = sb'[s]
    BY <1>5, <2>1, <2>3, Zenon DEF Working
  <2>5. SpecsKept
    BY <1>5, <2>1, <2>3, Zenon DEF SpecsKept
  <2>6. queue' \subseteq Sandboxes
    BY <1>0, <1>5, WatchedTyped, Zenon
  <2> QED
    BY <1>2, <1>5, <2>3, <2>4, <2>5, <2>6, Zenon DEF SandboxTypeOK
<1>6. CASE /\ o # None
           /\ work' = [pc |-> "tenancy", s |-> s, o |-> o] /\ queue' = queue \ {s}
           /\ UNCHANGED <<sb, vm, timer>>
  <2>1. work' \in Working /\ work'.o = o
    BY <1>1, <1>6, Zenon DEF Working
  <2> QED
    BY <1>0, <1>2, <1>6, <2>1, Zenon DEF SandboxTypeOK, SpecsKept
<1> QED
  BY <1>3, <1>4, <1>5, <1>6, Zenon DEF Reconcile


(* What a step of the worker does with the copy it has.                    *)
CopyKept == work' = Idle \/ (work' # Idle /\ work'.o = work.o) \/ (work.s \in Sandboxes /\ work'.o = sb'[work.s])

LEMMA WorkTyped ==
  ASSUME SandboxTypeOK, work' = Idle \/ work' \in Working, queue' \subseteq Sandboxes,
         sb' \in [Sandboxes -> OrNone(ImpSandbox)], vm' \in [Sandboxes -> OrNone(ImpVM)],
         net' \in [Sandboxes -> OrNone(ImpNetwork)], sec' \in [Sandboxes -> OrNone(UIDs)],
         timer' \subseteq Sandboxes, events' \in 0..MaxEvents,
         refused' \subseteq Sandboxes, lost' \subseteq Sandboxes, reused' \subseteq Sandboxes,
         UNCHANGED <<foreign, settings, cache, uids>>
  PROVE  SandboxTypeOK'
BY Zenon DEF SandboxTypeOK, settings, Working

LEMMA WorkingIsBusy == Idle \notin Working
BY Zenon DEF Idle, Working

LEMMA ResolveTyped ==
  ASSUME SandboxTypeOK, ResolveTenancy
  PROVE  SandboxTypeOK' /\ SpecsKept /\ CopyKept /\ refused' = refused
<1> DEFINE s == work.s
           o == work.o
<1>1. work.pc # "idle" /\ s \in Sandboxes /\ o \in ImpSandbox
  BY AtWork, Zenon DEF ResolveTenancy
<1>2. UNCHANGED <<vm, net, sec, foreign, settings, cache, uids, refused, reused>>
  BY Zenon DEF ResolveTenancy
<1>3. CASE UNCHANGED <<sb, timer, events, lost>> /\ GoOn("network", o)
  <2>1. work' \in Working /\ work'.o = o /\ queue' \subseteq Sandboxes
    BY <1>1, <1>3, GoOnTyped, Zenon
  <2>2. SandboxTypeOK'
    BY <1>2, <1>3, <2>1, WorkTyped, Zenon DEF SandboxTypeOK
  <2> QED
    BY <1>2, <1>3, <2>1, <2>2, WorkingIsBusy, Zenon DEF SpecsKept, CopyKept
<1>4. CASE /\ UpdateStatus(s, o, "False", "False")
           /\ timer' = timer \cup {s} /\ Done(queue)
  <2>1. work' = Idle /\ queue' \subseteq Sandboxes
    BY <1>4, DoneTyped, Zenon DEF SandboxTypeOK
  <2>2. "False" \in ConditionStatus
    BY Zenon DEF ConditionStatus
  <2>3. /\ sb' \in [Sandboxes -> OrNone(ImpSandbox)] /\ lost' \subseteq Sandboxes
        /\ events' \in 0..MaxEvents /\ SpecsKept
    BY <1>1, <1>4, <2>2, StatusTyped, Zenon DEF SpecsKept
  <2>4. timer' \subseteq Sandboxes
    BY <1>1, <1>4, Zenon DEF SandboxTypeOK
  <2>5. SandboxTypeOK'
    BY <1>2, <2>1, <2>3, <2>4, WorkTyped, Zenon DEF SandboxTypeOK
  <2> QED
    BY <1>2, <2>1, <2>3, <2>5, Zenon DEF CopyKept
<1> QED
  BY <1>3, <1>4, Zenon DEF ResolveTenancy

LEMMA NetworkTyped ==
  ASSUME SandboxTypeOK, EnsureNetwork
  PROVE  SandboxTypeOK' /\ SpecsKept /\ CopyKept /\ refused' = refused
<1> DEFINE s == work.s
           o == work.o
<1>1. work.pc # "idle" /\ s \in Sandboxes /\ o \in ImpSandbox /\ o.uid \in UIDs /\ o.enforced \in ConditionStatus
  <2>1. work.pc # "idle" /\ s \in Sandboxes /\ o \in ImpSandbox
    BY AtWork, Zenon DEF EnsureNetwork
  <2> QED
    BY <2>1, Zenon DEF ImpSandbox
<1>2. UNCHANGED <<vm, sec, foreign, settings, cache, timer, uids, refused>>
  BY Zenon DEF EnsureNetwork
<1>3. CASE /\ \/ UNCHANGED reused
              \/ reused' = IF net[s].owner = o.uid THEN reused ELSE reused \cup {s}
           /\ UNCHANGED <<sb, net, events, lost>> /\ GoOn("vm", o)
  <2>1. work' \in Working /\ work'.o = o /\ queue' \subseteq Sandboxes
    BY <1>1, <1>3, GoOnTyped, Zenon
  <2>2. reused' \subseteq Sandboxes
    BY <1>1, <1>3, Zenon DEF SandboxTypeOK
  <2>3. SandboxTypeOK'
    BY <1>2, <1>3, <2>1, <2>2, WorkTyped, Zenon DEF SandboxTypeOK
  <2> QED
    BY <1>2, <1>3, <2>1, <2>3, WorkingIsBusy, Zenon DEF SpecsKept, CopyKept
<1>4. CASE /\ FreeIndices(Seen) # {}
           /\ net' = [net EXCEPT ![s] = [owner |-> o.uid, slot |-> Min(FreeIndices(Seen))]]
           /\ UNCHANGED <<sb, events, reused, lost>> /\ GoOn("vm", o)
  <2>1. work' \in Working /\ work'.o = o /\ queue' \subseteq Sandboxes
    BY <1>1, <1>4, GoOnTyped, Zenon
  <2>2. Min(FreeIndices(Seen)) \in 0..TotalGeneratedSubnets - 1
    <3>1. FreeIndices(Seen) \subseteq 0..TotalGeneratedSubnets - 1
      BY Zenon DEF FreeIndices
    <3>2. FreeIndices(Seen) \subseteq Nat
      BY <3>1, WholeSlots
    <3> QED
      BY <1>4, <3>1, <3>2, MinIn, Zenon
  <2>3. [owner |-> o.uid, slot |-> Min(FreeIndices(Seen))] \in ImpNetwork
    BY <1>1, <2>2, Zenon DEF ImpNetwork
  <2>4. net' \in [Sandboxes -> OrNone(ImpNetwork)]
    BY <1>4, <2>3, Zenon DEF SandboxTypeOK, OrNone
  <2>5. SandboxTypeOK'
    BY <1>2, <1>4, <2>1, <2>4, WorkTyped, Zenon DEF SandboxTypeOK
  <2> QED
    BY <1>2, <1>4, <2>1, <2>5, WorkingIsBusy, Zenon DEF SpecsKept, CopyKept
<1>5. CASE UpdateStatus(s, o, "False", o.enforced) /\ UNCHANGED <<net, reused>> /\ Retry
  <2>1. work' = Idle /\ queue' \subseteq Sandboxes
    BY <1>1, <1>5, RetryTyped, Zenon
  <2>2. "False" \in ConditionStatus
    BY Zenon DEF ConditionStatus
  <2>3. /\ sb' \in [Sandboxes -> OrNone(ImpSandbox)] /\ lost' \subseteq Sandboxes
        /\ events' \in 0..MaxEvents /\ SpecsKept
    BY <1>1, <1>5, <2>2, StatusTyped, Zenon DEF SpecsKept
  <2>4. SandboxTypeOK'
    BY <1>2, <1>5, <2>1, <2>3, WorkTyped, Zenon DEF SandboxTypeOK
  <2> QED
    BY <1>2, <2>1, <2>3, <2>4, Zenon DEF CopyKept
<1> QED
  BY <1>3, <1>4, <1>5, Zenon DEF EnsureNetwork

LEMMA VMTyped ==
  ASSUME SandboxTypeOK, EnsureVM
  PROVE  /\ SandboxTypeOK' /\ SpecsKept /\ CopyKept
         /\ refused' = refused \/ (vm[work.s] = None /\ ~VMAdmitted(work.s, work.o))
<1> DEFINE s == work.s
           o == work.o
<1>1. work.pc # "idle" /\ s \in Sandboxes /\ o \in ImpSandbox /\ o.uid \in UIDs
  <2>1. work.pc # "idle" /\ s \in Sandboxes /\ o \in ImpSandbox
    BY AtWork, Zenon DEF EnsureVM
  <2> QED
    BY <2>1, Zenon DEF ImpSandbox
<1>2. UNCHANGED <<sb, net, sec, foreign, settings, cache, timer, uids, events, lost, reused>>
  BY Zenon DEF EnsureVM
<1>3. SpecsKept
  BY <1>2, Zenon DEF SpecsKept
<1>4. ASSUME vm' \in [Sandboxes -> OrNone(ImpVM)], UNCHANGED refused, GoOn("status", o)
      PROVE  SandboxTypeOK' /\ CopyKept
  <2>1. work' \in Working /\ work'.o = o /\ queue' \subseteq Sandboxes
    BY <1>1, <1>4, GoOnTyped, Zenon
  <2>2. SandboxTypeOK'
    BY <1>2, <1>4, <2>1, WorkTyped, Zenon DEF SandboxTypeOK
  <2> QED
    BY <2>1, <2>2, WorkingIsBusy, Zenon DEF CopyKept
<1>5. CASE /\ vm' = [vm EXCEPT ![s] = [owner |-> o.uid, node |-> FALSE, phase |-> "",
                                       expires |-> o.spec.expireAfter # "unset",
                                       ran |-> FALSE, deleting |-> FALSE]]
           /\ UNCHANGED refused /\ GoOn("status", o)
  <2>1. [owner |-> o.uid, node |-> FALSE, phase |-> "", expires |-> o.spec.expireAfter # "unset",
         ran |-> FALSE, deleting |-> FALSE] \in ImpVM
    BY <1>1, Zenon DEF ImpVM
  <2>2. vm' \in [Sandboxes -> OrNone(ImpVM)]
    BY <1>1, <1>5, <2>1, SetTheVM, Zenon DEF OrNone
  <2> QED
    BY <1>3, <1>4, <1>5, <2>2, Zenon
<1>6. CASE /\ vm[s] # None
           /\ vm' = IF Seen.vm[s].node THEN [vm EXCEPT ![s].node = FALSE] ELSE vm
           /\ UNCHANGED refused /\ GoOn("status", o)
  <2>1. [vm[s] EXCEPT !.node = FALSE] \in ImpVM
    BY <1>1, <1>6, Fields, Zenon DEF ImpVM
  <2>2. vm' = [vm EXCEPT ![s] = [vm[s] EXCEPT !.node = FALSE]] \/ vm' = vm
    BY <1>6, Zenon
  <2>3. vm' \in [Sandboxes -> OrNone(ImpVM)]
    BY <1>1, <2>1, <2>2, SetTheVM, Zenon DEF OrNone, SandboxTypeOK
  <2> QED
    BY <1>3, <1>4, <1>6, <2>3, Zenon
<1>7. CASE /\ refused' = IF vm[s] = None /\ ~VMAdmitted(s, o) THEN refused \cup {s} ELSE refused
           /\ UNCHANGED vm /\ Retry
  <2>1. work' = Idle /\ queue' \subseteq Sandboxes
    BY <1>1, <1>7, RetryTyped, Zenon
  <2>2. refused' \subseteq Sandboxes
    BY <1>1, <1>7, Zenon DEF SandboxTypeOK
  <2>3. SandboxTypeOK'
    BY <1>2, <1>7, <2>1, <2>2, WorkTyped, Zenon DEF SandboxTypeOK
  <2> QED
    BY <1>3, <1>7, <2>1, <2>3, Zenon DEF CopyKept
<1> QED
  BY <1>5, <1>6, <1>7, Zenon DEF EnsureVM

LEMMA ReportTyped ==
  ASSUME SandboxTypeOK, ReportStatus
  PROVE  SandboxTypeOK' /\ SpecsKept /\ CopyKept /\ refused' = refused
<1> DEFINE s == work.s
           o == work.o
           r == SetReadyFromPhase(Seen.vm[s].phase)
           n == IF sb'[s] = None \/ lost' # lost \ {s} THEN o ELSE sb'[s]
<1>1. work.pc # "idle" /\ s \in Sandboxes /\ o \in ImpSandbox
  BY AtWork, Zenon DEF ReportStatus
<1>2. UNCHANGED <<vm, net, sec, foreign, settings, cache, timer, uids, refused, reused>>
  BY Zenon DEF ReportStatus
<1>3. CASE UNCHANGED <<sb, events, lost>> /\ Retry
  <2>1. work' = Idle /\ queue' \subseteq Sandboxes
    BY <1>1, <1>3, RetryTyped, Zenon
  <2>2. SandboxTypeOK'
    BY <1>2, <1>3, <2>1, WorkTyped, Zenon DEF SandboxTypeOK
  <2> QED
    BY <1>2, <1>3, <2>1, <2>2, Zenon DEF CopyKept, SpecsKept
<1>4. CASE UpdateStatus(s, o, r, "True") /\ GoOn("secret", n)
  <2>1. r \in ConditionStatus /\ "True" \in ConditionStatus
    BY Zenon DEF SetReadyFromPhase, ConditionStatus
  <2>2. /\ sb' \in [Sandboxes -> OrNone(ImpSandbox)] /\ lost' \subseteq Sandboxes
        /\ events' \in 0..MaxEvents /\ SpecsKept
    BY <1>1, <1>4, <2>1, StatusTyped, Zenon DEF SpecsKept
  <2>3. n \in ImpSandbox /\ (n = o \/ n = sb'[s])
    BY <1>1, <2>2, Zenon DEF OrNone
  <2> HIDE DEF n
  <2>4. work' \in Working /\ work'.o = n /\ queue' \subseteq Sandboxes
    BY <1>1, <1>4, <2>3, GoOnTyped, Zenon
  <2>5. SandboxTypeOK'
    BY <1>2, <2>2, <2>4, WorkTyped, Zenon DEF SandboxTypeOK
  <2> QED
    BY <1>1, <1>2, <2>2, <2>3, <2>4, <2>5, WorkingIsBusy, Zenon DEF CopyKept
<1> QED
  BY <1>3, <1>4, Zenon DEF ReportStatus

LEMMA SecretTyped ==
  ASSUME SandboxTypeOK, EnsureSessionSecret
  PROVE  SandboxTypeOK' /\ SpecsKept /\ CopyKept /\ refused' = refused
<1> DEFINE s == work.s
           u == work.o.uid
<1>1. work.pc # "idle" /\ s \in Sandboxes /\ u \in UIDs
  <2>1. work.pc # "idle" /\ s \in Sandboxes /\ work.o \in ImpSandbox
    BY AtWork, Zenon DEF EnsureSessionSecret
  <2> QED
    BY <2>1, Zenon DEF ImpSandbox
<1>2. UNCHANGED <<sb, vm, net, foreign, settings, cache, timer, uids, events, history>>
  BY Zenon DEF EnsureSessionSecret
<1>3. sec' \in [Sandboxes -> OrNone(UIDs)]
  BY <1>1, Zenon DEF EnsureSessionSecret, SandboxTypeOK, OrNone
<1>4. work' = Idle /\ queue' \subseteq Sandboxes
  <2>1. CASE Retry
    BY <1>1, <2>1, RetryTyped, Zenon
  <2>2. CASE Done(queue)
    BY <2>2, DoneTyped, Zenon DEF SandboxTypeOK
  <2> QED
    BY <2>1, <2>2, Zenon DEF EnsureSessionSecret
<1>5. SandboxTypeOK'
  BY <1>2, <1>3, <1>4, WorkTyped, Zenon DEF SandboxTypeOK, history
<1> QED
  BY <1>2, <1>4, <1>5, Zenon DEF SpecsKept, CopyKept, history


-----------------------------------------------------------------------------
(* The surroundings: they leave the worker's copy alone.                   *)

(* A change that only queues what it touched.                              *)
LEMMA ObjectsTyped ==
  ASSUME SandboxTypeOK,
         sb' \in [Sandboxes -> OrNone(ImpSandbox)], vm' \in [Sandboxes -> OrNone(ImpVM)],
         net' \in [Sandboxes -> OrNone(ImpNetwork)], sec' \in [Sandboxes -> OrNone(UIDs)],
         events' \in 0..MaxEvents, queue' = Watched(queue), UNCHANGED <<foreign, others, uids>>
  PROVE  SandboxTypeOK'
<1>1. queue' \subseteq Sandboxes
  BY WatchedTyped, Zenon DEF SandboxTypeOK
<1>2. UNCHANGED <<floor, cni, admission, cache, timer, work, refused, lost, reused>>
  BY Zenon DEF others, settings, history
<1> QED
  BY <1>1, <1>2, Zenon DEF SandboxTypeOK

LEMMA ProcessTyped ==
  ASSUME SandboxTypeOK,
         CallFails \/ (\E s \in Sandboxes : Fire(s)) \/ DetectCNI \/ Restart \/ Freeze \/ CatchUp \/ SetFloor
  PROVE  /\ SandboxTypeOK' /\ UNCHANGED <<sb, admission, refused>>
         /\ work' \in {work, Idle} /\ cache' \in {cache, Live, Now}
<1>1. CASE CallFails
  <2>1. work.pc # "idle"
    BY <1>1, Zenon DEF CallFails, SandboxTypeOK, Idle
  <2>2. work' = Idle /\ queue' \subseteq Sandboxes
    BY <1>1, <2>1, RetryTyped, Zenon DEF CallFails
  <2>3. events' \in 0..MaxEvents
    BY <1>1, EventsTyped, Zenon DEF CallFails
  <2> QED
    BY <1>1, <2>2, <2>3, Zenon DEF CallFails, SandboxTypeOK, objects, settings, history
<1>2. CASE \E s \in Sandboxes : Fire(s)
  BY <1>2, Zenon DEF Fire, SandboxTypeOK, objects, settings, history
<1>3. CASE DetectCNI
  BY <1>3, Zenon DEF DetectCNI, SandboxTypeOK, objects, worker, history
<1>4. CASE Restart
  BY <1>4, EventsTyped, Zenon DEF Restart, SandboxTypeOK, objects, history
<1>5. CASE Freeze
  BY <1>5, EventsTyped, NowTyped, Zenon DEF Freeze, SandboxTypeOK, objects, settings, history
<1>6. CASE CatchUp
  BY <1>6, Zenon DEF CatchUp, SandboxTypeOK, objects, settings, history
<1>7. CASE SetFloor
  BY <1>7, EventsTyped, Zenon DEF SetFloor, SandboxTypeOK, objects, worker, history, TenancyMode
<1> QED
  BY <1>1, <1>2, <1>3, <1>4, <1>5, <1>6, <1>7, Zenon

LEMMA CreateTyped ==
  ASSUME SandboxTypeOK, NEW s \in Sandboxes, NEW spec \in Specs, CreateSandbox(s, spec)
  PROVE  /\ SandboxTypeOK' /\ UNCHANGED <<admission, work, cache>> /\ refused' \subseteq refused
         /\ \A t \in Sandboxes : sb'[t] = sb[t] \/ (sb'[t] # None /\ sb'[t].spec = spec)
         /\ admission => Validate(spec)
<1> DEFINE n == [uid |-> uids[s] + 1, spec |-> spec, finalizer |-> FALSE,
                 deleting |-> FALSE, ready |-> "", enforced |-> ""]
<1>0. /\ uids \in [Sandboxes -> 0..MaxUID] /\ uids[s] < MaxUID
      /\ uids' = [uids EXCEPT ![s] = uids[s] + 1]
  BY Zenon DEF CreateSandbox, SandboxTypeOK
<1>1. uids[s] + 1 \in UIDs
  BY <1>0, CountAssumption DEF UIDs
<1>2. n \in ImpSandbox /\ n.spec = spec /\ n # None
  <2>1. spec \in ImpSandboxSpec /\ "" \in ConditionStatus
    BY SpecsAssumption, Zenon DEF ConditionStatus
  <2>2. n \in ImpSandbox
    BY <1>1, <2>1, Zenon DEF ImpSandbox
  <2>3. n # None
    BY <2>2, NoneAssumption, Zenon
  <2> QED
    BY <2>2, <2>3, Zenon
<1>3. sb' = [sb EXCEPT ![s] = n]
  BY Zenon DEF CreateSandbox
<1> HIDE DEF n
<1>4. /\ sb' \in [Sandboxes -> OrNone(ImpSandbox)]
      /\ \A t \in Sandboxes : sb'[t] = IF t = s THEN n ELSE sb[t]
  BY <1>2, <1>3, SetSandbox, Zenon DEF OrNone
<1>5. uids' \in [Sandboxes -> 0..MaxUID]
  BY <1>0, <1>1 DEF UIDs
<1>6. queue' \subseteq Sandboxes
  BY WatchedTyped, Zenon DEF CreateSandbox, SandboxTypeOK
<1>7. /\ UNCHANGED <<vm, net, sec, foreign, floor, cni, admission, cache, timer, work, events>>
      /\ refused' = refused \ {s} /\ lost' = lost \ {s} /\ reused' = reused \ {s}
      /\ admission => Validate(spec)
  BY Zenon DEF CreateSandbox, settings
<1>8. SandboxTypeOK'
  BY <1>4, <1>5, <1>6, <1>7, Zenon DEF SandboxTypeOK
<1> QED
  BY <1>2, <1>4, <1>7, <1>8, Zenon

LEMMA TenancyTyped ==
  ASSUME SandboxTypeOK, NEW s \in Sandboxes, NEW t \in TenancyMode, UpdateTenancy(s, t)
  PROVE  /\ SandboxTypeOK' /\ UNCHANGED <<admission, work, cache, refused>>
         /\ \A r \in Sandboxes : sb'[r] = sb[r] \/ (sb'[r] # None /\ (admission => Validate(sb'[r].spec)))
<1> DEFINE m == [sb[s].spec EXCEPT !.tenancy = t]
           n == [sb[s] EXCEPT !.spec = m]
<1>1. sb[s] \in ImpSandbox
  BY Fields, Zenon DEF UpdateTenancy
<1>2. m \in ImpSandboxSpec
  BY <1>1, Zenon DEF ImpSandbox, ImpSandboxSpec
<1>3. sb' = [sb EXCEPT ![s] = [sb[s] EXCEPT !.spec = m]] /\ (admission => Validate(m))
  BY Zenon DEF UpdateTenancy, ValidateUpdate
<1> HIDE DEF m
<1>4. n \in ImpSandbox /\ n.spec = m /\ n # None
  BY <1>1, <1>2, NoneAssumption, Zenon DEF ImpSandbox
<1>5. sb' = [sb EXCEPT ![s] = n]
  BY <1>3, Zenon
<1> HIDE DEF n
<1>6. /\ sb' \in [Sandboxes -> OrNone(ImpSandbox)]
      /\ \A r \in Sandboxes : sb'[r] = IF r = s THEN n ELSE sb[r]
  BY <1>4, <1>5, SetSandbox, Zenon DEF OrNone
<1>7. events' \in 0..MaxEvents /\ UNCHANGED <<vm, net, sec, foreign, others, uids>> /\ queue' = Watched(queue)
  BY EventsTyped, Zenon DEF UpdateTenancy
<1>8. SandboxTypeOK'
  BY <1>6, <1>7, ObjectsTyped, Zenon DEF SandboxTypeOK
<1> QED
  BY <1>3, <1>4, <1>6, <1>7, <1>8, Zenon DEF others, settings, history

LEMMA DeleteSandboxTyped ==
  ASSUME SandboxTypeOK, NEW s \in Sandboxes, DeleteSandbox(s)
  PROVE  SandboxTypeOK' /\ UNCHANGED <<admission, work, cache, refused>> /\ SpecsKept
<1> DEFINE n == IF sb[s].finalizer THEN [sb[s] EXCEPT !.deleting = TRUE] ELSE None
<1>1. sb[s] \in ImpSandbox /\ sb[s] # None
  BY Fields, Zenon DEF DeleteSandbox
<1>2. n \in OrNone(ImpSandbox) /\ (n # None => n.spec = sb[s].spec)
  BY <1>1, Zenon DEF ImpSandbox, OrNone
<1>3. sb' = [sb EXCEPT ![s] = n]
  BY Zenon DEF DeleteSandbox
<1> HIDE DEF n
<1>4. /\ sb' \in [Sandboxes -> OrNone(ImpSandbox)]
      /\ \A r \in Sandboxes : sb'[r] = IF r = s THEN n ELSE sb[r]
  BY <1>2, <1>3, SetSandbox, Zenon
<1>5. events' \in 0..MaxEvents /\ UNCHANGED <<vm, net, sec, foreign, others, uids>> /\ queue' = Watched(queue)
  BY EventsTyped, Zenon DEF DeleteSandbox
<1>6. SandboxTypeOK'
  BY <1>4, <1>5, ObjectsTyped, Zenon DEF SandboxTypeOK
<1> QED
  BY <1>1, <1>2, <1>4, <1>5, <1>6, Zenon DEF others, settings, history, SpecsKept

LEMMA CreateNetworkTyped ==
  ASSUME SandboxTypeOK, NEW p \in Foreign, CreateNetwork(p)
  PROVE  SandboxTypeOK' /\ UNCHANGED <<sb, admission, work, cache, refused>>
BY EventsTyped DEF CreateNetwork, SandboxTypeOK, others, settings, history

LEMMA SetVMTyped ==
  ASSUME SandboxTypeOK, NEW s \in Sandboxes, NEW v, v \in OrNone(ImpVM), SetVM(s, v), events' \in 0..MaxEvents
  PROVE  SandboxTypeOK' /\ UNCHANGED <<sb, admission, work, cache, refused>>
<1>1. vm' \in [Sandboxes -> OrNone(ImpVM)] /\ queue' = Watched(queue)
  BY SetTheVM, Zenon DEF SetVM
<1>2. UNCHANGED <<sb, net, sec, foreign, others, uids>>
  BY Zenon DEF SetVM, others, history
<1>3. SandboxTypeOK'
  BY <1>1, <1>2, ObjectsTyped, Zenon DEF SandboxTypeOK
<1> QED
  BY <1>2, <1>3, Zenon DEF others, settings, history

LEMMA VMStepsTyped ==
  ASSUME SandboxTypeOK, NEW s \in Sandboxes,
         ScheduleVM(s) \/ StartVM(s) \/ FailVM(s) \/ ExpireVM(s) \/ RemoveVM(s)
  PROVE  SandboxTypeOK' /\ UNCHANGED <<sb, admission, work, cache, refused>>
<1>1. events' \in 0..MaxEvents
  BY EventsTyped, Zenon DEF ScheduleVM, StartVM, FailVM, ExpireVM, RemoveVM, SandboxTypeOK
<1>2. vm[s] \in ImpVM
  BY Fields, Zenon DEF ScheduleVM, StartVM, FailVM, ExpireVM, RemoveVM
<1>3. /\ [vm[s] EXCEPT !.node = TRUE, !.phase = "Scheduled"] \in ImpVM
      /\ [vm[s] EXCEPT !.phase = "Running", !.ran = TRUE] \in ImpVM
      /\ [vm[s] EXCEPT !.phase = "Failed"] \in ImpVM /\ [vm[s] EXCEPT !.deleting = TRUE] \in ImpVM
  BY <1>2, Zenon DEF ImpVM
<1>4. CASE ScheduleVM(s)
  BY <1>1, <1>3, <1>4, SetVMTyped, Zenon DEF ScheduleVM, OrNone
<1>5. CASE StartVM(s)
  BY <1>1, <1>3, <1>5, SetVMTyped, Zenon DEF StartVM, OrNone
<1>6. CASE FailVM(s)
  BY <1>1, <1>3, <1>6, SetVMTyped, Zenon DEF FailVM, OrNone
<1>7. CASE ExpireVM(s)
  BY <1>1, <1>3, <1>7, SetVMTyped, Zenon DEF ExpireVM, OrNone
<1>8. CASE RemoveVM(s)
  BY <1>1, <1>8, SetVMTyped, Zenon DEF RemoveVM, OrNone
<1> QED
  BY <1>4, <1>5, <1>6, <1>7, <1>8, Zenon

LEMMA CollectTyped ==
  ASSUME SandboxTypeOK, NEW s \in Sandboxes, Collect(s)
  PROVE  SandboxTypeOK' /\ UNCHANGED <<sb, admission, work, cache, refused>>
<1>1. UNCHANGED <<sb, foreign, others, uids, events>> /\ queue' = Watched(queue)
  BY Zenon DEF Collect
<1>2. vm' \in [Sandboxes -> OrNone(ImpVM)]
  <2>1. CASE UNCHANGED vm
    BY <2>1, Zenon DEF SandboxTypeOK
  <2>2. CASE vm[s] # None /\ vm' = [vm EXCEPT ![s].deleting = TRUE]
    <3>1. [vm[s] EXCEPT !.deleting = TRUE] \in ImpVM
      BY <2>2, Fields, Zenon DEF ImpVM
    <3>2. vm' = [vm EXCEPT ![s] = [vm[s] EXCEPT !.deleting = TRUE]]
      BY <2>2, Zenon
    <3> QED
      BY <3>1, <3>2, SetTheVM, Zenon DEF OrNone
  <2> QED
    BY <2>1, <2>2, Zenon DEF Collect
<1>3. net' \in [Sandboxes -> OrNone(ImpNetwork)] /\ sec' \in [Sandboxes -> OrNone(UIDs)]
  BY Zenon DEF Collect, SandboxTypeOK, OrNone
<1>4. SandboxTypeOK'
  BY <1>1, <1>2, <1>3, ObjectsTyped, Zenon DEF SandboxTypeOK
<1> QED
  BY <1>1, <1>4, Zenon DEF others, settings, history


-----------------------------------------------------------------------------
(* What a step of each group does, for the proofs below.                   *)

ControllerEffect ==
  /\ SandboxTypeOK' /\ SpecsKept /\ UNCHANGED <<admission, cache>>
  /\ \/ work' = Idle
     \/ work' # Idle /\ work'.o = work.o /\ work # Idle
     \/ \E s \in Sandboxes : work'.o \in {sb'[s], Seen.sb[s]}
  /\ refused' = refused \/ (work # Idle /\ ~VMAdmitted(work.s, work.o) /\ vm[work.s] = None)

LEMMA ControllerTyped == SandboxTypeOK /\ Controller => ControllerEffect
<1> SUFFICES ASSUME SandboxTypeOK, Controller PROVE ControllerEffect
  BY Zenon
<1>1. CASE \E s \in Sandboxes : Reconcile(s)
  <2>1. PICK s \in Sandboxes : Reconcile(s)
    BY <1>1, Zenon
  <2>2. UNCHANGED <<admission, cache, refused>>
    BY <2>1, Zenon DEF Reconcile, settings, history
  <2> QED
    BY <2>1, <2>2, ReconcileTyped, Zenon DEF ControllerEffect
<1>2. CASE \E s \in Sandboxes : Fire(s)
  <2>1. /\ SandboxTypeOK' /\ UNCHANGED <<sb, admission, refused>>
        /\ work' \in {work, Idle}
    BY <1>2, ProcessTyped, Zenon
  <2>2. UNCHANGED cache
    BY <1>2, Zenon DEF Fire
  <2>3. work' = Idle \/ (work' # Idle /\ work'.o = work.o /\ work # Idle)
    BY <2>1, Zenon
  <2> QED
    BY <2>1, <2>2, <2>3, Zenon DEF ControllerEffect, SpecsKept
<1>3. CASE ResolveTenancy \/ EnsureNetwork \/ EnsureVM \/ ReportStatus \/ EnsureSessionSecret
  <2>0. work # Idle
    <3>1. ResolveTenancy => work.pc = "tenancy"
      BY Zenon DEF ResolveTenancy
    <3>2. EnsureNetwork => work.pc = "network"
      BY Zenon DEF EnsureNetwork
    <3>3. EnsureVM => work.pc = "vm"
      BY Zenon DEF EnsureVM
    <3>4. ReportStatus => work.pc = "status"
      BY Zenon DEF ReportStatus
    <3>5. EnsureSessionSecret => work.pc = "secret"
      BY Zenon DEF EnsureSessionSecret
    <3> QED
      BY <1>3, <3>1, <3>2, <3>3, <3>4, <3>5 DEF Idle
  <2>1. UNCHANGED <<admission, cache>>
    BY <1>3, Zenon DEF ResolveTenancy, EnsureNetwork, EnsureVM, ReportStatus, EnsureSessionSecret, settings
  <2>2. /\ SandboxTypeOK' /\ SpecsKept /\ CopyKept
        /\ refused' = refused \/ (vm[work.s] = None /\ ~VMAdmitted(work.s, work.o))
    BY <1>3, ResolveTyped, NetworkTyped, VMTyped, ReportTyped, SecretTyped, Zenon
  <2> QED
    BY <2>0, <2>1, <2>2, Zenon DEF ControllerEffect, CopyKept
<1> QED
  BY <1>1, <1>2, <1>3, Zenon DEF Controller

SurroundingsEffect ==
  /\ SandboxTypeOK' /\ UNCHANGED admission /\ refused' \subseteq refused
  /\ work' \in {work, Idle} /\ cache' \in {cache, Live, Now}
  /\ \A t \in Sandboxes :
       \/ sb'[t] = None
       \/ sb[t] # None /\ sb'[t].spec = sb[t].spec
       \/ admission => Validate(sb'[t].spec)

LEMMA SurroundingsTyped == SandboxTypeOK /\ Surroundings => SurroundingsEffect
<1> SUFFICES ASSUME SandboxTypeOK, Surroundings PROVE SurroundingsEffect
  BY Zenon
<1>1. CASE CallFails \/ DetectCNI \/ Restart \/ Freeze \/ CatchUp \/ SetFloor
  BY <1>1, ProcessTyped, Zenon DEF SurroundingsEffect
<1>2. ASSUME NEW s \in Sandboxes, NEW spec \in Specs, CreateSandbox(s, spec)
      PROVE  SurroundingsEffect
  BY <1>2, CreateTyped, Zenon DEF SurroundingsEffect
<1>3. ASSUME NEW s \in Sandboxes, NEW t \in TenancyMode, UpdateTenancy(s, t)
      PROVE  SurroundingsEffect
  BY <1>3, TenancyTyped, Zenon DEF SurroundingsEffect
<1>4. ASSUME NEW s \in Sandboxes, DeleteSandbox(s)
      PROVE  SurroundingsEffect
  BY <1>4, DeleteSandboxTyped, Zenon DEF SurroundingsEffect, SpecsKept
<1>5. ASSUME NEW s \in Sandboxes,
             ScheduleVM(s) \/ StartVM(s) \/ FailVM(s) \/ ExpireVM(s) \/ RemoveVM(s) \/ Collect(s)
      PROVE  SurroundingsEffect
  BY <1>5, VMStepsTyped, CollectTyped, Zenon DEF SurroundingsEffect
<1>6. ASSUME NEW p \in Foreign, CreateNetwork(p)
      PROVE  SurroundingsEffect
  BY <1>6, CreateNetworkTyped, Zenon DEF SurroundingsEffect
<1> QED
  BY <1>1, <1>2, <1>3, <1>4, <1>5, <1>6, Zenon DEF Surroundings

-----------------------------------------------------------------------------
(* Type correctness with the gateway.                                      *)

AllCalls == {NoCall} \cup [pc : Stages, s : Sandboxes, uid : UIDs, method : Methods]

LEMMA CallFields ==
  ASSUME TypeOK, NEW c \in Calls, call[c].pc # "idle"
  PROVE  /\ call[c] \in [pc : Stages, s : Sandboxes, uid : UIDs, method : Methods]
         /\ call[c].pc \in Stages /\ call[c].s \in Sandboxes /\ call[c].uid \in UIDs
BY DEF TypeOK, NoCall

LEMMA StepTyped ==
  ASSUME TypeOK, NEW c \in Calls, call[c].pc # "idle", NEW p \in Stages, Step(c, p)
  PROVE  /\ call' \in [Calls -> AllCalls]
         /\ \A d \in Calls : d # c => call'[d] = call[d]
         /\ call'[c].pc = p /\ call'[c].s = call[c].s /\ call'[c].uid = call[c].uid
<1> DEFINE n == [call[c] EXCEPT !.pc = p]
<1>1. call[c] \in [pc : Stages, s : Sandboxes, uid : UIDs, method : Methods]
  BY CallFields, Zenon
<1>2. /\ n \in [pc : Stages, s : Sandboxes, uid : UIDs, method : Methods]
      /\ n.pc = p /\ n.s = call[c].s /\ n.uid = call[c].uid
  BY <1>1, Zenon
<1>3. call' = [call EXCEPT ![c] = n]
  BY Zenon DEF Step
<1> HIDE DEF n
<1>4. call' \in [Calls -> AllCalls] /\ \A d \in Calls : call'[d] = IF d = c THEN n ELSE call[d]
  BY <1>2, <1>3, Zenon DEF TypeOK, AllCalls
<1> QED
  BY <1>2, <1>4, Zenon

LEMMA GuestFields ==
  ASSUME TypeOK, NEW s \in Sandboxes, guest[s] # None
  PROVE  /\ guest[s] \in SandboxServer /\ guest[s].token \in UIDs /\ guest[s].sessions \subseteq Calls
BY Zenon DEF TypeOK, OrNone, SandboxServer

LEMMA SetGuestTyped ==
  ASSUME TypeOK, NEW c \in Calls, call[c].pc # "idle", NEW g \in SandboxServer, SetGuest(c, g)
  PROVE  /\ guest' \in [Sandboxes -> OrNone(SandboxServer)]
         /\ \A t \in Sandboxes : guest'[t] = IF t = call[c].s THEN g ELSE guest[t]
<1>1. call[c].s \in Sandboxes
  BY CallFields, Zenon
<1> QED
  BY <1>1, Zenon DEF TypeOK, SetGuest, OrNone


(* What is true of a session a guest holds, and of a call a guest served.  *)
Held(s, g, c) ==
  call[c].s = s /\ call[c].uid = g.token /\ call[c].pc \notin {"idle", "open"}
GuestInv == \A s \in Sandboxes : guest[s] # None => \A c \in guest[s].sessions : Held(s, guest[s], c)
ServedInv == \A w \in served : call[w[1]].pc # "idle" /\ call[w[1]].uid = w[2]
GatewayInv == TypeOK /\ GuestInv /\ ServedInv

sandboxes == <<objects, settings, worker, uids, history>>

LEMMA QuietTyped ==
  ASSUME SandboxTypeOK, UNCHANGED sandboxes, events' \in 0..MaxEvents
  PROVE  SandboxTypeOK'
BY Zenon DEF SandboxTypeOK, sandboxes, objects, settings, worker, history

LEMMA InitGateway == Init => GatewayInv
<1> SUFFICES ASSUME Init PROVE GatewayInv
  BY Zenon
<1>1. SandboxTypeOK
  BY CountAssumption DEF Init, SandboxInit, SandboxTypeOK, OrNone, TenancyMode
<1>2. TypeOK
  BY <1>1, Zenon DEF Init, TypeOK, OrNone
<1> QED
  BY <1>2, Zenon DEF Init, GatewayInv, GuestInv, ServedInv

(* A step that moves one call, whose sessions are those of its guest.      *)
LEMMA MovedCall ==
  ASSUME GatewayInv, NEW c \in Calls, call[c].pc # "idle", NEW p \in Stages, Step(c, p),
         p # "open",
         UNCHANGED <<sandboxes, guest, tokens>>, events' \in 0..MaxEvents,
         \A w \in served' : w \in served \/ (w[1] = c /\ w[2] = call[c].uid),
         served' \subseteq Calls \X UIDs
  PROVE  GatewayInv'
<1>0. TypeOK /\ GuestInv /\ ServedInv
  BY Zenon DEF GatewayInv
<1>1. /\ call' \in [Calls -> AllCalls]
      /\ \A d \in Calls : d # c => call'[d] = call[d]
      /\ call'[c].pc = p /\ call'[c].s = call[c].s /\ call'[c].uid = call[c].uid
  BY <1>0, StepTyped, Zenon
<1>2. SandboxTypeOK'
  BY <1>0, QuietTyped, Zenon DEF TypeOK
<1>3. TypeOK'
  BY <1>0, <1>1, <1>2, Zenon DEF TypeOK, AllCalls
<1>4. ASSUME NEW s \in Sandboxes, guest[s] # None, NEW d \in guest[s].sessions
      PROVE  /\ call'[d].s = s /\ call'[d].uid = guest[s].token
             /\ call'[d].pc \notin {"idle", "open"}
  <2>1. d \in Calls /\ Held(s, guest[s], d)
    BY <1>0, <1>4, GuestFields, Zenon DEF GuestInv
  <2>2. CASE d # c
    BY <1>1, <2>1, <2>2, Zenon DEF Held
  <2>3. CASE d = c
    BY <1>1, <1>4, <2>1, <2>3, Zenon DEF Held, Stages
  <2> QED
    BY <2>2, <2>3, Zenon
<1>5. GuestInv'
  BY <1>4, Zenon DEF GuestInv, Held
<1>6. p # "idle"
  BY Zenon DEF Stages
<1>7. ASSUME NEW w \in served'
      PROVE  call'[w[1]].pc # "idle" /\ call'[w[1]].uid = w[2]
  <2>1. w[1] \in Calls
    BY <1>7, Zenon
  <2>2. CASE w \in served
    <3>1. call[w[1]].pc # "idle" /\ call[w[1]].uid = w[2]
      BY <1>0, <2>2, Zenon DEF ServedInv
    <3> QED
      BY <1>1, <1>6, <2>1, <3>1, Zenon
  <2>3. CASE w[1] = c /\ w[2] = call[c].uid
    BY <1>1, <1>6, <2>3, Zenon
  <2> QED
    BY <2>2, <2>3, Zenon
<1>8. ServedInv'
  BY <1>7, Zenon DEF ServedInv
<1> QED
  BY <1>3, <1>5, <1>8, Zenon DEF GatewayInv

(* The same for a guest that changes its sessions along with the call.     *)
LEMMA MovedGuest ==
  ASSUME GatewayInv, NEW c \in Calls, call[c].pc # "idle", NEW p \in Stages, Step(c, p), Answers(c),
         NEW S, S \subseteq Calls, S \ {c} \subseteq Guest(c).sessions,
         SetGuest(c, [Guest(c) EXCEPT !.sessions = S]),
         c \in S => p = "opened" /\ call[c].uid = Guest(c).token,
         UNCHANGED <<sandboxes, tokens, events, served>>
  PROVE  GatewayInv'
<1> DEFINE r == call[c].s
           g == [guest[r] EXCEPT !.sessions = S]
<1>0. TypeOK /\ GuestInv /\ ServedInv /\ r \in Sandboxes /\ guest[r] # None
  BY CallFields, Zenon DEF GatewayInv, Answers, Guest
<1>1. /\ call' \in [Calls -> AllCalls]
      /\ \A d \in Calls : d # c => call'[d] = call[d]
      /\ call'[c].pc = p /\ call'[c].s = call[c].s /\ call'[c].uid = call[c].uid
  BY <1>0, StepTyped, Zenon
<1>2. g \in SandboxServer /\ g.sessions = S /\ g.token = guest[r].token
  BY <1>0, GuestFields, Zenon DEF SandboxServer
<1>3. SetGuest(c, g)
  BY Zenon DEF Guest
<1> HIDE DEF g
<1>4. /\ guest' \in [Sandboxes -> OrNone(SandboxServer)]
      /\ \A t \in Sandboxes : guest'[t] = IF t = r THEN g ELSE guest[t]
  BY <1>0, <1>2, <1>3, SetGuestTyped, Zenon
<1>5. SandboxTypeOK'
  BY <1>0, QuietTyped, Zenon DEF TypeOK, SandboxTypeOK
<1>6. TypeOK'
  BY <1>0, <1>1, <1>4, <1>5, Zenon DEF TypeOK, AllCalls
<1>7. ASSUME NEW s \in Sandboxes, guest'[s] # None, NEW d \in guest'[s].sessions
      PROVE  /\ call'[d].s = s /\ call'[d].uid = guest'[s].token
             /\ call'[d].pc \notin {"idle", "open"}
  <2>1. CASE d = c /\ s = r
    BY <1>0, <1>1, <1>2, <1>4, <2>1, <1>7, Zenon DEF Guest
  <2>2. CASE s = r /\ d # c
    <3>1. d \in guest[r].sessions /\ d \in Calls
      BY <1>0, <1>2, <1>4, <1>7, <2>2, Zenon DEF Guest
    <3>2. Held(r, guest[r], d)
      BY <1>0, <3>1, Zenon DEF GuestInv
    <3> QED
      BY <1>0, <1>1, <1>2, <1>4, <2>2, <3>1, <3>2, Zenon DEF Held
  <2>3. CASE s # r
    <3>1. guest'[s] = guest[s] /\ guest[s] # None
      BY <1>0, <1>4, <1>7, <2>3, Zenon
    <3>2. d \in Calls /\ Held(s, guest[s], d)
      BY <1>0, <1>7, <3>1, GuestFields, Zenon DEF GuestInv
    <3>3. d # c
      BY <2>3, <3>2, Zenon DEF Held
    <3> QED
      BY <1>1, <3>1, <3>2, <3>3, Zenon DEF Held
  <2> QED
    BY <2>1, <2>2, <2>3, Zenon
<1>8. GuestInv'
  BY <1>7, Zenon DEF GuestInv, Held
<1>9. ASSUME NEW w \in served'
      PROVE  call'[w[1]].pc # "idle" /\ call'[w[1]].uid = w[2]
  <2>1. w[1] \in Calls /\ call[w[1]].pc # "idle" /\ call[w[1]].uid = w[2]
    BY <1>0, <1>9, Zenon DEF ServedInv, TypeOK
  <2>2. p # "idle"
    BY Zenon DEF Stages
  <2> QED
    BY <1>1, <2>1, <2>2, Zenon
<1>10. ServedInv'
  BY <1>9, Zenon DEF ServedInv
<1> QED
  BY <1>6, <1>8, <1>10, Zenon DEF GatewayInv


LEMMA AuthorizeStep ==
  ASSUME GatewayInv, NEW c \in Calls, NEW r \in Sandboxes, NEW u \in UIDs, NEW m \in Methods,
         Authorize(c, r, u, m)
  PROVE  GatewayInv' /\ UNCHANGED sandboxes
<1> DEFINE n == [pc |-> IF guest[r] = None THEN "done" ELSE "open", s |-> r, uid |-> u, method |-> m]
<1>0. TypeOK /\ GuestInv /\ ServedInv /\ call[c].pc = "idle"
  BY Zenon DEF GatewayInv, Authorize
<1>1. UNCHANGED <<sandboxes, guest, tokens, served>>
  BY Zenon DEF Authorize, sandboxes
<1>2. n \in [pc : Stages, s : Sandboxes, uid : UIDs, method : Methods]
  BY Zenon DEF Stages
<1>3. call' = [call EXCEPT ![c] = n]
  BY Zenon DEF Authorize
<1> HIDE DEF n
<1>4. call' \in [Calls -> AllCalls] /\ \A d \in Calls : d # c => call'[d] = call[d]
  BY <1>0, <1>2, <1>3, Zenon DEF TypeOK, AllCalls
<1>5. SandboxTypeOK'
  BY <1>0, <1>1, QuietTyped, EventsTyped, Zenon DEF TypeOK, Authorize
<1>6. TypeOK'
  BY <1>0, <1>1, <1>4, <1>5, Zenon DEF TypeOK, AllCalls
<1>7. GuestInv'
  <2> SUFFICES ASSUME NEW s \in Sandboxes, guest[s] # None, NEW d \in guest[s].sessions
               PROVE  /\ call'[d].s = s /\ call'[d].uid = guest[s].token
                      /\ call'[d].pc \notin {"idle", "open"}
    BY <1>1 DEF GuestInv, Held
  <2>1. d \in Calls /\ Held(s, guest[s], d)
    BY <1>0, GuestFields, Zenon DEF GuestInv
  <2>2. d # c
    BY <1>0, <2>1, Zenon DEF Held
  <2> QED
    BY <1>4, <2>1, <2>2, Zenon DEF Held
<1>8. ServedInv'
  <2> SUFFICES ASSUME NEW w \in served PROVE call'[w[1]].pc # "idle" /\ call'[w[1]].uid = w[2]
    BY <1>1, Zenon DEF ServedInv
  <2>1. w[1] \in Calls /\ call[w[1]].pc # "idle" /\ call[w[1]].uid = w[2]
    BY <1>0, Zenon DEF ServedInv, TypeOK
  <2> QED
    BY <1>0, <1>4, <2>1, Zenon
<1> QED
  BY <1>1, <1>6, <1>7, <1>8, Zenon DEF GatewayInv

LEMMA QuietStep == UNCHANGED quiet => UNCHANGED <<sandboxes, tokens, events>>
BY Zenon DEF quiet, sandboxes

LEMMA OpenStep ==
  ASSUME GatewayInv, NEW c \in Calls, OpenSession(c)
  PROVE  GatewayInv' /\ UNCHANGED sandboxes
<1>0. /\ TypeOK /\ GuestInv /\ call[c].pc = "open" /\ call[c].pc # "idle" /\ Answers(c)
      /\ UNCHANGED <<sandboxes, tokens, events, served>>
  BY QuietStep, Zenon DEF GatewayInv, OpenSession
<1>1. "opened" \in Stages /\ "done" \in Stages
  BY Zenon DEF Stages
<1>2. CASE Guest(c).token = call[c].uid
  <2>1. /\ SetGuest(c, [Guest(c) EXCEPT !.sessions = Guest(c).sessions \cup {c}]) /\ Step(c, "opened")
    BY <1>2, Zenon DEF OpenSession
  <2>2. Guest(c).sessions \cup {c} \subseteq Calls
    BY <1>0, CallFields, GuestFields, Zenon DEF Guest, Answers
  <2> QED
    BY <1>0, <1>1, <1>2, <2>1, <2>2, MovedGuest, Zenon
<1>3. CASE Guest(c).token # call[c].uid
  <2>1. UNCHANGED guest /\ Step(c, "done")
    BY <1>3, Zenon DEF OpenSession
  <2>2. served' \subseteq Calls \X UIDs /\ events' \in 0..MaxEvents
    BY <1>0, Zenon DEF TypeOK, SandboxTypeOK
  <2> QED
    BY <1>0, <1>1, <2>1, <2>2, MovedCall, Zenon
<1> QED
  BY <1>2, <1>3, Zenon

LEMMA OpenedStep ==
  ASSUME GatewayInv, NEW c \in Calls, SessionOpened(c)
  PROVE  GatewayInv' /\ UNCHANGED sandboxes
<1>0. /\ call[c].pc # "idle" /\ Step(c, "work")
      /\ UNCHANGED <<sandboxes, tokens, events, guest, served>>
  BY QuietStep, Zenon DEF SessionOpened
<1>1. served' \subseteq Calls \X UIDs /\ events' \in 0..MaxEvents
  BY <1>0, Zenon DEF GatewayInv, TypeOK, SandboxTypeOK
<1>2. "work" \in Stages
  BY Zenon DEF Stages
<1> QED
  BY <1>0, <1>1, <1>2, MovedCall, Zenon

LEMMA HandleStep ==
  ASSUME GatewayInv, NEW c \in Calls, GuestHandles(c)
  PROVE  GatewayInv' /\ UNCHANGED sandboxes
<1>0. /\ TypeOK /\ GuestInv /\ call[c].pc # "idle" /\ Step(c, "close") /\ Answers(c)
      /\ UNCHANGED <<sandboxes, tokens, events, guest>>
      /\ served' = IF VerifySession(c) THEN served \cup {<<c, Guest(c).token>>} ELSE served
  BY QuietStep, Zenon DEF GatewayInv, GuestHandles
<1>1. events' \in 0..MaxEvents /\ served \subseteq Calls \X UIDs
  BY <1>0, Zenon DEF TypeOK, SandboxTypeOK
<1>2. "close" \in Stages
  BY Zenon DEF Stages
<1>3. Guest(c).token \in UIDs /\ (VerifySession(c) => Guest(c).token = call[c].uid)
  <2>1. call[c].s \in Sandboxes /\ guest[call[c].s] # None
    BY <1>0, CallFields, Zenon DEF Answers, Guest
  <2>2. VerifySession(c) => Held(call[c].s, guest[call[c].s], c)
    BY <1>0, <2>1, Zenon DEF VerifySession, Guest, GuestInv
  <2> QED
    BY <1>0, <2>1, <2>2, GuestFields, Zenon DEF Held, Guest
<1>4. served' \subseteq Calls \X UIDs
  BY <1>0, <1>1, <1>3
<1>5. \A w \in served' : w \in served \/ (w[1] = c /\ w[2] = call[c].uid)
  BY <1>0, <1>3
<1> QED
  BY <1>0, <1>1, <1>2, <1>4, <1>5, MovedCall, Zenon

LEMMA CloseStep ==
  ASSUME GatewayInv, NEW c \in Calls, CloseSession(c)
  PROVE  GatewayInv' /\ UNCHANGED sandboxes
<1>0. /\ TypeOK /\ call[c].pc # "idle" /\ Answers(c) /\ Step(c, "done")
      /\ SetGuest(c, [Guest(c) EXCEPT !.sessions = Guest(c).sessions \ {c}])
      /\ UNCHANGED <<sandboxes, tokens, events, served>>
  BY QuietStep, Zenon DEF GatewayInv, CloseSession
<1>1. "done" \in Stages
  BY Zenon DEF Stages
<1>2. Guest(c).sessions \ {c} \subseteq Calls
  BY <1>0, CallFields, GuestFields, Zenon DEF Guest, Answers
<1> QED
  BY <1>0, <1>1, <1>2, MovedGuest, Zenon

LEMMA EndStep ==
  ASSUME GatewayInv, NEW c \in Calls, GuestLost(c) \/ Deadline(c) \/ CloseLost(c)
  PROVE  GatewayInv' /\ UNCHANGED sandboxes
<1>0. /\ TypeOK /\ GuestInv /\ call[c].pc # "idle" /\ Step(c, "done")
      /\ UNCHANGED <<sandboxes, tokens, guest, served>>
  BY QuietStep, Zenon DEF GatewayInv, GuestLost, Deadline, CloseLost, Stages, sandboxes
<1>1. events' \in 0..MaxEvents
  BY <1>0, QuietStep, EventsTyped, Zenon DEF TypeOK, SandboxTypeOK, GuestLost, Deadline, CloseLost
<1>2. "done" \in Stages
  BY Zenon DEF Stages
<1>3. served' \subseteq Calls \X UIDs
  BY <1>0, Zenon DEF TypeOK
<1> QED
  BY <1>0, <1>1, <1>2, <1>3, MovedCall, Zenon

LEMMA WedgeStep ==
  ASSUME GatewayInv, NEW r \in Sandboxes, WedgeGuest(r)
  PROVE  GatewayInv' /\ UNCHANGED sandboxes
<1> DEFINE g == [guest[r] EXCEPT !.wedged = TRUE]
<1>0. /\ TypeOK /\ GuestInv /\ ServedInv /\ guest[r] # None /\ Happens("wedge")
      /\ UNCHANGED <<sandboxes, call, tokens, served>>
  BY Zenon DEF GatewayInv, WedgeGuest, sandboxes
<1>1. g \in SandboxServer /\ g.sessions = guest[r].sessions /\ g.token = guest[r].token
  BY <1>0, GuestFields, Zenon DEF SandboxServer
<1>2. guest' = [guest EXCEPT ![r] = g]
  BY Zenon DEF WedgeGuest
<1> HIDE DEF g
<1>3. /\ guest' \in [Sandboxes -> OrNone(SandboxServer)]
      /\ \A t \in Sandboxes : guest'[t] = IF t = r THEN g ELSE guest[t]
  BY <1>0, <1>1, <1>2, Zenon DEF TypeOK, OrNone
<1>4. SandboxTypeOK'
  BY <1>0, QuietTyped, EventsTyped, Zenon DEF TypeOK
<1>5. TypeOK'
  BY <1>0, <1>3, <1>4, Zenon DEF TypeOK
<1>6. GuestInv' /\ ServedInv'
  BY <1>0, <1>1, <1>3 DEF GuestInv, ServedInv, Held
<1> QED
  BY <1>0, <1>5, <1>6, Zenon DEF GatewayInv

LEMMA GatewayRestartStep ==
  ASSUME GatewayInv, GatewayRestart
  PROVE  GatewayInv' /\ UNCHANGED sandboxes
<1>0. /\ TypeOK /\ GuestInv /\ ServedInv /\ Happens("gateway")
      /\ UNCHANGED <<sandboxes, guest, tokens, served>>
  BY Zenon DEF GatewayInv, GatewayRestart, sandboxes
<1>1. ASSUME NEW c \in Calls
      PROVE  /\ call'[c] \in AllCalls
             /\ call[c].pc # "idle" => call'[c].pc = "done" /\ call'[c].s = call[c].s /\ call'[c].uid = call[c].uid
  <2>1. call'[c] = IF call[c].pc = "idle" THEN NoCall ELSE [call[c] EXCEPT !.pc = "done"]
    BY Zenon DEF GatewayRestart
  <2>2. CASE call[c].pc = "idle"
    BY <2>1, <2>2, Zenon DEF AllCalls
  <2>3. CASE call[c].pc # "idle"
    BY <1>0, <2>1, <2>3, CallFields, Zenon DEF AllCalls, Stages
  <2> QED
    BY <2>2, <2>3, Zenon
<1>2. call' = [c \in Calls |-> call'[c]]
  BY Zenon DEF GatewayRestart
<1>3. call' \in [Calls -> AllCalls]
  BY <1>1, <1>2, Zenon
<1>4. SandboxTypeOK'
  BY <1>0, QuietTyped, EventsTyped, Zenon DEF TypeOK
<1>5. TypeOK'
  BY <1>0, <1>3, <1>4, Zenon DEF TypeOK, AllCalls
<1>6. GuestInv'
  <2> SUFFICES ASSUME NEW s \in Sandboxes, guest[s] # None, NEW d \in guest[s].sessions
               PROVE  /\ call'[d].s = s /\ call'[d].uid = guest[s].token
                      /\ call'[d].pc \notin {"idle", "open"}
    BY <1>0 DEF GuestInv, Held
  <2>1. d \in Calls /\ Held(s, guest[s], d)
    BY <1>0, GuestFields, Zenon DEF GuestInv
  <2> QED
    BY <1>0, <1>1, <2>1, Zenon DEF Held
<1>7. ServedInv'
  <2> SUFFICES ASSUME NEW w \in served PROVE call'[w[1]].pc # "idle" /\ call'[w[1]].uid = w[2]
    BY <1>0, Zenon DEF ServedInv
  <2>1. w[1] \in Calls /\ call[w[1]].pc # "idle" /\ call[w[1]].uid = w[2]
    BY <1>0, Zenon DEF ServedInv, TypeOK
  <2> QED
    BY <1>1, <2>1, Zenon
<1> QED
  BY <1>0, <1>5, <1>6, <1>7, Zenon DEF GatewayInv

LEMMA GatewayStep == ASSUME GatewayInv, Gateway PROVE GatewayInv' /\ UNCHANGED sandboxes
BY AuthorizeStep, OpenStep, OpenedStep, HandleStep, CloseStep, EndStep, WedgeStep, GatewayRestartStep, Zenon
   DEF Gateway

LEMMA ControlStep == ASSUME GatewayInv, Control PROVE GatewayInv'
<1>0. TypeOK /\ GuestInv /\ ServedInv /\ SandboxTypeOK /\ SandboxNext /\ Follow
  BY Zenon DEF GatewayInv, TypeOK, Control
<1>1. SandboxTypeOK'
  BY <1>0, ControllerTyped, SurroundingsTyped, Zenon DEF SandboxNext, ControllerEffect, SurroundingsEffect
<1>2. UNCHANGED <<call, served>>
  BY <1>0, Zenon DEF Follow
<1>3. ASSUME NEW s \in Sandboxes
      PROVE  /\ guest'[s] \in OrNone(SandboxServer) /\ tokens'[s] \in SUBSET UIDs
             /\ guest'[s] = None \/ guest'[s] = guest[s] \/ guest'[s].sessions = {}
  <2>1. guest'[s] = IF ~Up(vm'[s]) THEN None
                    ELSE IF Up(vm[s]) THEN guest[s] ELSE NewSandboxServer(vm'[s].owner)
    BY <1>0, Zenon DEF Follow
  <2>2. Up(vm'[s]) => vm'[s].owner \in UIDs
    BY <1>1, Zenon DEF Up, SandboxTypeOK, OrNone, ImpVM
  <2>3. \A u \in UIDs : NewSandboxServer(u) \in SandboxServer /\ NewSandboxServer(u).sessions = {}
    BY Zenon DEF NewSandboxServer, SandboxServer
  <2>4. tokens'[s] = IF sec'[s] = None THEN tokens[s] ELSE tokens[s] \cup {sec'[s]}
    BY <1>0, Zenon DEF Follow
  <2>5. sec'[s] \in OrNone(UIDs)
    BY <1>1, Zenon DEF SandboxTypeOK
  <2>6. tokens[s] \in SUBSET UIDs /\ guest[s] \in OrNone(SandboxServer)
    BY <1>0, Zenon DEF TypeOK
  <2>7. tokens'[s] \in SUBSET UIDs
    BY <2>4, <2>5, <2>6, Zenon DEF OrNone
  <2> QED
    BY <2>1, <2>2, <2>3, <2>6, <2>7, Zenon DEF OrNone
<1>4. guest' = [s \in Sandboxes |-> guest'[s]] /\ tokens' = [s \in Sandboxes |-> tokens'[s]]
  BY <1>0, Zenon DEF Follow
<1>5. guest' \in [Sandboxes -> OrNone(SandboxServer)] /\ tokens' \in [Sandboxes -> SUBSET UIDs]
  BY <1>3, <1>4, Zenon
<1>6. TypeOK'
  BY <1>0, <1>1, <1>2, <1>5, Zenon DEF TypeOK
<1>7. GuestInv'
  BY <1>0, <1>2, <1>3 DEF GuestInv, Held
<1>8. ServedInv'
  BY <1>0, <1>2, ZenonT(60) DEF ServedInv
<1> QED
  BY <1>6, <1>7, <1>8, Zenon DEF GatewayInv

LEMMA StutterGateway == ASSUME GatewayInv, UNCHANGED vars PROVE GatewayInv'
<1>1. UNCHANGED <<sandboxes, events, guest, call, tokens, served>>
  BY Zenon DEF vars, sbVars, gwVars, sandboxes
<1>2. SandboxTypeOK'
  BY <1>1, QuietTyped, Zenon DEF GatewayInv, TypeOK, SandboxTypeOK
<1> QED
  BY <1>1, <1>2 DEF GatewayInv, TypeOK, GuestInv, ServedInv, Held

(* The inductive invariant of the gateway holds: the types, and what is    *)
(* true of a session a guest holds and of a call a guest served.           *)
THEOREM GatewayTyping == Spec => []GatewayInv
<1>1. GatewayInv /\ [Next]_vars => GatewayInv'
  BY GatewayStep, ControlStep, StutterGateway, Zenon DEF Next
<1> QED
  BY InitGateway, <1>1, PTL DEF Spec

(* A guest works only for calls that showed its own token, also when it    *)
(* took the place of the guest a call was dialled to.                      *)
THEOREM OwnGuestServes == Spec => []RightGuest
<1>1. GatewayInv => RightGuest
  BY Zenon DEF GatewayInv, ServedInv, RightGuest
<1> QED
  BY <1>1, GatewayTyping, PTL


-----------------------------------------------------------------------------
(* Admission.  A spec the sandbox webhook accepts is one the VM webhook    *)
(* accepts, and every copy of a sandbox, the informer's and the worker's   *)
(* included, was accepted once.                                            *)

Sound(o) == o = None \/ (ValidSource(o.spec) /\ ValidExpiry(o.spec))
Copied == \A s \in Sandboxes : Sound(sb[s]) /\ (cache # Live => Sound(cache.sb[s]))
AdmitInv == admission => Copied /\ (work # Idle => Sound(work.o)) /\ refused = {}

LEMMA SoundSpec ==
  ASSUME NEW o, NEW n, Sound(o), n = None \/ (o # None /\ n.spec = o.spec)
  PROVE  Sound(n)
BY Zenon DEF Sound

LEMMA SeenSound == ASSUME Copied, NEW s \in Sandboxes PROVE Sound(Seen.sb[s])
BY Zenon DEF Copied, Seen, Now

LEMMA AdmitController ==
  ASSUME SandboxTypeOK, AdmitInv, Controller, admission
  PROVE  Copied' /\ (work' # Idle => Sound(work'.o)) /\ refused' = {}
<1>0. ControllerEffect /\ Copied /\ (work # Idle => Sound(work.o)) /\ refused = {}
  BY ControllerTyped, Zenon DEF AdmitInv
<1>1. UNCHANGED cache /\ SpecsKept
  BY <1>0, Zenon DEF ControllerEffect
<1>2. \A s \in Sandboxes : Sound(sb'[s])
  BY <1>0, <1>1, SoundSpec, Zenon DEF SpecsKept, Copied
<1>3. Copied'
  BY <1>0, <1>1, <1>2, Zenon DEF Copied, Sound
<1>4. work' # Idle => Sound(work'.o)
  <2>1. CASE work' = Idle
    BY <2>1, Zenon
  <2>2. CASE work' # Idle /\ work'.o = work.o /\ work # Idle
    BY <1>0, <2>2, Zenon
  <2>3. ASSUME NEW s \in Sandboxes, work'.o \in {sb'[s], Seen.sb[s]}
        PROVE  Sound(work'.o)
    BY <1>0, <1>2, <2>3, SeenSound, Zenon
  <2> QED
    BY <1>0, <2>1, <2>2, <2>3, Zenon DEF ControllerEffect
<1>5. refused' = {}
  <2>1. CASE refused' = refused
    BY <1>0, <2>1, Zenon
  <2>2. CASE work # Idle /\ ~VMAdmitted(work.s, work.o) /\ vm[work.s] = None
    <3>1. work.o # None
      BY <2>2, NoneAssumption, Zenon DEF SandboxTypeOK
    <3> QED
      BY <1>0, <2>2, <3>1, Zenon DEF VMAdmitted, ValidateImpVM, Sound
  <2> QED
    BY <1>0, <2>1, <2>2, Zenon DEF ControllerEffect
<1> QED
  BY <1>3, <1>4, <1>5, Zenon

LEMMA AdmitSurroundings ==
  ASSUME SandboxTypeOK, AdmitInv, Surroundings, admission
  PROVE  Copied' /\ (work' # Idle => Sound(work'.o)) /\ refused' = {}
<1>0. SurroundingsEffect /\ Copied /\ (work # Idle => Sound(work.o)) /\ refused = {}
  BY SurroundingsTyped, Zenon DEF AdmitInv
<1>1. \A s \in Sandboxes : Sound(sb'[s])
  BY <1>0, SoundSpec, Zenon DEF SurroundingsEffect, Copied, Sound, Validate
<1>2. Copied'
  <2> SUFFICES ASSUME NEW s \in Sandboxes, cache' # Live PROVE Sound(cache'.sb[s])
    BY <1>1, Zenon DEF Copied, Sound
  <2>1. CASE cache' = cache
    BY <1>0, <2>1, Zenon DEF Copied
  <2>2. CASE cache' = Now
    BY <1>0, <2>2, Zenon DEF Copied, Now
  <2> QED
    BY <1>0, <2>1, <2>2, Zenon DEF SurroundingsEffect
<1> QED
  BY <1>0, <1>2, Zenon DEF SurroundingsEffect

LEMMA AdmitStep == ASSUME GatewayInv, AdmitInv, [Next]_vars PROVE AdmitInv'
<1>0. SandboxTypeOK
  BY Zenon DEF GatewayInv, TypeOK
<1>1. CASE UNCHANGED sandboxes
  BY <1>1, Zenon DEF sandboxes, objects, settings, worker, history, AdmitInv, Copied, Sound
<1>2. CASE Controller
  <2>1. UNCHANGED admission
    BY <1>0, <1>2, ControllerTyped, Zenon DEF ControllerEffect
  <2> QED
    BY <1>0, <1>2, <2>1, AdmitController, Zenon DEF AdmitInv, Sound
<1>3. CASE Surroundings
  <2>1. UNCHANGED admission
    BY <1>0, <1>3, SurroundingsTyped, Zenon DEF SurroundingsEffect
  <2> QED
    BY <1>0, <1>3, <2>1, AdmitSurroundings, Zenon DEF AdmitInv, Sound
<1>4. UNCHANGED vars => UNCHANGED sandboxes
  BY Zenon DEF vars, sbVars, sandboxes
<1> QED
  BY <1>1, <1>2, <1>3, <1>4, GatewayStep, Zenon DEF Next, Control, SandboxNext

(* With the webhooks installed no VM of a sandbox is ever refused on its   *)
(* creation, for any specs, updates of the tenancy, stale reads and        *)
(* restarts: the copy ensureVM writes from is one the sandbox webhook let  *)
(* through.                                                                *)
THEOREM AdmissionAgrees == Spec => []AdmittedGetsVM
<1>1. Init => AdmitInv
  BY DEF Init, SandboxInit, AdmitInv, Copied, Sound
<1>2. GatewayInv /\ AdmitInv /\ [Next]_vars => AdmitInv'
  BY AdmitStep, Zenon
<1>3. AdmitInv => AdmittedGetsVM
  BY Zenon DEF AdmitInv, AdmittedGetsVM
<1> QED
  BY <1>1, <1>2, <1>3, GatewayTyping, PTL DEF Spec

-----------------------------------------------------------------------------
(* Subnets.                                                                *)

LEMMA SubnetsMasked == SandboxTypeOK => \A p \in Subnets(Now) : Masked(p)
<1> SUFFICES ASSUME SandboxTypeOK, NEW p \in Subnets(Now) PROVE Masked(p)
  BY Zenon
<1>1. CASE p \in foreign
  BY <1>1, BlockAssumption, Zenon DEF SandboxTypeOK, Masked
<1>2. ASSUME NEW s \in Sandboxes, net[s] # None, p = IndexToCIDR(net[s].slot)
      PROVE  Masked(p)
  <2>1. net[s].slot \in 0..TotalGeneratedSubnets - 1
    BY <1>2, Fields, Zenon DEF ImpNetwork
  <2> QED
    BY <1>2, <2>1, GeneratedMasked, Zenon
<1> QED
  BY <1>1, <1>2, Zenon DEF Subnets, Now

Allocated(s) ==
  \/ /\ net'[s] # None
     /\ \A p \in Subnets(Now) : ~Overlaps(p, IndexToCIDR(net'[s].slot))
  \/ work' = work
  \/ events' > events
  \/ \A i \in 0..TotalGeneratedSubnets - 1 : \E p \in Subnets(Now) : Overlaps(p, IndexToCIDR(i))

LEMMA NetworkAllocated ==
  ASSUME SandboxTypeOK, NEW s \in Sandboxes, cache = Live, work.s = s, ~work.o.spec.networkRef, net[s] = None,
         EnsureNetwork
  PROVE  Allocated(s)
<1>1. Seen = Now /\ Now.net[s] = net[s]
  BY Zenon DEF Seen, Now
<1>2. \A i \in 0..TotalGeneratedSubnets - 1 :
        i \in OccupiedIndices(Subnets(Now)) <=> \E p \in Subnets(Now) : Overlaps(p, IndexToCIDR(i))
  BY SubnetsMasked, FreeExact, Zenon
<1>3. CASE FreeIndices(Now) = {}
  BY <1>2, <1>3, Zenon DEF FreeIndices, Allocated
<1>4. CASE FreeIndices(Now) # {}
  <2> DEFINE k == Min(FreeIndices(Now))
             n == [owner |-> work.o.uid, slot |-> k]
  <2>1. k \in FreeIndices(Now)
    <3>1. FreeIndices(Now) \subseteq Nat
      BY WholeSlots DEF FreeIndices
    <3> QED
      BY <1>4, <3>1, MinIn, Zenon
  <2>2. net' = [net EXCEPT ![s] = n]
    BY <1>1, <1>4, Zenon DEF EnsureNetwork
  <2> HIDE DEF k
  <2>3. net'[s] = n /\ n.slot = k
    BY <2>2, Zenon DEF SandboxTypeOK
  <2>4. n \in ImpNetwork
    BY <2>1, AtWork, Zenon DEF EnsureNetwork, FreeIndices, ImpNetwork, ImpSandbox
  <2>5. n # None
    BY <2>4, NoneAssumption, Zenon
  <2> HIDE DEF n
  <2>6. \A p \in Subnets(Now) : ~Overlaps(p, IndexToCIDR(k))
    BY <1>2, <2>1, Zenon DEF FreeIndices
  <2> QED
    BY <2>3, <2>5, <2>6, Zenon DEF Allocated
<1> QED
  BY <1>3, <1>4, Zenon

LEMMA AllocationStep ==
  ASSUME GatewayInv, [Next]_vars, NEW s \in Sandboxes, cache = Live, work.pc = "network", work.s = s,
         ~work.o.spec.networkRef, net[s] = None
  PROVE  Allocated(s)
<1>0. SandboxTypeOK /\ work # Idle /\ events \in Nat
  BY CountAssumption DEF GatewayInv, TypeOK, SandboxTypeOK, Idle
<1>1. CASE UNCHANGED work
  BY <1>1, Zenon DEF Allocated
<1>2. CASE EnsureNetwork
  BY <1>0, <1>2, NetworkAllocated, Zenon
<1>3. CASE \E e : Happens(e)
  BY <1>0, <1>3 DEF Happens, Allocated
<1>4. Gateway => UNCHANGED work
  BY GatewayStep, Zenon DEF sandboxes, worker
<1>5. UNCHANGED vars => UNCHANGED work
  BY Zenon DEF vars, sbVars, worker
<1>6. Controller => EnsureNetwork \/ UNCHANGED work
  <2>1. ~ResolveTenancy
    BY Zenon DEF ResolveTenancy
  <2>2. ~EnsureVM
    BY Zenon DEF EnsureVM
  <2>3. ~ReportStatus
    BY Zenon DEF ReportStatus
  <2>4. ~EnsureSessionSecret
    BY Zenon DEF EnsureSessionSecret
  <2>5. \A t \in Sandboxes : ~Reconcile(t)
    BY <1>0, Zenon DEF Reconcile
  <2>6. \A t \in Sandboxes : Fire(t) => UNCHANGED work
    BY Zenon DEF Fire
  <2> QED
    BY <2>1, <2>2, <2>3, <2>4, <2>5, <2>6, Zenon DEF Controller
<1>7. Surroundings => UNCHANGED work \/ \E e : Happens(e)
  <2>1. CallFails \/ Restart => \E e : Happens(e)
    BY Zenon DEF CallFails, Restart
  <2>2. DetectCNI \/ Freeze \/ CatchUp \/ SetFloor => UNCHANGED work
    BY Zenon DEF DetectCNI, Freeze, CatchUp, SetFloor, worker
  <2>3. \A t \in Sandboxes : \A spec \in Specs : CreateSandbox(t, spec) => UNCHANGED work
    BY Zenon DEF CreateSandbox
  <2>4. \A t \in Sandboxes : \A m \in TenancyMode : UpdateTenancy(t, m) => UNCHANGED work
    BY Zenon DEF UpdateTenancy, others
  <2>5. \A t \in Sandboxes :
          DeleteSandbox(t) \/ ScheduleVM(t) \/ StartVM(t) \/ FailVM(t) \/ ExpireVM(t) \/ RemoveVM(t)
          \/ Collect(t) => UNCHANGED work
    BY Zenon DEF DeleteSandbox, others, ScheduleVM, StartVM, FailVM, ExpireVM, RemoveVM, SetVM, Collect
  <2>6. \A p \in Foreign : CreateNetwork(p) => UNCHANGED work
    BY Zenon DEF CreateNetwork, others
  <2> QED
    BY <2>1, <2>2, <2>3, <2>4, <2>5, <2>6, Zenon DEF Surroundings
<1> QED
  BY <1>1, <1>2, <1>3, <1>4, <1>5, <1>6, <1>7, ZenonT(60) DEF Next, Control, SandboxNext

(* A subnet the controller gives out overlaps no network there is, and a   *)
(* sandbox is turned away only when each slot overlaps one, whatever the   *)
(* base block, the size of the slots and the prefixes of the other         *)
(* networks, as long as the list allocateSubnet read is current.           *)
THEOREM SubnetsExact == Spec => AllocationExact
<1>1. GatewayInv /\ [Next]_vars =>
        [\A s \in Sandboxes :
           (cache = Live /\ work.pc = "network" /\ work.s = s /\ ~work.o.spec.networkRef /\ net[s] = None) =>
             \/ /\ net'[s] # None
                /\ \A p \in Subnets(Now) : ~Overlaps(p, IndexToCIDR(net'[s].slot))
             \/ work' = work
             \/ events' > events
             \/ \A i \in 0..TotalGeneratedSubnets - 1 :
                  \E p \in Subnets(Now) : Overlaps(p, IndexToCIDR(i))]_sbVars
  BY AllocationStep, Zenon DEF Allocated
<1> QED
  BY <1>1, GatewayTyping, PTL DEF Spec, AllocationExact
=============================================================================
