------------------------ MODULE AddressClaimsProofs ------------------------
(* The claims keep running guests apart, for any set of VMs and addresses. *)
EXTENDS AddressClaims, TLAPS

(* The invariant that is inductive: the types are needed for the updates.  *)
Inv ==
  /\ holder \in [Addresses -> VMs \cup {Free}]
  /\ used \in [VMs -> Addresses \cup {NoIP}]
  /\ UsedIsHeld

LEMMA InitInv == Init => Inv
  BY DEF Init, Inv, UsedIsHeld

LEMMA NextInv ==
  ASSUME NoIP \notin Addresses, Free \notin VMs, Inv, [Next]_claims
  PROVE  Inv'
<1>1. CASE UNCHANGED claims
  BY <1>1 DEF Inv, UsedIsHeld, claims
<1>2. ASSUME NEW v \in VMs, NEW a \in Addresses, Claim(v, a)
      PROVE  Inv'
  BY <1>2 DEF Inv, UsedIsHeld, Claim
<1>3. ASSUME NEW v \in VMs, NEW a \in Addresses, Use(v, a)
      PROVE  Inv'
  BY <1>3 DEF Inv, UsedIsHeld, Use
<1>4. ASSUME NEW v \in VMs, NEW a \in Addresses, Yield(v, a)
      PROVE  Inv'
  <2>1. ASSUME NEW w \in VMs, used[w] # NoIP
        PROVE  holder'[used[w]] = w
    <3>1. holder[used[w]] = w /\ used[w] \in Addresses
      BY <2>1 DEF Inv, UsedIsHeld
    <3>2. used[w] # a
      BY <1>4, <3>1 DEF Yield
    <3> QED
      BY <1>4, <3>1, <3>2 DEF Yield, Inv
  <2> QED
    BY <1>4, <2>1 DEF Inv, UsedIsHeld, Yield
<1>5. ASSUME NEW S \in SUBSET VMs, Cease(S)
      PROVE  Inv'
  BY <1>5 DEF Inv, UsedIsHeld, Cease
<1> QED
  BY <1>1, <1>2, <1>3, <1>4, <1>5 DEF Next

(* Wherever LeaseAllocator's claims are implemented, a guest uses only the *)
(* address its VM holds, however claims, starts, failures and releases     *)
(* interleave.                                                             *)
THEOREM HeldWhileUsed ==
  ASSUME NoIP \notin Addresses, Free \notin VMs
  PROVE  Spec => []UsedIsHeld
<1>1. Inv /\ [Next]_claims => Inv'
  BY NextInv
<1>2. Inv => UsedIsHeld
  BY DEF Inv
<1> QED
  BY InitInv, <1>1, <1>2, PTL DEF Spec
=============================================================================
