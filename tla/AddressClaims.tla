--------------------------- MODULE AddressClaims ---------------------------
(***************************************************************************)
(* What the claims of LeaseAllocator promise the VMs of one ImpNetwork,    *)
(* without nodes, calls, caches or crashes: an address has one holder at a *)
(* time, goes from one VM to another only through being free, and is not   *)
(* given up while its holder uses it.  HostNetwork implements this.        *)
(***************************************************************************)
CONSTANTS
  VMs,
  Addresses,
  Free,    \* no holder
  NoIP     \* no address

VARIABLES
  holder,  \* per address: the VM that holds it, or Free
  used     \* per VM: the address its running guest uses, or NoIP

claims == <<holder, used>>

Init ==
  /\ holder = [a \in Addresses |-> Free]
  /\ used = [v \in VMs |-> NoIP]

(* A VM takes a free address.                                              *)
Claim(v, a) ==
  /\ holder[a] = Free
  /\ holder' = [holder EXCEPT ![a] = v]
  /\ UNCHANGED used

(* A VM starts to use an address it holds.                                 *)
Use(v, a) ==
  /\ holder[a] = v /\ used[v] = NoIP
  /\ used' = [used EXCEPT ![v] = a]
  /\ UNCHANGED holder

(* VMs cease to use theirs, several at once when their host fails.         *)
Cease(S) ==
  /\ used' = [v \in VMs |-> IF v \in S THEN NoIP ELSE used[v]]
  /\ UNCHANGED holder

(* A holder gives an address up that it does not use.                      *)
Yield(v, a) ==
  /\ holder[a] = v /\ used[v] # a
  /\ holder' = [holder EXCEPT ![a] = Free]
  /\ UNCHANGED used

Next ==
  \/ \E v \in VMs, a \in Addresses : Claim(v, a) \/ Use(v, a) \/ Yield(v, a)
  \/ \E S \in SUBSET VMs : Cease(S)

Spec == Init /\ [][Next]_claims

(* A VM uses only an address it holds, so no two VMs use the same.         *)
UsedIsHeld == \A v \in VMs : used[v] # NoIP => holder[used[v]] = v
=============================================================================
