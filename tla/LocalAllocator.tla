-------------------------- MODULE LocalAllocator ---------------------------
(***************************************************************************)
(* The Allocator of one network in the memory of one runtime: the          *)
(* addresses it has handed out, and the count of VMs that tells Stop when  *)
(* the last one has gone.                                                  *)
(***************************************************************************)
EXTENDS Naturals

NewAllocator == [allocated |-> {}, count |-> 0]

(* Mutant: the counter is not reset when it reaches zero.                  *)
ReleaseUnfloored(a, ip) == [allocated |-> a.allocated \ {ip}, count |-> a.count - 1]

(* Allocator.Reserve and Allocator.Release; the latter counts down even    *)
(* when the address was not allocated, but not below zero.                 *)
Reserve(a, ip) ==
  IF ip \in a.allocated THEN a
  ELSE [allocated |-> a.allocated \cup {ip}, count |-> a.count + 1]

Release(a, ip) ==
  [allocated |-> a.allocated \ {ip}, count |-> IF a.count <= 1 THEN 0 ELSE a.count - 1]

WasLast(a) == a.count <= 1
=============================================================================
