---------------------------- MODULE MCMigration ----------------------------
(* Snapshots of users, with MaxEvents disturbances, or the migration of    *)
(* the VM, with one less: they meet only in the queue of an agent.  The    *)
(* base is elected among the executions of a user's snapshot.              *)
EXTENDS Migration, TLC

SameCPU == [n \in Profiled |-> None]
Symmetric == Permutations(Nodes)

InScope ==
  \/ mig.phase = "absent"
  \/ /\ \A p \in Parents \ {MigSnap} : parent[p].phase = "absent"
     /\ parent[MigSnap].elected = None /\ events < MaxEvents
MCSpec == Init /\ [][Next /\ InScope']_vars
=============================================================================
