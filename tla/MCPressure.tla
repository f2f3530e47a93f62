----------------------------- MODULE MCPressure -----------------------------
(* Two VMs on two addresses; the first has the larger class, the second is *)
(* of a warm pool.  With the first VM alone a victim of memory pressure    *)
(* there are up to MaxEvents disturbances, the pressure included; else     *)
(* there is one less.                                                      *)
EXTENDS Pressure
CONSTANTS v1, v2
Sizes == [v \in VMs |-> IF v = v1 THEN 2 ELSE 1]
Times == [v \in VMs |-> 1]
Warm == {v2}

InScope == events < MaxEvents \/ (vm[v1].pressured /\ ~vm[v2].pressured)
MCSpec == PInit /\ [][Next /\ InScope']_vars
=============================================================================
