----------------------------- MODULE MCOverlay -----------------------------
(* Overlay with sets of model values.  One agent at a time is in the       *)
(* middle of a sync, of a network that is ready: what it reads and applies *)
(* concerns its node alone.  Meanwhile only steps are taken that change    *)
(* the table or the agent (the others could as well come first), and a     *)
(* disturbance ends the sync.  At most one VM starts before the network is *)
(* ready.                                                                  *)
EXTENDS Overlay, TLC

Syncing == {n \in Nodes : \E w \in Syncers : got[n][w] # None}
Own(n) == <<job[n], queued[n], got[n], view[n], seen[n]>>
InScope ==
  /\ Cardinality(Syncing') <= 1 /\ (Syncing' # {} => net' = "ready")
  /\ \A n \in Syncing \cap Syncing' :
       events' = events /\ (table' # table \/ Own(n)' # Own(n))
  /\ net' \in {"new", "finalized"} => Cardinality({v \in VMs : vm'[v].phase # "off"}) <= 1
MCSpec == Init /\ [][Next /\ InScope]_vars
Symmetric == Permutations(Nodes) \cup Permutations(VMs \ ScaleToZero)
=============================================================================
