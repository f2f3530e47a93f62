--------------------------- MODULE MCHostNetwork ---------------------------
(* HostNetwork with sets of model values; nodes are interchangeable, and   *)
(* so are VMs.                                                             *)
EXTENDS HostNetwork, TLC

Symmetric == Permutations(Nodes) \cup Permutations(VMs)
=============================================================================
