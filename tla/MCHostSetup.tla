---------------------------- MODULE MCHostSetup ----------------------------
(* HostSetup with a network and a host, which nft prints without its       *)
(* prefix length.                                                          *)
EXTENDS HostSetup, TLC

Net == "10.0.0.0/8"
Host == "192.0.2.1/32"

PrintedBy ==
  [b \in Backends |->
     [t \in {Net, Host} |-> IF b = "nftables" /\ t = Host THEN "192.0.2.1" ELSE t]]

DenyLists == {{}, {Net}, {Net, Host}}

(* Nothing is claimed of the rules once calls have met on the host         *)
(* network, or a VM has been started twice over: the former are followed   *)
(* after one disturbance and with few rules, the latter not at all.        *)
InScope == overlapped = {} /\ (raced => events <= 1 /\ Cardinality(rules) <= 5)

Symmetric == Permutations(VMs)
=============================================================================
