----------------------------- MODULE MCSandbox -----------------------------
(* A base block of four slots in a space of four blocks.  A second sandbox *)
(* comes in, for the subnets, without webhooks, recreations and nodes.     *)
EXTENDS SandboxGateway
CONSTANTS s1, s2
Standard ==
  [tenancy |-> "standard", template |-> TRUE, class |-> FALSE, image |-> FALSE,
   networkRef |-> FALSE, expireAfter |-> "unset"]
Attached == [Standard EXCEPT !.networkRef = TRUE]
AllSpecs ==
  {Standard, Attached, [Standard EXCEPT !.tenancy = "hard", !.expireAfter = "long"],
   [Standard EXCEPT !.expireAfter = "short"]}
Prefixes == {<<16, 2>>, <<16, 8>>, <<0, 32>>, <<16, 16>>, <<32, 16>>}
InScope ==
  /\ uids[s2] > 0 =>
       /\ ~admission /\ events <= 1 /\ uids[s1] = 1
       /\ \A s \in Sandboxes : sb[s] # None => sb[s].spec = Standard
       /\ \A s \in Sandboxes : vm[s] # None => ~vm[s].node
  /\ (sb[s1] # None /\ sb[s1].spec.networkRef) => events <= 1
  /\ (uids[s1] > 0 /\ events = 0) => cni # "unknown"
  /\ (sb[s1] # None /\ sb[s1].spec.tenancy = "standard") => cni # "cilium"
MCSpec == Init /\ [][Next /\ InScope']_vars
=============================================================================
