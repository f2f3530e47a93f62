---------------------------- MODULE MCPlacement -----------------------------
(* Two nodes, the second tainted; two VMs that are only placed, or that    *)
(* have attachments.                                                       *)
EXTENDS LANAttachment
CONSTANTS v1, v2, u1, u2, u3, u4

Labels == {"imp/enabled"}
Taint == [key |-> "gpu", value |-> "yes", effect |-> "NoSchedule", system |-> FALSE]
Lost == [key |-> "unreachable", value |-> "", effect |-> "NoExecute", system |-> TRUE]
Exists == [key |-> "gpu", operator |-> "Exists", value |-> "", effect |-> ""]
MCNode ==
  [n \in 1..2 |->
    [labels |-> IF n = 2 THEN Labels \cup {"disk=ssd"} ELSE Labels,
     taints |-> IF n = 2 THEN {Taint, Lost} ELSE {}, cpu |-> 3000, mem |-> 4]]
MCClasses ==
  [c \in {"small", "big"} |->
    [vcpu |-> IF c = "big" THEN 2 ELSE 1, mem |-> IF c = "big" THEN 2 ELSE 1,
     tolerations |-> IF c = "big" THEN {Exists} ELSE {}]]

Plain == [class |-> "small", selector |-> {}, tolerations |-> {}, lifecycle |-> "ephemeral",
          restart |-> "in-place", network |-> FALSE, sandbox |-> FALSE]
Big == [Plain EXCEPT !.class = "big", !.lifecycle = "persistent"]
Picky == [Plain EXCEPT !.selector = {"disk=ssd"}, !.tolerations = {Exists}, !.lifecycle = "persistent",
                       !.restart = "reschedule"]
Unknown == [Plain EXCEPT !.class = None, !.network = TRUE]
Boxed == [Plain EXCEPT !.sandbox = TRUE]
MCSpecs == {Plain, Big, Picky, Unknown, Boxed}

Explicitly == [fraction |-> None, maxImpVMs |-> 0, vcpuCapacity |-> 3, memoryMiB |-> 3]
Capped == [fraction |-> 50, maxImpVMs |-> 1, vcpuCapacity |-> 0, memoryMiB |-> 0]
MCProfiles == {None, Explicitly, Capped}
Placing == [fraction |-> 80, reserve |-> 1]
Attaching == [fraction |-> 101, reserve |-> 0]
MCConfigs == {Placing, Attaching}

Ops == <<"ops">>
DN == <<"cn=lan", "dc=imp">>
MCGroups ==
  [u \in Users |-> CASE u = u2 -> {Ops} [] u = u3 -> {DN} [] OTHER -> {}]
Tagged == [vlan |-> 1, allowed |-> {UserSubject(u1), GroupSubject(Ops), GroupSubject(DN)}, allowDHCP |-> FALSE]
Untagged == [vlan |-> 0, allowed |-> {}, allowDHCP |-> TRUE]
MCDefinitions == {None, Tagged, Untagged}
MCRequests == {[dhcp |-> FALSE, ip |-> "inside"], [dhcp |-> TRUE, ip |-> ""]}

(* Only one of the two is varied at a time: the placement with one         *)
(* disturbance, the attachments with all, of which two beside a tagged     *)
(* definition or none.                                                     *)
OnlyPlaced ==
  /\ config = Placing /\ lan = Tagged /\ binding = {} /\ \A v \in VMs : att[v] = None
  /\ born # {v2} /\ (events <= 1 \/ born = {v1}) /\ profile[2] \in {None, profile[1]} \ {Capped}
  /\ \A v \in VMs : vm[v] # None => vm[v].spec \in {Plain, Big} \cup (IF v = v1 THEN {Picky, Unknown} ELSE {})
Attached ==
  /\ config = Attaching /\ \A n \in Nodes : profile[n] = None /\ health[n] = "Ready"
  /\ \A v \in VMs : att[v] # None => att[v].requester \in {u1, None} \/ (~att[v].spec.dhcp /\ events < 2)
  /\ events < 2 \/ /\ admission /\ lan # Untagged
                   /\ \A v \in VMs : /\ vm[v] # None => vm[v].spec = Plain
                                     /\ att[v] # None => att[v].requester = u1
  /\ \/ born \subseteq {v1} /\ att[v2] = None
     \/ /\ born # {v2} /\ events < 2 /\ cache = Live /\ admission /\ lan = Tagged
        /\ \A v \in VMs : /\ vm[v] # None => vm[v].spec = Plain
                          /\ att[v] # None /\ att[v].requester = u1 /\ ~att[v].spec.dhcp
InScope == OnlyPlaced \/ Attached

MCInit == Init /\ InScope /\ (config = Attaching => binding = {1})
MCSpec == MCInit /\ [][Next /\ InScope']_vars
=============================================================================
