-------------------------- MODULE MCTopologyGraph ---------------------------
(* Two routers that peer with each other, and one of them with outsiders. *)
EXTENDS TopologyGraph

PeerName(as, ip) == "AS of " \o ip

Node(n, asn) == [name |-> n, asn |-> asn]

(* Both routers before their AS is known, and one alone *)
SomeInventories == {<<Node("r1", None), Node("r2", None)>>, <<Node("r1", 1)>>}

Says(ip, state, as, neighbour) ==
  [ip |-> ip, state |-> state, remoteAs |-> as, neighbour |-> neighbour]

Toward(id) == [routerId |-> id, hostname |-> None]

(* An outsider that never answered: its router-id is the one FRR shows for *)
(* every such peer.                                                        *)
Silent(ip) == Says(ip, "Idle", 9, Toward("0.0.0.0"))

ToR2(state) == Says("p2", state, 2, Toward("id2"))

(* r1 has no peer, its session with r2 with and without a neighbours view, *)
(* that session with an outsider after it, and down with two before it     *)
OfR1 ==
  {[routerId |-> "id1", as |-> 1, peers |-> p] :
     p \in {<<>>, <<Says("p2", "Established", 2, None)>>, <<ToR2("Established")>>,
             <<ToR2("Established"), Silent("x")>>, <<Silent("x"), Silent("y"), ToR2("Idle")>>}}

OfR2 ==
  {[routerId |-> "id2", as |-> 2, peers |-> p] :
     p \in {<<>>} \cup {<<Says("p1", s, 1, Toward("id1"))>> : s \in SessionStates \cup {None}}}

TwoReports == [n \in Routers |-> {None} \cup IF n = "r1" THEN OfR1 ELSE OfR2]
=============================================================================
