------------------------------ MODULE BgpTool ------------------------------
(* ci/bgp.py: what the lab's scripts read out of the configuration files and   *)
(* out of the JSON of FRR and of the dashboard, and the exit codes they act on. *)
(*                                                                             *)
(* A file is the sequence of its lines, each reduced to what the tool looks     *)
(* for. A JSON text is None when load_json finds none in it; otherwise it is    *)
(* its own peers (or routes) and those of the objects it contains.              *)
EXTENDS Integers, Sequences, FiniteSets, SequencesExt, Selection

CONSTANT None

(* The name of an interface: a kind and a number. *)
Eth(n) == <<"eth", n>>
Lo == <<"lo", 0>>

Line(kind, value) == [kind |-> kind, value |-> value]

Values(conf, kind) ==
  LET ofKind == SelectSeq(conf, LAMBDA l : l.kind = kind)
  IN  [k \in DOMAIN ofKind |-> ofKind[k].value]

(* The values without those whose key was seen before. *)
FirstOfEach(values, keys) ==
  LET new(k) == \A j \in 1..(k - 1) : keys[j] # keys[k]
      first == SelectSeq([k \in DOMAIN values |-> k], new)
  IN  [j \in DOMAIN first |-> values[first[j]]]

---------------------------------------------------------------------------
(* The configuration of a router and the topology file *)

asn_of(conf) == LET routers == Values(conf, "bgp")
                IN  IF routers = <<>> THEN None ELSE routers[1]

neighbors_of(conf) ==
  LET all == Values(conf, "neighbor")
  IN  FirstOfEach(all, [k \in DOMAIN all |-> all[k].ip])

originated_of(conf) == FirstOfEach(Values(conf, "network"), Values(conf, "network"))

(* The value of the interface line that stands last above a line. *)
IfaceAbove(conf, k) ==
  LET above == {j \in 1..k : conf[j].kind = "interface"}
  IN  IF above = {} THEN None ELSE conf[Max(above)].value

ifaces_of(conf) ==
  LET lines == [k \in DOMAIN conf |-> [iface |-> IfaceAbove(conf, k), line |-> conf[k]]]
      addresses == Select(lines, {l \in Range(lines) : l.line.kind = "address" /\ l.iface \notin {None, Lo}})
  IN  [k \in DOMAIN addresses |-> [iface |-> addresses[k].iface, addr |-> addresses[k].line.value]]

(* The keys under "nodes:", up to the next key of its level. *)
topology_nodes(lines) ==
  LET start == SelectInSeq(lines, LAMBDA l : l.kind = "nodes")
      after == SubSeq(lines, start + 1, Len(lines))
      end == SelectInSeq(after, LAMBDA l : l.kind = "key")
      inside == IF start = 0 THEN <<>> ELSE IF end = 0 THEN after ELSE SubSeq(after, 1, end - 1)
      nodes == Select(inside, {l \in Range(inside) : l.kind = "node" /\ l.value # "dashboard"})
  IN  [k \in DOMAIN nodes |-> nodes[k].value]

---------------------------------------------------------------------------
(* JSON on standard input *)

(* Of the contained objects the last one that has a key gives its value. *)
Found(json) ==
  IF json.own # None THEN json.own
  ELSE LET having(key) == {i \in DOMAIN json.members : key \in DOMAIN json.members[i]}
           keys == UNION {DOMAIN json.members[i] : i \in DOMAIN json.members}
       IN  [key \in keys |-> json.members[Max(having(key))][key]]

peers_from(json) == Found(json)
routes_from(json) == Found(json)

(* The first of the fields state, peerState and bgpState that says something. *)
state_of(peer) ==
  IF peer.state # "" THEN peer.state
  ELSE IF peer.peerState # "" THEN peer.peerState ELSE peer.bgpState

(* argparse wants at least one peer. *)
summary_require(json, ips) ==
  IF json = None \/ ips = <<>> THEN 2
  ELSE LET peers == peers_from(json)
       IN  IF \A ip \in Range(ips) : ip \in DOMAIN peers /\ state_of(peers[ip]) = "Established"
           THEN 0 ELSE 1

(* A route is its number of paths. *)
table_has(json, prefix) ==
  IF json = None THEN 2
  ELSE LET routes == routes_from(json)
       IN  IF prefix \in DOMAIN routes /\ routes[prefix] > 0 THEN 0 ELSE 1

(* An option that is empty expects nothing; an AS that is not a number raises. *)
dashboard(json, expectReady, expectNodes, expectASNs) ==
  IF json = None THEN 2
  ELSE LET names == [k \in DOMAIN json.nodes |-> json.nodes[k].name]
           asns == [k \in DOMAIN json.nodes |-> json.nodes[k].asn]
           known == Select(asns, Range(asns) \ {None})
       IN  IF /\ expectReady => json.ready
              /\ expectNodes # <<>> => names = expectNodes
              /\ expectASNs # <<>> => known = expectASNs
           THEN 0 ELSE 1

events(json, expectReady, minEvents, expectFirstId) ==
  IF json = None THEN 2
  ELSE LET ids == [k \in DOMAIN json.events |-> json.events[k].id]
       IN  IF /\ expectReady => json.ready
              /\ Len(ids) >= minEvents
              /\ \A k \in DOMAIN ids : json.events[k].stamped
              /\ \A k \in 2..Len(ids) : ids[k] > ids[k - 1]
              /\ expectFirstId # 0 => ids # <<>> /\ ids[1] = expectFirstId
           THEN 0 ELSE 1
=============================================================================
