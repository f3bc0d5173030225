------------------------------- MODULE MCLab -------------------------------
(* A provider and a company with one link between them, the provider with a     *)
(* second network nobody answers on; their files as they should be and with a   *)
(* flaw.                                                                         *)
EXTENDS LabCheck

TwoRouters == {"a", "b"}
ByName == <<"a", "b">>
Transit == {"a"}
Addresses == [r \in TwoRouters |-> IF r = "a" THEN {"ma", "a1", "a2"} ELSE {"mb", "b1"}]
Management == [r \in TwoRouters |-> IF r = "a" THEN "ma" ELSE "mb"]
OtherEnd == [ip \in {"a1", "b1"} |-> IF ip = "a1" THEN "b1" ELSE "a1"]

Interface(n, addr) == <<Line("interface", Eth(n)), Line("address", addr)>>
Loopback(addr) == <<Line("interface", Lo), Line("address", addr)>>

ConfB == Loopback("lb") \o Interface(1, "b1") \o
         <<Line("bgp", 65002), Line("neighbor", [ip |-> "a1", asn |-> 65001]), Line("network", "q")>>

BgpA(networks) == <<Line("bgp", 65001), Line("neighbor", [ip |-> "b1", asn |-> 65002]),
                    Line("neighbor", [ip |-> "b1", asn |-> 65002])>> \o networks
Networks == <<Line("network", "p"), Line("network", "p")>>

ConfA == Loopback("la") \o Interface(1, "a1") \o Interface(2, "a2") \o BgpA(Networks)

(* Two addresses on one interface; interfaces named the other way round; no *)
(* network; no session and no AS, with an address nobody gave it.            *)
FlawedA ==
  {Interface(1, "a1") \o <<Line("address", "a2")>> \o BgpA(Networks),
   Interface(2, "a1") \o Interface(1, "a2") \o BgpA(Networks),
   Interface(1, "a1") \o Interface(2, "a2") \o BgpA(<<>>),
   Interface(1, "a1") \o Interface(2, "z") \o Networks}

Topology(names) ==
  <<Line("other", None), Line("nodes", None)>> \o
  [k \in DOMAIN names |-> Line("node", names[k])] \o
  <<Line("key", "links"), Line("node", "a")>>

GoodEnv == [addr |-> "host:port", allow |-> "networks", installed |-> TRUE]
Both == Topology(<<"a", "dashboard", "b">>)

Project(conf, topology, env) ==
  [configs |-> [r \in TwoRouters |-> IF r = "a" THEN conf ELSE ConfB],
   topology |-> topology, env |-> [r \in TwoRouters |-> IF r = "a" THEN env ELSE GoodEnv]]

ProjectFiles ==
  {Project(conf, Both, GoodEnv) : conf \in FlawedA \cup {ConfA, None}} \cup
  {Project(ConfA, t, GoodEnv) : t \in {<<>>, Topology(<<"b", "a">>), Topology(<<"b">>)}} \cup
  {Project(ConfA, Both, e) : e \in {[GoodEnv EXCEPT !.allow = None], [GoodEnv EXCEPT !.addr = "port"]}}

StartFaults == {None, NoLinks, NoAddrs, Tmp(0), Eth(1)}

(* The files of this instance are ones the theorems speak of. *)
ASSUME FilesNameLinks == NamesLinks
ASSUME FilesLeaveNoneAside == NoneAside
=============================================================================
