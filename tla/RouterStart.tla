---------------------------- MODULE RouterStart ----------------------------
(* How the container of a router starts: ci/rename-ifaces.sh gives each        *)
(* interface the name the configuration has for its address, agent-start.sh    *)
(* starts the agent beside FRR, and FRR takes over.                            *)
(*                                                                             *)
(* The interfaces are a sequence, in the order of `ip link show`; nothing else *)
(* touches them while the script runs. One `ip` command may fail: the first    *)
(* dump of the links, the dumps of the addresses, or giving a certain name.    *)
EXTENDS BgpTool

Tmp(n) == <<"tmp", n>>

(* The dumps that may fail; a name is the failure of giving that name. *)
NoLinks == <<"no links", 0>>
NoAddrs == <<"no addrs", 0>>

(* The first interface that holds an address; 0 when none does. *)
iface_with_addr(links, addr) == SelectInSeq(links, LAMBDA l : l.addr = addr)

Taken(links, name) == \E l \in Range(links) : l.name = name

(* Seeded fault: the interfaces keep their names before they are mapped. *)
Unparked(links) == links

(* Every ethN becomes a tmpM, counted in the order of the sorted names. *)
Parked(links) ==
  LET eths == {l.name[2] : l \in {l \in Range(links) : l.name[1] = "eth"}}
  IN  [k \in DOMAIN links |->
         IF links[k].name[1] # "eth" THEN links[k]
         ELSE [links[k] EXCEPT !.name = Tmp(Cardinality({n \in eths : n < @[2]}))]]

(* Seeded fault: an `ip link set name` that fails is not noticed. *)
RenamedIfFree(s, k, name) ==
  IF Taken(s.links, name) \/ s.fault = name THEN s
  ELSE [s EXCEPT !.links[k].name = name]

(* `ip link set name`; what fails ends the script. *)
Renamed(s, k, name) ==
  IF Taken(s.links, name) \/ s.fault = name THEN [s EXCEPT !.died = TRUE]
  ELSE [s EXCEPT !.links[k].name = name]

(* One line of the configuration: an address nobody has is skipped, and so *)
(* is one that sits where it belongs.                                      *)
Mapped(s, want) ==
  LET k == iface_with_addr(s.links, want.addr)
  IN  IF s.died THEN s
      ELSE IF s.fault = NoAddrs THEN [s EXCEPT !.died = TRUE]
      ELSE IF k = 0 THEN s
      ELSE IF s.links[k].name = want.iface THEN s
      ELSE Renamed(s, k, want.iface)

(* The interface that is left becomes eth0. *)
Leftover(s) ==
  LET k == SelectInSeq(s.links, LAMBDA l : l.name[1] = "tmp")
  IN  IF s.died \/ Taken(s.links, Eth(0)) \/ k = 0 THEN s ELSE Renamed(s, k, Eth(0))

(* When the links cannot be listed nothing is parked: the function that lists *)
(* them dies in a subshell of its own.                                        *)
rename_ifaces(conf, links, fault) ==
  LET parked == IF fault = NoLinks THEN links ELSE Parked(links)
      start == [links |-> parked, fault |-> fault, died |-> fault \in {l.name : l \in Range(parked)}]
      wants == ifaces_of(conf)
      after[k \in 0..Len(wants)] == IF k = 0 THEN start ELSE Mapped(after[k - 1], wants[k])
  IN  Leftover(after[Len(wants)])

(* agent-start.sh and main of the agent: FRR starts without one unless an  *)
(* address and a list of networks are named, and an agent that cannot read *)
(* them exits and is started again, for ever.                              *)
agent_start(env) ==
  IF env.addr = None \/ env.allow = None \/ ~ env.installed THEN "none"
  ELSE IF env.addr = "host:port" /\ env.allow = "networks" THEN "listens"
  ELSE "exits"

(* What a container is after its start; one that died has no interfaces. *)
(* Without a readable configuration FRR is started at once, and no agent. *)
Started(conf, links, env, fault) ==
  LET done == IF conf = None THEN [links |-> links, died |-> FALSE]
              ELSE rename_ifaces(conf, links, fault)
  IN  [frr |-> ~ done.died, died |-> done.died, faulty |-> fault # None,
       links |-> IF done.died THEN {} ELSE Range(done.links),
       agent |-> IF done.died \/ conf = None THEN "none" ELSE agent_start(env)]

(* compose's healthcheck: bgpd runs and the agent answers. *)
Healthy(container) == container.frr /\ container.agent = "listens"
=============================================================================
