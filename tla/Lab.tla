-------------------------------- MODULE Lab --------------------------------
(* The lab the scripts of ci/ work on: the files, the containers, the sessions *)
(* FRR establishes between them and the dashboard. All but the start of a       *)
(* container (module RouterStart) is outside the scripts and may happen at any   *)
(* time.                                                                         *)
EXTENDS RouterStart

CONSTANTS
  Routers,        \* the services of docker-compose.yml
  Alphabetical,   \* their names in order
  Isps,           \* those whose name begins with isp
  Attached,       \* the addresses compose gives each of them
  Mgmt,           \* the address of each on the management network
  Opposite,       \* the address at the other end of a transit link
  Files,          \* the configurations, topology file and environments considered
  Faults,         \* what may go wrong in the start of a container
  EVENTS_RING,
  MaxEventId,     \* bound: events the dashboard records
  MaxTrouble      \* bound: sessions lost, routers and dashboards that fail

ASSUME LabAssumption ==
  /\ \A r \in Routers : Mgmt[r] \in Attached[r]
  /\ \A q, r \in Routers : q # r => Attached[q] \cap Attached[r] = {}
  /\ Alphabetical \in Seq(Routers) /\ Range(Alphabetical) = Routers /\ Isps \subseteq Routers
  /\ EVENTS_RING \in Nat \ {0} /\ MaxEventId \in Nat /\ MaxTrouble \in Nat
  /\ None \notin Nat \cup {NoLinks, NoAddrs, Eth(0)}
  /\ \A r \in Routers : /\ IsFiniteSet(Attached[r])
                        /\ \A n \in 0..Cardinality(Attached[r]) : None # Tmp(n)

(* A configuration is lines, and what it names as a neighbour is the other end *)
(* of a link the router is attached to.                                        *)
ASSUME FilesAssumption ==
  \A f \in Files :
    /\ f.topology \in Seq(Range(f.topology))
    /\ \A r \in {r \in Routers : f.configs[r] # None} :
         /\ f.configs[r] \in Seq(Range(f.configs[r]))
         /\ \A n \in Range(neighbors_of(f.configs[r])) :
              n.ip \in DOMAIN Opposite /\ Opposite[n.ip] \in Attached[r]

VARIABLES
  files,     \* [configs, topology, env]
  node,      \* the container of each router; None: not created
  est,       \* the Established sessions, each the set of its two addresses
  dash,      \* the dashboard: measured AS of each router and its last event id
  web,       \* whether the dashboard's port answers
  trouble,
  steady,    \* history: since when all expected sessions are Established
  calm,      \* history: nothing the check looks at changed since it began
  time       \* seconds, since up.sh began to wait

labVars == <<files, node, est, dash, web, trouble, steady, calm, time>>

Conf(r) == files.configs[r]

node_names == Select(Alphabetical, {r \in Routers : Conf(r) # None})

NodeNames == {r \in Range(Alphabetical) : Conf(r) # None}

Running(r) == node[r] # None /\ node[r].frr

(* Compose attaches the networks in any order, and names by that order. *)
Attachments(r) ==
  {[k \in DOMAIN order |-> [name |-> Eth(k - 1), addr |-> order[k]]] :
     order \in SetToSeqs(Attached[r])}

Session(ip) == {ip, Opposite[ip]}

ExpectedOf(r) == {Session(n.ip) : n \in Range(neighbors_of(Conf(r)))}

Expected == UNION {ExpectedOf(r) : r \in NodeNames}

AllUp(sessions) ==
  /\ NodeNames # {}
  /\ \A r \in NodeNames : ExpectedOf(r) # {} /\ ExpectedOf(r) \subseteq sessions

(* A router speaks BGP to the other end from an interface FRR knows by name. *)
Speaks(addr) ==
  \E r \in NodeNames :
    /\ Running(r)
    /\ asn_of(Conf(r)) # None
    /\ Session(addr) \in ExpectedOf(r)
    /\ \E w \in Range(ifaces_of(Conf(r))) :
         w.addr = addr /\ [name |-> w.iface, addr |-> addr] \in node[r].links

Possible == {s \in Expected : \A addr \in s : Speaks(addr)}

Adopt(sessions) ==
  /\ est' = sessions
  /\ steady' = IF ~ AllUp(sessions) THEN None ELSE IF steady = None THEN time ELSE steady
  /\ calm' = FALSE

Trouble == trouble < MaxTrouble /\ trouble' = trouble + 1

Establish ==
  /\ \E s \in Possible \ est : Adopt(est \cup {s})
  /\ UNCHANGED <<files, node, dash, web, trouble, time>>

Lose ==
  /\ Trouble
  /\ \E s \in est : Adopt(est \ {s})
  /\ UNCHANGED <<files, node, dash, web, time>>

(* The restart policy is "no". *)
RouterExits ==
  /\ Trouble
  /\ \E r \in Routers :
       /\ Running(r)
       /\ node' = [node EXCEPT ![r].frr = FALSE, ![r].agent = "none"]
       /\ Adopt({s \in est : s \cap Attached[r] = {}})
  /\ UNCHANGED <<files, dash, web, time>>

(* A poll measures the AS of the routers that answer, and may record an event. *)
DashPolls ==
  /\ dash # None
  /\ \E last \in {dash.last, dash.last + 1} \cap 1..MaxEventId :
       dash' = [asn |-> [r \in Routers |-> IF node[r].agent = "listens" /\ Running(r)
                                           THEN asn_of(Conf(r)) ELSE dash.asn[r]],
                last |-> last]
  /\ calm' = (calm /\ dash'.asn = dash.asn)
  /\ UNCHANGED <<files, node, est, web, trouble, steady, time>>

DashRestarts ==
  /\ Trouble
  /\ dash # None
  /\ dash' = [asn |-> [r \in Routers |-> None], last |-> 0]
  /\ calm' = FALSE
  /\ UNCHANGED <<files, node, est, web, steady, time>>

(* The port is dead, or something else answers with a page of HTML. *)
PortChanges ==
  /\ Trouble
  /\ web' \in {"dead", "html", "dashboard"} \ {web}
  /\ calm' = FALSE
  /\ UNCHANGED <<files, node, est, dash, steady, time>>

Environment == Establish \/ Lose \/ RouterExits \/ DashPolls \/ DashRestarts \/ PortChanges

---------------------------------------------------------------------------
(* What the scripts are answered: an exit code and a JSON text. *)

Answer(json) == [rc |-> 0, json |-> json]
Dead == [rc |-> 1, json |-> None]

(* FRR nests the peers under the address family or not. *)
Shaped(own, nested) == IF nested THEN [own |-> None, members |-> <<own>>] ELSE [own |-> own, members |-> <<>>]

Entry(established) ==
  [state |-> IF established THEN "Established" ELSE "Active", peerState |-> "OK", bgpState |-> ""]

(* No text that FRR prints is taken for none. *)
ASSUME SummaryAssumption ==
  \A ips \in SUBSET DOMAIN Opposite :
    \A peers \in [ips -> {Entry(TRUE), Entry(FALSE)}] :
      peers # None /\ \A nested \in BOOLEAN : Shaped(peers, nested) # None

show_bgp_summary(r, nested) ==
  Shaped([ip \in {n.ip : n \in Range(neighbors_of(Conf(r)))} |-> Entry(Session(ip) \in est)], nested)

(* The routers a router hears of: over its sessions, and over theirs. *)
Joined(p, q) == \E s \in est : s \cap Attached[p] # {} /\ s \cap Attached[q] # {}

Heard(r) ==
  {q \in NodeNames : \A S \in SUBSET Routers :
     r \in S /\ (\A p \in S, o \in Routers : Joined(p, o) => o \in S) => q \in S}

RoutesOf(f, from) == [p \in UNION {Range(originated_of(f.configs[q])) : q \in from} |-> 1]

ASSUME TableAssumption ==
  \A f \in Files : \A from \in SUBSET {r \in Routers : f.configs[r] # None} :
    RoutesOf(f, from) # None /\ \A nested \in BOOLEAN : Shaped(RoutesOf(f, from), nested) # None

show_ip_bgp(r, nested) == Shaped(RoutesOf(files, Heard(r)), nested)

(* docker exec; vtysh may print no JSON while no session of the router is up. *)
vtysh_json(r, json) ==
  IF ~ Running(r) THEN {Dead}
  ELSE {Answer(json)} \cup (IF \E s \in est : s \cap Attached[r] # {} THEN {} ELSE {Answer(None)})

curl(json) ==
  IF dash = None \/ web = "dead" THEN Dead ELSE IF web = "html" THEN Answer(None) ELSE Answer(json)

(* The dashboard lists the routers of the topology file first. *)
Listed(f) ==
  LET named == Select(topology_nodes(f.topology), Routers)
  IN  named \o Select(Alphabetical, Routers \ Range(named))

StateOf(f, asn) ==
  [ready |-> TRUE,
   nodes |-> [k \in DOMAIN Listed(f) |-> [name |-> Listed(f)[k], asn |-> asn[Listed(f)[k]]]]]

EventsOf(last, since) ==
  LET recorded == [k \in 1..last |-> [id |-> k, stamped |-> TRUE]]
  IN  [ready |-> TRUE, lastId |-> last,
       events |-> Select(recorded, {e \in Range(recorded) : e.id > last - EVENTS_RING /\ e.id > since})]

Numbers(f) == {asn_of(f.configs[r]) : r \in {r \in Routers : f.configs[r] # None}}

(* Nothing the dashboard keeps or prints is taken for none. *)
ASSUME DashboardAssumption ==
  /\ \A f \in Files : \A asn \in [Routers -> Numbers(f) \cup {None}] :
       /\ StateOf(f, asn) # None
       /\ \A last \in 0..MaxEventId : [asn |-> asn, last |-> last] # None
  /\ \A last, since \in 0..MaxEventId : EventsOf(last, since) # None

api_state == StateOf(files, dash.asn)
api_events(since) == EventsOf(dash.last, since)

LabInit ==
  /\ files \in Files
  /\ node = [r \in Routers |-> None]
  /\ est = {} /\ dash = None /\ web = "dashboard" /\ trouble = 0
  /\ steady = None /\ calm = FALSE /\ time = 0
=============================================================================
