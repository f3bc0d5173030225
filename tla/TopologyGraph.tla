--------------------------- MODULE TopologyGraph ----------------------------
(***************************************************************************)
(* The graph of dashboard.js: what buildElements makes of the polled state *)
(* and how updateGraph patches it into what is drawn.  Elements are added  *)
(* and recoloured; an edge whose session nobody reports any more is marked *)
(* vanished, held for VANISHED_GRACE and swept by a timer.                 *)
(*                                                                         *)
(* cytoscape refuses an edge when an end of it is not on the graph: the    *)
(* redraw ends there, in an exception.                                     *)
(*                                                                         *)
(* An edge is the pair of its ends: the code's id is the two names sorted. *)
(* Its labels are left out.                                                *)
(***************************************************************************)
EXTENDS Naturals, FiniteSets, Sequences

CONSTANTS
  Routers,         \* names a listed router can have
  Unnamed(_, _),   \* the label of a peer that gave no hostname: its AS and address
  SessionStates,
  Inventories,     \* the node lists a snapshot may bring: sequences of [name, asn]
  Reports,         \* what the page may be told of each router
  None,            \* undefined, null
  VANISHED_GRACE   \* ticks; a tick is longer than the 250 ms added to it

(* A report is None where the router was not read.  Otherwise it names the *)
(* router's id and AS, and its peers in the order of the JSON: of each the *)
(* state, the AS and what the neighbours view says of it, None where that  *)
(* view failed.                                                            *)
Neighbour == [routerId : STRING, hostname : STRING \cup {None}]

Peer == [ip : STRING, state : SessionStates \cup {None}, remoteAs : Nat,
         neighbour : Neighbour \cup {None}]

Report == [routerId : STRING, as : Nat, peers : Seq(Peer)]

ASSUME GraphAssumption ==
  /\ Reports \in [Routers -> SUBSET (Report \cup {None})]
  /\ Inventories \subseteq Seq([name : Routers, asn : Nat \cup {None}])
  /\ VANISHED_GRACE \in Nat \ {0}

VARIABLES
  nodes,
  lastState,
  cy,        \* the drawn elements, None before the first snapshot
  sweep,     \* ticks until the vanish sweep, None while vanishSweepArmed is false
  torn       \* history: the last redraw ended in an exception

vars == <<nodes, lastState, cy, sweep, torn>>

-----------------------------------------------------------------------------
(* buildElements, of an inventory and a state.                             *)

Listed(ns) == {ns[i].name : i \in DOMAIN ns}

Identity(node, state) ==
  LET r == state[node.name]
  IN  [routerId |-> IF r = None THEN None ELSE r.routerId,
       asn      |-> IF r = None THEN node.asn ELSE r.as]

(* byRouterId keeps the last router of an id, asToNode the first of an AS *)
ByRouterId(ns, state, id) ==
  LET places == {i \in DOMAIN ns : Identity(ns[i], state).routerId = id}
  IN  IF places = {} THEN None ELSE ns[CHOOSE i \in places : \A j \in places : j <= i].name

ByAS(ns, state, as) ==
  LET places == {i \in DOMAIN ns : Identity(ns[i], state).asn = as}
  IN  IF places = {} THEN None ELSE ns[CHOOSE i \in places : \A j \in places : i <= j].name

(* The router on the other end, by its router-id or else by its AS; None   *)
(* when the peer is outside the topology.                                  *)
Router(ns, state, peer) ==
  LET byId == IF peer.neighbour = None THEN None
              ELSE ByRouterId(ns, state, peer.neighbour.routerId)
  IN  IF byId # None THEN byId ELSE ByAS(ns, state, peer.remoteAs)

(* An outsider goes by its hostname, or by its AS and address              *)
Label(peer) ==
  IF peer.neighbour # None /\ peer.neighbour.hostname # None
  THEN peer.neighbour.hostname ELSE Unnamed(peer.remoteAs, peer.ip)

(* The views of the sessions, in the order they are walked: the routers of *)
(* the inventory, and the peers of each.                                   *)
Places(ns, state) ==
  UNION {{<<i, j>> : j \in DOMAIN state[ns[i].name].peers} :
           i \in {k \in DOMAIN ns : state[ns[k].name] # None}}

Before(p, q) == p[1] < q[1] \/ (p[1] = q[1] /\ p[2] < q[2])

PeerAt(ns, state, p) == state[ns[p[1]].name].peers[p[2]]

(* One end's view of one session *)
View(ns, state, p) ==
  LET peer == PeerAt(ns, state, p)
      router == Router(ns, state, peer)
  IN  [from |-> ns[p[1]].name, to |-> IF router # None THEN router ELSE Label(peer),
       state |-> peer.state]

Sessions(ns, state) == {View(ns, state, p) : p \in Places(ns, state)}

Ends(session) == {session.from, session.to}

Pairs(sessions) == {Ends(s) : s \in {t \in sessions : t.from # t.to}}

Present(ns, state) == Pairs(Sessions(ns, state))

Outside(ns, state) ==
  {p \in Places(ns, state) : Router(ns, state, PeerAt(ns, state, p)) = None}

Key(peer) == IF peer.neighbour = None THEN peer.ip ELSE peer.neighbour.routerId

Twins(ns, state, p, q) == Key(PeerAt(ns, state, p)) = Key(PeerAt(ns, state, q))

(* external: the outsiders, one for each router-id (or address), under the *)
(* label of the view that came first.                                      *)
Externals(ns, state) ==
  LET outside == Outside(ns, state)
      First(p) == \A o \in outside : Twins(ns, state, o, p) => ~ Before(o, p)
  IN  {Label(PeerAt(ns, state, p)) : p \in {q \in outside : First(q)}}

(* Seeded fault: no vertex is added for a peer outside the topology *)
ListedVertices(ns, state) == Listed(ns)

Vertices(ns, state) == Listed(ns) \cup Externals(ns, state)

(* stateRank: what FRR may add later ranks worst *)
Rank(state) ==
  CASE state = "Established" -> 0
    [] state \in {"OpenConfirm", "OpenSent", "Connect"} -> 1
    [] state = "Active" -> 2
    [] state = "Idle" -> 3
    [] OTHER -> 4

(* Seeded fault: the better of two views wins *)
BestColour(sessions, edge) ==
  LET views == {s.state : s \in {t \in sessions : Ends(t) = edge}} \ {None}
  IN  IF views = {} THEN "unknown"
      ELSE CHOOSE best \in views : \A v \in views : Rank(best) <= Rank(v)

(* Seeded fault: a session of which no view has a state has none *)
ColourOrNone(sessions, edge) ==
  LET views == {s.state : s \in {t \in sessions : Ends(t) = edge}} \ {None}
  IN  IF views = {} THEN None
      ELSE CHOOSE worst \in views : \A v \in views : Rank(v) <= Rank(worst)

(* worseState over the views of the session *)
Colour(sessions, edge) ==
  LET views == {s.state : s \in {t \in sessions : Ends(t) = edge}} \ {None}
  IN  IF views = {} THEN "unknown"
      ELSE CHOOSE worst \in views : \A v \in views : Rank(v) <= Rank(worst)

Reported(ns, state) == {n \in Listed(ns) : state[n] # None}

-----------------------------------------------------------------------------
(* A drawn edge: its state and, once marked, the ticks since.              *)

Drawn(sessions, edge) == [state |-> Colour(sessions, edge), vanishedAt |-> None]

Elements(ns, state) ==
  LET sessions == Sessions(ns, state)
  IN  [vertices |-> Vertices(ns, state),
       edges |-> [e \in Pairs(sessions) |-> Drawn(sessions, e)]]

(* The edges that cytoscape refuses, of those that are not drawn yet *)
Refused(elements, vertices, drawn) ==
  LET ends == vertices \cup elements.vertices
  IN  {e \in DOMAIN elements.edges \ drawn : ~ e \subseteq ends}

(* The edges are drawn in the order they were first seen in *)
Earlier(ns, state, e, f) ==
  \E p \in Places(ns, state) :
    /\ Ends(View(ns, state, p)) = e
    /\ \A q \in Places(ns, state) : Ends(View(ns, state, q)) = f => Before(p, q)

(* cytoscape(...) with all elements: refused one of them, there is no graph *)
Build(elements, armed) ==
  /\ torn' = (Refused(elements, {}, {}) # {})
  /\ cy' = IF torn' THEN None ELSE elements
  /\ sweep' = armed

(* Seeded fault: one answering end is enough to take an edge away *)
GoneFromOneEnd(ns, state) ==
  {e \in DOMAIN cy.edges \ Present(ns, state) : e \cap Reported(ns, state) # {}}

(* Gone: no end reports it, and both ends answered.                        *)
Gone(ns, state) ==
  LET reported == Reported(ns, state)
  IN  {e \in DOMAIN cy.edges \ Present(ns, state) : e \subseteq reported}

Expired(edge) == cy.edges[edge].vanishedAt # None /\ cy.edges[edge].vanishedAt >= VANISHED_GRACE

(* Seeded fault: the sweep is armed for an edge marked now, not for one    *)
(* that is still held                                                      *)
UpdateArmingOnce(elements, ns, state, armed) ==
  LET refused == Refused(elements, cy.vertices, DOMAIN cy.edges)
      reached == {e \in DOMAIN elements.edges : \A r \in refused : Earlier(ns, state, e, r)}
      gone == IF refused = {} THEN Gone(ns, state) ELSE {}
      swept == {e \in gone : Expired(e)}
      marked == {e \in gone : cy.edges[e].vanishedAt = None}
      Patched(e) ==
        IF e \in reached THEN elements.edges[e]
        ELSE IF e \in marked THEN [state |-> "vanished", vanishedAt |-> 0]
        ELSE cy.edges[e]
  IN  /\ cy' = [vertices |-> cy.vertices \cup elements.vertices,
                edges |-> [e \in (DOMAIN cy.edges \cup reached) \ swept |-> Patched(e)]]
      /\ sweep' = IF marked # {} /\ armed = None THEN VANISHED_GRACE + 1 ELSE armed
      /\ torn' = (refused # {})

(* armed: the timer as it is when updateGraph starts.  The vertices come   *)
(* first, then the edges up to the first that is refused; what is gone is  *)
(* looked at when none was.                                                *)
Update(elements, ns, state, armed) ==
  LET refused == Refused(elements, cy.vertices, DOMAIN cy.edges)
      reached == {e \in DOMAIN elements.edges : \A r \in refused : Earlier(ns, state, e, r)}
      gone == IF refused = {} THEN Gone(ns, state) ELSE {}
      swept == {e \in gone : Expired(e)}
      Patched(e) ==
        IF e \in reached THEN elements.edges[e]
        ELSE IF e \in gone /\ cy.edges[e].vanishedAt = None
        THEN [state |-> "vanished", vanishedAt |-> 0]
        ELSE cy.edges[e]
  IN  /\ cy' = [vertices |-> cy.vertices \cup elements.vertices,
                edges |-> [e \in (DOMAIN cy.edges \cup reached) \ swept |-> Patched(e)]]
      /\ sweep' = IF gone # swept /\ armed = None THEN VANISHED_GRACE + 1 ELSE armed
      /\ torn' = (refused # {})

(* The elements are built once, from the list and the state as they are    *)
Draw(ns, state, armed) ==
  \E elements \in {Elements(ns, state)} :
    IF cy = None THEN Build(elements, armed) ELSE Update(elements, ns, state, armed)

States(ns) ==
  {state \in [Routers -> UNION {Reports[n] : n \in Routers} \cup {None}] :
     \A n \in Routers : state[n] \in IF n \in Listed(ns) THEN Reports[n] ELSE {None}}

Init ==
  /\ nodes = <<>>
  /\ lastState = [n \in Routers |-> None]
  /\ cy = None
  /\ sweep = None
  /\ torn = FALSE

(* /api/state as the page loads, or the first frame of a socket *)
OnSnapshot(ns, state) ==
  /\ nodes' = ns
  /\ lastState' = state
  /\ Draw(ns, state, sweep)

(* The poller sends a state only when it draws something else *)
OnState(state) ==
  /\ state # lastState
  /\ lastState' = state
  /\ Draw(nodes, state, sweep)
  /\ UNCHANGED nodes

(* The timer of scheduleVanishSweep *)
Sweep ==
  /\ sweep = 0
  /\ Draw(nodes, lastState, None)
  /\ UNCHANGED <<nodes, lastState>>

(* Time passes.  A marked edge's age counts no further than the grace.     *)
Older(edge) ==
  IF edge.vanishedAt # None /\ edge.vanishedAt < VANISHED_GRACE
  THEN [edge EXCEPT !.vanishedAt = @ + 1] ELSE edge

Tick ==
  /\ cy # None
  /\ sweep # 0
  /\ cy' = [cy EXCEPT !.edges = [e \in DOMAIN @ |-> Older(@[e])]]
  /\ sweep' = IF sweep = None THEN None ELSE sweep - 1
  /\ UNCHANGED <<nodes, lastState, torn>>

Next ==
  \/ \E ns \in Inventories : \E state \in States(ns) : OnSnapshot(ns, state)
  \/ \E state \in States(nodes) : OnState(state)
  \/ Sweep
  \/ Tick

Spec == Init /\ [][Next]_vars

(* Time passes and the browser runs the timer *)
FairSpec == Spec /\ WF_vars(Tick) /\ WF_vars(Sweep)

-----------------------------------------------------------------------------
Edge == [state : SessionStates \cup {"vanished", "unknown"}, vanishedAt : 0 .. VANISHED_GRACE \cup {None}]

TypeOK ==
  /\ nodes \in Inventories \cup {<<>>}
  /\ \A n \in Routers : lastState[n] \in Reports[n] \cup {None}
  /\ cy # None => \A e \in DOMAIN cy.edges :
       /\ e \subseteq cy.vertices /\ Cardinality(e) = 2
       /\ cy.edges[e] \in Edge
  /\ sweep \in 0 .. VANISHED_GRACE + 1 \cup {None}
  /\ torn \in BOOLEAN

(* A link is drawn up only when both ends agree it is (dashboard.js:229):  *)
(* a green edge has no end that answers with another state.  A redraw that *)
(* ended in an exception leaves the edges after it as they were.           *)
GreenMeansBothEnds ==
  cy # None /\ ~ torn => \A e \in DOMAIN cy.edges :
    cy.edges[e].state = "Established" =>
      \A s \in Sessions(nodes, lastState) :
        Ends(s) = e => s.state \in {"Established", None}

(* Every session of a router that was read is drawn, whoever the peer is   *)
(* (dashboard.js:183-186, 234-237), except where two outsiders that come   *)
(* under one router-id bear different names: only that ends a redraw.      *)
OnlyTwinsAreRefused ==
  \/ ~ torn /\ (cy # None => Present(nodes, lastState) \subseteq DOMAIN cy.edges)
  \/ torn /\ \E p, q \in Outside(nodes, lastState) :
       /\ Twins(nodes, lastState, p, q)
       /\ View(nodes, lastState, p).to # View(nodes, lastState, q).to

(* A router that could not be read takes no edge along: an edge leaves the *)
(* graph after it was drawn vanished for the grace, and on the word of     *)
(* both its ends.                                                          *)
HeldBeforeRemoved ==
  [][cy # None =>
       \A e \in DOMAIN cy.edges \ DOMAIN cy'.edges :
         /\ cy.edges[e] = [state |-> "vanished", vanishedAt |-> VANISHED_GRACE]
         /\ e \subseteq Reported(nodes', lastState')
         /\ e \notin Present(nodes', lastState')
    ]_vars

(* A session that its two routers keep answering without leaves the graph, *)
(* with no frame to help, unless the redraw that the timer brings ends in  *)
(* an exception and arms no other.                                         *)
LongGone(e) == e \in DOMAIN cy.edges /\ e \in Gone(nodes, lastState)

GoneEdgesLeave ==
  \A a, b \in Routers : ~ <>[](cy # None /\ ~ torn /\ LongGone({a, b}))

-----------------------------------------------------------------------------
(* dashboard.js:537 says an edge that is not in the rebuilt set is marked  *)
(* and then dropped, so that no session that disappeared leaves a green    *)
(* line: with every router read, what is drawn and not built is vanished.  *)
NoStaleEdge ==
  cy # None /\ ~ torn /\ Reported(nodes, lastState) = Listed(nodes) =>
    \A e \in DOMAIN cy.edges \ Present(nodes, lastState) : cy.edges[e].state = "vanished"
=============================================================================
