------------------------ MODULE TopologyGraph_proofs ------------------------
(***************************************************************************)
(* The drawn graph, for any inventories, any reports of any number of      *)
(* routers and any grace.                                                  *)
(***************************************************************************)
EXTENDS TopologyGraph, Selection_proofs

USE GraphAssumption

-----------------------------------------------------------------------------
(* Lists and states that the page may be given.                            *)
Inventory(ns) == ns \in Inventories \cup {<<>>}

Told(state) == \A n \in Routers : state[n] \in Report \cup {None}

LEMMA ListedAreRouters ==
  ASSUME NEW ns, Inventory(ns)
  PROVE  Listed(ns) \subseteq Routers
<1>1. CASE ns = <<>>
  BY <1>1 DEF Listed
<1>2. CASE ns \in Inventories
  <2>1. ns \in Seq([name : Routers, asn : Nat \cup {None}])
    BY <1>2
  <2> DEFINE Line == [name : Routers, asn : Nat \cup {None}]
  <2>2. ASSUME NEW i \in DOMAIN ns PROVE ns[i].name \in Routers
    <3>1. \A line \in Line : line.name \in Routers
      OBVIOUS
    <3>2. ns \in Seq(Line)
      BY <2>1
    <3> HIDE DEF Line
    <3>3. ns[i] \in Line
      BY <3>2
    <3> QED
      BY <3>1, <3>3
  <2> QED
    BY <2>2 DEF Listed
<1> QED
  BY <1>1, <1>2 DEF Inventory

LEMMA StatesTold ==
  ASSUME NEW ns, NEW state \in States(ns)
  PROVE  /\ Told(state)
         /\ \A n \in Routers : state[n] \in Reports[n] \cup {None}
BY DEF States, Told

(* The lines of an inventory are counted, and so are the peers of a report. *)
LEMMA Lines ==
  ASSUME NEW ns, Inventory(ns)
  PROVE  /\ Len(ns) \in Nat /\ DOMAIN ns = 1 .. Len(ns)
         /\ \A i \in DOMAIN ns : ns[i].name \in Listed(ns)
<1> DEFINE Line == [name : Routers, asn : Nat \cup {None}]
<1>1. ns \in Seq(Line)
  <2>1. Inventories \subseteq Seq(Line)
    OBVIOUS
  <2> HIDE DEF Line
  <2>2. <<>> \in Seq(Line)
    OBVIOUS
  <2> QED
    BY <2>1, <2>2 DEF Inventory
<1> HIDE DEF Line
<1>2. Len(ns) \in Nat /\ DOMAIN ns = 1 .. Len(ns)
  BY <1>1
<1> QED
  BY <1>2 DEF Listed

LEMMA PlacesCounted ==
  ASSUME NEW ns, Inventory(ns), NEW state, Told(state), NEW p \in Places(ns, state)
  PROVE  /\ p[1] \in DOMAIN ns /\ p[1] \in Nat /\ p[2] \in Nat
         /\ ns[p[1]].name \in Listed(ns)
         /\ PeerAt(ns, state, p) \in Peer
<1>0. PICK i \in DOMAIN ns : state[ns[i].name] # None /\
        \E j \in DOMAIN state[ns[i].name].peers : p = <<i, j>>
  BY DEF Places
<1>1. PICK j \in DOMAIN state[ns[i].name].peers : p = <<i, j>>
  BY <1>0
<1>2. i \in Nat /\ ns[i].name \in Listed(ns)
  BY Lines
<1>3. state[ns[i].name] \in Report
  BY <1>0, <1>2, ListedAreRouters DEF Told
<1>4. state[ns[i].name].peers \in Seq(Peer)
  BY <1>3 DEF Report
<1> HIDE DEF Peer
<1>5. j \in Nat /\ state[ns[i].name].peers[j] \in Peer
  BY <1>1, <1>4
<1> QED
  BY <1>0, <1>1, <1>2, <1>5 DEF PeerAt

(* What a session says is a state of a session, or nothing.                *)
LEMMA SessionSays ==
  ASSUME NEW ns, Inventory(ns), NEW state, Told(state), NEW s \in Sessions(ns, state)
  PROVE  s.state \in SessionStates \cup {None}
<1>1. PICK p \in Places(ns, state) : s.state = PeerAt(ns, state, p).state
  BY DEF Sessions, View
<1> QED
  BY <1>1, PlacesCounted DEF Peer

-----------------------------------------------------------------------------
(* An edge is a pair of two names, and its sessions are those between them. *)
LEMMA PairOfTwo ==
  ASSUME NEW a, NEW b
  PROVE  Cardinality({a, b}) = IF a = b THEN 1 ELSE 2
<1>1. IsFiniteSet({a}) /\ Cardinality({a}) = 1
  BY FS_Singleton
<1>2. Cardinality({a} \cup {b}) = IF b \in {a} THEN Cardinality({a}) ELSE Cardinality({a}) + 1
  BY <1>1, FS_AddElement
<1>3. b \in {a} <=> a = b
  OBVIOUS
<1>4. {a, b} = {a} \cup {b}
  OBVIOUS
<1> QED
  BY <1>1, <1>2, <1>3, <1>4

LEMMA PresentArePairs ==
  ASSUME NEW ns, NEW state, NEW e \in Present(ns, state)
  PROVE  Cardinality(e) = 2
<1>1. PICK s \in Sessions(ns, state) : s.from # s.to /\ e = {s.from, s.to}
  BY DEF Present, Pairs, Ends
<1> QED
  BY <1>1, PairOfTwo

LEMMA AbsentHaveNoSession ==
  ASSUME NEW ns, NEW state, NEW e, Cardinality(e) = 2, e \notin Present(ns, state),
         NEW s \in Sessions(ns, state)
  PROVE  Ends(s) # e
<1> SUFFICES ASSUME Ends(s) = e PROVE FALSE
  OBVIOUS
<1>1. s.from # s.to
  <2>1. {s.from, s.to} = e
    BY DEF Ends
  <2>2. Cardinality({s.from, s.to}) = 2
    BY <2>1
  <2>3. s.from = s.to => Cardinality({s.from, s.to}) = 1
    BY PairOfTwo
  <2> QED
    BY <2>2, <2>3
<1> QED
  BY <1>1 DEF Present, Pairs

-----------------------------------------------------------------------------
(* Of some views there is always a worst.                                  *)
LEMMA RankBounded == \A v : Rank(v) \in 0 .. 4
BY DEF Rank

LEMMA WorstExists ==
  ASSUME NEW views, views # {}
  PROVE  \E worst \in views : \A v \in views : Rank(v) <= Rank(worst)
<1> DEFINE Of(r) == \E v \in views : Rank(v) = r
<1>1. CASE Of(4)
  BY <1>1, RankBounded
<1>2. CASE ~ Of(4) /\ Of(3)
  BY <1>2, RankBounded
<1>3. CASE ~ Of(4) /\ ~ Of(3) /\ Of(2)
  BY <1>3, RankBounded
<1>4. CASE ~ Of(4) /\ ~ Of(3) /\ ~ Of(2) /\ Of(1)
  BY <1>4, RankBounded
<1>5. CASE ~ Of(4) /\ ~ Of(3) /\ ~ Of(2) /\ ~ Of(1)
  <2>1. \A v \in views : Rank(v) = 0
    BY <1>5, RankBounded
  <2> QED
    BY <2>1
<1> QED
  BY <1>1, <1>2, <1>3, <1>4, <1>5

ViewsOf(sessions, edge) ==
  {s.state : s \in {t \in sessions : Ends(t) = edge}} \ {None}

LEMMA ColourIsWorst ==
  ASSUME NEW sessions, NEW edge, ViewsOf(sessions, edge) # {}
  PROVE  /\ Colour(sessions, edge) \in ViewsOf(sessions, edge)
         /\ \A v \in ViewsOf(sessions, edge) : Rank(v) <= Rank(Colour(sessions, edge))
<1> DEFINE views == ViewsOf(sessions, edge)
<1>1. Colour(sessions, edge) = CHOOSE worst \in views : \A v \in views : Rank(v) <= Rank(worst)
  BY DEF Colour, ViewsOf
<1> HIDE DEF views
<1>2. \E worst \in views : \A v \in views : Rank(v) <= Rank(worst)
  BY WorstExists DEF views
<1>3. /\ Colour(sessions, edge) \in views
      /\ \A v \in views : Rank(v) <= Rank(Colour(sessions, edge))
  BY <1>1, <1>2
<1> QED
  BY <1>3 DEF views

LEMMA ColourTyped ==
  ASSUME NEW ns, Inventory(ns), NEW state, Told(state), NEW edge
  PROVE  Colour(Sessions(ns, state), edge) \in SessionStates \cup {"unknown"}
<1>1. CASE ViewsOf(Sessions(ns, state), edge) = {}
  BY <1>1 DEF Colour, ViewsOf
<1>2. CASE ViewsOf(Sessions(ns, state), edge) # {}
  <2>1. Colour(Sessions(ns, state), edge) \in ViewsOf(Sessions(ns, state), edge)
    BY <1>2, ColourIsWorst
  <2> QED
    BY <2>1, SessionSays DEF ViewsOf
<1> QED
  BY <1>1, <1>2

LEMMA GreenColour ==
  ASSUME NEW sessions, NEW edge, Colour(sessions, edge) = "Established",
         NEW s \in sessions, Ends(s) = edge
  PROVE  s.state \in {"Established", None}
<1> SUFFICES ASSUME s.state # None PROVE s.state = "Established"
  OBVIOUS
<1>1. s.state \in ViewsOf(sessions, edge)
  BY DEF ViewsOf
<1>2. Rank(s.state) <= Rank("Established")
  BY <1>1, ColourIsWorst
<1> QED
  BY <1>2 DEF Rank

-----------------------------------------------------------------------------
(* Peers outside the topology.  Of the ones that come under one router-id  *)
(* there is a first, and that one's label is drawn.                        *)
LEMMA RouterListed ==
  ASSUME NEW ns, Inventory(ns), NEW state, NEW peer, Router(ns, state, peer) # None
  PROVE  Router(ns, state, peer) \in Listed(ns)
<1>1. /\ DOMAIN ns \subseteq Nat
      /\ \A i \in DOMAIN ns : i <= Len(ns)
      /\ \A i \in DOMAIN ns : ns[i].name \in Listed(ns)
      /\ Len(ns) \in Nat
  BY Lines
<1>2. ASSUME NEW id, ByRouterId(ns, state, id) # None
      PROVE  ByRouterId(ns, state, id) \in Listed(ns)
  <2> DEFINE places == {i \in DOMAIN ns : Identity(ns[i], state).routerId = id}
             after == {Len(ns) - i : i \in places}
  <2>1. places # {} /\ ByRouterId(ns, state, id)
          = ns[CHOOSE i \in places : \A j \in places : j <= i].name
    BY <1>2 DEF ByRouterId
  <2>2. places \subseteq DOMAIN ns
    OBVIOUS
  <2> HIDE DEF places
  <2>3. after \in SUBSET Nat /\ after # {}
    BY <1>1, <2>1, <2>2
  <2>4. PICK a \in after : \A b \in after : a <= b
    BY <2>3, Least
  <2>5. PICK i \in places : a = Len(ns) - i
    OBVIOUS
  <2>6. ASSUME NEW j \in places PROVE j <= i
    <3>1. a <= Len(ns) - j
      BY <2>4
    <3> QED
      BY <1>1, <2>2, <2>5, <3>1
  <2>7. (CHOOSE k \in places : \A j \in places : j <= k) \in places
    BY <2>6
  <2> QED
    BY <1>1, <2>1, <2>2, <2>7
<1>3. ASSUME NEW as, ByAS(ns, state, as) # None
      PROVE  ByAS(ns, state, as) \in Listed(ns)
  <2> DEFINE places == {i \in DOMAIN ns : Identity(ns[i], state).asn = as}
  <2>1. places # {} /\ ByAS(ns, state, as)
          = ns[CHOOSE i \in places : \A j \in places : i <= j].name
    BY <1>3 DEF ByAS
  <2>2. places \subseteq DOMAIN ns
    OBVIOUS
  <2> HIDE DEF places
  <2>3. \E i \in places : \A j \in places : i <= j
    BY <1>1, <2>1, <2>2, Least
  <2> QED
    BY <1>1, <2>1, <2>2, <2>3
<1> QED
  BY <1>2, <1>3 DEF Router

LEMMA FirstPlace ==
  ASSUME NEW ns, Inventory(ns), NEW state, Told(state),
         NEW S \in SUBSET Places(ns, state), S # {}
  PROVE  \E p \in S : \A q \in S : ~ Before(q, p)
<1>1. \A p \in S : p[1] \in Nat /\ p[2] \in Nat
  BY PlacesCounted
<1>2. {p[1] : p \in S} \in SUBSET Nat /\ {p[1] : p \in S} # {}
  BY <1>1
<1>3. PICK i \in {p[1] : p \in S} : \A j \in {p[1] : p \in S} : i <= j
  BY <1>2, Least
<1> DEFINE row == {p[2] : p \in {q \in S : q[1] = i}}
<1>4. row \in SUBSET Nat /\ row # {}
  BY <1>1
<1>5. PICK k \in row : \A j \in row : k <= j
  BY <1>4, Least
<1>6. PICK p \in S : p[1] = i /\ p[2] = k
  OBVIOUS
<1>7. ASSUME NEW q \in S, Before(q, p) PROVE FALSE
  <2>1. i <= q[1]
    BY <1>3
  <2>2. q[1] = i /\ q[2] < k
    BY <1>1, <1>6, <1>7, <2>1 DEF Before
  <2>3. k <= q[2]
    BY <1>5, <2>2
  <2> QED
    BY <1>1, <1>6, <2>2, <2>3
<1> QED
  BY <1>7

LEMMA FirstIsDrawn ==
  ASSUME NEW ns, Inventory(ns), NEW state, Told(state), NEW p \in Outside(ns, state)
  PROVE  \E f \in Outside(ns, state) :
           Twins(ns, state, f, p) /\ Label(PeerAt(ns, state, f)) \in Externals(ns, state)
<1> DEFINE twins == {o \in Outside(ns, state) : Twins(ns, state, o, p)}
<1>1. twins \in SUBSET Places(ns, state) /\ twins # {}
  BY DEF Outside, Twins
<1>2. PICK f \in twins : \A o \in twins : ~ Before(o, f)
  BY <1>1, FirstPlace
<1>3. \A o \in Outside(ns, state) : Twins(ns, state, o, f) => ~ Before(o, f)
  BY <1>2 DEF Twins
<1> QED
  BY <1>2, <1>3 DEF Externals

TwinsDiffer(ns, state) ==
  \E p, q \in Outside(ns, state) :
    Twins(ns, state, p, q) /\ View(ns, state, p).to # View(ns, state, q).to

(* An edge lacks an end only where two of one router-id bear two names.    *)
LEMMA LooseEndsAreTwins ==
  ASSUME NEW ns, Inventory(ns), NEW state, Told(state),
         NEW e \in Present(ns, state), ~ e \subseteq Vertices(ns, state)
  PROVE  TwinsDiffer(ns, state)
<1>1. PICK p \in Places(ns, state) : e = {View(ns, state, p).from, View(ns, state, p).to}
  BY DEF Present, Pairs, Sessions, Ends
<1>2. View(ns, state, p).from \in Listed(ns)
  BY PlacesCounted DEF View
<1>3. View(ns, state, p).to \notin Listed(ns) \cup Externals(ns, state)
  BY <1>1, <1>2 DEF Vertices
<1>4. Router(ns, state, PeerAt(ns, state, p)) = None
  BY <1>3, RouterListed DEF View
<1>5. p \in Outside(ns, state)
  BY <1>4 DEF Outside
<1>6. PICK f \in Outside(ns, state) :
        Twins(ns, state, f, p) /\ Label(PeerAt(ns, state, f)) \in Externals(ns, state)
  BY <1>5, FirstIsDrawn
<1>7. View(ns, state, f).to = Label(PeerAt(ns, state, f))
  BY DEF Outside, View
<1> QED
  BY <1>3, <1>5, <1>6, <1>7 DEF TwinsDiffer

-----------------------------------------------------------------------------
(* What is drawn.  A time since the mark is kept only of marked edges, and *)
(* an edge that is green now, or is not drawn, is so for a reason only     *)
(* where the last redraw came to its end.                                  *)
Whole(graph) == graph = [vertices |-> graph.vertices, edges |-> graph.edges]

EdgeRight(vertices, e, edge) ==
  /\ e \subseteq vertices /\ Cardinality(e) = 2
  /\ edge \in Edge
  /\ edge.vanishedAt # None => edge.state = "vanished"

GraphRight(graph) ==
  /\ Whole(graph)
  /\ \A e \in DOMAIN graph.edges : EdgeRight(graph.vertices, e, graph.edges[e])

GreenRight(ns, state, e, edge) ==
  edge.state = "Established" =>
    \A s \in Sessions(ns, state) : Ends(s) = e => s.state \in {"Established", None}

PictureRight(ns, state, graph) ==
  /\ \A e \in DOMAIN graph.edges : GreenRight(ns, state, e, graph.edges[e])
  /\ Present(ns, state) \subseteq DOMAIN graph.edges

Given(ns, state) ==
  /\ Inventory(ns)
  /\ \A n \in Routers : state[n] \in Reports[n] \cup {None}

Armed(timer) == timer \in 0 .. VANISHED_GRACE + 1 \cup {None}

DrawnRight(ns, state, graph, tear) ==
  /\ tear \in BOOLEAN
  /\ graph # None => GraphRight(graph)
  /\ graph # None /\ ~ tear => PictureRight(ns, state, graph)
  /\ tear => TwinsDiffer(ns, state)

IInv ==
  /\ Given(nodes, lastState)
  /\ Armed(sweep)
  /\ DrawnRight(nodes, lastState, cy, torn)

LEMMA IInvGives == IInv => TypeOK /\ GreenMeansBothEnds /\ OnlyTwinsAreRefused
<1> SUFFICES ASSUME IInv PROVE TypeOK /\ GreenMeansBothEnds /\ OnlyTwinsAreRefused
  OBVIOUS
<1>1. TypeOK
  BY DEF IInv, TypeOK, Given, Inventory, Armed, DrawnRight, GraphRight, EdgeRight
<1>2. GreenMeansBothEnds
  BY DEF IInv, GreenMeansBothEnds, DrawnRight, PictureRight, GreenRight
<1>3. OnlyTwinsAreRefused
  BY DEF IInv, OnlyTwinsAreRefused, DrawnRight, PictureRight, TwinsDiffer
<1> QED
  BY <1>1, <1>2, <1>3

LEMMA GivenTold ==
  ASSUME NEW ns, NEW state, Given(ns, state)
  PROVE  Inventory(ns) /\ Told(state)
BY DEF Given, Told

-----------------------------------------------------------------------------
(* The elements that one redraw puts on the graph.                         *)
LEMMA ElementsAre ==
  ASSUME NEW ns, NEW state
  PROVE  /\ Elements(ns, state).vertices = Vertices(ns, state)
         /\ DOMAIN Elements(ns, state).edges = Present(ns, state)
         /\ \A e \in Present(ns, state) :
              Elements(ns, state).edges[e] = Drawn(Sessions(ns, state), e)
         /\ Whole(Elements(ns, state))
<1>1. Elements(ns, state) =
        [vertices |-> Vertices(ns, state),
         edges |-> [e \in Present(ns, state) |-> Drawn(Sessions(ns, state), e)]]
  BY DEF Elements, Present
<1> QED
  BY <1>1 DEF Whole

LEMMA ElementRight ==
  ASSUME NEW ns, NEW state, Given(ns, state), NEW e \in Present(ns, state)
  PROVE  /\ Cardinality(e) = 2
         /\ Elements(ns, state).edges[e] \in Edge
         /\ Elements(ns, state).edges[e].vanishedAt = None
         /\ GreenRight(ns, state, e, Elements(ns, state).edges[e])
<1>1. Elements(ns, state).edges[e]
        = [state |-> Colour(Sessions(ns, state), e), vanishedAt |-> None]
  BY ElementsAre DEF Drawn
<1>2. Colour(Sessions(ns, state), e) \in SessionStates \cup {"unknown"}
  BY GivenTold, ColourTyped
<1> QED
  BY <1>1, <1>2, PresentArePairs, GreenColour DEF Edge, GreenRight

(* What cytoscape refuses it refuses for a twin.                           *)
LEMMA RefusedAreTwins ==
  ASSUME NEW ns, NEW state, Given(ns, state), NEW vertices, NEW drawn,
         Refused(Elements(ns, state), vertices, drawn) # {}
  PROVE  TwinsDiffer(ns, state)
<1>1. PICK e \in Present(ns, state) : ~ e \subseteq vertices \cup Vertices(ns, state)
  BY ElementsAre DEF Refused
<1> QED
  BY <1>1, GivenTold, LooseEndsAreTwins

(* An edge that comes before itself is none: the refused is not reached.   *)
LEMMA NotReached ==
  ASSUME NEW ns, NEW state, Given(ns, state), NEW e
  PROVE  ~ Earlier(ns, state, e, e)
<1> SUFFICES ASSUME Earlier(ns, state, e, e) PROVE FALSE
  OBVIOUS
<1>1. PICK p \in Places(ns, state) : Before(p, p)
  BY DEF Earlier
<1>2. p[1] \in Nat /\ p[2] \in Nat
  BY GivenTold, PlacesCounted
<1> QED
  BY <1>1, <1>2 DEF Before

LEMMA BuildRight ==
  ASSUME NEW ns, NEW state, Given(ns, state), NEW armed, Build(Elements(ns, state), armed)
  PROVE  DrawnRight(ns, state, cy', torn') /\ sweep' = armed
<1> DEFINE elements == Elements(ns, state)
           refused == Refused(elements, {}, {})
<1>1. torn' = (refused # {}) /\ cy' = (IF torn' THEN None ELSE elements) /\ sweep' = armed
  BY DEF Build
<1>2. CASE refused # {}
  BY <1>1, <1>2, RefusedAreTwins DEF DrawnRight
<1>3. CASE refused = {}
  <2>1. ~ torn' /\ cy' = elements
    BY <1>1, <1>3
  <2>2. ASSUME NEW e \in DOMAIN elements.edges
        PROVE  EdgeRight(elements.vertices, e, elements.edges[e])
    <3>1. e \subseteq elements.vertices
      BY <1>3 DEF Refused
    <3> QED
      BY <3>1, ElementsAre, ElementRight DEF EdgeRight
  <2>3. GraphRight(elements)
    BY <2>2, ElementsAre DEF GraphRight
  <2>4. PictureRight(ns, state, elements)
    BY ElementsAre, ElementRight DEF PictureRight
  <2> QED
    BY <1>1, <2>1, <2>3, <2>4 DEF DrawnRight
<1> QED
  BY <1>2, <1>3

(* What updateGraph leaves, by the edge: as built, marked, or as it was.   *)
LEMMA UpdateRight ==
  ASSUME NEW ns, NEW state, Given(ns, state), NEW armed, Armed(armed),
         GraphRight(cy), Update(Elements(ns, state), ns, state, armed)
  PROVE  DrawnRight(ns, state, cy', torn') /\ Armed(sweep')
<1> DEFINE elements == Elements(ns, state)
           present == Present(ns, state)
           refused == Refused(elements, cy.vertices, DOMAIN cy.edges)
           reached == {e \in DOMAIN elements.edges : \A r \in refused : Earlier(ns, state, e, r)}
           gone == IF refused = {} THEN Gone(ns, state) ELSE {}
           swept == {e \in gone : Expired(e)}
           Patched(e) == IF e \in reached THEN elements.edges[e]
                         ELSE IF e \in gone /\ cy.edges[e].vanishedAt = None
                         THEN [state |-> "vanished", vanishedAt |-> 0]
                         ELSE cy.edges[e]
<1>1. /\ cy' = [vertices |-> cy.vertices \cup elements.vertices,
                edges |-> [e \in (DOMAIN cy.edges \cup reached) \ swept |-> Patched(e)]]
      /\ torn' = (refused # {})
      /\ Armed(sweep')
  BY DEF Update, Armed
<1>2. /\ cy'.vertices = cy.vertices \cup elements.vertices
      /\ DOMAIN cy'.edges = (DOMAIN cy.edges \cup reached) \ swept
      /\ \A e \in DOMAIN cy'.edges : cy'.edges[e] = Patched(e)
      /\ Whole(cy')
  BY <1>1 DEF Whole
<1>3. reached \subseteq present
  BY ElementsAre
<1>4. ASSUME NEW e \in DOMAIN cy'.edges, e \in reached
      PROVE  EdgeRight(cy'.vertices, e, cy'.edges[e]) /\ GreenRight(ns, state, e, cy'.edges[e])
  <2>1. e \subseteq cy'.vertices
    <3>1. CASE e \in DOMAIN cy.edges
      BY <1>2, <3>1 DEF GraphRight, EdgeRight
    <3>2. CASE e \notin DOMAIN cy.edges
      <4>1. e \notin refused
        BY <1>4, NotReached
      <4> QED
        BY <1>2, <1>4, <3>2, <4>1 DEF Refused
    <3> QED
      BY <3>1, <3>2
  <2>2. cy'.edges[e] = elements.edges[e]
    BY <1>2, <1>4
  <2> QED
    BY <1>3, <1>4, <2>1, <2>2, ElementRight DEF EdgeRight
<1>5. ASSUME NEW e \in DOMAIN cy'.edges, e \notin reached
      PROVE  /\ EdgeRight(cy'.vertices, e, cy'.edges[e])
             /\ refused = {} => GreenRight(ns, state, e, cy'.edges[e])
  <2>1. EdgeRight(cy.vertices, e, cy.edges[e])
    BY <1>2, <1>5 DEF GraphRight
  <2>2. e \subseteq cy'.vertices /\ Cardinality(e) = 2
    BY <1>2, <2>1 DEF EdgeRight
  <2>3. cy'.edges[e] \in {[state |-> "vanished", vanishedAt |-> 0], cy.edges[e]}
    BY <1>2, <1>5
  <2>4. EdgeRight(cy'.vertices, e, cy'.edges[e])
    BY <2>1, <2>2, <2>3 DEF EdgeRight, Edge
  <2>5. refused = {} => \A s \in Sessions(ns, state) : Ends(s) # e
    BY <1>5, <2>2, ElementsAre, AbsentHaveNoSession
  <2> QED
    BY <2>4, <2>5 DEF GreenRight
<1>6. GraphRight(cy')
  BY <1>2, <1>4, <1>5 DEF GraphRight
<1>7. ASSUME refused = {} PROVE PictureRight(ns, state, cy')
  <2>1. reached = present
    BY <1>7, ElementsAre
  <2>2. swept \cap present = {}
    BY DEF Gone
  <2>3. present \subseteq DOMAIN cy'.edges
    BY <1>2, <2>1, <2>2
  <2> QED
    BY <1>4, <1>5, <1>7, <2>3 DEF PictureRight
<1>8. refused # {} => TwinsDiffer(ns, state)
  BY RefusedAreTwins
<1> QED
  BY <1>1, <1>6, <1>7, <1>8 DEF DrawnRight

LEMMA DrawRight ==
  ASSUME NEW ns, NEW state, Given(ns, state), NEW armed, Armed(armed),
         cy # None => GraphRight(cy), Draw(ns, state, armed)
  PROVE  DrawnRight(ns, state, cy', torn') /\ Armed(sweep')
<1>1. CASE cy = None /\ Build(Elements(ns, state), armed)
  BY <1>1, BuildRight
<1>2. CASE cy # None /\ Update(Elements(ns, state), ns, state, armed)
  BY <1>2, UpdateRight
<1> QED
  BY <1>1, <1>2 DEF Draw

-----------------------------------------------------------------------------
(* Every redraw is of a list and a state that the page then holds.         *)
LEMMA Redraws ==
  ASSUME IInv,
         \/ \E ns \in Inventories : \E state \in States(ns) : OnSnapshot(ns, state)
         \/ \E state \in States(nodes) : OnState(state)
         \/ Sweep
  PROVE  /\ Given(nodes', lastState')
         /\ \E armed : Armed(armed) /\ Draw(nodes', lastState', armed)
<1>1. Armed(sweep) /\ Armed(None) /\ Given(nodes, lastState)
  BY DEF IInv, Armed
<1>2. ASSUME NEW ns \in Inventories, NEW state \in States(ns), OnSnapshot(ns, state)
      PROVE  Given(nodes', lastState') /\ Draw(nodes', lastState', sweep)
  BY <1>2, StatesTold DEF OnSnapshot, Given, Inventory
<1>3. ASSUME NEW state \in States(nodes), OnState(state)
      PROVE  Given(nodes', lastState') /\ Draw(nodes', lastState', sweep)
  BY <1>1, <1>3, StatesTold DEF OnState, Given, Inventory
<1>4. ASSUME Sweep
      PROVE  Given(nodes', lastState') /\ Draw(nodes', lastState', None)
  BY <1>1, <1>4 DEF Sweep, Given, Inventory
<1> QED
  BY <1>1, <1>2, <1>3, <1>4

(* A tick more changes no colour and no mark.                              *)
LEMMA OlderRight ==
  ASSUME NEW vertices, NEW e, NEW edge, EdgeRight(vertices, e, edge)
  PROVE  EdgeRight(vertices, e, Older(edge)) /\ Older(edge).state = edge.state
<1>1. /\ Older(edge) \in Edge
      /\ Older(edge).state = edge.state
      /\ Older(edge).vanishedAt # None => edge.vanishedAt # None
  BY DEF EdgeRight, Edge, Older
<1> QED
  BY <1>1 DEF EdgeRight

LEMMA TickRight ==
  ASSUME IInv, Tick
  PROVE  IInv' /\ DOMAIN cy'.edges = DOMAIN cy.edges
<1>1. /\ nodes' = nodes /\ lastState' = lastState /\ torn' = torn
      /\ Armed(sweep) /\ sweep # 0
      /\ sweep' = IF sweep = None THEN None ELSE sweep - 1
      /\ cy' = [cy EXCEPT !.edges = [e \in DOMAIN @ |-> Older(@[e])]]
      /\ cy # None /\ GraphRight(cy)
      /\ DrawnRight(nodes, lastState, cy, torn)
  BY DEF Tick, IInv, DrawnRight
<1>2. cy' = [vertices |-> cy.vertices, edges |-> [e \in DOMAIN cy.edges |-> Older(cy.edges[e])]]
  <2>1. cy = [vertices |-> cy.vertices, edges |-> cy.edges]
    BY <1>1 DEF GraphRight, Whole
  <2> QED
    BY <1>1, <2>1
<1>3. /\ Whole(cy') /\ cy'.vertices = cy.vertices
      /\ DOMAIN cy'.edges = DOMAIN cy.edges
      /\ \A e \in DOMAIN cy.edges : cy'.edges[e] = Older(cy.edges[e])
  BY <1>2 DEF Whole
<1>4. GraphRight(cy')
  BY <1>1, <1>3, OlderRight DEF GraphRight
<1>5. PictureRight(nodes, lastState, cy) => PictureRight(nodes, lastState, cy')
  <2>1. \A e \in DOMAIN cy.edges : cy'.edges[e].state = cy.edges[e].state
    BY <1>1, <1>3, OlderRight DEF GraphRight
  <2> QED
    BY <1>3, <2>1 DEF PictureRight, GreenRight
<1>6. DrawnRight(nodes', lastState', cy', torn')
  BY <1>1, <1>4, <1>5 DEF DrawnRight
<1>7. Armed(sweep')
  BY <1>1 DEF Armed
<1>8. Given(nodes', lastState')
  BY <1>1 DEF IInv
<1> QED
  BY <1>3, <1>6, <1>7, <1>8 DEF IInv

LEMMA InitHolds == Init => IInv
BY DEF Init, IInv, Given, Inventory, Armed, DrawnRight

LEMMA NextKeeps == IInv /\ [Next]_vars => IInv'
<1> SUFFICES ASSUME IInv, [Next]_vars PROVE IInv'
  OBVIOUS
<1>1. CASE UNCHANGED vars
  BY <1>1 DEF vars, IInv
<1>2. CASE Tick
  BY <1>2, TickRight
<1>3. CASE Next /\ ~ Tick
  <2>1. Given(nodes', lastState')
    BY <1>3, Redraws DEF Next
  <2>2. PICK armed : Armed(armed) /\ Draw(nodes', lastState', armed)
    BY <1>3, Redraws DEF Next
  <2>3. cy # None => GraphRight(cy)
    BY DEF IInv, DrawnRight
  <2>4. DrawnRight(nodes', lastState', cy', torn') /\ Armed(sweep')
    BY <2>1, <2>2, <2>3, DrawRight
  <2> QED
    BY <2>1, <2>4 DEF IInv
<1> QED
  BY <1>1, <1>2, <1>3

LEMMA IInvAlways == Spec => []IInv
BY InitHolds, NextKeeps, PTL DEF Spec

-----------------------------------------------------------------------------
(* Every drawn edge joins two vertices of the page, in a state that the    *)
(* page has a style for, whichever outsiders share a router-id:            *)
(* buildElements and updateGraph keep it so, an exception between two      *)
(* edges included.                                                         *)
THEOREM TypeCorrect == Spec => []TypeOK
BY IInvAlways, IInvGives, PTL

(* After a redraw that came to its end no green line is over an end that   *)
(* says the session is down, whichever end was read, listed or answered    *)
(* last.                                                                   *)
THEOREM GreenAlwaysMeansBothEnds == Spec => []GreenMeansBothEnds
BY IInvAlways, IInvGives, PTL

(* buildElements leaves an edge without an end, and so a redraw unfinished,*)
(* only where it gave one vertex to two outsiders of different names; in   *)
(* every other case each session of a router that was read is drawn.       *)
THEOREM OnlyTwinsAreEverRefused == Spec => []OnlyTwinsAreRefused
BY IInvAlways, IInvGives, PTL

(* updateGraph takes an edge away when it was drawn vanished for the grace *)
(* and both of its ends answer without it, and on no other word.           *)
HeldNow ==
  cy # None =>
    \A e \in DOMAIN cy.edges \ DOMAIN cy'.edges :
      /\ cy.edges[e] = [state |-> "vanished", vanishedAt |-> VANISHED_GRACE]
      /\ e \subseteq Reported(nodes', lastState')
      /\ e \notin Present(nodes', lastState')

LEMMA UpdateHolds ==
  ASSUME IInv, cy # None, NEW elements, NEW armed, Update(elements, nodes', lastState', armed)
  PROVE  HeldNow
<1> SUFFICES ASSUME NEW e \in DOMAIN cy.edges \ DOMAIN cy'.edges
             PROVE  /\ cy.edges[e] = [state |-> "vanished", vanishedAt |-> VANISHED_GRACE]
                    /\ e \subseteq Reported(nodes', lastState')
                    /\ e \notin Present(nodes', lastState')
  BY DEF HeldNow
<1>1. e \in Gone(nodes', lastState') /\ Expired(e)
  BY DEF Update
<1>2. cy.edges[e] \in Edge /\ (cy.edges[e].vanishedAt # None => cy.edges[e].state = "vanished")
  BY DEF IInv, DrawnRight, GraphRight, EdgeRight
<1>3. cy.edges[e] = [state |-> "vanished", vanishedAt |-> VANISHED_GRACE]
  BY <1>1, <1>2 DEF Expired, Edge
<1> QED
  BY <1>1, <1>3 DEF Gone

THEOREM AlwaysHeldBeforeRemoved == Spec => HeldBeforeRemoved
<1>1. IInv /\ [Next]_vars => [HeldNow]_vars
  <2> SUFFICES ASSUME IInv, Next, cy # None PROVE HeldNow
    BY DEF HeldNow
  <2>1. CASE Tick
    BY <2>1, TickRight DEF HeldNow
  <2>2. CASE ~ Tick
    <3>1. PICK armed : Armed(armed) /\ Draw(nodes', lastState', armed)
      BY <2>2, Redraws DEF Next
    <3> QED
      BY <3>1, UpdateHolds DEF Draw
  <2> QED
    BY <2>1, <2>2
<1> QED
  BY <1>1, IInvAlways, PTL DEF Spec, HeldBeforeRemoved, HeldNow
=============================================================================
