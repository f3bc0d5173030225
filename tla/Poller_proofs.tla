--------------------------- MODULE Poller_proofs ----------------------------
(***************************************************************************)
(* LabPoller and the page that listens to it, for every topology, every    *)
(* set of routers, sessions and prefixes and every sequence of polls.      *)
(*                                                                         *)
(* Of the poller alone (Spec): types, that the ring is the last            *)
(* EVENTS_RING events under ids with no gap and answers every catch-up,    *)
(* and that identities the routers told are published with their state and *)
(* kept.                                                                   *)
(*                                                                         *)
(* Of the poller with a listening page (ListenerSpec): its events pane     *)
(* tells the truth about the lab.  Between two polls nothing is pending,   *)
(* so what was told is what was heard.  A poll may change what is heard of *)
(* an item only where _diff_events names the change (NamedOrSame), and     *)
(* each event leaves `pending` by being told.                              *)
(***************************************************************************)
EXTENDS Listener, Selection_proofs, TLAPS

-----------------------------------------------------------------------------
(* The ring and its ids.                                                   *)

LogTyped ==
  /\ last_event_id \in Nat
  /\ events \in Seq([id : Nat, what : Said])
  /\ pending \subseteq Said

LEMMA KeepIsTheLast ==
  ASSUME LogTyped, RingHoldsTheLast, NEW ev \in Said, record_event(ev)
  PROVE  last_event_id' \in Nat /\ events' \in Seq([id : Nat, what : Said]) /\ RingHoldsTheLast'
<1> DEFINE e == Recorded(ev, last_event_id + 1)
           full == Append(Tail(events), e)
<1>1. e \in [id : Nat, what : Said] /\ e.id = last_event_id + 1
  BY DEF Recorded, LogTyped
<1>2. /\ last_event_id' = last_event_id + 1
      /\ events' = IF Len(events) < EVENTS_RING THEN Append(events, e) ELSE full
  BY DEF record_event, Keep
<1> HIDE DEF e
<1> USE PollerAssumption DEF LogTyped, RingHoldsTheLast
<1>3. CASE Len(events) < EVENTS_RING
  BY <1>1, <1>2, <1>3
<1>4. CASE ~ Len(events) < EVENTS_RING
  <2>1. Len(events) = EVENTS_RING /\ events # <<>>
    BY <1>4
  <2>2. /\ Tail(events) \in Seq([id : Nat, what : Said])
        /\ Len(Tail(events)) = EVENTS_RING - 1
        /\ \A k \in 1 .. EVENTS_RING - 1 : Tail(events)[k] = events[k + 1]
    BY <2>1
  <2>3. /\ full \in Seq([id : Nat, what : Said])
        /\ Len(full) = EVENTS_RING
        /\ \A k \in 1 .. EVENTS_RING : full[k] = IF k = EVENTS_RING THEN e ELSE events[k + 1]
    BY <1>1, <2>2
  <2> HIDE DEF full
  <2>4. ASSUME NEW k \in 1 .. EVENTS_RING
        PROVE  full[k].id = last_event_id + 1 - EVENTS_RING + k
    <3>1. CASE k = EVENTS_RING
      BY <1>1, <2>3, <3>1
    <3>2. CASE k # EVENTS_RING
      <4>1. k + 1 \in DOMAIN events /\ full[k] = events[k + 1]
        BY <2>1, <2>3, <3>2
      <4>2. events[k + 1].id = last_event_id - EVENTS_RING + (k + 1)
        BY <2>1, <4>1
      <4> QED
        BY <4>1, <4>2
    <3> QED
      BY <3>1, <3>2
  <2>5. events' = full /\ ~ last_event_id' < EVENTS_RING
    BY <1>2, <1>4, <2>1
  <2>6. DOMAIN full = 1 .. EVENTS_RING
    BY <2>3
  <2>7. last_event_id' = last_event_id + 1 /\ Len(events') = EVENTS_RING
    BY <1>2, <2>3, <2>5
  <2>8. RingHoldsTheLast'
    BY <2>4, <2>5, <2>6, <2>7
  <2> QED
    BY <2>3, <2>5, <2>7, <2>8
<1> QED
  BY <1>3, <1>4

(* The ids of the ring ascend without a gap, so those after `since` are    *)
(* its end, and the answer to a catch-up is as long as what is missing.    *)
LEMMA RingAnswersTheGap ==
  ASSUME LogTyped, RingHoldsTheLast
  PROVE  CatchUpAnswersTheGap
<1> DEFINE n == Len(events)
           Entry == [id : Nat, what : Said]
           first == last_event_id - n
<1>1. events \in Seq(Entry) /\ n \in Nat /\ DOMAIN events = 1 .. n
  BY DEF LogTyped
<1>2. \A k \in 1 .. n : events[k] \in Entry /\ events[k].id = first + k
  <2>1. \A k \in 1 .. n : events[k].id = first + k
    BY <1>1 DEF RingHoldsTheLast
  <2>2. \A k \in 1 .. n : events[k] \in Entry
    <3> HIDE DEF Entry
    <3> QED
      BY <1>1
  <2> QED
    BY <2>1, <2>2
<1>3. /\ last_event_id \in Nat /\ first \in Nat
      /\ n = IF last_event_id < EVENTS_RING THEN last_event_id ELSE EVENTS_RING
  BY PollerAssumption DEF LogTyped, RingHoldsTheLast
<1> HIDE DEF n, first
<1>4. n \in Nat /\ first \in Nat /\ last_event_id \in Nat /\ first + n = last_event_id
  BY <1>1, <1>3 DEF first
<1>5. ASSUME NEW since \in 0 .. last_event_id
      PROVE  LET answer == events_since(since)
                 missing == last_event_id - since
             IN  /\ Len(answer) = IF missing < EVENTS_RING THEN missing ELSE EVENTS_RING
                 /\ \A k \in DOMAIN answer : answer[k].id = last_event_id - Len(answer) + k
  <2> DEFINE S == {e \in Range(events) : e.id > since}
             m == IF since < first THEN 0 ELSE since - first
             answer == events_since(since)
  <2>1. m \in Nat /\ m <= n
    <3>1. since \in Nat /\ since <= first + n
      BY <1>4
    <3> QED
      BY <1>4, <3>1
  <2>2. \A k \in 1 .. n : events[k] \in S <=> m < k
    <3> SUFFICES ASSUME NEW k \in 1 .. n PROVE events[k] \in S <=> m < k
      OBVIOUS
    <3>1. events[k] \in S <=> events[k].id > since
      BY <1>1 DEF Range
    <3>2. first + k > since <=> m < k
      BY <1>1, <1>3
    <3> QED
      BY <1>2, <3>1, <3>2
  <2> HIDE DEF m, S
  <2>3. answer = Select(events, S)
    BY DEF events_since, S
  <2>4. /\ answer \in Seq(Entry) /\ Len(answer) = n - m
        /\ \A k \in 1 .. n - m : answer[k] = events[m + k]
    <3> HIDE DEF answer, Entry
    <3> QED
      BY <1>1, <2>1, <2>2, <2>3, EndSelected DEF n
  <2> HIDE DEF answer
  <2>5. ASSUME NEW k \in 1 .. n - m PROVE answer[k].id = first + m + k
    <3>1. m + k \in 1 .. n /\ first + (m + k) = first + m + k
      BY <1>4, <2>1
    <3>2. events[m + k].id = first + (m + k)
      BY <1>2, <3>1
    <3> QED
      BY <2>4, <3>1, <3>2
  <2>6. DOMAIN answer = 1 .. n - m
    BY <2>4
  <2>7. first + m = last_event_id - (n - m)
    BY <1>4, <2>1
  <2>8. n - m = IF last_event_id - since < EVENTS_RING THEN last_event_id - since ELSE EVENTS_RING
    BY <1>3, <1>4, <2>1, PollerAssumption DEF m
  <2> QED
    BY <1>1, <1>3, <2>1, <2>4, <2>5, <2>6, <2>7, <2>8 DEF answer
<1> QED
  BY <1>5 DEF CatchUpAnswersTheGap

-----------------------------------------------------------------------------
(* What a reading holds has the types its views have.                      *)
LEMMA ValueTyped ==
  ASSUME NEW state \in Dict(Routers, Readable), NEW n \in Routers, NEW v \in Views,
         NEW i \in Items(v)
  PROVE  Value(state, n, v, i) \in SessionStates \cup NextHops \cup {None}
<1> DEFINE r == state[n]
<1>1. r = None \/ r \in Reading
  BY PollerAssumption DEF Dict
<1>2. r = None \/ r.summary = None \/ r.summary \in Dict(PeerIPs, PeerInfo)
  <2>1. CASE r \in {Failed(e) : e \in Errors}
    BY <2>1 DEF Failed
  <2> QED
    BY <1>1, <2>1 DEF Reading
<1>3. r = None \/ r.bgp = None \/ r.bgp \in Dict(Routes, TableEntry)
  <2>1. CASE r \in {Failed(e) : e \in Errors}
    BY <2>1 DEF Failed
  <2> QED
    BY <1>1, <2>1 DEF Reading
<1> HIDE DEF r
<1>4. CASE v = "summary"
  <2>1. i \in PeerIPs
    BY <1>4 DEF Items
  <2>2. Peers(r)[i] = None \/ Peers(r)[i] \in PeerInfo
    BY <1>2, <2>1 DEF Peers, NoKeys, Dict
  <2>3. SessionStateOf(r)[i] \in SessionStates \cup {None}
    BY <2>1, <2>2 DEF SessionStateOf, PeerInfo
  <2> QED
    BY <1>4, <2>3 DEF Value, r
<1>5. CASE v = "bgp"
  <2>1. i \in Routes
    BY <1>5 DEF Items
  <2>2. r = None \/ r.bgp = None \/ r.bgp[i] = None \/ r.bgp[i] \in TableEntry
    BY <1>3, <2>1 DEF Dict
  <2>3. BestPaths(r)[i] \in NextHops \cup {None}
    BY <2>1, <2>2 DEF BestPaths, TableEntry
  <2> QED
    BY <1>5, <2>3 DEF Value, r
<1> QED
  BY <1>4, <1>5 DEF Views

LEMMA DiffEventsTyped ==
  ASSUME NEW prev \in Dict(Routers, Readable), NEW curr \in Dict(Routers, Readable)
  PROVE  DiffEvents(prev, curr) \subseteq Said
<1> SUFFICES ASSUME NEW ev \in DiffEvents(prev, curr) PROVE ev \in Said
  OBVIOUS
<1>1. PICK n \in Routers, v \in Views : \E i \in Items(v) : ev = Event(prev, curr, n, v, i)
  BY DEF DiffEvents
<1>2. PICK i \in Items(v) : ev = Event(prev, curr, n, v, i)
  BY <1>1
<1>3. /\ Value(prev, n, v, i) \in SessionStates \cup NextHops \cup {None}
      /\ Value(curr, n, v, i) \in SessionStates \cup NextHops \cup {None}
  BY ValueTyped
<1>4. i \in PeerIPs \cup Routes
  BY DEF Items, Views
<1>5. \A was, now : Change(v, was, now) \in {"appeared", "state", "vanished",
                                             "added", "bestpath", "withdrawn"}
  BY DEF Change
<1> QED
  BY <1>2, <1>3, <1>4, <1>5 DEF Event, Said

-----------------------------------------------------------------------------
(* The inventory.  A router that answered is listed until the inventory is *)
(* read again, so an entry that appears with it knows no AS and no answer; *)
(* unless a poll raised, which kept the answers of the inventory before.   *)

InventoryTyped ==
  /\ topology \in Topologies
  /\ nodes \in Seq(Node)
  /\ last_state \in Dict(Routers, Readable)
  /\ pc \in {"sleep", "gather", "state", "signal", "events"}
  /\ raised \in BOOLEAN

AnsweredAreListed ==
  pc # "gather" /\ ~ raised => \A n \in Routers : last_state[n] # None => n \in Names

OneEntryEach ==
  \A i, j \in DOMAIN nodes : nodes[i].name = nodes[j].name => nodes[i] = nodes[j]

InventoryInv ==
  InventoryTyped /\ AnsweredAreListed /\ OneEntryEach /\ PublishedASNIsMeasured

(* The signal goes out when the poll is adopted, before its events.        *)
BeatsCounted ==
  /\ beats \in 0 .. 1
  /\ pc \in {"gather", "state", "signal"} => beats = 0
  /\ pc = "events" => beats = 1

IInv == InventoryInv /\ LogTyped /\ RingHoldsTheLast /\ BeatsCounted

LEMMA OrderedTyped ==
  ASSUME NEW running, NEW file \in Topologies, file # None
  PROVE  Ordered(running, file) \in Seq(Routers)
<1>1. file \in Seq(Routers) /\ Alphabetical \in Seq(Routers)
  BY PollerAssumption
<1>2. \A S : Select(file, S) \in Seq(Routers) /\ Select(Alphabetical, S) \in Seq(Routers)
  BY <1>1, SelectIs
<1> QED
  BY <1>1, <1>2 DEF Ordered

LEMMA CarriedEntry ==
  ASSUME nodes \in Seq(Node), NEW n \in Routers
  PROVE  /\ Carried(n) \in Node /\ Carried(n).name = n
         /\ n \in Names => Carried(n) \in Range(nodes)
         /\ n \notin Names => Carried(n).asn = None
<1>1. CASE n \in Names
  <2>1. \E node \in Range(nodes) : node.name = n
    BY <1>1 DEF Names, Range
  <2>2. Carried(n) \in Range(nodes) /\ Carried(n).name = n
    BY <1>1, <2>1 DEF Carried
  <2>3. Range(nodes) \subseteq Node
    BY DEF Range
  <2> QED
    BY <1>1, <2>2, <2>3
<1>2. CASE n \notin Names
  BY <1>2 DEF Carried, Node
<1> QED
  BY <1>1, <1>2

LEMMA LoadNodesKeeps ==
  ASSUME InventoryInv, LoadNodes
  PROVE  /\ InventoryInv'
         /\ \A i \in DOMAIN nodes, j \in DOMAIN nodes' :
              nodes[i].name = nodes'[j].name => nodes'[j] = nodes[i]
<1> DEFINE order == Ordered(Agents(topology), topology')
<1> USE DEF InventoryInv, InventoryTyped
<1>0. order \in Seq(Routers)
  BY OrderedTyped DEF LoadNodes, FileIsRead, BothReadsParse
<1>1. /\ UNCHANGED <<last_state, raised>> /\ topology' \in Topologies
      /\ pc = "sleep" /\ pc' = "gather"
      /\ nodes' = IF order = <<>> THEN nodes ELSE Inventory(order)
  BY DEF LoadNodes, FileIsRead
<1> HIDE DEF order
<1>2. CASE nodes' = nodes
  BY <1>1, <1>2 DEF AnsweredAreListed, OneEntryEach, PublishedASNIsMeasured
<1>3. CASE nodes' = Inventory(order)
  <2>2. /\ DOMAIN nodes' = DOMAIN order
        /\ \A i \in DOMAIN nodes' : order[i] \in Routers /\ nodes'[i] = Carried(order[i])
    BY <1>0, <1>3 DEF Inventory
  <2>3. \A i \in DOMAIN nodes' :
          /\ nodes'[i] \in Node /\ nodes'[i].name = order[i]
          /\ order[i] \in Names => nodes'[i] \in Range(nodes)
          /\ order[i] \notin Names => nodes'[i].asn = None
    BY <2>2, CarriedEntry
  <2>4. nodes' \in Seq(Node)
    BY <1>0, <1>3, <2>3 DEF Inventory
  <2>5. OneEntryEach'
    BY <2>2, <2>3 DEF OneEntryEach
  <2>6. ASSUME NEW i \in DOMAIN nodes, NEW j \in DOMAIN nodes', nodes[i].name = nodes'[j].name
        PROVE  nodes'[j] = nodes[i]
    <3>1. order[j] \in Names
      BY <2>3, <2>6 DEF Names
    <3>2. PICK k \in DOMAIN nodes : nodes'[j] = nodes[k]
      BY <2>3, <3>1 DEF Range
    <3> QED
      BY <2>6, <3>2 DEF OneEntryEach
  <2>7. PublishedASNIsMeasured'
    <3> SUFFICES ASSUME ~ raised,
                        NEW j \in DOMAIN nodes', last_state[nodes'[j].name] # None,
                        last_state[nodes'[j].name].asn # None
                 PROVE  nodes'[j].asn = last_state[nodes'[j].name].asn
      BY <1>1 DEF PublishedASNIsMeasured
    <3>1. nodes'[j].name \in Names
      BY <1>1, <2>2, <2>3 DEF AnsweredAreListed
    <3>2. PICK i \in DOMAIN nodes : nodes[i].name = nodes'[j].name
      BY <3>1 DEF Names
    <3>3. nodes'[j] = nodes[i]
      BY <2>6, <3>2
    <3> QED
      BY <3>2, <3>3 DEF PublishedASNIsMeasured
  <2> QED
    BY <1>1, <2>4, <2>5, <2>6, <2>7 DEF AnsweredAreListed
<1> QED
  BY <1>1, <1>2, <1>3

(* A poll has a reading of every listed router, and nothing of the others. *)
LEMMA PollTyped ==
  ASSUME NEW state \in Polls
  PROVE  /\ state \in Dict(Routers, Readable)
         /\ \A n \in Routers : IF n \in Names THEN state[n] \in Readable ELSE state[n] = None
<1>1. PICK reads \in Reads : state = [n \in Routers |-> IF n \in Names THEN reads[n] ELSE None]
  BY DEF Polls
<1>2. \A n \in Names : reads[n] \in Readable
  BY DEF Reads
<1> QED
  BY <1>1, <1>2 DEF Dict

LEMMA AdoptPollKeeps ==
  ASSUME InventoryInv, NEW state \in Polls, pc' \in {"signal", "state"}, AdoptPoll(state)
  PROVE  /\ InventoryInv'
         /\ DOMAIN nodes' = DOMAIN nodes
         /\ \A i \in DOMAIN nodes : nodes'[i].name = nodes[i].name
         /\ \A i \in DOMAIN nodes : nodes[i].asn # None => nodes'[i].asn # None
<1> USE DEF InventoryInv, InventoryTyped
<1>1. /\ nodes' = [i \in DOMAIN nodes |-> Measured(nodes[i], state)]
      /\ last_state' = state /\ topology' = topology /\ raised' = FALSE
  BY DEF AdoptPoll
<1>2. state \in Dict(Routers, Readable) /\ \A n \in Routers : n \notin Names => state[n] = None
  BY PollTyped
<1>3. ASSUME NEW i \in DOMAIN nodes
      PROVE  /\ nodes[i] \in Node
             /\ state[nodes[i].name] \in Reading
             /\ state[nodes[i].name].asn \in ASNs \cup {None}
  <2>0. nodes[i] \in Node
    OBVIOUS
  <2>1. nodes[i].name \in Routers /\ nodes[i].name \in Names
    BY <2>0 DEF Node, Names
  <2>2. state[nodes[i].name] \in Reading
    BY <2>1, PollTyped, PollerAssumption
  <2>3. \A r \in Reading : r.asn \in ASNs \cup {None}
    BY DEF Reading, Failed
  <2> QED
    BY <2>0, <2>2, <2>3
<1>4. ASSUME NEW i \in DOMAIN nodes
      PROVE  /\ nodes'[i] \in Node
             /\ nodes'[i].name = nodes[i].name
             /\ nodes'[i].asn = IF state[nodes[i].name].asn # None
                                THEN state[nodes[i].name].asn ELSE nodes[i].asn
  BY <1>1, <1>3 DEF Measured, Node
<1>5. DOMAIN nodes' = DOMAIN nodes /\ nodes' \in Seq(Node)
  BY <1>1, <1>4
<1>6. OneEntryEach'
  BY <1>1, <1>4, <1>5 DEF OneEntryEach
<1>7. PublishedASNIsMeasured'
  BY <1>1, <1>4, <1>5 DEF PublishedASNIsMeasured
<1>8. AnsweredAreListed'
  <2>1. Names' = Names
    BY <1>4, <1>5 DEF Names
  <2> QED
    BY <1>1, <1>2, <2>1 DEF AnsweredAreListed
<1>9. InventoryTyped'
  BY <1>1, <1>2, <1>5
<1> QED
  BY <1>4, <1>5, <1>6, <1>7, <1>8, <1>9

(* Identities: what the step may do to an entry, besides keeping IInv.     *)
IdentityKept ==
  \A i \in DOMAIN nodes, j \in DOMAIN nodes' :
    nodes[i].name = nodes'[j].name /\ nodes[i].asn # None => nodes'[j].asn # None

(* A poll that raised may have noted what some routers said of themselves. *)
LEMMA PollRaisesKeeps ==
  ASSUME InventoryTyped, OneEntryEach, NEW state \in Polls, NEW r \in Routers,
         PollRaises(state, r)
  PROVE  InventoryInv' /\ IdentityKept
<1>1. /\ UNCHANGED <<topology, last_state>>
      /\ pc' = "sleep" /\ raised' = TRUE
  BY DEF PollRaises
<1>2. PICK noted : nodes' = [i \in DOMAIN nodes |->
                     IF nodes[i].name \in noted THEN Measured(nodes[i], state) ELSE nodes[i]]
  BY DEF PollRaises
<1>3. ASSUME NEW i \in DOMAIN nodes
      PROVE  /\ nodes'[i] \in Node
             /\ nodes'[i].name = nodes[i].name
             /\ nodes[i].asn # None => nodes'[i].asn # None
  <2>0. nodes[i] \in Node
    BY DEF InventoryTyped
  <2>1. nodes[i] \in Node /\ nodes[i].name \in Routers /\ nodes[i].name \in Names
    BY <2>0 DEF Node, Names
  <2>2. state[nodes[i].name].asn \in ASNs \cup {None}
    <3>1. state[nodes[i].name] \in Reading
      BY <2>1, PollTyped, PollerAssumption
    <3>2. \A e \in Reading : e.asn \in ASNs \cup {None}
      BY DEF Reading, Failed
    <3> QED
      BY <3>1, <3>2
  <2> QED
    BY <1>2, <2>1, <2>2 DEF Measured, Node
<1>4. DOMAIN nodes' = DOMAIN nodes /\ nodes' \in Seq(Node)
  BY <1>2, <1>3 DEF InventoryTyped
<1>5. OneEntryEach'
  BY <1>2, <1>3, <1>4 DEF OneEntryEach
<1>6. IdentityKept
  <2> SUFFICES ASSUME NEW i \in DOMAIN nodes, NEW j \in DOMAIN nodes',
                      nodes[i].name = nodes'[j].name, nodes[i].asn # None
               PROVE  nodes'[j].asn # None
    BY DEF IdentityKept
  <2>1. nodes[i] = nodes[j]
    BY <1>3, <1>4 DEF OneEntryEach
  <2> QED
    BY <1>3, <1>4, <2>1
<1> QED
  BY <1>1, <1>4, <1>5, <1>6 DEF InventoryInv, InventoryTyped, AnsweredAreListed,
                                 PublishedASNIsMeasured

-----------------------------------------------------------------------------
LEMMA InitHolds == Init => IInv
<1> SUFFICES ASSUME Init PROVE IInv
  OBVIOUS
<1> DEFINE order == Ordered(Agents(topology), topology)
<1> USE DEF Init
<1>1. order \in Seq(Routers)
  BY OrderedTyped
<1>2. /\ nodes \in Seq(Node) /\ DOMAIN nodes = DOMAIN order
      /\ \A i \in DOMAIN nodes : nodes[i] = [name |-> order[i], asn |-> None]
  <2>1. nodes = [i \in DOMAIN order |-> [name |-> order[i], asn |-> None]]
    OBVIOUS
  <2> HIDE DEF order
  <2>2. \A i \in DOMAIN order : [name |-> order[i], asn |-> None] \in Node
    BY <1>1 DEF Node
  <2> QED
    BY <1>1, <2>1, <2>2
<1> HIDE DEF order
<1>3. InventoryTyped
  BY <1>2 DEF InventoryTyped, Dict
<1>4. AnsweredAreListed /\ OneEntryEach
  BY <1>2 DEF AnsweredAreListed, OneEntryEach
<1>5. PublishedASNIsMeasured
  <2>1. \A i \in DOMAIN order : order[i] \in Routers
    BY <1>1
  <2>2. ASSUME NEW i \in DOMAIN nodes PROVE last_state[nodes[i].name] = None
    <3>1. nodes[i] = [name |-> order[i], asn |-> None] /\ i \in DOMAIN order
      BY <1>2
    <3>2. nodes[i].name \in Routers
      BY <2>1, <3>1
    <3> QED
      BY <3>2
  <2> QED
    BY <2>2 DEF PublishedASNIsMeasured
<1>6. LogTyped /\ RingHoldsTheLast /\ BeatsCounted
  BY PollerAssumption DEF LogTyped, RingHoldsTheLast, BeatsCounted
<1> QED
  BY <1>3, <1>4, <1>5, <1>6 DEF IInv, InventoryInv

LEMMA BeatsKept ==
  ASSUME BeatsCounted, [Next]_vars
  PROVE  /\ BeatsCounted'
         /\ pc # "sleep" /\ pc' = "sleep" => raised' \/ beats' = 1
<1> USE DEF BeatsCounted
<1>1. CASE LoadNodes
  BY <1>1 DEF LoadNodes, FileIsRead
<1>2. CASE LoadRaises \/ EditTopology \/ UNCHANGED vars
  BY <1>2 DEF LoadRaises, EditTopology, vars, tick
<1>3. CASE Poll
  BY <1>3 DEF Poll, GatherUnchanged, GatherChanged, AdoptPoll
<1>4. CASE LosePoll
  BY <1>4 DEF LosePoll, PollRaises
<1>5. CASE BroadcastState \/ BroadcastSignal
  BY <1>5 DEF BroadcastState, BroadcastSignal
<1>6. CASE \E ev \in pending : BroadcastEvent(ev)
  BY <1>6 DEF BroadcastEvent
<1> QED
  BY <1>1, <1>2, <1>3, <1>4, <1>5, <1>6 DEF Next, run, Broadcast

LEMMA NextKeeps ==
  ASSUME IInv, [Next]_vars
  PROVE  IInv' /\ IdentityKept
<1> USE DEF IInv
<1>0. BeatsCounted'
  BY BeatsKept
<1>1. CASE LoadNodes
  <2>1. InventoryInv' /\ IdentityKept
    BY <1>1, LoadNodesKeeps DEF IdentityKept
  <2>2. LogTyped' /\ RingHoldsTheLast'
    BY <1>1 DEF LoadNodes, log, LogTyped, RingHoldsTheLast
  <2> QED
    BY <1>0, <2>1, <2>2
<1>2. CASE Poll
  <2>1. PICK state \in Polls : GatherUnchanged(state) \/ GatherChanged(state)
    BY <1>2 DEF Poll
  <2>2. AdoptPoll(state) /\ pc' \in {"signal", "state"}
    BY <2>1 DEF GatherUnchanged, GatherChanged
  <2>3. /\ InventoryInv'
        /\ DOMAIN nodes' = DOMAIN nodes
        /\ \A i \in DOMAIN nodes : nodes'[i].name = nodes[i].name
        /\ \A i \in DOMAIN nodes : nodes[i].asn # None => nodes'[i].asn # None
    BY <2>2, AdoptPollKeeps
  <2>4. IdentityKept
    <3> SUFFICES ASSUME NEW i \in DOMAIN nodes, NEW j \in DOMAIN nodes',
                        nodes[i].name = nodes'[j].name, nodes[i].asn # None
                 PROVE  nodes'[j].asn # None
      BY DEF IdentityKept
    <3>1. nodes[i] = nodes[j]
      BY <2>3 DEF InventoryInv, OneEntryEach
    <3> QED
      BY <2>3, <3>1
  <2>5. pending' \subseteq Said
    <3>1. state \in Dict(Routers, Readable) /\ last_state \in Dict(Routers, Readable)
      BY PollTyped DEF InventoryInv, InventoryTyped
    <3> QED
      BY <2>1, <3>1, DiffEventsTyped DEF GatherUnchanged, GatherChanged, LogTyped
  <2>6. UNCHANGED log
    BY <2>2 DEF AdoptPoll
  <2>7. LogTyped' /\ RingHoldsTheLast'
    BY <2>5, <2>6 DEF log, LogTyped, RingHoldsTheLast
  <2> QED
    BY <1>0, <2>3, <2>4, <2>7
<1>3. CASE LosePoll
  <2>1. PICK state \in Polls, r \in IllShaped : PollRaises(state, r)
    BY <1>3 DEF LosePoll
  <2>2. UNCHANGED <<log, pending>> /\ r \in Routers
    BY <2>1, PollerAssumption DEF PollRaises
  <2>3. InventoryInv' /\ IdentityKept
    BY <2>1, <2>2, PollRaisesKeeps DEF InventoryInv
  <2>4. LogTyped' /\ RingHoldsTheLast'
    BY <2>2 DEF log, LogTyped, RingHoldsTheLast
  <2> QED
    BY <1>0, <2>3, <2>4
<1>4. CASE UNCHANGED <<nodes, last_state, raised>> /\ ~ LoadNodes /\ ~ Poll /\ ~ LosePoll
  <2>1. /\ topology' \in Topologies
        /\ pc' \in {"sleep", "gather", "state", "signal", "events"}
        /\ pc' # "gather" => pc # "gather"
    BY <1>4 DEF Next, run, EditTopology, LoadRaises, FileIsRead, Broadcast, BroadcastState, BroadcastSignal, BroadcastEvent,
                vars, tick, InventoryInv, InventoryTyped
  <2>2. InventoryInv'
    BY <1>4, <2>1 DEF InventoryInv, InventoryTyped, AnsweredAreListed, OneEntryEach,
                      PublishedASNIsMeasured, Names
  <2>3. IdentityKept
    BY <1>4 DEF IdentityKept, InventoryInv, OneEntryEach
  <2>4. LogTyped' /\ RingHoldsTheLast'
    <3>1. CASE \E ev \in pending : BroadcastEvent(ev)
      <4>1. PICK ev \in pending : BroadcastEvent(ev)
        BY <3>1
      <4>2. ev \in Said /\ record_event(ev) /\ pending' = pending \ {ev}
        BY <4>1 DEF BroadcastEvent, LogTyped
      <4>3. pending' \subseteq Said
        BY <4>2 DEF LogTyped
      <4> QED
        BY <4>2, <4>3, KeepIsTheLast DEF LogTyped
    <3>2. CASE UNCHANGED <<log, pending>>
      BY <3>2 DEF log, LogTyped, RingHoldsTheLast
    <3>3. UNCHANGED <<log, pending>> \/ \E ev \in pending : BroadcastEvent(ev)
      BY <1>4 DEF Next, run, EditTopology, LoadRaises, FileIsRead, Broadcast, BroadcastState, BroadcastSignal, vars, tick
    <3> QED
      BY <3>1, <3>2, <3>3
  <2> QED
    BY <1>0, <2>2, <2>3, <2>4
<1>5. LoadNodes \/ Poll \/ LosePoll \/ UNCHANGED <<nodes, last_state, raised>>
  BY DEF Next, run, EditTopology, LoadRaises, Broadcast, BroadcastState, BroadcastSignal, BroadcastEvent, vars
<1> QED
  BY <1>1, <1>2, <1>3, <1>4, <1>5

LEMMA IInvAlways == Spec => []IInv
BY InitHolds, NextKeeps, PTL DEF Spec

-----------------------------------------------------------------------------
(* Every variable keeps to the values the code gives it.                   *)
THEOREM TypeCorrect == Spec => []TypeOK
<1>1. Dict(Routers, Readable) \subseteq LabState
  BY PollerAssumption DEF Dict, LabState
<1>2. IInv => TypeOK
  BY <1>1 DEF IInv, InventoryInv, InventoryTyped, LogTyped, BeatsCounted, TypeOK
<1> QED
  BY <1>2, IInvAlways, PTL

(* The ring is the last EVENTS_RING events, their ids without gap.         *)
THEOREM RingAlwaysHoldsTheLast == Spec => []RingHoldsTheLast
BY IInvAlways, PTL DEF IInv

(* A page that asks for what it missed gets the end of the ring: every     *)
(* event after `since` that is still kept, once, in order, with no gap up  *)
(* to lastId.                                                              *)
THEOREM CatchUpAlwaysAnswersTheGap == Spec => []CatchUpAnswersTheGap
<1>1. IInv => CatchUpAnswersTheGap
  BY RingAnswersTheGap DEF IInv
<1> QED
  BY <1>1, IInvAlways, PTL

(* What is published of a router's AS is what its published answer says.   *)
THEOREM PublishedASNAlwaysMeasured == Spec => []PublishedASNIsMeasured
BY IInvAlways, PTL DEF IInv, InventoryInv

(* No tick that reads the routers ends without its one signal, unless an   *)
(* exception ends it.                                                      *)
THEOREM EveryTickBeats == Spec => HeartbeatEveryTick
<1> DEFINE Step == pc # "sleep" /\ pc' = "sleep" => raised' \/ beats' = 1
<1>1. IInv /\ [Next]_vars => Step
  BY BeatsKept DEF IInv
<1>2. HeartbeatEveryTick <=> [][Step]_vars
  BY DEF HeartbeatEveryTick
<1> QED
  BY <1>1, <1>2, IInvAlways, PTL DEF Spec

(* A router that stays listed keeps the identity it told.                  *)
THEOREM IdentityAlwaysKept == Spec => KnownIdentityKept
<1>1. KnownIdentityKept <=> [][IdentityKept]_vars
  BY DEF KnownIdentityKept, IdentityKept
<1> QED
  BY <1>1, IInvAlways, NextKeeps, PTL DEF Spec

-----------------------------------------------------------------------------
(* The page that listens.                                                  *)
About(ev) == <<ev.node, ev.view, ev.item>>

(* The poll before, and the signature kept of it *)
PollKept ==
  /\ last_state \in Dict(Routers, Readable)
  /\ \/ last_signature = None /\ last_state = [n \in Routers |-> None]
     \/ last_signature = Signature(last_state)

(* Events wait only while poll_all broadcasts them; each is about a view   *)
(* the poll read, says what it read there, and is alone about its item.    *)
PendingRight ==
  /\ pc \in {"sleep", "gather"} => pending = {}
  /\ \A ev \in pending :
       /\ About(ev) \in Subjects
       /\ ev.now = Actual(last_state, About(ev))
       /\ Answered(last_state, ev.node, ev.view)
  /\ \A ev, other \in pending : About(ev) = About(other) => ev = other

HeardRight ==
  /\ DOMAIN told = Subjects
  /\ \A s \in Subjects : Answered(last_state, s[1], s[2]) => heard[s] = Actual(last_state, s)

(* What was told is what was heard, or an event about it is on its way *)
ToldOrPending ==
  \A s \in Subjects :
    <<s[1], s[2]>> \notin missed => told[s] = heard[s] \/ \E ev \in pending : About(ev) = s

WasRight ==
  \A ev \in pending : <<ev.node, ev.view>> \notin missed => ev.was = told[About(ev)]

ListenerInv == PollKept /\ PendingRight /\ HeardRight /\ ToldOrPending /\ WasRight

-----------------------------------------------------------------------------
(* Nothing is drawn of a view that was not read.                           *)
LEMMA UnreadIsEmpty ==
  ASSUME NEW state \in Dict(Routers, Readable), NEW s \in Subjects,
         ~ Answered(state, s[1], s[2])
  PROVE  Actual(state, s) = None
<1>1. s[1] \in Routers /\ s[2] \in {"summary", "bgp"}
      /\ (s[2] = "summary" => s[3] \in PeerIPs) /\ (s[2] = "bgp" => s[3] \in Routes)
  BY DEF Subjects
<1>2. state[s[1]] = None \/ state[s[1]] \in Reading
  BY <1>1, PollerAssumption DEF Dict
<1>3. CASE state[s[1]] = None
  BY <1>1, <1>3 DEF Actual, Value, SessionStateOf, BestPaths, Peers, NoKeys
<1>4. CASE state[s[1]] # None /\ state[s[1]] \in {Failed(e) : e \in Errors}
  <2> PICK e \in Errors : state[s[1]] = Failed(e)
    BY <1>4
  <2>1. state[s[1]].summary = None /\ state[s[1]].bgp = None
    BY DEF Failed
  <2> QED
    BY <1>1, <2>1 DEF Actual, Value, SessionStateOf, BestPaths, Peers, NoKeys
<1>5. CASE state[s[1]] # None /\ state[s[1]].error = None
  <2>1. IF s[2] = "summary" THEN state[s[1]].summary = None ELSE state[s[1]].bgp = None
    BY <1>1, <1>5 DEF Answered
  <2> QED
    BY <1>1, <2>1 DEF Actual, Value, SessionStateOf, BestPaths, Peers, NoKeys
<1> QED
  BY <1>2, <1>3, <1>4, <1>5 DEF Reading

-----------------------------------------------------------------------------
(* The events of a poll are the changes it names, one for each item.       *)
LEMMA EventsAreNamed ==
  ASSUME NEW prev, NEW curr, NEW ev
  PROVE  ev \in DiffEvents(prev, curr) <=>
           /\ About(ev) \in Subjects
           /\ Named(prev, curr, ev.node, ev.view, ev.item)
           /\ ev = Event(prev, curr, ev.node, ev.view, ev.item)
<1>1. ASSUME ev \in DiffEvents(prev, curr)
      PROVE  \E n \in Routers, v \in Views : \E i \in Items(v) :
               Named(prev, curr, n, v, i) /\ ev = Event(prev, curr, n, v, i)
  BY <1>1 DEF DiffEvents
<1>2. ASSUME NEW n \in Routers, NEW v \in Views, NEW i \in Items(v),
             Named(prev, curr, n, v, i)
      PROVE  Event(prev, curr, n, v, i) \in DiffEvents(prev, curr)
  <2> DEFINE Of(x, y) ==
        {Event(prev, curr, x, y, j) : j \in {k \in Items(y) : Named(prev, curr, x, y, k)}}
  <2>1. Event(prev, curr, n, v, i) \in Of(n, v)
    BY <1>2
  <2>2. DiffEvents(prev, curr) = UNION {Of(x, y) : x \in Routers, y \in Views}
    BY DEF DiffEvents
  <2> HIDE DEF Of
  <2> QED
    BY <2>1, <2>2
<1>3. ASSUME NEW n \in Routers, NEW v \in Views, NEW i \in Items(v),
             ev = Event(prev, curr, n, v, i)
      PROVE  /\ ev.node = n /\ ev.view = v /\ ev.item = i
             /\ About(ev) \in Subjects
  <2>1. ev.node = n /\ ev.view = v /\ ev.item = i
    BY <1>3 DEF Event
  <2> QED
    BY <2>1 DEF About, Subjects, Views, Items
<1>4. ASSUME About(ev) \in Subjects
      PROVE  ev.node \in Routers /\ ev.view \in Views /\ ev.item \in Items(ev.view)
  BY <1>4 DEF About, Subjects, Views, Items
<1> QED
  BY <1>1, <1>2, <1>3, <1>4

(* An event says what the poll read, and the poll did read it.             *)
LEMMA EventsAreRead ==
  ASSUME NEW prev, NEW curr \in Dict(Routers, Readable), NEW ev \in DiffEvents(prev, curr)
  PROVE  /\ About(ev) \in Subjects
         /\ ev.was = Actual(prev, About(ev))
         /\ ev.now = Actual(curr, About(ev))
         /\ Answered(curr, ev.node, ev.view)
<1>1. /\ About(ev) \in Subjects
      /\ Named(prev, curr, ev.node, ev.view, ev.item)
      /\ ev = Event(prev, curr, ev.node, ev.view, ev.item)
  BY EventsAreNamed
<1>2. ev.was = Actual(prev, About(ev)) /\ ev.now = Actual(curr, About(ev))
  BY <1>1 DEF Event, Actual, About
<1>3. About(ev)[1] = ev.node /\ About(ev)[2] = ev.view
  BY DEF About
<1>4. ev.now = None => Answered(curr, ev.node, ev.view)
  BY <1>1 DEF Named, Event
<1>5. ev.now # None => Answered(curr, ev.node, ev.view)
  BY <1>1, <1>2, <1>3, UnreadIsEmpty
<1> QED
  BY <1>1, <1>2, <1>4, <1>5

(* Two polls of one signature list the same routers and hold the same      *)
(* items: what the poller skips as unchanged needed no event.              *)
LEMMA SameSignatureSameItems ==
  ASSUME NEW prev \in Dict(Routers, Readable), NEW curr \in Dict(Routers, Readable),
         Signature(prev) = Signature(curr), NEW s \in Subjects
  PROVE  /\ prev[s[1]] = None <=> curr[s[1]] = None
         /\ Actual(prev, s) = Actual(curr, s)
<1>1. /\ s[1] \in Routers
      /\ \/ s[2] = "summary" /\ s[3] \in PeerIPs
         \/ s[2] = "bgp" /\ s[3] \in Routes
  BY DEF Subjects
<1> DEFINE Drawn(state) == Signature(state)[s[1]]
<1>2. Drawn(prev) = Drawn(curr)
  OBVIOUS
<1>3. ASSUME NEW state \in Dict(Routers, Readable)
      PROVE  state[s[1]] = None <=> Drawn(state) = None
  BY <1>1, SignatureAssumption DEF Signature
<1>4. prev[s[1]] = None <=> curr[s[1]] = None
  BY <1>2, <1>3
<1>5. CASE prev[s[1]] = None
  BY <1>4, <1>5 DEF Actual, Value, SessionStateOf, BestPaths, Peers
<1>6. CASE prev[s[1]] # None
  <2>1. Drawn(prev).paths = BestPaths(prev[s[1]]) /\ Drawn(curr).paths = BestPaths(curr[s[1]])
    BY <1>1, <1>4, <1>6 DEF Signature
  <2>2. CASE s[2] = "bgp"
    <3>1. BestPaths(prev[s[1]]) = BestPaths(curr[s[1]])
      BY <1>2, <2>1
    <3>2. s[2] # "summary"
      BY <2>2
    <3> QED
      BY <1>4, <3>1, <3>2 DEF Actual, Value
  <2>3. CASE s[2] = "summary"
    <3>1. ASSUME NEW state \in Dict(Routers, Readable), state[s[1]] # None
          PROVE  Drawn(state).sessions[s[3]] =
                   IF Peers(state[s[1]])[s[3]] = None THEN None
                   ELSE [state    |-> Peers(state[s[1]])[s[3]].state,
                         remoteAs |-> Peers(state[s[1]])[s[3]].remoteAs]
      BY <1>1, <2>3, <3>1 DEF Signature
    <3>2. Drawn(prev).sessions[s[3]] = Drawn(curr).sessions[s[3]]
      BY <1>2
    <3> DEFINE P == Peers(prev[s[1]])[s[3]]
               C == Peers(curr[s[1]])[s[3]]
    <3>3. P = None <=> C = None
      <4>1. ASSUME NEW state \in Dict(Routers, Readable), state[s[1]] # None
            PROVE  Peers(state[s[1]])[s[3]] = None <=> Drawn(state).sessions[s[3]] = None
        BY <1>1, <2>3, <3>1, <4>1, SignatureAssumption
      <4> QED
        BY <1>4, <1>6, <3>2, <4>1
    <3>4. ASSUME P # None
          PROVE  P.state = C.state
      <4>1. Drawn(prev).sessions[s[3]] = [state |-> P.state, remoteAs |-> P.remoteAs]
        BY <1>6, <3>1, <3>4
      <4>2. Drawn(curr).sessions[s[3]] = [state |-> C.state, remoteAs |-> C.remoteAs]
        BY <1>4, <1>6, <3>1, <3>3, <3>4
      <4> QED
        BY <3>2, <4>1, <4>2
    <3> HIDE DEF P, C
    <3>5. SessionStateOf(prev[s[1]])[s[3]] = SessionStateOf(curr[s[1]])[s[3]]
      BY <1>1, <2>3, <3>3, <3>4 DEF SessionStateOf, P, C
    <3> QED
      BY <1>4, <2>3, <3>5 DEF Actual, Value
  <2> QED
    BY <1>1, <2>2, <2>3
<1> QED
  BY <1>4, <1>5, <1>6

-----------------------------------------------------------------------------
LEMMA SubjectParts ==
  ASSUME NEW s \in Subjects
  PROVE  /\ s = <<s[1], s[2], s[3]>>
         /\ s[1] \in Routers /\ s[2] \in Views /\ s[3] \in Items(s[2])
BY DEF Subjects, Views, Items

(* Unless the view changed unseen, what had been heard of an item is where *)
(* the poll's event about it starts, or what the poll reads once more.     *)
LEMMA NamedOrSame ==
  ASSUME PollKept, HeardRight, NEW state \in Dict(Routers, Readable), NEW s \in Subjects,
         Answered(state, s[1], s[2]), ~ Surprise(state, s[1], s[2])
  PROVE  heard[s] = IF Named(last_state, state, s[1], s[2], s[3])
                    THEN Actual(last_state, s) ELSE Actual(state, s)
<1>1. state[s[1]] # None
  BY DEF Answered
<1>2. Named(last_state, state, s[1], s[2], s[3]) <=>
        /\ Actual(last_state, s) # Actual(state, s)
        /\ Actual(last_state, s) = None =>
             last_state[s[1]] = None \/ Answered(last_state, s[1], s[2])
  BY <1>1 DEF Named, Actual
<1>3. CASE Answered(last_state, s[1], s[2])
  BY <1>2, <1>3 DEF HeardRight
<1>4. CASE ~ Answered(last_state, s[1], s[2])
  <2>1. Actual(last_state, s) = None
    BY <1>4, UnreadIsEmpty DEF PollKept
  <2>2. heard[s] = IF last_state[s[1]] = None THEN None ELSE Actual(state, s)
    BY <1>4, SubjectParts DEF Surprise, Actual
  <2> QED
    BY <1>2, <1>4, <2>1, <2>2
<1> QED
  BY <1>3, <1>4

(* A poll adopted with its events, or skipped as unchanged, keeps ListenerInv.    *)
LEMMA HearPollKeeps ==
  ASSUME ListenerInv, HearPoll
  PROVE  ListenerInv'
<1> USE DEF ListenerInv
<1>1. PICK state \in Polls : (GatherUnchanged(state) \/ GatherChanged(state)) /\ Listen(state)
  BY DEF HearPoll
<1>2. /\ pc = "gather" /\ pending = {}
      /\ state \in Dict(Routers, Readable)
      /\ last_state' = state
      /\ told' = told
  <2>1. pc = "gather" /\ pending = {}
    BY DEF HearPoll, PendingRight
  <2>2. state \in Dict(Routers, Readable)
    BY DEF Polls, Reads, Dict
  <2>3. last_state' = state /\ told' = told
    BY <1>1 DEF GatherUnchanged, GatherChanged, AdoptPoll, Listen, page
  <2> QED
    BY <2>1, <2>2, <2>3
<1>3. /\ pc' # "gather" /\ pc' # "sleep"
      /\ last_signature' = Signature(state)
      /\ pending' = DiffEvents(last_state, state) \/ (GatherUnchanged(state) /\ pending' = {})
  BY <1>1, <1>2 DEF GatherUnchanged, GatherChanged
<1>4. PollKept'
  BY <1>2, <1>3 DEF PollKept
<1>5. PendingRight'
  <2>1. ASSUME NEW ev \in pending'
        PROVE  /\ About(ev) \in Subjects
               /\ ev.now = Actual(state, About(ev))
               /\ Answered(state, ev.node, ev.view)
    BY <1>2, <1>3, <2>1, EventsAreRead
  <2>2. ASSUME NEW ev \in pending', NEW other \in pending', About(ev) = About(other)
        PROVE  ev = other
    <3>1. ev \in DiffEvents(last_state, state) /\ other \in DiffEvents(last_state, state)
      BY <1>3
    <3>2. ev.node = other.node /\ ev.view = other.view /\ ev.item = other.item
      BY <2>2 DEF About
    <3> QED
      BY <3>1, <3>2, EventsAreNamed
  <2> QED
    BY <1>2, <1>3, <2>1, <2>2 DEF PendingRight, Actual, Answered, Value, Subjects, About
<1>6. HeardRight'
  BY <1>1, <1>2 DEF HeardRight, Listen, Actual, Answered, Value, Subjects
<1>7. ASSUME NEW s \in Subjects, <<s[1], s[2]>> \notin missed'
      PROVE  /\ told[s] = heard[s]
             /\ ~ Surprise(state, s[1], s[2])
  <2>1. told[s] = heard[s]
    BY <1>1, <1>2, <1>7 DEF ToldOrPending, Listen
  <2>2. ~ Surprise(state, s[1], s[2])
    BY <1>1, <1>7, SubjectParts DEF Listen
  <2> QED
    BY <2>1, <2>2
<1>8. ToldOrPending'
  <2> SUFFICES ASSUME NEW s \in Subjects, <<s[1], s[2]>> \notin missed'
               PROVE  told[s] = heard'[s] \/ \E ev \in pending' : About(ev) = s
    BY <1>2 DEF ToldOrPending, Subjects, About
  <2>1. CASE ~ Answered(state, s[1], s[2])
    BY <1>1, <1>7, <2>1 DEF Listen
  <2>2. CASE Answered(state, s[1], s[2])
    <3> DEFINE named == Named(last_state, state, s[1], s[2], s[3])
    <3>1. heard'[s] = Actual(state, s)
      BY <1>1, <2>2 DEF Listen
    <3>2. heard[s] = IF named THEN Actual(last_state, s) ELSE Actual(state, s)
      BY <1>2, <1>7, <2>2, NamedOrSame
    <3>3. CASE ~ named
      BY <1>7, <3>1, <3>2, <3>3
    <3>4. CASE named /\ pending' = DiffEvents(last_state, state)
      <4> DEFINE ev == Event(last_state, state, s[1], s[2], s[3])
      <4>1. ev.node = s[1] /\ ev.view = s[2] /\ ev.item = s[3]
        BY DEF Event
      <4>2. About(ev) = s
        BY <4>1, SubjectParts DEF About
      <4>3. ev \in DiffEvents(last_state, state)
        BY <3>4, <4>1, <4>2, EventsAreNamed
      <4> QED
        BY <3>4, <4>2, <4>3
    <3>5. CASE GatherUnchanged(state)
      <4>1. Signature(state) # None
        BY <1>2, SignatureAssumption
      <4>2. Signature(last_state) = Signature(state)
        BY <3>5, <4>1 DEF GatherUnchanged, PollKept
      <4>3. Actual(last_state, s) = Actual(state, s)
        BY <1>2, <4>2, SameSignatureSameItems DEF PollKept
      <4> QED
        BY <1>7, <3>1, <3>2, <4>3
    <3> QED
      BY <1>3, <3>3, <3>4, <3>5
  <2> QED
    BY <2>1, <2>2
<1>9. WasRight'
  <2> SUFFICES ASSUME NEW ev \in pending', <<ev.node, ev.view>> \notin missed'
               PROVE  ev.was = told[About(ev)]
    BY <1>2 DEF WasRight, About
  <2> DEFINE s == About(ev)
  <2>1. ev \in DiffEvents(last_state, state)
    BY <1>3
  <2>2. /\ s \in Subjects
        /\ ev.was = Actual(last_state, s)
        /\ Answered(state, ev.node, ev.view)
    BY <1>2, <2>1, EventsAreRead
  <2>3. s[1] = ev.node /\ s[2] = ev.view /\ s[3] = ev.item
    BY DEF About
  <2>4. Named(last_state, state, s[1], s[2], s[3])
    BY <2>1, <2>3, EventsAreNamed
  <2>5. told[s] = heard[s] /\ ~ Surprise(state, s[1], s[2])
    BY <1>7, <2>2, <2>3
  <2>6. heard[s] = Actual(last_state, s)
    BY <1>2, <2>2, <2>3, <2>4, <2>5, NamedOrSame
  <2> QED
    BY <2>2, <2>5, <2>6
<1> QED
  BY <1>4, <1>5, <1>6, <1>8, <1>9

(* An event leaves `pending` by being told; the others are of other items. *)
LEMMA HearEventKeeps ==
  ASSUME ListenerInv, NEW e \in pending, HearEvent(e)
  PROVE  ListenerInv'
<1> USE DEF ListenerInv
<1>1. /\ UNCHANGED <<last_state, last_signature, heard, missed>>
      /\ pending' = pending \ {e}
      /\ told' = [told EXCEPT ![About(e)] = e.now]
      /\ pc' \in {"sleep", "gather"} => pending' = {}
  <2>1. pc' = IF pending = {e} THEN "sleep" ELSE "events"
    BY DEF HearEvent, BroadcastEvent
  <2>2. /\ UNCHANGED <<last_state, last_signature, heard, missed>>
        /\ pending' = pending \ {e}
        /\ told' = [told EXCEPT ![About(e)] = e.now]
    BY DEF HearEvent, BroadcastEvent, history, About
  <2> QED
    BY <2>1, <2>2
<1>2. /\ About(e) \in Subjects
      /\ e.now = Actual(last_state, About(e))
      /\ Answered(last_state, About(e)[1], About(e)[2])
  BY DEF PendingRight, About
<1>3. \A s : Actual(last_state, s)' = Actual(last_state, s)
  BY <1>1 DEF Actual, Value
<1>4. \A n, v : Answered(last_state, n, v)' = Answered(last_state, n, v)
  BY <1>1 DEF Answered
<1>5. PollKept'
  BY <1>1 DEF PollKept
<1>6. PendingRight'
  BY <1>1 DEF PendingRight, Actual, Value, Answered, Subjects, About
<1>7. HeardRight'
  BY <1>1 DEF HeardRight, Actual, Value, Answered, Subjects
<1>8. \A s \in Subjects : told'[s] = IF s = About(e) THEN e.now ELSE told[s]
  BY <1>1 DEF HeardRight
<1>9. ToldOrPending'
  <2> SUFFICES ASSUME NEW s \in Subjects, <<s[1], s[2]>> \notin missed
               PROVE  told'[s] = heard[s] \/ \E ev \in pending' : About(ev) = s
    BY <1>1 DEF ToldOrPending, Subjects, About
  <2>1. CASE s = About(e)
    BY <1>2, <1>8, <2>1 DEF HeardRight
  <2>2. CASE s # About(e)
    BY <1>1, <1>8, <2>2 DEF ToldOrPending
  <2> QED
    BY <2>1, <2>2
<1>10. WasRight'
  <2> SUFFICES ASSUME NEW ev \in pending', <<ev.node, ev.view>> \notin missed
               PROVE  ev.was = told'[About(ev)]
    BY <1>1 DEF WasRight, About
  <2>1. ev \in pending /\ About(ev) # About(e) /\ About(ev) \in Subjects
    BY <1>1 DEF PendingRight
  <2> QED
    BY <1>8, <2>1 DEF WasRight
<1> QED
  BY <1>5, <1>6, <1>7, <1>9, <1>10

(* The other steps touch none of it, and begin no poll over pending events.*)
LEMMA QuietStepKeeps ==
  ASSUME ListenerInv, UNCHANGED <<last_state, last_signature, pending, told, heard, missed>>,
         pc' \in {"sleep", "gather"} => pending' = {}
  PROVE  ListenerInv'
<1>1. PollKept' /\ PendingRight'
  BY DEF ListenerInv, PollKept, PendingRight, Actual, Value, Answered, Subjects, About
<1>2. HeardRight' /\ ToldOrPending' /\ WasRight'
  BY DEF ListenerInv, HeardRight, ToldOrPending, WasRight, Actual, Value, Answered, Subjects, About
<1> QED
  BY <1>1, <1>2 DEF ListenerInv

LEMMA ListenerInitHolds == ListenerInit => ListenerInv
<1> SUFFICES ASSUME ListenerInit PROVE ListenerInv
  OBVIOUS
<1> USE DEF ListenerInit, Init
<1>1. PollKept
  BY DEF PollKept, Dict
<1>2. PendingRight /\ WasRight
  BY DEF PendingRight, WasRight
<1>3. HeardRight
  BY DEF HeardRight, Silent, Answered, Subjects
<1>4. ToldOrPending
  BY DEF ToldOrPending, Silent
<1> QED
  BY <1>1, <1>2, <1>3, <1>4 DEF ListenerInv

LEMMA ListenerNextKeeps == ListenerInv /\ [ListenerNext]_listenerVars => ListenerInv'
<1> SUFFICES ASSUME ListenerInv, [ListenerNext]_listenerVars PROVE ListenerInv'
  OBVIOUS
<1>1. CASE HearNothing
  <2>1. UNCHANGED <<last_state, last_signature, pending, told, heard, missed>>
    BY <1>1 DEF HearNothing, EditTopology, LoadNodes, LoadRaises, FileIsRead,
                LosePoll, PollRaises, page, history, tick
  <2>2. pc' \in {"sleep", "gather"} => pending' = {}
    BY <1>1, <2>1 DEF HearNothing, EditTopology, LoadNodes, LoadRaises, FileIsRead,
                      LosePoll, PollRaises, tick, ListenerInv, PendingRight
  <2> QED
    BY <2>1, <2>2, QuietStepKeeps
<1>2. CASE HearPoll
  BY <1>2, HearPollKeeps
<1>3. CASE HearState
  <2>1. /\ UNCHANGED <<last_state, last_signature, pending, told, heard, missed>>
        /\ pc' = "signal"
    BY <1>3 DEF HearState, BroadcastState, history
  <2> QED
    BY <2>1, QuietStepKeeps
<1>4. CASE HearSignal
  <2>1. UNCHANGED <<last_state, last_signature, pending, told, heard, missed>>
    BY <1>4 DEF HearSignal, BroadcastSignal, history
  <2>2. pc' \in {"sleep", "gather"} => pending' = {}
    BY <1>4, <2>1 DEF HearSignal, BroadcastSignal
  <2> QED
    BY <2>1, <2>2, QuietStepKeeps
<1>5. CASE \E ev \in pending : HearEvent(ev)
  BY <1>5, HearEventKeeps
<1>6. CASE UNCHANGED listenerVars
  <2>1. UNCHANGED <<last_state, last_signature, pc, pending, told, heard, missed>>
    BY <1>6 DEF listenerVars, vars, tick, page, history
  <2>2. pc' \in {"sleep", "gather"} => pending' = {}
    BY <2>1 DEF ListenerInv, PendingRight
  <2> QED
    BY <2>1, <2>2, QuietStepKeeps
<1> QED
  BY <1>1, <1>2, <1>3, <1>4, <1>5, <1>6 DEF ListenerNext

LEMMA ListenerInvAlways == ListenerSpec => []ListenerInv
BY ListenerInitHolds, ListenerNextKeeps, PTL DEF ListenerSpec

-----------------------------------------------------------------------------
(* What the pane says is what the routers last answered, for every view    *)
(* that never changed while poll_all could not read it.                    *)
THEOREM LogTellsTheLabAlways == ListenerSpec => []LogTellsTheLab
<1>1. ListenerInv => LogTellsTheLab
  BY DEF ListenerInv, HeardRight, ToldOrPending, LogTellsTheLab
<1> QED
  BY <1>1, ListenerInvAlways, PTL

(* The "was" of every event broadcast is what the pane said before it.     *)
THEOREM WasIsWhatWasSaidAlways == ListenerSpec => WasIsWhatWasSaid
<1> DEFINE Step == \A ev \in pending \ pending' :
                     <<ev.node, ev.view>> \notin missed
                       => ev.was = told[<<ev.node, ev.view, ev.item>>]
<1>1. ListenerInv => Step
  BY DEF ListenerInv, WasRight, About
<1>2. WasIsWhatWasSaid <=> [][Step]_listenerVars
  BY DEF WasIsWhatWasSaid
<1> QED
  BY <1>1, <1>2, ListenerInvAlways, PTL

(* Nothing is said to be gone but on the word of a router that answered.   *)
THEOREM GoneOnlyWhenAnsweredAlways == ListenerSpec => GoneOnlyWhenAnswered
<1> DEFINE Step == \A s \in Subjects :
                     told[s] # None /\ told'[s] = None
                       => Answered(last_state, s[1], s[2]) /\ Actual(last_state, s) = None
<1>1. ASSUME ListenerInv, [ListenerNext]_listenerVars PROVE Step
  <2>1. CASE UNCHANGED told
    BY <2>1
  <2>2. CASE \E ev \in pending : HearEvent(ev)
    <3>1. PICK e \in pending : HearEvent(e)
      BY <2>2
    <3>2. /\ About(e) \in Subjects
          /\ e.now = Actual(last_state, About(e))
          /\ Answered(last_state, About(e)[1], About(e)[2])
      BY <1>1 DEF ListenerInv, PendingRight, About
    <3>3. told' = [told EXCEPT ![About(e)] = e.now] /\ DOMAIN told = Subjects
      BY <1>1, <3>1 DEF HearEvent, About, ListenerInv, HeardRight
    <3> QED
      BY <3>2, <3>3
  <2>3. UNCHANGED told \/ \E ev \in pending : HearEvent(ev)
    BY <1>1 DEF ListenerNext, HearNothing, HearPoll, Listen, HearState, HearSignal,
                listenerVars, page
  <2> QED
    BY <2>1, <2>2, <2>3
<1>2. GoneOnlyWhenAnswered <=> [][Step]_listenerVars
  BY DEF GoneOnlyWhenAnswered
<1> QED
  BY <1>1, <1>2, ListenerInvAlways, PTL DEF ListenerSpec

(* The page's copy of the lab is the one whose signature the poller keeps, *)
(* except between adopting a changed poll and broadcasting it.             *)
PageInv ==
  /\ pc = "state" => last_signature = Signature(last_state)
  /\ pc # "state" /\ last_signature # None => Signature(lastState) = last_signature

THEOREM PageDrawsLastSignatureAlways == ListenerSpec => []PageDrawsLastSignature
<1>1. ListenerInit => PageInv
  BY DEF ListenerInit, Init, PageInv
<1>2. ASSUME PageInv, [ListenerNext]_listenerVars PROVE PageInv'
  <2> USE DEF PageInv
  <2>1. CASE UNCHANGED <<last_signature, last_state, lastState>> /\ pc # "state" /\ pc' # "state"
    BY <1>2, <2>1
  <2>2. CASE HearPoll
    <3>1. PICK state \in Polls : (GatherUnchanged(state) \/ GatherChanged(state)) /\ Listen(state)
      BY <2>2 DEF HearPoll
    <3>2. pc = "gather" /\ lastState' = lastState /\ last_state' = state
      BY <2>2, <3>1 DEF HearPoll, Listen, page, GatherUnchanged, GatherChanged, AdoptPoll
    <3>3. \/ last_signature' = Signature(state) /\ pc' = "state"
          \/ UNCHANGED last_signature /\ pc' = "signal"
      BY <3>1 DEF GatherUnchanged, GatherChanged
    <3>4. Signature(last_state)' = Signature(state)
      BY <3>2 DEF Signature, Peers, BestPaths
    <3> QED
      BY <1>2, <3>2, <3>3, <3>4 DEF Signature
  <2>3. CASE HearState
    <3>1. /\ pc = "state" /\ pc' = "signal"
          /\ UNCHANGED <<last_signature, last_state>> /\ lastState' = last_state
      BY <2>3 DEF HearState, BroadcastState
    <3> QED
      BY <1>2, <3>1 DEF Signature
  <2>4. CASE HearNothing
    BY <1>2, <2>4 DEF HearNothing, EditTopology, LoadNodes, LoadRaises, FileIsRead,
                      LosePoll, PollRaises, page, tick,
                      Signature
  <2>5. CASE HearSignal
    BY <1>2, <2>5 DEF HearSignal, BroadcastSignal, Signature
  <2>6. CASE \E ev \in pending : HearEvent(ev)
    BY <1>2, <2>6 DEF HearEvent, BroadcastEvent, Signature
  <2>7. CASE UNCHANGED listenerVars
    BY <1>2, <2>7 DEF listenerVars, vars, tick, page, Signature
  <2> QED
    BY <1>2, <2>2, <2>3, <2>4, <2>5, <2>6, <2>7 DEF ListenerNext
<1>3. PageInv => PageDrawsLastSignature
  BY DEF PageInv, PageDrawsLastSignature
<1> QED
  BY <1>1, <1>2, <1>3, PTL DEF ListenerSpec

(* The sample a signal holds of a session, for each the poll has *)
Samples(sig, state) ==
  \A n \in Routers, ip \in PeerIPs :
    Peers(state[n])[ip] # None =>
      /\ sig # None /\ sig[n] # None /\ sig[n][ip] # None
      /\ sig[n][ip].msgRcvd = Peers(state[n])[ip].msgRcvd

(* A pulse of one signal is measured from the sample in the other *)
Joins(before, now) ==
  \A n \in Routers, ip \in PeerIPs :
    now[n] # None /\ now[n][ip] # None /\ now[n][ip].hasDelta =>
      /\ before # None /\ before[n] # None /\ before[n][ip] # None
      /\ now[n][ip].dRcvd = now[n][ip].msgRcvd - before[n][ip].msgRcvd

(* The page holds the samples of the last poll, or the signal that brings  *)
(* them is on its way.                                                     *)
PulseInv ==
  /\ pc \in {"sleep", "gather", "events"} => Samples(lastSignal, last_state)
  /\ pc \in {"state", "signal"} => Joins(lastSignal, signal) /\ Samples(signal, last_state)

(* A poll is measured from the poll before, and is a sample itself.        *)
LEMMA SignalMeasures ==
  ASSUME NEW prev \in Dict(Routers, Readable), NEW curr \in Dict(Routers, Readable),
         NEW before, Samples(before, prev)
  PROVE  Joins(before, Signal(prev, curr)) /\ Samples(Signal(prev, curr), curr)
<1> DEFINE now(n, ip) == Peers(curr[n])[ip]
           was(n, ip) == Peers(prev[n])[ip]
           measured(n, ip) == was(n, ip) # None /\ now(n, ip).msgRcvd >= was(n, ip).msgRcvd
           signal0 == Signal(prev, curr)
<1>1. ASSUME NEW n \in Routers, NEW ip \in PeerIPs, now(n, ip) # None
      PROVE  /\ curr[n] # None
             /\ signal0[n][ip].msgRcvd = now(n, ip).msgRcvd
             /\ signal0[n][ip].hasDelta = measured(n, ip)
             /\ signal0[n][ip].dRcvd = IF measured(n, ip)
                                        THEN now(n, ip).msgRcvd - was(n, ip).msgRcvd ELSE 0
  <2>1. curr[n] # None
    BY <1>1 DEF Peers, NoKeys
  <2> QED
    BY <1>1, <2>1 DEF Signal
<1>2. ASSUME NEW n \in Routers, NEW ip \in PeerIPs, signal0[n] # None, signal0[n][ip] # None
      PROVE  now(n, ip) # None
  BY <1>2 DEF Signal
<1>3. Samples(signal0, curr)
  BY <1>1, SignalAssumption DEF Samples
<1> HIDE DEF signal0
<1>4. ASSUME NEW n \in Routers, NEW ip \in PeerIPs,
             signal0[n] # None, signal0[n][ip] # None, signal0[n][ip].hasDelta
      PROVE  /\ before # None /\ before[n] # None /\ before[n][ip] # None
             /\ signal0[n][ip].dRcvd = signal0[n][ip].msgRcvd - before[n][ip].msgRcvd
  <2>1. now(n, ip) # None
    BY <1>2, <1>4
  <2>2. measured(n, ip)
    BY <1>1, <1>4, <2>1
  <2>3. before # None /\ before[n] # None /\ before[n][ip] # None
        /\ before[n][ip].msgRcvd = was(n, ip).msgRcvd
    BY <2>2 DEF Samples
  <2> QED
    BY <1>1, <2>1, <2>2, <2>3
<1>5. Joins(before, signal0)
  BY <1>4 DEF Joins
<1> QED
  BY <1>3, <1>5 DEF signal0

LEMMA PulsesKept ==
  ASSUME ListenerInv, PulseInv, [ListenerNext]_listenerVars
  PROVE  /\ PulseInv'
         /\ lastSignal' # lastSignal => Joins(lastSignal, lastSignal')
<1>1. CASE HearPoll
  <2>1. PICK state \in Polls : (GatherUnchanged(state) \/ GatherChanged(state)) /\ Listen(state)
    BY <1>1 DEF HearPoll
  <2>2. /\ pc = "gather" /\ pc' \in {"state", "signal"}
        /\ lastSignal' = lastSignal /\ last_state' = state
        /\ signal' = Signal(last_state, state)
    BY <1>1, <2>1 DEF HearPoll, Listen, page, GatherUnchanged, GatherChanged, AdoptPoll
  <2>3. last_state \in Dict(Routers, Readable) /\ state \in Dict(Routers, Readable)
    BY PollTyped DEF ListenerInv, PollKept
  <2>4. Samples(lastSignal, last_state)
    BY <2>2 DEF PulseInv
  <2>5. Joins(lastSignal, Signal(last_state, state)) /\ Samples(Signal(last_state, state), state)
    BY <2>3, <2>4, SignalMeasures
  <2>6. Joins(lastSignal', signal') /\ Samples(signal', last_state')
    BY <2>2, <2>5
  <2> QED
    BY <2>2, <2>6 DEF PulseInv, Joins, Samples, Peers
<1>2. CASE HearSignal
  <2>1. /\ pc = "signal" /\ pc' \in {"sleep", "events"}
        /\ lastSignal' = signal /\ last_state' = last_state
    BY <1>2 DEF HearSignal, BroadcastSignal
  <2>2. Joins(lastSignal, signal) /\ Samples(signal, last_state)
    BY <2>1 DEF PulseInv
  <2>3. Samples(lastSignal', last_state')
    BY <2>1, <2>2
  <2> QED
    BY <2>1, <2>2, <2>3 DEF PulseInv, Samples, Peers
<1>3. CASE /\ UNCHANGED <<lastSignal, last_state, signal>>
           /\ \/ pc \in {"sleep", "gather", "events"} /\ pc' \in {"sleep", "gather", "events"}
              \/ pc \in {"state", "signal"} /\ pc' \in {"state", "signal"}
              \/ pc' = pc
  BY <1>3 DEF PulseInv, Samples, Joins, Peers
<1>4. CASE HearNothing
  BY <1>3, <1>4 DEF HearNothing, EditTopology, LoadNodes, LoadRaises, FileIsRead,
              LosePoll, PollRaises, page, tick
<1>5. CASE HearState
  BY <1>3, <1>5 DEF HearState, BroadcastState
<1>6. CASE \E ev \in pending : HearEvent(ev)
  BY <1>3, <1>6 DEF HearEvent, BroadcastEvent
<1>7. CASE UNCHANGED listenerVars
  BY <1>3, <1>7 DEF listenerVars, vars, tick, page
<1> QED
  BY <1>1, <1>2, <1>4, <1>5, <1>6, <1>7 DEF ListenerNext

(* Each pulse the page animates starts where the one before ended, through *)
(* polls that changed nothing, that failed for a router or that raised.    *)
THEOREM PulsesAlwaysJoin == ListenerSpec => PulsesJoin
<1>1. ListenerInit => PulseInv
  BY DEF ListenerInit, Init, PulseInv, Samples, Peers, NoKeys
<1>2. PulsesJoin <=> [][lastSignal' # lastSignal => Joins(lastSignal, lastSignal')]_listenerVars
  BY DEF PulsesJoin, Joins
<1> QED
  BY <1>1, <1>2, ListenerInvAlways, PulsesKept, PTL DEF ListenerSpec

(* The pane of a listener is a ledger: each step of it looks at the lab    *)
(* with everything told, tells what was seen, or does neither.             *)
THEOREM ListenerImplementsLedger == ListenerSpec => ImplementsLedger
<1> DEFINE unseen == {s \in Subjects : <<s[1], s[2]>> \in missed}
<1>1. ListenerInit => Pane!Init
  BY DEF ListenerInit, Pane!Init, Silent
<1>2. ASSUME ListenerInv, [ListenerNext]_listenerVars PROVE [Pane!Next]_(Pane!vars)
  <2>1. CASE UNCHANGED <<heard, told, missed>>
    BY <2>1 DEF Pane!vars
  <2>2. CASE HearPoll
    <3>1. PICK state \in Polls : Listen(state)
      BY <2>2 DEF HearPoll
    <3>2. pending = {}
      BY <1>2, <2>2 DEF ListenerInv, PendingRight, HearPoll
    <3>3. Pane!CaughtUp
      BY <1>2, <3>2 DEF ListenerInv, ToldOrPending, Pane!CaughtUp
    <3>4. DOMAIN heard' = Subjects /\ missed \subseteq missed' /\ told' = told
      BY <3>1 DEF Listen, page
    <3>5. unseen \subseteq unseen' /\ unseen' \subseteq Subjects
      BY <3>4 DEF Subjects
    <3> QED
      BY <3>3, <3>4, <3>5 DEF Pane!Next, Pane!Look
  <2>3. CASE \E ev \in pending : HearEvent(ev)
    <3>1. PICK ev \in pending : HearEvent(ev)
      BY <2>3
    <3>2. About(ev) \in Subjects /\ ev.now = heard[About(ev)]
      BY <1>2 DEF ListenerInv, PendingRight, HeardRight, About
    <3>3. told' = [told EXCEPT ![About(ev)] = heard[About(ev)]] /\ UNCHANGED <<heard, missed>>
      BY <3>1, <3>2 DEF HearEvent, About, history
    <3>4. Pane!Tell(About(ev))
      BY <3>3 DEF Pane!Tell
    <3> QED
      BY <3>2, <3>4 DEF Pane!Next
  <2> QED
    BY <1>2, <2>1, <2>2, <2>3 DEF ListenerNext, HearNothing, HearState, HearSignal, listenerVars,
                                  page, history
<1>3. ImplementsLedger <=> Pane!Init /\ [][Pane!Next]_(Pane!vars)
  BY DEF ImplementsLedger, Pane!Spec
<1> QED
  BY <1>1, <1>2, <1>3, ListenerInvAlways, PTL DEF ListenerSpec
=============================================================================
