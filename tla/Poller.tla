------------------------------- MODULE Poller -------------------------------
(***************************************************************************)
(* LabPoller of dashboard/app/poller.py: one coroutine that polls every    *)
(* router, compares the poll with the one before, broadcasts the frames    *)
(* and keeps the last EVENTS_RING events under monotonic ids.              *)
(*                                                                         *)
(* poll_all suspends at each `await`; between two of them it is one action *)
(* here.  The HTTP handlers of main.py run at those points and read        *)
(* nodes, last_state, events and last_event_id as they are then.           *)
(***************************************************************************)
EXTENDS Readings, Sequences, SequencesExt, Selection

CONSTANTS
  ROUTERS,       \* the names the environment variable gives, {} when unset
  Refused,       \* topology names _checked_url refuses an address for
  Topologies,    \* node orders the topology file may hold: <<>> if no file,
                 \* None if it is YAML of another shape
  Alphabetical,  \* every router once, in the order of sorted()
  Readable,      \* the readings a poll of one router may return
  IllShaped,     \* routers whose JSON may have a shape poll_all does not expect
  EVENTS_RING,   \* how many events are kept
  MaxEventId     \* bound: a poll whose events would pass it is not considered

ASSUME PollerAssumption ==
  /\ ROUTERS \subseteq Routers
  /\ Topologies \subseteq Seq(Routers) \cup {None}
  /\ Alphabetical \in Seq(Routers)
  /\ Readable \subseteq Reading
  /\ IllShaped \subseteq Routers
  /\ EVENTS_RING \in Nat \ {0}
  /\ MaxEventId \in Nat

(* A signature or a signal, and a part of one, is a dict or a tuple, never *)
(* Python's None                                                           *)
ASSUME SignatureAssumption ==
  \A state \in Dict(Routers, Readable) :
    /\ Signature(state) # None
    /\ \A n \in Routers : state[n] # None =>
         /\ Signature(state)[n] # None
         /\ \A ip \in PeerIPs :
              Peers(state[n])[ip] # None => Signature(state)[n].sessions[ip] # None

ASSUME SignalAssumption ==
  \A prev, curr \in Dict(Routers, Readable) :
    /\ Signal(prev, curr) # None
    /\ \A n \in Routers : curr[n] # None =>
         /\ Signal(prev, curr)[n] # None
         /\ \A ip \in PeerIPs :
              Peers(curr[n])[ip] # None => Signal(prev, curr)[n][ip] # None

VARIABLES
  topology,        \* the node order in the mounted topology file
  nodes,           \* the inventory: [name, asn] in display order
  last_state,      \* the poll before
  last_signature,  \* its signature, None before the first poll
  events,          \* the ring of recorded events
  last_event_id,
  pc,              \* where poll_all is suspended
  frame,           \* the last message given to broadcast
  signal,          \* poll_all's local of that name
  pending,         \* its local `events`: those not broadcast yet
  raised,          \* history: the last poll ended in an exception
  beats            \* history: the signals sent since the inventory was read

tick == <<pc, signal, pending>>
log == <<events, last_event_id>>
vars == <<topology, nodes, last_state, last_signature, log, tick, frame, raised, beats>>

-----------------------------------------------------------------------------
(* The inventory.                                                          *)

Node == [name : Routers, asn : ASNs \cup {None}]

Names == {nodes[i].name : i \in DOMAIN nodes}

Place(n) == CHOOSE i \in DOMAIN nodes : nodes[i].name = n

(* The routers there is an agent address for, by a file *)
Agents(file) ==
  IF ROUTERS # {} THEN ROUTERS
  ELSE {n \in Routers : file # None /\ n \in Range(file)} \ Refused

(* Running routers in the file's order, the others after them by name; the *)
(* whole file when nothing runs.                                           *)
Ordered(running, file) ==
  LET inFile == Select(file, running)
      others == Select(Alphabetical, running \ Range(inFile))
  IN  IF running = {} THEN file ELSE inFile \o others

(* Seeded fault: the entry of a new router lacks a field *)
CarriedNameless(n) ==
  IF n \in Names THEN CHOOSE node \in Range(nodes) : node.name = n
                 ELSE [name |-> n]

(* An entry already in the inventory is carried with what it knows *)
Carried(n) ==
  IF n \in Names THEN CHOOSE node \in Range(nodes) : node.name = n
                 ELSE [name |-> n, asn |-> None]

Inventory(order) == [i \in DOMAIN order |-> Carried(order[i])]

(* The constructor reads the file too, and raises where a tick would *)
Init ==
  /\ topology \in Topologies \ {None}
  /\ LET order == Ordered(Agents(topology), topology)
     IN  nodes = [i \in DOMAIN order |-> [name |-> order[i], asn |-> None]]
  /\ last_state = [n \in Routers |-> None]
  /\ last_signature = None
  /\ events = <<>>
  /\ last_event_id = 0
  /\ pc = "sleep"
  /\ frame = None
  /\ signal = None
  /\ pending = {}
  /\ raised = FALSE
  /\ beats = 0

(* Somebody edits the mounted topology file *)
EditTopology ==
  /\ topology' \in Topologies \ {topology}
  /\ UNCHANGED <<nodes, last_state, last_signature, log, tick, frame, raised, beats>>

(* The file is read for the addresses, unless the environment names them,  *)
(* and again for the order; it may be edited in between.                   *)
FileIsRead ==
  /\ pc = "sleep"
  /\ topology' \in Topologies

BothReadsParse == topology' # None /\ (ROUTERS # {} \/ topology # None)

(* Seeded fault: the inventory is read when there is none *)
LoadNodesOnce ==
  /\ FileIsRead /\ BothReadsParse
  /\ nodes' = IF nodes = <<>> THEN Inventory(Ordered(Agents(topology), topology')) ELSE nodes
  /\ pc' = "gather"
  /\ beats' = 0
  /\ UNCHANGED <<last_state, last_signature, log, frame, signal, pending, raised>>

LoadNodes ==
  /\ FileIsRead /\ BothReadsParse
  /\ \E order \in {Ordered(Agents(topology), topology')} :
       nodes' = IF order = <<>> THEN nodes ELSE Inventory(order)
  /\ pc' = "gather"
  /\ beats' = 0
  /\ UNCHANGED <<last_state, last_signature, log, frame, signal, pending, raised>>

(* A file of another shape raises where it is read, which ends the tick at *)
(* its start.                                                              *)
LoadRaises ==
  /\ FileIsRead /\ ~ BothReadsParse
  /\ UNCHANGED <<nodes, last_state, last_signature, log, tick, frame, raised, beats>>

-----------------------------------------------------------------------------
(* All routers are read, then the poll is compared and adopted without a   *)
(* suspension.  Each read looks for its address in the file as it is then: *)
(* one that no file gives an address has none.                             *)

Result(r) ==
  IF \E file \in Topologies : r \in Agents(file) THEN Readable
  ELSE {e \in Readable : e.error # None}

Reads == {reads \in [Names -> Readable] : \A n \in Names : reads[n] \in Result(n)}

Polls == {[n \in Routers |-> IF n \in Names THEN reads[n] ELSE None] : reads \in Reads}

(* Seeded fault: a known AS is never measured again *)
MeasuredOnce(node, state) ==
  IF node.asn = None THEN [node EXCEPT !.asn = state[node.name].asn] ELSE node

(* Seeded fault: what was not measured is forgotten *)
MeasuredOrForgotten(node, state) == [node EXCEPT !.asn = state[node.name].asn]

Measured(node, state) ==
  IF state[node.name].asn # None THEN [node EXCEPT !.asn = state[node.name].asn] ELSE node

AdoptPoll(state) ==
  /\ last_state' = state
  /\ raised' = FALSE
  /\ nodes' = [i \in DOMAIN nodes |-> Measured(nodes[i], state)]
  /\ signal' = Signal(last_state, state)
  /\ UNCHANGED <<topology, log, frame, beats>>

(* Seeded fault: nothing to draw, nothing to send *)
GatherUnchangedSilently(state) ==
  /\ Signature(state) = last_signature
  /\ pc' = "sleep"
  /\ AdoptPoll(state)
  /\ UNCHANGED <<last_signature, pending>>

(* Seeded fault: the sample of an unchanged poll is not kept *)
GatherUnchangedUnkept(state) ==
  /\ Signature(state) = last_signature
  /\ pc' = "signal"
  /\ signal' = Signal(last_state, state)
  /\ UNCHANGED <<topology, nodes, last_state, log, frame, last_signature, pending, raised, beats>>

(* Seeded fault: a poll without an event is taken for unchanged *)
GatherUneventful(state) ==
  /\ DiffEvents(last_state, state) = {}
  /\ pc' = "signal"
  /\ last_signature' = Signature(state)
  /\ AdoptPoll(state)
  /\ UNCHANGED pending

(* What the page draws did not move: only the signal goes out *)
GatherUnchanged(state) ==
  /\ pc' = "signal"
  /\ AdoptPoll(state)
  /\ Signature(state) = last_signature
  /\ UNCHANGED <<last_signature, pending>>

GatherChanged(state) ==
  /\ pc' = "state"
  /\ AdoptPoll(state)
  /\ Signature(state) # last_signature
  /\ last_event_id + Cardinality(DiffEvents(last_state, state)) <= MaxEventId
  /\ pending' = DiffEvents(last_state, state)
  /\ last_signature' = Signature(state)

(* A view of r has a shape the code does not expect.  The loop that notes  *)
(* the AS of each node stops at r, or _signal or _signature raises when it *)
(* is done; run prints the exception and sleeps.                           *)
PollRaises(state, r) ==
  /\ r \in Names
  /\ state[r].error = None
  /\ pc' = "sleep"
  /\ raised' = TRUE
  /\ \E noted \in {{n \in Names : Place(n) < Place(r)}, Names} :
       nodes' = [i \in DOMAIN nodes |->
                   IF nodes[i].name \in noted THEN Measured(nodes[i], state) ELSE nodes[i]]
  /\ UNCHANGED <<topology, last_state, last_signature, log, frame, signal, pending, beats>>

BroadcastState ==
  /\ pc = "state"
  /\ frame' = [type |-> "state", data |-> last_state]
  /\ pc' = "signal"
  /\ UNCHANGED <<topology, nodes, last_state, last_signature, log, signal, pending, raised, beats>>

BroadcastSignal ==
  /\ pc = "signal"
  /\ frame' = [type |-> "signal", data |-> signal]
  /\ signal' = None
  /\ pc' = IF pending = {} THEN "sleep" ELSE "events"
  /\ beats' = beats + 1
  /\ UNCHANGED <<topology, nodes, last_state, last_signature, log, pending, raised>>

-----------------------------------------------------------------------------
(* _diff_events walks the routers twice, for their sessions and then for   *)
(* their tables; of each router what it has comes before what it lost.     *)
(* Within that the order is the dict's.                                    *)
Position(ev) ==
  2 * (Place(ev.node) + (IF ev.view = "bgp" THEN Len(nodes) ELSE 0))
    + (IF ev.now = None THEN 1 ELSE 0)

Recorded(ev, id) == [id |-> id, what |-> ev]

(* Seeded fault: one event too many is kept *)
KeepOneMore(ring, e) == IF Len(ring) <= EVENTS_RING THEN Append(ring, e) ELSE Append(Tail(ring), e)

(* deque(maxlen=events_ring).append *)
Keep(ring, e) == IF Len(ring) < EVENTS_RING THEN Append(ring, e) ELSE Append(Tail(ring), e)

record_event(ev) ==
  /\ last_event_id' = last_event_id + 1
  /\ events' = Keep(events, Recorded(ev, last_event_id + 1))

BroadcastEvent(ev) ==
  /\ pc = "events"
  /\ ev \in pending
  /\ \A other \in pending : Position(ev) <= Position(other)
  /\ record_event(ev)
  /\ frame' = [type |-> "event", data |-> Recorded(ev, last_event_id + 1)]
  /\ pending' = pending \ {ev}
  /\ pc' = IF pending = {ev} THEN "sleep" ELSE "events"
  /\ UNCHANGED <<topology, nodes, last_state, last_signature, signal, raised, beats>>

(* Seeded fault: the event the caller already has is answered again *)
events_from(since) == Select(events, {e \in Range(events) : e.id >= since})

(* What /api/events?since= answers *)
events_since(since) == Select(events, {e \in Range(events) : e.id > since})

-----------------------------------------------------------------------------
Poll ==
  /\ pc = "gather"
  /\ \E state \in Polls : GatherUnchanged(state) \/ GatherChanged(state)

LosePoll == pc = "gather" /\ \E state \in Polls, r \in IllShaped : PollRaises(state, r)

Broadcast == BroadcastState \/ BroadcastSignal \/ \E ev \in pending : BroadcastEvent(ev)

run == LoadNodes \/ LoadRaises \/ Poll \/ LosePoll \/ Broadcast

Next == EditTopology \/ run

Spec == Init /\ [][Next]_vars

(* The event loop resumes poll_all, every read ends (RouterRead says of    *)
(* which routers), and run starts the next poll when its sleep is over.    *)
FairSpec == Spec /\ WF_vars(run)

-----------------------------------------------------------------------------
Said == [node : Routers, view : Views, item : PeerIPs \cup Routes,
         change : {"appeared", "state", "vanished", "added", "bestpath", "withdrawn"},
         was : SessionStates \cup NextHops \cup {None},
         now : SessionStates \cup NextHops \cup {None}]

TypeOK ==
  /\ topology \in Topologies
  /\ nodes \in Seq(Node)
  /\ last_state \in LabState
  /\ pending \subseteq Said
  /\ last_event_id \in Nat
  /\ events \in Seq([id : Nat, what : Said])
  /\ pc \in {"sleep", "gather", "state", "signal", "events"}
  /\ raised \in BOOLEAN
  /\ beats \in 0 .. 1

(* The ring is the last EVENTS_RING events recorded, under ids with no gap *)
(* and no repetition up to last_event_id, however long the process ran.    *)
RingHoldsTheLast ==
  /\ Len(events) = IF last_event_id < EVENTS_RING THEN last_event_id ELSE EVENTS_RING
  /\ \A k \in DOMAIN events : events[k].id = last_event_id - Len(events) + k

(* What record_event promises a page that comes late: /api/events answers  *)
(* the events after `since` that are still kept, each once, in the order   *)
(* of their ids, with no id skipped up to lastId.                          *)
CatchUpAnswersTheGap ==
  \A since \in 0 .. last_event_id :
    LET answer == events_since(since)
        missing == last_event_id - since
    IN  /\ Len(answer) = IF missing < EVENTS_RING THEN missing ELSE EVENTS_RING
        /\ \A k \in DOMAIN answer : answer[k].id = last_event_id - Len(answer) + k

(* /api/state and the snapshot publish nodes and last_state together: the  *)
(* AS of a listed router is the one its own answer in that state names,    *)
(* wherever poll_all is suspended.  A poll that raised may have noted some *)
(* of the AS numbers and not the state; the next that does not makes good. *)
PublishedASNIsMeasured ==
  ~ raised => \A i \in DOMAIN nodes :
    LET r == last_state[nodes[i].name]
    IN  r # None /\ r.asn # None => nodes[i].asn = r.asn

(* A router that stays in the inventory keeps the identity it last told,   *)
(* through failed polls and through edits of the topology file.            *)
KnownIdentityKept ==
  [][\A i \in DOMAIN nodes, j \in DOMAIN nodes' :
       nodes[i].name = nodes'[j].name /\ nodes[i].asn # None => nodes'[j].asn # None]_vars

(* The signal goes out on every tick, changed or not (poller.py:272), and  *)
(* once: a tick that got as far as reading the routers does not end        *)
(* without it, but for one that an exception ends, which costs the beat of *)
(* every router.                                                           *)
HeartbeatEveryTick ==
  [][pc # "sleep" /\ pc' = "sleep" => raised' \/ beats' = 1]_vars

(* A router added to the file that has an address appears without a        *)
(* restart, if the file keeps naming it.                                   *)
ListedRouterAppears ==
  \A n \in Routers : []<>(n \in Names) \/ []<>(n \notin Agents(topology))
=============================================================================
