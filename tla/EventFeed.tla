----------------------------- MODULE EventFeed ------------------------------
(***************************************************************************)
(* How one page gets its events: over the WebSocket while it is connected, *)
(* and from /api/events?since= each time a socket opens (catchUp in        *)
(* dashboard.js).  The two travel on different connections, so they        *)
(* overtake each other; sockets break, fetches fail, and the server        *)
(* restarts with a new epoch and ids from 1.                               *)
(*                                                                         *)
(* An event is its process and its id.  What the ring of a process holds   *)
(* is the last EVENTS_RING ids it issued: Poller!CatchUpAnswersTheGap.     *)
(***************************************************************************)
EXTENDS Integers, Sequences, FiniteSets

CONSTANTS
  EVENTS_RING,   \* events the server keeps
  ROWS,          \* lines the events pane keeps (100 in the page)
  SlowRestart,   \* what a process sent is handled or lost before the next answers
  None,          \* JavaScript's null, and no answer yet
  MaxEvents,     \* bound: events one process records
  MaxFetches,    \* bound: fetches in flight at once
  Budgets        \* bound: a behaviour keeps within one of these

Events == [epoch : Nat, id : Nat \ {0}]

(* The response to a fetch: the events after `from` up to lastId *)
Response == [epoch : Nat, lastId : Nat, from : Nat]

(* A call of catchUp.  boot: bootstrap waits for it *)
Fetch == [since : Nat, retry : BOOLEAN, boot : BOOLEAN, answer : Response \cup {None}]

(* Restarts of the server, sockets that break without one, fetches that    *)
(* fail, and fetches in flight at once.                                    *)
Budget == [restarts : Nat, drops : Nat, failures : Nat, fetches : Nat]

ASSUME FeedAssumption ==
  /\ {EVENTS_RING, ROWS, MaxFetches} \subseteq Nat \ {0}
  /\ MaxEvents \in Nat
  /\ Budgets \subseteq Budget
  /\ SlowRestart \in BOOLEAN
  /\ None \notin Nat \cup Response \cup Fetch

VARIABLES
  epoch,          \* the running server process
  last_event_id,  \* its poller's
  joined,         \* the page's socket is in main.clients
  sending,        \* broadcast has the last event still to send to the socket
  wire,           \* frames between the two ends of the page's socket
  socket,         \* the page's end of it
  fetches,        \* catchUp calls waiting for their response, None where there is none
  rows,           \* the pane, oldest first: events, and whether the line has an id
  renderedEvents,
  lastEventId,
  pollerEpoch,
  adding,         \* events the loop at the end of catchUp has still to add
  faults,         \* how often the socket broke and fetches failed
  drawn,          \* history: events that were drawn
  cost            \* history: what failed fetches would have been answered

server == <<epoch, last_event_id>>
pane == <<rows, renderedEvents, lastEventId, drawn>>
vars == <<server, joined, sending, wire, socket, fetches, pane, pollerEpoch, adding, faults, cost>>

Max2(a, b) == IF a > b THEN a ELSE b

Open == [type |-> "open"]
Close == [type |-> "close"]
EventFrame(ev) == [type |-> "event", data |-> ev]

Frame == {Open, Close} \cup [type : {"event"}, data : Events]

(* A line of the pane; numbered while its data-event-id is set *)
Line == [event : Events, numbered : BOOLEAN]

Slots == 1 .. MaxFetches

Idle == [i \in Slots |-> None]

InFlight == {i \in Slots : fetches[i] # None}

Within(restarts, drops, failures, inFlight) ==
  \E b \in Budgets :
    restarts <= b.restarts /\ drops <= b.drops /\ failures <= b.failures /\ inFlight <= b.fetches

(* A fetch in flight, not answered yet *)
Ask(since, retry, boot) ==
  [since |-> since, retry |-> retry, boot |-> boot, answer |-> None]

Init ==
  /\ epoch = 0 /\ last_event_id = 0
  /\ joined = FALSE /\ sending = FALSE /\ wire = <<>>
  /\ socket = "boot"
  /\ fetches = [i \in Slots |-> IF i = 1 THEN Ask(0, TRUE, TRUE) ELSE None]
  /\ rows = <<>> /\ renderedEvents = {} /\ lastEventId = 0
  /\ pollerEpoch = None
  /\ adding = <<>>
  /\ faults = [drops |-> 0, failures |-> 0]
  /\ drawn = {} /\ cost = {}

-----------------------------------------------------------------------------
(* The server.                                                             *)

(* record_event, and broadcast up to its first await *)
Record ==
  /\ ~ sending
  /\ last_event_id < MaxEvents
  /\ last_event_id' = last_event_id + 1
  /\ sending' = joined
  /\ UNCHANGED <<epoch, joined, wire, socket, fetches, pane, pollerEpoch, adding, faults, cost>>

Send ==
  /\ sending
  /\ sending' = FALSE
  /\ wire' = Append(wire, EventFrame([epoch |-> epoch, id |-> last_event_id]))
  /\ UNCHANGED <<server, joined, socket, fetches, pane, pollerEpoch, adding, faults, cost>>

(* main.ws: the socket joins the clients as it is accepted *)
Accept ==
  /\ socket = "connecting"
  /\ socket' = "open"
  /\ joined' = TRUE
  /\ wire' = <<Open>>
  /\ UNCHANGED <<server, sending, fetches, pane, pollerEpoch, adding, faults, cost>>

(* Seeded fault: a ring that is not full yet starts below the first id *)
AnswerBelowFirst(i) ==
  /\ fetches[i].answer = None
  /\ fetches' = [fetches EXCEPT ![i].answer =
       [epoch |-> epoch, lastId |-> last_event_id, from |-> last_event_id - EVENTS_RING]]
  /\ UNCHANGED <<server, joined, sending, wire, socket, pane, pollerEpoch, adding, faults, cost>>

(* GET /api/events *)
Answer(i) ==
  /\ fetches[i].answer = None
  /\ fetches' = [fetches EXCEPT ![i].answer =
       [epoch |-> epoch, lastId |-> last_event_id,
        from |-> Max2(fetches[i].since, last_event_id - EVENTS_RING)]]
  /\ UNCHANGED <<server, joined, sending, wire, socket, pane, pollerEpoch, adding, faults, cost>>

(* The connection is gone; the page still handles the first frames of it *)
Break(kept) ==
  /\ joined' = FALSE
  /\ sending' = FALSE
  /\ wire' = IF joined THEN Append(SubSeq(wire, 1, kept), Close) ELSE wire

Drop ==
  /\ joined
  /\ Within(epoch, faults.drops + 1, faults.failures, Cardinality(InFlight))
  /\ faults' = [faults EXCEPT !.drops = @ + 1]
  /\ \E kept \in 0 .. Len(wire) : Break(kept)
  /\ UNCHANGED <<server, socket, fetches, pane, pollerEpoch, adding, cost>>

(* The process takes its connections with it: the requests it had not      *)
(* answered fail, and what it had sent may still reach the page.           *)
Restart ==
  /\ Within(epoch + 1, faults.drops, faults.failures, Cardinality(InFlight))
  /\ epoch' = epoch + 1
  /\ last_event_id' = 0
  /\ \E kept \in 0 .. Len(wire) : Break(kept)
  /\ fetches' = [i \in Slots |->
       IF i \in InFlight /\ fetches[i].answer # None THEN fetches[i] ELSE None]
  /\ socket' = IF \E i \in InFlight : fetches[i].boot /\ fetches[i].answer = None
               THEN "connecting" ELSE socket
  /\ SlowRestart => fetches' = Idle /\ \A k \in DOMAIN wire' : wire'[k].type # "event"
  /\ UNCHANGED <<pane, pollerEpoch, adding, faults, cost>>

-----------------------------------------------------------------------------
(* The page.  A handler runs to completion: while catchUp is adding what   *)
(* it fetched no other handler of the page starts.                         *)

(* Seeded fault: the ids of pruned lines stay marked *)
addEventUnpruned(ev) ==
  IF ev.id \in renderedEvents
  THEN UNCHANGED pane
  ELSE LET line == [event |-> ev, numbered |-> TRUE]
       IN  /\ rows' = Append(IF Len(rows) = ROWS THEN Tail(rows) ELSE rows, line)
           /\ renderedEvents' = renderedEvents \cup {ev.id}
           /\ lastEventId' = Max2(lastEventId, ev.id)
           /\ drawn' = drawn \cup {ev}

addEvent(ev) ==
  IF ev.id \in renderedEvents
  THEN UNCHANGED pane
  ELSE LET line == [event |-> ev, numbered |-> TRUE]
           full == Len(rows) = ROWS
           lost == IF full /\ Head(rows).numbered THEN {Head(rows).event.id} ELSE {}
       IN  /\ rows' = Append(IF full THEN Tail(rows) ELSE rows, line)
           /\ renderedEvents' = (renderedEvents \cup {ev.id}) \ lost
           /\ lastEventId' = Max2(lastEventId, ev.id)
           /\ drawn' = drawn \cup {ev}

(* Seeded fault: the catch-up asks from one event too far *)
OnOpenSkipping ==
  /\ adding = <<>>
  /\ wire # <<>> /\ Head(wire).type = "open"
  /\ InFlight # Slots /\ Within(epoch, faults.drops, faults.failures, Cardinality(InFlight) + 1)
  /\ wire' = Tail(wire)
  /\ fetches' = [fetches EXCEPT ![CHOOSE i \in Slots : i \notin InFlight] =
                   Ask(lastEventId + 1, TRUE, FALSE)]
  /\ UNCHANGED <<server, joined, sending, socket, pane, pollerEpoch, adding, faults, cost>>

(* onopen: the fetch leaves before any message is handled *)
OnOpen ==
  /\ adding = <<>>
  /\ wire # <<>> /\ Head(wire).type = "open"
  /\ InFlight # Slots /\ Within(epoch, faults.drops, faults.failures, Cardinality(InFlight) + 1)
  /\ wire' = Tail(wire)
  /\ fetches' = [fetches EXCEPT ![CHOOSE i \in Slots : i \notin InFlight] =
                   Ask(lastEventId, TRUE, FALSE)]
  /\ UNCHANGED <<server, joined, sending, socket, pane, pollerEpoch, adding, faults, cost>>

OnEvent ==
  /\ adding = <<>>
  /\ wire # <<>> /\ Head(wire).type = "event"
  /\ wire' = Tail(wire)
  /\ addEvent(Head(wire).data)
  /\ UNCHANGED <<server, joined, sending, socket, fetches, pollerEpoch, adding, faults, cost>>

(* Seeded fault: a closed socket is not opened again *)
OnCloseForGood ==
  /\ adding = <<>>
  /\ wire # <<>> /\ Head(wire).type = "close"
  /\ wire' = <<>>
  /\ UNCHANGED <<server, joined, sending, socket, fetches, pane, pollerEpoch, adding, faults, cost>>

OnClose ==
  /\ adding = <<>>
  /\ wire # <<>> /\ Head(wire).type = "close"
  /\ wire' = <<>>
  /\ socket' = "waiting"
  /\ UNCHANGED <<server, joined, sending, fetches, pane, pollerEpoch, adding, faults, cost>>

(* The two-second timer *)
Reconnect ==
  /\ adding = <<>>
  /\ socket = "waiting"
  /\ socket' = "connecting"
  /\ UNCHANGED <<server, joined, sending, wire, fetches, pane, pollerEpoch, adding, faults, cost>>

Without(i) == [fetches EXCEPT ![i] = None]

(* bootstrap connects when its catchUp has returned, however it went *)
Return(fetch) == socket' = IF fetch.boot THEN "connecting" ELSE socket

OtherProcess(answer) == pollerEpoch # None /\ answer.epoch # pollerEpoch

RestartTell(answer) == OtherProcess(answer) \/ answer.lastId < lastEventId

(* Seeded fault: the old process's ids stay marked *)
ForgetHighWaterOnly ==
  /\ lastEventId' = 0
  /\ UNCHANGED <<rows, renderedEvents, drawn>>

Forget ==
  /\ renderedEvents' = {}
  /\ lastEventId' = 0
  /\ rows' = [k \in DOMAIN rows |-> [rows[k] EXCEPT !.numbered = FALSE]]
  /\ UNCHANGED drawn

(* Seeded fault: the first epoch heard is kept *)
AnsweredByTheFirst(i) ==
  /\ adding = <<>> /\ fetches[i].answer # None
  /\ pollerEpoch' = IF pollerEpoch = None THEN fetches[i].answer.epoch ELSE pollerEpoch

Answered(i) == adding = <<>> /\ fetches[i].answer # None /\ pollerEpoch' = fetches[i].answer.epoch

ToAdd(answer) ==
  [k \in 1 .. answer.lastId - answer.from |-> [epoch |-> answer.epoch, id |-> answer.from + k]]

(* The numbering is another process's: forget it and ask from nothing *)
AskAgain(i) ==
  /\ Answered(i)
  /\ RestartTell(fetches[i].answer)
  /\ fetches[i].retry
  /\ Forget
  /\ fetches' = [fetches EXCEPT ![i] = Ask(0, FALSE, fetches[i].boot)]
  /\ UNCHANGED <<server, joined, sending, wire, socket, adding, faults, cost>>

(* Otherwise what the answer holds is added, after forgetting if it says so *)
TakeAnswer(i) ==
  /\ Answered(i)
  /\ \/ RestartTell(fetches[i].answer) /\ ~ fetches[i].retry /\ Forget
     \/ ~ RestartTell(fetches[i].answer) /\ UNCHANGED pane
  /\ adding' = ToAdd(fetches[i].answer)
  /\ fetches' = Without(i)
  /\ Return(fetches[i])
  /\ UNCHANGED <<server, joined, sending, wire, faults, cost>>

AddNext ==
  /\ adding # <<>>
  /\ adding' = Tail(adding)
  /\ addEvent(Head(adding))
  /\ UNCHANGED <<server, joined, sending, wire, socket, fetches, pollerEpoch, faults, cost>>

(* What the page would have had of the server for a fetch: all of another *)
(* process, or the events after `since`.                                  *)
Missed(i) ==
  LET from == IF pollerEpoch \in {None, epoch} THEN fetches[i].since ELSE 0
  IN  {[epoch |-> epoch, id |-> id] : id \in from + 1 .. last_event_id}

(* The fetch is refused, cut or answered with an error status *)
FailFetch(i) ==
  /\ adding = <<>>
  /\ Within(epoch, faults.drops, faults.failures + 1, Cardinality(InFlight))
  /\ faults' = [faults EXCEPT !.failures = @ + 1]
  /\ fetches' = Without(i)
  /\ Return(fetches[i])
  /\ cost' = cost \cup Missed(i)
  /\ UNCHANGED <<server, joined, sending, wire, pane, pollerEpoch, adding>>

-----------------------------------------------------------------------------
Page ==
  \/ OnOpen \/ OnEvent \/ OnClose \/ Reconnect \/ AddNext
  \/ \E i \in InFlight : AskAgain(i) \/ TakeAnswer(i)

Server == Send \/ Accept \/ \E i \in InFlight : Answer(i)

Fault == Drop \/ Restart \/ \E i \in InFlight : FailFetch(i)

Next == Page \/ Server \/ Record \/ Fault

Spec == Init /\ [][Next]_vars

(* The event loops of both sides run; nothing makes the network break or   *)
(* the lab move.                                                           *)
FairSpec == Spec /\ WF_vars(Page) /\ WF_vars(Server)

-----------------------------------------------------------------------------
TypeOK ==
  /\ epoch \in Nat /\ last_event_id \in Nat
  /\ joined \in BOOLEAN /\ sending \in BOOLEAN
  /\ wire \in Seq(Frame)
  /\ socket \in {"boot", "connecting", "open", "waiting"}
  /\ fetches \in [Slots -> Fetch \cup {None}]
  /\ rows \in Seq(Line)
  /\ renderedEvents \subseteq Nat \ {0}
  /\ lastEventId \in Nat
  /\ pollerEpoch \in Nat \cup {None}
  /\ adding \in Seq(Events)
  /\ faults \in [drops : Nat, failures : Nat]
  /\ drawn \subseteq Events /\ cost \subseteq Events

Marks(lines) == {lines[k].event.id : k \in {j \in DOMAIN lines : lines[j].numbered}}

MarkedOnce(lines) ==
  \A j, k \in DOMAIN lines :
    lines[j].numbered /\ lines[k].numbered /\ lines[j].event.id = lines[k].event.id => j = k

(* renderedEvents is "pruned with the list it mirrors" (dashboard.js:781): *)
(* it holds the ids of the numbered lines of the pane and no other, each   *)
(* line its own, through every prune, restart and repeated delivery.       *)
PaneMirrorsRendered == renderedEvents = Marks(rows) /\ MarkedOnce(rows)

(* Connected, with nothing on its way to the page *)
Quiet == joined /\ ~ sending /\ wire = <<>> /\ fetches = Idle /\ adding = <<>>

Kept == {[epoch |-> epoch, id |-> id] : id \in Max2(1, last_event_id - EVENTS_RING + 1) .. last_event_id}

(* "A failed catch-up costs history, not the live view"                    *)
(* (dashboard.js:871): a quiet page has drawn every event the running      *)
(* process still keeps, those it got while a fetch was under way, those of *)
(* the gap between two sockets, and those of a new process whose ids it    *)
(* had marked, but for what a fetch that failed would have brought.        *)
NothingLost == Quiet => Kept \subseteq drawn \cup cost

(* When the lab and the network come to rest the page does too, with all   *)
(* that is kept on it, and if no catch-up failed it knows which process it *)
(* listens to: no exchange of fetches and frames goes on for ever.         *)
PageSettles ==
  <>[]( /\ Quiet /\ Kept \subseteq drawn \cup cost
        /\ faults.failures = 0 => pollerEpoch = epoch )
=============================================================================
