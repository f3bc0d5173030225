-------------------------- MODULE EventFeed_proofs --------------------------
(***************************************************************************)
(* The events pane and the set that mirrors it agree, for every size of    *)
(* ring and pane and every interleaving of sockets, fetches and restarts.  *)
(* Both are changed by addEvent, which adds a line and prunes one, and by  *)
(* catchUp forgetting the numbering of a process that is gone.             *)
(*                                                                         *)
(* And a quiet page has what the ring has: the second half of the module   *)
(* follows every kept event on its way to the page.                        *)
(***************************************************************************)
EXTENDS EventFeed, SequenceTheorems, FiniteSetTheorems, TLAPS

PaneTyped ==
  /\ rows \in Seq(Line)
  /\ renderedEvents \subseteq Nat \ {0}
  /\ lastEventId \in Nat
  /\ drawn \subseteq Events

(* No mark is above the high-water mark: an id above it is not marked yet. *)
HighWater == \A id \in renderedEvents : id <= lastEventId

PaneInv == PaneTyped /\ PaneMirrorsRendered /\ HighWater

-----------------------------------------------------------------------------
(* A pruned line takes its mark along, and only its own.                   *)
LEMMA PruneMarks ==
  ASSUME NEW lines \in Seq(Line), lines # <<>>, MarkedOnce(lines)
  PROVE  /\ Tail(lines) \in Seq(Line)
         /\ MarkedOnce(Tail(lines))
         /\ Marks(Tail(lines)) =
              Marks(lines) \ (IF Head(lines).numbered THEN {Head(lines).event.id} ELSE {})
<1>1. /\ Tail(lines) \in Seq(Line)
      /\ DOMAIN lines = 1 .. Len(lines) /\ Len(lines) \in Nat \ {0}
      /\ DOMAIN Tail(lines) = 1 .. Len(lines) - 1
      /\ \A k \in 1 .. Len(lines) - 1 : Tail(lines)[k] = lines[k + 1]
      /\ Head(lines) = lines[1]
  OBVIOUS
<1>2. MarkedOnce(Tail(lines))
  BY <1>1 DEF MarkedOnce
<1> DEFINE Numbered == {j \in DOMAIN lines : lines[j].numbered}
           first == IF lines[1].numbered THEN {lines[1].event.id} ELSE {}
<1>3. ASSUME NEW k \in Numbered, k # 1
      PROVE  k - 1 \in DOMAIN Tail(lines) /\ Tail(lines)[k - 1] = lines[k]
  BY <1>1, <1>3
<1>4. Marks(Tail(lines)) = {lines[k].event.id : k \in Numbered \ {1}}
  <2>1. ASSUME NEW k \in DOMAIN Tail(lines), Tail(lines)[k].numbered
        PROVE  k + 1 \in Numbered \ {1} /\ Tail(lines)[k] = lines[k + 1]
    BY <1>1, <2>1
  <2> QED
    BY <1>3, <2>1 DEF Marks
<1>5. Marks(lines) = {lines[k].event.id : k \in Numbered}
  BY DEF Marks
<1>6. \A k \in Numbered \ {1} : lines[k].event.id \notin first
  BY <1>1 DEF MarkedOnce
<1>7. {lines[k].event.id : k \in Numbered \ {1}} = {lines[k].event.id : k \in Numbered} \ first
  BY <1>1, <1>6
<1> QED
  BY <1>1, <1>2, <1>4, <1>5, <1>7

(* A line whose id is not marked yet is marked once when it is drawn.      *)
LEMMA DrawMarks ==
  ASSUME NEW lines \in Seq(Line), MarkedOnce(lines),
         NEW line \in Line, line.numbered, line.event.id \notin Marks(lines)
  PROVE  /\ Append(lines, line) \in Seq(Line)
         /\ MarkedOnce(Append(lines, line))
         /\ Marks(Append(lines, line)) = Marks(lines) \cup {line.event.id}
<1> DEFINE longer == Append(lines, line)
           n == Len(lines) + 1
<1>1. /\ longer \in Seq(Line)
      /\ DOMAIN lines = 1 .. n - 1 /\ n \in Nat \ {0}
      /\ DOMAIN longer = 1 .. n
      /\ \A k \in 1 .. n - 1 : longer[k] = lines[k]
      /\ longer[n] = line
  OBVIOUS
<1> HIDE DEF longer, n
<1>2. \A k \in DOMAIN lines : lines[k].numbered => lines[k].event.id # line.event.id
  BY DEF Marks
<1>3. MarkedOnce(longer)
  <2> SUFFICES ASSUME NEW j \in DOMAIN longer, NEW k \in DOMAIN longer,
                      longer[j].numbered, longer[k].numbered,
                      longer[j].event.id = longer[k].event.id
               PROVE  j = k
    BY DEF MarkedOnce
  <2>1. CASE j = n \/ k = n
    BY <1>1, <1>2, <2>1
  <2>2. CASE j # n /\ k # n
    BY <1>1, <2>2 DEF MarkedOnce
  <2> QED
    BY <2>1, <2>2
<1>4. Marks(longer) = Marks(lines) \cup {line.event.id}
  <2>1. ASSUME NEW k \in DOMAIN longer, longer[k].numbered
        PROVE  longer[k].event.id \in Marks(lines) \cup {line.event.id}
    BY <1>1, <2>1 DEF Marks
  <2>2. ASSUME NEW k \in DOMAIN lines, lines[k].numbered
        PROVE  lines[k].event.id \in Marks(longer)
    BY <1>1, <2>2 DEF Marks
  <2>3. line.event.id \in Marks(longer)
    <3>1. n \in {j \in DOMAIN longer : longer[j].numbered} /\ longer[n].event.id = line.event.id
      BY <1>1
    <3> QED
      BY <3>1 DEF Marks
  <2> QED
    BY <2>1, <2>2, <2>3 DEF Marks
<1> QED
  BY <1>1, <1>3, <1>4 DEF longer

LEMMA AddEventKeeps ==
  ASSUME PaneInv, NEW ev \in Events, addEvent(ev)
  PROVE  PaneInv'
<1> USE DEF PaneInv, PaneTyped, PaneMirrorsRendered
<1>1. CASE ev.id \in renderedEvents
  BY <1>1 DEF addEvent, pane, HighWater
<1>2. CASE ev.id \notin renderedEvents
  <2> DEFINE line == [event |-> ev, numbered |-> TRUE]
             full == Len(rows) = ROWS
             lost == IF full /\ Head(rows).numbered THEN {Head(rows).event.id} ELSE {}
             rest == IF full THEN Tail(rows) ELSE rows
  <2>1. /\ rows' = Append(rest, line)
        /\ renderedEvents' = (renderedEvents \cup {ev.id}) \ lost
        /\ lastEventId' = Max2(lastEventId, ev.id)
        /\ drawn' = drawn \cup {ev}
    BY <1>2 DEF addEvent
  <2>2. line \in Line /\ line.numbered /\ line.event.id = ev.id /\ ev.id \in Nat \ {0}
    BY DEF Line, Events
  <2>3. rest \in Seq(Line) /\ MarkedOnce(rest) /\ Marks(rest) = Marks(rows) \ lost
    <3>1. CASE full
      <4>1. rows # <<>>
        BY <3>1, FeedAssumption
      <4> QED
        BY <3>1, <4>1, PruneMarks
    <3>2. CASE ~ full
      BY <3>2
    <3> QED
      BY <3>1, <3>2
  <2>4. lost \subseteq renderedEvents
    <3>1. ASSUME full, Head(rows).numbered PROVE Head(rows).event.id \in Marks(rows)
      <4>1. 1 \in DOMAIN rows /\ Head(rows) = rows[1]
        BY <3>1, FeedAssumption
      <4> QED
        BY <3>1, <4>1 DEF Marks
    <3> QED
      BY <3>1
  <2> HIDE DEF line, full, lost, rest
  <2>5. rows' \in Seq(Line) /\ MarkedOnce(rows') /\ Marks(rows') = Marks(rest) \cup {ev.id}
    BY <1>2, <2>1, <2>2, <2>3, DrawMarks
  <2>6. renderedEvents' = Marks(rows')
    BY <1>2, <2>1, <2>3, <2>4, <2>5
  <2>7. lastEventId' \in Nat /\ lastEventId <= lastEventId' /\ ev.id <= lastEventId'
    BY <2>1, <2>2 DEF Max2
  <2>8. HighWater'
    BY <2>1, <2>2, <2>7 DEF HighWater
  <2>9. PaneTyped'
    BY <2>1, <2>2, <2>5, <2>7
  <2>10. PaneMirrorsRendered'
    BY <2>5, <2>6 DEF Marks, MarkedOnce
  <2> QED
    BY <2>8, <2>9, <2>10
<1> QED
  BY <1>1, <1>2

LEMMA ForgetKeeps ==
  ASSUME PaneInv, Forget
  PROVE  PaneInv'
<1> USE DEF PaneInv, PaneTyped
<1>1. /\ renderedEvents' = {} /\ lastEventId' = 0 /\ drawn' = drawn
      /\ rows' = [k \in DOMAIN rows |-> [rows[k] EXCEPT !.numbered = FALSE]]
  BY DEF Forget
<1>2. \A k \in DOMAIN rows : [rows[k] EXCEPT !.numbered = FALSE] \in Line
  <2>1. \A k \in DOMAIN rows : rows[k] \in Line
    OBVIOUS
  <2>2. \A line \in Line : [line EXCEPT !.numbered = FALSE] \in Line
    BY DEF Line
  <2> QED
    BY <2>1, <2>2
<1>3. rows' \in Seq(Line)
  BY <1>1, <1>2
<1>4. \A k \in DOMAIN rows' : rows'[k].numbered = FALSE
  <2>1. \A k \in DOMAIN rows : rows[k] \in Line
    OBVIOUS
  <2>2. \A line \in Line : [line EXCEPT !.numbered = FALSE].numbered = FALSE
    BY DEF Line
  <2> QED
    BY <1>1, <2>1, <2>2
<1>5. Marks(rows') = {} /\ MarkedOnce(rows')
  BY <1>4 DEF Marks, MarkedOnce
<1> QED
  BY <1>1, <1>3, <1>5 DEF PaneMirrorsRendered, HighWater, Marks, MarkedOnce

-----------------------------------------------------------------------------
(* What is in flight is typed: every frame, and every response.  A process *)
(* that is sending has recorded what it sends.                             *)
FlightTyped ==
  /\ epoch \in Nat /\ last_event_id \in Nat
  /\ joined \in BOOLEAN /\ sending \in BOOLEAN
  /\ sending => last_event_id # 0
  /\ wire \in Seq(Frame)
  /\ socket \in {"boot", "connecting", "open", "waiting"}
  /\ fetches \in [Slots -> Fetch \cup {None}]
  /\ pollerEpoch \in Nat \cup {None}
  /\ adding \in Seq(Events)
  /\ faults \in [drops : Nat, failures : Nat]
  /\ cost \subseteq Events

IInv == FlightTyped /\ PaneInv

LEMMA AskTyped ==
  ASSUME NEW since \in Nat, NEW retry \in BOOLEAN, NEW boot \in BOOLEAN
  PROVE  Ask(since, retry, boot) \in Fetch
BY DEF Ask, Fetch

LEMMA FlyingTyped ==
  ASSUME FlightTyped, NEW i \in InFlight
  PROVE  /\ i \in Slots /\ fetches[i] \in Fetch
         /\ fetches[i].boot \in BOOLEAN /\ fetches[i].since \in Nat
         /\ fetches[i].answer # None => fetches[i].answer \in Response
<1>1. i \in Slots /\ fetches[i] \in Fetch
  BY DEF InFlight, FlightTyped
<1> QED
  BY <1>1 DEF Fetch

LEMMA HeadTyped ==
  ASSUME wire \in Seq(Frame), wire # <<>>
  PROVE  /\ Tail(wire) \in Seq(Frame)
         /\ Head(wire).type = "event" => Head(wire).data \in Events
<1>1. Head(wire) \in Frame /\ Tail(wire) \in Seq(Frame)
  OBVIOUS
<1> QED
  BY <1>1 DEF Frame, Open, Close

LEMMA BreakTyped ==
  ASSUME FlightTyped, NEW kept \in 0 .. Len(wire), Break(kept)
  PROVE  joined' \in BOOLEAN /\ sending' = FALSE /\ wire' \in Seq(Frame)
<1>1. SubSeq(wire, 1, kept) \in Seq(Frame)
  BY SubSeqProperties DEF FlightTyped
<1>2. Append(SubSeq(wire, 1, kept), Close) \in Seq(Frame)
  BY <1>1 DEF Frame
<1> QED
  BY <1>2 DEF Break, FlightTyped

(* The server and the network leave the pane alone.                        *)
LEMMA ServerKeeps ==
  ASSUME IInv, Server \/ Record \/ Drop \/ Restart
  PROVE  IInv'
<1> USE DEF IInv
<1>1. PaneInv'
  BY DEF Server, Record, Drop, Restart, Send, Accept, Answer, pane, PaneInv, PaneTyped,
         PaneMirrorsRendered, HighWater, Marks, MarkedOnce
<1>2. CASE Record
  BY <1>1, <1>2 DEF Record, FlightTyped, server
<1>3. CASE Send
  <2>1. EventFrame([epoch |-> epoch, id |-> last_event_id]) \in Frame
    BY <1>3 DEF Send, EventFrame, Frame, Events, FlightTyped
  <2>2. wire' = Append(wire, EventFrame([epoch |-> epoch, id |-> last_event_id]))
    BY <1>3 DEF Send
  <2>3. wire' \in Seq(Frame)
    BY <2>1, <2>2 DEF FlightTyped
  <2> QED
    BY <1>1, <1>3, <2>3 DEF Send, FlightTyped, server
<1>4. CASE Accept
  <2>1. <<Open>> \in Seq(Frame)
    BY DEF Frame
  <2> QED
    BY <1>1, <1>4, <2>1 DEF Accept, FlightTyped, server
<1>5. CASE \E i \in InFlight : Answer(i)
  <2>1. PICK i \in InFlight : Answer(i)
    BY <1>5
  <2> DEFINE r == [epoch |-> epoch, lastId |-> last_event_id,
                   from |-> Max2(fetches[i].since, last_event_id - EVENTS_RING)]
  <2>2. r \in Response
    BY FlyingTyped, FeedAssumption DEF Response, Max2, FlightTyped
  <2>3. [fetches[i] EXCEPT !.answer = r] \in Fetch
    BY <2>2, FlyingTyped DEF Fetch
  <2>4. fetches' = [fetches EXCEPT ![i] = [fetches[i] EXCEPT !.answer = r]]
    BY <2>1 DEF Answer
  <2>5. fetches' \in [Slots -> Fetch \cup {None}]
    BY <2>3, <2>4 DEF FlightTyped
  <2> QED
    BY <1>1, <2>1, <2>5 DEF Answer, FlightTyped, server
<1>6. CASE Drop
  <2>1. joined' \in BOOLEAN /\ sending' = FALSE /\ wire' \in Seq(Frame)
    BY <1>6, BreakTyped DEF Drop
  <2>2. faults' \in [drops : Nat, failures : Nat]
    BY <1>6 DEF Drop, FlightTyped
  <2> QED
    BY <1>1, <1>6, <2>1, <2>2 DEF Drop, FlightTyped, server
<1>7. CASE Restart
  <2>1. joined' \in BOOLEAN /\ sending' = FALSE /\ wire' \in Seq(Frame)
    BY <1>7, BreakTyped DEF Restart
  <2>2. fetches' \in [Slots -> Fetch \cup {None}]
    BY <1>7 DEF Restart, FlightTyped
  <2>3. socket' \in {"boot", "connecting", "open", "waiting"}
    BY <1>7 DEF Restart, FlightTyped
  <2>4. epoch' \in Nat /\ last_event_id' \in Nat /\ UNCHANGED <<pollerEpoch, adding, faults, cost>>
    BY <1>7 DEF Restart, FlightTyped
  <2>5. FlightTyped'
    BY <2>1, <2>2, <2>3, <2>4 DEF FlightTyped
  <2> QED
    BY <1>1, <2>5
<1> QED
  BY <1>2, <1>3, <1>4, <1>5, <1>6, <1>7 DEF Server

(* The page draws, forgets and asks with the pane in order.                *)
LEMMA PageKeeps ==
  ASSUME IInv, Page \/ \E i \in InFlight : FailFetch(i)
  PROVE  IInv'
<1> USE DEF IInv
<1>1. ASSUME UNCHANGED pane PROVE PaneInv'
  BY <1>1 DEF pane, PaneInv, PaneTyped, PaneMirrorsRendered, HighWater, Marks, MarkedOnce
<1>2. CASE OnOpen
  <2> DEFINE free == CHOOSE i \in Slots : i \notin InFlight
  <2>1. wire' \in Seq(Frame)
    BY <1>2, HeadTyped DEF OnOpen, FlightTyped
  <2>2. fetches' = [fetches EXCEPT ![free] = Ask(lastEventId, TRUE, FALSE)]
    BY <1>2 DEF OnOpen
  <2>3. fetches' \in [Slots -> Fetch \cup {None}]
    BY <2>2, AskTyped DEF FlightTyped, PaneInv, PaneTyped
  <2> QED
    BY <1>1, <1>2, <2>1, <2>3 DEF OnOpen, FlightTyped, server
<1>3. CASE OnEvent
  <2>1. wire' \in Seq(Frame) /\ Head(wire).data \in Events
    BY <1>3, HeadTyped DEF OnEvent, FlightTyped
  <2>2. PaneInv'
    BY <1>3, <2>1, AddEventKeeps DEF OnEvent
  <2> QED
    BY <1>3, <2>1, <2>2 DEF OnEvent, FlightTyped, server
<1>4. CASE OnClose
  BY <1>1, <1>4 DEF OnClose, FlightTyped, server
<1>5. CASE Reconnect
  BY <1>1, <1>5 DEF Reconnect, FlightTyped, server
<1>6. CASE AddNext
  <2>1. Head(adding) \in Events /\ adding' \in Seq(Events)
    BY <1>6 DEF AddNext, FlightTyped
  <2>2. PaneInv'
    BY <1>6, <2>1, AddEventKeeps DEF AddNext
  <2> QED
    BY <1>6, <2>1, <2>2 DEF AddNext, FlightTyped, server
<1>7. ASSUME NEW i \in InFlight, AskAgain(i) PROVE IInv'
  <2>1. fetches[i].boot \in BOOLEAN /\ pollerEpoch' \in Nat
    BY <1>7, FlyingTyped DEF AskAgain, Answered, Response
  <2>2. fetches' = [fetches EXCEPT ![i] = Ask(0, FALSE, fetches[i].boot)]
    BY <1>7 DEF AskAgain
  <2>3. fetches' \in [Slots -> Fetch \cup {None}]
    BY <2>1, <2>2, AskTyped DEF FlightTyped
  <2>4. PaneInv'
    BY <1>7, ForgetKeeps DEF AskAgain
  <2> QED
    BY <1>7, <2>1, <2>3, <2>4 DEF AskAgain, FlightTyped, server
<1>8. ASSUME NEW i \in InFlight PROVE Without(i) \in [Slots -> Fetch \cup {None}]
  BY DEF Without, FlightTyped
<1>9. ASSUME NEW i \in InFlight, Return(fetches[i])
      PROVE  socket' \in {"boot", "connecting", "open", "waiting"}
  BY <1>9 DEF Return, FlightTyped
<1>10. ASSUME NEW i \in InFlight, TakeAnswer(i) PROVE IInv'
  <2> DEFINE answer == fetches[i].answer
  <2>1. answer \in Response /\ pollerEpoch' \in Nat
    BY <1>10, FlyingTyped DEF TakeAnswer, Answered, Response
  <2>2. ToAdd(answer) \in Seq(Events)
    <3> DEFINE n == IF answer.lastId > answer.from THEN answer.lastId - answer.from ELSE 0
               ev(k) == [epoch |-> answer.epoch, id |-> answer.from + k]
    <3>1. n \in Nat /\ 1 .. answer.lastId - answer.from = 1 .. n
      BY <2>1 DEF Response
    <3>2. \A k \in 1 .. n : ev(k) \in Events
      BY <2>1 DEF Response, Events
    <3> HIDE DEF n, ev
    <3>3. [k \in 1 .. n |-> ev(k)] \in Seq(Events)
      BY <3>1, <3>2
    <3> QED
      BY <3>1, <3>3 DEF ToAdd, ev
  <2>3. PaneInv'
    BY <1>1, <1>10, ForgetKeeps DEF TakeAnswer
  <2> QED
    BY <1>8, <1>9, <1>10, <2>1, <2>2, <2>3 DEF TakeAnswer, FlightTyped, server
<1>11. ASSUME NEW i \in InFlight, FailFetch(i) PROVE IInv'
  <2>1. faults' \in [drops : Nat, failures : Nat]
    BY <1>11 DEF FailFetch, FlightTyped
  <2>2. cost' \subseteq Events
    <3>1. fetches[i].since \in Nat
      BY <1>11, FlyingTyped
    <3>2. Missed(i) \subseteq Events
      BY <3>1 DEF Missed, FlightTyped, Events
    <3> QED
      BY <1>11, <3>2 DEF FailFetch, FlightTyped
  <2> QED
    BY <1>1, <1>8, <1>9, <1>11, <2>1, <2>2 DEF FailFetch, FlightTyped, server
<1> QED
  BY <1>2, <1>3, <1>4, <1>5, <1>6, <1>7, <1>10, <1>11 DEF Page

LEMMA InitHolds == Init => IInv
<1> SUFFICES ASSUME Init PROVE IInv
  OBVIOUS
<1> USE DEF Init
<1>1. fetches \in [Slots -> Fetch \cup {None}]
  BY AskTyped
<1>2. faults \in [drops : Nat, failures : Nat]
  OBVIOUS
<1>3. wire \in Seq(Frame) /\ adding \in Seq(Events)
  OBVIOUS
<1>4. FlightTyped
  BY <1>1, <1>2, <1>3 DEF FlightTyped
<1>5. PaneInv
  BY DEF PaneInv, PaneTyped, PaneMirrorsRendered, HighWater, Marks, MarkedOnce
<1> QED
  BY <1>4, <1>5 DEF IInv

LEMMA NextKeeps == IInv /\ [Next]_vars => IInv'
<1> SUFFICES ASSUME IInv, [Next]_vars PROVE IInv'
  OBVIOUS
<1>1. CASE UNCHANGED vars
  <2>1. PaneInv'
    BY <1>1 DEF vars, pane, IInv, PaneInv, PaneTyped, PaneMirrorsRendered, HighWater,
                Marks, MarkedOnce
  <2>2. FlightTyped'
    BY <1>1 DEF vars, server, IInv, FlightTyped
  <2> QED
    BY <2>1, <2>2 DEF IInv
<1> QED
  BY <1>1, ServerKeeps, PageKeeps DEF Next, Fault

LEMMA IInvAlways == Spec => []IInv
BY InitHolds, NextKeeps, PTL DEF Spec

-----------------------------------------------------------------------------
(* Every frame, response and line is one the two sides can make.           *)
THEOREM TypeCorrect == Spec => []TypeOK
<1>1. IInv => TypeOK
  BY DEF IInv, FlightTyped, PaneInv, PaneTyped, TypeOK
<1> QED
  BY <1>1, IInvAlways, PTL

(* The set of drawn ids is the numbered lines of the pane and no other.    *)
THEOREM PaneAlwaysMirrorsRendered == Spec => []PaneMirrorsRendered
BY IInvAlways, PTL DEF IInv, PaneInv

-----------------------------------------------------------------------------
(* While it is known which process serves, whatever breaks, fails or       *)
(* overlaps, each event the ring still holds is drawn, or a failed fetch   *)
(* would have brought it, or it is on its way: about to be added, to be    *)
(* brought by a fetch, or to come over the socket.                         *)
Ev(id) == [epoch |-> epoch, id |-> id]

KeptIds == {id \in 1 .. last_event_id : id > last_event_id - EVENTS_RING}

Brings(fetch, id) == fetch.since < id /\ (fetch.answer = None \/ id <= fetch.answer.lastId)

(* An event that comes whatever happens to the socket.                     *)
Secured(id) ==
  \/ Ev(id) \in drawn \cup cost
  \/ \E k \in DOMAIN adding : adding[k] = Ev(id)
  \/ \E i \in InFlight : Brings(fetches[i], id)

(* An event no later fetch will ask for.                                   *)
Passed(id) ==
  \/ id <= lastEventId
  \/ \E k \in DOMAIN adding : id <= adding[k].id
  \/ \E i \in InFlight : id <= fetches[i].since

(* What the page handles before a frame: the event, or the onopen that     *)
(* asks for it.                                                            *)
Before(k, id) == \E j \in 1 .. k - 1 : wire[j] = Open \/ wire[j] = EventFrame(Ev(id))

(* There will be another onopen.                                           *)
Reopens == socket # "open" \/ \E k \in DOMAIN wire : wire[k] \in {Open, Close}

Upcoming(id) ==
  \/ Reopens
  \/ sending /\ id = last_event_id
  \/ \E k \in DOMAIN wire : wire[k] = EventFrame(Ev(id))

(* Frames and answers are of the process that runs.                        *)
WireOfThis ==
  \A k \in DOMAIN wire : wire[k].type = "event" =>
    wire[k].data.epoch = epoch /\ wire[k].data.id <= last_event_id

AnswerOfThis(fetch) ==
  fetch.answer # None =>
    /\ fetch.answer.epoch = epoch /\ fetch.answer.lastId <= last_event_id
    /\ fetch.answer.from <= Max2(fetch.since, fetch.answer.lastId - EVENTS_RING)

AnswersOfThis == \A i \in InFlight : AnswerOfThis(fetches[i])

(* Bootstrap waits for one fetch, before there is a socket; and the socket *)
(* is open while it is joined.                                             *)
Booting ==
  /\ \A i \in InFlight : fetches[i].boot => socket = "boot"
  /\ \A i, j \in InFlight : fetches[i].boot /\ fetches[j].boot => i = j
  /\ socket = "boot" => ~ joined /\ wire = <<>>

Linked ==
  /\ joined => socket = "open" /\ \A k \in DOMAIN wire : wire[k] # Close
  /\ ~ joined => socket # "open" \/ \E k \in DOMAIN wire : wire[k] = Close
  /\ sending => joined

LinkInv == WireOfThis /\ AnswersOfThis /\ Booting /\ Linked

(* What the page has is of the process that runs, and it passes over       *)
(* nothing that does not come anyway.                                      *)
PageOfThis ==
  /\ pollerEpoch \in {None, epoch}
  /\ lastEventId <= last_event_id
  /\ \A id \in renderedEvents : Ev(id) \in drawn

AddingOfThis == \A k \in DOMAIN adding : adding[k].epoch = epoch /\ adding[k].id <= last_event_id

SinceOfThis == \A i \in InFlight : fetches[i].since <= last_event_id

PassedAreSecured == \A id \in KeptIds : Passed(id) => Secured(id)

NothingForgotten == \A id \in KeptIds : Secured(id) \/ Upcoming(id)

InOrder ==
  \A k \in DOMAIN wire : wire[k].type = "event" =>
    \A id \in KeptIds : id < wire[k].data.id => Secured(id) \/ Before(k, id)

Arrives == PassedAreSecured /\ NothingForgotten /\ InOrder

Knows == PageOfThis /\ AddingOfThis /\ SinceOfThis /\ Arrives

LEMMA KeptAre ==
  ASSUME FlightTyped
  PROVE  /\ KeptIds \subseteq 1 .. last_event_id /\ 1 .. last_event_id \subseteq Nat \ {0}
         /\ \A id \in KeptIds : id \in Nat \ {0} /\ id <= last_event_id
BY DEF KeptIds, FlightTyped

(* One fetch changes, and the others stay.                                 *)
LEMMA Replaced ==
  ASSUME FlightTyped, NEW i \in Slots, NEW x, fetches' = [fetches EXCEPT ![i] = x]
  PROVE  /\ fetches'[i] = x /\ \A j \in Slots : j # i => fetches'[j] = fetches[j]
         /\ InFlight' = IF x = None THEN InFlight \ {i} ELSE InFlight \cup {i}
         /\ InFlight \subseteq Slots
<1>1. fetches'[i] = x /\ \A j \in Slots : j # i => fetches'[j] = fetches[j]
  BY DEF FlightTyped
<1> QED
  BY <1>1 DEF InFlight

(* What keeps the three parts of Arrives when the frames stay as they are. *)
LEMMA WireSame ==
  ASSUME Arrives, FlightTyped, UNCHANGED <<epoch, last_event_id, wire, sending>>, Reopens => Reopens',
         \A id \in KeptIds : Secured(id) => Secured(id)',
         \A id \in KeptIds : Passed(id)' => Passed(id) \/ Secured(id)'
  PROVE  Arrives'
<1>1. KeptIds' = KeptIds
  BY DEF KeptIds
<1>2. \A k, id : Before(k, id)' <=> Before(k, id)
  BY DEF Before, Ev
<1>3. \A id : Upcoming(id) => Upcoming(id)'
  BY DEF Upcoming, Ev
<1>4. PassedAreSecured'
  BY <1>1 DEF Arrives, PassedAreSecured
<1>5. NothingForgotten'
  BY <1>1, <1>3 DEF Arrives, NothingForgotten
<1>6. InOrder'
  BY <1>1, <1>2 DEF Arrives, InOrder
<1> QED
  BY <1>4, <1>5, <1>6 DEF Arrives

(* What keeps them when a frame is handled or lost, but nothing else moves. *)
LEMMA SecuredSame ==
  ASSUME UNCHANGED <<epoch, drawn, cost, adding, fetches>>
  PROVE  /\ \A id : Secured(id)' <=> Secured(id)
         /\ InFlight' = InFlight
         /\ lastEventId' = lastEventId => \A id : Passed(id)' <=> Passed(id)
BY DEF Secured, Passed, InFlight, Ev

-----------------------------------------------------------------------------
LEMMA RecordStep ==
  ASSUME IInv, LinkInv, Record
  PROVE  LinkInv' /\ (Knows => Knows')
<1> DEFINE n == last_event_id
<1>1. /\ ~ sending /\ n' = n + 1 /\ sending' = joined
      /\ UNCHANGED <<epoch, joined, wire, socket, fetches, pollerEpoch, adding, faults, cost>>
      /\ UNCHANGED <<rows, renderedEvents, lastEventId, drawn>>
  BY DEF Record, pane
<1>2. FlightTyped /\ n \in Nat /\ lastEventId \in Nat
  BY DEF IInv, FlightTyped, PaneInv, PaneTyped
<1>3. /\ \A id : Secured(id)' <=> Secured(id)
      /\ InFlight' = InFlight /\ \A id : Passed(id)' <=> Passed(id)
  BY <1>1, SecuredSame
<1>4. ASSUME NEW i \in InFlight PROVE AnswerOfThis(fetches[i])'
  <2>1. AnswerOfThis(fetches[i]) /\ fetches'[i] = fetches[i]
    BY <1>1, <1>4 DEF LinkInv, AnswersOfThis
  <2>2. fetches[i].since \in Nat /\ (fetches[i].answer # None => fetches[i].answer.lastId \in Nat)
    BY <1>2, <1>4, FlyingTyped DEF Response
  <2> QED
    BY <1>1, <1>2, <2>1, <2>2 DEF AnswerOfThis, Max2
<1>5. ASSUME NEW k \in DOMAIN adding PROVE adding[k].id \in Nat
  <2>1. adding[k] \in Events
    BY <1>2, <1>5 DEF FlightTyped
  <2> QED
    BY <2>1 DEF Events
<1>6. ASSUME NEW k \in DOMAIN wire, wire[k].type = "event" PROVE wire[k].data.id \in Nat
  <2>1. wire[k] \in Frame
    BY <1>2 DEF FlightTyped
  <2> QED
    BY <1>6, <2>1 DEF Frame, Open, Close, Events
<1>7. LinkInv'
  <2>1. AnswersOfThis'
    BY <1>3, <1>4 DEF AnswersOfThis
  <2>2. WireOfThis'
    BY <1>1, <1>2, <1>6 DEF LinkInv, WireOfThis
  <2>3. Booting' /\ Linked'
    BY <1>1, <1>3 DEF LinkInv, Booting, Linked
  <2> QED
    BY <2>1, <2>2, <2>3 DEF LinkInv
<1> SUFFICES ASSUME Knows PROVE Knows'
  BY <1>7
<1>8. \A i \in InFlight : fetches[i].since <= n /\ fetches[i].since \in Nat
  BY <1>2, FlyingTyped DEF Knows, SinceOfThis
<1>9. PageOfThis' /\ AddingOfThis' /\ SinceOfThis'
  <2>1. PageOfThis'
    BY <1>1, <1>2 DEF Knows, PageOfThis, Ev
  <2>2. AddingOfThis'
    BY <1>1, <1>2, <1>5 DEF Knows, AddingOfThis
  <2>3. SinceOfThis'
    BY <1>1, <1>2, <1>3, <1>8 DEF SinceOfThis
  <2> QED
    BY <2>1, <2>2, <2>3
<1>10. KeptIds' \subseteq KeptIds \cup {n + 1}
  BY <1>1, <1>2, FeedAssumption DEF KeptIds
<1>11. ~ Passed(n + 1)
  <2>1. lastEventId <= n /\ \A k \in DOMAIN adding : adding[k].id <= n
    BY DEF Knows, PageOfThis, AddingOfThis
  <2> QED
    BY <1>2, <1>5, <1>8, <2>1 DEF Passed
<1>12. PassedAreSecured'
  BY <1>3, <1>10, <1>11 DEF Knows, Arrives, PassedAreSecured
<1>13. Reopens' <=> Reopens
  BY <1>1 DEF Reopens
<1>14. NothingForgotten'
  <2>1. ASSUME NEW id \in KeptIds, Upcoming(id) PROVE Upcoming(id)'
    BY <1>1, <1>13, <2>1 DEF Upcoming, Ev
  <2>2. ASSUME NEW id, id = n + 1 PROVE Upcoming(id)'
    <3>1. CASE joined
      BY <1>1, <2>2, <3>1 DEF Upcoming
    <3>2. CASE ~ joined
      <4>1. Reopens
        BY <3>2 DEF LinkInv, Linked, Reopens
      <4> QED
        BY <1>13, <4>1 DEF Upcoming
    <3>3. joined \in BOOLEAN
      BY <1>2 DEF FlightTyped
    <3> QED
      BY <3>1, <3>2, <3>3
  <2>3. ASSUME NEW id \in KeptIds' PROVE Secured(id)' \/ Upcoming(id)'
    <3>1. CASE id = n + 1
      BY <2>2, <3>1
    <3>2. CASE id \in KeptIds
      <4>1. Secured(id) \/ Upcoming(id)
        BY <3>2 DEF Knows, Arrives, NothingForgotten
      <4> QED
        BY <1>3, <2>1, <3>2, <4>1
    <3> QED
      BY <1>10, <2>3, <3>1, <3>2
  <2> QED
    BY <2>3 DEF NothingForgotten
<1>15. InOrder'
  <2>1. \A k, id : Before(k, id)' <=> Before(k, id)
    BY <1>1 DEF Before, Ev
  <2>2. \A k \in DOMAIN wire : wire[k].type = "event" => ~ (n + 1 < wire[k].data.id)
    BY <1>2, <1>6 DEF LinkInv, WireOfThis
  <2> QED
    BY <1>1, <1>3, <1>10, <2>1, <2>2 DEF Knows, Arrives, InOrder
<1> QED
  BY <1>9, <1>12, <1>14, <1>15 DEF Knows, Arrives

LEMMA AppendIs ==
  ASSUME NEW S, NEW seq \in Seq(S), NEW x
  PROVE  /\ DOMAIN Append(seq, x) = 1 .. Len(seq) + 1 /\ DOMAIN seq = 1 .. Len(seq) /\ Len(seq) \in Nat
         /\ Append(seq, x)[Len(seq) + 1] = x
         /\ \A k \in 1 .. Len(seq) : Append(seq, x)[k] = seq[k]
OBVIOUS

LEMMA SendStep ==
  ASSUME IInv, LinkInv, Send
  PROVE  LinkInv' /\ (Knows => Knows')
<1> DEFINE n == last_event_id
           m == Len(wire)
<1>0. PICK frame : frame = EventFrame(Ev(n))
  OBVIOUS
<1>1. /\ sending /\ sending' = FALSE /\ wire' = Append(wire, frame)
      /\ UNCHANGED <<epoch, last_event_id, joined, socket, fetches, pollerEpoch, adding, faults, cost>>
      /\ UNCHANGED <<rows, renderedEvents, lastEventId, drawn>>
  BY <1>0 DEF Send, pane, server, Ev
<1>2. FlightTyped /\ n \in Nat
  BY DEF IInv, FlightTyped
<1>3. /\ \A id : Secured(id)' <=> Secured(id)
      /\ InFlight' = InFlight /\ \A id : Passed(id)' <=> Passed(id)
      /\ KeptIds' = KeptIds
  BY <1>1, SecuredSame DEF KeptIds
<1>4. frame.type = "event" /\ frame.data.epoch = epoch /\ frame.data.id = n /\ frame \notin {Open, Close}
  <2>1. frame.type = "event" /\ frame.data = Ev(n)
    BY <1>0 DEF EventFrame
  <2>2. Open.type = "open" /\ Close.type = "close"
    BY DEF Open, Close
  <2>3. "event" # "open" /\ "event" # "close"
    OBVIOUS
  <2>4. frame # Open /\ frame # Close
    BY <2>1, <2>2, <2>3
  <2> QED
    BY <2>1, <2>4 DEF Ev
<1>5. /\ m \in Nat /\ DOMAIN wire = 1 .. m /\ DOMAIN wire' = 1 .. m + 1
      /\ wire'[m + 1] = frame /\ \A k \in 1 .. m : wire'[k] = wire[k]
  BY <1>1, <1>2, AppendIs DEF FlightTyped
<1> HIDE DEF m
<1>6. joined /\ socket = "open" /\ \A k \in DOMAIN wire : wire[k] # Close
  BY <1>1 DEF LinkInv, Linked
<1>7. LinkInv'
  <2>1. WireOfThis'
    BY <1>1, <1>2, <1>4, <1>5 DEF LinkInv, WireOfThis
  <2>2. AnswersOfThis'
    BY <1>1, <1>3 DEF LinkInv, AnswersOfThis, AnswerOfThis
  <2>3. Booting' /\ Linked'
    BY <1>1, <1>3, <1>4, <1>5, <1>6 DEF LinkInv, Booting, Linked
  <2> QED
    BY <2>1, <2>2, <2>3 DEF LinkInv
<1> SUFFICES ASSUME Knows PROVE Knows'
  BY <1>7
<1>8. PageOfThis' /\ AddingOfThis' /\ SinceOfThis'
  BY <1>1, <1>3 DEF Knows, PageOfThis, AddingOfThis, SinceOfThis, Ev
<1>9. PassedAreSecured'
  BY <1>3 DEF Knows, Arrives, PassedAreSecured
<1>10. NothingForgotten'
  <2>1. ASSUME NEW id \in KeptIds, Upcoming(id) PROVE Upcoming(id)'
    <3>1. CASE Reopens
      BY <1>1, <1>5, <3>1 DEF Upcoming, Reopens
    <3>2. CASE id = n
      BY <1>0, <1>1, <1>5, <3>2 DEF Upcoming, Ev
    <3>3. CASE \E k \in DOMAIN wire : wire[k] = EventFrame(Ev(id))
      BY <1>1, <1>5, <3>3 DEF Upcoming, Ev
    <3> QED
      BY <2>1, <3>1, <3>2, <3>3 DEF Upcoming
  <2> QED
    BY <1>3, <2>1 DEF Knows, Arrives, NothingForgotten
<1>11. InOrder'
  <2> SUFFICES ASSUME NEW k \in 1 .. m + 1, wire'[k].type = "event",
                      NEW id \in KeptIds, id < wire'[k].data.id, ~ Secured(id)
               PROVE  Before(k, id)'
    BY <1>3, <1>5 DEF InOrder
  <2>1. CASE k # m + 1
    <3>1. k \in DOMAIN wire /\ wire'[k] = wire[k]
      BY <1>5, <2>1
    <3>2. Before(k, id)
      BY <3>1 DEF Knows, Arrives, InOrder
    <3> QED
      BY <1>1, <1>5, <2>1, <3>2 DEF Before, Ev
  <2>2. CASE k = m + 1
    <3>1. id # n
      BY <1>2, <1>4, <1>5, <2>2, KeptAre
    <3>2. PICK j \in 1 .. m : wire[j] = Open \/ wire[j] = EventFrame(Ev(id))
      BY <1>5, <1>6, <3>1 DEF Knows, Arrives, NothingForgotten, Upcoming, Reopens
    <3> QED
      BY <1>1, <1>5, <2>2, <3>2 DEF Before, Ev
  <2> QED
    BY <2>1, <2>2
<1> QED
  BY <1>8, <1>9, <1>10, <1>11 DEF Knows, Arrives

LEMMA TailIs ==
  ASSUME NEW S, NEW seq \in Seq(S), seq # <<>>
  PROVE  /\ Len(seq) \in Nat \ {0} /\ DOMAIN seq = 1 .. Len(seq) /\ DOMAIN Tail(seq) = 1 .. Len(seq) - 1
         /\ Head(seq) = seq[1]
         /\ \A k \in 1 .. Len(seq) - 1 : Tail(seq)[k] = seq[k + 1]
OBVIOUS

(* The socket opens, breaks or closes: there will be an onopen, and it is  *)
(* enough that what is left of the frames is a prefix of what there was.   *)
LEMMA FramesGo ==
  ASSUME LinkInv, UNCHANGED <<server, fetches, pane, pollerEpoch, adding, cost>>,
         WireOfThis', Booting', Linked', Reopens', (Knows => InOrder')
  PROVE  LinkInv' /\ (Knows => Knows')
<1>1. KeptIds' = KeptIds /\ UNCHANGED <<epoch, last_event_id, rows, renderedEvents, lastEventId, drawn>>
  BY DEF KeptIds, server, pane
<1>2. /\ \A id : Secured(id)' <=> Secured(id)
      /\ InFlight' = InFlight /\ \A id : Passed(id)' <=> Passed(id)
  BY <1>1, SecuredSame
<1>3. LinkInv'
  BY <1>1, <1>2 DEF LinkInv, AnswersOfThis, AnswerOfThis
<1>4. Knows => PassedAreSecured' /\ NothingForgotten'
  BY <1>1, <1>2 DEF Knows, Arrives, PassedAreSecured, NothingForgotten, Upcoming
<1>5. Knows => PageOfThis' /\ AddingOfThis' /\ SinceOfThis'
  BY <1>1, <1>2 DEF Knows, PageOfThis, AddingOfThis, SinceOfThis, Ev
<1> QED
  BY <1>3, <1>4, <1>5 DEF Knows, Arrives

LEMMA AcceptStep ==
  ASSUME IInv, LinkInv, Accept
  PROVE  LinkInv' /\ (Knows => Knows')
<1>1. /\ socket = "connecting" /\ socket' = "open" /\ joined' = TRUE /\ wire' = <<Open>>
      /\ UNCHANGED <<server, sending, fetches, pane, pollerEpoch, adding, faults, cost>>
  BY DEF Accept
<1>2. DOMAIN wire' = {1} /\ wire'[1] = Open /\ Open.type = "open" /\ Close.type = "close"
  BY <1>1 DEF Open, Close
<1>3. WireOfThis' /\ InOrder' /\ Reopens'
  BY <1>2 DEF WireOfThis, InOrder, Reopens
<1>4. Booting' /\ Linked'
  BY <1>1, <1>2 DEF LinkInv, Booting, Linked, InFlight
<1> QED
  BY <1>1, <1>3, <1>4, FramesGo

LEMMA DropStep ==
  ASSUME IInv, LinkInv, Drop
  PROVE  LinkInv' /\ (Knows => Knows')
<1>1. PICK kept \in 0 .. Len(wire) : Break(kept)
  BY DEF Drop
<1>2. /\ joined /\ UNCHANGED <<server, socket, fetches, pane, pollerEpoch, adding, cost>>
      /\ joined' = FALSE /\ sending' = FALSE /\ wire' = Append(SubSeq(wire, 1, kept), Close)
  BY <1>1 DEF Drop, Break
<1>3. wire \in Seq(Frame) /\ Len(wire) \in Nat /\ DOMAIN wire = 1 .. Len(wire)
  BY DEF IInv, FlightTyped
<1>4. /\ SubSeq(wire, 1, kept) \in Seq(Frame) /\ Len(SubSeq(wire, 1, kept)) = kept
      /\ \A k \in 1 .. kept : SubSeq(wire, 1, kept)[k] = wire[k]
  BY <1>3, SubSeqProperties
<1>5. /\ DOMAIN wire' = 1 .. kept + 1 /\ wire'[kept + 1] = Close /\ Close.type = "close"
      /\ \A k \in 1 .. kept : wire'[k] = wire[k] /\ k \in DOMAIN wire
  BY <1>2, <1>3, <1>4, AppendIs DEF Close
<1>6. Reopens' /\ \E k \in DOMAIN wire' : wire'[k] = Close
  BY <1>5 DEF Reopens
<1>7. \A k \in DOMAIN wire' : wire'[k].type = "event" => k \in 1 .. kept
  BY <1>5
<1>8. WireOfThis'
  BY <1>2, <1>5, <1>7 DEF LinkInv, WireOfThis, server
<1>9. Knows => InOrder'
  <2>1. \A id : Secured(id)' <=> Secured(id)
    BY <1>2, SecuredSame DEF pane, server
  <2>2. \A k \in 1 .. kept : \A id : Before(k, id) => Before(k, id)'
    BY <1>2, <1>5 DEF Before, Ev, server
  <2>3. KeptIds' = KeptIds
    BY <1>2 DEF KeptIds, server
  <2> QED
    BY <1>5, <1>7, <2>1, <2>2, <2>3 DEF Knows, Arrives, InOrder
<1>10. socket = "open"
  BY <1>2 DEF LinkInv, Linked
<1>11. Booting' /\ Linked'
  BY <1>2, <1>6, <1>10 DEF LinkInv, Booting, Linked, InFlight
<1> QED
  BY <1>2, <1>6, <1>8, <1>9, <1>11, FramesGo

LEMMA OnCloseStep ==
  ASSUME IInv, LinkInv, OnClose
  PROVE  LinkInv' /\ (Knows => Knows')
<1>1. /\ wire # <<>> /\ Head(wire).type = "close" /\ wire' = <<>> /\ socket' = "waiting"
      /\ UNCHANGED <<server, joined, sending, fetches, pane, pollerEpoch, adding, cost>>
  BY DEF OnClose
<1>2. WireOfThis' /\ InOrder' /\ Reopens'
  BY <1>1 DEF WireOfThis, InOrder, Reopens
<1>3. ~ joined
  <2>1. wire \in Seq(Frame)
    BY DEF IInv, FlightTyped
  <2>2. 1 \in DOMAIN wire /\ wire[1] \in Frame /\ wire[1].type = "close"
    BY <1>1, <2>1, TailIs
  <2>3. wire[1] = Close
    BY <2>2 DEF Frame, Open, Close
  <2> QED
    BY <2>2, <2>3 DEF LinkInv, Linked
<1>4. \A i \in InFlight : ~ fetches[i].boot
  BY <1>1 DEF LinkInv, Booting
<1>5. Booting' /\ Linked'
  <2>1. \A i \in InFlight : fetches[i].boot \in BOOLEAN
    BY FlyingTyped DEF IInv
  <2> QED
    BY <1>1, <1>3, <1>4, <2>1 DEF LinkInv, Booting, Linked, InFlight
<1> QED
  BY <1>1, <1>2, <1>5, FramesGo

LEMMA ReconnectStep ==
  ASSUME IInv, LinkInv, Reconnect
  PROVE  LinkInv' /\ (Knows => Knows')
<1>1. /\ socket = "waiting" /\ socket' = "connecting"
      /\ UNCHANGED <<server, joined, sending, wire, fetches, pane, pollerEpoch, adding, cost>>
      /\ UNCHANGED <<epoch, last_event_id, drawn>>
  BY DEF Reconnect, server, pane
<1>2. Reopens'
  BY <1>1 DEF Reopens
<1>3. WireOfThis' /\ (Knows => InOrder')
  <2>1. KeptIds' = KeptIds /\ \A k, id : Before(k, id)' <=> Before(k, id)
    BY <1>1 DEF KeptIds, Before, Ev
  <2>2. \A id : Secured(id)' <=> Secured(id)
    BY <1>1, SecuredSame
  <2> QED
    BY <1>1, <2>1, <2>2 DEF LinkInv, WireOfThis, Knows, Arrives, InOrder
<1>4. Booting' /\ Linked'
  BY <1>1 DEF LinkInv, Booting, Linked, InFlight
<1> QED
  BY <1>1, <1>2, <1>3, <1>4, FramesGo

LEMMA AnswerStep ==
  ASSUME IInv, LinkInv, NEW i \in InFlight, Answer(i)
  PROVE  LinkInv' /\ (Knows => Knows')
<1> DEFINE n == last_event_id
           r == [epoch |-> epoch, lastId |-> n, from |-> Max2(fetches[i].since, n - EVENTS_RING)]
           new == [fetches[i] EXCEPT !.answer = r]
<1>1. /\ fetches[i].answer = None /\ fetches' = [fetches EXCEPT ![i] = new]
      /\ UNCHANGED <<epoch, last_event_id, joined, sending, wire, socket, pollerEpoch, adding, faults, cost>>
      /\ UNCHANGED <<rows, renderedEvents, lastEventId, drawn>>
  BY DEF Answer, server, pane
<1>2. FlightTyped /\ i \in Slots /\ fetches[i] \in Fetch /\ n \in Nat
  BY FlyingTyped DEF IInv, FlightTyped
<1>3. /\ r \in Response /\ r # None /\ r.epoch = epoch /\ r.lastId = n
      /\ r.from = Max2(fetches[i].since, n - EVENTS_RING)
  <2>1. r \in Response
    BY <1>2, FlyingTyped, FeedAssumption DEF Response, Max2, FlightTyped
  <2> QED
    BY <2>1, FeedAssumption
<1> HIDE DEF r
<1>4. /\ new \in Fetch /\ new # None /\ new.answer = r
      /\ new.since = fetches[i].since /\ new.boot = fetches[i].boot
  <2>1. new \in Fetch /\ new.answer = r /\ new.since = fetches[i].since /\ new.boot = fetches[i].boot
    BY <1>2, <1>3 DEF Fetch
  <2> QED
    BY <2>1, FeedAssumption
<1> HIDE DEF new
<1>5. /\ fetches'[i] = new /\ \A j \in Slots : j # i => fetches'[j] = fetches[j]
      /\ InFlight' = InFlight /\ InFlight \subseteq Slots
  <2>1. /\ fetches'[i] = new /\ \A j \in Slots : j # i => fetches'[j] = fetches[j]
        /\ InFlight' = IF new = None THEN InFlight \ {i} ELSE InFlight \cup {i}
        /\ InFlight \subseteq Slots
    BY <1>1, <1>2, Replaced
  <2> QED
    BY <1>4, <2>1
<1>6. AnswerOfThis(new)
  <2>1. fetches[i].since \in Nat /\ EVENTS_RING \in Nat
    BY <1>2, FlyingTyped, FeedAssumption
  <2> QED
    BY <1>2, <1>3, <1>4, <2>1 DEF AnswerOfThis, Max2
<1>7. AnswersOfThis'
  <2> SUFFICES ASSUME NEW j \in InFlight' PROVE AnswerOfThis(fetches[j])'
    BY DEF AnswersOfThis
  <2>1. AnswerOfThis(fetches'[j])
    BY <1>5, <1>6 DEF LinkInv, AnswersOfThis
  <2> QED
    BY <1>1, <2>1 DEF AnswerOfThis
<1>8. \A j \in InFlight : fetches'[j].boot = fetches[j].boot /\ fetches'[j].since = fetches[j].since
  BY <1>4, <1>5
<1>9. LinkInv'
  BY <1>1, <1>5, <1>7, <1>8 DEF LinkInv, WireOfThis, Booting, Linked
<1> SUFFICES ASSUME Knows PROVE Knows'
  BY <1>9
<1>10. PageOfThis' /\ AddingOfThis' /\ SinceOfThis'
  BY <1>1, <1>5, <1>8 DEF Knows, PageOfThis, AddingOfThis, SinceOfThis, Ev
<1>11. ASSUME NEW id \in KeptIds, Secured(id) PROVE Secured(id)'
  <2>1. \A j \in InFlight : Brings(fetches[j], id) => Brings(fetches'[j], id)
    BY <1>2, <1>3, <1>4, <1>5, KeptAre DEF Brings
  <2> QED
    BY <1>1, <1>5, <1>11, <2>1 DEF Secured, Brings, Ev
<1>12. \A id : Passed(id)' => Passed(id)
  BY <1>1, <1>5, <1>8 DEF Passed
<1>13. Reopens' <=> Reopens
  BY <1>1 DEF Reopens
<1>14. Arrives'
  BY <1>1, <1>2, <1>11, <1>12, <1>13, WireSame DEF Knows
<1> QED
  BY <1>10, <1>14 DEF Knows

(* A fetch that asks for all the page has not drawn brings the rest.       *)
LEMMA AllSecured ==
  ASSUME UNCHANGED last_event_id, \A id \in KeptIds : Secured(id)'
  PROVE  Arrives'
<1>1. KeptIds' = KeptIds
  BY DEF KeptIds
<1> QED
  BY <1>1 DEF Arrives, PassedAreSecured, NothingForgotten, InOrder

LEMMA OnOpenStep ==
  ASSUME IInv, LinkInv, OnOpen
  PROVE  LinkInv' /\ (Knows => Knows')
<1> DEFINE free == CHOOSE i \in Slots : i \notin InFlight
           new == Ask(lastEventId, TRUE, FALSE)
<1>1. /\ wire # <<>> /\ Head(wire).type = "open" /\ wire' = Tail(wire)
      /\ InFlight # Slots /\ fetches' = [fetches EXCEPT ![free] = new]
      /\ UNCHANGED <<epoch, last_event_id, joined, sending, socket, pollerEpoch, adding, faults, cost>>
      /\ UNCHANGED <<rows, renderedEvents, lastEventId, drawn>>
  BY DEF OnOpen, server, pane
<1>2. FlightTyped /\ last_event_id \in Nat /\ lastEventId \in Nat /\ wire \in Seq(Frame)
  BY DEF IInv, FlightTyped, PaneInv, PaneTyped
<1>3. free \in Slots /\ free \notin InFlight
  BY <1>1 DEF InFlight
<1>4. new # None /\ new.since = lastEventId /\ new.boot = FALSE /\ new.answer = None
  <2>1. new \in Fetch
    BY <1>2, AskTyped
  <2>2. new # None
    BY <2>1, FeedAssumption
  <2> QED
    BY <2>2 DEF Ask
<1> HIDE DEF free, new
<1>5. /\ fetches'[free] = new /\ \A j \in InFlight : fetches'[j] = fetches[j]
      /\ InFlight' = InFlight \cup {free} /\ InFlight \subseteq Slots
  <2>1. /\ fetches'[free] = new /\ \A j \in Slots : j # free => fetches'[j] = fetches[j]
        /\ InFlight' = IF new = None THEN InFlight \ {free} ELSE InFlight \cup {free}
        /\ InFlight \subseteq Slots
    BY <1>1, <1>2, <1>3, Replaced
  <2> QED
    BY <1>3, <1>4, <2>1
<1>6. /\ DOMAIN wire = 1 .. Len(wire) /\ DOMAIN wire' = 1 .. Len(wire) - 1 /\ Len(wire) \in Nat \ {0}
      /\ wire[1].type = "open" /\ \A k \in 1 .. Len(wire) - 1 : wire'[k] = wire[k + 1]
  BY <1>1, <1>2, TailIs
<1>7. WireOfThis'
  BY <1>1, <1>6 DEF LinkInv, WireOfThis
<1>8. Linked'
  <2>1. Close.type = "close"
    BY DEF Close
  <2>2. ASSUME NEW k \in DOMAIN wire, wire[k] = Close PROVE \E j \in DOMAIN wire' : wire'[j] = Close
    <3>1. k # 1 /\ k - 1 \in DOMAIN wire' /\ wire'[k - 1] = wire[k]
      BY <1>6, <2>1, <2>2
    <3> QED
      BY <2>2, <3>1
  <2> QED
    BY <1>1, <1>6, <2>2 DEF LinkInv, Linked
<1>9. Booting'
  BY <1>1, <1>4, <1>5 DEF LinkInv, Booting
<1>10. AnswersOfThis'
  <2>1. \A j \in InFlight' : AnswerOfThis(fetches[j])'
    BY <1>1, <1>4, <1>5 DEF LinkInv, AnswersOfThis, AnswerOfThis
  <2> QED
    BY <2>1 DEF AnswersOfThis
<1>11. LinkInv'
  BY <1>7, <1>8, <1>9, <1>10 DEF LinkInv
<1> SUFFICES ASSUME Knows PROVE Knows'
  BY <1>11
<1>12. PageOfThis' /\ AddingOfThis' /\ SinceOfThis'
  BY <1>1, <1>4, <1>5 DEF Knows, PageOfThis, AddingOfThis, SinceOfThis, Ev
<1>13. ASSUME NEW id \in KeptIds PROVE Secured(id)'
  <2>1. CASE id <= lastEventId
    <3>1. Secured(id)
      BY <2>1 DEF Knows, Arrives, PassedAreSecured, Passed
    <3> QED
      BY <1>1, <1>5, <3>1 DEF Secured, Brings, Ev
  <2>2. CASE lastEventId < id
    BY <1>4, <1>5, <2>2 DEF Secured, Brings
  <2> QED
    BY <1>2, <2>1, <2>2, KeptAre
<1>14. Arrives'
  BY <1>1, <1>13, AllSecured
<1> QED
  BY <1>12, <1>14 DEF Knows

(* What addEvent does to what the page knows.                              *)
LEMMA DrawOne ==
  ASSUME PaneTyped, PageOfThis, UNCHANGED epoch, NEW id \in Nat, addEvent(Ev(id))
  PROVE  /\ drawn \subseteq drawn' /\ Ev(id) \in drawn'
         /\ lastEventId' = lastEventId \/ lastEventId' = id
         /\ \A j \in renderedEvents' : Ev(j)' \in drawn'
<1>1. Ev(id).id = id
  BY DEF Ev
<1>2. CASE id \in renderedEvents
  <2>1. UNCHANGED pane
    BY <1>1, <1>2 DEF addEvent
  <2>2. UNCHANGED <<renderedEvents, lastEventId, drawn>>
    BY <2>1 DEF pane
  <2> QED
    BY <1>2, <2>2 DEF PageOfThis, Ev
<1>3. CASE id \notin renderedEvents
  <2>1. /\ renderedEvents' \subseteq renderedEvents \cup {id}
        /\ lastEventId' = Max2(lastEventId, id) /\ drawn' = drawn \cup {Ev(id)}
    BY <1>1, <1>3 DEF addEvent
  <2>2. \A j \in renderedEvents' : Ev(j)' \in drawn'
    BY <2>1 DEF PageOfThis, Ev
  <2> QED
    BY <2>1, <2>2 DEF Max2
<1> QED
  BY <1>2, <1>3

LEMMA OnEventStep ==
  ASSUME IInv, LinkInv, OnEvent
  PROVE  LinkInv' /\ (Knows => Knows')
<1>0. PICK e : e = wire[1].data.id
  OBVIOUS
<1>1. /\ wire # <<>> /\ Head(wire).type = "event" /\ wire' = Tail(wire) /\ addEvent(Head(wire).data)
      /\ adding = <<>>
      /\ UNCHANGED <<epoch, last_event_id, joined, sending, socket, fetches, pollerEpoch, adding, cost>>
  BY DEF OnEvent, server
<1>2. FlightTyped /\ last_event_id \in Nat /\ lastEventId \in Nat /\ wire \in Seq(Frame) /\ PaneTyped
  BY DEF IInv, FlightTyped, PaneInv, PaneTyped
<1>3. /\ DOMAIN wire = 1 .. Len(wire) /\ DOMAIN wire' = 1 .. Len(wire) - 1 /\ Len(wire) \in Nat \ {0}
      /\ Head(wire) = wire[1] /\ \A k \in 1 .. Len(wire) - 1 : wire'[k] = wire[k + 1]
  BY <1>1, <1>2, TailIs
<1>4. /\ wire[1].type = "event" /\ wire[1].data \in Events /\ wire[1].data.epoch = epoch
      /\ e <= last_event_id
  BY <1>0, <1>1, <1>2, <1>3, HeadTyped DEF LinkInv, WireOfThis
<1>5. /\ wire[1].data = Ev(e) /\ e \in Nat
      /\ wire[1] = EventFrame(Ev(e)) /\ wire[1] \notin {Open, Close}
  <2>1. wire[1].data = Ev(e) /\ e \in Nat
    BY <1>0, <1>4 DEF Events, Ev
  <2>2. wire[1] \in [type : {"event"}, data : Events] /\ wire[1] \notin {Open, Close}
    <3>1. wire[1] \in Frame /\ Open.type = "open" /\ Close.type = "close"
      BY <1>2, <1>3 DEF Open, Close
    <3>2. wire[1] \notin {Open, Close}
      BY <1>4, <3>1
    <3> QED
      BY <3>1, <3>2 DEF Frame
  <2>3. wire[1] = EventFrame(wire[1].data)
    BY <2>2 DEF EventFrame
  <2> QED
    BY <2>1, <2>2, <2>3
<1>6. KeptIds' = KeptIds /\ InFlight' = InFlight
  BY <1>1 DEF KeptIds, InFlight
<1>7. ASSUME NEW k \in DOMAIN wire, k # 1
      PROVE  k - 1 \in DOMAIN wire' /\ wire'[k - 1] = wire[k]
  BY <1>3, <1>7
<1>8. LinkInv'
  <2>1. (\E k \in DOMAIN wire : wire[k] = Close) => \E k \in DOMAIN wire' : wire'[k] = Close
    BY <1>5, <1>7
  <2>2. (\A k \in DOMAIN wire : wire[k] # Close) => \A k \in DOMAIN wire' : wire'[k] # Close
    BY <1>3
  <2>3. Booting' /\ Linked'
    BY <1>1, <1>6, <2>1, <2>2 DEF LinkInv, Booting, Linked
  <2>4. WireOfThis' /\ AnswersOfThis'
    BY <1>1, <1>3, <1>6 DEF LinkInv, WireOfThis, AnswersOfThis, AnswerOfThis
  <2> QED
    BY <2>3, <2>4 DEF LinkInv
<1> SUFFICES ASSUME Knows PROVE Knows'
  BY <1>8
<1>9. /\ drawn \subseteq drawn' /\ Ev(e) \in drawn'
      /\ lastEventId' = lastEventId \/ lastEventId' = e
      /\ \A j \in renderedEvents' : Ev(j)' \in drawn'
  BY <1>1, <1>2, <1>3, <1>5, DrawOne DEF Knows
<1>10. PageOfThis' /\ AddingOfThis' /\ SinceOfThis'
  BY <1>1, <1>4, <1>6, <1>9 DEF Knows, PageOfThis, AddingOfThis, SinceOfThis
<1>11. \A id : Secured(id) => Secured(id)'
  BY <1>1, <1>6, <1>9 DEF Secured, Ev
<1>12. Secured(e)'
  BY <1>1, <1>9 DEF Secured, Ev
<1>13. ASSUME NEW id \in KeptIds, id < e PROVE Secured(id)
  <2>1. Secured(id) \/ Before(1, id)
    BY <1>0, <1>3, <1>4, <1>13 DEF Knows, Arrives, InOrder
  <2> QED
    BY <2>1 DEF Before
<1>14. PassedAreSecured'
  <2> SUFFICES ASSUME NEW id \in KeptIds, Passed(id)' PROVE Secured(id)'
    BY <1>6 DEF PassedAreSecured
  <2>1. Passed(id) \/ id <= e
    BY <1>1, <1>6, <1>9 DEF Passed
  <2>2. id \in Nat
    BY <1>2, KeptAre
  <2>3. CASE Passed(id)
    BY <1>11, <2>3 DEF Knows, Arrives, PassedAreSecured
  <2>4. CASE id < e
    BY <1>11, <1>13, <2>4
  <2>5. CASE id = e
    BY <1>12, <2>5
  <2> QED
    BY <1>5, <2>1, <2>2, <2>3, <2>4, <2>5
<1>15. NothingForgotten'
  <2> SUFFICES ASSUME NEW id \in KeptIds, ~ Secured(id)' PROVE Upcoming(id)'
    BY <1>6 DEF NothingForgotten
  <2>1. Upcoming(id) /\ id # e
    BY <1>11, <1>12 DEF Knows, Arrives, NothingForgotten
  <2>2. Reopens => Reopens'
    BY <1>1, <1>5, <1>7 DEF Reopens
  <2>3. \A k \in DOMAIN wire : wire[k] = EventFrame(Ev(id)) => k # 1
    <3>1. EventFrame(Ev(id)).data.id = id /\ wire[1].data.id = e
      BY <1>0 DEF EventFrame, Ev
    <3> QED
      BY <2>1, <3>1
  <2> QED
    BY <1>1, <1>7, <2>1, <2>2, <2>3 DEF Upcoming, Ev
<1>16. InOrder'
  <2> SUFFICES ASSUME NEW k \in DOMAIN wire', wire'[k].type = "event",
                      NEW id \in KeptIds, id < wire'[k].data.id, ~ Secured(id)'
               PROVE  Before(k, id)'
    BY <1>6 DEF InOrder
  <2>1. ~ Secured(id) /\ id # e
    BY <1>11, <1>12
  <2>2. k + 1 \in DOMAIN wire /\ wire[k + 1] = wire'[k] /\ k \in Nat
    BY <1>3
  <2>3. Before(k + 1, id)
    BY <2>1, <2>2 DEF Knows, Arrives, InOrder
  <2>4. PICK j \in 1 .. k : wire[j] = Open \/ wire[j] = EventFrame(Ev(id))
    BY <2>2, <2>3 DEF Before
  <2>5. j # 1
    <3>1. EventFrame(Ev(id)).data.id = id /\ wire[1].data.id = e
      BY <1>0 DEF EventFrame, Ev
    <3> QED
      BY <1>5, <2>1, <2>4, <3>1
  <2>6. j - 1 \in 1 .. k - 1 /\ wire'[j - 1] = wire[j]
    BY <1>3, <2>2, <2>5
  <2> QED
    BY <1>1, <2>4, <2>6 DEF Before, Ev
<1> QED
  BY <1>10, <1>14, <1>15, <1>16 DEF Knows, Arrives

LEMMA AddNextStep ==
  ASSUME IInv, LinkInv, AddNext
  PROVE  LinkInv' /\ (Knows => Knows')
<1>0. PICK e : e = adding[1].id
  OBVIOUS
<1>1. /\ adding # <<>> /\ adding' = Tail(adding) /\ addEvent(Head(adding))
      /\ UNCHANGED <<epoch, last_event_id, joined, sending, wire, socket, fetches, pollerEpoch, cost>>
  BY DEF AddNext, server
<1>2. FlightTyped /\ last_event_id \in Nat /\ lastEventId \in Nat /\ adding \in Seq(Events) /\ PaneTyped
  BY DEF IInv, FlightTyped, PaneInv, PaneTyped
<1>3. /\ DOMAIN adding = 1 .. Len(adding) /\ DOMAIN adding' = 1 .. Len(adding) - 1
      /\ Len(adding) \in Nat \ {0} /\ Head(adding) = adding[1]
      /\ \A k \in 1 .. Len(adding) - 1 : adding'[k] = adding[k + 1]
  BY <1>1, <1>2, TailIs
<1>4. InFlight' = InFlight
  BY <1>1 DEF InFlight
<1>5. LinkInv'
  BY <1>1, <1>4 DEF LinkInv, WireOfThis, AnswersOfThis, AnswerOfThis, Booting, Linked
<1> SUFFICES ASSUME Knows PROVE Knows'
  BY <1>5
<1>6. /\ adding[1] \in Events /\ adding[1].epoch = epoch /\ e <= last_event_id
      /\ adding[1] = Ev(e) /\ e \in Nat
  <2>1. adding[1] \in Events /\ adding[1].epoch = epoch /\ e <= last_event_id
    BY <1>0, <1>2, <1>3 DEF Knows, AddingOfThis
  <2> QED
    BY <1>0, <2>1 DEF Events, Ev
<1>7. /\ drawn \subseteq drawn' /\ Ev(e) \in drawn'
      /\ lastEventId' = lastEventId \/ lastEventId' = e
      /\ \A j \in renderedEvents' : Ev(j)' \in drawn'
  BY <1>1, <1>2, <1>3, <1>6, DrawOne DEF Knows
<1>8. PageOfThis' /\ AddingOfThis' /\ SinceOfThis'
  BY <1>1, <1>3, <1>4, <1>6, <1>7 DEF Knows, PageOfThis, AddingOfThis, SinceOfThis
<1>9. ASSUME NEW id, Secured(id) PROVE Secured(id)'
  <2>1. CASE \E k \in DOMAIN adding : adding[k] = Ev(id)
    <3>1. PICK k \in DOMAIN adding : adding[k] = Ev(id)
      BY <2>1
    <3>2. CASE k = 1
      BY <1>1, <1>6, <1>7, <3>1, <3>2 DEF Secured, Ev
    <3>3. CASE k # 1
      <4>1. k - 1 \in DOMAIN adding' /\ adding'[k - 1] = adding[k]
        BY <1>3, <3>3
      <4> QED
        BY <1>1, <3>1, <4>1 DEF Secured, Ev
    <3> QED
      BY <3>2, <3>3
  <2>2. CASE Ev(id) \in drawn \cup cost \/ \E i \in InFlight : Brings(fetches[i], id)
    BY <1>1, <1>4, <1>7, <2>2 DEF Secured, Ev
  <2> QED
    BY <1>9, <2>1, <2>2 DEF Secured
<1>10. ASSUME NEW id, Passed(id)' PROVE Passed(id)
  <2>1. \A k \in DOMAIN adding' : \E j \in DOMAIN adding : adding'[k] = adding[j]
    BY <1>3
  <2>2. CASE id <= lastEventId'
    BY <1>0, <1>3, <1>7, <2>2 DEF Passed
  <2>3. CASE \E k \in DOMAIN adding' : id <= adding'[k].id
    BY <2>1, <2>3 DEF Passed
  <2>4. CASE \E i \in InFlight : id <= fetches[i].since
    BY <2>4 DEF Passed
  <2> QED
    BY <1>1, <1>4, <1>10, <2>2, <2>3, <2>4 DEF Passed
<1>11. Reopens' <=> Reopens
  BY <1>1 DEF Reopens
<1>12. Arrives'
  BY <1>1, <1>2, <1>9, <1>10, <1>11, WireSame DEF Knows
<1> QED
  BY <1>8, <1>12 DEF Knows

(* Who forgets and asks from nothing is brought all there is; it makes no  *)
(* difference what the page knew, if no other fetch is under way.          *)
LEMMA AskAgainStep ==
  ASSUME IInv, LinkInv, NEW i \in InFlight, AskAgain(i)
  PROVE  LinkInv' /\ (Knows \/ InFlight = {i} => Knows')
<1> DEFINE new == Ask(0, FALSE, fetches[i].boot)
<1>1. /\ fetches[i].answer # None /\ pollerEpoch' = fetches[i].answer.epoch /\ adding = <<>>
      /\ renderedEvents' = {} /\ lastEventId' = 0
      /\ fetches' = [fetches EXCEPT ![i] = new]
      /\ UNCHANGED <<epoch, last_event_id, joined, sending, wire, socket, adding, cost, drawn>>
  BY DEF AskAgain, Answered, Forget, server
<1>2. FlightTyped /\ i \in Slots /\ fetches[i].boot \in BOOLEAN /\ last_event_id \in Nat
  BY FlyingTyped DEF IInv, FlightTyped
<1>3. new # None /\ new.since = 0 /\ new.boot = fetches[i].boot /\ new.answer = None
  <2>1. new \in Fetch
    BY <1>2, AskTyped
  <2>2. new # None
    BY <2>1, FeedAssumption
  <2> QED
    BY <2>2 DEF Ask
<1> HIDE DEF new
<1>4. /\ fetches'[i] = new /\ \A j \in Slots : j # i => fetches'[j] = fetches[j]
      /\ InFlight' = InFlight /\ InFlight \subseteq Slots
  <2>1. /\ fetches'[i] = new /\ \A j \in Slots : j # i => fetches'[j] = fetches[j]
        /\ InFlight' = IF new = None THEN InFlight \ {i} ELSE InFlight \cup {i}
        /\ InFlight \subseteq Slots
    BY <1>1, <1>2, Replaced
  <2> QED
    BY <1>3, <2>1
<1>5. \A j \in InFlight : fetches'[j].boot = fetches[j].boot
  BY <1>3, <1>4
<1>6. LinkInv'
  <2>1. AnswersOfThis'
    BY <1>1, <1>3, <1>4 DEF LinkInv, AnswersOfThis, AnswerOfThis
  <2> QED
    BY <1>1, <1>4, <1>5, <2>1 DEF LinkInv, WireOfThis, Booting, Linked
<1> SUFFICES ASSUME Knows \/ InFlight = {i} PROVE Knows'
  BY <1>6
<1>7. PageOfThis' /\ AddingOfThis'
  <2>1. pollerEpoch' = epoch
    BY <1>1 DEF LinkInv, AnswersOfThis, AnswerOfThis
  <2> QED
    BY <1>1, <1>2, <2>1 DEF PageOfThis, AddingOfThis
<1>8. SinceOfThis'
  <2>1. \A j \in InFlight : fetches'[j].since <= last_event_id
    BY <1>2, <1>3, <1>4 DEF Knows, SinceOfThis
  <2> QED
    BY <1>1, <1>4, <2>1 DEF SinceOfThis
<1>9. ASSUME NEW id \in KeptIds PROVE Secured(id)'
  <2>1. 0 < id
    BY <1>2, KeptAre
  <2> QED
    BY <1>3, <1>4, <2>1 DEF Secured, Brings
<1>10. Arrives'
  BY <1>1, <1>9, AllSecured
<1> QED
  BY <1>7, <1>8, <1>10 DEF Knows

(* What a fetch that returns leaves of the others, and of bootstrap.       *)
LEMMA ReturnOne ==
  ASSUME IInv, LinkInv, NEW i \in InFlight, fetches' = Without(i), Return(fetches[i]),
         UNCHANGED <<epoch, last_event_id, joined, sending, wire>>
  PROVE  /\ InFlight' = InFlight \ {i} /\ \A j \in InFlight' : fetches'[j] = fetches[j]
         /\ LinkInv' /\ (Reopens => Reopens')
<1>1. FlightTyped /\ i \in Slots
  BY DEF IInv, InFlight
<1>2. InFlight' = InFlight \ {i} /\ \A j \in InFlight' : fetches'[j] = fetches[j]
  <2>1. fetches' = [fetches EXCEPT ![i] = None]
    BY DEF Without
  <2>2. /\ \A j \in Slots : j # i => fetches'[j] = fetches[j]
        /\ InFlight' = InFlight \ {i} /\ InFlight \subseteq Slots
    BY <1>1, <2>1, Replaced
  <2> QED
    BY <2>2
<1>3. WireOfThis' /\ AnswersOfThis'
  BY <1>2 DEF LinkInv, WireOfThis, AnswersOfThis, AnswerOfThis
<1>4. CASE fetches[i].boot
  <2>1. socket = "boot" /\ socket' = "connecting" /\ ~ joined /\ ~ sending
    BY <1>4 DEF LinkInv, Booting, Linked, Return
  <2>2. \A j \in InFlight' : ~ fetches'[j].boot
    BY <1>2, <1>4 DEF LinkInv, Booting
  <2> QED
    BY <1>2, <1>3, <2>1, <2>2 DEF LinkInv, Booting, Linked, Reopens
<1>5. CASE ~ fetches[i].boot
  <2>1. socket' = socket
    BY <1>5 DEF Return
  <2> QED
    BY <1>2, <1>3, <2>1 DEF LinkInv, Booting, Linked, Reopens
<1> QED
  BY <1>4, <1>5

LEMMA TakeAnswerStep ==
  ASSUME IInv, LinkInv, NEW i \in InFlight, TakeAnswer(i)
  PROVE  LinkInv' /\ (Knows => Knows')
<1> DEFINE n == last_event_id
<1>1. PICK last, from, since : last = fetches[i].answer.lastId /\ from = fetches[i].answer.from
                               /\ since = fetches[i].since
  OBVIOUS
<1>2. /\ fetches[i].answer # None /\ pollerEpoch' = fetches[i].answer.epoch /\ adding = <<>>
      /\ adding' = ToAdd(fetches[i].answer) /\ fetches' = Without(i) /\ Return(fetches[i])
      /\ UNCHANGED <<epoch, last_event_id, joined, sending, wire, cost, drawn>>
      /\ \/ renderedEvents' = {} /\ lastEventId' = 0
         \/ UNCHANGED <<renderedEvents, lastEventId>>
  BY DEF TakeAnswer, Answered, Forget, server, pane
<1>3. FlightTyped /\ n \in Nat /\ last \in Nat /\ from \in Nat /\ since \in Nat /\ lastEventId \in Nat
  BY <1>1, <1>2, FlyingTyped DEF IInv, FlightTyped, PaneInv, PaneTyped, Response
<1>4. /\ fetches[i].answer.epoch = epoch /\ last <= n
      /\ from <= since \/ from <= last - EVENTS_RING
  BY <1>1, <1>2, <1>3, FeedAssumption DEF LinkInv, AnswersOfThis, AnswerOfThis, Max2
<1>5. /\ InFlight' = InFlight \ {i} /\ \A j \in InFlight' : fetches'[j] = fetches[j]
      /\ LinkInv' /\ (Reopens => Reopens')
  BY <1>2, ReturnOne
<1> SUFFICES ASSUME Knows PROVE Knows'
  BY <1>5
<1>6. /\ DOMAIN adding' = 1 .. last - from
      /\ \A k \in 1 .. last - from : adding'[k] = Ev(from + k)
  BY <1>1, <1>2, <1>4 DEF ToAdd, Ev
<1>7. PageOfThis' /\ AddingOfThis' /\ SinceOfThis'
  <2>1. ASSUME NEW k \in DOMAIN adding'
        PROVE  adding'[k].epoch = epoch' /\ adding'[k].id <= last_event_id'
    <3>1. adding'[k] = Ev(from + k) /\ k \in 1 .. last - from
      BY <1>6, <2>1
    <3>2. adding'[k].epoch = epoch /\ adding'[k].id = from + k
      BY <3>1 DEF Ev
    <3> QED
      BY <1>2, <1>3, <1>4, <3>1, <3>2
  <2>2. PageOfThis'
    BY <1>2, <1>3, <1>4 DEF Knows, PageOfThis, Ev
  <2>3. SinceOfThis'
    BY <1>2, <1>5 DEF Knows, SinceOfThis
  <2> QED
    BY <2>1, <2>2, <2>3 DEF AddingOfThis
<1>8. ASSUME NEW id \in KeptIds, from < id, id <= last PROVE Secured(id)'
  <2>1. id \in Nat
    BY <1>3, KeptAre
  <2>2. PICK k : k = id - from
    OBVIOUS
  <2>3. k \in 1 .. last - from /\ from + k = id
    BY <1>3, <1>8, <2>1, <2>2
  <2> QED
    BY <1>2, <1>6, <2>3 DEF Secured, Ev
<1>9. ASSUME NEW id \in KeptIds PROVE id <= last => from < id \/ id <= since
  BY <1>3, <1>4, KeptAre, FeedAssumption DEF KeptIds
<1>10. ASSUME NEW id \in KeptIds, Secured(id) PROVE Secured(id)'
  <2>1. CASE Ev(id) \in drawn \cup cost
    BY <1>2, <2>1 DEF Secured, Ev
  <2>2. CASE \E j \in InFlight \ {i} : Brings(fetches[j], id)
    BY <1>5, <2>2 DEF Secured, Brings
  <2>3. CASE Brings(fetches[i], id)
    <3>1. since < id /\ id <= last
      BY <1>1, <1>2, <2>3 DEF Brings
    <3> QED
      BY <1>3, <1>8, <1>9, <3>1, KeptAre
  <2>4. DOMAIN adding = {}
    BY <1>2
  <2> QED
    BY <1>10, <2>1, <2>2, <2>3, <2>4 DEF Secured
<1>11. ASSUME NEW id \in KeptIds, Passed(id)' PROVE Passed(id) \/ Secured(id)'
  <2>1. id \in Nat \ {0}
    BY <1>3, KeptAre
  <2>2. CASE id <= lastEventId'
    BY <1>2, <1>3, <2>1, <2>2 DEF Passed
  <2>3. CASE \E j \in InFlight' : id <= fetches'[j].since
    BY <1>5, <2>3 DEF Passed
  <2>4. CASE \E k \in DOMAIN adding' : id <= adding'[k].id
    <3>1. \A k \in 1 .. last - from : adding'[k].id = from + k
      BY <1>6 DEF Ev
    <3>2. id <= last
      BY <1>3, <1>6, <2>1, <2>4, <3>1
    <3> QED
      BY <1>1, <1>8, <1>9, <3>2 DEF Passed
  <2> QED
    BY <1>11, <2>2, <2>3, <2>4 DEF Passed
<1>12. Arrives'
  BY <1>2, <1>3, <1>5, <1>10, <1>11, WireSame DEF Knows
<1> QED
  BY <1>7, <1>12 DEF Knows

(* A fetch that fails costs what it would have brought.                    *)
LEMMA FailFetchStep ==
  ASSUME IInv, LinkInv, NEW i \in InFlight, FailFetch(i)
  PROVE  LinkInv' /\ (Knows => Knows')
<1>1. /\ fetches' = Without(i) /\ Return(fetches[i]) /\ cost' = cost \cup Missed(i)
      /\ UNCHANGED <<epoch, last_event_id, joined, sending, wire, pollerEpoch, adding>>
      /\ UNCHANGED <<rows, renderedEvents, lastEventId, drawn>>
  BY DEF FailFetch, server, pane
<1>2. FlightTyped /\ last_event_id \in Nat /\ fetches[i].since \in Nat
  BY FlyingTyped DEF IInv, FlightTyped
<1>3. /\ InFlight' = InFlight \ {i} /\ \A j \in InFlight' : fetches'[j] = fetches[j]
      /\ LinkInv' /\ (Reopens => Reopens')
  BY <1>1, ReturnOne
<1> SUFFICES ASSUME Knows PROVE Knows'
  BY <1>3
<1>4. PageOfThis' /\ AddingOfThis' /\ SinceOfThis'
  BY <1>1, <1>3 DEF Knows, PageOfThis, AddingOfThis, SinceOfThis, Ev
<1>5. ASSUME NEW id \in KeptIds, Secured(id) PROVE Secured(id)'
  <2>1. CASE Ev(id) \in drawn \cup cost \/ \E k \in DOMAIN adding : adding[k] = Ev(id)
    BY <1>1, <2>1 DEF Secured, Ev
  <2>2. CASE \E j \in InFlight \ {i} : Brings(fetches[j], id)
    BY <1>3, <2>2 DEF Secured, Brings
  <2>3. CASE Brings(fetches[i], id)
    <3>1. fetches[i].since < id /\ id \in Nat /\ id <= last_event_id
      BY <1>2, <2>3, KeptAre DEF Brings
    <3>2. pollerEpoch \in {None, epoch}
      BY DEF Knows, PageOfThis
    <3>3. id \in fetches[i].since + 1 .. last_event_id
      BY <1>2, <3>1
    <3>4. Ev(id) \in Missed(i)
      BY <3>2, <3>3 DEF Missed, Ev
    <3> QED
      BY <1>1, <3>4 DEF Secured, Ev
  <2> QED
    BY <1>5, <2>1, <2>2, <2>3 DEF Secured
<1>6. \A id : Passed(id)' => Passed(id)
  BY <1>1, <1>3 DEF Passed
<1>7. Arrives'
  BY <1>1, <1>2, <1>3, <1>5, <1>6, WireSame DEF Knows
<1> QED
  BY <1>4, <1>7 DEF Knows

-----------------------------------------------------------------------------
(* The budgets of the claim: no restart, or one that finds nothing of the  *)
(* old process under way, with catch-ups that neither fail nor overlap.    *)
GentleRestarts ==
  \A b \in Budgets :
    b.restarts = 0 \/ (SlowRestart /\ b.restarts = 1 /\ b.failures = 0 /\ b.fetches = 1)

(* The page still takes the process for the old one, and will be told.     *)
Learns ==
  /\ epoch = 1 /\ pollerEpoch \notin {None, epoch}
  /\ Reopens \/ InFlight # {}
  /\ \A i \in InFlight : fetches[i].retry

(* Before its first answer, and without a failure, the page knows nothing; *)
(* after a restart one fetch is in flight at most.                         *)
Fresh ==
  /\ epoch \in {0, 1}
  /\ epoch = 1 => \A i, j \in InFlight : i = j
  /\ epoch = 0 /\ pollerEpoch = None /\ faults.failures = 0 =>
       socket = "boot" /\ lastEventId = 0 /\ renderedEvents = {} /\ adding = <<>>

FeedInv == IInv /\ LinkInv /\ Fresh /\ (Knows \/ Learns)

LEMMA GentleIs ==
  ASSUME GentleRestarts, NEW e \in Nat \ {0}, NEW d, NEW f \in Nat, NEW c \in Nat, Within(e, d, f, c)
  PROVE  SlowRestart /\ e = 1 /\ f = 0 /\ c <= 1
<1>1. PICK b \in Budgets : e <= b.restarts /\ f <= b.failures /\ c <= b.fetches
  BY DEF Within
<1>2. b.restarts \in Nat /\ b.failures \in Nat /\ b.fetches \in Nat
  BY FeedAssumption DEF Budget
<1>3. b.restarts # 0
  BY <1>1, <1>2
<1> QED
  BY <1>1, <1>2, <1>3 DEF GentleRestarts

LEMMA InFlightCounts ==
  /\ InFlight \subseteq Slots
  /\ Cardinality(InFlight) \in Nat /\ (Cardinality(InFlight) = 0 <=> InFlight = {})
<1>1. IsFiniteSet(Slots)
  BY FeedAssumption, FS_Interval DEF Slots
<1>2. InFlight \subseteq Slots
  BY DEF InFlight
<1>3. IsFiniteSet(InFlight)
  BY <1>1, <1>2, FS_Subset
<1> QED
  BY <1>2, <1>3, FS_CardinalityType, FS_EmptySet

(* A restart takes all it had sent along, and the page either knows        *)
(* nothing of it or will be told.                                          *)
LEMMA RestartStep ==
  ASSUME FeedInv, GentleRestarts, Restart
  PROVE  LinkInv' /\ Fresh' /\ (Knows' \/ Learns')
<1>1. FlightTyped /\ faults.failures \in Nat /\ epoch \in Nat
  BY DEF FeedInv, IInv, FlightTyped
<1>2. SlowRestart /\ epoch = 0 /\ faults.failures = 0
  <2>1. epoch + 1 \in Nat \ {0} /\ Cardinality(InFlight) \in Nat
    BY <1>1, InFlightCounts
  <2>2. Within(epoch + 1, faults.drops, faults.failures, Cardinality(InFlight))
    BY DEF Restart
  <2>3. SlowRestart /\ epoch + 1 = 1 /\ faults.failures = 0
    BY <1>1, <2>1, <2>2, GentleIs
  <2> QED
    BY <1>1, <2>3
<1>3. /\ epoch' = 1 /\ last_event_id' = 0 /\ fetches' = Idle
      /\ \A k \in DOMAIN wire' : wire'[k].type # "event"
      /\ socket' = socket \/ socket' = "connecting"
      /\ UNCHANGED <<rows, renderedEvents, lastEventId, drawn, pollerEpoch, adding, faults>>
  BY <1>2 DEF Restart, pane
<1>4. PICK kept \in 0 .. Len(wire) : Break(kept)
  BY DEF Restart
<1>5. joined' = FALSE /\ sending' = FALSE
  BY <1>4 DEF Break
<1>6. InFlight' = {} /\ KeptIds' = {}
  BY <1>3 DEF InFlight, Idle, KeptIds
<1>7. socket' # "open" \/ \E k \in DOMAIN wire' : wire'[k] = Close
  <2>1. CASE joined
    <3>1. SubSeq(wire, 1, kept) \in Seq(Frame)
      BY <1>1, SubSeqProperties DEF FlightTyped
    <3> QED
      BY <1>4, <2>1, <3>1, AppendIs DEF Break
  <2>2. CASE ~ joined
    <3>1. wire' = wire
      BY <1>4, <2>2 DEF Break
    <3> QED
      BY <1>3, <2>2, <3>1 DEF FeedInv, LinkInv, Linked
  <2> QED
    BY <2>1, <2>2
<1>8. socket' = "boot" => wire' = <<>>
  <2>1. socket = "boot" => ~ joined /\ wire = <<>>
    BY DEF FeedInv, LinkInv, Booting
  <2> QED
    BY <1>3, <1>4, <2>1 DEF Break
<1>9. LinkInv'
  BY <1>3, <1>5, <1>6, <1>7, <1>8 DEF LinkInv, WireOfThis, AnswersOfThis, Booting, Linked
<1>10. Fresh'
  BY <1>3, <1>6 DEF Fresh
<1>11. Knows /\ pollerEpoch \in {None, 0}
  BY <1>2 DEF FeedInv, Learns, Knows, PageOfThis
<1>12. CASE pollerEpoch = None
  <2>1. lastEventId = 0 /\ renderedEvents = {} /\ adding = <<>>
    BY <1>2, <1>12 DEF FeedInv, Fresh
  <2>2. PageOfThis' /\ AddingOfThis' /\ SinceOfThis'
    BY <1>3, <1>6, <1>12, <2>1 DEF PageOfThis, AddingOfThis, SinceOfThis
  <2>3. Arrives'
    BY <1>6 DEF Arrives, PassedAreSecured, NothingForgotten, InOrder
  <2> QED
    BY <1>9, <1>10, <2>2, <2>3 DEF Knows
<1>13. CASE pollerEpoch = 0
  <2>1. None # 0
    BY FeedAssumption
  <2>2. Reopens'
    BY <1>7 DEF Reopens
  <2> QED
    BY <1>3, <1>6, <1>9, <1>10, <1>13, <2>1, <2>2 DEF Learns
<1> QED
  BY <1>11, <1>12, <1>13

LEMMA FreshKeeps ==
  ASSUME FeedInv, GentleRestarts, Page \/ Server \/ Record \/ Drop \/ \E i \in InFlight : FailFetch(i)
  PROVE  Fresh'
<1>1. FlightTyped /\ Fresh /\ LinkInv
  BY DEF FeedInv, IInv
<1>2. epoch' = epoch
  BY DEF Page, Server, Record, Drop, FailFetch, OnOpen, OnEvent, OnClose, Reconnect, AddNext, AskAgain,
         TakeAnswer, Send, Accept, Answer, server
<1>3. CASE OnOpen
  <2>1. epoch = 1 => InFlight = {}
    <3> SUFFICES ASSUME epoch = 1 PROVE InFlight = {}
      OBVIOUS
    <3>1. Within(epoch, faults.drops, faults.failures, Cardinality(InFlight) + 1)
      BY <1>3 DEF OnOpen
    <3>2. faults.failures \in Nat /\ epoch \in Nat \ {0} /\ Cardinality(InFlight) + 1 \in Nat
      BY <1>1, InFlightCounts DEF FlightTyped
    <3>3. Cardinality(InFlight) + 1 <= 1
      BY <3>1, <3>2, GentleIs
    <3> QED
      BY <3>3, InFlightCounts
  <2>2. PICK free : fetches' = [fetches EXCEPT ![free] = Ask(lastEventId, TRUE, FALSE)]
    BY <1>3 DEF OnOpen
  <2>3. InFlight' \subseteq InFlight \cup {free}
    BY <1>1, <2>2 DEF InFlight, FlightTyped
  <2>4. wire # <<>> /\ UNCHANGED <<socket, pollerEpoch, faults>>
    BY <1>3 DEF OnOpen
  <2> QED
    BY <1>1, <1>2, <2>1, <2>3, <2>4 DEF Fresh, LinkInv, Booting
<1>4. CASE ~ OnOpen
  <2>1. InFlight' \subseteq InFlight
    BY <1>1, <1>4 DEF FlightTyped, InFlight, Page, Server, Record, Drop, FailFetch, OnEvent, OnClose, Reconnect,
                      AddNext, AskAgain, TakeAnswer, Without, Send, Accept, Answer
  <2>2. ASSUME epoch = 0, pollerEpoch' = None, faults'.failures = 0
        PROVE  socket' = "boot" /\ lastEventId' = 0 /\ renderedEvents' = {} /\ adding' = <<>>
    <3>1. ASSUME NEW i \in InFlight, Answered(i) PROVE FALSE
      <4>1. pollerEpoch' \in Nat
        BY <1>1, <3>1, FlyingTyped DEF Answered, Response
      <4> QED
        BY <2>2, <4>1, FeedAssumption
    <3>2. ASSUME NEW i \in InFlight, FailFetch(i) PROVE FALSE
      <4>1. faults' = [faults EXCEPT !.failures = @ + 1] /\ faults \in [drops : Nat, failures : Nat]
        BY <1>1, <3>2 DEF FailFetch, FlightTyped
      <4> QED
        BY <2>2, <4>1
    <3>3. faults'.failures = faults.failures
      BY <1>1, <3>1, <3>2 DEF FlightTyped, Page, Server, Record, Drop, OnOpen, OnEvent, OnClose, Reconnect,
                              AddNext, AskAgain, TakeAnswer, Send, Accept, Answer
    <3>4. pollerEpoch' = pollerEpoch
      BY <3>1, <3>2 DEF Page, Server, Record, Drop, OnOpen, OnEvent, OnClose, Reconnect,
                        AddNext, AskAgain, TakeAnswer, Send, Accept, Answer
    <3>5. /\ socket = "boot" /\ lastEventId = 0 /\ renderedEvents = {} /\ adding = <<>>
          /\ ~ joined /\ wire = <<>>
      BY <1>1, <2>2, <3>3, <3>4 DEF Fresh, LinkInv, Booting
    <3>6. Record \/ Send \/ \E i \in InFlight : Answer(i)
      BY <1>4, <3>1, <3>2, <3>5 DEF Page, Server, Drop, OnEvent, OnClose, Reconnect, AddNext, AskAgain,
                                    TakeAnswer, Accept
    <3> QED
      BY <3>5, <3>6 DEF Record, Send, Answer, pane
  <2> QED
    BY <1>1, <1>2, <2>1, <2>2 DEF Fresh
<1> QED
  BY <1>3, <1>4

(* The first answer tells the page, and it asks from nothing.              *)
LEMMA LearnsKeeps ==
  ASSUME FeedInv, Learns, GentleRestarts,
         Page \/ Server \/ Record \/ Drop \/ \E i \in InFlight : FailFetch(i)
  PROVE  Knows' \/ Learns'
<1>1. FlightTyped /\ IInv /\ LinkInv /\ epoch = 1 /\ epoch \in Nat \ {0}
  BY DEF FeedInv, IInv, Learns
<1>2. ASSUME UNCHANGED <<epoch, pollerEpoch, fetches>>, Reopens => Reopens' PROVE Learns'
  BY <1>2 DEF Learns, InFlight
<1>3. CASE Record \/ AddNext
  BY <1>2, <1>3 DEF Record, AddNext, Reopens, server
<1>4. CASE Send
  <2>1. PICK frame : wire' = Append(wire, frame)
    BY <1>4 DEF Send
  <2>2. DOMAIN wire \subseteq DOMAIN wire' /\ \A k \in DOMAIN wire : wire'[k] = wire[k]
    BY <1>1, <2>1, AppendIs DEF FlightTyped
  <2> QED
    BY <1>2, <1>4, <2>2 DEF Send, Reopens, server
<1>5. CASE Accept
  <2>1. 1 \in DOMAIN wire' /\ wire'[1] = Open
    BY <1>5 DEF Accept
  <2> QED
    BY <1>2, <1>5, <2>1 DEF Accept, Reopens, server
<1>6. CASE Reconnect \/ OnClose
  BY <1>2, <1>6 DEF Reconnect, OnClose, Reopens, server
<1>7. CASE Drop
  <2>1. PICK kept \in 0 .. Len(wire) : Break(kept)
    BY <1>7 DEF Drop
  <2>2. SubSeq(wire, 1, kept) \in Seq(Frame) /\ wire' = Append(SubSeq(wire, 1, kept), Close)
    BY <1>1, <1>7, <2>1, SubSeqProperties DEF Drop, Break, FlightTyped
  <2>3. Reopens'
    BY <2>2, AppendIs DEF Reopens
  <2> QED
    BY <1>2, <1>7, <2>3 DEF Drop, server
<1>8. CASE OnEvent
  <2>1. wire # <<>> /\ Head(wire).type = "event" /\ wire' = Tail(wire) /\ wire \in Seq(Frame)
    BY <1>1, <1>8 DEF OnEvent, FlightTyped
  <2>2. /\ DOMAIN wire = 1 .. Len(wire) /\ DOMAIN wire' = 1 .. Len(wire) - 1 /\ Len(wire) \in Nat \ {0}
        /\ Head(wire) = wire[1] /\ \A k \in 1 .. Len(wire) - 1 : wire'[k] = wire[k + 1]
    BY <2>1, TailIs
  <2>3. wire[1] \notin {Open, Close}
    BY <2>1, <2>2 DEF Open, Close
  <2>4. ASSUME NEW k \in DOMAIN wire, wire[k] \in {Open, Close}
        PROVE  k - 1 \in DOMAIN wire' /\ wire'[k - 1] = wire[k]
    <3>1. k # 1
      BY <2>3, <2>4
    <3> QED
      BY <2>2, <3>1
  <2>5. Reopens => Reopens'
    BY <1>8, <2>4 DEF OnEvent, Reopens
  <2> QED
    BY <1>2, <1>8, <2>5 DEF OnEvent, server
<1>9. CASE OnOpen
  <2> DEFINE free == CHOOSE i \in Slots : i \notin InFlight
             new == Ask(lastEventId, TRUE, FALSE)
  <2>1. /\ InFlight # Slots /\ fetches' = [fetches EXCEPT ![free] = new]
        /\ UNCHANGED <<epoch, pollerEpoch>>
    BY <1>9 DEF OnOpen, server
  <2>2. free \in Slots
    BY <2>1 DEF InFlight
  <2>3. new # None /\ new.retry
    <3>1. new \in Fetch
      BY AskTyped DEF FeedInv, IInv, PaneInv, PaneTyped
    <3>2. new # None
      BY <3>1, FeedAssumption
    <3> QED
      BY <3>2 DEF Ask
  <2> HIDE DEF free, new
  <2>4. fetches'[free] = new /\ \A j \in Slots : j # free => fetches'[j] = fetches[j]
    BY <1>1, <2>1, <2>2, Replaced
  <2> QED
    BY <2>1, <2>2, <2>3, <2>4 DEF Learns, InFlight
<1>10. ASSUME NEW i \in InFlight, Answer(i) PROVE Learns'
  <2> DEFINE r == [epoch |-> epoch, lastId |-> last_event_id,
                   from |-> Max2(fetches[i].since, last_event_id - EVENTS_RING)]
             new == [fetches[i] EXCEPT !.answer = r]
  <2>1. fetches' = [fetches EXCEPT ![i] = new]
    BY <1>10 DEF Answer
  <2>2. i \in Slots /\ fetches[i] \in Fetch /\ fetches[i].retry
    BY <1>1, FlyingTyped DEF Learns
  <2>3. r \in Response
    BY <1>1, FlyingTyped, FeedAssumption DEF Response, Max2, FlightTyped
  <2> HIDE DEF r
  <2>4. new \in Fetch /\ new # None /\ new.retry
    <3>1. new \in Fetch /\ new.retry
      BY <2>2, <2>3 DEF Fetch
    <3> QED
      BY <3>1, FeedAssumption
  <2> HIDE DEF new
  <2>5. fetches'[i] = new /\ \A j \in Slots : j # i => fetches'[j] = fetches[j]
    BY <1>1, <2>1, <2>2, Replaced
  <2>6. i \in InFlight' /\ \A j \in InFlight' : fetches'[j].retry
    BY <2>2, <2>4, <2>5 DEF Learns, InFlight
  <2> QED
    BY <1>10, <2>6 DEF Learns, Answer, server
<1>11. ASSUME NEW i \in InFlight, AskAgain(i) PROVE Knows'
  <2>1. InFlight = {i}
    BY <1>1 DEF FeedInv, Fresh
  <2> QED
    BY <1>1, <1>11, <2>1, AskAgainStep
<1>12. ASSUME NEW i \in InFlight, TakeAnswer(i) PROVE FALSE
  <2>1. fetches[i].answer # None /\ fetches[i].answer.epoch = epoch /\ fetches[i].retry
    BY <1>1, <1>12 DEF TakeAnswer, Answered, LinkInv, AnswersOfThis, AnswerOfThis, Learns
  <2>2. RestartTell(fetches[i].answer)
    BY <2>1 DEF RestartTell, OtherProcess, Learns
  <2> QED
    BY <1>12, <2>1, <2>2 DEF TakeAnswer
<1>13. ASSUME NEW i \in InFlight, FailFetch(i) PROVE FALSE
  <2>1. Within(epoch, faults.drops, faults.failures + 1, Cardinality(InFlight))
    BY <1>13 DEF FailFetch
  <2>2. faults.failures \in Nat /\ Cardinality(InFlight) \in Nat
    BY <1>1, InFlightCounts DEF FlightTyped
  <2>3. faults.failures + 1 = 0
    BY <1>1, <2>1, <2>2, GentleIs
  <2> QED
    BY <2>2, <2>3
<1> QED
  BY <1>3, <1>4, <1>5, <1>6, <1>7, <1>8, <1>9, <1>10, <1>11, <1>12, <1>13 DEF Page, Server

-----------------------------------------------------------------------------
LEMMA InitHoldsFeed == Init => FeedInv
<1> SUFFICES ASSUME Init PROVE FeedInv
  OBVIOUS
<1>1. IInv
  BY InitHolds
<1>2. /\ last_event_id = 0 /\ epoch = 0 /\ pollerEpoch = None /\ lastEventId = 0 /\ renderedEvents = {}
      /\ adding = <<>> /\ DOMAIN adding = {} /\ wire = <<>> /\ DOMAIN wire = {}
      /\ socket = "boot" /\ ~ joined /\ ~ sending
  BY DEF Init
<1>3. \A i \in InFlight : i = 1 /\ fetches[i] = Ask(0, TRUE, TRUE)
  BY DEF Init, InFlight
<1>4. \A i \in InFlight : fetches[i].since = 0 /\ fetches[i].answer = None
  BY <1>3 DEF Ask
<1>5. KeptIds = {}
  BY <1>2 DEF KeptIds
<1>6. WireOfThis /\ AnswersOfThis
  BY <1>2, <1>4 DEF WireOfThis, AnswersOfThis, AnswerOfThis
<1>7. Booting /\ Linked
  BY <1>2, <1>3 DEF Booting, Linked
<1>8. PageOfThis /\ AddingOfThis /\ SinceOfThis
  BY <1>2, <1>4 DEF PageOfThis, AddingOfThis, SinceOfThis
<1>9. Arrives
  BY <1>2, <1>5 DEF Arrives, PassedAreSecured, NothingForgotten, InOrder
<1>10. Fresh
  BY <1>2 DEF Fresh
<1> QED
  BY <1>1, <1>6, <1>7, <1>8, <1>9, <1>10 DEF FeedInv, LinkInv, Knows

LEMMA StutterKeeps ==
  ASSUME FeedInv, UNCHANGED vars
  PROVE  LinkInv' /\ Fresh' /\ (Knows' \/ Learns')
<1>1. UNCHANGED <<epoch, last_event_id, joined, sending, wire, socket, fetches, rows, renderedEvents,
                  lastEventId, drawn, pollerEpoch, adding, faults, cost>>
  BY DEF vars, server, pane
<1>2. InFlight' = InFlight /\ (Reopens' <=> Reopens)
  BY <1>1 DEF InFlight, Reopens
<1>3. LinkInv'
  BY <1>1, <1>2 DEF FeedInv, LinkInv, WireOfThis, AnswersOfThis, AnswerOfThis, Booting, Linked
<1>4. Fresh' /\ (Learns => Learns')
  BY <1>1, <1>2 DEF FeedInv, Fresh, Learns
<1>5. Knows => Knows'
  <2> SUFFICES ASSUME Knows PROVE Knows'
    OBVIOUS
  <2>1. \A id : (Secured(id)' <=> Secured(id)) /\ (Passed(id)' <=> Passed(id))
    BY <1>1, SecuredSame
  <2>2. Arrives'
    BY <1>1, <1>2, <2>1, WireSame DEF Knows, FeedInv, IInv
  <2> QED
    BY <1>1, <1>2, <2>2 DEF Knows, PageOfThis, AddingOfThis, SinceOfThis, Ev
<1> QED
  BY <1>3, <1>4, <1>5 DEF FeedInv

LEMMA NextKeepsFeed == GentleRestarts /\ FeedInv /\ [Next]_vars => FeedInv'
<1> SUFFICES ASSUME GentleRestarts, FeedInv, [Next]_vars PROVE FeedInv'
  OBVIOUS
<1>1. IInv' /\ IInv /\ LinkInv
  BY NextKeeps DEF FeedInv
<1>2. CASE UNCHANGED vars
  BY <1>1, <1>2, StutterKeeps DEF FeedInv
<1>3. CASE Restart
  BY <1>1, <1>3, RestartStep DEF FeedInv
<1>4. CASE Page \/ Server \/ Record \/ Drop \/ \E i \in InFlight : FailFetch(i)
  <2>1. LinkInv' /\ (Knows => Knows')
    <3>1. CASE Page
      BY <1>1, <3>1, OnOpenStep, OnEventStep, OnCloseStep, ReconnectStep, AddNextStep, AskAgainStep,
         TakeAnswerStep DEF Page
    <3>2. CASE Server
      BY <1>1, <3>2, SendStep, AcceptStep, AnswerStep DEF Server
    <3>3. CASE Record \/ Drop \/ \E i \in InFlight : FailFetch(i)
      BY <1>1, <3>3, RecordStep, DropStep, FailFetchStep
    <3> QED
      BY <1>4, <3>1, <3>2, <3>3
  <2>2. Fresh'
    BY <1>4, FreshKeeps
  <2>3. Knows' \/ Learns'
    BY <1>4, <2>1, LearnsKeeps DEF FeedInv
  <2> QED
    BY <1>1, <2>1, <2>2, <2>3 DEF FeedInv
<1> QED
  BY <1>2, <1>3, <1>4 DEF Next, Fault

LEMMA QuietHasAll == FeedInv => NothingLost
<1> SUFFICES ASSUME FeedInv, Quiet PROVE Kept \subseteq drawn \cup cost
  BY DEF NothingLost
<1>1. joined /\ ~ sending /\ wire = <<>> /\ adding = <<>> /\ InFlight = {}
  BY DEF Quiet, Idle, InFlight
<1>2. last_event_id \in Nat
  BY DEF FeedInv, IInv, FlightTyped
<1>3. socket = "open" /\ DOMAIN wire = {} /\ DOMAIN adding = {}
  BY <1>1 DEF FeedInv, LinkInv, Linked
<1>4. ~ Reopens /\ \A id : ~ Upcoming(id)
  BY <1>1, <1>3 DEF Upcoming, Reopens
<1>5. Knows
  BY <1>1, <1>4 DEF FeedInv, Learns
<1>6. \A id \in KeptIds : Ev(id) \in drawn \cup cost
  BY <1>1, <1>3, <1>4, <1>5 DEF Knows, Arrives, NothingForgotten, Secured
<1>7. \A id \in Max2(1, last_event_id - EVENTS_RING + 1) .. last_event_id : id \in KeptIds
  BY <1>2, FeedAssumption DEF Max2, KeptIds
<1> QED
  BY <1>6, <1>7 DEF Kept, Ev

(* Whatever breaks, fails or overlaps while one process serves, and after  *)
(* one restart whose catch-ups neither fail nor overlap, a quiet page has  *)
(* drawn every event the ring still holds but for what a fetch that failed *)
(* would have brought.                                                     *)
THEOREM NothingLostAlways == GentleRestarts => (Spec => []NothingLost)
<1> SUFFICES ASSUME GentleRestarts PROVE Spec => []NothingLost
  OBVIOUS
<1>1. FeedInv /\ [Next]_vars => FeedInv'
  BY NextKeepsFeed
<1> QED
  BY <1>1, InitHoldsFeed, QuietHasAll, PTL DEF Spec
=============================================================================
