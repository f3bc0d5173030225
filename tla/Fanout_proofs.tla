--------------------------- MODULE Fanout_proofs ----------------------------
(***************************************************************************)
(* What a page draws, for any number of sockets, any buffer and any        *)
(* interleaving of joins, broadcasts and broken connections.               *)
(***************************************************************************)
EXTENDS Fanout, TLAPS

USE FanoutAssumption

-----------------------------------------------------------------------------
(* One page: the frames on their way to it, what it draws, and the version *)
(* the poller has.                                                         *)

DueIn(frames) == {k \in DOMAIN frames : frames[k].type # "signal"}

UpToDate(frames, drawn, v) ==
  \/ DueIn(frames) = {} /\ drawn = v
  \/ \E k \in DueIn(frames) : frames[k].data = v /\ \A j \in DueIn(frames) : j <= k

Onwards(frames, drawn, v) ==
  /\ drawn = None => frames # <<>> /\ Head(frames).type = "snapshot"
  /\ drawn # None => drawn <= v
  /\ \A k \in DueIn(frames) :
       /\ frames[k].data <= v
       /\ drawn # None => drawn <= frames[k].data
       /\ \A j \in DueIn(frames) : j <= k => frames[j].data <= frames[k].data

LEMMA FrameData ==
  ASSUME NEW f \in Frame, f.type # "signal"
  PROVE  f.data \in Nat
BY DEF Frame

(* What a written frame adds.                                              *)
LEMMA Longer ==
  ASSUME NEW frames \in Seq(Frame), NEW f \in Frame
  PROVE  /\ Append(frames, f) \in Seq(Frame)
         /\ Append(frames, f) # <<>>
         /\ frames # <<>> => Head(Append(frames, f)) = Head(frames)
         /\ \A k \in DueIn(frames) : Append(frames, f)[k] = frames[k] /\ k \in 1 .. Len(frames)
         /\ Append(frames, f)[Len(frames) + 1] = f
         /\ Len(frames) \in Nat
         /\ f.type = "signal" => DueIn(Append(frames, f)) = DueIn(frames)
         /\ f.type # "signal" => DueIn(Append(frames, f)) = DueIn(frames) \cup {Len(frames) + 1}
<1> DEFINE n == Len(frames)
           longer == Append(frames, f)
<1>1. /\ longer \in Seq(Frame) /\ longer # <<>>
      /\ frames # <<>> => Head(longer) = Head(frames)
      /\ n \in Nat /\ DOMAIN frames = 1 .. n /\ DOMAIN longer = 1 .. n + 1
      /\ \A k \in 1 .. n : longer[k] = frames[k]
      /\ longer[n + 1] = f
  OBVIOUS
<1> HIDE DEF n, longer
<1>2. 1 .. n + 1 = (1 .. n) \cup {n + 1}
  BY <1>1
<1>3. /\ f.type = "signal" => DueIn(longer) = DueIn(frames)
      /\ f.type # "signal" => DueIn(longer) = DueIn(frames) \cup {n + 1}
  BY <1>1, <1>2 DEF DueIn
<1> QED
  BY <1>1, <1>3 DEF DueIn, n, longer

(* A signal changes nothing of what the page is to draw.                   *)
LEMMA SignalWritten ==
  ASSUME NEW frames \in Seq(Frame), NEW drawn \in Nat \cup {None}, NEW v \in Nat,
         NEW f \in Frame, f.type = "signal"
  PROVE  /\ UpToDate(frames, drawn, v) => UpToDate(Append(frames, f), drawn, v)
         /\ Onwards(frames, drawn, v) => Onwards(Append(frames, f), drawn, v)
<1> DEFINE longer == Append(frames, f)
<1>1. /\ longer # <<>> /\ DueIn(longer) = DueIn(frames)
      /\ frames # <<>> => Head(longer) = Head(frames)
      /\ \A k \in DueIn(frames) : longer[k] = frames[k]
  BY Longer
<1> HIDE DEF longer
<1> QED
  BY <1>1 DEF UpToDate, Onwards, longer

(* A state, or a snapshot, of the poller's version is the last to be drawn. *)
LEMMA StateWritten ==
  ASSUME NEW frames \in Seq(Frame), NEW drawn \in Nat \cup {None}, NEW v \in Nat,
         NEW f \in Frame, f.type # "signal", f.data = v
  PROVE  /\ UpToDate(Append(frames, f), drawn, v)
         /\ Onwards(frames, drawn, v) => Onwards(Append(frames, f), drawn, v)
         /\ f.type = "snapshot" /\ frames = <<>> => Onwards(Append(frames, f), None, v)
<1> DEFINE longer == Append(frames, f)
           n == Len(frames)
<1>1. /\ longer # <<>> /\ DueIn(longer) = DueIn(frames) \cup {n + 1}
      /\ frames # <<>> => Head(longer) = Head(frames)
      /\ \A k \in DueIn(frames) : longer[k] = frames[k] /\ k \in 1 .. n
      /\ longer[n + 1] = f /\ n \in Nat
  BY Longer
<1>2. frames = <<>> => DueIn(frames) = {} /\ Head(longer) = f
  BY DEF DueIn
<1> HIDE DEF longer, n
<1>3. UpToDate(longer, drawn, v)
  BY <1>1 DEF UpToDate
<1>4. ASSUME Onwards(frames, drawn, v) PROVE Onwards(longer, drawn, v)
  <2>1. \A k \in DueIn(longer) : longer[k].data <= v /\ (drawn # None => drawn <= longer[k].data)
    BY <1>1, <1>4 DEF Onwards
  <2>2. ASSUME NEW k \in DueIn(longer), NEW j \in DueIn(longer), j <= k
        PROVE  longer[j].data <= longer[k].data
    <3>1. CASE k = n + 1
      BY <1>1, <2>1, <3>1
    <3>2. CASE k # n + 1
      BY <1>1, <1>4, <2>2, <3>2 DEF Onwards
    <3> QED
      BY <3>1, <3>2
  <2> QED
    BY <1>1, <1>4, <2>1, <2>2 DEF Onwards
<1>5. ASSUME f.type = "snapshot", frames = <<>> PROVE Onwards(longer, None, v)
  BY <1>1, <1>2, <1>5 DEF Onwards
<1> QED
  BY <1>3, <1>4, <1>5 DEF longer

(* A handled frame is drawn, or leaves what is drawn alone.                *)
LEMMA FrameHandled ==
  ASSUME NEW frames \in Seq(Frame), frames # <<>>, NEW drawn \in Nat \cup {None}, NEW v \in Nat,
         NEW new, new = IF Head(frames).type = "signal" THEN drawn ELSE Head(frames).data,
         Onwards(frames, drawn, v)
  PROVE  /\ Tail(frames) \in Seq(Frame) /\ new \in Nat \cup {None}
         /\ UpToDate(frames, drawn, v) => UpToDate(Tail(frames), new, v)
         /\ Onwards(Tail(frames), new, v)
<1> DEFINE n == Len(frames)
           rest == Tail(frames)
<1>1. /\ n \in Nat \ {0} /\ DOMAIN frames = 1 .. n /\ Head(frames) = frames[1]
      /\ \A k \in 1 .. n : frames[k] \in Frame
      /\ rest \in Seq(Frame) /\ DOMAIN rest = 1 .. n - 1
      /\ \A k \in 1 .. n - 1 : rest[k] = frames[k + 1]
  OBVIOUS
<1> HIDE DEF n, rest
<1>2. /\ \A k \in DueIn(rest) : k \in 1 .. n - 1 /\ k + 1 \in DueIn(frames) /\ rest[k] = frames[k + 1]
      /\ \A k \in DueIn(frames) : k # 1 => k - 1 \in DueIn(rest) /\ rest[k - 1] = frames[k]
  BY <1>1 DEF DueIn
<1>3. 1 \in DueIn(frames) <=> Head(frames).type # "signal"
  BY <1>1 DEF DueIn
<1>4. \A k \in DueIn(frames) : frames[k].data \in Nat /\ k \in 1 .. n
  BY <1>1, FrameData DEF DueIn
<1>5. new \in Nat \cup {None}
  BY <1>1, FrameData
<1>6. ASSUME UpToDate(frames, drawn, v) PROVE UpToDate(rest, new, v)
  <2>1. CASE DueIn(frames) = {} /\ drawn = v
    BY <1>2, <1>3, <2>1 DEF UpToDate
  <2>2. ASSUME NEW k \in DueIn(frames), frames[k].data = v, \A j \in DueIn(frames) : j <= k
        PROVE  UpToDate(rest, new, v)
    <3>1. CASE k = 1
      <4>1. DueIn(rest) = {}
        <5> SUFFICES ASSUME NEW i \in DueIn(rest) PROVE FALSE
          OBVIOUS
        <5>1. i \in 1 .. n - 1 /\ i + 1 \in DueIn(frames)
          BY <1>2
        <5> QED
          BY <1>1, <2>2, <3>1, <5>1
      <4>2. new = v
        BY <1>1, <1>3, <2>2, <3>1
      <4> QED
        BY <4>1, <4>2 DEF UpToDate
    <3>2. CASE k # 1
      <4>1. k - 1 \in DueIn(rest) /\ rest[k - 1].data = v
        BY <1>2, <2>2, <3>2
      <4>2. \A j \in DueIn(rest) : j <= k - 1
        BY <1>2, <1>4, <2>2
      <4> QED
        BY <4>1, <4>2 DEF UpToDate
    <3> QED
      BY <3>1, <3>2
  <2> QED
    BY <1>6, <2>1, <2>2 DEF UpToDate
<1>7. /\ \A k \in DueIn(frames) : frames[k].data <= v
      /\ \A j, k \in DueIn(frames) : j <= k => frames[j].data <= frames[k].data
  BY DEF Onwards
<1>8. /\ new # None /\ new <= v
      /\ \A k \in DueIn(frames) : new <= frames[k].data
  <2>1. CASE Head(frames).type = "signal"
    BY <2>1 DEF Onwards
  <2>2. CASE Head(frames).type # "signal"
    <3>1. 1 \in DueIn(frames) /\ new = frames[1].data /\ new \in Nat
      BY <1>1, <1>3, <1>4, <2>2
    <3>2. \A k \in DueIn(frames) : 1 <= k
      BY <1>4
    <3> QED
      BY <1>7, <3>1, <3>2
  <2> QED
    BY <2>1, <2>2
<1>9. Onwards(rest, new, v)
  <2>1. \A j, k \in DueIn(rest) : j <= k => j + 1 <= k + 1
    BY <1>1, <1>2
  <2>2. \A j, k \in DueIn(rest) : j <= k => rest[j].data <= rest[k].data
    BY <1>2, <1>7, <2>1
  <2>3. \A k \in DueIn(rest) : rest[k].data <= v /\ new <= rest[k].data
    BY <1>2, <1>7, <1>8
  <2> QED
    BY <1>8, <2>2, <2>3 DEF Onwards
<1> QED
  BY <1>1, <1>5, <1>6, <1>9 DEF rest

LEMMA OnwardsLater ==
  ASSUME NEW frames \in Seq(Frame), NEW drawn \in Nat \cup {None},
         NEW v \in Nat, NEW w \in Nat, v <= w, Onwards(frames, drawn, v)
  PROVE  Onwards(frames, drawn, w)
<1>1. \A k \in DueIn(frames) : frames[k].data \in Nat
  BY FrameData DEF DueIn
<1> QED
  BY <1>1 DEF Onwards

-----------------------------------------------------------------------------
(* All pages.  A client that was never accepted has nothing; one that is   *)
(* dead stays so, since a page that comes back opens another socket.       *)
Kept ==
  /\ open \subseteq clients
  /\ \A ws \in clients \cup dead : handler[ws] # "none"
  /\ targets # None => \A ws \in targets : handler[ws] # "none"
  /\ current # None => handler[current] # "none"
  /\ dead \cap open = {}
  /\ \A ws \in Sockets \ open : wire[ws] = <<>>
  /\ \A ws \in Sockets : handler[ws] = "none" => copy[ws] = None
  /\ pc = "sleep" => targets = None

(* While a state is broadcast only those it was sent to are up to date     *)
Told(ws) == pc # "state" \/ (targets # None /\ ws \notin targets)

Drawing(ws) ==
  /\ Onwards(wire[ws], copy[ws], version)
  /\ Told(ws) => UpToDate(wire[ws], copy[ws], version)

Views == \A ws \in open : Drawing(ws)

IInv == TypeOK /\ Kept /\ Views

LEMMA WireTyped ==
  ASSUME TypeOK, NEW ws \in Sockets
  PROVE  wire[ws] \in Seq(Frame) /\ copy[ws] \in Nat \cup {None} /\ version \in Nat
BY DEF TypeOK

(* A step that writes nothing and handles nothing.                         *)
LEMMA SameViews ==
  ASSUME Views, UNCHANGED <<version, wire, copy>>, open' \subseteq open,
         \A ws \in open' : Told(ws)' => Told(ws)
  PROVE  Views'
BY DEF Views, Drawing

LEMMA MessageTyped ==
  ASSUME TypeOK
  PROVE  /\ Message \in Frame /\ Snapshot \in Frame /\ Snapshot.type = "snapshot" /\ Snapshot.data = version
         /\ pc = "state" => Message.type # "signal" /\ Message.data = version
         /\ pc # "state" => Message.type = "signal"
BY DEF TypeOK, Message, Snapshot, Frame

LEMMA WriteWrites ==
  ASSUME TypeOK, NEW ws \in Sockets, NEW f \in Frame, Write(ws, f)
  PROVE  /\ wire' \in [Sockets -> Seq(Frame)]
         /\ wire'[ws] = Append(wire[ws], f)
         /\ \A other \in Sockets \ {ws} : wire'[other] = wire[other]
<1>1. Append(wire[ws], f) \in Seq(Frame)
  BY WireTyped
<1> QED
  BY <1>1 DEF Write, TypeOK

-----------------------------------------------------------------------------
(* The poller's tick, and broadcast.                                       *)

LEMMA AdoptKeeps ==
  ASSUME IInv, Adopt
  PROVE  IInv'
<1>1. /\ pc = "sleep" /\ targets = None /\ UNCHANGED <<clients, targets, current, dead, handler, open, copy, wire>>
      /\ \/ version' = version /\ pc' = "signal"
         \/ version < MaxVersion /\ version' = version + 1 /\ pc' = "state"
  BY DEF Adopt, round, ends, IInv, Kept
<1>2. TypeOK' /\ Kept'
  BY <1>1 DEF IInv, TypeOK, Kept
<1>3. ASSUME NEW ws \in open PROVE Drawing(ws)'
  <2>1. /\ wire[ws] \in Seq(Frame) /\ copy[ws] \in Nat \cup {None} /\ version \in Nat
        /\ Onwards(wire[ws], copy[ws], version) /\ UpToDate(wire[ws], copy[ws], version)
    BY <1>1, WireTyped DEF IInv, TypeOK, Views, Drawing, Told
  <2>2. Onwards(wire[ws], copy[ws], version')
    <3>1. version' \in Nat /\ version <= version'
      BY <1>1, <2>1
    <3> QED
      BY <2>1, <3>1, OnwardsLater
  <2>3. Told(ws)' => version' = version
    BY <1>1 DEF Told
  <2> QED
    BY <1>1, <2>1, <2>2, <2>3 DEF Drawing
<1> QED
  BY <1>1, <1>2, <1>3 DEF IInv, Views

LEMMA RoundKeeps ==
  ASSUME IInv, NobodyToTell \/ Begin \/ Sent \/ End
  PROVE  IInv'
<1> USE DEF IInv
<1>1. CASE NobodyToTell
  <2>1. open = {} /\ UNCHANGED <<version, clients, targets, current, dead, handler, open, copy, wire>>
        /\ pc' \in {"signal", "sleep"} /\ targets = None
    BY <1>1 DEF NobodyToTell, round, ends, Kept, Returned
  <2> QED
    BY <2>1 DEF TypeOK, Kept, Views
<1>2. CASE Begin
  <2>1. /\ UNCHANGED <<version, pc, clients, current, handler, open, copy, wire>>
        /\ targets' = clients /\ dead' = {} /\ pc # "sleep"
    BY <1>2 DEF Begin, poll, ends
  <2>2. TypeOK' /\ Kept'
    BY <2>1 DEF TypeOK, Kept
  <2>3. Views'
    BY <2>1, SameViews DEF Told, Kept
  <2> QED
    BY <2>2, <2>3
<1>3. CASE Sent
  <2>1. /\ UNCHANGED <<version, pc, clients, targets, handler, open, copy, wire>>
        /\ dead' = (IF current \in open THEN dead ELSE dead \cup {current})
        /\ current # None /\ current' = None
    BY <1>3 DEF Sent, poll, ends
  <2>2. TypeOK' /\ Kept'
    BY <2>1 DEF TypeOK, Kept
  <2>3. Views'
    BY <2>1, SameViews DEF Told
  <2> QED
    BY <2>2, <2>3
<1>4. CASE End
  <2>1. /\ UNCHANGED <<version, current, handler, open, copy, wire>>
        /\ targets = {} /\ targets' = None /\ dead' = {} /\ clients' = clients \ dead
        /\ pc' \in {"signal", "sleep"}
    BY <1>4 DEF End, ends, Returned
  <2>2. TypeOK' /\ Kept'
    BY <2>1 DEF TypeOK, Kept
  <2>3. \A ws \in open : Told(ws)
    BY <2>1 DEF Told
  <2>4. Views'
    BY <2>1, <2>3, SameViews
  <2> QED
    BY <2>2, <2>4
<1> QED
  BY <1>1, <1>2, <1>3, <1>4

LEMMA SendKeeps ==
  ASSUME IInv, NEW ws \in Sockets, Send(ws)
  PROVE  IInv'
<1> USE DEF IInv
<1>1. /\ UNCHANGED <<version, pc, clients, handler, open, copy>>
      /\ targets # None /\ ws \in targets /\ targets' = targets \ {ws}
      /\ targets \in SUBSET Sockets /\ targets' \in SUBSET Sockets /\ targets' # None
  BY DEF Send, poll, ends, TypeOK
<1>2. CASE ws \notin open
  <2>1. dead' = dead \cup {ws} /\ UNCHANGED <<wire, current>>
    BY <1>2 DEF Send
  <2>2. TypeOK' /\ Kept'
    BY <1>1, <1>2, <2>1 DEF TypeOK, Kept
  <2>3. \A other \in open : Told(other)' => Told(other)
    BY <1>1, <1>2 DEF Told
  <2>4. Views'
    BY <1>1, <2>1, <2>3, SameViews
  <2> QED
    BY <2>2, <2>4
<1>3. CASE ws \in open
  <2>1. Write(ws, Message) /\ current' = ws /\ dead' = dead
    BY <1>3 DEF Send
  <2>2. /\ wire' \in [Sockets -> Seq(Frame)]
        /\ wire'[ws] = Append(wire[ws], Message)
        /\ \A other \in Sockets \ {ws} : wire'[other] = wire[other]
    BY <2>1, MessageTyped, WriteWrites
  <2>3. TypeOK' /\ Kept'
    BY <1>1, <1>3, <2>1, <2>2 DEF TypeOK, Kept
  <2>4. wire[ws] \in Seq(Frame) /\ copy[ws] \in Nat \cup {None} /\ version \in Nat /\ Drawing(ws)
    BY <1>3, WireTyped DEF Views
  <2>5. Drawing(ws)'
    <3>1. Onwards(wire[ws], copy[ws], version) /\ Message \in Frame
      BY <2>4, MessageTyped DEF Drawing
    <3>2. /\ Onwards(Append(wire[ws], Message), copy[ws], version)
          /\ UpToDate(Append(wire[ws], Message), copy[ws], version)
      <4>1. CASE pc = "state"
        <5>1. Message.type # "signal" /\ Message.data = version
          BY <4>1, MessageTyped
        <5> QED
          BY <2>4, <3>1, <5>1, StateWritten
      <4>2. CASE pc # "state"
        <5>1. Message.type = "signal" /\ UpToDate(wire[ws], copy[ws], version)
          BY <2>4, <4>2, MessageTyped DEF Drawing, Told
        <5> QED
          BY <2>4, <3>1, <5>1, SignalWritten
      <4> QED
        BY <4>1, <4>2
    <3>3. copy'[ws] = copy[ws] /\ version' = version
      BY <1>1
    <3> QED
      BY <2>2, <3>2, <3>3 DEF Drawing
  <2>6. ASSUME NEW other \in open \ {ws} PROVE Drawing(other)'
    <3>1. Told(other)' => Told(other)
      BY <1>1, <2>6 DEF Told
    <3>2. wire'[other] = wire[other] /\ Drawing(other)
      BY <2>2, <2>6 DEF TypeOK, Views
    <3> QED
      BY <1>1, <3>1, <3>2 DEF Drawing
  <2> QED
    BY <1>1, <2>3, <2>5, <2>6 DEF Views
<1> QED
  BY <1>2, <1>3

-----------------------------------------------------------------------------
(* Handlers and pages.                                                     *)

LEMMA JoinKeeps ==
  ASSUME IInv, NEW ws \in Sockets, Join(ws)
  PROVE  IInv'
<1> USE DEF IInv
<1>1. /\ UNCHANGED <<version, pc, targets, current, dead, copy>> /\ handler[ws] = "none"
      /\ handler' = [handler EXCEPT ![ws] = "greeting"]
      /\ open' = open \cup {ws} /\ clients' = clients \cup {ws} /\ Write(ws, Snapshot)
  BY DEF Join, poll, round
<1>2. ws \notin open /\ ws \notin dead /\ wire[ws] = <<>> /\ copy[ws] = None
  BY <1>1 DEF Kept
<1>3. /\ wire' \in [Sockets -> Seq(Frame)]
      /\ wire'[ws] = Append(wire[ws], Snapshot)
      /\ \A other \in Sockets \ {ws} : wire'[other] = wire[other]
  BY <1>1, MessageTyped, WriteWrites
<1>4. TypeOK' /\ Kept'
  <2>1. TypeOK'
    BY <1>1, <1>3 DEF TypeOK
  <2>2. handler'[ws] = "greeting" /\ \A other \in Sockets \ {ws} : handler'[other] = handler[other]
    BY <1>1 DEF TypeOK
  <2>3. Kept'
    BY <1>1, <1>2, <1>3, <2>2 DEF Kept, TypeOK
  <2> QED
    BY <2>1, <2>3
<1>5. Drawing(ws)'
  <2>1. wire[ws] \in Seq(Frame) /\ copy[ws] \in Nat \cup {None} /\ version \in Nat
    BY WireTyped
  <2>2. Snapshot \in Frame /\ Snapshot.type # "signal" /\ Snapshot.type = "snapshot" /\ Snapshot.data = version
    BY MessageTyped
  <2>3. /\ Onwards(Append(wire[ws], Snapshot), copy[ws], version)
        /\ UpToDate(Append(wire[ws], Snapshot), copy[ws], version)
    BY <1>2, <2>1, <2>2, StateWritten
  <2>4. copy'[ws] = copy[ws] /\ version' = version
    BY <1>1
  <2> QED
    BY <1>3, <2>3, <2>4 DEF Drawing
<1>6. ASSUME NEW other \in open PROVE Drawing(other)'
  <2>1. wire'[other] = wire[other] /\ Drawing(other) /\ (Told(other)' => Told(other))
    BY <1>1, <1>2, <1>3, <1>6 DEF TypeOK, Views, Told
  <2> QED
    BY <1>1, <2>1 DEF Drawing
<1> QED
  BY <1>1, <1>4, <1>5, <1>6 DEF Views

LEMMA LeavesKeep ==
  ASSUME IInv, NEW ws \in Sockets, Greeted(ws) \/ Leave(ws) \/ Lost(ws)
  PROVE  IInv'
<1> USE DEF IInv
<1>1. CASE Greeted(ws) \/ Leave(ws)
  <2>1. /\ UNCHANGED <<version, pc, targets, current, dead, copy, open, wire>>
        /\ \/ clients' = clients
           \/ ws \notin open /\ clients' = clients \ {ws}
        /\ \E h \in {"receiving", "raised", "left"} : handler' = [handler EXCEPT ![ws] = h]
        /\ handler[ws] # "none"
    BY <1>1 DEF Greeted, Leave, poll, round
  <2>2. TypeOK' /\ Kept'
    BY <2>1 DEF TypeOK, Kept
  <2>3. Views'
    BY <2>1, SameViews DEF Told
  <2> QED
    BY <2>2, <2>3
<1>2. CASE Lost(ws)
  <2>1. /\ UNCHANGED <<version, pc, clients, targets, current, dead, copy, handler>>
        /\ open' = open \ {ws} /\ wire' = [wire EXCEPT ![ws] = <<>>]
    BY <1>2 DEF Lost, poll, round
  <2>2. wire' \in [Sockets -> Seq(Frame)] /\ wire'[ws] = <<>>
        /\ \A other \in Sockets \ {ws} : wire'[other] = wire[other]
    BY <2>1 DEF TypeOK
  <2>3. TypeOK' /\ Kept'
    BY <2>1, <2>2 DEF TypeOK, Kept
  <2>4. ASSUME NEW other \in open' PROVE Drawing(other)'
    <3>1. wire'[other] = wire[other] /\ Drawing(other) /\ (Told(other)' => Told(other))
      BY <2>1, <2>2, <2>4 DEF TypeOK, Views, Told
    <3> QED
      BY <2>1, <3>1 DEF Drawing
  <2> QED
    BY <2>3, <2>4 DEF Views
<1> QED
  BY <1>1, <1>2

LEMMA HandleKeeps ==
  ASSUME IInv, NEW ws \in Sockets, Handle(ws)
  PROVE  IInv'
<1> USE DEF IInv
<1> DEFINE new == IF Head(wire[ws]).type = "signal" THEN copy[ws] ELSE Head(wire[ws]).data
<1>1. /\ UNCHANGED <<version, pc, clients, targets, current, dead, handler, open>>
      /\ ws \in open /\ wire[ws] # <<>> /\ wire' = [wire EXCEPT ![ws] = Tail(@)]
      /\ copy' = [copy EXCEPT ![ws] = new]
  BY DEF Handle, poll, round, TypeOK
<1>2. wire[ws] \in Seq(Frame) /\ copy[ws] \in Nat \cup {None} /\ version \in Nat /\ Drawing(ws)
  BY <1>1, WireTyped DEF Views
<1>3. /\ Tail(wire[ws]) \in Seq(Frame) /\ new \in Nat \cup {None}
      /\ UpToDate(wire[ws], copy[ws], version) => UpToDate(Tail(wire[ws]), new, version)
      /\ Onwards(Tail(wire[ws]), new, version)
  BY <1>1, <1>2, FrameHandled DEF Drawing
<1> HIDE DEF new
<1>4. /\ wire' \in [Sockets -> Seq(Frame)] /\ copy' \in [Sockets -> Nat \cup {None}]
      /\ wire'[ws] = Tail(wire[ws]) /\ copy'[ws] = new
      /\ \A other \in Sockets \ {ws} : wire'[other] = wire[other] /\ copy'[other] = copy[other]
  BY <1>1, <1>3 DEF TypeOK
<1>5. handler[ws] # "none"
  BY <1>1 DEF Kept
<1>6. TypeOK' /\ Kept'
  BY <1>1, <1>4, <1>5 DEF TypeOK, Kept
<1>7. \A other \in open : Told(other)' <=> Told(other)
  BY <1>1 DEF Told
<1>8. Drawing(ws)'
  BY <1>1, <1>2, <1>3, <1>4, <1>7 DEF Drawing
<1>9. ASSUME NEW other \in open \ {ws} PROVE Drawing(other)'
  <2>1. wire'[other] = wire[other] /\ copy'[other] = copy[other] /\ Drawing(other)
    BY <1>4 DEF TypeOK, Views
  <2> QED
    BY <1>1, <1>7, <2>1 DEF Drawing
<1> QED
  BY <1>1, <1>6, <1>8, <1>9 DEF Views

-----------------------------------------------------------------------------
LEMMA InitHolds == Init => IInv
BY DEF Init, IInv, TypeOK, Kept, Views

LEMMA NextKeeps == IInv /\ [Next]_vars => IInv'
<1> SUFFICES ASSUME IInv, [Next]_vars PROVE IInv'
  OBVIOUS
<1>1. CASE UNCHANGED vars
  BY <1>1 DEF vars, poll, round, ends, IInv, TypeOK, Kept, Views, Drawing, Told
<1> QED
  BY <1>1, AdoptKeeps, RoundKeeps, SendKeeps, JoinKeeps, LeavesKeep, HandleKeeps
  DEF Next, Broadcast, Handler

LEMMA IInvAlways == Spec => []IInv
BY InitHolds, NextKeeps, PTL DEF Spec

-----------------------------------------------------------------------------
(* The variables keep their types; every frame is a whole state or none.   *)
THEOREM TypeCorrect == Spec => []TypeOK
BY IInvAlways, PTL DEF IInv

(* Whenever no state is being broadcast, every page that is connected has  *)
(* the poller's state or has it coming, also one that joined meanwhile.    *)
THEOREM JoinedPageAlwaysCurrent == Spec => []JoinedPageIsCurrent
<1>1. IInv => JoinedPageIsCurrent
  BY DEF IInv, Views, Drawing, Told, UpToDate, DueIn, Due, JoinedPageIsCurrent
<1> QED
  BY <1>1, IInvAlways, PTL

(* A page draws no state before its snapshot, and goes back to none.       *)
THEOREM SnapshotThenAlwaysOnwards == Spec => []SnapshotThenOnwards
<1>1. IInv => SnapshotThenOnwards
  BY DEF IInv, Views, Drawing, Onwards, DueIn, Due, SnapshotThenOnwards
<1> QED
  BY <1>1, IInvAlways, PTL
=============================================================================
