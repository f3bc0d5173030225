---------------------------- MODULE Agent_proofs ----------------------------
(***************************************************************************)
(* What holds of the agent for any number of connections, any ceiling and  *)
(* any requests.                                                           *)
(***************************************************************************)
EXTENDS Agent, FiniteSetTheorems, TLAPS

USE AgentAssumption

(* The accepting thread keeps one connection, which holds its slot already *)
TakenVerified == taken # None => taken \in Conns /\ conn[taken].phase = "verified"

Typed ==
  /\ up \in BOOLEAN
  /\ _open \in Nat
  /\ taken \in Permitted \cup {None}
  /\ conn \in [Conns -> Conn]

(* Only those the allow-list names get past the accepting thread *)
HoldersPermitted == Holding \subseteq Permitted

Counted == _open = Cardinality(Holding) /\ _open <= MAX_CONNECTIONS

IInv == Typed /\ TakenVerified /\ HoldersPermitted /\ Counted

-----------------------------------------------------------------------------
LEMMA HoldingFinite == IsFiniteSet(Holding) /\ Cardinality(Holding) \in Nat
<1>1. Holding \subseteq Conns
  BY DEF Holding
<1> QED
  BY <1>1, FS_Subset, FS_CardinalityType

(* A step that leaves who holds a slot as it was leaves the count right.   *)
LEMMA SameHolders ==
  ASSUME IInv, UNCHANGED _open, Holding' = Holding
  PROVE  Counted'
BY DEF IInv, Counted

(* A connection that had no slot and takes one is counted once.            *)
LEMMA OneMoreHolder ==
  ASSUME IInv, ~ Full, _open' = _open + 1,
         NEW c \in Conns, c \notin Holding, Holding' = Holding \cup {c}
  PROVE  Counted'
<1>1. Cardinality(Holding') = Cardinality(Holding) + 1
  BY HoldingFinite, FS_AddElement
<1> QED
  BY <1>1 DEF IInv, Typed, Counted, Full

(* A connection that had a slot and gives it back is counted once.         *)
LEMMA OneHolderLess ==
  ASSUME IInv, _open' = _open - 1,
         NEW c \in Conns, c \in Holding, Holding' = Holding \ {c}
  PROVE  Counted' /\ _open' \in Nat
<1>1. Cardinality(Holding') = Cardinality(Holding) - 1
  BY HoldingFinite, FS_RemoveElement
<1>2. Cardinality(Holding) # 0
  BY HoldingFinite, FS_EmptySet
<1> QED
  BY <1>1, <1>2, HoldingFinite DEF IInv, Typed, Counted
-----------------------------------------------------------------------------
(* Where a connection goes, and what that does to the holders.             *)
LEMMA GoTyped ==
  ASSUME Typed, NEW c \in Conns, NEW phase \in Phases, Go(c, phase)
  PROVE  /\ conn' \in [Conns -> Conn]
         /\ conn'[c].phase = phase
         /\ \A d \in Conns \ {c} : conn'[d] = conn[d]
BY DEF Typed, Go, Conn

LEMMA HoldersAfter ==
  ASSUME NEW c \in Conns, \A d \in Conns \ {c} : conn'[d].phase = conn[d].phase
  PROVE  /\ conn'[c].phase \in HoldingPhases => Holding' = Holding \cup {c}
         /\ conn'[c].phase \notin HoldingPhases => Holding' = Holding \ {c}
BY DEF Holding

LEMMA FreshTyped == Fresh \in Conn /\ Fresh.phase = "away"
BY DEF Fresh, Conn, Phases

(* A step of one connection that neither takes a slot nor gives it back.   *)
LEMMA Moves ==
  ASSUME IInv, UNCHANGED <<up, _open, taken>>,
         NEW c \in Conns, conn[c].phase # "verified",
         conn' \in [Conns -> Conn], \A d \in Conns \ {c} : conn'[d] = conn[d],
         conn'[c].phase \in HoldingPhases <=> conn[c].phase \in HoldingPhases
  PROVE  IInv' /\ UNCHANGED Holding
<1>1. Holding' = Holding
  BY DEF Holding
<1>2. Counted'
  BY <1>1, SameHolders
<1>3. Typed' /\ TakenVerified'
  BY DEF IInv, Typed, TakenVerified
<1> QED
  BY <1>1, <1>2, <1>3 DEF IInv, HoldersPermitted

LEMMA ItemsTyped ==
  ASSUME NEW r \in Requests, NEW bytes \in Requests
  PROVE  /\ [request |-> r, inBody |-> FALSE] \in Item
         /\ [request |-> bytes, inBody |-> TRUE] \in Item
BY DEF Item

-----------------------------------------------------------------------------
(* Clients and handler threads, up to the release of the slot.             *)
LEMMA ConversationKeeps ==
  ASSUME IInv, NEW c \in Conns,
         \/ Connect(c) \/ Ask(c) \/ Refuse(c) \/ StartThread(c) \/ Expire(c)
         \/ NextRequest(c) \/ NoRequest(c) \/ ReadRequest(c)
         \/ VtyshReturns(c) \/ VtyshRaises(c) \/ Respond(c) \/ RespondFails(c)
  PROVE  IInv' /\ UNCHANGED Holding
<1> USE DEF Phases, HoldingPhases
<1>0. conn \in [Conns -> Conn] /\ Typed /\ conn[c] \in Conn
  BY DEF IInv, Typed
<1>1. CASE Connect(c)
  BY <1>0, <1>1, GoTyped, Moves DEF Connect
<1>2. CASE Ask(c)
  <2>1. PICK r, bytes \in Requests :
          LET asked == [request |-> r, inBody |-> FALSE]
              body == IF r.body THEN <<[request |-> bytes, inBody |-> TRUE]>> ELSE <<>>
          IN  conn' = [conn EXCEPT ![c].stream = @ \o <<asked>> \o body,
                                   ![c].owed = Append(@, asked)]
    BY <1>2 DEF Ask
  <2> DEFINE asked == [request |-> r, inBody |-> FALSE]
             body == IF r.body THEN <<[request |-> bytes, inBody |-> TRUE]>> ELSE <<>>
             arrived == conn[c].stream \o <<asked>> \o body
             due == Append(conn[c].owed, asked)
  <2>2. arrived \in Seq(Item) /\ due \in Seq(Item)
    <3>1. asked \in Item /\ body \in Seq(Item)
      BY ItemsTyped
    <3> HIDE DEF asked, body
    <3> QED
      BY <1>0, <3>1 DEF Conn
  <2>3. conn' = [conn EXCEPT ![c] = [@ EXCEPT !.stream = arrived, !.owed = due]]
    BY <1>0, <2>1
  <2> HIDE DEF arrived, due
  <2>4. conn'[c] = [conn[c] EXCEPT !.stream = arrived, !.owed = due]
    BY <1>0, <2>3
  <2>5. conn'[c] \in Conn /\ conn'[c].phase = conn[c].phase
    BY <1>0, <2>2, <2>4 DEF Conn
  <2>6. conn' \in [Conns -> Conn] /\ \A d \in Conns \ {c} : conn'[d] = conn[d]
    BY <1>0, <2>3, <2>5
  <2> QED
    BY <1>2, <2>5, <2>6, Moves DEF Ask, Serving
<1>3. CASE Refuse(c)
  BY <1>0, <1>3, GoTyped, Moves DEF Refuse, Verify
<1>4. CASE StartThread(c)
  <2>1. conn[c].phase = "verified" /\ conn'[c].phase = "ready" /\ conn' \in [Conns -> Conn]
        /\ \A d \in Conns \ {c} : conn'[d] = conn[d]
    BY <1>0, <1>4, GoTyped DEF StartThread, IInv, TakenVerified
  <2>2. Holding' = Holding
    BY <2>1 DEF Holding
  <2>3. Typed' /\ TakenVerified'
    BY <1>0, <1>4, <2>1 DEF StartThread, Typed, TakenVerified
  <2> QED
    BY <1>4, <2>2, <2>3, SameHolders DEF StartThread, IInv, HoldersPermitted
<1>5. CASE Expire(c)
  <2>1. conn'[c] = [conn[c] EXCEPT !.expired = TRUE]
        /\ \A d \in Conns \ {c} : conn'[d] = conn[d]
    BY <1>0, <1>5 DEF Expire
  <2>2. conn'[c] \in Conn /\ conn'[c].phase = conn[c].phase
    BY <1>0, <2>1 DEF Conn
  <2>3. conn' \in [Conns -> Conn]
    BY <1>0, <1>5, <2>2 DEF Expire
  <2> QED
    BY <1>5, <2>1, <2>2, <2>3, Moves DEF Expire, Serving
<1>6. CASE NextRequest(c)
  <2>1. PICK phase \in {"ended", "reading"} : Go(c, phase)
    BY <1>6 DEF NextRequest
  <2> QED
    BY <1>0, <1>6, <2>1, GoTyped, Moves DEF NextRequest
<1>7. CASE NoRequest(c)
  BY <1>0, <1>7, GoTyped, Moves DEF NoRequest
<1>8. CASE ReadRequest(c)
  <2> DEFINE item == Head(conn[c].stream)
             rest == Tail(conn[c].stream)
             close == Closes(item.request)
             next == IF RunsVtysh(item.request) THEN "vtysh" ELSE "writing"
  <2>1. conn' = [conn EXCEPT ![c] = [@ EXCEPT !.stream = rest, !.current = item,
                                              !.close_connection = close, !.phase = next]]
    BY <1>0, <1>8 DEF ReadRequest
  <2>2. item \in Item /\ rest \in Seq(Item)
    BY <1>0, <1>8 DEF ReadRequest, Conn
  <2>3. close \in BOOLEAN /\ next \in {"vtysh", "writing"}
    BY <2>2 DEF Closes
  <2> HIDE DEF item, rest, close, next
  <2>4. conn'[c] = [conn[c] EXCEPT !.stream = rest, !.current = item,
                                   !.close_connection = close, !.phase = next]
    BY <1>0, <2>1
  <2>5. conn'[c] \in Conn /\ conn'[c].phase = next
    BY <1>0, <2>2, <2>3, <2>4 DEF Conn
  <2>6. conn' \in [Conns -> Conn] /\ \A d \in Conns \ {c} : conn'[d] = conn[d]
    BY <1>0, <2>1, <2>5
  <2> QED
    BY <1>8, <2>3, <2>5, <2>6, Moves DEF ReadRequest
<1>9. CASE VtyshReturns(c)
  BY <1>0, <1>9, GoTyped, Moves DEF VtyshReturns
<1>10. CASE VtyshRaises(c)
  BY <1>0, <1>10, GoTyped, Moves DEF VtyshRaises
<1>11. CASE Respond(c)
  <2> DEFINE due == IF conn[c].owed = <<>> THEN conn[c].owed ELSE Tail(conn[c].owed)
             next == IF conn[c].close_connection THEN "ended" ELSE "ready"
  <2>1. conn' = [conn EXCEPT ![c] = [@ EXCEPT !.owed = due, !.current = None, !.phase = next]]
    BY <1>0, <1>11 DEF Respond
  <2>2. due \in Seq(Item) /\ next \in {"ended", "ready"}
    BY <1>0 DEF Conn
  <2> HIDE DEF due, next
  <2>3. conn'[c] = [conn[c] EXCEPT !.owed = due, !.current = None, !.phase = next]
    BY <1>0, <2>1
  <2>4. conn'[c] \in Conn /\ conn'[c].phase = next
    BY <1>0, <2>2, <2>3 DEF Conn
  <2>5. conn' \in [Conns -> Conn] /\ \A d \in Conns \ {c} : conn'[d] = conn[d]
    BY <1>0, <2>1, <2>4
  <2> QED
    BY <1>11, <2>2, <2>4, <2>5, Moves DEF Respond
<1>12. CASE RespondFails(c)
  BY <1>0, <1>12, GoTyped, Moves DEF RespondFails
<1> QED
  BY <1>1, <1>2, <1>3, <1>4, <1>5, <1>6, <1>7, <1>8, <1>9, <1>10, <1>11, <1>12

-----------------------------------------------------------------------------
(* The steps that take or give back a slot are steps of the semaphore.     *)
LEMMA AdmitKeeps ==
  ASSUME IInv, NEW c \in Conns, Admit(c)
  PROVE  IInv' /\ SlotsOf!Take(c) /\ c \in Permitted
<1> USE DEF Phases, HoldingPhases
<1>1. conn[c].phase = "backlog" /\ c \in Permitted /\ ~ Full /\ Go(c, "verified")
      /\ _open' = _open + 1 /\ taken' = c /\ up' = up
  BY DEF Admit, Verify
<1>2. conn' \in [Conns -> Conn] /\ conn'[c].phase = "verified"
      /\ \A d \in Conns \ {c} : conn'[d] = conn[d]
  BY <1>1, GoTyped DEF IInv
<1>3. c \notin Holding /\ Holding' = Holding \cup {c}
  BY <1>1, <1>2, HoldersAfter DEF Holding
<1>4. Counted'
  BY <1>1, <1>3, OneMoreHolder
<1>5. Typed' /\ TakenVerified'
  BY <1>1, <1>2 DEF IInv, Typed, TakenVerified
<1>6. SlotsOf!Cardinality(Holding) = Cardinality(Holding)
  BY DEF SlotsOf!Cardinality, Cardinality
<1>7. SlotsOf!Cardinality(Holding) < MAX_CONNECTIONS
  BY <1>1, <1>6 DEF IInv, Typed, Counted, Full
<1> QED
  BY <1>1, <1>3, <1>4, <1>5, <1>7 DEF IInv, HoldersPermitted, SlotsOf!Take

LEMMA ThreadFailsKeeps ==
  ASSUME IInv, NEW c \in Conns, ThreadFails(c)
  PROVE  IInv' /\ SlotsOf!Give(c) /\ c \in Permitted
<1> USE DEF Phases, HoldingPhases
<1>1. taken = c /\ taken' = None /\ _open' = _open - 1 /\ Go(c, "away") /\ up' = up
  BY DEF ThreadFails
<1>2. c \in Permitted /\ conn[c].phase = "verified"
  BY <1>1 DEF IInv, Typed, TakenVerified
<1>3. conn' \in [Conns -> Conn] /\ conn'[c].phase = "away"
      /\ \A d \in Conns \ {c} : conn'[d] = conn[d]
  BY <1>1, GoTyped DEF IInv
<1>4. c \in Holding /\ Holding' = Holding \ {c}
  BY <1>2, <1>3, HoldersAfter DEF Holding
<1>5. Counted' /\ _open' \in Nat
  BY <1>1, <1>4, OneHolderLess
<1>6. Typed' /\ TakenVerified'
  BY <1>1, <1>3, <1>5 DEF IInv, Typed, TakenVerified
<1> QED
  BY <1>2, <1>4, <1>5, <1>6 DEF IInv, HoldersPermitted, SlotsOf!Give

LEMMA ReleaseKeeps ==
  ASSUME IInv, NEW c \in Conns, Release(c)
  PROVE  IInv' /\ SlotsOf!Give(c)
<1> USE DEF Phases, HoldingPhases
<1>1. conn[c].phase = "ended" /\ _open' = _open - 1 /\ conn' = [conn EXCEPT ![c] = Fresh]
      /\ up' = up /\ taken' = taken
  BY DEF Release
<1>2. conn' \in [Conns -> Conn] /\ conn'[c].phase = "away"
      /\ \A d \in Conns \ {c} : conn'[d] = conn[d]
  BY <1>1, FreshTyped DEF IInv, Typed
<1>3. c \in Holding /\ Holding' = Holding \ {c}
  BY <1>1, <1>2, HoldersAfter DEF Holding
<1>4. Counted' /\ _open' \in Nat
  BY <1>1, <1>3, OneHolderLess
<1>5. taken # c
  BY <1>1 DEF IInv, TakenVerified
<1>6. Typed' /\ TakenVerified'
  BY <1>1, <1>2, <1>4, <1>5 DEF IInv, Typed, TakenVerified
<1> QED
  BY <1>3, <1>4, <1>6 DEF IInv, HoldersPermitted, SlotsOf!Give

LEMMA ExitKeeps ==
  ASSUME IInv, Exit
  PROVE  IInv' /\ SlotsOf!Stop
<1>1. \A c \in Conns : conn'[c].phase = "away"
  BY FreshTyped DEF Exit
<1>2. Holding' = {}
  BY <1>1 DEF Holding, HoldingPhases
<1>3. Counted'
  BY <1>2, FS_EmptySet DEF Exit, Counted
<1>4. Typed' /\ TakenVerified'
  BY FreshTyped DEF Exit, Typed, TakenVerified
<1> QED
  BY <1>2, <1>3, <1>4 DEF IInv, HoldersPermitted, SlotsOf!Stop

-----------------------------------------------------------------------------
LEMMA InitHolds == Init => IInv /\ SlotsOf!Init
<1> SUFFICES ASSUME Init PROVE IInv /\ SlotsOf!Init
  OBVIOUS
<1>1. \A c \in Conns : conn[c].phase = "away"
  BY FreshTyped DEF Init
<1>2. Holding = {}
  BY <1>1 DEF Holding, HoldingPhases
<1>3. Typed /\ TakenVerified
  BY FreshTyped DEF Init, Typed, TakenVerified
<1> QED
  BY <1>2, <1>3, FS_EmptySet DEF Init, IInv, HoldersPermitted, Counted, SlotsOf!Init

(* Every step keeps the invariant and is a step of the semaphore or none.  *)
LEMMA StepKeeps == IInv /\ [Next]_vars => IInv' /\ [SlotsOf!Next]_Holding
<1> SUFFICES ASSUME IInv, [Next]_vars PROVE IInv' /\ [SlotsOf!Next]_Holding
  OBVIOUS
<1>1. CASE UNCHANGED vars
  BY <1>1 DEF vars, IInv, Typed, TakenVerified, HoldersPermitted, Counted, Holding
<1>2. CASE Exit
  BY <1>2, ExitKeeps DEF SlotsOf!Next
<1>3. CASE Restart
  BY <1>3 DEF Restart, IInv, Typed, TakenVerified, HoldersPermitted, Counted, Holding
<1>4. ASSUME NEW c \in Conns, Step(c) PROVE IInv' /\ [SlotsOf!Next]_Holding
  <2>1. CASE Admit(c)
    BY <2>1, AdmitKeeps DEF SlotsOf!Next
  <2>2. CASE ThreadFails(c)
    BY <2>2, ThreadFailsKeeps DEF SlotsOf!Next
  <2>3. CASE Release(c)
    <3>1. c \in Permitted
      BY <2>3 DEF Release, IInv, HoldersPermitted, Holding, HoldingPhases
    <3> QED
      BY <2>3, <3>1, ReleaseKeeps DEF SlotsOf!Next
  <2> QED
    BY <1>4, <2>1, <2>2, <2>3, ConversationKeeps DEF Step, Acceptor, HandOver, Handler
<1> QED
  BY <1>1, <1>2, <1>3, <1>4 DEF Next

LEMMA IInvAlways == Spec => []IInv
BY InitHolds, StepKeeps, PTL DEF Spec

-----------------------------------------------------------------------------
(* What is unread in the stream of a connection is what its client is owed, *)
(* in the same order, up to the first request with a body: behind that one *)
(* the stream and the requests part, and the conversation must end there.  *)
(* ahead: how many of the requests owed are read already.                  *)
WithBody == {item \in Item : item.request.body}

Plain(stream, n) == \A j \in 1 .. n : stream[j] \notin WithBody

Aligned(stream, owed, ahead) ==
  /\ Plain(stream, Len(stream)) => Len(owed) = Len(stream) + ahead
  /\ \A k \in 1 .. Len(stream) :
       Plain(stream, k - 1) => k + ahead \in 1 .. Len(owed) /\ owed[k + ahead] = stream[k]

Paired(v) ==
  /\ v.phase \in {"away", "backlog", "verified"} => v.stream = <<>> /\ v.owed = <<>>
  /\ v.phase \in {"ready", "reading"} => Aligned(v.stream, v.owed, 0)
  /\ v.phase \in {"vtysh", "writing"} =>
       /\ v.owed # <<>> /\ v.current = Head(v.owed)
       /\ v.close_connection \/ Aligned(v.stream, v.owed, 1)

AllPaired == \A c \in Conns : Paired(conn[c])

(* Only what is asked is appended to both; a body follows its request.     *)
LEMMA AskAligned ==
  ASSUME NEW stream \in Seq(Item), NEW owed \in Seq(Item), NEW ahead \in {0, 1},
         Aligned(stream, owed, ahead),
         NEW asked \in Item, NEW body \in Seq(Item), asked \in WithBody \/ body = <<>>
  PROVE  Aligned(stream \o <<asked>> \o body, Append(owed, asked), ahead)
<1> DEFINE n == Len(stream)
           m == Len(owed)
           longer == stream \o <<asked>> \o body
           due == Append(owed, asked)
<1>1. n \in Nat /\ m \in Nat
  OBVIOUS
<1>2. /\ Len(longer) = n + 1 + Len(body) /\ Len(body) \in Nat
      /\ \A k \in 1 .. n : longer[k] = stream[k]
      /\ longer[n + 1] = asked
  OBVIOUS
<1>3. /\ Len(due) = m + 1
      /\ \A k \in 1 .. m : due[k] = owed[k]
      /\ due[m + 1] = asked
  OBVIOUS
<1>4. body = <<>> => Len(body) = 0
  OBVIOUS
<1>5. /\ Plain(stream, n) => m = n + ahead
      /\ \A k \in 1 .. n : Plain(stream, k - 1) => k + ahead \in 1 .. m /\ owed[k + ahead] = stream[k]
  BY DEF Aligned
<1> HIDE DEF n, m, longer, due
<1>6. ASSUME NEW k \in Nat, k <= n, Plain(longer, k) PROVE Plain(stream, k)
  BY <1>1, <1>2, <1>6 DEF Plain
<1>7. ASSUME NEW k \in Nat, k > n, Plain(longer, k) PROVE Plain(stream, n) /\ asked \notin WithBody
  <2>1. n + 1 \in 1 .. k
    BY <1>1, <1>7
  <2>2. \A j \in 1 .. n : j \in 1 .. k
    BY <1>1, <1>7
  <2> QED
    BY <1>1, <1>2, <1>7, <2>1, <2>2 DEF Plain
<1>8. Plain(longer, Len(longer)) => Len(due) = Len(longer) + ahead
  BY <1>1, <1>2, <1>3, <1>4, <1>5, <1>7
<1>9. ASSUME NEW k \in 1 .. Len(longer), Plain(longer, k - 1)
      PROVE  k + ahead \in 1 .. Len(due) /\ due[k + ahead] = longer[k]
  <2>1. CASE k \in 1 .. n
    <3>1. Plain(stream, k - 1)
      BY <1>1, <1>6, <1>9, <2>1
    <3> QED
      BY <1>1, <1>2, <1>3, <1>5, <2>1, <3>1
  <2>2. CASE k = n + 1
    <3>1. Plain(stream, n)
      BY <1>1, <1>6, <1>9, <2>2
    <3> QED
      BY <1>1, <1>2, <1>3, <1>5, <2>2, <3>1
  <2>3. CASE k > n + 1
    BY <1>1, <1>2, <1>4, <1>7, <1>9, <2>3
  <2> QED
    BY <1>1, <1>2, <2>1, <2>2, <2>3
<1> QED
  BY <1>8, <1>9 DEF Aligned, longer, due

(* The request that is read is the oldest owed; if it has no body, what is *)
(* left stays aligned behind it.                                           *)
LEMMA ReadAligned ==
  ASSUME NEW stream \in Seq(Item), NEW owed \in Seq(Item), stream # <<>>, Aligned(stream, owed, 0)
  PROVE  /\ owed # <<>> /\ Head(stream) = Head(owed)
         /\ Head(stream) \notin WithBody => Aligned(Tail(stream), owed, 1)
<1> DEFINE n == Len(stream)
           m == Len(owed)
           rest == Tail(stream)
<1>1. n \in Nat \ {0} /\ m \in Nat /\ Head(stream) = stream[1]
  OBVIOUS
<1>2. m # 0 => owed # <<>> /\ Head(owed) = owed[1]
  OBVIOUS
<1>3. Len(rest) = n - 1 /\ \A k \in 1 .. n - 1 : rest[k] = stream[k + 1]
  OBVIOUS
<1>4. /\ Plain(stream, n) => m = n
      /\ \A k \in 1 .. n : Plain(stream, k - 1) => k \in 1 .. m /\ owed[k] = stream[k]
  BY DEF Aligned
<1> HIDE DEF n, m, rest
<1>5. 1 \in 1 .. m /\ owed[1] = stream[1]
  BY <1>1, <1>4 DEF Plain
<1>6. ASSUME stream[1] \notin WithBody PROVE Aligned(rest, owed, 1)
  <2>1. ASSUME NEW k \in 0 .. n - 1, Plain(rest, k) PROVE Plain(stream, k + 1)
    <3> SUFFICES ASSUME NEW j \in 1 .. k + 1 PROVE stream[j] \notin WithBody
      BY DEF Plain
    <3>1. CASE j = 1
      BY <1>6, <3>1
    <3>2. CASE j # 1
      <4>1. j - 1 \in 1 .. k /\ j - 1 \in 1 .. n - 1 /\ (j - 1) + 1 = j
        BY <1>1, <3>2
      <4>2. rest[j - 1] = stream[j]
        BY <1>3, <4>1
      <4> QED
        BY <2>1, <4>1, <4>2 DEF Plain
    <3> QED
      BY <3>1, <3>2
  <2>2. Plain(rest, n - 1) => m = n
    <3>1. n - 1 \in 0 .. n - 1 /\ (n - 1) + 1 = n
      BY <1>1
    <3> QED
      BY <1>4, <2>1, <3>1
  <2>3. ASSUME NEW k \in 1 .. n - 1, Plain(rest, k - 1)
        PROVE  k + 1 \in 1 .. m /\ owed[k + 1] = rest[k]
    <3>1. k - 1 \in 0 .. n - 1 /\ (k - 1) + 1 = k /\ k + 1 \in 1 .. n /\ (k + 1) - 1 = k
      BY <1>1
    <3>2. Plain(stream, (k + 1) - 1)
      BY <2>1, <2>3, <3>1
    <3> QED
      BY <1>3, <1>4, <3>1, <3>2
  <2> QED
    BY <1>1, <1>3, <2>2, <2>3 DEF Aligned, m
<1> QED
  BY <1>1, <1>2, <1>5, <1>6 DEF rest

(* The response is to the oldest request owed.                             *)
LEMMA RespondAligned ==
  ASSUME NEW stream \in Seq(Item), NEW owed \in Seq(Item), owed # <<>>, Aligned(stream, owed, 1)
  PROVE  Aligned(stream, Tail(owed), 0)
<1> DEFINE m == Len(owed)
           due == Tail(owed)
<1>1. m \in Nat \ {0} /\ Len(due) = m - 1 /\ \A k \in 1 .. m - 1 : due[k] = owed[k + 1]
  OBVIOUS
<1>2. /\ Plain(stream, Len(stream)) => m = Len(stream) + 1
      /\ \A k \in 1 .. Len(stream) :
           Plain(stream, k - 1) => k + 1 \in 1 .. m /\ owed[k + 1] = stream[k]
  BY DEF Aligned
<1>3. Len(stream) \in Nat
  OBVIOUS
<1> HIDE DEF m, due
<1> QED
  BY <1>1, <1>2, <1>3 DEF Aligned, due

(* A connection that only changes its phase, and one that nobody touches.  *)
LEMMA GoPaired ==
  ASSUME Typed, AllPaired, NEW c \in Conns, NEW phase \in Phases, Go(c, phase),
         \/ phase = "ended"
         \/ phase \in {"ready", "reading"} /\ conn[c].phase \in {"verified", "ready", "reading"}
         \/ phase \in {"away", "backlog", "verified"} /\ conn[c].phase \in {"away", "backlog", "verified"}
         \/ phase = "writing" /\ conn[c].phase = "vtysh"
  PROVE  AllPaired'
<1>1. conn[c] \in Conn /\ Paired(conn[c])
  BY DEF Typed, AllPaired
<1>2. /\ conn'[c] = [conn[c] EXCEPT !.phase = phase]
      /\ \A d \in Conns \ {c} : conn'[d] = conn[d]
  BY DEF Typed, Go
<1>3. /\ conn'[c].phase = phase /\ conn'[c].stream = conn[c].stream /\ conn'[c].owed = conn[c].owed
      /\ conn'[c].current = conn[c].current /\ conn'[c].close_connection = conn[c].close_connection
  BY <1>1, <1>2 DEF Conn
<1>4. Aligned(<<>>, <<>>, 0)
  BY DEF Aligned
<1>5. Paired(conn'[c])
  BY <1>1, <1>3, <1>4 DEF Paired
<1> QED
  BY <1>2, <1>5 DEF AllPaired

LEMMA StaysPaired ==
  ASSUME AllPaired, NEW c \in Conns, Paired(conn'[c]), \A d \in Conns \ {c} : conn'[d] = conn[d]
  PROVE  AllPaired'
BY DEF AllPaired

LEMMA FreshPaired == Paired(Fresh)
BY DEF Fresh, Paired

LEMMA AskPaired ==
  ASSUME Typed, AllPaired, NEW c \in Conns, Ask(c)
  PROVE  AllPaired'
<1>1. PICK r, bytes \in Requests :
        LET asked == [request |-> r, inBody |-> FALSE]
            body == IF r.body THEN <<[request |-> bytes, inBody |-> TRUE]>> ELSE <<>>
        IN  conn' = [conn EXCEPT ![c].stream = @ \o <<asked>> \o body,
                                 ![c].owed = Append(@, asked)]
  BY DEF Ask
<1> DEFINE asked == [request |-> r, inBody |-> FALSE]
           body == IF r.body THEN <<[request |-> bytes, inBody |-> TRUE]>> ELSE <<>>
           v == conn[c]
           arrived == v.stream \o <<asked>> \o body
           due == Append(v.owed, asked)
<1>2. asked \in Item /\ body \in Seq(Item) /\ (asked \in WithBody \/ body = <<>>)
  <2>1. asked \in Item /\ body \in Seq(Item)
    BY ItemsTyped
  <2>2. r.body => asked \in WithBody
    BY <2>1 DEF WithBody
  <2> QED
    BY <2>1, <2>2
<1>3. v \in Conn /\ Paired(v) /\ v.stream \in Seq(Item) /\ v.owed \in Seq(Item) /\ Serving(c)
  BY DEF Typed, AllPaired, Conn, Ask
<1>4. conn' = [conn EXCEPT ![c] = [@ EXCEPT !.stream = arrived, !.owed = due]]
  BY <1>1 DEF Typed
<1> HIDE DEF asked, body
<1>5. due # <<>> /\ (v.owed # <<>> => Head(due) = Head(v.owed))
  BY <1>2, <1>3
<1>6. \A ahead \in {0, 1} : Aligned(v.stream, v.owed, ahead) => Aligned(arrived, due, ahead)
  BY <1>2, <1>3, AskAligned
<1> HIDE DEF arrived, due
<1>7. /\ conn'[c] = [v EXCEPT !.stream = arrived, !.owed = due]
      /\ \A d \in Conns \ {c} : conn'[d] = conn[d]
  BY <1>4 DEF Typed
<1>8. /\ conn'[c].stream = arrived /\ conn'[c].owed = due /\ conn'[c].phase = v.phase
      /\ conn'[c].current = v.current /\ conn'[c].close_connection = v.close_connection
  BY <1>3, <1>7 DEF Conn
<1>9. Paired(conn'[c])
  BY <1>3, <1>5, <1>6, <1>8 DEF Paired, Serving
<1> QED
  BY <1>7, <1>9, StaysPaired

LEMMA ReadPaired ==
  ASSUME Typed, AllPaired, NEW c \in Conns, ReadRequest(c)
  PROVE  AllPaired'
<1> DEFINE v == conn[c]
           item == Head(v.stream)
           rest == Tail(v.stream)
           close == Closes(item.request)
           next == IF RunsVtysh(item.request) THEN "vtysh" ELSE "writing"
<1>1. conn' = [conn EXCEPT ![c] = [@ EXCEPT !.stream = rest, !.current = item,
                                            !.close_connection = close, !.phase = next]]
  BY DEF ReadRequest, Typed
<1>2. /\ v \in Conn /\ v.stream \in Seq(Item) /\ v.owed \in Seq(Item)
      /\ v.stream # <<>> /\ Aligned(v.stream, v.owed, 0)
  BY DEF ReadRequest, Typed, AllPaired, Paired, Conn
<1>3. item \in Item /\ next \in {"vtysh", "writing"} /\ (item \in WithBody => close)
  BY <1>2 DEF WithBody, Closes
<1>4. v.owed # <<>> /\ item = Head(v.owed) /\ (item \notin WithBody => Aligned(rest, v.owed, 1))
  BY <1>2, ReadAligned
<1> HIDE DEF item, rest, close, next
<1>5. /\ conn'[c] = [v EXCEPT !.stream = rest, !.current = item, !.close_connection = close, !.phase = next]
      /\ \A d \in Conns \ {c} : conn'[d] = conn[d]
  BY <1>1 DEF Typed
<1>6. /\ conn'[c].stream = rest /\ conn'[c].owed = v.owed /\ conn'[c].phase = next
      /\ conn'[c].current = item /\ conn'[c].close_connection = close
  BY <1>2, <1>5 DEF Conn
<1>7. Paired(conn'[c])
  BY <1>3, <1>4, <1>6 DEF Paired
<1> QED
  BY <1>5, <1>7, StaysPaired

LEMMA RespondPaired ==
  ASSUME Typed, AllPaired, NEW c \in Conns, Respond(c)
  PROVE  AllPaired'
<1> DEFINE v == conn[c]
           due == Tail(v.owed)
           next == IF v.close_connection THEN "ended" ELSE "ready"
<1>1. v \in Conn /\ v.stream \in Seq(Item) /\ v.owed \in Seq(Item) /\ v.phase = "writing" /\ Paired(v)
  BY DEF Respond, Typed, AllPaired, Conn
<1>2. v.owed # <<>> /\ (v.close_connection \/ Aligned(v.stream, v.owed, 1))
  BY <1>1 DEF Paired
<1>3. conn' = [conn EXCEPT ![c] = [@ EXCEPT !.owed = due, !.current = None, !.phase = next]]
  BY <1>2 DEF Respond, Typed
<1>4. next \in {"ended", "ready"} /\ (next = "ready" => Aligned(v.stream, due, 0))
  BY <1>1, <1>2, RespondAligned
<1> HIDE DEF due, next
<1>5. /\ conn'[c] = [v EXCEPT !.owed = due, !.current = None, !.phase = next]
      /\ \A d \in Conns \ {c} : conn'[d] = conn[d]
  BY <1>3 DEF Typed
<1>6. conn'[c].stream = v.stream /\ conn'[c].owed = due /\ conn'[c].phase = next
  BY <1>1, <1>5 DEF Conn
<1>7. Paired(conn'[c])
  BY <1>4, <1>6 DEF Paired
<1> QED
  BY <1>5, <1>7, StaysPaired

LEMMA StepPaired == IInv /\ AllPaired /\ [Next]_vars => AllPaired'
<1> SUFFICES ASSUME IInv, AllPaired, [Next]_vars PROVE AllPaired'
  OBVIOUS
<1> USE DEF Phases
<1>0. Typed
  BY DEF IInv
<1>1. CASE UNCHANGED vars \/ Restart
  BY <1>1 DEF vars, Restart, AllPaired
<1>2. CASE Exit
  <2>1. \A c \in Conns : conn'[c] = Fresh
    BY <1>2 DEF Exit
  <2> QED
    BY <2>1, FreshPaired DEF AllPaired
<1>3. ASSUME NEW c \in Conns, Step(c) PROVE AllPaired'
  <2>1. CASE Connect(c) \/ Refuse(c) \/ Admit(c)
    BY <1>0, <2>1, GoPaired DEF Connect, Refuse, Admit, Verify
  <2>2. CASE StartThread(c) \/ ThreadFails(c)
    BY <1>0, <2>2, GoPaired DEF StartThread, ThreadFails, IInv, TakenVerified
  <2>3. CASE NextRequest(c)
    <3>1. PICK phase \in {"ended", "reading"} : Go(c, phase)
      BY <2>3 DEF NextRequest
    <3> QED
      BY <1>0, <2>3, <3>1, GoPaired DEF NextRequest
  <2>4. CASE NoRequest(c) \/ VtyshReturns(c) \/ VtyshRaises(c) \/ RespondFails(c)
    BY <1>0, <2>4, GoPaired DEF NoRequest, VtyshReturns, VtyshRaises, RespondFails
  <2>5. CASE Release(c)
    <3>1. conn'[c] = Fresh /\ \A d \in Conns \ {c} : conn'[d] = conn[d]
      BY <1>0, <2>5 DEF Release, Typed
    <3> QED
      BY <3>1, FreshPaired, StaysPaired
  <2>6. CASE Expire(c)
    <3>1. /\ conn'[c] = [conn[c] EXCEPT !.expired = TRUE]
          /\ \A d \in Conns \ {c} : conn'[d] = conn[d]
      BY <1>0, <2>6 DEF Expire, Typed
    <3>2. conn[c] \in Conn /\ Paired(conn[c])
      BY <1>0 DEF Typed, AllPaired
    <3>3. Paired(conn'[c])
      BY <3>1, <3>2 DEF Paired, Conn
    <3> QED
      BY <3>1, <3>3, StaysPaired
  <2> QED
    BY <1>0, <1>3, <2>1, <2>2, <2>3, <2>4, <2>5, <2>6, AskPaired, ReadPaired, RespondPaired
    DEF Step, Acceptor, HandOver, Handler
<1> QED
  BY <1>1, <1>2, <1>3 DEF Next

-----------------------------------------------------------------------------
(* The agent's variables keep their types, the count within the ceiling.   *)
THEOREM TypeCorrect == Spec => []TypeOK
<1>1. IInv => TypeOK
  BY DEF IInv, Typed, Counted, TypeOK
<1> QED
  BY <1>1, IInvAlways, PTL

(* The count is the number of connections let in and not ended: each slot  *)
(* is given back once, by the handler thread or by the accepting one.      *)
THEOREM CountIsSlotsAlways == Spec => []CountIsSlots
BY IInvAlways, PTL DEF IInv, Counted, CountIsSlots

(* AgentServer is a counting semaphore over the permitted connections.     *)
THEOREM AgentImplementsSlots == Spec => ImplementsSlots
BY InitHolds, StepKeeps, IInvAlways, PTL DEF Spec, ImplementsSlots, SlotsOf!Spec

(* The handler works on the oldest request its client has no answer to: a   *)
(* conversation ends at the first request with a body, whose bytes are the *)
(* first in the stream that nobody asked.                                  *)
THEOREM AnswersTheOldestAlways == Spec => []AnswersTheOldest
<1>1. Init => AllPaired
  BY FreshPaired DEF Init, AllPaired
<1>2. AllPaired => AnswersTheOldest
  BY DEF AllPaired, Paired, AnswersTheOldest
<1> QED
  BY <1>1, <1>2, StepPaired, IInvAlways, PTL DEF Spec
=============================================================================
