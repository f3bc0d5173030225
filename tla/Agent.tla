------------------------------- MODULE Agent --------------------------------
(***************************************************************************)
(* router-agent/agent.py under the supervision of agent-start.sh: the      *)
(* thread that accepts connections, the handler thread of each, and the    *)
(* count of open connections they share.                                   *)
(*                                                                         *)
(* A connection ends for the client when its socket is shut down and for   *)
(* the count a moment later, when the thread's `finally` runs.  The two    *)
(* counters of refusals, which only tests read, are left out; so is what a *)
(* response says, since no status changes what the handler does next.      *)
(***************************************************************************)
EXTENDS Naturals, FiniteSets, Sequences

CONSTANTS
  Conns,           \* connections; one that ended may be opened again
  Permitted,       \* those whose source address is in FRR_AGENT_ALLOW
  MAX_CONNECTIONS,
  Requests,        \* what a client may ask
  None,
  MaxPipelined     \* bound: requests a client sends ahead of their responses

Request ==
  [verb : {"GET", "POST"},  \* POST stands for every verb that is not GET
   show : BOOLEAN,          \* the path names one of SHOW_COMMANDS
   body : BOOLEAN,          \* announces a body: not by a Content-Length of 0
   keep : BOOLEAN]          \* the protocol version and header keep it alive

ASSUME AgentAssumption ==
  /\ IsFiniteSet(Conns) /\ Permitted \subseteq Conns /\ None \notin Conns
  /\ MAX_CONNECTIONS \in Nat \ {0} /\ MaxPipelined \in Nat
  /\ Requests \subseteq Request

VARIABLES
  up,     \* the process runs
  _open,  \* AgentServer._open
  taken,  \* the connection the accepting thread has verified and not handed over
  conn

vars == <<up, _open, taken, conn>>

(* What arrives on a socket: a request, or bytes of a body that read like one *)
Item == [request : Requests, inBody : BOOLEAN]

Phases == {"away", "backlog", "verified", "ready", "reading", "vtysh", "writing", "ended"}

Conn ==
  [phase : Phases,
   stream : Seq(Item),           \* arrived and not yet read
   owed : Seq(Item),             \* sent and not yet answered, as the client sees it
   current : Item \cup {None},   \* the request under way
   close_connection : BOOLEAN,
   expired : BOOLEAN]            \* time.monotonic() > _deadline

Fresh ==
  [phase |-> "away", stream |-> <<>>, owed |-> <<>>, current |-> None,
   close_connection |-> FALSE, expired |-> FALSE]

HoldingPhases == {"verified", "ready", "reading", "vtysh", "writing", "ended"}

Holding == {c \in Conns : conn[c].phase \in HoldingPhases}

Serving(c) == conn[c].phase \in {"ready", "reading", "vtysh", "writing"}

Go(c, phase) == conn' = [conn EXCEPT ![c].phase = phase]

Init == up = TRUE /\ _open = 0 /\ taken = None /\ conn = [c \in Conns |-> Fresh]

-----------------------------------------------------------------------------
(* Clients.                                                                *)

Connect(c) ==
  /\ up
  /\ conn[c].phase = "away"
  /\ Go(c, "backlog")
  /\ UNCHANGED <<up, _open, taken>>

(* What a client sends before its thread runs is as if sent then *)
Ask(c) ==
  /\ Serving(c)
  /\ Len(conn[c].owed) < MaxPipelined
  /\ \E r, bytes \in Requests :
       LET asked == [request |-> r, inBody |-> FALSE]
           body == IF r.body THEN <<[request |-> bytes, inBody |-> TRUE]>> ELSE <<>>
       IN  conn' = [conn EXCEPT ![c].stream = @ \o <<asked>> \o body,
                                ![c].owed = Append(@, asked)]
  /\ UNCHANGED <<up, _open, taken>>

-----------------------------------------------------------------------------
(* The accepting thread: verify_request, then process_request.             *)

(* Seeded fault: one connection too many *)
FullTooLate == _open > MAX_CONNECTIONS

Full == _open >= MAX_CONNECTIONS

Verify(c) ==
  /\ up /\ taken = None
  /\ conn[c].phase = "backlog"

Refuse(c) ==
  /\ Verify(c)
  /\ c \notin Permitted \/ Full
  /\ Go(c, "away")
  /\ UNCHANGED <<up, _open, taken>>

(* Seeded fault: the source address is not looked at *)
AdmitAnyone(c) ==
  /\ Verify(c)
  /\ ~ Full
  /\ _open' = _open + 1
  /\ taken' = c
  /\ Go(c, "verified")
  /\ UNCHANGED up

Admit(c) ==
  /\ Verify(c)
  /\ c \in Permitted /\ ~ Full
  /\ _open' = _open + 1
  /\ taken' = c
  /\ Go(c, "verified")
  /\ UNCHANGED up

(* The thread runs, and setup takes the deadline from the clock *)
StartThread(c) ==
  /\ taken = c
  /\ taken' = None
  /\ Go(c, "ready")
  /\ UNCHANGED <<up, _open>>

(* Seeded fault: a thread that cannot start keeps its slot *)
ThreadFailsSilently(c) ==
  /\ taken = c
  /\ taken' = None
  /\ Go(c, "away")
  /\ UNCHANGED <<up, _open>>

ThreadFails(c) ==
  /\ taken = c
  /\ taken' = None
  /\ _open' = _open - 1
  /\ Go(c, "away")
  /\ UNCHANGED up

-----------------------------------------------------------------------------
(* A handler thread.                                                       *)

(* Seeded fault: the conversation has no ceiling *)
NextRequestForEver(c) ==
  /\ conn[c].phase = "ready"
  /\ Go(c, "reading")
  /\ UNCHANGED <<up, _open, taken>>

(* handle_one_request looks at the deadline before it reads *)
NextRequest(c) ==
  /\ conn[c].phase = "ready"
  /\ Go(c, IF conn[c].expired THEN "ended" ELSE "reading")
  /\ UNCHANGED <<up, _open, taken>>

(* End of stream, a reset, REQUEST_TIMEOUT of silence, or no HTTP at all *)
NoRequest(c) ==
  /\ conn[c].phase = "reading"
  /\ Go(c, "ended")
  /\ UNCHANGED <<up, _open, taken>>

(* Seeded fault: a refused body does not close the connection *)
ClosesKeepingBody(r) == ~ r.keep \/ r.verb # "GET"

(* do_POST, _body_refused and the client each end the conversation *)
Closes(r) == ~ r.keep \/ r.verb # "GET" \/ r.body

RunsVtysh(r) == r.verb = "GET" /\ ~ r.body /\ r.show

ReadRequest(c) ==
  /\ conn[c].phase = "reading"
  /\ conn[c].stream # <<>>
  /\ LET item == Head(conn[c].stream)
     IN  conn' = [conn EXCEPT
           ![c].stream = Tail(@),
           ![c].current = item,
           ![c].close_connection = Closes(item.request),
           ![c].phase = IF RunsVtysh(item.request) THEN "vtysh" ELSE "writing"]
  /\ UNCHANGED <<up, _open, taken>>

(* vtysh answered, failed, is missing or was killed after TIMEOUT *)
VtyshReturns(c) ==
  /\ conn[c].phase = "vtysh"
  /\ Go(c, "writing")
  /\ UNCHANGED <<up, _open, taken>>

(* What run_vtysh does not catch ends the thread with no response *)
VtyshRaises(c) ==
  /\ conn[c].phase = "vtysh"
  /\ Go(c, "ended")
  /\ UNCHANGED <<up, _open, taken>>

Respond(c) ==
  /\ conn[c].phase = "writing"
  /\ conn' = [conn EXCEPT
       ![c].owed = IF @ = <<>> THEN @ ELSE Tail(@),
       ![c].current = None,
       ![c].phase = IF conn[c].close_connection THEN "ended" ELSE "ready"]
  /\ UNCHANGED <<up, _open, taken>>

(* The client is gone, or reads nothing for REQUEST_TIMEOUT *)
RespondFails(c) ==
  /\ conn[c].phase = "writing"
  /\ Go(c, "ended")
  /\ UNCHANGED <<up, _open, taken>>

(* process_request_thread's `finally`, after the socket was shut down *)
Release(c) ==
  /\ conn[c].phase = "ended"
  /\ _open' = _open - 1
  /\ conn' = [conn EXCEPT ![c] = Fresh]
  /\ UNCHANGED <<up, taken>>

Expire(c) ==
  /\ Serving(c) /\ ~ conn[c].expired
  /\ conn' = [conn EXCEPT ![c].expired = TRUE]
  /\ UNCHANGED <<up, _open, taken>>

-----------------------------------------------------------------------------
(* The process ends and takes its threads and sockets with it; the loop of *)
(* agent-start.sh starts another.                                          *)
Exit ==
  /\ up
  /\ up' = FALSE /\ _open' = 0 /\ taken' = None
  /\ conn' = [c \in Conns |-> Fresh]

Restart == ~ up /\ up' = TRUE /\ UNCHANGED <<_open, taken, conn>>

-----------------------------------------------------------------------------
Acceptor(c) == Refuse(c) \/ Admit(c)

HandOver(c) == StartThread(c) \/ ThreadFails(c)

Handler(c) ==
  \/ NextRequest(c) \/ NoRequest(c) \/ ReadRequest(c)
  \/ VtyshReturns(c) \/ VtyshRaises(c)
  \/ Respond(c) \/ RespondFails(c) \/ Release(c)

Step(c) == Connect(c) \/ Ask(c) \/ Acceptor(c) \/ HandOver(c) \/ Handler(c) \/ Expire(c)

Next == Exit \/ Restart \/ \E c \in Conns : Step(c)

Spec == Init /\ [][Next]_vars

(* Threads run and the clock moves.  Strong fairness of Acceptor stands    *)
(* for the kernel's queue, which is first come first served.  A client     *)
(* owes nothing: a read or a write that makes no progress times out, and   *)
(* the length the server allows a request bounds one that trickles in.     *)
FairSpec ==
  /\ Spec
  /\ WF_vars(Restart)
  /\ \A c \in Conns :
       SF_vars(Acceptor(c)) /\ WF_vars(HandOver(c)) /\ WF_vars(Handler(c)) /\ WF_vars(Expire(c))

-----------------------------------------------------------------------------
TypeOK ==
  /\ up \in BOOLEAN
  /\ _open \in 0 .. MAX_CONNECTIONS
  /\ taken \in Permitted \cup {None}
  /\ conn \in [Conns -> Conn]

(* _open, raised by one thread and lowered by many and by the accepting    *)
(* thread itself, counts the connections that have been let in and not     *)
(* ended: none is given back twice, none is lost to a thread that could    *)
(* not start, a command that raised or a client that went away.            *)
CountIsSlots == _open = Cardinality(Holding)

(* The ceiling is on the connections themselves, whatever the count says.  *)
SlotsOf == INSTANCE Slots WITH Takers <- Permitted, Ceiling <- MAX_CONNECTIONS, holders <- Holding

ImplementsSlots == SlotsOf!Spec

(* The handler works on the oldest request its client has no answer to,    *)
(* never on what a refused request left behind in the stream: responses    *)
(* on a kept connection pair with requests in order.                       *)
AnswersTheOldest ==
  \A c \in Conns :
    conn[c].phase \in {"vtysh", "writing"} =>
      conn[c].owed # <<>> /\ conn[c].current = Head(conn[c].owed)

(* Every connection is refused or served and ends, however its client      *)
(* behaves: no slot is held for ever.                                      *)
EveryConnectionEnds == \A c \in Conns : conn[c].phase = "backlog" ~> conn[c].phase = "away"
=============================================================================
