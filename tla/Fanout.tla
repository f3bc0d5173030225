------------------------------- MODULE Fanout -------------------------------
(***************************************************************************)
(* main.py: the WebSocket handler, the set of clients, and broadcast, which *)
(* gives one frame to every client in turn.  All of it is coroutines of    *)
(* one event loop, so the state changes hands only at an `await`: a send   *)
(* writes its frame at once and then waits while the socket's buffer is    *)
(* over its limit.                                                         *)
(*                                                                         *)
(* A state of the lab is a version: how many polls drew something else.    *)
(* The events broadcast after the signal are left to EventFeed.            *)
(***************************************************************************)
EXTENDS Naturals, Sequences

CONSTANTS
  Sockets,     \* each is accepted once: a page that reconnects opens another
  CAP,         \* frames a socket holds before a send to it waits
  None,
  MaxVersion   \* bound: polls that drew something else

ASSUME FanoutAssumption ==
  /\ CAP \in Nat \ {0} /\ MaxVersion \in Nat
  /\ None \notin Nat \cup Sockets /\ \A S \in SUBSET Sockets : S # None

VARIABLES
  version,  \* poller.last_state
  pc,       \* what poll_all does next: sleep, or broadcast a state or a signal
  clients,
  targets,  \* broadcast's list(clients), those still to send to; None outside of it
  current,  \* the client whose send it waits for
  dead,     \* broadcast's list of that name
  handler,  \* where ws() is for each socket
  open,     \* sockets the server has not seen break
  wire,     \* frames written and not yet handled by the page
  copy      \* the page's lastState, None before its first frame

poll == <<version, pc>>
round == <<targets, current, dead>>
ends == <<handler, open, copy>>
vars == <<poll, clients, round, ends, wire>>

(* Seeded fault: a page that joins before the first poll is told nothing *)
SnapshotOfNothing ==
  [type |-> "snapshot", data |-> IF version = 0 THEN None ELSE version]

Snapshot == [type |-> "snapshot", data |-> version]

Message == IF pc = "state" THEN [type |-> "state", data |-> version] ELSE [type |-> "signal"]

Write(ws, frame) == wire' = [wire EXCEPT ![ws] = Append(@, frame)]

(* The send that was written last may return, or raise *)
Flushed(ws) == ws \notin open \/ Len(wire[ws]) < CAP

Init ==
  /\ version = 0 /\ pc = "sleep"
  /\ clients = {}
  /\ targets = None /\ current = None /\ dead = {}
  /\ handler = [ws \in Sockets |-> "none"]
  /\ open = {}
  /\ wire = [ws \in Sockets |-> <<>>]
  /\ copy = [ws \in Sockets |-> None]

-----------------------------------------------------------------------------
(* The poller's tick, and broadcast.                                       *)

Adopt ==
  /\ pc = "sleep"
  /\ \/ version' = version /\ pc' = "signal"
     \/ version < MaxVersion /\ version' = version + 1 /\ pc' = "state"
  /\ UNCHANGED <<clients, round, ends, wire>>

Returned == pc' = IF pc = "state" THEN "signal" ELSE "sleep"

NobodyToTell ==
  /\ pc # "sleep" /\ targets = None
  /\ clients = {}
  /\ Returned
  /\ UNCHANGED <<version, clients, round, ends, wire>>

(* Seeded fault: a client is told of nothing before its greeting is over *)
BeginWithGreeted ==
  /\ pc # "sleep" /\ targets = None
  /\ clients # {}
  /\ targets' = {ws \in clients : handler[ws] # "greeting"} /\ dead' = {}
  /\ UNCHANGED <<poll, clients, current, ends, wire>>

Begin ==
  /\ pc # "sleep" /\ targets = None
  /\ clients # {}
  /\ targets' = clients /\ dead' = {}
  /\ UNCHANGED <<poll, clients, current, ends, wire>>

Send(ws) ==
  /\ targets # None /\ current = None
  /\ ws \in targets
  /\ targets' = targets \ {ws}
  /\ IF ws \in open
     THEN Write(ws, Message) /\ current' = ws /\ UNCHANGED dead
     ELSE dead' = dead \cup {ws} /\ UNCHANGED <<wire, current>>
  /\ UNCHANGED <<poll, clients, ends>>

(* Seeded fault: the send to a socket that breaks meanwhile never raises *)
SentToTheLiving ==
  /\ current # None
  /\ current \in open /\ Flushed(current)
  /\ current' = None
  /\ UNCHANGED <<poll, clients, targets, dead, ends, wire>>

Sent ==
  /\ current # None
  /\ Flushed(current)
  /\ dead' = IF current \in open THEN dead ELSE dead \cup {current}
  /\ current' = None
  /\ UNCHANGED <<poll, clients, targets, ends, wire>>

(* Seeded fault: the dead stay among the clients *)
EndKeepingDead ==
  /\ targets = {} /\ current = None
  /\ targets' = None /\ dead' = {}
  /\ Returned
  /\ UNCHANGED <<version, clients, current, ends, wire>>

End ==
  /\ targets = {} /\ current = None
  /\ clients' = clients \ dead
  /\ targets' = None /\ dead' = {}
  /\ Returned
  /\ UNCHANGED <<version, current, ends, wire>>

-----------------------------------------------------------------------------
(* The handler of one socket.                                              *)

(* Seeded fault: a client joins without its snapshot *)
JoinWithoutSnapshot(ws) ==
  /\ handler[ws] = "none"
  /\ handler' = [handler EXCEPT ![ws] = "greeting"]
  /\ open' = open \cup {ws}
  /\ clients' = clients \cup {ws}
  /\ UNCHANGED <<poll, round, copy, wire>>

(* From the end of accept to the wait of the snapshot's send *)
Join(ws) ==
  /\ handler[ws] = "none"
  /\ handler' = [handler EXCEPT ![ws] = "greeting"]
  /\ open' = open \cup {ws}
  /\ clients' = clients \cup {ws}
  /\ Write(ws, Snapshot)
  /\ UNCHANGED <<poll, round, copy>>

(* A greeting that fails leaves the handler before its `try` *)
Greeted(ws) ==
  /\ handler[ws] = "greeting"
  /\ Flushed(ws)
  /\ handler' = [handler EXCEPT ![ws] = IF ws \in open THEN "receiving" ELSE "raised"]
  /\ UNCHANGED <<poll, clients, round, open, wire, copy>>

(* receive_text raises WebSocketDisconnect *)
Leave(ws) ==
  /\ handler[ws] = "receiving"
  /\ ws \notin open
  /\ handler' = [handler EXCEPT ![ws] = "left"]
  /\ clients' = clients \ {ws}
  /\ UNCHANGED <<poll, round, open, wire, copy>>

-----------------------------------------------------------------------------
(* The other end.                                                          *)

Handle(ws) ==
  /\ ws \in open
  /\ wire[ws] # <<>>
  /\ wire' = [wire EXCEPT ![ws] = Tail(@)]
  /\ copy' = IF Head(wire[ws]).type = "signal" THEN copy
             ELSE [copy EXCEPT ![ws] = Head(wire[ws]).data]
  /\ UNCHANGED <<poll, clients, round, handler, open>>

(* The page closed, the network broke, or no answer came to a ping *)
Lost(ws) ==
  /\ ws \in open
  /\ open' = open \ {ws}
  /\ wire' = [wire EXCEPT ![ws] = <<>>]
  /\ UNCHANGED <<poll, clients, round, handler, copy>>

(* A page that reads nothing does not answer the server's ping either *)
PingTimeout(ws) == Len(wire[ws]) >= CAP /\ Lost(ws)

-----------------------------------------------------------------------------
Broadcast == NobodyToTell \/ Begin \/ (\E ws \in Sockets : Send(ws)) \/ Sent \/ End

Handler(ws) == Greeted(ws) \/ Leave(ws)

Next ==
  \/ Adopt
  \/ Broadcast
  \/ \E ws \in Sockets : Join(ws) \/ Handler(ws) \/ Handle(ws) \/ Lost(ws)

Spec == Init /\ [][Next]_vars

(* The event loop runs every coroutine that can go on, and run starts the  *)
(* next poll.  A page need not read, but then its pings time out.          *)
FairSpec ==
  /\ Spec
  /\ WF_vars(Adopt) /\ WF_vars(Broadcast)
  /\ \A ws \in Sockets : WF_vars(Handler(ws)) /\ WF_vars(PingTimeout(ws))

-----------------------------------------------------------------------------
(* What a socket carries here; only a signal draws no state *)
Frame == [type : {"snapshot", "state"}, data : Nat] \cup [type : {"signal"}]

TypeOK ==
  /\ version \in 0 .. MaxVersion /\ pc \in {"sleep", "state", "signal"}
  /\ clients \subseteq Sockets /\ open \subseteq Sockets /\ dead \subseteq Sockets
  /\ targets = None \/ targets \in SUBSET Sockets
  /\ current \in Sockets \cup {None}
  /\ handler \in [Sockets -> {"none", "greeting", "receiving", "left", "raised"}]
  /\ copy \in [Sockets -> Nat \cup {None}]
  /\ wire \in [Sockets -> Seq(Frame)]

(* The frames on their way to a page that it will draw *)
Due(ws) == {k \in DOMAIN wire[ws] : wire[ws][k].type # "signal"}

(* A page misses no state, whenever it joined: between two broadcasts of   *)
(* states the last one written to every open socket is the poller's, so    *)
(* the pages that joined while a broadcast was under way have it too.      *)
JoinedPageIsCurrent ==
  pc # "state" => \A ws \in open :
    \/ Due(ws) = {} /\ copy[ws] = version
    \/ \E k \in Due(ws) : wire[ws][k].data = version /\ \A j \in Due(ws) : j <= k

(* onmessage draws a state with the nodes of the snapshot before it: the   *)
(* first frame of every socket is its snapshot, though its client is in    *)
(* the set before the snapshot is written, and the snapshots of a page and *)
(* the states after it never take the page back in time.                   *)
SnapshotThenOnwards ==
  \A ws \in open :
    /\ copy[ws] = None => wire[ws] # <<>> /\ Head(wire[ws]).type = "snapshot"
    /\ \A k \in Due(ws) :
         /\ copy[ws] # None => copy[ws] <= wire[ws][k].data
         /\ \A j \in Due(ws) : j <= k => wire[ws][j].data <= wire[ws][k].data

(* One page that stopped reading does not stop the poller for ever.        *)
BroadcastReturns == pc # "sleep" ~> pc = "sleep"

(* Every broken socket leaves the clients: its handler discards it, or,    *)
(* when the snapshot could not be sent, the next broadcast does.           *)
BrokenLeaveClients ==
  \A ws \in Sockets : ws \in clients \ open ~> ws \notin clients
=============================================================================
