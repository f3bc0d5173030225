----------------------------- MODULE RouterRead -----------------------------
(* One reading of one router: _poll_node_sync of the poller, its three views     *)
(* fetched one after the other from the agent, over connections on which the     *)
(* other side is slow, silent, verbose or broken. poll_all waits for the reading *)
(* of every router, so its tick lasts as long as the longest of them.            *)
(*                                                                               *)
(* The clock counts from the start of the reading. An operation of the socket    *)
(* returns within ExecTimeout or raises; a body is kept in pieces.               *)
EXTENDS Integers, Sequences

CONSTANTS
  None,
  ExecTimeout,          \* exec_timeout
  MAX_RESPONSE_BYTES,   \* the cap, in pieces
  MaxClock              \* bound: the clock goes no further

ReadAssumption == ExecTimeout \in Nat \ {0} /\ MAX_RESPONSE_BYTES \in Nat /\ MaxClock \in Nat

Views == <<"bgp-summary", "bgp-detail", "bgp-neighbors">>

VARIABLES
  pc,         \* "ask", "opening", "body", "framing", "error body", "done"
  got,        \* what became of the views so far: "json", "no json" or "failed"
  reading,    \* "error" or "up", once it is decided
  clock,
  deadline,   \* of the view being fetched
  opened,     \* when its headers were in
  framing,    \* how its body is sent, "plain" or "chunked"
  total       \* pieces of its body that were kept

vars == <<pc, got, reading, clock, deadline, opened, framing, total>>

Init ==
  /\ pc \in {"ask", "done"}     \* "done" at once: no address for the router
  /\ got = <<>> /\ reading = IF pc = "ask" THEN None ELSE "error"
  /\ clock = 0 /\ deadline = 0 /\ opened = 0 /\ framing = "plain" /\ total = 0

(* The reading as far as the views decide it. A failure of the third is caught. *)
ReadingOf(views) ==
  IF Len(views) = Len(Views) THEN "up" ELSE IF views[Len(views)] = "failed" THEN "error" ELSE None

ViewIs(outcome) ==
  /\ got' = Append(got, outcome)
  /\ reading' = ReadingOf(got')
  /\ pc' = IF reading' = None THEN "ask" ELSE "done"

(* An operation of the socket: it returns after a while, or raises. *)
Waits(t) == t \in 0..ExecTimeout /\ clock + t <= MaxClock /\ clock' = clock + t

Ask ==
  /\ pc = "ask"
  /\ pc' = "opening"
  /\ deadline' = clock + ExecTimeout /\ total' = 0
  /\ UNCHANGED <<got, reading, clock, opened, framing>>

(* A connection that is refused or reset, an operation that times out. *)
Raises ==
  /\ pc \in {"opening", "body", "framing", "error body"}
  /\ \E t \in 0..ExecTimeout : Waits(t)
  /\ ViewIs("failed")
  /\ UNCHANGED <<deadline, opened, framing, total>>

(* Connecting, and each part of the headers, is an operation of its own; *)
(* nothing looks at the deadline between them.                           *)
Opening ==
  /\ pc = "opening"
  /\ \E t \in 0..ExecTimeout : Waits(t)
  /\ opened' = clock'
  /\ pc' \in {"opening", "body", "error body"}
  /\ framing' \in {"plain", "chunked"}
  /\ UNCHANGED <<got, reading, deadline, total>>

TooSlow ==
  /\ pc = "body"
  /\ clock > deadline
  /\ ViewIs("failed")
  /\ UNCHANGED <<clock, deadline, opened, framing, total>>

(* read1 was called in time: the clock is looked at before each call *)
InRead1 == pc = "framing" \/ (pc = "body" /\ clock <= deadline)

(* Of a chunked body read1 reads what is between two chunks, and the trailers, *)
(* in operations of their own; nothing looks at the deadline between them.     *)
ReadFraming ==
  /\ InRead1 /\ framing = "chunked"
  /\ \E t \in 0..ExecTimeout : Waits(t)
  /\ pc' = "framing"
  /\ UNCHANGED <<got, reading, deadline, opened, framing, total>>

(* One operation returns what has arrived of the body *)
ReadChunk ==
  /\ InRead1
  /\ \E t \in 0..ExecTimeout : Waits(t)
  /\ IF total + 1 > MAX_RESPONSE_BYTES THEN ViewIs("failed") /\ UNCHANGED total
     ELSE total' = total + 1 /\ pc' = "body" /\ UNCHANGED <<got, reading>>
  /\ UNCHANGED <<deadline, opened, framing>>

(* The end of the body, and what the text is: output with no JSON in it is no *)
(* failure, JSON that does not parse is.                                      *)
ReadEnd ==
  /\ InRead1
  /\ \E t \in 0..ExecTimeout : Waits(t)
  /\ \E outcome \in {"no json", "failed"} \cup (IF total > 0 THEN {"json"} ELSE {}) : ViewIs(outcome)
  /\ UNCHANGED <<deadline, opened, framing, total>>

(* An answer of 4xx or 5xx, or a redirect, none of which is followed: the body *)
(* is read to its end for the message.                                         *)
ReadErrorBody ==
  /\ pc = "error body"
  /\ \E t \in 0..ExecTimeout : Waits(t)
  /\ \/ UNCHANGED <<pc, got, reading>>
     \/ ViewIs("failed")
  /\ UNCHANGED <<deadline, opened, framing, total>>

Next ==
  \/ Ask \/ Raises \/ Opening \/ TooSlow
  \/ ReadFraming \/ ReadChunk \/ ReadEnd \/ ReadErrorBody

Spec == Init /\ [][Next]_vars

---------------------------------------------------------------------------

(* A body that is not chunked is given up at the deadline, or at the first     *)
(* look after it, and of any body no more than the cap is kept, however it     *)
(* trickles in (poller.py:331).                                                *)
BodyIsBounded ==
  /\ pc = "body" /\ framing = "plain" => clock <= deadline + ExecTimeout \/ clock = opened
  /\ total <= MAX_RESPONSE_BYTES

(* The claim of poller.py:57-58 and of _fetch's words at 323-331: no router    *)
(* holds the poll up, since each answer is under a deadline of ExecTimeout and *)
(* an operation that runs over it is the last.                                 *)
NoRouterStallsThePoll == pc # "done" => clock <= deadline + ExecTimeout
=============================================================================
