-------------------------- MODULE RouterRead_proofs --------------------------
(***************************************************************************)
(* The bounds on one body hold for every timeout and every cap, however    *)
(* many pieces it comes in: the clock is looked at before each is read,    *)
(* and the cap before it is kept.                                          *)
(***************************************************************************)
EXTENDS RouterRead, TLAPS

Typed ==
  /\ ReadAssumption
  /\ clock \in Nat /\ deadline \in Nat /\ opened \in Nat /\ total \in Nat
  /\ pc = "framing" => framing = "chunked"

IInv == Typed /\ BodyIsBounded

-----------------------------------------------------------------------------
(* A view that is over, well or badly, leaves no body behind.              *)
LEMMA ViewEnds ==
  ASSUME NEW outcome, ViewIs(outcome)
  PROVE  pc' \in {"ask", "done"}
BY DEF ViewIs

(* No operation lasts longer than the timeout, nor turns the clock back.   *)
LEMMA WaitIsShort ==
  ASSUME Typed, NEW t \in 0 .. ExecTimeout, Waits(t)
  PROVE  clock' \in Nat /\ clock <= clock' /\ clock' <= clock + ExecTimeout
BY DEF Waits, Typed, ReadAssumption

LEMMA ReadChunkKeeps ==
  ASSUME IInv, ReadChunk
  PROVE  IInv'
<1>1. /\ clock' \in Nat /\ clock' <= clock + ExecTimeout
      /\ framing = "chunked" \/ clock <= deadline
  BY WaitIsShort DEF ReadChunk, InRead1, IInv, Typed
<1>2. UNCHANGED <<deadline, opened, framing>>
  BY DEF ReadChunk
<1>3. CASE total + 1 > MAX_RESPONSE_BYTES
  <2>1. ViewIs("failed") /\ total' = total
    BY <1>3 DEF ReadChunk
  <2> QED
    BY <1>1, <1>2, <2>1, ViewEnds DEF IInv, Typed, BodyIsBounded, ReadAssumption
<1>4. CASE ~ (total + 1 > MAX_RESPONSE_BYTES)
  <2>1. total' = total + 1 /\ pc' = "body"
    BY <1>4 DEF ReadChunk
  <2> QED
    BY <1>1, <1>2, <1>4, <2>1 DEF IInv, Typed, BodyIsBounded, ReadAssumption
<1> QED
  BY <1>3, <1>4

LEMMA NextKeeps == IInv /\ [Next]_vars => IInv'
<1> SUFFICES ASSUME IInv, [Next]_vars PROVE IInv'
  OBVIOUS
<1> USE DEF IInv, Typed, BodyIsBounded, ReadAssumption
<1>1. CASE UNCHANGED vars
  BY <1>1 DEF vars
<1>2. CASE Ask
  BY <1>2 DEF Ask
<1>3. CASE Raises
  <2>1. clock' \in Nat /\ pc' \in {"ask", "done"} /\ UNCHANGED <<deadline, opened, framing, total>>
    BY <1>3, WaitIsShort, ViewEnds DEF Raises
  <2> QED
    BY <2>1
<1>4. CASE Opening
  <2>1. clock' \in Nat /\ UNCHANGED <<deadline, total>>
        /\ pc' \in {"opening", "body", "error body"} /\ opened' = clock'
    BY <1>4, WaitIsShort DEF Opening
  <2> QED
    BY <2>1
<1>5. CASE TooSlow
  BY <1>5, ViewEnds DEF TooSlow
<1>6. CASE ReadChunk
  BY <1>6, ReadChunkKeeps
<1>7. CASE ReadEnd
  <2>1. clock' \in Nat /\ pc' \in {"ask", "done"} /\ UNCHANGED <<deadline, opened, framing, total>>
    BY <1>7, WaitIsShort, ViewEnds DEF ReadEnd
  <2> QED
    BY <2>1
<1>8. CASE ReadFraming
  <2>1. clock' \in Nat /\ pc' = "framing" /\ framing = "chunked"
        /\ UNCHANGED <<deadline, opened, framing, total>>
    BY <1>8, WaitIsShort DEF ReadFraming
  <2> QED
    BY <2>1
<1>9. CASE ReadErrorBody
  <2>1. clock' \in Nat /\ pc' \in {"error body", "ask", "done"} /\ UNCHANGED <<deadline, opened, framing, total>>
    BY <1>9, WaitIsShort, ViewEnds DEF ReadErrorBody
  <2> QED
    BY <2>1
<1> QED
  BY <1>1, <1>2, <1>3, <1>4, <1>5, <1>6, <1>7, <1>8, <1>9 DEF Next

-----------------------------------------------------------------------------
(* However a body trickles in, no more than the cap is kept of it, and if  *)
(* it is not chunked it is given up at the first look at the clock after   *)
(* its deadline.                                                           *)
THEOREM BodyAlwaysBounded ==
  ASSUME ReadAssumption
  PROVE  Spec => []BodyIsBounded
<1>1. Init => IInv
  BY DEF Init, IInv, Typed, BodyIsBounded, ReadAssumption
<1> QED
  BY <1>1, NextKeeps, PTL DEF Spec, IInv
=============================================================================
