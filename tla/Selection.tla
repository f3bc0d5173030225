----------------------------- MODULE Selection ------------------------------
(***************************************************************************)
(* A Python list comprehension with a condition, as poller.py and bgp.py   *)
(* write it: it walks a list and keeps the members that meet the           *)
(* condition, in their order.                                              *)
(***************************************************************************)
EXTENDS Naturals, Sequences

(* The members of seq that are in S *)
Select(seq, S) ==
  LET upTo[k \in 0..Len(seq)] ==
        IF k = 0 THEN <<>>
        ELSE IF seq[k] \in S THEN Append(upTo[k - 1], seq[k]) ELSE upTo[k - 1]
  IN  upTo[Len(seq)]
=============================================================================
