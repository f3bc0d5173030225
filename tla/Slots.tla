------------------------------- MODULE Slots --------------------------------
(***************************************************************************)
(* A ceiling on how many may hold something at once: a counting semaphore, *)
(* stated by who holds instead of how many.                                *)
(***************************************************************************)
EXTENDS Naturals, FiniteSets

CONSTANTS
  Takers,  \* who may be given a slot
  Ceiling  \* how many at once

VARIABLE holders

Init == holders = {}

Take(t) ==
  /\ t \notin holders
  /\ Cardinality(holders) < Ceiling
  /\ holders' = holders \cup {t}

(* One gives its slot back, or all do at once when the owner stops *)
Give(t) == t \in holders /\ holders' = holders \ {t}

Stop == holders' = {}

Next == Stop \/ \E t \in Takers : Take(t) \/ Give(t)

Spec == Init /\ [][Next]_holders
=============================================================================
