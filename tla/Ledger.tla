------------------------------- MODULE Ledger -------------------------------
(***************************************************************************)
(* What an events pane promises, whoever fills it: what the world is seen  *)
(* to be and what is told of it, and no new look at the world while there  *)
(* is something left to tell.  A thing that changed out of sight is        *)
(* `missed`, and from then on nothing is promised of it but that what is   *)
(* told is what was seen.                                                  *)
(*                                                                         *)
(* Listener implements it: what the routers answer is seen, the events are *)
(* what is told.                                                           *)
(***************************************************************************)
CONSTANTS
  Subjects,  \* what can be told of
  Nothing    \* nothing seen, nothing told

VARIABLES
  seen,
  told,
  missed     \* the subjects that changed out of sight

vars == <<seen, told, missed>>

Init ==
  /\ seen = [s \in Subjects |-> Nothing]
  /\ told = [s \in Subjects |-> Nothing]
  /\ missed = {}

CaughtUp == \A s \in Subjects \ missed : told[s] = seen[s]

Look ==
  /\ CaughtUp
  /\ DOMAIN seen' = Subjects
  /\ missed \subseteq missed' /\ missed' \subseteq Subjects
  /\ UNCHANGED told

Tell(s) ==
  /\ told' = [told EXCEPT ![s] = seen[s]]
  /\ UNCHANGED <<seen, missed>>

Next == Look \/ \E s \in Subjects : Tell(s)

Spec == Init /\ [][Next]_vars
=============================================================================
