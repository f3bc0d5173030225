------------------------------ MODULE MCAgent -------------------------------
(* What a client may ask: a view, something that is no view, a view with a *)
(* body, and a POST.                                                       *)
EXTENDS Agent

View == [verb |-> "GET", show |-> TRUE, body |-> FALSE, keep |-> TRUE]

MCRequests ==
  {View, [View EXCEPT !.show = FALSE], [View EXCEPT !.body = TRUE], [View EXCEPT !.verb = "POST"]}
=============================================================================
