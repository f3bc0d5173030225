------------------------------- MODULE MCFeed -------------------------------
(* A page whose sockets break and whose catch-ups overlap and fail, and one *)
(* whose server restarts; and one whose catch-up after a restart may fail.  *)
EXTENDS EventFeed

BreaksOrRestarts ==
  {[restarts |-> 0, drops |-> 2, failures |-> 2, fetches |-> 3],
   [restarts |-> 1, drops |-> 1, failures |-> 0, fetches |-> 1]}

RestartAndFailure == {[restarts |-> 1, drops |-> 0, failures |-> 1, fetches |-> 1]}
=============================================================================
