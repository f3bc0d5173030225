------------------------------ MODULE Listener ------------------------------
(***************************************************************************)
(* The poller with somebody listening: a page that has been connected      *)
(* since the process started and loses no frame.  It keeps what the page   *)
(* keeps of the frames (dashboard.js, ws.onmessage), and its events pane   *)
(* is read the way a person reads it: the last event about a session or a  *)
(* prefix says what it is now.                                             *)
(*                                                                         *)
(* heard and missed are history variables.  They record what the routers   *)
(* answered, so that what the listener was told can be compared with it;   *)
(* no action of the poller depends on them.                                *)
(***************************************************************************)
EXTENDS Poller

VARIABLES
  lastState,   \* the page's copy of the lab
  lastSignal,  \* its copy of the last signal, None before the first
  told,        \* what the events pane last said of each session and prefix
  heard,       \* what the last answered read that was kept said of it
  missed       \* views that changed while the poller could not see them

page == <<lastState, lastSignal, told>>
history == <<heard, missed>>
listenerVars == <<vars, page, history>>

Subjects == (Routers \X {"summary"} \X PeerIPs) \cup (Routers \X {"bgp"} \X Routes)

Silent == [s \in Subjects |-> None]

ListenerInit ==
  /\ Init
  /\ lastState = [n \in Routers |-> None]
  /\ lastSignal = None
  /\ told = Silent
  /\ heard = Silent
  /\ missed = {}

Actual(state, s) == Value(state, s[1], s[2], s[3])

(* A view that was read, was not, and is read again with another content;  *)
(* or whose router left the inventory and is listed again.                 *)
Surprise(state, n, v) ==
  /\ Answered(state, n, v)
  /\ ~ Answered(last_state, n, v)
  /\ \E i \in Items(v) :
       heard[<<n, v, i>>] # (IF last_state[n] = None THEN None ELSE Value(state, n, v, i))

Listen(state) ==
  /\ heard' = [s \in Subjects |->
                 IF Answered(state, s[1], s[2]) THEN Actual(state, s) ELSE heard[s]]
  /\ missed' = missed \cup {nv \in Routers \X Views : Surprise(state, nv[1], nv[2])}
  /\ UNCHANGED page

HearPoll ==
  /\ pc = "gather"
  /\ \E state \in Polls : (GatherUnchanged(state) \/ GatherChanged(state)) /\ Listen(state)

HearState ==
  /\ BroadcastState
  /\ lastState' = frame'.data
  /\ UNCHANGED <<lastSignal, told, history>>

HearSignal ==
  /\ BroadcastSignal
  /\ lastSignal' = frame'.data
  /\ UNCHANGED <<lastState, told, history>>

HearEvent(ev) ==
  /\ BroadcastEvent(ev)
  /\ told' = [told EXCEPT ![<<ev.node, ev.view, ev.item>>] = ev.now]
  /\ UNCHANGED <<lastState, lastSignal, history>>

HearNothing == (EditTopology \/ LoadNodes \/ LoadRaises \/ LosePoll) /\ UNCHANGED <<page, history>>

ListenerNext ==
  HearNothing \/ HearPoll \/ HearState \/ HearSignal \/ \E ev \in pending : HearEvent(ev)

ListenerSpec == ListenerInit /\ [][ListenerNext]_listenerVars

-----------------------------------------------------------------------------
(* What the events pane says is what the router last answered, for every   *)
(* view that never changed while it could not be read: _diff_events may    *)
(* suppress gains and losses around failed polls, but the suppressions     *)
(* cancel out.                                                             *)
LogTellsTheLab ==
  pending = {} =>
    \A s \in Subjects :
      Answered(last_state, s[1], s[2]) /\ <<s[1], s[2]>> \notin missed
        => told[s] = Actual(last_state, s)

(* An event's "was" (was, from in the code) is what the pane last said of  *)
(* that session or prefix: the pane never contradicts itself.              *)
WasIsWhatWasSaid ==
  [][\A ev \in pending \ pending' :
       <<ev.node, ev.view>> \notin missed => ev.was = told[<<ev.node, ev.view, ev.item>>]
    ]_listenerVars

(* The unread and the unlisted lose nothing: the pane says something is    *)
(* gone only on the word of a router that answered without it.             *)
GoneOnlyWhenAnswered ==
  [][\A s \in Subjects :
       told[s] # None /\ told'[s] = None
         => Answered(last_state, s[1], s[2]) /\ Actual(last_state, s) = None
    ]_listenerVars

(* Between two polls the page's copy draws what the poller compared last:  *)
(* skipping the state frame of an unchanged poll leaves no page behind.    *)
PageDrawsLastSignature ==
  pc \in {"sleep", "gather"} /\ last_signature # None =>
    Signature(lastState) = last_signature

(* Each pulse the page animates starts where the one before ended: every   *)
(* poll, changed or not, becomes the sample the next one is measured from. *)
PulsesJoin ==
  [][lastSignal' # lastSignal =>
       \A n \in Routers, ip \in PeerIPs :
         lastSignal'[n] # None /\ lastSignal'[n][ip] # None /\ lastSignal'[n][ip].hasDelta =>
           /\ lastSignal # None /\ lastSignal[n] # None /\ lastSignal[n][ip] # None
           /\ lastSignal'[n][ip].dRcvd = lastSignal'[n][ip].msgRcvd - lastSignal[n][ip].msgRcvd
    ]_listenerVars

(* The listener's pane is a ledger of the lab: an event tells what the     *)
(* routers were last seen to answer, and no poll is compared before all    *)
(* that the one before it changed is told.                                 *)
Pane == INSTANCE Ledger WITH
  Subjects <- Subjects, Nothing <- None, seen <- heard, told <- told,
  missed <- {s \in Subjects : <<s[1], s[2]>> \in missed}

ImplementsLedger == Pane!Spec

=============================================================================
