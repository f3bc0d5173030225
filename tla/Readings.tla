------------------------------ MODULE Readings ------------------------------
(***************************************************************************)
(* The pure half of dashboard/app/poller.py: what one poll of the routers  *)
(* returns, what the page is said to draw of it (_signature), what each    *)
(* session did since the poll before (_signal) and which events tell one   *)
(* poll from the next (_diff_events).                                      *)
(*                                                                         *)
(* A Python dict over a fixed set of keys is a total function, None where  *)
(* the key is missing: dict.get returns the same None.  A poll of the lab, *)
(* `state` in the code, is such a dict from router names to readings.      *)
(***************************************************************************)
EXTENDS Integers, FiniteSets

CONSTANTS
  Routers,        \* names a router can have
  PeerIPs,        \* addresses of BGP neighbours
  SessionStates,  \* "Established", "Active", ...
  ASNs,           \* AS numbers
  Routes,       \* prefixes of the BGP table (the keys of its `routes`)
  NextHops,       \* next hops of a best path
  Details,        \* the rest of a table entry: other paths, MED, communities
  Errors,         \* what went wrong with a poll
  None            \* Python's None

ASSUME NoneAssumption == None \notin SessionStates \cup NextHops \cup Errors

(* The values of a dict of the code whose keys are K and whose values are V *)
Dict(K, V) == [K -> V \cup {None}]

NoKeys(K) == [k \in K |-> None]

PeerInfo == [state : SessionStates, remoteAs : ASNs, msgRcvd : Nat]

TableEntry == [best : NextHops \cup {None}, detail : Details]

(* What _poll_node_sync returns: an error and nothing else, or both views, *)
(* each None when the agent's answer held no JSON.  asn is the AS the      *)
(* summary names.  The neighbours view is left out: its failure is not     *)
(* fatal and only the timers the page prints beside a session need it.     *)
Failed(e) == [error |-> e, asn |-> None, summary |-> None, bgp |-> None]

Reading ==
  {Failed(e) : e \in Errors} \cup
  [error : {None}, asn : ASNs \cup {None},
   summary : Dict(PeerIPs, PeerInfo) \cup {None},
   bgp : Dict(Routes, TableEntry) \cup {None}]

LabState == Dict(Routers, Reading)

-----------------------------------------------------------------------------
(* What the code reads out of a poll.                                      *)

Peers(r) ==
  IF r = None \/ r.summary = None THEN NoKeys(PeerIPs) ELSE r.summary

BestPaths(r) ==
  [p \in Routes |->
     IF r = None \/ r.bgp = None \/ r.bgp[p] = None THEN None ELSE r.bgp[p].best]

SessionStateOf(r) ==
  [ip \in PeerIPs |-> IF Peers(r)[ip] = None THEN None ELSE Peers(r)[ip].state]

(* The two views the events are drawn from, and the map each compares *)
Views == {"summary", "bgp"}

Items(v) == IF v = "summary" THEN PeerIPs ELSE Routes

Value(state, n, v, i) ==
  IF v = "summary" THEN SessionStateOf(state[n])[i] ELSE BestPaths(state[n])[i]

Answered(state, n, v) ==
  /\ state[n] # None
  /\ state[n].error = None
  /\ IF v = "summary" THEN state[n].summary # None ELSE state[n].bgp # None

-----------------------------------------------------------------------------
Signature(state) ==
  [n \in Routers |->
     IF state[n] = None THEN None
     ELSE [error    |-> state[n].error,
           sessions |-> [ip \in PeerIPs |->
                           IF Peers(state[n])[ip] = None THEN None
                           ELSE [state    |-> Peers(state[n])[ip].state,
                                 remoteAs |-> Peers(state[n])[ip].remoteAs]],
           paths    |-> BestPaths(state[n])]]

(* A pulse is measured only against a previous sample whose counter is not *)
(* above this one: a counter that went down belongs to an older session.   *)
Signal(prev, curr) ==
  LET Pulse(n, ip) ==
        LET now == Peers(curr[n])[ip]
            was == Peers(prev[n])[ip]
            measured == was # None /\ now.msgRcvd >= was.msgRcvd
        IN  [state     |-> now.state,
             msgRcvd   |-> now.msgRcvd,
             hasDelta  |-> measured,
             dRcvd     |-> IF measured THEN now.msgRcvd - was.msgRcvd ELSE 0]
  IN  [n \in Routers |->
         IF curr[n] = None THEN None
         ELSE [ip \in PeerIPs |->
                 IF Peers(curr[n])[ip] = None THEN None ELSE Pulse(n, ip)]]

-----------------------------------------------------------------------------
(* An event names the router, the view and the item it is about, what it   *)
(* had been and what it is now.  The code's kinds and changes are `change`.*)
Change(v, was, now) ==
  CASE was = None -> IF v = "summary" THEN "appeared" ELSE "added"
    [] now = None -> IF v = "summary" THEN "vanished" ELSE "withdrawn"
    [] OTHER      -> IF v = "summary" THEN "state" ELSE "bestpath"

Event(prev, curr, n, v, i) ==
  [node |-> n, view |-> v, item |-> i,
   change |-> Change(v, Value(prev, n, v, i), Value(curr, n, v, i)),
   was |-> Value(prev, n, v, i), now |-> Value(curr, n, v, i)]

(* Seeded fault: a view that was not read has lost what it had *)
NamedWhenUnread(prev, curr, n, v, i) ==
  LET was == Value(prev, n, v, i)
      now == Value(curr, n, v, i)
  IN  /\ curr[n] # None
      /\ was # now
      /\ was = None => prev[n] = None \/ Answered(prev, n, v)

(* Seeded fault: a view read again gained all it holds *)
NamedWhenReadAgain(prev, curr, n, v, i) ==
  LET was == Value(prev, n, v, i)
      now == Value(curr, n, v, i)
  IN  /\ curr[n] # None
      /\ was # now
      /\ now = None => Answered(curr, n, v)

(* A gain is named when the previous poll read the view, or had never seen *)
(* the router; a loss only when this poll read it; a change always.        *)
Named(prev, curr, n, v, i) ==
  LET was == Value(prev, n, v, i)
      now == Value(curr, n, v, i)
  IN  /\ curr[n] # None
      /\ was # now
      /\ was = None => prev[n] = None \/ Answered(prev, n, v)
      /\ now = None => Answered(curr, n, v)

(* Seeded fault: a router is compared from its second poll on *)
DiffOfKnownRouters(prev, curr) ==
  UNION {{Event(prev, curr, n, v, i) : i \in {j \in Items(v) : Named(prev, curr, n, v, j)}} :
            n \in {r \in Routers : prev[r] # None}, v \in Views}

DiffEvents(prev, curr) ==
  UNION {{Event(prev, curr, n, v, i) : i \in {j \in Items(v) : Named(prev, curr, n, v, j)}} :
            n \in Routers, v \in Views}
=============================================================================
