------------------------------ MODULE BringUp ------------------------------
(* ci/up.sh: compose, one retry, and rounds of `show bgp summary` until every  *)
(* expected session is Established or the deadline has passed.                 *)
EXTENDS Lab

CONSTANTS
  DEADLINE,
  MaxTime     \* bound: the clock stops here, after the deadline

ASSUME DeadlineAssumption == DEADLINE \in Nat /\ MaxTime \in Nat /\ DEADLINE < MaxTime

VARIABLES
  up,      \* [pc, retried, elapsed, all_ok, left]: up.sh and its locals
  seen     \* history: sessions that were Established at some moment of the round

upVars == <<up, seen>>

UpInit ==
  /\ up = [pc |-> "compose", retried |-> FALSE, elapsed |-> 0, all_ok |-> TRUE, left |-> <<>>]
  /\ seen = {}

UpEnded == up.pc \in {"composeFailed", "nothingExpected", "converged", "gaveUp"}

(* What each container may be after its start. *)
Starts ==
  [f \in Files |-> [r \in Routers |->
     {Started(f.configs[r], links, f.env[r], fault) : links \in Attachments(r), fault \in Faults}]]

(* compose up --wait: every container starts; it returns when all are healthy, *)
(* the dashboard last, or fails; then the containers are made anew, once.      *)
ComposeUp ==
  /\ up.pc = "compose"
  /\ node' \in {containers \in [Routers -> UNION Range(Starts[files])] :
                \A r \in Routers : containers[r] \in Starts[files][r]}
  /\ IF \A r \in Routers : Healthy(node'[r])
     THEN /\ dash' = [asn |-> [r \in Routers |-> None], last |-> 0]
          /\ up' = [up EXCEPT !.pc = IF Expected = {} THEN "nothingExpected" ELSE "wait"]
     ELSE /\ up' = IF up.retried THEN [up EXCEPT !.pc = "composeFailed"] ELSE [up EXCEPT !.retried = TRUE]
          /\ UNCHANGED dash
  /\ est' = {} /\ steady' = None
  /\ UNCHANGED <<files, web, trouble, calm, time, seen>>

(* Seeded fault: the clock starts again with the round. *)
BeginRoundAnew ==
  /\ up.pc = "wait"
  /\ up' = [up EXCEPT !.pc = "round", !.elapsed = 0, !.all_ok = TRUE, !.left = node_names]
  /\ seen' = est
  /\ UNCHANGED labVars

(* The clock is read once, before the routers are. *)
BeginRound ==
  /\ up.pc = "wait"
  /\ up' = [up EXCEPT !.pc = "round", !.elapsed = time, !.all_ok = TRUE, !.left = node_names]
  /\ seen' = est
  /\ UNCHANGED labVars

(* Seeded fault: only the exit code 1 of the tool counts, not that of no JSON. *)
SawNoneMissing(r, raw) ==
  raw.rc = 0 /\ summary_require(raw.json, [k \in DOMAIN neighbors_of(Conf(r)) |-> neighbors_of(Conf(r))[k].ip]) # 1

(* The router was asked and has all its peers Established. *)
SawAll(r, raw) ==
  raw.rc = 0 /\ summary_require(raw.json, [k \in DOMAIN neighbors_of(Conf(r)) |-> neighbors_of(Conf(r))[k].ip]) = 0

ReadNode ==
  /\ up.pc = "round" /\ up.left # <<>>
  /\ \E nested \in BOOLEAN : \E raw \in vtysh_json(Head(up.left), show_bgp_summary(Head(up.left), nested)) :
       up' = [up EXCEPT !.left = Tail(@), !.all_ok = @ /\ SawAll(Head(up.left), raw)]
  /\ UNCHANGED <<labVars, seen>>

(* Seeded fault: the deadline is looked at when the round is over. *)
EndRoundLate ==
  /\ up.pc = "round" /\ up.left = <<>>
  /\ up' = [up EXCEPT !.pc = IF up.all_ok THEN "converged" ELSE IF time >= DEADLINE THEN "gaveUp" ELSE "sleep"]
  /\ UNCHANGED <<labVars, seen>>

(* Success first, then the deadline. *)
EndRound ==
  /\ up.pc = "round" /\ up.left = <<>>
  /\ up' = [up EXCEPT !.pc = IF up.all_ok THEN "converged"
                             ELSE IF up.elapsed >= DEADLINE THEN "gaveUp" ELSE "sleep"]
  /\ UNCHANGED <<labVars, seen>>

Slept ==
  /\ up.pc = "sleep"
  /\ time > up.elapsed
  /\ up' = [up EXCEPT !.pc = "wait"]
  /\ UNCHANGED <<labVars, seen>>

(* Time passes in a round as well: a vtysh call may take seconds. *)
Tick ==
  /\ up.pc \in {"round", "sleep"}
  /\ time < MaxTime
  /\ time' = time + 1
  /\ UNCHANGED <<files, node, est, dash, web, trouble, steady, calm, upVars>>

(* What the script does itself. ComposeUp and ReadNode wait for Docker: neither *)
(* `docker compose up`, whose --wait-timeout bounds the wait for health only,    *)
(* nor `docker exec` has a timeout around it.                                    *)
OwnStep == BeginRound \/ EndRound \/ Slept

UpScript == ComposeUp \/ ReadNode \/ OwnStep

InACall == up.pc = "compose" \/ (up.pc = "round" /\ up.left # <<>>)

(* What FRR does is seen by the history of the round. *)
Meanwhile ==
  /\ Environment
  /\ seen' = IF up.pc = "round" THEN seen \cup est' ELSE seen
  /\ UNCHANGED up

---------------------------------------------------------------------------
(* What the script takes for granted of a configuration: no interface is named  *)
(* as those it parks or the one it leaves to management, and no address stands   *)
(* under two interfaces.                                                         *)
NamesLinks ==
  \A f \in Files : \A r \in {r \in Routers : f.configs[r] # None} :
    \A v, w \in Range(ifaces_of(f.configs[r])) :
      v.iface[1] # "tmp" /\ v.iface # Eth(0) /\ (v.addr = w.addr => v.iface = w.iface)

(* The start of the routers.                                                  *)
(* A container dies in it only of a command that failed, or of a configuration *)
(* that puts two of its addresses on one interface.                            *)
(* Whatever order compose attached the networks in, a router whose FRR runs    *)
(* has each configured address it was given on the interface the configuration *)
(* names, and its management address on eth0 when that is the one left over.   *)
LinksAsConfigured ==
  \A r \in {r \in Routers : node[r] # None /\ Conf(r) # None} :
    LET wanted == Range(ifaces_of(Conf(r)))
    IN  /\ node[r].died /\ ~ node[r].faulty =>
             \E v, w \in wanted :
               v.iface = w.iface /\ v.addr # w.addr /\ {v.addr, w.addr} \subseteq Attached[r]
        /\ Running(r) => \A w \in wanted, l \in node[r].links : l.addr = w.addr => l.name = w.iface
        /\ Running(r) /\ ~ node[r].faulty /\ {w.addr : w \in wanted} = Attached[r] \ {Mgmt[r]}
             => [name |-> Eth(0), addr |-> Mgmt[r]] \in node[r].links

(* "converged" is said of a lab each of whose expected sessions was Established *)
(* at some moment of the last round.                                            *)
ConvergedWasSeen ==
  [][up'.pc = "converged" /\ up.pc # "converged" => Expected # {} /\ Expected \subseteq seen]_up

(* A lab whose sessions have all been up since before the deadline is never *)
(* given up, however long the round took in which they came up.             *)
GivesUpHonestly ==
  [][up'.pc = "gaveUp" /\ up.pc # "gaveUp" => steady = None \/ steady >= DEADLINE]_up

(* up.sh ends, as long as its calls do: it is given up after the deadline         *)
(* whatever the routers answer, unless one call of it never returns. That one     *)
(* holds it past every deadline.                                                  *)
UpEnds == <>UpEnded \/ <>[]InACall
=============================================================================
