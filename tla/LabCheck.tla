------------------------------ MODULE LabCheck ------------------------------
(* ci/check.sh: rows of PASS and FAIL about the lab, one after the other, while *)
(* the lab goes on. It runs when up.sh has ended, however that ended.            *)
EXTENDS BringUp

VARIABLE
  check   \* [row, printed, dash_raw, last_id]: the row to come and what is kept

vars == <<labVars, upVars, check>>

Printed(what, ok) == [check EXCEPT !.printed = Append(@, [what |-> what, ok |-> ok])]

(* Print a row and go on to the next. *)
Row(what, ok, next) == check' = [Printed(what, ok) EXCEPT !.row = next]

fails == Cardinality({k \in DOMAIN check.printed : ~ check.printed[k].ok})

Nodes == topology_nodes(files.topology)

Looking(row) == check.row = row /\ UNCHANGED <<labVars, upVars>>

(* What up.sh kept is gone when it has ended. *)
Begin ==
  /\ check.row = "idle" /\ UpEnded
  /\ check' = [check EXCEPT !.row = "running"]
  /\ calm' = TRUE /\ time' = 0 /\ steady' = None
  /\ up' = [up EXCEPT !.elapsed = 0, !.all_ok = TRUE, !.left = <<>>] /\ seen' = {}
  /\ UNCHANGED <<files, node, est, dash, web, trouble>>

CheckRunning ==
  /\ Looking("running")
  /\ Row("routers", \A r \in Range(Nodes) : r \in Routers /\ Running(r), "sessions")

(* One call for each session of each end. *)
CheckSessions ==
  /\ Looking("sessions")
  /\ \E nested \in BOOLEAN :
       LET ok(r, ip) == Running(r) /\ summary_require(show_bgp_summary(r, nested), <<ip>>) = 0
       IN  Row("sessions", /\ Expected # {}
                           /\ \A r \in NodeNames : \A n \in Range(neighbors_of(Conf(r))) : ok(r, n.ip),
               "interfaces")

CheckInterfaces ==
  /\ Looking("interfaces")
  /\ Row("interfaces",
         /\ \E r \in NodeNames : ifaces_of(Conf(r)) # <<>>
         /\ \A r \in NodeNames : \A w \in Range(ifaces_of(Conf(r))) :
              Running(r) /\ [name |-> w.iface, addr |-> w.addr] \in node[r].links,
         "prefixes")

(* Seeded fault: no row when the configurations originate nothing. *)
CheckPrefixesFound ==
  /\ Looking("prefixes")
  /\ \E nested \in BOOLEAN :
       LET ok(r, p) == r \in Routers /\ Running(r) /\ table_has(show_ip_bgp(r, nested), p) = 0
       IN  Row("prefixes", \A q \in NodeNames : \A p \in Range(originated_of(Conf(q))) :
                             \A r \in Range(Nodes) \ ({q} \cup Isps) : ok(r, p), "ready")

(* Each originated prefix in each other company; the rows of one kind stand *)
(* as one, which fails when one does or when there is none.                 *)
CheckPrefixes ==
  /\ Looking("prefixes")
  /\ LET asked == {a \in NodeNames \X (Range(Nodes) \ Isps) :
                     a[1] # a[2] /\ originated_of(Conf(a[1])) # <<>>}
     IN  \E nested \in BOOLEAN :
           LET ok(r, p) == r \in Routers /\ Running(r) /\ table_has(show_ip_bgp(r, nested), p) = 0
           IN  Row("prefixes", /\ asked # {}
                               /\ \A a \in asked : \A p \in Range(originated_of(Conf(a[1]))) : ok(a[2], p),
                   "ready")

(* The answer is kept for the row after. *)
CheckReady ==
  /\ Looking("ready")
  /\ LET raw == curl(IF dash = None THEN None ELSE api_state)
     IN  check' = [Printed("ready", raw.rc = 0 /\ dashboard(raw.json, TRUE, <<>>, <<>>) = 0)
                     EXCEPT !.row = "nodes", !.dash_raw = raw]

(* The AS numbers, joined with commas: those missing at the front leave no trace. *)
WantedASNs ==
  LET asns == [k \in DOMAIN Nodes |-> IF Nodes[k] \in NodeNames THEN asn_of(Conf(Nodes[k])) ELSE None]
      first == SelectInSeq(asns, LAMBDA a : a # None)
  IN  IF first = 0 THEN <<>> ELSE SubSeq(asns, first, Len(asns))

CheckNodes ==
  /\ Looking("nodes")
  /\ check' = [Printed("nodes", /\ check.dash_raw.rc = 0
                                /\ dashboard(check.dash_raw.json, FALSE, Nodes, WantedASNs) = 0)
                 EXCEPT !.row = "history", !.dash_raw = Dead]

(* Seeded fault: the second call is about the event to come. *)
AfterHistoryNext(raw) ==
  [row |-> IF raw.rc # 0 THEN "exit" ELSE "since",
   last_id |-> IF raw.rc # 0 THEN None ELSE IF raw.json = None THEN 0 ELSE raw.json.lastId + 1]

(* The second call is about the last id of the first, 0 when that had none to *)
(* give; there is no second call when the first one failed.                   *)
AfterHistory(raw) ==
  [row |-> IF raw.rc # 0 THEN "exit" ELSE "since",
   last_id |-> IF raw.rc # 0 THEN None ELSE IF raw.json = None THEN 0 ELSE raw.json.lastId]

CheckHistory ==
  /\ Looking("history")
  /\ LET raw == curl(IF dash = None THEN None ELSE api_events(0))
     IN  check' = [Printed("history", raw.rc = 0 /\ events(raw.json, TRUE, 1, 0) = 0)
                     EXCEPT !.row = AfterHistory(raw).row, !.last_id = AfterHistory(raw).last_id]

CheckSince ==
  /\ Looking("since")
  /\ LET raw == curl(IF dash = None THEN None
                     ELSE api_events(IF check.last_id > 0 THEN check.last_id - 1 ELSE 0))
     IN  Row("since", raw.rc = 0 /\ events(raw.json, FALSE, 1, check.last_id) = 0, "exit")

CheckScript ==
  \/ CheckRunning \/ CheckSessions \/ CheckInterfaces \/ CheckPrefixes
  \/ CheckReady \/ CheckNodes \/ CheckHistory \/ CheckSince

Init ==
  /\ LabInit /\ UpInit
  /\ check = [row |-> "idle", printed |-> <<>>, dash_raw |-> Dead, last_id |-> None]

Next ==
  \/ UpScript /\ UNCHANGED check
  \/ Tick /\ UNCHANGED check
  \/ Meanwhile /\ check.row # "exit" /\ UNCHANGED check
  \/ Begin
  \/ CheckScript

Spec == Init /\ [][Next]_vars

(* The script takes its own steps, and time passes. Nothing is asked of the lab, *)
(* of Docker or of FRR: a call of the script may never return.                   *)
FairSpec == Spec /\ WF_vars(OwnStep /\ UNCHANGED check) /\ WF_vars(Tick /\ UNCHANGED check)

---------------------------------------------------------------------------

(* Variables hold what the scripts and the lab give them. *)
TypeOK ==
  /\ files \in Files
  /\ \A r \in Routers : node[r] = None \/ node[r].agent \in {"none", "exits", "listens"}
  /\ \A s \in est : s \in Possible
  /\ dash = None \/ dash.last \in 0..MaxEventId
  /\ trouble \in 0..MaxTrouble /\ time \in 0..MaxTime
  /\ up.elapsed \in 0..time
  /\ check.last_id \in (0..MaxEventId) \cup {None}

(* What the check takes for granted of the configurations: a router without an *)
(* AS is at an end of a session that some configuration expects. One that has   *)
(* neither is not missed among the AS numbers where the topology file names it   *)
(* first.                                                                        *)
NoneAside ==
  \A f \in Files : \A r \in {r \in Routers : f.configs[r] # None} :
    \/ asn_of(f.configs[r]) # None
    \/ \E q \in {q \in Routers : f.configs[q] # None} :
         \E n \in Range(neighbors_of(f.configs[q])) : Session(n.ip) \cap Attached[r] # {}

(* The lab is up: every router of the topology file and of the configurations  *)
(* runs with its addresses and sessions, the companies know each other's        *)
(* prefixes, and the dashboard has read all routers and recorded what it saw.   *)
LabUp ==
  /\ Range(Nodes) = NodeNames /\ NodeNames = Routers
  /\ \A r \in Routers :
       /\ Running(r)
       /\ \A w \in Range(ifaces_of(Conf(r))) : [name |-> w.iface, addr |-> w.addr] \in node[r].links
  /\ Expected # {} /\ Expected \subseteq est
  /\ \E q \in Routers, r \in Routers \ Isps : q # r /\ originated_of(Conf(q)) # <<>>
  /\ \A q \in Routers, r \in Routers \ Isps :
       q # r => Range(originated_of(Conf(q))) \subseteq DOMAIN RoutesOf(files, Heard(r))
  /\ dash # None /\ web = "dashboard"
  /\ \A r \in Routers : dash.asn[r] = asn_of(Conf(r)) /\ dash.asn[r] # None
  /\ dash.last > 0

(* Of a lab that does not change meanwhile, check.sh reports 0 FAIL if it is up *)
(* and only then: no row passes for want of anything to look at, and none fails *)
(* for an order or a default. Events may be recorded while it runs, but not so  *)
(* many between its last two calls that the ring drops the one it asks for.     *)
CheckTellsTheLab ==
  LET overtaken == check.last_id # None /\ dash # None /\ dash.last >= check.last_id + EVENTS_RING
  IN  check.row = "exit" /\ calm /\ ~ overtaken => (fails = 0 <=> LabUp)

(* "A dead endpoint is a FAIL row, never a missing one" (check.sh:232-233): when *)
(* check.sh ends it has printed every row it owes, the two about the events      *)
(* included.                                                                     *)
DeadEndpointIsARow ==
  check.row = "exit" => {"history", "since"} \subseteq {row.what : row \in Range(check.printed)}
=============================================================================
