# TLA+ models of the BGP lab and its dashboard

This directory specifies the dashboard of this repository: the poller that
reads the routers (`dashboard/app/poller.py`), the web server that hands what
it reads to the open pages (`dashboard/app/main.py`), the page that draws it
(`dashboard/app/static/dashboard.js`) and the agent that answers for a router
(`router-agent/agent.py`); and the scripts that bring the lab up and check it
(`ci/up.sh`, `ci/rename-ifaces.sh`, `ci/check.sh`, `ci/bgp.py`). TLC checks the specifications on small labs; TLAPS
proves their safety properties for labs of any size.

Run a check with `tlc -config <run>.cfg <module>.tla` and a proof with
`tlapm <module>_proofs.tla`. `PROJECT.json` lists the runs, the seeded faults
(each property has one that breaks it), the source lines of every definition,
the hazards the properties were chosen for, and the theorems.

## The system

| Part | State it keeps | Operations | Talks to |
|---|---|---|---|
| Routers: FRR plus `router-agent/agent.py` | FRR's tables; the agent's count of open connections | `GET /show/<view>` runs one allow-listed `vtysh` command | polled over HTTP on the management network |
| `LabPoller` (poller.py) | `nodes`, `last_state`, `last_signature`, the ring `events`, `last_event_id`, `epoch` | every two seconds: `_load_nodes`, read all routers at once, `_signal`, `_signature`, `_diff_events`, broadcast | reads the agents and the topology file; calls `broadcast` |
| Web server (main.py) | `clients` | `/ws` joins a page and sends a snapshot; `broadcast` sends a frame to every client in turn; `/api/state`, `/api/events?since=` | runs in the poller's event loop and reads its fields directly |
| Page: feed (dashboard.js `connect`, `catchUp`, `addEvent`, `bootstrap`) | `renderedEvents`, `lastEventId`, `pollerEpoch`, the rows | draws events from the socket and from `/api/events`, reconnects after two seconds | one WebSocket, one fetch per socket |
| Page: graph (dashboard.js `buildElements`, `updateGraph`, `scheduleVanishSweep`) | `nodes`, `lastState`, `cy`, `vanishSweepArmed` | patches the drawn graph, marks vanished edges, sweeps them on a timer | fed by snapshots and state frames |
| Page: other panes | none that another part reads | detail, traffic, legend, tools | |
| Router start: `ci/rename-ifaces.sh`, `router-agent/agent-start.sh` | the names of the interfaces | park, rename by address, start the agent under supervision, run FRR | runs in each router's container |
| Bring-up: `ci/up.sh` | its clock, `all_ok` | compose up, one retry, rounds of `show bgp summary` until all is Established or the deadline passed | Docker, FRR |
| Check: `ci/check.sh` | `fails`, the kept answer, `last_id` | seven or eight kinds of rows, PASS or FAIL | Docker, FRR, `/api/state`, `/api/events` |
| `ci/bgp.py` | none | reads configurations, the topology file and JSON; exit codes 0, 1, 2 | called by both scripts |

What is hard here is not volume but order and absence:

- **`await` is where state changes hands.** `poll_all` suspends while it loads
  the inventory, while it reads the routers and at every frame it broadcasts;
  HTTP handlers run there and see its fields half way through a tick.
- **A router that was not read looks like one that has nothing.** Both are an
  empty dict. The diff, the signal and the graph each have rules for it, and
  the rules must cancel out over a failure and its recovery.
- **A frame is sent only when something moved.** State frames are skipped on
  quiet polls, so a page must never need the one it did not get; and a graph
  that waits for a frame to remove an edge waits for ever.
- **An event reaches a page on two roads** that overtake each other, under ids
  that start again when the process does.
- **The scripts look at a lab that moves.** A round of `vtysh` calls takes time,
  a session may be up for one call and down for the next, and a command that
  fails under `set -e` takes the rest of the script with it.
- **Sends are sequential.** A page that stops reading holds up the others and
  the next poll.

The properties that make each part correct:

- poller: ring and ids without a gap; published identity agrees with published
  state; a heartbeat on every tick; a listed router is polled.
- diff: events add up to the lab; nothing is told gone on no evidence.
- feed: after any history of breaks and restarts, a settled page holds what the
  ring holds; marks agree with the rows.
- graph: every session that was read is drawn; green means both ends; an edge goes
  only on the word of both ends, is held first, and goes without help.
- fan-out: a page misses no state, gets its snapshot first, and broken sockets
  are forgotten.
- agent: a connection's slot is given back once, and in the end; responses pair
  with requests.
- reading of a router: what is kept of an answer, and how long its body may take.
- start-up: each address ends on the interface the configuration names, in
  whatever order Docker attached the networks.
- bring-up: "converged" was seen, "not converged" is true, and it ends if its calls
  do.
- check: 0 FAIL if and only if the lab is up.

## Modules

| Module | Models | Source |
|---|---|---|
| `Selection` | a list comprehension with a condition, as a recursive function | bgp.py 23-29; poller.py 101, 301 |
| `Selection_proofs` | what it computes: the members that meet the condition, in their order; all, none, the end of a list | |
| `Readings` | the pure functions: what a poll may return, `_peers`, `_best_paths`, `_answered`, `_signature`, `_signal`, `_diff_events` | poller.py 303-640 |
| `Poller` (extends `Readings`, `Selection`) | `LabPoller` as one process, one action between two awaits | poller.py 38-301 |
| `RouterRead`, `RouterRead_proofs` | one reading of one router, over connections that are slow or broken; theorem about it | poller.py 303-372 |
| `MCPoller`, `MCListener` | the labs TLC checks | |
| `Ledger` | abstract: what an events pane promises | |
| `Listener` (extends `Poller`) | the poller and a page that has listened from the start; implements `Ledger` | poller.py, dashboard.js 94-111 |
| `Poller_proofs` | theorems about `Poller` and `Listener`, the refinement among them | |
| `EventFeed`, `MCFeed` | one page's events over sockets, fetches and restarts | dashboard.js 80-113, 780-875, 907-925; main.py 96-131 |
| `EventFeed_proofs` | theorems about `EventFeed` | |
| `TopologyGraph`, `MCTopologyGraph` | the graph and its vanish timer | dashboard.js 34-50, 119-278, 488-565 |
| `TopologyGraph_proofs` | theorems about `TopologyGraph` | |
| `Fanout`, `Fanout_proofs` | `clients`, `broadcast` and the handler of each socket; theorems about them | main.py 23-131 |
| `Slots` | abstract: a ceiling on how many hold something at once | |
| `Agent`, `MCAgent` | the connections of one agent and its restarts; implements `Slots` | agent.py 100-292, agent-start.sh 56-63 |
| `Agent_proofs` | theorems about `Agent` | |
| `BgpTool` (extends `Selection`) | the functions of `bgp.py` the scripts call | ci/bgp.py 23-302 |
| `RouterStart` (extends `BgpTool`) | the start of one router's container, as a function of its files and interfaces | rename-ifaces.sh, agent-start.sh 17-31, agent.py 294-319, the healthcheck |
| `Lab` (extends `RouterStart`) | what the scripts find: containers, sessions, the dashboard, and what may happen to them | bgp.py, lib.sh, main.py 71-112 |
| `BringUp` (extends `Lab`) | `up.sh` | up.sh 27-92 |
| `LabCheck` (extends `BringUp`), `MCLab` | `check.sh`, run when `up.sh` has ended | check.sh 5-258 |
| `LabCheck_proofs` | theorems about the renaming, `up.sh` and `check.sh` | |

The modules meet at the frames. `Poller` stops at the message it gives to
`broadcast`; `Fanout` starts there, with a poll reduced to a version number;
`Listener` composes the poller with a page that loses nothing, and `EventFeed`
takes the ring from the other side, as "the last `EVENTS_RING` ids of this
process", which is what `Poller!CatchUpAnswersTheGap` says of it.
`TopologyGraph` draws states after a snapshot, which `Fanout!SnapshotThenOnwards`
guarantees. To the poller an agent is what a poll may return: `Agent` shows that
it goes on answering, and `RouterRead` which of its answers end in time.
`LabCheck` runs the scripts in the order of `lab-ci.yml`, on a dashboard that is
reduced to what the two endpoints publish.

### Readings and Poller

A Python dict over fixed keys is a total function with `None` where the key is
missing. A reading is an error, or the two views events are drawn from, each
`None` when the agent's answer held no JSON. Of FRR's JSON the model keeps what
the code tells apart: a session's state, AS and one message counter; a prefix's
best next hop and one value for everything else about its paths. `NextHops` may
hold a value for a best path that names no next hop.

| Action | Code |
|---|---|
| `LoadNodes` | `nodes = await to_thread(self._load_nodes)`, adopted if not empty |
| `LoadRaises` | the same, where the file is YAML of another shape: `_topology_order` raises (214) and `run` ends the tick |
| `GatherUnchanged`, `GatherChanged` | everything from the gathered results to the first `broadcast`: the AS of each node, signal, signature, diff, `last_state` |
| `BroadcastState`, `BroadcastSignal`, `BroadcastEvent` | the three kinds of frame; `record_event` runs just before its own event is sent |
| `LosePoll` | a view of an unexpected shape raises, in the loop that notes each AS or right after it; `run` prints the exception and sleeps |
| `EditTopology` | someone edits the mounted file, at any time |

The file is read more than once in a tick: for the addresses, unless the environment
names them, and again for the order (98-99), with an edit possible between the two;
and once more by each thread that reads a router (304), which is why `Result` asks
whether any content of the file gives the router an address. An order that is empty
is read a third time (104); `FileIsRead` stands for the last of these.

Events of one poll are sent in the order `_diff_events` walks: routers in
inventory order, sessions of all before tables of all, gains before losses;
within that the order is the dict's and the model takes any. The model is
sequential where the code is, and nothing else writes the poller's fields.

### Listener and Ledger

`Listener` adds what a page keeps (`lastState`, `lastSignal`, and `told`: what
the events pane last said of each session and prefix) and two history variables
that record what routers answered (`heard`, `missed`). `missed` holds the views
that changed while the poller could not see them: after a failed poll the code
deliberately names no gains, so such a view is promised nothing. Everything
else is promised everything: `LogTellsTheLab`.

`Ledger` states the same without polls, frames or diffs: a world that is looked
at and told of, and no new look while something is left to tell. `Listener`
implements it under `seen <- heard`.

### EventFeed

Frames between the two ends of the page's socket are a queue; fetches are slots
with a `since`, a possible answer and whether `bootstrap` waits. `Answer` is the
server's handler, `AskAgain`/`TakeAnswer` are `catchUp` after its `await`, and
`AddNext` is the loop over the answer, during which no other handler of the page
starts. A socket may break with any prefix of its frames still to be handled; a
restart breaks it too, fails the fetches not answered and starts ids from 1.

The history variable `cost` holds what the page would have had of a fetch that
failed: "a failed catch-up costs history, not the live view" (dashboard.js:871)
is then a statement about every quiet page, `NothingLost`, and not only about
pages whose fetches all succeeded. It holds of failures and overlaps without a
restart and of a restart without them (run `feed`), and not of a restart whose
catch-up fails (run `live_swallowed`).

`SlowRestart` restricts a restart to one that finds nothing in flight from the
old process when the new one answers, which is how a container restart (seconds)
relates to a round trip (milliseconds). The types and `PaneMirrorsRendered` are
proved with restarts at any moment. `NothingLostAlways` assumes `GentleRestarts`: no restart, or one
slow restart with catch-ups that neither fail nor overlap. That is what the
budgets of run `feed` are; beyond it the claim is false, as `live_swallowed` and
the overlap described below show.

### TopologyGraph

A report lists a router's sessions in the order of the JSON, each with its address,
AS, state and what the neighbours view says of the peer. `Router` asks who that is by
router-id and then by AS. A peer that is nobody's is an outsider: its vertex is
entered once for each router-id, or address where there is none (`Key`), under the
name of the view that came first (`Externals`), while each edge ends at its own
view's name (`Label`). Where two outsiders share a router-id and differ in name,
which two down peers do at 0.0.0.0, an edge has no vertex at its end, and cytoscape
throws. `Refused` is the set of those edges. `Build` then leaves no graph, and
`Update` has added the vertices and drawn the edges up to the first that is refused
(`Earlier`, the order of the `edges` map), marked nothing, removed nothing and armed
nothing. `torn` records that the last redraw ended so.

An edge is the set of its two ends. `Update` is `updateGraph` whole: patch, mark,
remove, arm. Time is counted in ticks, the grace is `VANISHED_GRACE` ticks and
the timer fires one tick later, as the code adds 250 ms. A tick waits for a timer
that is due, so the timer is never late by a tick; browsers may be later, which
only makes edges stay longer.

`OnlyTwinsAreRefused` says where a redraw is lost and that otherwise every session is
drawn. `GreenMeansBothEnds` and `NoStaleEdge` are about a redraw that came to its end,
and `GoneEdgesLeave` excuses an edge while the last one did not.

### Fanout

A send writes its frame at once and then waits while the socket's buffer holds
`CAP` frames or more; it raises when the socket is lost. `Join` is one action
because nothing between `clients.add` and the snapshot's write suspends.
`Greeted` in a broken socket leaves the handler before its `try`, so only the
next broadcast removes that client.

### Agent and Slots

Each connection is a record: where its thread is, what has arrived, what its
client awaits, and whether it must close. `Refuse` and `Admit` are
`verify_request`; `StartThread` and `ThreadFails` are `process_request`, which
gives the slot back itself when no thread could be started; `NextRequest` looks
at the deadline, `ReadRequest` is the parse and the choice of method up to the
run of `vtysh` or the response, and `Release` is the `finally` of
`process_request_thread`, after the socket was shut down. A client that left,
is silent or reads nothing appears as `NoRequest` and `RespondFails`, which may
happen at any time. The bytes of a body stand in the stream as something that
could be read as a request. `Exit` ends the process at any point and `Restart` is the loop of
`agent-start.sh`. Statuses are left out: none changes what the handler does next.

`Slots` is a semaphore stated by who holds, not by how many. `Agent` implements
it under `holders <- Holding`, the connections let in and not ended, so that the
ceiling is shown of the connections and not only of the number `_open`.

### RouterRead

The clock counts from the start of the reading. An operation of a socket takes
any time up to `ExecTimeout`, or raises. `Opening` may repeat, once for each part
of the headers that arrives; `ReadChunk`, `ReadEnd` and `TooSlow` are the loop that looks at the deadline before
each `read1`. Of a chunked body one `read1` also reads the lines between two chunks
and the trailers, an operation each, and `ReadFraming` may repeat as often; `ReadErrorBody` is `exc.read()`. How the views make a reading is
`ReadingOf`: the third is allowed to fail.

### BgpTool, RouterStart, Lab, BringUp, LabCheck

A configuration is the sequence of its lines, each with its kind and value, and
the operators of `BgpTool` have the names of the functions of `bgp.py`. Their
results are the exit codes the scripts branch on: 0, 1, and 2 for a text in which
there is no JSON. Interfaces are a sequence in the order of `ip link show`;
`rename_ifaces` folds `Mapped` over the lines of the configuration, and a command
that fails ends it. A container's start is one step of `ComposeUp`, since nothing
else sees its interfaces before it is healthy; what it leaves is any of `Starts`,
over every order of attachment and every fault. Compose fails when a container is
not healthy, and is run once more.

| Action | Code |
|---|---|
| `ComposeUp` | `up_once`, and the recreation when it failed; the test for no expected peers |
| `BeginRound` | the clock is read, `all_ok=1` |
| `ReadNode` | `vtysh_json` and `summary-require` of one router |
| `EndRound` | success first, then the deadline |
| `Slept` | `sleep "$POLL"` |
| `CheckRunning` ... `CheckSince` | the sections of `check.sh`, one row each |

Sessions come and go, routers exit, the dashboard polls, records and restarts, and
its port may be taken by something else between any two of these. `Environment`
is external: FRR establishes a session when both ends speak for it, from an
interface it knows by the name in its configuration. A router knows the prefixes of those it is joined to
over sessions, its own and theirs (`Heard`): FRR's tables follow the sessions at
once. The calls of one section of
`check.sh` are one step; the property about what it reports is stated for a lab
that does not change meanwhile (`calm`). The two calls about `/api/events`, and
the answer of `/api/state` that two rows share, are steps of their own. `Isps` are
the routers whose name begins with isp, which are not asked for prefixes
(check.sh:134).

## What is checked

Bounds are constants named in each module; a step beyond one is not considered.

| Run | Lab | Shows |
|---|---|---|
| `poller` | three names, one with no usable address, one whose JSON may be ill-shaped; a file edited among three contents, one of them YAML of another shape; ring of 2, 3 events | `RingHoldsTheLast`, `CatchUpAnswersTheGap`: the ring overflows and every `since` is asked. `PublishedASNIsMeasured`, `KnownIdentityKept`: a router changes its AS, fails, is moved in the file. `HeartbeatEveryTick`: no tick ends without a signal of its own. `ListedRouterAppears` under `FairSpec` |
| `listener_diff` | one router, two session states, two next hops, either view missing, failed polls; 4 events | `LogTellsTheLab`, `WasIsWhatWasSaid`, `GoneOnlyWhenAnswered` |
| `listener_fleet` | two routers, the second leaving the inventory and returning; counters that rise and reset; 4 events | `PageDrawsLastSignature`, `PulsesJoin`, `ImplementsLedger` |
| `feed` | either three catch-ups at once, two broken sockets and two failed fetches, or a restart and a broken socket; 3 events, ring and pane of 2 | `PaneMirrorsRendered`, `NothingLost`; `PageSettles` under `FairSpec` |
| `graph` | two routers and two outsiders that are down under one router-id, one of them alone or both, before or after the session of the routers; inventories before and after the AS is known; grace of 2 | `OnlyTwinsAreRefused`, `GreenMeansBothEnds`, `HeldBeforeRemoved`; `GoneEdgesLeave` under `FairSpec` |
| `fanout` | two sockets, three versions, buffers of 2 frames | `SnapshotThenOnwards`, `JoinedPageIsCurrent`; `BroadcastReturns`, `BrokenLeaveClients` under `FairSpec` |
| `agent` | three connections from the management network and one from outside, two slots, one request ahead | `CountIsSlots`, `AnswersTheOldest`, `ImplementsSlots`; `EveryConnectionEnds` under `FairSpec` |
| `lab` | a provider and a company, the provider with a second network; eleven sets of files, right or flawed; four faults of a start; one trouble (a session, router, dashboard or port lost); deadline at 1 of 2 seconds; ring of 2, 3 events | `LinksAsConfigured`, `ConvergedWasSeen`, `GivesUpHonestly`, `CheckTellsTheLab`; `UpEnds` under `FairSpec` |

Why these are enough: the code treats routers, peers and prefixes one by one, so
one of each shows every comparison and two show what they share (the ring, the
order, the inventory). A ring and a pane of 2 overflow within 3 events; two
versions of a process and one overlap of fetches are what the page's rules tell
apart. Four events are two changes and their undoing. The feed's two budgets
keep restarts apart from catch-ups that fail or overlap, because the claim does
not hold where they meet: see below. Two outsiders under one router-id are the fewest a
redraw is lost of; drawn before the session of the routers they take it along, and
one alone leaves it. In the
lab a network with one session shows a parked name that is free and one that is
taken, in every order of attachment; the flaws of the files are those a branch of
the scripts is about: two addresses on one interface, an address nobody has,
names the other way round, no network, no AS, no configuration, no or another
topology, an agent without its settings. The deadline lies inside the clock, so
that a round can begin before it and end after it.

Five runs turn deadlock checking off, because the system may stop: in `feed` and
`live_swallowed` all events, drops and restarts a run allows are used up and the
lab is quiet; in `lab` and
`missing_row` both scripts have ended; in `wedged_read` the reading is done or
the clock has reached its bound. All other models run for ever.

**Fairness.** The poller's is `WF_vars(run)`: the event loop resumes `poll_all`,
every read of a router ends (for which routers, `RouterRead` says), and `run`
starts again after its sleep, also after an exception; a poll is never assumed to
be one that does not raise. The feed's: page and server handle what has arrived; nothing is
assumed of faults or events. The graph's: time passes and timers fire. The
fan-out's: runnable coroutines run, and a page that reads nothing fails its ping
(uvicorn's default) so its socket is lost; a page is never assumed to read. The
agent's: threads run and the clock reaches each deadline. A client owes nothing:
a read or a write without progress times out, and the length the HTTP server
allows a request bounds one that trickles in. The lab's: `up.sh` takes the steps that
are its own (`OwnStep`) and its clock goes on. Nothing is asked of FRR, Docker or the
dashboard, and so not of `ReadNode` or `ComposeUp` either: `docker exec ... vtysh`
(lib.sh:28, up.sh:67) has no timeout around it, and `--wait-timeout` (up.sh:27) bounds
the wait for health and not the call. `UpEnds` therefore says that `up.sh` ends or is
held by one call for ever. Strong fairness of the accepting
thread for each connection stands for the kernel's queue, first come first
served.

### Where the code and its words differ

Four runs end in a counterexample, each to a sentence of the repository:

- `live_swallowed`: dashboard.js:871 says a failed catch-up costs history and not
  the live view. After a restart it does: the page keeps the marks of the old
  process, and the first live events of the new one are suppressed by id (794).
- `stale_edge`: dashboard.js:537 says an edge no router reports is marked and
  dropped. An edge to a peer outside the inventory never is (551).
- `wedged_read`: poller.py:57-58 and 323-331 say that a dripping router cannot
  stall the poll. The deadline is looked at between two calls of `read1` only:
  headers that trickle in (336), the lines between the chunks of a chunked body (342),
  or the body of an error answer (358), hold the reading, and `poll_all` with it, as
  long as each operation returns something within the timeout. What does hold is
  `BodyIsBounded`, which is proved: the cap, for every body, and the deadline, for one
  that is not chunked.
- `missing_row`: check.sh:232-233 says a dead endpoint is a FAIL row and never a
  missing one. When the first call to `/api/events` fails, the row about `since` is
  never printed (214-217): one FAIL stands for the two rows that are owed.

Seen on the way and not kept as runs:

- Diff: README.md:50-52 promises an event for every transition. A change during
  one failed poll is in no event, and the pane goes on showing what it said
  before. The suppression is deliberate (poller.py:498-505); the promise is too
  wide, and `LogTellsTheLab` is what does hold.
- Poller and graph: a router whose first poll failed is never introduced
  (poller.py:506 with 503-505); a MED or community that changes without changing
  a best next hop does not reach an open page (464); a page that is open never
  learns of a new router as one of the lab, since state frames carry no `nodes`.
- A view of an unexpected shape costs every router its tick, for as long as it is
  answered, and leaves the AS of some nodes noted: the `try` around `_diff_events`
  (poller.py:275) cannot help, because `_signal` and `_signature` have read the
  view before it.
- Feed: dashboard.js:849 says a `lastId` below the page's id cannot come from the
  same process. It can, when the response was made before an event that the
  socket delivered first: the page forgets its marks and draws the ring again
  (857). A page whose first catch-up failed
  has no epoch, and notices a restart only from a lower `lastId` (855-857). Two
  catch-ups that overlap across a restart can leave kept events undrawn (842;
  with a budget of one restart and two fetches, `NothingLost` fails).
- Graph: dashboard.js:183-187 and 235-238 are there so that a peer outside the topology
  is drawn and not dropped. Two of them under one router-id (192) and of different names
  (193) end the redraw in an exception: two peers that are down at 0.0.0.0, or one router
  at two addresses that gives no hostname. The edges after them keep their colour, the
  marks and the timer are not looked at, `renderDetail` is not reached (103); if the
  page meets them at its start there is no graph (287). `OnlyTwinsAreRefused` says that
  nothing else does this.
- Agent: a connection may outlive its lifetime by one request, however slowly it
  arrives, since the deadline (agent.py:225) is looked at between requests only.
- Scripts: the pipeline of check.sh:188 has no guard under `set -e`, unlike line 234:
  should python fail there, the script ends within its sixth row. A topology that names no router passes
  "running=0/0" (check.sh:48), and a router that is first in the file
  and has no AS leaves no trace in `--expect-asns` (190). Other rows fail then, as
  `CheckAlwaysTellsTheLab` proves, unless that router is at no end of a session
  either (`NoneAside`): then no row looks for it. A router with a configuration but no session is asked
  with no peers, which argparse refuses, so the lab never converges (up.sh:74).
  When the links cannot be listed, `die` ends only the subshell (rename-ifaces.sh
  40, 56): nothing is parked and the script goes on. When
  a configuration wants an address on `eth0`, the management address keeps the
  name it was parked under; when it has an address under two interfaces, the last
  of them wins. `NamesLinks` excludes both.

## What is proved

| Theorem | For every | Says |
|---|---|---|
| `Poller_proofs!TypeCorrect` | set of routers, readings, topology files, ring size | `[]TypeOK` |
| `RingAlwaysHoldsTheLast` | | `[]RingHoldsTheLast` |
| `CatchUpAlwaysAnswersTheGap` | | `[]CatchUpAnswersTheGap` |
| `PublishedASNAlwaysMeasured` | | `[]PublishedASNIsMeasured` |
| `IdentityAlwaysKept`, `EveryTickBeats` | | `KnownIdentityKept`, `HeartbeatEveryTick` |
| `LogTellsTheLabAlways` | | `ListenerSpec => []LogTellsTheLab` |
| `WasIsWhatWasSaidAlways` | | `WasIsWhatWasSaid` |
| `GoneOnlyWhenAnsweredAlways` | | `GoneOnlyWhenAnswered` |
| `PageDrawsLastSignatureAlways` | | `[]PageDrawsLastSignature` |
| `PulsesAlwaysJoin` | | `PulsesJoin` |
| `ListenerImplementsLedger` | | `ListenerSpec => ImplementsLedger` |
| `RouterRead_proofs!BodyAlwaysBounded` | timeout, cap, clock | `[]BodyIsBounded`, under `ReadAssumption`, the types of these |
| `EventFeed_proofs!TypeCorrect` | ring, pane, set of budgets | `[]TypeOK` |
| `PaneAlwaysMirrorsRendered` | | `[]PaneMirrorsRendered` |
| `NothingLostAlways` | the same, under `GentleRestarts` | `[]NothingLost` |
| `TopologyGraph_proofs!TypeCorrect`, `GreenAlwaysMeansBothEnds` | inventories, reports, grace | `[]TypeOK`, `[]GreenMeansBothEnds` |
| `OnlyTwinsAreEverRefused`, `AlwaysHeldBeforeRemoved` | | `[]OnlyTwinsAreRefused`, `HeldBeforeRemoved` |
| `Fanout_proofs!TypeCorrect` | set of sockets, buffer, versions | `[]TypeOK` |
| `JoinedPageAlwaysCurrent`, `SnapshotThenAlwaysOnwards` | | `[]JoinedPageIsCurrent`, `[]SnapshotThenOnwards` |
| `Agent_proofs!TypeCorrect`, `CountIsSlotsAlways` | finite set of connections, ceiling, requests | `[]TypeOK`, `[]CountIsSlots` |
| `AnswersTheOldestAlways` | | `[]AnswersTheOldest` |
| `AgentImplementsSlots` | | `Spec => ImplementsSlots` |
| `LabCheck_proofs!TypeCorrect` | routers, networks, files, faults, ring, deadline | `[]TypeOK` |
| `LinksAlwaysAsConfigured` | the same, under `NamesLinks` | `[]LinksAsConfigured` |
| `ConvergedAlwaysWasSeen`, `AlwaysGivesUpHonestly` | | `ConvergedWasSeen`, `GivesUpHonestly` |
| `CheckAlwaysTellsTheLab` | the same, under `NoneAside` | `[]CheckTellsTheLab` |

**Assumptions.** Each module names what it assumes of its constants, and TLC
evaluates it on every run. Most are types. Those that say more: `None` is not
one of the values it stands beside (`NoneAssumption`, `SignatureAssumption`,
`SignalAssumption`, `SummaryAssumption`, parts of the others), which TLA+ does
not know and Python and JSON do; two routers share no address, and each is
attached to finitely many networks (`LabAssumption`); what a configuration calls
a neighbour is the other end of one of its links, and a configuration and the
topology file are finitely many lines (`FilesAssumption`). `TableAssumption` and
`DashboardAssumption` say of a table and of the dashboard's answers that they are
not `None`. Three theorems
have a hypothesis of their own, without which what they say is false:
`GentleRestarts`; `NamesLinks`, that a configuration neither names an
interface as the script parks them, nor `eth0`, nor puts one address under two
interfaces; and `NoneAside`, that a router whose configuration has no AS is at an
end of some session that a configuration expects. `MCLab` states that its files satisfy
the last two.

**Selection.** The answer to a catch-up, the inventory and the interfaces of a
configuration are each a list filtered by a condition. `SelectIs` says what that
computes, for every list: it holds of each prefix by the least-number principle
(`Least`, `Reach`), once the recursive function is known to exist
(`KeepingExists`). `EndSelected` adds that, in a list whose ids are consecutive,
what lies above a bound is the end of the list; `SelectAll` and `SelectNone` are the
two extremes, and by `LongSelected` a selection as long as the list without its
first m members, none of which it keeps, keeps all the others.

**Poller.** `RingHoldsTheLast` is inductive with the type of the log, and
`CatchUpAnswersTheGap` follows from it by `EndSelected`.
`PublishedASNIsMeasured` is not inductive: it needs that no router is listed twice
(`OneEntryEach`, or `Carried` could pick another entry) and that a router that
answered is listed (`AnsweredAreListed`, or one that comes back would meet an old
reading). It says nothing of the moments after a poll that raised, whose AS
numbers may be noted without its state; the next poll that does not raise
restores it, which is why `raised` stands in the invariant. `HeartbeatEveryTick` needs
`BeatsCounted`: the signal of a tick has been sent where its events are, and not
before. `IInv` joins these with the types.

**Listener.** The invariant that makes `LogTellsTheLab` inductive says, for views
that were not missed: what is pending is the difference between what was told
and what was heard (`ToldOrPending`), what is pending is right about the router
(`PendingRight`), what was heard is the last answer (`HeardRight`), and an
event's `was` is what was told (`WasRight`). The argument turns on
`EventsAreRead`: a gain is named only against a view that was read, so a
suppressed gain is a view that was either unchanged or is now in `missed`.
`PulsesJoin` rests on `PulseInv`: the last signal the page was sent holds a sample
of every session of the last poll (`Samples`), or the signal that is about to be
sent does and is measured from the page's (`Joins`), also when the state frame
was skipped.
The refinement maps `HearPoll` to `Look`, `HearEvent` to `Tell` and every other
step to a stutter.

**RouterRead.** `BodyIsBounded` is inductive with the types: an operation takes at
most the timeout, and of a body that is not chunked each operation follows a look at
the clock.

**EventFeed.** `PaneMirrorsRendered` is inductive with the types: a line that is drawn has an id not yet marked, the line
that is pruned carries the only mark of its id, and forgetting unnumbers all
lines at once. (`PaneInv` also keeps every mark below the high-water mark, `HighWater`.) `NothingLost` needs to know where each kept event is that is not
drawn or paid for: in the answer that is being added, within what a fetch in flight
will bring (`Secured`), or behind an `onopen` or a frame still to come
(`Upcoming`). Then: no kept event the page will not ask for again is unsecured
(`PassedAreSecured`), none is forgotten altogether (`NothingForgotten`), and a frame
is preceded by what it would make the page pass over (`InOrder`). These hold of a
page that knows the process it talks to (`Knows`); after the one gentle restart a
page may not know it yet, but then it will be told (`Learns`). Frames and answers
are of the process that runs (`LinkInv`), which is where a slow restart is used.

**TopologyGraph.** The invariant is about the picture. Whatever became of the last
redraw, each drawn edge has its two vertices and a time since its mark only if it is
vanished (`GraphRight`); if it came to its end, the picture is that of the list and the
reports (`PictureRight`); if not, two outsiders under one router-id differ in name
(`TwinsDiffer`). The last is a claim about `Externals`: where no two outsiders differ so,
the name of each is that of the first view under its key, which is entered, so that no
edge is refused. The first view exists because the views of a state are finitely many
and ordered. `HeldBeforeRemoved` follows: what a redraw takes away is gone and past its
grace, and a refused one takes nothing.

**Fanout.** Of one page, `UpToDate` says that what it draws, or the last of the
frames it has yet to draw, is the poller's version, and `Onwards` that versions
never fall along the queue. `Views` asks `Onwards` of every open page, and `UpToDate` of
those a broadcast under way has reached or did not have to (`Told`); `Kept`
ties `clients`, `dead`, `targets` and the handlers together, without which a
page could be open and not be sent to. A socket that joins in the middle of a
broadcast is not among its targets and needs none of it: its snapshot is newer.

**Agent.** `CountIsSlots` needs two facts more to be inductive: the accepting
thread's connection has its slot (`TakenVerified`, or `ThreadFails` could give
back what nobody took), and the count is within the ceiling, which `Admit`
keeps because the test and the increment are one step. `Moves` disposes of the
steps that change no holder; `OneMoreHolder` and `OneHolderLess` count the
others. `AgentImplementsSlots` comes out of the same case split.
`AnswersTheOldest` relates the bytes that arrived to the requests their client
awaits (`Paired`): the two agree up to the first request with a body
(`Aligned`); past it the bytes of the body could be read as requests, and by then
the connection must close.

**Renaming and scripts.** `IInv` is `LabTyped /\ Sessions /\ UpInv /\ CheckInv`.
A session is Established only if both ends can speak for it (`Sessions`), which the
start of a container, the loss of a router and `Establish` each keep.
`LinksAsConfigured` is a claim about a fold over the lines of a configuration, proved by
induction over the lines: `Along` says that the links of the first k lines are
where they are wanted (`Placed`), that what is not parked is where some line
wanted it (`Named`, so a name that is taken is taken by another address of the same
interface, a `Clash`), and that addresses never move. Parking comes first, so
that no name is in the way (`BeganAlong`), and what one link is left over is given
`eth0` (`Finished`). `Made` carries this over the life of the container.
`ConvergedWasSeen` and `GivesUpHonestly` come from `Asked`: a round that still says
`all_ok` has seen every session of the routers it has asked; and a round whose
clock was read past the deadline still says so if all sessions were up before it,
because none of its answers can have lacked one.

`CheckTellsTheLab` is proved in two halves. `Telling` is an invariant beside `IInv`:
of a calm lab, each row that is printed is OK just when what it is about is the
case (`Tells`: `RoutersRun`, `SessionsStand`, `AddressesSit`, `PrefixesKnown`,
`Answers`, `NamesTold`), the first call about events left an id of an event the
dashboard has recorded, and the second was answered with it unless the ring had
dropped it (`TellsEvents`). One lemma per row says so (`RunningTells` to
`SinceTells`), from what the tool answers (`RequireOneSays`, `TableSays`,
`DashboardSays`, `EventsSay`); between rows only a poll that reads what had been
read may happen (`QuietTells`). The other half is about one state: those facts
together are `LabUp` (`RowsSayUp`, `UpSaysRows`). Only the row about AS numbers makes
that hard, because it compares two shortened lists. The dashboard's leaves out the AS it
does not know, and what it knows is what the configuration says or nothing
(`DashRight`); the expected one leaves out those missing at the front. Were m missing
at the front, m routers without an AS come first; `NoneAside` puts the first of
them at an end of an Established session, where `SpokenFor` says it has one. So
m is 0, the lists have the length of the lab, and `LongSelected` makes every AS known.

**Model-checked only.** Liveness (`ListedRouterAppears`,
`PageSettles`, `GoneEdgesLeave`, `BroadcastReturns`, `BrokenLeaveClients`,
`EveryConnectionEnds`, `UpEnds`): the prover does not do fairness.

## What is not modelled

- `event_ts`, the wording of events, and the parsing of addresses and networks
  (`Refused` and `Permitted` stand for what it refuses and allows).
- The panes that only render: detail, traffic, legend, graph tools, styles.
- FRR, Docker, Cytoscape, uvicorn: external; modelled by what the code uses.
- Of the agent: the counters of refusals, the text of responses, the iptables
  rules of `agent-start.sh`, a second layer over the allow-list.
- Of the scripts: what they print, `summary-dump` and `peer-states` of `bgp.py`,
  which no script calls, argument parsing; a docker command that fails by itself
  in `check.sh`, and a configuration that python cannot read, which ends both scripts
  where it is met (up.sh:42, check.sh:188); the time FRR takes to pass a prefix on. `down.sh` is one command,
  and the document tools take screenshots.

## Plan

Done, in this order: `Readings`, `Poller`, `Ledger` and `Listener`, `EventFeed`,
`TopologyGraph`, `Fanout`, `Slots` and `Agent`, with the theorems above; then
the polls that raise, the cost of failed fetches, `RouterRead`, and the scripts:
`BgpTool`, `RouterStart`, `Lab`, `BringUp`, `LabCheck`.

Then the theorems: every safety invariant and action property of the runs, last
`CheckTellsTheLab`, for which the lists of `bgp.py` and of the dashboard became
filters the prover can reason about (`Select`), and the tables and answers of the
lab operators of their own (`RoutesOf`, `StateOf`, `EventsOf`).

What could follow: the time FRR takes between a session and its prefixes, which
`CheckTellsTheLab` would then have to wait out; a router's counters of refused
connections; the panes of the page, if one of them came to keep state.
