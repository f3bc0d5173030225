CONSTANTS
  None = None
  Routers = {r1}
  PeerIPs = {p1}
  SessionStates = {"Established", "Active"}
  ASNs = {a1}
  Routes = {x1}
  NextHops = {h1, h2}
  Details = {d1}
  Errors = {timeout}
  ROUTERS = {r1}
  Refused = {}
  Topologies <- OneTopology
  Alphabetical <- ByName
  Readable <- DiffReadable
  IllShaped = {r1}
  EVENTS_RING = 1
  MaxEventId = 4
SPECIFICATION ListenerSpec
INVARIANTS LogTellsTheLab
PROPERTIES WasIsWhatWasSaid GoneOnlyWhenAnswered
