CONSTANTS
  None = None
  Routers = {r1, r2}
  PeerIPs = {p1}
  SessionStates = {"Established"}
  ASNs = {a1}
  Routes = {x1}
  NextHops = {h1}
  Details = {d1}
  Errors = {timeout}
  ROUTERS = {}
  Refused = {}
  Topologies <- ShrinkingTopologies
  Alphabetical <- ByName
  Readable <- FleetReadable
  IllShaped = {r1}
  EVENTS_RING = 1
  MaxEventId = 4
SPECIFICATION ListenerSpec
INVARIANTS PageDrawsLastSignature
PROPERTIES PulsesJoin ImplementsLedger
