CONSTANTS
  None = None
  Routers = {r1, r2, r3}
  PeerIPs = {p1}
  SessionStates = {"Established"}
  ASNs = {65001, 65002}
  Routes = {x1}
  NextHops = {h1}
  Details = {d1}
  Errors = {timeout}
  ROUTERS = {}
  Refused = {r3}
  Topologies <- EditedTopologies
  Alphabetical <- ByName
  Readable <- FleetReadable
  IllShaped = {r1}
  EVENTS_RING = 2
  MaxEventId = 3
SPECIFICATION FairSpec
INVARIANTS TypeOK RingHoldsTheLast CatchUpAnswersTheGap PublishedASNIsMeasured
PROPERTIES KnownIdentityKept HeartbeatEveryTick ListedRouterAppears
