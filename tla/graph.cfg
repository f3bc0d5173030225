CONSTANTS
  None = None
  Routers = {"r1", "r2"}
  Unnamed <- PeerName
  SessionStates = {"Established", "Idle"}
  Inventories <- SomeInventories
  Reports <- TwoReports
  VANISHED_GRACE = 2
SPECIFICATION FairSpec
INVARIANTS TypeOK GreenMeansBothEnds OnlyTwinsAreRefused
PROPERTIES HeldBeforeRemoved GoneEdgesLeave
