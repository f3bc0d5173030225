CONSTANTS
  None = None
  Routers = {"r1", "r2"}
  Unnamed <- PeerName
  SessionStates = {"Established", "Idle"}
  Inventories <- SomeInventories
  Reports <- TwoReports
  VANISHED_GRACE = 2
SPECIFICATION Spec
INVARIANTS NoStaleEdge
