CONSTANTS
  None = None
  SlowRestart = TRUE
  EVENTS_RING = 2
  ROWS = 2
  MaxEvents = 3
  MaxFetches = 3
  Budgets <- BreaksOrRestarts
SPECIFICATION FairSpec
INVARIANTS TypeOK PaneMirrorsRendered NothingLost
CHECK_DEADLOCK FALSE
PROPERTIES PageSettles
