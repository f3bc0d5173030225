CONSTANTS
  None = None
  SlowRestart = TRUE
  EVENTS_RING = 2
  ROWS = 2
  MaxEvents = 3
  MaxFetches = 1
  Budgets <- RestartAndFailure
SPECIFICATION Spec
INVARIANTS NothingLost
CHECK_DEADLOCK FALSE
