CONSTANTS
  None = None
  ExecTimeout = 2
  MAX_RESPONSE_BYTES = 2
  MaxClock = 14
SPECIFICATION Spec
INVARIANTS NoRouterStallsThePoll
CHECK_DEADLOCK FALSE
