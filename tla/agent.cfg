CONSTANTS
  None = None
  a = a
  b = b
  c = c
  x = x
  Conns = {a, b, c, x}
  Permitted = {a, b, c}
  MAX_CONNECTIONS = 2
  Requests <- MCRequests
  MaxPipelined = 1
SPECIFICATION FairSpec
INVARIANTS TypeOK CountIsSlots AnswersTheOldest
PROPERTIES ImplementsSlots EveryConnectionEnds
