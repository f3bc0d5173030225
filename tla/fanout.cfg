CONSTANTS
  None = None
  Sockets = {s1, s2}
  CAP = 2
  MaxVersion = 3
SPECIFICATION FairSpec
INVARIANTS TypeOK SnapshotThenOnwards JoinedPageIsCurrent
PROPERTIES BroadcastReturns BrokenLeaveClients
