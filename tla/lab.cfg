CONSTANTS
  None = None
  Routers <- TwoRouters
  Alphabetical <- ByName
  Isps <- Transit
  Attached <- Addresses
  Mgmt <- Management
  Opposite <- OtherEnd
  Files <- ProjectFiles
  Faults <- StartFaults
  EVENTS_RING = 2
  MaxEventId = 3
  MaxTrouble = 1
  DEADLINE = 1
  MaxTime = 2
SPECIFICATION FairSpec
INVARIANTS TypeOK LinksAsConfigured CheckTellsTheLab
PROPERTIES ConvergedWasSeen GivesUpHonestly UpEnds
CHECK_DEADLOCK FALSE
