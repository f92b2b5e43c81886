SPECIFICATION FairSpec
CONSTANTS
  Producers = {p1}
  Owner = p1
  Runner = r
  MaxFaults = 1
  MaxQueued = 3
  Chunks = 2
  PeerReachable = TRUE
  MapMayFail = FALSE
  MaxMessages = 3
  MaxRange = 2
  MaxStarts = 3
  MaxStops = 2
  MaxCrashes = 1
INVARIANTS
  NoMessageLost
  QueueSavedAtExit
PROPERTIES
  DurableUntilDelivered
  FilesEventuallySent
CHECK_DEADLOCK FALSE
