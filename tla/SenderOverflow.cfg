SPECIFICATION FairSpecSaveFails
CONSTANTS
  Producers = {p1, p2}
  Owner = p1
  Runner = r
  MaxFaults <- Unlimited
  MaxQueued = 1
  Chunks = 1
  PeerReachable = TRUE
  MapMayFail = TRUE
  MaxMessages = 3
  MaxRange = 2
  MaxStarts = 1
  MaxStops = 1
  MaxCrashes = 0
INVARIANTS
  TypeOK
  BufferOwnedOnce
  QueueInOrder
PROPERTIES
  DeliversAtMostOnce
  StopReturns
CHECK_DEADLOCK FALSE
