SPECIFICATION Spec
CONSTANTS
  Producers = {p1, p2}
  Owner = p1
  Runner = r
  MaxFaults <- Unlimited
  MaxQueued = 1
  Chunks = 1
  PeerReachable = FALSE
  MapMayFail = FALSE
  MaxMessages = 4
  MaxRange = 2
  MaxStarts = 1
  MaxStops = 1
  MaxCrashes = 0
INVARIANTS
  DistinctNames
CHECK_DEADLOCK FALSE
