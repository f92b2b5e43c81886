SPECIFICATION Spec
CONSTANTS
  Producers = {p1}
  Owner = p1
  Runner = r
  MaxFaults <- Unlimited
  MaxQueued = 1
  Chunks = 1
  PeerReachable = TRUE
  MapMayFail = FALSE
  MaxMessages = 3
  MaxRange = 2
  MaxStarts = 1
  MaxStops = 1
  MaxCrashes = 0
INVARIANTS
  NoMessageLost
CHECK_DEADLOCK FALSE
