SPECIFICATION FairSpec
CONSTANTS
  Producers = {p1, p2}
  Owner = p1
  Runner = r
  MaxFaults = 3
  MaxQueued = 4
  Chunks = 2
  PeerReachable = TRUE
  MapMayFail = FALSE
  MaxMessages = 4
  MaxRange = 3
  MaxStarts = 1
  MaxStops = 0
  MaxCrashes = 0
INVARIANTS
  FramingIntact
PROPERTIES
  DeliversInOrder
  EventuallyDelivered
