SPECIFICATION FairSpec
CONSTANTS
  Buffer = {b1, b2, b3, b4}
  Header = header
  Null = null
  Producers = {p1, p2}
  Consumers = {}
  Runner = r
  MaxQueued = 1
  Allocation = 2
  MaxRange = 2
INVARIANTS
  EveryBufferOnce
PROPERTIES
  QueueIsTaken
