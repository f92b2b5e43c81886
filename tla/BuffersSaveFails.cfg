SPECIFICATION SpecSaveFails
CONSTANTS
  Buffer = {b1, b2, b3}
  Header = header
  Null = null
  Producers = {p1}
  Consumers = {}
  Runner = r
  MaxQueued = 1
  Allocation = 2
  MaxRange = 2
INVARIANTS
  EveryBufferOnce
CHECK_DEADLOCK FALSE
