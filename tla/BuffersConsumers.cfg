SPECIFICATION Spec
CONSTANTS
  Buffer = {b1, b2, b3}
  Header = header
  Null = null
  Producers = {p1}
  Consumers = {c1}
  Runner = r
  MaxQueued = 1
  Allocation = 2
  MaxRange = 2
INVARIANTS
  TypeOK
  RingIntact
PROPERTIES
  ImplementsQueue
