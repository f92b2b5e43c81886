SPECIFICATION FairSpec
CONSTANTS
  Senders = {c}
  Others = {o}
  Descriptor = {0}
  Record = 2
  Room = 1
  MaxWaiting = 2
  MaxUnits = 3
INVARIANTS
  TypeOK
  SecureWhenUsed
  ResourcesOwned
  RecordsWhole
  ShutdownIsTrue
PROPERTIES
  OperationsReturn
