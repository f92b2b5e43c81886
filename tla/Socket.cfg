SPECIFICATION FairSpec
CONSTANTS
  Object = {s1, s2}
  Descriptor = {0, 1}
  Size = 2
  Room = 1
  MaxWaiting = 1
INVARIANTS
  TypeOK
  DescriptorsOwned
  ConnectIsTrue
  SendsPrefix
PROPERTIES
  OperationsReturn
