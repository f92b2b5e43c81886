SPECIFICATION Spec
CONSTANTS
  Object = {a, b}
  TextSets <- MCTextSets
  Ports = {0, 7}
  Sizes = {1, 2, 5, 6, 7, 11, 12, 15, 16, 107, 108, 109}
  MaxOps = 3
SYMMETRY Symmetry
CHECK_DEADLOCK FALSE
INVARIANTS
  BuildsDenoted
  RoundTrip
  AcceptedIsPeer
  FormatFits
  EqualityAgrees
  TypedAgrees
