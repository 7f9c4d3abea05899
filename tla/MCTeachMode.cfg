SPECIFICATION Spec
CONSTANT
  MaxPos = 3
INVARIANTS
  SegmentStartsHere
PROPERTIES
  SmoothMotion
  ImplementsProtocol
  ReturnCompletes
  RequestFollowed
