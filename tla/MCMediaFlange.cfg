SPECIFICATION Spec
CONSTANTS
  NJoints = 2
  FriMajor = 1
  Descriptions <- MCDescriptions
INVARIANTS DeclaredAreExported NoCallWithoutService
PROPERTIES NoRequestLost RequestReachesRobot StopEnds
CHECK_DEADLOCK FALSE
