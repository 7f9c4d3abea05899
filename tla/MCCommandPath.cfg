SPECIFICATION Spec
CONSTANTS
  Joints = {j1, j2}
  MaxPos = 3
  MaxLimit = 2
  MaxStep = 1
  Targets = {0, 3}
  OpenLoops = {TRUE, FALSE}
INVARIANTS
  SentWithinAsked
  WaitMirrorsRobot
PROPERTY
  HoldsWithoutTarget
SYMMETRY Symmetry
CHECK_DEADLOCK FALSE
