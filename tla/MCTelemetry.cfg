SPECIFICATION Spec
CONSTANTS
  ClockJump = 1
  Restart = 2
  PerSecond = 2
  MaxAge = 2
  Depth = 2
  Horizon = 3
  Packets = 3
  Steps = 2
INVARIANTS NeverInFuture VelocityOfState
PROPERTIES OncePerPacket StepStartsSegment
CHECK_DEADLOCK FALSE
