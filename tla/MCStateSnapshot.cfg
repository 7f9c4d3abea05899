SPECIFICATION Spec
CONSTANTS
  Readers = {r1, r2}
  Words = {w1, w2}
  NoReader = NoReader
  MaxPublish = 3
INVARIANTS
  SlotOwnership
  NoTornRead
  LatestReachable
PROPERTIES
  ImplementsRegister
  PublishWaitFree
  ReadWaitFree
CHECK_DEADLOCK TRUE
