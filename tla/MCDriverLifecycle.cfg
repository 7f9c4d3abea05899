SPECIFICATION Spec
CONSTANT
  MaxRuns = 2
INVARIANTS
  SingleProducer
  StoppedWhenInactive
  NoStaleHeartbeat
  DiesForKnownReasons
PROPERTIES
  CloseCompletes
  ShutdownStopsThreads
  ShutdownEndsActivation
