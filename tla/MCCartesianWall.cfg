SPECIFICATION Spec
INVARIANTS OneCycleLate NoDelayedStart
PROPERTIES LossNeedsStart StopFollowed
