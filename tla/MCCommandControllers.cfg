SPECIFICATION Spec
CONSTANTS
  Timeout = 2
  MaxMessage = 3
INVARIANTS TwistStops
PROPERTIES FreshTwist NeverBack
