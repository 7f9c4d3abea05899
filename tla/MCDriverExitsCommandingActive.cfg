SPECIFICATION Spec
CONSTANT
  MaxRuns = 2
PROPERTY
  ExitsCommandingActive
