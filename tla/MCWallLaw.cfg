SPECIFICATION LawSpec
CONSTANTS
  Configs <- JointConfigs
  Speeds <- JointSpeeds
  Tasks <- JointTasks
  Mapped <- Wrenches
  Intervals = {1, 2}
INVARIANTS WithinCaps
PROPERTIES StartsGently OnlyNewWallCuts
