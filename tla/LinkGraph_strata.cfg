SPECIFICATION Spec
CONSTANTS
  N = 4
  MaxLinks = 5
  Graphs <- SmallGraphs
INVARIANTS TypeOK ComponentsAreCycles StrataAreLongestPaths LinksClimb
PROPERTIES Terminates EveryStepAdvances
CHECK_DEADLOCK FALSE
