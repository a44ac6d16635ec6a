SPECIFICATION Spec
CONSTANTS
  i1 = i1
  i2 = i2
  i3 = i3
  x = x
  Queue <- MCQueue
  Execs = {x}
  Tree <- MCTree
  Deps <- MCDeps
  Box = {i1}
  PlanReview = TRUE
  MaxFeed = 1
  MaxAuto = 1
  MaxParks = 2
  MaxReworks = 1
  MaxTurns = 2
  MaxTrouble = 1
PROPERTIES StopsAreRetried
CHECK_DEADLOCK FALSE
