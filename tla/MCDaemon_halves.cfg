SPECIFICATION DaemonSpec
CONSTANTS
  i1 = i1  i2 = i2  i3 = i3  x = x
  Queue <- MCQueue  Execs = {x}  Tree <- MCTree  Deps <- MCDeps  Box = {i1}  PlanReview = TRUE
  MaxFeed = 1  MaxAuto = 1  MaxParks = 2  MaxReworks = 1  MaxTurns = 2  MaxTrouble = 1
  g1 = g1  g2 = g2  z1 = z1  NSlots = 2  Go = {g1, g2}  Zen = {z1}  Named <- NoName  Route <- Routes  CodexTrouble = 1
 
PROPERTIES BookedOnce AccountStays 
CHECK_DEADLOCK FALSE
