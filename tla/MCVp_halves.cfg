SPECIFICATION Spec
CONSTANTS
  i = i
  j = j
  Items = {i, j}
  None = None
  RoundCap = 2
  FailCap = 2
  TurnFaults = 2
  Room <- MCRoom
  Ways <- MCWays
  ProofSlots = 1
  UnionSlots = 2
  InfraCap = 2
  MaxUnions = 3
  MaxProofs = 3
  MaxRounds = 1
  MaxOps = 1
  MaxFaults = 1
  MaxCrashes = 1
  MaxResumes = 1
  MaxRuns = 2
  MaxMessages = 2
  MaxSlips = 1
  
PROPERTIES  ApprovedAsReviewed 
CHECK_DEADLOCK FALSE
