\* two commands, two runs, kills at any point
SPECIFICATION FairSpec
CONSTANTS
  Procs = {p1, p2}
  Chiefs = {A}
  Event = Event
  None = None
  MaxRuns = 2
  MaxVerbs = 2
  MaxCrashes = 2
INVARIANTS OnlyCommitted
PROPERTIES Implements Repaired
