CONSTANTS
  b1 = b1  b2 = b2  rv = rv  opencode = opencode  codex = codex
  Task = {b1, b2, rv}
  Runner = {opencode, codex}
  RunnerOf <- Runs
  PathOf <- Owned
  Late = {b2, rv}
  Gated = {b1}
  MaxTasks = 2
  RunnerMax = 1
  FailCap = 2
  MaxAttempts = 2
  MaxFaults = 3
  MaxOps = 2
  MaxCrashes = 1
SPECIFICATION Spec_Starts
INVARIANTS SlotsMatchThreads
PROPERTIES  ReloadIsApplied GradesStay
