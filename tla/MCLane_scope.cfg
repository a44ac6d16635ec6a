CONSTANTS
  a = a  b = b
  Rounds = 2  MaxHeads = 4  MaxSlips = 2
  Member = {a, b}  Clash <- Clashes  ExcludeMax = 2  MaxVersions = 2  MaxUnions = 3  MaxMoves = 2  MaxFaults = 1
  T1 = T1  T2 = T2  T3 = T3  T4 = T4  fx = fx  fy = fy
  Asker = {T1, T2, T3, T4}  File = {fx, fy}  Wants <- Scopes  FilesOf <- Owned  Touched <- Changed
  FullCap = 1  OnlyCap = 1  DailyCap = 2  BoxSlots = 0  Host = {1}  MaxAsks = 2  MaxFlips = 2  MaxCrashes = 1
  h = h  p = p  q = q  hb = hb  qb = qb  TwinRow = {h, p, q}  Circle = {h, p}  Canary = h  Platform = {fx}  NeedsAll = {}  Owes = {"B"}
  ParentOf <- Parents  RowsOf <- OwnRows  TestPaths <- Paths  Named <- NoTests  MaxRetries = 1  MaxTrouble = 1  MaxEdits = 2
  i = i  j = j  Items = {i, j}  None = None  Lane = Lane  MaxWait = 1  MaxRuns = 2  MaxCommits = 2  MaxKills = 1
SPECIFICATION LaneSpec
CHECK_DEADLOCK FALSE
INVARIANT FullPassIsFull
