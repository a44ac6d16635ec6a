CONSTANTS
  e1 = e1  s1 = s1  s2 = s2  None = None
  Proc = {e1, s1, s2}
  Exclusive = {e1}
  Portal = {s2}
  MaxCrashes = 1
SPECIFICATION FairSpec
INVARIANTS BoxCapacity
PROPERTIES OwnersKeepLocks ExclusiveNotStarved
