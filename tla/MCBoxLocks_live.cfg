CONSTANTS
  s1 = s1  s2 = s2  s3 = s3  None = None
  Proc = {s1, s2, s3}
  Exclusive = {}
  Portal = {}
  MaxCrashes = 1
SPECIFICATION Spec
PROPERTY LiveLockNeverRemoved
