SPECIFICATION FairKindsSpec
CONSTANTS
  t1 = t1
  t2 = t2
  f1 = f1
  f2 = f2
  f3 = f3
  Thread = {t1, t2}
  Fiber = {f1, f2, f3}
  Home <- MCHome
  None = None
  Caller = {t1, t2, f1, f2, f3}
  Interruptible = {f1, f3}
  Mode <- MCMode
  MaxCount = 2
INVARIANTS
  OwnedByOne
  WaitersCalling
  WakeupsKept
  KindsAsserts
PROPERTIES
  KindsImplementLock
  FreeIsTaken
  
CHECK_DEADLOCK FALSE
