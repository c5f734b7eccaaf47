SPECIFICATION FairSpec
CONSTANTS
  f1 = f1
  f2 = f2
  m1 = m1
  p1 = p1
  p2 = p2
  h1 = h1
  h2 = h2
  g1 = g1
  g2 = g2
  None = None
  Fiber = {f1, f2}
  Main = {m1}
  Interruptible = {f2}
  Timed = {f2}
  Cond = {1, 2}
  MutexOf <- MCMutexOf
  Mode <- MCMode
  Owner = {p1, p2}
  Futures = {h1, h2}
  Shared = {g1, g2}
INVARIANTS OwnerRemains WaitersUnready FreedQuiet OneFuture
PROPERTIES ImplementsOneShot CallReturns
CHECK_DEADLOCK FALSE
