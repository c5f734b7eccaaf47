SPECIFICATION Spec
CONSTANTS
  f1 = f1
  f2 = f2
  m1 = m1
  lock = lock
  Fiber = {f1, f2}
  Main = {m1}
  Interruptible = {f1}
  Timed = {f2, m1}
  Cond = {cond}
  MutexOf <- MCMutexOf
  None = None
  Party <- MCParty
  Size = {1, 2, 3}
  MaxTurn = 3
INVARIANT Unblocked
CHECK_DEADLOCK FALSE
