SPECIFICATION Spec
CONSTANTS
  p1 = p1
  p2 = p2
  c1 = c1
  c2 = c2
  Fiber = {p1, p2, c1}
  Main = {c2}
  Interruptible = {}
  Timed = {p2, c2}
  Cond = {"not_empty", "not_full"}
  MutexOf <- MCMutexOf
  None = None
  Mode <- MCMode
  Producer = {p1, p2}
  Consumer = {c1, c2}
  Closer = {p1}
  MaxPush = 3
INVARIANTS
  PopDocumented
CHECK_DEADLOCK FALSE
