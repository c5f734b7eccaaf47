SPECIFICATION Spec
CONSTANTS
  f1 = f1
  f2 = f2
  f3 = f3
  Fiber = {f1, f2, f3}
  Main = Main
  None = None
  TPMax = 9
  MaxTime = 2
  WaitInterval = 1
  Deadline = {1, 9}
  Call = {"sleep", "disable"}
  Joiner = {f1, f2, f3}
  Interrupted = {"body", "sleep", "join"}
SYMMETRY FiberSymmetry
INVARIANTS
  OnlyJoinFails
  Placement
  QueueOrdered
PROPERTIES
  SleepNotEarly
CHECK_DEADLOCK FALSE
