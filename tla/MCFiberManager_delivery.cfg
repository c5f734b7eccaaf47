SPECIFICATION FairSpec
CONSTANTS
  f1 = f1
  f2 = f2
  Fiber = {f1, f2}
  Main = Main
  None = None
  TPMax = 9
  MaxTime = 1
  WaitInterval = 1
  Deadline = {9}
  Call = {"sleep"}
  Joiner = {f1}
  Interrupted = {"body", "join"}
PROPERTIES
  InterruptDelivered
CHECK_DEADLOCK FALSE
