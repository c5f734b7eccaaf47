SPECIFICATION FairSpec
CONSTANTS
  f1 = f1
  f2 = f2
  f3 = f3
  Fiber = {f1, f2, f3}
  Main = Main
  None = None
  TPMax = 9
  MaxTime = 1
  WaitInterval = 1
  Deadline = {1, 9}
  Call = {"sleep", "detach"}
  Joiner = {f1, f2, f3, Main}
  Interrupted = {}
INVARIANTS
  TypeOK
  ScanComplete
  NoDangling
  JoinersKnown
PROPERTIES
  ReadyRuns
  SleeperWakes
  JoinCompletes
