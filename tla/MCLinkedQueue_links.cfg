SPECIFICATION Spec
CONSTANTS
  Fiber = {f1, f2, f3, f4}
  Null = Null
  Owner = owner
  Remote = {}
  Deadline = {1, 2, 9}
  TPMax = 9
  MaxTime = 2
SYMMETRY FiberSymmetry
INVARIANTS
  LinksDenoteQueue
  AwakenedFirst
