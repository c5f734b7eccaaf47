--------------------------- MODULE MCFiberManager ---------------------------
(* Instances of FiberManager for TLC. *)
EXTENDS FiberManager, TLC

FiberSymmetry == Permutations(Fiber)
=============================================================================
