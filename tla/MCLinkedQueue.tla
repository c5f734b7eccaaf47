--------------------------- MODULE MCLinkedQueue ---------------------------
(* Instances of LinkedQueue for TLC. *)
EXTENDS LinkedQueue, TLC

FiberSymmetry == Permutations(Fiber)
=============================================================================
