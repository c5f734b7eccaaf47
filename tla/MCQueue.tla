------------------------------ MODULE MCQueue ------------------------------
(* Instances of Queue for TLC. *)
EXTENDS Queue

CONSTANTS p1, p2, c1, c2

MCMutexOf == [k \in Cond |-> IF k = "not_empty" THEN "head" ELSE "tail"]

Use(us, k, h, l, use) ==
  [users |-> us, kind |-> k, hwm |-> h, lwm |-> l, threads |-> "threads" \in use,
   tries |-> "tries" \in use, throws |-> "throws" \in use]

MCMode ==
  {Use({p1, c1, c2}, "bounded", 1, 1, {"tries"}),
   Use(Context, "bounded", 2, 1, {}),
   Use(Context, "bounded", 2, 2, {}),
   Use({p1, p2, c2}, "bounded", 1, 0, {"throws", "tries"}),
   Use({p1, p2, c2}, "bounded", 1, 1, {"threads"}),
   Use(Context, "unbounded", 0, 0, {"throws"}),
   Use({p1, c1, c2}, "unbounded", 0, 0, {"tries"}),
   Use({p1, p2, c1}, "unbounded", 0, 0, {"threads", "tries"}),
   Use({p1, c1, c2}, "unbounded_ptr", 0, 0, {"threads"})}
=============================================================================
