------------------------------ MODULE MCFuture ------------------------------
(* Instances of Future for TLC. *)
EXTENDS Future

CONSTANTS f1, f2, m1, p1, p2, h1, h2, g1, g2

MCMutexOf == [s \in Cond |-> s]

As(t, vs, use, ps, ws, os, n) ==
  [type |-> t, values |-> vs, task |-> "task" \in use, resets |-> "reset" \in use,
   provider |-> ps, waiter |-> ws, objects |-> os, states |-> n]

MCMode ==
  {As("void", {"done"}, {}, {f1}, {f2, m1}, {p1, h1, g1, g2}, 1),
   As("R&", {"one"}, {}, {f1}, {m1}, {p1, p2, h1, g1}, 2),
   As("R", {"one", "two"}, {}, {f1, f2}, {m1}, {p1, h1, h2, g1}, 1),
   As("R", {"one"}, {"task"}, {f1}, {m1}, {p1, h1}, 2),
   As("void", {"done"}, {"task", "reset"}, {f1}, {m1}, {p1, h1}, 1)}
=============================================================================
