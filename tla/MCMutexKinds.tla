---------------------------- MODULE MCMutexKinds ----------------------------
(* Instances of MutexKinds for TLC: two threads with three fibers. *)
EXTENDS MutexKinds

CONSTANTS t1, t2, f1, f2, f3

MCHome == [f \in Fiber |-> IF f = f3 THEN t2 ELSE t1]

MCMode ==
  [kind : {"mutex", "timed_mutex"}, user : {{t1, t2, f3}}, rude : {TRUE}]
    \cup [kind : {"recursive_mutex", "recursive_timed_mutex"}, user : {{t2, f1}}, rude : {TRUE}]
    \cup [kind : {"mutex", "timed_mutex", "recursive_mutex"}, user : {{f1, f2, f3}},
          rude : {FALSE}]
=============================================================================
