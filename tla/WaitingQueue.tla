---------------------------- MODULE WaitingQueue ----------------------------
(***************************************************************************)
(* The waiting queue of a fiber_manager (detail/waiting_queue.hpp) as a    *)
(* sequence of fibers, head first.  The operators take the fibers' state_  *)
(* (st), tp_ (tps) and pending interruption requests (req) as functions;   *)
(* the intrusive links are modelled in LinkedQueue, which is shown to      *)
(* implement these operators.                                              *)
(***************************************************************************)
EXTENDS Integers, Sequences, FiniteSetsExt

CONSTANT TPMax  \* clock_type::time_point::max(): later than every clock value

ASSUME TPMaxAssumption == TPMax \in Nat

-----------------------------------------------------------------------------
(* Queue q with f linked in at position p, and with its p-th fiber moved   *)
(* to the head: both by element, as the links define them.                 *)
Link(q, p, f) ==
  [i \in 1..Len(q) + 1 |-> IF i < p THEN q[i] ELSE IF i = p THEN f ELSE q[i - 1]]
ToHead(q, p) ==
  [i \in 1..Len(q) |-> IF i = 1 THEN q[p] ELSE IF i <= p THEN q[i - 1] ELSE q[i]]

(* Where push() links a waiting item with a finite deadline: before the   *)
(* first fiber that is not ready and whose deadline is not earlier, or     *)
(* after the tail.                                                         *)
DeadlinePosition(q, f, st, tps) ==
  Min({i \in 1..Len(q) : st[q[i]] # "READY" /\ tps[f] <= tps[q[i]]}
      \cup {Len(q) + 1})

MutPushPositionTail(q, f, st, tps) == IF st[f] = "READY" THEN 1 ELSE Len(q) + 1
PushPosition(q, f, st, tps) ==
  IF st[f] = "READY" THEN 1
  ELSE IF tps[f] = TPMax THEN Len(q) + 1
  ELSE DeadlinePosition(q, f, st, tps)

(* waiting_queue::push *)
Push(q, f, st, tps) ==
  IF f \in Range(q) THEN q ELSE Link(q, PushPosition(q, f, st, tps), f)

Position(q, f) == CHOOSE i \in 1..Len(q) : q[i] = f

MutMoveToRunStays(q, f) == q
(* waiting_queue::move_to_run, called by worker_fiber::set_ready: a queued *)
(* fiber is moved to the head.                                             *)
MoveToRun(q, f) == IF f \in Range(q) THEN ToHead(q, Position(q, f)) ELSE q

MutFetchReadyEarly(f, now, st, tps, req) ==
  st[f] = "READY" \/ tps[f] <= now + 1 \/ f \in req
(* fetch_ready, the predicate run() passes to move_to. *)
FetchReady(f, now, st, tps, req) ==
  st[f] = "READY" \/ tps[f] <= now \/ f \in req

(* waiting_queue::move_to scans from the head and stops at the first fiber *)
(* that is not ready: the number of fibers it takes.                       *)
ReadyPrefix(q, now, st, tps, req) ==
  Min({i \in 1..Len(q) : ~FetchReady(q[i], now, st, tps, req)}
      \cup {Len(q) + 1}) - 1

-----------------------------------------------------------------------------
(* The order the queue is kept in: the ready fibers first, then the        *)
(* waiting ones by deadline.                                               *)
Ordered(q, st, tps) ==
  \A i, j \in 1..Len(q) : i < j =>
    /\ st[q[j]] = "READY" => st[q[i]] = "READY"
    /\ st[q[i]] # "READY" => tps[q[i]] <= tps[q[j]]

=============================================================================
