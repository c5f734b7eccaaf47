------------------------------ MODULE Barrier ------------------------------
(***************************************************************************)
(* barrier (barrier.cpp) over the condition it uses, and next to it any    *)
(* other client of a condition: the constructor's argument and the kind of *)
(* client are chosen in the initial state and never change.                *)
(***************************************************************************)
EXTENDS Condition

CONSTANTS
  Party,    \* the sets of contexts that may share the barrier
  Size,     \* the arguments of the constructor
  MaxTurn   \* bound on how often the barrier trips

VARIABLES
  party,    \* the contexts that call wait(), {} for another client
  rude,     \* whether fibers are interrupted
  initial,  \* initial_
  current,  \* current_
  cycle,    \* cycle_
  saw,      \* the local cycle of each wait()
  at,       \* where in wait() each context is
  turn,     \* how often the barrier has tripped
  came,     \* the turn in which each context arrived
  left      \* how many left the turn by an interrupt

barrierVars == <<party, rude, initial, current, cycle, saw, at, turn, came, left>>
vars == <<condVars, barrierVars>>

ASSUME BarrierAssumption ==
  /\ Size \subseteq Nat \ {0}
  /\ Cond # {}
  /\ \A p \in Party : p \subseteq Context /\ IsFiniteSet(p)

k0 == CHOOSE k \in Cond : TRUE
mtx == MutexOf[k0]

(* The constructor refuses 0. *)
Init ==
  /\ CondInit
  /\ party \in Party
  /\ rude \in BOOLEAN
  /\ initial \in IF party = {} THEN {1} ELSE Size
  /\ current = initial
  /\ cycle = TRUE
  /\ saw = [c \in Context |-> TRUE]
  /\ at = [c \in Context |-> "idle"]
  /\ turn = 0
  /\ came = [c \in Context |-> 0]
  /\ left = 0

MutLastKeepsCycle(c) ==
  /\ current' = initial
  /\ turn' = turn + 1
  /\ left' = 0
  /\ at' = [at EXCEPT ![c] = "last"]
  /\ holder' = [holder EXCEPT ![mtx] = c]
  /\ NotifyAll(c, k0)
  /\ UNCHANGED <<on, cv, why, status, failed, saw, cycle>>
(* wait() of the last context: it notifies while it holds the mutex. *)
Last(c) ==
  /\ current' = initial
  /\ cycle' = ~cycle
  /\ turn' = turn + 1
  /\ left' = 0
  /\ at' = [at EXCEPT ![c] = "last"]
  /\ holder' = [holder EXCEPT ![mtx] = c]
  /\ NotifyAll(c, k0)
  /\ UNCHANGED <<on, cv, why, status, failed, saw>>

(* wait() of another one, to the suspension in the condition. *)
Early(c) ==
  /\ current' = current - 1
  /\ saw' = [saw EXCEPT ![c] = cycle]
  /\ at' = [at EXCEPT ![c] = "loop"]
  /\ EnterWait(c, k0, "wait")
  /\ UNCHANGED <<cycle, turn, left>>

MutArriveTwo(c) ==
  /\ Free(c)
  /\ at[c] = "idle"
  /\ turn < MaxTurn
  /\ holder[mtx] = None
  /\ came' = [came EXCEPT ![c] = turn + 1]
  /\ IF current <= 2 THEN Last(c) ELSE Early(c)
  /\ UNCHANGED <<party, rude, initial>>
Arrive(c) ==
  /\ Free(c)
  /\ at[c] = "idle"
  /\ turn < MaxTurn
  /\ holder[mtx] = None
  /\ came' = [came EXCEPT ![c] = turn + 1]
  /\ IF current = 1 THEN Last(c) ELSE Early(c)
  /\ UNCHANGED <<party, rude, initial>>

(* The last context returns true. *)
LastReturns(c) ==
  /\ Free(c)
  /\ at[c] = "last"
  /\ Locks([holder EXCEPT ![mtx] = None])
  /\ at' = [at EXCEPT ![c] = "idle"]
  /\ UNCHANGED <<party, rude, initial, current, cycle, saw, turn, came, left>>

(* The loop of wait(): it returns false in another cycle. *)
Loop(c) ==
  /\ Free(c)
  /\ at[c] = "loop"
  /\ status[c] # "interrupted"
  /\ IF saw[c] = cycle
     THEN EnterWait(c, k0, "wait") /\ UNCHANGED at
     ELSE Locks([holder EXCEPT ![mtx] = None]) /\ at' = [at EXCEPT ![c] = "idle"]
  /\ UNCHANGED <<party, rude, initial, current, cycle, saw, turn, came, left>>

MutInterruptedPutsBack(c) ==
  /\ Free(c)
  /\ at[c] = "loop"
  /\ status[c] = "interrupted"
  /\ at' = [at EXCEPT ![c] = "idle"]
  /\ current' = current + 1
  /\ UNCHANGED <<party, rude, initial, cycle, saw, turn, came, left, condVars>>
(* fiber_interrupted leaves wait(): current_ stays decremented. *)
Interrupted(c) ==
  /\ Free(c)
  /\ at[c] = "loop"
  /\ status[c] = "interrupted"
  /\ at' = [at EXCEPT ![c] = "idle"]
  /\ left' = IF came[c] > turn THEN left + 1 ELSE left
  /\ UNCHANGED <<party, rude, initial, current, cycle, saw, turn, came, condVars>>

BarrierStep(c) == LastReturns(c) \/ Loop(c) \/ Interrupted(c)

Next ==
  \/ \E c \in party : Arrive(c) \/ BarrierStep(c)
  \/ party = {} /\ (\E c \in Context : ClientStep(c)) /\ UNCHANGED barrierVars
  \/ (\E c \in Context : CondStep(c) \/ Pass(c)) /\ UNCHANGED barrierVars
  \/ rude /\ (\E c \in Interruptible : Interrupt(c)) /\ UNCHANGED barrierVars

Spec == Init /\ [][Next]_vars

(* A context goes on with its call; who holds the mutex gives it up and    *)
(* the mutex is granted in turn; the contexts of a barrier keep arriving.  *)
Fairness ==
  \A c \in Context :
    /\ WF_vars((Wake(c) \/ TimeOut(c) \/ Throw(c) \/ SetReady(c)) /\ UNCHANGED barrierVars)
    /\ SF_vars(Relock(c) /\ UNCHANGED barrierVars)
    /\ WF_vars(Pass(c) /\ UNCHANGED barrierVars)
    /\ WF_vars(BarrierStep(c))
    /\ SF_vars(c \in party /\ Arrive(c))
    /\ SF_vars(party = {} /\ UnlockMutex(c, mtx) /\ UNCHANGED barrierVars)

FairSpec == Spec /\ Fairness

-----------------------------------------------------------------------------

(* The contexts that wait for the turn that is not complete. *)
Gathered == {c \in Context : at[c] = "loop" /\ came[c] > turn}

(* current_ counts the contexts still missing, except that one that was    *)
(* interrupted out of the turn is never put back (the FIXME in wait()); it *)
(* is 0 at no time, so that the next one to come cannot make it wrap.      *)
CountsMissing == current \in 1..initial /\ initial - current = Cardinality(Gathered) + left

(* Without interrupts wait() returns only after as many contexts as the    *)
(* barrier was made for have arrived in its turn.  A fiber interrupted out *)
(* of wait() that comes again is counted twice and can pass alone.         *)
NoEarlyReturn ==
  [][\A c \in Context :
       ~rude /\ at[c] # "idle" /\ at'[c] = "idle" =>
         Cardinality({d \in Context : came[d] >= came[c]}) >= initial]_vars

(* As many contexts as the barrier was made for, and no interrupts. *)
Exact == initial = Cardinality(party) /\ ~rude

(* "all waiting fibers are unblocked": nobody sleeps in a turn that is     *)
(* complete.  cycle_ is a bool, and a context that is late by two turns    *)
(* would sleep again; the contexts of a barrier of their number cannot be. *)
Unblocked ==
  \A c \in Context : at[c] = "loop" /\ c \in Range(waiting[k0]) => came[c] > turn
NobodyLeftBehind == Exact => Unblocked

(* Who was notified returns from its wait. *)
WaitReturns ==
  \A c \in Context : ("notify" \in why[c]) ~> (cv[c] = "out" \/ failed # None)

(* The contexts of a barrier of their number all pass it every time. *)
AllPass == Exact ~> (turn = MaxTurn /\ \A c \in party : at[c] = "idle")
=============================================================================
