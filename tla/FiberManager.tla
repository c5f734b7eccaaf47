---------------------------- MODULE FiberManager ----------------------------
(***************************************************************************)
(* One thread's cooperative scheduler: fiber_manager over worker_fiber,    *)
(* waiting_queue and round_robin, with the fiber and this_fiber API that   *)
(* drives it.  Control moves between contexts only when a fiber suspends,  *)
(* so every action is the code one context executes up to its next         *)
(* suspension.  suspend() always returns to the thread's main context,     *)
(* inside the run() that resumed the fiber; active = None means that the   *)
(* main context executes.                                                  *)
(*                                                                         *)
(* A BOOST_ASSERT that fails aborts the program: `failed' records which    *)
(* one, and nothing happens afterwards.                                    *)
(***************************************************************************)
EXTENDS WaitingQueue

CONSTANTS
  Fiber,         \* the fibers the client may create
  Main,          \* the thread's main context
  None,          \* the null pointer
  MaxTime,       \* bound: the clock stops here
  WaitInterval,  \* wait_interval_ of the fiber_manager
  Deadline,      \* the time points the client sleeps until
  Call,          \* optional calls of the client: subset of OptionalCall
  Joiner,        \* the contexts that call fiber::join()
  Interrupted    \* where clients interrupt a fiber: subset of Point

OptionalCall == {"sleep", "detach", "disable"}
Point == {"body", "sleep", "join", "throw", "done", "self"}
Context == Fiber \cup {Main}

ASSUME ContextAssumption == Main \notin Fiber /\ None \notin Context
ASSUME TimeAssumption ==
  /\ MaxTime \in Nat /\ MaxTime < TPMax
  /\ WaitInterval \in Nat \ {0}
  /\ Deadline \subseteq (0..MaxTime) \cup {TPMax}
ASSUME ClientAssumption ==
  Call \subseteq OptionalCall /\ Joiner \subseteq Context /\ Interrupted \subseteq Point

VARIABLES
  state,     \* state_; "NEW" before construction, "FREED" after deallocate()
  tp,        \* tp_
  flags,     \* flags_: interruption blocked / requested, detached
  except,    \* fibers with except_ set: they ended with fiber_interrupted
  waiting,   \* waiting_: the fiber blocked in join() on this one
  handle,    \* fibers some fiber object refers to (impl_)
  wqueue,    \* wqueue_
  rqueue,    \* round_robin's rqueue_
  active,    \* active_fiber_
  at,        \* the call each context is in; "body" is client code
  target,    \* argument of the join() the context is in
  until,     \* argument of the sleep_until() the context is in
  now,       \* clock_type::now()
  failed     \* the BOOST_ASSERT that failed

fiberVars == <<state, tp, flags, except, waiting>>
schedVars == <<wqueue, rqueue, active>>
callVars  == <<at, target, until>>
vars == <<fiberVars, schedVars, callVars, handle, now, failed>>

State == {"NEW", "READY", "RUNNING", "WAITING", "TERMINATED", "FREED"}
Flag == {"blocked", "requested", "detached"}
NoAssert == "none"
Assertion == {"yield", "wait_until", "set_waiting", "set_ready",
              "set_terminated", "trampoline", "join"}

TypeOK ==
  /\ state \in [Fiber -> State]
  /\ tp \in [Fiber -> 0..TPMax]
  /\ flags \in [Fiber -> SUBSET Flag]
  /\ except \in SUBSET Fiber
  /\ waiting \in [Fiber -> Fiber \cup {None}]
  /\ handle \in SUBSET Fiber
  /\ wqueue \in Seq(Fiber) /\ rqueue \in Seq(Fiber)
  /\ active \in Fiber \cup {None}
  /\ at \in [Context -> Point \ {"self"}]
  /\ target \in [Context -> Fiber \cup {None}]
  /\ until \in [Context -> 0..TPMax]
  /\ now \in 0..MaxTime
  /\ failed \in Assertion \cup {NoAssert}

Init ==
  /\ state = [f \in Fiber |-> "NEW"]
  /\ tp = [f \in Fiber |-> TPMax]
  /\ flags = [f \in Fiber |-> {}]
  /\ except = {}
  /\ waiting = [f \in Fiber |-> None]
  /\ handle = {}
  /\ wqueue = <<>> /\ rqueue = <<>> /\ active = None
  /\ at = [c \in Context |-> "body"]
  /\ target = [c \in Context |-> None]
  /\ until = [c \in Context |-> 0]
  /\ now = 0
  /\ failed = NoAssert

-----------------------------------------------------------------------------
(* The context that has control, and one that executes client code. *)
Current == IF active = None THEN Main ELSE active
Calls(c) == failed = NoAssert /\ c = Current /\ at[c] = "body"
(* Fiber f was resumed inside the call it is in. *)
Resumed(f, call) == failed = NoAssert /\ active = f /\ at[f] = call
MainHasControl == failed = NoAssert /\ active = None

Abort(assertion) ==
  /\ failed' = assertion
  /\ UNCHANGED <<fiberVars, schedVars, callVars, handle, now>>

Requested == {f \in Fiber : "requested" \in flags[f]}
Joining(g) == \E c \in Context : at[c] = "join" /\ target[c] = g

(* interruption_point() would throw fiber_interrupted in f. *)
InterruptPending(f) == "requested" \in flags[f] /\ "blocked" \notin flags[f]

-----------------------------------------------------------------------------
(* fiber::fiber(), setup::allocate(), start_fiber_(): the trampoline runs  *)
(* up to its first suspend(), then the fiber is made ready and queued.     *)
Spawn(c, f) ==
  /\ Calls(c)
  /\ state[f] = "NEW"
  /\ state' = [state EXCEPT ![f] = "READY"]
  /\ rqueue' = Append(rqueue, f)
  /\ handle' = handle \cup {f}
  /\ UNCHANGED <<tp, flags, except, waiting, wqueue, active, callVars, now, failed>>

MutYieldTwice(f) ==
  /\ state' = [state EXCEPT ![f] = "READY"]
  /\ wqueue' = Push(wqueue, f, state', tp)
  /\ rqueue' = Append(rqueue, f)
  /\ active' = None
  /\ UNCHANGED <<tp, flags, except, waiting, callVars, handle, now, failed>>
(* fiber_manager::yield() *)
YieldNow(f) ==
  /\ state' = [state EXCEPT ![f] = "READY"]
  /\ wqueue' = Push(wqueue, f, state', tp)
  /\ active' = None
  /\ UNCHANGED <<tp, flags, except, waiting, rqueue, callVars, handle, now, failed>>

Yield(f) ==
  /\ Calls(f)
  /\ IF state[f] # "RUNNING" THEN Abort("yield") ELSE YieldNow(f)

(* fiber_manager::wait_until() up to its suspend(). *)
WaitUntil(f, t) ==
  /\ state' = [state EXCEPT ![f] = "WAITING"]
  /\ tp' = [tp EXCEPT ![f] = t]
  /\ wqueue' = Push(wqueue, f, state', tp')
  /\ active' = None
  /\ UNCHANGED <<flags, except, waiting, rqueue>>

MutSleepRelative(f, t) ==
  /\ WaitUntil(f, now + t)
  /\ at' = [at EXCEPT ![f] = "sleep"]
  /\ until' = [until EXCEPT ![f] = t]
  /\ UNCHANGED <<target, handle, now, failed>>
(* this_fiber::sleep_until() in a fiber *)
Sleep(f, t) ==
  /\ WaitUntil(f, t)
  /\ at' = [at EXCEPT ![f] = "sleep"]
  /\ until' = [until EXCEPT ![f] = t]
  /\ UNCHANGED <<target, handle, now, failed>>

SleepUntil(f, t) ==
  /\ Calls(f)
  /\ "sleep" \in Call
  /\ IF state[f] # "RUNNING" THEN Abort("wait_until") ELSE Sleep(f, t)

MutThrowSetsReady(f) ==
  /\ InterruptPending(f)
  /\ flags' = [flags EXCEPT ![f] = @ \ {"requested"}]
  /\ state' = [state EXCEPT ![f] = "READY"]
  /\ at' = [at EXCEPT ![f] = "throw"]
  /\ UNCHANGED <<tp, except, waiting, schedVars, target, until, handle, now, failed>>
(* this_fiber::interruption_point(): clears the request and throws. *)
ThrowInterrupted(f) ==
  /\ InterruptPending(f)
  /\ flags' = [flags EXCEPT ![f] = @ \ {"requested"}]
  /\ at' = [at EXCEPT ![f] = "throw"]
  /\ UNCHANGED <<state, tp, except, waiting, schedVars, target, until, handle, now, failed>>

(* The rest of sleep_until(), after the fiber was resumed. *)
SleepReturns(f) ==
  /\ Resumed(f, "sleep")
  /\ \/ ThrowInterrupted(f)
     \/ /\ ~InterruptPending(f)
        /\ at' = [at EXCEPT ![f] = "body"]
        /\ UNCHANGED <<fiberVars, schedVars, target, until, handle, now, failed>>

InterruptionPoint(f) == Calls(f) /\ ThrowInterrupted(f)

(* disable_interruption: the outermost scope sets the flag, its destructor *)
(* (and restore_interruption inside it) clears it.                         *)
DisableInterruption(f) ==
  /\ Calls(f)
  /\ "disable" \in Call
  /\ flags' = [flags EXCEPT ![f] =
                 IF "blocked" \in @ THEN @ \ {"blocked"} ELSE @ \cup {"blocked"}]
  /\ UNCHANGED <<state, tp, except, waiting, schedVars, callVars, handle, now, failed>>

-----------------------------------------------------------------------------
(* fiber_manager::join() in a fiber c, up to its suspend(): c is queued,   *)
(* then registered with g, or made ready again if g already ended.         *)
EnterJoin(c, g) ==
  LET st == [state EXCEPT ![c] = "WAITING"]
      q == Push(wqueue, c, st, tp)
      ended == state[g] = "TERMINATED"
  IN /\ state' = IF ended THEN [state EXCEPT ![c] = "READY"] ELSE st
     /\ wqueue' = IF ended THEN MoveToRun(q, c) ELSE q
     /\ waiting' = IF ended THEN waiting ELSE [waiting EXCEPT ![g] = c]
     /\ active' = None
     /\ at' = [at EXCEPT ![c] = "join"]
     /\ target' = [target EXCEPT ![c] = g]
     /\ UNCHANGED <<tp, flags, except, rqueue, until, handle, now, failed>>

(* fiber::join(); a fiber object is joined by one context at a time. *)
Join(c, g) ==
  /\ Calls(c)
  /\ c \in Joiner /\ g \in handle /\ g # c /\ ~Joining(g)
  /\ IF state[c] # "RUNNING" THEN Abort("set_waiting") ELSE EnterJoin(c, g)

(* The end of fiber::join(): the fiber object lets go of the fiber, which  *)
(* is deallocated, and the exception it ended with is rethrown.  The main  *)
(* context is taken to catch it.                                           *)
JoinEnds(c) ==
  LET g == target[c] IN
  /\ handle' = handle \ {g}
  /\ state' = [state EXCEPT ![g] = "FREED"]
  /\ at' = [at EXCEPT ![c] = IF g \in except /\ c # Main THEN "throw" ELSE "body"]
  /\ target' = [target EXCEPT ![c] = None]
  /\ UNCHANGED <<tp, flags, except, waiting, schedVars, until, now, failed>>

JoinReturns(f) ==
  /\ Resumed(f, "join")
  /\ IF state[target[f]] # "TERMINATED" THEN Abort("join") ELSE JoinEnds(f)

(* worker_fiber::request_interruption(true): also makes the fiber ready. *)
Interrupt(c, g) ==
  /\ Calls(c)
  /\ g \in handle
  /\ (IF g = c THEN "self" ELSE at[g]) \in Interrupted
  /\ IF state[g] = "TERMINATED" THEN Abort("set_ready")
     ELSE /\ flags' = [flags EXCEPT ![g] = @ \cup {"requested"}]
          /\ state' = [state EXCEPT ![g] = "READY"]
          /\ wqueue' = MoveToRun(wqueue, g)
          /\ UNCHANGED <<tp, except, waiting, rqueue, active, callVars, handle, now, failed>>

Detach(c, g) ==
  /\ Calls(c)
  /\ "detach" \in Call /\ g \in handle /\ ~Joining(g)
  /\ flags' = [flags EXCEPT ![g] = @ \cup {"detached"}]
  /\ handle' = handle \ {g}
  /\ UNCHANGED <<state, tp, except, waiting, schedVars, callVars, now, failed>>

-----------------------------------------------------------------------------
MutEndedFreed(f) == "FREED"
(* set_terminated(); once f has suspended, resume_() deallocates it if it  *)
(* is detached.                                                            *)
Ended(f) == IF "detached" \in flags[f] THEN "FREED" ELSE "TERMINATED"

MutReleaseKeepsList(f) ==
  LET p == waiting[f] IN
  /\ state' = IF p = None THEN [state EXCEPT ![f] = Ended(f)]
              ELSE [state EXCEPT ![f] = Ended(f), ![p] = "READY"]
  /\ wqueue' = IF p = None THEN wqueue ELSE MoveToRun(wqueue, p)
  /\ UNCHANGED waiting
MutReleaseNoWake(f) ==
  /\ state' = [state EXCEPT ![f] = Ended(f)]
  /\ waiting' = [waiting EXCEPT ![f] = None]
  /\ UNCHANGED wqueue
(* worker_fiber::release(): takes the joiner and makes it ready. *)
Release(f) ==
  LET p == waiting[f] IN
  /\ state' = IF p = None THEN [state EXCEPT ![f] = Ended(f)]
              ELSE [state EXCEPT ![f] = Ended(f), ![p] = "READY"]
  /\ wqueue' = IF p = None THEN wqueue ELSE MoveToRun(wqueue, p)
  /\ waiting' = [waiting EXCEPT ![f] = None]

(* The end of the trampoline: set_terminated(), release(), suspend(). *)
Terminate(f) ==
  /\ Release(f)
  /\ at' = [at EXCEPT ![f] = "done"]
  /\ active' = None
  /\ UNCHANGED <<tp, flags, rqueue, target, until, handle, now, failed>>

(* The fiber function returns (its disable_interruption scopes are left). *)
Return(f) ==
  /\ Calls(f)
  /\ "blocked" \notin flags[f]
  /\ IF state[f] # "RUNNING" THEN Abort("trampoline")
     ELSE Terminate(f) /\ UNCHANGED except

(* fiber_interrupted leaves the fiber function: it is stored for join(). *)
Unwind(f) ==
  /\ Resumed(f, "throw")
  /\ IF state[f] # "RUNNING" THEN Abort("set_terminated")
     ELSE Terminate(f) /\ except' = except \cup {f}

(* The fiber function catches fiber_interrupted. *)
Catch(f) ==
  /\ Resumed(f, "throw")
  /\ at' = [at EXCEPT ![f] = "body"]
  /\ UNCHANGED <<fiberVars, schedVars, target, until, handle, now, failed>>

-----------------------------------------------------------------------------
(* next_wakeup(), cut off at the bound of the clock. *)
NextWakeup(q) ==
  Min({MaxTime, IF q = <<>> THEN now + WaitInterval
                ELSE IF tp[Head(q)] = TPMax THEN now + WaitInterval ELSE tp[Head(q)]})

MutDispatchLast(ready, st) ==
  /\ state' = [st EXCEPT ![ready[Len(ready)]] = "RUNNING"]
  /\ rqueue' = SubSeq(ready, 1, Len(ready) - 1)
  /\ active' = ready[Len(ready)]
(* pick_next() takes the head of rqueue_, resume_() switches to it. *)
Dispatch(ready, st) ==
  /\ state' = [st EXCEPT ![Head(ready)] = "RUNNING"]
  /\ rqueue' = Tail(ready)
  /\ active' = Head(ready)

(* fiber_manager::run() in the main context: move_to() takes the ready     *)
(* prefix of wqueue_; with nothing to run the thread sleeps.               *)
Run ==
  LET k == ReadyPrefix(wqueue, now, state, tp, Requested)
      moved == SubSeq(wqueue, 1, k)
      left == SubSeq(wqueue, k + 1, Len(wqueue))
      ready == rqueue \o moved
      woken == [f \in Fiber |-> IF f \in Range(moved) THEN "READY" ELSE state[f]]
  IN /\ wqueue' = left
     /\ tp' = [f \in Fiber |-> IF f \in Range(moved) THEN TPMax ELSE tp[f]]
     /\ IF ready = <<>>
        THEN now' = NextWakeup(left) /\ UNCHANGED <<state, rqueue, active>>
        ELSE Dispatch(ready, woken) /\ UNCHANGED now
     /\ UNCHANGED <<flags, except, waiting, callVars, handle, failed>>

(* join() and sleep_until() in the main context run the scheduler until    *)
(* their condition holds; this_fiber::yield() runs it once.                *)
MainLoops ==
  \/ at[Main] = "body"
  \/ at[Main] = "join" /\ state[target[Main]] # "TERMINATED"
  \/ at[Main] = "sleep" /\ now <= until[Main]

MainRun == MainHasControl /\ MainLoops /\ Run

MainJoin(g) ==
  /\ Calls(Main)
  /\ Main \in Joiner /\ g \in handle /\ ~Joining(g)
  /\ at' = [at EXCEPT ![Main] = "join"]
  /\ target' = [target EXCEPT ![Main] = g]
  /\ UNCHANGED <<fiberVars, schedVars, until, handle, now, failed>>

MainSleep(t) ==
  /\ Calls(Main)
  /\ "sleep" \in Call
  /\ t < MaxTime
  /\ at' = [at EXCEPT ![Main] = "sleep"]
  /\ until' = [until EXCEPT ![Main] = t]
  /\ UNCHANGED <<fiberVars, schedVars, target, handle, now, failed>>

MainReturns ==
  /\ MainHasControl /\ ~MainLoops
  /\ \/ at[Main] = "join" /\ JoinEnds(Main)
     \/ /\ at[Main] = "sleep"
        /\ at' = [at EXCEPT ![Main] = "body"]
        /\ UNCHANGED <<fiberVars, schedVars, target, until, handle, now, failed>>

Tick ==
  /\ failed = NoAssert
  /\ now < MaxTime
  /\ now' = now + 1
  /\ UNCHANGED <<fiberVars, schedVars, callVars, handle, failed>>

-----------------------------------------------------------------------------
(* The steps by which a fiber moves on and gives control back. *)
FiberStep(f) ==
  \/ Yield(f) \/ SleepReturns(f) \/ JoinReturns(f) \/ Return(f) \/ Unwind(f)
  \/ \E t \in Deadline : SleepUntil(f, t)
  \/ \E g \in Fiber : Join(f, g)

(* Calls that return to the caller without a switch. *)
LocalCall(c) ==
  \E g \in Fiber : Spawn(c, g) \/ Interrupt(c, g) \/ Detach(c, g)

Next ==
  \/ \E f \in Fiber : \/ FiberStep(f)
                      \/ Catch(f) \/ InterruptionPoint(f) \/ DisableInterruption(f)
  \/ \E c \in Context : LocalCall(c)
  \/ MainRun \/ MainReturns
  \/ \E g \in Fiber : MainJoin(g)
  \/ \E t \in Deadline : MainSleep(t)
  \/ Tick

Spec == Init /\ [][Next]_vars

(* Fairness: fibers are cooperative (each suspends or returns after        *)
(* finitely many calls), the main context enters the scheduler again and   *)
(* again (a sleep_until() of it with a past time point does not), and time *)
(* passes.                                                                 *)
FairSpec ==
  /\ Spec
  /\ WF_vars(\E f \in Fiber : FiberStep(f))
  /\ SF_vars(MainRun) /\ WF_vars(MainReturns)
  /\ WF_vars(Tick)

-----------------------------------------------------------------------------
Queued == Range(wqueue) \cup Range(rqueue)
Live(f) == state[f] \notin {"NEW", "TERMINATED", "FREED"}

(* Every live fiber is in exactly one place, in a state fit for it: it is  *)
(* active, or it occurs once in exactly one of wqueue_ and rqueue_; a      *)
(* fiber that ended or was not created is nowhere.  This is what the       *)
(* assertions of fetch_ready(), run(), resume_(), spawn() and push()       *)
(* demand, and a live fiber that is nowhere would never run again.         *)
Placement ==
  /\ IsInjective(wqueue) /\ IsInjective(rqueue)
  /\ Range(wqueue) \cap Range(rqueue) = {}
  /\ active \notin Queued
  /\ \A f \in Fiber : Live(f) <=> f \in Queued \cup {active}
  /\ \A f \in Range(wqueue) : state[f] \in {"READY", "WAITING"}
  /\ \A f \in Range(rqueue) : state[f] = "READY"

(* wqueue_ keeps its ready fibers at the head and the waiting ones behind  *)
(* them by deadline, through every push(), move_to_run() and move_to().    *)
QueueOrdered == Ordered(wqueue, state, tp)

(* move_to() stops at the first fiber that is not ready "since the wait    *)
(* time is ordered, the fibers after will not be ready": behind the prefix *)
(* it takes, fetch_ready() holds of no fiber.                              *)
ScanComplete ==
  \A i \in 1..Len(wqueue) :
    FetchReady(wqueue[i], now, state, tp, Requested)
      => i <= ReadyPrefix(wqueue, now, state, tp, Requested)

(* waiting_ holds exactly the fibers blocked in join(): a fiber that has   *)
(* not ended knows its joiner, so release() wakes everyone it has to, and  *)
(* nobody else.                                                            *)
JoinersKnown ==
  \A g, c \in Fiber :
    waiting[g] = c <=> at[c] = "join" /\ target[c] = g /\ Live(g)

(* A deallocated fiber is referred to by no queue, no waiting_ list, no    *)
(* fiber object and no join() in progress.                                 *)
NoDangling ==
  \A g \in Fiber : state[g] = "FREED" =>
    /\ g \notin Queued \cup {active} \cup handle
    /\ \A f \in Fiber : waiting[f] # g
    /\ ~Joining(g)

(* A fiber object refers to a fiber that is neither freed nor detached, so *)
(* release() cannot leave it to resume_() to free a fiber still owned.     *)
HandleInv ==
  \A f \in Fiber :
    /\ f \in handle => state[f] \notin {"NEW", "FREED"}
    /\ f \in handle \/ state[f] = "NEW" => "detached" \notin flags[f]

(* A join() in progress is on a fiber object that stays valid, nobody else *)
(* joins it, and the fiber blocked in it is alive.                         *)
JoinInv ==
  \A c \in Context : at[c] = "join" =>
    /\ target[c] \in handle
    /\ \A d \in Context : at[d] = "join" /\ target[d] = target[c] => d = c
    /\ c \in Fiber => Live(c)

(* The inductive invariant behind the theorems of FiberManagerProofs. *)
IInv == TypeOK /\ Placement /\ QueueOrdered /\ JoinersKnown /\ HandleInv /\ JoinInv

(* When suspended fibers are interrupted no BOOST_ASSERT fails but the one *)
(* at the end of fiber_manager::join(), and that one only in a joiner with *)
(* an unanswered request whose target has not ended.  That it fails is a   *)
(* defect, which InterruptDelivered reports.                               *)
OnlyJoinFails ==
  failed # NoAssert =>
    failed = "join" /\ "requested" \in flags[active] /\ Live(target[active])

(* sleep_until() does not return to the caller before its time point, even *)
(* if the sleeper is interrupted, unless it has disabled interruption.     *)
SleepNotEarly ==
  [][\A c \in Context :
       /\ at[c] = "sleep" /\ at'[c] = "body"
       /\ c \in Fiber => "blocked" \notin flags[c]
       => now >= until[c]]_vars

(* A ready fiber runs, however often others yield or are woken. *)
ReadyRuns == \A f \in Fiber : state[f] = "READY" ~> active = f

(* A fiber that sleeps until a time the clock reaches is resumed. *)
SleeperWakes ==
  \A f \in Fiber : at[f] = "sleep" /\ until[f] <= MaxTime ~> active = f

(* A context in join() on a fiber that ended returns from join(). *)
JoinCompletes ==
  \A c \in Context :
    at[c] = "join" /\ state[target[c]] = "TERMINATED" ~> at[c] # "join"

(* A fiber interrupted while interruption is enabled throws at the         *)
(* interruption point it waits in, sleep_until() or join().                *)
InterruptDelivered ==
  \A f \in Fiber : at[f] \in {"sleep", "join"} /\ InterruptPending(f) ~> at[f] = "throw"

=============================================================================
