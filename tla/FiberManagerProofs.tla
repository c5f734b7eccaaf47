------------------------- MODULE FiberManagerProofs -------------------------
(***************************************************************************)
(* Invariants of FiberManager for every set of fibers and every client:    *)
(* the placement of fibers, the order of the waiting queue, the joiners,   *)
(* the absence of dangling references and when sleepers return; and, for   *)
(* clients that interrupt politely or not at all, which assertions can     *)
(* fail and what the scan of move_to() finds.                              *)
(***************************************************************************)
EXTENDS FiberManager, WaitingQueueProofs

(* The scheduler. *)

(* The order depends on the fibers in the queue only. *)
LEMMA OrderedAgree ==
  ASSUME NEW S, NEW q \in Seq(S), NEW st, NEW st2, NEW tps, NEW tps2,
         Ordered(q, st, tps),
         \A x \in Range(q) : st2[x] = st[x] /\ tps2[x] = tps[x]
  PROVE  Ordered(q, st2, tps2)
BY DEF Ordered, Range

(* A fiber that calls is the active one, and in no queue. *)
LEMMA ActiveAlone ==
  ASSUME IInv, NEW f \in Fiber, active = f
  PROVE  /\ f # None /\ Live(f)
         /\ f \notin Range(wqueue) /\ f \notin Range(rqueue)
  BY ContextAssumption, Zenon DEF IInv, Placement, Queued, Context

LEMMA CallerActive ==
  ASSUME NEW f \in Fiber, Calls(f)
  PROVE  active = f /\ at[f] = "body" /\ failed = NoAssert
  BY ContextAssumption, Zenon DEF Calls, Current

(* The active fiber suspends: push() puts it into the waiting queue. *)
LEMMA SuspendPushes ==
  ASSUME IInv, NEW f \in Fiber, active = f, NEW st, NEW tps \in [Fiber -> 0..TPMax],
         \A x \in Fiber \ {f} : st[x] = state[x] /\ tps[x] = tp[x]
  PROVE  /\ Push(wqueue, f, st, tps) \in Seq(Fiber)
         /\ Range(Push(wqueue, f, st, tps)) = Range(wqueue) \cup {f}
         /\ IsInjective(Push(wqueue, f, st, tps))
         /\ Ordered(Push(wqueue, f, st, tps), st, tps)
<1>1. wqueue \in Seq(Fiber) /\ IsInjective(wqueue) /\ Ordered(wqueue, state, tp)
  BY Zenon DEF IInv, TypeOK, Placement, QueueOrdered
<1>2. f \notin Range(wqueue)
  BY ActiveAlone, Zenon
<1>5. Ordered(wqueue, st, tps)
  BY <1>1, OrderedAgree, <1>2 DEF Range
<1> QED
  BY <1>1, <1>2, <1>5, PushKeeps, Zenon

LEMMA QueuedFibers ==
  ASSUME IInv
  PROVE  Range(wqueue) \subseteq Fiber /\ Range(rqueue) \subseteq Fiber
  BY DEF IInv, TypeOK, Range

(* The fiber that suspends moves from active to the waiting queue. *)
LEMMA SuspendPlaces ==
  ASSUME IInv, NEW f \in Fiber, active = f, active' = None, UNCHANGED rqueue,
         state'[f] \in {"READY", "WAITING"},
         \A x \in Fiber \ {f} : state'[x] = state[x],
         IsInjective(wqueue'), Range(wqueue') = Range(wqueue) \cup {f}
  PROVE  Placement' /\ \A g \in Fiber : Live(g)' <=> Live(g)
<1>1. f # None /\ Live(f) /\ f \notin Range(wqueue) /\ f \notin Range(rqueue)
  BY ActiveAlone, Zenon
<1>2. Range(wqueue) \subseteq Fiber /\ Range(rqueue) \subseteq Fiber
  BY QueuedFibers, Zenon
<1>3. IsInjective(rqueue') /\ Range(wqueue') \cap Range(rqueue') = {}
  BY <1>1, Zenon DEF IInv, Placement
<1>4. (active \notin Queued)'
  BY <1>2, ContextAssumption, Zenon DEF Queued, Context
<1>5. \A g \in Fiber : Live(g)' <=> Live(g)
  BY <1>1, Zenon DEF Live
<1>6. \A g \in Fiber : Live(g)' <=> g \in (Queued \cup {active})'
  BY <1>1, <1>5, ContextAssumption, Zenon DEF IInv, Placement, Queued, Context
<1>7. \A g \in Range(wqueue') : state'[g] \in {"READY", "WAITING"}
  BY <1>2, Zenon DEF IInv, Placement
<1>8. \A g \in Range(rqueue') : state'[g] = "READY"
  BY <1>1, <1>2, Zenon DEF IInv, Placement
<1> QED
  BY <1>3, <1>4, <1>5, <1>6, <1>7, <1>8, Zenon DEF Placement

(* set_ready() of a fiber that is not active: move_to_run(). *)
LEMMA SetReadyMoves ==
  ASSUME IInv, NEW f \in Fiber, NEW st,
         st[f] = "READY", \A x \in Range(wqueue) \ {f} : st[x] = state[x]
  PROVE  /\ MoveToRun(wqueue, f) \in Seq(Fiber)
         /\ Range(MoveToRun(wqueue, f)) = Range(wqueue)
         /\ IsInjective(MoveToRun(wqueue, f))
         /\ Ordered(MoveToRun(wqueue, f), st, tp)
<1>1. wqueue \in Seq(Fiber) /\ IsInjective(wqueue) /\ Ordered(wqueue, state, tp)
  BY Zenon DEF IInv, TypeOK, Placement, QueueOrdered
<1> QED
  BY <1>1, MoveToRunKeeps, Zenon

(* Steps that change nothing an invariant reads. *)
LEMMA SameQueues ==
  ASSUME IInv, UNCHANGED <<state, tp, wqueue, rqueue, active>>
  PROVE  Placement' /\ QueueOrdered'
BY Zenon DEF IInv, Placement, Queued, Live, QueueOrdered

LEMMA SameJoins ==
  ASSUME IInv, UNCHANGED <<state, waiting, handle, at, target>>
  PROVE  JoinersKnown' /\ JoinInv'
BY DEF IInv, JoinersKnown, JoinInv, Live

LEMMA SameHandles ==
  ASSUME IInv, UNCHANGED <<state, flags, handle>>
  PROVE  HandleInv'
  BY Zenon DEF IInv, HandleInv

-----------------------------------------------------------------------------
LEMMA InitIInv == Init => IInv
<1> SUFFICES ASSUME Init PROVE IInv
  BY Zenon
<1>1. TypeOK
  BY TimeAssumption, TPMaxAssumption
  DEF Init, TypeOK, State, Flag, Point, Assertion, NoAssert
<1>4. Placement
  BY ContextAssumption DEF Init, Placement, Queued, Live, Context, IsInjective,
      Range
<1>5. QueueOrdered
  BY DEF Init, QueueOrdered, Ordered
<1> QED
  BY <1>1, <1>4, <1>5, ContextAssumption, Zenon DEF IInv, Init, JoinersKnown, Live,
      Context, HandleInv, JoinInv

(* A failed assertion stops the program where it is. *)
LEMMA AbortKeeps ==
  ASSUME IInv, NEW a \in Assertion, Abort(a)
  PROVE  IInv'
<1> USE DEF Abort, fiberVars, schedVars, callVars
<1>3. JoinersKnown' /\ HandleInv' /\ JoinInv'
  BY SameJoins, SameHandles, Zenon
<1> QED
  BY <1>3, SameQueues, Zenon DEF IInv, TypeOK

LEMMA SpawnKeeps ==
  ASSUME IInv, NEW c \in Context, NEW f \in Fiber, Spawn(c, f)
  PROVE  IInv'
<1> USE DEF Spawn, callVars
<1>2. f \notin Range(wqueue) /\ f \notin Range(rqueue) /\ f # active
  BY ContextAssumption, Zenon DEF IInv, Placement, Queued, Live
<1>4. Placement'
  BY <1>2, AppendKeeps DEF IInv, TypeOK, Placement, Queued, Live
<1>5. QueueOrdered'
  <2>1. wqueue \in Seq(Fiber) /\ Ordered(wqueue, state, tp)
    BY Zenon DEF IInv, TypeOK, QueueOrdered
  <2>3. \A x \in Range(wqueue) : state'[x] = state[x] /\ tp'[x] = tp[x]
    BY <1>2, <2>1 DEF IInv, TypeOK, Range
  <2>4. Ordered(wqueue, state', tp')
    BY <2>1, <2>3, OrderedAgree, ZenonT(40)
  <2> QED
    BY <2>4, Zenon DEF QueueOrdered
<1>6. JoinersKnown'
  BY DEF IInv, TypeOK, JoinersKnown, HandleInv, JoinInv, Live, Context
<1>7. HandleInv' /\ JoinInv'
  BY Zenon DEF IInv, TypeOK, HandleInv, JoinInv, Live
<1> QED
  BY <1>4, <1>5, <1>6, <1>7 DEF IInv, TypeOK, State

LEMMA YieldKeeps ==
  ASSUME IInv, NEW f \in Fiber, Yield(f)
  PROVE  IInv'
<1>1. active = f
  BY CallerActive, Zenon DEF Yield
<1>2. CASE Abort("yield")
  BY <1>2, AbortKeeps, Zenon DEF Assertion
<1>3. CASE YieldNow(f)
  <2> USE <1>3 DEF YieldNow, callVars
  <2>2. /\ tp \in [Fiber -> 0..TPMax]
        /\ \A x \in Fiber \ {f} : state'[x] = state[x] /\ tp[x] = tp[x]
    BY Zenon DEF IInv, TypeOK
  <2>4. /\ wqueue' \in Seq(Fiber) /\ Range(wqueue') = Range(wqueue) \cup {f}
        /\ IsInjective(wqueue') /\ Ordered(wqueue', state', tp')
    BY <1>1, <2>2, SuspendPushes, Zenon
  <2>5. TypeOK'
    BY <2>4, Zenon DEF IInv, TypeOK, State
  <2>6. QueueOrdered' /\ Placement' /\ \A g \in Fiber : Live(g)' <=> Live(g)
    BY <1>1, <2>4, SuspendPlaces, ZenonT(40) DEF QueueOrdered, IInv, TypeOK
  <2>7. HandleInv'
    BY <1>1, ActiveAlone, Zenon DEF IInv, TypeOK, HandleInv, Live
  <2> QED
    BY <2>5, <2>6, <2>7, Zenon DEF IInv, JoinersKnown, JoinInv
<1> QED
  BY <1>2, <1>3, Zenon DEF Yield

LEMMA SleepUntilKeeps ==
  ASSUME IInv, NEW f \in Fiber, NEW t \in Deadline, SleepUntil(f, t)
  PROVE  IInv'
<1>1. active = f /\ at[f] = "body"
  BY CallerActive, Zenon DEF SleepUntil
<1>2. CASE Abort("wait_until")
  BY <1>2, AbortKeeps, Zenon DEF Assertion
<1>3. CASE Sleep(f, t)
  <2> USE <1>3 DEF Sleep, WaitUntil
  <2>2. t \in 0..TPMax
    BY TimeAssumption, TPMaxAssumption
  <2>3. /\ tp' \in [Fiber -> 0..TPMax]
        /\ \A x \in Fiber \ {f} : state'[x] = state[x] /\ tp'[x] = tp[x]
    BY <2>2, Zenon DEF IInv, TypeOK
  <2>5. /\ wqueue' \in Seq(Fiber) /\ Range(wqueue') = Range(wqueue) \cup {f}
        /\ IsInjective(wqueue') /\ Ordered(wqueue', state', tp')
    BY ZenonT(40), <1>1, <2>3, SuspendPushes
  <2>6. TypeOK'
    BY <2>2, <2>3, <2>5, Zenon DEF IInv, TypeOK, State, Point, Context
  <2>7. QueueOrdered' /\ Placement' /\ \A g \in Fiber : Live(g)' <=> Live(g)
    BY <1>1, <2>5, SuspendPlaces, ZenonT(40) DEF QueueOrdered, IInv, TypeOK
  <2>8. HandleInv'
    BY <1>1, ActiveAlone, Zenon DEF IInv, TypeOK, HandleInv, Live
  <2>9. \A c \in Context : at'[c] = "join" <=> at[c] = "join"
    BY <1>1, Zenon DEF IInv, TypeOK, Context
  <2> QED
    BY <2>6, <2>7, <2>8, <2>9 DEF IInv, JoinInv, JoinersKnown, Context
<1> QED
  BY <1>2, <1>3, Zenon DEF SleepUntil

(* Steps of the active fiber or of the main context that change only the   *)
(* call a context is in, and leave join() alone.                           *)
LEMMA CallKeeps ==
  ASSUME IInv, UNCHANGED <<state, tp, except, waiting, schedVars, handle, failed>>,
         NEW c \in Context, at[c] # "join", at' \in [Context -> Point \ {"self"}],
         at'[c] # "join", \A d \in Context \ {c} : at'[d] = at[d],
         UNCHANGED target, until' \in [Context -> 0..TPMax], now' \in 0..MaxTime,
         flags' \in [Fiber -> SUBSET Flag],
         \A f \in Fiber : "detached" \in flags'[f] => "detached" \in flags[f]
  PROVE  IInv'
<1> USE DEF schedVars
<1>1. TypeOK'
  BY Zenon DEF IInv, TypeOK
<1>4. \A f \in Fiber : Live(f)' <=> Live(f)
  BY Zenon DEF Live
<1>5. \A d \in Context : at'[d] = "join" <=> at[d] = "join"
  BY Zenon
<1>6. JoinersKnown'
  BY <1>4, <1>5 DEF IInv, JoinersKnown, Context
<1> QED
  BY <1>1, <1>6, SameQueues, <1>4, <1>5, Zenon DEF IInv, HandleInv, JoinInv

LEMMA ThrowKeeps ==
  ASSUME IInv, NEW f \in Fiber, at[f] # "join", ThrowInterrupted(f)
  PROVE  IInv'
<1> USE DEF ThrowInterrupted
<1>1. /\ f \in Context /\ at' \in [Context -> Point \ {"self"}] /\ at'[f] # "join"
      /\ \A d \in Context \ {f} : at'[d] = at[d]
      /\ until' \in [Context -> 0..TPMax] /\ now' \in 0..MaxTime
  BY Zenon DEF IInv, TypeOK, Point, Context
<1>2. /\ flags' \in [Fiber -> SUBSET Flag]
      /\ \A g \in Fiber : "detached" \in flags'[g] => "detached" \in flags[g]
  BY Zenon DEF IInv, TypeOK, Flag
<1> QED
  BY <1>1, <1>2, CallKeeps, Zenon

LEMMA BackToBodyKeeps ==
  ASSUME IInv, NEW c \in Context, at[c] # "join", at' = [at EXCEPT ![c] = "body"],
         UNCHANGED <<fiberVars, schedVars, target, until, handle, now, failed>>
  PROVE  IInv'
<1>1. /\ at' \in [Context -> Point \ {"self"}] /\ at'[c] # "join"
      /\ \A d \in Context \ {c} : at'[d] = at[d]
      /\ until' \in [Context -> 0..TPMax] /\ now' \in 0..MaxTime
  BY Zenon DEF IInv, TypeOK, Point, Context
<1>2. /\ flags' \in [Fiber -> SUBSET Flag]
      /\ \A g \in Fiber : "detached" \in flags'[g] => "detached" \in flags[g]
  BY Zenon DEF IInv, TypeOK, fiberVars
<1> QED
  BY <1>1, <1>2, CallKeeps, Zenon DEF fiberVars

-----------------------------------------------------------------------------
(* The steps by which fibers act on each other: join, interrupt, detach    *)
(* and the end of a fiber.                                                 *)

LEMMA JoinKeeps ==
  ASSUME IInv, NEW f \in Fiber, NEW g \in Fiber, Join(f, g)
  PROVE  IInv'
<1>1. active = f /\ at[f] = "body" /\ g \in handle /\ g # f /\ ~Joining(g)
  BY CallerActive, Zenon DEF Join
<1>2. CASE Abort("set_waiting")
  BY <1>2, AbortKeeps, Zenon DEF Assertion
<1>3. CASE EnterJoin(f, g)
  <2> DEFINE st == [state EXCEPT ![f] = "WAITING"]
             q == Push(wqueue, f, st, tp)
  <2> USE DEF EnterJoin
  <2>1. f # None /\ Live(f) /\ f \notin Range(wqueue) /\ f \notin Range(rqueue)
    BY <1>1, ActiveAlone, Zenon
  <2>2. /\ st \in [Fiber -> State] /\ tp \in [Fiber -> 0..TPMax]
        /\ \A x \in Fiber \ {f} : st[x] = state[x] /\ tp[x] = tp[x]
    BY Zenon DEF IInv, TypeOK, State
  <2>3. /\ q \in Seq(Fiber) /\ Range(q) = Range(wqueue) \cup {f}
        /\ IsInjective(q) /\ Ordered(q, st, tp)
    <3> HIDE DEF st
    <3> QED
      BY <1>1, <2>2, SuspendPushes, Zenon
  <2>4. /\ wqueue' \in Seq(Fiber) /\ Range(wqueue') = Range(wqueue) \cup {f}
        /\ IsInjective(wqueue') /\ Ordered(wqueue', state', tp')
    <3>1. CASE state[g] = "TERMINATED"
      <4>1. wqueue' = MoveToRun(q, f) /\ state' = [st EXCEPT ![f] = "READY"] /\ tp' = tp
        BY <1>3, <3>1, Zenon DEF IInv, TypeOK
      <4>2. /\ MoveToRun(q, f) \in Seq(Fiber) /\ Range(MoveToRun(q, f)) = Range(q)
            /\ IsInjective(MoveToRun(q, f))
            /\ Ordered(MoveToRun(q, f), state', tp)
        <5>1. q \in Seq(Fiber) /\ IsInjective(q) /\ Ordered(q, st, tp)
          BY <2>3, Zenon
        <5>2. state'[f] = "READY" /\ \A x \in Range(q) \ {f} : state'[x] = st[x]
          <6>1. \A x \in Range(q) : x \in Fiber
            <7> HIDE DEF q
            <7> QED
              BY <2>3, QueuedFibers, Zenon
          <6> QED
            BY <4>1, <2>2, <6>1, Zenon
        <5> HIDE DEF st, q
        <5> QED
          BY <5>1, <5>2, MoveToRunKeeps
      <4> HIDE DEF st, q
      <4> QED
        BY <2>3, <4>1, <4>2, Zenon
    <3>2. CASE state[g] # "TERMINATED"
      <4>1. wqueue' = q /\ state' = st /\ tp' = tp
        BY <1>3, <3>2, Zenon
      <4> HIDE DEF st, q
      <4> QED
        BY <2>3, <4>1, Zenon
    <3> QED
      BY <3>1, <3>2, Zenon
  <2>5. /\ state' \in [Fiber -> State] /\ state'[f] \in {"READY", "WAITING"}
        /\ \A x \in Fiber \ {f} : state'[x] = state[x]
    BY <1>3, Zenon DEF IInv, TypeOK, State
  <2>6. QueueOrdered' /\ Placement' /\ \A x \in Fiber : Live(x)' <=> Live(x)
    <3>1. active' = None /\ UNCHANGED rqueue
      BY <1>3, Zenon
    <3> QED
      BY <1>1, <2>4, <2>5, <3>1, SuspendPlaces, Zenon DEF QueueOrdered
  <2>7. TypeOK'
    BY <1>3, <2>4, <2>5, Zenon DEF IInv, TypeOK, Point, Context
  <2>8. HandleInv'
    BY <1>3, <2>1, <2>5, Zenon DEF IInv, TypeOK, HandleInv, Live
  <2>9. /\ at'[f] = "join" /\ target'[f] = g
        /\ \A c \in Context \ {f} : at'[c] = at[c] /\ target'[c] = target[c]
    BY <1>3, Zenon DEF IInv, TypeOK, Context
  <2>10. Live(g) <=> state[g] # "TERMINATED"
    BY <1>1, Zenon DEF IInv, HandleInv, Live
  <2>11. JoinInv'
    BY <1>1, <1>3, <2>1, <2>6, <2>9 DEF IInv, JoinInv, Joining
  <2>12. JoinersKnown'
    <3>1. ASSUME NEW c \in Fiber PROVE waiting[g] # c
      BY <1>1 DEF IInv, JoinersKnown, Joining, Context
    <3>2. ASSUME NEW x \in Fiber PROVE waiting[x] # f
      BY <1>1, Zenon DEF IInv, JoinersKnown
    <3>3. /\ \A x \in Fiber \ {g} : waiting'[x] = waiting[x]
          /\ waiting'[g] = IF Live(g) THEN f ELSE waiting[g]
      BY <1>3, <2>10, Zenon DEF IInv, TypeOK
    <3>4. ASSUME NEW x \in Fiber, NEW c \in Fiber
          PROVE  waiting'[x] = c <=> at'[c] = "join" /\ target'[c] = x /\ Live(x)
      <4>1. waiting[x] = c <=> at[c] = "join" /\ target[c] = x /\ Live(x)
        BY Zenon DEF IInv, JoinersKnown
      <4>2. CASE c = f
        BY <1>1, <2>9, <3>1, <3>2, <3>3, <4>2, Zenon
      <4>3. CASE c # f /\ x # g
        BY <2>9, <3>3, <4>1, <4>3, Zenon DEF Context
      <4>4. CASE c # f /\ x = g
        BY <1>1, <2>9, <3>1, <3>3, <4>1, <4>4, Zenon DEF Context
      <4> QED
        BY <4>2, <4>3, <4>4, Zenon
    <3> QED
      BY <2>6, <3>4, Zenon DEF JoinersKnown
  <2> QED
    BY <2>6, <2>7, <2>8, <2>11, <2>12, Zenon DEF IInv
<1> QED
  BY <1>2, <1>3, Zenon DEF Join

(* join() ends only for a fiber that terminated: nobody waits on it. *)
LEMMA JoinEndsKeeps ==
  ASSUME IInv, NEW c \in Context, at[c] = "join", state[target[c]] = "TERMINATED",
         JoinEnds(c)
  PROVE  IInv'
<1> DEFINE g == target[c]
<1> USE DEF JoinEnds
<1>1. g \in Fiber /\ g \in handle /\ ~Live(g)
  BY Zenon DEF IInv, TypeOK, JoinInv, Live
<1>2. /\ \A x \in Fiber \ {g} : state'[x] = state[x]
      /\ state'[g] = "FREED" /\ state' \in [Fiber -> State]
  BY <1>1, Zenon DEF IInv, TypeOK, State
<1>3. \A x \in Fiber : Live(x)' <=> Live(x)
  BY <1>1, <1>2, Zenon DEF Live
<1>4. g \notin Range(wqueue) /\ g \notin Range(rqueue) /\ g # active
  BY <1>1, Zenon DEF IInv, Placement, Queued
<1>5. Range(wqueue) \subseteq Fiber /\ Range(rqueue) \subseteq Fiber
  BY QueuedFibers, Zenon
<1>6. Placement'
  <2>2. /\ \A f \in Range(wqueue) : state'[f] = state[f]
        /\ \A f \in Range(rqueue) : state'[f] = state[f]
    BY <1>2, <1>4, <1>5, Zenon
  <2> QED
    BY <1>3, <2>2, Zenon DEF IInv, Placement, Queued, schedVars
<1>7. QueueOrdered'
  <2>1. \A x \in Range(wqueue) : state'[x] = state[x] /\ tp'[x] = tp[x]
    BY <1>2, <1>4, <1>5, Zenon
  <2>2. wqueue \in Seq(Fiber) /\ Ordered(wqueue, state, tp)
    BY Zenon DEF IInv, TypeOK, QueueOrdered
  <2>3. Ordered(wqueue, state', tp')
    BY <2>1, <2>2, OrderedAgree, ZenonT(40)
  <2> QED
    BY <2>3, Zenon DEF QueueOrdered, schedVars
<1>8. TypeOK'
  BY <1>2, Zenon DEF IInv, TypeOK, Point, schedVars
<1>9. /\ at'[c] # "join"
      /\ \A d \in Context \ {c} : at'[d] = at[d] /\ target'[d] = target[d]
  BY Zenon DEF IInv, TypeOK
<1>10. HandleInv'
  BY <1>2, Zenon DEF IInv, HandleInv
<1>11. JoinInv'
  BY <1>1, <1>3, <1>9 DEF IInv, JoinInv
<1>12. JoinersKnown'
  <2>1. ASSUME NEW x \in Fiber PROVE waiting[x] # c \/ c \notin Fiber
    BY <1>1 DEF IInv, JoinersKnown
  <2> QED
    BY <1>3, <1>9, <2>1 DEF IInv, JoinersKnown, Context
<1> QED
  BY <1>6, <1>7, <1>8, <1>10, <1>11, <1>12, Zenon DEF IInv

(* interrupt() makes a live fiber ready wherever it is. *)
LEMMA InterruptKeeps ==
  ASSUME IInv, NEW c \in Context, NEW g \in Fiber, Interrupt(c, g)
  PROVE  IInv'
<1>1. CASE state[g] = "TERMINATED"
  BY <1>1, AbortKeeps, Zenon DEF Interrupt, Assertion
<1>2. CASE state[g] # "TERMINATED"
  <2> USE DEF Interrupt, callVars
  <2>1. Live(g) /\ g \in handle
    BY <1>2, Zenon DEF IInv, HandleInv, Live
  <2>2. /\ state' \in [Fiber -> State] /\ state'[g] = "READY"
        /\ \A x \in Fiber \ {g} : state'[x] = state[x]
        /\ wqueue' = MoveToRun(wqueue, g)
        /\ UNCHANGED <<tp, rqueue, active>>
    BY <1>2, ZenonT(40) DEF IInv, TypeOK, State
  <2>3. /\ wqueue' \in Seq(Fiber) /\ Range(wqueue') = Range(wqueue)
        /\ IsInjective(wqueue') /\ Ordered(wqueue', state', tp')
    BY <2>2, SetReadyMoves, QueuedFibers, Zenon
  <2>4. /\ flags' \in [Fiber -> SUBSET Flag]
        /\ \A x \in Fiber : "detached" \in flags'[x] => "detached" \in flags[x]
    <3>2. flags \in [Fiber -> SUBSET Flag] /\ flags[g] \cup {"requested"} \in SUBSET Flag
      BY Zenon DEF IInv, TypeOK, Flag
    <3> QED
      BY <3>2, <1>2
  <2>a. TypeOK'
    BY <1>2, <2>2, <2>3, <2>4, Zenon DEF IInv, TypeOK
  <2>5. \A x \in Fiber : Live(x)' <=> Live(x)
    BY <2>1, <2>2, Zenon DEF Live
  <2>6. Range(wqueue) \subseteq Fiber /\ Range(rqueue) \subseteq Fiber
    BY QueuedFibers, Zenon
  <2>7. Placement'
    <3>1. \A f \in Range(wqueue) : state'[f] \in {"READY", "WAITING"}
      BY <2>2, <2>6, Zenon DEF IInv, Placement
    <3>2. \A f \in Range(rqueue) : state'[f] = "READY"
      BY <2>2, <2>6, Zenon DEF IInv, Placement
    <3> QED
      BY <2>2, <2>3, <2>5, <3>1, <3>2, Zenon DEF IInv, Placement, Queued
  <2>8. QueueOrdered'
    BY <2>3, Zenon DEF QueueOrdered
  <2>9. UNCHANGED <<waiting, handle, at, target>>
    BY <1>2, Zenon
  <2>10. HandleInv'
    BY <2>1, <2>2, <2>4, <2>9, Zenon DEF IInv, HandleInv, Live
  <2>11. JoinersKnown' /\ JoinInv'
    BY <2>5, <2>9 DEF IInv, JoinersKnown, JoinInv
  <2> QED
    BY <2>a, <2>7, <2>8, <2>10, <2>11, Zenon DEF IInv
<1> QED
  BY <1>1, <1>2, Zenon

LEMMA DetachKeeps ==
  ASSUME IInv, NEW c \in Context, NEW g \in Fiber, Detach(c, g)
  PROVE  IInv'
<1> USE DEF Detach, schedVars, callVars
<1>1. TypeOK'
  BY Zenon DEF IInv, TypeOK, Flag
<1>3. HandleInv'
  BY Zenon DEF IInv, TypeOK, HandleInv
<1>4. \A f \in Fiber : Live(f)' <=> Live(f)
  BY Zenon DEF Live
<1>5. JoinersKnown'
  BY <1>4, ZenonT(40) DEF IInv, JoinersKnown
<1>6. JoinInv'
  BY <1>4, ZenonT(40) DEF IInv, JoinInv, Joining
<1> QED
  BY <1>1, <1>3, <1>5, <1>6, SameQueues, Zenon DEF IInv

LEMMA DisableInterruptionKeeps ==
  ASSUME IInv, NEW f \in Fiber, DisableInterruption(f)
  PROVE  IInv'
<1> USE DEF DisableInterruption, schedVars, callVars
<1>1. TypeOK'
  BY Zenon DEF IInv, TypeOK, Flag
<1>2. Placement' /\ QueueOrdered' /\ JoinersKnown' /\ JoinInv'
  BY SameQueues, SameJoins, Zenon
<1>4. HandleInv'
  BY Zenon DEF IInv, HandleInv, TypeOK
<1> QED
  BY <1>1, <1>2, <1>4, Zenon DEF IInv

(* A fiber ends: whoever waits on it in join() is in a queue and is made   *)
(* ready there.                                                            *)
LEMMA TerminateKeeps ==
  ASSUME IInv, NEW f \in Fiber, active = f, at[f] # "join", Terminate(f),
         except' \in SUBSET Fiber
  PROVE  IInv'
<1> DEFINE p == waiting[f]
<1> USE DEF Terminate, Release
<1>1. f # None /\ Live(f) /\ f \notin Range(wqueue) /\ f \notin Range(rqueue)
  BY ActiveAlone, Zenon
<1>2. Range(wqueue) \subseteq Fiber /\ Range(rqueue) \subseteq Fiber
  BY QueuedFibers, Zenon
<1>3. Ended(f) \in {"TERMINATED", "FREED"} /\ (f \in handle => Ended(f) = "TERMINATED")
  BY Zenon DEF IInv, HandleInv, Ended
<1>4. p # None => p \in Fiber /\ p # f /\ Live(p)
  BY DEF IInv, TypeOK, JoinersKnown, JoinInv, Context
<1>5. /\ state' \in [Fiber -> State] /\ state'[f] = Ended(f)
      /\ p # None => state'[p] = "READY"
      /\ \A x \in Fiber \ {f, p} : state'[x] = state[x]
  BY <1>3, <1>4, ZenonT(40) DEF IInv, TypeOK, State
<1>6. \A x \in Fiber : Live(x)' <=> Live(x) /\ x # f
  BY <1>3, <1>4, <1>5, ContextAssumption, Zenon DEF Live, Context
<1>7. /\ wqueue' \in Seq(Fiber) /\ Range(wqueue') = Range(wqueue)
      /\ IsInjective(wqueue') /\ Ordered(wqueue', state', tp')
  <2>1. wqueue \in Seq(Fiber) /\ IsInjective(wqueue) /\ Ordered(wqueue, state, tp)
    BY Zenon DEF IInv, TypeOK, Placement, QueueOrdered
  <2>2. \A x \in Range(wqueue) \ {p} : state'[x] = state[x] /\ tp'[x] = tp[x]
    BY <1>1, <1>2, <1>5, ZenonT(40)
  <2>3. CASE p = None
    <3>1. \A x \in Range(wqueue) : state'[x] = state[x] /\ tp'[x] = tp[x]
      BY <1>2, <2>2, <2>3, ContextAssumption, Zenon DEF Context
    <3>2. Ordered(wqueue, state', tp')
      <4> HIDE DEF Terminate
      <4> QED
        BY <2>1, <3>1, OrderedAgree, Zenon
    <3> QED
      BY <2>1, <2>3, <3>2, Zenon
  <2>4. CASE p # None
    <3>1. PICK w \in Fiber : w = p
      BY <2>4, <1>4, ZenonT(40)
    <3>2. state'[w] = "READY" /\ \A x \in Range(wqueue) \ {w} : state'[x] = state[x]
      BY <2>2, <2>4, <3>1, <1>5, ZenonT(40)
    <3>3. /\ MoveToRun(wqueue, w) \in Seq(Fiber)
          /\ Range(MoveToRun(wqueue, w)) = Range(wqueue)
          /\ IsInjective(MoveToRun(wqueue, w))
          /\ Ordered(MoveToRun(wqueue, w), state', tp)
      <4> HIDE DEF Terminate
      <4> QED
        BY <3>2, SetReadyMoves, Zenon
    <3> QED
      BY <2>4, <3>1, <3>3, Zenon
  <2> QED
    BY <2>3, <2>4, Zenon
<1>8. TypeOK'
  BY <1>5, <1>7, ZenonT(40) DEF IInv, TypeOK, Point, Context
<1>9. Placement'
  <2>1. \A x \in Range(wqueue) : state'[x] \in {"READY", "WAITING"}
    BY <1>1, <1>2, <1>4, <1>5, Zenon DEF IInv, Placement
  <2>2. \A x \in Range(rqueue) : state'[x] = "READY"
    BY <1>1, <1>2, <1>4, <1>5, Zenon DEF IInv, Placement
  <2>3. \A x \in Fiber : Live(x)' <=> x \in Range(wqueue) \cup Range(rqueue)
    BY <1>1, <1>6, Zenon DEF IInv, Placement, Queued
  <2>4. None \notin Range(wqueue) \cup Range(rqueue) /\ None \notin Fiber
    BY <1>2, ContextAssumption, Zenon DEF Context
  <2> QED
    BY <1>7, <2>1, <2>2, <2>3, <2>4, ZenonT(40) DEF IInv, Placement, Queued
<1>10. QueueOrdered'
  BY <1>7, Zenon DEF QueueOrdered
<1>11. HandleInv'
  BY <1>3, <1>4, <1>5, Zenon DEF IInv, HandleInv, Live
<1>12. \A c \in Context : at'[c] = "join" <=> at[c] = "join"
  BY Zenon DEF IInv, TypeOK, Context
<1>13. JoinInv'
  BY <1>6, <1>12, ZenonT(40) DEF IInv, JoinInv
<1>14. JoinersKnown'
  <2>1. waiting'[f] = None /\ \A x \in Fiber \ {f} : waiting'[x] = waiting[x]
    BY Zenon DEF IInv, TypeOK
  <2>2. target' = target /\ None \notin Fiber /\ Fiber \subseteq Context
    BY ContextAssumption, Zenon DEF Context
  <2> HIDE DEF Terminate, Release
  <2> SUFFICES ASSUME NEW g \in Fiber, NEW c \in Fiber
               PROVE  waiting'[g] = c <=> at'[c] = "join" /\ target'[c] = g /\ Live(g)'
    BY Zenon DEF JoinersKnown
  <2>4. (at'[c] = "join" <=> at[c] = "join") /\ target'[c] = target[c]
    BY <1>12, <2>2, Zenon
  <2>5. CASE g = f
    BY <1>6, <2>1, <2>2, <2>5, Zenon
  <2>6. CASE g # f
    BY <1>6, <2>1, <2>4, <2>6 DEF IInv, JoinersKnown
  <2> QED
    BY <2>5, <2>6, Zenon
<1> QED
  BY <1>8, <1>9, <1>10, <1>11, <1>13, <1>14, Zenon DEF IInv

-----------------------------------------------------------------------------
(* The steps of the scheduler. *)

(* run(): the ready prefix of the waiting queue goes to the ready queue,   *)
(* whose head is resumed.                                                  *)
LEMMA RunKeeps ==
  ASSUME IInv, active = None, Run
  PROVE  IInv'
<1> DEFINE k == ReadyPrefix(wqueue, now, state, tp, Requested)
           moved == SubSeq(wqueue, 1, k)
           left == SubSeq(wqueue, k + 1, Len(wqueue))
           ready == rqueue \o moved
           woken == [f \in Fiber |-> IF f \in Range(moved) THEN "READY" ELSE state[f]]
<1>1. /\ wqueue \in Seq(Fiber) /\ IsInjective(wqueue) /\ Ordered(wqueue, state, tp)
      /\ rqueue \in Seq(Fiber) /\ IsInjective(rqueue)
      /\ Range(wqueue) \cap Range(rqueue) = {}
  BY Zenon DEF IInv, TypeOK, Placement, QueueOrdered
<1>2. k \in 0..Len(wqueue)
  BY <1>1, ReadyPrefixFits, Zenon
<1>3. /\ moved \in Seq(Fiber) /\ left \in Seq(Fiber)
      /\ IsInjective(moved) /\ IsInjective(left)
      /\ Range(moved) \cap Range(left) = {} /\ Range(moved) \cup Range(left) = Range(wqueue)
      /\ Ordered(left, state, tp)
  <2> HIDE DEF k
  <2> QED
    BY <1>1, <1>2, SplitKeeps, Zenon
<1>5. /\ ready \in Seq(Fiber) /\ IsInjective(ready)
      /\ Range(ready) = Range(rqueue) \cup Range(moved)
  <2> HIDE DEF moved
  <2> QED
    BY <1>1, <1>3, ConcatKeeps
<1>6. /\ wqueue' = left
      /\ tp' = [f \in Fiber |-> IF f \in Range(moved) THEN TPMax ELSE tp[f]]
      /\ ready = <<>> => now' = NextWakeup(left) /\ UNCHANGED <<state, rqueue, active>>
      /\ ready # <<>> => Dispatch(ready, woken) /\ UNCHANGED now
      /\ UNCHANGED <<flags, except, waiting, at, target, until, handle, failed>>
  BY Zenon DEF Run, callVars
<1>7. Range(wqueue) \subseteq Fiber /\ Range(rqueue) \subseteq Fiber
  BY QueuedFibers, Zenon
<1> HIDE DEF k, moved, left, ready
<1>8. tp' \in [Fiber -> 0..TPMax] /\ \A x \in Range(left) : tp'[x] = tp[x]
  BY <1>3, <1>6, <1>7, TPMaxAssumption DEF IInv, TypeOK
<1>9. None \notin Fiber
  BY ContextAssumption, Zenon DEF Context
<1>10. CASE ready = <<>>
  <2>1. Range(ready) = {}
    BY <1>10 DEF Range
  <2>2. Range(left) = Range(wqueue)
    BY <2>1, <1>3, <1>5, ZenonT(40)
  <2>3. now' \in 0..MaxTime
    <3> DEFINE w == IF left = <<>> THEN now + WaitInterval
                    ELSE IF tp[Head(left)] = TPMax THEN now + WaitInterval ELSE tp[Head(left)]
    <3>2. now' = Min({MaxTime, w})
      BY <1>6, <1>10, ZenonT(40) DEF NextWakeup
    <3>3. {MaxTime, w} \in SUBSET Nat /\ {MaxTime, w} # {}
      BY TimeAssumption, TPMaxAssumption, <1>3 DEF IInv, TypeOK
    <3> HIDE DEF w
    <3>5. PICK n \in Nat : n = Min({MaxTime, w}) /\ n <= MaxTime
      BY <3>3, MinNat
    <3> QED
      BY <3>2, <3>5, TimeAssumption
  <2>4. Ordered(left, state', tp')
    <3>1. \A x \in Range(left) : state'[x] = state[x] /\ tp'[x] = tp[x]
      BY <1>6, <1>8, <1>10, Zenon
    <3> QED
      BY <1>3, <3>1, OrderedAgree
  <2>5. TypeOK'
    BY <1>3, <1>6, <1>8, <1>10, <2>3 DEF IInv, TypeOK
  <2>6. Placement' /\ QueueOrdered'
    BY <1>3, <1>6, <1>10, <2>2, <2>4, ZenonT(40) DEF IInv, Placement, QueueOrdered, Queued, Live
  <2>7. JoinersKnown' /\ HandleInv' /\ JoinInv'
    BY <1>6, <1>10, SameJoins, SameHandles, ZenonT(40)
  <2> QED
    BY <2>5, <2>6, <2>7, Zenon DEF IInv
<1>11. CASE ready # <<>>
  <2>1. PICK h \in Fiber : h = Head(ready)
    BY <1>5, <1>11
  <2>2. /\ Tail(ready) \in Seq(Fiber) /\ IsInjective(Tail(ready))
        /\ h \in Range(ready) /\ h \notin Range(Tail(ready))
        /\ Range(ready) = Range(Tail(ready)) \cup {h}
    BY <1>5, <1>11, <2>1, TailKeeps, Zenon
  <2>3. rqueue' = Tail(ready) /\ active' = h /\ state' = [woken EXCEPT ![h] = "RUNNING"]
    BY <1>6, <1>11, <2>1, Zenon DEF Dispatch
  <2>4. /\ state' \in [Fiber -> State] /\ state'[h] = "RUNNING"
        /\ \A x \in Range(moved) \ {h} : state'[x] = "READY"
        /\ \A x \in Fiber \ (Range(moved) \cup {h}) : state'[x] = state[x]
    BY <2>3, <1>3, <1>7, Zenon DEF IInv, TypeOK, State
  <2> HIDE DEF woken
  <2>5. h \notin Range(left) /\ Range(left) \cap Range(rqueue') = {}
    BY <1>1, <1>3, <1>5, <2>2, <2>3, Zenon
  <2>6. Ordered(left, state', tp')
    <3>1. \A x \in Range(left) : state'[x] = state[x] /\ tp'[x] = tp[x]
      BY <1>3, <1>7, <1>8, <2>4, <2>5, Zenon
    <3> QED
      BY <1>3, <3>1, OrderedAgree, Zenon
  <2>7. TypeOK'
    BY <1>3, <1>6, <1>8, <1>11, <2>2, <2>3, <2>4 DEF IInv, TypeOK
  <2>8. \A x \in Fiber : Live(x)' <=> Live(x)
    <3>1. \A x \in Range(moved) \cup {h} : Live(x) /\ state'[x] \in {"READY", "RUNNING"}
      BY <1>3, <1>5, <1>7, <2>2, <2>4, Zenon DEF IInv, Placement, Queued
    <3> QED
      BY <2>4, <3>1, Zenon DEF Live
  <2>9. Placement'
    <3>1. \A x \in Range(left) : state'[x] \in {"READY", "WAITING"}
      BY <1>3, <1>7, <2>4, <2>5, ZenonT(40) DEF IInv, Placement
    <3>2. \A x \in Range(rqueue') : state'[x] = "READY"
      BY <1>3, <1>5, <1>7, <2>2, <2>3, <2>4 DEF IInv, Placement
    <3>3. \A x \in Fiber : Live(x) <=> x \in Range(left) \cup Range(rqueue') \cup {h}
      BY <1>3, <1>5, <1>9, <2>2, <2>3, Zenon DEF IInv, Placement, Queued
    <3> QED
      BY <1>3, <1>6, <2>2, <2>3, <2>5, <2>8, <3>1, <3>2, <3>3, Zenon DEF Placement,
          Queued
  <2>10. QueueOrdered'
    BY <1>6, <2>6, Zenon DEF QueueOrdered
  <2>11. HandleInv'
    <3>1. \A x \in Fiber : state'[x] = state[x] \/ (Live(x) /\ Live(x)')
      <4>1. \A x \in Range(moved) \cup {h} : Live(x)
        BY <1>3, <1>5, <1>7, <2>2, <2>4 DEF IInv, Placement, Queued
      <4> QED
        BY <2>4, <2>8, <4>1, Zenon
    <3> QED
      BY <1>6, <3>1, Zenon DEF IInv, HandleInv, Live
  <2>12. JoinersKnown' /\ JoinInv'
    BY <1>6, <2>8, Zenon DEF IInv, JoinersKnown, JoinInv
  <2> QED
    BY <2>7, <2>9, <2>10, <2>11, <2>12, Zenon DEF IInv
<1> QED
  BY <1>10, <1>11, Zenon

LEMMA MainJoinKeeps ==
  ASSUME IInv, NEW g \in Fiber, MainJoin(g)
  PROVE  IInv'
<1> USE DEF MainJoin, fiberVars, schedVars
<1>1. /\ at'[Main] = "join" /\ target'[Main] = g /\ Main \in Context
      /\ \A c \in Context \ {Main} : at'[c] = at[c] /\ target'[c] = target[c]
  BY Zenon DEF IInv, TypeOK, Context
<1>2. TypeOK'
  BY ZenonT(40) DEF IInv, TypeOK, Point
<1>3. Placement' /\ QueueOrdered' /\ HandleInv'
  BY SameQueues, SameHandles, Zenon
<1>4. \A f \in Fiber : (Live(f)' <=> Live(f)) /\ f \in Context \ {Main}
  BY ContextAssumption, Zenon DEF Live, Context
<1>a. UNCHANGED <<waiting, handle>> /\ g \in handle /\ ~Joining(g)
  BY Zenon
<1> HIDE DEF MainJoin
<1>5. JoinersKnown'
  BY <1>1, <1>4, <1>a DEF JoinersKnown, IInv
<1>6. JoinInv'
  <2> SUFFICES ASSUME NEW c \in Context, at'[c] = "join"
               PROVE  /\ target'[c] \in handle
                      /\ \A d \in Context : at'[d] = "join" /\ target'[d] = target'[c]
                           => d = c
                      /\ c \in Fiber => Live(c)'
    BY <1>a, Zenon DEF JoinInv
  <2>1. CASE c = Main
    BY <1>1, <1>a, <2>1, ContextAssumption, Zenon DEF Joining
  <2>2. CASE c # Main
    BY <1>1, <1>4, <1>a, <2>2, Zenon DEF Joining, IInv, JoinInv
  <2> QED
    BY <2>1, <2>2, Zenon
<1> QED
  BY <1>2, <1>3, <1>5, <1>6, Zenon DEF IInv

LEMMA MainSleepKeeps ==
  ASSUME IInv, NEW t \in Deadline, MainSleep(t)
  PROVE  IInv'
<1> USE DEF MainSleep, fiberVars
<1>1. t \in 0..TPMax
  BY TimeAssumption, TPMaxAssumption
<1>2. /\ Main \in Context /\ at[Main] # "join" /\ at'[Main] # "join"
      /\ at' \in [Context -> Point \ {"self"}] /\ until' \in [Context -> 0..TPMax]
      /\ \A d \in Context \ {Main} : at'[d] = at[d]
      /\ now' \in 0..MaxTime /\ flags' \in [Fiber -> SUBSET Flag]
  BY <1>1, Zenon DEF IInv, TypeOK, Point, Context, Calls
<1> QED
  BY <1>2, CallKeeps, Zenon

LEMMA TickKeeps ==
  ASSUME IInv, Tick
  PROVE  IInv'
<1> USE DEF Tick, fiberVars, schedVars, callVars
<1>1. TypeOK'
  BY TimeAssumption DEF IInv, TypeOK
<1>3. JoinersKnown' /\ HandleInv' /\ JoinInv'
  BY SameJoins, SameHandles, Zenon
<1> QED
  BY <1>1, <1>3, SameQueues, Zenon DEF IInv

-----------------------------------------------------------------------------
LEMMA FiberStepKeeps ==
  ASSUME IInv, NEW f \in Fiber, FiberStep(f)
  PROVE  IInv'
<1>0. f \in Context /\ at[f] \in Point
  BY Zenon DEF IInv, TypeOK, Context
<1>1. CASE Yield(f)
  BY <1>1, YieldKeeps, Zenon
<1>2. CASE SleepReturns(f)
  <2>1. at[f] # "join"
    BY <1>2, Zenon DEF SleepReturns, Resumed
  <2>2. CASE ThrowInterrupted(f)
    BY <2>1, <2>2, ThrowKeeps, Zenon
  <2>3. CASE /\ at' = [at EXCEPT ![f] = "body"]
             /\ UNCHANGED <<fiberVars, schedVars, target, until, handle, now, failed>>
    BY <1>0, <2>1, <2>3, BackToBodyKeeps, ZenonT(40)
  <2> QED
    BY <1>2, <2>2, <2>3, Zenon DEF SleepReturns
<1>3. CASE JoinReturns(f)
  <2>1. CASE Abort("join")
    BY <2>1, AbortKeeps, Zenon DEF Assertion
  <2>2. CASE state[target[f]] = "TERMINATED" /\ JoinEnds(f)
    BY <1>0, <1>3, <2>2, JoinEndsKeeps, Zenon DEF JoinReturns, Resumed
  <2> QED
    BY <1>3, <2>1, <2>2, Zenon DEF JoinReturns
<1>4. CASE Return(f)
  <2>1. active = f /\ at[f] = "body"
    BY <1>4, CallerActive, Zenon DEF Return
  <2>2. CASE Abort("trampoline")
    BY <2>2, AbortKeeps, Zenon DEF Assertion
  <2>3. CASE Terminate(f) /\ UNCHANGED except
    BY <2>1, <2>3, TerminateKeeps DEF IInv, TypeOK
  <2> QED
    BY <1>4, <2>2, <2>3, Zenon DEF Return
<1>5. CASE Unwind(f)
  <2>1. active = f /\ at[f] = "throw"
    BY <1>5, ZenonT(40) DEF Unwind, Resumed
  <2>2. CASE Abort("set_terminated")
    BY <2>2, AbortKeeps DEF Assertion
  <2>3. CASE Terminate(f) /\ except' = except \cup {f}
    BY <2>1, <2>3, TerminateKeeps, ZenonT(40) DEF IInv, TypeOK
  <2> QED
    BY <1>5, <2>2, <2>3, Zenon DEF Unwind
<1>6. ASSUME NEW t \in Deadline, SleepUntil(f, t) PROVE IInv'
  BY <1>6, SleepUntilKeeps, Zenon
<1>7. ASSUME NEW g \in Fiber, Join(f, g) PROVE IInv'
  BY <1>7, JoinKeeps, Zenon
<1> QED
  BY <1>1, <1>2, <1>3, <1>4, <1>5, <1>6, <1>7, Zenon DEF FiberStep

(* Every step preserves the inductive invariant. *)
LEMMA NextIInv == IInv /\ [Next]_vars => IInv'
<1> SUFFICES ASSUME IInv, [Next]_vars PROVE IInv'
  BY Zenon
<1>1. ASSUME NEW f \in Fiber, FiberStep(f) PROVE IInv'
  BY <1>1, FiberStepKeeps, Zenon
<1>2. ASSUME NEW f \in Fiber, Catch(f) PROVE IInv'
  <2>1. f \in Context /\ at[f] # "join"
    BY <1>2, Zenon DEF Catch, Resumed, Context
  <2> QED
    BY <1>2, <2>1, BackToBodyKeeps, ZenonT(40) DEF Catch
<1>3. ASSUME NEW f \in Fiber, InterruptionPoint(f) PROVE IInv'
  BY <1>3, ThrowKeeps, Zenon DEF InterruptionPoint, Calls
<1>4. ASSUME NEW f \in Fiber, DisableInterruption(f) PROVE IInv'
  BY <1>4, DisableInterruptionKeeps, Zenon
<1>5. ASSUME NEW c \in Context, LocalCall(c) PROVE IInv'
  BY <1>5, SpawnKeeps, InterruptKeeps, DetachKeeps, Zenon DEF LocalCall
<1>6. CASE MainRun
  BY <1>6, RunKeeps, Zenon DEF MainRun, MainHasControl
<1>7. CASE MainReturns
  <2>1. Main \in Context
    BY Zenon DEF Context
  <2>2. CASE at[Main] = "join" /\ JoinEnds(Main)
    BY <1>7, <2>1, <2>2, JoinEndsKeeps, Zenon DEF MainReturns, MainLoops
  <2>3. CASE /\ at[Main] = "sleep" /\ at' = [at EXCEPT ![Main] = "body"]
             /\ UNCHANGED <<fiberVars, schedVars, target, until, handle, now, failed>>
    BY <2>1, <2>3, BackToBodyKeeps, ZenonT(40)
  <2> QED
    BY <1>7, <2>2, <2>3, Zenon DEF MainReturns
<1>8. ASSUME NEW g \in Fiber, MainJoin(g) PROVE IInv'
  BY <1>8, MainJoinKeeps, Zenon
<1>9. ASSUME NEW t \in Deadline, MainSleep(t) PROVE IInv'
  BY <1>9, MainSleepKeeps, Zenon
<1>10. CASE Tick
  BY <1>10, TickKeeps, Zenon
<1>11. CASE UNCHANGED vars
  <2> USE <1>11 DEF vars, fiberVars, schedVars, callVars
  <2>1. TypeOK'
    BY Zenon DEF IInv, TypeOK
  <2> QED
    BY <2>1, SameQueues, SameJoins, SameHandles, Zenon DEF IInv
<1> QED
  BY <1>1, <1>2, <1>3, <1>4, <1>5, <1>6, <1>7, <1>8, <1>9, <1>10, <1>11 DEF Next

(* The inductive invariant holds in every reachable state of the           *)
(* scheduler.                                                              *)
THEOREM Inductive == Spec => []IInv
<1>1. Init => IInv
  BY InitIInv, Zenon
<1>2. IInv /\ [Next]_vars => IInv'
  BY NextIInv, Zenon
<1> QED
  BY <1>1, <1>2, PTL DEF Spec

(* The variables of the scheduler keep their types. *)
THEOREM TypeCorrect == Spec => []TypeOK
<1>1. IInv => TypeOK
  BY Zenon DEF IInv
<1> QED
  BY <1>1, Inductive, PTL

(* Whatever clients spawn, join, detach and interrupt, run(), yield(),     *)
(* wait_until(), join() and release() neither lose a live fiber nor queue  *)
(* it twice.                                                               *)
THEOREM FibersPlaced == Spec => []Placement
<1>1. IInv => Placement
  BY Zenon DEF IInv
<1> QED
  BY <1>1, Inductive, PTL

(* push(), move_to_run() and move_to() keep wqueue_ in the order move_to() *)
(* relies on.                                                              *)
THEOREM WaitingQueueOrdered == Spec => []QueueOrdered
<1>1. IInv => QueueOrdered
  BY Zenon DEF IInv
<1> QED
  BY <1>1, Inductive, PTL

(* waiting_ is exactly the fiber blocked in join(), so release() wakes it. *)
THEOREM EveryJoinerKnown == Spec => []JoinersKnown
<1>1. IInv => JoinersKnown
  BY Zenon DEF IInv
<1> QED
  BY <1>1, Inductive, PTL

(* No queue, waiting_ list, fiber object or join() refers to a fiber after *)
(* deallocate().                                                           *)
THEOREM FreedUnreferenced == Spec => []NoDangling
<1>1. IInv => NoDangling
  <2> SUFFICES ASSUME IInv, NEW g \in Fiber, state[g] = "FREED"
               PROVE  /\ g \notin Queued \cup {active} \cup handle
                      /\ \A f \in Fiber : waiting[f] # g
                      /\ ~Joining(g)
    BY Zenon DEF NoDangling
  <2>1. g \notin Queued \cup {active}
    BY Zenon DEF IInv, Placement, Live
  <2>2. g \notin handle
    BY Zenon DEF IInv, HandleInv
  <2>3. ASSUME NEW f \in Fiber PROVE waiting[f] # g
    BY Zenon DEF IInv, JoinersKnown, JoinInv, Live, Context
  <2>4. ~Joining(g)
    BY <2>2, Zenon DEF IInv, JoinInv, Joining
  <2> QED
    BY <2>1, <2>2, <2>3, <2>4, Zenon
<1> QED
  BY <1>1, Inductive, PTL
-----------------------------------------------------------------------------
(* What run() does to each fiber: it takes one from the waiting queue only *)
(* if fetch_ready() accepts it, and it resumes one that was ready.         *)
Taken(f) == FetchReady(f, now, state, tp, Requested)

LEMMA RunTakes ==
  ASSUME IInv, active = None, Run
  PROVE  /\ UNCHANGED <<flags, except, waiting, at, target, until, handle, failed>>
         /\ now' >= now
         /\ active' # None => active' \in Fiber /\ state'[active'] = "RUNNING"
         /\ \A f \in Fiber :
              \/ /\ state'[f] = state[f] /\ tp'[f] = tp[f]
                 /\ f \in Range(wqueue) => f \in Range(wqueue')
              \/ /\ Live(f) /\ Taken(f) /\ state'[f] \in {"READY", "RUNNING"}
                 /\ tp'[f] = TPMax
              \/ /\ f \in Range(rqueue) /\ state[f] = "READY" /\ state'[f] = "RUNNING"
                 /\ tp'[f] = tp[f]
<1> DEFINE k == ReadyPrefix(wqueue, now, state, tp, Requested)
           moved == SubSeq(wqueue, 1, k)
           left == SubSeq(wqueue, k + 1, Len(wqueue))
           ready == rqueue \o moved
           woken == [f \in Fiber |-> IF f \in Range(moved) THEN "READY" ELSE state[f]]
<1>1. /\ wqueue \in Seq(Fiber) /\ IsInjective(wqueue) /\ Ordered(wqueue, state, tp)
      /\ rqueue \in Seq(Fiber) /\ IsInjective(rqueue)
      /\ Range(wqueue) \cap Range(rqueue) = {}
  BY Zenon DEF IInv, TypeOK, Placement, QueueOrdered
<1>2. k \in 0..Len(wqueue)
  BY <1>1, ReadyPrefixFits, Zenon
<1>a. \A i \in 1..k : Taken(wqueue[i])
  BY <1>1, ReadyPrefixFits, Zenon DEF Taken
<1>b. k < Len(wqueue) => ~Taken(wqueue[k + 1])
  BY <1>1, ReadyPrefixStops, Zenon DEF Taken
<1>3. /\ moved \in Seq(Fiber) /\ left \in Seq(Fiber)
      /\ IsInjective(moved)
      /\ Range(moved) \cap Range(left) = {} /\ Range(moved) \cup Range(left) = Range(wqueue)
  <2> HIDE DEF k
  <2> QED
    BY <1>1, <1>2, SplitKeeps, Zenon
<1>c. \A x \in Range(moved) : Taken(x)
  <2> HIDE DEF k
  <2>1. Len(moved) = k /\ \A i \in 1..k : moved[i] = wqueue[i]
    BY <1>1, <1>2
  <2> HIDE DEF moved
  <2>2. DOMAIN moved = 1..k
    BY <1>3, <2>1
  <2> QED
    BY <2>2, <1>a, <2>1, Zenon DEF Range
<1>d. left # <<>> => k < Len(wqueue) /\ Head(left) = wqueue[k + 1]
  <2> HIDE DEF k
  <2> QED
    BY <1>1, <1>2
<1>5. /\ ready \in Seq(Fiber) /\ IsInjective(ready)
      /\ Range(ready) = Range(rqueue) \cup Range(moved)
  <2> HIDE DEF moved
  <2> QED
    BY <1>1, <1>3, ConcatKeeps
<1>6. /\ wqueue' = left
      /\ tp' = [f \in Fiber |-> IF f \in Range(moved) THEN TPMax ELSE tp[f]]
      /\ ready = <<>> => now' = NextWakeup(left) /\ UNCHANGED <<state, rqueue, active>>
      /\ ready # <<>> => Dispatch(ready, woken) /\ UNCHANGED now
      /\ UNCHANGED <<flags, except, waiting, at, target, until, handle, failed>>
  BY Zenon DEF Run, callVars
<1>7. Range(wqueue) \subseteq Fiber /\ Range(rqueue) \subseteq Fiber
  BY QueuedFibers, Zenon
<1> HIDE DEF k, moved, left, ready
<1>8. \A x \in Fiber : tp'[x] = IF x \in Range(moved) THEN TPMax ELSE tp[x]
  BY <1>6, Zenon
<1>9. \A x \in Range(moved) : Live(x)
  BY <1>3, <1>7 DEF IInv, Placement, Queued
<1>10. CASE ready = <<>>
  <2>1. Range(ready) = {}
    BY <1>10 DEF Range
  <2>2. Range(left) = Range(wqueue) /\ Range(moved) = {}
    BY <2>1, <1>3, <1>5, ZenonT(40)
  <2>3. now' >= now
    <3> DEFINE w == IF left = <<>> THEN now + WaitInterval
                    ELSE IF tp[Head(left)] = TPMax THEN now + WaitInterval ELSE tp[Head(left)]
    <3>0. now \in Nat /\ now <= MaxTime
      BY TimeAssumption DEF IInv, TypeOK
    <3>1. w \in Nat /\ w >= now
      <4>1. CASE left = <<>> \/ tp[Head(left)] = TPMax
        BY <3>0, <4>1, TimeAssumption
      <4>2. CASE left # <<>> /\ tp[Head(left)] # TPMax
        <5>1. Head(left) \in Fiber /\ ~Taken(Head(left))
          BY <1>3, <1>b, <1>d, <4>2
        <5>2. tp[Head(left)] \in Nat /\ ~(tp[Head(left)] <= now)
          BY <5>1, TPMaxAssumption DEF IInv, TypeOK, Taken, FetchReady
        <5> QED
          BY <3>0, <4>2, <5>2
      <4> QED
        BY <4>1, <4>2, Zenon
    <3>2. now' = Min({MaxTime, w})
      BY <1>6, <1>10, ZenonT(40) DEF NextWakeup
    <3> HIDE DEF w
    <3> QED
      BY <3>0, <3>1, <3>2, TimeAssumption, MinNat
  <2> QED
    BY <1>6, <1>8, <1>10, <2>2, <2>3
<1>11. CASE ready # <<>>
  <2>1. PICK h \in Fiber : h = Head(ready)
    BY <1>5, <1>11
  <2>2. h \in Range(rqueue) \cup Range(moved)
    BY <1>5, <1>11, <2>1, TailKeeps, Zenon
  <2>3. active' = h /\ state' = [woken EXCEPT ![h] = "RUNNING"]
    BY <1>6, <1>11, <2>1 DEF Dispatch
  <2>4. /\ state'[h] = "RUNNING"
        /\ \A x \in Range(moved) : state'[x] \in {"READY", "RUNNING"}
        /\ \A x \in Fiber \ (Range(moved) \cup {h}) : state'[x] = state[x]
    <3>1. Range(moved) \subseteq Fiber
      BY <1>3, <1>7, Zenon
    <3> QED
      BY <2>3, <3>1, Zenon DEF IInv, TypeOK, State
  <2>5. now' >= now
    BY <1>6, <1>11, TimeAssumption DEF IInv, TypeOK
  <2> HIDE DEF woken
  <2>6. ASSUME NEW f \in Fiber
        PROVE  \/ /\ state'[f] = state[f] /\ tp'[f] = tp[f]
                  /\ f \in Range(wqueue) => f \in Range(wqueue')
               \/ /\ Live(f) /\ Taken(f) /\ state'[f] \in {"READY", "RUNNING"}
                  /\ tp'[f] = TPMax
               \/ /\ f \in Range(rqueue) /\ state[f] = "READY" /\ state'[f] = "RUNNING"
                  /\ tp'[f] = tp[f]
    <3>1. CASE f \in Range(moved)
      BY <1>8, <1>9, <1>c, <2>4, <3>1, Zenon
    <3>2. CASE f \notin Range(moved) /\ f # h
      BY <1>3, <1>6, <1>8, <2>4, <3>2, Zenon
    <3>3. CASE f \notin Range(moved) /\ f = h
      <4>1. f \in Range(rqueue) /\ state[f] = "READY"
        BY <2>2, <3>3, Zenon DEF IInv, Placement
      <4> QED
        BY <1>8, <2>4, <3>3, <4>1, Zenon
    <3> QED
      BY <3>1, <3>2, <3>3, Zenon
  <2> QED
    BY <1>6, <2>3, <2>4, <2>5, <2>6
<1> QED
  BY <1>10, <1>11, Zenon

-----------------------------------------------------------------------------
(* sleep_until(): whoever sleeps and was not interrupted is queued with    *)
(* the time point of its call, or that time has come; a fiber that has     *)
(* control is not waiting.                                                 *)
SleepInv ==
  /\ active # None => state[active] # "WAITING"
  /\ \A f \in Fiber : at[f] = "sleep" /\ "requested" \notin flags[f] =>
       \/ state[f] = "WAITING" /\ tp[f] = until[f]
       \/ now >= until[f]

(* What a step may do to a fiber that sleeps without being interrupted. *)
Asleep(f) == at[f] = "sleep" /\ "requested" \notin flags[f]

LEMMA SleepersKept ==
  ASSUME IInv, IInv', SleepInv, now' >= now,
         active' # None => state'[active'] # "WAITING",
         \A f \in Fiber : Asleep(f)' =>
           \/ state'[f] = "WAITING" /\ tp'[f] = until'[f]
           \/ /\ Asleep(f) /\ until'[f] = until[f]
              /\ \/ state[f] # "WAITING"
                 \/ tp[f] <= now
                 \/ state'[f] = state[f] /\ tp'[f] = tp[f]
  PROVE  SleepInv'
<1>1. now \in Nat /\ now' \in Nat
  BY TimeAssumption DEF IInv, TypeOK
<1>2. ASSUME NEW f \in Fiber, Asleep(f)'
      PROVE  (state'[f] = "WAITING" /\ tp'[f] = until'[f]) \/ now' >= until'[f]
  <2>1. CASE state'[f] = "WAITING" /\ tp'[f] = until'[f]
    BY <2>1, Zenon
  <2>2. CASE /\ Asleep(f) /\ until'[f] = until[f]
             /\ \/ state[f] # "WAITING"
                \/ tp[f] <= now
                \/ state'[f] = state[f] /\ tp'[f] = tp[f]
    <3>2. until[f] \in Nat /\ tp[f] \in Nat
      BY TPMaxAssumption DEF IInv, TypeOK, Context
    <3> QED
      BY <1>1, <2>2, <3>2 DEF SleepInv, Asleep
  <2> QED
    BY <1>2, <2>1, <2>2, Zenon
<1> QED
  BY <1>2, Zenon DEF SleepInv, Asleep

(* Steps that leave the states and deadlines of the fibers alone. *)
LEMMA SleepersUnmoved ==
  ASSUME IInv, IInv', SleepInv, UNCHANGED <<state, tp, active>>, now' >= now,
         \A f \in Fiber : Asleep(f)' => Asleep(f) /\ until'[f] = until[f]
  PROVE  SleepInv'
BY SleepersKept, Zenon DEF SleepInv

LEMMA NowReflexive ==
  ASSUME IInv, UNCHANGED now
  PROVE  now' >= now
  BY TimeAssumption DEF IInv, TypeOK

LEMMA AbortSleep ==
  ASSUME IInv, IInv', SleepInv, NEW a, Abort(a)
  PROVE  SleepInv'
<1> USE DEF Abort, fiberVars, schedVars, callVars
<1> QED
  BY NowReflexive, SleepersUnmoved, Zenon DEF Asleep

(* Steps of one context that change only the call it is in. *)
LEMMA CallSleep ==
  ASSUME IInv, IInv', SleepInv, NEW c \in Context, NEW p \in Point,
         c \in Fiber => p # "sleep",
         at' = [at EXCEPT ![c] = p],
         \A f \in Fiber \ {c} : flags'[f] = flags[f] /\ until'[f] = until[f],
         UNCHANGED <<state, tp, active, now>>
  PROVE  SleepInv'
<1>1. \A f \in Fiber : Asleep(f)' => Asleep(f) /\ until'[f] = until[f]
  <2> SUFFICES ASSUME NEW f \in Fiber, Asleep(f)'
               PROVE  Asleep(f) /\ until'[f] = until[f]
    BY Zenon
  <2> QED
    BY Zenon DEF Asleep, IInv, TypeOK, Context
<1> QED
  BY <1>1, NowReflexive, SleepersUnmoved, Zenon

LEMMA SpawnSleep ==
  ASSUME IInv, IInv', SleepInv, NEW c \in Context, NEW g \in Fiber, Spawn(c, g)
  PROVE  SleepInv'
<1> USE DEF Spawn, callVars
<1>1. /\ state'[g] = "READY" /\ state[g] = "NEW"
      /\ \A f \in Fiber \ {g} : state'[f] = state[f]
  BY Zenon DEF IInv, TypeOK
<1>2. active' # None => state'[active'] # "WAITING"
  BY <1>1, Zenon DEF SleepInv, IInv, TypeOK
<1>3. UNCHANGED <<at, flags, tp, until, now>>
  BY Zenon
<1> HIDE DEF Spawn
<1> QED
  BY <1>2, <1>3, NowReflexive, SleepersKept, <1>1, Zenon DEF Asleep

LEMMA YieldSleep ==
  ASSUME IInv, IInv', SleepInv, NEW g \in Fiber, Yield(g)
  PROVE  SleepInv'
<1>1. CASE Abort("yield")
  BY <1>1, AbortSleep, Zenon
<1>2. CASE YieldNow(g)
  <2>2. /\ \A f \in Fiber \ {g} : state'[f] = state[f]
        /\ UNCHANGED <<at, flags, tp, until, now>> /\ active' = None
    BY <1>2, Zenon DEF YieldNow, IInv, TypeOK, callVars
  <2> QED
    BY <2>2, NowReflexive, SleepersKept, CallerActive, Zenon DEF Asleep, Yield
<1> QED
  BY <1>1, <1>2, Zenon DEF Yield

LEMMA SleepUntilSleep ==
  ASSUME IInv, IInv', SleepInv, NEW g \in Fiber, NEW t \in Deadline, SleepUntil(g, t)
  PROVE  SleepInv'
<1>1. CASE Abort("wait_until")
  BY <1>1, AbortSleep, Zenon
<1>2. CASE Sleep(g, t)
  <2> USE DEF Sleep, WaitUntil
  <2>1. g \in Context
    BY Zenon DEF Context
  <2>2. state'[g] = "WAITING" /\ tp'[g] = until'[g]
    BY <1>2, <2>1 DEF IInv, TypeOK
  <2>3. \A f \in Fiber \ {g} : /\ state'[f] = state[f] /\ tp'[f] = tp[f]
                               /\ at'[f] = at[f] /\ until'[f] = until[f]
    BY <1>2, <2>1, Zenon DEF IInv, TypeOK, Context
  <2>4. UNCHANGED <<flags, now>> /\ active' = None
    BY <1>2, Zenon
  <2> HIDE DEF Sleep, WaitUntil
  <2> QED
    BY <2>4, NowReflexive, SleepersKept, <2>2, <2>3, Zenon DEF Asleep
<1> QED
  BY <1>1, <1>2, Zenon DEF SleepUntil

LEMMA JoinSleep ==
  ASSUME IInv, IInv', SleepInv, NEW c \in Fiber, NEW g \in Fiber, Join(c, g)
  PROVE  SleepInv'
<1>1. CASE Abort("set_waiting")
  BY <1>1, AbortSleep, Zenon
<1>2. CASE EnterJoin(c, g)
  <2> USE DEF EnterJoin
  <2>1. \A f \in Fiber \ {c} : state'[f] = state[f] /\ at'[f] = at[f]
    BY <1>2, Zenon DEF IInv, TypeOK, Context
  <2>2. at'[c] = "join"
    BY <1>2, Zenon DEF IInv, TypeOK, Context
  <2>3. UNCHANGED <<tp, flags, until, now>> /\ active' = None
    BY <1>2, Zenon
  <2> HIDE DEF EnterJoin
  <2> QED
    BY <2>3, NowReflexive, SleepersKept, <2>1, <2>2, Zenon DEF Asleep
<1> QED
  BY <1>1, <1>2, Zenon DEF Join

LEMMA JoinEndsSleep ==
  ASSUME IInv, IInv', SleepInv, NEW c \in Context, at[c] = "join",
         state[target[c]] = "TERMINATED", JoinEnds(c)
  PROVE  SleepInv'
<1> USE DEF JoinEnds, schedVars
<1>2. /\ \A f \in Fiber \ {target[c]} : state'[f] = state[f]
      /\ state'[target[c]] = "FREED"
  BY Zenon DEF IInv, TypeOK, JoinInv
<1>3. UNCHANGED <<tp, flags, until, now, active>>
  BY Zenon
<1>4. \A f \in Fiber : at'[f] = "sleep" => at[f] = "sleep"
  BY Zenon DEF IInv, TypeOK, Context
<1> HIDE DEF JoinEnds
<1>5. \A f \in Fiber : Asleep(f)' =>
        /\ Asleep(f) /\ until'[f] = until[f]
        /\ state[f] # "WAITING" \/ (state'[f] = state[f] /\ tp'[f] = tp[f])
  BY <1>2, <1>3, <1>4, Zenon DEF Asleep
<1>6. active' # None => state'[active'] # "WAITING"
  BY <1>2, <1>3, Zenon DEF SleepInv, IInv, TypeOK
<1> QED
  BY <1>3, <1>5, <1>6, NowReflexive, SleepersKept, Zenon

LEMMA InterruptSleep ==
  ASSUME IInv, IInv', SleepInv, NEW c \in Context, NEW g \in Fiber, Interrupt(c, g)
  PROVE  SleepInv'
<1>1. CASE Abort("set_ready")
  BY <1>1, AbortSleep, Zenon
<1>2. CASE state[g] # "TERMINATED"
  <2> USE DEF Interrupt, callVars
  <2>1. /\ state' = [state EXCEPT ![g] = "READY"]
        /\ flags' = [flags EXCEPT ![g] = @ \cup {"requested"}]
        /\ UNCHANGED <<tp, at, until, now, active>>
    BY <1>2, Zenon
  <2> HIDE DEF Interrupt
  <2>2. /\ state'[g] = "READY" /\ "requested" \in flags'[g]
        /\ \A f \in Fiber \ {g} : state'[f] = state[f] /\ flags'[f] = flags[f]
    BY <2>1, Zenon DEF IInv, TypeOK
  <2>3. \A f \in Fiber : Asleep(f)' =>
          /\ Asleep(f) /\ until'[f] = until[f]
          /\ state'[f] = state[f] /\ tp'[f] = tp[f]
    BY <2>1, <2>2, Zenon DEF Asleep
  <2>4. active' # None => state'[active'] # "WAITING"
    BY <2>1, <2>2, Zenon DEF SleepInv, IInv, TypeOK
  <2> QED
    BY <2>1, <2>3, <2>4, NowReflexive, SleepersKept, Zenon
<1> QED
  BY <1>1, <1>2, Zenon DEF Interrupt

(* release() makes only its joiner ready, and a joiner does not sleep. *)
LEMMA TerminateSleep ==
  ASSUME IInv, IInv', SleepInv, NEW g \in Fiber, Terminate(g)
  PROVE  SleepInv'
<1> USE DEF Terminate, Release
<1>1. at'[g] = "done" /\ \A f \in Fiber \ {g} : at'[f] = at[f]
  BY Zenon DEF IInv, TypeOK, Context
<1>2. \A f \in Fiber \ {g} : at[f] # "join" => state'[f] = state[f]
  <2> SUFFICES ASSUME NEW f \in Fiber \ {g}, at[f] # "join"
               PROVE  state'[f] = state[f]
    BY Zenon
  <2> QED
    BY DEF IInv, TypeOK, JoinersKnown
<1>3. UNCHANGED <<tp, flags, until, now>> /\ active' = None
  BY Zenon
<1> HIDE DEF Terminate
<1> QED
  BY <1>3, NowReflexive, SleepersKept, <1>1, <1>2, Zenon DEF Asleep

(* run() takes a sleeper that was not interrupted only when its time has   *)
(* come.                                                                   *)
LEMMA RunSleep ==
  ASSUME IInv, IInv', SleepInv, active = None, Run
  PROVE  SleepInv'
<1>1. \A f \in Fiber : Asleep(f)' =>
        /\ Asleep(f) /\ until'[f] = until[f]
        /\ \/ state[f] # "WAITING"
           \/ tp[f] <= now
           \/ state'[f] = state[f] /\ tp'[f] = tp[f]
  <2> SUFFICES ASSUME NEW f \in Fiber, Asleep(f)'
               PROVE  /\ Asleep(f) /\ until'[f] = until[f]
                      /\ \/ state[f] # "WAITING"
                         \/ tp[f] <= now
                         \/ state'[f] = state[f] /\ tp'[f] = tp[f]
    BY Zenon
  <2> QED
    BY RunTakes, Zenon DEF Taken, FetchReady, Asleep, Requested
<1> QED
  BY <1>1, SleepersKept, RunTakes, Zenon

LEMMA ThrowSleep ==
  ASSUME IInv, IInv', SleepInv, NEW f \in Fiber, ThrowInterrupted(f)
  PROVE  SleepInv'
<1>1. f \in Context /\ "throw" \in Point /\ UNCHANGED <<state, tp, active, now>>
  BY Zenon DEF ThrowInterrupted, schedVars, Context, Point
<1>2. /\ at' = [at EXCEPT ![f] = "throw"]
      /\ \A g \in Fiber \ {f} : flags'[g] = flags[g] /\ until'[g] = until[g]
  BY Zenon DEF ThrowInterrupted, IInv, TypeOK
<1> QED
  BY <1>1, <1>2, CallSleep, Zenon

LEMMA BackToBodySleep ==
  ASSUME IInv, IInv', SleepInv, NEW c \in Context, at' = [at EXCEPT ![c] = "body"],
         UNCHANGED <<fiberVars, schedVars, target, until, handle, now, failed>>
  PROVE  SleepInv'
<1>1. "body" \in Point /\ UNCHANGED <<state, tp, active, now, flags, until>>
  BY Zenon DEF fiberVars, schedVars, Point
<1> QED
  BY <1>1, CallSleep, Zenon

LEMMA FiberStepSleep ==
  ASSUME IInv, IInv', SleepInv, NEW f \in Fiber, FiberStep(f)
  PROVE  SleepInv'
<1>0. f \in Context
  BY Zenon DEF Context
<1>1. CASE Yield(f)
  BY <1>1, YieldSleep, Zenon
<1>2. CASE SleepReturns(f)
  BY <1>0, <1>2, ThrowSleep, BackToBodySleep, Zenon DEF SleepReturns
<1>3. CASE JoinReturns(f)
  <2>1. CASE Abort("join")
    BY <2>1, AbortSleep, Zenon
  <2>2. CASE state[target[f]] = "TERMINATED" /\ JoinEnds(f)
    BY <1>0, <1>3, <2>2, JoinEndsSleep DEF JoinReturns, Resumed
  <2> QED
    BY <1>3, <2>1, <2>2, Zenon DEF JoinReturns
<1>4. CASE Return(f)
  BY <1>4, AbortSleep, TerminateSleep, Zenon DEF Return
<1>5. CASE Unwind(f)
  BY <1>5, AbortSleep, TerminateSleep, Zenon DEF Unwind
<1>6. ASSUME NEW t \in Deadline, SleepUntil(f, t) PROVE SleepInv'
  BY <1>6, SleepUntilSleep, Zenon
<1>7. ASSUME NEW g \in Fiber, Join(f, g) PROVE SleepInv'
  BY <1>7, JoinSleep, Zenon
<1> QED
  BY <1>1, <1>2, <1>3, <1>4, <1>5, <1>6, <1>7, Zenon DEF FiberStep

LEMMA NextSleep == IInv /\ IInv' /\ SleepInv /\ [Next]_vars => SleepInv'
<1> SUFFICES ASSUME IInv, IInv', SleepInv, [Next]_vars PROVE SleepInv'
  BY Zenon
<1>0. Main \in Context /\ \A f \in Fiber : f \in Context
  BY Zenon DEF Context
<1>1. ASSUME NEW f \in Fiber, FiberStep(f) PROVE SleepInv'
  BY <1>1, FiberStepSleep, Zenon
<1>2. ASSUME NEW f \in Fiber, Catch(f) PROVE SleepInv'
  BY <1>0, <1>2, BackToBodySleep, Zenon DEF Catch
<1>3. ASSUME NEW f \in Fiber, InterruptionPoint(f) PROVE SleepInv'
  BY <1>3, ThrowSleep, Zenon DEF InterruptionPoint
<1>4. ASSUME NEW f \in Fiber, DisableInterruption(f) PROVE SleepInv'
  <2>1. /\ UNCHANGED <<state, tp, active, now, at, until>>
        /\ \A g \in Fiber : "requested" \in flags'[g] <=> "requested" \in flags[g]
    BY <1>4 DEF DisableInterruption, schedVars, callVars, IInv, TypeOK
  <2> QED
    BY <2>1, NowReflexive, SleepersUnmoved DEF Asleep
<1>5. ASSUME NEW c \in Context, NEW g \in Fiber, Detach(c, g) PROVE SleepInv'
  <2>1. /\ UNCHANGED <<state, tp, active, now, at, until>>
        /\ \A f \in Fiber : "requested" \in flags'[f] <=> "requested" \in flags[f]
    BY <1>5, Zenon DEF Detach, schedVars, callVars, IInv, TypeOK
  <2> QED
    BY <2>1, NowReflexive, SleepersUnmoved DEF Asleep
<1>6. ASSUME NEW c \in Context, LocalCall(c) PROVE SleepInv'
  BY <1>5, <1>6, SpawnSleep, InterruptSleep DEF LocalCall
<1>7. CASE MainRun
  BY <1>7, RunSleep DEF MainRun, MainHasControl
<1>8. CASE MainReturns
  <2>1. CASE at[Main] = "join" /\ JoinEnds(Main)
    BY <1>0, <1>8, <2>1, JoinEndsSleep, Zenon DEF MainReturns, MainLoops
  <2>2. CASE /\ at[Main] = "sleep" /\ at' = [at EXCEPT ![Main] = "body"]
             /\ UNCHANGED <<fiberVars, schedVars, target, until, handle, now, failed>>
    BY <1>0, <2>2, BackToBodySleep, Zenon
  <2> QED
    BY <1>8, <2>1, <2>2 DEF MainReturns
<1>9. ASSUME NEW g \in Fiber, MainJoin(g) PROVE SleepInv'
  <2>1. /\ at' = [at EXCEPT ![Main] = "join"] /\ "join" \in Point
        /\ UNCHANGED <<state, tp, active, now, flags, until>>
    BY <1>9, Zenon DEF MainJoin, fiberVars, schedVars, Point
  <2> QED
    BY <1>0, <2>1, CallSleep, Zenon
<1>10. ASSUME NEW t \in Deadline, MainSleep(t) PROVE SleepInv'
  <2>1. /\ at' = [at EXCEPT ![Main] = "sleep"] /\ "sleep" \in Point /\ Main \notin Fiber
        /\ UNCHANGED <<state, tp, active, now, flags>>
    BY <1>10, ContextAssumption, Zenon DEF MainSleep, fiberVars, schedVars, Point
  <2>2. \A f \in Fiber : until'[f] = until[f]
    BY <1>10, ContextAssumption, Zenon DEF MainSleep, IInv, TypeOK, Context
  <2> QED
    BY <1>0, <2>1, <2>2, CallSleep, Zenon
<1>11. CASE Tick
  <2>1. UNCHANGED <<state, tp, active, at, flags, until>> /\ now' >= now
    BY <1>11, TimeAssumption DEF Tick, fiberVars, schedVars, callVars, IInv, TypeOK
  <2> QED
    BY <2>1, SleepersUnmoved, Zenon DEF Asleep
<1>12. CASE UNCHANGED vars
  BY NowReflexive, SleepersUnmoved, <1>12, Zenon DEF Asleep, vars, fiberVars, schedVars,
      callVars
<1> QED
  BY <1>1, <1>2, <1>3, <1>4, <1>6, <1>7, <1>8, <1>9, <1>10, <1>11, <1>12 DEF Next

(* A sleep ends in client code only by the return of sleep_until(). *)
LEMMA SleepEnds ==
  ASSUME IInv, [Next]_vars, NEW c \in Context, at[c] = "sleep", at'[c] = "body"
  PROVE  \/ c \in Fiber /\ active = c /\ ~InterruptPending(c)
         \/ c = Main /\ now > until[Main]
<1>0. at \in [Context -> Point \ {"self"}] /\ until[Main] \in Nat /\ now \in Nat
  BY TPMaxAssumption, TimeAssumption DEF IInv, TypeOK, Context
<1>1. at' # at
  BY Zenon
<1>2. ASSUME NEW f \in Fiber, FiberStep(f)
      PROVE  c \in Fiber /\ active = c /\ ~InterruptPending(c)
  <2>0. f \in Context
    BY Zenon DEF Context
  <2>1. CASE Yield(f)
    BY <1>1, <2>1 DEF Yield, YieldNow, Abort, callVars
  <2>2. CASE SleepReturns(f)
    <3>1. CASE ThrowInterrupted(f)
      BY <1>0, <2>0, <3>1 DEF ThrowInterrupted
    <3>2. CASE ~InterruptPending(f) /\ at' = [at EXCEPT ![f] = "body"]
      BY <1>0, <2>0, <2>2, <3>2 DEF SleepReturns, Resumed
    <3> QED
      BY <2>2, <3>1, <3>2 DEF SleepReturns
  <2>3. CASE JoinReturns(f)
    BY <1>0, <2>0, <2>3 DEF JoinReturns, Resumed, JoinEnds, Abort, callVars
  <2>4. CASE Return(f)
    BY <1>0, <2>0, <2>4 DEF Return, Terminate, Abort, callVars
  <2>5. CASE Unwind(f)
    BY <1>0, <2>0, <2>5 DEF Unwind, Terminate, Abort, callVars
  <2>6. ASSUME NEW t \in Deadline, SleepUntil(f, t) PROVE FALSE
    BY <1>0, <2>0, <2>6 DEF SleepUntil, Sleep, Abort, callVars
  <2>7. ASSUME NEW g \in Fiber, Join(f, g) PROVE FALSE
    BY <1>0, <2>0, <2>7 DEF Join, EnterJoin, Abort, callVars
  <2> QED
    BY <1>2, <2>1, <2>2, <2>3, <2>4, <2>5, <2>6, <2>7, Zenon DEF FiberStep
<1>3. ASSUME NEW f \in Fiber, Catch(f) \/ InterruptionPoint(f) \/ DisableInterruption(f)
      PROVE  FALSE
  <2>0. f \in Context
    BY Zenon DEF Context
  <2>1. CASE Catch(f)
    BY <1>0, <2>0, <2>1, Zenon DEF Catch, Resumed
  <2>2. CASE InterruptionPoint(f)
    BY <1>0, <2>0, <2>2 DEF InterruptionPoint, ThrowInterrupted
  <2>3. CASE DisableInterruption(f)
    BY <1>1, <2>3 DEF DisableInterruption, callVars
  <2> QED
    BY <1>3, <2>1, <2>2, <2>3
<1>4. ASSUME NEW d \in Context, LocalCall(d) PROVE FALSE
  BY <1>1, <1>4 DEF LocalCall, Spawn, Interrupt, Detach, Abort, callVars
<1>5. CASE MainRun
  BY <1>1, <1>5, Zenon DEF MainRun, Run, callVars
<1>6. CASE MainReturns
  <2>0. Main \in Context
    BY Zenon DEF Context
  <2>1. CASE at[Main] = "join" /\ JoinEnds(Main)
    BY <1>0, <2>0, <2>1 DEF JoinEnds
  <2>2. CASE at[Main] = "sleep" /\ at' = [at EXCEPT ![Main] = "body"]
    BY <1>0, <1>6, <2>0, <2>2 DEF MainReturns, MainLoops
  <2> QED
    BY <1>6, <2>1, <2>2 DEF MainReturns
<1>7. ASSUME NEW g \in Fiber, MainJoin(g) PROVE FALSE
  BY <1>0, <1>7 DEF MainJoin, Context
<1>8. ASSUME NEW t \in Deadline, MainSleep(t) PROVE FALSE
  BY <1>0, <1>8 DEF MainSleep, Context
<1>9. ~Tick
  BY <1>1 DEF Tick, callVars
<1>10. ~UNCHANGED vars
  BY <1>1, Zenon DEF vars, callVars
<1> QED
  BY <1>2, <1>3, <1>4, <1>5, <1>6, <1>7, <1>8, <1>9, <1>10 DEF Next

(* The sleepers' invariant holds for every client. *)
THEOREM SleepersInvariant == Spec => []SleepInv
<1>1. Init => SleepInv
  BY Zenon DEF Init, SleepInv, Context
<1>2. IInv /\ IInv' /\ SleepInv /\ [Next]_vars => SleepInv'
  BY NextSleep
<1> QED
  BY <1>1, <1>2, Inductive, PTL DEF Spec

(* this_fiber::sleep_until() returns to its caller, fiber or main context, *)
(* not before its time point, whatever other fibers do and whoever is      *)
(* interrupted, unless the sleeper disabled its interruption.              *)
THEOREM SleepsLongEnough == Spec => SleepNotEarly
<1> DEFINE Late == \A c \in Context :
                     /\ at[c] = "sleep" /\ at'[c] = "body"
                     /\ c \in Fiber => "blocked" \notin flags[c]
                     => now >= until[c]
<1>1. IInv /\ SleepInv /\ [Next]_vars => [Late]_vars
  <2> SUFFICES ASSUME IInv, SleepInv, [Next]_vars, NEW c \in Context,
                      at[c] = "sleep", at'[c] = "body",
                      c \in Fiber => "blocked" \notin flags[c]
               PROVE  now >= until[c]
    BY Zenon
  <2>1. CASE c \in Fiber /\ active = c /\ ~InterruptPending(c)
    BY <2>1, ContextAssumption DEF SleepInv, InterruptPending
  <2>2. CASE c = Main /\ now > until[Main]
    BY <2>2, TPMaxAssumption, TimeAssumption DEF IInv, TypeOK, Context
  <2> QED
    BY <2>1, <2>2, SleepEnds
<1> QED
  BY <1>1, Inductive, SleepersInvariant, PTL DEF Spec, SleepNotEarly

-----------------------------------------------------------------------------
(* Which assertions fail when clients interrupt only other fibers that     *)
(* have not ended.  The fiber that has control is running, a fiber is out  *)
(* of its function exactly when it ended, only a queued sleeper has a      *)
(* deadline, and a joiner that was woken before the end of its target was  *)
(* interrupted.                                                            *)
CalmAt(f) ==
  /\ at[f] = "done" <=> state[f] \in {"TERMINATED", "FREED"}
  /\ tp[f] # TPMax => at[f] = "sleep" /\ f \in Range(wqueue)
  /\ at[f] = "join" /\ Live(target[f]) /\ state[f] # "WAITING" => "requested" \in flags[f]

CalmInv ==
  /\ active # None => state[active] = "RUNNING"
  /\ \A f \in Fiber : CalmAt(f)
  /\ OnlyJoinFails

(* The step does not touch what CalmAt says of f. *)
Untouched(f) ==
  /\ state'[f] = state[f] /\ at'[f] = at[f] /\ tp'[f] = tp[f] /\ target'[f] = target[f]
  /\ "requested" \in flags[f] => "requested" \in flags'[f]
  /\ f \in Range(wqueue) => f \in Range(wqueue')

LEMMA CalmKept ==
  ASSUME IInv, CalmInv,
         \A f \in Fiber : Untouched(f) \/ CalmAt(f)',
         \A g \in handle : Live(g)' => Live(g),
         active' # None => state'[active'] = "RUNNING",
         OnlyJoinFails'
  PROVE  CalmInv'
<1>1. ASSUME NEW f \in Fiber, Untouched(f) PROVE CalmAt(f)'
  <2>1. CalmAt(f)
    BY Zenon DEF CalmInv
  <2>4. tp'[f] # TPMax => at'[f] = "sleep" /\ f \in Range(wqueue')
    BY <1>1, <2>1, Zenon DEF CalmAt, Untouched
  <2>5. ASSUME at'[f] = "join", Live(target[f])', state'[f] # "WAITING"
        PROVE  "requested" \in flags'[f]
    <3>1. target'[f] = target[f] /\ at[f] = "join" /\ state[f] # "WAITING"
      BY <1>1, <2>5, Zenon DEF Untouched
    <3>2. state'[target[f]] \notin {"NEW", "TERMINATED", "FREED"}
      BY <2>5, <3>1, Zenon DEF Live
    <3>3. Live(target[f])
      BY <3>1, <3>2, Zenon DEF Live, IInv, JoinInv, Context
    <3> QED
      BY <1>1, <2>1, <3>1, <3>3, Zenon DEF CalmAt, Untouched
  <2> QED
    BY <2>4, <2>5, <1>1, <2>1, Zenon DEF CalmAt, Untouched
<1> QED
  BY <1>1, Zenon DEF CalmInv

(* Steps of the fiber or main context that has control and changes only    *)
(* the call it is in.                                                      *)
LEMMA CallCalm ==
  ASSUME IInv, CalmInv, failed = NoAssert, NEW c \in Context, NEW p \in Point \ {"self"},
         c \in Fiber => c = active /\ p \in {"body", "throw"},
         at' = [at EXCEPT ![c] = p],
         \A f \in Fiber : f # c => flags'[f] = flags[f] /\ target'[f] = target[f],
         UNCHANGED <<state, tp, wqueue, active, failed>>
  PROVE  CalmInv'
<1>1. \A f \in Fiber : f # c => Untouched(f)
  BY Zenon DEF Untouched, IInv, TypeOK, Context
<1>2. c \in Fiber => CalmAt(c)'
  <2> SUFFICES ASSUME c \in Fiber PROVE CalmAt(c)'
    BY Zenon
  <2>2. state[c] = "RUNNING" /\ tp[c] = TPMax
    BY ActiveAlone, Zenon DEF CalmInv, CalmAt
  <2> QED
    BY <2>2, Zenon DEF CalmAt, IInv, TypeOK
<1>4. OnlyJoinFails' /\ (active' # None => state'[active'] = "RUNNING")
  BY Zenon DEF OnlyJoinFails, CalmInv
<1> QED
  BY <1>1, <1>2, <1>4, CalmKept, Zenon DEF Live

LEMMA SpawnCalm ==
  ASSUME IInv, CalmInv, NEW c \in Context, NEW g \in Fiber, Spawn(c, g)
  PROVE  CalmInv'
<1> USE DEF Spawn, callVars
<1>1. /\ state'[g] = "READY" /\ state[g] = "NEW"
      /\ \A f \in Fiber \ {g} : state'[f] = state[f]
  BY Zenon DEF IInv, TypeOK
<1>2. UNCHANGED <<tp, flags, wqueue, active, at, target, failed>> /\ failed = NoAssert
  BY Zenon DEF Calls
<1> HIDE DEF Spawn
<1>3. \A f \in Fiber \ {g} : Untouched(f)
  BY <1>1, <1>2, Zenon DEF Untouched
<1>4. CalmAt(g)'
  <2>1. CalmAt(g)
    BY Zenon DEF CalmInv
  <2>2. at[g] # "join" /\ at[g] # "done"
    BY <1>1, <2>1, Zenon DEF CalmAt, IInv, JoinInv, Live, Context
  <2> QED
    BY <1>1, <1>2, <2>1, <2>2, Zenon DEF CalmAt
<1>5. \A x \in handle : Live(x)' => Live(x)
  BY <1>1, Zenon DEF Live, IInv, HandleInv, TypeOK
<1>6. OnlyJoinFails' /\ (active' # None => state'[active'] = "RUNNING")
  BY <1>1, <1>2, Zenon DEF OnlyJoinFails, CalmInv, IInv, TypeOK
<1> QED
  BY <1>3, <1>4, <1>5, <1>6, CalmKept

(* A fiber that has control and calls is running and has no deadline. *)
LEMMA CallerCalm ==
  ASSUME IInv, CalmInv, NEW g \in Fiber, active = g
  PROVE  /\ state[g] = "RUNNING" /\ tp[g] = TPMax
         /\ at[g] # "done" /\ g \notin Range(wqueue)
BY ActiveAlone, Zenon DEF CalmAt, CalmInv

(* A caller suspends: it waits with a deadline only if it sleeps, and in   *)
(* join() it is ready only if its target has ended.                        *)
LEMMA SuspendCalm ==
  ASSUME IInv, IInv', CalmInv, NEW g \in Fiber, active = g, active' = None,
         failed = NoAssert, UNCHANGED <<flags, failed>>,
         state'[g] \in {"READY", "WAITING"}, at'[g] # "done",
         Range(wqueue') = Range(wqueue) \cup {g},
         tp'[g] # TPMax => at'[g] = "sleep",
         at'[g] = "join" => state'[g] = "WAITING" \/ ~Live(target[g])',
         \A f \in Fiber \ {g} : /\ state'[f] = state[f] /\ tp'[f] = tp[f]
                                /\ at'[f] = at[f] /\ target'[f] = target[f]
  PROVE  CalmInv'
<1>3. \A x \in handle : Live(x)' => Live(x)
  <2>1. Live(g) /\ handle \subseteq Fiber
    BY ActiveAlone, Zenon DEF IInv, TypeOK
  <2> QED
    BY <2>1, Zenon DEF Live
<1> QED
  BY <1>3, CalmKept DEF Untouched, CalmAt, OnlyJoinFails

LEMMA YieldCalm ==
  ASSUME IInv, IInv', CalmInv, NEW g \in Fiber, Yield(g)
  PROVE  CalmInv'
<1>1. active = g /\ at[g] = "body" /\ failed = NoAssert
  BY CallerActive, Zenon DEF Yield
<1>2. state[g] = "RUNNING" /\ tp[g] = TPMax
  BY <1>1, CallerCalm, Zenon
<1>4. /\ state' = [state EXCEPT ![g] = "READY"] /\ active' = None
      /\ wqueue' = Push(wqueue, g, state', tp)
      /\ UNCHANGED <<tp, flags, at, target, failed>>
  BY <1>2 DEF YieldNow, callVars, Yield
<1>5. state'[g] = "READY" /\ \A f \in Fiber \ {g} : state'[f] = state[f]
  BY <1>4, Zenon DEF IInv, TypeOK
<1>6. Range(wqueue') = Range(wqueue) \cup {g}
  <2>1. tp \in [Fiber -> 0..TPMax]
    BY DEF IInv, TypeOK
  <2>2. Range(Push(wqueue, g, state', tp)) = Range(wqueue) \cup {g}
    BY <1>1, <1>5, <2>1, SuspendPushes, Zenon
  <2> QED
    BY <1>4, <2>2, Zenon
<1> QED
  BY <1>1, <1>2, <1>4, <1>5, <1>6, SuspendCalm, Zenon

LEMMA SleepUntilCalm ==
  ASSUME IInv, IInv', CalmInv, NEW g \in Fiber, NEW t \in Deadline, SleepUntil(g, t)
  PROVE  CalmInv'
<1>1. active = g /\ at[g] = "body" /\ failed = NoAssert
  BY CallerActive, Zenon DEF SleepUntil
<1>4. /\ state' = [state EXCEPT ![g] = "WAITING"] /\ tp' = [tp EXCEPT ![g] = t]
      /\ active' = None /\ wqueue' = Push(wqueue, g, state', tp')
      /\ at' = [at EXCEPT ![g] = "sleep"]
      /\ UNCHANGED <<flags, target, failed>>
  BY <1>1, CallerCalm DEF Sleep, WaitUntil, SleepUntil
<1>5. /\ state'[g] = "WAITING" /\ at'[g] = "sleep"
      /\ \A f \in Fiber \ {g} : state'[f] = state[f] /\ tp'[f] = tp[f] /\ at'[f] = at[f]
  BY <1>4, Zenon DEF IInv, TypeOK, Context
<1>6. Range(wqueue') = Range(wqueue) \cup {g}
  <2>1. tp' \in [Fiber -> 0..TPMax]
    BY Zenon DEF IInv, TypeOK
  <2>3. \A x \in Fiber \ {g} : state'[x] = state[x] /\ tp'[x] = tp[x]
    BY <1>5, Zenon
  <2>2. Range(Push(wqueue, g, state', tp')) = Range(wqueue) \cup {g}
    BY <1>1, <2>1, <2>3, SuspendPushes, Zenon
  <2> QED
    BY <1>4, <2>2, Zenon
<1> QED
  BY <1>1, <1>4, <1>5, <1>6, SuspendCalm, Zenon

(* A live fiber leaves the waiting queue only to run. *)
LEMMA StillQueued ==
  ASSUME IInv, IInv', UNCHANGED rqueue, active' \in {None, active},
         NEW f \in Fiber, Live(f)', f \in Range(wqueue)
  PROVE  f \in Range(wqueue')
<1>1. f \notin Range(rqueue) /\ f # active /\ f # None
  BY ContextAssumption, Zenon DEF IInv, Placement, Queued, Context
<1>2. f \in (Queued \cup {active})'
  BY Zenon DEF IInv, Placement
<1> QED
  BY <1>1, <1>2, Zenon DEF Queued

LEMMA JoinCalm ==
  ASSUME IInv, IInv', CalmInv, NEW c \in Fiber, NEW g \in Fiber, Join(c, g)
  PROVE  CalmInv'
<1>1. active = c /\ at[c] = "body" /\ failed = NoAssert /\ g # c
  BY CallerActive, Zenon DEF Join
<1>2. state[c] = "RUNNING" /\ tp[c] = TPMax /\ Live(c)
  BY <1>1, CallerCalm, ActiveAlone, Zenon
<1>4. /\ state' = IF state[g] = "TERMINATED" THEN [state EXCEPT ![c] = "READY"]
                  ELSE [state EXCEPT ![c] = "WAITING"]
      /\ active' = None /\ at' = [at EXCEPT ![c] = "join"]
      /\ target' = [target EXCEPT ![c] = g]
      /\ UNCHANGED <<tp, flags, failed, rqueue>>
  BY <1>2, Zenon DEF EnterJoin, Join
<1>5. /\ state'[c] \in {"READY", "WAITING"} /\ at'[c] = "join" /\ target'[c] = g
      /\ \A f \in Fiber \ {c} : /\ state'[f] = state[f] /\ at'[f] = at[f]
                                /\ target'[f] = target[f]
  BY <1>4, Zenon DEF IInv, TypeOK, Context
<1>6. state'[c] = "WAITING" \/ ~Live(target[c])'
  <2>1. CASE state[g] = "TERMINATED"
    <3>1. state'[g] = "TERMINATED"
      BY <1>1, <1>5, <2>1, Zenon
    <3> QED
      BY <1>5, <3>1, Zenon DEF Live
  <2>2. CASE state[g] # "TERMINATED"
    BY <1>4, <2>2, Zenon DEF IInv, TypeOK
  <2> QED
    BY <2>1, <2>2, Zenon
<1>7. \A f \in Fiber : Live(f)' <=> Live(f)
  BY <1>2, <1>5, Zenon DEF Live
<1>8. Range(wqueue') = Range(wqueue) \cup {c}
  <2>1. \A f \in Fiber : Live(f) <=> f \in Range(wqueue) \cup Range(rqueue) \cup {c}
    BY <1>1, Zenon DEF IInv, Placement, Queued
  <2>2. \A f \in Fiber : Live(f)' <=> f \in Range(wqueue') \cup Range(rqueue)
    BY <1>4, ContextAssumption DEF IInv, Placement, Queued, Context
  <2>3. /\ Range(wqueue) \subseteq Fiber /\ Range(wqueue') \subseteq Fiber
        /\ Range(wqueue) \cap Range(rqueue) = {} /\ Range(wqueue') \cap Range(rqueue) = {}
    <3>1. wqueue \in Seq(Fiber) /\ wqueue' \in Seq(Fiber)
      BY Zenon DEF IInv, TypeOK
    <3>2. Range(wqueue) \subseteq Fiber /\ Range(wqueue') \subseteq Fiber
      BY <3>1 DEF Range
    <3> QED
      BY <1>4, <3>2 DEF IInv, Placement
  <2>4. c \notin Range(rqueue)
    BY <1>1, ActiveAlone, Zenon
  <2> QED
    BY <1>7, <2>1, <2>2, <2>3, <2>4, Zenon
<1> QED
  BY <1>1, <1>2, <1>4, <1>5, <1>6, <1>8, SuspendCalm, Zenon

LEMMA JoinEndsCalm ==
  ASSUME IInv, IInv', CalmInv, failed = NoAssert, NEW c \in Context,
         c \in Fiber => active = c, at[c] = "join",
         state[target[c]] = "TERMINATED", JoinEnds(c)
  PROVE  CalmInv'
<1>1. PICK g \in Fiber : g = target[c]
  BY Zenon DEF IInv, TypeOK, JoinInv
<1>2. CalmAt(g) /\ state[g] = "TERMINATED" /\ at[g] = "done" /\ g # c
  BY <1>1, Zenon DEF CalmInv, CalmAt
<1>3. /\ state' = [state EXCEPT ![g] = "FREED"]
      /\ at' = [at EXCEPT ![c] = IF g \in except /\ c # Main THEN "throw" ELSE "body"]
      /\ target' = [target EXCEPT ![c] = None]
      /\ UNCHANGED <<tp, flags, wqueue, active, failed>>
  BY <1>1, Zenon DEF JoinEnds, schedVars
<1>4. /\ state'[g] = "FREED" /\ at'[g] = "done" /\ at'[c] \in {"throw", "body"}
      /\ \A f \in Fiber \ {g} : state'[f] = state[f]
      /\ \A f \in Fiber \ {c} : at'[f] = at[f] /\ target'[f] = target[f]
  BY <1>2, <1>3, Zenon DEF IInv, TypeOK, Context
<1>5. \A f \in Fiber \ {c, g} : Untouched(f)
  BY <1>3, <1>4, Zenon DEF Untouched
<1>6. CalmAt(g)'
  BY <1>2, <1>3, <1>4, Zenon DEF CalmAt
<1>7. c \in Fiber => CalmAt(c)'
  <2> SUFFICES ASSUME c \in Fiber PROVE CalmAt(c)'
    BY Zenon
  <2>1. state[c] = "RUNNING" /\ tp[c] = TPMax
    BY CallerCalm
  <2> QED
    BY <1>2, <1>3, <1>4, <2>1, Zenon DEF CalmAt
<1>8. \A x \in handle : Live(x)' => Live(x)
  BY <1>4, Zenon DEF Live, IInv, TypeOK
<1>9. active' # None => state'[active'] = "RUNNING"
  BY <1>2, <1>3, <1>4, Zenon DEF CalmInv, IInv, TypeOK
<1>10. OnlyJoinFails'
  BY <1>3, Zenon DEF OnlyJoinFails
<1> QED
  BY <1>5, <1>6, <1>7, <1>8, <1>9, <1>10, CalmKept

(* Where clients interrupt only others that have not ended, set_ready() is *)
(* called for a live fiber that is not in control.                         *)
PoliteInterrupts == Interrupted \cap {"self", "done"} = {}

LEMMA InterruptCalm ==
  ASSUME PoliteInterrupts, IInv, IInv', CalmInv, NEW c \in Context, NEW g \in Fiber,
         Interrupt(c, g)
  PROVE  CalmInv'
<1>1. g # c /\ at[g] # "done" /\ g \in handle /\ failed = NoAssert /\ c = Current
  BY Zenon DEF Interrupt, Calls, PoliteInterrupts
<1>2. CalmAt(g) /\ state[g] \notin {"NEW", "TERMINATED", "FREED"}
  BY <1>1, Zenon DEF CalmInv, CalmAt, IInv, HandleInv
<1>3. g # active
  BY <1>1, ContextAssumption, Zenon DEF Current, Context
<1>4. /\ state' = [state EXCEPT ![g] = "READY"]
      /\ flags' = [flags EXCEPT ![g] = @ \cup {"requested"}]
      /\ UNCHANGED <<tp, rqueue, active, at, target, failed>>
  BY <1>2, Zenon DEF Interrupt, callVars
<1>5. /\ state'[g] = "READY" /\ "requested" \in flags'[g]
      /\ \A f \in Fiber \ {g} : state'[f] = state[f] /\ flags'[f] = flags[f]
  BY <1>4, Zenon DEF IInv, TypeOK
<1>6. \A f \in Fiber : Live(f)' <=> Live(f)
  BY <1>2, <1>5, Zenon DEF Live
<1>7. \A f \in Range(wqueue) : f \in Range(wqueue')
  <2>1. \A f \in Range(wqueue) : f \in Fiber /\ Live(f)
    BY QueuedFibers, Zenon DEF IInv, Placement, Queued
  <2> QED
    BY <1>4, <1>6, <2>1, StillQueued, Zenon
<1>8. \A f \in Fiber \ {g} : Untouched(f)
  BY <1>4, <1>5, <1>7, Zenon DEF Untouched
<1>9. CalmAt(g)'
  BY <1>1, <1>2, <1>4, <1>5, <1>7, Zenon DEF CalmAt
<1>10. active' # None => state'[active'] = "RUNNING"
  BY <1>3, <1>4, <1>5, Zenon DEF CalmInv, IInv, TypeOK
<1>11. \A x \in handle : Live(x)' => Live(x)
  BY <1>6, Zenon DEF IInv, TypeOK
<1>12. OnlyJoinFails'
  BY <1>1, <1>4, Zenon DEF OnlyJoinFails
<1> QED
  BY <1>8, <1>9, <1>10, <1>11, <1>12, CalmKept

(* release() wakes its joiner when the target of the join has ended. *)
LEMMA TerminateCalm ==
  ASSUME IInv, IInv', CalmInv, failed = NoAssert, NEW g \in Fiber, active = g,
         at[g] # "join", Terminate(g)
  PROVE  CalmInv'
<1>0. PICK p : p = waiting[g]
  BY Zenon
<1>1. g \notin Range(wqueue) /\ tp[g] = TPMax /\ g # None /\ Live(g)
  BY CallerCalm, ActiveAlone, Zenon
<1>2. p # None => p \in Fiber /\ p # g /\ Live(p) /\ at[p] = "join" /\ target[p] = g
  BY <1>0 DEF IInv, TypeOK, JoinersKnown, JoinInv, Context
<1>3. /\ state' = IF p = None THEN [state EXCEPT ![g] = Ended(g)]
                  ELSE [state EXCEPT ![g] = Ended(g), ![p] = "READY"]
      /\ at' = [at EXCEPT ![g] = "done"] /\ active' = None
      /\ UNCHANGED <<tp, flags, rqueue, target, failed>>
  BY <1>0, Zenon DEF Terminate, Release
<1>4. Ended(g) \in {"TERMINATED", "FREED"}
  BY Zenon DEF Ended
<1>5. /\ state'[g] = Ended(g) /\ (p # None => state'[p] = "READY")
      /\ \A f \in Fiber \ {g, p} : state'[f] = state[f]
  BY <1>2, <1>3, ZenonT(40) DEF IInv, TypeOK
<1>6. at'[g] = "done" /\ \A f \in Fiber \ {g} : at'[f] = at[f]
  BY <1>3, Zenon DEF IInv, TypeOK, Context
<1>7. \A f \in Fiber \ {g} : Live(f)' <=> Live(f)
  BY <1>2, <1>5, ContextAssumption, Zenon DEF Live, Context
<1>8. ~Live(g)'
  BY <1>4, <1>5, Zenon DEF Live
<1>9. \A f \in Range(wqueue) : f \in Range(wqueue')
  <2>1. \A f \in Range(wqueue) : f \in Fiber /\ f # g /\ Live(f)
    BY <1>1, QueuedFibers, Zenon DEF IInv, Placement, Queued
  <2> QED
    BY <1>3, <1>7, <2>1, StillQueued
<1>10. \A f \in Fiber \ {g, p} : Untouched(f)
  BY <1>3, <1>5, <1>6, <1>9, Zenon DEF Untouched
<1>11. CalmAt(g)'
  BY <1>1, <1>3, <1>4, <1>5, <1>6, Zenon DEF CalmAt
<1>12. p \in Fiber => CalmAt(p)'
  <2> SUFFICES ASSUME p \in Fiber PROVE CalmAt(p)'
    BY Zenon
  <2>1. p # None
    BY ContextAssumption, Zenon DEF Context
  <2>2. CalmAt(p) /\ at[p] = "join" /\ target[p] = g /\ p # g
    BY <1>2, <2>1, Zenon DEF CalmInv
  <2>3. state'[p] = "READY" /\ at'[p] = "join" /\ tp'[p] = TPMax
    BY <1>3, <1>5, <1>6, <2>1, <2>2, Zenon DEF CalmAt
  <2>4. ~Live(target[p])'
    <3>1. state'[g] \in {"TERMINATED", "FREED"}
      BY <1>4, <1>5, Zenon
    <3> QED
      BY <1>3, <2>2, <3>1, Zenon DEF Live
  <2> QED
    BY <2>3, <2>4, Zenon DEF CalmAt
<1>13. \A x \in handle : Live(x)' => Live(x)
  BY <1>7, <1>8, Zenon DEF IInv, TypeOK
<1>14. OnlyJoinFails' /\ active' = None
  BY <1>3, Zenon DEF OnlyJoinFails
<1> QED
  BY <1>10, <1>11, <1>12, <1>13, <1>14, CalmKept, Zenon

(* run() wakes by time only who sleeps: a joiner it takes was interrupted. *)
LEMMA RunCalm ==
  ASSUME IInv, IInv', CalmInv, failed = NoAssert, active = None, Run
  PROVE  CalmInv'
<1>1. UNCHANGED <<flags, at, target, failed, handle>>
  BY RunTakes, Zenon
<1>2. \A f \in Fiber : Live(f)' => Live(f)
  BY RunTakes, Zenon DEF Live
<1>3. ASSUME NEW f \in Fiber PROVE Untouched(f) \/ CalmAt(f)'
  <2>0. CalmAt(f)
    BY Zenon DEF CalmInv
  <2>1. CASE /\ state'[f] = state[f] /\ tp'[f] = tp[f]
             /\ f \in Range(wqueue) => f \in Range(wqueue')
    BY <1>1, <2>1, Zenon DEF Untouched
  <2>a. ASSUME Live(f), state'[f] \in {"READY", "RUNNING"}, tp'[f] = TPMax,
               at[f] = "join" /\ Live(target[f]) => "requested" \in flags[f]
        PROVE  CalmAt(f)'
    <3>2. ASSUME at'[f] = "join", Live(target[f])' PROVE "requested" \in flags'[f]
      <4>1. target[f] \in Fiber
        BY <1>1, <3>2, Zenon DEF IInv, JoinInv, TypeOK, Context
      <4>2. state'[target[f]] \notin {"NEW", "TERMINATED", "FREED"}
        BY <1>1, <3>2, Zenon DEF Live
      <4>3. Live(target[f])
        BY <1>2, <4>1, <4>2, Zenon DEF Live
      <4> QED
        BY <1>1, <2>a, <3>2, <4>3, Zenon
    <3> QED
      BY <2>a, <3>2, <1>1, <2>0, Zenon DEF CalmAt, Live
  <2>2. CASE /\ Live(f) /\ Taken(f) /\ state'[f] \in {"READY", "RUNNING"}
             /\ tp'[f] = TPMax
    <3>1. ASSUME at[f] = "join", Live(target[f]) PROVE "requested" \in flags[f]
      <4>1. CASE state[f] = "READY"
        BY <2>0, <3>1, <4>1, Zenon DEF CalmAt
      <4>2. ~(tp[f] <= now)
        BY <2>0, <3>1, TimeAssumption, TPMaxAssumption DEF CalmAt, IInv, TypeOK
      <4>3. CASE f \in Requested
        BY <4>3, Zenon DEF Requested
      <4> QED
        BY <2>2, <4>1, <4>2, <4>3, Zenon DEF Taken, FetchReady
    <3> QED
      BY <2>2, <2>a, <3>1, Zenon
  <2>3. CASE /\ f \in Range(rqueue) /\ state[f] = "READY" /\ state'[f] = "RUNNING"
             /\ tp'[f] = tp[f]
    <3>1. Live(f) /\ f \notin Range(wqueue)
      BY <2>3, Zenon DEF Live, IInv, Placement
    <3>2. tp'[f] = TPMax /\ (at[f] = "join" /\ Live(target[f]) => "requested" \in flags[f])
      BY <2>0, <2>3, <3>1, Zenon DEF CalmAt
    <3> QED
      BY <2>3, <2>a, <3>1, <3>2, Zenon
  <2> QED
    BY <2>1, <2>2, <2>3, RunTakes, Zenon
<1>4. active' # None => state'[active'] = "RUNNING"
  BY RunTakes, Zenon
<1>5. \A x \in handle : Live(x)' => Live(x)
  BY <1>2, Zenon DEF IInv, TypeOK
<1> QED
  BY <1>3, <1>4, <1>5, CalmKept, <1>1, Zenon DEF OnlyJoinFails

(* Steps that change nothing CalmAt reads. *)
LEMMA QuietCalm ==
  ASSUME IInv, CalmInv, UNCHANGED <<state, tp, wqueue, active, at, target>>,
         \A f \in Fiber : "requested" \in flags[f] => "requested" \in flags'[f],
         OnlyJoinFails'
  PROVE  CalmInv'
BY CalmKept, Zenon DEF Untouched, CalmInv, Live

LEMMA ThrowCalm ==
  ASSUME IInv, CalmInv, failed = NoAssert, NEW f \in Fiber, active = f,
         ThrowInterrupted(f)
  PROVE  CalmInv'
<1>1. /\ f \in Context /\ "throw" \in Point \ {"self"}
      /\ UNCHANGED <<state, tp, wqueue, active, failed, target>>
  BY Zenon DEF ThrowInterrupted, schedVars, Context, Point
<1>2. /\ at' = [at EXCEPT ![f] = "throw"]
      /\ \A g \in Fiber : g # f => flags'[g] = flags[g] /\ target'[g] = target[g]
  BY <1>1, Zenon DEF ThrowInterrupted, IInv, TypeOK
<1> QED
  BY <1>1, <1>2, CallCalm, Zenon

LEMMA BackToBodyCalm ==
  ASSUME IInv, CalmInv, failed = NoAssert, NEW c \in Context, c \in Fiber => active = c,
         at' = [at EXCEPT ![c] = "body"],
         UNCHANGED <<fiberVars, schedVars, target, until, handle, now, failed>>
  PROVE  CalmInv'
<1>1. /\ "body" \in Point \ {"self"}
      /\ UNCHANGED <<state, tp, wqueue, active, flags, target, failed>>
  BY Zenon DEF fiberVars, schedVars, Point
<1> QED
  BY <1>1, CallCalm, Zenon

LEMMA FiberStepCalm ==
  ASSUME IInv, IInv', CalmInv, NEW f \in Fiber, FiberStep(f)
  PROVE  CalmInv'
<1>0. f \in Context /\ f # None
  BY ContextAssumption, Zenon DEF Context
<1>1. CASE Yield(f)
  BY <1>1, YieldCalm, Zenon
<1>2. CASE SleepReturns(f)
  <2>1. active = f /\ failed = NoAssert
    BY <1>2, Zenon DEF SleepReturns, Resumed
  <2> QED
    BY <1>0, <1>2, <2>1, ThrowCalm, BackToBodyCalm, Zenon DEF SleepReturns
<1>3. CASE JoinReturns(f)
  <2>1. active = f /\ failed = NoAssert /\ at[f] = "join"
    BY <1>3, Zenon DEF JoinReturns, Resumed
  <2>2. CASE state[target[f]] = "TERMINATED"
    BY <1>0, <1>3, <2>1, <2>2, JoinEndsCalm, Zenon DEF JoinReturns
  <2>3. CASE state[target[f]] # "TERMINATED"
    <3>1. Live(target[f])
      BY <1>0, <2>1, <2>3 DEF IInv, JoinInv, HandleInv, Live, TypeOK
    <3>2. "requested" \in flags[f]
      BY <2>1, <3>1, CallerCalm, Zenon DEF CalmInv, CalmAt
    <3>3. failed' = "join" /\ UNCHANGED <<state, tp, wqueue, active, at, target, flags>>
      BY <1>3, <2>3, Zenon DEF JoinReturns, Abort, fiberVars, schedVars, callVars
    <3>4. OnlyJoinFails'
      BY <2>1, <3>1, <3>2, <3>3, Zenon DEF OnlyJoinFails, Live
    <3> QED
      BY <3>3, <3>4, QuietCalm, Zenon
  <2> QED
    BY <2>2, <2>3, Zenon
<1>4. CASE Return(f)
  <2>1. active = f /\ failed = NoAssert /\ at[f] = "body"
    BY <1>4, CallerActive, Zenon DEF Return
  <2>2. state[f] = "RUNNING"
    BY <2>1, CallerCalm, Zenon
  <2> QED
    BY <1>4, <2>1, <2>2, TerminateCalm, Zenon DEF Return
<1>5. CASE Unwind(f)
  BY <1>5, TerminateCalm, CallerCalm, Zenon DEF Unwind, Resumed
<1>6. ASSUME NEW t \in Deadline, SleepUntil(f, t) PROVE CalmInv'
  BY <1>6, SleepUntilCalm, Zenon
<1>7. ASSUME NEW g \in Fiber, Join(f, g) PROVE CalmInv'
  BY <1>7, JoinCalm, Zenon
<1> QED
  BY <1>1, <1>2, <1>3, <1>4, <1>5, <1>6, <1>7, Zenon DEF FiberStep

LEMMA NextCalm ==
  ASSUME PoliteInterrupts
  PROVE  IInv /\ IInv' /\ CalmInv /\ [Next]_vars => CalmInv'
<1> SUFFICES ASSUME IInv, IInv', CalmInv, [Next]_vars PROVE CalmInv'
  BY Zenon
<1>0. Main \in Context /\ Main \notin Fiber /\ \A f \in Fiber : f \in Context
  BY ContextAssumption, Zenon DEF Context
<1>1. ASSUME NEW f \in Fiber, FiberStep(f) PROVE CalmInv'
  BY <1>1, FiberStepCalm, Zenon
<1>2. ASSUME NEW f \in Fiber, Catch(f) PROVE CalmInv'
  BY <1>0, <1>2, BackToBodyCalm, Zenon DEF Catch, Resumed
<1>3. ASSUME NEW f \in Fiber, InterruptionPoint(f) PROVE CalmInv'
  BY <1>3, ThrowCalm, CallerActive, Zenon DEF InterruptionPoint
<1>4. ASSUME NEW f \in Fiber, DisableInterruption(f) PROVE CalmInv'
  <2>1. /\ UNCHANGED <<state, tp, wqueue, active, at, target, failed>>
        /\ \A g \in Fiber : "requested" \in flags[g] => "requested" \in flags'[g]
    BY <1>4 DEF DisableInterruption, schedVars, callVars, IInv, TypeOK
  <2> QED
    BY <2>1, QuietCalm, <1>4 DEF DisableInterruption, Calls, OnlyJoinFails
<1>5. ASSUME NEW c \in Context, NEW g \in Fiber, Detach(c, g) PROVE CalmInv'
  <2>1. /\ UNCHANGED <<state, tp, wqueue, active, at, target, failed>>
        /\ \A f \in Fiber : "requested" \in flags[f] => "requested" \in flags'[f]
    BY <1>5, Zenon DEF Detach, schedVars, callVars, IInv, TypeOK
  <2> QED
    BY <2>1, QuietCalm, <1>5 DEF Detach, Calls, OnlyJoinFails
<1>6. ASSUME NEW c \in Context, LocalCall(c) PROVE CalmInv'
  BY <1>5, <1>6, SpawnCalm, InterruptCalm, Zenon DEF LocalCall
<1>7. CASE MainRun
  BY <1>7, RunCalm, Zenon DEF MainRun, MainHasControl
<1>8. CASE MainReturns
  <2>0. failed = NoAssert
    BY <1>8, Zenon DEF MainReturns, MainHasControl
  <2>1. CASE at[Main] = "join" /\ JoinEnds(Main)
    BY <1>0, <1>8, <2>0, <2>1, JoinEndsCalm, Zenon DEF MainReturns, MainLoops
  <2>2. CASE /\ at[Main] = "sleep" /\ at' = [at EXCEPT ![Main] = "body"]
             /\ UNCHANGED <<fiberVars, schedVars, target, until, handle, now, failed>>
    BY <1>0, <2>0, <2>2, BackToBodyCalm, Zenon
  <2> QED
    BY <1>8, <2>1, <2>2, Zenon DEF MainReturns
<1>9. ASSUME NEW g \in Fiber, MainJoin(g) PROVE CalmInv'
  <2>1. /\ at' = [at EXCEPT ![Main] = "join"] /\ "join" \in Point \ {"self"}
        /\ UNCHANGED <<state, tp, wqueue, active, flags, failed>> /\ failed = NoAssert
    BY <1>9, Zenon DEF MainJoin, fiberVars, schedVars, Point, Calls
  <2>2. \A f \in Fiber : target'[f] = target[f]
    BY <1>0, <1>9, Zenon DEF MainJoin, IInv, TypeOK, Context
  <2> QED
    BY <1>0, <2>1, <2>2, CallCalm, Zenon
<1>10. ASSUME NEW t \in Deadline, MainSleep(t) PROVE CalmInv'
  <2>1. /\ at' = [at EXCEPT ![Main] = "sleep"] /\ "sleep" \in Point \ {"self"}
        /\ UNCHANGED <<state, tp, wqueue, active, flags, target, failed>>
        /\ failed = NoAssert
    BY <1>10, Zenon DEF MainSleep, fiberVars, schedVars, Point, Calls
  <2> QED
    BY <1>0, <2>1, CallCalm, Zenon
<1>11. CASE Tick \/ UNCHANGED vars
  <2>1. UNCHANGED <<state, tp, wqueue, active, at, flags, target, failed>>
    BY <1>11, Zenon DEF Tick, vars, fiberVars, schedVars, callVars
  <2> QED
    BY <2>1, QuietCalm, Zenon DEF CalmInv, OnlyJoinFails, Live
<1> QED
  BY <1>1, <1>2, <1>3, <1>4, <1>6, <1>7, <1>8, <1>9, <1>10, <1>11 DEF Next

(* The invariant of clients that interrupt only others that have not       *)
(* ended.                                                                  *)
THEOREM CalmInvariant ==
  ASSUME PoliteInterrupts
  PROVE  Spec => []CalmInv
<1>1. Init => CalmInv
  BY Zenon DEF Init, CalmInv, CalmAt, OnlyJoinFails, Context
<1>2. IInv /\ IInv' /\ CalmInv /\ [Next]_vars => CalmInv'
  BY NextCalm, Zenon
<1> QED
  BY <1>1, <1>2, Inductive, PTL DEF Spec

(* With such clients the one BOOST_ASSERT of the scheduler that can fail   *)
(* is that of fiber_manager::join(), for an interrupted joiner; without    *)
(* interrupts none fails.                                                  *)
THEOREM JoinAloneFails ==
  ASSUME PoliteInterrupts
  PROVE  Spec => []OnlyJoinFails
<1>1. CalmInv => OnlyJoinFails
  BY Zenon DEF CalmInv
<1> QED
  BY <1>1, CalmInvariant, PTL

-----------------------------------------------------------------------------
(* Nobody has asked a fiber to stop, and no assertion has failed. *)
QuietInv == failed = NoAssert /\ \A f \in Fiber : "requested" \notin flags[f]

(* Only interrupt() requests an interruption, and without it only fibers   *)
(* run into assertions.                                                    *)
LEMMA NobodyRequests ==
  ASSUME Interrupted = {}, IInv, [Next]_vars
  PROVE  /\ \A f \in Fiber : "requested" \in flags'[f] => "requested" \in flags[f]
         /\ failed' = failed \/ active' \in Fiber
<1>1. ASSUME NEW g \in Fiber, FiberStep(g)
      PROVE  /\ \A f \in Fiber : "requested" \in flags'[f] => "requested" \in flags[f]
             /\ failed' = failed \/ active' \in Fiber
  <2>1. ASSUME NEW a, Abort(a), active = g
        PROVE  UNCHANGED flags /\ active' \in Fiber
    BY <2>1, Zenon DEF Abort, fiberVars, schedVars
  <2>2. CASE Yield(g)
    BY <2>1, <2>2, CallerActive, Zenon DEF Yield, YieldNow
  <2>3. CASE SleepReturns(g)
    BY <2>3, Zenon DEF SleepReturns, ThrowInterrupted, fiberVars, IInv, TypeOK
  <2>4. CASE JoinReturns(g)
    BY <2>1, <2>4, Zenon DEF JoinReturns, Resumed, JoinEnds
  <2>5. CASE Return(g)
    BY <2>1, <2>5, CallerActive, Zenon DEF Return, Terminate
  <2>6. CASE Unwind(g)
    BY <2>1, <2>6 DEF Unwind, Resumed, Terminate
  <2>7. ASSUME NEW t \in Deadline, SleepUntil(g, t)
        PROVE  UNCHANGED flags /\ (failed' = failed \/ active' \in Fiber)
    BY <2>1, <2>7, CallerActive DEF SleepUntil, Sleep, WaitUntil
  <2>8. ASSUME NEW h \in Fiber, Join(g, h)
        PROVE  UNCHANGED flags /\ (failed' = failed \/ active' \in Fiber)
    BY <2>1, <2>8, CallerActive DEF Join, EnterJoin
  <2> QED
    BY <1>1, <2>2, <2>3, <2>4, <2>5, <2>6, <2>7, <2>8, Zenon DEF FiberStep
<1>2. ASSUME NEW g \in Fiber, Catch(g) \/ InterruptionPoint(g) \/ DisableInterruption(g)
      PROVE  /\ \A f \in Fiber : "requested" \in flags'[f] => "requested" \in flags[f]
             /\ failed' = failed
  <2>1. CASE Catch(g)
    BY <2>1 DEF Catch, fiberVars
  <2>2. CASE InterruptionPoint(g)
    BY <2>2 DEF InterruptionPoint, ThrowInterrupted, IInv, TypeOK
  <2>3. CASE DisableInterruption(g)
    BY <2>3 DEF DisableInterruption, IInv, TypeOK
  <2> QED
    BY <1>2, <2>1, <2>2, <2>3
<1>3. ASSUME NEW c \in Context, LocalCall(c)
      PROVE  /\ \A f \in Fiber : "requested" \in flags'[f] => "requested" \in flags[f]
             /\ failed' = failed
  <2>3. ASSUME NEW g \in Fiber, Detach(c, g)
        PROVE  /\ \A f \in Fiber : "requested" \in flags'[f] => "requested" \in flags[f]
               /\ failed' = failed
    BY <2>3 DEF Detach, IInv, TypeOK
  <2> QED
    BY <1>3, <2>3 DEF LocalCall, Interrupt, Spawn
<1>4. CASE MainRun
  BY <1>4, Zenon DEF MainRun, Run
<1>5. CASE MainReturns
  BY <1>5, Zenon DEF MainReturns, JoinEnds, fiberVars
<1>6. ASSUME NEW g \in Fiber, MainJoin(g) PROVE UNCHANGED <<flags, failed>>
  BY <1>6, Zenon DEF MainJoin, fiberVars
<1>7. ASSUME NEW t \in Deadline, MainSleep(t) PROVE UNCHANGED <<flags, failed>>
  BY <1>7, Zenon DEF MainSleep, fiberVars
<1>8. CASE Tick \/ UNCHANGED vars
  BY <1>8, Zenon DEF Tick, vars, fiberVars
<1> QED
  BY <1>1, <1>2, <1>3, <1>4, <1>5, <1>6, <1>7, <1>8, Zenon DEF Next

(* Where no client interrupts, no BOOST_ASSERT of the scheduler fails and  *)
(* no request is pending.                                                  *)
THEOREM NothingFails ==
  ASSUME Interrupted = {}
  PROVE  Spec => []QuietInv
<1>1. Init => QuietInv
  BY Zenon DEF Init, QuietInv
<1>2. IInv /\ CalmInv' /\ QuietInv /\ [Next]_vars => QuietInv'
  BY NobodyRequests, Zenon DEF QuietInv, CalmInv, OnlyJoinFails
<1>3. PoliteInterrupts
  BY Zenon DEF PoliteInterrupts
<1> QED
  BY <1>1, <1>2, <1>3, CalmInvariant, Inductive, PTL DEF Spec

LEMMA ScanOrdered ==
  ASSUME IInv, \A f \in Requested : f \in Range(wqueue) => state[f] = "READY"
  PROVE  ScanComplete
<1> SUFFICES ASSUME NEW i \in 1..Len(wqueue), FetchReady(wqueue[i], now, state, tp, Requested)
             PROVE  i <= ReadyPrefix(wqueue, now, state, tp, Requested)
  BY Zenon DEF ScanComplete
<1>1. wqueue \in Seq(Fiber) /\ Ordered(wqueue, state, tp) /\ now \in Nat
  BY TimeAssumption DEF IInv, TypeOK, QueueOrdered
<1>2. \A j \in 1..Len(wqueue) : wqueue[j] \in Fiber /\ wqueue[j] \in Range(wqueue)
  BY <1>1 DEF Range
<1>3. \A j \in 1..Len(wqueue) : tp[wqueue[j]] \in Nat
  BY <1>2, TPMaxAssumption DEF IInv, TypeOK
<1> QED
  BY <1>1, <1>3, ScanFindsReady, <1>2, Zenon

(* "Since the wait time is ordered, the fibers after will not be ready" of *)
(* waiting_queue::move_to() is right for every client as long as no fiber  *)
(* waits in the queue with a request that did not make it ready.           *)
THEOREM ScanStopsRightly ==
  Spec => []((\A f \in Requested : f \in Range(wqueue) => state[f] = "READY")
             => ScanComplete)
<1>1. IInv => ((\A f \in Requested : f \in Range(wqueue) => state[f] = "READY")
               => ScanComplete)
  BY ScanOrdered, Zenon
<1> QED
  BY <1>1, Inductive, PTL

(* It is right where no client interrupts. *)
THEOREM ScanStopsRightlyQuiet ==
  ASSUME Interrupted = {}
  PROVE  Spec => []ScanComplete
<1>1. IInv /\ QuietInv => ScanComplete
  BY ScanOrdered, Zenon DEF QuietInv, Requested
<1> QED
  BY <1>1, Inductive, NothingFails, PTL
=============================================================================
