---------------------------- MODULE FutureProofs ----------------------------
(***************************************************************************)
(* One result per shared state, an owner for every one that is not ready,  *)
(* nobody inside one that is freed and one future for each, for every set  *)
(* of contexts, promises, tasks and futures.                               *)
(***************************************************************************)
EXTENDS Future, ConditionProofs

USE FutureAssumption, ConditionAssumption DEF State, Handle

Made == 1..made

(* The types of the calls, of the objects and of the shared states. *)
CallType ==
  /\ op \in [Context -> Op] /\ at \in [Context -> At]
  /\ obj \in [Context -> Owner \cup Handle \cup {None}]
  /\ st \in [Context -> Made \cup {None}]
  /\ arg \in [Context -> Result \cup {None}] /\ out \in [Context -> Result \cup {None}]
  /\ \A c \in Context : /\ at[c] # "idle" => st[c] # None
                        /\ at[c] = "set" => arg[c] # None
                        /\ at[c] = "idle" => op[c] = "none"
ObjectType ==
  /\ mode \in Mode /\ made \in 0..mode.states
  /\ ptr \in [Owner -> Made \cup {None}] /\ fut \in [Handle -> Made \cup {None}]
ResultType ==
  /\ ready \in [State -> BOOLEAN]
  /\ value \in [State -> Result \cup {None}] /\ except \in [State -> Errors \cup {None}]

FutureType == ObjectType /\ ResultType /\ CallType

LEMMA MadeState ==
  ASSUME ObjectType
  PROVE  /\ Made \subseteq State /\ None \notin Made /\ made \in Nat
         /\ made < mode.states => made + 1 \in State
BY DEF ObjectType, Made

LEMMA CallTyped ==
  ASSUME CallType, Made \subseteq Made', None \notin Made',
         NEW c \in Context, NEW o \in Op \ {"none"}, NEW p \in At \ {"idle"},
         NEW x \in Owner \cup Handle \cup {None}, NEW s \in Made', NEW r \in Result \cup {None},
         p = "set" => r # None, Call(c, o, p, x, s, r)
  PROVE  CallType'
<1>3. ASSUME NEW d \in Context
      PROVE  /\ at'[d] # "idle" => st'[d] # None
             /\ at'[d] = "set" => arg'[d] # None
             /\ at'[d] = "idle" => op'[d] = "none"
  <2>1. CASE d = c
    BY <2>1, Zenon DEF CallType, Call
  <2>2. CASE d # c
    BY <2>2, Zenon DEF CallType, Call
  <2> QED
    BY <2>1, <2>2, Zenon
<1> QED
  BY <1>3, Zenon DEF CallType, Call

LEMMA ReturnTyped ==
  ASSUME CallType, UNCHANGED made, NEW c \in Context, Return(c)
  PROVE  CallType'
BY Zenon DEF CallType, Return, Made, Op, At

LEMMA GotoTyped ==
  ASSUME CallType, UNCHANGED made, NEW c \in Context, NEW p \in At \ {"idle", "set"},
         at[c] # "idle", Goto(c, p)
  PROVE  CallType'
BY Zenon DEF CallType, Goto, Made

LEMMA SameCalls ==
  ASSUME CallType, UNCHANGED <<made, callVars>>
  PROVE  CallType'
BY Zenon DEF CallType, callVars, Made

LEMMA SameObjects ==
  ASSUME ObjectType, UNCHANGED <<mode, made, ptr, fut>>
  PROVE  ObjectType'
BY Zenon DEF ObjectType, Made

LEMMA SameResults ==
  ASSUME ResultType, UNCHANGED stateVars
  PROVE  ResultType'
BY Zenon DEF ResultType, stateVars

LEMMA StoreTyped ==
  ASSUME ResultType, mode \in Mode, NEW s \in State, NEW r \in Result, Store(s, r),
         ready' = [ready EXCEPT ![s] = TRUE]
  PROVE  ResultType'
BY DEF ResultType, Store, SetValue_, SetValueR, SetValueRef, SetValueVoid

LEMMA OutcomeTyped ==
  ASSUME ResultType, mode \in Mode, NEW s \in State
  PROVE  Outcome(s) \in Result \cup {None}
BY Zenon DEF ResultType, Outcome, GetR, GetRef, GetVoid, Result

-----------------------------------------------------------------------------
(* The steps of Next, whatever the specialisation.  A shared_future takes   *)
(* over a future, never the reverse.                                       *)
OwnerCase(c) ==
  \E p \in Owner :
    \/ Construct(c, p) \/ Destroy(c, p) \/ Set(c, p) \/ Run(c, p) \/ Reset(c, p)
    \/ \E q \in Owner : MoveAssign(c, p, q) \/ Swap(c, p, q)
    \/ \E h \in Futures : GetFuture(c, p, h)
FutureCase(c) ==
  \/ \E h \in Futures : Get(c, h) \/ \E d \in Context : Async(c, d, h)
  \/ \E h \in Handle :
       \/ Drop(c, h) \/ \E o \in {"wait", "wait_until", "get"} : Inspect(c, h, o)
       \/ \E g \in Handle : (h \in Futures => g \in Futures) /\ Move(c, h, g)
       \/ \E g \in Handle : (h \in Futures <=> g \in Futures) /\ SwapFutures(c, h, g)
       \/ \E g \in Handle : h \in Shared /\ Copy(c, h, g)

LEMMA NextCases ==
  ASSUME mode \in Mode, [Next]_vars
  PROVE  \/ \E c \in Context : StateStep(c) \/ OwnerCase(c) \/ FutureCase(c)
         \/ \E c \in Context : (CondStep(c) \/ Reach(c)) /\ UNCHANGED futureVars
         \/ UNCHANGED vars
<1>2. ASSUME NEW c \in Context, Provide(c) PROVE OwnerCase(c) \/ FutureCase(c)
  <2>4. ASSUME AsyncCall(c) PROVE FutureCase(c)
    BY <2>4, Zenon DEF AsyncCall, FutureCase, Singles, Context
  <2>5. OwnerOp(c) \/ PromiseOp(c) \/ TaskOp(c) \/ AsyncCall(c)
    BY <1>2, Zenon DEF Provide, PromiseOwnerR, PromiseOwnerRef, PromiseOwnerVoid,
        PromiseR, PromiseRef, PromiseVoid, TaskOwnerR, TaskOwnerVoid, TaskR, TaskVoid
  <2> QED
    BY <2>4, <2>5, Zenon DEF OwnerOp, OwnerCase, Owners, PromiseOp, Singles, TaskOp
<1>3. ASSUME NEW c \in Context, Use(c) PROVE FutureCase(c)
  <2>4. FutureOp(c) \/ SharedMove(c) \/ SharedGet(c)
    BY <1>3, Zenon DEF Use, FutureR, FutureRef, FutureVoid, SharedMoveR, SharedMoveRef,
        SharedMoveVoid, SharedGetR, SharedGetRef, SharedGetVoid
  <2> QED
    BY <2>4 DEF FutureOp, FutureCase, Singles, WaitOps, SharedMove, Shareds,
        SharedGet
<1> QED
  BY <1>2, <1>3, Zenon DEF Next, StateR, StateRef, StateVoid

-----------------------------------------------------------------------------
(* Types. *)
LEMMA StateTyped ==
  ASSUME FutureType, NEW c \in Context, StateStep(c)
  PROVE  FutureType'
<1> USE DEF FutureType
<1>0. ObjectType /\ ResultType /\ CallType /\ mode \in Mode /\ Errors \subseteq Result
  BY Zenon DEF ObjectType, Result
<1>1. at[c] # "idle" => st[c] \in State
  BY MadeState, Zenon DEF CallType
<1>2. UNCHANGED <<mode, objVars>>
  BY Zenon DEF StateStep, Assign, OwnerDestroyed, Leave, Ask, Loop, Got, Same
<1>3. ObjectType' /\ UNCHANGED made
  BY <1>0, <1>2, SameObjects, Zenon DEF objVars
<1>4. CASE Assign(c)
  <2>1. at[c] = "set" /\ arg[c] \in Result
    BY <1>4, Zenon DEF Assign, Here, CallType
  <2>2. CASE ready[st[c]]
    <3>1. UNCHANGED stateVars
      BY <1>4, <2>2, Zenon DEF Assign
    <3>2. CASE Return(c)
      BY <1>0, <1>3, <3>1, <3>2, SameResults, ReturnTyped, Zenon
    <3>3. CASE arg' = [arg EXCEPT ![c] = "satisfied"] /\ UNCHANGED <<op, at, obj, st, out>>
      BY <1>0, <1>3, <3>1, SameResults, <3>3, Zenon DEF CallType, Made, Errors
    <3> QED
      BY <1>4, <2>2, <3>2, <3>3, Zenon DEF Assign
  <2>3. CASE ~ready[st[c]]
    <3>1. Store(st[c], arg[c]) /\ MarkReadyAndNotify_(c, st[c]) /\ Goto(c, "leave")
      BY <1>4, <2>3, Zenon DEF Assign
    <3> QED
      BY <1>0, <1>1, <1>3, <2>1, <3>1, StoreTyped, GotoTyped, Zenon DEF MarkReadyAndNotify_, At
  <2> QED
    BY <2>2, <2>3, Zenon
<1>5. CASE OwnerDestroyed(c)
  <2>1. at[c] = "destroy"
    BY <1>5, Zenon DEF OwnerDestroyed, Here
  <2>2. CASE ready[st[c]]
    BY <1>0, <1>3, <1>5, <2>2, SameResults, ReturnTyped, Zenon DEF OwnerDestroyed
  <2>3. CASE ~ready[st[c]]
    <3>1. Store(st[c], "broken") /\ MarkReadyAndNotify_(c, st[c]) /\ Goto(c, "leave")
      BY <1>5, <2>3, Zenon DEF OwnerDestroyed
    <3> QED
      BY <1>0, <1>1, <1>3, <2>1, <3>1, StoreTyped, GotoTyped, Zenon DEF MarkReadyAndNotify_, At, Errors
  <2> QED
    BY <2>2, <2>3, Zenon
<1>6. CASE Leave(c)
  <2>1. at[c] = "leave" /\ UNCHANGED stateVars
    BY <1>6, Zenon DEF Leave, Here, Same
  <2>2. CASE Return(c)
    BY <1>0, <1>3, <2>1, <2>2, SameResults, ReturnTyped, Zenon
  <2>3. CASE ~Return(c)
    <3>1. /\ op' = [op EXCEPT ![c] = "destroy"] /\ at' = [at EXCEPT ![c] = "destroy"]
          /\ UNCHANGED <<obj, st, arg, out>>
      BY <1>6, <2>3, Zenon DEF Leave
    <3> QED
      BY <1>0, <1>3, <2>1, SameResults, <3>1, Zenon DEF CallType, Made, Op, At
  <2> QED
    BY <2>2, <2>3, Zenon
<1>7. ASSUME NEW x, TestReady(c, x), at[c] # "idle", UNCHANGED stateVars PROVE FutureType'
  <2>1. CASE Answer(c)
    <3>1. Outcome(st[c]) \in Result \cup {None}
      BY <1>0, <1>1, <1>7, OutcomeTyped, Zenon
    <3>2. CallType'
      BY <1>0, <1>3, <1>7, <2>1, <3>1, Zenon DEF CallType, Answer, Made, At
    <3> QED
      BY <1>0, <1>3, <1>7, <3>2, SameResults, Zenon
  <2>2. CASE Return(c)
    BY <1>0, <1>3, <1>7, <2>2, SameResults, ReturnTyped, Zenon
  <2>3. CASE Goto(c, "loop")
    BY <1>0, <1>3, <1>7, <2>3, SameResults, GotoTyped, Zenon DEF At
  <2> QED
    BY <1>7, <2>1, <2>2, <2>3, Zenon DEF TestReady
<1>8. CASE Ask(c)
  BY <1>7, <1>8, Zenon DEF Ask, Here, Same
<1>9. CASE Loop(c)
  <2>1. at[c] = "loop" /\ UNCHANGED stateVars
    BY <1>9, Zenon DEF Loop, Here, Same
  <2> QED
    BY <1>0, <1>3, <1>7, <1>9, <2>1, SameResults, ReturnTyped, Zenon DEF Loop
<1>10. CASE Got(c)
  BY <1>0, <1>3, <1>10, SameResults, ReturnTyped, Zenon DEF Got, Same
<1> QED
  BY <1>4, <1>5, <1>6, <1>8, <1>9, <1>10, Zenon DEF StateStep

(* A shared state is made. *)
LEMMA MakeTyped ==
  ASSUME ObjectType, made < mode.states, made' = made + 1
  PROVE  /\ Made' = Made \cup {made + 1} /\ made + 1 \in Made' /\ made' \in 0..mode.states
         /\ None \notin Made' /\ made + 1 \notin Made
BY MadeState DEF ObjectType, Made

LEMMA OwnerTyped ==
  ASSUME FutureType, NEW c \in Context, OwnerCase(c)
  PROVE  FutureType'
<1> USE DEF FutureType
<1>0. None \notin Made /\ mode.values \cup {"error"} \subseteq Result /\ None \notin Result
  BY MadeState DEF ObjectType, Result, Errors
<1>1. ASSUME NEW p \in Owner, Construct(c, p) PROVE FutureType'
  BY SameResults, MakeTyped, <1>1 DEF ObjectType, CallType, callVars, Construct,
      Quick, Same
<1>2. ASSUME NEW p \in Owner, Destroy(c, p) PROVE FutureType'
  BY SameResults, <1>0, CallTyped, <1>2, Zenon DEF ObjectType, Op, At, Made, Destroy,
      Same
<1>3. ASSUME NEW p \in Owner, Set(c, p) \/ Run(c, p) PROVE FutureType'
  <2>1. /\ UNCHANGED <<mode, stateVars, made, ptr, fut>> /\ ptr[p] \in Made
        /\ \E r \in mode.values \cup {"error"}, o \in {"set", "run"} : Call(c, o, "set", p, ptr[p], r)
    BY <1>3, Zenon DEF Set, Run, Same, ObjectType, objVars
  <2>2. PICK r \in Result, o \in {"set", "run"} : Call(c, o, "set", p, ptr[p], r)
    BY <1>0, <2>1, Zenon
  <2>4. CallType'
    BY <1>0, <2>1, <2>2, CallTyped, Zenon DEF Op, At, Made
  <2> QED
    BY <2>1, <2>4, SameResults, SameObjects, Zenon
<1>4. ASSUME NEW p \in Owner, Reset(c, p) PROVE FutureType'
  <2>1. /\ UNCHANGED <<mode, value, except, made, ptr, fut, callVars>>
        /\ ready' = [ready EXCEPT ![ptr[p]] = FALSE]
    BY <1>4, Zenon DEF Reset, Quick, Same
  <2>2. ready' \in [State -> BOOLEAN]
    BY <2>1, Zenon DEF ResultType
  <2> QED
    BY <2>1, <2>2, SameObjects, SameCalls, Zenon DEF ResultType
<1>5. ASSUME NEW p \in Owner, NEW q \in Owner, MoveAssign(c, p, q) PROVE FutureType'
  <2>1. /\ UNCHANGED <<mode, stateVars, made, fut>> /\ ptr[p] \in Made
        /\ Call(c, "destroy", "destroy", None, ptr[p], None)
        /\ ptr' = [ptr EXCEPT ![p] = ptr[q], ![q] = None]
    BY <1>5, Zenon DEF MoveAssign, Same, ObjectType
  <2>2. Made' = Made
    BY <2>1, Zenon DEF Made
  <2>3. CallType'
    BY <1>0, <2>1, <2>2, CallTyped, Zenon DEF Op, At
  <2> QED
    BY <2>1, <2>2, <2>3, SameResults, Zenon DEF ObjectType
<1>6. ASSUME NEW p \in Owner, NEW q \in Owner, Swap(c, p, q) PROVE FutureType'
  BY SameResults, SameCalls, <1>6, Zenon DEF ObjectType, Made, Swap, Quick, Same
<1>7. ASSUME NEW p \in Owner, NEW h \in Handle, GetFuture(c, p, h) PROVE FutureType'
  <2>1. /\ UNCHANGED <<mode, stateVars, made, ptr, callVars>>
        /\ fut' = [fut EXCEPT ![h] = ptr[p]]
    BY <1>7, Zenon DEF GetFuture, Quick, Same
  <2>2. Made' = Made
    BY <2>1, Zenon DEF Made
  <2> QED
    BY <2>1, <2>2, SameResults, SameCalls, Zenon DEF ObjectType
<1> QED
  BY <1>1, <1>2, <1>3, <1>4, <1>5, <1>6, <1>7, Zenon DEF OwnerCase

LEMMA HandleTyped ==
  ASSUME FutureType, NEW c \in Context, FutureCase(c)
  PROVE  FutureType'
<1> USE DEF FutureType
<1>0. None \notin Made /\ mode.values \cup {"error"} \subseteq Result /\ None \notin Result
  BY MadeState DEF ObjectType, Result, Errors
<1>1. ASSUME NEW h \in Handle, NEW g \in Handle,
             Drop(c, h) \/ Move(c, h, g) \/ SwapFutures(c, h, g) \/ Copy(c, h, g)
      PROVE  FutureType'
  <2>1. /\ UNCHANGED <<mode, stateVars, made, ptr, callVars>>
        /\ fut' \in [Handle -> Made \cup {None}]
    BY <1>1, Zenon DEF Drop, Move, SwapFutures, Copy, Quick, Same, ObjectType
  <2> QED
    BY <2>1, SameResults, SameCalls, Zenon DEF ObjectType, Made
<1>2. ASSUME NEW h \in Handle, Get(c, h) PROVE FutureType'
  BY SameResults, <1>0, CallTyped, <1>2, Zenon DEF ObjectType, Op, At, Made, Get, Same
<1>3. ASSUME NEW h \in Handle, NEW o \in {"wait", "wait_until", "get"}, Inspect(c, h, o)
      PROVE  FutureType'
  BY SameResults, SameObjects, <1>0, CallTyped, <1>3, Zenon DEF Op, At, Made, Inspect,
      Same, ObjectType, objVars
<1>4. ASSUME NEW h \in Handle, NEW d \in Context, Async(c, d, h) PROVE FutureType'
  <2>1. /\ UNCHANGED <<mode, stateVars, ptr>> /\ made < mode.states /\ made' = made + 1
        /\ \E r \in mode.values \cup {"error"} : Call(d, "async", "set", None, made + 1, r)
        /\ fut' = [fut EXCEPT ![h] = made + 1]
    BY <1>4, Zenon DEF Async, Same
  <2>2. PICK r \in Result : Call(d, "async", "set", None, made + 1, r)
    BY <1>0, <2>1, Zenon
  <2>3. /\ Made \subseteq Made' /\ made + 1 \in Made' /\ made' \in 0..mode.states
        /\ None \notin Made'
    BY <2>1, MakeTyped, Zenon
  <2>5. CallType'
    BY <1>0, <2>2, <2>3, CallTyped, Zenon DEF Op, At
  <2> QED
    BY <2>1, <2>3, <2>5, SameResults, Zenon DEF ObjectType
<1> QED
  BY <1>1, <1>2, <1>3, <1>4, Zenon DEF FutureCase

LEMMA FutureTypeNext == FutureType /\ [Next]_vars => FutureType'
<1> SUFFICES ASSUME FutureType, [Next]_vars PROVE FutureType'
  BY Zenon
<1>2. ASSUME UNCHANGED futureVars PROVE FutureType'
  BY <1>2, SameObjects, SameResults, SameCalls, Zenon DEF FutureType, futureVars,
      objVars
<1> QED
  BY <1>2, NextCases, StateTyped, OwnerTyped, HandleTyped, Zenon DEF vars, FutureType,
      ObjectType

-----------------------------------------------------------------------------
(* What a step does to the results and to what was returned. *)
Tells(c) ==
  \/ out' = [out EXCEPT ![c] = None]
  \/ /\ st[c] \in State /\ ready[st[c]]
     /\ out' = [out EXCEPT ![c] = Outcome(st[c])]
Stores(s, r) == ~ready[s] /\ Store(s, r) /\ ready' = [ready EXCEPT ![s] = TRUE]

ResultStep ==
  \/ UNCHANGED <<stateVars, out>>
  \/ UNCHANGED stateVars /\ \E c \in Context : Tells(c)
  \/ UNCHANGED out /\ \E s \in State, r \in Result : Stores(s, r)
  \/ mode.resets

LEMMA StateResults ==
  ASSUME FutureType, NEW c \in Context, StateStep(c)
  PROVE  ResultStep /\ UNCHANGED mode
<1>0. Errors \subseteq Result /\ (at[c] # "idle" => st[c] \in State)
  BY MadeState, Zenon DEF FutureType, CallType, Result
<1>1. UNCHANGED mode
  BY Zenon DEF StateStep, Assign, OwnerDestroyed, Leave, Ask, Loop, Got, Same
<1> SUFFICES ResultStep
  BY <1>1, Zenon
<1>2. ASSUME Return(c), UNCHANGED stateVars PROVE ResultStep
  BY <1>2, Zenon DEF Return, ResultStep, Tells
<1>3. CASE Assign(c)
  <2>2. CASE ready[st[c]]
    BY <1>2, <1>3, <2>2, Zenon DEF ResultStep, Assign
  <2>3. CASE ~ready[st[c]]
    <3>1. Stores(st[c], arg[c]) /\ UNCHANGED out
      BY <1>3, <2>3, Zenon DEF Assign, MarkReadyAndNotify_, Goto, Stores
    <3> QED
      BY <1>0, <3>1, <1>3, Zenon DEF ResultStep, Assign, Here, FutureType, CallType
  <2> QED
    BY <2>2, <2>3, Zenon
<1>4. CASE OwnerDestroyed(c)
  <2>2. CASE ready[st[c]]
    BY <1>2, <1>4, <2>2, Zenon DEF OwnerDestroyed
  <2>3. CASE ~ready[st[c]]
    BY <1>0, <1>4, <2>3, Zenon DEF ResultStep, OwnerDestroyed, Here, Errors,
        MarkReadyAndNotify_, Goto, Stores
  <2> QED
    BY <2>2, <2>3, Zenon
<1>5. CASE Leave(c)
  BY <1>2, <1>5, Zenon DEF ResultStep, Leave, Same
<1>6. ASSUME NEW x, TestReady(c, x), at[c] # "idle", UNCHANGED stateVars PROVE ResultStep
  <2>1. CASE Answer(c) /\ ready[st[c]]
    BY <1>0, <1>6, <2>1, Zenon DEF Answer, ResultStep, Tells
  <2>2. CASE Goto(c, "loop")
    BY <1>6, <2>2, Zenon DEF Goto, ResultStep
  <2> QED
    BY <1>2, <1>6, <2>1, <2>2, Zenon DEF TestReady
<1>7. CASE Ask(c)
  BY <1>6, <1>7, Zenon DEF Ask, Here, Same
<1>8. CASE Loop(c)
  BY <1>2, <1>6, <1>8, Zenon DEF Loop, Here, Same
<1>9. CASE Got(c)
  BY <1>2, <1>9, Zenon DEF Got, Same
<1> QED
  BY <1>1, <1>3, <1>4, <1>5, <1>7, <1>8, <1>9 DEF StateStep

LEMMA ObjectResults ==
  ASSUME NEW c \in Context, OwnerCase(c) \/ FutureCase(c)
  PROVE  ResultStep /\ UNCHANGED mode
<1> USE DEF Same, Quick, Call, callVars, objVars, stateVars, ResultStep
<1>2. ASSUME NEW p \in Owner, NEW q \in Owner, MoveAssign(c, p, q) \/ Swap(c, p, q)
      PROVE  UNCHANGED <<stateVars, out, mode>>
  BY <1>2, Zenon DEF MoveAssign, Swap
<1>7. ASSUME NEW h \in Handle, NEW d \in Context, Async(c, d, h)
      PROVE  UNCHANGED <<stateVars, out, mode>>
  BY <1>7, Zenon DEF Async
<1>9. ASSUME FutureCase(c) PROVE ResultStep /\ UNCHANGED mode
  BY <1>7, <1>9, Zenon DEF FutureCase, Move, SwapFutures, Copy, Drop, Get, Inspect
<1> QED
  BY <1>9, <1>2, Zenon DEF OwnerCase, Construct, Destroy, Set, Run, GetFuture, Reset

LEMMA ResultSteps ==
  ASSUME FutureType, [Next]_vars
  PROVE  ResultStep /\ UNCHANGED mode
BY NextCases, StateResults, ObjectResults, Zenon DEF vars, FutureType, ObjectType,
    futureVars, callVars, ResultStep

(* Without reset() a state that is not ready has no exception, so that     *)
(* what is stored is what get() gives, and it does not change.             *)
ResultInv ==
  ~mode.resets => \A s \in State : IF ready[s] THEN Outcome(s) \in Result ELSE except[s] = None

LEMMA StoreOutcome ==
  ASSUME FutureType, ResultInv, ~mode.resets, UNCHANGED mode,
         NEW s \in State, NEW r \in Result, Stores(s, r)
  PROVE  /\ Outcome(s)' \in Result /\ ready'[s]
         /\ \A t \in State \ {s} : /\ Outcome(t)' = Outcome(t)
                                   /\ ready'[t] = ready[t] /\ except'[t] = except[t]
<1>2. mode.type \in {"R", "R&", "void"} /\ except[s] = None
  BY Zenon DEF FutureType, ObjectType, ResultInv, Stores
<1>3. /\ except' \in [State -> Errors \cup {None}] /\ value' \in [State -> Result \cup {None}]
      /\ \A t \in State \ {s} : except'[t] = except[t] /\ value'[t] = value[t]
      /\ r \in Errors => except'[s] = r
      /\ r \notin Errors => except'[s] = None /\ (mode.type # "void" => value'[s] = r)
  BY <1>2 DEF FutureType, ResultType, Stores, Store, SetValue_, SetValueR, SetValueRef, SetValueVoid
<1>4. Outcome(s)' \in Result
  BY <1>2, <1>3, Zenon DEF Outcome, GetR, GetRef, GetVoid, Result
<1> QED
  BY <1>3, <1>4, <1>2, Zenon DEF FutureType, ResultType, Stores, Outcome, GetR, GetRef,
      GetVoid

LEMMA OutcomeSame ==
  ASSUME UNCHANGED <<mode, stateVars>>
  PROVE  \A s : Outcome(s)' = Outcome(s)
BY Zenon DEF stateVars, Outcome, GetR, GetRef, GetVoid

LEMMA ResultInvNext ==
  ASSUME FutureType, ResultInv, ResultStep, UNCHANGED mode
  PROVE  ResultInv'
<1>1. CASE mode.resets
  BY <1>1, Zenon DEF ResultInv
<1>2. CASE UNCHANGED stateVars
  BY <1>2, OutcomeSame, Zenon DEF ResultInv, stateVars
<1> QED
  BY <1>1, <1>2, StoreOutcome DEF ResultStep, ResultInv

-----------------------------------------------------------------------------
(* The refinement mapping to OneShot. *)
LEMMA OneShotStep ==
  ASSUME FutureType, ResultInv, ResultStep, UNCHANGED mode
  PROVE  O!Next \/ UNCHANGED <<ResultOf, SeenOf>>
<1>1. CASE mode.resets
  BY <1>1, Zenon DEF ResultOf, SeenOf
<1>2. ASSUME UNCHANGED stateVars PROVE ResultOf' = ResultOf
  BY <1>2, OutcomeSame, Zenon DEF ResultOf, stateVars
<1>3. ASSUME UNCHANGED out PROVE SeenOf' = SeenOf
  BY <1>3, Zenon DEF SeenOf
<1>4. ASSUME ~mode.resets, NEW c \in Context, Tells(c), UNCHANGED stateVars PROVE O!Next
  <2>1. SeenOf = out /\ SeenOf' = out' /\ out \in [Context -> Result \cup {None}]
    BY <1>4, Zenon DEF SeenOf, Tells, FutureType, CallType
  <2>2. CASE out' = [out EXCEPT ![c] = None]
    <3>1. O!Forget(c)
      BY <1>2, <1>4, <2>1, <2>2, Zenon DEF O!Forget
    <3> QED
      BY <3>1, Zenon DEF O!Next
  <2>3. CASE st[c] \in State /\ ready[st[c]] /\ out' = [out EXCEPT ![c] = Outcome(st[c])]
    <3>1. ResultOf[st[c]] = Outcome(st[c]) /\ Outcome(st[c]) \in Result
      BY <1>4, <2>3, Zenon DEF ResultOf, ResultInv
    <3>2. O!Get(c, st[c])
      BY <1>2, <1>4, <2>1, <2>3, <3>1, Zenon DEF O!Get
    <3> QED
      BY <2>3, <3>2, Zenon DEF O!Next
  <2> QED
    BY <1>4, <2>2, <2>3, Zenon DEF Tells
<1>5. ASSUME ~mode.resets, UNCHANGED out, NEW s \in State, NEW r \in Result, Stores(s, r) PROVE O!Next
  <2>1. /\ Outcome(s)' \in Result /\ ready'[s]
        /\ \A t \in State \ {s} : Outcome(t)' = Outcome(t) /\ ready'[t] = ready[t]
    BY <1>5, StoreOutcome, Zenon
  <2>3. PICK v \in Result : v = Outcome(s)'
    BY <2>1, Zenon
  <2>4. ResultOf' = [ResultOf EXCEPT ![s] = v]
    BY <1>5, <2>1, <2>3, Zenon DEF ResultOf
  <2>5. O!Set(s, v)
    BY <1>3, <1>5, <2>4, Zenon DEF O!Set, ResultOf, Stores
  <2> QED
    BY <2>5, Zenon DEF O!Next
<1> QED
  BY <1>1, <1>2, <1>3, <1>4, <1>5, Zenon DEF ResultStep

LEMMA FutureInit == Init => FutureType /\ ResultInv
<1> SUFFICES ASSUME Init PROVE FutureType /\ ResultInv
  BY Zenon
<1>5. ResultInv
  BY Zenon DEF Init, ResultInv
<1> QED
  BY <1>5 DEF FutureType, Init, ObjectType, ResultType, CallType, Op, At

(* The invariant of the results. *)
THEOREM ResultsStay == Spec => [](FutureType /\ ResultInv)
<1>1. FutureType /\ ResultInv /\ [Next]_vars => (FutureType /\ ResultInv)'
  BY FutureTypeNext, ResultSteps, ResultInvNext, Zenon
<1> QED
  BY <1>1, FutureInit, PTL DEF Spec

(* For every number of contexts, promises, tasks, futures and shared       *)
(* states, whatever is moved, swapped, copied, interrupted or timed out:   *)
(* without reset() a shared state gets one result and every get() gives    *)
(* it.                                                                     *)
THEOREM SingleResult == Spec => ImplementsOneShot
<1>1. Init => O!Init
  BY Zenon DEF Init, O!Init, ResultOf, SeenOf
<1>2. FutureType /\ ResultInv /\ [Next]_vars => [O!Next]_(O!vars)
  BY ResultSteps, OneShotStep, Zenon DEF O!vars
<1> QED
  BY <1>1, <1>2, ResultsStay, PTL DEF Spec, ImplementsOneShot, O!Spec

-----------------------------------------------------------------------------
(* Who is to set the result of a shared state.  A call that ends an owner  *)
(* is the only one that refers to its shared state as an owner does.       *)
Ending == {"async", "destroy"}
Keeping(c) ==
  /\ obj[c] = None /\ st[c] # None
  /\ \A p \in Owner : ptr[p] # st[c]
  /\ at[c] \in {"set", "destroy", "leave"}
  /\ at[c] = "leave" => ready[st[c]]
OwnerInv ==
  /\ \A p, q \in Owner : ptr[p] # None /\ ptr[p] = ptr[q] => p = q
  /\ \A c \in Context : op[c] \in Ending => Keeping(c)
  /\ OwnerRemains

(* A step that leaves the objects alone and the results that are there. *)
LEMMA CallOwner ==
  ASSUME FutureType, OwnerInv, UNCHANGED <<made, ptr>>, NEW c \in Context,
         \A s \in State : ready[s] => ready'[s],
         \A d \in Context \ {c} :
           at'[d] = at[d] /\ op'[d] = op[d] /\ obj'[d] = obj[d] /\ st'[d] = st[d],
         op'[c] \in Ending => op[c] \in Ending /\ Keeping(c)' /\ st'[c] = st[c],
         op[c] \in Ending /\ op'[c] \notin Ending => ready'[st[c]]
  PROVE  OwnerInv'
<1>0. Made \subseteq State /\ Made = 1..made /\ st \in [Context -> Made \cup {None}]
  BY MadeState, Zenon DEF FutureType, Made, CallType
<1>1. ASSUME NEW d \in Context, op'[d] \in Ending PROVE Keeping(d)'
  <2>1. CASE d = c
    BY <1>1, <2>1, Zenon
  <2>2. CASE d # c
    BY <2>2, <1>0, <1>1 DEF Keeping, OwnerInv
  <2> QED
    BY <2>1, <2>2, Zenon
<1>2. ASSUME NEW s \in Made
      PROVE  ready'[s] \/ (\E p \in Owner : ptr'[p] = s) \/ \E d \in Keeps(s)' : op'[d] \in Ending
  <2>1. CASE ready[s] \/ \E p \in Owner : ptr[p] = s
    BY <1>0, <1>2, <2>1, Zenon
  <2>2. ASSUME NEW d \in Context, st[d] = s, obj[d] = None, op[d] \in Ending
        PROVE  ready'[s] \/ \E e \in Keeps(s)' : op'[e] \in Ending
    <3>1. CASE op'[d] \in Ending
      BY <3>1, <1>1, <2>2, Zenon DEF Keeps, Keeping
    <3>2. CASE op'[d] \notin Ending
      BY <2>2, <3>2, Zenon
    <3> QED
      BY <3>1, <3>2, Zenon
  <2> QED
    BY <1>0, <1>2, <2>1, <2>2 DEF OwnerInv, OwnerRemains, Keeps, Ending
<1> QED
  BY <1>1, <1>0, <1>2, Zenon DEF OwnerInv, OwnerRemains, Ending

LEMMA StateOwner ==
  ASSUME FutureType, OwnerInv, NEW c \in Context, StateStep(c)
  PROVE  OwnerInv'
<1>0. /\ UNCHANGED <<mode, objVars>> /\ (at[c] # "idle" => st[c] \in State)
      /\ op \in [Context -> Op] /\ at \in [Context -> At] /\ arg \in [Context -> Result \cup {None}]
      /\ obj \in [Context -> Owner \cup Handle \cup {None}] /\ st \in [Context -> Made \cup {None}]
  BY MadeState, Zenon DEF FutureType, CallType, StateStep, Assign, OwnerDestroyed, Leave, Ask, Loop, Got, Same
<1>1. UNCHANGED <<made, ptr>>
  BY <1>0, Zenon DEF objVars
<1>2. ASSUME Return(c), UNCHANGED stateVars, op[c] \in Ending => ready[st[c]] PROVE OwnerInv'
  BY <1>1, <1>2, CallOwner, <1>0, Zenon DEF stateVars, Ending, Return
<1>3. ASSUME Goto(c, "leave"), at[c] # "idle", ready' = [ready EXCEPT ![st[c]] = TRUE]
      PROVE  OwnerInv'
  <2>1. ready'[st[c]] /\ \A s \in State : ready[s] => ready'[s]
    BY <1>0, <1>3, Zenon DEF FutureType, ResultType
  <2>2. /\ op'[c] = op[c] /\ at'[c] = "leave" /\ obj'[c] = obj[c] /\ st'[c] = st[c]
        /\ \A d \in Context \ {c} :
             at'[d] = at[d] /\ op'[d] = op[d] /\ obj'[d] = obj[d] /\ st'[d] = st[d]
    BY <1>0, <1>3, Zenon DEF Goto
  <2>3. op'[c] \in Ending => Keeping(c)'
    BY <1>1, <2>1, <2>2 DEF OwnerInv, Keeping
  <2> QED
    BY <1>1, <2>1, <2>2, <2>3, CallOwner, Zenon
<1>4. CASE Assign(c)
  <2>2. CASE ready[st[c]] /\ ~Return(c)
    BY <1>1, CallOwner, <1>4, <2>2 DEF stateVars, OwnerInv, Keeping, Assign
  <2>3. CASE ready[st[c]] /\ Return(c)
    BY <1>2, <1>4, <2>3, Zenon DEF Assign
  <2>4. CASE ~ready[st[c]]
    BY <1>3, <1>4, <2>4, Zenon DEF Assign, MarkReadyAndNotify_, Here
  <2> QED
    BY <2>2, <2>3, <2>4, Zenon
<1>5. CASE OwnerDestroyed(c)
  BY <1>2, <1>3, <1>5, Zenon DEF OwnerDestroyed, MarkReadyAndNotify_, Here
<1>6. CASE Leave(c)
  <2>1. at[c] = "leave" /\ UNCHANGED stateVars /\ (op[c] \in Ending => ready[st[c]])
    BY <1>6, Zenon DEF Leave, Here, Same, OwnerInv, Keeping
  <2>2. CASE Return(c)
    BY <1>2, <2>1, <2>2, Zenon
  <2>3. CASE ~Return(c)
    <3>1. /\ op[c] = "async" /\ op' = [op EXCEPT ![c] = "destroy"]
          /\ at' = [at EXCEPT ![c] = "destroy"] /\ UNCHANGED <<obj, st>>
      BY <1>6, <2>3, Zenon DEF Leave
    <3>2. Keeping(c)'
      BY <1>0, <1>1, <2>1, <3>1, Zenon DEF OwnerInv, Keeping, Ending
    <3> QED
      BY <1>0, <1>1, <2>1, <3>1, <3>2, CallOwner, Zenon DEF stateVars, Ending
  <2> QED
    BY <2>2, <2>3, Zenon
<1>7. ASSUME at[c] \in {"ask", "loop", "got"}, UNCHANGED stateVars,
             Return(c) \/ Answer(c) \/ Goto(c, "loop")
      PROVE  OwnerInv'
  <2>1. op[c] \notin Ending
    BY <1>7, Zenon DEF OwnerInv, Keeping
  <2>2. CASE Return(c)
    BY <1>2, <1>7, <2>1, <2>2, Zenon
  <2>3. CASE ~Return(c)
    <3>1. op' = op /\ obj' = obj /\ st' = st /\ \A d \in Context \ {c} : at'[d] = at[d]
      BY <1>0, <1>7, <2>3, Zenon DEF Answer, Goto
    <3> QED
      BY <1>1, <1>7, <2>1, <3>1, CallOwner, Zenon DEF stateVars
  <2> QED
    BY <2>2, <2>3, Zenon
<1>8. CASE Ask(c) \/ Loop(c) \/ Got(c)
  <2>1. at[c] \in {"ask", "loop", "got"} /\ UNCHANGED stateVars
    BY <1>8, Zenon DEF Ask, Loop, Got, Here, Same
  <2>2. Return(c) \/ Answer(c) \/ Goto(c, "loop")
    BY <1>8, Zenon DEF Ask, Loop, Got, TestReady
  <2> QED
    BY <1>7, <2>1, <2>2, Zenon
<1> QED
  BY <1>4, <1>5, <1>6, <1>8, Zenon DEF StateStep

(* A call that begins in an idle context and ends no owner. *)
LEMMA BeginOwner ==
  ASSUME FutureType, OwnerInv, UNCHANGED <<made, ptr, stateVars>>, NEW c \in Context,
         NEW o \in Op \ Ending, NEW p, NEW x, NEW t, NEW r, Call(c, o, p, x, t, r)
  PROVE  OwnerInv'
BY CallOwner, Zenon DEF stateVars, Ending, FutureType, CallType, Call

(* A call that takes over the shared state t of an owner, or a new one. *)
LEMMA EndOwner ==
  ASSUME FutureType, OwnerInv, UNCHANGED stateVars, NEW c \in Context, NEW o \in Ending,
         NEW p \in {"set", "destroy"}, NEW t, NEW r, t # None, Call(c, o, p, None, t, r),
         Made \subseteq Made', Made' \subseteq Made \cup {t},
         \A q \in Owner : ptr'[q] # t,
         \A q, u \in Owner : ptr'[q] # None /\ ptr'[q] = ptr'[u] => q = u,
         \A s \in Made \ {t} : (\E q \in Owner : ptr[q] = s) <=> (\E q \in Owner : ptr'[q] = s)
  PROVE  OwnerInv'
<1>0. st \in [Context -> Made \cup {None}] /\ UNCHANGED ready /\ Made = 1..made
  BY Zenon DEF FutureType, CallType, stateVars, Made
<1>1. op[c] \notin Ending /\ op'[c] = o /\ at'[c] = p /\ obj'[c] = None /\ st'[c] = t
  BY Zenon DEF FutureType, CallType, Call, Ending
<1>2. \A d \in Context \ {c} :
        at'[d] = at[d] /\ op'[d] = op[d] /\ obj'[d] = obj[d] /\ st'[d] = st[d]
  BY DEF FutureType, CallType, Call
<1>3. ASSUME NEW d \in Context, op'[d] \in Ending PROVE Keeping(d)'
  <2>1. CASE d = c
    BY <1>1, <2>1, Zenon DEF Keeping
  <2>2. CASE d # c
    <3>1. Keeping(d) /\ op[d] \in Ending /\ st[d] \in Made
      BY <1>0, <1>2, <1>3, <2>2, Zenon DEF OwnerInv, Keeping
    <3>2. \A q \in Owner : ptr'[q] # st[d]
      BY <3>1, Zenon DEF Keeping
    <3> QED
      BY <1>0, <1>2, <2>2, <3>1, <3>2, Zenon DEF Keeping
  <2> QED
    BY <2>1, <2>2, Zenon
<1>4. ASSUME NEW s \in Made'
      PROVE  ready'[s] \/ (\E q \in Owner : ptr'[q] = s) \/ \E d \in Keeps(s)' : op'[d] \in Ending
  <2>1. CASE s = t
    BY <1>1, <2>1, Zenon DEF Keeps
  <2>2. CASE s # t
    <3>1. s \in Made
      BY <1>4, <2>2, Zenon
    <3>2. ASSUME NEW d \in Context, st[d] = s, obj[d] = None, op[d] \in Ending
          PROVE  \E e \in Keeps(s)' : op'[e] \in Ending
      BY <1>1, <1>2, <3>2 DEF Keeps
    <3> QED
      BY <1>0, <2>2, <3>1, <3>2, Zenon DEF OwnerInv, OwnerRemains, Keeps, Ending
  <2> QED
    BY <2>1, <2>2, Zenon
<1> QED
  BY <1>3, <1>4, Zenon DEF OwnerInv, OwnerRemains, Ending, Made

(* Constructors, swap() and reset(), without a call that goes on. *)
LEMMA QuickOwner ==
  ASSUME FutureType, OwnerInv, UNCHANGED callVars, Made \subseteq Made',
         \A q, u \in Owner : ptr'[q] # None /\ ptr'[q] = ptr'[u] => q = u,
         \A q \in Owner : ptr'[q] \in Made =>
           \/ \E u \in Owner : ptr[u] = ptr'[q],
         \A s \in Made' : (\E q \in Owner : ptr'[q] = s) \/
           (s \in Made /\ ready'[s] = ready[s] /\ ~ \E q \in Owner : ptr[q] = s)
  PROVE  OwnerInv'
<1>0. st \in [Context -> Made \cup {None}] /\ UNCHANGED <<op, at, obj, st>> /\ Made = 1..made
  BY Zenon DEF FutureType, CallType, callVars, Made
<1>2. ASSUME NEW s \in Made'
      PROVE  ready'[s] \/ (\E q \in Owner : ptr'[q] = s) \/ \E d \in Keeps(s)' : op'[d] \in Ending
  <2>1. CASE s \in Made /\ ready'[s] = ready[s] /\ ~ \E q \in Owner : ptr[q] = s
    BY <1>0, <2>1, Zenon DEF OwnerInv, OwnerRemains, Ending, Keeps
  <2> QED
    BY <1>2, <2>1, Zenon
<1> QED
  BY <1>0, <1>2 DEF OwnerInv, Keeping, OwnerRemains, Ending, Made

LEMMA ObjectOwner ==
  ASSUME FutureType, OwnerInv, NEW c \in Context, OwnerCase(c)
  PROVE  OwnerInv'
<1>0. /\ ptr \in [Owner -> Made \cup {None}] /\ None \notin Made
      /\ \A p, q \in Owner : ptr[p] # None /\ ptr[p] = ptr[q] => p = q
  BY MadeState, Zenon DEF FutureType, ObjectType, OwnerInv
<1>1. ASSUME NEW p \in Owner, Construct(c, p) PROVE OwnerInv'
  <2>1. /\ UNCHANGED <<callVars, ready>> /\ made < mode.states /\ made' = made + 1
        /\ ptr[p] = None /\ ptr' = [ptr EXCEPT ![p] = made + 1]
    BY <1>1, Zenon DEF Construct, Quick, Same, stateVars
  <2>2. Made' = Made \cup {made + 1} /\ made + 1 \notin Made /\ None # made + 1
    BY <2>1, MakeTyped, Zenon DEF FutureType
  <2>3. ptr'[p] = made + 1 /\ \A q \in Owner \ {p} : ptr'[q] = ptr[q]
    BY <1>0, <2>1, Zenon
  <2>4. \A q, u \in Owner : ptr'[q] # None /\ ptr'[q] = ptr'[u] => q = u
    BY <1>0, <2>2, <2>3
  <2>5. ASSUME NEW s \in Made' PROVE
          (\E q \in Owner : ptr'[q] = s) \/
          (s \in Made /\ ready'[s] = ready[s] /\ ~ \E q \in Owner : ptr[q] = s)
    BY <1>0, <2>1, <2>2, <2>3, Zenon
  <2> QED
    BY <2>1, <2>2, <2>3, <2>4, <2>5, QuickOwner
<1>2. ASSUME NEW p \in Owner, Destroy(c, p) PROVE OwnerInv'
  BY EndOwner, <1>0, <1>2 DEF Ending, Made, Destroy, Same
<1>3. ASSUME NEW p \in Owner, Set(c, p) \/ Run(c, p) PROVE OwnerInv'
  BY BeginOwner, <1>3, Zenon DEF Op, Ending, Set, Run, Same, objVars
<1>4. ASSUME NEW p \in Owner, Reset(c, p) PROVE OwnerInv'
  <2>1. /\ UNCHANGED <<callVars, made, ptr>> /\ ptr[p] # None
        /\ ready' = [ready EXCEPT ![ptr[p]] = FALSE]
    BY <1>4, Zenon DEF Reset, Quick, Same
  <2>2. Made' = Made /\ \A s \in Made : s # ptr[p] => ready'[s] = ready[s]
    BY <2>1, MadeState, Zenon DEF Made, FutureType, ResultType
  <2> QED
    BY <1>0, <2>1, <2>2, QuickOwner, Zenon
<1>5. ASSUME NEW p \in Owner, NEW q \in Owner, MoveAssign(c, p, q) PROVE OwnerInv'
  <2>1. /\ UNCHANGED <<stateVars, made>> /\ ptr[p] # None /\ p # q
        /\ Call(c, "destroy", "destroy", None, ptr[p], None)
        /\ ptr' = [ptr EXCEPT ![p] = ptr[q], ![q] = None]
    BY <1>5, Zenon DEF MoveAssign, Same
  <2>2. /\ Made' = Made /\ ptr'[p] = ptr[q] /\ ptr'[q] = None
        /\ \A u \in Owner \ {p, q} : ptr'[u] = ptr[u]
    BY <1>0, <2>1, Zenon DEF Made
  <2>3. \A u \in Owner : ptr'[u] # ptr[p]
    BY <1>0, <2>1, <2>2, Zenon
  <2>4. \A u, v \in Owner : ptr'[u] # None /\ ptr'[u] = ptr'[v] => u = v
    BY <1>0, <2>1, <2>2, Zenon
  <2>5. ASSUME NEW s \in Made \ {ptr[p]}
        PROVE  (\E u \in Owner : ptr[u] = s) <=> (\E u \in Owner : ptr'[u] = s)
    BY <1>0, <2>1, <2>2, Zenon
  <2> QED
    BY <2>1, <2>2, <2>3, <2>4, <2>5, EndOwner, Zenon DEF Ending
<1>6. ASSUME NEW p \in Owner, NEW q \in Owner, Swap(c, p, q) PROVE OwnerInv'
  <2>1. /\ UNCHANGED <<callVars, made, ready>> /\ p # q
        /\ ptr' = [ptr EXCEPT ![p] = ptr[q], ![q] = ptr[p]]
    BY <1>6, Zenon DEF Swap, Quick, Same, stateVars
  <2>2. /\ Made' = Made /\ ptr'[p] = ptr[q] /\ ptr'[q] = ptr[p]
        /\ \A u \in Owner \ {p, q} : ptr'[u] = ptr[u]
    BY <1>0, <2>1, Zenon DEF Made
  <2>3. \A u, v \in Owner : ptr'[u] # None /\ ptr'[u] = ptr'[v] => u = v
    BY <1>0, <2>1, <2>2, Zenon
  <2>4. \A u \in Owner : \E v \in Owner : ptr[v] = ptr'[u]
    BY <2>2, Zenon
  <2>5. ASSUME NEW s \in Made'
        PROVE  (\E u \in Owner : ptr'[u] = s) \/
               (s \in Made /\ ready'[s] = ready[s] /\ ~ \E u \in Owner : ptr[u] = s)
    BY <2>1, <2>2, Zenon
  <2> QED
    BY <2>1, <2>2, <2>3, <2>4, <2>5, QuickOwner, Zenon
<1>7. ASSUME NEW p \in Owner, NEW h \in Handle, GetFuture(c, p, h) PROVE OwnerInv'
  BY <1>0, QuickOwner, <1>7, Zenon DEF Made, GetFuture, Quick, Same, stateVars
<1> QED
  BY <1>1, <1>2, <1>3, <1>4, <1>5, <1>6, <1>7, Zenon DEF OwnerCase

LEMMA HandleOwner ==
  ASSUME FutureType, OwnerInv, NEW c \in Context, FutureCase(c)
  PROVE  OwnerInv'
<1>0. /\ ptr \in [Owner -> Made \cup {None}]
      /\ \A p, q \in Owner : ptr[p] # None /\ ptr[p] = ptr[q] => p = q
  BY Zenon DEF FutureType, ObjectType, OwnerInv
<1>1. ASSUME NEW h \in Handle, NEW g \in Handle,
             Drop(c, h) \/ Move(c, h, g) \/ SwapFutures(c, h, g) \/ Copy(c, h, g)
      PROVE  OwnerInv'
  <2>1. UNCHANGED <<callVars, made, ptr, ready>>
    BY <1>1, Zenon DEF Drop, Move, SwapFutures, Copy, Quick, Same, stateVars
  <2> QED
    BY <1>0, <2>1, QuickOwner, Zenon DEF Made
<1>4. ASSUME NEW h \in Handle, NEW d \in Context, Async(c, d, h) PROVE OwnerInv'
  <2>1. /\ UNCHANGED <<stateVars, ptr>> /\ made < mode.states /\ made' = made + 1
        /\ \E r \in mode.values \cup {"error"} : Call(d, "async", "set", None, made + 1, r)
    BY <1>4, Zenon DEF Async, Same
  <2>2. Made' = Made \cup {made + 1} /\ made + 1 \notin Made /\ None # made + 1
    BY <2>1, MakeTyped, Zenon DEF FutureType
  <2> QED
    BY <1>0, <2>1, <2>2, EndOwner DEF Ending
<1> QED
  BY <1>1, <1>4, BeginOwner, Zenon DEF FutureCase, Get, Same, Op, Ending, Inspect,
      objVars

LEMMA OwnerInvInit == Init => OwnerInv
<1> SUFFICES ASSUME Init PROVE OwnerInv
  BY Zenon
<1> QED
  BY DEF Init, OwnerInv, Ending, OwnerRemains

LEMMA OwnerInvNext == FutureType /\ OwnerInv /\ [Next]_vars => OwnerInv'
<1> SUFFICES ASSUME FutureType, OwnerInv, [Next]_vars PROVE OwnerInv'
  BY Zenon
<1>1. ASSUME UNCHANGED futureVars PROVE OwnerInv'
  BY QuickOwner, <1>1, Zenon DEF futureVars, objVars, stateVars, Made, OwnerInv
<1> QED
  BY <1>1, NextCases, StateOwner, ObjectOwner, HandleOwner, Zenon DEF vars, FutureType,
      ObjectType

(* For every number of objects and contexts: a shared state that is not    *)
(* ready has an owner that will set it or whose destruction will break it. *)
THEOREM OwnerStays == Spec => []OwnerRemains
<1>1. OwnerInv => OwnerRemains
  BY Zenon DEF OwnerInv
<1> QED
  BY <1>1, OwnerInvInit, OwnerInvNext, ResultsStay, PTL DEF Spec

-----------------------------------------------------------------------------
(* Nobody waits for a state that is ready. *)
QueueInv == waiting = [s \in State |-> waiting[s]] /\ WaitersUnready

(* The queue of t alone changes, and ready_ only of t and with the queue. *)
LEMMA QueueChange ==
  ASSUME QueueInv, NEW t, NEW x, waiting' = [waiting EXCEPT ![t] = x],
         t \in State /\ ready'[t] => x = <<>>,
         \A s \in State : s # t => ready'[s] = ready[s]
  PROVE  QueueInv'
BY Zenon DEF QueueInv, WaitersUnready

LEMMA QueueSame ==
  ASSUME QueueInv, UNCHANGED waiting, \A s \in State : ready'[s] => ready[s]
  PROVE  QueueInv'
  BY Zenon DEF QueueInv, WaitersUnready

LEMMA StateQueue ==
  ASSUME FutureType, QueueInv, NEW c \in Context, StateStep(c)
  PROVE  QueueInv'
<1>0. /\ at[c] # "idle" => st[c] \in State
      /\ ready \in [State -> BOOLEAN]
  BY MadeState, Zenon DEF FutureType, CallType, ResultType
<1>1. ASSUME at[c] # "idle", MarkReadyAndNotify_(c, st[c]) PROVE QueueInv'
  BY <1>1, QueueChange, <1>0, Zenon DEF MarkReadyAndNotify_, NotifyAll
<1>2. ASSUME UNCHANGED <<waiting, stateVars>> PROVE QueueInv'
  BY <1>2, QueueSame, Zenon DEF stateVars
<1>3. ASSUME at[c] # "idle", NEW x, TestReady(c, x), x \in BOOLEAN, UNCHANGED stateVars
      PROVE  QueueInv'
  <2>1. CASE UNCHANGED waiting
    BY <1>2, <1>3, <2>1, Zenon
  <2>2. CASE waiting' # waiting
    <3>1. ~ready[st[c]] /\ waiting' = [waiting EXCEPT ![st[c]] = Append(waiting[st[c]], c)]
      BY <1>0, <1>3, <2>2, Zenon DEF TestReady, Answer, Reads, EnterWait, Abort
    <3> QED
      BY <1>3, <3>1, QueueChange, Zenon DEF stateVars
  <2> QED
    BY <2>1, <2>2, Zenon
<1>4. CASE Assign(c)
  BY <1>1, <1>2, <1>4, Zenon DEF Assign, Here, Quietly, condVars
<1>5. CASE OwnerDestroyed(c)
  BY <1>1, <1>2, <1>5, Zenon DEF OwnerDestroyed, Here, Quietly, condVars
<1>6. CASE Leave(c)
  BY <1>2, <1>6, Zenon DEF Leave, Locks, Same
<1>7. CASE Ask(c)
  BY <1>3, <1>7, Zenon DEF Ask, Here, Same
<1>8. CASE Loop(c)
  BY <1>2, <1>3, <1>8, Zenon DEF Loop, Here, Same, Reads
<1>9. CASE Got(c)
  BY <1>2, <1>9, Zenon DEF Got, Quietly, condVars, Same
<1> QED
  BY <1>4, <1>5, <1>6, <1>7, <1>8, <1>9, Zenon DEF StateStep

LEMMA CondQueue ==
  ASSUME QueueInv, NEW c \in Context, CondStep(c) \/ Reach(c), UNCHANGED ready
  PROVE  QueueInv'
<1>1. ASSUME c \in Range(waiting[on[c]]), Erase(c) PROVE QueueInv'
  <2> DEFINE x == Without(waiting[on[c]], c)
  <2> HIDE DEF x
  <2> QED
    BY QueueChange, <1>1 DEF QueueInv, WaitersUnready, Range, Erase
<1>2. CASE UNCHANGED waiting
  BY <1>2, QueueSame, Zenon
<1>3. CASE TimeOut(c)
  BY <1>1, <1>2, <1>3, Zenon DEF TimeOut, Abort
<1>4. CASE Throw(c)
  BY <1>1, <1>2, <1>4, Zenon DEF Throw, Abort
<1> QED
  BY <1>2, <1>3, <1>4, Zenon DEF CondStep, Reach, Wake, Relock, SetReady, Pass,
      Interrupt

LEMMA ObjectQueue ==
  ASSUME FutureType, QueueInv, NEW c \in Context, OwnerCase(c) \/ FutureCase(c)
  PROVE  QueueInv'
<1>1. CASE UNCHANGED <<waiting, ready>>
  BY <1>1, QueueSame, Zenon
<1>2. ASSUME NEW p \in Owner, Reset(c, p) PROVE QueueInv'
  BY QueueSame, <1>2, Zenon DEF FutureType, ResultType, Reset, Quick, Quietly, condVars
<1>3. CASE OwnerCase(c)
  BY <1>1, <1>2, <1>3, Zenon DEF OwnerCase, Construct, Destroy, MoveAssign, Swap, GetFuture, Set, Run,
     Quick, Call, Quietly, condVars, Same, stateVars
<1>4. CASE FutureCase(c)
  BY <1>1, <1>4, Zenon DEF FutureCase, Drop, Get, Inspect, Async, Move, SwapFutures, Copy,
     Quick, Call, Quietly, condVars, Same, stateVars
<1> QED
  BY <1>3, <1>4, Zenon

(* Whoever makes a shared state ready empties its queue, and whoever waits *)
(* looked at ready_ before with the same mutex: nobody is in the queue of  *)
(* a state that is ready.                                                  *)
THEOREM NobodyWaitsReady == Spec => []WaitersUnready
<1>1. Init => QueueInv
  BY Zenon DEF Init, CondInit, QueueInv, WaitersUnready
<1>2. FutureType /\ QueueInv /\ [Next]_vars => QueueInv'
  <2> SUFFICES ASSUME FutureType, QueueInv, [Next]_vars PROVE QueueInv'
    BY Zenon
  <2>1. ASSUME UNCHANGED vars PROVE QueueInv'
    BY <2>1, QueueSame, Zenon DEF vars, condVars, futureVars, stateVars
  <2>2. ASSUME UNCHANGED futureVars PROVE UNCHANGED ready
    BY <2>2, Zenon DEF futureVars, stateVars
  <2> QED
    BY <2>1, <2>2, NextCases, StateQueue, CondQueue, ObjectQueue, Zenon DEF FutureType,
        ObjectType
<1>3. QueueInv => WaitersUnready
  BY Zenon DEF QueueInv
<1> QED
  BY <1>1, <1>2, <1>3, ResultsStay, PTL DEF Spec
-----------------------------------------------------------------------------
(* A call refers to a shared state through its object, unless it keeps a   *)
(* reference of its own. *)
Refers(x, s) == \/ x \in Owner /\ ptr[x] = s
                \/ x \in Handle /\ fut[x] = s
RefInv == \A c \in Context : st[c] # None /\ obj[c] # None => Refers(obj[c], st[c])

(* Who waits is in the loop of wait_() on the state of its call, who has   *)
(* a mutex is setting or testing that state, and an interrupted wait ends  *)
(* without it.                                                             *)
WaitInv ==
  /\ status \in [Context -> {"no_timeout", "timeout", "interrupted"}]
  /\ \A c \in Context :
       /\ cv[c] # "out" => at[c] = "loop" /\ on[c] = st[c] /\ status[c] # "interrupted"
       /\ at[c] # "loop" => status[c] = "no_timeout"
Inside(c, s) == st[c] = s /\ at[c] \in {"leave", "loop"} /\ cv[c] = "out" /\ status[c] # "interrupted"
HoldInv ==
  /\ holder \in [State -> Context \cup {None}]
  /\ \A s \in State, c \in Context : holder[s] = c => Inside(c, s)

InsideInv == CondInv /\ WaitInv /\ HoldInv

LEMMA LockState == Lock = State /\ \A s \in State : MutexOf[s] = s
BY Zenon DEF Lock, Range

(* Objects change only while no call is on them. *)
LEMMA RefStays ==
  ASSUME RefInv,
         \A c \in Context : \/ st'[c] = None \/ obj'[c] = None
                            \/ st'[c] = st[c] /\ obj'[c] = obj[c]
                            \/ Refers(obj[c], st[c])',
         \A x \in Owner : ptr'[x] = ptr[x] \/ Unused(x),
         \A x \in Handle : fut'[x] = fut[x] \/ Unused(x)
  PROVE  RefInv'
BY DEF RefInv, Refers, Unused

(* A step of one context. *)
LEMMA InsideStays ==
  ASSUME WaitInv, HoldInv, NEW c \in Context,
         \A d \in Context \ {c} : /\ at'[d] = at[d] /\ st'[d] = st[d] /\ cv'[d] = cv[d]
                                  /\ on'[d] = on[d] /\ status'[d] = status[d],
         status' \in [Context -> {"no_timeout", "timeout", "interrupted"}],
         cv'[c] # "out" => at'[c] = "loop" /\ on'[c] = st'[c] /\ status'[c] # "interrupted",
         at'[c] # "loop" => status'[c] = "no_timeout",
         holder' \in [State -> Context \cup {None}],
         \A s \in State : holder'[s] \in {holder[s], None, c},
         \A s \in State : holder'[s] = c => Inside(c, s)'
  PROVE  WaitInv' /\ HoldInv'
<1>2. ASSUME NEW s \in State, NEW d \in Context, holder'[s] = d PROVE Inside(d, s)'
  <2>1. CASE d = c
    BY <1>2, <2>1, Zenon
  <2>2. CASE d # c
    BY <1>2, <2>2 DEF HoldInv, Inside
  <2> QED
    BY <2>1, <2>2, Zenon
<1> QED
  BY <1>2 DEF HoldInv, WaitInv

(* A context that is not inside has no mutex. *)
LEMMA NotInside ==
  ASSUME HoldInv, NEW c \in Context,
         at[c] \notin {"leave", "loop"} \/ cv[c] # "out" \/ status[c] = "interrupted"
  PROVE  \A s \in State : holder[s] # c
BY ZenonT(40) DEF HoldInv, Inside
(* The context goes on, or returns, outside its wait and without a mutex. *)
LEMMA OutInside ==
  ASSUME InsideInv, NEW c \in Context, cv[c] = "out", UNCHANGED <<waiting, on, cv, why, pend, failed>>,
         \A d \in Context \ {c} : at'[d] = at[d] /\ st'[d] = st[d] /\ status'[d] = status[d],
         status' \in [Context -> {"no_timeout", "timeout", "interrupted"}],
         at'[c] # "loop" => status'[c] = "no_timeout",
         holder' \in [State -> Context \cup {None}],
         \A s \in State : holder'[s] \in {holder[s], None} \ {c}
  PROVE  InsideInv'
BY LeavesStays, InsideStays, Zenon DEF InsideInv, Leaves, waitVars

LEMMA QuietInside ==
  ASSUME InsideInv, NEW c \in Context, Quietly, at[c] \notin {"leave", "loop"}, at'[c] # "loop",
         \A d \in Context \ {c} : at'[d] = at[d] /\ st'[d] = st[d]
  PROVE  InsideInv'
BY OutInside, NotInside DEF Quietly, condVars, InsideInv, WaitInv, HoldInv

LEMMA ReleasedInside ==
  ASSUME HoldInv, NEW c \in Context
  PROVE  /\ Released(c) \in [State -> Context \cup {None}]
         /\ \A s \in State : Released(c)[s] \in {holder[s], None} \ {c}
BY LockState, Zenon DEF HoldInv, Released

LEMMA StateInside ==
  ASSUME FutureType, InsideInv, NEW c \in Context, StateStep(c)
  PROVE  InsideInv'
<1>0. /\ at[c] # "idle" => st[c] \in State
      /\ op \in [Context -> Op] /\ at \in [Context -> At] /\ st \in [Context -> Made \cup {None}]
  BY MadeState, Zenon DEF FutureType, CallType
<1>1. /\ status \in [Context -> {"no_timeout", "timeout", "interrupted"}]
      /\ holder \in [State -> Context \cup {None}]
      /\ cv \in [Context -> Place] /\ on \in [Context -> Cond \cup {None}]
      /\ WaitInv /\ HoldInv /\ CondInv
  BY Zenon DEF InsideInv, WaitInv, HoldInv, CondInv, CondType
<1>2. Free(c) /\ cv[c] = "out" /\ at[c] # "idle"
  BY Zenon DEF StateStep, Assign, OwnerDestroyed, Leave, Ask, Loop, Got, Here, Free
<1>3. ASSUME Return(c) PROVE at'[c] = "idle" /\ \A d \in Context \ {c} : at'[d] = at[d] /\ st'[d] = st[d]
  BY <1>0, <1>3, Zenon DEF Return
<1>4. ASSUME NEW p, Goto(c, p)
      PROVE  at'[c] = p /\ st' = st /\ \A d \in Context \ {c} : at'[d] = at[d]
  BY <1>0, <1>4, Zenon DEF Goto
<1>5. ASSUME MarkReadyAndNotify_(c, st[c]), holder[st[c]] = None, at[c] \in {"set", "destroy"},
             holder' = [holder EXCEPT ![st[c]] = c], UNCHANGED <<on, cv, why, status, failed>>,
             Goto(c, "leave")
      PROVE  InsideInv'
  <2>1. Rouses(c)
    BY <1>0, <1>2, <1>5, Zenon DEF Rouses, MarkReadyAndNotify_
  <2>3. \A s \in State : holder[s] # c
    BY <1>1, <1>5, NotInside, Zenon
  <2>4. /\ holder' \in [State -> Context \cup {None}] /\ \A s \in State : holder'[s] \in {holder[s], c}
        /\ \A s \in State : holder'[s] = c => s = st[c]
    BY <1>0, <1>1, <1>2, <1>5, <2>3, Zenon
  <2>5. status[c] = "no_timeout"
    BY <1>1, <1>5, Zenon DEF WaitInv
  <2>6. \A s \in State : holder'[s] = c => Inside(c, s)'
    BY <1>2, <1>4, <1>5, <2>4, <2>5, Zenon DEF Inside
  <2>7. WaitInv' /\ HoldInv'
    BY <1>1, <1>2, <1>4, <1>5, <2>4, <2>5, <2>6, InsideStays, ZenonT(40)
  <2> QED
    BY <2>7, <1>1, <2>1, ClientStays, Zenon DEF InsideInv, Client
<1>6. CASE Assign(c)
  <2>1. CASE ready[st[c]]
    <3>1. /\ Quietly /\ at[c] = "set" /\ at'[c] # "loop"
          /\ \A d \in Context \ {c} : at'[d] = at[d] /\ st'[d] = st[d]
      BY <1>3, <1>6, <2>1, Zenon DEF Assign, Here
    <3> QED
      BY <3>1, QuietInside, Zenon
  <2>2. CASE ~ready[st[c]]
    BY <1>5, <1>6, <2>2, Zenon DEF Assign, Here
  <2> QED
    BY <2>1, <2>2, Zenon
<1>7. CASE OwnerDestroyed(c)
  <2>1. CASE ready[st[c]]
    <3>1. Quietly /\ at[c] = "destroy" /\ Return(c)
      BY <1>7, <2>1, Zenon DEF OwnerDestroyed, Here
    <3> QED
      BY <1>3, <3>1, QuietInside, Zenon
  <2>2. CASE ~ready[st[c]]
    BY <1>5, <1>7, <2>2, Zenon DEF OwnerDestroyed, Here
  <2> QED
    BY <2>1, <2>2, Zenon
<1>8. CASE Leave(c)
  <2>1. /\ holder' = Released(c) /\ UNCHANGED <<waiting, on, cv, why, status, pend, failed>>
        /\ at[c] = "leave" /\ at'[c] # "loop"
        /\ \A d \in Context \ {c} : at'[d] = at[d] /\ st'[d] = st[d]
    <3>1. CASE Return(c)
      BY <1>3, <1>8, <3>1, Zenon DEF Leave, Locks, Here
    <3>2. CASE ~Return(c)
      BY <1>0, <1>8, <3>2, Zenon DEF Leave, Locks, Here
    <3> QED
      BY <3>1, <3>2, Zenon
  <2>2. status[c] = "no_timeout"
    BY <1>1, <2>1, Zenon DEF WaitInv
  <2> QED
    BY <1>1, <1>2, <2>1, <2>2, ReleasedInside, OutInside
<1>9. ASSUME NEW h, Reads(c, h), h \in [State -> Context \cup {None}],
             \A s \in State : h[s] \in {holder[s], None} \ {c},
             \A d \in Context \ {c} : at'[d] = at[d] /\ st'[d] = st[d]
      PROVE  InsideInv'
  <2>1. /\ holder' = h /\ UNCHANGED <<waiting, on, cv, why, pend, failed>>
        /\ status' = [status EXCEPT ![c] = "no_timeout"]
    BY <1>9, Zenon DEF Reads
  <2>2. /\ status' \in [Context -> {"no_timeout", "timeout", "interrupted"}]
        /\ status'[c] = "no_timeout" /\ \A d \in Context \ {c} : status'[d] = status[d]
    BY <1>1, <2>1, Zenon
  <2> QED
    BY <1>2, <1>9, <2>1, <2>2, OutInside, Zenon
<1>10. ASSUME NEW p \in {"wait", "wait_until"}, EnterWait(c, st[c], p), Goto(c, "loop")
       PROVE  InsideInv'
  <2>1. Enters(c)
    BY <1>0, <1>2, <1>10 DEF Enters
  <2>2. CondInv'
    BY <1>1, <2>1, ClientStays, Zenon DEF Client
  <2>3. c \notin Range(waiting[st[c]])
    BY <1>0, <1>1, <1>2, OutUnlisted, Zenon DEF CondInv
  <2>4. /\ holder' = [holder EXCEPT ![st[c]] = None] /\ on' = [on EXCEPT ![c] = st[c]]
        /\ cv' = [cv EXCEPT ![c] = p] /\ status' = [status EXCEPT ![c] = "no_timeout"]
    BY <1>0, <1>2, <1>10, <2>3, LockState, Zenon DEF EnterWait
  <2>5. /\ \A d \in Context \ {c} : cv'[d] = cv[d] /\ on'[d] = on[d] /\ status'[d] = status[d]
        /\ cv'[c] = p /\ on'[c] = st[c] /\ status'[c] = "no_timeout"
        /\ status' \in [Context -> {"no_timeout", "timeout", "interrupted"}]
    BY <1>1, <2>4, Zenon
  <2>6. /\ holder' \in [State -> Context \cup {None}]
        /\ \A s \in State : holder'[s] \in {holder[s], None} \ {c}
    BY <1>0, <1>1, <1>2, <2>4 DEF HoldInv, Inside
  <2>7. WaitInv' /\ HoldInv'
    BY <1>1, <1>4, <1>10, <2>5, <2>6, InsideStays, Zenon
  <2> QED
    BY <2>2, <2>7, Zenon DEF InsideInv
<1>11. ASSUME NEW x \in BOOLEAN, TestReady(c, x) PROVE InsideInv'
  <2>1. CASE Answer(c)
    <3>1. Reads(c, Released(c)) /\ \A d \in Context \ {c} : at'[d] = at[d] /\ st'[d] = st[d]
      BY <1>0, <2>1, Zenon DEF Answer
    <3> QED
      BY <1>1, <1>9, <3>1, ReleasedInside, Zenon
  <2>2. CASE Return(c) /\ Reads(c, Released(c))
    BY <1>1, <1>3, <1>9, <2>2, ReleasedInside, Zenon
  <2>3. CASE EnterWait(c, st[c], IF op[c] = "wait_until" THEN op[c] ELSE "wait") /\ Goto(c, "loop")
    BY <1>10, <2>3, Zenon
  <2> QED
    BY <1>11, <2>1, <2>2, <2>3, Zenon DEF TestReady
<1>12. CASE Ask(c)
  BY <1>11, <1>12, Zenon DEF Ask
<1>13. CASE Loop(c)
  <2>1. CASE status[c] = "interrupted"
    <3>1. Return(c) /\ Reads(c, holder)
      BY <1>13, <2>1, Zenon DEF Loop
    <3>2. \A s \in State : holder[s] # c
      BY <1>1, <2>1, NotInside, Zenon
    <3> QED
      BY <1>1, <1>3, <1>9, <3>1, <3>2, Zenon
  <2>2. CASE status[c] # "interrupted"
    BY <1>11, <1>13, <2>2, Zenon DEF Loop
  <2> QED
    BY <2>1, <2>2, Zenon
<1>14. CASE Got(c)
  <2>1. Quietly /\ at[c] = "got" /\ Return(c)
    BY <1>14, Zenon DEF Got, Here
  <2> QED
    BY <1>3, <2>1, QuietInside, Zenon
<1> QED
  BY <1>6, <1>7, <1>8, <1>12, <1>13, <1>14, Zenon DEF StateStep

LEMMA CondInside ==
  ASSUME InsideInv, NEW c \in Context, CondStep(c) \/ Reach(c), UNCHANGED futureVars
  PROVE  InsideInv'
<1>0. CondStep(c) \/ Pass(c) \/ Interrupt(c)
  BY Zenon DEF Reach
<1>1. CondInv'
  BY <1>0, CondStays, Zenon DEF InsideInv
<1>2. /\ status \in [Context -> {"no_timeout", "timeout", "interrupted"}]
      /\ holder \in [State -> Context \cup {None}]
      /\ cv \in [Context -> Place] /\ on \in [Context -> Cond \cup {None}] /\ UNCHANGED <<at, st>>
      /\ WaitInv /\ HoldInv /\ CallInv
  BY Zenon DEF InsideInv, WaitInv, HoldInv, CondInv, CondType, futureVars, callVars
<1>3. AfterWake(c) # "out"
  BY Zenon DEF AfterWake
<1>4. CASE UNCHANGED <<holder, cv, on, status>>
  BY <1>1, <1>2, <1>4 DEF InsideInv, WaitInv, HoldInv, Inside
<1>5. ASSUME cv[c] # "out", NEW p, p # "out", cv' = [cv EXCEPT ![c] = p], NEW z \in {"no_timeout", "timeout"},
             status' = [status EXCEPT ![c] = z], UNCHANGED <<holder, on>>
      PROVE  InsideInv'
  <2>3. WaitInv' /\ HoldInv'
    BY <1>2, <1>5, InsideStays, NotInside DEF WaitInv
  <2> QED
    BY <1>1, <2>3, Zenon DEF InsideInv
<1>6. CASE Wake(c)
  <2>1. /\ cv[c] # "out" /\ UNCHANGED <<holder, on, status>>
        /\ cv' = [cv EXCEPT ![c] = IF Expired(c) THEN "expired" ELSE AfterWake(c)]
    BY <1>6, Zenon DEF Wake, Blocked
  <2>2. status[c] \in {"no_timeout", "timeout"} /\ status' = [status EXCEPT ![c] = status[c]]
    BY <1>2, <2>1, Zenon DEF WaitInv
  <2> QED
    BY <1>3, <1>5, <2>1, <2>2, Zenon
<1>7. CASE TimeOut(c)
  BY <1>3, <1>4, <1>5, <1>7, Zenon DEF TimeOut, Abort
<1>8. CASE Throw(c)
  <2>1. CASE UNCHANGED <<holder, cv, on, status>>
    BY <1>4, <2>1, Zenon
  <2>2. CASE ~UNCHANGED <<holder, cv, on, status>>
    <3>1. /\ status' = [status EXCEPT ![c] = "interrupted"] /\ cv' = [cv EXCEPT ![c] = "out"]
          /\ on' = [on EXCEPT ![c] = None] /\ UNCHANGED holder /\ cv[c] = "throw"
      BY <1>8, <2>2, Zenon DEF Throw, Abort
    <3>2. /\ \A d \in Context \ {c} : cv'[d] = cv[d] /\ on'[d] = on[d] /\ status'[d] = status[d]
          /\ cv'[c] = "out" /\ status' \in [Context -> {"no_timeout", "timeout", "interrupted"}]
          /\ at[c] = "loop"
      BY <1>2, <3>1, Zenon DEF WaitInv
    <3>3. \A s \in State : holder[s] # c
      BY <1>2, <3>1, NotInside, Zenon
    <3>4. WaitInv' /\ HoldInv'
      BY <1>2, <3>1, <3>2, <3>3, InsideStays, Zenon
    <3> QED
      BY <1>1, <3>4, Zenon DEF InsideInv
  <2> QED
    BY <2>1, <2>2, Zenon
<1>9. CASE Relock(c)
  <2>1. on[c] \in State /\ on[c] = st[c] /\ at[c] = "loop" /\ status[c] # "interrupted" /\ cv[c] # "out"
    BY <1>2, <1>9, Zenon DEF Relock, WaitInv, CallInv
  <2>2. /\ holder' = [holder EXCEPT ![st[c]] = c] /\ cv' = [cv EXCEPT ![c] = "out"]
        /\ on' = [on EXCEPT ![c] = None] /\ UNCHANGED status
    BY <1>9, <2>1, LockState, Zenon DEF Relock
  <2>3. /\ \A d \in Context \ {c} : cv'[d] = cv[d] /\ on'[d] = on[d] /\ status'[d] = status[d]
        /\ cv'[c] = "out"
    BY <1>2, <2>2, Zenon
  <2>5. /\ holder' \in [State -> Context \cup {None}] /\ \A s \in State : holder'[s] \in {holder[s], c}
        /\ \A s \in State : holder'[s] = c => s = st[c]
    BY <1>2, <2>1, <2>2, NotInside, Zenon
  <2>6. \A s \in State : holder'[s] = c => Inside(c, s)'
    BY <1>2, <2>1, <2>2, <2>3, <2>5, Zenon DEF Inside
  <2>7. WaitInv' /\ HoldInv'
    BY <1>2, <2>1, <2>2, <2>3, <2>5, <2>6, InsideStays
  <2> QED
    BY <1>1, <2>7, Zenon DEF InsideInv
<1> QED
  BY <1>0, <1>4, <1>6, <1>7, <1>8, <1>9, Zenon DEF CondStep, SetReady, Pass, Interrupt

(* Calls begin, and objects are moved, outside. *)
LEMMA ObjectInside ==
  ASSUME FutureType, InsideInv, NEW c \in Context, OwnerCase(c) \/ FutureCase(c)
  PROVE  InsideInv'
<1>1. ASSUME NEW d \in Context, NEW o, NEW p \in {"set", "destroy", "ask"}, NEW x, NEW s, NEW r,
             Call(d, o, p, x, s, r)
      PROVE  InsideInv'
  BY QuietInside, <1>1, Zenon DEF Call, FutureType, CallType
<1>2. ASSUME Quick(c) PROVE InsideInv'
  BY QuietInside, <1>2, Zenon DEF Quick, Here, callVars
<1>3. CASE OwnerCase(c)
  BY <1>1, <1>2, <1>3, Zenon DEF OwnerCase, Construct, Destroy, MoveAssign, Swap, GetFuture, Set, Run, Reset
<1>4. CASE FutureCase(c)
  BY <1>1, <1>2, <1>4, Zenon DEF FutureCase, Drop, Get, Inspect, Async, Move, SwapFutures, Copy
<1> QED
  BY <1>3, <1>4, Zenon

LEMMA StateRefs ==
  ASSUME FutureType, RefInv, NEW c \in Context, StateStep(c)
  PROVE  RefInv'
<1>1. UNCHANGED <<ptr, fut>>
  BY Zenon DEF StateStep, Assign, OwnerDestroyed, Leave, Ask, Loop, Got, Same, objVars
<1>2. Return(c) \/ UNCHANGED <<obj, st>>
  BY Zenon DEF StateStep, Assign, OwnerDestroyed, Leave, Ask, Loop, Got, TestReady, Answer, Goto
<1> QED
  BY <1>1, RefStays, <1>2 DEF Return, FutureType, CallType

LEMMA ObjectRefs ==
  ASSUME FutureType, RefInv, NEW c \in Context, OwnerCase(c) \/ FutureCase(c)
  PROVE  RefInv'
<1>0. /\ ptr \in [Owner -> Made \cup {None}] /\ fut \in [Handle -> Made \cup {None}]
      /\ obj \in [Context -> Owner \cup Handle \cup {None}] /\ st \in [Context -> Made \cup {None}]
  BY Zenon DEF FutureType, ObjectType, CallType
<1>1. ASSUME NEW d \in Context, NEW o, NEW p, NEW x, NEW s, NEW r, Call(d, o, p, x, s, r),
             x = None \/ Refers(x, s), x # None => UNCHANGED <<ptr, fut>>
      PROVE  \A e \in Context : \/ st'[e] = None \/ obj'[e] = None
                                \/ st'[e] = st[e] /\ obj'[e] = obj[e]
                                \/ Refers(obj[e], st[e])'
  BY <1>1, <1>0, Zenon DEF Refers, Call
<1>2. ASSUME Quick(c) PROVE \A e \in Context : st'[e] = st[e] /\ obj'[e] = obj[e]
  BY <1>2, Zenon DEF Quick, callVars
<1>3. ASSUME NEW p \in Owner, Construct(c, p) \/ Reset(c, p) PROVE RefInv'
  <2>1. /\ Quick(c) /\ Unused(p) /\ UNCHANGED fut /\ \A q \in Owner \ {p} : ptr'[q] = ptr[q]
    BY <1>0, <1>3, Zenon DEF Construct, Reset, Same
  <2> QED
    BY <1>2, <2>1, RefStays, Zenon
<1>4. ASSUME NEW p \in Owner, Destroy(c, p) PROVE RefInv'
  <2>1. /\ Call(c, "destroy", "destroy", None, ptr[p], None) /\ Unused(p) /\ UNCHANGED fut
        /\ \A q \in Owner \ {p} : ptr'[q] = ptr[q]
    BY <1>0, <1>4, Zenon DEF Destroy, Same
  <2> QED
    BY <1>1, <2>1, RefStays, Zenon
<1>5. ASSUME NEW p \in Owner, Set(c, p) \/ Run(c, p) PROVE RefInv'
  <2>1. UNCHANGED <<ptr, fut>> /\ \E o, r : Call(c, o, "set", p, ptr[p], r)
    BY <1>5, Zenon DEF Set, Run, Same, objVars
  <2>2. PICK o, r : Call(c, o, "set", p, ptr[p], r)
    BY <2>1, Zenon
  <2> QED
    BY <1>1, <2>1, <2>2, RefStays, Zenon DEF Refers
<1>6. ASSUME NEW p \in Owner, NEW q \in Owner, MoveAssign(c, p, q) PROVE RefInv'
  <2>1. /\ Call(c, "destroy", "destroy", None, ptr[p], None) /\ Unused(p) /\ Unused(q)
        /\ UNCHANGED fut /\ \A u \in Owner \ {p, q} : ptr'[u] = ptr[u]
    BY <1>0, <1>6, Zenon DEF MoveAssign, Same
  <2> QED
    BY <1>1, <2>1, RefStays, Zenon
<1>7. ASSUME NEW p \in Owner, NEW q \in Owner, Swap(c, p, q) PROVE RefInv'
  <2>1. /\ Quick(c) /\ Unused(p) /\ Unused(q) /\ UNCHANGED fut
        /\ \A u \in Owner \ {p, q} : ptr'[u] = ptr[u]
    BY <1>0, <1>7, Zenon DEF Swap, Same
  <2> QED
    BY <1>2, <2>1, RefStays, Zenon
<1>8. ASSUME NEW p \in Owner, NEW h \in Futures, GetFuture(c, p, h) PROVE RefInv'
  <2>1. Quick(c) /\ Unused(h) /\ UNCHANGED ptr /\ \A g \in Handle \ {h} : fut'[g] = fut[g]
    BY <1>0, <1>8, Zenon DEF GetFuture, Same
  <2> QED
    BY <1>2, <2>1, RefStays, Zenon
<1>9. ASSUME NEW h \in Futures, NEW d \in Context, Async(c, d, h) PROVE RefInv'
  <2>1. /\ \E r : Call(d, "async", "set", None, made + 1, r)
        /\ Unused(h) /\ UNCHANGED ptr /\ \A g \in Handle \ {h} : fut'[g] = fut[g]
    BY <1>0, <1>9, Zenon DEF Async, Same
  <2> QED
    BY <1>1, <2>1, RefStays, Zenon
<1>10. ASSUME NEW h \in Futures, Get(c, h) PROVE RefInv'
  <2>1. /\ Call(c, "get", "ask", None, fut[h], None)
        /\ Unused(h) /\ UNCHANGED ptr /\ \A g \in Handle \ {h} : fut'[g] = fut[g]
    BY <1>0, <1>10, Zenon DEF Get, Same
  <2> QED
    BY <1>1, <2>1, RefStays, Zenon
<1>11. ASSUME NEW h \in Handle, NEW o, Inspect(c, h, o) PROVE RefInv'
  BY <1>1, RefStays, <1>11, Zenon DEF Inspect, Same, objVars, Refers
<1>12. ASSUME NEW h \in Handle, NEW g \in Handle,
              Drop(c, h) \/ Move(c, h, g) \/ SwapFutures(c, h, g) \/ Copy(c, h, g)
       PROVE  RefInv'
  <2>1. /\ Quick(c) /\ UNCHANGED ptr
        /\ \A x \in Handle : fut'[x] = fut[x] \/ Unused(x)
    BY <1>0, <1>12, Zenon DEF Drop, Move, SwapFutures, Copy, Same
  <2> QED
    BY <1>2, <2>1, RefStays, Zenon
<1>13. CASE OwnerCase(c)
  BY <1>3, <1>4, <1>5, <1>6, <1>7, <1>8, <1>13, Zenon DEF OwnerCase
<1>14. CASE FutureCase(c)
  BY <1>9, <1>10, <1>11, <1>12, <1>14, Zenon DEF FutureCase
<1> QED
  BY <1>13, <1>14, Zenon

LEMMA QuietFreed ==
  ASSUME FutureType, InsideInv, RefInv
  PROVE  FreedQuiet
<1> SUFFICES ASSUME NEW s \in Made, \A x \in Owner : ptr[x] # s, \A h \in Handle : fut[h] # s, Keeps(s) = {}
             PROVE  holder[s] = None /\ waiting[s] = <<>> /\ \A c \in Context : st[c] # s
  BY Zenon DEF FreedQuiet, Made
<1>0. s \in State /\ s # None
  BY MadeState, Zenon DEF FutureType
<1>1. \A c \in Context : st[c] # s
  BY <1>0, Zenon DEF RefInv, Refers, Keeps
<1>2. holder[s] = None
  <2>1. HoldInv
    BY Zenon DEF InsideInv
  <2>2. holder[s] \in Context \cup {None}
    BY <1>0, <2>1, Zenon DEF HoldInv
  <2>3. \A c \in Context : holder[s] = c => st[c] = s
    BY <1>0, <2>1, Zenon DEF HoldInv, Inside
  <2> QED
    BY <1>1, <2>2, <2>3, Zenon
<1>3. waiting[s] \in Seq(Context)
  BY <1>0, Zenon DEF InsideInv, CondInv, CondType
<1>4. ASSUME NEW c \in Range(waiting[s]) PROVE FALSE
  <2>1. c \in Context /\ on[c] = s /\ cv[c] # "out"
    BY <1>0, <1>3, RangeTyped DEF InsideInv, CondInv, ListInv, Unreached
  <2> QED
    BY <1>1, <2>1, Zenon DEF InsideInv, WaitInv
<1>5. waiting[s] = <<>>
  BY <1>3, <1>4, RangeTyped
<1> QED
  BY <1>1, <1>2, <1>5, Zenon

(* When the last promise, task, future or call that refers to a shared     *)
(* state is gone, its mutex is free, nobody is in its waiting_ and no call *)
(* is inside it: its destructor has nothing to race with.                  *)
THEOREM FreedStatesQuiet == Spec => []FreedQuiet
<1>1. Init => InsideInv /\ RefInv
  <2> SUFFICES ASSUME Init PROVE InsideInv /\ RefInv
    BY Zenon
  <2>1. CondInit
    BY Zenon DEF Init
  <2>2. WaitInv /\ HoldInv
    BY <2>1, LockState DEF Init, CondInit, WaitInv, HoldInv
  <2> QED
    BY <2>1, <2>2, CondStarts, Zenon DEF Init, InsideInv, RefInv
<1>2. FutureType /\ InsideInv /\ RefInv /\ [Next]_vars => InsideInv' /\ RefInv'
  <2> SUFFICES ASSUME FutureType, InsideInv, RefInv, [Next]_vars PROVE InsideInv' /\ RefInv'
    BY Zenon
  <2>1. ASSUME UNCHANGED vars PROVE InsideInv'
    <3>1. Leaves /\ UNCHANGED <<holder, cv, on, status, at, st>>
      BY <2>1, Zenon DEF vars, condVars, futureVars, callVars, Leaves, waitVars
    <3> QED
      BY <3>1, LeavesStays DEF InsideInv, WaitInv, HoldInv, Inside
  <2>2. ASSUME UNCHANGED futureVars PROVE RefInv'
    BY <2>2, Zenon DEF futureVars, callVars, objVars, RefInv, Refers
  <2>3. UNCHANGED vars => UNCHANGED futureVars
    BY Zenon DEF vars
  <2> QED
    BY <2>1, <2>2, <2>3, NextCases, StateInside, CondInside, ObjectInside, StateRefs, ObjectRefs, Zenon DEF FutureType, ObjectType
<1>3. FutureType /\ InsideInv /\ RefInv => FreedQuiet
  BY QuietFreed, Zenon
<1> QED
  BY <1>1, <1>2, <1>3, ResultsStay, PTL DEF Spec

-----------------------------------------------------------------------------
(* Without reset(): who can still claim the result of a state, a future, a *)
(* get() of a future or an owner that has not given its future away, is    *)
(* one.                                                                    *)
Getting(c) == op[c] = "get" /\ obj[c] = None /\ st[c] # None
Unclaimed(p) == ptr[p] # None /\ ~obtained[p]
OneClaim ==
  /\ \A h, g \in Futures : fut[h] # None /\ fut[h] = fut[g] => h = g
  /\ \A c, d \in Context : Getting(c) /\ Getting(d) /\ st[c] = st[d] => c = d
  /\ \A h \in Futures, c \in Context : Getting(c) => fut[h] # st[c]
  /\ \A p \in Owner : Unclaimed(p) => \A h \in Futures : fut[h] # ptr[p]
  /\ \A p \in Owner : Unclaimed(p) => \A c \in Context : Getting(c) => st[c] # ptr[p]
OneInv == obtained \in [Owner -> BOOLEAN] /\ (~mode.resets => OneClaim)

LEMMA OneIsOne ==
  ASSUME FutureType, OneInv
  PROVE  OneFuture
<1> SUFFICES ASSUME NEW s \in State, ~mode.resets
             PROVE  \A x, y \in Claims(s) : x = y
  BY Zenon DEF OneFuture
<1> QED
  BY DEF OneClaim, Claims, Keeps, Getting, OneInv

(* No new claim: futures are given up, owners exchange states or get new   *)
(* ones, calls of get() end.                                               *)
LEMMA ClaimsLeave ==
  ASSUME FutureType, OneClaim,
         \A h \in Futures : fut'[h] \in {fut[h], None},
         \A c \in Context : Getting(c)' => Getting(c) /\ st'[c] = st[c],
         \A p \in Owner : Unclaimed(p)' => \/ ptr'[p] \notin Made
                                           \/ \E q \in Owner : Unclaimed(q) /\ ptr[q] = ptr'[p]
  PROVE  OneClaim'
BY DEF OneClaim, Getting, Unclaimed, FutureType, ObjectType, CallType

(* One future is moved to another, or they are exchanged. *)
LEMMA FuturesMoved ==
  ASSUME OneClaim, NEW h \in Futures, NEW g \in Futures, h # g,
         fut'[h] = fut[g], fut'[g] \in {fut[h], None},
         \A f \in Futures \ {h, g} : fut'[f] = fut[f],
         UNCHANGED <<op, obj, st, ptr, obtained>>
  PROVE  OneClaim'
BY DEF OneClaim, Getting, Unclaimed

(* A call of get() takes over the claim of its future. *)
LEMMA ClaimTaken ==
  ASSUME FutureType, OneClaim, NEW c \in Context, NEW h \in Futures, Get(c, h)
  PROVE  OneClaim'
<1>0. /\ fut \in [Handle -> Made \cup {None}] /\ st \in [Context -> Made \cup {None}]
      /\ obj \in [Context -> Owner \cup Handle \cup {None}] /\ op \in [Context -> Op]
      /\ (at[c] = "idle" => op[c] = "none")
  BY Zenon DEF FutureType, ObjectType, CallType
<1>1. /\ fut[h] # None /\ fut'[h] = None /\ \A g \in Futures \ {h} : fut'[g] = fut[g]
      /\ UNCHANGED <<ptr, obtained>>
  BY <1>0, Zenon DEF Get, Same
<1>2. /\ op[c] = "none" /\ op'[c] = "get" /\ obj'[c] = None /\ st'[c] = fut[h]
      /\ \A d \in Context \ {c} : op'[d] = op[d] /\ obj'[d] = obj[d] /\ st'[d] = st[d]
  BY <1>0, Zenon DEF Get, Call
<1>3. \A d \in Context : Getting(d)' => d = c \/ (Getting(d) /\ st'[d] = st[d])
  BY <1>2, Zenon DEF Getting
<1>4. \A p \in Owner : Unclaimed(p)' <=> Unclaimed(p)
  BY <1>1, Zenon DEF Unclaimed
<1>5. \A g, f \in Futures : fut'[g] # None /\ fut'[g] = fut'[f] => g = f
  BY <1>1 DEF OneClaim
<1>6. \A d, e \in Context : Getting(d)' /\ Getting(e)' /\ st'[d] = st'[e] => d = e
  BY <1>2, <1>3 DEF OneClaim
<1>7. ASSUME NEW g \in Futures, NEW d \in Context, Getting(d)' PROVE fut'[g] # st'[d]
  <2>1. st'[d] # None
    BY <1>7, Zenon DEF Getting
  <2> QED
    BY <1>1, <1>2, <1>3, <1>7, <2>1 DEF OneClaim
<1>8. \A p \in Owner : Unclaimed(p)' => \A g \in Futures : fut'[g] # ptr'[p]
  BY <1>1, <1>4 DEF OneClaim, Unclaimed
<1>9. \A p \in Owner : Unclaimed(p)' => \A d \in Context : Getting(d)' => st'[d] # ptr'[p]
  BY <1>1, <1>2, <1>3, <1>4 DEF OneClaim
<1> QED
  BY <1>5, <1>6, <1>7, <1>8, <1>9, Zenon DEF OneClaim

(* get_future() passes the claim of the owner to a future, and async() the *)
(* claim of a state that is new.                                           *)
LEMMA ClaimGiven ==
  ASSUME FutureType, OneClaim, NEW h \in Futures, NEW s, s # None, fut'[h] = s,
         \A g \in Futures \ {h} : fut'[g] = fut[g] /\ fut[g] # s,
         \A c \in Context : Getting(c)' => Getting(c) /\ st'[c] = st[c] /\ st[c] # s,
         \A p \in Owner : Unclaimed(p)' => Unclaimed(p) /\ ptr'[p] = ptr[p] /\ ptr[p] # s
  PROVE  OneClaim'
BY DEF OneClaim

LEMMA StateOne ==
  ASSUME FutureType, OneInv, NEW c \in Context, StateStep(c)
  PROVE  OneInv'
<1>1. UNCHANGED <<mode, ptr, obtained, fut>>
  BY Zenon DEF StateStep, Assign, OwnerDestroyed, Leave, Ask, Loop, Got, Same, objVars
<1>2. \/ Return(c) \/ UNCHANGED <<op, obj, st>>
      \/ op' = [op EXCEPT ![c] = "destroy"] /\ UNCHANGED <<obj, st>>
  BY Zenon DEF StateStep, Assign, OwnerDestroyed, Leave, Ask, Loop, Got, TestReady, Answer, Goto
<1> QED
  BY <1>1, ClaimsLeave, <1>2 DEF OneInv, Unclaimed, Return, FutureType,
      CallType, Getting

LEMMA CallGetters ==
  ASSUME FutureType, NEW c \in Context, NEW o, NEW p, NEW x, NEW s, NEW r,
         Call(c, o, p, x, s, r), o # "get" \/ x # None
  PROVE  \A d \in Context : Getting(d)' => Getting(d) /\ st'[d] = st[d]
BY Zenon DEF FutureType, CallType, Call, Getting

LEMMA QuickGetters ==
  ASSUME NEW c, Quick(c)
  PROVE  \A d \in Context : Getting(d)' => Getting(d) /\ st'[d] = st[d]
BY Zenon DEF Quick, callVars, Getting

LEMMA OwnerOne ==
  ASSUME FutureType, OwnerInv, OneInv, NEW c \in Context, OwnerCase(c)
  PROVE  OneInv'
<1>0. /\ ptr \in [Owner -> Made \cup {None}] /\ fut \in [Handle -> Made \cup {None}]
      /\ None \notin Made /\ obtained \in [Owner -> BOOLEAN]
      /\ \A p, q \in Owner : ptr[p] # None /\ ptr[p] = ptr[q] => p = q
  BY MadeState, Zenon DEF FutureType, ObjectType, OneInv, OwnerInv
<1>1. ASSUME NEW p \in Owner, Construct(c, p) PROVE OneInv'
  <2>1. /\ Quick(c) /\ UNCHANGED <<mode, fut>> /\ made < mode.states /\ made' = made + 1
        /\ ptr' = [ptr EXCEPT ![p] = made + 1] /\ obtained' = [obtained EXCEPT ![p] = FALSE]
    BY <1>1, Zenon DEF Construct, Same
  <2>2. made + 1 \notin Made
    BY <2>1, MakeTyped, Zenon DEF FutureType
  <2>3. obtained' \in [Owner -> BOOLEAN] /\ \A q \in Owner \ {p} : obtained'[q] = obtained[q]
    BY <1>0, <2>1, Zenon
  <2>4. ptr'[p] = made + 1 /\ \A q \in Owner \ {p} : ptr'[q] = ptr[q]
    BY <1>0, <2>1, Zenon
  <2>5. \A q \in Owner : Unclaimed(q)' => ptr'[q] \notin Made \/ (Unclaimed(q) /\ ptr[q] = ptr'[q])
    BY <2>2, <2>3, <2>4, Zenon DEF Unclaimed
  <2>6. OneClaim => OneClaim'
    BY <2>1, <2>5, QuickGetters, ClaimsLeave, Zenon
  <2> QED
    BY <2>1, <2>3, <2>6, Zenon DEF OneInv
<1>2. ASSUME NEW p \in Owner, Destroy(c, p) PROVE OneInv'
  <2>1. /\ Call(c, "destroy", "destroy", None, ptr[p], None) /\ UNCHANGED <<mode, fut>>
        /\ ptr' = [ptr EXCEPT ![p] = None] /\ obtained' = [obtained EXCEPT ![p] = FALSE]
    BY <1>2, Zenon DEF Destroy, Same
  <2>2. obtained' \in [Owner -> BOOLEAN] /\ \A q \in Owner \ {p} : obtained'[q] = obtained[q]
    BY <1>0, <2>1, Zenon
  <2>4. \A q \in Owner : Unclaimed(q)' => Unclaimed(q) /\ ptr[q] = ptr'[q]
    BY <2>2, <1>0, <2>1, Zenon DEF Unclaimed
  <2>6. OneClaim => OneClaim'
    BY <2>1, <2>4, ClaimsLeave, CallGetters, Zenon
  <2> QED
    BY <2>1, <2>2, <2>6, Zenon DEF OneInv
<1>3. ASSUME NEW p \in Owner, Set(c, p) \/ Run(c, p) PROVE OneInv'
  BY ClaimsLeave, CallGetters, <1>3, Zenon DEF OneInv, Unclaimed, Set, Run, Same,
      objVars
<1>4. ASSUME NEW p \in Owner, Reset(c, p) PROVE OneInv'
  BY <1>0, <1>4, Zenon DEF OneInv, Reset, Same
<1>5. ASSUME NEW p \in Owner, NEW q \in Owner, MoveAssign(c, p, q) PROVE OneInv'
  <2>1. /\ Call(c, "destroy", "destroy", None, ptr[p], None) /\ UNCHANGED <<mode, fut>> /\ p # q
        /\ ptr' = [ptr EXCEPT ![p] = ptr[q], ![q] = None]
        /\ obtained' = [obtained EXCEPT ![p] = obtained[q], ![q] = FALSE]
    BY <1>5, Zenon DEF MoveAssign, Same
  <2>2. /\ obtained' \in [Owner -> BOOLEAN] /\ obtained'[p] = obtained[q]
        /\ \A u \in Owner \ {p, q} : obtained'[u] = obtained[u]
    BY <1>0, <2>1, Zenon
  <2>4. \A u \in Owner : Unclaimed(u)' => \E v \in Owner : Unclaimed(v) /\ ptr[v] = ptr'[u]
    BY <2>2, <1>0, <2>1, Zenon DEF Unclaimed
  <2>5. \A d \in Context : Getting(d)' => Getting(d) /\ st'[d] = st[d]
    BY <2>1, CallGetters, Zenon
  <2>6. OneClaim => OneClaim'
    BY <2>1, <2>4, <2>5, ClaimsLeave, Zenon
  <2> QED
    BY <2>1, <2>2, <2>6, Zenon DEF OneInv
<1>6. ASSUME NEW p \in Owner, NEW q \in Owner, Swap(c, p, q) PROVE OneInv'
  <2>1. /\ Quick(c) /\ UNCHANGED <<mode, fut>> /\ p # q
        /\ ptr' = [ptr EXCEPT ![p] = ptr[q], ![q] = ptr[p]]
        /\ obtained' = [obtained EXCEPT ![p] = obtained[q], ![q] = obtained[p]]
    BY <1>6, Zenon DEF Swap, Same
  <2>2. /\ obtained' \in [Owner -> BOOLEAN] /\ obtained'[p] = obtained[q] /\ obtained'[q] = obtained[p]
        /\ \A u \in Owner \ {p, q} : obtained'[u] = obtained[u]
    BY <1>0, <2>1, Zenon
  <2>4. \A u \in Owner : Unclaimed(u)' => \E v \in Owner : Unclaimed(v) /\ ptr[v] = ptr'[u]
    BY <2>2, <1>0, <2>1, Zenon DEF Unclaimed
  <2>5. OneClaim => OneClaim'
    BY <2>1, <2>4, QuickGetters, ClaimsLeave, Zenon
  <2> QED
    BY <2>1, <2>2, <2>5, Zenon DEF OneInv
<1>7. ASSUME NEW p \in Owner, NEW h \in Futures, GetFuture(c, p, h) PROVE OneInv'
  <2>1. /\ Quick(c) /\ UNCHANGED <<mode, ptr>> /\ ptr[p] # None /\ ~obtained[p]
        /\ obtained' = [obtained EXCEPT ![p] = TRUE] /\ fut' = [fut EXCEPT ![h] = ptr[p]]
    BY <1>7, Zenon DEF GetFuture, Same
  <2>2. /\ obtained' \in [Owner -> BOOLEAN] /\ obtained'[p]
        /\ \A u \in Owner \ {p} : obtained'[u] = obtained[u]
    BY <1>0, <2>1, Zenon
  <2>3. fut'[h] = ptr[p] /\ \A g \in Futures \ {h} : fut'[g] = fut[g]
    BY <1>0, <2>1, Zenon
  <2>4. \A u \in Owner : Unclaimed(u)' => Unclaimed(u) /\ ptr'[u] = ptr[u] /\ ptr[u] # ptr[p]
    BY <1>0, <2>1, <2>2, Zenon DEF Unclaimed
  <2>5. ASSUME OneClaim PROVE OneClaim'
    <3>1. /\ \A g \in Futures : fut[g] # ptr[p]
          /\ \A d \in Context : Getting(d) => st[d] # ptr[p]
      BY <2>1, <2>5, Zenon DEF OneClaim, Unclaimed
    <3>2. \A d \in Context : Getting(d)' => Getting(d) /\ st'[d] = st[d] /\ st[d] # ptr[p]
      BY <2>1, <3>1, QuickGetters, Zenon
    <3> QED
      BY <2>1, <2>3, <2>4, <2>5, <3>1, <3>2, ClaimGiven
  <2> QED
    BY <2>1, <2>2, <2>5, Zenon DEF OneInv
<1> QED
  BY <1>1, <1>2, <1>3, <1>4, <1>5, <1>6, <1>7, Zenon DEF OwnerCase

LEMMA HandleOne ==
  ASSUME FutureType, OneInv, NEW c \in Context, FutureCase(c)
  PROVE  OneInv'
<1>0. /\ ptr \in [Owner -> Made \cup {None}] /\ fut \in [Handle -> Made \cup {None}]
      /\ st \in [Context -> Made \cup {None}] /\ Futures \cap Shared = {}
  BY Zenon DEF FutureType, ObjectType, CallType
<1>1. ASSUME UNCHANGED <<ptr, obtained>>
      PROVE  \A p \in Owner : Unclaimed(p)' => Unclaimed(p) /\ ptr'[p] = ptr[p]
  BY <1>1, Zenon DEF Unclaimed
<1>2. ASSUME NEW h \in Futures, Get(c, h) PROVE OneInv'
  <2>1. UNCHANGED <<mode, obtained>>
    BY <1>2, Zenon DEF Get, Same
  <2> QED
    BY <1>2, <2>1, ClaimTaken, Zenon DEF OneInv
<1>3. ASSUME NEW h \in Futures, NEW d \in Context, Async(c, d, h) PROVE OneInv'
  <2>1. /\ UNCHANGED <<mode, ptr, obtained>> /\ made < mode.states /\ made' = made + 1
        /\ fut' = [fut EXCEPT ![h] = made + 1]
        /\ \E r : Call(d, "async", "set", None, made + 1, r)
    BY <1>3, Zenon DEF Async, Same
  <2>2. made + 1 \notin Made /\ None # made + 1
    BY <2>1, MakeTyped, Zenon DEF FutureType
  <2>3. fut'[h] = made + 1 /\ \A g \in Futures \ {h} : fut'[g] = fut[g] /\ fut[g] # made + 1
    BY <1>0, <2>1, <2>2
  <2>4. \A e \in Context : Getting(e)' => Getting(e) /\ st'[e] = st[e]
    BY <2>1, CallGetters, Zenon
  <2>5. \A e \in Context : st[e] # made + 1
    BY <1>0, <2>2, Zenon
  <2>6. \A p \in Owner : Unclaimed(p)' => Unclaimed(p) /\ ptr'[p] = ptr[p] /\ ptr[p] # made + 1
    BY <1>0, <1>1, <2>1, <2>2
  <2>7. OneClaim => OneClaim'
    BY <2>2, <2>3, <2>4, <2>5, <2>6, ClaimGiven
  <2> QED
    BY <2>1, <2>7, Zenon DEF OneInv
<1>4. ASSUME NEW h \in Handle, NEW o, Inspect(c, h, o) PROVE OneInv'
  BY <1>1, ClaimsLeave, CallGetters, <1>4, Zenon DEF OneInv, Inspect, Same, objVars
<1>5. ASSUME UNCHANGED <<mode, ptr, obtained>>, Quick(c),
             \A g \in Futures : fut'[g] \in {fut[g], None}
      PROVE  OneInv'
  BY <1>5, <1>1, QuickGetters, ClaimsLeave, Zenon DEF OneInv
<1>6. ASSUME NEW h \in Handle, Drop(c, h) PROVE OneInv'
  BY <1>0, <1>5, <1>6, Zenon DEF Drop, Same
<1>7. ASSUME NEW h \in Handle, NEW g \in Handle, h # g, fut' = [fut EXCEPT ![h] = fut[g], ![g] = None]
             \/ ((h \in Futures <=> g \in Futures) /\ fut' = [fut EXCEPT ![h] = fut[g], ![g] = fut[h]]),
             h \in Futures => g \in Futures, UNCHANGED <<mode, ptr, obtained>>, Quick(c)
      PROVE  OneInv'
  <2>1. /\ fut'[h] = fut[g] /\ fut'[g] \in {fut[h], None}
        /\ \A f \in Handle \ {h, g} : fut'[f] = fut[f]
    BY <1>0, <1>7, Zenon
  <2>2. CASE h \in Futures
    <3>2. OneClaim => OneClaim'
      BY <1>7, <2>1, <2>2, FuturesMoved, Zenon DEF Quick, callVars
    <3> QED
      BY <1>7, <3>2, Zenon DEF OneInv
  <2>3. CASE h \notin Futures
    BY <1>5, <1>7, <2>1, <2>3, <1>0, Zenon
  <2> QED
    BY <2>2, <2>3, Zenon
<1>8. ASSUME NEW h \in Handle, NEW g \in Handle, h \in Futures => g \in Futures, Move(c, h, g)
      PROVE  OneInv'
  BY <1>7, <1>8, Zenon DEF Move, Same
<1>9. ASSUME NEW h \in Handle, NEW g \in Handle, h \in Futures <=> g \in Futures, SwapFutures(c, h, g)
      PROVE  OneInv'
  BY <1>7, <1>9, Zenon DEF SwapFutures, Same
<1>10. ASSUME NEW h \in Shared, NEW g \in Handle, Copy(c, h, g) PROVE OneInv'
  BY <1>0, <1>5, <1>10, Zenon DEF Copy, Same
<1> QED
  BY <1>2, <1>3, <1>4, <1>6, <1>8, <1>9, <1>10, Zenon DEF FutureCase

(* Without reset(), get_future() gives one future, moves keep it one, and  *)
(* get() of it takes it: no two futures or calls of get() refer to the     *)
(* same shared state before it is shared.                                  *)
THEOREM OneFutureEach == Spec => []OneFuture
<1>1. Init => OneInv /\ OwnerInv
  <2> SUFFICES ASSUME Init PROVE OneInv /\ OwnerInv
    BY Zenon
  <2> QED
    BY OwnerInvInit, Zenon DEF OneInv, Init, OneClaim, Getting, Unclaimed
<1>2. FutureType /\ OwnerInv /\ OneInv /\ [Next]_vars => OwnerInv' /\ OneInv'
  <2> SUFFICES ASSUME FutureType, OwnerInv, OneInv, [Next]_vars PROVE OwnerInv' /\ OneInv'
    BY Zenon
  <2>1. OwnerInv'
    BY OwnerInvNext, Zenon
  <2>2. ASSUME UNCHANGED futureVars PROVE OneInv'
    BY <2>2, Zenon DEF futureVars, objVars, callVars, OneInv, OneClaim, Getting, Unclaimed
  <2>3. UNCHANGED vars => UNCHANGED futureVars
    BY Zenon DEF vars
  <2> QED
    BY <2>1, <2>2, <2>3, NextCases, StateOne, OwnerOne, HandleOne, Zenon DEF FutureType,
        ObjectType
<1>3. FutureType /\ OneInv => OneFuture
  BY OneIsOne, Zenon
<1> QED
  BY <1>1, <1>2, <1>3, ResultsStay, PTL DEF Spec
=============================================================================
