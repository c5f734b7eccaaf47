------------------------------- MODULE Future -------------------------------
(***************************************************************************)
(* promise, packaged_task, async(), future and shared_future over the      *)
(* shared_state they refer to, its mutex and its condition.  A call that   *)
(* finds no shared state throws and changes nothing; it has no action.     *)
(* The specialisations for R, R & and void repeat each other; which one is *)
(* used, and with promises or tasks, is chosen in the initial state.       *)
(***************************************************************************)
EXTENDS Condition

CONSTANTS
  Mode,       \* records type, task, resets, provider, waiter, objects,
              \* states, values
  Owner,      \* promise or packaged_task objects
  Futures,    \* future objects
  Shared      \* shared_future objects

State == Cond
Handle == Futures \cup Shared
Errors == {"error", "broken", "satisfied"}
Result == {"done"} \cup Errors \cup UNION {m.values : m \in Mode}

ASSUME FutureAssumption ==
  /\ \A m \in Mode : m.states \in Nat /\ 1..m.states \subseteq Cond
  /\ MutexOf = [s \in Cond |-> s]
  /\ Futures \cap Shared = {} /\ Owner \cap Handle = {}
  /\ None \notin Owner \cup Handle
  /\ None \notin Result
  /\ \A m \in Mode : /\ m.provider \subseteq Context /\ m.waiter \subseteq Context
                     /\ m.type \in {"R", "R&", "void"}
                     /\ m.type = "void" => m.values = {"done"}

VARIABLES
  mode,      \* the specialisation, who provides and who waits, with which
             \* objects, and how many shared states are made
  made,      \* how many shared states were constructed
  ready,     \* ready_ of each
  value,     \* value_
  except,    \* except_
  ptr,       \* future_ or task_ of each owner
  obtained,  \* obtained_
  fut,       \* state_ of each future
  op,        \* the operation of each context
  at,        \* where in it the context is
  obj,       \* the owner or future it is called on
  st,        \* the shared state it works on
  arg,       \* the result it is to store
  out        \* the result it returns

stateVars == <<ready, value, except>>
objVars == <<made, ptr, obtained, fut>>
callVars == <<op, at, obj, st, arg, out>>
futureVars == <<mode, stateVars, objVars, callVars>>
vars == <<condVars, futureVars>>

Owners == Owner \cap mode.objects
Singles == Futures \cap mode.objects
Shareds == Shared \cap mode.objects
Op == {"none", "set", "run", "async", "destroy", "get", "wait", "wait_until"}
At == {"idle", "set", "destroy", "leave", "ask", "loop", "got"}

Init ==
  /\ CondInit
  /\ mode \in Mode
  /\ made = 0
  /\ ready = [s \in State |-> FALSE]
  /\ value = [s \in State |-> None]
  /\ except = [s \in State |-> None]
  /\ ptr = [p \in Owner |-> None]
  /\ obtained = [p \in Owner |-> FALSE]
  /\ fut = [h \in Handle |-> None]
  /\ op = [c \in Context |-> "none"]
  /\ at = [c \in Context |-> "idle"]
  /\ obj = [c \in Context |-> None]
  /\ st = [c \in Context |-> None]
  /\ arg = [c \in Context |-> None]
  /\ out = [c \in Context |-> None]

Here(c, p) == Free(c) /\ at[c] = p
Goto(c, p) == at' = [at EXCEPT ![c] = p] /\ UNCHANGED <<op, obj, st, arg, out>>
Same(v) == UNCHANGED <<mode, v>>

(* A call of o on the object x begins at point p with the state s. *)
Call(c, o, p, x, s, r) ==
  /\ Free(c)
  /\ at[c] = "idle"
  /\ at' = [at EXCEPT ![c] = p] /\ op' = [op EXCEPT ![c] = o]
  /\ obj' = [obj EXCEPT ![c] = x] /\ st' = [st EXCEPT ![c] = s]
  /\ arg' = [arg EXCEPT ![c] = r] /\ UNCHANGED out
  /\ Quietly
Return(c) ==
  /\ at' = [at EXCEPT ![c] = "idle"] /\ op' = [op EXCEPT ![c] = "none"]
  /\ obj' = [obj EXCEPT ![c] = None] /\ st' = [st EXCEPT ![c] = None]
  /\ arg' = [arg EXCEPT ![c] = None] /\ out' = [out EXCEPT ![c] = None]

(* A step that only touches objects no other call is using. *)
Unused(x) == \A d \in Context : obj[d] # x
Quick(c) == Here(c, "idle") /\ Quietly /\ UNCHANGED callVars

-----------------------------------------------------------------------------
(* shared_state, with its mutex held *)

SetValueR(s, v) == value' = [value EXCEPT ![s] = v]
SetValueRef(s, v) == value' = [value EXCEPT ![s] = v]
SetValueVoid(s, v) == UNCHANGED value
SetValue_(s, v) ==
  \/ mode.type = "R" /\ SetValueR(s, v)
  \/ mode.type = "R&" /\ SetValueRef(s, v)
  \/ mode.type = "void" /\ SetValueVoid(s, v)

Store(s, r) ==
  IF r \in Errors
  THEN except' = [except EXCEPT ![s] = r] /\ UNCHANGED value
  ELSE SetValue_(s, r) /\ UNCHANGED except

MutMarkReadyOnly(c, s) == ready' = [ready EXCEPT ![s] = TRUE] /\ UNCHANGED <<waiting, pend>>
MarkReadyAndNotify_(c, s) == ready' = [ready EXCEPT ![s] = TRUE] /\ NotifyAll(c, s)

GetR(s) == IF except[s] # None THEN except[s] ELSE value[s]
GetRef(s) == IF except[s] # None THEN except[s] ELSE value[s]
GetVoid(s) == IF except[s] # None THEN except[s] ELSE "done"
Outcome(s) ==
  CASE mode.type = "R" -> GetR(s)
    [] mode.type = "R&" -> GetRef(s)
    [] mode.type = "void" -> GetVoid(s)

MutAssignAgain(c) ==
  /\ Here(c, "set")
  /\ holder[st[c]] = None
  /\ Store(st[c], arg[c])
  /\ MarkReadyAndNotify_(c, st[c])
  /\ holder' = [holder EXCEPT ![st[c]] = c]
  /\ UNCHANGED <<on, cv, why, status, failed>>
  /\ Goto(c, "leave")
  /\ Same(objVars)
(* set_value() and set_exception().  A value refused because one is there  *)
(* throws; task_object::run() catches that and tries to store it.          *)
Assign(c) ==
  /\ Here(c, "set")
  /\ holder[st[c]] = None
  /\ IF ready[st[c]]
     THEN /\ IF op[c] # "set" /\ arg[c] \in mode.values
             THEN arg' = [arg EXCEPT ![c] = "satisfied"] /\ UNCHANGED <<op, at, obj, st, out>>
             ELSE Return(c)
          /\ Quietly /\ UNCHANGED stateVars
     ELSE /\ Store(st[c], arg[c])
          /\ MarkReadyAndNotify_(c, st[c])
          /\ holder' = [holder EXCEPT ![st[c]] = c]
          /\ UNCHANGED <<on, cv, why, status, failed>>
          /\ Goto(c, "leave")
  /\ Same(objVars)

MutOwnerDestroyedSilent(c) ==
  /\ Here(c, "destroy")
  /\ holder[st[c]] = None
  /\ Return(c) /\ Quietly /\ UNCHANGED stateVars
  /\ Same(objVars)
(* owner_destroyed() *)
OwnerDestroyed(c) ==
  /\ Here(c, "destroy")
  /\ holder[st[c]] = None
  /\ IF ready[st[c]]
     THEN Return(c) /\ Quietly /\ UNCHANGED stateVars
     ELSE /\ Store(st[c], "broken")
          /\ MarkReadyAndNotify_(c, st[c])
          /\ holder' = [holder EXCEPT ![st[c]] = c]
          /\ UNCHANGED <<on, cv, why, status, failed>>
          /\ Goto(c, "leave")
  /\ Same(objVars)

(* The setter has notified and unlocks.  The fiber of async() destroys its *)
(* packaged_task next.                                                     *)
Leave(c) ==
  /\ Here(c, "leave")
  /\ Locks(Released(c))
  /\ IF op[c] = "async"
     THEN /\ op' = [op EXCEPT ![c] = "destroy"]
          /\ at' = [at EXCEPT ![c] = "destroy"]
          /\ UNCHANGED <<obj, st, arg, out>>
     ELSE Return(c)
  /\ Same(<<stateVars, objVars>>)

(* wait_(), wait_until_() and get_(), from the test of ready_ on: x says   *)
(* whether a deadline ended the last wait.                                 *)
Answer(c) ==
  /\ at' = [at EXCEPT ![c] = "got"]
  /\ out' = [out EXCEPT ![c] = IF op[c] = "get" THEN Outcome(st[c]) ELSE None]
  /\ UNCHANGED <<op, obj, st, arg>>
  /\ Reads(c, Released(c))
TestReady(c, x) ==
  CASE ready[st[c]] -> Answer(c)
    [] ~ready[st[c]] /\ x -> Return(c) /\ Reads(c, Released(c))
    [] ~ready[st[c]] /\ ~x -> /\ EnterWait(c, st[c], IF op[c] = "wait_until" THEN op[c] ELSE "wait")
                              /\ Goto(c, "loop")

(* get(), wait() and wait_until(): the mutex is locked. *)
Ask(c) ==
  /\ Here(c, "ask")
  /\ holder[st[c]] = None
  /\ TestReady(c, FALSE)
  /\ Same(<<stateVars, objVars>>)

(* The wait is over; an interrupt leaves with the mutex unlocked. *)
Loop(c) ==
  /\ Here(c, "loop")
  /\ IF status[c] = "interrupted" THEN Return(c) /\ Reads(c, holder)
     ELSE TestReady(c, status[c] = "timeout")
  /\ Same(<<stateVars, objVars>>)

Got(c) == Here(c, "got") /\ Return(c) /\ Quietly /\ Same(<<stateVars, objVars>>)

StateStep(c) == Assign(c) \/ OwnerDestroyed(c) \/ Leave(c) \/ Ask(c) \/ Loop(c) \/ Got(c)
StateR(c) == mode.type = "R" /\ StateStep(c)
StateRef(c) == mode.type = "R&" /\ StateStep(c)
StateVoid(c) == mode.type = "void" /\ StateStep(c)

-----------------------------------------------------------------------------
(* promise and packaged_task *)

(* The constructors with a shared state. *)
Construct(c, p) ==
  /\ Quick(c)
  /\ ptr[p] = None /\ Unused(p)
  /\ made < mode.states
  /\ made' = made + 1
  /\ ptr' = [ptr EXCEPT ![p] = made + 1]
  /\ obtained' = [obtained EXCEPT ![p] = FALSE]
  /\ Same(<<stateVars, fut>>)

(* The destructor; the call keeps the last pointer of the owner. *)
Destroy(c, p) ==
  /\ ptr[p] # None /\ Unused(p)
  /\ Call(c, "destroy", "destroy", None, ptr[p], None)
  /\ ptr' = [ptr EXCEPT ![p] = None]
  /\ obtained' = [obtained EXCEPT ![p] = FALSE]
  /\ Same(<<stateVars, made, fut>>)

MutMoveAssignForgets(c, p, q) ==
  /\ Quick(c)
  /\ p # q /\ ptr[p] # None /\ Unused(p) /\ Unused(q)
  /\ ptr' = [ptr EXCEPT ![p] = ptr[q], ![q] = None]
  /\ obtained' = [obtained EXCEPT ![p] = obtained[q], ![q] = FALSE]
  /\ Same(<<stateVars, made, fut>>)
(* p = move( q): what p referred to ends with the local tmp. *)
MoveAssign(c, p, q) ==
  /\ p # q /\ ptr[p] # None /\ Unused(p) /\ Unused(q)
  /\ Call(c, "destroy", "destroy", None, ptr[p], None)
  /\ ptr' = [ptr EXCEPT ![p] = ptr[q], ![q] = None]
  /\ obtained' = [obtained EXCEPT ![p] = obtained[q], ![q] = FALSE]
  /\ Same(<<stateVars, made, fut>>)

MutSwapPointers(c, p, q) ==
  /\ Quick(c)
  /\ p # q /\ Unused(p) /\ Unused(q)
  /\ ptr' = [ptr EXCEPT ![p] = ptr[q], ![q] = ptr[p]]
  /\ Same(<<stateVars, made, obtained, fut>>)
Swap(c, p, q) ==
  /\ Quick(c)
  /\ p # q /\ Unused(p) /\ Unused(q)
  /\ ptr' = [ptr EXCEPT ![p] = ptr[q], ![q] = ptr[p]]
  /\ obtained' = [obtained EXCEPT ![p] = obtained[q], ![q] = obtained[p]]
  /\ Same(<<stateVars, made, fut>>)

OwnerOp(c) ==
  \E p \in Owners : \/ Construct(c, p) \/ Destroy(c, p)
                    \/ \E q \in Owners : MoveAssign(c, p, q) \/ Swap(c, p, q)

(* get_future(), moved into the future h *)
GetFuture(c, p, h) ==
  /\ Quick(c)
  /\ ptr[p] # None /\ ~obtained[p] /\ Unused(h)
  /\ obtained' = [obtained EXCEPT ![p] = TRUE]
  /\ fut' = [fut EXCEPT ![h] = ptr[p]]
  /\ Same(<<stateVars, made, ptr>>)

(* set_value() and set_exception() *)
Set(c, p) ==
  /\ ptr[p] # None
  /\ \E r \in mode.values \cup {"error"} : Call(c, "set", "set", p, ptr[p], r)
  /\ Same(<<stateVars, objVars>>)

(* operator()(): the function returns a value or throws. *)
Run(c, p) ==
  /\ ptr[p] # None
  /\ \E r \in mode.values \cup {"error"} : Call(c, "run", "set", p, ptr[p], r)
  /\ Same(<<stateVars, objVars>>)

(* reset() keeps the shared state and does not lock. *)
Reset(c, p) ==
  /\ Quick(c)
  /\ mode.resets
  /\ ptr[p] # None /\ Unused(p)
  /\ obtained' = [obtained EXCEPT ![p] = FALSE]
  /\ ready' = [ready EXCEPT ![ptr[p]] = FALSE]
  /\ Same(<<value, except, made, ptr, fut>>)

(* async(): the fiber d runs the task and destroys it. *)
Async(c, d, h) ==
  /\ Here(c, "idle")
  /\ made < mode.states
  /\ Unused(h)
  /\ \E r \in mode.values \cup {"error"} : Call(d, "async", "set", None, made + 1, r)
  /\ made' = made + 1
  /\ fut' = [fut EXCEPT ![h] = made + 1]
  /\ Same(<<stateVars, ptr, obtained>>)

PromiseOp(c) == \E p \in Owners : Set(c, p) \/ \E h \in Singles : GetFuture(c, p, h)
TaskOp(c) ==
  \E p \in Owners : Run(c, p) \/ Reset(c, p) \/ \E h \in Singles : GetFuture(c, p, h)

PromiseOwnerR(c) == ~mode.task /\ mode.type = "R" /\ OwnerOp(c)
PromiseOwnerRef(c) == ~mode.task /\ mode.type = "R&" /\ OwnerOp(c)
PromiseOwnerVoid(c) == ~mode.task /\ mode.type = "void" /\ OwnerOp(c)
PromiseR(c) == ~mode.task /\ mode.type = "R" /\ PromiseOp(c)
PromiseRef(c) == ~mode.task /\ mode.type = "R&" /\ PromiseOp(c)
PromiseVoid(c) == ~mode.task /\ mode.type = "void" /\ PromiseOp(c)
TaskOwnerR(c) == mode.task /\ mode.type # "void" /\ OwnerOp(c)
TaskOwnerVoid(c) == mode.task /\ mode.type = "void" /\ OwnerOp(c)
TaskR(c) == mode.task /\ mode.type # "void" /\ TaskOp(c)
TaskVoid(c) == mode.task /\ mode.type = "void" /\ TaskOp(c)
AsyncCall(c) == mode.task /\ \E d \in Fiber \ {c}, h \in Singles : Async(c, d, h)

-----------------------------------------------------------------------------
(* future and shared_future *)

(* h = move( g), of a future or a shared_future *)
Move(c, h, g) ==
  /\ Quick(c)
  /\ h # g /\ fut[g] # None /\ Unused(h) /\ Unused(g)
  /\ fut' = [fut EXCEPT ![h] = fut[g], ![g] = None]
  /\ Same(<<stateVars, made, ptr, obtained>>)

SwapFutures(c, h, g) ==
  /\ Quick(c)
  /\ h # g /\ Unused(h) /\ Unused(g)
  /\ fut' = [fut EXCEPT ![h] = fut[g], ![g] = fut[h]]
  /\ Same(<<stateVars, made, ptr, obtained>>)

Drop(c, h) ==
  /\ Quick(c)
  /\ fut[h] # None /\ Unused(h)
  /\ fut' = [fut EXCEPT ![h] = None]
  /\ Same(<<stateVars, made, ptr, obtained>>)

Copy(c, h, g) ==
  /\ Quick(c)
  /\ h # g /\ fut[g] # None /\ Unused(h)
  /\ fut' = [fut EXCEPT ![h] = fut[g]]
  /\ Same(<<stateVars, made, ptr, obtained>>)

MutGetReleases(c, h) ==
  /\ fut[h] # None /\ Unused(h)
  /\ Call(c, "get", "ask", h, fut[h], None)
  /\ fut' = [fut EXCEPT ![h] = None]
  /\ Same(<<stateVars, made, ptr, obtained>>)
(* get() of a future moves state_ into a local first. *)
Get(c, h) ==
  /\ fut[h] # None /\ Unused(h)
  /\ Call(c, "get", "ask", None, fut[h], None)
  /\ fut' = [fut EXCEPT ![h] = None]
  /\ Same(<<stateVars, made, ptr, obtained>>)

(* wait(), wait_for(), wait_until(), and get() of a shared_future, by any  *)
(* number of contexts at once                                              *)
Inspect(c, h, o) ==
  /\ fut[h] # None
  /\ Call(c, o, "ask", h, fut[h], None)
  /\ Same(<<stateVars, objVars>>)
WaitOps(c) == {"wait"} \cup (IF c \in Timed THEN {"wait_until"} ELSE {})

FutureOp(c) ==
  \E h \in Singles : \/ Drop(c, h) \/ Get(c, h) \/ \E o \in WaitOps(c) : Inspect(c, h, o)
                     \/ \E g \in Singles : Move(c, h, g) \/ SwapFutures(c, h, g)
SharedMove(c) ==
  \E h \in Shareds : \/ Drop(c, h) \/ \E g \in Singles \cup Shareds : Move(c, h, g)
                     \/ \E g \in Shareds : Copy(c, h, g) \/ SwapFutures(c, h, g)
SharedGet(c) == \E h \in Shareds, o \in WaitOps(c) \cup {"get"} : Inspect(c, h, o)

FutureR(c) == mode.type = "R" /\ FutureOp(c)
FutureRef(c) == mode.type = "R&" /\ FutureOp(c)
FutureVoid(c) == mode.type = "void" /\ FutureOp(c)
SharedMoveR(c) == mode.type = "R" /\ SharedMove(c)
SharedMoveRef(c) == mode.type = "R&" /\ SharedMove(c)
SharedMoveVoid(c) == mode.type = "void" /\ SharedMove(c)
SharedGetR(c) == mode.type = "R" /\ SharedGet(c)
SharedGetRef(c) == mode.type = "R&" /\ SharedGet(c)
SharedGetVoid(c) == mode.type = "void" /\ SharedGet(c)

-----------------------------------------------------------------------------
Provide(c) ==
  \/ PromiseOwnerR(c) \/ PromiseOwnerRef(c) \/ PromiseOwnerVoid(c)
  \/ PromiseR(c) \/ PromiseRef(c) \/ PromiseVoid(c)
  \/ TaskOwnerR(c) \/ TaskOwnerVoid(c) \/ TaskR(c) \/ TaskVoid(c) \/ AsyncCall(c)
Use(c) ==
  \/ FutureR(c) \/ FutureRef(c) \/ FutureVoid(c)
  \/ SharedMoveR(c) \/ SharedMoveRef(c) \/ SharedMoveVoid(c)
  \/ SharedGetR(c) \/ SharedGetRef(c) \/ SharedGetVoid(c)

Next ==
  \/ \E c \in Context : StateR(c) \/ StateRef(c) \/ StateVoid(c)
  \/ (\E c \in Context : CondStep(c) \/ Reach(c)) /\ UNCHANGED futureVars
  \/ \E c \in mode.provider : Provide(c)
  \/ \E c \in mode.waiter : Use(c)

Spec == Init /\ [][Next]_vars

(* A call goes on unless it waits, the mutex is granted in turn, and every *)
(* promise and task is destroyed in the end.                               *)
Fairness ==
  /\ \A c \in Context : SF_vars(StateStep(c) \/ (CondStep(c) /\ UNCHANGED futureVars))
  /\ SF_vars(\E c \in mode.provider, p \in Owner : Destroy(c, p))
FairSpec == Spec /\ Fairness

-----------------------------------------------------------------------------

(* Without reset(), a shared state gets one result, from whichever of the  *)
(* calls that raced to set it came first or from the destructor, and every *)
(* get() of every future, shared or moved, gives it.                       *)
ResultOf == [s \in State |-> IF ready[s] /\ ~mode.resets THEN Outcome(s) ELSE None]
SeenOf == [c \in Context |-> IF mode.resets THEN None ELSE out[c]]
O == INSTANCE OneShot WITH result <- ResultOf, seen <- SeenOf
ImplementsOneShot == O!Spec

(* The contexts whose call keeps a reference of its own. *)
Keeps(s) == {c \in Context : st[c] = s /\ obj[c] = None}

(* Whoever waits can still be answered: a shared state that is not ready   *)
(* has a promise, a task or the fiber of async() that will set it, or      *)
(* whose destruction will break it, whatever was moved or swapped.         *)
OwnerRemains ==
  \A s \in 1..made :
    \/ ready[s]
    \/ \E p \in Owner : ptr[p] = s
    \/ \E c \in Keeps(s) : op[c] \in {"async", "destroy"}

(* Nobody enters or stays in waiting_ of a state that is ready. *)
WaitersUnready == \A s \in State : waiting[s] # <<>> => ~ready[s]

(* When the last reference to a shared state goes nobody is inside it: its *)
(* mutex and its condition are destroyed free and empty.                   *)
FreedQuiet ==
  \A s \in 1..made :
    \/ \E x \in Owner : ptr[x] = s
    \/ \E h \in Handle : fut[h] = s
    \/ Keeps(s) # {}
    \/ holder[s] = None /\ waiting[s] = <<>> /\ \A c \in Context : st[c] # s

(* The futures of a shared state, and the get()s under way in it. *)
Claims(s) == {h \in Futures : fut[h] = s} \cup {c \in Keeps(s) : op[c] = "get"}

(* Without reset(), at most one future refers to a shared state until it   *)
(* is shared: no two get()s take the same result.                          *)
OneFuture ==
  \A s \in State : ~mode.resets => \A x, y \in Claims(s) : x = y

(* What a setter or a task stores is what get() gives from then on.  After *)
(* a reset() it is not: the exception of the earlier run stays in except_. *)
StoredIsResult ==
  [][\A c \in Context :
       at[c] = "set" /\ at'[c] = "leave" => Outcome(st[c])' = arg[c]]_vars

(* Every call returns: the destruction of the owner ends the last wait. *)
CallReturns == \A c \in Context : (at[c] # "idle") ~> (at[c] = "idle" \/ failed # None)
=============================================================================
