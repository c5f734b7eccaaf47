------------------------------- MODULE Mutex -------------------------------
(***************************************************************************)
(* mutex (mutex.cpp) used by the fibers and the main contexts of several   *)
(* threads, at the grain of its spinlock: what a context does while it     *)
(* holds splk_ is one step, what it does between two such sections is      *)
(* another.  The scheduler of a thread is reduced to what FiberManager     *)
(* shows of it: a fiber that is READY and not active is resumed later.     *)
(***************************************************************************)
EXTENDS Naturals, Sequences, Functions

CONSTANTS
  Thread,         \* a thread also stands for its main context
  Fiber,
  Home,           \* the thread of each fiber
  None,
  Caller,         \* the contexts that use the mutex
  Interruptible   \* the fibers that others interrupt while they wait

Context == Thread \cup Fiber

ASSUME ContextAssumption ==
  /\ Thread \cap Fiber = {}
  /\ None \notin Context
  /\ Home \in [Fiber -> Thread]
  /\ Caller \subseteq Context
  /\ Interruptible \subseteq Fiber

VARIABLES
  state,     \* state_
  owner,     \* owner_
  waiting,   \* waiting_
  splk,      \* the context that holds splk_
  at,        \* where each context is
  notified,  \* n of unlock(): the context it took from waiting_
  fstate,    \* state_ of each fiber
  active,    \* active_fiber_ of each thread's manager
  ready,     \* ready_ of the main_fiber of each thread's lock() call
  failed     \* the assertion that ended the program

mutexVars == <<state, owner, waiting>>
schedVars == <<fstate, active, ready>>
vars == <<state, owner, waiting, splk, at, notified, fstate, active, ready, failed>>

Point == {"idle", "lock", "locking", "wait", "parked", "held",
          "unlock", "unlocking", "notify", "try", "trying", "refused"}

Init ==
  /\ state = "UNLOCKED"
  /\ owner = None
  /\ waiting = <<>>
  /\ splk = None
  /\ at = [c \in Context |-> "idle"]
  /\ notified = [c \in Context |-> None]
  /\ fstate = [f \in Fiber |-> "READY"]
  /\ active = [t \in Thread |-> None]
  /\ ready = [t \in Thread |-> FALSE]
  /\ failed = None

-----------------------------------------------------------------------------
(* The scheduler. *)

(* The context executes: it is the active fiber, or the main context of a  *)
(* thread without one.                                                     *)
Runs(c) ==
  /\ failed = None
  /\ IF c \in Fiber THEN active[Home[c]] = c ELSE active[c] = None

(* this_fiber::get_id: every main context has the null id. *)
GetId(c) == IF c \in Fiber THEN c ELSE None

Goto(c, p) == at' = [at EXCEPT ![c] = p]

Abort(a) == failed' = a /\ UNCHANGED <<mutexVars, splk, at, notified, schedVars>>

(* fiber_manager::yield: the fiber is ready and another one may run. *)
YieldNow(f) ==
  /\ fstate' = [fstate EXCEPT ![f] = "READY"]
  /\ active' = [active EXCEPT ![Home[f]] = None]
  /\ UNCHANGED ready

(* A fiber yields outside the calls of the mutex. *)
Yield(f) ==
  /\ Runs(f)
  /\ at[f] \in {"idle", "held"}
  /\ IF fstate[f] # "RUNNING"
     THEN Abort("yield")
     ELSE YieldNow(f) /\ UNCHANGED <<mutexVars, splk, at, notified, failed>>

(* fiber_manager::run in the main context, which calls it when its client  *)
(* does and while lock() waits.                                            *)
Resume(f) ==
  LET t == Home[f] IN
  /\ Runs(t)
  /\ at[t] \in {"idle", "held"} \/ (at[t] = "wait" /\ ~ready[t])
  /\ fstate[f] = "READY"
  /\ fstate' = [fstate EXCEPT ![f] = "RUNNING"]
  /\ active' = [active EXCEPT ![t] = f]
  /\ at' = IF at[f] = "parked" THEN [at EXCEPT ![f] = "lock"] ELSE at
  /\ UNCHANGED <<mutexVars, splk, notified, ready, failed>>

(* interrupt() of a fiber suspended in lock(): set_ready(). *)
Interrupt(f) ==
  /\ failed = None
  /\ at[f] = "parked"
  /\ fstate' = [fstate EXCEPT ![f] = "READY"]
  /\ UNCHANGED <<mutexVars, splk, at, notified, active, ready, failed>>

-----------------------------------------------------------------------------
(* The spinlock. *)

Inside(p) ==
  CASE p = "lock" -> "locking" [] p = "unlock" -> "unlocking" [] p = "try" -> "trying"

(* spinlock::lock: the exchange succeeds. *)
Acquire(c) ==
  /\ Runs(c)
  /\ at[c] \in {"lock", "unlock", "try"}
  /\ splk = None
  /\ splk' = c
  /\ Goto(c, Inside(at[c]))
  /\ UNCHANGED <<mutexVars, notified, schedVars, failed>>

(* spinlock::lock finds it LOCKED: a fiber yields, a main context spins. *)
Spin(f) ==
  /\ Runs(f)
  /\ at[f] \in {"lock", "unlock", "try"}
  /\ splk # None
  /\ IF fstate[f] # "RUNNING"
     THEN Abort("yield")
     ELSE YieldNow(f) /\ UNCHANGED <<mutexVars, splk, at, notified, failed>>

-----------------------------------------------------------------------------
(* The mutex. *)

(* A context calls lock(), which makes a new main_fiber in a main context. *)
Lock(c) ==
  /\ Runs(c)
  /\ at[c] = "idle"
  /\ Goto(c, "lock")
  /\ ready' = IF c \in Thread THEN [ready EXCEPT ![c] = FALSE] ELSE ready
  /\ UNCHANGED <<mutexVars, splk, notified, fstate, active, failed>>

(* lock() and try_lock() get the mutex. *)
Take(c) ==
  /\ state = "UNLOCKED"
  /\ IF owner # None
     THEN Abort("owner")
     ELSE /\ state' = "LOCKED"
          /\ owner' = GetId(c)
          /\ splk' = None
          /\ Goto(c, "held")
          /\ UNCHANGED <<waiting, notified, schedVars, failed>>

(* lock() finds it locked: the context is appended to waiting_, and a     *)
(* fiber is WAITING before wait() releases splk_.                          *)
Enqueue(c) ==
  /\ state = "LOCKED"
  /\ IF c \in Range(waiting) THEN Abort("waiting")
     ELSE IF c \in Fiber /\ fstate[c] # "RUNNING" THEN Abort("wait")
     ELSE /\ waiting' = Append(waiting, c)
          /\ fstate' = IF c \in Fiber THEN [fstate EXCEPT ![c] = "WAITING"] ELSE fstate
          /\ splk' = None
          /\ Goto(c, "wait")
          /\ UNCHANGED <<state, owner, notified, active, ready, failed>>

LockBody(c) == Runs(c) /\ at[c] = "locking" /\ (Take(c) \/ Enqueue(c))

(* The fiber suspends; remote notifications may come before that. *)
MutParkWaits(f) ==
  /\ Runs(f)
  /\ at[f] = "wait"
  /\ Goto(f, "parked")
  /\ active' = [active EXCEPT ![Home[f]] = None]
  /\ fstate' = [fstate EXCEPT ![f] = "WAITING"]
  /\ UNCHANGED <<mutexVars, splk, notified, ready, failed>>
Park(f) ==
  /\ Runs(f)
  /\ at[f] = "wait"
  /\ Goto(f, "parked")
  /\ active' = [active EXCEPT ![Home[f]] = None]
  /\ UNCHANGED <<mutexVars, splk, notified, fstate, ready, failed>>

(* The loop of a main context ends: its main_fiber is ready. *)
MainWakes(t) ==
  /\ Runs(t)
  /\ at[t] = "wait"
  /\ ready[t]
  /\ Goto(t, "lock")
  /\ UNCHANGED <<mutexVars, splk, notified, schedVars, failed>>

TryLock(c) ==
  /\ Runs(c)
  /\ at[c] = "idle"
  /\ Goto(c, "try")
  /\ UNCHANGED <<mutexVars, splk, notified, schedVars, failed>>

(* try_lock() releases splk_ before it yields. *)
TryFails(c) ==
  /\ state = "LOCKED"
  /\ splk' = None
  /\ Goto(c, "refused")
  /\ UNCHANGED <<mutexVars, notified, schedVars, failed>>

TryBody(c) == Runs(c) /\ at[c] = "trying" /\ (Take(c) \/ TryFails(c))

(* this_fiber::yield at the end of try_lock(): in a main context it is a   *)
(* call of run(), as Resume.                                               *)
Refused(c) ==
  /\ Runs(c)
  /\ at[c] = "refused"
  /\ IF c \in Fiber /\ fstate[c] # "RUNNING"
     THEN Abort("yield")
     ELSE /\ Goto(c, "idle")
          /\ IF c \in Fiber THEN YieldNow(c) ELSE UNCHANGED schedVars
          /\ UNCHANGED <<mutexVars, splk, notified, failed>>

(* unlock() by the holder, up to the spinlock. *)
Unlock(c) ==
  /\ Runs(c)
  /\ at[c] = "held"
  /\ IF state # "LOCKED" \/ owner # GetId(c)
     THEN Abort("unlock")
     ELSE /\ Goto(c, "unlock")
          /\ UNCHANGED <<mutexVars, splk, notified, schedVars, failed>>

(* The first of waiting_ is taken out and the mutex is free. *)
UnlockBody(c) ==
  /\ Runs(c)
  /\ at[c] = "unlocking"
  /\ notified' = [notified EXCEPT ![c] = IF waiting = <<>> THEN None ELSE Head(waiting)]
  /\ waiting' = IF waiting = <<>> THEN <<>> ELSE Tail(waiting)
  /\ owner' = None
  /\ state' = "UNLOCKED"
  /\ splk' = None
  /\ Goto(c, "notify")
  /\ UNCHANGED <<schedVars, failed>>

(* set_ready() of a worker_fiber or of a main_fiber. *)
SetReady(n) ==
  /\ fstate' = IF n \in Fiber THEN [fstate EXCEPT ![n] = "READY"] ELSE fstate
  /\ ready' = IF n \in Thread THEN [ready EXCEPT ![n] = TRUE] ELSE ready

(* The end of unlock(). *)
MutNotifyForgets(c) ==
  /\ Runs(c)
  /\ at[c] = "notify"
  /\ notified' = [notified EXCEPT ![c] = None]
  /\ Goto(c, "idle")
  /\ UNCHANGED <<mutexVars, splk, schedVars, failed>>
Notify(c) ==
  /\ Runs(c)
  /\ at[c] = "notify"
  /\ SetReady(notified[c])
  /\ notified' = [notified EXCEPT ![c] = None]
  /\ Goto(c, "idle")
  /\ UNCHANGED <<mutexVars, splk, active, failed>>

-----------------------------------------------------------------------------
CallStep(c) ==
  Acquire(c) \/ LockBody(c) \/ TryBody(c) \/ Refused(c) \/ UnlockBody(c) \/ Notify(c)

Next ==
  \/ \E c \in Context : CallStep(c) \/ Unlock(c)
  \/ \E c \in Caller : Lock(c) \/ TryLock(c)
  \/ \E f \in Fiber : Yield(f) \/ Spin(f) \/ Park(f) \/ Resume(f)
  \/ \E f \in Interruptible : Interrupt(f)
  \/ \E t \in Thread \cap Caller : MainWakes(t)

Spec == Init /\ [][Next]_vars

-----------------------------------------------------------------------------
TypeOK ==
  /\ state \in {"LOCKED", "UNLOCKED"}
  /\ owner \in Fiber \cup {None}
  /\ waiting \in Seq(Context)
  /\ splk \in Context \cup {None}
  /\ at \in [Context -> Point]
  /\ notified \in [Context -> Context \cup {None}]
  /\ fstate \in [Fiber -> {"READY", "RUNNING", "WAITING"}]
  /\ active \in [Thread -> Fiber \cup {None}]
  /\ ready \in [Thread -> BOOLEAN]

Holders == {c \in Context : at[c] \in {"held", "unlock", "unlocking"}}
Blocked == {c \in Context : at[c] \in {"wait", "parked"}}

(* At most one context is between the return of lock() or try_lock() and   *)
(* the point of unlock() that frees the mutex, and state_ and owner_ say   *)
(* so, whoever is interrupted.                                             *)
MutualExclusion ==
  /\ \A c, d \in Holders : c = d
  /\ state = "LOCKED" <=> Holders # {}
  /\ \A c \in Holders : owner = GetId(c)
  /\ state = "UNLOCKED" => owner = None

(* Whom waiting_ or a pending set_ready() refers to is still blocked in    *)
(* lock(): no main_fiber is notified after its lock() returned, and no     *)
(* fiber that goes on is made ready.                                       *)
NotifiesBlocked ==
  /\ Range(waiting) \subseteq Blocked
  /\ \A c \in Context : at[c] = "notify" => notified[c] \in Blocked \cup {None}

(* A context blocked in lock() is in waiting_, or is about to be notified, *)
(* or has been; and while the mutex is free and waiting_ is not empty,     *)
(* somebody is on the way to take it and to notify the next one.           *)
NoLostWakeup ==
  /\ \A c \in Blocked :
       \/ c \in Range(waiting)
       \/ \E d \in Context : at[d] = "notify" /\ notified[d] = c
       \/ IF c \in Fiber THEN fstate[c] = "READY" ELSE ready[c]
  /\ state = "UNLOCKED" /\ waiting # <<>> =>
       \E c \in Context : \/ at[c] \in {"lock", "locking"}
                          \/ c \in Blocked \ Range(waiting)

(* When nobody is in a call or holds the mutex, the assertions of ~mutex() *)
(* hold.                                                                   *)
DestructorAsserts ==
  (\A c \in Context : at[c] = "idle") => owner = None /\ waiting = <<>>

AssertsHold == failed = None

(* What keeps the wakeups, when only fibers that are not interrupted use   *)
(* the mutex.                                                              *)
FibersOnly == Caller \subseteq Fiber /\ Interruptible = {}

(* A fiber in waiting_ has state WAITING until it was taken out of it and  *)
(* notified, once, and occurs once.                                        *)
WaitersInv ==
  /\ IsInjective(waiting)
  /\ \A c \in Range(waiting) : c \in Blocked /\ fstate[c] = "WAITING"
  /\ \A d \in Context : notified[d] # None =>
       /\ at[d] = "notify"
       /\ notified[d] \in Blocked \ Range(waiting)
       /\ fstate[notified[d]] = "WAITING"
       /\ \A e \in Context : notified[e] = notified[d] => e = d

(* The active fiber is in state RUNNING unless it is about to suspend in   *)
(* lock(), and a suspended one is not about to.                            *)
RunningInv ==
  /\ \A f \in Fiber : active[Home[f]] = f => fstate[f] = "RUNNING" \/ at[f] = "wait"
  /\ \A f \in Fiber : at[f] = "wait" => active[Home[f]] = f
  /\ \A f \in Fiber : at[f] = "parked" => active[Home[f]] # f
  /\ \A t \in Thread : at[t] = "idle"

WakeupInv ==
  TypeOK /\ MutualExclusion /\ AssertsHold /\ WaitersInv /\ RunningInv /\ NoLostWakeup

(* The mutex is an ExclusiveLock: it is held from the point where state_   *)
(* becomes LOCKED to the point where it becomes UNLOCKED.                  *)
Holder == IF Holders = {} THEN None ELSE CHOOSE c \in Holders : TRUE
Wants == {c \in Context : at[c] \in {"lock", "locking", "wait", "parked", "try", "trying"}}
EL == INSTANCE ExclusiveLock WITH holder <- Holder, wants <- Wants
ImplementsLock == EL!Spec
=============================================================================
