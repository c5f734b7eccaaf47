----------------------------- MODULE MutexKinds -----------------------------
(***************************************************************************)
(* mutex, timed_mutex, recursive_mutex and recursive_timed_mutex: what the *)
(* other three add to mutex.  Which one is used, by whom, and whether      *)
(* fibers are interrupted is chosen in the initial state.                  *)
(***************************************************************************)
EXTENDS Mutex

CONSTANTS
  Mode,     \* records kind, user, rude
  MaxCount  \* bound on count_

ASSUME KindsAssumption ==
  /\ MaxCount \in Nat
  /\ None \notin {"owner", "unlock"}
  /\ \A m \in Mode : m.user \subseteq Context

VARIABLES
  mode,   \* the kind of mutex, its users, whether fibers are interrupted
  count,  \* count_
  mine,   \* how often each context has it locked
  until,  \* the contexts inside try_lock_until()
  late    \* those of them whose deadline has passed

kindVars == <<mode, count, mine, until, late>>
allVars == <<vars, kindVars>>

Recursive == mode.kind \in {"recursive_mutex", "recursive_timed_mutex"}
Timed == mode.kind \in {"timed_mutex", "recursive_timed_mutex"}

KindsInit ==
  /\ Init
  /\ mode \in Mode
  /\ count = 0
  /\ mine = [c \in Context |-> 0]
  /\ until = {} /\ late = {}

(* The context's place when a call has returned. *)
Back(c) == IF mine[c] > 0 THEN "held" ELSE "idle"
Ends(c) == until' = until \ {c} /\ late' = late \ {c}

-----------------------------------------------------------------------------
(* lock(), try_lock() and try_lock_until(), to the spinlock.  The owner of *)
(* a recursive mutex may call them again.                                  *)

Starts(c, p) ==
  /\ Runs(c)
  /\ \/ at[c] = "idle"
     \/ Recursive /\ at[c] = "held" /\ count < MaxCount
  /\ Goto(c, p)
  /\ ready' = IF c \in Thread /\ p = "lock" THEN [ready EXCEPT ![c] = FALSE] ELSE ready
  /\ UNCHANGED <<mutexVars, splk, notified, fstate, active, failed>>

LockCall(c) == Starts(c, "lock") /\ UNCHANGED kindVars
TryCall(c) == Starts(c, "try") /\ UNCHANGED kindVars
UntilCall(c) ==
  /\ Timed
  /\ Starts(c, "lock")
  /\ until' = until \cup {c}
  /\ UNCHANGED <<mode, count, mine, late>>

(* The deadline of try_lock_until() passes. *)
Pass(c) ==
  /\ failed = None
  /\ c \in until \ late
  /\ late' = late \cup {c}
  /\ UNCHANGED <<vars, mode, count, mine, until>>

-----------------------------------------------------------------------------
(* The sections with splk_ held. *)

(* The mutex is free, or the caller has it: ++count_. *)
Gets(c) ==
  /\ mine' = [mine EXCEPT ![c] = @ + 1]
  /\ count' = IF Recursive THEN count + 1 ELSE count
  /\ UNCHANGED mode

MutAgainAny(c) ==
  /\ Recursive
  /\ state = "LOCKED"
  /\ splk' = None
  /\ Goto(c, "held")
  /\ UNCHANGED <<mutexVars, notified, schedVars, failed>>
MutAgainMutex(c) ==
  /\ state = "LOCKED" /\ owner = GetId(c)
  /\ splk' = None
  /\ Goto(c, "held")
  /\ UNCHANGED <<mutexVars, notified, schedVars, failed>>
Again(c) ==
  /\ Recursive
  /\ state = "LOCKED" /\ owner = GetId(c)
  /\ splk' = None
  /\ Goto(c, "held")
  /\ UNCHANGED <<mutexVars, notified, schedVars, failed>>

(* try_lock_until() looks at the clock before it looks at state_. *)
GiveUp(c) ==
  /\ splk' = None
  /\ Goto(c, Back(c))
  /\ UNCHANGED <<mutexVars, notified, schedVars, failed, mode, count, mine>>

LockSection(c) ==
  /\ Runs(c) /\ at[c] = "locking"
  /\ \/ c \in late /\ GiveUp(c) /\ Ends(c)
     \/ c \notin late /\ (Take(c) \/ Again(c)) /\ Gets(c) /\ Ends(c)
     \/ c \notin late /\ ~(Recursive /\ owner = GetId(c)) /\ Enqueue(c) /\ UNCHANGED kindVars

TrySection(c) ==
  /\ Runs(c) /\ at[c] = "trying"
  /\ \/ (Take(c) \/ Again(c)) /\ Gets(c) /\ UNCHANGED <<until, late>>
     \/ ~(Recursive /\ owner = GetId(c)) /\ TryFails(c) /\ UNCHANGED kindVars

MutUnlockSectionAll(c) ==
  UnlockBody(c) /\ count' = 0 /\ mine' = [mine EXCEPT ![c] = @ - 1]
                /\ UNCHANGED <<mode, until, late>>
(* unlock(): a recursive mutex is free when count_ is 0. *)
UnlockSection(c) ==
  /\ IF Recursive /\ count > 1
     THEN /\ Runs(c) /\ at[c] = "unlocking"
          /\ splk' = None
          /\ Goto(c, "held")
          /\ UNCHANGED <<mutexVars, notified, schedVars, failed>>
     ELSE UnlockBody(c)
  /\ count' = IF Recursive THEN count - 1 ELSE count
  /\ mine' = [mine EXCEPT ![c] = @ - 1]
  /\ UNCHANGED <<mode, until, late>>

-----------------------------------------------------------------------------
(* The end of a timed wait. *)

(* The scheduler makes ready a fiber whose deadline has passed. *)
Overdue(f) ==
  /\ failed = None
  /\ at[f] = "parked" /\ f \in late /\ fstate[f] = "WAITING"
  /\ fstate' = [fstate EXCEPT ![f] = "READY"]
  /\ UNCHANGED <<mutexVars, splk, at, notified, active, ready, failed, kindVars>>

(* It runs again and wait_until() returns false, notified or not. *)
ResumeLate(f) ==
  LET t == Home[f] IN
  /\ Runs(t)
  /\ at[t] \in {"idle", "held"} \/ (at[t] = "wait" /\ ~ready[t])
  /\ at[f] = "parked" /\ f \in late /\ fstate[f] = "READY"
  /\ fstate' = [fstate EXCEPT ![f] = "RUNNING"]
  /\ active' = [active EXCEPT ![t] = f]
  /\ Goto(f, "expired")
  /\ UNCHANGED <<mutexVars, splk, notified, ready, failed, kindVars>>
ResumeKind(f) == (at[f] = "parked" => f \notin late) /\ Resume(f) /\ UNCHANGED kindVars

(* A main context looks at its main_fiber, then at the clock. *)
MainExpires(t) ==
  /\ Runs(t)
  /\ at[t] = "wait" /\ t \in late /\ ~ready[t]
  /\ Goto(t, "expired")
  /\ UNCHANGED <<mutexVars, splk, notified, schedVars, failed, kindVars>>

(* lk.lock() finds splk_ taken: it yields, unless a notification that came *)
(* late has made it ready.                                                 *)
SpinExpired(f) ==
  /\ Runs(f)
  /\ at[f] = "expired" /\ splk # None
  /\ IF fstate[f] # "RUNNING"
     THEN Abort("yield")
     ELSE YieldNow(f) /\ UNCHANGED <<mutexVars, splk, at, notified, failed>>
  /\ UNCHANGED kindVars

MutEraseNothing(c) ==
  /\ Runs(c)
  /\ at[c] = "expired" /\ splk = None
  /\ Goto(c, Back(c)) /\ Ends(c)
  /\ UNCHANGED <<mutexVars, splk, notified, schedVars, failed, mode, count, mine>>
(* waiting_.erase( find( n) ), undefined when unlock() took n out. *)
Find(s, c) == CHOOSE i \in 1..Len(s) : s[i] = c /\ \A j \in 1..(i - 1) : s[j] # c
Without(s, c) == [i \in 1..(Len(s) - 1) |-> IF i < Find(s, c) THEN s[i] ELSE s[i + 1]]
Erase(c) ==
  /\ Runs(c)
  /\ at[c] = "expired" /\ splk = None
  /\ IF c \notin Range(waiting)
     THEN Abort("erase") /\ UNCHANGED kindVars
     ELSE /\ waiting' = Without(waiting, c)
          /\ Goto(c, Back(c)) /\ Ends(c)
          /\ UNCHANGED <<state, owner, splk, notified, schedVars, failed, mode, count, mine>>

-----------------------------------------------------------------------------
Calls(c) == LockCall(c) \/ TryCall(c) \/ UntilCall(c)
Sections(c) == LockSection(c) \/ TrySection(c) \/ UnlockSection(c) \/ Erase(c)

MutexKind(c) == mode.kind = "mutex" /\ (Calls(c) \/ Sections(c))
TimedKind(c) == mode.kind = "timed_mutex" /\ (Calls(c) \/ Sections(c))
RecursiveKind(c) == mode.kind = "recursive_mutex" /\ (Calls(c) \/ Sections(c))
RecursiveTimedKind(c) == mode.kind = "recursive_timed_mutex" /\ (Calls(c) \/ Sections(c))

Shared(c) == (Acquire(c) \/ Refused(c) \/ Unlock(c) \/ Notify(c)) /\ UNCHANGED kindVars
FiberStep(f) ==
  \/ (Yield(f) \/ Spin(f) \/ Park(f)) /\ UNCHANGED kindVars
  \/ ResumeKind(f) \/ ResumeLate(f) \/ Overdue(f) \/ SpinExpired(f)

KindsNext ==
  \/ \E c \in mode.user : \/ MutexKind(c) \/ TimedKind(c) \/ RecursiveKind(c)
                          \/ RecursiveTimedKind(c) \/ Shared(c) \/ Pass(c)
  \/ \E f \in Fiber : FiberStep(f)
  \/ mode.rude /\ (\E f \in Interruptible : Interrupt(f)) /\ UNCHANGED kindVars
  \/ \E t \in Thread : MainExpires(t) \/ (MainWakes(t) /\ UNCHANGED kindVars)

KindsSpec == KindsInit /\ [][KindsNext]_allVars

(* A context inside a call goes on with it, a fiber outside one yields or  *)
(* calls again, and a thread runs every ready fiber in turn.               *)
GoesOn(c) ==
  \/ Sections(c) \/ (c \in Thread /\ MainExpires(c)) \/ (c \in Fiber /\ SpinExpired(c))
  \/ /\ \/ Acquire(c) \/ Refused(c) \/ Notify(c)
        \/ c \in Thread /\ MainWakes(c)
        \/ c \in Fiber /\ (Yield(c) \/ Spin(c) \/ Park(c))
     /\ UNCHANGED kindVars
KindsFairness ==
  /\ \A c \in Context : WF_allVars(GoesOn(c))
  /\ \A f \in Fiber : SF_allVars(ResumeKind(f) \/ ResumeLate(f))
FairKindsSpec == KindsSpec /\ KindsFairness

-----------------------------------------------------------------------------

Owning == {c \in Context : mine[c] > 0}

(* Every main context has the null id, so a recursive mutex is for one.    *)
OneMain ==
  \A m \in Mode : m.kind \in {"recursive_mutex", "recursive_timed_mutex"} =>
    \A t, u \in m.user \cap Thread : t = u

(* Whoever was told that it has the mutex, and has not unlocked it as      *)
(* often, is the only one, for all four kinds, whatever is interrupted or  *)
(* times out; state_, owner_ and count_ say so, under OneMain.              *)
OwnedByOne ==
  /\ \A c, d \in Owning : c = d
  /\ state = "LOCKED" <=> Owning # {}
  /\ \A c \in Owning : owner = GetId(c) /\ (Recursive => count = mine[c])
  /\ Owning = {} => owner = None /\ count = 0

(* Among fibers that are not interrupted, whom waiting_ or a pending       *)
(* set_ready() refers to is still inside its call, also when calls time    *)
(* out.                                                                    *)
WaitersCalling ==
  mode.user \subseteq Fiber /\ ~mode.rude =>
    \A c \in Range(waiting) \cup (Range(notified) \ {None}) :
      at[c] \in {"wait", "parked", "expired"}

(* The assertions on owner_ in lock(), try_lock() and unlock() hold in     *)
(* every use.  Among fibers that are not interrupted no other one fails    *)
(* either, except in a call that timed out after unlock() had taken its    *)
(* entry: in the yield() of its lk.lock(), or in its erase().              *)
OwnerAsserts == failed \notin {"owner", "unlock"}
KindsAsserts ==
  /\ OwnerAsserts
  /\ mode.user \subseteq Fiber /\ ~mode.rude /\ failed # None =>
       /\ Timed /\ failed \in {"yield", "erase"}
       /\ \E c \in late : at[c] = "expired" /\ c \notin Range(waiting)

(* Among fibers that are not interrupted, unlock() of a kind without       *)
(* deadlines does not leave the waiters of a free mutex asleep.            *)
WakeupsKept == mode.user \subseteq Fiber /\ ~mode.rude /\ ~Timed => NoLostWakeup

(* What mutexes.qbk says of every kind: a fiber blocked in lock() is       *)
(* suspended until the owner calls unlock(), so none sleeps while the      *)
(* mutex is free and nobody is on the way to it.                           *)
TimedWakeups ==
  mode.user \subseteq Fiber /\ ~mode.rude =>
    NoLostWakeup \/ \E c \in Context : at[c] = "expired"

(* Every kind implements an exclusive lock. *)
HolderOf == IF Owning = {} THEN None ELSE CHOOSE c \in Owning : TRUE
WantsOf == {c \in Context : /\ mine[c] = 0
                            /\ at[c] \in {"lock", "locking", "wait", "parked", "expired",
                                          "try", "trying"}}
KL == INSTANCE ExclusiveLock WITH holder <- HolderOf, wants <- WantsOf
KindsImplementLock == KL!TimedSpec

(* Among fibers that are not interrupted, a mutex or recursive_mutex that  *)
(* is free while somebody is inside lock() or try_lock() does not stay     *)
(* free.                                                                   *)
FreeIsTaken ==
  (/\ mode.user \subseteq Fiber /\ ~mode.rude /\ ~Timed
   /\ HolderOf = None /\ WantsOf # {}) ~> HolderOf # None

(* What lock(), try_lock() and unlock() do to a mutex, they do in Mutex:   *)
(* what is proved of Mutex holds for it here.                              *)
MutexSteps == [][mode.kind = "mutex" => Next]_vars
=============================================================================
