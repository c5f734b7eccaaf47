---------------------------- MODULE MutexProofs ----------------------------
(***************************************************************************)
(* Mutual exclusion and the wakeups of Mutex, for every set of threads and *)
(* fibers.  Then the four mutexes, for every client and every bound on     *)
(* count_: one owner at a time and, among fibers that nobody interrupts,   *)
(* who is in waiting_, what fails, and that no wakeup is lost.             *)
(***************************************************************************)
EXTENDS MutexKinds, TLAPS

USE ContextAssumption, KindsAssumption DEF Context

(* A step that changes neither state_ nor owner_ and in which nobody       *)
(* starts or stops to hold the mutex keeps mutual exclusion.               *)
LEMMA SameHolders ==
  ASSUME MutualExclusion, UNCHANGED <<state, owner>>, Holders' = Holders
  PROVE  MutualExclusion'
BY Zenon DEF MutualExclusion, GetId

LEMMA MoveHolders ==
  ASSUME TypeOK, NEW c \in Context, NEW p, Goto(c, p),
         p \in {"held", "unlock", "unlocking"} <=> at[c] \in {"held", "unlock", "unlocking"}
  PROVE  Holders' = Holders
BY Zenon DEF TypeOK, Goto, Holders

(* Types. *)
LEMMA TypeNext == TypeOK /\ [Next]_vars => TypeOK'
<1> SUFFICES ASSUME TypeOK, [Next]_vars PROVE TypeOK'
  BY Zenon
<1> USE DEF TypeOK, mutexVars, schedVars
<1>1. ASSUME NEW c \in Context, CallStep(c) PROVE TypeOK'
  <2>1. CASE Acquire(c)
    BY <2>1, Zenon DEF Acquire, Goto, Inside, Point
  <2>2. ASSUME Take(c) PROVE TypeOK'
    BY <2>2, Zenon DEF Take, Abort, Goto, GetId, Point
  <2>3. ASSUME Enqueue(c) PROVE TypeOK'
    <3>1. CASE UNCHANGED <<mutexVars, splk, at, notified, schedVars>>
      BY <3>1, Zenon
    <3>2. CASE waiting' = Append(waiting, c)
      <4>3. splk' \in Context \cup {None} /\ at' \in [Context -> Point]
        BY <2>3, <3>2, Zenon DEF Enqueue, Abort, Goto, Point
      <4> QED
        BY <4>3, <3>2, <2>3 DEF Enqueue, Abort
    <3> QED
      BY <2>3, <3>1, <3>2, Zenon DEF Enqueue, Abort
  <2>4. CASE LockBody(c)
    BY <2>2, <2>3, <2>4, Zenon DEF LockBody
  <2>5. CASE TryBody(c)
    BY <2>2, <2>5 DEF TryBody, TryFails, Goto, Point
  <2>6. CASE Refused(c)
    BY <2>6 DEF Refused, Abort, YieldNow, Goto, Point
  <2>7. CASE UnlockBody(c)
    BY <2>7 DEF UnlockBody, Goto, Point
  <2>8. CASE Notify(c)
    BY <2>8, Zenon DEF Notify, SetReady, Goto, Point
  <2> QED
    BY <1>1, <2>1, <2>4, <2>5, <2>6, <2>7, <2>8, Zenon DEF CallStep
<1>2. ASSUME NEW c \in Context, Unlock(c) PROVE TypeOK'
  BY <1>2, Zenon DEF Unlock, Abort, Goto, Point
<1>3. ASSUME NEW c \in Context, Lock(c) \/ TryLock(c) PROVE TypeOK'
  <2>2. ready' \in [Thread -> BOOLEAN]
    <3>1. ready' = ready \/ ready' = [ready EXCEPT ![c] = FALSE]
      BY <1>3, Zenon DEF Lock, TryLock
    <3> QED
      BY <3>1, Zenon
  <2> QED
    BY <2>2, <1>3 DEF Lock, TryLock, Goto, Point
<1>4. ASSUME NEW f \in Fiber, Yield(f) \/ Spin(f) PROVE TypeOK'
  BY <1>4 DEF Yield, Spin, Abort, YieldNow
<1>5. ASSUME NEW f \in Fiber, Park(f) PROVE TypeOK'
  BY <1>5, Zenon DEF Park, Goto, Point
<1>6. ASSUME NEW f \in Fiber, Resume(f) PROVE TypeOK'
  BY <1>6, Zenon DEF Resume, Point
<1>7. ASSUME NEW f \in Fiber, Interrupt(f) PROVE TypeOK'
  BY <1>7, Zenon DEF Interrupt
<1>8. ASSUME NEW t \in Thread, MainWakes(t) PROVE TypeOK'
  BY <1>8, Zenon DEF MainWakes, Goto, Point
<1>9. CASE UNCHANGED vars
  BY <1>9, Zenon DEF vars
<1> QED
  BY <1>1, <1>2, <1>3, <1>4, <1>5, <1>6, <1>7, <1>8, <1>9, Zenon DEF Next

-----------------------------------------------------------------------------
(* The steps that start and end the holding of the mutex. *)
LEMMA TakeHolder ==
  ASSUME TypeOK, MutualExclusion, NEW c \in Context, Take(c), failed = None
  PROVE  Holders = {} /\ Holders' = {c} /\ state' = "LOCKED" /\ owner' = GetId(c)
BY DEF Goto, Holders, TypeOK, Take, MutualExclusion

LEMMA UnlockHolder ==
  ASSUME TypeOK, MutualExclusion, NEW c \in Context, UnlockBody(c)
  PROVE  Holders = {c} /\ Holders' = {} /\ state' = "UNLOCKED" /\ owner' = None
BY DEF UnlockBody, Holders, MutualExclusion, Goto, TypeOK

(* Every other step leaves state_, owner_ and the holder alone. *)
LEMMA HolderNext ==
  ASSUME TypeOK, MutualExclusion, [Next]_vars
  PROVE  \/ \E c \in Context : Take(c) /\ failed = None /\ at[c] \in {"locking", "trying"}
         \/ \E c \in Context : UnlockBody(c)
         \/ UNCHANGED <<state, owner>> /\ Holders' = Holders
<1> DEFINE Same == UNCHANGED <<state, owner>> /\ Holders' = Holders
<1> USE DEF mutexVars
<1>a. ASSUME UNCHANGED <<state, owner, at>> PROVE Same
  BY <1>a, Zenon DEF Holders
<1>1. ASSUME NEW c \in Context, Acquire(c) PROVE Same
  BY <1>1, MoveHolders, Zenon DEF Acquire, Inside
<1>2. ASSUME NEW c \in Context, LockBody(c), ~ Take(c) PROVE Same
  <2>1. Enqueue(c) /\ at[c] = "locking"
    BY <1>2, Zenon DEF LockBody
  <2>2. CASE UNCHANGED <<mutexVars, at>>
    BY <2>2, <1>a, Zenon
  <2>3. CASE Goto(c, "wait") /\ UNCHANGED <<state, owner>>
    BY <2>1, <2>3, MoveHolders, Zenon
  <2> QED
    BY <2>1, <2>2, <2>3, Zenon DEF Enqueue, Abort
<1>3. ASSUME NEW c \in Context, TryBody(c), ~ Take(c) PROVE Same
  BY <1>3, MoveHolders, Zenon DEF TryBody, TryFails
<1>4. ASSUME NEW c \in Context, Refused(c) PROVE Same
  <2>1. CASE UNCHANGED <<mutexVars, at>>
    BY <2>1, <1>a, Zenon
  <2>2. CASE Goto(c, "idle") /\ UNCHANGED mutexVars
    BY <1>4, <2>2, MoveHolders, Zenon DEF Refused
  <2> QED
    BY <1>4, <2>1, <2>2, Zenon DEF Refused, Abort
<1>5. ASSUME NEW c \in Context, Notify(c) PROVE Same
  BY <1>5, MoveHolders, Zenon DEF Notify
<1>6. ASSUME NEW c \in Context, Unlock(c) PROVE Same
  <2>1. CASE UNCHANGED <<mutexVars, at>>
    BY <2>1, <1>a, Zenon
  <2>2. CASE Goto(c, "unlock") /\ UNCHANGED mutexVars
    BY <1>6, <2>2, MoveHolders, Zenon DEF Unlock
  <2> QED
    BY <1>6, <2>1, <2>2, Zenon DEF Unlock, Abort
<1>7. ASSUME NEW c \in Context, Lock(c) \/ TryLock(c) PROVE Same
  BY <1>7, MoveHolders, Zenon DEF Lock, TryLock
<1>8. ASSUME NEW f \in Fiber, Yield(f) \/ Spin(f) \/ Interrupt(f) PROVE Same
  BY <1>8, <1>a, Zenon DEF Yield, Spin, Interrupt, Abort
<1>9. ASSUME NEW f \in Fiber, Park(f) PROVE Same
  BY <1>9, MoveHolders, Zenon DEF Park
<1>10. ASSUME NEW f \in Fiber, Resume(f) PROVE Same
  BY <1>10, Zenon DEF Resume, Holders, TypeOK
<1>11. ASSUME NEW t \in Thread, MainWakes(t) PROVE Same
  BY <1>11, MoveHolders, Zenon DEF MainWakes
<1>12. CASE UNCHANGED vars
  BY <1>12, <1>a, Zenon DEF vars
<1>13. ASSUME NEW c \in Context, CallStep(c), ~ Take(c), ~ UnlockBody(c) PROVE Same
  BY <1>1, <1>2, <1>3, <1>4, <1>5, <1>13, Zenon DEF CallStep
<1>14. ASSUME NEW c \in Context, CallStep(c), Take(c), ~ UnlockBody(c)
       PROVE  Same \/ (failed = None /\ at[c] \in {"locking", "trying"})
  BY <1>1, <1>4, <1>5, <1>14, Zenon DEF CallStep, LockBody, TryBody, Runs
<1> QED
  BY <1>6, <1>7, <1>8, <1>9, <1>10, <1>11, <1>12, <1>13, <1>14, Zenon DEF Next

LEMMA ExclusionNext ==
  TypeOK /\ MutualExclusion /\ [Next]_vars => MutualExclusion'
<1> SUFFICES ASSUME TypeOK, MutualExclusion, [Next]_vars PROVE MutualExclusion'
  BY Zenon
<1> QED
  BY HolderNext, SameHolders, TakeHolder, UnlockHolder DEF MutualExclusion,
      GetId

(* The type invariant of the mutex and of its callers. *)
THEOREM TypeCorrect == Spec => []TypeOK
<1>1. Init => TypeOK
  BY DEF Init, TypeOK, Point
<1> QED
  BY <1>1, TypeNext, PTL DEF Spec

(* For every number of threads and fibers, whoever calls and whoever is    *)
(* interrupted: one context at a time is between the return of lock() and  *)
(* the release in unlock(), and state_ and owner_ tell.                    *)
THEOREM Exclusion == Spec => []MutualExclusion
<1>1. Init => MutualExclusion
  BY Zenon DEF Init, MutualExclusion, Holders
<1> QED
  BY <1>1, ExclusionNext, TypeCorrect, PTL DEF Spec

-----------------------------------------------------------------------------
(* Holder and Wants, the refinement mapping to ExclusiveLock. *)
LEMMA HolderIs ==
  /\ MutualExclusion => \A c \in Holders : Holder = c
  /\ Holders = {} => Holder = None
BY Zenon DEF MutualExclusion, Holder

LEMMA MoveWants ==
  ASSUME TypeOK, NEW c \in Context, NEW p, Goto(c, p)
  PROVE  Wants' = IF p \in {"lock", "locking", "wait", "parked", "try", "trying"}
                  THEN Wants \cup {c} ELSE Wants \ {c}
BY DEF TypeOK, Goto, Wants

(* A step that keeps the holders is a request, a refusal or a stutter. *)
LEMMA WantsNext ==
  ASSUME TypeOK, [Next]_vars
  PROVE  \/ Wants' = Wants
         \/ \E c \in Context : at[c] = "idle" /\ Wants' = Wants \cup {c}
         \/ \E c \in Context : /\ at[c] \in {"locking", "trying"} /\ state = "LOCKED"
                               /\ Wants' = Wants \ {c}
         \/ \E c \in Context : Take(c) /\ failed = None /\ at[c] \in {"locking", "trying"}
<1>a. ASSUME UNCHANGED at PROVE Wants' = Wants
  BY <1>a, Zenon DEF Wants
<1>1. ASSUME NEW c \in Context, Acquire(c) PROVE Wants' = Wants
  BY <1>1, MoveWants DEF Acquire, Inside, Wants
<1>2. ASSUME NEW c \in Context, LockBody(c), ~ Take(c) PROVE Wants' = Wants
  <2>1. Enqueue(c) /\ at[c] = "locking"
    BY <1>2, Zenon DEF LockBody
  <2>2. CASE Goto(c, "wait")
    BY <2>1, <2>2, MoveWants DEF Wants
  <2> QED
    BY <2>1, <2>2, <1>a, Zenon DEF Enqueue, Abort
<1>4. ASSUME NEW c \in Context, Refused(c) \/ Notify(c) \/ UnlockBody(c) \/ Unlock(c)
      PROVE  Wants' = Wants
  BY <1>4, <1>a, MoveWants DEF Refused, Notify, UnlockBody, Unlock, Abort, Wants
<1>5. ASSUME NEW c \in Context, Lock(c) \/ TryLock(c)
      PROVE  at[c] = "idle" /\ Wants' = Wants \cup {c}
  BY <1>5, MoveWants, Zenon DEF Lock, TryLock
<1>6. ASSUME NEW f \in Fiber, Yield(f) \/ Spin(f) \/ Interrupt(f) PROVE Wants' = Wants
  BY <1>6, <1>a, Zenon DEF Yield, Spin, Interrupt, Abort
<1>7. ASSUME NEW f \in Fiber, Park(f) PROVE Wants' = Wants
  BY <1>7, MoveWants DEF Park, Wants
<1>8. ASSUME NEW f \in Fiber, Resume(f) PROVE Wants' = Wants
  BY <1>8, Zenon DEF Resume, Wants, TypeOK
<1>9. ASSUME NEW t \in Thread, MainWakes(t) PROVE Wants' = Wants
  BY <1>9, MoveWants DEF MainWakes, Wants
<1>10. CASE UNCHANGED vars
  BY <1>10, <1>a, Zenon DEF vars
<1>11. ASSUME NEW c \in Context, CallStep(c), Take(c)
       PROVE  \/ Wants' = Wants
              \/ failed = None /\ at[c] \in {"locking", "trying"}
  BY <1>1, <1>4, <1>11, Zenon DEF CallStep, LockBody, TryBody, Runs
<1>12. ASSUME NEW c \in Context, CallStep(c), ~ Take(c)
       PROVE  \/ Wants' = Wants
              \/ at[c] = "trying" /\ state = "LOCKED" /\ Wants' = Wants \ {c}
  BY <1>1, <1>2, <1>4, <1>12, MoveWants, Zenon DEF CallStep, TryBody, TryFails
<1> QED
  BY <1>4, <1>5, <1>6, <1>7, <1>8, <1>9, <1>10, <1>11, <1>12, Zenon DEF Next

(* Every step of the mutex is a step of the lock or leaves it alone. *)
LEMMA LockStep ==
  TypeOK /\ MutualExclusion /\ MutualExclusion' /\ [Next]_vars => [EL!Next]_(EL!vars)
<1> SUFFICES ASSUME TypeOK, MutualExclusion, MutualExclusion', [Next]_vars
             PROVE  EL!Next \/ UNCHANGED <<Holder, Wants>>
  BY Zenon DEF EL!vars
<1>1. ASSUME NEW c \in Context, Take(c), failed = None, at[c] \in {"locking", "trying"}
      PROVE  EL!Grant(c)
  BY <1>1, TakeHolder, HolderIs, MoveWants DEF EL!Grant, Wants, Holder, Take,
      MutualExclusion
<1>2. ASSUME NEW c \in Context, UnlockBody(c) PROVE EL!Release(c)
  <2>2. Wants' = Wants
    BY <1>2, MoveWants DEF UnlockBody, Wants
  <2> QED
    BY <2>2, <1>2, UnlockHolder, HolderIs, Zenon DEF EL!Release, Holder
<1>3. ASSUME Holders' = Holders, ~ \E c \in Context : Take(c) /\ failed = None /\ at[c] \in {"locking", "trying"}
      PROVE  EL!Next \/ UNCHANGED <<Holder, Wants>>
  <2>1. Holder' = Holder
    BY <1>3 DEF Holder
  <2>2. ASSUME NEW c \in Context, at[c] = "idle", Wants' = Wants \cup {c}
        PROVE  EL!Request(c)
    BY <2>1, <2>2, HolderIs, Zenon DEF EL!Request, Wants, Holder, Holders
  <2> QED
    BY <1>3, <2>1, <2>2, WantsNext, HolderIs DEF EL!Next, EL!Refuse, Wants,
        MutualExclusion, Holders
<1> QED
  BY <1>1, <1>2, <1>3, HolderNext, Zenon DEF EL!Next

(* The mutex implements the abstract lock for every set of threads and     *)
(* fibers: only who called lock() or try_lock() gets it, only while it is  *)
(* free, and only unlock() by the holder frees it.                         *)
THEOREM LockImplementation == Spec => ImplementsLock
<1>1. Init => EL!Init
  BY DEF Init, EL!Init, Holder, Holders, Wants
<1> QED
  BY <1>1, LockStep, TypeCorrect, Exclusion, PTL DEF Spec, ImplementsLock, EL!Spec

-----------------------------------------------------------------------------
(* No wakeup is lost when fibers that nobody interrupts use the mutex. *)
Wakeups == AssertsHold /\ WaitersInv /\ RunningInv /\ NoLostWakeup

LEMMA RangeAppend ==
  ASSUME NEW S, NEW s \in Seq(S), NEW e \in S
  PROVE  /\ Range(Append(s, e)) = Range(s) \cup {e}
         /\ IsInjective(s) /\ e \notin Range(s) => IsInjective(Append(s, e))
<1> DEFINE t == Append(s, e)
<1>1. /\ Len(t) = Len(s) + 1 /\ DOMAIN t = 1..Len(s) + 1 /\ DOMAIN s = 1..Len(s)
      /\ Len(s) \in Nat /\ t[Len(s) + 1] = e /\ \A i \in 1..Len(s) : t[i] = s[i]
  OBVIOUS
<1> HIDE DEF t
<1>2. Range(t) = Range(s) \cup {e}
  <2>1. ASSUME NEW x \in Range(t) PROVE x \in Range(s) \cup {e}
    <3>1. PICK i \in 1..Len(s) + 1 : x = t[i]
      BY <1>1, Zenon DEF Range
    <3> QED
      BY <1>1, <3>1 DEF Range
  <2> QED
    BY <2>1, <1>1 DEF Range
<1> QED
  BY <1>1, <1>2 DEF IsInjective, t, Range

LEMMA RangeTail ==
  ASSUME NEW S, NEW s \in Seq(S), s # <<>>, IsInjective(s)
  PROVE  /\ Head(s) \in Range(s)
         /\ Range(Tail(s)) = Range(s) \ {Head(s)}
         /\ IsInjective(Tail(s))
<1> DEFINE t == Tail(s)
<1>1. /\ Len(s) \in Nat /\ Len(s) > 0 /\ DOMAIN s = 1..Len(s) /\ DOMAIN t = 1..Len(s) - 1
      /\ Head(s) = s[1] /\ \A i \in 1..Len(s) - 1 : t[i] = s[i + 1]
  OBVIOUS
<1> HIDE DEF t
<1>2. Head(s) \in Range(s)
  BY <1>1 DEF Range
<1>3. ASSUME NEW x \in Range(t) PROVE x \in Range(s) \ {Head(s)}
  <2>1. PICK i \in 1..Len(s) - 1 : x = s[i + 1]
    BY <1>1, Zenon DEF Range
  <2> QED
    BY <1>1, <2>1 DEF Range, IsInjective
<1>4. ASSUME NEW x \in Range(s) \ {Head(s)} PROVE x \in Range(t)
  <2>1. PICK i \in 1..Len(s) : x = s[i]
    BY <1>1, Zenon DEF Range
  <2>2. i - 1 \in 1..Len(s) - 1 /\ t[i - 1] = x
    BY <1>1, <1>4, <2>1
  <2> QED
    BY <1>1, <2>2, Zenon DEF Range
<1> QED
  BY <1>1, <1>2, <1>3, <1>4 DEF IsInjective, t

-----------------------------------------------------------------------------
(* A context that moves in a call, neither blocks nor notifies, keeps the  *)
(* wakeups.                                                                *)
LEMMA QuietMove ==
  ASSUME TypeOK, Wakeups, NEW c \in Fiber, NEW p \in Point, Goto(c, p),
         at[c] \notin {"wait", "parked", "notify"}, p \notin {"wait", "parked"},
         \/ state' = "LOCKED"
         \/ state' = state /\ (at[c] \in {"lock", "locking"} => p \in {"lock", "locking"}),
         UNCHANGED <<waiting, notified, fstate, active, ready, failed>>
  PROVE  Wakeups'
<1>1. Blocked' = Blocked /\ c \notin Blocked /\ c \notin Thread
  BY Zenon DEF Blocked, Goto, TypeOK
<1>2. \A d \in Context : d # c => at'[d] = at[d]
  BY Zenon DEF Goto, TypeOK
<1>3. at'[c] = p
  BY Zenon DEF Goto, TypeOK
<1>5. RunningInv'
  BY <1>1, <1>2, <1>3 DEF Wakeups, RunningInv
<1>6. NoLostWakeup'
  BY <1>1, <1>2, <1>3, Zenon DEF Wakeups, NoLostWakeup
<1> QED
  BY <1>5, <1>6, <1>1, <1>2, Zenon DEF Wakeups, AssertsHold, WaitersInv, TypeOK

(* So does a fiber that yields outside lock(). *)
LEMMA YieldMove ==
  ASSUME TypeOK, Wakeups, NEW f \in Fiber, Runs(f), fstate[f] = "RUNNING",
         at[f] \notin {"wait", "parked", "notify"}, YieldNow(f),
         at' = at \/ (at[f] = "refused" /\ Goto(f, "idle")),
         UNCHANGED <<state, waiting, notified, failed>>
  PROVE  Wakeups'
<1>1. /\ Blocked' = Blocked /\ f \notin Blocked /\ f \notin Thread /\ Home[f] \in Thread
      /\ active[Home[f]] = f
  BY Zenon DEF Blocked, Goto, TypeOK, Runs
<1>2. \A d \in Context : d # f => at'[d] = at[d]
  BY Zenon DEF Goto, TypeOK
<1>3. /\ \A g \in Fiber : g # f => fstate'[g] = fstate[g]
      /\ \A t \in Thread : t # Home[f] => active'[t] = active[t]
      /\ active'[Home[f]] = None
  BY <1>1, Zenon DEF YieldNow, TypeOK
<1>4. at'[f] \notin {"wait", "parked"} /\ (at[f] \in {"lock", "locking"} => at'[f] = at[f])
  BY Zenon DEF Goto, TypeOK
<1>6. RunningInv'
  BY <1>1, <1>2, <1>3, <1>4 DEF Wakeups, RunningInv, TypeOK
<1>7. NoLostWakeup'
  BY <1>1, <1>2, <1>4, <1>3 DEF Wakeups, NoLostWakeup, YieldNow
<1> QED
  BY <1>6, <1>7, <1>1, <1>2, <1>3 DEF Wakeups, AssertsHold, WaitersInv, TypeOK,
      Blocked, YieldNow

-----------------------------------------------------------------------------
(* The steps in which contexts block, are notified and go on. *)
LEMMA EnqueueStep ==
  ASSUME TypeOK, Wakeups, NEW c \in Fiber, Runs(c), at[c] = "locking", Enqueue(c)
  PROVE  Wakeups'
<1>1. c \notin Blocked /\ c \notin Range(waiting) /\ fstate[c] = "RUNNING"
      /\ active[Home[c]] = c
  BY Zenon DEF Wakeups, WaitersInv, RunningInv, Runs, Blocked
<1>2. /\ waiting' = Append(waiting, c)
      /\ fstate' = [fstate EXCEPT ![c] = "WAITING"]
      /\ Goto(c, "wait")
      /\ UNCHANGED <<state, owner, notified, active, ready, failed>>
      /\ state = "LOCKED"
  BY <1>1, Zenon DEF Enqueue
<1>3. Blocked' = Blocked \cup {c} /\ \A d \in Context : d # c => at'[d] = at[d]
  BY <1>2 DEF Blocked, Goto, TypeOK
<1>4. /\ Range(waiting') = Range(waiting) \cup {c}
      /\ IsInjective(waiting')
  BY <1>1, <1>2, RangeAppend DEF TypeOK, Wakeups, WaitersInv
<1>5. fstate'[c] = "WAITING" /\ at'[c] = "wait"
      /\ \A f \in Fiber : f # c => fstate'[f] = fstate[f]
  BY <1>2, Zenon DEF Goto, TypeOK
<1>6. \A d \in Context : d \in Blocked => d \in Fiber
  BY Zenon DEF Wakeups, RunningInv, Blocked
<1>7. WaitersInv'
  <2>1. ASSUME NEW d \in Range(waiting') PROVE d \in Blocked' /\ fstate'[d] = "WAITING"
    BY <1>3, <1>4, <1>5, <1>6, Zenon DEF Wakeups, WaitersInv, Blocked
  <2>2. ASSUME NEW d \in Context, notified[d] # None
        PROVE  /\ at'[d] = "notify"
               /\ notified[d] \in Blocked' \ Range(waiting')
               /\ fstate'[notified[d]] = "WAITING"
               /\ \A e \in Context : notified[e] = notified[d] => e = d
    <3>1. /\ at[d] = "notify" /\ notified[d] \in Blocked \ Range(waiting)
          /\ fstate[notified[d]] = "WAITING"
          /\ \A e \in Context : notified[e] = notified[d] => e = d
      BY <2>2, Zenon DEF Wakeups, WaitersInv
    <3>2. notified[d] # c /\ notified[d] \in Fiber /\ d # c
      BY <1>1, <1>6, <3>1, Zenon DEF Blocked
    <3> QED
      BY <1>3, <1>4, <1>5, <3>1, <3>2, Zenon
  <2> QED
    BY <1>2, <1>4, <2>1, <2>2, Zenon DEF WaitersInv
<1>8. RunningInv'
  BY <1>1, <1>2, <1>3, <1>5 DEF Wakeups, RunningInv
<1>9. NoLostWakeup'
  BY <1>2, <1>3, <1>4, <1>5, <1>6 DEF Wakeups, NoLostWakeup
<1> QED
  BY <1>2, <1>7, <1>8, <1>9, Zenon DEF Wakeups, AssertsHold

LEMMA ParkStep ==
  ASSUME TypeOK, Wakeups, NEW f \in Fiber, Park(f)
  PROVE  Wakeups'
<1>1. Blocked' = Blocked /\ at'[f] = "parked" /\ \A d \in Context : d # f => at'[d] = at[d]
  BY Zenon DEF Blocked, Park, Goto, TypeOK
<1>2. active'[Home[f]] = None /\ active[Home[f]] = f
      /\ \A t \in Thread : t # Home[f] => active'[t] = active[t]
  BY Zenon DEF Park, TypeOK, Runs
<1>3. UNCHANGED <<state, waiting, notified, fstate, ready, failed>> /\ at[f] = "wait"
  BY Zenon DEF Park, mutexVars
<1>5. RunningInv'
  BY <1>1, <1>2, <1>3 DEF Wakeups, RunningInv
<1>6. NoLostWakeup'
  BY <1>1, <1>3, Zenon DEF Wakeups, NoLostWakeup
<1> QED
  BY <1>3, <1>5, <1>6, <1>1, Zenon DEF Wakeups, AssertsHold, WaitersInv, TypeOK

LEMMA ResumeStep ==
  ASSUME TypeOK, Wakeups, NEW f \in Fiber, Resume(f)
  PROVE  Wakeups'
<1>1. /\ active[Home[f]] = None /\ fstate[f] = "READY" /\ Home[f] \in Thread
      /\ fstate' = [fstate EXCEPT ![f] = "RUNNING"]
      /\ active' = [active EXCEPT ![Home[f]] = f]
      /\ UNCHANGED <<state, waiting, notified, ready, failed>>
  BY Zenon DEF Resume, Runs, mutexVars
<1>2. at[f] # "wait"
  BY <1>1, Zenon DEF Wakeups, RunningInv
<1>3. /\ \A d \in Context : d # f => at'[d] = at[d]
      /\ at'[f] = IF at[f] = "parked" THEN "lock" ELSE at[f]
  BY Zenon DEF Resume, TypeOK
<1>4. /\ fstate'[f] = "RUNNING" /\ \A g \in Fiber : g # f => fstate'[g] = fstate[g]
      /\ active'[Home[f]] = f /\ \A t \in Thread : t # Home[f] => active'[t] = active[t]
  BY <1>1, Zenon DEF TypeOK
<1>5. Blocked' = Blocked \ {f}
  BY <1>2, <1>3, Zenon DEF Blocked
<1>6. f \notin Range(waiting) /\ \A d \in Context : notified[d] # f
  BY <1>1, Zenon DEF Wakeups, WaitersInv
<1>7. \A d \in Context : d \in Blocked => d \in Fiber
  BY Zenon DEF Wakeups, RunningInv, Blocked
<1>8. WaitersInv'
  <2>1. ASSUME NEW d \in Range(waiting) PROVE d \in Blocked' /\ fstate'[d] = "WAITING"
    BY <1>4, <1>5, <1>6, <1>7, Zenon DEF Wakeups, WaitersInv, Blocked
  <2>2. ASSUME NEW d \in Context, notified[d] # None
        PROVE  /\ at'[d] = "notify"
               /\ notified[d] \in Blocked' \ Range(waiting)
               /\ fstate'[notified[d]] = "WAITING"
               /\ \A e \in Context : notified[e] = notified[d] => e = d
    <3>1. /\ at[d] = "notify" /\ notified[d] \in Blocked \ Range(waiting)
          /\ fstate[notified[d]] = "WAITING" /\ notified[d] \in Context
          /\ \A e \in Context : notified[e] = notified[d] => e = d
      BY <2>2 DEF Wakeups, WaitersInv, TypeOK
    <3>2. at'[d] = "notify"
      BY <1>3, <3>1, Zenon
    <3> QED
      BY <1>4, <1>5, <1>6, <1>7, <3>1, <3>2, Zenon
  <2> QED
    BY <1>1, <2>1, <2>2, Zenon DEF Wakeups, WaitersInv
<1>9. RunningInv'
  BY <1>1, <1>2, <1>3, <1>4 DEF Wakeups, RunningInv
<1>10. NoLostWakeup'
  <2>1. ASSUME NEW d \in Context, at[d] \in {"notify", "lock", "locking"}
        PROVE  at'[d] = at[d]
    BY <1>3, <2>1, Zenon
  <2>3. ASSUME NEW d \in Blocked'
        PROVE  \/ d \in Range(waiting)
               \/ \E e \in Context : at'[e] = "notify" /\ notified[e] = d
               \/ IF d \in Fiber THEN fstate'[d] = "READY" ELSE ready[d]
    BY <1>4, <1>5, <1>7, <2>1 DEF Wakeups, NoLostWakeup, Blocked
  <2>4. ASSUME state = "UNLOCKED", waiting # <<>>
        PROVE  \E d \in Context : \/ at'[d] \in {"lock", "locking"}
                                  \/ d \in Blocked' \ Range(waiting)
    BY <1>5, <2>1, <2>4, <1>2, <1>3, Zenon DEF Wakeups, NoLostWakeup, Blocked
  <2> QED
    BY <1>1, <2>3, <2>4, Zenon DEF NoLostWakeup
<1> QED
  BY <1>1, <1>8, <1>9, <1>10, Zenon DEF Wakeups, AssertsHold

LEMMA UnlockBodyStep ==
  ASSUME TypeOK, Wakeups, NEW c \in Fiber, UnlockBody(c)
  PROVE  Wakeups'
<1> DEFINE n == IF waiting = <<>> THEN None ELSE Head(waiting)
<1>1. /\ at[c] = "unlocking" /\ notified' = [notified EXCEPT ![c] = n]
      /\ Goto(c, "notify") /\ UNCHANGED <<fstate, active, ready, failed>>
  BY Zenon DEF UnlockBody, schedVars
<1>2. Blocked' = Blocked /\ at'[c] = "notify" /\ \A d \in Context : d # c => at'[d] = at[d]
  BY <1>1, Zenon DEF Blocked, Goto, TypeOK
<1>3. /\ n # None => n \in Range(waiting)
      /\ Range(waiting') = Range(waiting) \ {n}
      /\ IsInjective(waiting')
      /\ waiting' # <<>> => n # None
  <2>1. CASE waiting = <<>>
    BY <2>1 DEF UnlockBody, Range, IsInjective
  <2>2. CASE waiting # <<>>
    BY <2>2, RangeTail DEF UnlockBody, TypeOK, Wakeups, WaitersInv
  <2> QED
    BY <2>1, <2>2, Zenon
<1>4. notified'[c] = n /\ \A d \in Context : d # c => notified'[d] = notified[d]
  BY <1>1, Zenon DEF TypeOK
<1> HIDE DEF n
<1>5. n # None => n \in Blocked \ Range(waiting') /\ fstate[n] = "WAITING"
  BY <1>3, Zenon DEF Wakeups, WaitersInv
<1>6. \A d \in Context : d # c /\ notified[d] # None =>
        /\ at[d] = "notify" /\ notified[d] \in Blocked \ Range(waiting)
        /\ fstate[notified[d]] = "WAITING"
        /\ \A e \in Context : notified[e] = notified[d] => e = d
  BY Zenon DEF Wakeups, WaitersInv
<1>7. WaitersInv'
  <2>2. ASSUME NEW d \in Context, notified'[d] # None
        PROVE  /\ at'[d] = "notify"
               /\ notified'[d] \in Blocked \ Range(waiting')
               /\ fstate[notified'[d]] = "WAITING"
    BY <1>2, <1>3, <1>4, <1>5, <1>6, <2>2, Zenon
  <2>3. ASSUME NEW d \in Context, notified'[d] # None, NEW e \in Context,
               notified'[e] = notified'[d]
        PROVE  e = d
    BY <1>3, <1>4, <1>6, <2>3
  <2> QED
    BY <1>1, <1>2, <1>3, <2>2, <2>3, Zenon DEF WaitersInv, Wakeups
<1>9. NoLostWakeup'
  <2>2. ASSUME NEW d \in Blocked
        PROVE  \/ d \in Range(waiting')
               \/ \E e \in Context : at'[e] = "notify" /\ notified'[e] = d
               \/ IF d \in Fiber THEN fstate[d] = "READY" ELSE ready[d]
    <3>1. CASE d = n
      BY <1>2, <1>4, <3>1, Zenon
    <3>2. CASE d # n
      BY <1>3, <3>2, <1>1, <1>2, <1>4 DEF Wakeups, NoLostWakeup
    <3> QED
      BY <3>1, <3>2, Zenon
  <2> QED
    BY <1>1, <1>2, <2>2, <1>3, <1>5, Zenon DEF NoLostWakeup, Blocked
<1> QED
  BY <1>1, <1>7, <1>9, <1>2 DEF Wakeups, AssertsHold, RunningInv

LEMMA NotifyStep ==
  ASSUME TypeOK, Wakeups, NEW c \in Fiber, Notify(c)
  PROVE  Wakeups'
<1> DEFINE n == notified[c]
<1>1. /\ at[c] = "notify" /\ SetReady(n) /\ notified' = [notified EXCEPT ![c] = None]
      /\ Goto(c, "idle") /\ UNCHANGED <<state, waiting, active, failed>>
      /\ active[Home[c]] = c
  BY Zenon DEF Notify, mutexVars, Runs
<1>2. Blocked' = Blocked /\ at'[c] = "idle" /\ \A d \in Context : d # c => at'[d] = at[d]
  BY <1>1, Zenon DEF Blocked, Goto, TypeOK
<1>3. notified'[c] = None /\ \A d \in Context : d # c => notified'[d] = notified[d]
  BY <1>1, Zenon DEF TypeOK
<1>4. \A d \in Context : d \in Blocked => d \in Fiber
  BY Zenon DEF Wakeups, RunningInv, Blocked
<1>5. n # None => /\ n \in Blocked /\ n \in Fiber /\ n \notin Range(waiting)
                  /\ \A d \in Context : d # c => notified[d] # n
  BY <1>4, Zenon DEF Wakeups, WaitersInv, Blocked
<1>6. /\ ready' = ready
      /\ n # None => fstate'[n] = "READY"
      /\ \A f \in Fiber : f # n => fstate'[f] = fstate[f]
      /\ n = None => fstate' = fstate
  BY <1>1, <1>5, Zenon DEF SetReady, TypeOK
<1> HIDE DEF n
<1>7. WaitersInv'
  <2>1. ASSUME NEW d \in Range(waiting) PROVE d \in Blocked /\ fstate'[d] = "WAITING"
    BY <1>4, <1>5, <1>6, Zenon DEF Wakeups, WaitersInv, Blocked
  <2>2. ASSUME NEW d \in Context, notified'[d] # None
        PROVE  /\ at'[d] = "notify"
               /\ notified'[d] \in Blocked \ Range(waiting)
               /\ fstate'[notified'[d]] = "WAITING"
               /\ \A e \in Context : notified'[e] = notified'[d] => e = d
    <3>1. d # c /\ notified'[d] = notified[d]
      BY <1>3, <2>2, Zenon
    <3>2. /\ at[d] = "notify" /\ notified[d] \in Blocked \ Range(waiting)
          /\ fstate[notified[d]] = "WAITING" /\ notified[d] \in Context
          /\ \A e \in Context : notified[e] = notified[d] => e = d
      BY <2>2, <3>1 DEF Wakeups, WaitersInv, TypeOK
    <3>3. fstate'[notified[d]] = "WAITING"
      BY <1>4, <1>5, <1>6, <3>1, <3>2, Zenon
    <3> QED
      BY <1>2, <1>3, <2>2, <3>1, <3>2, <3>3, Zenon
  <2> QED
    BY <1>1, <1>2, <2>1, <2>2, Zenon DEF Wakeups, WaitersInv
<1>8. RunningInv'
  BY <1>1, <1>2, <1>5, <1>6 DEF Wakeups, RunningInv, Blocked
<1>9. NoLostWakeup'
  <2>1. ASSUME NEW d \in Blocked
        PROVE  \/ d \in Range(waiting)
               \/ \E e \in Context : at'[e] = "notify" /\ notified'[e] = d
               \/ IF d \in Fiber THEN fstate'[d] = "READY" ELSE ready'[d]
    <3>1. d \in Context /\ d # None
      BY Zenon DEF Blocked
    <3>2. CASE d = n
      BY <1>5, <1>6, <3>1, <3>2, Zenon
    <3>3. CASE d # n
      <4>1. \/ d \in Range(waiting)
            \/ \E e \in Context : e # c /\ at[e] = "notify" /\ notified[e] = d
            \/ fstate[d] = "READY"
        BY <1>4, <3>1, <3>3, Zenon DEF Wakeups, NoLostWakeup, n
      <4> QED
        BY <1>2, <1>3, <1>4, <1>6, <3>1, <3>3, <4>1, Zenon
    <3> QED
      BY <3>2, <3>3, Zenon
  <2> QED
    BY <1>1, <1>2, <2>1, Zenon DEF Wakeups, NoLostWakeup
<1> QED
  BY <1>1, <1>7, <1>8, <1>9, Zenon DEF Wakeups, AssertsHold

-----------------------------------------------------------------------------
LEMMA WakeupsNext ==
  FibersOnly /\ TypeOK /\ MutualExclusion /\ Wakeups /\ [Next]_vars => Wakeups'
<1> SUFFICES ASSUME FibersOnly, TypeOK, MutualExclusion, Wakeups, [Next]_vars
             PROVE  Wakeups'
  BY Zenon
<1> USE DEF mutexVars, schedVars
<1>1. ASSUME NEW c \in Context, at[c] # "idle" PROVE c \in Fiber
  BY <1>1, Zenon DEF Wakeups, RunningInv
<1>2. ASSUME NEW f \in Fiber, Runs(f), at[f] # "wait" PROVE fstate[f] = "RUNNING"
  BY <1>2, Zenon DEF Wakeups, RunningInv, Runs
<1>3. ASSUME NEW c \in Context, Acquire(c) PROVE Wakeups'
  BY <1>3, QuietMove, <1>1, Zenon DEF Acquire, Inside, Point
<1>4. ASSUME NEW c \in Context, Take(c), failed = None, at[c] \in {"locking", "trying"}
      PROVE  Wakeups'
  BY <1>4, QuietMove, <1>1, Zenon DEF Take, MutualExclusion, Point
<1>5. ASSUME NEW c \in Context, LockBody(c) PROVE Wakeups'
  BY <1>1, <1>4, <1>5, EnqueueStep, Zenon DEF LockBody, Runs
<1>6. ASSUME NEW c \in Context, TryBody(c) PROVE Wakeups'
  <2>2. CASE TryFails(c)
    BY <1>6, <2>2, QuietMove, <1>1, Zenon DEF TryBody, TryFails, Point
  <2> QED
    BY <1>4, <1>6, <2>2, Zenon DEF TryBody, Runs
<1>7. ASSUME NEW c \in Context, Refused(c) PROVE Wakeups'
  BY <1>7, YieldMove, <1>1, <1>2, Zenon DEF Refused
<1>8. ASSUME NEW c \in Context, UnlockBody(c) PROVE Wakeups'
  BY <1>1, <1>8, UnlockBodyStep, Zenon DEF UnlockBody
<1>9. ASSUME NEW c \in Context, Notify(c) PROVE Wakeups'
  BY <1>1, <1>9, NotifyStep, Zenon DEF Notify
<1>10. ASSUME NEW c \in Context, Unlock(c) PROVE Wakeups'
  BY <1>10, QuietMove, <1>1, Zenon DEF Unlock, MutualExclusion, Holders, Point
<1>11. ASSUME NEW c \in Caller, Lock(c) \/ TryLock(c) PROVE Wakeups'
  <2>2. PICK p \in {"lock", "try"} : Goto(c, p)
    BY <1>11, Zenon DEF Lock, TryLock
  <2> QED
    BY <2>2, QuietMove, <1>11, Zenon DEF Lock, TryLock, FibersOnly, Point
<1>12. ASSUME NEW f \in Fiber, Yield(f) \/ Spin(f) PROVE Wakeups'
  BY <1>12, YieldMove, <1>2, Zenon DEF Yield, Spin
<1>13. ASSUME NEW t \in Thread PROVE ~ MainWakes(t)
  BY Zenon DEF MainWakes, Wakeups, RunningInv
<1>14. CASE UNCHANGED vars
  BY <1>14 DEF vars, Wakeups, AssertsHold, WaitersInv, RunningInv, NoLostWakeup, Blocked
<1> QED
  BY <1>3, <1>5, <1>6, <1>7, <1>8, <1>9, <1>10, <1>11, <1>12, <1>13, <1>14, ParkStep,
      ResumeStep, Zenon DEF Next, CallStep, FibersOnly

(* WakeupInv is what TLC checks; for every set of threads and fibers it    *)
(* holds when fibers only, none of them interrupted, use the mutex.        *)
THEOREM WakeupInvariant == ASSUME FibersOnly PROVE Spec => []WakeupInv
<1>1. Init => Wakeups
  BY DEF Init, Wakeups, AssertsHold, WaitersInv, RunningInv, NoLostWakeup, Blocked, Range,
         IsInjective
<1>4. TypeOK /\ MutualExclusion /\ Wakeups => WakeupInv
  BY Zenon DEF WakeupInv, Wakeups
<1>5. TypeOK /\ MutualExclusion /\ Wakeups /\ [Next]_vars => Wakeups'
  BY WakeupsNext, Zenon
<1> QED
  BY <1>1, <1>4, <1>5, TypeCorrect, Exclusion, PTL DEF Spec

(* No wakeup is lost: whoever is blocked in lock() is in waiting_ or has a *)
(* notification under way, and a free mutex with waiters has a successor.  *)
THEOREM WakeupsNotLost == ASSUME FibersOnly PROVE Spec => []NoLostWakeup
<1>1. WakeupInv => NoLostWakeup
  BY Zenon DEF WakeupInv
<1> QED
  BY <1>1, WakeupInvariant, PTL

(* Only contexts that are blocked in lock() are notified. *)
THEOREM NotifiedAreBlocked == ASSUME FibersOnly PROVE Spec => []NotifiesBlocked
<1>1. WakeupInv => NotifiesBlocked
  BY Zenon DEF WakeupInv, WaitersInv, NotifiesBlocked
<1> QED
  BY <1>1, WakeupInvariant, PTL

(* No assertion of lock(), try_lock(), unlock(), wait() or yield() fails. *)
THEOREM NoAssertFails == ASSUME FibersOnly PROVE Spec => []AssertsHold
<1>1. WakeupInv => AssertsHold
  BY Zenon DEF WakeupInv
<1> QED
  BY <1>1, WakeupInvariant, PTL

(* Nor do those of ~mutex() once every call returned and nobody holds it. *)
THEOREM NoDestructorAssertFails == ASSUME FibersOnly PROVE Spec => []DestructorAsserts
<1>1. ASSUME WakeupInv, \A c \in Context : at[c] = "idle"
      PROVE  owner = None /\ waiting = <<>>
  <2>1. Holders = {} /\ Blocked = {}
    BY <1>1, Zenon DEF Holders, Blocked
  <2>3. waiting \in Seq(Context) /\ Range(waiting) = {}
    BY <1>1, <2>1, Zenon DEF WakeupInv, WaitersInv, TypeOK
  <2>4. waiting = <<>>
    <3>1. ASSUME waiting # <<>> PROVE 1 \in DOMAIN waiting
      BY <2>3, <3>1
    <3> QED
      BY <2>3, <3>1 DEF Range
  <2> QED
    BY <2>4, <1>1, <2>1, Zenon DEF WakeupInv, MutualExclusion, TypeOK
<1>2. WakeupInv => DestructorAsserts
  BY <1>1, Zenon DEF DestructorAsserts
<1> QED
  BY <1>2, WakeupInvariant, PTL
-----------------------------------------------------------------------------
(* The four mutexes. *)

Hold == {"held", "unlock", "unlocking"}
Asking == {"lock", "locking", "try", "trying"}

(* What a place p tells of how often a context has the mutex. *)
Fits(c, p) ==
  /\ p \in Hold => mine[c] > 0
  /\ mine[c] > 0 => p \in Hold \/ (Recursive /\ p \in Asking)

KindsInv ==
  /\ state \in {"LOCKED", "UNLOCKED"}
  /\ at \in [Context -> Point \cup {"expired"}]
  /\ count \in Nat /\ mine \in [Context -> Nat]
  /\ mode \in Mode
  /\ \A c \in Context : Fits(c, at[c])
  /\ Owning \subseteq mode.user
  /\ ~Recursive => count = 0 /\ \A c \in Context : mine[c] <= 1
  /\ OwnedByOne

(* A step that only moves a context keeps the invariant. *)
LEMMA KeepInv ==
  ASSUME KindsInv, UNCHANGED <<state, owner, count, mine, mode>>,
         NEW c \in Context, NEW p \in Point \cup {"expired"}, Goto(c, p), Fits(c, p)
  PROVE  KindsInv'
<1>1. Recursive' = Recursive /\ Owning' = Owning
  BY Zenon DEF Recursive, Owning
<1>3. \A d \in Context : Fits(d, at[d])'
  <2> TAKE d \in Context
  <2> QED
    BY <1>1, Zenon DEF Fits, KindsInv, Goto
<1> QED
  BY <1>1, <1>3, Zenon DEF KindsInv, Goto, OwnedByOne, GetId

LEMMA SameInv ==
  ASSUME KindsInv, UNCHANGED <<state, owner, at, count, mine, mode>>
  PROVE  KindsInv'
BY Zenon DEF KindsInv, Fits, OwnedByOne, GetId, Recursive, Owning

(* Under OneMain a recursive mutex knows its owner by its id. *)
LEMMA OwnerKnown ==
  ASSUME OneMain, KindsInv, Recursive, state = "LOCKED",
         NEW c \in mode.user, owner = GetId(c)
  PROVE  Owning = {c}
<1>1. PICK d \in Owning : owner = GetId(d)
  BY Zenon DEF KindsInv, OwnedByOne
<1>2. d \in mode.user /\ mode \in Mode /\ d \in Context /\ c \in Context
  BY <1>1, Zenon DEF KindsInv, Owning
<1>3. c \in Fiber <=> d \in Fiber
  BY <1>1, <1>2, Zenon DEF GetId
<1>4. c = d
  <2>1. CASE c \in Fiber
    BY <1>1, <1>3, <2>1, Zenon DEF GetId
  <2>2. CASE c \notin Fiber
    BY <1>2, <1>3, <2>2, Zenon DEF OneMain, Recursive
  <2> QED
    BY <2>1, <2>2, Zenon
<1> QED
  BY <1>1, <1>4 DEF KindsInv, OwnedByOne

(* A context gets the mutex, the first time or again. *)
LEMMA GetsInv ==
  ASSUME OneMain, KindsInv, NEW c \in mode.user, Take(c) \/ Again(c), Gets(c)
  PROVE  /\ KindsInv'
         /\ Owning' = {c} /\ Owning \subseteq {c}
         /\ Goto(c, "held") /\ UNCHANGED failed
<1>0. c \in Context /\ mode' = mode /\ Recursive' = Recursive
  BY Zenon DEF Gets, Recursive, KindsInv
<1>1. /\ Owning \subseteq {c} /\ Goto(c, "held") /\ UNCHANGED failed
      /\ state' = "LOCKED" /\ owner' = GetId(c)
      /\ Recursive => count = mine[c]
      /\ ~Recursive => mine[c] = 0
  <2>1. CASE Take(c)
    BY <2>1, <1>0 DEF Take, Owning, KindsInv, OwnedByOne
  <2>2. CASE Again(c)
    BY <2>2, OwnerKnown DEF Again, mutexVars, KindsInv, OwnedByOne
  <2> QED
    BY <2>1, <2>2, Zenon
<1>2. /\ mine' \in [Context -> Nat] /\ mine'[c] = mine[c] + 1
      /\ \A d \in Context \ {c} : mine'[d] = mine[d]
  BY <1>0 DEF Gets, KindsInv
<1>3. Owning' = {c}
  BY <1>0, <1>1, <1>2 DEF Owning, KindsInv
<1>4. count' \in Nat /\ (Recursive => count' = mine'[c]) /\ (~Recursive => count' = 0)
  BY <1>0, <1>1, <1>2, Zenon DEF Gets, KindsInv
<1>5. OwnedByOne'
  BY <1>0, <1>1, <1>3, <1>4, Zenon DEF OwnedByOne, GetId
<1>6. \A d \in Context : Fits(d, at[d])'
  <2> TAKE d \in Context
  <2>1. CASE d = c
    BY <1>0, <1>1, <1>2, <1>3, <2>1, Zenon DEF Fits, Goto, KindsInv, Hold, Owning
  <2>2. CASE d # c
    BY <1>0, <1>1, <1>2, <2>2, Zenon DEF Fits, Goto, KindsInv
  <2> QED
    BY <2>1, <2>2, Zenon
<1>7. ~Recursive => \A d \in Context : mine'[d] <= 1
  BY <1>0, <1>1, <1>2 DEF KindsInv
<1>8. at' \in [Context -> Point \cup {"expired"}]
  BY <1>0, <1>1, Zenon DEF KindsInv, Goto, Point
<1> QED
  BY <1>0, <1>1, <1>2, <1>3, <1>4, <1>5, <1>6, <1>7, <1>8, Zenon DEF KindsInv

(* unlock() by the owner gives back one count, and the mutex with the last. *)
LEMMA UnlockInv ==
  ASSUME KindsInv, NEW c \in Context, UnlockSection(c)
  PROVE  /\ KindsInv'
         /\ Owning = {c} /\ Owning' \subseteq {c} /\ UNCHANGED failed
         /\ Owning' = {} => Goto(c, "notify")
         /\ Owning' # {} => Goto(c, "held")
<1>0. mode' = mode /\ Recursive' = Recursive
  BY Zenon DEF UnlockSection, Recursive
<1>2. mine[c] > 0 /\ Owning = {c} /\ owner = GetId(c) /\ (Recursive => count = mine[c])
  BY DEF KindsInv, Fits, Hold, OwnedByOne, Owning, UnlockSection, UnlockBody
<1>3. /\ mine' \in [Context -> Nat] /\ mine'[c] = mine[c] - 1
      /\ \A d \in Context \ {c} : mine'[d] = mine[d]
  BY <1>2 DEF UnlockSection, KindsInv
<1>4. \A d \in Context \ {c} : mine[d] = 0
  BY <1>2 DEF Owning, KindsInv
<1>6. count' \in Nat /\ (Recursive => count' = mine'[c]) /\ (~Recursive => count' = 0)
  BY <1>2, <1>3, Zenon DEF UnlockSection, KindsInv
<1>7. CASE Recursive /\ count > 1
  <2>1. Goto(c, "held") /\ UNCHANGED <<state, owner, failed>>
    BY <1>7, Zenon DEF UnlockSection, mutexVars
  <2>2. mine'[c] > 0
    BY <1>2, <1>3, <1>7 DEF KindsInv
  <2>3. Owning' = {c}
    BY <1>3, <1>4, <2>2 DEF Owning
  <2>4. OwnedByOne'
    BY <1>0, <1>2, <1>6, <2>1, <2>3, Zenon DEF OwnedByOne, GetId, KindsInv
  <2>5. \A d \in Context : Fits(d, at[d])'
    <3> TAKE d \in Context
    <3>1. CASE d = c
      BY <2>1, <2>2, <3>1, Zenon DEF Fits, Goto, KindsInv, Hold
    <3>2. CASE d # c
      BY <1>0, <1>3, <2>1, <3>2, Zenon DEF Fits, Goto, KindsInv
    <3> QED
      BY <3>1, <3>2, Zenon
  <2>6. at' \in [Context -> Point \cup {"expired"}]
    BY <2>1, Zenon DEF KindsInv, Goto, Point
  <2> QED
    BY <1>0, <1>2, <1>3, <1>6, <1>7, <2>1, <2>3, <2>4, <2>5, <2>6, Zenon DEF KindsInv
<1>8. CASE ~(Recursive /\ count > 1)
  <2>1. Goto(c, "notify") /\ state' = "UNLOCKED" /\ owner' = None /\ UNCHANGED failed
    BY <1>8, Zenon DEF UnlockSection, UnlockBody
  <2>2. mine'[c] = 0
    BY <1>2, <1>3, <1>8 DEF KindsInv
  <2>3. Owning' = {}
    BY <1>3, <1>4, <2>2 DEF Owning
  <2>4. OwnedByOne'
    BY <1>0, <1>6, <2>1, <2>2, <2>3, Zenon DEF OwnedByOne
  <2>5. \A d \in Context : Fits(d, at[d])'
    <3> TAKE d \in Context
    <3>1. CASE d = c
      BY <2>1, <2>2, <3>1 DEF Fits, Goto, KindsInv, Hold
    <3>2. CASE d # c
      BY <1>0, <1>3, <2>1, <3>2, Zenon DEF Fits, Goto, KindsInv
    <3> QED
      BY <3>1, <3>2, Zenon
  <2>6. at' \in [Context -> Point \cup {"expired"}]
    BY <2>1, Zenon DEF KindsInv, Goto, Point
  <2>7. \A d \in Context : mine'[d] <= 1
    BY <1>3, <1>4, <2>2
  <2> QED
    BY <1>0, <1>2, <1>3, <1>6, <2>1, <2>3, <2>4, <2>5, <2>6, <2>7, Zenon DEF KindsInv
<1> QED
  BY <1>7, <1>8, Zenon

-----------------------------------------------------------------------------
(* All other steps move one context at most, to a place that fits. *)
Moves ==
  /\ UNCHANGED <<state, owner, count, mine, mode>>
  /\ failed' = failed \/ failed' \notin {"owner", "unlock"}
  /\ \/ at' = at
     \/ \E c \in Context, p \in Point \cup {"expired"} : Goto(c, p) /\ Fits(c, p)

LEMMA MoveTo ==
  ASSUME UNCHANGED <<state, owner, count, mine, mode, failed>>,
         NEW c \in Context, NEW p \in Point \cup {"expired"}, Goto(c, p), Fits(c, p)
  PROVE  Moves
BY Zenon DEF Moves

LEMMA Aborts ==
  ASSUME NEW a \in {"yield", "waiting", "wait", "erase"}, Abort(a), UNCHANGED <<count, mine, mode>>
  PROVE  Moves
BY Zenon DEF Moves, Abort, mutexVars

(* Who enters waiting_ or is refused does not have the mutex. *)
LEMMA NotOwning ==
  ASSUME KindsInv, NEW c \in Context, at[c] \in {"locking", "trying"},
         ~(Recursive /\ owner = GetId(c))
  PROVE  mine[c] = 0
BY DEF KindsInv, Fits, Hold, OwnedByOne, Owning

LEMMA StartMoves ==
  ASSUME KindsInv, NEW c \in Context, NEW p \in {"lock", "try"}, Starts(c, p),
         UNCHANGED <<count, mine, mode>>
  PROVE  Moves
BY MoveTo, Zenon DEF Starts, mutexVars, Point, KindsInv, Fits, Hold, Asking

LEMMA EnqueueMoves ==
  ASSUME KindsInv, NEW c \in Context, at[c] = "locking", Enqueue(c),
         ~(Recursive /\ owner = GetId(c)), UNCHANGED kindVars
  PROVE  Moves
<1>3. UNCHANGED <<count, mine, mode>>
  BY Zenon DEF kindVars
<1>4. CASE Abort("waiting") \/ Abort("wait")
  BY <1>3, <1>4, Aborts, Zenon
<1>5. CASE ~(Abort("waiting") \/ Abort("wait"))
  BY <1>3, MoveTo, NotOwning, <1>5 DEF Point, Fits, Hold, Enqueue
<1> QED
  BY <1>4, <1>5, Zenon

LEMMA GiveUpMoves ==
  ASSUME KindsInv, NEW c \in Context, at[c] \in {"locking", "expired"}, Goto(c, Back(c)),
         UNCHANGED <<state, owner, count, mine, mode, failed>>
  PROVE  Moves
BY MoveTo, Zenon DEF Fits, Back, Hold, Point, KindsInv

(* The sections with splk_ held. *)
LEMMA SectionSteps ==
  ASSUME KindsInv, NEW c \in Context, Sections(c)
  PROVE  \/ at[c] \in {"locking", "trying"} /\ (Take(c) \/ Again(c)) /\ Gets(c)
         \/ UnlockSection(c)
         \/ Moves
<1>1. CASE LockSection(c)
  <2>1. CASE GiveUp(c)
    BY <1>1, <2>1, GiveUpMoves, Zenon DEF LockSection, GiveUp, mutexVars
  <2>2. CASE Enqueue(c) /\ ~(Recursive /\ owner = GetId(c)) /\ UNCHANGED kindVars
    BY <1>1, <2>2, EnqueueMoves, Zenon DEF LockSection
  <2> QED
    BY <1>1, <2>1, <2>2, Zenon DEF LockSection
<1>2. CASE TrySection(c)
  <2>1. CASE TryFails(c) /\ ~(Recursive /\ owner = GetId(c)) /\ UNCHANGED kindVars
    BY <2>1, MoveTo, <1>2, NotOwning DEF TryFails, mutexVars, kindVars, Point,
        Fits, Hold, TrySection
  <2> QED
    BY <1>2, <2>1, Zenon DEF TrySection
<1>3. CASE Erase(c)
  <2>1. CASE Abort("erase") /\ UNCHANGED kindVars
    BY <2>1, Aborts, Zenon DEF kindVars
  <2>2. CASE ~(Abort("erase") /\ UNCHANGED kindVars)
    BY <1>3, <2>2, GiveUpMoves, Zenon DEF Erase
  <2> QED
    BY <2>1, <2>2, Zenon
<1> QED
  BY <1>1, <1>2, <1>3, Zenon DEF Sections

(* The steps that all kinds share. *)
LEMMA SharedSteps ==
  ASSUME KindsInv, NEW c \in Context, Shared(c)
  PROVE  Moves
<1>0. UNCHANGED <<count, mine, mode>>
  BY Zenon DEF Shared, kindVars
<1>1. CASE Acquire(c)
  <2>1. Fits(c, Inside(at[c])) /\ Inside(at[c]) \in Point
    BY <1>1, Zenon DEF Acquire, KindsInv, Fits, Inside, Hold, Asking, Point
  <2> QED
    BY <1>0, <1>1, <2>1, MoveTo, Zenon DEF Acquire, mutexVars
<1>2. CASE Refused(c)
  <2>1. CASE Abort("yield")
    BY <1>0, <2>1, Aborts, Zenon
  <2>2. CASE ~Abort("yield")
    BY <1>0, MoveTo, <1>2, <2>2, Zenon DEF Point, KindsInv, Fits, Hold, Asking, Refused,
        mutexVars
  <2> QED
    BY <2>1, <2>2, Zenon
<1>3. CASE Unlock(c)
  <2>1. at[c] = "held" /\ mine[c] > 0
    BY <1>3, Zenon DEF Unlock, KindsInv, Fits, Hold
  <2>4. Fits(c, "unlock")
    BY <2>1, Zenon DEF Fits, Hold
  <2> QED
    BY <1>0, <2>4, MoveTo, <1>3, <2>1, Zenon DEF Point, Unlock, mutexVars, KindsInv,
        OwnedByOne, Owning
<1>4. CASE Notify(c)
  BY <1>0, <1>4, MoveTo, Zenon DEF Notify, mutexVars, Point, KindsInv, Fits, Hold,
      Asking
<1> QED
  BY <1>1, <1>2, <1>3, <1>4, Zenon DEF Shared

(* The steps of the schedulers, of interrupt() and of the clock. *)
LEMMA FiberSteps ==
  ASSUME KindsInv, NEW f \in Fiber, FiberStep(f)
  PROVE  Moves
<1> USE DEF mutexVars, kindVars
<1>1. CASE (Yield(f) \/ Spin(f)) /\ UNCHANGED kindVars
  <2>1. CASE Abort("yield")
    BY <1>1, <2>1, Aborts, Zenon
  <2>2. CASE ~Abort("yield")
    BY <1>1, <2>2, Zenon DEF Yield, Spin, Moves
  <2> QED
    BY <2>1, <2>2, Zenon
<1>2. CASE Park(f) /\ UNCHANGED kindVars
  BY <1>2, MoveTo, Zenon DEF Park, Point, KindsInv, Fits, Hold, Asking
<1>3. CASE ResumeKind(f)
  <2>1. CASE at[f] = "parked"
    <3>1. Goto(f, "lock")
      BY <1>3, <2>1, Zenon DEF ResumeKind, Resume, Goto
    <3> QED
      BY <1>3, <3>1, MoveTo, <2>1, Zenon DEF ResumeKind, Resume, Point, KindsInv, Fits,
          Hold, Asking
  <2>2. CASE at[f] # "parked"
    BY <1>3, <2>2, Zenon DEF ResumeKind, Resume, Moves
  <2> QED
    BY <2>1, <2>2, Zenon
<1>4. CASE ResumeLate(f)
  BY <1>4, MoveTo, Zenon DEF ResumeLate, KindsInv, Fits, Hold, Asking
<1>5. CASE Overdue(f)
  BY <1>5, Zenon DEF Overdue, Moves
<1>6. CASE SpinExpired(f)
  <2>1. CASE Abort("yield")
    BY <1>6, <2>1, Aborts, Zenon DEF SpinExpired
  <2>2. CASE ~Abort("yield")
    BY <1>6, <2>2, Zenon DEF SpinExpired, Moves
  <2> QED
    BY <2>1, <2>2, Zenon
<1> QED
  BY <1>1, <1>2, <1>3, <1>4, <1>5, <1>6, Zenon DEF FiberStep

LEMMA MainSteps ==
  ASSUME KindsInv, NEW t \in Thread, MainExpires(t) \/ (MainWakes(t) /\ UNCHANGED kindVars)
  PROVE  Moves
<1>1. /\ at[t] = "wait" /\ UNCHANGED <<state, owner, count, mine, mode, failed>>
      /\ \E p \in {"expired", "lock"} : Goto(t, p)
  BY Zenon DEF MainExpires, MainWakes, mutexVars, kindVars
<1>2. PICK p \in {"expired", "lock"} : Goto(t, p)
  BY <1>1, Zenon
<1> QED
  BY <1>1, <1>2, MoveTo, Zenon DEF Point, KindsInv, Fits, Hold, Asking

(* Every step gets the mutex, gives it back, or moves a context. *)
LEMMA KindsSteps ==
  ASSUME KindsInv, [KindsNext]_allVars
  PROVE  \/ \E c \in mode.user : /\ at[c] \in {"locking", "trying"}
                                 /\ Take(c) \/ Again(c)
                                 /\ Gets(c)
         \/ \E c \in mode.user : UnlockSection(c)
         \/ Moves
<1>0. mode.user \subseteq Context
  BY Zenon DEF KindsInv
<1>1. ASSUME NEW c \in mode.user, Calls(c) PROVE Moves
  BY <1>0, StartMoves, <1>1, Zenon DEF Calls, LockCall, TryCall, UntilCall, kindVars
<1>2. ASSUME NEW c \in mode.user, Pass(c) PROVE Moves
  BY <1>2, Zenon DEF Pass, vars, Moves
<1>3. ASSUME NEW f \in Interruptible, Interrupt(f), UNCHANGED kindVars PROVE Moves
  BY <1>3, Zenon DEF Interrupt, mutexVars, kindVars, Moves
<1>4. CASE UNCHANGED allVars
  BY <1>4, Zenon DEF allVars, vars, kindVars, Moves
<1>5. ASSUME NEW c \in mode.user, Shared(c) PROVE Moves
  BY <1>0, <1>5, SharedSteps, Zenon
<1>6. ASSUME NEW c \in mode.user, Sections(c)
      PROVE  \/ at[c] \in {"locking", "trying"} /\ (Take(c) \/ Again(c)) /\ Gets(c)
             \/ UnlockSection(c)
             \/ Moves
  BY <1>0, <1>6, SectionSteps, Zenon
<1>7. ASSUME NEW c \in mode.user,
             MutexKind(c) \/ TimedKind(c) \/ RecursiveKind(c) \/ RecursiveTimedKind(c)
      PROVE  Calls(c) \/ Sections(c)
  BY <1>7, Zenon DEF MutexKind, TimedKind, RecursiveKind, RecursiveTimedKind
<1> QED
  BY <1>1, <1>2, <1>3, <1>4, <1>5, <1>6, <1>7, FiberSteps, MainSteps, Zenon DEF
      KindsNext

LEMMA KindsInvNext ==
  ASSUME OneMain, KindsInv, [KindsNext]_allVars
  PROVE  KindsInv' /\ (OwnerAsserts => OwnerAsserts')
<1>3. CASE Moves
  BY <1>3, KeepInv, SameInv, Zenon DEF OwnerAsserts, Moves
<1> QED
  BY <1>3, KindsSteps, GetsInv, UnlockInv, Zenon DEF OwnerAsserts, KindsInv

LEMMA KindsInvInit == KindsInit => KindsInv /\ OwnerAsserts
<1> SUFFICES ASSUME KindsInit PROVE KindsInv /\ OwnerAsserts
  BY Zenon
<1>1. Owning = {} /\ at \in [Context -> Point] /\ mine \in [Context -> Nat]
  BY DEF KindsInit, Init, Owning, Point
<1> QED
  BY <1>1 DEF KindsInv, KindsInit, Init, OwnerAsserts, Fits, Hold, OwnedByOne

(* The inductive invariant: where a context is tells whether it has the    *)
(* mutex, as often as count_ says, and nobody else has it.                 *)
THEOREM KindsInvariant == ASSUME OneMain PROVE KindsSpec => [](KindsInv /\ OwnerAsserts)
<1>1. OneMain /\ KindsInv /\ OwnerAsserts /\ [KindsNext]_allVars => (KindsInv /\ OwnerAsserts)'
  BY KindsInvNext, Zenon
<1>2. OneMain
  BY Zenon
<1> QED
  BY <1>1, <1>2, KindsInvInit, PTL DEF KindsSpec

(* For mutex, timed_mutex, recursive_mutex and recursive_timed_mutex,      *)
(* every set of contexts, every deadline and every interrupt: who was told *)
(* that it has the mutex is the only one until it unlocked it as often,    *)
(* and state_, owner_ and count_ say so.                                   *)
THEOREM OneOwner == ASSUME OneMain PROVE KindsSpec => []OwnedByOne
<1>1. KindsInv => OwnedByOne
  BY Zenon DEF KindsInv
<1> QED
  BY <1>1, KindsInvariant, PTL

(* The assertions on owner_ in lock(), try_lock() and unlock() never fail. *)
THEOREM OwnerAssertsHold == ASSUME OneMain PROVE KindsSpec => []OwnerAsserts
BY KindsInvariant, PTL

-----------------------------------------------------------------------------
(* The refinement mapping to ExclusiveLock. *)
LEMMA HolderOwns ==
  /\ Owning = {} => HolderOf = None
  /\ \A c : Owning = {c} => HolderOf = c
BY Zenon DEF HolderOf

(* A step that leaves the owner alone adds or drops one request at most. *)
LEMMA MoveStep ==
  ASSUME KindsInv, Moves
  PROVE  KL!Next \/ (\E c \in Context : KL!Expire(c)) \/ UNCHANGED <<HolderOf, WantsOf>>
<1>1. Owning' = Owning /\ HolderOf' = HolderOf /\ mine' = mine
  BY DEF Moves, Owning, HolderOf
<1>2. CASE at' = at
  BY <1>1, <1>2, Zenon DEF WantsOf
<1>3. ASSUME NEW c \in Context, NEW p, Goto(c, p)
      PROVE  KL!Next \/ (\E d \in Context : KL!Expire(d)) \/ UNCHANGED <<HolderOf, WantsOf>>
  <2>1. \A d \in Context \ {c} : d \in WantsOf' <=> d \in WantsOf
    BY <1>1, <1>3, Zenon DEF WantsOf, Goto, KindsInv
  <2>2. CASE c \in WantsOf /\ c \notin WantsOf'
    BY <1>1, <2>2, <2>1 DEF KL!Expire, HolderOf, WantsOf
  <2>3. CASE c \notin WantsOf /\ c \in WantsOf'
    BY <1>1, <2>3, <2>1 DEF KL!Next, KL!Request, HolderOf, WantsOf, Owning
  <2>4. CASE c \in WantsOf <=> c \in WantsOf'
    BY <1>1, <2>1, <2>4, Zenon DEF WantsOf
  <2> QED
    BY <2>2, <2>3, <2>4, Zenon
<1> QED
  BY <1>2, <1>3, Zenon DEF Moves

LEMMA GetsStep ==
  ASSUME OneMain, KindsInv, NEW c \in mode.user, at[c] \in {"locking", "trying"},
         Take(c) \/ Again(c), Gets(c)
  PROVE  KL!Grant(c) \/ UNCHANGED <<HolderOf, WantsOf>>
<1>1. c \in Context /\ Owning' = {c} /\ Owning \subseteq {c} /\ Goto(c, "held")
  BY GetsInv, Zenon DEF KindsInv
<1>3. WantsOf' = WantsOf \ {c}
  BY <1>1, Zenon DEF WantsOf, Gets, Goto, KindsInv
<1>4. HolderOf' = c
  BY <1>1, Zenon DEF HolderOf
<1>5. CASE Owning = {}
  BY <1>3, <1>4, <1>1, <1>5 DEF KL!Grant, WantsOf, HolderOf, Owning, KindsInv
<1>6. CASE Owning = {c}
  BY <1>3, <1>4, <1>6, HolderOwns DEF WantsOf, Owning
<1> QED
  BY <1>1, <1>5, <1>6, Zenon

LEMMA UnlockStep ==
  ASSUME KindsInv, NEW c \in Context, UnlockSection(c)
  PROVE  KL!Release(c) \/ UNCHANGED <<HolderOf, WantsOf>>
<1>1. /\ Owning = {c} /\ Owning' \subseteq {c}
      /\ Owning' = {} => Goto(c, "notify")
      /\ Owning' # {} => Goto(c, "held")
  BY UnlockInv, Zenon
<1>2. PICK p \in {"notify", "held"} : Goto(c, p)
  BY <1>1, Zenon
<1>5. WantsOf' = WantsOf
  BY <1>2, Zenon DEF WantsOf, UnlockSection, Goto, KindsInv, UnlockBody
<1>6. HolderOf = c
  BY <1>1, HolderOwns, Zenon
<1>7. CASE Owning' = {}
  BY <1>5, <1>6, <1>7, Zenon DEF KL!Release, HolderOf
<1>8. CASE Owning' = {c}
  BY <1>5, <1>6, <1>8, Zenon DEF HolderOf
<1> QED
  BY <1>1, <1>7, <1>8, Zenon

(* Each of the four mutexes implements the abstract lock with deadlines,   *)
(* for every set of contexts: who asked for it gets it only while nobody   *)
(* has it, and only the last unlock() of the owner gives it back.          *)
THEOREM KindsRefinement == ASSUME OneMain PROVE KindsSpec => KindsImplementLock
<1>1. KindsInit => KL!Init
  BY DEF KindsInit, Init, KL!Init, HolderOf, Owning, WantsOf
<1>2. OneMain /\ KindsInv /\ [KindsNext]_allVars
        => [KL!Next \/ \E c \in Context : KL!Expire(c)]_(KL!vars)
  <2> SUFFICES ASSUME OneMain, KindsInv, [KindsNext]_allVars
               PROVE  KL!Next \/ (\E c \in Context : KL!Expire(c)) \/ UNCHANGED <<HolderOf, WantsOf>>
    BY Zenon DEF KL!vars
  <2> QED
    BY KindsSteps, GetsStep, UnlockStep, MoveStep, Zenon DEF KL!Next, KindsInv
<1>3. OneMain
  BY Zenon
<1> QED
  BY <1>1, <1>2, <1>3, KindsInvariant, PTL DEF KindsSpec, KindsImplementLock, KL!TimedSpec

-----------------------------------------------------------------------------
(* The calls of fibers that nobody interrupts, with and without deadlines. *)
Alone == mode.user \subseteq Fiber /\ ~mode.rude

Parking == {"wait", "parked", "expired"}

(* Nothing but its deadline, after it suspended, has made the fiber ready. *)
Sleeps(c) == fstate[c] = "WAITING" \/ (c \in late /\ at[c] # "wait")

SchedTypes ==
  /\ owner \in Fiber \cup {None}
  /\ waiting \in Seq(Context)
  /\ splk \in Context \cup {None}
  /\ notified \in [Context -> Context \cup {None}]
  /\ fstate \in [Fiber -> {"READY", "RUNNING", "WAITING"}]
  /\ active \in [Thread -> Fiber \cup {None}]
  /\ ready \in [Thread -> BOOLEAN]

(* Only fibers call, and only a call whose deadline passed has expired. *)
LateInv ==
  /\ \A c \in Context : at[c] # "idle" => c \in Fiber
  /\ \A c \in Context : at[c] = "expired" => c \in late
  /\ late \subseteq until /\ (until # {} => Timed)

(* A fiber is in waiting_ or with one unlock(), once, and inside its call. *)
EntryInv ==
  /\ IsInjective(waiting)
  /\ \A c \in Range(waiting) : at[c] \in Parking /\ Sleeps(c)
  /\ \A d \in Context : notified[d] # None =>
       /\ at[d] = "notify"
       /\ at[notified[d]] \in Parking
       /\ notified[d] \notin Range(waiting)
       /\ Sleeps(notified[d])
       /\ \A e \in Context : notified[e] = notified[d] => e = d

(* The active fiber is in state RUNNING, unless it is about to suspend or  *)
(* a notification came after its deadline.                                 *)
ActiveInv ==
  /\ \A f \in Fiber : at[f] = "wait" => active[Home[f]] = f
  /\ \A f \in Fiber : at[f] = "parked" => active[Home[f]] # f
  /\ \A f \in Fiber : active[Home[f]] = f =>
       \/ fstate[f] = "RUNNING"
       \/ at[f] = "wait"
       \/ at[f] = "expired" /\ f \notin Range(waiting)

CallsInv == LateInv /\ EntryInv /\ ActiveInv

(* What is known of a fiber that runs, and of one in waiting_ or notified. *)
LEMMA FiberRuns ==
  ASSUME CallsInv, NEW f \in Fiber, Runs(f), at[f] \notin {"wait", "expired"}
  PROVE  fstate[f] = "RUNNING" /\ f \notin Range(waiting) /\ at[f] \notin Parking
BY Zenon DEF CallsInv, ActiveInv, EntryInv, Runs, Parking

LEMMA EntryKnown ==
  ASSUME SchedTypes, CallsInv
  PROVE  /\ \A c \in Range(waiting) : c \in Fiber /\ at[c] \in Parking /\ Sleeps(c)
         /\ \A d \in Context : notified[d] # None =>
              notified[d] \in Fiber /\ at[notified[d]] \in Parking /\ Sleeps(notified[d])
BY DEF SchedTypes, CallsInv, EntryInv, Range, LateInv, Parking

(* Steps of a fiber that is not waiting keep the calls of the others. *)
LateMove(c) ==
  /\ mode' = mode /\ late' \subseteq until' /\ (until' # {} => Timed)
  /\ late' \ {c} = late \ {c}

LEMMA CallMove ==
  ASSUME KindsInv, SchedTypes, CallsInv, NEW c \in Fiber, NEW p, Goto(c, p), LateMove(c),
         at[c] \notin Parking \cup {"notify"}, p \notin Parking,
         UNCHANGED <<waiting, notified, fstate, active>>
  PROVE  CallsInv'
<1>1. at'[c] = p /\ \A d \in Context : d # c => at'[d] = at[d]
  BY Zenon DEF Goto, KindsInv
<1>6. ActiveInv'
  BY <1>1, Zenon DEF CallsInv, ActiveInv, Parking
<1> QED
  BY <1>6, <1>1, EntryKnown DEF CallsInv, LateInv, LateMove, Parking, Timed,
      EntryInv, Sleeps

LEMMA CallYield ==
  ASSUME KindsInv, SchedTypes, CallsInv, NEW f \in Fiber, Runs(f), YieldNow(f),
         at[f] \notin {"wait", "parked", "notify"},
         at' = at \/ (at[f] = "refused" /\ Goto(f, "idle")),
         UNCHANGED <<waiting, notified, mode, until, late>>
  PROVE  CallsInv'
<1>1. /\ \A d \in Context : d # f => at'[d] = at[d]
      /\ at'[f] \notin {"wait", "parked", "notify"}
      /\ at[f] = "expired" <=> at'[f] = "expired"
      /\ at'[f] # at[f] => at[f] = "refused"
  BY Zenon DEF Goto, KindsInv
<1>2. /\ \A g \in Fiber : g # f => fstate'[g] = fstate[g]
      /\ \A t \in Thread : t # Home[f] => active'[t] = active[t]
      /\ active'[Home[f]] = None /\ active[Home[f]] = f
  BY Zenon DEF YieldNow, SchedTypes, Runs
<1> QED
  BY <1>1, EntryKnown, <1>2 DEF CallsInv, LateInv, Timed, EntryInv, Parking,
      Sleeps, ActiveInv

-----------------------------------------------------------------------------
(* What erase() leaves. *)
LEMMA WithoutRange ==
  ASSUME NEW S, NEW s \in Seq(S), IsInjective(s), NEW c \in Range(s)
  PROVE  /\ Without(s, c) \in Seq(S) /\ IsInjective(Without(s, c))
         /\ Range(Without(s, c)) = Range(s) \ {c}
<1> DEFINE p == Find(s, c)
           w == Without(s, c)
<1>1. DOMAIN s = 1..Len(s) /\ Len(s) \in Nat
  OBVIOUS
<1>2. p \in 1..Len(s) /\ s[p] = c
  <2>1. PICK i \in 1..Len(s) : s[i] = c
    BY <1>1, Zenon DEF Range
  <2> QED
    BY <2>1, <1>1 DEF Find, IsInjective
<1> HIDE DEF p
<1>3. w = [i \in 1..(Len(s) - 1) |-> IF i < p THEN s[i] ELSE s[i + 1]]
  BY Zenon DEF Without, p
<1> HIDE DEF w
<1>4. w \in Seq(S) /\ DOMAIN w = 1..(Len(s) - 1)
  BY <1>1, <1>2, <1>3
<1>5. \A i \in 1..(Len(s) - 1) : w[i] \in Range(s) \ {c}
  BY <1>1, <1>2, <1>3 DEF IsInjective, Range
<1>6. IsInjective(w)
  BY <1>1, <1>2, <1>3, <1>4 DEF IsInjective
<1>7. ASSUME NEW x \in Range(s) \ {c} PROVE x \in Range(w)
  <2>1. PICK i \in 1..Len(s) : s[i] = x
    BY <1>1, Zenon DEF Range
  <2>2. CASE i < p
    <3>1. i \in 1..(Len(s) - 1) /\ w[i] = x
      BY <1>1, <1>2, <1>3, <2>1, <2>2
    <3> QED
      BY <1>4, <3>1, Zenon DEF Range
  <2>3. CASE i > p
    <3>1. i - 1 \in 1..(Len(s) - 1) /\ w[i - 1] = x
      BY <1>1, <1>2, <1>3, <2>1, <2>3
    <3> QED
      BY <1>4, <3>1, Zenon DEF Range
  <2> QED
    BY <1>2, <2>1, <2>2, <2>3
<1>8. Range(w) = Range(s) \ {c}
  BY <1>4, <1>5, <1>7, Zenon DEF Range
<1> QED
  BY <1>4, <1>6, <1>8, Zenon DEF w

(* The steps in which a fiber blocks, suspends and goes on. *)
LEMMA CallEnqueue ==
  ASSUME KindsInv, SchedTypes, CallsInv, NEW c \in Fiber, Runs(c), at[c] = "locking",
         c \notin late, Enqueue(c), UNCHANGED kindVars
  PROVE  CallsInv' /\ UNCHANGED failed
<1>1. c \notin Range(waiting) /\ fstate[c] = "RUNNING" /\ active[Home[c]] = c
  BY FiberRuns, Zenon DEF Runs
<1>2. /\ waiting' = Append(waiting, c)
      /\ fstate' = [fstate EXCEPT ![c] = "WAITING"]
      /\ Goto(c, "wait")
      /\ UNCHANGED <<notified, active, failed, mode, until, late>>
  BY <1>1, Zenon DEF Enqueue, kindVars
<1>3. at'[c] = "wait" /\ \A d \in Context : d # c => at'[d] = at[d]
  BY <1>2, Zenon DEF Goto, KindsInv
<1>4. fstate'[c] = "WAITING" /\ \A f \in Fiber : f # c => fstate'[f] = fstate[f]
  BY <1>2, Zenon DEF SchedTypes
<1>5. Range(waiting') = Range(waiting) \cup {c} /\ IsInjective(waiting')
  BY <1>1, <1>2, RangeAppend DEF SchedTypes, CallsInv, EntryInv
<1>6. \A d \in Fiber : d # c /\ Sleeps(d) => Sleeps(d)'
  BY <1>2, <1>3, <1>4, Zenon DEF Sleeps
<1>8. EntryInv'
  <2>1. ASSUME NEW d \in Range(waiting') PROVE (at[d] \in Parking /\ Sleeps(d))'
    <3>1. CASE d = c
      BY <1>3, <1>4, <3>1, Zenon DEF Sleeps, Parking
    <3>2. CASE d # c
      BY <1>3, <1>5, <1>6, <3>2, EntryKnown, Zenon
    <3> QED
      BY <3>1, <3>2, Zenon
  <2>2. ASSUME NEW d \in Context, notified[d] # None
        PROVE  /\ at'[d] = "notify" /\ notified[d] # c
               /\ at'[notified[d]] \in Parking
               /\ Sleeps(notified[d])'
    <3>1. notified[d] # c /\ d # c
      BY <2>2, EntryKnown, Zenon DEF CallsInv, EntryInv, Parking
    <3> QED
      BY <1>2, <1>3, <1>6, <2>2, <3>1, EntryKnown, Zenon DEF CallsInv, EntryInv
  <2> QED
    BY <1>2, <1>5, <2>1, <2>2, Zenon DEF CallsInv, EntryInv, Parking
<1>9. ActiveInv'
  BY <1>1, <1>2, <1>3, <1>4, <1>5 DEF CallsInv, ActiveInv
<1> QED
  BY <1>2, <1>8, <1>9, <1>3, Zenon DEF CallsInv, LateInv, Timed

LEMMA CallPark ==
  ASSUME KindsInv, SchedTypes, CallsInv, NEW f \in Fiber, Park(f), UNCHANGED kindVars
  PROVE  CallsInv'
<1>1. at[f] = "wait" /\ at'[f] = "parked" /\ \A d \in Context : d # f => at'[d] = at[d]
  BY Zenon DEF Park, Goto, KindsInv
<1>2. active'[Home[f]] = None /\ active[Home[f]] = f
      /\ \A t \in Thread : t # Home[f] => active'[t] = active[t]
  BY Zenon DEF Park, SchedTypes, Runs
<1>3. UNCHANGED <<waiting, notified, fstate, mode, until, late>>
  BY Zenon DEF Park, mutexVars, kindVars
<1> QED
  BY <1>1, <1>3, <1>2, EntryKnown DEF CallsInv, LateInv, Timed, ActiveInv,
      EntryInv, Parking, Sleeps

(* The scheduler resumes a fiber, in time or late. *)
LEMMA CallResume ==
  ASSUME KindsInv, SchedTypes, CallsInv, NEW f \in Fiber, ResumeKind(f) \/ ResumeLate(f)
  PROVE  CallsInv'
<1>1. /\ active[Home[f]] = None /\ fstate[f] = "READY"
      /\ fstate' = [fstate EXCEPT ![f] = "RUNNING"]
      /\ active' = [active EXCEPT ![Home[f]] = f]
      /\ UNCHANGED <<waiting, notified, mode, until, late>>
  BY Zenon DEF ResumeKind, ResumeLate, Resume, Runs, mutexVars, kindVars
<1>2. at[f] # "wait"
  BY <1>1, Zenon DEF CallsInv, ActiveInv
<1>3. /\ \A d \in Context : d # f => at'[d] = at[d]
      /\ at'[f] = IF at[f] # "parked" THEN at[f] ELSE IF f \in late THEN "expired" ELSE "lock"
  BY Zenon DEF ResumeKind, ResumeLate, Resume, Goto, KindsInv
<1>4. /\ fstate'[f] = "RUNNING" /\ \A g \in Fiber : g # f => fstate'[g] = fstate[g]
      /\ active'[Home[f]] = f /\ \A t \in Thread : t # Home[f] => active'[t] = active[t]
  BY <1>1, Zenon DEF SchedTypes
<1> QED
  BY <1>1, <1>3, <1>2, <1>4, EntryKnown DEF CallsInv, LateInv, Timed, ActiveInv,
      EntryInv, Parking, Sleeps

(* A deadline passes, or the scheduler finds that it has. *)
LEMMA CallLate ==
  ASSUME KindsInv, SchedTypes, CallsInv, NEW c \in Context,
         (c \in Fiber /\ Overdue(c)) \/ Pass(c)
  PROVE  CallsInv'
<1>1. UNCHANGED <<at, waiting, notified, active, mode, until>> /\ late \subseteq late'
  BY Zenon DEF Overdue, Pass, vars, mutexVars, kindVars
<1>2. /\ late' \subseteq until
      /\ fstate' = fstate \/ (c \in late /\ at[c] = "parked" /\ late' = late
                              /\ fstate' = [fstate EXCEPT ![c] = "READY"])
  BY Zenon DEF Overdue, Pass, vars, kindVars, CallsInv, LateInv
<1> QED
  BY <1>1, <1>2, EntryKnown DEF CallsInv, LateInv, Timed, EntryInv, Sleeps,
      SchedTypes, ActiveInv

(* unlock() takes the first entry and makes it ready later. *)
LEMMA CallUnlock ==
  ASSUME KindsInv, SchedTypes, CallsInv, NEW c \in Fiber, UnlockBody(c),
         UNCHANGED <<mode, until, late>>
  PROVE  CallsInv'
<1> DEFINE n == IF waiting = <<>> THEN None ELSE Head(waiting)
<1>1. /\ at[c] = "unlocking" /\ notified' = [notified EXCEPT ![c] = n]
      /\ Goto(c, "notify") /\ UNCHANGED <<fstate, active>>
  BY Zenon DEF UnlockBody, schedVars
<1>2. at'[c] = "notify" /\ \A d \in Context : d # c => at'[d] = at[d]
  BY <1>1, Zenon DEF Goto, KindsInv
<1>3. /\ n # None => n \in Range(waiting)
      /\ Range(waiting') = Range(waiting) \ {n}
      /\ IsInjective(waiting')
  <2>1. CASE waiting = <<>>
    BY <2>1 DEF UnlockBody, Range, IsInjective
  <2>2. CASE waiting # <<>>
    BY <2>2, RangeTail, Zenon DEF UnlockBody, SchedTypes, CallsInv, EntryInv
  <2> QED
    BY <2>1, <2>2, Zenon
<1>4. notified'[c] = n /\ \A d \in Context : d # c => notified'[d] = notified[d]
  BY <1>1, Zenon DEF SchedTypes
<1> HIDE DEF n
<1>5. \A d \in Fiber : at[d] \in Parking /\ Sleeps(d) => (at[d] \in Parking /\ Sleeps(d))'
  BY <1>1, <1>2, Zenon DEF Sleeps, Parking
<1>6. \A d \in Context : d # c /\ notified[d] # None =>
        /\ at[d] = "notify" /\ notified[d] \notin Range(waiting)
        /\ \A e \in Context : notified[e] = notified[d] => e = d
  BY Zenon DEF CallsInv, EntryInv
<1>8. EntryInv'
  <2>2. ASSUME NEW d \in Context, notified'[d] # None
        PROVE  /\ at'[d] = "notify"
               /\ notified'[d] \notin Range(waiting')
               /\ (at[notified[d]] \in Parking /\ Sleeps(notified[d]))'
    <3>1. PICK g \in Fiber : g = notified'[d] /\ at[g] \in Parking /\ Sleeps(g)
      BY <1>3, <1>4, <2>2, EntryKnown, Zenon
    <3>3. at'[d] = "notify" /\ notified'[d] \notin Range(waiting')
      BY <1>2, <1>3, <1>4, <1>6, <2>2, Zenon
    <3> QED
      BY <3>1, <3>3, <1>5, Zenon
  <2>3. ASSUME NEW d \in Context, notified'[d] # None, NEW e \in Context,
               notified'[e] = notified'[d]
        PROVE  e = d
    BY <1>3, <1>4, <1>6, <2>3, Zenon
  <2> QED
    BY <1>3, <2>2, <2>3, <1>5, EntryKnown, Zenon DEF EntryInv
<1> QED
  BY <1>8, <1>2, <1>1, <1>3 DEF CallsInv, LateInv, Timed, ActiveInv

LEMMA CallNotify ==
  ASSUME KindsInv, SchedTypes, CallsInv, NEW c \in Fiber, Notify(c), UNCHANGED kindVars
  PROVE  CallsInv'
<1> DEFINE n == notified[c]
<1>1. /\ at[c] = "notify" /\ SetReady(n) /\ notified' = [notified EXCEPT ![c] = None]
      /\ Goto(c, "idle") /\ UNCHANGED <<waiting, active, mode, until, late>>
      /\ active[Home[c]] = c
  BY Zenon DEF Notify, mutexVars, Runs, kindVars
<1>2. at'[c] = "idle" /\ \A d \in Context : d # c => at'[d] = at[d]
  BY <1>1, Zenon DEF Goto, KindsInv
<1>3. notified'[c] = None /\ \A d \in Context : d # c => notified'[d] = notified[d]
  BY <1>1, Zenon DEF SchedTypes
<1>4. n # None => /\ n \in Fiber /\ n \notin Range(waiting) /\ at[n] \in Parking
                  /\ \A d \in Context : d # c => notified[d] # n
  BY EntryKnown, Zenon DEF CallsInv, EntryInv
<1>5. \A f \in Fiber : f # n => fstate'[f] = fstate[f]
  BY <1>1, Zenon DEF SetReady, SchedTypes
<1> HIDE DEF n
<1>6. \A d \in Fiber : d # n /\ at[d] \in Parking /\ Sleeps(d)
                         => (at[d] \in Parking /\ Sleeps(d))'
  BY <1>1, <1>2, <1>5, Zenon DEF Sleeps, Parking
<1>8. EntryInv'
  <2>2. ASSUME NEW d \in Context, notified'[d] # None
        PROVE  /\ at'[d] = "notify"
               /\ notified'[d] \notin Range(waiting)
               /\ (at[notified[d]] \in Parking /\ Sleeps(notified[d]))'
               /\ \A e \in Context : notified'[e] = notified'[d] => e = d
    <3>1. d # c /\ notified'[d] = notified[d]
      BY <1>3, <2>2, Zenon
    <3>2. /\ at[d] = "notify" /\ notified[d] \notin Range(waiting)
          /\ \A e \in Context : notified[e] = notified[d] => e = d
      BY <2>2, <3>1, Zenon DEF CallsInv, EntryInv
    <3>3. PICK g \in Fiber : g = notified[d] /\ at[g] \in Parking /\ Sleeps(g)
      BY <2>2, <3>1, EntryKnown, Zenon
    <3>4. (at[g] \in Parking /\ Sleeps(g))'
      BY <1>4, <1>6, <2>2, <3>1, <3>3, Zenon
    <3> QED
      BY <1>2, <1>3, <2>2, <3>1, <3>2, <3>3, <3>4, Zenon
  <2> QED
    BY <1>1, <2>2, <1>4, <1>6, EntryKnown DEF CallsInv, EntryInv
<1> QED
  BY <1>8, <1>1, <1>2, <1>4, <1>5 DEF CallsInv, LateInv, Timed, ActiveInv,
      Parking

(* A call whose deadline passed takes its entry out. *)
LEMMA CallErase ==
  ASSUME KindsInv, SchedTypes, CallsInv, NEW c \in Fiber, Erase(c), c \in Range(waiting)
  PROVE  CallsInv' /\ waiting' \in Seq(Context) /\ UNCHANGED failed
<1>1. /\ active[Home[c]] = c /\ at[c] = "expired"
      /\ waiting' = Without(waiting, c) /\ Goto(c, Back(c)) /\ Ends(c)
      /\ UNCHANGED <<notified, fstate, active, failed, mode>>
  BY Zenon DEF Erase, schedVars, Runs
<1>2. /\ at'[c] \in {"held", "idle"} /\ \A d \in Context : d # c => at'[d] = at[d]
  BY <1>1, Zenon DEF Goto, Back, KindsInv
<1>3. waiting' \in Seq(Context) /\ IsInjective(waiting') /\ Range(waiting') = Range(waiting) \ {c}
  BY <1>1, WithoutRange, Zenon DEF SchedTypes, CallsInv, EntryInv
<1>4. \A d \in Fiber : d # c /\ at[d] \in Parking /\ Sleeps(d)
                         => (at[d] \in Parking /\ Sleeps(d))'
  BY <1>1, <1>2, Zenon DEF Sleeps, Ends
<1>6. EntryInv'
  <2>2. ASSUME NEW d \in Context, notified[d] # None
        PROVE  /\ at'[d] = "notify"
               /\ (at[notified[d]] \in Parking /\ Sleeps(notified[d]))'
    <3>2. PICK g \in Fiber : g = notified[d] /\ at[g] \in Parking /\ Sleeps(g)
      BY <2>2, EntryKnown, Zenon
    <3> QED
      BY <1>1, <1>2, <3>2, <1>4, <2>2 DEF CallsInv, EntryInv
  <2> QED
    BY <1>1, <1>3, <2>2, <1>4, EntryKnown, Zenon DEF CallsInv, EntryInv
<1> QED
  BY <1>1, <1>3, <1>6, <1>2 DEF CallsInv, Ends, LateInv, Timed, ActiveInv

-----------------------------------------------------------------------------
(* What has failed is a call that timed out and lost its entry. *)
FailKnown ==
  failed # None =>
    /\ Timed /\ failed \in {"yield", "erase"}
    /\ \E c \in late : at[c] = "expired" /\ c \notin Range(waiting)

CallsKept == CallsInv' /\ FailKnown'

LEMMA LostEntry ==
  ASSUME KindsInv, CallsInv, NEW c \in Fiber, at[c] = "expired", c \notin Range(waiting),
         Abort("yield") \/ Abort("erase"), UNCHANGED kindVars
  PROVE  CallsKept
<1>1. UNCHANGED <<waiting, at, notified, fstate, active, mode, until, late>>
      /\ failed' \in {"yield", "erase"}
  BY Zenon DEF Abort, mutexVars, schedVars, kindVars
<1>4. FailKnown'
  BY <1>1, Zenon DEF FailKnown, Timed, CallsInv, LateInv
<1> QED
  BY <1>4, <1>1, Zenon DEF CallsKept, CallsInv, LateInv, EntryInv, ActiveInv, Sleeps,
      Timed

LEMMA QuietKept ==
  ASSUME KindsInv, SchedTypes, CallsInv, failed = None, NEW c \in Fiber, NEW p, Goto(c, p),
         LateMove(c), at[c] \notin Parking \cup {"notify"}, p \notin Parking,
         UNCHANGED <<waiting, notified, schedVars, failed>>
  PROVE  CallsKept
BY CallMove, Zenon DEF CallsKept, FailKnown, schedVars

LEMMA NoLateMove ==
  ASSUME CallsInv, NEW c, mode' = mode,
         UNCHANGED <<until, late>> \/ Ends(c) \/ (Timed /\ until' = until \cup {c} /\ late' = late)
  PROVE  LateMove(c)
BY Zenon DEF LateMove, CallsInv, LateInv, Ends

(* The owner of a free mutex is None, so taking it does not fail. *)
LEMMA TakeKept ==
  ASSUME KindsInv, SchedTypes, CallsInv, NEW c \in Fiber, Runs(c),
         at[c] \in {"locking", "trying"}, Take(c) \/ Again(c),
         mode' = mode, UNCHANGED <<until, late>> \/ Ends(c)
  PROVE  CallsKept
<1>2. Goto(c, "held") /\ UNCHANGED <<waiting, notified, schedVars, failed>>
  <2>1. CASE Take(c)
    BY <2>1, Zenon DEF Take, KindsInv, OwnedByOne
  <2>2. CASE Again(c)
    BY <2>2, Zenon DEF Again, mutexVars
  <2> QED
    BY <2>1, <2>2, Zenon
<1> QED
  BY <1>2, QuietKept, NoLateMove, Zenon DEF Parking, Runs

LEMMA SectionKept ==
  ASSUME KindsInv, SchedTypes, CallsInv, NEW c \in Fiber, Sections(c)
  PROVE  CallsKept
<1> USE DEF mutexVars, kindVars
<1>1. CASE LockSection(c)
  <2>1. Runs(c) /\ at[c] = "locking" /\ failed = None
    BY <1>1, Zenon DEF LockSection, Runs
  <2>2. CASE GiveUp(c) /\ Ends(c)
    BY <2>1, <2>2, QuietKept, NoLateMove, Zenon DEF GiveUp, Parking, Back
  <2>3. CASE (Take(c) \/ Again(c)) /\ Gets(c) /\ Ends(c)
    BY <2>1, <2>3, TakeKept, Zenon DEF Gets
  <2>4. CASE c \notin late /\ Enqueue(c) /\ UNCHANGED kindVars
    BY <2>1, <2>4, CallEnqueue, Zenon DEF CallsKept, FailKnown
  <2> QED
    BY <1>1, <2>2, <2>3, <2>4, Zenon DEF LockSection
<1>2. CASE TrySection(c)
  <2>1. Runs(c) /\ at[c] = "trying" /\ failed = None
    BY <1>2, Zenon DEF TrySection, Runs
  <2>2. CASE (Take(c) \/ Again(c)) /\ Gets(c) /\ UNCHANGED <<until, late>>
    BY <2>1, <2>2, TakeKept, Zenon DEF Gets
  <2>3. CASE TryFails(c) /\ UNCHANGED kindVars
    BY <2>1, <2>3, NoLateMove, QuietKept, Zenon DEF TryFails, Parking
  <2> QED
    BY <1>2, <2>2, <2>3, Zenon DEF TrySection
<1>3. CASE UnlockSection(c)
  <2>1. UNCHANGED <<mode, until, late>>
    BY <1>3, Zenon DEF UnlockSection
  <2>2. CASE Recursive /\ count > 1
    BY <2>1, NoLateMove, QuietKept, <1>3, <2>2, Zenon DEF Parking, UnlockSection, Runs
  <2>3. CASE UnlockBody(c)
    <3>1. failed = None /\ failed' = failed
      BY <2>3, Zenon DEF UnlockBody, Runs
    <3> QED
      BY <2>1, <2>3, <3>1, CallUnlock, Zenon DEF CallsKept, FailKnown
  <2> QED
    BY <1>3, <2>2, <2>3, Zenon DEF UnlockSection
<1>4. CASE Erase(c)
  <2>1. CASE c \in Range(waiting)
    BY <1>4, <2>1, CallErase, Zenon DEF CallsKept, FailKnown, Erase, Runs
  <2>2. CASE c \notin Range(waiting)
    BY <1>4, <2>2, LostEntry, Zenon DEF Erase
  <2> QED
    BY <2>1, <2>2, Zenon
<1> QED
  BY <1>1, <1>2, <1>3, <1>4, Zenon DEF Sections

LEMMA SharedKept ==
  ASSUME KindsInv, SchedTypes, CallsInv, NEW c \in Fiber, Calls(c) \/ Shared(c)
  PROVE  CallsKept
<1> USE DEF mutexVars, kindVars
<1>1. CASE Calls(c)
  <2>1. PICK p \in {"lock", "try"} : Starts(c, p)
    BY <1>1, Zenon DEF Calls, LockCall, TryCall, UntilCall
  <2>3. LateMove(c)
    BY <1>1, NoLateMove, Zenon DEF Calls, LockCall, TryCall, UntilCall
  <2> QED
    BY <2>3, QuietKept, <2>1, Zenon DEF Parking, Starts, Runs, schedVars
<1>2. CASE Shared(c)
  <2>1. UNCHANGED kindVars
    BY <1>2, Zenon DEF Shared
  <2>2. LateMove(c)
    BY <2>1, NoLateMove, Zenon
  <2>3. CASE Acquire(c)
    BY <2>2, <2>3, QuietKept, Zenon DEF Acquire, Parking, Inside, Runs
  <2>4. CASE Refused(c)
    BY <2>1, CallYield, <2>4, FiberRuns, Zenon DEF CallsKept, FailKnown, Refused, Runs
  <2>5. CASE Unlock(c)
    <3>1. at[c] = "held" /\ mine[c] > 0 /\ failed = None
      BY <2>5, Zenon DEF Unlock, KindsInv, Fits, Hold, Runs
    <3> QED
      BY <2>2, <3>1, QuietKept, <2>5, Zenon DEF Parking, Unlock, KindsInv, OwnedByOne,
          Owning
  <2>6. CASE Notify(c)
    <3>1. failed = None /\ failed' = failed
      BY <2>6, Zenon DEF Notify, Runs
    <3> QED
      BY <2>1, <2>6, <3>1, CallNotify, Zenon DEF CallsKept, FailKnown
  <2> QED
    BY <1>2, <2>3, <2>4, <2>5, <2>6, Zenon DEF Shared
<1> QED
  BY <1>1, <1>2, Zenon

LEMMA FiberKept ==
  ASSUME KindsInv, SchedTypes, CallsInv, NEW f \in Fiber, FiberStep(f)
  PROVE  CallsKept
<1> USE DEF mutexVars, kindVars
<1>1. CASE (Yield(f) \/ Spin(f)) /\ UNCHANGED kindVars
  BY <1>1, CallYield, FiberRuns, Zenon DEF CallsKept, FailKnown, Yield, Spin, Runs
<1>2. CASE Park(f) /\ UNCHANGED kindVars
  <2>1. failed = None /\ failed' = failed
    BY <1>2, Zenon DEF Park, Runs
  <2> QED
    BY <1>2, <2>1, CallPark, Zenon DEF CallsKept, FailKnown
<1>3. CASE ResumeKind(f) \/ ResumeLate(f)
  BY <1>3, CallResume, Zenon DEF CallsKept, FailKnown, ResumeKind, ResumeLate, Resume,
      Runs
<1>4. CASE Overdue(f)
  <2>1. failed = None /\ failed' = failed
    BY <1>4, Zenon DEF Overdue
  <2> QED
    BY <1>4, <2>1, CallLate, Zenon DEF CallsKept, FailKnown
<1>5. CASE SpinExpired(f)
  <2>1. Runs(f) /\ at[f] = "expired" /\ failed = None /\ UNCHANGED kindVars
    BY <1>5, Zenon DEF SpinExpired, Runs
  <2>2. CASE fstate[f] = "RUNNING"
    BY <2>1, CallYield, <1>5, <2>2, Zenon DEF CallsKept, FailKnown, SpinExpired
  <2>3. CASE fstate[f] # "RUNNING"
    BY <1>5, <2>1, <2>3, LostEntry, Zenon DEF SpinExpired, CallsInv, ActiveInv, Runs
  <2> QED
    BY <2>2, <2>3, Zenon
<1> QED
  BY <1>1, <1>2, <1>3, <1>4, <1>5, Zenon DEF FiberStep

(* The types of what the schedulers and waiting_ hold. *)
LEMMA TypesKept ==
  ASSUME KindsInv, SchedTypes, CallsInv, NEW c \in Fiber,
         Calls(c) \/ Sections(c) \/ Shared(c) \/ FiberStep(c)
  PROVE  SchedTypes'
<1> USE DEF SchedTypes, mutexVars, schedVars
<1>1. CASE Calls(c)
  BY <1>1, Zenon DEF Calls, LockCall, TryCall, UntilCall, Starts
<1>2. ASSUME Take(c) \/ Again(c) \/ TryFails(c) \/ GiveUp(c) PROVE SchedTypes'
  BY <1>2, Zenon DEF Take, Again, TryFails, GiveUp, Abort, GetId
<1>3. ASSUME Enqueue(c) PROVE SchedTypes'
  <2>1. CASE UNCHANGED <<mutexVars, splk, notified, schedVars>>
    BY <2>1, Zenon
  <2>2. CASE waiting' = Append(waiting, c) /\ ~UNCHANGED <<mutexVars, splk, notified, schedVars>>
    BY <2>2, <1>3 DEF Enqueue, Abort
  <2> QED
    BY <1>3, <2>1, <2>2, Zenon DEF Enqueue, Abort
<1>4. ASSUME UnlockBody(c) PROVE SchedTypes'
  BY <1>4 DEF UnlockBody
<1>5. CASE Sections(c)
  <2>1. CASE UnlockSection(c)
    BY <1>4, <2>1, Zenon DEF UnlockSection
  <2>2. CASE Erase(c)
    BY <2>2, CallErase, Zenon DEF Erase, Abort
  <2> QED
    BY <1>2, <1>3, <1>5, <2>1, <2>2, Zenon DEF Sections, LockSection, TrySection
<1>6. CASE Shared(c)
  <2>1. CASE Acquire(c) \/ Unlock(c)
    BY <2>1, Zenon DEF Acquire, Unlock, Abort
  <2>2. CASE Refused(c)
    BY <2>2, Zenon DEF Refused, Abort, YieldNow
  <2>3. CASE Notify(c)
    BY <2>3, Zenon DEF Notify, SetReady
  <2> QED
    BY <1>6, <2>1, <2>2, <2>3, Zenon DEF Shared
<1>7. CASE FiberStep(c)
  <2>1. CASE Yield(c) \/ Spin(c) \/ SpinExpired(c)
    BY <2>1, Zenon DEF Yield, Spin, SpinExpired, Abort, YieldNow
  <2>2. CASE Park(c)
    BY <2>2, Zenon DEF Park
  <2>3. CASE ResumeKind(c) \/ ResumeLate(c)
    <3>1. /\ fstate' = [fstate EXCEPT ![c] = "RUNNING"]
          /\ active' = [active EXCEPT ![Home[c]] = c]
          /\ UNCHANGED <<owner, waiting, splk, notified, ready>>
      BY <2>3, Zenon DEF ResumeKind, ResumeLate, Resume
    <3> QED
      BY <3>1, Zenon
  <2>4. CASE Overdue(c)
    BY <2>4, Zenon DEF Overdue
  <2> QED
    BY <1>7, <2>1, <2>2, <2>3, <2>4, Zenon DEF FiberStep
<1> QED
  BY <1>1, <1>5, <1>6, <1>7, Zenon

AloneInv == Alone => SchedTypes /\ CallsInv /\ FailKnown

(* The steps there are when only fibers that nobody interrupts call. *)
LEMMA AloneSteps ==
  ASSUME KindsInv, Alone, CallsInv, KindsNext
  PROVE  \/ \E c \in Fiber : Calls(c) \/ Sections(c) \/ Shared(c) \/ FiberStep(c)
         \/ \E c \in Fiber : Pass(c)
<1>1. ASSUME NEW t \in Thread PROVE ~MainExpires(t) /\ ~MainWakes(t)
  BY Zenon DEF MainExpires, MainWakes, CallsInv, LateInv
<1> QED
  BY <1>1, Zenon DEF KindsNext, MutexKind, TimedKind, RecursiveKind, RecursiveTimedKind,
      Alone

LEMMA AloneNext == KindsInv /\ AloneInv /\ [KindsNext]_allVars => AloneInv'
<1> SUFFICES ASSUME KindsInv, AloneInv, [KindsNext]_allVars, Alone' PROVE AloneInv'
  BY Zenon DEF AloneInv
<1>2. Alone /\ SchedTypes /\ CallsInv /\ FailKnown
  BY KindsSteps, Zenon DEF Alone, AloneInv, allVars, kindVars, Gets, UnlockSection,
      Moves
<1>3. ASSUME NEW c \in Fiber, Calls(c) \/ Sections(c) \/ Shared(c) \/ FiberStep(c)
      PROVE  AloneInv'
  <2>1. CallsKept
    BY <1>2, <1>3, SharedKept, SectionKept, FiberKept, Zenon
  <2> QED
    BY <1>2, <1>3, <2>1, TypesKept, Zenon DEF CallsKept, AloneInv
<1>4. ASSUME NEW c \in Fiber, Pass(c) PROVE AloneInv'
  BY <1>2, <1>4, CallLate, Zenon DEF AloneInv, Pass, vars, SchedTypes, FailKnown
<1>5. CASE UNCHANGED allVars
  <2>1. UNCHANGED <<state, owner, waiting, splk, at, notified, fstate, active, ready, failed,
                    mode, until, late>>
    BY <1>5, Zenon DEF allVars, vars, kindVars
  <2>3. CallsInv'
    BY <1>2, <2>1, Zenon DEF CallsInv, LateInv, EntryInv, ActiveInv, Sleeps, Timed
  <2> QED
    BY <2>3, <1>2, <2>1, Zenon DEF AloneInv, SchedTypes, FailKnown, Timed
<1> QED
  BY <1>2, <1>3, <1>4, <1>5, AloneSteps, Zenon

LEMMA AloneInit == KindsInit => AloneInv
<1> SUFFICES ASSUME KindsInit PROVE SchedTypes /\ CallsInv /\ FailKnown
  BY Zenon DEF AloneInv
<1> USE DEF KindsInit, Init
<1>6. ActiveInv
  BY Zenon DEF ActiveInv
<1> QED
  BY <1>6 DEF CallsInv, SchedTypes, FailKnown, LateInv, EntryInv, Range,
      IsInjective

(* The inductive invariant behind the next theorems: what waiting_, n of   *)
(* unlock(), the states of the fibers and the deadlines say of each other  *)
(* while only fibers that nobody interrupts use a mutex.                   *)
THEOREM AloneInvariant == ASSUME OneMain PROVE KindsSpec => []AloneInv
BY AloneInit, AloneNext, KindsInvariant, PTL DEF KindsSpec

(* Among fibers that are not interrupted, every entry of waiting_ and      *)
(* every pending set_ready() of the four mutexes is for a call that has    *)
(* not returned, also when calls time out.                                 *)
THEOREM EntriesCalling == ASSUME OneMain PROVE KindsSpec => []WaitersCalling
<1>1. ASSUME AloneInv, Alone, NEW c \in Range(waiting) \cup (Range(notified) \ {None})
      PROVE  at[c] \in {"wait", "parked", "expired"}
  <2>1. SchedTypes /\ CallsInv
    BY <1>1, Zenon DEF AloneInv
  <2>2. CASE c \in Range(waiting)
    BY <2>1, <2>2, Zenon DEF CallsInv, EntryInv, Parking
  <2>3. CASE c \in Range(notified) \ {None}
    <3>1. PICK d \in Context : c = notified[d]
      BY <2>1, <2>3, Zenon DEF Range, SchedTypes
    <3> QED
      BY <2>1, <2>3, <3>1, Zenon DEF CallsInv, EntryInv, Parking
  <2> QED
    BY <2>2, <2>3, Zenon
<1>2. AloneInv => WaitersCalling
  BY <1>1, Zenon DEF WaitersCalling, Alone
<1> QED
  BY <1>2, AloneInvariant, PTL

(* No assertion on owner_ of the four mutexes fails; among fibers that are *)
(* not interrupted nothing fails but a call whose deadline passed after    *)
(* unlock() had taken its entry.                                           *)
THEOREM KindsAssertsHold == ASSUME OneMain PROVE KindsSpec => []KindsAsserts
<1>1. AloneInv /\ OwnerAsserts => KindsAsserts
  BY Zenon DEF AloneInv, Alone, FailKnown, KindsAsserts
<1> QED
  BY <1>1, AloneInvariant, KindsInvariant, PTL

-----------------------------------------------------------------------------
(* Without deadlines the places, the entries and the scheduler are those   *)
(* of mutex, whose steps keep the wakeups.                                 *)
LEMMA AsMutex ==
  ASSUME KindsInv, SchedTypes, CallsInv, FailKnown, ~Timed, NoLostWakeup
  PROVE  TypeOK /\ Wakeups
<1>1. late = {} /\ \A c \in Context : at[c] # "expired"
  BY Zenon DEF CallsInv, LateInv
<1>2. TypeOK
  BY <1>1, Zenon DEF TypeOK, KindsInv, SchedTypes
<1>3. WaitersInv
  BY <1>1, EntryKnown, Zenon DEF WaitersInv, CallsInv, EntryInv, Sleeps, Parking,
      Blocked
<1> QED
  BY <1>2, <1>3, <1>1, Zenon DEF Wakeups, RunningInv, CallsInv, ActiveInv, LateInv,
      AssertsHold, FailKnown

LEMMA CallWakeups ==
  ASSUME KindsInv, CallsInv, ~Timed, TypeOK, Wakeups, NEW c \in Fiber,
         Calls(c) \/ Sections(c)
  PROVE  Wakeups'
<1> USE DEF mutexVars, schedVars
<1>1. until = {} /\ late = {} /\ at[c] # "expired"
  BY Zenon DEF CallsInv, LateInv
<1>2. {"lock", "try", "held", "refused"} \subseteq Point
  BY Zenon DEF Point
<1>3. CASE Calls(c)
  <2>1. PICK p \in {"lock", "try"} : Starts(c, p)
    BY <1>3, Zenon DEF Calls, LockCall, TryCall, UntilCall
  <2> QED
    BY <1>2, QuietMove, <2>1, Zenon DEF Starts
<1>4. ASSUME Take(c) \/ Again(c), at[c] \in {"locking", "trying"} PROVE Wakeups'
  <2>1. /\ Goto(c, "held") /\ state' = "LOCKED"
        /\ UNCHANGED <<waiting, notified, fstate, active, ready, failed>>
    <3>1. CASE Take(c)
      BY <3>1, Zenon DEF Take, KindsInv, OwnedByOne
    <3>2. CASE Again(c)
      BY <3>2, Zenon DEF Again
    <3> QED
      BY <1>4, <3>1, <3>2, Zenon
  <2> QED
    BY <1>2, <1>4, <2>1, QuietMove, Zenon
<1>5. CASE LockSection(c)
  BY <1>1, <1>4, <1>5, EnqueueStep, Zenon DEF LockSection
<1>6. CASE TrySection(c)
  <2>1. CASE TryFails(c)
    BY <1>2, <1>6, <2>1, QuietMove, Zenon DEF TrySection, TryFails
  <2> QED
    BY <1>4, <1>6, <2>1, Zenon DEF TrySection
<1>7. CASE UnlockSection(c)
  <2>1. CASE Recursive /\ count > 1
    BY <1>2, QuietMove, <1>7, <2>1, Zenon DEF UnlockSection
  <2> QED
    BY <1>7, <2>1, UnlockBodyStep, Zenon DEF UnlockSection
<1> QED
  BY <1>3, <1>5, <1>6, <1>7, <1>1, Zenon DEF Sections, Erase

LEMMA OtherWakeups ==
  ASSUME KindsInv, CallsInv, ~Timed, TypeOK, Wakeups, NEW c \in Fiber,
         Shared(c) \/ FiberStep(c)
  PROVE  Wakeups'
<1> USE DEF mutexVars, schedVars
<1>2. CASE Acquire(c)
  BY <1>2, QuietMove, Zenon DEF Acquire, Inside, Point
<1>3. CASE Unlock(c)
  BY <1>3, QuietMove, Zenon DEF Unlock, KindsInv, OwnedByOne, Owning, Point, Fits, Hold
<1>4. CASE Refused(c) \/ Yield(c) \/ Spin(c)
  BY YieldMove, <1>4, FiberRuns, Zenon DEF Refused, Yield, Spin
<1>5. CASE Notify(c)
  BY <1>5, NotifyStep, Zenon
<1>6. CASE Park(c)
  BY <1>6, ParkStep, Zenon
<1>7. CASE ResumeKind(c)
  BY <1>7, ResumeStep, Zenon DEF ResumeKind
<1>8. ~ResumeLate(c) /\ ~Overdue(c) /\ ~SpinExpired(c)
  BY Zenon DEF ResumeLate, Overdue, SpinExpired, CallsInv, LateInv
<1> QED
  BY <1>2, <1>3, <1>4, <1>5, <1>6, <1>7, <1>8, Zenon DEF Shared, FiberStep

LEMMA WakeupsKeptNext ==
  KindsInv /\ AloneInv /\ WakeupsKept /\ [KindsNext]_allVars => WakeupsKept'
<1> SUFFICES ASSUME KindsInv, AloneInv, WakeupsKept, [KindsNext]_allVars, Alone', ~Timed'
             PROVE  NoLostWakeup'
  BY Zenon DEF WakeupsKept, Alone
<1>2. Alone /\ ~Timed
  BY KindsSteps, Zenon DEF Alone, Timed, allVars, kindVars, Gets, UnlockSection, Moves
<1>3. SchedTypes /\ CallsInv /\ FailKnown /\ NoLostWakeup
  BY <1>2, Zenon DEF AloneInv, WakeupsKept, Alone
<1>4. TypeOK /\ Wakeups
  BY <1>2, <1>3, AsMutex, Zenon
<1>5. ASSUME NEW c \in Fiber, Calls(c) \/ Sections(c) \/ Shared(c) \/ FiberStep(c)
      PROVE  NoLostWakeup'
  <2>1. Wakeups'
    BY <1>2, <1>3, <1>4, <1>5, CallWakeups, OtherWakeups, Zenon
  <2> QED
    BY <2>1, Zenon DEF Wakeups
<1>7. CASE UNCHANGED allVars
  BY <1>3, <1>7, Zenon DEF allVars, vars, NoLostWakeup, Blocked
<1> QED
  BY <1>2, <1>3, <1>5, <1>7, AloneSteps, Zenon DEF Pass, CallsInv, LateInv

(* Among fibers that are not interrupted, unlock() of mutex and of         *)
(* recursive_mutex, the last one of a recursive owner, never leaves a      *)
(* waiter of a free mutex asleep with nobody on the way to notify it.      *)
THEOREM KindsWakeupsKept == ASSUME OneMain PROVE KindsSpec => []WakeupsKept
<1>1. KindsInit => WakeupsKept
  BY Zenon DEF KindsInit, Init, WakeupsKept, NoLostWakeup, Blocked
<1> QED
  BY <1>1, WakeupsKeptNext, AloneInvariant, KindsInvariant, PTL DEF KindsSpec

-----------------------------------------------------------------------------
(* A mutex of MutexKinds is that of Mutex: it has no deadlines, and only   *)
(* its users are inside calls.                                             *)
PlainInv ==
  mode.kind = "mutex" =>
    /\ until = {} /\ late = {}
    /\ \A c \in Context : at[c] # "expired" /\ (at[c] # "idle" => c \in mode.user)
UsersCall == \A m \in Mode : m.user \subseteq Caller

(* A step of Mutex that moves a user. *)
PlainStep ==
  /\ Next
  /\ mode' = mode /\ until' = {} /\ late' = {}
  /\ at' = at \/ \E c \in mode.user, p \in Point : Goto(c, p)

LEMMA NotOtherKind ==
  ASSUME mode.kind = "mutex"
  PROVE  ~Recursive /\ ~Timed
BY DEF Recursive, Timed

LEMMA MutexStarts ==
  ASSUME mode.kind = "mutex", NEW c \in Caller, Calls(c)
  PROVE  /\ Lock(c) \/ TryLock(c)
         /\ UNCHANGED kindVars
<1>1. ASSUME Starts(c, "lock") PROVE Lock(c)
  BY <1>1, NotOtherKind, Zenon DEF Starts, Lock
<1>2. ASSUME Starts(c, "try") PROVE TryLock(c)
  <2>1. "try" # "lock"
    BY Zenon
  <2> QED
    BY <1>2, <2>1, NotOtherKind, Zenon DEF Starts, TryLock, schedVars
<1> QED
  BY <1>1, <1>2, NotOtherKind, Zenon DEF Calls, LockCall, TryCall, UntilCall

LEMMA MutexSections ==
  ASSUME mode.kind = "mutex", PlainInv, NEW c \in Context, Sections(c)
  PROVE  /\ LockBody(c) \/ TryBody(c) \/ UnlockBody(c)
         /\ mode' = mode /\ until' = {} /\ late' = {}
<1>1. until = {} /\ late = {} /\ at[c] # "expired" /\ ~Again(c) /\ ~Recursive
  BY NotOtherKind, Zenon DEF PlainInv, Again
<1>2. CASE LockSection(c)
  BY <1>1, <1>2, Zenon DEF LockSection, LockBody, Gets, Ends, kindVars
<1>3. CASE TrySection(c)
  BY <1>1, <1>3, Zenon DEF TrySection, TryBody, Gets, kindVars
<1>4. CASE UnlockSection(c)
  BY <1>1, <1>4, Zenon DEF UnlockSection
<1> QED
  BY <1>1, <1>2, <1>3, <1>4, Zenon DEF Sections, Erase

(* Where the actions of Mutex move a context. *)
LEMMA MutexMoves ==
  ASSUME NEW c,
         \/ Lock(c) \/ TryLock(c) \/ LockBody(c) \/ TryBody(c) \/ UnlockBody(c)
         \/ Acquire(c) \/ Refused(c) \/ Unlock(c) \/ Notify(c)
         \/ Spin(c) \/ Park(c) \/ Resume(c) \/ MainWakes(c) \/ Yield(c) \/ Interrupt(c)
  PROVE  at' = at \/ \E p \in Point : Goto(c, p)
<1>1. CASE Lock(c) \/ TryLock(c) \/ LockBody(c) \/ TryBody(c) \/ UnlockBody(c)
  BY <1>1, Zenon DEF Lock, TryLock, LockBody, TryBody, UnlockBody, Take, Enqueue, TryFails,
      Abort, Point
<1>2. CASE Acquire(c) \/ Refused(c) \/ Unlock(c) \/ Notify(c)
  BY <1>2, Zenon DEF Acquire, Refused, Unlock, Notify, Inside, Abort, Point
<1>3. CASE Spin(c) \/ Park(c) \/ Resume(c) \/ MainWakes(c) \/ Yield(c) \/ Interrupt(c)
  BY <1>3, Zenon DEF Spin, Park, Resume, MainWakes, Yield, Interrupt, Abort, Goto, Point
<1> QED
  BY <1>1, <1>2, <1>3, Zenon

LEMMA MutexNext ==
  ASSUME UsersCall, KindsInv, PlainInv, mode.kind = "mutex", KindsNext
  PROVE  PlainStep
<1>1. /\ mode.user \subseteq Caller /\ mode.user \subseteq Context
      /\ until = {} /\ late = {}
      /\ \A c \in Context : at[c] # "expired" /\ (at[c] # "idle" => c \in mode.user)
  BY Zenon DEF UsersCall, KindsInv, PlainInv
<1>2. ASSUME NEW c \in mode.user, Calls(c) PROVE PlainStep
  BY <1>1, <1>2, MutexStarts, MutexMoves, Zenon DEF Next, PlainStep, kindVars
<1>3. ASSUME NEW c \in mode.user, Sections(c) PROVE PlainStep
  BY <1>1, <1>3, MutexSections, MutexMoves, Zenon DEF Next, CallStep, PlainStep
<1>4. ASSUME NEW c \in mode.user, Shared(c) PROVE PlainStep
  <2>1. /\ Acquire(c) \/ Refused(c) \/ Unlock(c) \/ Notify(c)
        /\ UNCHANGED kindVars
    BY <1>4, Zenon DEF Shared
  <2> QED
    BY <1>1, <2>1, MutexMoves, Zenon DEF Next, CallStep, PlainStep, kindVars
<1>5. ASSUME NEW f \in Fiber, FiberStep(f) PROVE PlainStep
  <2>1. /\ Yield(f) \/ Spin(f) \/ Park(f) \/ Resume(f)
        /\ UNCHANGED kindVars
    BY <1>1, <1>5, Zenon DEF FiberStep, ResumeKind, ResumeLate, Overdue, SpinExpired, Context
  <2>2. at[f] = "idle" => at' = at
    BY <2>1, Zenon DEF Yield, Spin, Park, Resume, Abort
  <2> QED
    BY <1>1, <2>1, <2>2, MutexMoves, Zenon DEF Next, PlainStep, kindVars, Context
<1>6. ASSUME NEW t \in Thread, MainExpires(t) \/ (MainWakes(t) /\ UNCHANGED kindVars)
      PROVE  PlainStep
  <2>1. MainWakes(t) /\ UNCHANGED kindVars /\ at[t] = "wait"
    BY <1>1, <1>6, Zenon DEF MainExpires, MainWakes
  <2>2. t \in mode.user
    BY <1>1, <2>1, Zenon DEF Context
  <2> QED
    BY <1>1, <2>1, <2>2, MutexMoves, Zenon DEF Next, PlainStep, kindVars
<1>7. ASSUME NEW f \in Interruptible, Interrupt(f), UNCHANGED kindVars PROVE PlainStep
  BY <1>1, <1>7, Zenon DEF Interrupt, Next, PlainStep, kindVars
<1>8. ASSUME NEW c \in mode.user PROVE ~Pass(c)
  BY <1>1, Zenon DEF Pass
<1>9. ASSUME NEW c \in mode.user,
             MutexKind(c) \/ TimedKind(c) \/ RecursiveKind(c) \/ RecursiveTimedKind(c)
      PROVE  Calls(c) \/ Sections(c)
  BY <1>9, Zenon DEF MutexKind, TimedKind, RecursiveKind, RecursiveTimedKind
<1> QED
  BY <1>2, <1>3, <1>4, <1>5, <1>6, <1>7, <1>8, <1>9, Zenon DEF KindsNext

LEMMA PlainNext ==
  ASSUME UsersCall, KindsInv, PlainInv, [KindsNext]_allVars
  PROVE  PlainInv' /\ [mode.kind = "mutex" => Next]_vars
<1>1. CASE UNCHANGED allVars
  BY <1>1, Zenon DEF allVars, vars, kindVars, PlainInv
<1>2. CASE mode.kind # "mutex"
  BY <1>2, KindsSteps, Zenon DEF PlainInv, Gets, UnlockSection, Moves
<1>3. CASE mode.kind = "mutex" /\ KindsNext
  <2>1. PlainStep
    BY <1>3, MutexNext, Zenon
  <2>2. ASSUME NEW c \in mode.user, NEW p \in Point, Goto(c, p), NEW d \in Context
        PROVE  at'[d] # "expired" /\ (at'[d] # "idle" => d \in mode.user)
    <3>1. at'[d] = at[d] \/ (d = c /\ at'[d] = p)
      BY <2>2, Zenon DEF Goto, KindsInv
    <3>2. p # "expired"
      BY Zenon DEF Point
    <3> QED
      BY <1>3, <3>1, <3>2, Zenon DEF PlainInv
  <2> QED
    BY <1>3, <2>1, <2>2, Zenon DEF PlainStep, PlainInv
<1> QED
  BY <1>1, <1>2, <1>3, Zenon

(* What lock(), try_lock() and unlock() of a mutex do beside the other     *)
(* kinds are steps of Mutex, whoever uses it and whoever is interrupted,   *)
(* so the theorems about Mutex hold for it.                                *)
THEOREM KindMutex ==
  ASSUME OneMain, UsersCall
  PROVE  KindsSpec => MutexSteps
<1>1. KindsInit => PlainInv
  <2>1. KindsInit => \A c \in Context : at[c] = "idle"
    BY Zenon DEF KindsInit, Init
  <2> QED
    BY <2>1, Zenon DEF KindsInit, PlainInv
<1>2. UsersCall
  BY Zenon
<1>3. UsersCall /\ KindsInv /\ PlainInv /\ [KindsNext]_allVars
        => PlainInv' /\ [mode.kind = "mutex" => Next]_vars
  BY PlainNext, Zenon
<1> QED
  BY <1>1, <1>2, <1>3, KindsInvariant, PTL DEF KindsSpec, MutexSteps
=============================================================================
