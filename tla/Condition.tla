----------------------------- MODULE Condition -----------------------------
(***************************************************************************)
(* condition (condition.hpp, condition.cpp) used by fibers and by the main *)
(* contexts of their threads.  What is done while splk_ is held is one     *)
(* step; a deadline, an interrupt or a notification comes between any two. *)
(* The mutex the clients pass is an exclusive lock (Mutex shows that it is *)
(* one); the scheduler resumes whom set_ready() or its deadline made ready.*)
(***************************************************************************)
EXTENDS Naturals, Sequences, FiniteSets, Functions

CONSTANTS
  Fiber,          \* the contexts that are fibers
  Main,           \* the main contexts of threads
  Interruptible,  \* the fibers that others interrupt while they wait
  Timed,          \* the contexts that may use wait_until()
  Cond,           \* condition variables
  MutexOf,        \* the mutex used with each of them
  None

Context == Fiber \cup Main
Lock == Range(MutexOf)

ASSUME ConditionAssumption ==
  /\ Fiber \cap Main = {}
  /\ None \notin Context \cup Cond /\ None \notin {"waiting", "erase"}
  /\ DOMAIN MutexOf = Cond
  /\ Interruptible \subseteq Fiber
  /\ Timed \subseteq Context

VARIABLES
  holder,   \* who holds each mutex
  waiting,  \* waiting_ of each condition
  on,       \* the condition each context waits on
  cv,       \* where in wait() or wait_until() each context is
  why,      \* what has reached the context since it waits
  status,   \* how its last wait ended
  pend,     \* whom it took out of waiting_ and is to make ready
  failed    \* what ended the program

condVars == <<holder, waiting, on, cv, why, status, pend, failed>>

CondInit ==
  /\ holder = [m \in Lock |-> None]
  /\ waiting = [k \in Cond |-> <<>>]
  /\ on = [c \in Context |-> None]
  /\ cv = [c \in Context |-> "out"]
  /\ why = [c \in Context |-> {}]
  /\ status = [c \in Context |-> "no_timeout"]
  /\ pend = [c \in Context |-> <<>>]
  /\ failed = None

Blocked == {c \in Context : cv[c] \in {"wait", "wait_until"}}
InWait == {c \in Context : cv[c] # "out"}
Pending == UNION {Range(pend[c]) : c \in Context}

(* The context is outside the calls of a condition. *)
Free(c) == failed = None /\ cv[c] = "out" /\ pend[c] = <<>>

Abort(a) == failed' = a /\ UNCHANGED <<holder, waiting, on, cv, why, status, pend>>

(* What a client's step does here: nothing, lock or unlock (the mutexes    *)
(* become h), or notify.                                                   *)
Quietly == UNCHANGED condVars
Locks(h) == holder' = h /\ UNCHANGED <<waiting, on, cv, why, status, pend, failed>>
Notifies == UNCHANGED <<holder, on, cv, why, status, failed>>
(* The client has read how its wait ended. *)
Reads(c, h) ==
  /\ holder' = h
  /\ status' = [status EXCEPT ![c] = "no_timeout"]
  /\ UNCHANGED <<waiting, on, cv, why, pend, failed>>
Released(c) == [m \in Lock |-> IF holder[m] = c THEN None ELSE holder[m]]

-----------------------------------------------------------------------------
(* wait() and wait_until(), to the suspension: the context enters waiting_ *)
(* and releases the mutex before it gives up splk_.  A main context makes  *)
(* a new main_fiber.                                                       *)
MutEnterWaitAfterUnlock(c, k, p) ==
  /\ holder' = [holder EXCEPT ![MutexOf[k]] = None]
  /\ on' = [on EXCEPT ![c] = k]
  /\ cv' = [cv EXCEPT ![c] = p]
  /\ why' = [why EXCEPT ![c] = {}]
  /\ status' = [status EXCEPT ![c] = "no_timeout"]
  /\ UNCHANGED <<waiting, pend, failed>>
MutEnterWaitHolds(c, k, p) ==
  /\ waiting' = [waiting EXCEPT ![k] = Append(@, c)]
  /\ on' = [on EXCEPT ![c] = k]
  /\ cv' = [cv EXCEPT ![c] = p]
  /\ why' = [why EXCEPT ![c] = {}]
  /\ status' = [status EXCEPT ![c] = "no_timeout"]
  /\ UNCHANGED <<holder, pend, failed>>
EnterWait(c, k, p) ==
  IF p = "wait" /\ c \in Range(waiting[k])
  THEN Abort("waiting")
  ELSE /\ waiting' = [waiting EXCEPT ![k] = Append(@, c)]
       /\ holder' = [holder EXCEPT ![MutexOf[k]] = None]
       /\ on' = [on EXCEPT ![c] = k]
       /\ cv' = [cv EXCEPT ![c] = p]
       /\ why' = [why EXCEPT ![c] = {}]
       /\ status' = [status EXCEPT ![c] = "no_timeout"]
       /\ UNCHANGED <<pend, failed>>

(* The deadline of wait_until() passes. *)
Pass(c) ==
  /\ failed = None
  /\ cv[c] = "wait_until"
  /\ "deadline" \notin why[c]
  /\ why' = [why EXCEPT ![c] = @ \cup {"deadline"}]
  /\ UNCHANGED <<holder, waiting, on, cv, status, pend, failed>>

(* fiber::interrupt() of a suspended fiber. *)
Interrupt(c) ==
  /\ failed = None
  /\ c \in Blocked
  /\ "interrupt" \notin why[c]
  /\ why' = [why EXCEPT ![c] = @ \cup {"interrupt"}]
  /\ UNCHANGED <<holder, waiting, on, cv, status, pend, failed>>

(* The context runs again.  A fiber looks at the clock first, then at its  *)
(* interrupt; a main context looks at its main_fiber, then at the clock.   *)
Expired(c) ==
  "deadline" \in why[c] /\ (c \in Fiber \/ "notify" \notin why[c])
AfterWake(c) == IF "interrupt" \in why[c] THEN "throw" ELSE "relock"
Wake(c) ==
  /\ failed = None
  /\ c \in Blocked
  /\ why[c] # {}
  /\ cv' = [cv EXCEPT ![c] = IF Expired(c) THEN "expired" ELSE AfterWake(c)]
  /\ UNCHANGED <<holder, waiting, on, why, status, pend, failed>>

(* waiting_.erase( find( n) ), which is undefined when n is not there. *)
Find(s, c) == CHOOSE i \in 1..Len(s) : s[i] = c /\ \A j \in 1..(i - 1) : s[j] # c
Without(s, c) == [i \in 1..(Len(s) - 1) |-> IF i < Find(s, c) THEN s[i] ELSE s[i + 1]]
Erase(c) == waiting' = [waiting EXCEPT ![on[c]] = Without(@, c)]

(* wait_until() after its deadline. *)
TimeOut(c) ==
  /\ failed = None
  /\ cv[c] = "expired"
  /\ IF c \notin Range(waiting[on[c]])
     THEN Abort("erase")
     ELSE /\ Erase(c)
          /\ status' = [status EXCEPT ![c] = "timeout"]
          /\ cv' = [cv EXCEPT ![c] = AfterWake(c)]
          /\ UNCHANGED <<holder, on, why, pend, failed>>

(* interruption_point() throws: the handler erases and does not lock. *)
Throw(c) ==
  /\ failed = None
  /\ cv[c] = "throw"
  /\ IF c \notin Range(waiting[on[c]])
     THEN Abort("erase")
     ELSE /\ Erase(c)
          /\ status' = [status EXCEPT ![c] = "interrupted"]
          /\ cv' = [cv EXCEPT ![c] = "out"]
          /\ on' = [on EXCEPT ![c] = None]
          /\ why' = [why EXCEPT ![c] = {}]
          /\ UNCHANGED <<holder, pend, failed>>

(* lt.lock() at the end of the wait. *)
Relock(c) ==
  /\ failed = None
  /\ cv[c] = "relock"
  /\ holder[MutexOf[on[c]]] = None
  /\ holder' = [holder EXCEPT ![MutexOf[on[c]]] = c]
  /\ cv' = [cv EXCEPT ![c] = "out"]
  /\ on' = [on EXCEPT ![c] = None]
  /\ why' = [why EXCEPT ![c] = {}]
  /\ UNCHANGED <<waiting, status, pend, failed>>

-----------------------------------------------------------------------------
(* notify_one() and notify_all() take out of waiting_ under splk_ and make *)
(* ready after it.                                                         *)
First(s) == IF s = <<>> THEN <<>> ELSE <<Head(s)>>
Rest(s) == IF s = <<>> THEN <<>> ELSE Tail(s)

MutNotifyOneKeeps(c, k) ==
  /\ pend' = [pend EXCEPT ![c] = First(waiting[k])]
  /\ UNCHANGED waiting
NotifyOne(c, k) ==
  /\ pend' = [pend EXCEPT ![c] = First(waiting[k])]
  /\ waiting' = [waiting EXCEPT ![k] = Rest(@)]

MutNotifyAllFirst(c, k) ==
  /\ pend' = [pend EXCEPT ![c] = First(waiting[k])]
  /\ waiting' = [waiting EXCEPT ![k] = <<>>]
NotifyAll(c, k) ==
  /\ pend' = [pend EXCEPT ![c] = waiting[k]]
  /\ waiting' = [waiting EXCEPT ![k] = <<>>]

(* set_ready() of the next of them. *)
SetReady(c) ==
  /\ failed = None
  /\ pend[c] # <<>>
  /\ why' = [why EXCEPT ![Head(pend[c])] = @ \cup {"notify"}]
  /\ pend' = [pend EXCEPT ![c] = Tail(@)]
  /\ UNCHANGED <<holder, waiting, on, cv, status, failed>>

CondStep(c) == Wake(c) \/ TimeOut(c) \/ Throw(c) \/ Relock(c) \/ SetReady(c)

(* What the environment does to a waiting context. *)
Reach(c) == Pass(c) \/ (c \in Interruptible /\ Interrupt(c))

-----------------------------------------------------------------------------
(* Any client: it locks and unlocks, waits with the mutex and notifies     *)
(* with or without it.                                                     *)
LockMutex(c, m) ==
  /\ Free(c)
  /\ holder[m] = None
  /\ Locks([holder EXCEPT ![m] = c])

UnlockMutex(c, m) ==
  /\ Free(c)
  /\ holder[m] = c
  /\ Locks([holder EXCEPT ![m] = None])

Notify(c, k) ==
  /\ Free(c)
  /\ NotifyOne(c, k) \/ NotifyAll(c, k)
  /\ Notifies

Wait(c, k) == Free(c) /\ holder[MutexOf[k]] = c /\ EnterWait(c, k, "wait")
WaitUntil(c, k) == Free(c) /\ holder[MutexOf[k]] = c /\ EnterWait(c, k, "wait_until")

ClientStep(c) ==
  \E k \in Cond : \/ LockMutex(c, MutexOf[k])
                  \/ UnlockMutex(c, MutexOf[k])
                  \/ Notify(c, k)
                  \/ Wait(c, k)
                  \/ c \in Timed /\ WaitUntil(c, k)

-----------------------------------------------------------------------------

(* Whom waiting_ or a notification on its way refers to is inside wait()   *)
(* or wait_until(), in one place and once: no main_fiber is used after its *)
(* call returned.                                                          *)
WaitersInWait ==
  failed = None =>
    /\ \A k \in Cond : \A c \in Range(waiting[k]) : c \in InWait /\ on[c] = k
    /\ \A k \in Cond : IsInjective(waiting[k])
    /\ Pending \subseteq InWait
    /\ \A k \in Cond : Range(waiting[k]) \cap Pending = {}

(* A blocked context is in waiting_ or a notification for it is on its way *)
(* or has reached it.                                                      *)
NotificationKept ==
  \A c \in Blocked : \/ c \in Range(waiting[on[c]])
                     \/ c \in Pending
                     \/ "notify" \in why[c]

(* What woke the wait of c, or is about to. *)
Reaching(c) == why[c] \cup IF c \in Pending THEN {"notify"} ELSE {}

(* The erase() of a wait finds its entry unless two of a notification, the *)
(* deadline and an interrupt reached the same wait.                        *)
EraseNeedsRace ==
  failed = "erase" => \E c \in InWait : \E a, b \in Reaching(c) : a # b
=============================================================================
