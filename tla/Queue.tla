------------------------------- MODULE Queue -------------------------------
(***************************************************************************)
(* bounded_queue< T >, unbounded_queue< T > and unbounded_queue< T * >     *)
(* over the condition variables they use.  A step is what a call does      *)
(* between two points where another context can see a difference: the      *)
(* acquisition of a mutex, a test of the other end of the list, a write to *)
(* the list, a notification.  The kind of queue and how it is used are     *)
(* chosen in the initial state; in one thread only suspended calls are     *)
(* interleaved.                                                            *)
(***************************************************************************)
EXTENDS Condition

CONSTANTS
  Mode,      \* records users, kind, hwm, lwm, threads, tries, throws
  Producer,  \* the contexts that push
  Consumer,  \* the contexts that pop
  Closer,    \* the contexts that close
  MaxPush    \* bound on the number of values pushed

ASSUME QueueAssumption ==
  /\ Cond = {"not_empty", "not_full"}
  /\ MutexOf = [k \in Cond |-> IF k = "not_empty" THEN "head" ELSE "tail"]
  /\ \A m \in Mode : m.hwm \in Nat /\ m.lwm \in Nat /\ m.lwm <= m.hwm
  /\ MaxPush \in Nat
  /\ IsFiniteSet(Context) /\ Producer \cup Consumer \cup Closer \subseteq Context

VARIABLES
  mode,   \* who uses it, the kind of queue, its watermarks, whether its users are
          \* in several threads, use try_ operations, or have values that throw
  open,   \* OPEN = state_
  count,  \* count_
  head,   \* head_
  tail,   \* tail_
  nodes,  \* how many nodes were made
  va,     \* va of each node
  next,   \* next of each node
  op,     \* the operation of each context
  at,     \* where in it the context is
  new,    \* its new_node
  got     \* the caller's variable that its pop() is to fill

listVars == <<count, head, tail, nodes, va, next, new>>
queueVars == <<mode, open, listVars, op, at, got>>
vars == <<condVars, queueVars>>

Node == 1..(MaxPush + 1)
Pushes == {"push", "push_wait_until", "try_push"}
Pops == {"pop", "pop_wait_until", "try_pop"}
Bounded == mode.kind = "bounded"

(* The constructors: one node, head_ = tail_. *)
QueueInit ==
  /\ CondInit
  /\ mode \in Mode
  /\ open = TRUE
  /\ count = 0
  /\ head = 1 /\ tail = 1 /\ nodes = 1
  /\ va = [n \in Node |-> 0]
  /\ next = [n \in Node |-> 0]
  /\ op = [c \in Context |-> "none"]
  /\ at = [c \in Context |-> "idle"]
  /\ new = [c \in Context |-> 0]
  /\ got = [c \in Context |-> 0]

(* In one thread a context runs until it suspends or returns. *)
Turn(c) == mode.threads \/ \A d \in Context \ {c} : at[d] = "idle" \/ d \in Blocked
Here(c, p) == Free(c) /\ Turn(c) /\ at[c] = p

Goto(c, p) == at' = [at EXCEPT ![c] = p] /\ UNCHANGED <<op, got>>

SameList == UNCHANGED <<mode, open, listVars>>

(* The call begins; it returns and its scoped_locks unlock. *)
Call(c, o, p) ==
  /\ op' = [op EXCEPT ![c] = o]
  /\ at' = [at EXCEPT ![c] = p]
  /\ got' = [got EXCEPT ![c] = 0]
Return(c) == Call(c, "none", "idle") /\ Reads(c, Released(c))

Done(c) == Here(c, "done") /\ Return(c) /\ SameList

(* A wait is over: by an interrupt, by the deadline, or to look again. *)
Waited(c) ==
  /\ Here(c, "waited")
  /\ IF status[c] = "no_timeout"
     THEN Goto(c, IF op[c] \in Pushes THEN "room" ELSE "look") /\ Quietly
     ELSE Return(c)
  /\ SameList

-----------------------------------------------------------------------------
(* push operations.  try_push() locks head_mtx_, the others tail_mtx_. *)

PushOps(c) == {"push"} \cup (IF Bounded /\ c \in Timed THEN {"push_wait_until"} ELSE {})
                       \cup (IF Bounded /\ mode.tries THEN {"try_push"} ELSE {})

Push(c) ==
  /\ Here(c, "idle")
  /\ nodes + Cardinality({d \in Context : op[d] \in Pushes}) <= MaxPush
  /\ \E o \in PushOps(c) : Call(c, o, "start")
  /\ Quietly /\ SameList

PushMutex(c) == IF op[c] = "try_push" THEN "head" ELSE "tail"

(* The mutex is locked and a closed queue refuses. *)
PushLock(c) ==
  /\ Here(c, "start")
  /\ op[c] \in Pushes
  /\ holder[PushMutex(c)] = None
  /\ IF open
     THEN Goto(c, "room") /\ Locks([holder EXCEPT ![PushMutex(c)] = c])
     ELSE Return(c)
  /\ SameList

MutIsFull == Bounded /\ count > mode.hwm
IsFull == Bounded /\ count >= mode.hwm

Room(c) ==
  /\ Here(c, "room")
  /\ IF ~IsFull THEN Goto(c, "fill") /\ Quietly
     ELSE IF op[c] = "try_push" THEN Return(c)
     ELSE Goto(c, "full") /\ Quietly
  /\ SameList

(* not_full_cond_.wait() or wait_until() *)
Full(c) ==
  /\ Here(c, "full")
  /\ EnterWait(c, "not_full", IF op[c] = "push" THEN "wait" ELSE "wait_until")
  /\ Goto(c, "waited")
  /\ SameList

(* tail_->va and tail_->next are assigned. *)
Fill(c) ==
  /\ Here(c, "fill")
  /\ nodes' = nodes + 1
  /\ new' = [new EXCEPT ![c] = nodes + 1]
  /\ va' = [va EXCEPT ![tail] = nodes]
  /\ next' = [next EXCEPT ![tail] = nodes + 1]
  /\ Goto(c, "advance")
  /\ Quietly /\ UNCHANGED <<mode, open, count, head, tail>>

(* The assignment throws: all but push() close the queue. *)
FillThrows(c) ==
  /\ Here(c, "fill")
  /\ mode.throws
  /\ Goto(c, IF op[c] = "push" THEN "done" ELSE "close")
  /\ Quietly /\ SameList

(* tail_ = new_node; ++count_.  unbounded_queue< T * > unlocks here. *)
Advance(c) ==
  /\ Here(c, "advance")
  /\ tail' = new[c]
  /\ new' = [new EXCEPT ![c] = 0]
  /\ count' = count + 1
  /\ Goto(c, "signal")
  /\ IF mode.kind = "unbounded_ptr" THEN Locks(Released(c)) ELSE Quietly
  /\ UNCHANGED <<mode, open, head, nodes, va, next>>

MutSignalFull(c) ==
  Here(c, "signal") /\ NotifyOne(c, "not_full") /\ Notifies /\ Goto(c, "done") /\ SameList
(* not_empty_cond_.notify_one() *)
Signal(c) ==
  Here(c, "signal") /\ NotifyOne(c, "not_empty") /\ Notifies /\ Goto(c, "done") /\ SameList

-----------------------------------------------------------------------------
(* pop operations *)

PopOps(c) == {"pop"} \cup (IF c \in Timed THEN {"pop_wait_until"} ELSE {})
                     \cup (IF mode.tries THEN {"try_pop"} ELSE {})

Pop(c) ==
  /\ Here(c, "idle")
  /\ \E o \in PopOps(c) : Call(c, o, "start")
  /\ Quietly /\ SameList

PopLock(c) ==
  /\ Here(c, "start")
  /\ op[c] \in Pops
  /\ holder["head"] = None
  /\ Goto(c, "look")
  /\ Locks([holder EXCEPT !["head"] = c])
  /\ SameList

IsEmpty == head = tail

(* The tests of is_closed_() and is_empty_(), which locks tail_mtx_ for    *)
(* the moment.  bounded_queue::pop() waits when the queue is closed        *)
(* instead of when it is open, and then asserts that it is not empty.      *)
Look(c) ==
  /\ Here(c, "look")
  /\ holder["tail"] = None
  /\ CASE ~IsEmpty -> Goto(c, "take") /\ Quietly
       [] IsEmpty /\ op[c] = "pop" /\ Bounded ->
            IF open THEN Abort("pop") /\ UNCHANGED <<at, op, got>>
                    ELSE Goto(c, "empty") /\ Quietly
       [] IsEmpty /\ (op[c] # "pop" \/ ~Bounded) ->
            IF open /\ op[c] # "try_pop" THEN Goto(c, "empty") /\ Quietly ELSE Return(c)
  /\ SameList

(* not_empty_cond_.wait() or wait_until() *)
Empty(c) ==
  /\ Here(c, "empty")
  /\ EnterWait(c, "not_empty", IF op[c] = "pop" THEN "wait" ELSE "wait_until")
  /\ Goto(c, "waited")
  /\ SameList

(* The value is moved to va and pop_head_() unlinks the node.  The pops of *)
(* unbounded_queue< T * > take va by value: their caller's variable stays. *)
ByReference == mode.kind # "unbounded_ptr"
Take(c) ==
  /\ Here(c, "take")
  /\ got' = IF ByReference THEN [got EXCEPT ![c] = va[head]] ELSE got
  /\ head' = next[head]
  /\ count' = count - 1
  /\ at' = [at EXCEPT ![c] = IF Bounded THEN "space" ELSE "done"]
  /\ Quietly /\ UNCHANGED <<mode, open, tail, nodes, va, next, new, op>>

(* The move throws, which closes the queue except in try_pop() of a queue  *)
(* of T; a pointer does not throw.                                         *)
TakeThrows(c) ==
  /\ Here(c, "take")
  /\ mode.throws
  /\ Goto(c, IF op[c] = "try_pop" THEN "done" ELSE "close")
  /\ Quietly /\ SameList

MutSpaceEqual(c) ==
  /\ Here(c, "space")
  /\ IF count = mode.lwm THEN NotifyAll(c, "not_full") ELSE UNCHANGED <<pend, waiting>>
  /\ Notifies /\ Goto(c, "done") /\ SameList
(* size_() <= lwm_ notifies one or all producers. *)
Space(c) ==
  /\ Here(c, "space")
  /\ CASE count > mode.lwm -> UNCHANGED <<pend, waiting>>
       [] count <= mode.lwm /\ mode.lwm = mode.hwm -> NotifyOne(c, "not_full")
       [] count <= mode.lwm /\ mode.lwm # mode.hwm -> NotifyAll(c, "not_full")
  /\ Notifies /\ Goto(c, "done") /\ SameList

-----------------------------------------------------------------------------
(* close(): a bounded queue locks both mutexes, an unbounded one none. *)

CloseCall(c) ==
  /\ Here(c, "idle")
  /\ IF Bounded
     THEN /\ holder["head"] = None
          /\ Locks([holder EXCEPT !["head"] = c])
          /\ Call(c, "close", "close_tail")
     ELSE Quietly /\ Call(c, "close", "close")
  /\ SameList

CloseTail(c) ==
  /\ Here(c, "close_tail")
  /\ holder["tail"] = None
  /\ Locks([holder EXCEPT !["tail"] = c])
  /\ Goto(c, "close")
  /\ SameList

MutCloseOne(c) ==
  /\ Here(c, "close")
  /\ open' = FALSE
  /\ NotifyOne(c, "not_empty") /\ Notifies
  /\ Goto(c, IF Bounded THEN "close_full" ELSE "done")
  /\ UNCHANGED <<mode, listVars>>
(* close_(), to the consumers and, if bounded, to the producers *)
Close(c) ==
  /\ Here(c, "close")
  /\ open' = FALSE
  /\ NotifyAll(c, "not_empty") /\ Notifies
  /\ Goto(c, IF Bounded THEN "close_full" ELSE "done")
  /\ UNCHANGED <<mode, listVars>>

CloseFull(c) ==
  /\ Here(c, "close_full")
  /\ NotifyAll(c, "not_full") /\ Notifies
  /\ Goto(c, "done")
  /\ SameList

-----------------------------------------------------------------------------
PushStep(c) ==
  PushLock(c) \/ Room(c) \/ Full(c) \/ Fill(c) \/ FillThrows(c) \/ Advance(c) \/ Signal(c)
PopStep(c) ==
  PopLock(c) \/ Look(c) \/ Empty(c) \/ Take(c) \/ TakeThrows(c) \/ Space(c)
CloseStep(c) == CloseTail(c) \/ Close(c) \/ CloseFull(c)
QueueStep(c) == PushStep(c) \/ PopStep(c) \/ CloseStep(c) \/ Waited(c) \/ Done(c)

BoundedPush(c) == mode.kind = "bounded" /\ PushStep(c)
BoundedPop(c) == mode.kind = "bounded" /\ PopStep(c)
UnboundedPush(c) == mode.kind = "unbounded" /\ PushStep(c)
UnboundedPop(c) == mode.kind = "unbounded" /\ PopStep(c)
UnboundedPtrPush(c) == mode.kind = "unbounded_ptr" /\ PushStep(c)
UnboundedPtrPop(c) == mode.kind = "unbounded_ptr" /\ PopStep(c)

WaitStep(c) == (CondStep(c) /\ (c \in Blocked => Turn(c))) /\ UNCHANGED queueVars

Next ==
  \/ \E c \in Context : \/ BoundedPush(c) \/ UnboundedPush(c) \/ UnboundedPtrPush(c)
                       \/ BoundedPop(c) \/ UnboundedPop(c) \/ UnboundedPtrPop(c)
                       \/ CloseStep(c) \/ Waited(c) \/ Done(c) \/ WaitStep(c)
  \/ (\E c \in Context : Reach(c)) /\ UNCHANGED queueVars
  \/ \E c \in mode.users \cap Producer : Push(c)
  \/ \E c \in mode.users \cap Consumer : Pop(c)
  \/ \E c \in mode.users \cap Closer : CloseCall(c)

Spec == QueueInit /\ [][Next]_vars

(* A call goes on unless it waits, a mutex is granted in turn, a thread    *)
(* runs every ready fiber in turn, and consumers keep calling.             *)
Fairness ==
  \A c \in Context : /\ SF_vars(QueueStep(c) \/ WaitStep(c))
                     /\ SF_vars(c \in mode.users \cap Consumer /\ Pop(c))
FairSpec == Spec /\ Fairness

-----------------------------------------------------------------------------

(* Nodes are numbered as they are made, and next leads from head_ to tail_ *)
(* in this order.                                                          *)
InOrder == head <= tail /\ \A n \in head..(tail - 1) : next[n] = n + 1

(* The values from head_ to tail_. *)
Items == [i \in 1..(tail - head) |-> va[head + i - 1]]

(* The queue is a Fifo of at most hwm_ values: each pop takes out what was *)
(* pushed first, also when calls of several threads overlap, and in the    *)
(* two queues of T gives it to its caller.                                 *)
F == INSTANCE Fifo WITH items <- Items, out <- got, None <- 0, Value <- 1..MaxPush,
                        bound <- IF Bounded THEN mode.hwm ELSE MaxPush,
                        delivers <- ByReference
ImplementsFifo == F!Spec /\ []InOrder

(* A notification of k is on its way to a context or has reached it. *)
Roused(k) == \E c \in Context : on[c] = k /\ (c \in Pending \/ "notify" \in why[c])

(* Nobody is between a change of the list and the notification of it. *)
Settled == ~mode.threads /\ failed = None /\ \A c \in Context : at[c] = "idle" \/ c \in Blocked

(* In one thread no consumer sleeps while there is a value for it, and     *)
(* none sleeps in a closed queue.  The second part leaves out what         *)
(* PopWaits refutes: bounded_queue::pop() sleeps only in a closed queue.   *)
ConsumersAwake ==
  Settled /\ waiting["not_empty"] # <<>> =>
    /\ IsEmpty \/ Roused("not_empty")
    /\ open \/ \A c \in Range(waiting["not_empty"]) : Bounded /\ op[c] = "pop"

(* In one thread, with values that do not throw, a push that found the     *)
(* queue full does not sleep on once fewer than lwm_ values are left: what *)
(* queue.qbk promises for push().                                          *)
ProducersAwake ==
  Settled /\ ~mode.throws /\ waiting["not_full"] # <<>> =>
    count >= mode.lwm \/ Roused("not_full")

(* In one thread what was pushed is popped, unless the program fails. *)
Drains == (~mode.threads /\ ~mode.throws) ~> (failed # None \/ Items = <<>>)

(* What queue.qbk says of pop() with values that do not throw.  If the     *)
(* queue is empty the fiber is suspended, so no assertion fails, until a   *)
(* value is pushed or the queue is closed.                                 *)
PopWaits ==
  /\ failed # "pop"
  /\ Settled /\ ~open => \A c \in Range(waiting["not_empty"]) : op[c] # "pop"

(* When success is returned the caller's variable has the value, and       *)
(* producers were woken only if fewer than lwm_ values were left.          *)
Succeeds(c) == at[c] = "done" /\ op[c] \in Pops /\ ~mode.throws
PopDelivers == \A c \in Context : Succeeds(c) => got[c] # 0
PushesHeldBack ==
  \A c \in Context : Succeeds(c) /\ ~mode.threads /\ pend[c] # <<>> => count < mode.lwm

(* bounded_queue::pop() breaks the first and the last of these, and the    *)
(* pops of unbounded_queue< T * > the second.                              *)
PopDocumented == PopWaits /\ PopDelivers /\ PushesHeldBack
=============================================================================
