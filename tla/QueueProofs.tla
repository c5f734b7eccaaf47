---------------------------- MODULE QueueProofs ----------------------------
(***************************************************************************)
(* The queues in one thread: for every number of producers, consumers and  *)
(* watermarks, nobody sleeps in a wait that a value or a free place, or    *)
(* close(), should have ended.  Every sleeper that matters is matched by a *)
(* context that was notified or is on its way to the list: the sets Takers *)
(* and Fillers are never smaller than the number of values, and of places. *)
(***************************************************************************)
EXTENDS Queue, ConditionProofs

USE ConditionAssumption, QueueAssumption

Single == ~mode.threads

Waiter == {"push", "push_wait_until", "pop", "pop_wait_until"}
Op == Pushes \cup Pops \cup {"none", "close"}
Where == {"idle", "start", "room", "full", "waited", "fill", "advance", "signal", "look",
          "empty", "take", "space", "close_tail", "close", "close_full", "done"}

QueueType ==
  /\ mode \in Mode
  /\ at \in [Context -> Where] /\ op \in [Context -> Op]
  /\ status \in [Context -> {"no_timeout", "timeout", "interrupted"}]
  /\ new \in [Context -> Nat] /\ next \in [Node -> Nat] /\ va \in [Node -> Nat]
  /\ nodes \in Nat /\ tail \in Nat /\ count \in Int

(* The operation a context is in, by where it is. *)
PlaceAt(c) ==
  /\ at[c] = "idle" <=> op[c] = "none"
  /\ at[c] = "start" => op[c] \in Pushes \cup Pops
  /\ at[c] \in {"room", "fill", "advance", "signal"} => op[c] \in Pushes
  /\ at[c] = "full" => op[c] \in Pushes \cap Waiter
  /\ at[c] \in {"look", "take", "space"} => op[c] \in Pops
  /\ at[c] = "empty" => op[c] \in Pops \cap Waiter
  /\ at[c] = "waited" => op[c] \in Waiter
  /\ cv[c] # "out" => at[c] = "waited"
  /\ pend[c] # <<>> => at[c] \in {"done", "close_full"}
  /\ on[c] = "not_empty" => op[c] \in Pops \cap Waiter
  /\ on[c] = "not_full" => op[c] \in Pushes \cap Waiter
PlaceInv == \A c \in Context : PlaceAt(c)

(* A wait that ended otherwise was not notified and is in no list. *)
StatusInv ==
  \A c \in Context :
    cv[c] # "out" /\ status[c] # "no_timeout" =>
      /\ cv[c] \in {"throw", "relock"} /\ c \notin Pending /\ "notify" \notin why[c]
      /\ \A k \in Cond : c \notin Range(waiting[k])

(* The pushes that have not made their node: MaxPush leaves room for them. *)
Unfilled ==
  {c \in Context : op[c] \in Pushes /\ at[c] \in {"start", "room", "full", "waited", "fill"}}
RoomInv == nodes + Cardinality(Unfilled) <= MaxPush + 1

(* try_push() locks head_mtx_ where the other pushes lock tail_mtx_, which *)
(* is no harm in one thread.                                               *)
Orderly == mode.threads /\ Bounded => ~mode.tries
TryInv == \A c \in Context : op[c] = "try_push" => Bounded /\ mode.tries

(* The wait of a call is over and it looks again. *)
Again(c) == at[c] = "waited" /\ cv[c] = "out" /\ status[c] = "no_timeout"

(* A push holds tail_mtx_ while it is at that end of the list, and a pop   *)
(* head_mtx_ while it is at the other.                                     *)
Inserts(c) == at[c] \in {"room", "full", "fill", "advance"} \/ (Again(c) /\ op[c] \in Pushes)
Removes(c) == at[c] \in {"look", "empty", "take"} \/ (Again(c) /\ op[c] \in Pops)
HoldInv ==
  /\ holder \in [Lock -> Context \cup {None}]
  /\ mode.threads /\ Orderly =>
       \A c \in Context : /\ Inserts(c) => holder["tail"] = c
                          /\ Removes(c) => holder["head"] = c

(* head_ reaches tail_ by count_ nodes with the values in the order of the *)
(* pushes, and only a push between its two assignments has a node behind   *)
(* tail_.                                                                  *)
ChainInv ==
  Orderly =>
    /\ head \in Nat /\ tail \in Node /\ 1 <= head /\ head <= tail /\ count = tail - head
    /\ \A n \in head..(tail - 1) : next[n] = n + 1 /\ va[n] = n
    /\ (\A c \in Context : at[c] # "advance") => nodes = tail
    /\ \A c \in Context : at[c] = "advance" =>
         /\ new[c] = tail + 1 /\ next[tail] = tail + 1 /\ va[tail] = tail
         /\ nodes = tail + 1 /\ nodes \in Node

(* A pop takes only if there is a value, and a push fills only if there is *)
(* room, also when the other end has moved since they looked.              *)
LimitInv ==
  Orderly => \A c \in Context :
    /\ at[c] = "take" => ~IsEmpty
    /\ at[c] \in {"fill", "advance"} /\ Bounded => count < mode.hwm

(* In one thread: what a call has seen is still so when it acts on it. *)
SawAt(c) ==
  /\ at[c] = "empty" => IsEmpty /\ (open \/ (Bounded /\ op[c] = "pop"))
  /\ at[c] = "full" => IsFull
  /\ at[c] = "take" => ~IsEmpty
  /\ at[c] = "space" => Bounded
SawInv == Single => \A c \in Context : SawAt(c)

(* In one thread: who sleeps in a closed queue is in bounded_queue::pop(). *)
ClosedInv ==
  Single /\ ~open => \A c \in Range(waiting["not_empty"]) : Bounded /\ op[c] = "pop"

(* A notification is on its way to a wait or has reached it. *)
Called(c, k) == on[c] = k /\ (c \in Pending \/ "notify" \in why[c])

(* Who takes a value or makes someone take it: while consumers sleep there *)
(* is one for every value, unless the queue is being closed.               *)
Fetching(c) == at[c] = "signal" \/ (op[c] \in Pops \cap Waiter /\ (at[c] \in {"look", "take"} \/ Again(c)))
Takers == {c \in Context : Called(c, "not_empty") \/ Fetching(c)}
TakersInv ==
  Single /\ failed = None /\ waiting["not_empty"] # <<>> =>
    (\E c \in Context : at[c] = "close") \/ count <= Cardinality(Takers)

(* Who fills a place or makes someone fill it: while producers sleep there *)
(* is one for every place if each pop notifies one; if a pop notifies all  *)
(* at lwm_, more values than that are left or that pop is at its end.      *)
Filling(c) ==
  at[c] = "space" \/ (op[c] \in Pushes \cap Waiter /\ (at[c] \in {"room", "fill", "advance"} \/ Again(c)))
Fillers == {c \in Context : Called(c, "not_full") \/ Filling(c)}
FillersInv ==
  Single /\ ~mode.throws /\ failed = None /\ waiting["not_full"] # <<>> =>
    /\ Bounded
    /\ mode.lwm = mode.hwm => mode.hwm - count <= Cardinality(Fillers)
    /\ mode.lwm # mode.hwm => count > mode.lwm \/ \E c \in Context : at[c] = "space"

-----------------------------------------------------------------------------
(* The steps of a call, by what they do. *)

Moves(c, o, p) == at' = [at EXCEPT ![c] = p] /\ op' = [op EXCEPT ![c] = o]
SameNodes == UNCHANGED <<open, count, head, tail, nodes, va, next, new>>
(* The conditions are left alone; c may have read how its wait ended. *)
Apart(c) ==
  /\ UNCHANGED <<waiting, on, cv, why, pend, failed>>
  /\ status' \in {status, [status EXCEPT ![c] = "no_timeout"]}

(* A call begins. *)
Begins(c) ==
  /\ at[c] = "idle" /\ SameNodes /\ Apart(c)
  /\ \/ \E o \in Pops : Moves(c, o, "start")
     \/ /\ nodes + Cardinality({d \in Context : op[d] \in Pushes}) <= MaxPush
        /\ \E o \in Pushes : Moves(c, o, "start") /\ (o = "try_push" => Bounded /\ mode.tries)
     \/ \E p \in {"close", "close_tail"} : Moves(c, "close", p)

(* A call returns. *)
Ends(c) ==
  /\ SameNodes /\ Apart(c) /\ Moves(c, "none", "idle")
  /\ \/ at[c] = "done"
     \/ at[c] = "start" /\ op[c] \in Pushes
     \/ at[c] = "room" /\ op[c] = "try_push"
     \/ at[c] = "waited" /\ status[c] # "no_timeout"
     \/ at[c] = "look" /\ IsEmpty

(* A call goes on. *)
Goes(c) ==
  /\ SameNodes /\ Apart(c)
  /\ \E p \in Where :
       /\ Moves(c, op[c], p)
       /\ \/ at[c] = "start" /\ op[c] \in Pushes /\ p = "room"
          \/ at[c] = "start" /\ op[c] \in Pops /\ p = "look"
          \/ at[c] = "waited" /\ op[c] \in Pushes /\ p = "room"
          \/ at[c] = "waited" /\ op[c] \notin Pushes /\ p = "look"
          \/ at[c] = "room" /\ ~IsFull /\ p = "fill"
          \/ at[c] = "room" /\ IsFull /\ op[c] # "try_push" /\ p = "full"
          \/ at[c] = "fill" /\ mode.throws /\ p \in {"done", "close"}
          \/ at[c] = "look" /\ ~IsEmpty /\ p = "take"
          \/ /\ at[c] = "look" /\ IsEmpty /\ p = "empty" /\ op[c] # "try_pop"
             /\ open \/ (Bounded /\ op[c] = "pop")
          \/ /\ at[c] = "take" /\ mode.throws
             /\ p = "close" \/ (p = "done" /\ op[c] = "try_pop")
          \/ at[c] = "close_tail" /\ p = "close"

(* A call suspends in one of the waits. *)
Suspends(c, k) ==
  /\ SameNodes /\ Moves(c, op[c], "waited")
  /\ at[c] = IF k = "not_empty" THEN "empty" ELSE "full"
  /\ \E p \in {"wait", "wait_until"} : EnterWait(c, k, p)

(* The assertion of bounded_queue::pop() fails. *)
Fails(c) ==
  /\ at[c] = "look" /\ SameNodes /\ UNCHANGED <<at, op>> /\ Abort("pop")

Row(c) ==
  /\ Free(c) /\ Turn(c) /\ UNCHANGED mode
  /\ \/ Begins(c) \/ Ends(c) \/ Goes(c) \/ Fails(c)
     \/ Suspends(c, "not_full") \/ Suspends(c, "not_empty")
     \/ Fill(c) \/ Advance(c) \/ Signal(c) \/ Take(c) \/ Space(c) \/ Close(c) \/ CloseFull(c)

LEMMA StaysApart ==
  ASSUME NEW c, Quietly \/ (\E h : Locks(h)) \/ (\E h : Reads(c, h))
  PROVE  Apart(c)
BY Zenon DEF Quietly, Locks, Reads, Apart, condVars

LEMMA GoesTo ==
  ASSUME QueueType, NEW c \in Context, NEW p, Goto(c, p)
  PROVE  Moves(c, op[c], p)
BY Zenon DEF QueueType, Goto, Moves

LEMMA Returns ==
  ASSUME NEW c \in Context, Return(c), SameList
  PROVE  SameNodes /\ Apart(c) /\ Moves(c, "none", "idle") /\ UNCHANGED mode
BY StaysApart, Zenon DEF Return, Call, Moves, SameList, SameNodes, listVars

LEMMA ListSame ==
  ASSUME SameList
  PROVE  SameNodes /\ UNCHANGED mode
BY Zenon DEF SameList, SameNodes, listVars

LEMMA BeginRows ==
  ASSUME QueueType, NEW c \in Context, Push(c) \/ Pop(c) \/ CloseCall(c)
  PROVE  Row(c)
<1>4. \/ \E o \in Pops : Moves(c, o, "start")
      \/ /\ nodes + Cardinality({d \in Context : op[d] \in Pushes}) <= MaxPush
         /\ \E o \in Pushes : Moves(c, o, "start") /\ (o = "try_push" => Bounded /\ mode.tries)
      \/ \E p \in {"close", "close_tail"} : Moves(c, "close", p)
  <2>1. CASE Push(c)
    BY <2>1, Zenon DEF Push, PushOps, Pushes, Call, Moves
  <2>2. CASE Pop(c)
    BY <2>2, Zenon DEF Pop, PopOps, Pops, Call, Moves
  <2>3. CASE CloseCall(c)
    BY <2>3, Zenon DEF CloseCall, Call, Moves
  <2> QED
    BY <2>1, <2>2, <2>3, Zenon
<1> QED
  BY <1>4, ListSame, StaysApart, Zenon DEF Row, Begins, Push, Pop, CloseCall, Here

LEMMA PushRows ==
  ASSUME QueueType, PlaceInv, NEW c \in Context, PushStep(c)
  PROVE  Row(c)
<1>1. CASE PushLock(c)
  <2>0. Free(c) /\ Turn(c) /\ at[c] = "start" /\ op[c] \in Pushes /\ SameList
    BY <1>1, Zenon DEF PushLock, Here
  <2>1. CASE open
    <3>1. Goto(c, "room") /\ \E h : Locks(h)
      BY <1>1, <2>1, Zenon DEF PushLock
    <3> QED
      BY <2>0, <3>1, StaysApart, GoesTo, ListSame, Zenon DEF Row, Goes, Where
  <2>2. CASE ~open
    BY <2>0, Returns, <1>1, <2>2, Zenon DEF Row, Ends, PushLock
  <2> QED
    BY <2>1, <2>2, Zenon
<1>2. CASE Room(c)
  <2>0. Free(c) /\ Turn(c) /\ at[c] = "room" /\ SameList
    BY <1>2, Zenon DEF Room, Here
  <2>1. CASE ~IsFull
    <3>1. Goto(c, "fill") /\ Quietly
      BY <1>2, <2>1, Zenon DEF Room
    <3> QED
      BY <2>0, <2>1, <3>1, StaysApart, GoesTo, ListSame, Zenon DEF Row, Goes, Where
  <2>2. CASE IsFull /\ op[c] = "try_push"
    BY <2>0, <2>2, Returns, <1>2, Zenon DEF Row, Ends, Room
  <2>3. CASE IsFull /\ op[c] # "try_push"
    <3>1. Goto(c, "full") /\ Quietly
      BY <1>2, <2>3, Zenon DEF Room
    <3> QED
      BY <2>0, <2>3, <3>1, StaysApart, GoesTo, ListSame, Zenon DEF Row, Goes, Where
  <2> QED
    BY <2>1, <2>2, <2>3, Zenon
<1>3. CASE Full(c)
  <2>1. /\ Free(c) /\ Turn(c) /\ at[c] = "full" /\ SameList /\ Goto(c, "waited")
        /\ \E p \in {"wait", "wait_until"} : EnterWait(c, "not_full", p)
    BY <1>3, Zenon DEF Full, Here
  <2> QED
    BY <2>1, GoesTo, ListSame, Zenon DEF Row, Suspends
<1>4. CASE FillThrows(c)
  <2>1. /\ Free(c) /\ Turn(c) /\ at[c] = "fill" /\ SameList /\ Quietly /\ mode.throws
        /\ \E p \in {"done", "close"} : Goto(c, p)
    BY <1>4, Zenon DEF FillThrows, Here
  <2> QED
    BY <2>1, StaysApart, GoesTo, ListSame, Zenon DEF Row, Goes, Where
<1>5. CASE Fill(c) \/ Advance(c) \/ Signal(c)
  BY <1>5, Zenon DEF Row, Fill, Advance, Signal, Here, SameList
<1> QED
  BY <1>1, <1>2, <1>3, <1>4, <1>5, Zenon DEF PushStep

LEMMA PopRows ==
  ASSUME QueueType, NEW c \in Context, PopStep(c)
  PROVE  Row(c)
<1>1. CASE PopLock(c)
  BY StaysApart, GoesTo, ListSame, <1>1, Zenon DEF Row, Goes, Where, PopLock, Here
<1>2. CASE Look(c)
  <2>0. Free(c) /\ Turn(c) /\ at[c] = "look" /\ SameList
    BY <1>2, Zenon DEF Look, Here
  <2>1. CASE ~IsEmpty
    <3>1. Goto(c, "take") /\ Quietly
      BY <1>2, <2>1, Zenon DEF Look
    <3> QED
      BY <2>0, <2>1, <3>1, StaysApart, GoesTo, ListSame, Zenon DEF Row, Goes, Where
  <2>2. CASE IsEmpty /\ op[c] = "pop" /\ Bounded /\ open
    BY <2>0, <2>2, ListSame, <1>2, Zenon DEF Row, Fails, Look
  <2>3. CASE IsEmpty /\ op[c] = "pop" /\ Bounded /\ ~open
    <3>1. Goto(c, "empty") /\ Quietly
      BY <1>2, <2>3, Zenon DEF Look
    <3> QED
      BY <2>0, <2>3, <3>1, StaysApart, GoesTo, ListSame, Zenon DEF Row, Goes, Where
  <2>4. CASE IsEmpty /\ (op[c] # "pop" \/ ~Bounded) /\ open /\ op[c] # "try_pop"
    <3>1. Goto(c, "empty") /\ Quietly
      BY <1>2, <2>4, Zenon DEF Look
    <3> QED
      BY <2>0, <2>4, <3>1, StaysApart, GoesTo, ListSame, Zenon DEF Row, Goes, Where
  <2>5. CASE IsEmpty /\ (op[c] # "pop" \/ ~Bounded) /\ ~(open /\ op[c] # "try_pop")
    <3>1. Return(c)
      BY <1>2, <2>5, Zenon DEF Look
    <3> QED
      BY <2>0, <2>5, <3>1, Returns, Zenon DEF Row, Ends
  <2> QED
    BY <2>1, <2>2, <2>3, <2>4, <2>5, Zenon
<1>3. CASE Empty(c)
  BY GoesTo, ListSame, <1>3, Zenon DEF Row, Suspends, Empty, Here
<1>4. CASE TakeThrows(c)
  BY StaysApart, GoesTo, ListSame, <1>4, Zenon DEF Row, Goes, Where, TakeThrows, Here
<1>5. CASE Take(c) \/ Space(c)
  <2>1. Free(c) /\ Turn(c) /\ UNCHANGED mode
    BY <1>5, Zenon DEF Take, Space, Here, SameList
  <2> QED
    BY <1>5, <2>1, Zenon DEF Row
<1> QED
  BY <1>1, <1>2, <1>3, <1>4, <1>5, Zenon DEF PopStep

LEMMA OtherRows ==
  ASSUME QueueType, NEW c \in Context, CloseStep(c) \/ Waited(c) \/ Done(c)
  PROVE  Row(c)
<1>1. CASE CloseTail(c)
  BY StaysApart, GoesTo, ListSame, <1>1, Zenon DEF Row, Goes, Where, CloseTail, Here
<1>2. CASE Close(c) \/ CloseFull(c)
  BY <1>2, Zenon DEF Row, Close, CloseFull, Here, SameList
<1>3. CASE Waited(c)
  <2>0. Free(c) /\ Turn(c) /\ at[c] = "waited" /\ SameList
    BY <1>3, Zenon DEF Waited, Here
  <2>1. CASE status[c] # "no_timeout"
    BY <1>3, <2>0, <2>1, Returns, Zenon DEF Waited, Row, Ends
  <2>2. CASE status[c] = "no_timeout"
    <3>1. /\ Quietly
          /\ \/ op[c] \in Pushes /\ Goto(c, "room")
             \/ op[c] \notin Pushes /\ Goto(c, "look")
      BY <1>3, <2>2, Zenon DEF Waited
    <3> QED
      BY <2>0, <3>1, StaysApart, GoesTo, ListSame, Zenon DEF Row, Goes, Where
  <2> QED
    BY <2>1, <2>2, Zenon
<1>4. CASE Done(c)
  BY Returns, <1>4, Zenon DEF Row, Ends, Done, Here
<1> QED
  BY <1>1, <1>2, <1>3, <1>4, Zenon DEF CloseStep

(* What a step of Next is. *)
Waits(c) == (CondStep(c) /\ (c \in Blocked => Turn(c))) \/ Pass(c) \/ Interrupt(c)

LEMMA Steps ==
  ASSUME Next
  PROVE  \E c \in Context : \/ QueueStep(c) \/ Push(c) \/ Pop(c) \/ CloseCall(c)
                            \/ Waits(c) /\ UNCHANGED queueVars
<1>1. \/ \E c \in Context : PushStep(c) \/ PopStep(c) \/ CloseStep(c) \/ Waited(c) \/ Done(c)
      \/ \E c \in Context : Push(c) \/ Pop(c) \/ CloseCall(c)
      \/ \E c \in Context : WaitStep(c) \/ (Reach(c) /\ UNCHANGED queueVars)
  BY ZenonT(30) DEF Next, BoundedPush, BoundedPop, UnboundedPush, UnboundedPop, UnboundedPtrPush,
                    UnboundedPtrPop
<1> QED
  BY <1>1, Zenon DEF QueueStep, WaitStep, Reach, Waits

LEMMA StepRows ==
  ASSUME QueueType, PlaceInv, NEW c \in Context,
         QueueStep(c) \/ Push(c) \/ Pop(c) \/ CloseCall(c)
  PROVE  Row(c)
BY PushRows, PopRows, OtherRows, BeginRows, Zenon DEF QueueStep

LEMMA NextRows ==
  ASSUME QueueType, PlaceInv, Next
  PROVE  \E c \in Context : Row(c) \/ (Waits(c) /\ UNCHANGED queueVars)
BY Steps, StepRows, Zenon

-----------------------------------------------------------------------------
(* A suspension enters waiting_: its assertion does not fail. *)
LEMMA SuspendsBy ==
  ASSUME CondInv, NEW c \in Context, Free(c), NEW k \in Cond, Suspends(c, k)
  PROVE  \E p \in {"wait", "wait_until"} :
           /\ waiting' = [waiting EXCEPT ![k] = Append(@, c)] /\ on' = [on EXCEPT ![c] = k]
           /\ cv' = [cv EXCEPT ![c] = p] /\ why' = [why EXCEPT ![c] = {}]
           /\ status' = [status EXCEPT ![c] = "no_timeout"] /\ UNCHANGED <<pend, failed>>
<1>1. PICK p \in {"wait", "wait_until"} : EnterWait(c, k, p)
  BY Zenon DEF Suspends
<1>2. c \notin Range(waiting[k])
  BY OutUnlisted, Zenon DEF CondInv, Free
<1> QED
  BY <1>1, <1>2, Zenon DEF EnterWait

(* What the end of a pop of a bounded queue notifies. *)
LEMMA SpaceBy ==
  ASSUME QueueType, NEW c \in Context, Space(c)
  PROVE  \/ count > mode.lwm /\ UNCHANGED <<pend, waiting>>
         \/ mode.lwm = mode.hwm /\ NotifyOne(c, "not_full")
         \/ mode.lwm # mode.hwm /\ NotifyAll(c, "not_full")
<1>0. count \in Int /\ mode.lwm \in Nat
  BY Zenon DEF QueueType
<1>1. CASE count > mode.lwm
  BY <1>0, <1>1, Zenon DEF Space
<1>2. CASE count <= mode.lwm /\ mode.lwm = mode.hwm
  BY <1>0, <1>2, Zenon DEF Space
<1>3. CASE count <= mode.lwm /\ mode.lwm # mode.hwm
  BY <1>0, <1>3, Zenon DEF Space
<1> QED
  BY <1>0, <1>1, <1>2, <1>3

(* A step that leaves the waits of the others. *)
LEMMA RowOthers ==
  ASSUME QueueType, CondInv, NEW c \in Context, Row(c), NEW d \in Context \ {c}
  PROVE  /\ at'[d] = at[d] /\ op'[d] = op[d] /\ status'[d] = status[d] /\ new'[d] = new[d]
         /\ cv'[d] = cv[d] /\ on'[d] = on[d] /\ why'[d] = why[d] /\ pend'[d] = pend[d]
<1>0. CondType
  BY Zenon DEF CondInv
<1> USE <1>0 DEF CondType
<1>7. /\ at \in [Context -> Where] /\ op \in [Context -> Op] /\ new \in [Context -> Nat]
      /\ status \in [Context -> {"no_timeout", "timeout", "interrupted"}]
  BY Zenon DEF QueueType
<1> USE <1>7
<1>1. CASE Begins(c) \/ Ends(c) \/ Goes(c)
  BY <1>1 DEF Begins, Ends, Goes, Moves, SameNodes, Apart
<1>2. CASE Fails(c)
  BY <1>2, Zenon DEF Fails, SameNodes, Abort
<1>3. CASE Suspends(c, "not_full") \/ Suspends(c, "not_empty")
  <2>1. PICK k \in Cond : Suspends(c, k)
    BY <1>3, Zenon
  <2>2. Free(c)
    BY Zenon DEF Row
  <2>4. \E p \in {"wait", "wait_until"} :
          /\ on' = [on EXCEPT ![c] = k] /\ cv' = [cv EXCEPT ![c] = p] /\ UNCHANGED pend
          /\ why' = [why EXCEPT ![c] = {}] /\ status' = [status EXCEPT ![c] = "no_timeout"]
    BY <2>1, <2>2, SuspendsBy, Zenon
  <2> QED
    BY <2>2, <2>4, <2>1 DEF Moves, SameNodes, Suspends
<1>4. CASE Fill(c) \/ Advance(c) \/ Take(c)
  BY <1>4, Zenon DEF Fill, Advance, Take, Goto, Quietly, Locks, condVars
<1>5. CASE Signal(c) \/ Close(c) \/ CloseFull(c)
  BY <1>5 DEF Signal, Close, CloseFull, Goto, Notifies, NotifyOne, NotifyAll, SameList, listVars
<1>6. CASE Space(c)
  <2>0. UNCHANGED pend \/ NotifyOne(c, "not_full") \/ NotifyAll(c, "not_full")
    BY <1>6, SpaceBy, Zenon DEF QueueType
  <2>1. pend'[d] = pend[d]
    BY <2>0, Zenon DEF NotifyOne, NotifyAll
  <2> QED
    BY <1>6, <2>1, Zenon DEF Space, Goto, Notifies, SameList, listVars
<1> QED
  BY <1>1, <1>2, <1>3, <1>4, <1>5, <1>6 DEF Row

LEMMA RowClient ==
  ASSUME QueueType, NEW c \in Context, Row(c)
  PROVE  Client(c)
<1>0. Free(c)
  BY Zenon DEF Row
<1>1. CASE Begins(c) \/ Ends(c) \/ Goes(c)
  BY <1>1, Zenon DEF Begins, Ends, Goes, Apart, Client, Leaves, waitVars
<1>2. CASE Fails(c)
  BY <1>2, Zenon DEF Fails, Abort, Client, Leaves, waitVars
<1>3. CASE Suspends(c, "not_full") \/ Suspends(c, "not_empty")
  BY <1>0, <1>3, Zenon DEF Suspends, Client, Enters
<1>4. CASE Fill(c) \/ Advance(c) \/ Take(c)
  BY <1>4, LeavesBy, Zenon DEF Client, Fill, Advance, Take
<1>5. CASE Signal(c) \/ Close(c) \/ CloseFull(c)
  BY <1>0, <1>5, Zenon DEF Signal, Close, CloseFull, Notifies, Client, Rouses
<1>6. CASE Space(c)
  <2>1. \/ UNCHANGED <<pend, waiting>>
        \/ NotifyOne(c, "not_full") \/ NotifyAll(c, "not_full")
    BY <1>6, SpaceBy, Zenon
  <2> QED
    BY <1>0, <1>6, <2>1, Zenon DEF Space, Notifies, Client, Rouses, Leaves, waitVars
<1> QED
  BY <1>1, <1>2, <1>3, <1>4, <1>5, <1>6, Zenon DEF Row

(* Where a step takes its context. *)
LEMMA RowType ==
  ASSUME QueueType, CondInv, NEW c \in Context, Row(c)
  PROVE  QueueType'
<1> USE DEF QueueType, Where, Op
<1>1. CASE Begins(c) \/ Ends(c)
  BY <1>1 DEF Begins, Ends, Moves, SameNodes, Apart, Row
<1>2. CASE Goes(c)
  BY <1>2 DEF Goes, Moves, SameNodes, Apart, Row
<1>3. CASE Fails(c)
  BY <1>3, Zenon DEF Fails, SameNodes, Abort, Row
<1>4. CASE Suspends(c, "not_full") \/ Suspends(c, "not_empty")
  <2>1. PICK k \in Cond : Suspends(c, k)
    BY <1>4, Zenon
  <2>2. Free(c) /\ UNCHANGED mode
    BY Zenon DEF Row
  <2>3. Moves(c, op[c], "waited") /\ SameNodes
    BY <2>1, Zenon DEF Suspends
  <2>4. \E p \in {"wait", "wait_until"} :
          /\ on' = [on EXCEPT ![c] = k] /\ cv' = [cv EXCEPT ![c] = p] /\ UNCHANGED pend
          /\ why' = [why EXCEPT ![c] = {}] /\ status' = [status EXCEPT ![c] = "no_timeout"]
    BY <2>1, <2>2, SuspendsBy, Zenon
  <2> QED
    BY <2>2, <2>3, <2>4 DEF Moves, SameNodes
<1>5. CASE Fill(c)
  <2>0. /\ nodes' = nodes + 1 /\ new' = [new EXCEPT ![c] = nodes + 1]
        /\ next' = [next EXCEPT ![tail] = nodes + 1] /\ va' = [va EXCEPT ![tail] = nodes]
    BY <1>5, Zenon DEF Fill
  <2>1. nodes' \in Nat /\ new' \in [Context -> Nat]
        /\ next' \in [Node -> Nat] /\ va' \in [Node -> Nat]
    <3>1. nodes \in Nat /\ nodes + 1 \in Nat
      OBVIOUS
    <3>3. next' \in [Node -> Nat] /\ va' \in [Node -> Nat]
      BY <2>0, <3>1, Zenon
    <3> QED
      BY <2>0, <3>1, <3>3, Zenon
  <2> QED
    BY <2>1, <1>5, Zenon DEF Goto, Fill, Quietly, condVars
<1>6. CASE Advance(c)
  BY <1>6 DEF Advance, Goto, Quietly, Locks, condVars
<1>7. CASE Take(c)
  BY <1>7 DEF Take, Quietly, condVars
<1>8. CASE Signal(c) \/ Close(c) \/ CloseFull(c) \/ Space(c)
  <2>1. \E p \in {"done", "close_full"} : Goto(c, p)
    BY <1>8, Zenon DEF Signal, Close, CloseFull, Space
  <2>2. UNCHANGED <<mode, status, new, next, va, nodes, tail, count>>
    BY <1>8, Zenon DEF Signal, Close, CloseFull, Space, Notifies, SameList, listVars
  <2> QED
    BY <2>1, <2>2 DEF Goto
<1> QED
  BY <1>1, <1>2, <1>3, <1>4, <1>5, <1>6, <1>7, <1>8, Zenon DEF Row

LEMMA RowPlace ==
  ASSUME QueueType, CondInv, PlaceInv, NEW c \in Context, Row(c)
  PROVE  PlaceInv'
<1>1. \A d \in Context \ {c} : PlaceAt(d)'
  BY RowOthers DEF PlaceInv, PlaceAt
<1>2. /\ cv[c] = "out" /\ pend[c] = <<>> /\ on[c] = None /\ PlaceAt(c)
      /\ at[c] \in Where /\ op[c] \in Op /\ None \notin Cond
  BY Zenon DEF Row, Free, CondInv, CallInv, PlaceInv, QueueType
<1>3. DOMAIN at = Context /\ DOMAIN op = Context /\ DOMAIN pend = Context
  BY Zenon DEF QueueType, CondInv, CondType
<1> USE DEF Pushes, Pops, Waiter
<1>4. CASE Begins(c) \/ Ends(c) \/ Fails(c)
  <2>1. UNCHANGED <<cv, on, pend>>
    BY <1>4, Zenon DEF Begins, Ends, Apart, Fails, Abort
  <2>2. \/ at'[c] = "start" /\ op'[c] \in Pushes \cup Pops
        \/ at'[c] \in {"close", "close_tail"} /\ op'[c] = "close"
        \/ at'[c] = "idle" /\ op'[c] = "none"
        \/ at'[c] = at[c] /\ op'[c] = op[c]
    BY <1>3, <1>4, Zenon DEF Begins, Ends, Fails, Moves
  <2>3. PlaceAt(c)'
    BY <1>2, <2>1, <2>2, Zenon DEF PlaceAt
  <2> QED
    BY <1>1, <2>3, Zenon DEF PlaceInv
<1>5. CASE Goes(c)
  <2>1. UNCHANGED <<cv, on, pend>> /\ op'[c] = op[c]
    BY <1>3, <1>5, Zenon DEF Goes, Apart, Moves
  <2>2. \/ at[c] = "start" /\ op[c] \in Pushes /\ at'[c] = "room"
        \/ at[c] = "start" /\ op[c] \in Pops /\ at'[c] = "look"
        \/ at[c] = "waited" /\ op[c] \in Pushes /\ at'[c] = "room"
        \/ at[c] = "waited" /\ op[c] \notin Pushes /\ at'[c] = "look"
        \/ at[c] = "room" /\ at'[c] = "fill"
        \/ at[c] = "room" /\ op[c] # "try_push" /\ at'[c] = "full"
        \/ at[c] = "fill" /\ at'[c] \in {"done", "close"}
        \/ at[c] = "look" /\ at'[c] = "take"
        \/ at[c] = "look" /\ op[c] # "try_pop" /\ at'[c] = "empty"
        \/ at[c] = "take" /\ at'[c] \in {"close", "done"}
        \/ at[c] = "close_tail" /\ at'[c] = "close"
    BY <1>3, <1>5 DEF Goes, Moves
  <2>3. PlaceAt(c)'
    BY <1>2, <2>1, <2>2, Zenon DEF PlaceAt
  <2> QED
    BY <1>1, <2>3, Zenon DEF PlaceInv
<1>6. CASE Suspends(c, "not_full") \/ Suspends(c, "not_empty")
  <2>1. PICK k \in Cond : Suspends(c, k)
    BY <1>6, Zenon
  <2>2. op'[c] = op[c] /\ at'[c] = "waited" /\ at[c] = IF k = "not_empty" THEN "empty" ELSE "full"
    BY <1>3, <2>1, Zenon DEF Suspends, Moves
  <2>3. on'[c] = k /\ UNCHANGED pend
    BY <2>1, SuspendsBy DEF Row, CondInv, CondType
  <2>4. PlaceAt(c)'
    BY <1>2, <2>2, <2>3, Zenon DEF PlaceAt
  <2> QED
    BY <1>1, <2>4, Zenon DEF PlaceInv
<1>7. CASE Fill(c) \/ Advance(c) \/ Take(c)
  <2>1. UNCHANGED <<cv, on, pend>> /\ op'[c] = op[c]
    BY <1>3, <1>7, Zenon DEF Fill, Advance, Take, Goto, Quietly, Locks, condVars
  <2>2. \/ at[c] = "fill" /\ at'[c] = "advance"
        \/ at[c] = "advance" /\ at'[c] = "signal"
        \/ at[c] = "take" /\ at'[c] \in {"space", "done"}
    BY <1>3, <1>7, Zenon DEF Fill, Advance, Take, Here, Goto
  <2>3. PlaceAt(c)'
    BY <1>2, <2>1, <2>2, Zenon DEF PlaceAt
  <2> QED
    BY <1>1, <2>3, Zenon DEF PlaceInv
<1>8. CASE Signal(c) \/ Close(c) \/ CloseFull(c) \/ Space(c)
  <2>1. UNCHANGED <<cv, on>> /\ op'[c] = op[c]
    BY <1>3, <1>8, Zenon DEF Signal, Close, CloseFull, Space, Goto, Notifies
  <2>2. at'[c] \in {"done", "close_full"} /\ at[c] # "idle"
    BY <1>3, <1>8, Zenon DEF Signal, Close, CloseFull, Space, Here, Goto
  <2>3. PlaceAt(c)'
    BY <1>2, <2>1, <2>2, Zenon DEF PlaceAt
  <2> QED
    BY <1>1, <2>3, Zenon DEF PlaceInv
<1> QED
  BY <1>4, <1>5, <1>6, <1>7, <1>8, Zenon DEF Row

-----------------------------------------------------------------------------
(* Notifications: whom they are on their way to. *)

LEMMA PendingBy ==
  ASSUME CondInv, NEW c \in Context, pend[c] = <<>>, \A d \in Context \ {c} : pend'[d] = pend[d]
  PROVE  Pending' = Pending \cup Range(pend'[c])
<1>1. Range(pend[c]) = {}
  BY EmptyRange, Zenon
<1>2. ASSUME NEW x \in Pending PROVE x \in Pending'
  <2>1. PICK d \in Context : x \in Range(pend[d])
    BY <1>2, Zenon DEF Pending
  <2> QED
    BY <1>1, <2>1, Zenon DEF Pending
<1>3. ASSUME NEW x \in Pending' PROVE x \in Pending \cup Range(pend'[c])
  <2>1. PICK d \in Context : x \in Range(pend'[d])
    BY <1>3, Zenon DEF Pending
  <2> QED
    BY <2>1, Zenon DEF Pending
<1>4. Range(pend'[c]) \subseteq Pending'
  BY Zenon DEF Pending
<1> QED
  BY <1>2, <1>3, <1>4, Zenon

LEMMA Told ==
  ASSUME CondInv, NEW c \in Context, pend[c] = <<>>, NEW k \in Cond,
         NotifyOne(c, k) \/ NotifyAll(c, k)
  PROVE  /\ Pending \subseteq Pending' /\ Pending' \subseteq Pending \cup Range(waiting[k])
         /\ Range(waiting'[k]) \subseteq Range(waiting[k])
         /\ \A j \in Cond \ {k} : waiting'[j] = waiting[j]
         /\ waiting[k] # <<>> => \E x \in Range(waiting[k]) : x \in Pending'
         /\ waiting[k] = <<>> => waiting'[k] = <<>>
         /\ NotifyAll(c, k) => waiting'[k] = <<>>
<1> DEFINE w == waiting[k]
<1>1. w \in Seq(Context) /\ IsInjective(w) /\ DOMAIN waiting = Cond /\ DOMAIN pend = Context
  BY Zenon DEF CondInv, CondType, ListInv
<1>3. Pending' = Pending \cup Range(pend'[c])
  BY PendingBy, <1>1, Zenon DEF NotifyOne, NotifyAll
<1>4. \A j \in Cond \ {k} : waiting'[j] = waiting[j]
  BY <1>1, Zenon DEF NotifyOne, NotifyAll
<1>5. CASE NotifyOne(c, k)
  <2>1. pend'[c] = First(w) /\ waiting'[k] = Rest(w)
    BY <1>1, <1>5, Zenon DEF NotifyOne
  <2>2. Range(First(w)) \subseteq Range(w) /\ Range(Rest(w)) \subseteq Range(w)
    BY <1>1, FirstRest
  <2>3. w # <<>> => Head(w) \in Range(First(w))
    BY DEF First, Range
  <2>4. w = <<>> => Rest(w) = <<>>
    BY Zenon DEF Rest
  <2>5. ASSUME NotifyAll(c, k) PROVE waiting'[k] = <<>>
    BY <1>1, <2>5, Zenon DEF NotifyAll
  <2> QED
    BY <1>3, <1>4, <2>1, <2>2, <2>3, <2>4, <2>5, Zenon
<1>6. CASE NotifyAll(c, k)
  <2>1. pend'[c] = w /\ waiting'[k] = <<>>
    BY <1>1, <1>6, Zenon DEF NotifyAll
  <2>2. w # <<>> => \E x \in Range(w) : TRUE
    BY <1>1, RangeTyped
  <2> QED
    BY <1>3, <1>4, <2>1, <2>2, EmptyRange, Zenon
<1> QED
  BY <1>5, <1>6, Zenon

(* What a step leaves of the waits of the others. *)
LEMMA RowLists ==
  ASSUME QueueType, CondInv, NEW c \in Context, Row(c)
  PROVE  /\ Pending \subseteq Pending' /\ Pending' \subseteq Pending \cup UNION {Range(waiting[k]) : k \in Cond}
         /\ \A k \in Cond : Range(waiting'[k]) \subseteq Range(waiting[k]) \cup {c}
<1>0. pend[c] = <<>> /\ Free(c)
  BY Zenon DEF Row, Free
<1>1. CASE UNCHANGED <<waiting, pend>>
  BY <1>1, Zenon DEF Pending
<1>2. ASSUME NEW k \in Cond, NotifyOne(c, k) \/ NotifyAll(c, k)
      PROVE  /\ Pending \subseteq Pending'
             /\ Pending' \subseteq Pending \cup UNION {Range(waiting[j]) : j \in Cond}
             /\ \A j \in Cond : Range(waiting'[j]) \subseteq Range(waiting[j])
  BY <1>0, <1>2, Told
<1>3. ASSUME NEW k \in Cond, Suspends(c, k)
      PROVE  UNCHANGED Pending /\ \A j \in Cond : Range(waiting'[j]) \subseteq Range(waiting[j]) \cup {c}
  <2>1. waiting' = [waiting EXCEPT ![k] = Append(@, c)] /\ UNCHANGED pend
    BY <1>0, <1>3, SuspendsBy, Zenon
  <2> QED
    BY <2>1, AppendRange DEF Pending, CondInv, CondType
<1>4. \/ UNCHANGED <<waiting, pend>>
      \/ \E k \in Cond : NotifyOne(c, k) \/ NotifyAll(c, k)
      \/ \E k \in Cond : Suspends(c, k)
  <2>1. CASE Space(c)
    BY <2>1, SpaceBy, Zenon
  <2>2. CASE Begins(c) \/ Ends(c) \/ Goes(c) \/ Fails(c)
    BY <2>2, Zenon DEF Begins, Ends, Goes, Apart, Fails, Abort
  <2>3. CASE Fill(c) \/ Advance(c) \/ Take(c)
    BY <2>3, Zenon DEF Fill, Advance, Take, Quietly, Locks, condVars
  <2>4. CASE Signal(c) \/ Close(c) \/ CloseFull(c)
    BY <2>4, Zenon DEF Signal, Close, CloseFull
  <2> QED
    BY <2>1, <2>2, <2>3, <2>4, Zenon DEF Row
<1> QED
  BY <1>1, <1>2, <1>3, <1>4, Zenon

LEMMA RowStatus ==
  ASSUME QueueType, CondInv, StatusInv, NEW c \in Context, Row(c)
  PROVE  StatusInv'
<1>2. cv'[c] # "out" => status'[c] = "no_timeout"
  <2>0. cv[c] = "out" /\ Free(c) /\ DOMAIN status = Context
    BY Zenon DEF Row, Free, QueueType
  <2>1. CASE UNCHANGED cv
    BY <2>0, <2>1, Zenon
  <2>2. CASE Suspends(c, "not_full") \/ Suspends(c, "not_empty")
    <3>1. PICK k \in Cond : Suspends(c, k)
      BY <2>2, Zenon
    <3> QED
      BY <2>0, <3>1, SuspendsBy
  <2> QED
    BY <2>1, <2>2, Zenon DEF Row, Begins, Ends, Goes, Fails, Apart, Abort, Fill, Advance, Take, Signal,
         Close, CloseFull, Space, Quietly, Locks, Notifies, condVars
<1> QED
  BY <1>2, RowOthers, RowLists DEF StatusInv

(* What a step inside a wait leaves. *)
LEMMA WaitsBy ==
  ASSUME CondInv, NEW c \in Context, Waits(c),
         status \in [Context -> {"no_timeout", "timeout", "interrupted"}]
  PROVE  /\ \A d \in Context : /\ cv[d] = "out" => cv'[d] = "out" /\ status'[d] = status[d]
                               /\ pend[d] = <<>> => pend'[d] = <<>>
                               /\ on'[d] \in {on[d], None}
                               /\ "notify" \in why'[d] => "notify" \in why[d] \/ d \in Pending
         /\ Pending' \subseteq Pending
         /\ \A d \in Context \ {c} : cv'[d] = cv[d] /\ status'[d] = status[d]
<1>0. CondType
  BY Zenon DEF CondInv
<1>1. CASE SetReady(c)
  <2> DEFINE h == Head(pend[c])
  <2>1. /\ h \in Range(pend[c]) /\ Range(Tail(pend[c])) = Range(pend[c]) \ {h}
    BY <1>0, <1>1, TailRange DEF CondType, CondInv, ListInv, SetReady
  <2> HIDE DEF h
  <2>3. /\ why' = [why EXCEPT ![h] = @ \cup {"notify"}] /\ pend' = [pend EXCEPT ![c] = Tail(@)]
        /\ UNCHANGED <<on, cv, status>> /\ pend[c] # <<>>
    BY <1>1, Zenon DEF SetReady, h
  <2>5. \A d \in Context : pend[d] = <<>> => pend'[d] = <<>>
    BY <1>0, <2>3, Zenon DEF CondType
  <2>6. \A d \in Context : "notify" \in why'[d] => "notify" \in why[d] \/ d \in Pending
    BY <1>0, <2>3, <2>1 DEF CondType, Pending
  <2>7. Pending' \subseteq Pending
    BY <1>0, <2>1, <2>3 DEF Pending, CondType
  <2> QED
    BY <2>3, <2>5, <2>6, <2>7, Zenon
<1>2. CASE ~SetReady(c)
  <2>1. UNCHANGED <<pend, Pending>>
    BY <1>2 DEF Waits, CondStep, Wake, TimeOut, Throw, Relock, Pass, Interrupt, Abort, Pending
  <2>2. cv[c] # "out" /\ on' \in {on, [on EXCEPT ![c] = None]}
    BY <1>2, Zenon DEF Waits, CondStep, Wake, TimeOut, Throw, Relock, Pass, Interrupt,
        Abort, Blocked
  <2>3. \E x \in Place, s \in {"timeout", "interrupted", status[c]} :
          cv' = [cv EXCEPT ![c] = x] /\ status' = [status EXCEPT ![c] = s]
    <3>1. cv = [cv EXCEPT ![c] = cv[c]] /\ status = [status EXCEPT ![c] = status[c]] /\ cv[c] \in Place
      BY <1>0, Zenon DEF CondType
    <3> QED
      BY <1>2, <3>1, Zenon DEF Waits, CondStep, Wake, TimeOut, Throw, Relock, Pass,
          Interrupt, Abort, AfterWake, Place
  <2>4. \A d \in Context : "notify" \in why'[d] => "notify" \in why[d]
    <3>1. \/ UNCHANGED why \/ why' = [why EXCEPT ![c] = {}]
          \/ why' = [why EXCEPT ![c] = why[c] \cup {"deadline"}]
          \/ why' = [why EXCEPT ![c] = why[c] \cup {"interrupt"}]
      BY <1>2, Zenon DEF Waits, CondStep, Wake, TimeOut, Throw, Relock, Pass, Interrupt,
          Abort
    <3>2. DOMAIN why = Context
      BY <1>0, Zenon DEF CondType
    <3> QED
      BY <3>1, <3>2
  <2>5. \A d \in Context \ {c} : cv'[d] = cv[d] /\ status'[d] = status[d]
    BY <1>0, <2>3 DEF CondType
  <2>6. \A d \in Context : on'[d] \in {on[d], None}
    BY <1>0, <2>2, Zenon DEF CondType
  <2> QED
    BY <2>1, <2>2, <2>4, <2>5, <2>6, Zenon
<1> QED
  BY <1>1, <1>2, Zenon

LEMMA WaitsStay ==
  ASSUME QueueType, CondInv, PlaceInv, StatusInv, NEW c \in Context, Waits(c), UNCHANGED queueVars
  PROVE  QueueType' /\ CondInv' /\ PlaceInv' /\ StatusInv'
<1>0. status \in [Context -> {"no_timeout", "timeout", "interrupted"}] /\ CondType
  BY Zenon DEF QueueType, CondInv
<1>2. UNCHANGED <<at, op, mode, new, next, va, nodes, tail, count>>
  BY Zenon DEF queueVars, listVars
<1>3. QueueType'
  <2>1. status' \in [Context -> {"no_timeout", "timeout", "interrupted"}]
    BY Zenon DEF QueueType, Waits, CondStep, Wake, TimeOut, Throw, Relock, SetReady, Pass, Interrupt, Abort
  <2> QED
    BY <1>2, <2>1, Zenon DEF QueueType
<1>4. PlaceInv'
  <2>1. ASSUME NEW d \in Context PROVE PlaceAt(d)'
    <3>1. PlaceAt(d) /\ on'[d] \in {on[d], None} /\ (pend[d] = <<>> => pend'[d] = <<>>)
      BY <1>0, WaitsBy, Zenon DEF PlaceInv
    <3>2. cv[d] = "out" => cv'[d] = "out"
      BY <1>0, WaitsBy, Zenon
    <3>3. None # "not_empty" /\ None # "not_full"
      BY Zenon
    <3> QED
      BY <1>2, <3>1, <3>2, <3>3, Zenon DEF PlaceAt
  <2> QED
    BY <2>1, Zenon DEF PlaceInv
<1>5. \A k \in Cond : Range(waiting'[k]) \subseteq Range(waiting[k])
  BY NoneEnters, Zenon DEF Waits
<1>6. ASSUME NEW d \in Context \ {c}, cv'[d] # "out", status'[d] # "no_timeout"
      PROVE  /\ cv'[d] \in {"throw", "relock"} /\ d \notin Pending' /\ "notify" \notin why'[d]
             /\ \A k \in Cond : d \notin Range(waiting'[k])
  <2>1. cv[d] # "out" /\ status[d] # "no_timeout" /\ cv'[d] = cv[d]
    BY <1>0, <1>6, WaitsBy, Zenon
  <2>2. ("notify" \in why'[d] => "notify" \in why[d] \/ d \in Pending) /\ Pending' \subseteq Pending
    BY <1>0, WaitsBy, Zenon
  <2> QED
    BY <1>5, <2>1, <2>2, Zenon DEF StatusInv
<1>7. ASSUME cv'[c] # "out", status'[c] # "no_timeout"
      PROVE  /\ cv'[c] \in {"throw", "relock"} /\ c \notin Pending' /\ "notify" \notin why'[c]
             /\ \A k \in Cond : c \notin Range(waiting'[k])
  <2>0. ("notify" \in why'[c] => "notify" \in why[c] \/ c \in Pending) /\ Pending' \subseteq Pending
    BY <1>0, WaitsBy, Zenon
  <2>1. CASE status'[c] = status[c]
    <3>1. cv[c] # "out"
      BY <1>0, <1>7, WaitsBy, Zenon
    <3>2. cv[c] \in {"throw", "relock"}
      BY <1>7, <2>1, <3>1, Zenon DEF StatusInv
    <3>3. cv'[c] = cv[c]
      <4>1. cv' = cv \/ cv' = [cv EXCEPT ![c] = "out"]
        BY <3>2, Zenon DEF Waits, CondStep, Wake, TimeOut, Throw, Relock, SetReady,
            Pass, Interrupt, Abort, Blocked
      <4> QED
        BY <1>0, <1>7, <4>1, Zenon DEF CondType
    <3> QED
      BY <1>5, <1>7, <2>0, <2>1, <3>1, <3>2, <3>3 DEF StatusInv
  <2>2. CASE status'[c] # status[c]
    <3>1. cv[c] = "expired" /\ c \in Range(waiting[on[c]]) /\ Erase(c)
          /\ cv' = [cv EXCEPT ![c] = AfterWake(c)] /\ UNCHANGED <<on, why, pend>>
      BY <1>0, <1>7, <2>2 DEF Waits, CondStep, Wake, TimeOut, Throw, Relock, SetReady, Pass,
           Interrupt, Abort, CondType
    <3>2. /\ on[c] \in Cond /\ waiting[on[c]] \in Seq(Context) /\ IsInjective(waiting[on[c]])
          /\ Unreached(c)
      BY <3>1 DEF CondInv, CallInv, CondType, ListInv
    <3>3. c \notin Range(waiting'[on[c]])
      BY <1>0, <3>1, <3>2, WithoutRange DEF Erase, CondType
    <3>4. \A k \in Cond \ {on[c]} : c \notin Range(waiting[k])
      BY Zenon DEF CondInv, ListInv
    <3>5. c \notin Pending /\ "notify" \notin why[c]
      BY <3>1, <3>2 DEF CondInv, ListInv, Pending, Unreached
    <3>6. cv'[c] \in {"throw", "relock"}
      BY <1>0, <3>1, Zenon DEF AfterWake, CondType
    <3> QED
      BY <1>5, <2>0, <3>1, <3>2, <3>3, <3>4, <3>5, <3>6, Zenon
  <2> QED
    BY <2>1, <2>2, Zenon
<1>8. StatusInv'
  BY <1>6, <1>7 DEF StatusInv
<1> QED
  BY <1>3, <1>4, <1>8, CondStays DEF Waits

-----------------------------------------------------------------------------
(* The list. *)

(* In one thread the others are outside of their calls or wait. *)
LEMMA Alone ==
  ASSUME QueueType, CondInv, PlaceInv, Single, NEW c \in Context, Row(c), NEW d \in Context \ {c}
  PROVE  at[d] \in {"idle", "waited"} /\ at'[d] = at[d] /\ op'[d] = op[d]
BY RowOthers, Zenon DEF PlaceInv, PlaceAt, Row, Turn, Single, Blocked

LEMMA ListRows ==
  ASSUME QueueType, CondInv, NEW c \in Context, Row(c)
  PROVE  \/ Fill(c) \/ Advance(c) \/ Take(c)
         \/ /\ UNCHANGED <<count, head, tail, nodes, va, next, new>>
            /\ at[c] # "advance" /\ at'[c] # "advance"
<1>0. DOMAIN at = Context
  BY Zenon DEF QueueType
<1>1. CASE Begins(c) \/ Ends(c)
  BY <1>0, <1>1, Zenon DEF Begins, Ends, SameNodes, Moves
<1>2. CASE Goes(c)
  BY <1>0, <1>2, Zenon DEF Goes, SameNodes, Moves
<1>3. CASE Fails(c)
  BY <1>0, <1>3, Zenon DEF Fails, SameNodes
<1>4. CASE Suspends(c, "not_full") \/ Suspends(c, "not_empty")
  BY <1>0, <1>4, Zenon DEF Suspends, SameNodes, Moves
<1>5. CASE Signal(c) \/ Close(c) \/ CloseFull(c) \/ Space(c)
  BY <1>0, <1>5, Zenon DEF Signal, Close, CloseFull, Space, Here, Goto, SameList, listVars
<1> QED
  BY <1>1, <1>2, <1>3, <1>4, <1>5, Zenon DEF Row

(* What is used here of the number of elements of a set, as hypothesis of  *)
(* the lemmas that count contexts.  It follows from the theorems on finite *)
(* sets: FiniteCounts below.                                               *)
Counts ==
  /\ Cardinality({}) = 0
  /\ \A B \in SUBSET Context : Cardinality(B) \in Nat
  /\ \A B \in SUBSET Context : \A A \in SUBSET B : Cardinality(A) <= Cardinality(B)
  /\ \A A \in SUBSET Context : \A x \in Context \ A :
       Cardinality(A \cup {x}) = Cardinality(A) + 1

LEMMA SubsetCounts ==
  ASSUME Counts, NEW A, NEW B, B \subseteq Context, A \subseteq B
  PROVE  Cardinality(A) \in Nat /\ Cardinality(B) \in Nat /\ Cardinality(A) <= Cardinality(B)
BY Zenon DEF Counts

LEMMA OneMoreCounts ==
  ASSUME Counts, NEW A, A \subseteq Context, NEW x \in Context
  PROVE  /\ Cardinality(A) \in Nat /\ Cardinality(A \cup {x}) \in Nat
         /\ x \notin A => Cardinality(A \cup {x}) = Cardinality(A) + 1
         /\ x \in A => Cardinality(A \cup {x}) = Cardinality(A)
<1>1. A \cup {x} \subseteq Context
  BY Zenon
<1>2. x \in A => A \cup {x} = A
  BY Zenon
<1> QED
  BY <1>1, <1>2, Zenon DEF Counts

LEMMA RowRoom ==
  ASSUME Counts, QueueType, CondInv, PlaceInv, RoomInv, NEW c \in Context, Row(c)
  PROVE  RoomInv'
<1>0. \A d \in Context \ {c} : d \in Unfilled' <=> d \in Unfilled
  BY RowOthers, Zenon DEF Unfilled
<1>1. Unfilled \subseteq Context /\ Unfilled' \subseteq Context
  BY Zenon DEF Unfilled
<1>2. DOMAIN at = Context /\ DOMAIN op = Context /\ nodes \in Nat /\ PlaceAt(c)
  BY Zenon DEF QueueType, PlaceInv
<1>3. CASE Begins(c)
  <2>1. UNCHANGED nodes /\ at[c] = "idle" /\ op[c] = "none" /\ c \notin Unfilled
    BY <1>2, <1>3, Zenon DEF Begins, SameNodes, PlaceAt, Unfilled
  <2>2. CASE c \notin Unfilled'
    <3>1. Unfilled' \subseteq Unfilled /\ Unfilled \subseteq Unfilled'
      BY <1>0, <1>1, <2>1, <2>2, Zenon
    <3> QED
      BY <2>1, <3>1 DEF RoomInv
  <2>3. CASE c \in Unfilled'
    <3> DEFINE B == {d \in Context : op[d] \in Pushes}
    <3>2. nodes + Cardinality(B) <= MaxPush
      BY <1>3, <1>2, <2>3, Zenon DEF Begins, Moves, Pops, Pushes, Unfilled
    <3>3. Unfilled \subseteq B /\ B \subseteq Context
      BY Zenon DEF Unfilled
    <3> HIDE DEF B
    <3>4. Cardinality(Unfilled) <= Cardinality(B) /\ Cardinality(B) \in Nat
      BY <3>3, SubsetCounts, Zenon
    <3>6. Cardinality(Unfilled') = Cardinality(Unfilled) + 1 /\ Cardinality(Unfilled) \in Nat
      BY <1>1, <2>1, OneMoreCounts, <1>0, <2>3
    <3> QED
      BY <1>2, <2>1, <3>2, <3>4, <3>6 DEF RoomInv
  <2> QED
    BY <2>2, <2>3, Zenon
<1>4. CASE Fill(c)
  <2>1. nodes' = nodes + 1 /\ at[c] = "fill" /\ at'[c] = "advance"
    BY <1>2, <1>4, Zenon DEF Fill, Goto, Here
  <2>2. c \in Unfilled /\ c \notin Unfilled'
    BY <1>2, <2>1, Zenon DEF Unfilled, PlaceAt
  <2>3. Unfilled = Unfilled' \cup {c}
    BY <1>0, <1>1, <2>2, Zenon
  <2>4. Cardinality(Unfilled) = Cardinality(Unfilled') + 1 /\ Cardinality(Unfilled') \in Nat
    BY <1>1, <2>2, <2>3, OneMoreCounts, Zenon
  <2> QED
    BY <1>2, <2>1, <2>4 DEF RoomInv
<1>5. CASE ~Begins(c) /\ ~Fill(c)
  <2>1. UNCHANGED nodes
    <3>1. CASE Advance(c) \/ Take(c)
      BY <3>1, Zenon DEF Advance, Take
    <3> QED
      BY <1>5, <3>1, ListRows, Zenon
  <2>2. c \in Unfilled' => c \in Unfilled
    <3> USE DEF Pushes, Pops, Waiter
    <3>1. CASE Ends(c)
      BY <1>2, <3>1, Zenon DEF Ends, Moves, Unfilled
    <3>2. CASE Goes(c)
      <4>1. op'[c] = op[c]
        BY <1>2, <3>2, Zenon DEF Goes, Moves
      <4>2. \/ at[c] \in {"start", "waited", "room"}
            \/ at'[c] \notin {"start", "room", "full", "waited", "fill"}
        BY <1>2, <3>2, Zenon DEF Goes, Moves
      <4> QED
        BY <1>2, <4>1, <4>2, Zenon DEF Unfilled
    <3>3. CASE Fails(c)
      BY <1>2, <3>3, Zenon DEF Fails, Unfilled
    <3>4. CASE Suspends(c, "not_full") \/ Suspends(c, "not_empty")
      BY <1>2, <3>4, Zenon DEF Suspends, Moves, Unfilled, PlaceAt
    <3>5. CASE Advance(c) \/ Take(c) \/ Signal(c) \/ Close(c) \/ CloseFull(c) \/ Space(c)
      <4>1. at'[c] \in {"signal", "space", "done", "close_full"}
        BY <1>2, <3>5, Zenon DEF Advance, Take, Signal, Close, CloseFull, Space, Goto
      <4> QED
        BY <4>1, Zenon DEF Unfilled
    <3> QED
      BY <1>5, <3>1, <3>2, <3>3, <3>4, <3>5 DEF Row
  <2>3. Unfilled' \subseteq Unfilled
    BY <1>0, <1>1, <2>2, Zenon
  <2>4. Cardinality(Unfilled') <= Cardinality(Unfilled) /\ Cardinality(Unfilled) \in Nat
        /\ Cardinality(Unfilled') \in Nat
    BY <1>1, <2>3, SubsetCounts, Zenon
  <2> QED
    BY <1>2, <2>1, <2>4 DEF RoomInv
<1> QED
  BY <1>3, <1>4, <1>5, Zenon

(* No two calls are at the same end of the list. *)
LEMMA OnlyOne ==
  ASSUME QueueType, CondInv, PlaceInv, HoldInv, Orderly, NEW c \in Context, Row(c),
         NEW d \in Context \ {c}
  PROVE  /\ Inserts(c) => ~Inserts(d)
         /\ Removes(c) => ~Removes(d)
         /\ at'[d] = at[d] /\ new'[d] = new[d]
<1>1. CASE Single
  <2>1. at[d] \in {"idle", "waited"} /\ (at[d] = "idle" \/ cv[d] # "out")
    BY <1>1, Alone, Zenon DEF Row, Turn, Single, Blocked
  <2> QED
    BY <2>1, RowOthers, Zenon DEF Inserts, Removes, Again
<1>2. CASE mode.threads
  BY <1>2, RowOthers, Zenon DEF HoldInv
<1> QED
  BY <1>1, <1>2, Zenon DEF Single

LEMMA RowChain ==
  ASSUME Counts, QueueType, CondInv, PlaceInv, RoomInv, HoldInv, ChainInv, LimitInv,
         NEW c \in Context, Row(c)
  PROVE  ChainInv'
<1> SUFFICES ASSUME Orderly' PROVE ChainInv'
  BY Zenon DEF ChainInv
<1>0. Orderly
  BY Zenon DEF Row, Orderly, Bounded
<1>1. /\ DOMAIN at = Context /\ DOMAIN next = Node /\ DOMAIN va = Node /\ DOMAIN new = Context
      /\ nodes \in Nat /\ tail \in Nat
  BY Zenon DEF QueueType
<1>2. /\ head \in Nat /\ tail \in Node /\ 1 <= head /\ head <= tail /\ count = tail - head
      /\ \A n \in head..(tail - 1) : next[n] = n + 1 /\ va[n] = n
  BY <1>0, Zenon DEF ChainInv
<1>3. \A d \in Context \ {c} : at'[d] = at[d] /\ new'[d] = new[d]
  BY <1>0, OnlyOne, Zenon
<1>4. CASE Fill(c)
  <2>1. /\ nodes' = nodes + 1 /\ new' = [new EXCEPT ![c] = nodes + 1]
        /\ next' = [next EXCEPT ![tail] = nodes + 1] /\ va' = [va EXCEPT ![tail] = nodes]
        /\ UNCHANGED <<head, tail, count>>
        /\ at[c] = "fill" /\ at'[c] = "advance" /\ op[c] \in Pushes
    BY <1>1, <1>4, Zenon DEF Fill, Here, Goto, PlaceInv, PlaceAt
  <2>2. \A d \in Context \ {c} : at[d] # "advance"
    BY <1>0, <2>1, OnlyOne, Zenon DEF Inserts
  <2>3. nodes = tail
    BY <1>0, <2>1, <2>2, Zenon DEF ChainInv
  <2>4. nodes + 1 \in Node
    <3>1. c \in Unfilled /\ Unfilled \subseteq Context
      BY <2>1, Zenon DEF Unfilled
    <3>2. Cardinality(Unfilled) \in Nat /\ Cardinality(Unfilled) >= 1
      <4>1. Cardinality({} \cup {c}) = 1
        BY DEF Counts
      <4>2. {} \cup {c} \subseteq Unfilled
        BY <3>1, Zenon
      <4> QED
        BY <3>1, <4>1, <4>2, SubsetCounts
    <3> QED
      BY <1>1, <3>2 DEF RoomInv, Node
  <2>5. /\ next'[tail] = tail + 1 /\ new'[c] = tail + 1 /\ va'[tail] = tail
        /\ \A n \in Node \ {tail} : next'[n] = next[n] /\ va'[n] = va[n]
    BY <1>1, <1>2, <2>1, <2>3, Zenon
  <2>6. \A n \in head..(tail - 1) : next'[n] = n + 1 /\ va'[n] = n
    BY <1>1, <1>2, <2>5 DEF Node
  <2> QED
    BY <1>2, <1>3, <2>1, <2>2, <2>3, <2>4, <2>5, <2>6 DEF ChainInv
<1>5. CASE Advance(c)
  <2>1. /\ tail' = new[c] /\ count' = count + 1 /\ UNCHANGED <<head, nodes, next, va>>
        /\ at[c] = "advance" /\ at'[c] = "signal"
    BY <1>1, <1>5, Zenon DEF Advance, Here, Goto
  <2>2. /\ new[c] = tail + 1 /\ next[tail] = tail + 1 /\ va[tail] = tail
        /\ nodes = tail + 1 /\ nodes \in Node
    BY <1>0, <2>1, Zenon DEF ChainInv
  <2>3. \A n \in head..(tail' - 1) : next[n] = n + 1 /\ va[n] = n
    BY <1>1, <1>2, <2>1, <2>2
  <2>4. \A d \in Context : at'[d] # "advance"
    BY <1>0, <2>1, OnlyOne, Zenon DEF Inserts
  <2>5. tail' \in Node /\ head <= tail' /\ count' = tail' - head /\ nodes = tail'
    BY <1>1, <1>2, <2>1, <2>2
  <2> QED
    BY <1>2, <2>1, <2>3, <2>4, <2>5, Zenon DEF ChainInv
<1>6. CASE Take(c)
  <2>1. /\ head' = next[head] /\ count' = count - 1 /\ UNCHANGED <<tail, nodes, next, va, new>>
        /\ at[c] = "take" /\ at'[c] \in {"space", "done"}
    BY <1>1, <1>6, Zenon DEF Take, Here
  <2>2. head # tail
    BY <1>0, <2>1, Zenon DEF LimitInv, IsEmpty
  <2>3. head' = head + 1 /\ head + 1 <= tail
    BY <1>1, <1>2, <2>1, <2>2
  <2>4. \A n \in head'..(tail - 1) : next[n] = n + 1 /\ va[n] = n
    BY <1>1, <1>2, <2>3
  <2>5. head' \in Nat /\ 1 <= head' /\ head' <= tail /\ count' = tail - head'
    BY <1>1, <1>2, <2>1, <2>3
  <2>6. \A d \in Context : at'[d] = "advance" <=> at[d] = "advance"
    BY <1>3, <2>1
  <2> QED
    BY <1>0, <1>2, <2>1, <2>4, <2>5, <2>6 DEF ChainInv
<1>7. CASE /\ UNCHANGED <<count, head, tail, nodes, va, next, new>>
           /\ at[c] # "advance" /\ at'[c] # "advance"
  BY <1>0, <1>3, <1>7 DEF ChainInv
<1> QED
  BY <1>4, <1>5, <1>6, <1>7, ListRows, Zenon

(* What a context has seen on its way to where it acts. *)
LEMMA RowSees ==
  ASSUME QueueType, NEW c \in Context, Row(c)
  PROVE  \/ /\ UNCHANGED <<open, count, head, tail>> /\ op'[c] = op[c]
            /\ \/ at'[c] = "full" /\ IsFull
               \/ at'[c] = "fill" /\ ~IsFull
               \/ at'[c] = "take" /\ ~IsEmpty
               \/ at'[c] = "empty" /\ IsEmpty /\ (open \/ (Bounded /\ op[c] = "pop"))
         \/ Take(c) /\ at'[c] = "space" /\ Bounded
         \/ Fill(c) /\ at'[c] = "advance"
         \/ at'[c] \notin {"full", "fill", "take", "empty", "space", "advance"}
<1>1. DOMAIN at = Context /\ DOMAIN op = Context
  BY Zenon DEF QueueType
<1>2. CASE Goes(c)
  BY <1>1, <1>2, Zenon DEF Goes, SameNodes, Moves
<1>3. CASE Take(c)
  BY <1>1, <1>3, Zenon DEF Take
<1>4. CASE Begins(c) \/ Ends(c)
  BY <1>1, <1>4, Zenon DEF Begins, Ends, Moves
<1>5. CASE Fails(c)
  BY <1>5, Zenon DEF Fails
<1>6. CASE Suspends(c, "not_full") \/ Suspends(c, "not_empty")
  BY <1>1, <1>6, Zenon DEF Suspends, Moves
<1>7. CASE Fill(c)
  BY <1>1, <1>7, Zenon DEF Fill, Goto
<1>8. CASE Advance(c) \/ Signal(c) \/ Close(c) \/ CloseFull(c) \/ Space(c)
  BY <1>1, <1>8, Zenon DEF Advance, Signal, Close, CloseFull, Space, Goto
<1> QED
  BY <1>2, <1>3, <1>4, <1>5, <1>6, <1>7, <1>8 DEF Row

LEMMA RowSaw ==
  ASSUME QueueType, CondInv, PlaceInv, SawInv, NEW c \in Context, Row(c)
  PROVE  SawInv'
<1> SUFFICES ASSUME Single' PROVE SawInv'
  BY Zenon DEF SawInv
<1>0. Single /\ UNCHANGED <<mode, Bounded>>
  BY Zenon DEF Row, Single, Bounded
<1>1. \A d \in Context \ {c} : SawAt(d)'
  BY <1>0, Alone, Zenon DEF SawAt
<1>2. SawAt(c)'
  BY <1>0, RowSees DEF SawAt, IsFull, IsEmpty
<1> QED
  BY <1>1, <1>2, Zenon DEF SawInv

LEMMA RowTry ==
  ASSUME QueueType, CondInv, TryInv, NEW c \in Context, Row(c)
  PROVE  TryInv'
<1>1. UNCHANGED <<mode, Bounded>>
  BY Zenon DEF Row, Bounded
<1>2. op'[c] = "try_push" => Bounded /\ mode.tries
  BY Zenon DEF QueueType, TryInv, Row, Begins, Ends, Goes, Fails, Suspends, Moves, Fill,
      Advance, Signal, Take, Space, Close, CloseFull, Goto, Pops
<1> QED
  BY <1>1, <1>2, RowOthers, Zenon DEF TryInv

LEMMA RowLimit ==
  ASSUME QueueType, CondInv, PlaceInv, HoldInv, ChainInv, LimitInv, NEW c \in Context, Row(c)
  PROVE  LimitInv'
<1> SUFFICES ASSUME Orderly' PROVE LimitInv'
  BY Zenon DEF LimitInv
<1>0. Orderly /\ UNCHANGED <<mode, Bounded>>
  BY Zenon DEF Row, Orderly, Bounded
<1>1. DOMAIN at = Context /\ count \in Int /\ mode.hwm \in Nat
  BY Zenon DEF QueueType
<1>2. head \in Nat /\ tail \in Nat /\ head <= tail
  BY <1>0 DEF ChainInv, Node
<1>3. /\ \A d \in Context \ {c} : at'[d] = at[d] /\ (Removes(c) => ~Removes(d)) /\ (Inserts(c) => ~Inserts(d))
      /\ \A d \in Context : /\ at[d] = "take" => head # tail
                            /\ at[d] \in {"fill", "advance"} /\ Bounded => count < mode.hwm
  BY <1>0, OnlyOne, Zenon DEF LimitInv, IsEmpty
<1>4. CASE Fill(c)
  <2>1. UNCHANGED <<count, head, tail>> /\ at[c] = "fill" /\ at'[c] = "advance"
    BY <1>1, <1>4, Zenon DEF Fill, Here, Goto
  <2> QED
    BY <1>0, <1>3, <2>1, Zenon DEF LimitInv, IsEmpty
<1>5. CASE Advance(c)
  <2>1. /\ tail' = tail + 1 /\ UNCHANGED head /\ at'[c] = "signal"
        /\ \A d \in Context \ {c} : at[d] \notin {"fill", "advance"}
    BY <1>0, <1>1, <1>3, <1>5, Zenon DEF Advance, Here, Goto, ChainInv, Inserts
  <2> QED
    BY <1>2, <1>3, <2>1 DEF LimitInv, IsEmpty
<1>6. CASE Take(c)
  <2>1. /\ count' = count - 1 /\ at'[c] \in {"space", "done"}
        /\ \A d \in Context \ {c} : at[d] # "take"
    BY <1>1, <1>3, <1>6, Zenon DEF Take, Here, Removes
  <2> QED
    BY <1>0, <1>1, <1>3, <2>1 DEF LimitInv
<1>7. CASE UNCHANGED <<count, head, tail>> /\ ~Fill(c)
  <2>1. \/ at'[c] \notin {"take", "fill", "advance"}
        \/ at'[c] = "take" /\ ~IsEmpty
        \/ at'[c] = "fill" /\ ~IsFull
    BY <1>1, <1>7, RowSees, Zenon
  <2> QED
    BY <1>0, <1>1, <1>3, <1>7, <2>1 DEF LimitInv, IsEmpty, IsFull
<1> QED
  BY <1>4, <1>5, <1>6, <1>7, ListRows, Zenon

(* Only a suspension enters waiting_. *)
LEMMA RowJoins ==
  ASSUME QueueType, CondInv, NEW c \in Context, Row(c), NEW k \in Cond, ~Suspends(c, k)
  PROVE  Range(waiting'[k]) \subseteq Range(waiting[k])
<1>1. SUFFICES c \notin Range(waiting'[k])
  BY RowLists, Zenon
<1>2. Free(c) /\ cv[c] = "out" /\ c \notin Range(waiting[k])
  BY OutUnlisted, Zenon DEF Row, Free, CondInv
<1>3. CASE \E j \in Cond : Suspends(c, j)
  <2>1. PICK j \in Cond : Suspends(c, j)
    BY <1>3, Zenon
  <2>2. waiting' = [waiting EXCEPT ![j] = Append(@, c)] /\ j # k
    BY <1>2, <2>1, SuspendsBy, Zenon
  <2> QED
    BY <1>2, <2>2, Zenon DEF CondInv, CondType
<1>4. CASE ~\E j \in Cond : Suspends(c, j)
  <2>1. UNCHANGED cv
    BY <1>4, Zenon DEF Row, Begins, Ends, Goes, Fails, Apart, Abort, Fill, Advance, Take, Signal, Close,
         CloseFull, Space, Quietly, Locks, Notifies, condVars
  <2>2. CondInv'
    BY RowClient, ClientStays, Zenon
  <2> QED
    BY <1>2, <2>1, <2>2 DEF CondInv, ListInv, Unreached
<1> QED
  BY <1>3, <1>4, Zenon

LEMMA RowClosed ==
  ASSUME QueueType, CondInv, PlaceInv, SawInv, ClosedInv, NEW c \in Context, Row(c)
  PROVE  ClosedInv'
<1> SUFFICES ASSUME Single', ~open', NEW d \in Range(waiting["not_empty"])'
             PROVE  (Bounded /\ op[d] = "pop")'
  BY Zenon DEF ClosedInv
<1>0. Single /\ UNCHANGED mode /\ Free(c)
  BY Zenon DEF Row, Single
<1>1. d \in Range(waiting["not_empty"]) \cup {c}
  BY RowLists, Zenon
<1>2. "not_empty" \in Cond /\ waiting["not_empty"] \in Seq(Context)
  BY Zenon DEF CondInv, CondType
<1>3. Range(waiting["not_empty"]) \subseteq Context
  BY <1>2, RangeTyped, Zenon
<1>4. c \notin Range(waiting["not_empty"])
  BY <1>0, <1>2, OutUnlisted, Zenon DEF CondInv, Free
<1>5. CASE Close(c)
  BY EmptyRange, <1>2, <1>5, Zenon DEF Close, NotifyAll, CondInv, CondType
<1>6. CASE ~Close(c)
  <2>1. UNCHANGED open
    BY <1>6, Zenon DEF Row, Begins, Ends, Goes, Fails, Suspends, SameNodes, Fill, Advance, Signal, Take,
         Space, CloseFull, SameList
  <2>2. CASE d # c
    <3>1. Bounded /\ op[d] = "pop"
      BY <1>0, <1>1, <2>1, <2>2, Zenon DEF ClosedInv
    <3> QED
      BY <1>0, <1>1, <1>3, <2>2, <3>1, RowOthers, Zenon DEF Bounded
  <2>3. CASE d = c
    <3>1. Suspends(c, "not_empty")
      BY <1>2, <1>4, <2>3, RowJoins, Zenon
    <3>2. at[c] = "empty" /\ op'[c] = op[c]
      BY <3>1, Zenon DEF Suspends, Moves, QueueType
    <3> QED
      BY <1>0, <2>1, <2>3, <3>2, Zenon DEF SawInv, SawAt, Bounded
  <2> QED
    BY <2>2, <2>3, Zenon
<1> QED
  BY <1>5, <1>6, Zenon

-----------------------------------------------------------------------------
(* Counting those who take a value or fill a place. *)

LEMMA Swapped ==
  ASSUME Counts, NEW A, A \subseteq Context, NEW B, B \subseteq Context,
         NEW c \in Context, A \ {c} \subseteq B
  PROVE  /\ Cardinality(A) \in Nat /\ Cardinality(B) \in Nat
         /\ Cardinality(A) <= Cardinality(B) + 1
         /\ c \notin A \/ c \in B => Cardinality(A) <= Cardinality(B)
         /\ c \notin A /\ c \in B => Cardinality(A) + 1 <= Cardinality(B)
         /\ \A x \in B \ A : Cardinality(A) <= Cardinality(B)
<1>0. Cardinality(A) \in Nat /\ Cardinality(B) \in Nat
  BY SubsetCounts, Zenon
<1>1. Cardinality(A) <= Cardinality(B) + 1
  <2>1. Cardinality(A) <= Cardinality(B \cup {c})
    BY SubsetCounts, Zenon
  <2> QED
    BY <1>0, <2>1, OneMoreCounts
<1>2. c \notin A \/ c \in B => Cardinality(A) <= Cardinality(B)
  BY SubsetCounts, Zenon
<1>3. ASSUME c \notin A, c \in B PROVE Cardinality(A) + 1 <= Cardinality(B)
  <2>2. Cardinality(A \cup {c}) <= Cardinality(B)
    BY SubsetCounts, <1>3, Zenon
  <2> QED
    BY <1>0, <1>3, <2>2, OneMoreCounts, Zenon
<1>4. ASSUME NEW x \in B \ A PROVE Cardinality(A) <= Cardinality(B)
  <2>1. (A \ {c}) \cup {x} \subseteq B /\ x \notin A \ {c} /\ A \subseteq (A \ {c}) \cup {c}
    BY Zenon
  <2>2. Cardinality((A \ {c}) \cup {x}) <= Cardinality(B)
    BY <2>1, SubsetCounts, Zenon
  <2>3. Cardinality(A) <= Cardinality((A \ {c}) \cup {c})
    BY <2>1, SubsetCounts, Zenon
  <2>4. /\ Cardinality((A \ {c}) \cup {x}) = Cardinality(A \ {c}) + 1
        /\ Cardinality((A \ {c}) \cup {c}) = Cardinality(A \ {c}) + 1
        /\ Cardinality(A \ {c}) \in Nat
    BY <2>1, OneMoreCounts, Zenon
  <2> QED
    BY <1>0, <2>2, <2>3, <2>4
<1> QED
  BY <1>0, <1>1, <1>2, <1>3, <1>4, Zenon

(* A step only concerns its own context; a call that runs is not Called. *)
LEMMA RowHopes ==
  ASSUME QueueType, CondInv, NEW c \in Context, Row(c)
  PROVE  /\ Takers \subseteq Context /\ Takers' \subseteq Context /\ Takers \ {c} \subseteq Takers'
         /\ Fillers \subseteq Context /\ Fillers' \subseteq Context /\ Fillers \ {c} \subseteq Fillers'
         /\ c \in Takers <=> Fetching(c)
         /\ c \in Fillers <=> Filling(c)
<1>2. Pending \subseteq Pending'
  BY RowLists, Zenon
<1>3. ASSUME NEW d \in Context \ {c}
      PROVE  /\ \A k \in Cond : Called(d, k) => Called(d, k)'
             /\ Fetching(d) => Fetching(d)'
             /\ Filling(d) => Filling(d)'
  <2>1. /\ at'[d] = at[d] /\ op'[d] = op[d] /\ status'[d] = status[d] /\ cv'[d] = cv[d]
        /\ on'[d] = on[d] /\ why'[d] = why[d]
    BY RowOthers, Zenon
  <2> QED
    BY <1>2, <2>1, Zenon DEF Called, Fetching, Filling, Again
<1> QED
  BY <1>3, Zenon DEF Takers, Fillers, Called, Row, Free, CondInv, CallInv

(* A notification of k calls one who slept. *)
LEMMA Calls ==
  ASSUME QueueType, CondInv, PlaceInv, NEW c \in Context, Free(c), NEW k \in Cond,
         NotifyOne(c, k), Notifies, waiting[k] # <<>>
  PROVE  \E x \in Context : ~Called(x, k) /\ ~Again(x) /\ at[x] = "waited" /\ Called(x, k)'
<1>1. pend[c] = <<>>
  BY Zenon DEF Free
<1>2. PICK x \in Range(waiting[k]) : x \in Pending'
  BY <1>1, Told
<1>3. x \in Context
  BY <1>2, RangeTyped DEF CondInv, CondType
<1>4. Unreached(x) /\ on[x] = k /\ x \notin Pending
  BY <1>2, <1>3 DEF CondInv, ListInv, Pending
<1>5. at[x] = "waited" /\ cv[x] # "out" /\ UNCHANGED on
  BY <1>3, <1>4, Zenon DEF Unreached, PlaceInv, PlaceAt, Notifies
<1> QED
  BY <1>2, <1>3, <1>4, <1>5 DEF Called, Again, Unreached

LEMMA RowTakers ==
  ASSUME Counts, QueueType, CondInv, PlaceInv, ChainInv, SawInv, TakersInv, NEW c \in Context, Row(c)
  PROVE  TakersInv'
<1> SUFFICES ASSUME Single', failed' = None, waiting'["not_empty"] # <<>>
             PROVE  (\E d \in Context : at'[d] = "close") \/ count' <= Cardinality(Takers')
  BY Zenon DEF TakersInv
<1> DEFINE m == Cardinality(Takers)
           n == Cardinality(Takers')
<1>0. Single /\ Free(c) /\ failed = None /\ PlaceAt(c) /\ cv[c] = "out" /\ pend[c] = <<>>
  BY Zenon DEF Row, Single, Free, PlaceInv
<1>1. /\ m \in Nat /\ n \in Nat /\ m <= n + 1 /\ (~Fetching(c) \/ c \in Takers' => m <= n)
      /\ ~Fetching(c) /\ c \in Takers' => m + 1 <= n
      /\ \A x \in Takers' \ Takers : m <= n
  BY RowHopes, Swapped
<1>2. count \in Int /\ (IsEmpty => count = 0)
  BY <1>0 DEF QueueType, ChainInv, Orderly, Single, IsEmpty, Node
<1>3. DOMAIN at = Context /\ DOMAIN op = Context
  BY Zenon DEF QueueType
<1>4. (Fetching(c) => c \in Takers) /\ (Fetching(c)' => c \in Takers')
  BY Zenon DEF Takers
<1> HIDE DEF m, n
<1>5. CASE Suspends(c, "not_empty")
  <2>1. at[c] = "empty" /\ UNCHANGED count
    BY <1>5, Zenon DEF Suspends, SameNodes
  <2> QED
    BY <1>0, <1>1, <1>2, <2>1 DEF SawInv, SawAt, n
<1>6. CASE Close(c)
  BY <1>6, Zenon DEF Close, NotifyAll, CondInv, CondType
<1>7. CASE ~Suspends(c, "not_empty") /\ ~Close(c)
  <2>1. waiting["not_empty"] # <<>>
    <3>1. Range(waiting'["not_empty"]) \subseteq Range(waiting["not_empty"])
      BY <1>7, RowJoins, Zenon
    <3>2. waiting'["not_empty"] \in Seq(Context)
      <4>1. CondInv'
        BY RowClient, ClientStays, Zenon
      <4> QED
        BY <4>1, Zenon DEF CondInv, CondType
    <3>3. Range(waiting'["not_empty"]) # {}
      BY <3>2, RangeTyped
    <3> QED
      BY <3>1, <3>3, EmptyRange, Zenon
  <2>2. at[c] # "close"
    BY <1>7, Zenon DEF Row, Begins, Ends, Goes, Fails, Suspends, Fill, Advance, Signal, Take, Space,
         CloseFull, Here
  <2>3. count <= m
    <3>1. \A d \in Context \ {c} : at[d] # "close"
      BY <1>0, Alone, Zenon
    <3> QED
      BY <1>0, <2>1, <2>2, <3>1, Zenon DEF TakersInv, m
  <2> USE DEF Pushes, Pops, Waiter
  <2>4. CASE Take(c)
    <3>1. count' = count - 1
      BY <2>4, Zenon DEF Take
    <3> QED
      BY <1>1, <1>2, <2>3, <3>1 DEF n
  <2>5. CASE Advance(c)
    <3>1. count' = count + 1 /\ at[c] = "advance" /\ at'[c] = "signal"
      BY <1>3, <2>5 DEF Advance, Goto, Here
    <3>2. ~Fetching(c) /\ Fetching(c)'
      BY <1>0, <3>1, Zenon DEF Fetching, PlaceAt, Again
    <3> QED
      BY <1>1, <1>2, <1>4, <2>3, <3>1, <3>2 DEF n
  <2>6. CASE Signal(c)
    <3>1. UNCHANGED count
      BY <2>6 DEF Signal, SameList, listVars
    <3>2. NotifyOne(c, "not_empty") /\ Notifies
      BY <2>6 DEF Signal
    <3>3. PICK x \in Context : /\ ~Called(x, "not_empty") /\ ~Again(x) /\ at[x] = "waited"
                               /\ Called(x, "not_empty")'
      BY <1>0, <2>1, <3>2, Calls
    <3>4. x \in Takers' \ Takers
      BY <3>3 DEF Takers, Fetching
    <3> QED
      BY <1>1, <1>2, <2>3, <3>1, <3>4 DEF n
  <2>7. CASE Goes(c)
    <3>1. UNCHANGED count
      BY <2>7 DEF Goes, SameNodes
    <3>2. op'[c] = op[c]
      BY <1>3, <2>7 DEF Goes, Moves
    <3>3. \/ at[c] = "waited" /\ op[c] \in Pushes
          \/ at[c] = "waited" /\ op[c] \notin Pushes /\ at'[c] = "look"
          \/ at[c] \in {"start", "room", "fill", "close_tail"}
          \/ at[c] = "look" /\ at'[c] = "take"
          \/ at[c] = "look" /\ IsEmpty
          \/ at[c] = "take" /\ (at'[c] = "close" \/ op[c] = "try_pop")
      BY <1>3, <2>7 DEF Goes, Moves
    <3>4. ~Fetching(c) \/ Fetching(c)' \/ IsEmpty \/ at'[c] = "close"
      BY <1>0, <3>2, <3>3, Zenon DEF Fetching, Again, PlaceAt
    <3> QED
      BY <1>1, <1>2, <1>4, <2>3, <3>1, <3>4 DEF n
  <2>8. CASE Ends(c)
    <3>1. UNCHANGED count
      BY <2>8 DEF Ends, SameNodes
    <3>2. ~Fetching(c) \/ IsEmpty
      BY <1>0, <2>8, Zenon DEF Ends, Fetching, Again, PlaceAt
    <3> QED
      BY <1>1, <1>2, <2>3, <3>1, <3>2 DEF n
  <2>9. CASE Fails(c)
    <3>1. UNCHANGED <<count, at, op>> /\ at[c] = "look"
      BY <2>9 DEF Fails, SameNodes
    <3>2. Fetching(c) => Fetching(c)'
      BY <3>1 DEF Fetching
    <3> QED
      BY <1>1, <1>2, <1>4, <2>3, <3>1, <3>2 DEF n
  <2>10. CASE Begins(c) \/ Suspends(c, "not_full") \/ Fill(c) \/ CloseFull(c) \/ Space(c)
    <3>1. UNCHANGED count
      BY <2>10, Zenon DEF Begins, Suspends, SameNodes, Fill, CloseFull, Space, SameList, listVars
    <3>2. at[c] \in {"idle", "full", "fill", "close_full", "space"}
      BY <2>10, Zenon DEF Begins, Suspends, Fill, CloseFull, Space, Here
    <3>3. ~Fetching(c)
      BY <3>2 DEF Fetching, Again
    <3> QED
      BY <1>1, <1>2, <2>3, <3>1, <3>3 DEF n
  <2> QED
    BY <1>7, <2>4, <2>5, <2>6, <2>7, <2>8, <2>9, <2>10 DEF Row
<1> QED
  BY <1>5, <1>6, <1>7

LEMMA RowFillers ==
  ASSUME Counts, QueueType, CondInv, PlaceInv, SawInv, FillersInv, NEW c \in Context, Row(c)
  PROVE  FillersInv'
<1> SUFFICES ASSUME Single', ~mode'.throws, failed' = None, waiting'["not_full"] # <<>>
             PROVE  /\ Bounded'
                    /\ mode'.lwm = mode'.hwm => mode'.hwm - count' <= Cardinality(Fillers')
                    /\ mode'.lwm # mode'.hwm =>
                         count' > mode'.lwm \/ \E d \in Context : at'[d] = "space"
  BY Zenon DEF FillersInv
<1> DEFINE m == Cardinality(Fillers)
           n == Cardinality(Fillers')
<1>0. /\ Single /\ Free(c) /\ failed = None /\ PlaceAt(c) /\ cv[c] = "out" /\ pend[c] = <<>>
      /\ UNCHANGED <<mode, Bounded>>
  BY Zenon DEF Row, Single, Free, PlaceInv, Bounded
<1>1. /\ m \in Nat /\ n \in Nat /\ m <= n + 1 /\ (~Filling(c) \/ c \in Fillers' => m <= n)
      /\ ~Filling(c) /\ c \in Fillers' => m + 1 <= n
      /\ \A x \in Fillers' \ Fillers : m <= n
  BY RowHopes, Swapped, Zenon
<1>2. count \in Int /\ mode.lwm \in Nat /\ mode.hwm \in Nat /\ mode.lwm <= mode.hwm
  BY Zenon DEF QueueType
<1>3. DOMAIN at = Context /\ DOMAIN op = Context
  BY Zenon DEF QueueType
<1>4. Filling(c)' => c \in Fillers'
  BY Zenon DEF Fillers
<1> HIDE DEF m, n
(* It is enough that count and those who fill add up to hwm_, and that *)
(* count stays above lwm_ or a pop is at its end.                      *)
<1>5. SUFFICES /\ Bounded
               /\ mode.lwm = mode.hwm => mode.hwm - count' <= n
               /\ mode.lwm # mode.hwm => count' > mode.lwm \/ \E d \in Context : at'[d] = "space"
  BY <1>0, Zenon DEF n
<1>6. CASE Suspends(c, "not_full")
  <2>1. at[c] = "full" /\ UNCHANGED count
    BY <1>6, Zenon DEF Suspends, SameNodes
  <2>2. Bounded /\ count >= mode.hwm
    BY <1>0, <2>1, Zenon DEF SawInv, SawAt, IsFull
  <2> QED
    BY <1>1, <1>2, <2>1, <2>2
<1>7. CASE CloseFull(c)
  <2>1. waiting'["not_full"] = <<>>
    BY <1>7, Zenon DEF CloseFull, NotifyAll, CondInv, CondType
  <2> QED
    BY <2>1, Zenon
<1>8. CASE ~Suspends(c, "not_full") /\ ~CloseFull(c)
  <2>1. waiting["not_full"] # <<>>
    <3>1. Range(waiting'["not_full"]) \subseteq Range(waiting["not_full"])
      BY <1>8, RowJoins, Zenon
    <3>2. waiting'["not_full"] \in Seq(Context)
      <4>1. CondInv'
        BY RowClient, ClientStays, Zenon
      <4> QED
        BY <4>1, Zenon DEF CondInv, CondType
    <3>3. Range(waiting'["not_full"]) # {}
      BY <3>2, RangeTyped
    <3> QED
      BY <3>1, <3>3, EmptyRange, Zenon
  <2>2. /\ Bounded /\ ~mode.throws
        /\ mode.lwm = mode.hwm => mode.hwm - count <= m
        /\ mode.lwm # mode.hwm => count > mode.lwm \/ \E d \in Context : at[d] = "space"
    BY <1>0, <2>1, Zenon DEF FillersInv, m
  <2>3. \A d \in Context \ {c} : at[d] # "space"
    BY <1>0, Alone, Zenon
  <2> USE DEF Pushes, Pops, Waiter
  <2>4. CASE Take(c)
    <3>1. count' = count - 1 /\ at[c] = "take" /\ at'[c] = "space"
      BY <1>3, <2>2, <2>4, Zenon DEF Take, Here
    <3>2. ~Filling(c) /\ Filling(c)'
      BY <1>0, <3>1, Zenon DEF Filling, Again, PlaceAt
    <3> QED
      BY <1>1, <1>2, <1>4, <2>2, <3>1, <3>2
  <2>5. CASE Space(c)
    <3>1. UNCHANGED count /\ Notifies
      BY <2>5, Zenon DEF Space, SameList, listVars
    <3>2. CASE count > mode.lwm
      BY <1>1, <1>2, <2>2, <3>1, <3>2
    <3>3. CASE mode.lwm = mode.hwm /\ NotifyOne(c, "not_full")
      <4>1. PICK x \in Context : /\ ~Called(x, "not_full") /\ ~Again(x) /\ at[x] = "waited"
                                 /\ Called(x, "not_full")'
        BY <1>0, <2>1, <3>1, <3>3, Calls
      <4>2. x \in Fillers' \ Fillers
        BY <4>1, Zenon DEF Fillers, Filling
      <4> QED
        BY <1>1, <1>2, <2>2, <3>1, <3>3, <4>2
    <3>4. CASE mode.lwm # mode.hwm /\ NotifyAll(c, "not_full")
      <4>1. waiting'["not_full"] = <<>>
        BY <3>4, Zenon DEF NotifyAll, CondInv, CondType
      <4> QED
        BY <4>1, Zenon
    <3> QED
      BY <2>5, <3>2, <3>3, <3>4, SpaceBy, Zenon
  <2>6. CASE Advance(c)
    <3>1. count' = count + 1 /\ at[c] # "space"
      BY <2>6, Zenon DEF Advance, Here
    <3> QED
      BY <1>1, <1>2, <2>2, <2>3, <3>1
  <2>7. CASE ~Take(c) /\ ~Space(c) /\ ~Advance(c)
    <3>1. UNCHANGED count /\ at[c] # "space"
      BY <1>8, <2>7, Zenon DEF Row, Begins, Ends, Goes, Fails, Suspends, SameNodes, Fill, Signal, Close, Here,
           SameList, listVars
    <3>2. ~Filling(c) \/ Filling(c)' \/ count >= mode.hwm
      <4>1. CASE Goes(c)
        <5>1. op'[c] = op[c]
          BY <1>3, <4>1, Zenon DEF Goes, Moves
        <5>2. \/ at[c] = "waited" /\ op[c] \in Pushes /\ at'[c] = "room"
              \/ at[c] = "waited" /\ op[c] \notin Pushes
              \/ at[c] \in {"start", "look", "take", "close_tail"}
              \/ at[c] = "room" /\ at'[c] = "fill"
              \/ IsFull
          BY <1>3, <2>2, <4>1, Zenon DEF Goes, Moves
        <5> QED
          BY <5>1, <5>2, Zenon DEF Filling, Again, IsFull
      <4>2. CASE Ends(c)
        BY <1>0, <4>2, Zenon DEF Ends, Filling, Again, PlaceAt
      <4>3. CASE Fill(c)
        <5>1. at[c] = "fill" /\ at'[c] = "advance" /\ op'[c] = op[c]
          BY <1>3, <4>3, Zenon DEF Fill, Here, Goto
        <5> QED
          BY <5>1, Zenon DEF Filling, Again
      <4>4. CASE Fails(c) \/ Begins(c) \/ Suspends(c, "not_empty") \/ Signal(c) \/ Close(c)
        <5>1. at[c] \in {"look", "idle", "empty", "signal", "close"}
          BY <4>4, Zenon DEF Fails, Begins, Suspends, Signal, Close, Here
        <5> QED
          BY <5>1, Zenon DEF Filling, Again
      <4> QED
        BY <1>8, <2>7, <4>1, <4>2, <4>3, <4>4, Zenon DEF Row
    <3> QED
      BY <1>1, <1>2, <1>4, <2>2, <2>3, <3>1, <3>2
  <2> QED
    BY <2>4, <2>5, <2>6, <2>7, Zenon
<1> QED
  BY <1>6, <1>7, <1>8, Zenon

-----------------------------------------------------------------------------
(* A step inside a wait: who was called stays so until it looks again. *)
LEMMA WaitsHope ==
  ASSUME QueueType, CondInv, PlaceInv, StatusInv, NEW c \in Context, Waits(c), UNCHANGED queueVars,
         failed' = None, NEW d \in Context, NEW k \in Cond
  PROVE  /\ Called(d, k) => Called(d, k)' \/ Again(d)'
         /\ Again(d) => Again(d)'
<1>0. UNCHANGED at
  BY Zenon DEF queueVars
<1>1. Again(d) => Again(d)'
  <2>1. cv[d] = "out" => cv'[d] = "out" /\ status'[d] = status[d]
    BY WaitsBy, Zenon DEF QueueType
  <2> QED
    BY <1>0, <2>1, Zenon DEF Again
<1>2. ASSUME Called(d, k) PROVE Called(d, k)' \/ Again(d)'
  <2>0. on[d] = k /\ cv[d] # "out" /\ at[d] = "waited" /\ status[d] = "no_timeout"
    <3>1. on[d] = k /\ on[d] # None
      BY <1>2, Zenon DEF Called
    <3>2. cv[d] # "out" /\ at[d] = "waited"
      BY <3>1, Zenon DEF CondInv, CallInv, PlaceInv, PlaceAt
    <3> QED
      BY <1>2, <3>1, <3>2, Zenon DEF Called, StatusInv
  <2>1. CASE SetReady(c)
    <3> DEFINE h == Head(pend[c])
    <3>1. Range(Tail(pend[c])) = Range(pend[c]) \ {h} /\ h \in Range(pend[c])
      BY <2>1, TailRange DEF CondInv, CondType, ListInv, SetReady
    <3>2. h \in Context
      BY <3>1, RangeTyped DEF CondInv, CondType
    <3> HIDE DEF h
    <3>3. /\ why' = [why EXCEPT ![h] = @ \cup {"notify"}] /\ pend' = [pend EXCEPT ![c] = Tail(@)]
          /\ UNCHANGED on
      BY <2>1, Zenon DEF SetReady, h
    <3>4. CASE d = h
      BY <2>0, <3>2, <3>3, <3>4, Zenon DEF Called, CondInv, CondType
    <3>5. CASE d # h
      <4>1. why'[d] = why[d]
        BY <3>3, <3>5, Zenon DEF CondInv, CondType
      <4>2. d \in Pending => d \in Pending'
        <5>1. \A e \in Context : d \in Range(pend[e]) => d \in Range(pend'[e])
          BY <3>1, <3>3, <3>5, Zenon DEF CondInv, CondType
        <5> QED
          BY <5>1, Zenon DEF Pending
      <4> QED
        BY <1>2, <3>3, <4>1, <4>2, Zenon DEF Called
    <3> QED
      BY <3>4, <3>5, Zenon
  <2>2. CASE Relock(c)
    <3>1. /\ cv' = [cv EXCEPT ![c] = "out"] /\ on' = [on EXCEPT ![c] = None]
          /\ why' = [why EXCEPT ![c] = {}] /\ UNCHANGED <<pend, status>>
      BY <2>2, Zenon DEF Relock
    <3>2. CASE d = c
      BY <1>0, <2>0, <3>1, <3>2, Zenon DEF Again, CondInv, CondType
    <3>3. CASE d # c
      BY <1>2, <3>1, <3>3, Zenon DEF Called, Pending, CondInv, CondType
    <3> QED
      BY <3>2, <3>3, Zenon
  <2>3. CASE TimeOut(c) \/ Throw(c)
    <3>1. failed = None /\ cv[c] \in {"expired", "throw"} /\ c \in Range(waiting[on[c]])
      BY <2>3, Zenon DEF TimeOut, Throw, Abort
    <3>2. d # c
      <4>1. on[c] \in Cond
        BY <3>1, Zenon DEF CondInv, CallInv
      <4>2. Unreached(c) /\ c \notin Pending
        BY <3>1, <4>1 DEF CondInv, ListInv, Pending
      <4> QED
        BY <1>2, <4>2, Zenon DEF Called, Unreached
    <3>3. /\ on' \in {on, [on EXCEPT ![c] = None]} /\ why' \in {why, [why EXCEPT ![c] = {}]}
          /\ UNCHANGED pend
      BY <2>3, <3>1, Zenon DEF TimeOut, Throw
    <3> QED
      BY <1>2, <3>2, <3>3 DEF Called, Pending, CondInv, CondType
  <2>4. CASE Wake(c) \/ Pass(c) \/ Interrupt(c)
    <3>1. /\ UNCHANGED <<on, pend>>
          /\ \/ UNCHANGED why
             \/ why' = [why EXCEPT ![c] = why[c] \cup {"deadline"}]
             \/ why' = [why EXCEPT ![c] = why[c] \cup {"interrupt"}]
      BY <2>4, Zenon DEF Wake, Pass, Interrupt
    <3>2. "notify" \in why[d] => "notify" \in why'[d]
      <4>2. why'[d] \in {why[d], why[d] \cup {"deadline"}, why[d] \cup {"interrupt"}}
        BY <3>1 DEF CondInv, CondType
      <4> QED
        BY <4>2, Zenon
    <3> QED
      BY <1>2, <3>1, <3>2, Zenon DEF Called, Pending
  <2> QED
    BY <2>1, <2>2, <2>3, <2>4, Zenon DEF Waits, CondStep
<1> QED
  BY <1>1, <1>2, Zenon

LEMMA WaitsCount ==
  ASSUME Counts, QueueType, CondInv, PlaceInv, StatusInv, TakersInv, FillersInv, ClosedInv,
         NEW c \in Context, Waits(c), UNCHANGED queueVars
  PROVE  TakersInv' /\ FillersInv' /\ ClosedInv'
<1>0. UNCHANGED <<mode, open, count, head, tail, op, at>> /\ count \in Int /\ mode \in Mode
  BY Zenon DEF queueVars, listVars, QueueType
<1>1. failed = None
  BY Zenon DEF Waits, CondStep, Wake, TimeOut, Throw, Relock, SetReady, Pass, Interrupt
<1>2. \A k \in Cond : Range(waiting'[k]) \subseteq Range(waiting[k])
  BY NoneEnters, Zenon DEF Waits
<1>3. \A k \in Cond : waiting'[k] # <<>> => waiting[k] # <<>>
  <2>1. CondInv'
    BY CondStays, Zenon DEF Waits
  <2>2. \A k \in Cond : waiting'[k] \in Seq(Context)
    BY <2>1, Zenon DEF CondInv, CondType
  <2>3. \A k \in Cond : waiting'[k] # <<>> => Range(waiting'[k]) # {}
    BY <2>2, RangeTyped
  <2> QED
    BY <1>2, <2>3, EmptyRange, Zenon
<1>4. ASSUME failed' = None
      PROVE  /\ Cardinality(Takers) \in Nat /\ Cardinality(Takers') \in Nat
             /\ Cardinality(Takers) <= Cardinality(Takers')
             /\ Cardinality(Fillers) \in Nat /\ Cardinality(Fillers') \in Nat
             /\ Cardinality(Fillers) <= Cardinality(Fillers')
  <2>1. ASSUME NEW d \in Context
        PROVE  /\ d \in Takers => d \in Takers'
               /\ d \in Fillers => d \in Fillers'
    <3>1. /\ Called(d, "not_empty") => Called(d, "not_empty")' \/ Again(d)'
          /\ Called(d, "not_full") => Called(d, "not_full")' \/ Again(d)'
          /\ Again(d) => Again(d)'
      BY <1>4, WaitsHope, Zenon
    <3>2. /\ Called(d, "not_empty") => op[d] \in Pops \cap Waiter
          /\ Called(d, "not_full") => op[d] \in Pushes \cap Waiter
      BY Zenon DEF Called, PlaceInv, PlaceAt
    <3> QED
      BY <1>0, <3>1, <3>2, Zenon DEF Takers, Fillers, Fetching, Filling
  <2>2. Takers \subseteq Takers' /\ Fillers \subseteq Fillers'
    BY <2>1, Zenon DEF Takers, Fillers
  <2> QED
    BY <2>2, SubsetCounts, Zenon DEF Takers, Fillers
<1>5. TakersInv'
  <2> SUFFICES ASSUME Single', failed' = None, waiting'["not_empty"] # <<>>
               PROVE  (\E d \in Context : at'[d] = "close") \/ count' <= Cardinality(Takers')
    BY Zenon DEF TakersInv
  <2>1. (\E d \in Context : at[d] = "close") \/ count <= Cardinality(Takers)
    BY <1>0, <1>1, <1>3, Zenon DEF TakersInv, Single
  <2> QED
    BY <1>0, <1>4, <2>1
<1>6. FillersInv'
  <2> SUFFICES ASSUME Single', ~mode'.throws, failed' = None, waiting'["not_full"] # <<>>
               PROVE  /\ Bounded'
                      /\ mode'.lwm = mode'.hwm => mode'.hwm - count' <= Cardinality(Fillers')
                      /\ mode'.lwm # mode'.hwm =>
                           count' > mode'.lwm \/ \E d \in Context : at'[d] = "space"
    BY Zenon DEF FillersInv
  <2>1. /\ Bounded
        /\ mode.lwm = mode.hwm => mode.hwm - count <= Cardinality(Fillers)
        /\ mode.lwm # mode.hwm => count > mode.lwm \/ \E d \in Context : at[d] = "space"
    BY <1>0, <1>1, <1>3, Zenon DEF FillersInv, Single
  <2>2. mode.hwm \in Nat
    BY <1>0, Zenon
  <2> QED
    BY <1>0, <1>4, <2>1, <2>2 DEF Bounded
<1>7. ClosedInv'
  BY <1>0, <1>2, Zenon DEF ClosedInv, Single, Bounded
<1> QED
  BY <1>5, <1>6, <1>7, Zenon

-----------------------------------------------------------------------------
(* The mutexes. *)

(* The others keep the mutexes they have, and c has the one it needs. *)
Holds(c) ==
  /\ \A m \in Lock : \A d \in Context \ {c} : holder[m] = d => holder'[m] = d
  /\ Inserts(c)' => holder'["tail"] = c
  /\ Removes(c)' => holder'["head"] = c

Inserting == {"room", "full", "fill", "advance"}
Removing == {"look", "empty", "take"}

LEMMA Mutexes == Lock = {"head", "tail"} /\ MutexOf["not_empty"] = "head" /\ MutexOf["not_full"] = "tail"
BY Zenon DEF Lock, Range

LEMMA HoldsBy ==
  ASSUME QueueType, HoldInv, mode.threads, Orderly, NEW c \in Context, NEW p,
         at' = [at EXCEPT ![c] = p],
         \/ /\ p \notin Inserting \cup Removing \cup {"waited"}
            /\ \/ holder' = holder \/ holder' = Released(c)
               \/ \E m \in Lock : holder[m] = None /\ holder' = [holder EXCEPT ![m] = c]
         \/ p \in Inserting /\ Inserts(c) /\ holder' = holder
         \/ p \in Removing /\ Removes(c) /\ holder' = holder
         \/ p = "room" /\ holder["tail"] = None /\ holder' = [holder EXCEPT !["tail"] = c]
         \/ p = "look" /\ holder["head"] = None /\ holder' = [holder EXCEPT !["head"] = c]
  PROVE  Holds(c)
<1>1. at'[c] = p
  BY Zenon DEF QueueType
<1>2. /\ Inserts(c)' => p \in Inserting \cup {"waited"}
      /\ Removes(c)' => p \in Removing \cup {"waited"}
  BY <1>1, Zenon DEF Inserts, Removes, Again, Inserting, Removing
<1>3. /\ Inserts(c) => holder["tail"] = c
      /\ Removes(c) => holder["head"] = c
  BY Zenon DEF HoldInv
<1>4. None \notin Context /\ DOMAIN holder = {"head", "tail"} /\ Lock = {"head", "tail"}
  BY Mutexes, Zenon DEF HoldInv
<1> QED
  BY <1>2, <1>3, <1>4 DEF Holds, Released, Inserting, Removing

LEMMA SuspendHolds ==
  ASSUME QueueType, CondInv, HoldInv, mode.threads, Orderly, NEW c \in Context,
         Full(c) \/ Empty(c)
  PROVE  Holds(c)
<1>1. PICK k \in Cond, p \in {"wait", "wait_until"} :
        EnterWait(c, k, p) /\ at[c] = IF k = "not_empty" THEN "empty" ELSE "full"
  BY Zenon DEF Full, Empty, Here
<1>2. holder[MutexOf[k]] = c
  BY <1>1, Mutexes, Zenon DEF HoldInv, Inserts, Removes
<1>3. Free(c) /\ Goto(c, "waited")
  BY Zenon DEF Full, Empty, Here
<1>4. c \notin Range(waiting[k])
  BY <1>3, OutUnlisted, Zenon DEF Free, CondInv
<1>5. /\ holder' = [holder EXCEPT ![MutexOf[k]] = None] /\ cv' = [cv EXCEPT ![c] = p]
  BY <1>1, <1>4, Zenon DEF EnterWait
<1>6. cv'[c] # "out" /\ at'[c] = "waited"
  BY <1>3, <1>5, Zenon DEF CondInv, CondType, Goto, QueueType
<1>7. \A m \in Lock : \A d \in Context \ {c} : holder[m] = d => holder'[m] = d
  BY <1>2, <1>5, Zenon DEF HoldInv
<1> QED
  BY <1>6, <1>7, Zenon DEF Holds, Inserts, Removes, Again

LEMMA StepHolds ==
  ASSUME QueueType, CondInv, PlaceInv, TryInv, HoldInv, mode.threads, Orderly, NEW c \in Context,
         QueueStep(c) \/ Push(c) \/ Pop(c) \/ CloseCall(c)
  PROVE  Holds(c)
<1>0. /\ "head" \in Lock /\ "tail" \in Lock
      /\ \A p : p \in {"idle", "start", "signal", "space", "done", "close_tail", "close", "close_full"}
           => p \notin Inserting \cup Removing \cup {"waited"}
  BY Mutexes, Zenon DEF Inserting, Removing
<1>1. ASSUME Return(c) PROVE Holds(c)
  BY <1>0, <1>1, HoldsBy, Zenon DEF Return, Call, Reads
<1>2. CASE Push(c) \/ Pop(c)
  BY <1>0, <1>2, HoldsBy DEF Push, Pop, Call, Quietly, condVars
<1>3. CASE CloseCall(c)
  BY <1>0, <1>3, HoldsBy DEF CloseCall, Call, Locks, Quietly, condVars
<1>4. CASE CloseTail(c)
  BY <1>0, <1>4, HoldsBy, Zenon DEF CloseTail, Goto, Locks
<1>5. CASE Done(c)
  BY <1>1, <1>5 DEF Done
<1>6. CASE Waited(c)
  <2>1. CASE status[c] = "no_timeout"
    <3>1. Again(c) /\ op[c] \in Pushes \cup Pops
      BY <1>6, <2>1 DEF Waited, Here, Free, Again, PlaceInv, PlaceAt, Waiter, Pushes, Pops
    <3>2. holder' = holder /\ at' = [at EXCEPT ![c] = IF op[c] \in Pushes THEN "room" ELSE "look"]
      BY <1>6, <2>1 DEF Waited, Goto, Quietly, condVars
    <3> QED
      BY <3>1, <3>2, HoldsBy, Zenon DEF Inserts, Removes, Inserting, Removing
  <2> QED
    BY <1>1, <1>6, <2>1 DEF Waited
<1>7. CASE PushLock(c)
  <2>1. CASE open
    <3>1. PushMutex(c) = "tail"
      BY <1>7, Zenon DEF PushMutex, TryInv, Orderly
    <3> QED
      BY <1>7, <2>1, <3>1, HoldsBy, Zenon DEF PushLock, Goto, Locks
  <2> QED
    BY <1>1, <1>7, <2>1 DEF PushLock
<1>8. CASE Room(c)
  <2>1. CASE Return(c)
    BY <1>1, <2>1, Zenon
  <2>2. CASE ~Return(c)
    <3>1. at[c] = "room" /\ holder' = holder /\ \E p \in Inserting : at' = [at EXCEPT ![c] = p]
      BY <1>8, <2>2, Zenon DEF Room, Here, Goto, Quietly, condVars, Inserting
    <3> QED
      BY <3>1, HoldsBy, Zenon DEF Inserts
  <2> QED
    BY <2>1, <2>2, Zenon
<1>9. CASE Full(c) \/ Empty(c)
  BY <1>9, SuspendHolds, Zenon
<1>10. CASE Fill(c)
  BY <1>10, HoldsBy, Zenon DEF Fill, Here, Goto, Quietly, condVars, Inserts, Inserting
<1>11. CASE FillThrows(c) \/ TakeThrows(c)
  BY <1>0, <1>11, HoldsBy, Zenon DEF FillThrows, TakeThrows, Goto, Quietly, condVars
<1>12. CASE Advance(c)
  BY <1>0, <1>12, HoldsBy, Zenon DEF Advance, Goto, Quietly, Locks, condVars
<1>13. CASE Signal(c) \/ Space(c) \/ Close(c) \/ CloseFull(c)
  BY <1>0, <1>13, HoldsBy, Zenon DEF Signal, Space, Close, CloseFull, Goto, Notifies
<1>14. CASE PopLock(c)
  BY <1>14, HoldsBy, Zenon DEF PopLock, Goto, Locks
<1>15. CASE Look(c)
  <2>1. CASE Return(c)
    BY <1>1, <2>1, Zenon
  <2>2. CASE ~Return(c)
    <3>1. /\ at[c] = "look" /\ holder' = holder
          /\ at' = at \/ \E p \in Removing : at' = [at EXCEPT ![c] = p]
      BY <1>15, <2>2, Zenon DEF Look, Here, Goto, Quietly, Abort, condVars, Removing
    <3>2. at' = at => at' = [at EXCEPT ![c] = "look"]
      BY <3>1, Zenon DEF QueueType
    <3> QED
      BY <3>1, <3>2, HoldsBy, Zenon DEF Removes, Removing
  <2> QED
    BY <2>1, <2>2, Zenon
<1>16. CASE Take(c)
  BY <1>0, <1>16, HoldsBy, Zenon DEF Take, Quietly, condVars
<1> QED
  BY <1>2, <1>3, <1>4, <1>5, <1>6, <1>7, <1>8, <1>9, <1>10, <1>11, <1>12, <1>13, <1>14,
      <1>15, <1>16, Zenon DEF QueueStep, PushStep, PopStep, CloseStep

LEMMA WaitsHold ==
  ASSUME QueueType, CondInv, PlaceInv, HoldInv, mode.threads, Orderly, NEW c \in Context,
         Waits(c), UNCHANGED queueVars
  PROVE  Holds(c)
<1>0. UNCHANGED <<at, op>> /\ PlaceAt(c) /\ CondType /\ None \notin Context
  BY Zenon DEF queueVars, PlaceInv, CondInv, HoldInv
<1>1. CASE Relock(c)
  <2> DEFINE m == MutexOf[on[c]]
  <2>1. on[c] \in Cond /\ cv[c] # "out"
    BY <1>1, Zenon DEF Relock, CondInv, CallInv
  <2>2. /\ m \in Lock /\ at[c] = "waited"
        /\ op[c] \in Pushes => m = "tail"
        /\ op[c] \in Pops => m = "head"
    BY <1>0, <2>1, Mutexes, Zenon DEF PlaceAt, Pushes, Pops
  <2>3. holder[m] = None /\ holder' = [holder EXCEPT ![m] = c]
    BY <1>1, Zenon DEF Relock
  <2> HIDE DEF m
  <2>4. holder'[m] = c /\ \A n \in Lock \ {m} : holder'[n] = holder[n]
    BY <2>2, <2>3, Zenon DEF HoldInv
  <2>5. (Inserts(c)' => op[c] \in Pushes) /\ (Removes(c)' => op[c] \in Pops)
    BY <1>0, <2>2, Zenon DEF Inserts, Removes
  <2> QED
    BY <1>0, <2>2, <2>3, <2>4, <2>5, Zenon DEF Holds
<1>2. CASE ~Relock(c)
  <2>1. UNCHANGED holder
    BY <1>2, Zenon DEF Waits, CondStep, Wake, TimeOut, Throw, SetReady, Pass, Interrupt,
        Abort
  <2>2. cv'[c] = "out" /\ status'[c] = "no_timeout" => cv[c] = "out" /\ status[c] = "no_timeout"
    <3>1. \/ UNCHANGED <<cv, status>> \/ cv' = [cv EXCEPT ![c] = IF Expired(c) THEN "expired" ELSE AfterWake(c)]
          \/ cv' = [cv EXCEPT ![c] = AfterWake(c)]
          \/ status' = [status EXCEPT ![c] = "interrupted"]
      BY <1>2, Zenon DEF Waits, CondStep, Wake, TimeOut, Throw, SetReady, Pass,
          Interrupt, Abort
    <3> QED
      BY <1>0, <3>1, Zenon DEF CondType, QueueType, AfterWake
  <2>3. (Inserts(c)' => Inserts(c)) /\ (Removes(c)' => Removes(c))
    BY <1>0, <2>2, Zenon DEF Inserts, Removes, Again
  <2> QED
    BY <2>1, <2>3, Zenon DEF Holds, HoldInv
<1> QED
  BY <1>1, <1>2, Zenon

LEMMA HolderType ==
  ASSUME HoldInv, NEW c \in Context,
         \/ QueueStep(c) \/ Push(c) \/ Pop(c) \/ CloseCall(c)
         \/ Waits(c)
  PROVE  holder' \in [Lock -> Context \cup {None}]
<1>1. CASE PushStep(c) \/ Push(c) \/ Waited(c) \/ Done(c)
  <2>1. \/ holder' = holder \/ holder' = Released(c)
        \/ \E m, x \in {c, None, "head", "tail"} \cup Lock : holder' = [holder EXCEPT ![m] = x] /\ x \in {c, None}
    BY <1>1, Mutexes, Zenon DEF PushStep, PushLock, PushMutex, Room, Full, Fill,
        FillThrows, Advance, Signal, Push, Waited, Done, EnterWait, Abort, Quietly,
        Locks, Notifies, Return, Reads, condVars
  <2> QED
    BY <2>1 DEF HoldInv, Released
<1>2. CASE PopStep(c) \/ Pop(c) \/ CloseStep(c) \/ CloseCall(c)
  <2>1. \/ holder' = holder \/ holder' = Released(c)
        \/ \E m, x \in {c, None, "head", "tail"} \cup Lock : holder' = [holder EXCEPT ![m] = x] /\ x \in {c, None}
    BY <1>2, Mutexes, Zenon DEF PopStep, PopLock, Look, Empty, Take, TakeThrows, Space,
        Pop, CloseStep, CloseTail, Close, CloseFull, CloseCall, EnterWait, Abort,
        Quietly, Locks, Notifies, Return, Reads, condVars
  <2> QED
    BY <2>1, Zenon DEF HoldInv, Released
<1>3. CASE Waits(c)
  <2>1. holder' = holder \/ holder' = [holder EXCEPT ![MutexOf[on[c]]] = c]
    BY <1>3, Zenon DEF Waits, CondStep, Wake, TimeOut, Throw, Relock, SetReady, Pass,
        Interrupt, Abort
  <2> QED
    BY <2>1 DEF HoldInv
<1> QED
  BY <1>1, <1>2, <1>3, Zenon DEF QueueStep

LEMMA HoldStays ==
  ASSUME QueueType, CondInv, PlaceInv, TryInv, HoldInv, Next
  PROVE  HoldInv'
<1>1. PICK c \in Context : \/ QueueStep(c) \/ Push(c) \/ Pop(c) \/ CloseCall(c)
                           \/ Waits(c) /\ UNCHANGED queueVars
  BY Steps, Zenon
<1>2. /\ holder' \in [Lock -> Context \cup {None}] /\ UNCHANGED mode
      /\ \A d \in Context \ {c} : /\ at'[d] = at[d] /\ op'[d] = op[d]
                                  /\ cv'[d] = cv[d] /\ status'[d] = status[d]
  <2>1. CASE Waits(c) /\ UNCHANGED queueVars
    BY <2>1, HolderType, WaitsBy, Zenon DEF queueVars, QueueType
  <2>2. CASE QueueStep(c) \/ Push(c) \/ Pop(c) \/ CloseCall(c)
    <3>1. Row(c)
      BY <2>2, StepRows, Zenon
    <3> QED
      BY <2>2, <3>1, HolderType, RowOthers, Zenon DEF Row
  <2> QED
    BY <1>1, <2>1, <2>2, Zenon
<1>3. mode.threads /\ Orderly => Holds(c)
  BY <1>1, StepHolds, WaitsHold, ZenonT(40)
<1>4. ASSUME mode.threads, Orderly, NEW d \in Context
      PROVE  (Inserts(d)' => holder'["tail"] = d) /\ (Removes(d)' => holder'["head"] = d)
  BY <1>2, <1>3, <1>4, Mutexes, ZenonT(40) DEF Holds, HoldInv, Inserts, Removes, Again
<1> QED
  BY <1>2, <1>4, Zenon DEF HoldInv, Orderly, Bounded

-----------------------------------------------------------------------------
QueueInv ==
  /\ QueueType /\ CondInv /\ PlaceInv /\ StatusInv /\ RoomInv
  /\ TryInv /\ HoldInv /\ ChainInv /\ LimitInv
  /\ SawInv /\ ClosedInv /\ TakersInv /\ FillersInv

LEMMA QueueStarts == Counts /\ QueueInit => QueueInv
<1> SUFFICES ASSUME Counts, QueueInit PROVE QueueInv
  BY Zenon
<1> USE DEF QueueInit
<1>1. CondInv
  BY CondStarts, Zenon
<1>2. QueueType
  BY DEF CondInit, QueueType, Where, Op
<1>3. /\ waiting = [k \in Cond |-> <<>>] /\ on = [c \in Context |-> None] /\ cv = [c \in Context |-> "out"]
      /\ pend = [c \in Context |-> <<>>]
  BY Zenon DEF CondInit
<1>4. PlaceInv /\ StatusInv
  BY <1>3, Zenon DEF PlaceInv, PlaceAt, StatusInv
<1>5. RoomInv
  <2>1. Unfilled = {}
    BY Zenon DEF Unfilled
  <2> QED
    BY <2>1 DEF RoomInv, Counts
<1>6. ChainInv /\ LimitInv /\ TryInv
  BY DEF ChainInv, LimitInv, TryInv, Node
<1>9. HoldInv
  BY <1>3, Zenon DEF CondInit, HoldInv, Inserts, Removes, Again
<1>7. SawInv /\ ClosedInv
  BY Zenon DEF SawInv, SawAt, ClosedInv
<1>8. TakersInv /\ FillersInv
  BY <1>3, Zenon DEF TakersInv, FillersInv
<1> QED
  BY <1>1, <1>2, <1>4, <1>5, <1>6, <1>7, <1>8, <1>9, Zenon DEF QueueInv

LEMMA QueueStays == Counts /\ QueueInv /\ [Next]_vars => QueueInv'
<1> SUFFICES ASSUME Counts, QueueInv, [Next]_vars PROVE QueueInv'
  BY Zenon
<1>0. /\ QueueType /\ CondInv /\ PlaceInv /\ StatusInv /\ RoomInv
      /\ TryInv /\ HoldInv /\ ChainInv /\ LimitInv
      /\ SawInv /\ ClosedInv /\ TakersInv /\ FillersInv
  BY Zenon DEF QueueInv
<1>1. ASSUME NEW c \in Context, Row(c), HoldInv' PROVE QueueInv'
  <2>1. CondInv'
    BY <1>0, <1>1, RowClient, ClientStays, Zenon
  <2>2. QueueType' /\ PlaceInv' /\ StatusInv' /\ RoomInv'
    BY <1>0, <1>1, RowType, RowPlace, RowStatus, RowRoom, Zenon
  <2>3. TryInv' /\ ChainInv' /\ LimitInv' /\ SawInv' /\ ClosedInv'
    BY <1>0, <1>1, RowTry, RowChain, RowLimit, RowSaw, RowClosed, Zenon
  <2>4. TakersInv' /\ FillersInv'
    BY <1>0, <1>1, RowTakers, RowFillers, Zenon
  <2> QED
    BY <1>1, <2>1, <2>2, <2>3, <2>4, Zenon DEF QueueInv
<1>2. ASSUME UNCHANGED queueVars
      PROVE  RoomInv' /\ TryInv' /\ ChainInv' /\ LimitInv' /\ SawInv'
  <2>1. UNCHANGED <<mode, open, count, head, tail, nodes, va, next, new, op, at>>
    BY <1>2, Zenon DEF queueVars, listVars
  <2> QED
    BY <1>0, <2>1, Zenon DEF RoomInv, Unfilled, TryInv, Orderly, ChainInv, LimitInv, Single, SawInv,
         SawAt, IsEmpty, IsFull, Bounded
<1>3. ASSUME NEW c \in Context, Waits(c), UNCHANGED queueVars, HoldInv' PROVE QueueInv'
  <2>1. QueueType' /\ CondInv' /\ PlaceInv' /\ StatusInv'
    BY <1>0, <1>3, WaitsStay, Zenon
  <2>2. TakersInv' /\ FillersInv' /\ ClosedInv'
    BY <1>0, <1>3, WaitsCount, Zenon
  <2> QED
    BY <1>0, <1>2, <1>3, <2>1, <2>2, Zenon DEF QueueInv
<1>4. CASE Next
  BY <1>0, <1>1, <1>3, <1>4, NextRows, HoldStays, Zenon
<1>5. CASE UNCHANGED vars
  <2>1. /\ UNCHANGED queueVars /\ UNCHANGED <<mode, open, count, head, tail, nodes, va, next, new, op, at>>
        /\ UNCHANGED <<waiting, on, cv, why, pend, status, failed, holder>>
    BY <1>5, Zenon DEF vars, queueVars, listVars, condVars
  <2>2. CondInv'
    BY <1>0, <2>1, LeavesStays, Zenon DEF Leaves, waitVars
  <2>3. UNCHANGED Pending
    BY <2>1, Zenon DEF Pending
  <2>4. QueueType' /\ PlaceInv' /\ StatusInv'
    BY <1>0, <2>1, <2>3, Zenon DEF QueueType, PlaceInv, PlaceAt, StatusInv
  <2>5. UNCHANGED <<Takers, Fillers>>
    BY <2>1, <2>3, Zenon DEF Takers, Fillers, Called, Again, Fetching, Filling
  <2>6. TakersInv' /\ FillersInv' /\ ClosedInv'
    BY <1>0, <2>1, <2>5, Zenon DEF TakersInv, FillersInv, ClosedInv, Single, Bounded
  <2>7. HoldInv'
    BY <1>0, <2>1, Zenon DEF HoldInv, Inserts, Removes, Again, Orderly, Bounded
  <2> QED
    BY <1>0, <1>2, <2>1, <2>2, <2>4, <2>6, <2>7, Zenon DEF QueueInv
<1> QED
  BY <1>4, <1>5, Zenon

-----------------------------------------------------------------------------
(* The queue as a Fifo. *)

Slice(f, a, b) == [i \in 1..(b - a) |-> f[a + i - 1]]

LEMMA SliceSeq ==
  ASSUME NEW f, NEW a \in Nat, NEW b \in Nat, a <= b, \A n \in a..(b - 1) : f[n] \in Nat
  PROVE  Slice(f, a, b) \in Seq(Nat) /\ Len(Slice(f, a, b)) = b - a
<1>1. \A i \in 1..(b - a) : a + i - 1 \in a..(b - 1)
  OBVIOUS
<1>2. Slice(f, a, b) \in [1..(b - a) -> Nat]
  BY <1>1, Zenon DEF Slice
<1> QED
  BY <1>2

LEMMA SliceAppend ==
  ASSUME NEW f, NEW a \in Nat, NEW b \in Nat, a <= b, \A n \in a..b : f[n] \in Nat
  PROVE  Slice(f, a, b + 1) = Append(Slice(f, a, b), f[b])
<1>1. Slice(f, a, b) \in Seq(Nat) /\ Len(Slice(f, a, b)) = b - a
  BY SliceSeq
<1>2. Slice(f, a, b + 1) \in Seq(Nat) /\ Len(Slice(f, a, b + 1)) = b + 1 - a
  BY SliceSeq
<1> QED
  BY <1>1, <1>2 DEF Slice

LEMMA SliceTail ==
  ASSUME NEW f, NEW a \in Nat, NEW b \in Nat, a < b, \A n \in a..(b - 1) : f[n] \in Nat
  PROVE  /\ Slice(f, a, b) # <<>> /\ Head(Slice(f, a, b)) = f[a]
         /\ Slice(f, a + 1, b) = Tail(Slice(f, a, b))
<1>1. Slice(f, a, b) \in Seq(Nat) /\ Len(Slice(f, a, b)) = b - a
  BY SliceSeq
<1>2. a + 1 \in Nat /\ a + 1 <= b /\ \A n \in (a + 1)..(b - 1) : f[n] \in Nat
  OBVIOUS
<1>3. Slice(f, a + 1, b) \in Seq(Nat) /\ Len(Slice(f, a + 1, b)) = b - (a + 1)
  BY <1>2, SliceSeq, Zenon
<1>4. Slice(f, a, b) # <<>> /\ Head(Slice(f, a, b)) = f[a]
  <2>1. Slice(f, a, b)[1] = f[a]
    BY DEF Slice
  <2> QED
    BY <1>1, <2>1
<1>5. Tail(Slice(f, a, b)) \in Seq(Nat) /\ Len(Tail(Slice(f, a, b))) = b - (a + 1)
  BY <1>1, <1>4
<1>6. \A i \in 1..(b - (a + 1)) : Tail(Slice(f, a, b))[i] = Slice(f, a + 1, b)[i]
  BY <1>1, <1>4 DEF Slice
<1>7. \A s, t \in Seq(Nat) : Len(s) = Len(t) /\ (\A i \in 1..Len(s) : s[i] = t[i]) => s = t
  OBVIOUS
<1> QED
  BY <1>7, <1>3, <1>4, <1>5, <1>6, Zenon
LEMMA Gets ==
  ASSUME NEW c \in Context, QueueStep(c) \/ Push(c) \/ Pop(c) \/ CloseCall(c)
  PROVE  \/ Fill(c) \/ Advance(c) \/ Take(c)
         \/ UNCHANGED <<mode, head, tail, va>> /\ got' \in {got, [got EXCEPT ![c] = 0]}
<1>1. CASE Close(c)
  BY <1>1, Zenon DEF Close, Goto, listVars
<1>2. CASE PushStep(c) \/ Push(c) \/ Waited(c) \/ Done(c)
  BY <1>2, Zenon DEF PushStep, PushLock, Room, Full, FillThrows, Signal, Push, Waited,
      Done, Goto, Return, Call, SameList, listVars
<1>3. CASE PopStep(c) \/ Pop(c) \/ CloseTail(c) \/ CloseFull(c) \/ CloseCall(c)
  BY <1>3, Zenon DEF PopStep, PopLock, Look, Empty, TakeThrows, Space, Pop, CloseTail,
      CloseFull, CloseCall, Goto, Return, Call, SameList, listVars
<1> QED
  BY <1>1, <1>2, <1>3, Zenon DEF QueueStep, CloseStep

(* A step of the list is a step of the Fifo or leaves it as it is. *)
LEMMA FifoStep ==
  ASSUME QueueInv, Orderly, [Next]_vars
  PROVE  [F!Next]_F!vars
<1>0. /\ QueueType /\ ChainInv /\ LimitInv /\ \A n \in Node : va[n] \in Nat
  BY Zenon DEF QueueInv, QueueType
<1>1. /\ head \in Nat /\ tail \in Nat /\ tail \in Node /\ 1 <= head /\ head <= tail
      /\ count = tail - head
      /\ \A n \in head..(tail - 1) : n \in Node /\ next[n] = n + 1 /\ va[n] \in Nat
  BY <1>0 DEF ChainInv, Node
<1> DEFINE bd == IF Bounded THEN mode.hwm ELSE MaxPush
<1>2. Items = Slice(va, head, tail)
  BY Zenon DEF Items, Slice
<1>2a. mode' = mode => ByReference' = ByReference
  BY Zenon DEF ByReference
<1>3. ASSUME UNCHANGED <<mode, head, tail, va>>, NEW c \in Context, got' \in {got, [got EXCEPT ![c] = 0]}
      PROVE  [F!Next]_F!vars
  <2>1. UNCHANGED <<Items, bd>>
    BY <1>3, Zenon DEF Items, Bounded
  <2> QED
    BY <1>3, <1>2a, <2>1, Zenon DEF F!Next, F!Drop, F!vars
<1>4. ASSUME NEW c \in Context, Fill(c) PROVE [F!Next]_F!vars
  <2>1. UNCHANGED <<mode, head, tail, got>> /\ va' = [va EXCEPT ![tail] = nodes]
    BY <1>4, Zenon DEF Fill, Goto
  <2>2. \A i \in 1..(tail - head) : va'[head + i - 1] = va[head + i - 1]
    BY <1>0, <1>1, <2>1 DEF QueueType
  <2>3. UNCHANGED <<Items, bd>>
    BY <2>1, <2>2, Zenon DEF Items, Bounded
  <2> QED
    BY <1>2a, <2>1, <2>3, Zenon DEF F!vars
<1>5. ASSUME NEW c \in Context, Advance(c) PROVE [F!Next]_F!vars
  <2>1. /\ UNCHANGED <<mode, head, va, got>> /\ tail' = new[c] /\ at[c] = "advance"
    BY <1>5, Zenon DEF Advance, Here, Goto
  <2>2. new[c] = tail + 1 /\ va[tail] = tail /\ tail + 1 \in Node
    BY <1>0, <2>1, Zenon DEF ChainInv
  <2>3. Items' = Slice(va, head, tail + 1)
    BY <2>1, <2>2, Zenon DEF Items, Slice
  <2>4. Slice(va, head, tail + 1) = Append(Slice(va, head, tail), va[tail])
    BY <1>0, <1>1, SliceAppend
  <2>5. Len(Items) = tail - head
    BY <1>1, <1>2, SliceSeq, Zenon
  <2>6. tail - head < bd /\ va[tail] \in 1..MaxPush
    BY <1>0, <1>1, <2>1, <2>2 DEF LimitInv, QueueType, Node
  <2>7. bd' = bd
    BY <2>1, Zenon DEF Bounded
  <2> QED
    BY <1>2, <1>2a, <2>1, <2>3, <2>4, <2>5, <2>6, <2>7, Zenon DEF F!Next, F!Put
<1>6. ASSUME NEW c \in Context, Take(c) PROVE [F!Next]_F!vars
  <2>1. /\ UNCHANGED <<mode, tail, va>> /\ head' = next[head] /\ at[c] = "take"
        /\ got' = IF ByReference THEN [got EXCEPT ![c] = va[head]] ELSE got
    BY <1>6, Zenon DEF Take, Here
  <2>2. head < tail /\ next[head] = head + 1
    BY <1>0, <1>1, <2>1 DEF LimitInv, IsEmpty
  <2>3. Items' = Slice(va, head + 1, tail) /\ bd' = bd
    BY <2>1, <2>2 DEF Items, Slice, Bounded
  <2>4. /\ Slice(va, head, tail) # <<>> /\ Head(Slice(va, head, tail)) = va[head]
        /\ Slice(va, head + 1, tail) = Tail(Slice(va, head, tail))
    BY <1>1, <2>2, SliceTail
  <2> QED
    BY <1>2, <1>2a, <2>1, <2>3, <2>4, Zenon DEF F!Next, F!Take
<1>7. CASE Next
  <2>1. PICK c \in Context : \/ QueueStep(c) \/ Push(c) \/ Pop(c) \/ CloseCall(c)
                             \/ Waits(c) /\ UNCHANGED queueVars
    BY <1>7, Steps
  <2> QED
    BY <2>1, <1>3, <1>4, <1>5, <1>6, Gets DEF queueVars, listVars
<1>8. CASE UNCHANGED vars
  <2>1. UNCHANGED <<Items, bd, got, ByReference>>
    BY <1>8, Zenon DEF vars, queueVars, listVars, Items, Bounded, ByReference
  <2> QED
    BY <2>1 DEF F!vars
<1> QED
  BY <1>7, <1>8, Zenon

(* In one thread a fiber waits on not_empty only while the list is empty,  *)
(* or one of the waiting fibers has been notified.                         *)
LEMMA ConsumersServed ==
  ASSUME Counts, QueueInv
  PROVE  ConsumersAwake
<1> SUFFICES ASSUME Settled, waiting["not_empty"] # <<>>
             PROVE  /\ IsEmpty \/ Roused("not_empty")
                    /\ open \/ \A c \in Range(waiting["not_empty"]) : Bounded /\ op[c] = "pop"
  BY Zenon DEF ConsumersAwake
<1>1. Single /\ failed = None /\ \A c \in Context : at[c] = "idle" \/ cv[c] # "out"
  BY DEF Settled, Single, Blocked
<1>2. \A c \in Context : at[c] \in {"idle", "waited"} /\ PlaceAt(c)
  BY <1>1, Zenon DEF QueueInv, PlaceInv, PlaceAt
<1>4. count <= Cardinality(Takers)
  BY <1>1, <1>2 DEF QueueInv, TakersInv
<1>5. ASSUME ~IsEmpty PROVE Roused("not_empty")
  <2>1. count >= 1
    BY <1>1, <1>5 DEF QueueInv, ChainInv, Orderly, Single, IsEmpty, Node
  <2>2. Takers # {}
    <3>1. count \in Int
      BY DEF QueueInv, QueueType
    <3> QED
      BY <1>4, <2>1, <3>1 DEF Counts
  <2>3. PICK c \in Context : Called(c, "not_empty") \/ Fetching(c)
    BY <2>2, Zenon DEF Takers
  <2>4. ~Fetching(c)
    BY <1>1, <1>2, Zenon DEF Fetching, Again
  <2> QED
    BY <2>3, <2>4 DEF Called, Roused
<1> QED
  BY <1>5, <1>1 DEF QueueInv, ClosedInv

-----------------------------------------------------------------------------
INSTANCE FiniteSetTheorems

LEMMA FiniteCounts == Counts
<1>1. \A B \in SUBSET Context : IsFiniteSet(B)
  BY FS_Subset
<1> QED
  BY <1>1, FS_EmptySet, FS_CardinalityType, FS_Subset, FS_AddElement, Zenon DEF Counts

(* Every reachable state of the queues: the waits are in order, and in one *)
(* thread the list is what count_, head_ and tail_ say.                    *)
THEOREM QueueInvariant == Spec => []QueueInv
BY FiniteCounts, QueueStarts, QueueStays, PTL DEF Spec

(* In one thread no consumer of pop() or pop_wait_until() sleeps while     *)
(* there is a value for it, or in a closed queue outside of                *)
(* bounded_queue::pop(): push() notifies after each value and close() all. *)
THEOREM NoConsumerForgotten == Spec => []ConsumersAwake
<1>1. QueueInv => ConsumersAwake
  BY FiniteCounts, ConsumersServed, Zenon
<1> QED
  BY <1>1, QueueInvariant, PTL

(* In one thread, with values that do not throw, a producer of a bounded   *)
(* queue that sleeps while at most lwm_ values are left has been notified: *)
(* pop() notifies one, or all when lwm_ and hwm_ differ.                   *)
LEMMA ProducersServed ==
  ASSUME QueueInv, Settled, ~mode.throws, waiting["not_full"] # <<>>,
         ~(count > mode.lwm), ~IsFull
  PROVE  Roused("not_full")
<1>1. Single /\ failed = None /\ \A c \in Context : at[c] = "idle" \/ cv[c] # "out"
  BY Zenon DEF Settled, Single, Blocked
<1>2. \A c \in Context : at[c] \in {"idle", "waited"} /\ PlaceAt(c)
  BY <1>1, Zenon DEF QueueInv, PlaceInv, PlaceAt
<1>3. /\ Bounded
      /\ mode.lwm = mode.hwm => mode.hwm - count <= Cardinality(Fillers)
      /\ mode.lwm # mode.hwm => count > mode.lwm \/ \E c \in Context : at[c] = "space"
  BY <1>1, Zenon DEF QueueInv, FillersInv
<1>4. count \in Int /\ mode.hwm \in Nat /\ ~(count >= mode.hwm)
  BY <1>3, Zenon DEF IsFull, QueueInv, QueueType
<1>5. mode.lwm = mode.hwm
  BY <1>2, <1>3, Zenon
<1>6. Fillers # {}
  BY <1>3, <1>4, <1>5, FiniteCounts DEF Counts
<1>7. PICK c \in Context : Called(c, "not_full") \/ Filling(c)
  BY <1>6, Zenon DEF Fillers
<1> QED
  BY <1>7, <1>1, <1>2, Zenon DEF Called, Roused, Filling, Again

(* In one thread, with values that do not throw, no producer sleeps while  *)
(* fewer than lwm_ values are left in a bounded_queue.                     *)
THEOREM NoProducerForgotten == Spec => []ProducersAwake
<1>1. QueueInv => ProducersAwake
  <2> SUFFICES ASSUME QueueInv, Settled, ~mode.throws, waiting["not_full"] # <<>>,
                      ~(count >= mode.lwm)
               PROVE  Roused("not_full")
    BY Zenon DEF ProducersAwake
  <2>1. count \in Int /\ mode.lwm \in Nat /\ mode.hwm \in Nat /\ mode.lwm <= mode.hwm
    BY Zenon DEF QueueInv, QueueType
  <2>2. ~(count > mode.lwm) /\ ~(count >= mode.hwm)
    BY <2>1
  <2> QED
    BY <2>2, ProducersServed, Zenon DEF IsFull
<1> QED
  BY <1>1, QueueInvariant, PTL

(* With any number of threads: whom a condition of the queue refers to is  *)
(* in its wait, and who is blocked in one is in waiting_ or was notified.  *)
THEOREM QueueWaits == Spec => [](WaitersInWait /\ NotificationKept)
<1>1. QueueInv => WaitersInWait /\ NotificationKept
  BY CondKeeps, Zenon DEF QueueInv
<1> QED
  BY <1>1, QueueInvariant, PTL

(* Whatever the number of contexts, threads and values, a queue is a Fifo: *)
(* each pop() takes out the value pushed first among those in the list,    *)
(* bounded_queue and unbounded_queue< T > give it to that caller alone,    *)
(* and a bounded_queue never holds more than hwm_.  Not so when several    *)
(* threads share a bounded_queue of which some use try_push(), which locks *)
(* head_mtx_ where the other push operations lock tail_mtx_.               *)
THEOREM QueueIsFifo ==
  ASSUME \A m \in Mode : m.threads /\ m.kind = "bounded" => ~m.tries
  PROVE  Spec => ImplementsFifo
<1>1. QueueInv => Orderly
  BY Zenon DEF QueueInv, QueueType, Orderly, Bounded
<1>2. QueueInit => F!Init
  <2> SUFFICES ASSUME QueueInit PROVE F!Init
    BY Zenon
  <2>1. Items = Slice(va, 1, 1)
    BY DEF QueueInit, Items, Slice
  <2>2. 1 \in Nat /\ 1 <= 1 /\ \A n \in 1..(1 - 1) : va[n] \in Nat
    OBVIOUS
  <2>3. Slice(va, 1, 1) \in Seq(Nat) /\ Len(Slice(va, 1, 1)) = 1 - 1
    BY <2>2, SliceSeq, Zenon
  <2> QED
    BY <2>1, <2>3 DEF QueueInit, F!Init, ByReference
<1>3. QueueInv => InOrder
  BY <1>1 DEF QueueInv, ChainInv, InOrder
<1>4. QueueInv /\ [Next]_vars => [F!Next]_F!vars
  BY <1>1, FifoStep
<1> QED
  BY <1>2, <1>3, <1>4, QueueInvariant, PTL DEF Spec, ImplementsFifo, F!Spec
=============================================================================
