---------------------------- MODULE LinkedQueue ----------------------------
(***************************************************************************)
(* The waiting queue by its links (detail/waiting_queue.hpp), beside the   *)
(* sequence WaitingQueue says it is.  The thread that owns the queue calls *)
(* push, move_to and, through set_ready, move_to_run; other threads call   *)
(* set_ready.  A step is a test with the stores it guards, or one turn of  *)
(* a loop.                                                                 *)
(***************************************************************************)
EXTENDS WaitingQueue

CONSTANTS
  Fiber,
  Null,       \* a null pointer
  Owner,      \* the thread whose manager has the queue
  Remote,     \* the other threads
  Deadline,   \* time points fibers wait for
  MaxTime     \* bound of the clock

Thread == {Owner} \cup Remote

ASSUME LinkedQueueAssumption ==
  /\ Null \notin Fiber
  /\ Owner \notin Remote
  /\ MaxTime \in Nat
  /\ MaxTime < TPMax
  /\ Deadline \subseteq 0..TPMax

VARIABLES
  L,       \* head_ and tail_, next and prev of each fiber, and the fibers in
           \* the queue: those whose head() is set
  st, tp,  \* state_ and tp_ of each fiber
  now,     \* clock_type::now()
  pc,      \* where each thread is in a call
  item,    \* the fiber it works on
  loop,    \* the owner's loops: f, prev of push or nxt of move_to, and whether
           \* set_ready was called by fetch_ready
  q        \* the queue as a sequence

vars == <<L, st, tp, now, pc, item, loop, q>>

Init ==
  /\ L = [head |-> Null, tail |-> Null, next |-> [f \in Fiber |-> Null],
          prev |-> [f \in Fiber |-> Null], in |-> {}]
  /\ st = [f \in Fiber |-> "READY"]
  /\ tp = [f \in Fiber |-> TPMax]
  /\ now = 0
  /\ pc = [t \in Thread |-> "idle"]
  /\ item = [t \in Thread |-> Null]
  /\ loop = [cur |-> Null, other |-> Null, fetch |-> FALSE]
  /\ q = <<>>

Goto(t, p) == pc' = [pc EXCEPT ![t] = p]

(* An assertion fails, or a null pointer is followed. *)
Fault(t) == Goto(t, "fault") /\ UNCHANGED <<L, st, tp, now, item, loop, q>>

-----------------------------------------------------------------------------
(* push *)

(* wait_until() or yield(): the fiber sets its state and its time point,   *)
(* and push() attaches it, which asserts that it has no links.             *)
PushCall(f, s, d) ==
  /\ pc[Owner] = "idle"
  /\ f \notin L.in
  /\ s = "READY" => d = TPMax
  /\ IF L.next[f] # Null \/ L.prev[f] # Null THEN Fault(Owner)
     ELSE /\ st' = [st EXCEPT ![f] = s]
          /\ tp' = [tp EXCEPT ![f] = d]
          /\ L' = [L EXCEPT !.in = @ \cup {f}]
          /\ item' = [item EXCEPT ![Owner] = f]
          /\ Goto(Owner, "push")
          /\ UNCHANGED <<now, loop, q>>

(* push() has made the links l and returns. *)
Pushed(l) ==
  /\ L' = l
  /\ Goto(Owner, "idle")
  /\ q' = Push(q, item[Owner], st, tp)
  /\ UNCHANGED <<st, tp, now, item, loop>>

AtFront(f) == [L EXCEPT !.next[f] = L.head, !.prev[L.head] = f, !.head = f]
AtBack(f) == [L EXCEPT !.next[L.tail] = f, !.prev[f] = L.tail, !.tail = f]
Between(f) ==
  [L EXCEPT !.next[f] = loop.cur, !.prev[loop.cur] = f,
            !.next[loop.other] = f, !.prev[f] = loop.other]

(* The cases push() decides before its loop. *)
PushFirst(f) == L.head = Null /\ Pushed([L EXCEPT !.head = f, !.tail = f])
PushFront(f) == L.head # Null /\ st[f] = "READY" /\ Pushed(AtFront(f))
PushBack(f) ==
  L.head # Null /\ st[f] # "READY" /\ tp[f] = TPMax /\ Pushed(AtBack(f))
PushLoop(f) ==
  /\ L.head # Null
  /\ st[f] # "READY"
  /\ tp[f] # TPMax
  /\ loop' = [loop EXCEPT !.cur = L.head, !.other = Null]
  /\ Goto(Owner, "walk")
  /\ UNCHANGED <<L, st, tp, now, item, q>>

PushDecide ==
  LET f == item[Owner] IN
  pc[Owner] = "push" /\ (PushFirst(f) \/ PushFront(f) \/ PushBack(f) \/ PushLoop(f))

(* One turn of the loop of push(): the item is linked in before cur, or    *)
(* after the tail, or the loop goes on.                                    *)
MutGoesBeforeReady(f) == tp[f] <= tp[loop.cur]
GoesBefore(f) == st[loop.cur] # "READY" /\ tp[f] <= tp[loop.cur]

WalkLinks(f) ==
  /\ GoesBefore(f)
  /\ IF ~(L.head = loop.cur <=> loop.other = Null) THEN Fault(Owner)
     ELSE Pushed(IF L.head = loop.cur THEN AtFront(f) ELSE Between(f))
WalkEnds(f) ==
  /\ ~GoesBefore(f)
  /\ L.tail = loop.cur
  /\ IF L.next[loop.cur] # Null THEN Fault(Owner) ELSE Pushed(AtBack(f))
WalkOn(f) ==
  /\ ~GoesBefore(f)
  /\ L.tail # loop.cur
  /\ loop' = [loop EXCEPT !.other = loop.cur, !.cur = L.next[loop.cur]]
  /\ Goto(Owner, IF L.next[loop.cur] = Null THEN "idle" ELSE "walk")
  /\ UNCHANGED <<L, st, tp, now, item, q>>

PushWalk ==
  LET f == item[Owner] IN
  pc[Owner] = "walk" /\ (WalkLinks(f) \/ WalkEnds(f) \/ WalkOn(f))

-----------------------------------------------------------------------------
(* set_ready and move_to_run *)

SetReady(t, f) ==
  /\ pc[t] = "idle"
  /\ st' = [st EXCEPT ![f] = "READY"]
  /\ item' = [item EXCEPT ![t] = f]
  /\ Goto(t, "ready")
  /\ UNCHANGED <<L, tp, now, loop, q>>

(* move_to_run() has made the links l and returns. *)
Moved(t, l) ==
  /\ L' = l
  /\ Goto(t, IF t = Owner /\ loop.fetch THEN "pop" ELSE "idle")
  /\ q' = MoveToRun(q, item[t])
  /\ UNCHANGED <<st, tp, now, item, loop>>

MutUnlinkedKeepsTail(f) ==
  [L EXCEPT !.next[L.prev[f]] = L.next[f],
            !.prev = IF L.next[f] = Null THEN @ ELSE [@ EXCEPT ![L.next[f]] = L.prev[f]]]
(* The links once f is taken out of the chain. *)
Unlinked(f) ==
  [L EXCEPT !.tail = IF L.next[f] = Null THEN L.prev[f] ELSE @,
            !.next[L.prev[f]] = L.next[f],
            !.prev = IF L.next[f] = Null THEN @ ELSE [@ EXCEPT ![L.next[f]] = L.prev[f]]]

(* The head, and a fiber in no queue, stay where they are. *)
MoveDecide(t) ==
  LET f == item[t] IN
  /\ pc[t] = "ready"
  /\ IF L.prev[f] = Null \/ f \notin L.in THEN Moved(t, L)
     ELSE /\ L' = Unlinked(f)
          /\ Goto(t, "relink")
          /\ UNCHANGED <<st, tp, now, item, loop, q>>

Relink(t) ==
  LET f == item[t] IN
  /\ pc[t] = "relink"
  /\ IF L.head = Null \/ f \notin L.in THEN Fault(t)
     ELSE Moved(t, [AtFront(f) EXCEPT !.prev[f] = Null])

-----------------------------------------------------------------------------
(* move_to *)

(* run() calls move_to(), which reads the clock. *)
ScanCall(n) ==
  /\ pc[Owner] = "idle"
  /\ now <= n
  /\ now' = n
  /\ loop' = [loop EXCEPT !.cur = L.head]
  /\ Goto(Owner, "scan")
  /\ UNCHANGED <<L, st, tp, item, q>>

(* fetch_ready(): a fiber whose time has come is set ready on the way. *)
Fetch(f) ==
  /\ item' = [item EXCEPT ![Owner] = f]
  /\ loop' = [loop EXCEPT !.other = L.next[f], !.fetch = TRUE]
  /\ IF tp[f] <= now
     THEN st' = [st EXCEPT ![f] = "READY"] /\ Goto(Owner, "ready")
     ELSE UNCHANGED st /\ Goto(Owner, "pop")
Scan ==
  /\ pc[Owner] = "scan"
  /\ IF loop.cur = Null \/ (st[loop.cur] # "READY" /\ tp[loop.cur] > now)
     THEN Goto(Owner, "idle") /\ UNCHANGED <<st, item, loop>>
     ELSE Fetch(loop.cur)
  /\ UNCHANGED <<L, tp, now, q>>

(* The links once the head f has left the queue. *)
Popped(f) ==
  [L EXCEPT !.head = L.next[f], !.tail = IF L.next[f] = Null THEN Null ELSE @,
            !.prev = [g \in Fiber |-> IF g \in {f, L.next[f]} THEN Null ELSE @[g]],
            !.next[f] = Null, !.in = @ \ {f}]

(* The fiber leaves the queue for the ready queue. *)
Pop ==
  LET f == item[Owner] IN
  /\ pc[Owner] = "pop"
  /\ IF L.head # f THEN Fault(Owner)
     ELSE /\ L' = Popped(f)
          /\ tp' = [tp EXCEPT ![f] = TPMax]
          /\ loop' = [loop EXCEPT !.cur = loop.other, !.fetch = FALSE]
          /\ Goto(Owner, "scan")
          /\ q' = SubSeq(q, 2, Len(q))
          /\ UNCHANGED <<st, now, item>>

-----------------------------------------------------------------------------
Next ==
  \/ \E f \in Fiber, s \in {"READY", "WAITING"}, d \in Deadline : PushCall(f, s, d)
  \/ PushDecide \/ PushWalk
  \/ \E n \in 0..MaxTime : ScanCall(n)
  \/ Scan \/ Pop
  \/ \E t \in Thread, f \in Fiber : SetReady(t, f)
  \/ \E t \in Thread : MoveDecide(t) \/ Relink(t)

Spec == Init /\ [][Next]_vars

-----------------------------------------------------------------------------

(* No thread is about to change the links. *)
Quiet == \A t \in Thread : pc[t] \in {"idle", "scan"}

(* Between calls the links are those of the sequence the operators of      *)
(* WaitingQueue compute: the pointer code of push(), move_to_run() and     *)
(* move_to() implements them, and fibers outside the queue have no links.  *)
(* No assertion of these functions fails and no null pointer is followed.  *)
LinksDenoteQueue ==
  /\ \A t \in Thread : pc[t] # "fault"
  /\ Quiet =>
    /\ L.head = IF q = <<>> THEN Null ELSE q[1]
    /\ L.tail = IF q = <<>> THEN Null ELSE q[Len(q)]
    /\ L.in = Range(q)
    /\ \A i \in 1..Len(q) :
         /\ L.next[q[i]] = IF i = Len(q) THEN Null ELSE q[i + 1]
         /\ L.prev[q[i]] = IF i = 1 THEN Null ELSE q[i - 1]
    /\ \A f \in Fiber \ L.in : L.next[f] = Null /\ L.prev[f] = Null

(* Between calls no ready fiber is behind one that is not, so that it is   *)
(* awakened first.                                                         *)
AwakenedFirst ==
  Quiet => \A f, g \in L.in : L.next[f] = g /\ st[g] = "READY" => st[f] = "READY"

=============================================================================
