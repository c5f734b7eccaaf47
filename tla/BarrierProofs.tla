--------------------------- MODULE BarrierProofs ---------------------------
(***************************************************************************)
(* The barrier counts the missing contexts, lets nobody through before its *)
(* turn is complete and leaves nobody asleep, for every number of contexts *)
(* and turns; and what ConditionProofs says of the condition holds of the  *)
(* barrier's use of it and of any other.                                   *)
(***************************************************************************)
EXTENDS Barrier, ConditionProofs, FiniteSetTheorems

USE ConditionAssumption, BarrierAssumption

BarrierType ==
  /\ party \in Party /\ rude \in BOOLEAN /\ initial \in Nat \ {0} /\ current \in 1..initial
  /\ cycle \in BOOLEAN /\ saw \in [Context -> BOOLEAN]
  /\ at \in [Context -> {"idle", "loop", "last"}]
  /\ turn \in Nat /\ came \in [Context -> Nat] /\ left \in Nat
  /\ status \in [Context -> {"no_timeout", "timeout", "interrupted"}]

(* Nobody came in a turn that has not begun; whoever waits for the turn    *)
(* under way saw its cycle; the last of a turn came in a complete one.     *)
CameInv ==
  \A c \in Context :
    /\ came[c] <= turn + 1
    /\ at[c] = "loop" /\ came[c] > turn => saw[c] = cycle
    /\ at[c] = "last" => came[c] <= turn
    /\ at[c] # "idle" => c \in party /\ came[c] > 0

CountInv == IsFiniteSet(Gathered) /\ CountsMissing

(* Nobody is interrupted unless the mode says so. *)
PoliteInv ==
  ~rude => /\ left = 0
           /\ \A c \in Context : /\ "interrupt" \notin why[c]
                                 /\ cv[c] # "throw" /\ status[c] # "interrupted"

(* As many contexts as the barrier was made for came in every complete     *)
(* turn, or have come again since.                                         *)
Came(t) == {d \in Context : came[d] >= t}
TurnInv ==
  /\ IsFiniteSet(Came(1))
  /\ ~rude => \A t \in 1..turn : Cardinality(Came(t)) >= initial

(* Nobody is late by more than one turn, and whoever is late by one sees   *)
(* another cycle and is not in waiting_.                                   *)
ExactInv ==
  Exact => \A c \in Context : at[c] = "loop" =>
             /\ came[c] >= turn
             /\ came[c] = turn => saw[c] # cycle /\ c \notin Range(waiting[k0])

BarrierInv == BarrierType /\ CameInv /\ CountInv /\ PoliteInv /\ TurnInv /\ ExactInv

LEMMA BarrierCond == k0 \in Cond
BY Zenon DEF k0

-----------------------------------------------------------------------------
(* The condition under the barrier and under any other client. *)
LEMMA ClientStepStays ==
  ASSUME CondInv, NEW c \in Context, ClientStep(c)
  PROVE  CondInv'
<1>1. PICK k \in Cond : \/ LockMutex(c, MutexOf[k]) \/ UnlockMutex(c, MutexOf[k])
                        \/ Notify(c, k) \/ Wait(c, k) \/ (c \in Timed /\ WaitUntil(c, k))
  BY Zenon DEF ClientStep
<1>2. CASE LockMutex(c, MutexOf[k]) \/ UnlockMutex(c, MutexOf[k])
  BY <1>2, LeavesBy, ClientStays, Zenon DEF LockMutex, UnlockMutex, Client
<1>3. CASE Notify(c, k)
  BY <1>3, ClientStays, Zenon DEF Notify, Notifies, Client, Rouses
<1>4. CASE Wait(c, k) \/ WaitUntil(c, k)
  BY <1>4, ClientStays, Zenon DEF Wait, WaitUntil, Client, Enters
<1> QED
  BY <1>1, <1>2, <1>3, <1>4, Zenon

LEMMA PartyStays ==
  ASSUME CondInv, NEW c \in Context, Arrive(c) \/ BarrierStep(c)
  PROVE  CondInv'
<1>1. Client(c)
  <2>1. CASE Arrive(c)
    BY <2>1, BarrierCond, Zenon DEF Arrive, Last, Early, Client, Enters, Rouses
  <2>2. CASE LastReturns(c)
    BY <2>2, LeavesBy, Zenon DEF LastReturns, Client
  <2>3. CASE Loop(c)
    BY <2>3, BarrierCond, LeavesBy, Zenon DEF Loop, Client, Enters
  <2>4. CASE Interrupted(c)
    BY <2>4, LeavesBy, Zenon DEF Interrupted, Client, Quietly, condVars
  <2> QED
    BY <2>1, <2>2, <2>3, <2>4, Zenon DEF BarrierStep
<1> QED
  BY <1>1, ClientStays, Zenon

LEMMA CondInvStays ==
  ASSUME CondInv, party \in Party, [Next]_vars
  PROVE  CondInv'
<1>2. CASE UNCHANGED vars
  BY <1>2, LeavesStays, LeavesBy, Zenon DEF vars, Quietly
<1>3. CASE Next
  BY <1>3, PartyStays, ClientStepStays, CondStays, Zenon DEF Next, Context
<1> QED
  BY <1>2, <1>3, Zenon

-----------------------------------------------------------------------------
(* What the steps of the condition do that the barrier depends on. *)
CondOnly(c) == CondStep(c) \/ Pass(c) \/ (rude /\ Interrupt(c)) \/ (party = {} /\ ClientStep(c))

LEMMA NextCases ==
  ASSUME party \in Party, [Next]_vars
  PROVE  \/ \E c \in Context : c \in party /\ (Arrive(c) \/ LastReturns(c) \/ Loop(c) \/ Interrupted(c))
         \/ \E c \in Context : CondOnly(c) /\ UNCHANGED barrierVars
         \/ UNCHANGED vars
BY Zenon DEF Next, CondOnly, BarrierStep, Context

(* The first context to enter a wait of the barrier is not in waiting_, so *)
(* the assertion of wait() does not fail.                                  *)
LEMMA Suspends ==
  ASSUME CondInv, NEW c \in Context, Free(c), EnterWait(c, k0, "wait")
  PROVE  /\ Range(waiting'[k0]) = Range(waiting[k0]) \cup {c}
         /\ cv' = [cv EXCEPT ![c] = "wait"] /\ why' = [why EXCEPT ![c] = {}]
         /\ status' = [status EXCEPT ![c] = "no_timeout"]
<1>1. c \notin Range(waiting[k0])
  BY BarrierCond, OutUnlisted, Zenon DEF CondInv, Free
<1>3. waiting'[k0] = Append(waiting[k0], c) /\ waiting[k0] \in Seq(Context)
  BY BarrierCond, <1>1, Zenon DEF CondInv, CondType, EnterWait
<1> QED
  BY <1>1, <1>3, AppendRange DEF EnterWait

LEMMA StatusTyped ==
  ASSUME BarrierType, CondInv, [Next]_vars
  PROVE  status' \in [Context -> {"no_timeout", "timeout", "interrupted"}]
<1> USE DEF BarrierType
<1>1. ASSUME NEW c \in Context, Arrive(c) \/ LastReturns(c) \/ Loop(c) \/ Interrupted(c)
      PROVE  status' \in [Context -> {"no_timeout", "timeout", "interrupted"}]
  BY <1>1, Zenon DEF Arrive, Last, Early, LastReturns, Loop, Interrupted, EnterWait, Abort, Locks, condVars
<1>2. ASSUME NEW c \in Context, CondOnly(c)
      PROVE  UNCHANGED status \/ \E v \in {"no_timeout", "timeout", "interrupted"} :
                                    status' = [status EXCEPT ![c] = v]
  <2>1. CASE CondStep(c)
    BY <2>1, Zenon DEF CondStep, Wake, TimeOut, Throw, Relock, SetReady, Abort
  <2>2. CASE Pass(c) \/ Interrupt(c)
    BY <2>2, Zenon DEF Pass, Interrupt
  <2>3. CASE ClientStep(c)
    BY <2>3, Zenon DEF ClientStep, LockMutex, UnlockMutex, Notify, Notifies, Wait,
        WaitUntil, EnterWait, Abort, Locks
  <2> QED
    BY <1>2, <2>1, <2>2, <2>3, Zenon DEF CondOnly
<1> QED
  BY <1>1, <1>2, NextCases, Zenon DEF vars, condVars

(* Without interrupts nobody throws. *)
LEMMA PoliteStays ==
  ASSUME BarrierType, CondInv, PoliteInv, [Next]_vars
  PROVE  PoliteInv'
<1> USE DEF BarrierType
<1> DEFINE Polite == /\ left' = 0
                     /\ \A d \in Context : /\ "interrupt" \notin why'[d]
                                           /\ cv'[d] # "throw" /\ status'[d] # "interrupted"
<1> SUFFICES ASSUME ~rude' PROVE Polite
  BY Zenon DEF PoliteInv
<1>0. /\ why \in [Context -> SUBSET Event] /\ cv \in [Context -> Place]
      /\ \A c \in Context : Range(pend[c]) \subseteq Context
  BY RangeTyped DEF CondInv, CondType
<1>1. CASE UNCHANGED vars
  BY <1>1, Zenon DEF vars, condVars, barrierVars, PoliteInv
<1>2. ASSUME NEW c \in Context, Arrive(c) \/ LastReturns(c) \/ Loop(c) \/ Interrupted(c)
      PROVE  Polite
  <2>1. ~rude
    BY <1>2, Zenon DEF Arrive, LastReturns, Loop, Interrupted
  <2>2. ~Interrupted(c) /\ left = 0
    BY <2>1, Zenon DEF Interrupted, PoliteInv
  <2>4. \/ UNCHANGED <<why, cv, status>>
        \/ /\ cv' = [cv EXCEPT ![c] = "wait"] /\ why' = [why EXCEPT ![c] = {}]
           /\ status' = [status EXCEPT ![c] = "no_timeout"]
    BY <1>2, <2>2, Zenon DEF Arrive, Last, Early, LastReturns, Loop, EnterWait, Abort,
        Locks
  <2> QED
    BY <1>0, <2>1, <2>4, <1>2, <2>2 DEF PoliteInv, Arrive, Last, Early,
        LastReturns, Loop
<1>3. ASSUME NEW c \in Context, CondOnly(c), UNCHANGED barrierVars
      PROVE  Polite
  <2>1. ~rude /\ left' = 0 /\ \A e \in Context : /\ "interrupt" \notin why[e]
                                                  /\ cv[e] # "throw" /\ status[e] # "interrupted"
    BY <1>3, Zenon DEF barrierVars, PoliteInv
  <2>2. CASE Wake(c) \/ TimeOut(c) \/ Throw(c) \/ Relock(c) \/ Pass(c)
    BY <1>0, <2>1, <2>2 DEF Wake, TimeOut, Throw, Relock, Pass, Abort, AfterWake
  <2>3. CASE SetReady(c)
    BY <1>0, <2>1, <2>3 DEF SetReady
  <2>4. CASE ClientStep(c)
    BY <1>0, <2>1, <2>4 DEF ClientStep, LockMutex, UnlockMutex, Notify, Notifies, Wait, WaitUntil,
       EnterWait, Abort, Locks
  <2> QED
    BY <1>3, <2>1, <2>2, <2>3, <2>4, Zenon DEF CondOnly, CondStep
<1> QED
  BY <1>1, <1>2, <1>3, NextCases, Zenon

-----------------------------------------------------------------------------
(* The steps by what they do to the barrier's own variables: a context     *)
(* arrives early or last, comes out of a complete turn, or is interrupted  *)
(* out of the turn under way.                                              *)
EarlyMove(c) ==
  /\ at[c] = "idle" /\ current # 1 /\ current' = current - 1
  /\ saw' = [saw EXCEPT ![c] = cycle] /\ at' = [at EXCEPT ![c] = "loop"]
  /\ came' = [came EXCEPT ![c] = turn + 1]
  /\ UNCHANGED <<party, rude, initial, cycle, turn, left>>
LastMove(c) ==
  /\ at[c] = "idle" /\ current = 1 /\ current' = initial
  /\ cycle' = ~cycle /\ turn' = turn + 1 /\ left' = 0
  /\ at' = [at EXCEPT ![c] = "last"] /\ came' = [came EXCEPT ![c] = turn + 1]
  /\ waiting' = [waiting EXCEPT ![k0] = <<>>]
  /\ UNCHANGED <<party, rude, initial, saw>>
BackMove(c) ==
  /\ at[c] # "idle" /\ came[c] <= turn
  /\ at' = [at EXCEPT ![c] = "idle"]
  /\ UNCHANGED <<party, rude, initial, current, cycle, saw, turn, came, left, waiting>>
LeftMove(c) ==
  /\ at[c] = "loop" /\ came[c] > turn /\ rude
  /\ at' = [at EXCEPT ![c] = "idle"] /\ left' = left + 1
  /\ UNCHANGED <<party, rude, initial, current, cycle, saw, turn, came, waiting>>
Move(c) == c \in party /\ (EarlyMove(c) \/ LastMove(c) \/ BackMove(c) \/ LeftMove(c))

LEMMA Moves ==
  ASSUME BarrierType, CameInv, PoliteInv, [Next]_vars
  PROVE  (\E c \in Context : Move(c)) \/ UNCHANGED barrierVars
<1> USE DEF BarrierType
<1>1. ASSUME NEW c \in Context, c \in party, Arrive(c) PROVE Move(c)
  <2>1. CASE current = 1
    BY <1>1, <2>1, Zenon DEF Arrive, Last, NotifyAll, Move, LastMove
  <2>2. CASE current # 1
    BY <1>1, <2>2, Zenon DEF Arrive, Early, Move, EarlyMove
  <2> QED
    BY <2>1, <2>2, Zenon
<1>3. ASSUME NEW c \in Context, c \in party, Loop(c) PROVE Move(c) \/ UNCHANGED barrierVars
  <2>1. CASE saw[c] = cycle
    BY <1>3, <2>1, Zenon DEF Loop, barrierVars
  <2>2. CASE saw[c] # cycle
    BY <1>3, <2>2 DEF Loop, Locks, Move, BackMove, CameInv
  <2> QED
    BY <2>1, <2>2, Zenon
<1>4. ASSUME NEW c \in Context, c \in party, Interrupted(c) PROVE Move(c)
  <2>2. CASE came[c] > turn
    BY <1>4, <2>2, Zenon DEF Interrupted, condVars, Move, LeftMove, PoliteInv
  <2>3. CASE ~(came[c] > turn)
    BY <1>4, <2>3 DEF Interrupted, condVars, Move, BackMove
  <2> QED
    BY <2>2, <2>3, Zenon
<1> QED
  BY <1>1, <1>3, <1>4, NextCases, Zenon DEF vars, LastReturns, Locks, Move, BackMove,
      CameInv

LEMMA TypeStays ==
  ASSUME BarrierType, CondInv, CameInv, PoliteInv, [Next]_vars
  PROVE  BarrierType'
<1>1. status' \in [Context -> {"no_timeout", "timeout", "interrupted"}]
  BY StatusTyped, Zenon
<1>2. ASSUME NEW c \in Context, Move(c) PROVE BarrierType'
  <2>1. CASE EarlyMove(c)
    BY <1>1, <2>1 DEF EarlyMove, BarrierType
  <2>2. CASE LastMove(c)
    BY <1>1, <2>2 DEF LastMove, BarrierType
  <2>3. CASE BackMove(c)
    BY <1>1, <2>3, Zenon DEF BackMove, BarrierType
  <2>4. CASE LeftMove(c)
    BY <1>1, <2>4 DEF LeftMove, BarrierType
  <2> QED
    BY <1>2, <2>1, <2>2, <2>3, <2>4, Zenon DEF Move
<1>3. CASE UNCHANGED barrierVars
  BY <1>1, <1>3, Zenon DEF barrierVars, BarrierType
<1> QED
  BY <1>2, <1>3, Moves, Zenon

LEMMA CameStays ==
  ASSUME BarrierType, CameInv, PoliteInv, [Next]_vars
  PROVE  CameInv'
<1> USE DEF BarrierType
<1>1. ASSUME NEW c \in Context, Move(c), NEW d \in Context
      PROVE  /\ came'[d] <= turn' + 1
             /\ at'[d] = "loop" /\ came'[d] > turn' => saw'[d] = cycle'
             /\ at'[d] = "last" => came'[d] <= turn'
             /\ at'[d] # "idle" => d \in party' /\ came'[d] > 0
  <2>1. CASE EarlyMove(c)
    BY <1>1, <2>1 DEF EarlyMove, CameInv, Move
  <2>2. CASE LastMove(c)
    BY <1>1, <2>2 DEF LastMove, CameInv, Move
  <2>3. CASE BackMove(c)
    BY <1>1, <2>3, Zenon DEF BackMove, CameInv, Move
  <2>4. CASE LeftMove(c)
    BY <1>1, <2>4, Zenon DEF LeftMove, CameInv, Move
  <2> QED
    BY <1>1, <2>1, <2>2, <2>3, <2>4, Zenon DEF Move
<1>2. CASE UNCHANGED barrierVars
  BY <1>2, Zenon DEF barrierVars, CameInv
<1> QED
  BY <1>1, <1>2, Moves, Zenon DEF CameInv

(* current_ and the number of those who wait change together. *)
LEMMA CountStays ==
  ASSUME BarrierType, CameInv, PoliteInv, CountInv, [Next]_vars
  PROVE  CountInv'
<1> USE DEF BarrierType
<1>0. IsFiniteSet(Gathered) /\ Cardinality(Gathered) \in Nat /\ initial - current = Cardinality(Gathered) + left
  BY FS_CardinalityType, Zenon DEF CountInv, CountsMissing
<1>1. ASSUME NEW c \in Context, Move(c) PROVE CountInv'
  <2>1. CASE EarlyMove(c)
    <3>1. Gathered' = Gathered \cup {c} /\ c \notin Gathered
      BY <2>1 DEF EarlyMove, Gathered
    <3>2. IsFiniteSet(Gathered') /\ Cardinality(Gathered') = Cardinality(Gathered) + 1
      BY <1>0, <3>1, FS_AddElement, Zenon
    <3> QED
      BY <1>0, <2>1, <3>2 DEF EarlyMove, CountInv, CountsMissing
  <2>2. CASE LastMove(c)
    <3>1. Gathered' = {}
      BY <2>2 DEF LastMove, Gathered, CameInv
    <3> QED
      BY <2>2, <3>1, FS_EmptySet DEF LastMove, CountInv, CountsMissing
  <2>3. CASE BackMove(c)
    <3>1. Gathered' = Gathered
      BY <2>3 DEF BackMove, Gathered
    <3> QED
      BY <1>0, <2>3, <3>1, Zenon DEF BackMove, CountInv, CountsMissing
  <2>4. CASE LeftMove(c)
    <3>1. Gathered' = Gathered \ {c} /\ c \in Gathered
      BY <2>4, Zenon DEF LeftMove, Gathered
    <3>2. IsFiniteSet(Gathered') /\ Cardinality(Gathered') = Cardinality(Gathered) - 1
      BY <1>0, <3>1, FS_RemoveElement, Zenon
    <3> QED
      BY <1>0, <2>4, <3>2 DEF LeftMove, CountInv, CountsMissing
  <2> QED
    BY <1>1, <2>1, <2>2, <2>3, <2>4, Zenon DEF Move
<1>2. CASE UNCHANGED barrierVars
  BY <1>2, Zenon DEF barrierVars, CountInv, CountsMissing, Gathered
<1> QED
  BY <1>1, <1>2, Moves, Zenon

(* The contexts that have come in a turn or later are finitely many. *)
LEMMA CameFinite ==
  ASSUME BarrierType, IsFiniteSet(Came(1)), NEW t \in Nat \ {0}
  PROVE  IsFiniteSet(Came(t)) /\ Cardinality(Came(t)) \in Nat
BY FS_Subset, FS_CardinalityType DEF BarrierType, Came

LEMMA TurnStays ==
  ASSUME BarrierType, CameInv, PoliteInv, CountInv, TurnInv, [Next]_vars
  PROVE  TurnInv'
<1> USE DEF BarrierType
<1>1. ASSUME NEW c \in Context, EarlyMove(c) \/ LastMove(c) PROVE TurnInv'
  <2>1. came' = [came EXCEPT ![c] = turn + 1] /\ UNCHANGED <<rude, initial>>
    BY <1>1, Zenon DEF EarlyMove, LastMove
  <2>2. Came(1)' = Came(1) \cup {c}
    BY <2>1 DEF Came
  <2>3. IsFiniteSet(Came(1)')
    BY <2>2, FS_AddElement DEF TurnInv
  <2>4. ASSUME ~rude, NEW t \in 1..turn PROVE Cardinality(Came(t)') >= initial
    <3>1. Came(t)' = Came(t) \cup {c}
      BY <2>1, <2>4 DEF Came
    <3>2. IsFiniteSet(Came(t)) /\ Cardinality(Came(t)) \in Nat
      BY <2>4, CameFinite DEF TurnInv
    <3>3. Cardinality(Came(t)) >= initial
      BY <2>4, Zenon DEF TurnInv
    <3>4. Cardinality(Came(t) \cup {c}) \in {Cardinality(Came(t)), Cardinality(Came(t)) + 1}
      BY <3>2, FS_AddElement, Zenon
    <3> QED
      BY <3>1, <3>2, <3>3, <3>4
  <2> DEFINE Now == {d \in Context : came'[d] >= turn + 1}
  <2>5. ASSUME ~rude, LastMove(c) PROVE Cardinality(Now) >= initial
    <3>0. IsFiniteSet(Gathered) /\ Cardinality(Gathered) \in Nat
      BY FS_CardinalityType, Zenon DEF CountInv
    <3>1. Cardinality(Gathered) = initial - 1 /\ c \notin Gathered
      BY <2>5, <3>0 DEF CountInv, CountsMissing, PoliteInv, LastMove, Gathered
    <3>3. IsFiniteSet(Gathered \cup {c}) /\ Cardinality(Gathered \cup {c}) = initial
      <4>1. /\ IsFiniteSet(Gathered \cup {c})
            /\ Cardinality(Gathered \cup {c}) = Cardinality(Gathered) + 1
        BY <3>0, <3>1, FS_AddElement, Zenon
      <4> QED
        BY <3>0, <3>1, <4>1 DEF BarrierType
    <3> QED
      BY <3>3, FS_Subset, <2>1, <2>3 DEF Gathered, CameInv, Came
  <2>7. ASSUME ~rude', NEW t \in 1..turn' PROVE Cardinality(Came(t)') >= initial'
    <3>1. CASE t \in 1..turn
      BY <2>1, <2>4, <2>7, <3>1, Zenon
    <3>2. CASE t = turn + 1 /\ LastMove(c)
      BY <2>1, <2>5, <2>7, <3>2, Zenon DEF Came
    <3> QED
      BY <2>7, <3>1, <3>2, <1>1 DEF EarlyMove, LastMove
  <2> QED
    BY <2>3, <2>7, Zenon DEF TurnInv
<1>2. CASE UNCHANGED <<came, turn, rude, initial>>
  BY <1>2 DEF TurnInv, Came
<1> QED
  BY <1>1, <1>2, Moves, Zenon DEF Move, BackMove, LeftMove, barrierVars

(* The last context of a barrier of their number finds all others waiting  *)
(* in its turn.                                                            *)
LEMMA AllGathered ==
  ASSUME BarrierType, CameInv, PoliteInv, CountInv, Exact, NEW c \in Context, c \in party, LastMove(c)
  PROVE  \A d \in party : d = c \/ (at[d] = "loop" /\ came[d] > turn)
<1> USE DEF BarrierType
<1>0. IsFiniteSet(Gathered) /\ Cardinality(Gathered) \in Nat /\ IsFiniteSet(party)
  BY FS_CardinalityType, Zenon DEF CountInv
<1>1. Cardinality(Gathered) = initial - 1 /\ c \notin Gathered
  BY <1>0 DEF CountInv, CountsMissing, PoliteInv, LastMove, Gathered, Exact
<1>3. Cardinality(Gathered \cup {c}) = Cardinality(party)
  <2>1. Cardinality(Gathered \cup {c}) = Cardinality(Gathered) + 1
    BY <1>0, <1>1, FS_AddElement, Zenon
  <2> QED
    BY <1>1, <2>1 DEF Exact
<1> QED
  BY <1>0, <1>3, FS_Subset DEF Gathered, CameInv

LEMMA ExactStays ==
  ASSUME BarrierType, CondInv, CameInv, PoliteInv, CountInv, ExactInv, [Next]_vars
  PROVE  ExactInv'
<1> USE DEF BarrierType
<1>0. UNCHANGED <<party, rude, initial>>
  BY Moves, Zenon DEF Move, EarlyMove, LastMove, BackMove, LeftMove, barrierVars
<1> SUFFICES ASSUME Exact, NEW d \in Context, at'[d] = "loop"
             PROVE  /\ came'[d] >= turn'
                    /\ came'[d] = turn' => saw'[d] # cycle' /\ d \notin Range(waiting'[k0])
  BY <1>0, Zenon DEF ExactInv, Exact
<1>1. at[d] = "loop" => /\ came[d] >= turn
                        /\ came[d] = turn => saw[d] # cycle /\ d \notin Range(waiting[k0])
  BY Zenon DEF ExactInv
<1>2. ASSUME NEW c \in Context, c \in party, Arrive(c)
      PROVE  /\ came'[d] >= turn'
             /\ came'[d] = turn' => saw'[d] # cycle' /\ d \notin Range(waiting'[k0])
  <2>1. CASE current = 1
    <3>1. LastMove(c)
      BY <1>2, <2>1, Zenon DEF Arrive, Last, NotifyAll, LastMove
    <3>2. d # c /\ at[d] = "loop"
      BY <3>1, Zenon DEF LastMove
    <3>3. d \in party /\ came[d] > turn
      BY <1>2, <3>1, <3>2, AllGathered, Zenon DEF CameInv
    <3>4. saw[d] = cycle /\ came[d] = turn + 1
      BY <3>2, <3>3 DEF CameInv
    <3>5. waiting'[k0] = <<>>
      BY <3>1, BarrierCond, Zenon DEF LastMove, CondInv, CondType
    <3> QED
      BY <3>1, <3>2, <3>4, <3>5, EmptyRange DEF LastMove
  <2>2. CASE current # 1
    <3>1. EarlyMove(c) /\ Free(c) /\ EnterWait(c, k0, "wait")
      BY <1>2, <2>2, Zenon DEF Arrive, Early, EarlyMove
    <3>2. Range(waiting'[k0]) = Range(waiting[k0]) \cup {c}
      BY <3>1, Suspends, Zenon
    <3> QED
      BY <1>1, <3>1, <3>2 DEF EarlyMove
  <2> QED
    BY <2>1, <2>2, Zenon
<1>3. ASSUME NEW c \in Context, c \in party, LastReturns(c) \/ Interrupted(c)
      PROVE  /\ came'[d] >= turn'
             /\ came'[d] = turn' => saw'[d] # cycle' /\ d \notin Range(waiting'[k0])
  BY <1>1, <1>3, Zenon DEF LastReturns, Interrupted, Locks, condVars
<1>4. ASSUME NEW c \in Context, c \in party, Loop(c)
      PROVE  /\ came'[d] >= turn'
             /\ came'[d] = turn' => saw'[d] # cycle' /\ d \notin Range(waiting'[k0])
  <2>1. CASE saw[c] = cycle
    <3>1. Free(c) /\ EnterWait(c, k0, "wait") /\ UNCHANGED barrierVars
      BY <1>4, <2>1, Zenon DEF Loop, barrierVars
    <3>2. Range(waiting'[k0]) = Range(waiting[k0]) \cup {c}
      BY <3>1, Suspends, Zenon
    <3> QED
      BY <1>1, <2>1, <3>1, <3>2, Zenon DEF barrierVars
  <2>2. CASE saw[c] # cycle
    BY <1>1, <1>4, <2>2, Zenon DEF Loop, Locks
  <2> QED
    BY <2>1, <2>2, Zenon
<1>5. ASSUME NEW c \in Context, CondOnly(c), UNCHANGED barrierVars
      PROVE  /\ came'[d] >= turn'
             /\ came'[d] = turn' => saw'[d] # cycle' /\ d \notin Range(waiting'[k0])
  <2>1. CASE party = {}
    BY <1>5, <2>1, Zenon DEF barrierVars, CameInv
  <2>2. CASE party # {}
    <3>1. Range(waiting'[k0]) \subseteq Range(waiting[k0])
      BY <1>5, <2>2, NoneEnters, BarrierCond, Zenon DEF CondOnly
    <3> QED
      BY <1>1, <1>5, <3>1, Zenon DEF barrierVars
  <2> QED
    BY <2>1, <2>2, Zenon
<1>6. CASE UNCHANGED vars
  BY <1>1, <1>6, Zenon DEF vars, condVars, barrierVars
<1> QED
  BY <1>2, <1>3, <1>4, <1>5, <1>6, NextCases, Zenon

-----------------------------------------------------------------------------
LEMMA Starts == Init => BarrierInv /\ CondInv
<1> SUFFICES ASSUME Init PROVE BarrierInv
  BY CondStarts, Zenon DEF Init
<1>1. BarrierType
  <2>1. initial \in Nat \ {0} /\ current \in 1..initial
    BY DEF Init
  <2>2. saw \in [Context -> BOOLEAN]
    BY Zenon DEF Init
  <2>3. status \in [Context -> {"no_timeout", "timeout", "interrupted"}]
    BY Zenon DEF Init, CondInit
  <2> QED
    BY <2>1, <2>2, <2>3, Zenon DEF Init, BarrierType
<1>2. CameInv /\ ExactInv
  BY DEF Init, CameInv, ExactInv
<1>3. PoliteInv
  BY Zenon DEF Init, CondInit, PoliteInv
<1>4. Gathered = {} /\ Came(1) = {}
  BY DEF Init, Gathered, Came
<1>5. CountInv
  BY <1>1, <1>4, FS_EmptySet DEF Init, CountInv, CountsMissing, BarrierType
<1>6. TurnInv
  <2>1. 1..turn = {}
    BY DEF Init
  <2> QED
    BY <1>4, <2>1, FS_EmptySet, Zenon DEF TurnInv
<1> QED
  BY <1>1, <1>2, <1>5, <1>3, <1>6, Zenon DEF BarrierInv

(* The invariant of the barrier and that of its condition hold throughout, *)
(* for every set of contexts, with deadlines and interrupts.               *)
THEOREM BarrierInvariant == Spec => [](BarrierInv /\ CondInv)
<1>1. Init => BarrierInv /\ CondInv
  BY Starts, Zenon
<1>2. BarrierInv /\ CondInv /\ [Next]_vars => (BarrierInv /\ CondInv)'
  <2> SUFFICES ASSUME BarrierInv, CondInv, [Next]_vars PROVE BarrierInv' /\ CondInv'
    BY Zenon
  <2> USE DEF BarrierInv
  <2>2. BarrierType' /\ CameInv' /\ PoliteInv' /\ CountInv'
    BY TypeStays, CameStays, PoliteStays, CountStays, Zenon
  <2>3. TurnInv' /\ ExactInv'
    BY TurnStays, ExactStays, Zenon
  <2> QED
    BY <2>2, <2>3, CondInvStays, Zenon DEF BarrierType
<1> QED
  BY <1>1, <1>2, PTL DEF Spec

(* condition::wait() and wait_until(): whoever waiting_ or a notification  *)
(* refers to is inside its wait, in one place and once.                    *)
THEOREM NoStaleWaiter == Spec => []WaitersInWait
<1>1. BarrierInv /\ CondInv => WaitersInWait
  BY CondKeeps, Zenon
<1> QED
  BY <1>1, BarrierInvariant, PTL

(* notify_one() and notify_all() lose nobody: a suspended context is in    *)
(* waiting_ or its notification is on its way or has come.                 *)
THEOREM NotificationsKept == Spec => []NotificationKept
<1>1. BarrierInv /\ CondInv => NotificationKept
  BY CondKeeps, Zenon
<1> QED
  BY <1>1, BarrierInvariant, PTL

(* The erase() at the end of a wait is defined unless two events reached   *)
(* the same wait.                                                          *)
THEOREM EraseOnlyRaces == Spec => []EraseNeedsRace
<1>1. BarrierInv /\ CondInv => EraseNeedsRace
  BY CondKeeps, Zenon
<1> QED
  BY <1>1, BarrierInvariant, PTL

(* barrier::wait(): current_ is the number of contexts still missing, less *)
(* those who were interrupted out of the turn, and is never 0.             *)
THEOREM MissingCounted == Spec => []CountsMissing
<1>1. BarrierInv /\ CondInv => CountsMissing
  BY Zenon DEF BarrierInv, CountInv
<1> QED
  BY <1>1, BarrierInvariant, PTL

(* barrier::wait() of contexts of the barrier's number: nobody sleeps in a *)
(* turn that is complete, though cycle_ has only two values.               *)
THEOREM NobodyAsleep == Spec => []NobodyLeftBehind
<1>1. BarrierInv /\ CondInv => NobodyLeftBehind
  <2> SUFFICES ASSUME BarrierInv, Exact, NEW c \in Context, at[c] = "loop", c \in Range(waiting[k0])
               PROVE  came[c] > turn
    BY Zenon DEF NobodyLeftBehind, Unblocked
  <2> QED
    BY DEF BarrierInv, ExactInv, BarrierType
<1> QED
  BY <1>1, BarrierInvariant, PTL

(* barrier::wait() without interrupts returns only after as many contexts  *)
(* as the barrier was made for have arrived in its turn.                   *)
THEOREM NobodyEarly == Spec => NoEarlyReturn
<1> DEFINE Late == \A c \in Context :
                     ~rude /\ at[c] # "idle" /\ at'[c] = "idle" =>
                       Cardinality({d \in Context : came[d] >= came[c]}) >= initial
<1>1. BarrierInv /\ CondInv /\ [Next]_vars => [Late]_vars
  <2> SUFFICES ASSUME BarrierInv, CondInv, [Next]_vars, NEW c \in Context,
                      ~rude, at[c] # "idle", at'[c] = "idle"
               PROVE  Cardinality({d \in Context : came[d] >= came[c]}) >= initial
    BY Zenon
  <2> USE DEF BarrierInv, BarrierType
  <2>2. came[c] \in 1..turn
    BY Moves DEF BackMove, CameInv, Move, EarlyMove, LastMove, LeftMove,
        barrierVars
  <2> QED
    BY <2>2, Zenon DEF TurnInv, Came
<1> QED
  BY <1>1, BarrierInvariant, PTL DEF Spec, NoEarlyReturn
=============================================================================
