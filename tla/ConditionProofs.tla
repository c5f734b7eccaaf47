-------------------------- MODULE ConditionProofs --------------------------
(***************************************************************************)
(* Who is in waiting_ of a condition, whom a notification is on its way    *)
(* to, and what has reached a waiting context, for every client, every set *)
(* of contexts and every number of conditions.  The clients that use a     *)
(* condition (Barrier, Queue, Future) take CondStays for their steps.      *)
(***************************************************************************)
EXTENDS Condition, TLAPS

USE ConditionAssumption

Place == {"out", "wait", "wait_until", "expired", "throw", "relock"}
Event == {"deadline", "interrupt", "notify"}

CondType ==
  /\ waiting \in [Cond -> Seq(Context)] /\ pend \in [Context -> Seq(Context)]
  /\ on \in [Context -> Cond \cup {None}] /\ cv \in [Context -> Place]
  /\ why \in [Context -> SUBSET Event]

(* The context is in its wait and no notification has reached it. *)
Unreached(c) == cv[c] \in Place \ {"out", "relock"} /\ "notify" \notin why[c]

(* The lists hold contexts that are in their wait and were not notified;   *)
(* no context is in two lists or twice in one.                             *)
ListInv ==
  /\ \A k \in Cond : IsInjective(waiting[k])
  /\ \A d \in Context : IsInjective(pend[d])
  /\ \A k \in Cond : \A c \in Range(waiting[k]) : Unreached(c) /\ on[c] = k
  /\ \A d \in Context : \A c \in Range(pend[d]) :
       Unreached(c) /\ \A k \in Cond : c \notin Range(waiting[k])
  /\ \A d, e \in Context : d # e => Range(pend[d]) \cap Range(pend[e]) = {}

(* The context is in waiting_, or a notification is on its way to it or    *)
(* has reached it.                                                         *)
Kept(c) == \/ c \in Range(waiting[on[c]])
           \/ c \in Pending
           \/ "notify" \in why[c]

(* What a context knows at each point of its wait. *)
CallInv ==
  \A c \in Context :
    /\ cv[c] = "out" => on[c] = None /\ why[c] = {}
    /\ cv[c] # "out" => on[c] \in Cond
    /\ cv[c] = "expired" => "deadline" \in why[c]
    /\ cv[c] = "throw" => "interrupt" \in why[c]
    /\ cv[c] \in {"wait", "wait_until", "expired"} => Kept(c)
    /\ cv[c] = "throw" => Kept(c) \/ "deadline" \in why[c]

(* The assertion of wait() has not failed, and erase() has only after two  *)
(* events reached one wait.                                                *)
FailInv == failed # "waiting" /\ EraseNeedsRace

CondInv == CondType /\ ListInv /\ CallInv /\ FailInv

-----------------------------------------------------------------------------
(* Sequences without repetitions: what the list operations do to the set   *)
(* of their elements.                                                      *)
LEMMA RangeTyped ==
  ASSUME NEW S, NEW s \in Seq(S)
  PROVE  Range(s) \subseteq S /\ (Range(s) = {} <=> s = <<>>)
<1>2. s # <<>> => s[1] \in Range(s)
  BY DEF Range
<1> QED
  BY <1>2 DEF Range

LEMMA AppendRange ==
  ASSUME NEW S, NEW s \in Seq(S), NEW c \in S
  PROVE  /\ Append(s, c) \in Seq(S) /\ Range(Append(s, c)) = Range(s) \cup {c}
         /\ IsInjective(s) /\ c \notin Range(s) => IsInjective(Append(s, c))
BY DEF Range, IsInjective

LEMMA TailRange ==
  ASSUME NEW S, NEW s \in Seq(S), s # <<>>, IsInjective(s)
  PROVE  /\ Head(s) \in Range(s) /\ Tail(s) \in Seq(S) /\ IsInjective(Tail(s))
         /\ Range(Tail(s)) = Range(s) \ {Head(s)}
<1>1. /\ Head(s) = s[1] /\ Tail(s) \in Seq(S) /\ Len(Tail(s)) = Len(s) - 1 /\ Len(s) >= 1
      /\ \A i \in 1..(Len(s) - 1) : Tail(s)[i] = s[i + 1]
  OBVIOUS
<1>2. DOMAIN s = 1..Len(s) /\ DOMAIN Tail(s) = 1..(Len(s) - 1) /\ Len(s) \in Nat
  BY <1>1
<1>3. IsInjective(Tail(s)) /\ Head(s) \in Range(s)
  BY <1>1, <1>2 DEF IsInjective, Range
<1>4. Range(Tail(s)) \subseteq Range(s) \ {Head(s)}
  BY <1>1, <1>2 DEF IsInjective, Range
<1>5. ASSUME NEW x \in Range(s) \ {Head(s)} PROVE x \in Range(Tail(s))
  <2>1. PICK i \in 1..Len(s) : s[i] = x
    BY <1>2, Zenon DEF Range
  <2>2. i # 1 /\ i - 1 \in 1..(Len(s) - 1) /\ Tail(s)[i - 1] = x
    BY <1>1, <1>2, <2>1
  <2> QED
    BY <1>2, <2>2, Zenon DEF Range
<1> QED
  BY <1>1, <1>3, <1>4, <1>5, Zenon

LEMMA FirstRest ==
  ASSUME NEW S, NEW s \in Seq(S), IsInjective(s)
  PROVE  /\ First(s) \in Seq(S) /\ IsInjective(First(s))
         /\ Rest(s) \in Seq(S) /\ IsInjective(Rest(s))
         /\ Range(First(s)) \cup Range(Rest(s)) = Range(s)
         /\ Range(First(s)) \cap Range(Rest(s)) = {}
<1>1. CASE s = <<>>
  BY <1>1 DEF First, Rest, IsInjective, Range
<1>2. CASE s # <<>>
  <2>1. First(s) = <<Head(s)>> /\ Rest(s) = Tail(s) /\ Head(s) \in S
    BY <1>2 DEF First, Rest
  <2>2. Range(First(s)) = {Head(s)} /\ IsInjective(First(s)) /\ First(s) \in Seq(S)
    BY <2>1 DEF Range, IsInjective
  <2> QED
    BY <1>2, <2>1, <2>2, TailRange
<1> QED
  BY <1>1, <1>2, Zenon

LEMMA EmptyRange == Range(<<>>) = {} /\ IsInjective(<<>>)
BY DEF Range, IsInjective

LEMMA WithoutRange ==
  ASSUME NEW S, NEW s \in Seq(S), IsInjective(s), NEW c \in Range(s)
  PROVE  /\ Without(s, c) \in Seq(S) /\ IsInjective(Without(s, c))
         /\ Range(Without(s, c)) = Range(s) \ {c}
<1> DEFINE p == Find(s, c)
           w == Without(s, c)
<1>1. DOMAIN s = 1..Len(s) /\ Len(s) \in Nat
  OBVIOUS
<1>2. p \in 1..Len(s) /\ s[p] = c
  <2>1. PICK i \in 1..Len(s) : s[i] = c
    BY <1>1, Zenon DEF Range
  <2> QED
    BY <2>1, <1>1 DEF Find, IsInjective
<1> HIDE DEF p
<1>3. w = [i \in 1..(Len(s) - 1) |-> IF i < p THEN s[i] ELSE s[i + 1]]
  BY Zenon DEF Without, p
<1> HIDE DEF w
<1>4. w \in Seq(S) /\ DOMAIN w = 1..(Len(s) - 1)
  BY <1>1, <1>2, <1>3
<1>5. \A i \in 1..(Len(s) - 1) : w[i] \in Range(s) \ {c}
  BY <1>1, <1>2, <1>3 DEF IsInjective, Range
<1>6. IsInjective(w)
  <2> SUFFICES ASSUME NEW i \in 1..(Len(s) - 1), NEW j \in 1..(Len(s) - 1), w[i] = w[j]
               PROVE  i = j
    BY <1>4, Zenon DEF IsInjective
  <2>1. PICK a \in 1..Len(s) : a = (IF i < p THEN i ELSE i + 1) /\ w[i] = s[a]
    BY <1>1, <1>3
  <2>2. PICK b \in 1..Len(s) : b = (IF j < p THEN j ELSE j + 1) /\ w[j] = s[b]
    BY <1>1, <1>3
  <2>3. a = b
    BY <1>1, <2>1, <2>2, Zenon DEF IsInjective
  <2> QED
    BY <1>1, <1>2, <2>1, <2>2, <2>3
<1>7. ASSUME NEW x \in Range(s) \ {c} PROVE x \in Range(w)
  <2>1. PICK i \in 1..Len(s) : s[i] = x
    BY <1>1, Zenon DEF Range
  <2>2. CASE i < p
    <3>1. i \in 1..(Len(s) - 1) /\ w[i] = x
      BY <1>1, <1>2, <1>3, <2>1, <2>2
    <3> QED
      BY <1>4, <3>1, Zenon DEF Range
  <2>3. CASE i > p
    <3>1. i - 1 \in 1..(Len(s) - 1) /\ w[i - 1] = x
      BY <1>1, <1>2, <1>3, <2>1, <2>3
    <3> QED
      BY <1>4, <3>1, Zenon DEF Range
  <2> QED
    BY <1>2, <2>1, <2>2, <2>3
<1>8. Range(w) = Range(s) \ {c}
  BY <1>4, <1>5, <1>7, Zenon DEF Range
<1> QED
  BY <1>4, <1>6, <1>8, Zenon DEF w

-----------------------------------------------------------------------------
(* The steps of a client and of the condition, by what they do to the      *)
(* lists and to the waits.                                                 *)
waitVars == <<waiting, on, cv, why, pend>>

(* A context that does not wait is in no list. *)
LEMMA OutUnlisted ==
  ASSUME ListInv, NEW c \in Context, cv[c] \in {"out", "relock"} \/ "notify" \in why[c]
  PROVE  c \notin Pending /\ \A k \in Cond : c \notin Range(waiting[k])
BY DEF ListInv, Unreached, Pending

LEMMA Entered ==
  ASSUME CondType, ListInv, CallInv, NEW c \in Context, NEW k \in Cond,
         NEW p \in {"wait", "wait_until"}, cv[c] = "out",
         waiting' = [waiting EXCEPT ![k] = Append(@, c)], on' = [on EXCEPT ![c] = k],
         cv' = [cv EXCEPT ![c] = p], why' = [why EXCEPT ![c] = {}], UNCHANGED pend
  PROVE  CondType' /\ ListInv' /\ CallInv'
<1>0. c \notin Pending /\ \A j \in Cond : c \notin Range(waiting[j])
  BY OutUnlisted, Zenon
<1>1. /\ waiting'[k] \in Seq(Context) /\ Range(waiting'[k]) = Range(waiting[k]) \cup {c}
      /\ IsInjective(waiting'[k])
  BY <1>0, AppendRange DEF CondType, ListInv
<1>2. \A j \in Cond \ {k} : waiting'[j] = waiting[j]
  BY Zenon DEF CondType
<1>3. \A j \in Cond : Range(waiting[j]) \subseteq Context
  BY RangeTyped, Zenon DEF CondType
<1>6. \A d \in Context \ {c} : cv'[d] = cv[d] /\ on'[d] = on[d] /\ why'[d] = why[d]
  BY Zenon DEF CondType
<1>7. cv'[c] = p /\ on'[c] = k /\ why'[c] = {}
  BY Zenon DEF CondType
<1>8. \A d \in Context \ {c} : Unreached(d)' <=> Unreached(d)
  BY <1>6, Zenon DEF Unreached
<1>9. Unreached(c)'
  BY <1>7, Zenon DEF Unreached, Place
<1>10. \A j \in Cond : IsInjective(waiting'[j])
  BY <1>1, <1>2, Zenon DEF ListInv
<1>11. \A j \in Cond : \A d \in Range(waiting'[j]) : Unreached(d)' /\ on'[d] = j
  BY <1>0, <1>1, <1>2, <1>3, <1>6, <1>7, <1>8, <1>9 DEF ListInv
<1>12. \A e \in Context : \A d \in Range(pend[e]) :
         Unreached(d)' /\ \A j \in Cond : d \notin Range(waiting'[j])
  BY <1>0, <1>1, <1>2, <1>8, RangeTyped DEF ListInv, Pending, CondType
<1>13. ListInv'
  BY <1>10, <1>11, <1>12, Zenon DEF ListInv
<1>16. CallInv'
  BY <1>6, <1>7, <1>1, <1>2 DEF CallInv, Kept, Pending
<1> QED
  BY <1>13, <1>16, <1>1, <1>2, Zenon DEF CondType, Place

(* A step that leaves the lists and moves one context inside its wait. *)
LEMMA Moved ==
  ASSUME CondType, ListInv, CallInv, NEW c \in Context, cv[c] # "out",
         NEW x \in Place \ {"out"}, NEW y \in SUBSET Event,
         cv' = [cv EXCEPT ![c] = x], why' = [why EXCEPT ![c] = y], UNCHANGED <<waiting, on, pend>>,
         "notify" \in y <=> "notify" \in why[c],
         x = "relock" => cv[c] = "relock" \/ "notify" \in y,
         x = "expired" => "deadline" \in y,
         x = "throw" => "interrupt" \in y,
         x \in {"wait", "wait_until", "expired"} => Kept(c),
         x = "throw" => Kept(c) \/ "deadline" \in y
  PROVE  CondType' /\ ListInv' /\ CallInv'
BY RangeTyped DEF CondType, ListInv, Unreached, CallInv, Place, Kept, Pending

(* A context in waiting_ erases itself and goes on with its call. *)
LEMMA Erased ==
  ASSUME CondType, ListInv, CallInv, NEW c \in Context, NEW k \in Cond,
         c \in Range(waiting[k]), waiting' = [waiting EXCEPT ![k] = Without(@, c)],
         NEW x \in {"out", "throw", "relock"}, cv' = [cv EXCEPT ![c] = x], UNCHANGED pend,
         x = "out" => on' = [on EXCEPT ![c] = None] /\ why' = [why EXCEPT ![c] = {}],
         x # "out" => UNCHANGED <<on, why>>,
         x = "throw" => "interrupt" \in why[c] /\ "deadline" \in why[c]
  PROVE  CondType' /\ ListInv' /\ CallInv'
<1>0. on[c] = k /\ Unreached(c)
  BY Zenon DEF ListInv
<1>1. /\ waiting'[k] \in Seq(Context) /\ Range(waiting'[k]) = Range(waiting[k]) \ {c}
      /\ IsInjective(waiting'[k])
  BY WithoutRange DEF CondType, ListInv
<1>2. \A j \in Cond \ {k} : waiting'[j] = waiting[j]
  BY Zenon DEF CondType
<1>3. /\ \A j \in Cond : Range(waiting[j]) \subseteq Context
      /\ \A d \in Context : Range(pend[d]) \subseteq Context
  BY RangeTyped, Zenon DEF CondType
<1>4. \A d \in Context \ {c} : cv'[d] = cv[d] /\ why'[d] = why[d] /\ on'[d] = on[d]
  BY Zenon DEF CondType
<1>5. /\ cv'[c] = x
      /\ x # "out" => why'[c] = why[c] /\ on'[c] = on[c]
      /\ x = "out" => why'[c] = {} /\ on'[c] = None
  BY Zenon DEF CondType
<1>6. CondType'
  <2>1. on' \in [Context -> Cond \cup {None}] /\ cv' \in [Context -> Place]
    BY Zenon DEF CondType, Place
  <2>2. why' \in [Context -> SUBSET Event]
    BY Zenon DEF CondType
  <2> QED
    BY <1>1, <1>2, <2>1, <2>2, Zenon DEF CondType
<1>7. c \notin Pending /\ \A j \in Cond : c \notin Range(waiting'[j])
  BY <1>0, <1>1, <1>2 DEF ListInv, Pending
<1>8. \A d \in Context \ {c} : Unreached(d)' <=> Unreached(d)
  BY <1>4, Zenon DEF Unreached
<1>9. \A j \in Cond : Range(waiting'[j]) \subseteq Range(waiting[j]) \ {c} /\ IsInjective(waiting'[j])
  BY <1>1, <1>2, <1>7 DEF ListInv
<1>10. ListInv'
  <2>1. \A j \in Cond : \A d \in Range(waiting'[j]) : Unreached(d)' /\ on'[d] = j
    BY <1>3, <1>4, <1>8, <1>9 DEF ListInv
  <2> QED
    BY <1>9, <2>1, <1>3, <1>7, <1>8 DEF ListInv, Pending
<1>12. CallInv'
  BY <1>0, <1>4, <1>5, <1>1, <1>2 DEF CallInv, Kept, Pending
<1> QED
  BY <1>6, <1>10, <1>12, Zenon

(* A wait ends with the mutex. *)
LEMMA Relocked ==
  ASSUME CondType, ListInv, CallInv, NEW c \in Context, cv[c] = "relock",
         cv' = [cv EXCEPT ![c] = "out"], on' = [on EXCEPT ![c] = None],
         why' = [why EXCEPT ![c] = {}], UNCHANGED <<waiting, pend>>
  PROVE  CondType' /\ ListInv' /\ CallInv'
BY RangeTyped DEF CondType, Place, ListInv, Unreached, CallInv, Kept, Pending

(* Contexts are taken out of waiting_ to be made ready. *)
LEMMA Notified ==
  ASSUME CondType, ListInv, CallInv, NEW c \in Context, NEW k \in Cond, pend[c] = <<>>,
         NEW s \in Seq(Context), NEW r \in Seq(Context), IsInjective(s), IsInjective(r),
         Range(s) \cup Range(r) = Range(waiting[k]), Range(s) \cap Range(r) = {},
         pend' = [pend EXCEPT ![c] = s], waiting' = [waiting EXCEPT ![k] = r],
         UNCHANGED <<on, cv, why>>
  PROVE  CondType' /\ ListInv' /\ CallInv'
<1>1. /\ pend'[c] = s /\ \A d \in Context \ {c} : pend'[d] = pend[d]
      /\ waiting'[k] = r /\ \A j \in Cond \ {k} : waiting'[j] = waiting[j]
  BY Zenon DEF CondType
<1>4. \A d \in Context : Unreached(d)' <=> Unreached(d)
  BY Zenon DEF Unreached
<1>5. /\ \A j \in Cond : Range(waiting[j]) \subseteq Context
      /\ \A d \in Context : Range(pend[d]) \subseteq Context
  BY RangeTyped, Zenon DEF CondType
<1>6. \A j \in Cond : IsInjective(waiting'[j]) /\ Range(waiting'[j]) \subseteq Range(waiting[j])
  BY <1>1, Zenon DEF ListInv
<1>7. \A j \in Cond : \A d \in Range(waiting'[j]) : Unreached(d)' /\ on'[d] = j
  BY <1>4, <1>5, <1>6, Zenon DEF ListInv
<1>8. \A d \in Context : IsInjective(pend'[d])
  BY <1>1, Zenon DEF ListInv
<1>9. \A d \in Range(s) : Unreached(d) /\ on[d] = k /\ d \in Context /\ d \notin Pending
  BY <1>5 DEF ListInv, Pending
<1>11. \A e \in Context : \A d \in Range(pend'[e]) :
         Unreached(d)' /\ \A j \in Cond : d \notin Range(waiting'[j])
  BY <1>1, <1>4, <1>5, <1>6, <1>9 DEF ListInv
<1>12. \A d, e \in Context : d # e => Range(pend'[d]) \cap Range(pend'[e]) = {}
  BY <1>1, <1>9 DEF ListInv, Pending
<1>13. ListInv'
  BY <1>6, <1>7, <1>8, <1>11, <1>12, Zenon DEF ListInv
<1>14. ASSUME NEW d \in Context, Kept(d), on[d] \in Cond PROVE Kept(d)'
  <2>1. CASE d \in Range(waiting[on[d]])
    <3>1. CASE on[d] = k /\ d \in Range(s)
      BY <1>1, <3>1 DEF Kept, Pending
    <3>2. CASE ~(on[d] = k /\ d \in Range(s))
      BY <1>1, <1>14, <2>1, <3>2, Zenon DEF Kept
    <3> QED
      BY <3>1, <3>2, Zenon
  <2>2. CASE d \in Pending
    <3>1. PICK e \in Context : d \in Range(pend[e])
      BY <2>2, Zenon DEF Pending
    <3> QED
      BY <3>1, <1>1, EmptyRange DEF Kept, Pending
  <2>3. CASE "notify" \in why[d]
    BY <2>3, Zenon DEF Kept
  <2> QED
    BY <1>14, <2>1, <2>2, <2>3, Zenon DEF Kept
<1> QED
  BY <1>13, <1>14, Zenon DEF CondType, CallInv

(* One of them is made ready. *)
LEMMA MadeReady ==
  ASSUME CondType, ListInv, CallInv, NEW c \in Context, SetReady(c)
  PROVE  CondType' /\ ListInv' /\ CallInv'
<1> DEFINE d == Head(pend[c])
<1>0. /\ d \in Range(pend[c]) /\ Tail(pend[c]) \in Seq(Context) /\ IsInjective(Tail(pend[c]))
      /\ Range(Tail(pend[c])) = Range(pend[c]) \ {d}
  BY TailRange, Zenon DEF CondType, ListInv, SetReady
<1>1. d \in Context /\ d \in Pending
  BY <1>0, RangeTyped DEF CondType, Pending
<1> HIDE DEF d
<1>2. why' = [why EXCEPT ![d] = @ \cup {"notify"}] /\ pend' = [pend EXCEPT ![c] = Tail(@)]
      /\ UNCHANGED <<waiting, on, cv>>
  BY Zenon DEF SetReady, d
<1>3. /\ Range(pend'[c]) = Range(pend[c]) \ {d} /\ IsInjective(pend'[c])
      /\ \A e \in Context \ {c} : pend'[e] = pend[e]
      /\ why'[d] = why[d] \cup {"notify"} /\ \A e \in Context \ {d} : why'[e] = why[e]
  BY <1>0, <1>1, <1>2, Zenon DEF CondType
<1>5. /\ \A j \in Cond : Range(waiting[j]) \subseteq Context
      /\ \A e \in Context : Range(pend[e]) \subseteq Context
  BY RangeTyped, Zenon DEF CondType
<1>6. \A e \in Context \ {d} : Unreached(e)' <=> Unreached(e)
  BY <1>2, <1>3, Zenon DEF Unreached
<1>8. \A e \in Context : d \notin Range(pend'[e]) /\ Range(pend'[e]) \subseteq Range(pend[e])
  BY <1>0, <1>3, Zenon DEF ListInv
<1>9. ListInv'
  <2>1. \A k \in Cond : \A e \in Range(waiting[k]) : Unreached(e)' /\ on[e] = k
    BY <1>5, <1>6, <1>0 DEF ListInv
  <2>2. \A a \in Context : \A e \in Range(pend'[a]) :
          Unreached(e)' /\ \A k \in Cond : e \notin Range(waiting[k])
    BY <1>5, <1>6, <1>8 DEF ListInv
  <2>3. \A a, b \in Context : a # b => Range(pend'[a]) \cap Range(pend'[b]) = {}
    BY <1>8, Zenon DEF ListInv
  <2>4. \A a \in Context : IsInjective(pend'[a])
    BY <1>3, Zenon DEF ListInv
  <2> QED
    BY <1>2, <2>1, <2>2, <2>3, <2>4, Zenon DEF ListInv
<1>10. ASSUME NEW e \in Context, Kept(e) PROVE Kept(e)'
  <2>1. CASE e = d
    BY <1>3, <2>1, Zenon DEF Kept
  <2>2. CASE e # d
    BY <1>2, <1>3, <1>10, <2>2 DEF Kept, Pending
  <2> QED
    BY <2>1, <2>2, Zenon
<1>12. CallInv'
  BY <1>1, <1>2, <1>3, <1>10, <1>0 DEF CallInv, ListInv, Unreached
<1> QED
  BY <1>9, <1>12, <1>0, <1>1, <1>2, Zenon DEF CondType, Event

-----------------------------------------------------------------------------
(* What a client's step does to the condition, for any client: it leaves   *)
(* it, or it waits or notifies outside of its other calls.                 *)
Leaves == UNCHANGED waitVars /\ (UNCHANGED failed \/ failed' \notin {"waiting", "erase"})
Enters(c) == Free(c) /\ \E k \in Cond, p \in {"wait", "wait_until"} : EnterWait(c, k, p)
Rouses(c) ==
  Free(c) /\ UNCHANGED <<on, cv, why, failed>> /\ \E k \in Cond : NotifyOne(c, k) \/ NotifyAll(c, k)
Client(c) == Leaves \/ Enters(c) \/ Rouses(c)

LEMMA LeavesBy ==
  /\ Quietly => Leaves
  /\ \A h : Locks(h) => Leaves
  /\ \A c, h : Reads(c, h) => Leaves
BY Zenon DEF Quietly, Locks, Reads, Leaves, condVars, waitVars

(* Nothing but a new wait enters waiting_. *)
LEMMA NoneEnters ==
  ASSUME CondInv, NEW c \in Context, CondStep(c) \/ Pass(c) \/ Interrupt(c), NEW k \in Cond
  PROVE  Range(waiting'[k]) \subseteq Range(waiting[k])
<1>1. CASE UNCHANGED waiting
  BY <1>1, Zenon
<1>2. CASE c \in Range(waiting[on[c]]) /\ Erase(c) /\ cv[c] # "out"
  BY <1>2, WithoutRange DEF Erase, CondInv, CondType, CallInv, ListInv
<1> QED
  BY <1>1, <1>2, Zenon DEF CondStep, Wake, TimeOut, Throw, Relock, SetReady, Pass,
      Interrupt, Abort

(* An erase() that finds nothing comes after two events of one wait. *)
LEMMA ErasedTwice ==
  ASSUME CondInv, NEW c \in Context, cv[c] \in {"expired", "throw"},
         c \notin Range(waiting[on[c]]), Abort("erase")
  PROVE  CondInv'
<1>1. UNCHANGED waitVars /\ failed' = "erase"
  BY Zenon DEF Abort, waitVars
<1>2. CondType' /\ ListInv' /\ CallInv'
  BY <1>1 DEF CondInv, waitVars, CondType, ListInv, CallInv, Unreached, Kept, Pending
<1>5. Reaching(c)' = Reaching(c) /\ c \in InWait'
  BY <1>1, Zenon DEF waitVars, InWait, Pending, Reaching
<1> QED
  BY <1>1, <1>2, <1>5 DEF CondInv, FailInv, EraseNeedsRace, CallInv, Kept,
      Reaching

LEMMA Unfailed ==
  ASSUME CondType' /\ ListInv' /\ CallInv', failed = None, UNCHANGED failed
  PROVE  CondInv'
BY Zenon DEF CondInv, FailInv, EraseNeedsRace

LEMMA LeavesStays ==
  ASSUME CondInv, Leaves
  PROVE  CondInv'
<1>1. CondType' /\ ListInv' /\ CallInv'
  BY DEF Leaves, CondInv, waitVars, CondType, ListInv, CallInv, Unreached, Kept, Pending
<1>2. FailInv'
  BY DEF Leaves, CondInv, waitVars, FailInv, EraseNeedsRace, Reaching, InWait, Pending
<1> QED
  BY <1>1, <1>2, Zenon DEF CondInv

LEMMA ClientStays ==
  ASSUME CondInv, NEW c \in Context, Client(c)
  PROVE  CondInv'
<1> USE DEF CondInv
<1>1. CASE Leaves
  BY <1>1, LeavesStays, Zenon
<1>2. CASE Enters(c)
  <2>1. PICK k \in Cond, p \in {"wait", "wait_until"} : EnterWait(c, k, p)
    BY <1>2, Zenon DEF Enters
  <2> QED
    BY Entered, Unfailed, <2>1, OutUnlisted, <1>2, Zenon DEF EnterWait, Enters, Free
<1>3. CASE Rouses(c)
  <2>0. failed = None /\ pend[c] = <<>> /\ UNCHANGED <<on, cv, why, failed>>
    BY <1>3, Zenon DEF Rouses, Free
  <2>1. PICK k \in Cond : NotifyOne(c, k) \/ NotifyAll(c, k)
    BY <1>3, Zenon DEF Rouses
  <2>2. waiting[k] \in Seq(Context) /\ IsInjective(waiting[k])
    BY Zenon DEF CondType, ListInv
  <2>3. CASE NotifyOne(c, k)
    <3>1. /\ pend' = [pend EXCEPT ![c] = First(waiting[k])]
          /\ waiting' = [waiting EXCEPT ![k] = Rest(waiting[k])]
      BY <2>3, Zenon DEF NotifyOne
    <3> QED
      BY <2>0, <2>2, <3>1, FirstRest, Notified, Unfailed, Zenon
  <2>4. CASE NotifyAll(c, k)
    <3>1. pend' = [pend EXCEPT ![c] = waiting[k]] /\ waiting' = [waiting EXCEPT ![k] = <<>>]
      BY <2>4, Zenon DEF NotifyAll
    <3>2. <<>> \in Seq(Context) /\ Range(waiting[k]) \cap Range(<<>>) = {}
          /\ Range(waiting[k]) \cup Range(<<>>) = Range(waiting[k])
      BY EmptyRange
    <3> QED
      BY <2>0, <2>2, <3>1, <3>2, EmptyRange, Notified, Unfailed, Zenon
  <2> QED
    BY <2>1, <2>3, <2>4, Zenon
<1> QED
  BY <1>1, <1>2, <1>3, Zenon DEF Client

LEMMA CondStays ==
  ASSUME CondInv, NEW c \in Context, CondStep(c) \/ Pass(c) \/ Interrupt(c)
  PROVE  CondInv'
<1> USE DEF CondInv
<1>0. failed = None
  BY Zenon DEF CondStep, Wake, TimeOut, Throw, Relock, SetReady, Pass, Interrupt
<1>1. why[c] \in SUBSET Event /\ cv[c] \in Place
  BY Zenon DEF CondType
<1>2. CASE Wake(c)
  <2>1. /\ cv[c] \in {"wait", "wait_until"} /\ why[c] # {} /\ UNCHANGED <<waiting, on, why, pend, failed>>
        /\ cv' = [cv EXCEPT ![c] = IF Expired(c) THEN "expired" ELSE AfterWake(c)]
    BY <1>2, Zenon DEF Wake, Blocked
  <2>2. why' = [why EXCEPT ![c] = why[c]]
    BY <2>1, Zenon DEF CondType
  <2>3. Kept(c)
    BY <2>1, Zenon DEF CallInv
  <2>4. CASE Expired(c)
    BY <1>0, <1>1, <2>1, <2>2, <2>3, <2>4, Moved, Unfailed, Zenon DEF Expired, Place
  <2>5. CASE ~Expired(c) /\ "interrupt" \in why[c]
    BY <1>0, <1>1, <2>1, <2>2, <2>3, <2>5, Moved, Unfailed, Zenon DEF AfterWake, Place
  <2>6. CASE ~Expired(c) /\ "interrupt" \notin why[c]
    <3>1. "notify" \in why[c]
      BY <1>1, <2>1, <2>6, Zenon DEF Expired, Event
    <3> QED
      BY <1>0, <1>1, <2>1, <2>2, <2>6, <3>1, Moved, Unfailed, Zenon DEF AfterWake, Place
  <2> QED
    BY <2>4, <2>5, <2>6, Zenon
<1>3. CASE TimeOut(c)
  <2>1. cv[c] = "expired"
    BY <1>3, Zenon DEF TimeOut
  <2>2. CASE c \notin Range(waiting[on[c]])
    BY <1>3, <2>1, <2>2, ErasedTwice, Zenon DEF TimeOut
  <2>3. CASE c \in Range(waiting[on[c]])
    <3>1. /\ on[c] \in Cond /\ waiting' = [waiting EXCEPT ![on[c]] = Without(@, c)]
          /\ cv' = [cv EXCEPT ![c] = AfterWake(c)] /\ UNCHANGED <<on, why, pend, failed>>
          /\ "deadline" \in why[c]
      BY <1>3, <2>1, <2>3, Zenon DEF TimeOut, Erase, CallInv
    <3> QED
      BY <1>0, <2>3, <3>1, Erased, Unfailed, Zenon DEF AfterWake
  <2> QED
    BY <2>2, <2>3, Zenon
<1>4. CASE Throw(c)
  <2>1. cv[c] = "throw"
    BY <1>4, Zenon DEF Throw
  <2>2. CASE c \notin Range(waiting[on[c]])
    BY <1>4, <2>1, <2>2, ErasedTwice, Zenon DEF Throw
  <2>3. CASE c \in Range(waiting[on[c]])
    <3>1. /\ on[c] \in Cond /\ waiting' = [waiting EXCEPT ![on[c]] = Without(@, c)]
          /\ cv' = [cv EXCEPT ![c] = "out"] /\ UNCHANGED <<pend, failed>>
          /\ on' = [on EXCEPT ![c] = None] /\ why' = [why EXCEPT ![c] = {}]
      BY <1>4, <2>1, <2>3, Zenon DEF Throw, Erase, CallInv
    <3> QED
      BY <1>0, <2>3, <3>1, Erased, Unfailed, Zenon
  <2> QED
    BY <2>2, <2>3, Zenon
<1>5. CASE Relock(c)
  BY <1>0, <1>5, Relocked, Unfailed, Zenon DEF Relock
<1>6. CASE SetReady(c)
  BY <1>0, <1>6, MadeReady, Unfailed, Zenon DEF SetReady
<1>7. CASE Pass(c) \/ Interrupt(c)
  <2>1. /\ cv[c] \in {"wait", "wait_until"} /\ UNCHANGED <<waiting, on, cv, pend, failed>>
        /\ \E e \in {"deadline", "interrupt"} : why' = [why EXCEPT ![c] = why[c] \cup {e}]
    BY <1>7, Zenon DEF Pass, Interrupt, Blocked
  <2>2. PICK e \in {"deadline", "interrupt"} : why' = [why EXCEPT ![c] = why[c] \cup {e}]
    BY <2>1, Zenon
  <2>3. cv' = [cv EXCEPT ![c] = cv[c]] /\ why[c] \cup {e} \in SUBSET Event /\ cv[c] \in Place \ {"out"}
    BY <1>1, <2>1, Zenon DEF CondType, Event
  <2>4. Kept(c)
    BY <2>1, Zenon DEF CallInv
  <2> QED
    BY <1>0, <2>1, <2>2, <2>3, <2>4, Moved, Unfailed, Zenon
<1> QED
  BY <1>2, <1>3, <1>4, <1>5, <1>6, <1>7, Zenon DEF CondStep

LEMMA CondStarts == CondInit => CondInv
<1> SUFFICES ASSUME CondInit PROVE CondInv
  BY Zenon
<1>3. CallInv /\ FailInv
  BY Zenon DEF CondInit, CallInv, FailInv, EraseNeedsRace
<1> QED
  BY <1>3, EmptyRange DEF CondInv, CondInit, CondType, Place, ListInv

(* What CondInv says of the waits. *)
LEMMA CondKeeps ==
  ASSUME CondInv
  PROVE  WaitersInWait /\ NotificationKept /\ EraseNeedsRace /\ failed # "waiting"
<1> USE DEF CondInv
<1>3. NotificationKept
  BY Zenon DEF NotificationKept, CallInv, Kept, Blocked
<1> QED
  BY <1>3, RangeTyped DEF FailInv, WaitersInWait, ListInv, Unreached, InWait,
      Pending, CondType
=============================================================================
