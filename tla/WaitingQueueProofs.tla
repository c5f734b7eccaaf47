------------------------- MODULE WaitingQueueProofs -------------------------
(***************************************************************************)
(* What push(), move_to_run() and move_to() preserve, for every queue: no  *)
(* fiber is lost or queued twice, and the order move_to() relies on is     *)
(* kept.                                                                   *)
(***************************************************************************)
EXTENDS WaitingQueue, WellFoundedInduction, TLAPS

(* Min of a non-empty set of naturals is its least element. *)
LEMMA MinNat ==
  ASSUME NEW S \in SUBSET Nat, S # {}
  PROVE  Min(S) \in S /\ \A x \in S : Min(S) <= x
<1> DEFINE R == OpToRel(<, Nat)
<1>1. IsWellFoundedOn(R, Nat)
  BY NatLessThanWellFounded, Zenon
<1>2. \A x, y \in Nat : x < y => <<x, y>> \in R
  BY Zenon DEF OpToRel
<1> HIDE DEF R
<1>3. PICK n \in S : \A y \in S : ~ (<<y, n>> \in R)
  BY <1>1, WFMin, Zenon
<1>5. ASSUME NEW m \in S PROVE n <= m
  <2>2. ~ (<<m, n>> \in R)
    BY <1>3, Zenon
  <2> QED
    BY <2>2, <1>2
<1> QED
  BY <1>5, Zenon DEF Min

(* Queue r is q with f linked in at position p. *)
IsLink(r, q, p, f) ==
  /\ Len(r) = Len(q) + 1
  /\ \A i \in 1..Len(q) : i < p => r[i] = q[i]
  /\ r[p] = f
  /\ \A i \in 1..Len(q) : i >= p => r[i + 1] = q[i]

(* Queue r is q with its p-th fiber moved to the head. *)
IsToHead(r, q, p) ==
  /\ Len(r) = Len(q)
  /\ r[1] = q[p]
  /\ \A i \in 1..Len(q) : i < p => r[i + 1] = q[i]
  /\ \A i \in 1..Len(q) : i > p => r[i] = q[i]

(* Fiber x may precede y in the queue, and f may be linked in at p. *)
Before(x, y, st, tps) ==
  /\ st[y] = "READY" => st[x] = "READY"
  /\ st[x] # "READY" => tps[x] <= tps[y]
Fits(p, q, f, st, tps) ==
  /\ \A i \in 1..Len(q) : i < p => Before(q[i], f, st, tps)
  /\ \A i \in 1..Len(q) : i >= p => Before(f, q[i], st, tps)

(* Linking f in yields a queue that is one longer, element by element. *)
LEMMA LinkElements ==
  ASSUME NEW S, NEW q \in Seq(S), NEW p \in 1..Len(q) + 1, NEW f \in S
  PROVE  Link(q, p, f) \in Seq(S) /\ IsLink(Link(q, p, f), q, p, f)
BY DEF IsLink, Link

(* Moving a fiber to the head keeps the length, element by element. *)
LEMMA ToHeadElements ==
  ASSUME NEW S, NEW q \in Seq(S), NEW p \in 1..Len(q)
  PROVE  ToHead(q, p) \in Seq(S) /\ IsToHead(ToHead(q, p), q, p)
BY DEF IsToHead, ToHead

(* A queue r that is q with f linked in before position p holds the same   *)
(* fibers and f, once; it is ordered if f fits in there.                   *)
LEMMA LinkKeeps ==
  ASSUME NEW S, NEW q \in Seq(S), NEW f \in S, NEW p \in 1..Len(q) + 1,
         NEW st, NEW tps, NEW r \in Seq(S), IsLink(r, q, p, f),
         f \notin Range(q), IsInjective(q), Ordered(q, st, tps), Fits(p, q, f, st, tps)
  PROVE  Range(r) = Range(q) \cup {f} /\ IsInjective(r) /\ Ordered(r, st, tps)
<1>a. /\ Len(r) = Len(q) + 1
      /\ \A i \in 1..Len(q) : i < p => r[i] = q[i]
      /\ r[p] = f
      /\ \A i \in 1..Len(q) : i >= p => r[i + 1] = q[i]
  BY Zenon DEF IsLink
<1>0. ASSUME NEW i \in 1..Len(r), i > p
      PROVE  i - 1 \in 1..Len(q) /\ i - 1 >= p /\ r[i] = q[i - 1]
  BY <1>a, <1>0
<1>1. Range(r) = Range(q) \cup {f}
  <2>1. ASSUME NEW i \in 1..Len(r) PROVE r[i] = f \/ \E j \in 1..Len(q) : r[i] = q[j]
    <3>1. CASE i < p
      BY <1>a, <3>1
    <3>2. CASE i > p
      BY <1>a, <3>2, <1>0, Zenon
    <3> QED
      BY <1>a, <3>1, <3>2
  <2>2. ASSUME NEW i \in 1..Len(q) PROVE \E j \in 1..Len(r) : r[j] = q[i]
    <3>1. CASE i < p
      BY <1>a, <3>1
    <3>2. CASE i >= p
      <4>1. i + 1 \in 1..Len(r)
        BY <1>a
      <4> QED
        BY <1>a, <3>2, <4>1, Zenon
    <3> QED
      BY <1>a, <3>1, <3>2
  <2>4. DOMAIN r = 1..Len(r) /\ DOMAIN q = 1..Len(q)
    BY <1>a
  <2>5. ASSUME NEW x \in Range(r) PROVE x \in Range(q) \cup {f}
    BY <1>a, <2>1, <2>4 DEF Range
  <2>6. ASSUME NEW x \in Range(q) PROVE x \in Range(r)
    BY <1>a, <2>2, <2>4 DEF Range
  <2>7. f \in Range(r)
    BY <1>a, <2>4, Zenon DEF Range
  <2> QED
    BY <1>a, <2>5, <2>6, <2>7, Zenon
<1>2. IsInjective(r)
  <2>1. \A i \in 1..Len(q) : q[i] # f
    BY DEF Range
  <2>2. \A i, j \in 1..Len(q) : i < j => q[i] # q[j]
    BY DEF IsInjective
  <2>3. ASSUME NEW i \in 1..Len(r), NEW j \in 1..Len(r), i < j PROVE r[i] # r[j]
    <3>1. CASE j < p
      BY <1>a, <3>1, <2>2, <2>3
    <3>2. CASE j = p
      BY <1>a, <3>2, <2>1, <2>3
    <3>3. CASE j > p /\ i < p
      <4>1. i \in 1..Len(q) /\ r[i] = q[i] /\ i < j - 1
        BY <1>a, <3>3
      <4> QED
        BY <4>1, <2>2, <3>3, <1>0, Zenon
    <3>4. CASE j > p /\ i = p
      BY <1>a, <3>4, <1>0, <2>1, Zenon
    <3>5. CASE j > p /\ i > p
      <4>1. i - 1 \in 1..Len(q) /\ r[i] = q[i - 1]
        BY <3>5, <1>0, Zenon
      <4>2. j - 1 \in 1..Len(q) /\ r[j] = q[j - 1]
        BY <3>5, <1>0, Zenon
      <4> QED
        BY <4>1, <4>2, <2>2, <2>3
    <3> QED
      BY <1>a, <3>1, <3>2, <3>3, <3>4, <3>5
  <2> QED
    BY <1>a, <2>3 DEF IsInjective
<1>3. Ordered(r, st, tps)
  <2>3. \A i, j \in 1..Len(q) : i < j => Before(q[i], q[j], st, tps)
    BY Zenon DEF Ordered, Before
  <2>4. ASSUME NEW i \in 1..Len(r), NEW j \in 1..Len(r), i < j 
        PROVE  Before(r[i], r[j], st, tps)
    <3>1. CASE j < p
      BY <1>a, <3>1, <2>3, <2>4
    <3>2. CASE j = p
      BY <1>a, <3>2, <2>4 DEF Fits
    <3>3. CASE j > p /\ i < p
      <4>1. i \in 1..Len(q) /\ r[i] = q[i] /\ i < j - 1
        BY <1>a, <3>3
      <4> QED
        BY <4>1, <2>3, <3>3, <1>0, Zenon
    <3>4. CASE j > p /\ i = p
      BY <1>a, <3>4, <1>0, Zenon DEF Fits
    <3>5. CASE j > p /\ i > p
      <4>2. j - 1 \in 1..Len(q) /\ r[j] = q[j - 1]
        BY <3>5, <1>0, Zenon
      <4>3. i - 1 < j - 1
        BY <2>4
      <4> QED
        BY <4>2, <4>3, <2>3, <3>5, <1>0, Zenon
    <3> QED
      BY <1>a, <3>1, <3>2, <3>3, <3>4, <3>5
  <2> QED
    BY <1>a, <2>4, Zenon DEF Ordered, Before
<1> QED
  BY <1>1, <1>2, <1>3, Zenon

(* push() links an item in at a position of the queue; a waiting item      *)
(* goes behind every fiber that is ready or due earlier, before every      *)
(* other.                                                                  *)
LEMMA PushPositionFits ==
  ASSUME NEW S, NEW q \in Seq(S), NEW f \in S, NEW st,
         NEW tps \in [S -> 0..TPMax], Ordered(q, st, tps)
  PROVE  /\ PushPosition(q, f, st, tps) \in 1..Len(q) + 1
         /\ Fits(PushPosition(q, f, st, tps), q, f, st, tps)
<1> USE DEF Fits, Before
<1> DEFINE D == {i \in 1..Len(q) : st[q[i]] # "READY" /\ tps[f] <= tps[q[i]]}
                \cup {Len(q) + 1}
<1>0. TPMax \in Nat /\ Len(q) \in Nat
  BY TPMaxAssumption
<1>1. D \in SUBSET Nat /\ D # {}
  BY <1>0
<1>2. PICK d \in Nat : /\ d = DeadlinePosition(q, f, st, tps)
                       /\ d \in D /\ \A x \in D : d <= x
  <2>1. DeadlinePosition(q, f, st, tps) = Min(D)
    BY Zenon DEF DeadlinePosition
  <2> HIDE DEF D
  <2> QED
    BY <1>1, <2>1, MinNat, Zenon
<1>3. d \in D /\ \A x \in D : d <= x
  BY <1>2, Zenon
<1>4. \A i \in 1..Len(q) : tps[q[i]] \in 0..TPMax /\ tps[f] \in 0..TPMax
  OBVIOUS
<1>5. ASSUME NEW i \in 1..Len(q), i < d
      PROVE  st[q[i]] = "READY" \/ tps[q[i]] <= tps[f]
  <2>1. i \notin D
    BY <1>3, <1>5, <1>0
  <2> QED
    BY <2>1, <1>4, <1>0
<1>6. ASSUME NEW i \in 1..Len(q), i >= d
      PROVE  st[q[i]] # "READY" /\ tps[f] <= tps[q[i]]
  <2>1. d \in 1..Len(q) /\ st[q[d]] # "READY" /\ tps[f] <= tps[q[d]]
    BY <1>3, <1>6, <1>0
  <2>2. CASE i = d
    BY <2>1, <2>2, Zenon
  <2>3. CASE d < i
    <3>1. st[q[i]] # "READY" /\ tps[q[d]] <= tps[q[i]]
      BY <2>1, <2>3, Zenon DEF Ordered
    <3> QED
      BY <3>1, <2>1, <1>4, <1>0
  <2> QED
    BY <2>2, <2>3, <1>6
<1>7. CASE st[f] = "READY"
  BY <1>7, <1>0 DEF PushPosition
<1>8. CASE st[f] # "READY" /\ tps[f] = TPMax
  BY <1>8, <1>4, <1>0 DEF PushPosition
<1>9. CASE st[f] # "READY" /\ tps[f] # TPMax
  <2>1. PushPosition(q, f, st, tps) = d
    BY <1>9, <1>2, Zenon DEF PushPosition
  <2>2. d \in 1..Len(q) + 1
    BY <1>3, <1>0
  <2> QED
    BY <2>1, <2>2, <1>9, <1>5, <1>6, Zenon
<1> QED
  BY <1>7, <1>8, <1>9, Zenon

(* push() of a fiber that is in no queue adds exactly this fiber, once,    *)
(* and keeps the queue ordered.                                            *)
LEMMA PushKeeps ==
  ASSUME NEW S, NEW q \in Seq(S), NEW f \in S, NEW st,
         NEW tps \in [S -> 0..TPMax],
         f \notin Range(q), IsInjective(q), Ordered(q, st, tps)
  PROVE  /\ Push(q, f, st, tps) \in Seq(S)
         /\ Range(Push(q, f, st, tps)) = Range(q) \cup {f}
         /\ IsInjective(Push(q, f, st, tps))
         /\ Ordered(Push(q, f, st, tps), st, tps)
<1>2. PICK p \in 1..Len(q) + 1 :
        p = PushPosition(q, f, st, tps) /\ Fits(p, q, f, st, tps)
  BY PushPositionFits, Zenon
<1>3. PICK r \in Seq(S) : r = Link(q, p, f) /\ IsLink(r, q, p, f)
  BY LinkElements, Zenon
<1> QED
  BY <1>2, <1>3, LinkKeeps DEF Push

(* A queue r that is q with its p-th fiber moved to the head holds the     *)
(* same fibers, each once; it is ordered if that fiber is ready.           *)
LEMMA ToHeadKeeps ==
  ASSUME NEW S, NEW q \in Seq(S), NEW p \in 1..Len(q), NEW r \in Seq(S),
         NEW st, NEW st2, NEW tps, IsToHead(r, q, p), IsInjective(q), Ordered(q, st, tps),
         st2[q[p]] = "READY", \A i \in 1..Len(q) : i # p => st2[q[i]] = st[q[i]]
  PROVE  Range(r) = Range(q) /\ IsInjective(r) /\ Ordered(r, st2, tps)
<1>a. /\ Len(r) = Len(q)
      /\ r[1] = q[p]
      /\ \A i \in 1..Len(q) : i < p => r[i + 1] = q[i]
      /\ \A i \in 1..Len(q) : i > p => r[i] = q[i]
  BY Zenon DEF IsToHead
<1>b. ASSUME NEW i \in 1..Len(r), i # 1
      PROVE  \E k \in 1..Len(q) :
               r[i] = q[k] /\ k # p /\ (i <= p => k = i - 1) /\ (i > p => k = i)
  <2>1. CASE i <= p
    BY <2>1, <1>a, <1>b
  <2>2. CASE i > p
    BY <1>a, <2>2
  <2> QED
    BY <2>1, <2>2
<1>c. 1 \in 1..Len(r) /\ DOMAIN r = 1..Len(r) /\ DOMAIN q = 1..Len(q)
  BY <1>a
<1>1. Range(r) = Range(q)
  <2>1. ASSUME NEW i \in 1..Len(r) PROVE \E k \in 1..Len(q) : r[i] = q[k]
    BY <1>a, <1>b, Zenon
  <2>2. ASSUME NEW i \in 1..Len(q) PROVE \E k \in 1..Len(r) : r[k] = q[i]
    <3>1. CASE i < p
      BY <3>1, <1>a
    <3>2. CASE i = p
      BY <3>2, <1>a, <1>c, Zenon
    <3>3. CASE i > p
      BY <3>3, <1>a, Zenon
    <3> QED
      BY <3>1, <3>2, <3>3
  <2>3. ASSUME NEW x \in Range(r) PROVE x \in Range(q)
    BY <2>1, <1>c DEF Range
  <2>4. ASSUME NEW x \in Range(q) PROVE x \in Range(r)
    BY <2>2, <1>c DEF Range
  <2> QED
    BY <2>3, <2>4, Zenon
<1>2. \A i, j \in 1..Len(q) : i # j => q[i] # q[j]
  BY DEF IsInjective
<1>3. ASSUME NEW i \in 1..Len(r), NEW j \in 1..Len(r), i < j
      PROVE  r[i] # r[j] /\ Before(r[i], r[j], st2, tps)
  <2>0. j # 1
    BY <1>3
  <2>1. PICK k \in 1..Len(q) :
          r[j] = q[k] /\ k # p /\ (j <= p => k = j - 1) /\ (j > p => k = j)
    BY <1>b, <2>0, Zenon
  <2>2. CASE i = 1
    BY <2>1, <1>2, <2>2, <1>a DEF Before
  <2>3. CASE i # 1
    <3>1. PICK l \in 1..Len(q) :
            r[i] = q[l] /\ l # p /\ (i <= p => l = i - 1) /\ (i > p => l = i)
      BY <1>b, <2>3, Zenon
    <3>2. l < k
      BY <2>1, <3>1, <1>3, <2>3
    <3>5. st2[q[l]] = st[q[l]] /\ st2[q[k]] = st[q[k]]
      BY <2>1, <3>1, Zenon
    <3> QED
      BY <2>1, <3>1, <3>5, <3>2, <1>2 DEF Before, Ordered
  <2> QED
    BY <2>2, <2>3, Zenon
<1> QED
  BY <1>1, <1>c, <1>3 DEF IsInjective, Ordered, Before

(* Making a fiber ready and moving it to the head loses and adds no fiber  *)
(* and keeps the queue ordered.                                            *)
LEMMA MoveToRunKeeps ==
  ASSUME NEW S, NEW q \in Seq(S), NEW f \in S, NEW st, NEW st2, NEW tps,
         IsInjective(q), Ordered(q, st, tps),
         st2[f] = "READY", \A x \in Range(q) \ {f} : st2[x] = st[x]
  PROVE  /\ MoveToRun(q, f) \in Seq(S)
         /\ Range(MoveToRun(q, f)) = Range(q)
         /\ IsInjective(MoveToRun(q, f))
         /\ Ordered(MoveToRun(q, f), st2, tps)
<1>1. st2[f] = "READY" /\ \A i \in 1..Len(q) : q[i] # f => st2[q[i]] = st[q[i]]
  BY DEF Range
<1>2. CASE f \notin Range(q)
  BY <1>2, <1>1 DEF MoveToRun, Ordered, Range
<1>3. CASE f \in Range(q)
  <2>2. PICK p \in 1..Len(q) : p = Position(q, f) /\ q[p] = f
    BY <1>3 DEF Position, Range
  <2>3. PICK r \in Seq(S) : r = ToHead(q, p) /\ IsToHead(r, q, p)
    BY ToHeadElements, Zenon
  <2>4. IsToHead(r, q, p) /\ st2[q[p]] = "READY"
    BY <2>2, <2>3, <1>1, Zenon
  <2>5. \A i \in 1..Len(q) : i # p => st2[q[i]] = st[q[i]]
    BY <2>2, <1>1 DEF IsInjective
  <2>7. MoveToRun(q, f) = r
    BY <1>3, <2>2, <2>3, Zenon DEF MoveToRun
  <2> QED
    BY <2>7, <2>4, <2>5, ToHeadKeeps
<1> QED
  BY <1>2, <1>3, Zenon

(* move_to() leaves a suffix of the queue, which stays ordered, and the    *)
(* fibers it takes are not in there.                                       *)
LEMMA SplitKeeps ==
  ASSUME NEW S, NEW q \in Seq(S), NEW k \in 0..Len(q), NEW st, NEW tps,
         IsInjective(q), Ordered(q, st, tps)
  PROVE  /\ SubSeq(q, 1, k) \in Seq(S) /\ SubSeq(q, k + 1, Len(q)) \in Seq(S)
         /\ IsInjective(SubSeq(q, 1, k)) /\ IsInjective(SubSeq(q, k + 1, Len(q)))
         /\ Range(SubSeq(q, 1, k)) \cap Range(SubSeq(q, k + 1, Len(q))) = {}
         /\ Range(SubSeq(q, 1, k)) \cup Range(SubSeq(q, k + 1, Len(q))) = Range(q)
         /\ Ordered(SubSeq(q, k + 1, Len(q)), st, tps)
<1>0. SubSeq(q, 1, k) \in Seq(S) /\ SubSeq(q, k + 1, Len(q)) \in Seq(S)
  OBVIOUS
<1>1. PICK a \in Seq(S) : a = SubSeq(q, 1, k)
  BY <1>0, Zenon
<1>2. PICK b \in Seq(S) : b = SubSeq(q, k + 1, Len(q))
  BY <1>0, Zenon
<1>3. /\ Len(a) = k
      /\ \A i \in 1..k : a[i] = q[i]
  BY <1>1
<1>4. /\ Len(b) = Len(q) - k
      /\ \A i \in 1..Len(q) - k : b[i] = q[k + i]
  BY <1>2
<1>5. DOMAIN a = 1..k /\ DOMAIN b = 1..Len(q) - k /\ DOMAIN q = 1..Len(q)
  BY <1>3, <1>4
<1>6. \A i, j \in 1..Len(q) : q[i] = q[j] => i = j
  BY DEF IsInjective
<1>7. IsInjective(a)
  BY <1>5, <1>3, <1>6 DEF IsInjective
<1>8. \A i \in 1..Len(q) - k : k + i \in 1..Len(q) /\ k + i \notin 1..k
  OBVIOUS
<1>9. IsInjective(b)
  <2>1. ASSUME NEW i \in 1..Len(q) - k, NEW j \in 1..Len(q) - k, b[i] = b[j] PROVE i = j
    <3>1. k + i = k + j
      BY <1>4, <1>6, <1>8, <2>1, Zenon
    <3> QED
      BY <3>1
  <2> QED
    BY <2>1, <1>5, Zenon DEF IsInjective
<1>10. Range(a) \cap Range(b) = {}
  <2>1. ASSUME NEW i \in 1..k, NEW j \in 1..Len(q) - k PROVE a[i] # b[j]
    BY <1>3, <1>4, <1>6, <1>8
  <2>2. (\A x \in Range(a) : \E i \in 1..k : x = a[i])
        /\ \A x \in Range(b) : \E j \in 1..Len(q) - k : x = b[j]
    BY <1>5, Zenon DEF Range
  <2> QED
    BY <2>1, <2>2, Zenon
<1>11. Range(a) \cup Range(b) = Range(q)
  <2>1. ASSUME NEW x \in Range(q) PROVE x \in Range(a) \cup Range(b)
    <3>1. PICK i \in 1..Len(q) : x = q[i]
      BY <1>5, Zenon DEF Range
    <3>2. CASE i <= k
      BY <3>1, <3>2, <1>3, <1>5 DEF Range
    <3>3. CASE i > k
      <4>1. i - k \in 1..Len(q) - k /\ k + (i - k) = i
        BY <3>3
      <4>2. b[i - k] = x
        BY <4>1, <1>4, <3>1, Zenon
      <4> QED
        BY <4>1, <4>2, <1>5, Zenon DEF Range
    <3> QED
      BY <3>2, <3>3
  <2>3. ASSUME NEW i \in 1..Len(q) - k PROVE b[i] \in Range(q)
    BY <1>4, <1>5, <1>8, Zenon DEF Range
  <2>4. Range(a) \subseteq Range(q)
    BY <1>5, <1>3 DEF Range
  <2>5. Range(b) \subseteq Range(q)
    BY <2>3, <1>5, Zenon DEF Range
  <2> QED
    BY <2>1, <2>4, <2>5, Zenon
<1>12. Ordered(b, st, tps)
  <2>1. ASSUME NEW i \in 1..Len(b), NEW j \in 1..Len(b), i < j
        PROVE  Before(b[i], b[j], st, tps)
    <3>1. k + i \in 1..Len(q) /\ k + j \in 1..Len(q) /\ k + i < k + j
      BY <1>4, <1>8, <2>1
    <3>2. Before(q[k + i], q[k + j], st, tps)
      BY <3>1, Zenon DEF Ordered, Before
    <3> QED
      BY <3>2, <1>4
  <2> QED
    BY <2>1, Zenon DEF Ordered, Before
<1> QED
  BY <1>1, <1>2, <1>7, <1>9, <1>10, <1>11, <1>12, Zenon

(* move_to() takes at most the whole queue, and only fibers fetch_ready()  *)
(* accepts.                                                                *)
LEMMA ReadyPrefixFits ==
  ASSUME NEW S, NEW q \in Seq(S), NEW now, NEW st, NEW tps, NEW req
  PROVE  /\ ReadyPrefix(q, now, st, tps, req) \in 0..Len(q)
         /\ \A i \in 1..ReadyPrefix(q, now, st, tps, req) :
              FetchReady(q[i], now, st, tps, req)
<1> DEFINE N == {i \in 1..Len(q) : ~FetchReady(q[i], now, st, tps, req)}
                \cup {Len(q) + 1}
<1>1. N \in SUBSET Nat /\ N # {} /\ Len(q) + 1 \in N
  OBVIOUS
<1>2. ReadyPrefix(q, now, st, tps, req) = Min(N) - 1
  BY Zenon DEF ReadyPrefix
<1>3. PICK n \in Nat : n = Min(N) /\ n \in N /\ \A x \in N : n <= x
  <2> HIDE DEF N
  <2> QED
    BY <1>1, MinNat, Zenon
<1>4. n \in 1..Len(q) + 1
  BY <1>3
<1>5. ASSUME NEW i \in 1..n - 1 PROVE FetchReady(q[i], now, st, tps, req)
  BY <1>3, <1>4
<1> HIDE DEF N
<1> QED
  BY <1>2, <1>3, <1>4, <1>5

(* move_to() stops only at a fiber fetch_ready() refuses. *)
LEMMA ReadyPrefixStops ==
  ASSUME NEW S, NEW q \in Seq(S), NEW now, NEW st, NEW tps, NEW req,
         ReadyPrefix(q, now, st, tps, req) < Len(q)
  PROVE  ~FetchReady(q[ReadyPrefix(q, now, st, tps, req) + 1], now, st, tps, req)
<1> DEFINE N == {i \in 1..Len(q) : ~FetchReady(q[i], now, st, tps, req)}
                \cup {Len(q) + 1}
<1>1. N \in SUBSET Nat /\ N # {}
  OBVIOUS
<1>2. ReadyPrefix(q, now, st, tps, req) = Min(N) - 1
  BY Zenon DEF ReadyPrefix
<1>3. PICK n \in Nat : n = Min(N) /\ n \in N
  <2> HIDE DEF N
  <2> QED
    BY <1>1, MinNat, Zenon
<1>4. ReadyPrefix(q, now, st, tps, req) + 1 = n /\ n # Len(q) + 1
  <2> HIDE DEF N
  <2> QED
    BY <1>2, <1>3
<1> QED
  BY <1>4, <1>3, Zenon

(* In an ordered queue whose requested fibers are all ready, fetch_ready() *)
(* holds of no fiber behind the prefix that move_to() takes.               *)
LEMMA ScanFindsReady ==
  ASSUME NEW S, NEW q \in Seq(S), NEW now \in Nat, NEW st, NEW tps, NEW req,
         Ordered(q, st, tps),
         \A i \in 1..Len(q) : tps[q[i]] \in Nat,
         \A i \in 1..Len(q) : q[i] \in req => st[q[i]] = "READY",
         NEW i \in 1..Len(q), FetchReady(q[i], now, st, tps, req)
  PROVE  i <= ReadyPrefix(q, now, st, tps, req)
<1> DEFINE k == ReadyPrefix(q, now, st, tps, req)
<1>1. k \in 0..Len(q)
  BY ReadyPrefixFits, Zenon
<1>2. k < Len(q) => ~FetchReady(q[k + 1], now, st, tps, req)
  BY ReadyPrefixStops, Zenon
<1> HIDE DEF k
<1>3. SUFFICES ASSUME i > k PROVE FALSE
  BY <1>1 DEF k
<1>4. k + 1 \in 1..Len(q) /\ k < Len(q)
  BY <1>1, <1>3
<1>5. st[q[k + 1]] # "READY" /\ ~(tps[q[k + 1]] <= now)
  BY <1>2, <1>4, Zenon DEF FetchReady
<1>6. st[q[i]] = "READY" \/ tps[q[i]] <= now
  BY Zenon DEF FetchReady
<1>7. CASE i = k + 1
  BY <1>5, <1>6, <1>7, Zenon
<1>8. CASE k + 1 < i
  BY <1>5, <1>6, <1>4, <1>8 DEF Ordered
<1> QED
  BY <1>1, <1>3, <1>7, <1>8

(* awakened() adds a fiber that is in no queue, once. *)
LEMMA AppendKeeps ==
  ASSUME NEW S, NEW q \in Seq(S), NEW f \in S, f \notin Range(q), IsInjective(q)
  PROVE  /\ Append(q, f) \in Seq(S) /\ IsInjective(Append(q, f))
         /\ Range(Append(q, f)) = Range(q) \cup {f}
<1>0. Append(q, f) \in Seq(S)
  OBVIOUS
<1>1. PICK r \in Seq(S) : r = Append(q, f)
  BY <1>0, Zenon
<1> QED
  BY <1>1 DEF Range, IsInjective

(* Appending the fibers move_to() takes to the ready queue. *)
LEMMA ConcatKeeps ==
  ASSUME NEW S, NEW a \in Seq(S), NEW b \in Seq(S),
         IsInjective(a), IsInjective(b), Range(a) \cap Range(b) = {}
  PROVE  /\ a \o b \in Seq(S) /\ IsInjective(a \o b)
         /\ Range(a \o b) = Range(a) \cup Range(b)
<1>0. a \o b \in Seq(S)
  OBVIOUS
<1>1. PICK r \in Seq(S) : r = a \o b
  BY <1>0, Zenon
<1>2. /\ Len(r) = Len(a) + Len(b)
      /\ \A i \in 1..Len(a) : r[i] = a[i]
      /\ \A i \in 1..Len(b) : r[Len(a) + i] = b[i]
  BY <1>1
<1>3. DOMAIN r = 1..Len(r) /\ DOMAIN a = 1..Len(a) /\ DOMAIN b = 1..Len(b)
  OBVIOUS
<1>4. ASSUME NEW i \in 1..Len(r), i > Len(a)
      PROVE  i - Len(a) \in 1..Len(b) /\ r[i] = b[i - Len(a)]
  <2>1. i - Len(a) \in 1..Len(b) /\ Len(a) + (i - Len(a)) = i
    BY <1>2, <1>4
  <2>2. r[Len(a) + (i - Len(a))] = b[i - Len(a)]
    BY <2>1, <1>2, Zenon
  <2> QED
    BY <2>1, <2>2, Zenon
<1>5. ASSUME NEW i \in 1..Len(r), i <= Len(a)
      PROVE  i \in 1..Len(a) /\ r[i] = a[i]
  BY <1>2, <1>5
<1>6. ASSUME NEW i \in 1..Len(a), NEW j \in 1..Len(b) PROVE a[i] # b[j]
  BY <1>3, Zenon DEF Range
<1>7. IsInjective(r)
  <2>2. \A i, j \in 1..Len(b) : b[i] = b[j] => i = j
    BY DEF IsInjective
  <2>3. ASSUME NEW i \in 1..Len(r), NEW j \in 1..Len(r), r[i] = r[j] PROVE i = j
    <3>1. CASE i <= Len(a) /\ j <= Len(a)
      BY <3>1, <2>3, <1>5 DEF IsInjective
    <3>2. CASE i > Len(a) /\ j > Len(a)
      <4>1. i - Len(a) = j - Len(a)
        BY <3>2, <2>2, <2>3, <1>4, Zenon
      <4> QED
        BY <4>1
    <3>3. CASE i <= Len(a) /\ j > Len(a)
      BY <3>3, <2>3, <1>4, <1>5, <1>6, Zenon
    <3>4. CASE i > Len(a) /\ j <= Len(a)
      BY <3>4, <2>3, <1>4, <1>5, <1>6, Zenon
    <3> QED
      BY <3>1, <3>2, <3>3, <3>4
  <2> QED
    BY <2>3, <1>3, Zenon DEF IsInjective
<1>8. Range(r) = Range(a) \cup Range(b)
  <2>1. ASSUME NEW i \in 1..Len(r) PROVE r[i] \in Range(a) \cup Range(b)
    <3>1. CASE i <= Len(a)
      BY <3>1, <1>3, <1>5, Zenon DEF Range
    <3>2. CASE i > Len(a)
      BY <3>2, <1>3, <1>4, Zenon DEF Range
    <3> QED
      BY <3>1, <3>2
  <2>2. ASSUME NEW i \in 1..Len(a) PROVE a[i] \in Range(r)
    <3>1. i \in 1..Len(r) /\ r[i] = a[i]
      BY <1>2
    <3> QED
      BY <3>1, <1>3, Zenon DEF Range
  <2>3. ASSUME NEW i \in 1..Len(b) PROVE b[i] \in Range(r)
    <3>1. Len(a) + i \in 1..Len(r) /\ r[Len(a) + i] = b[i]
      BY <1>2
    <3> QED
      BY <3>1, <1>3, Zenon DEF Range
  <2>4. Range(r) \subseteq Range(a) \cup Range(b)
    BY <2>1, <1>3, Zenon DEF Range
  <2>5. Range(a) \subseteq Range(r)
    BY <2>2, <1>3, Zenon DEF Range
  <2>6. Range(b) \subseteq Range(r)
    BY <2>3, <1>3, Zenon DEF Range
  <2> QED
    BY <2>4, <2>5, <2>6, Zenon
<1> QED
  BY <1>1, <1>7, <1>8, Zenon

(* pick_next() takes exactly the head out of the ready queue. *)
LEMMA TailKeeps ==
  ASSUME NEW S, NEW q \in Seq(S), q # <<>>, IsInjective(q)
  PROVE  /\ Head(q) \in S /\ Tail(q) \in Seq(S) /\ IsInjective(Tail(q))
         /\ Head(q) \in Range(q) /\ Head(q) \notin Range(Tail(q))
         /\ Range(q) = Range(Tail(q)) \cup {Head(q)}
<1>0. Tail(q) \in Seq(S)
  OBVIOUS
<1>1. PICK r \in Seq(S) : r = Tail(q)
  BY <1>0, Zenon
<1>2. Len(r) = Len(q) - 1 /\ \A i \in 1..Len(r) : r[i] = q[i + 1]
  BY <1>1
<1>3. Len(q) >= 1 /\ 1 \in 1..Len(q) /\ Head(q) = q[1]
  OBVIOUS
<1>4. DOMAIN r = 1..Len(r) /\ DOMAIN q = 1..Len(q)
  OBVIOUS
<1>5. \A i, j \in 1..Len(q) : q[i] = q[j] => i = j
  BY DEF IsInjective
<1>6. \A i \in 1..Len(r) : i + 1 \in 1..Len(q) /\ i + 1 # 1
  BY <1>2
<1>7. IsInjective(r)
  <2>1. ASSUME NEW i \in 1..Len(r), NEW j \in 1..Len(r), r[i] = r[j] PROVE i = j
    BY <2>1, <1>2, <1>5, <1>6
  <2> QED
    BY <2>1, <1>4, Zenon DEF IsInjective
<1>8. q[1] \in Range(q) /\ q[1] \notin Range(r)
  BY <1>2, <1>3, <1>4, <1>5, <1>6 DEF Range
<1>9. Range(q) = Range(r) \cup {q[1]}
  <2>1. ASSUME NEW i \in 1..Len(q), i # 1 PROVE q[i] \in Range(r)
    <3>1. i - 1 \in 1..Len(r) /\ (i - 1) + 1 = i
      BY <2>1, <1>2
    <3>2. r[i - 1] = q[(i - 1) + 1]
      BY <3>1, <1>2, Zenon
    <3> QED
      BY <3>1, <3>2, <1>4, Zenon DEF Range
  <2>2. Range(q) \subseteq Range(r) \cup {q[1]}
    BY <2>1, <1>4, Zenon DEF Range
  <2>3. Range(r) \subseteq Range(q)
    BY <1>2, <1>4, <1>6, Zenon DEF Range
  <2> QED
    BY <2>2, <2>3, <1>8, Zenon
<1> QED
  BY <1>1, <1>3, <1>7, <1>8, <1>9
=============================================================================
