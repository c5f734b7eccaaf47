------------------------- MODULE LinkedQueueProofs -------------------------
(***************************************************************************)
(* The links of the waiting queue denote the sequence that the operators   *)
(* of WaitingQueue compute, for any number of fibers, while only the       *)
(* thread that owns the queue uses it.                                     *)
(***************************************************************************)
EXTENDS LinkedQueue, WaitingQueueProofs

USE LinkedQueueAssumption, TPMaxAssumption

Pointer == Fiber \cup {Null}
Links == [head : Pointer, tail : Pointer, next : [Fiber -> Pointer],
          prev : [Fiber -> Pointer], in : SUBSET Fiber]
Place == {"idle", "push", "walk", "ready", "relink", "scan", "pop"}

LinkType ==
  /\ L \in Links
  /\ st \in [Fiber -> {"READY", "WAITING"}] /\ tp \in [Fiber -> 0..TPMax] /\ now \in Nat
  /\ pc \in [Thread -> Place] /\ item \in [Thread -> Pointer]
  /\ loop \in [cur : Pointer, other : Pointer, fetch : BOOLEAN]
  /\ q \in Seq(Fiber) /\ IsInjective(q)

(* The links l are those of the sequence s, and other fibers have none. *)
Chain(l, s) ==
  /\ l.head = IF s = <<>> THEN Null ELSE s[1]
  /\ l.tail = IF s = <<>> THEN Null ELSE s[Len(s)]
  /\ \A i \in 1..Len(s) :
       /\ l.next[s[i]] = IF i = Len(s) THEN Null ELSE s[i + 1]
       /\ l.prev[s[i]] = IF i = 1 THEN Null ELSE s[i - 1]
  /\ \A f \in Fiber \ Range(s) : l.next[f] = Null /\ l.prev[f] = Null

(* The links l of s around its p-th fiber, which has kept its own. *)
Bypass(l, s, p) ==
  /\ l.head = s[1]
  /\ l.tail = IF p = Len(s) THEN s[p - 1] ELSE s[Len(s)]
  /\ \A i \in 1..Len(s) :
       l.next[s[i]] = LET j == IF i = p - 1 THEN p ELSE i
                      IN  IF j = Len(s) THEN Null ELSE s[j + 1]
  /\ \A i \in 1..Len(s) :
       l.prev[s[i]] = LET j == IF i = p + 1 THEN p ELSE i
                      IN  IF j = 1 THEN Null ELSE s[j - 1]
  /\ \A f \in Fiber \ Range(s) : l.next[f] = Null /\ l.prev[f] = Null

(* Where the links are in order, and which fibers have head() set: between *)
(* attach() and the links of push() the item is one, too.                  *)
LinksInv ==
  /\ pc[Owner] # "relink" => Chain(L, q)
  /\ pc[Owner] = "relink" => \E p \in 2..Len(q) : q[p] = item[Owner] /\ Bypass(L, q, p)
  /\ pc[Owner] \in {"push", "walk"} =>
       /\ item[Owner] \in Fiber \ Range(q)
       /\ L.in = Range(q) \cup {item[Owner]}
  /\ pc[Owner] \notin {"push", "walk"} => L.in = Range(q)

(* The loop of push() is at a fiber of the queue, prev is the one before   *)
(* it, and the item goes before none it has passed.                        *)
Passed(f, i) == \A j \in 1..(i - 1) : ~(st[q[j]] # "READY" /\ tp[f] <= tp[q[j]])
WalkInv ==
  pc[Owner] = "walk" =>
    /\ st[item[Owner]] # "READY" /\ tp[item[Owner]] # TPMax
    /\ \E i \in 1..Len(q) :
         /\ loop.cur = q[i] /\ loop.other = IF i = 1 THEN Null ELSE q[i - 1]
         /\ Passed(item[Owner], i)

(* The loop of move_to() is at the head, and takes it. *)
ScanInv ==
  /\ pc[Owner] = "scan" => loop.cur = L.head
  /\ pc[Owner] = "pop" => loop.fetch
  /\ loop.fetch =>
       /\ pc[Owner] \in {"ready", "pop"}
       /\ q # <<>> /\ item[Owner] = q[1] /\ loop.other = L.next[q[1]]

(* The queue is in order, but for a fiber that set_ready() is moving.      *)
OrderInv ==
  IF pc[Owner] \in {"ready", "relink"}
  THEN /\ item[Owner] \in Fiber /\ st[item[Owner]] = "READY"
       /\ \E s \in {"READY", "WAITING"} : Ordered(q, [st EXCEPT ![item[Owner]] = s], tp)
  ELSE Ordered(q, st, tp)

LinkedInv == LinkType /\ LinksInv /\ WalkInv /\ ScanInv /\ OrderInv

-----------------------------------------------------------------------------
(* The positions of a queue without repetitions. *)
LEMMA OnePosition ==
  ASSUME NEW s \in Seq(Fiber), IsInjective(s), NEW i \in 1..Len(s), NEW j \in 1..Len(s),
         s[i] = s[j]
  PROVE  i = j
BY DEF IsInjective

LEMMA InQueue ==
  ASSUME NEW s \in Seq(Fiber)
  PROVE  /\ \A i \in 1..Len(s) : s[i] \in Range(s) /\ s[i] \in Fiber
         /\ \A f \in Range(s) : f \in Fiber /\ \E i \in 1..Len(s) : s[i] = f
         /\ Len(s) \in Nat
         /\ s # <<>> <=> Len(s) > 0
BY DEF Range

(* Links m are l, which denote s, with f linked in at position p. *)
LinkedIn(m, l, s, p, f) ==
  /\ m.head = IF p = 1 THEN f ELSE l.head
  /\ m.tail = IF p = Len(s) + 1 THEN f ELSE l.tail
  /\ m.next[f] = IF p = Len(s) + 1 THEN Null ELSE s[p]
  /\ m.prev[f] = IF p = 1 THEN Null ELSE s[p - 1]
  /\ \A i \in 1..Len(s) : m.next[s[i]] = IF i = p - 1 THEN f ELSE l.next[s[i]]
  /\ \A i \in 1..Len(s) : m.prev[s[i]] = IF i = p THEN f ELSE l.prev[s[i]]
  /\ \A g \in (Fiber \ Range(s)) \ {f} : m.next[g] = l.next[g] /\ m.prev[g] = l.prev[g]

(* They denote the sequence with f at p. *)
LEMMA ChainLinked ==
  ASSUME NEW l, NEW s \in Seq(Fiber), IsInjective(s), Chain(l, s),
         NEW f \in Fiber \ Range(s), NEW p \in 1..Len(s) + 1,
         NEW r \in Seq(Fiber), IsLink(r, s, p, f), Range(r) = Range(s) \cup {f},
         NEW m, LinkedIn(m, l, s, p, f)
  PROVE  Chain(m, r)
<1> USE DEF LinkedIn
<1>1. /\ Len(s) \in Nat /\ p \in Nat /\ Len(r) = Len(s) + 1 /\ r # <<>>
      /\ \A i \in 1..Len(s) : i < p => r[i] = s[i]
      /\ r[p] = f
      /\ \A i \in 1..Len(s) : i >= p => r[i + 1] = s[i]
  BY DEF IsLink
<1>2. /\ l.head = IF s = <<>> THEN Null ELSE s[1]
      /\ l.tail = IF s = <<>> THEN Null ELSE s[Len(s)]
      /\ \A i \in 1..Len(s) : l.next[s[i]] = IF i = Len(s) THEN Null ELSE s[i + 1]
      /\ \A i \in 1..Len(s) : l.prev[s[i]] = IF i = 1 THEN Null ELSE s[i - 1]
      /\ \A g \in Fiber \ Range(s) : l.next[g] = Null /\ l.prev[g] = Null
  BY Zenon DEF Chain
<1>3. m.head = r[1]
  BY <1>1, <1>2
<1>4. m.tail = r[Len(r)]
  BY <1>1, <1>2
<1>5. ASSUME NEW i \in 1..Len(r)
      PROVE  m.next[r[i]] = IF i = Len(r) THEN Null ELSE r[i + 1]
  <2>1. CASE i < p - 1
    <3>1. i \in 1..Len(s) /\ i + 1 \in 1..Len(s) /\ i < p /\ i + 1 < p
      BY <2>1, <1>1
    <3>3. m.next[s[i]] = s[i + 1]
      BY <2>1, <3>1, <1>1, <1>2
    <3> QED
      BY <3>1, <3>3, <1>1
  <2>2. CASE i = p - 1
    <3>1. i \in 1..Len(s) /\ i < p /\ i + 1 = p /\ i # Len(r)
      BY <2>2, <1>1
    <3>2. r[i] = s[i] /\ m.next[s[i]] = f
      BY <2>2, <3>1, <1>1, Zenon
    <3> QED
      BY <3>1, <3>2, <1>1, Zenon
  <2>3. CASE i = p
    BY <2>3, <1>1
  <2>4. CASE i > p
    <3>0. i - 1 \in 1..Len(s) /\ i = (i - 1) + 1 /\ i - 1 >= p
      BY <2>4, <1>1
    <3>1. PICK j \in 1..Len(s) : i = j + 1 /\ j >= p
      BY <3>0, Zenon
    <3>2. m.next[s[j]] = l.next[s[j]]
      BY <3>1, <1>1
    <3>4. j < Len(s) => r[i + 1] = s[j + 1]
      BY <3>1, <1>1
    <3>5. r[i] = s[j] /\ (i = Len(r) <=> j = Len(s)) /\ (j # Len(s) => j < Len(s))
      BY <3>1, <1>1
    <3>6. l.next[s[j]] = IF j = Len(s) THEN Null ELSE s[j + 1]
      BY <1>2, Zenon
    <3> QED
      BY <3>2, <3>4, <3>5, <3>6, Zenon
  <2> QED
    BY <2>1, <2>2, <2>3, <2>4, <1>1
<1>6. ASSUME NEW i \in 1..Len(r)
      PROVE  m.prev[r[i]] = IF i = 1 THEN Null ELSE r[i - 1]
  <2>1. CASE i < p
    <3>1. i \in 1..Len(s) /\ i # p
      BY <2>1, <1>1
    <3>2. r[i] = s[i] /\ (i > 1 => r[i - 1] = s[i - 1])
      BY <2>1, <3>1, <1>1
    <3> QED
      BY <3>1, <3>2, <1>2
  <2>2. CASE i = p
    BY <2>2, <1>1
  <2>3. CASE i > p
    <3>0. i - 1 \in 1..Len(s) /\ i = (i - 1) + 1 /\ i - 1 >= p
      BY <2>3, <1>1
    <3>1. PICK j \in 1..Len(s) : i = j + 1 /\ j >= p
      BY <3>0, Zenon
    <3>2. r[i] = s[j]
      BY <3>1, <1>1, Zenon
    <3>3. CASE j = p
      <4>1. m.prev[s[j]] = f
        BY <3>3, Zenon
      <4>2. i # 1 /\ i - 1 = p
        BY <3>1, <3>3, <1>1
      <4> QED
        BY <3>2, <4>1, <4>2, <1>1, Zenon
    <3>4. CASE j > p
      <4>1. m.prev[s[j]] = s[j - 1]
        BY <3>4, <1>1, <1>2
      <4>2. r[i - 1] = s[j - 1]
        BY <3>1, <3>4, <1>1
      <4> QED
        BY <3>1, <3>2, <4>1, <4>2
    <3> QED
      BY <3>1, <3>3, <3>4, <1>1
  <2> QED
    BY <2>1, <2>2, <2>3, <1>1
<1>7. \A g \in Fiber \ Range(r) : m.next[g] = Null /\ m.prev[g] = Null
  BY <1>2
<1> QED
  BY <1>1, <1>3, <1>4, <1>5, <1>6, <1>7, Zenon DEF Chain

(* Links m are l, which denote s, with the p-th fiber taken out. *)
TakenOut(m, l, s, p) ==
  /\ m.head = l.head
  /\ m.tail = IF p = Len(s) THEN s[p - 1] ELSE l.tail
  /\ \A i \in 1..Len(s) : m.next[s[i]] = IF i = p - 1 THEN l.next[s[p]] ELSE l.next[s[i]]
  /\ \A i \in 1..Len(s) : m.prev[s[i]] = IF i = p + 1 THEN l.prev[s[p]] ELSE l.prev[s[i]]
  /\ \A g \in Fiber \ Range(s) : m.next[g] = l.next[g] /\ m.prev[g] = l.prev[g]

(* They go around it. *)
LEMMA ChainUnlinked ==
  ASSUME NEW l, NEW s \in Seq(Fiber), IsInjective(s), Chain(l, s), NEW p \in 2..Len(s),
         NEW m, TakenOut(m, l, s, p)
  PROVE  Bypass(m, s, p)
<1> USE DEF TakenOut
<1>1. Len(s) \in Nat /\ p \in Nat /\ s # <<>> /\ p \in 1..Len(s) /\ p # 1
  OBVIOUS
<1>2. /\ l.head = s[1]
      /\ l.tail = s[Len(s)]
      /\ \A i \in 1..Len(s) : l.next[s[i]] = IF i = Len(s) THEN Null ELSE s[i + 1]
      /\ \A i \in 1..Len(s) : l.prev[s[i]] = IF i = 1 THEN Null ELSE s[i - 1]
      /\ \A g \in Fiber \ Range(s) : l.next[g] = Null /\ l.prev[g] = Null
  BY <1>1, Zenon DEF Chain
<1>6. \A g \in Fiber \ Range(s) : m.next[g] = Null /\ m.prev[g] = Null
  BY <1>2, Zenon
<1> QED
  BY <1>6, <1>1, <1>2 DEF Bypass

(* Links m are l, which go around the p-th fiber of s, with that fiber     *)
(* linked in at the head.                                                  *)
PutFirst(m, l, s, p) ==
  /\ m.head = s[p] /\ m.tail = l.tail
  /\ \A i \in 1..Len(s) : m.next[s[i]] = IF i = p THEN l.head ELSE l.next[s[i]]
  /\ \A i \in 1..Len(s) : m.prev[s[i]] = IF i = p THEN Null
                                          ELSE IF i = 1 THEN s[p] ELSE l.prev[s[i]]
  /\ \A g \in Fiber \ Range(s) : m.next[g] = l.next[g] /\ m.prev[g] = l.prev[g]

(* They denote the sequence with it at the head. *)
LEMMA ChainRelinked ==
  ASSUME NEW l, NEW s \in Seq(Fiber), IsInjective(s), NEW p \in 2..Len(s), Bypass(l, s, p),
         NEW r \in Seq(Fiber), IsToHead(r, s, p), Range(r) = Range(s),
         NEW m, PutFirst(m, l, s, p)
  PROVE  Chain(m, r)
<1> USE DEF PutFirst
<1>1. Len(s) \in Nat /\ p \in Nat /\ s # <<>> /\ p \in 1..Len(s) /\ p # 1 /\ 1 \in 1..Len(s)
  OBVIOUS
<1>2. /\ l.head = s[1]
      /\ l.tail = IF p = Len(s) THEN s[p - 1] ELSE s[Len(s)]
      /\ \A i \in 1..Len(s) :
           l.next[s[i]] = LET j == IF i = p - 1 THEN p ELSE i
                          IN  IF j = Len(s) THEN Null ELSE s[j + 1]
      /\ \A i \in 1..Len(s) :
           l.prev[s[i]] = LET j == IF i = p + 1 THEN p ELSE i
                          IN  IF j = 1 THEN Null ELSE s[j - 1]
      /\ \A g \in Fiber \ Range(s) : l.next[g] = Null /\ l.prev[g] = Null
  BY Zenon DEF Bypass
<1>3. /\ Len(r) = Len(s) /\ r # <<>>
      /\ r[1] = s[p]
      /\ \A i \in 1..Len(s) : i < p => r[i + 1] = s[i]
      /\ \A i \in 1..Len(s) : i > p => r[i] = s[i]
  BY <1>1 DEF IsToHead
<1>4. m.head = r[1]
  BY <1>3, Zenon
<1>5. m.tail = r[Len(r)]
  <2>1. CASE p = Len(s)
    <3>1. r[Len(s)] = s[p - 1]
      BY <2>1, <1>1, <1>3
    <3> QED
      BY <2>1, <3>1, <1>2, <1>3, Zenon
  <2>2. CASE p # Len(s)
    BY <2>2, <1>1, <1>2, <1>3
  <2> QED
    BY <2>1, <2>2, Zenon
<1>6. ASSUME NEW i \in 1..Len(r)
      PROVE  m.next[r[i]] = IF i = Len(r) THEN Null ELSE r[i + 1]
  <2>0. i \in 1..Len(s) /\ i \in Nat
    BY <1>3
  <2>1. CASE i = 1
    <3>1. m.next[s[p]] = s[1]
      BY <1>1, <1>2, Zenon
    <3>2. r[2] = s[1] /\ i # Len(r)
      BY <2>1, <1>1, <1>3
    <3> QED
      BY <2>1, <3>1, <3>2, <1>3
  <2>2. CASE 1 < i /\ i < p
    <3>0. i - 1 \in 1..Len(s) /\ i = (i - 1) + 1 /\ i - 1 < p - 1
      BY <2>0, <2>2, <1>1
    <3>1. PICK j \in 1..Len(s) : i = j + 1 /\ j < p - 1
      BY <3>0, Zenon
    <3>a. j # p /\ j # p - 1 /\ j # Len(s)
      BY <3>1, <1>1
    <3>b. m.next[s[j]] = l.next[s[j]]
      BY <3>a, Zenon
    <3>2. m.next[s[j]] = s[j + 1]
      BY <3>a, <3>b, <1>2, Zenon
    <3>c. j + 1 \in 1..Len(s) /\ j < p /\ j + 1 < p /\ i # Len(r)
      BY <3>1, <1>1, <1>3, <2>2
    <3>3. r[i] = s[j] /\ r[i + 1] = s[j + 1] /\ i # Len(r)
      BY <3>1, <3>c, <1>3
    <3> QED
      BY <3>2, <3>3, Zenon
  <2>3. CASE i = p
    <3>1. p - 1 \in 1..Len(s) /\ p - 1 < p /\ p - 1 # p /\ (p - 1) + 1 = p
      BY <1>1
    <3>a. r[(p - 1) + 1] = s[p - 1]
      BY <3>1, <1>3, Zenon
    <3>2. r[p] = s[p - 1]
      BY <3>1, <3>a
    <3>3. m.next[s[p - 1]] = l.next[s[p - 1]]
      BY <3>1, Zenon
    <3>4. l.next[s[p - 1]] = IF p = Len(s) THEN Null ELSE s[p + 1]
      BY <3>1, <1>2
    <3>5. p # Len(s) => r[p + 1] = s[p + 1]
      BY <1>1, <1>3
    <3> QED
      BY <2>3, <3>2, <3>3, <3>4, <3>5, <1>3
  <2>4. CASE i > p
    <3>1. r[i] = s[i] /\ (i # Len(s) => r[i + 1] = s[i + 1])
      BY <2>0, <2>4, <1>1, <1>3
    <3>2. i # p /\ i # p - 1
      BY <2>0, <2>4, <1>1
    <3>3. m.next[s[i]] = l.next[s[i]]
      BY <2>0, <3>2
    <3>4. l.next[s[i]] = IF i = Len(s) THEN Null ELSE s[i + 1]
      BY <2>0, <3>2, <1>2
    <3> QED
      BY <3>1, <3>3, <3>4, <1>3
  <2> QED
    BY <2>0, <2>1, <2>2, <2>3, <2>4, <1>1
<1>7. ASSUME NEW i \in 1..Len(r)
      PROVE  m.prev[r[i]] = IF i = 1 THEN Null ELSE r[i - 1]
  <2>0. i \in 1..Len(s) /\ i \in Nat
    BY <1>3
  <2>1. CASE i = 1
    BY <2>1, <1>1, <1>3
  <2>2. CASE 1 < i /\ i <= p
    <3>0. i - 1 \in 1..Len(s) /\ i = (i - 1) + 1 /\ i - 1 < p
      BY <2>0, <2>2, <1>1
    <3>1. PICK j \in 1..Len(s) : i = j + 1 /\ j < p
      BY <3>0, Zenon
    <3>2. r[i] = s[j] /\ j # p /\ j # p + 1
      BY <3>1, <1>1, <1>3
    <3>3. CASE j = 1
      <4>1. m.prev[s[j]] = s[p]
        BY <3>2, <3>3
      <4>2. i - 1 = 1 /\ i # 1
        BY <3>1, <3>3
      <4> QED
        BY <3>2, <4>1, <4>2, <1>3
    <3>4. CASE j # 1
      <4>1. m.prev[s[j]] = l.prev[s[j]]
        BY <3>2, <3>4, Zenon
      <4>2. l.prev[s[j]] = s[j - 1]
        BY <3>2, <3>4, <1>2, Zenon
      <4>3. r[i - 1] = s[j - 1] /\ i # 1
        BY <3>1, <3>4, <1>1, <1>3
      <4> QED
        BY <3>2, <4>1, <4>2, <4>3
    <3> QED
      BY <3>3, <3>4
  <2>3. CASE i = p + 1
    <3>1. r[i] = s[i] /\ i # p /\ i # 1 /\ i - 1 = p
      BY <2>0, <2>3, <1>1, <1>3
    <3>2. m.prev[s[i]] = l.prev[s[i]]
      BY <2>0, <3>1
    <3>3. l.prev[s[i]] = s[p - 1]
      BY <2>0, <2>3, <1>1, <1>2
    <3>4. r[p] = s[p - 1]
      BY <1>1, <1>3
    <3> QED
      BY <3>1, <3>2, <3>3, <3>4
  <2>4. CASE i > p + 1
    <3>1. r[i] = s[i] /\ i # p /\ i # 1 /\ i # p + 1 /\ r[i - 1] = s[i - 1]
      BY <2>0, <2>4, <1>1, <1>3
    <3>3. l.prev[s[i]] = s[i - 1]
      BY <2>0, <3>1, <1>2, Zenon
    <3> QED
      BY <3>1, <3>3, <2>0
  <2> QED
    BY <2>0, <2>1, <2>2, <2>3, <2>4, <1>1
<1>8. \A g \in Fiber \ Range(r) : m.next[g] = Null /\ m.prev[g] = Null
  BY <1>2
<1> QED
  BY <1>3, <1>4, <1>5, <1>6, <1>7, <1>8, Zenon DEF Chain

(* Links m are l, which denote s, without the head of s. *)
HeadOut(m, l, s) ==
  /\ m.head = l.next[s[1]]
  /\ m.tail = IF Len(s) = 1 THEN Null ELSE l.tail
  /\ m.next[s[1]] = Null /\ m.prev[s[1]] = Null
  /\ \A i \in 2..Len(s) : m.next[s[i]] = l.next[s[i]]
  /\ \A i \in 2..Len(s) : m.prev[s[i]] = IF i = 2 THEN Null ELSE l.prev[s[i]]
  /\ \A g \in Fiber \ Range(s) : m.next[g] = l.next[g] /\ m.prev[g] = l.prev[g]

(* They denote the rest. *)
LEMMA ChainPopped ==
  ASSUME NEW l, NEW s \in Seq(Fiber), IsInjective(s), Chain(l, s), s # <<>>,
         NEW r \in Seq(Fiber), Len(r) = Len(s) - 1, \A i \in 1..Len(r) : r[i] = s[i + 1],
         Range(s) = Range(r) \cup {s[1]},
         NEW m, HeadOut(m, l, s)
  PROVE  Chain(m, r)
<1> USE DEF HeadOut
<1>1. Len(s) \in Nat /\ Len(s) > 0 /\ 1 \in 1..Len(s) /\ Len(r) \in Nat /\ (r = <<>> <=> Len(s) = 1)
  OBVIOUS
<1>2. /\ l.tail = s[Len(s)]
      /\ \A i \in 1..Len(s) : l.next[s[i]] = IF i = Len(s) THEN Null ELSE s[i + 1]
      /\ \A i \in 1..Len(s) : l.prev[s[i]] = IF i = 1 THEN Null ELSE s[i - 1]
      /\ \A g \in Fiber \ Range(s) : l.next[g] = Null /\ l.prev[g] = Null
  BY Zenon DEF Chain
<1>5. ASSUME NEW i \in 1..Len(r)
      PROVE  /\ m.next[r[i]] = IF i = Len(r) THEN Null ELSE r[i + 1]
             /\ m.prev[r[i]] = IF i = 1 THEN Null ELSE r[i - 1]
  <2>1. PICK j \in 2..Len(s) : j = i + 1
    BY <1>1
  <2>2. j \in 1..Len(s) /\ r[i] = s[j] /\ j # 1
    BY <2>1
  <2>3. m.next[s[j]] = IF j = Len(s) THEN Null ELSE s[j + 1]
    BY <2>2, <1>2
  <2>4. m.prev[s[j]] = IF j = 2 THEN Null ELSE s[j - 1]
    BY <2>2, <1>2
  <2>5. i # Len(r) => r[i + 1] = s[j + 1]
    BY <2>1, <1>1
  <2>6. i # 1 => r[i - 1] = s[j - 1]
    BY <2>1, <1>1
  <2>7. m.next[r[i]] = IF i = Len(r) THEN Null ELSE r[i + 1]
    BY <2>1, <2>2, <2>3, <2>5, <1>1
  <2>8. m.prev[r[i]] = IF i = 1 THEN Null ELSE r[i - 1]
    BY <2>1, <2>2, <2>4, <2>6, <1>1
  <2> QED
    BY <2>7, <2>8, Zenon
<1>6. \A g \in Fiber \ Range(r) : m.next[g] = Null /\ m.prev[g] = Null
  BY <1>2
<1> QED
  BY <1>5, <1>6, <1>1, <1>2 DEF Chain

-----------------------------------------------------------------------------
(* The stores of push() and move_to_run(), link by link. *)
LEMMA FrontLinks ==
  ASSUME L \in Links, NEW f \in Fiber, L.head \in Fiber
  PROVE  /\ AtFront(f) \in Links
         /\ AtFront(f).head = f /\ AtFront(f).tail = L.tail /\ AtFront(f).in = L.in
         /\ AtFront(f).next = [L.next EXCEPT ![f] = L.head]
         /\ AtFront(f).prev = [L.prev EXCEPT ![L.head] = f]
BY Zenon DEF Links, Pointer, AtFront

LEMMA BackLinks ==
  ASSUME L \in Links, NEW f \in Fiber, L.tail \in Fiber
  PROVE  /\ AtBack(f) \in Links
         /\ AtBack(f).head = L.head /\ AtBack(f).tail = f /\ AtBack(f).in = L.in
         /\ AtBack(f).next = [L.next EXCEPT ![L.tail] = f]
         /\ AtBack(f).prev = [L.prev EXCEPT ![f] = L.tail]
BY Zenon DEF Links, Pointer, AtBack

LEMMA BetweenLinks ==
  ASSUME L \in Links, NEW f \in Fiber, loop.cur \in Fiber, loop.other \in Fiber,
         f # loop.cur, f # loop.other
  PROVE  /\ Between(f) \in Links
         /\ Between(f).head = L.head /\ Between(f).tail = L.tail /\ Between(f).in = L.in
         /\ Between(f).next = [L.next EXCEPT ![f] = loop.cur, ![loop.other] = f]
         /\ Between(f).prev = [L.prev EXCEPT ![loop.cur] = f, ![f] = loop.other]
BY Zenon DEF Links, Pointer, Between

LEMMA Alone ==
  ASSUME Remote = {}
  PROVE  Thread = {Owner}
BY Zenon DEF Thread

(* push() returns with its item linked in at position p. *)
LEMMA PushedStays ==
  ASSUME Remote = {}, LinkedInv, pc[Owner] \in {"push", "walk"},
         NEW f, f = item[Owner],
         NEW p, p = PushPosition(q, f, st, tp),
         NEW m \in Links, m.in = L.in, LinkedIn(m, L, q, p, f),
         Pushed(m)
  PROVE  LinkedInv'
<1>1. /\ LinkType /\ Chain(L, q) /\ f \in Fiber \ Range(q) /\ L.in = Range(q) \cup {f}
      /\ Ordered(q, st, tp) /\ ~loop.fetch
  BY Zenon DEF LinkedInv, LinksInv, OrderInv, ScanInv
<1>2. q \in Seq(Fiber) /\ IsInjective(q) /\ tp \in [Fiber -> 0..TPMax]
  BY <1>1, Zenon DEF LinkType
<1>3. /\ L' = m /\ pc' = [pc EXCEPT ![Owner] = "idle"] /\ q' = Push(q, f, st, tp)
      /\ UNCHANGED <<st, tp, now, item, loop>>
  BY Zenon DEF Pushed, Goto
<1>4. pc'[Owner] = "idle" /\ pc' \in [Thread -> Place]
  BY <1>1, <1>3, Alone, Zenon DEF LinkType, Place
<1>5. /\ q' \in Seq(Fiber) /\ Range(q') = Range(q) \cup {f} /\ IsInjective(q')
      /\ Ordered(q', st, tp)
  BY <1>1, <1>2, <1>3, PushKeeps
<1>6. p \in 1..Len(q) + 1
  BY <1>1, <1>2, PushPositionFits, Zenon
<1>8. IsLink(q', q, p, f)
  BY <1>1, <1>2, <1>6, LinkElements, <1>3, Zenon DEF Push
<1>9. Chain(m, q')
  BY <1>1, <1>2, <1>5, <1>6, <1>8, ChainLinked, Zenon
<1>10. LinkType'
  BY <1>1, <1>3, <1>4, <1>5, Zenon DEF LinkType
<1>11. LinksInv'
  BY <1>1, <1>3, <1>4, <1>5, <1>9, Zenon DEF LinksInv
<1>12. WalkInv' /\ ScanInv'
  BY <1>1, <1>3, <1>4, Zenon DEF WalkInv, ScanInv
<1>13. OrderInv'
  BY <1>3, <1>4, <1>5, Zenon DEF OrderInv
<1> QED
  BY <1>10, <1>11, <1>12, <1>13, Zenon DEF LinkedInv

(* What push() finds before its loop and in it. *)
LEMMA PushFacts ==
  ASSUME LinkedInv, pc[Owner] \in {"push", "walk"}
  PROVE  /\ L \in Links /\ Chain(L, q) /\ q \in Seq(Fiber) /\ IsInjective(q)
         /\ st \in [Fiber -> {"READY", "WAITING"}] /\ tp \in [Fiber -> 0..TPMax]
         /\ Ordered(q, st, tp) /\ item[Owner] \in Fiber \ Range(q)
         /\ L.next[item[Owner]] = Null /\ L.prev[item[Owner]] = Null
         /\ L.head = Null <=> q = <<>>
         /\ q # <<>> => /\ L.head = q[1] /\ L.tail = q[Len(q)]
                        /\ L.head \in Fiber /\ L.tail \in Fiber
<1>1. /\ L \in Links /\ Chain(L, q) /\ q \in Seq(Fiber) /\ IsInjective(q)
      /\ st \in [Fiber -> {"READY", "WAITING"}] /\ tp \in [Fiber -> 0..TPMax]
      /\ Ordered(q, st, tp) /\ item[Owner] \in Fiber \ Range(q)
  BY Zenon DEF LinkedInv, LinkType, LinksInv, OrderInv
<1>2. q # <<>> => 1 \in 1..Len(q) /\ Len(q) \in 1..Len(q)
  BY <1>1
<1>3. q # <<>> => q[1] \in Fiber /\ q[Len(q)] \in Fiber
  BY <1>1, <1>2
<1> QED
  BY <1>1, <1>3 DEF Chain

(* The links of a fiber at the head, at the tail and between two. *)
LEMMA FrontLinked ==
  ASSUME LinkedInv, pc[Owner] \in {"push", "walk"}, NEW f, f = item[Owner], q # <<>>
  PROVE  LinkedIn(AtFront(f), L, q, 1, f) /\ AtFront(f) \in Links /\ AtFront(f).in = L.in
<1>1. /\ L \in Links /\ q \in Seq(Fiber) /\ IsInjective(q) /\ f \in Fiber \ Range(q)
      /\ L.prev[f] = Null /\ L.head = q[1] /\ L.head \in Fiber /\ Len(q) \in Nat /\ Len(q) > 0
  BY PushFacts, InQueue, Zenon
<1>2. L.next \in [Fiber -> Pointer] /\ L.prev \in [Fiber -> Pointer]
  BY <1>1, Zenon DEF Links
<1>3. \A i \in 1..Len(q) : q[i] \in Fiber /\ q[i] # f /\ (q[i] = q[1] => i = 1)
  BY <1>1, InQueue, OnePosition
<1>4. \A g \in Fiber : AtFront(f).next[g] = IF g = f THEN q[1] ELSE L.next[g]
  BY <1>1, <1>2, FrontLinks, ZenonT(40)
<1>d. AtFront(f).prev = [L.prev EXCEPT ![q[1]] = f] /\ q[1] \in Fiber
  BY <1>1, FrontLinks, Zenon
<1>5. \A g \in Fiber : AtFront(f).prev[g] = IF g = q[1] THEN f ELSE L.prev[g]
  BY <1>2, <1>d, Zenon
<1>6. AtFront(f).head = f /\ AtFront(f).tail = L.tail
  BY <1>1, FrontLinks, Zenon
<1>7. q[1] \in Range(q)
  BY <1>1, InQueue
<1>a. AtFront(f).next[f] = q[1] /\ AtFront(f).prev[f] = Null /\ 1 # Len(q) + 1
  BY <1>1, <1>4, <1>5, <1>7
<1>b. \A i \in 1..Len(q) : /\ AtFront(f).next[q[i]] = L.next[q[i]] /\ i # 1 - 1
                           /\ AtFront(f).prev[q[i]] = IF i = 1 THEN f ELSE L.prev[q[i]]
  BY <1>3, <1>4, <1>5
<1>c. \A g \in (Fiber \ Range(q)) \ {f} :
        AtFront(f).next[g] = L.next[g] /\ AtFront(f).prev[g] = L.prev[g]
  BY <1>1, <1>4, <1>5, <1>7
<1>8. LinkedIn(AtFront(f), L, q, 1, f)
  BY <1>6, <1>a, <1>b, <1>c, Zenon DEF LinkedIn
<1> QED
  BY <1>1, <1>8, FrontLinks, Zenon

LEMMA BackLinked ==
  ASSUME LinkedInv, pc[Owner] \in {"push", "walk"}, NEW f, f = item[Owner], q # <<>>
  PROVE  /\ LinkedIn(AtBack(f), L, q, Len(q) + 1, f)
         /\ AtBack(f) \in Links /\ AtBack(f).in = L.in
<1>1. /\ L \in Links /\ q \in Seq(Fiber) /\ IsInjective(q) /\ f \in Fiber \ Range(q)
      /\ L.next[f] = Null /\ L.tail = q[Len(q)] /\ L.tail \in Fiber /\ Len(q) \in Nat /\ Len(q) > 0
  BY PushFacts, InQueue, Zenon
<1>2. L.next \in [Fiber -> Pointer] /\ L.prev \in [Fiber -> Pointer]
  BY <1>1, Zenon DEF Links
<1>3. \A i \in 1..Len(q) : q[i] \in Fiber /\ q[i] # f /\ (q[i] = q[Len(q)] => i = Len(q))
  BY <1>1, InQueue, OnePosition
<1>d. AtBack(f).next = [L.next EXCEPT ![q[Len(q)]] = f] /\ q[Len(q)] \in Fiber
  BY <1>1, BackLinks, Zenon
<1>4. \A g \in Fiber : AtBack(f).next[g] = IF g = q[Len(q)] THEN f ELSE L.next[g]
  BY <1>2, <1>d, Zenon
<1>5. \A g \in Fiber : AtBack(f).prev[g] = IF g = f THEN q[Len(q)] ELSE L.prev[g]
  BY <1>1, <1>2, BackLinks, ZenonT(40)
<1>6. AtBack(f).head = L.head /\ AtBack(f).tail = f
  BY <1>1, BackLinks, Zenon
<1>7. q[Len(q)] \in Range(q)
  BY <1>1, InQueue
<1>a. /\ AtBack(f).next[f] = Null /\ AtBack(f).prev[f] = q[Len(q)]
      /\ Len(q) + 1 # 1 /\ (Len(q) + 1) - 1 = Len(q)
  BY <1>1, <1>4, <1>5, <1>7
<1>b. \A i \in 1..Len(q) : /\ AtBack(f).next[q[i]] = IF i = Len(q) THEN f ELSE L.next[q[i]]
                           /\ AtBack(f).prev[q[i]] = L.prev[q[i]] /\ i # Len(q) + 1
  BY <1>1, <1>3, <1>4, <1>5
<1>c. \A g \in (Fiber \ Range(q)) \ {f} :
        AtBack(f).next[g] = L.next[g] /\ AtBack(f).prev[g] = L.prev[g]
  BY <1>1, <1>4, <1>5, <1>7, Zenon
<1>8. LinkedIn(AtBack(f), L, q, Len(q) + 1, f)
  BY <1>6, <1>a, <1>b, <1>c, Zenon DEF LinkedIn
<1> QED
  BY <1>1, <1>8, BackLinks, Zenon

LEMMA BetweenLinked ==
  ASSUME LinkedInv, pc[Owner] \in {"push", "walk"}, NEW f, f = item[Owner],
         NEW p \in 2..Len(q), loop.cur = q[p], loop.other = q[p - 1]
  PROVE  LinkedIn(Between(f), L, q, p, f) /\ Between(f) \in Links /\ Between(f).in = L.in
<1>1. /\ L \in Links /\ q \in Seq(Fiber) /\ IsInjective(q) /\ f \in Fiber \ Range(q)
      /\ Len(q) \in Nat /\ p \in 1..Len(q) /\ p - 1 \in 1..Len(q) /\ p # 1 /\ p # Len(q) + 1
  BY PushFacts, InQueue
<1>2. L.next \in [Fiber -> Pointer] /\ L.prev \in [Fiber -> Pointer]
  BY <1>1, Zenon DEF Links
<1>3. \A i \in 1..Len(q) : /\ q[i] \in Fiber /\ q[i] # f /\ q[i] \in Range(q)
                           /\ q[i] = q[p] => i = p
                           /\ q[i] = q[p - 1] => i = p - 1
  BY <1>1, InQueue, OnePosition
<1>4. loop.cur \in Fiber /\ loop.other \in Fiber /\ f # loop.cur /\ f # loop.other
  BY <1>1, <1>3, Zenon
<1>a. /\ Between(f).next = [L.next EXCEPT ![f] = q[p], ![q[p - 1]] = f]
      /\ Between(f).prev = [L.prev EXCEPT ![q[p]] = f, ![f] = q[p - 1]]
  BY <1>1, <1>4, BetweenLinks, Zenon
<1>b. q[p] \in Fiber /\ q[p - 1] \in Fiber
  BY <1>1, <1>3, Zenon
<1>5. \A g \in Fiber : Between(f).next[g] = IF g = q[p - 1] THEN f ELSE IF g = f THEN q[p] ELSE L.next[g]
  BY <1>1, <1>2, <1>a, <1>b, Zenon
<1>6. \A g \in Fiber : Between(f).prev[g] = IF g = f THEN q[p - 1] ELSE IF g = q[p] THEN f ELSE L.prev[g]
  BY <1>1, <1>2, <1>a, <1>b, Zenon
<1>7. Between(f).head = L.head /\ Between(f).tail = L.tail
  BY <1>1, <1>4, BetweenLinks, Zenon
<1>8. LinkedIn(Between(f), L, q, p, f)
  BY <1>1, <1>3, <1>5, <1>6, <1>7 DEF LinkedIn
<1> QED
  BY <1>1, <1>4, <1>8, BetweenLinks, Zenon

(* The cases push() decides before its loop, and the start of the loop. *)
LEMMA PushDecideStays ==
  ASSUME Remote = {}, LinkedInv, PushDecide
  PROVE  LinkedInv'
<1>1. PICK f : f = item[Owner]
  BY Zenon
<1>2. pc[Owner] = "push" /\ (PushFirst(f) \/ PushFront(f) \/ PushBack(f) \/ PushLoop(f))
  BY <1>1, Zenon DEF PushDecide
<1>3. /\ L \in Links /\ Chain(L, q) /\ q \in Seq(Fiber) /\ IsInjective(q)
      /\ st \in [Fiber -> {"READY", "WAITING"}] /\ tp \in [Fiber -> 0..TPMax]
      /\ Ordered(q, st, tp) /\ f \in Fiber \ Range(q)
      /\ L.next[f] = Null /\ L.prev[f] = Null
      /\ L.head = Null <=> q = <<>>
      /\ Len(q) \in Nat
  BY <1>1, <1>2, PushFacts, InQueue, Zenon
<1>4. CASE PushFirst(f)
  <2>1. q = <<>> /\ Len(q) = 0 /\ Len(q) + 1 = 1
    BY <1>3, <1>4 DEF PushFirst
  <2>2. PushPosition(q, f, st, tp) = 1
    <3>1. PushPosition(q, f, st, tp) \in 1..Len(q) + 1
      BY <1>3, PushPositionFits, Zenon
    <3> QED
      BY <2>1, <3>1
  <2>3. PICK m : m = [L EXCEPT !.head = f, !.tail = f]
    BY Zenon
  <2>4. /\ m \in Links /\ m.head = f /\ m.tail = f /\ m.in = L.in
        /\ m.next = L.next /\ m.prev = L.prev
    BY <1>3, <2>3, Zenon DEF Links, Pointer
  <2>5. LinkedIn(m, L, q, 1, f)
    BY <1>3, <2>1, <2>4 DEF LinkedIn
  <2>6. Pushed(m)
    BY <1>4, <2>3, Zenon DEF PushFirst
  <2> QED
    BY <1>1, <1>2, <2>2, <2>4, <2>5, <2>6, PushedStays, Zenon
<1>5. CASE PushFront(f)
  <2>1. q # <<>> /\ PushPosition(q, f, st, tp) = 1 /\ Pushed(AtFront(f))
    BY <1>3, <1>5, Zenon DEF PushFront, PushPosition
  <2>2. LinkedIn(AtFront(f), L, q, 1, f) /\ AtFront(f) \in Links /\ AtFront(f).in = L.in
    BY <1>1, <1>2, <2>1, FrontLinked, Zenon
  <2>3. PICK m : m = AtFront(f)
    BY Zenon
  <2> QED
    BY <1>1, <1>2, <2>1, <2>2, <2>3, PushedStays, Zenon
<1>6. CASE PushBack(f)
  <2>1. q # <<>> /\ PushPosition(q, f, st, tp) = Len(q) + 1 /\ Pushed(AtBack(f))
    BY <1>3, <1>6, Zenon DEF PushBack, PushPosition
  <2>2. /\ LinkedIn(AtBack(f), L, q, Len(q) + 1, f)
        /\ AtBack(f) \in Links /\ AtBack(f).in = L.in
    BY <1>1, <1>2, <2>1, BackLinked, Zenon
  <2>3. PICK m : m = AtBack(f)
    BY Zenon
  <2>4. PICK p : p = Len(q) + 1
    BY Zenon
  <2> QED
    BY <1>1, <1>2, <2>1, <2>2, <2>3, <2>4, PushedStays, Zenon
<1>7. CASE PushLoop(f)
  <2>1. /\ q # <<>> /\ st[f] # "READY" /\ tp[f] # TPMax
        /\ loop' = [loop EXCEPT !.cur = L.head, !.other = Null]
        /\ pc' = [pc EXCEPT ![Owner] = "walk"]
        /\ UNCHANGED <<L, st, tp, now, item, q>>
    BY <1>3, <1>7, Zenon DEF PushLoop, Goto
  <2>2. LinkType /\ LinksInv /\ ~loop.fetch /\ L.head = q[1] /\ L.head \in Fiber
    BY <1>2, <2>1, PushFacts, Zenon DEF LinkedInv, ScanInv
  <2>3. pc'[Owner] = "walk" /\ pc' \in [Thread -> Place]
    BY <2>1, <2>2, Alone, Zenon DEF LinkType, Place
  <2>4. /\ loop' \in [cur : Pointer, other : Pointer, fetch : BOOLEAN]
        /\ loop'.cur = q[1] /\ loop'.other = Null /\ ~loop'.fetch
    BY <2>1, <2>2, Zenon DEF LinkType, Pointer
  <2>5. LinkType'
    BY <2>1, <2>2, <2>3, <2>4, Zenon DEF LinkType
  <2>6. LinksInv'
    BY <1>2, <2>1, <2>2, <2>3, Zenon DEF LinksInv
  <2>7. 1 \in 1..Len(q) /\ Passed(f, 1)'
    BY <1>3, <2>1 DEF Passed
  <2>8. WalkInv'
    BY <1>1, <2>1, <2>3, <2>4, <2>7, Zenon DEF WalkInv
  <2>9. ScanInv'
    BY <2>3, <2>4, Zenon DEF ScanInv
  <2>10. OrderInv'
    BY <1>3, <2>1, <2>3, Zenon DEF OrderInv
  <2> QED
    BY <2>5, <2>6, <2>8, <2>9, <2>10, Zenon DEF LinkedInv
<1> QED
  BY <1>2, <1>4, <1>5, <1>6, <1>7, Zenon

(* Where push() links its item is where its loop stops. *)
LEMMA WalkPosition ==
  ASSUME NEW s \in Seq(Fiber), NEW f, NEW i \in 1..Len(s) + 1,
         st[f] # "READY", tp[f] # TPMax,
         \A j \in 1..(i - 1) : ~(st[s[j]] # "READY" /\ tp[f] <= tp[s[j]]),
         i <= Len(s) => st[s[i]] # "READY" /\ tp[f] <= tp[s[i]]
  PROVE  PushPosition(s, f, st, tp) = i
<1> DEFINE D == {j \in 1..Len(s) : st[s[j]] # "READY" /\ tp[f] <= tp[s[j]]} \cup {Len(s) + 1}
<1>1. Len(s) \in Nat /\ i \in Nat
  OBVIOUS
<1>2. D \in SUBSET Nat /\ D # {} /\ i \in D
  BY <1>1
<1>3. \A j \in D : j >= i
  BY <1>1
<1>4. PushPosition(s, f, st, tp) = Min(D)
  BY Zenon DEF PushPosition, DeadlinePosition
<1> HIDE DEF D
<1>5. Min(D) \in D /\ Min(D) <= i
  BY <1>2, MinNat, Zenon
<1>6. Min(D) \in Nat /\ Min(D) >= i
  BY <1>2, <1>3, <1>5, Zenon
<1> QED
  BY <1>1, <1>4, <1>5, <1>6

(* One turn of the loop of push(). *)
LEMMA PushWalkStays ==
  ASSUME Remote = {}, LinkedInv, PushWalk
  PROVE  LinkedInv'
<1>1. PICK f : f = item[Owner]
  BY Zenon
<1>2. pc[Owner] = "walk" /\ (WalkLinks(f) \/ WalkEnds(f) \/ WalkOn(f))
  BY <1>1, Zenon DEF PushWalk
<1>3. /\ L \in Links /\ Chain(L, q) /\ q \in Seq(Fiber) /\ IsInjective(q)
      /\ st \in [Fiber -> {"READY", "WAITING"}] /\ tp \in [Fiber -> 0..TPMax]
      /\ Ordered(q, st, tp) /\ f \in Fiber \ Range(q)
      /\ Len(q) \in Nat
  BY <1>1, <1>2, PushFacts, InQueue, Zenon
<1>4. /\ st[f] # "READY" /\ tp[f] # TPMax
      /\ \E i \in 1..Len(q) :
           /\ loop.cur = q[i] /\ loop.other = IF i = 1 THEN Null ELSE q[i - 1]
           /\ Passed(f, i)
  BY <1>1, <1>2, Zenon DEF LinkedInv, WalkInv
<1>5. PICK i \in 1..Len(q) :
           /\ loop.cur = q[i] /\ loop.other = IF i = 1 THEN Null ELSE q[i - 1]
           /\ Passed(f, i)
  BY <1>4, Zenon
<1>6. /\ q # <<>> /\ L.head = q[1] /\ L.tail = q[Len(q)]
      /\ i # 1 => q[i - 1] \in Fiber
      /\ L.head = q[i] <=> i = 1
      /\ L.tail = q[i] <=> i = Len(q)
  <2>1. q # <<>> /\ L.head = q[1] /\ L.tail = q[Len(q)]
    BY <1>2, <1>3, PushFacts
  <2>2. 1 \in 1..Len(q) /\ Len(q) \in 1..Len(q) /\ (i # 1 => i - 1 \in 1..Len(q))
    BY <1>3
  <2> QED
    BY <1>3, <2>1, <2>2, InQueue, OnePosition
<1>7. CASE WalkLinks(f)
  <2>1. st[q[i]] # "READY" /\ tp[f] <= tp[q[i]]
    BY <1>5, <1>7, Zenon DEF WalkLinks, GoesBefore
  <2>2. PushPosition(q, f, st, tp) = i
    <3>1. i \in 1..Len(q) + 1
      BY <1>3
    <3> QED
      BY <1>3, <1>4, <1>5, <2>1, <3>1, WalkPosition, Zenon DEF Passed
  <2>3. CASE i = 1
    <3>1. Pushed(AtFront(f))
      <4>1. loop.other = Null /\ L.head = loop.cur
        BY <1>5, <1>6, <2>3, Zenon
      <4> QED
        BY <1>7, <4>1, Zenon DEF WalkLinks
    <3>2. LinkedIn(AtFront(f), L, q, 1, f) /\ AtFront(f) \in Links /\ AtFront(f).in = L.in
      BY <1>1, <1>2, <1>6, FrontLinked, Zenon
    <3>3. PICK m : m = AtFront(f)
      BY Zenon
    <3> QED
      BY <1>1, <1>2, <2>2, <2>3, <3>1, <3>2, <3>3, PushedStays, Zenon
  <2>4. CASE i # 1
    <3>1. loop.other = q[i - 1] /\ loop.other # Null /\ L.head # loop.cur
      BY <1>5, <1>6, <2>4, Zenon
    <3>2. Pushed(Between(f))
      BY <1>7, <3>1, Zenon DEF WalkLinks
    <3>3. i \in 2..Len(q)
      BY <1>3, <2>4
    <3>4. LinkedIn(Between(f), L, q, i, f) /\ Between(f) \in Links /\ Between(f).in = L.in
      BY <1>1, <1>2, <1>5, <3>1, <3>3, BetweenLinked, Zenon
    <3>5. PICK m : m = Between(f)
      BY Zenon
    <3> QED
      BY <1>1, <1>2, <2>2, <3>2, <3>4, <3>5, PushedStays, Zenon
  <2> QED
    BY <2>3, <2>4, Zenon
<1>8. CASE WalkEnds(f)
  <2>1. i = Len(q) /\ ~(st[q[i]] # "READY" /\ tp[f] <= tp[q[i]]) /\ Pushed(AtBack(f))
    <3>1. i = Len(q) /\ ~GoesBefore(f)
      BY <1>5, <1>6, <1>8, Zenon DEF WalkEnds
    <3>2. L.next[loop.cur] = Null
      BY <1>3, <1>5, <3>1, Zenon DEF Chain
    <3> QED
      BY <1>5, <1>8, <3>1, <3>2, Zenon DEF WalkEnds, GoesBefore
  <2>2. Len(q) + 1 \in 1..Len(q) + 1 /\ ~(Len(q) + 1 <= Len(q)) /\ (Len(q) + 1) - 1 = Len(q)
    BY <1>3
  <2>3. \A j \in 1..Len(q) : ~(st[q[j]] # "READY" /\ tp[f] <= tp[q[j]])
    BY <2>1, <1>5, <1>3 DEF Passed
  <2>4. PICK p : p = Len(q) + 1
    BY Zenon
  <2>5. PushPosition(q, f, st, tp) = p
    BY <1>3, <1>4, <2>2, <2>3, <2>4, WalkPosition, Zenon
  <2>6. /\ LinkedIn(AtBack(f), L, q, Len(q) + 1, f)
        /\ AtBack(f) \in Links /\ AtBack(f).in = L.in
    BY <1>1, <1>2, <1>6, BackLinked, Zenon
  <2>7. PICK m : m = AtBack(f)
    BY Zenon
  <2> QED
    BY <1>1, <1>2, <2>1, <2>4, <2>5, <2>6, <2>7, PushedStays, Zenon
<1>9. CASE WalkOn(f)
  <2>1. /\ ~(st[q[i]] # "READY" /\ tp[f] <= tp[q[i]])
        /\ i # Len(q)
        /\ loop' = [loop EXCEPT !.other = loop.cur, !.cur = L.next[loop.cur]]
        /\ pc' = [pc EXCEPT ![Owner] = IF L.next[loop.cur] = Null THEN "idle" ELSE "walk"]
        /\ UNCHANGED <<L, st, tp, now, item, q>>
    BY <1>5, <1>6, <1>9, Zenon DEF WalkOn, GoesBefore, Goto
  <2>2. i + 1 \in 1..Len(q) /\ i + 1 # 1 /\ (i + 1) - 1 = i
    BY <1>3, <2>1
  <2>3. L.next[loop.cur] = q[i + 1] /\ q[i + 1] \in Fiber /\ q[i + 1] # Null /\ q[i] \in Fiber
    BY <1>3, <1>5, <2>1, <2>2, InQueue, Zenon DEF Chain
  <2>4. LinkType /\ LinksInv /\ ~loop.fetch
    BY <1>2, Zenon DEF LinkedInv, ScanInv
  <2>5. pc'[Owner] = "walk" /\ pc' \in [Thread -> Place]
    BY <2>1, <2>3, <2>4, Alone, Zenon DEF LinkType, Place
  <2>6. /\ loop' \in [cur : Pointer, other : Pointer, fetch : BOOLEAN]
        /\ loop'.cur = q[i + 1] /\ loop'.other = q[i] /\ ~loop'.fetch
    BY <1>5, <2>1, <2>3, <2>4, Zenon DEF LinkType, Pointer
  <2>7. LinkType'
    BY <2>1, <2>4, <2>5, <2>6, Zenon DEF LinkType
  <2>8. LinksInv'
    BY <1>2, <2>1, <2>4, <2>5, Zenon DEF LinksInv
  <2>9. Passed(f, i + 1)'
    <3>1. \A j \in 1..(i - 1) : ~(st[q[j]] # "READY" /\ tp[f] <= tp[q[j]])
      BY <1>5, Zenon DEF Passed
    <3>2. \A j \in 1..((i + 1) - 1) : j \in 1..(i - 1) \/ j = i
      BY <1>3
    <3> QED
      BY <2>1, <3>1, <3>2, Zenon DEF Passed
  <2>10. WalkInv'
    BY <1>1, <1>4, <2>1, <2>2, <2>5, <2>6, <2>9, Zenon DEF WalkInv
  <2>11. ScanInv'
    BY <2>5, <2>6, Zenon DEF ScanInv
  <2>12. OrderInv'
    BY <1>3, <2>1, <2>5, Zenon DEF OrderInv
  <2> QED
    BY <2>7, <2>8, <2>10, <2>11, <2>12, Zenon DEF LinkedInv
<1> QED
  BY <1>2, <1>7, <1>8, <1>9, Zenon

(* attach() at the start of push() finds no links. *)
LEMMA PushCallStays ==
  ASSUME Remote = {}, LinkedInv, NEW f \in Fiber, NEW s \in {"READY", "WAITING"},
         NEW d \in Deadline, PushCall(f, s, d)
  PROVE  LinkedInv'
<1>1. /\ pc[Owner] = "idle" /\ LinkType /\ Chain(L, q) /\ L.in = Range(q) /\ f \notin L.in
      /\ Ordered(q, st, tp) /\ ~loop.fetch
  BY Zenon DEF PushCall, LinkedInv, LinksInv, OrderInv, ScanInv
<1>3. /\ st' = [st EXCEPT ![f] = s] /\ tp' = [tp EXCEPT ![f] = d]
      /\ L' = [L EXCEPT !.in = @ \cup {f}]
      /\ item' = [item EXCEPT ![Owner] = f] /\ pc' = [pc EXCEPT ![Owner] = "push"]
      /\ UNCHANGED <<now, loop, q>>
  BY <1>1, Zenon DEF PushCall, Goto, Chain
<1>4. /\ L' \in Links /\ L'.in = L.in \cup {f} /\ L'.head = L.head /\ L'.tail = L.tail
      /\ L'.next = L.next /\ L'.prev = L.prev
  BY <1>1, <1>3, Zenon DEF LinkType, Links
<1>5. /\ pc'[Owner] = "push" /\ pc' \in [Thread -> Place]
      /\ item'[Owner] = f /\ item' \in [Thread -> Pointer]
  BY <1>1, <1>3, Alone, Zenon DEF LinkType, Place, Pointer
<1>8. LinkType'
  BY <1>1, <1>3, <1>4, <1>5, Zenon DEF LinkType
<1>10. LinksInv'
  BY <1>1, <1>3, <1>4, <1>5 DEF LinksInv, Chain
<1>11. WalkInv' /\ ScanInv'
  BY <1>1, <1>3, <1>5, Zenon DEF WalkInv, ScanInv
<1>12. \A i \in 1..Len(q) : st'[q[i]] = st[q[i]] /\ tp'[q[i]] = tp[q[i]]
  <2>1. q \in Seq(Fiber) /\ st \in [Fiber -> {"READY", "WAITING"}] /\ tp \in [Fiber -> 0..TPMax]
    BY <1>1, Zenon DEF LinkType
  <2>2. \A i \in 1..Len(q) : q[i] \in Fiber /\ q[i] # f
    BY <1>1, <2>1, InQueue
  <2> QED
    BY <1>3, <2>1, <2>2, Zenon
<1>14. OrderInv'
  BY <1>3, <1>5, <1>1, <1>12 DEF OrderInv, Ordered
<1> QED
  BY <1>8, <1>10, <1>11, <1>14, Zenon DEF LinkedInv

-----------------------------------------------------------------------------
(* set_ready() of any fiber, before move_to_run(). *)
LEMMA SetReadyStays ==
  ASSUME Remote = {}, LinkedInv, NEW f \in Fiber, SetReady(Owner, f)
  PROVE  LinkedInv'
<1>1. /\ pc[Owner] = "idle" /\ LinkType /\ Chain(L, q) /\ L.in = Range(q)
      /\ Ordered(q, st, tp) /\ ~loop.fetch
  BY Zenon DEF SetReady, LinkedInv, LinksInv, OrderInv, ScanInv
<1>2. /\ st' = [st EXCEPT ![f] = "READY"]
      /\ item' = [item EXCEPT ![Owner] = f] /\ pc' = [pc EXCEPT ![Owner] = "ready"]
      /\ UNCHANGED <<L, tp, now, loop, q>>
  BY Zenon DEF SetReady, Goto
<1>3. /\ pc'[Owner] = "ready" /\ pc' \in [Thread -> Place]
      /\ item'[Owner] = f /\ item' \in [Thread -> Pointer]
  BY <1>1, <1>2, Alone, Zenon DEF LinkType, Place, Pointer
<1>4. /\ st' \in [Fiber -> {"READY", "WAITING"}] /\ st'[f] = "READY"
      /\ st[f] \in {"READY", "WAITING"} /\ [st' EXCEPT ![f] = st[f]] = st
  BY <1>1, <1>2, Zenon DEF LinkType
<1>5. LinkType'
  BY <1>1, <1>2, <1>3, <1>4, Zenon DEF LinkType
<1>6. LinksInv'
  BY <1>1, <1>2, <1>3, Zenon DEF LinksInv
<1>7. WalkInv' /\ ScanInv'
  BY <1>1, <1>2, <1>3, Zenon DEF WalkInv, ScanInv
<1>8. \E s \in {"READY", "WAITING"} : Ordered(q', [st' EXCEPT ![f] = s], tp')
  BY <1>1, <1>2, <1>4, Zenon
<1>9. OrderInv'
  BY <1>3, <1>4, <1>8, Zenon DEF OrderInv
<1> QED
  BY <1>5, <1>6, <1>7, <1>9, Zenon DEF LinkedInv

LEMMA MoveFacts ==
  ASSUME LinkedInv, pc[Owner] \in {"ready", "relink"}
  PROVE  /\ LinkType /\ L \in Links /\ q \in Seq(Fiber) /\ IsInjective(q)
         /\ item[Owner] \in Fiber /\ st[item[Owner]] = "READY" /\ L.in = Range(q)
         /\ \E s \in {"READY", "WAITING"} : Ordered(q, [st EXCEPT ![item[Owner]] = s], tp)
         /\ loop.fetch => /\ pc[Owner] = "ready" /\ q # <<>> /\ item[Owner] = q[1]
                          /\ loop.other = L.next[q[1]]
BY Zenon DEF LinkedInv, LinkType, LinksInv, OrderInv, ScanInv

(* move_to_run() returns with its item at the head. *)
LEMMA MovedStays ==
  ASSUME Remote = {}, LinkedInv, pc[Owner] \in {"ready", "relink"},
         NEW m \in Links, m.in = L.in, Chain(m, MoveToRun(q, item[Owner])),
         loop.fetch => m = L /\ MoveToRun(q, item[Owner]) = q,
         Moved(Owner, m)
  PROVE  LinkedInv'
<1>1. PICK f : f = item[Owner]
  BY Zenon
<1>2. /\ LinkType /\ q \in Seq(Fiber) /\ IsInjective(q)
      /\ f \in Fiber /\ st[f] = "READY" /\ L.in = Range(q)
      /\ \E s \in {"READY", "WAITING"} : Ordered(q, [st EXCEPT ![f] = s], tp)
      /\ loop.fetch => q # <<>> /\ f = q[1] /\ loop.other = L.next[q[1]]
  BY <1>1, MoveFacts, Zenon
<1>3. /\ L' = m /\ q' = MoveToRun(q, f)
      /\ pc' = [pc EXCEPT ![Owner] = IF loop.fetch THEN "pop" ELSE "idle"]
      /\ UNCHANGED <<st, tp, now, item, loop>>
  BY <1>1, Zenon DEF Moved, Goto
<1>4. pc'[Owner] = (IF loop.fetch THEN "pop" ELSE "idle") /\ pc' \in [Thread -> Place]
  BY <1>2, <1>3, Alone, Zenon DEF LinkType, Place
<1>5. PICK s \in {"READY", "WAITING"} : Ordered(q, [st EXCEPT ![f] = s], tp)
  BY <1>2, Zenon
<1>6. PICK old : old = [st EXCEPT ![f] = s]
  BY Zenon
<1>7. Ordered(q, old, tp) /\ \A x \in Range(q) \ {f} : st[x] = old[x]
  <2>1. st \in [Fiber -> {"READY", "WAITING"}] /\ Range(q) \subseteq Fiber
    BY <1>2, InQueue, Zenon DEF LinkType
  <2> QED
    BY <1>5, <1>6, <2>1, Zenon
<1>8. /\ q' \in Seq(Fiber) /\ Range(q') = Range(q) /\ IsInjective(q')
      /\ Ordered(q', st, tp)
  BY <1>2, <1>3, <1>7, MoveToRunKeeps
<1>9. LinkType'
  BY <1>2, <1>3, <1>4, <1>8, Zenon DEF LinkType
<1>10. LinksInv'
  BY <1>1, <1>2, <1>3, <1>4, <1>8 DEF LinksInv
<1>11. WalkInv'
  BY <1>4, Zenon DEF WalkInv
<1>12. ScanInv'
  BY <1>1, <1>2, <1>3, <1>4 DEF ScanInv
<1>13. OrderInv'
  BY <1>3, <1>4, <1>8 DEF OrderInv
<1> QED
  BY <1>9, <1>10, <1>11, <1>12, <1>13, Zenon DEF LinkedInv

LEMMA MoveIsToHead ==
  ASSUME NEW s \in Seq(Fiber), IsInjective(s), NEW p \in 1..Len(s)
  PROVE  /\ MoveToRun(s, s[p]) = ToHead(s, p)
         /\ p = 1 => MoveToRun(s, s[p]) = s
<1>4. ASSUME p = 1 PROVE ToHead(s, p) = s
  BY <1>4 DEF ToHead
<1> QED
  BY <1>4, InQueue, OnePosition DEF MoveToRun, Position

(* move_to_run() up to where it has taken its item out of the chain. *)
LEMMA MoveDecideStays ==
  ASSUME Remote = {}, LinkedInv, MoveDecide(Owner)
  PROVE  LinkedInv'
<1>1. PICK f : f = item[Owner]
  BY Zenon
<1>2. pc[Owner] = "ready"
  BY Zenon DEF MoveDecide
<1>3. /\ LinkType /\ L \in Links /\ q \in Seq(Fiber) /\ IsInjective(q)
      /\ f \in Fiber /\ st[f] = "READY" /\ L.in = Range(q)
      /\ \E s \in {"READY", "WAITING"} : Ordered(q, [st EXCEPT ![f] = s], tp)
      /\ loop.fetch => q # <<>> /\ f = q[1]
      /\ Chain(L, q)
      /\ Len(q) \in Nat
  BY <1>1, <1>2, MoveFacts, InQueue, Zenon DEF LinkedInv, LinksInv
<1>4. CASE f \notin Range(q)
  <2>1. Moved(Owner, L) /\ MoveToRun(q, f) = q
    BY <1>1, <1>3, <1>4, Zenon DEF MoveDecide, MoveToRun
  <2> QED
    BY <1>1, <1>2, <1>3, <2>1, MovedStays, Zenon
<1>5. CASE f \in Range(q)
  <2>1. PICK p \in 1..Len(q) : q[p] = f
    BY <1>3, <1>5, InQueue, Zenon
  <2>2. L.prev[f] = IF p = 1 THEN Null ELSE q[p - 1]
    BY <1>3, <2>1, Zenon DEF Chain
  <2>3. CASE p = 1
    <3>1. Moved(Owner, L) /\ MoveToRun(q, f) = q
      BY <1>1, <1>3, <2>1, <2>2, <2>3, MoveIsToHead, Zenon DEF MoveDecide
    <3> QED
      BY <1>1, <1>2, <1>3, <3>1, MovedStays, Zenon
  <2>4. CASE p # 1
    <3>1. p \in 2..Len(q) /\ p - 1 \in 1..Len(q) /\ 1 \in 1..Len(q)
      BY <1>3, <2>4
    <3>2. q[p - 1] \in Fiber /\ q[p - 1] # Null /\ q[1] # f
      BY <1>3, <2>1, <2>4, <3>1, InQueue, OnePosition
    <3>3. /\ L' = Unlinked(f) /\ pc' = [pc EXCEPT ![Owner] = "relink"]
          /\ UNCHANGED <<st, tp, now, item, loop, q>>
      BY <1>1, <1>3, <1>5, <2>2, <2>4, <3>2, Zenon DEF MoveDecide, Goto
    <3>5. L.prev[f] = q[p - 1] /\ L.next[f] = IF p = Len(q) THEN Null ELSE q[p + 1]
      BY <1>3, <2>1, <2>2, <2>4, Zenon DEF Chain
    <3>6. p # Len(q) => p + 1 \in 1..Len(q) /\ q[p + 1] \in Fiber /\ q[p + 1] # Null
      BY <1>3, <2>1, InQueue
    <3>7. L.next \in [Fiber -> Pointer] /\ L.prev \in [Fiber -> Pointer]
      BY <1>3, Zenon DEF Links
    <3>8. /\ L' \in Links /\ L'.in = L.in /\ L'.head = L.head
          /\ L'.tail = (IF p = Len(q) THEN q[p - 1] ELSE L.tail)
          /\ L'.next = [L.next EXCEPT ![q[p - 1]] = L.next[f]]
          /\ L'.prev = IF p = Len(q) THEN L.prev ELSE [L.prev EXCEPT ![q[p + 1]] = L.prev[f]]
      BY <1>3, <3>2, <3>3, <3>5, <3>6, <3>7, Zenon DEF Unlinked, Links, Pointer
    <3>9. TakenOut(L', L, q, p)
      <4>1. \A i \in 1..Len(q) : /\ q[i] \in Fiber /\ q[i] \in Range(q)
                                 /\ q[i] = q[p - 1] => i = p - 1
                                 /\ p # Len(q) /\ q[i] = q[p + 1] => i = p + 1
        BY <1>3, <3>1, <3>6, InQueue, OnePosition, Zenon
      <4>2. \A g \in Fiber : L'.next[g] = IF g = q[p - 1] THEN L.next[q[p]] ELSE L.next[g]
        BY <2>1, <3>2, <3>7, <3>8, Zenon
      <4>3. \A g \in Fiber : L'.prev[g] = IF p # Len(q) /\ g = q[p + 1] THEN L.prev[q[p]] ELSE L.prev[g]
        BY <2>1, <3>6, <3>7, <3>8, Zenon
      <4>4. \A i \in 1..Len(q) : L'.next[q[i]] = IF i = p - 1 THEN L.next[q[p]] ELSE L.next[q[i]]
        BY <4>1, <4>2, Zenon
      <4>5. \A i \in 1..Len(q) : L'.prev[q[i]] = IF i = p + 1 THEN L.prev[q[p]] ELSE L.prev[q[i]]
        <5> SUFFICES ASSUME NEW i \in 1..Len(q)
                     PROVE  L'.prev[q[i]] = IF i = p + 1 THEN L.prev[q[p]] ELSE L.prev[q[i]]
          BY Zenon
        <5> QED
          BY <4>1, <4>3, <1>3
      <4>8. \A g \in Fiber \ Range(q) : L'.next[g] = L.next[g] /\ L'.prev[g] = L.prev[g]
        BY <4>2, <4>3, <3>6, <4>1, <3>1, Zenon
      <4> QED
        BY <3>8, <4>4, <4>5, <4>8, Zenon DEF TakenOut
    <3>10. PICK m : m = L'
      BY Zenon
    <3>11. Bypass(m, q, p)
      BY <1>3, <3>1, <3>9, <3>10, ChainUnlinked, Zenon
    <3>12. pc'[Owner] = "relink" /\ pc' \in [Thread -> Place]
      BY <1>3, <3>3, Alone, Zenon DEF LinkType, Place
    <3>13. LinkType'
      BY <1>3, <3>3, <3>8, <3>12, Zenon DEF LinkType
    <3>14. LinksInv'
      BY <1>1, <1>3, <2>1, <3>1, <3>3, <3>8, <3>10, <3>11, <3>12, Zenon DEF LinksInv
    <3>15. WalkInv' /\ ScanInv'
      BY <3>3, <3>12, <1>3, <3>2, Zenon DEF WalkInv, ScanInv
    <3>16. OrderInv'
      BY <1>1, <1>3, <3>3, <3>12, Zenon DEF OrderInv
    <3> QED
      BY <3>13, <3>14, <3>15, <3>16, Zenon DEF LinkedInv
  <2> QED
    BY <2>3, <2>4, Zenon
<1> QED
  BY <1>4, <1>5, Zenon

(* The rest of move_to_run(): its item becomes the head. *)
LEMMA RelinkStays ==
  ASSUME Remote = {}, LinkedInv, Relink(Owner)
  PROVE  LinkedInv'
<1>1. PICK f : f = item[Owner]
  BY Zenon
<1>2. pc[Owner] = "relink"
  BY Zenon DEF Relink
<1>3. /\ L \in Links /\ q \in Seq(Fiber) /\ IsInjective(q)
      /\ f \in Fiber /\ L.in = Range(q) /\ ~loop.fetch
      /\ Len(q) \in Nat
  BY <1>1, <1>2, MoveFacts, InQueue, Zenon
<1>4. PICK p \in 2..Len(q) : q[p] = f /\ Bypass(L, q, p)
  BY <1>1, <1>2, Zenon DEF LinkedInv, LinksInv
<1>5. 1 \in 1..Len(q) /\ p \in 1..Len(q) /\ p # 1
  BY <1>3
<1>6. \A i \in 1..Len(q) : /\ q[i] \in Fiber /\ q[i] \in Range(q)
                           /\ q[i] = q[p] => i = p
                           /\ q[i] = q[1] => i = 1
  BY <1>3, <1>5, InQueue, OnePosition
<1>7. L.head = q[1] /\ L.head \in Fiber /\ L.head # Null /\ L.head # f
  BY <1>4, <1>5, <1>6 DEF Bypass
<1>8. PICK m : m = [AtFront(f) EXCEPT !.prev[f] = Null]
  BY Zenon
<1>9. Moved(Owner, m)
  BY <1>1, <1>3, <1>4, <1>5, <1>6, <1>7, <1>8, Zenon DEF Relink
<1>10. /\ AtFront(f) \in Links
       /\ AtFront(f).head = f /\ AtFront(f).tail = L.tail /\ AtFront(f).in = L.in
       /\ AtFront(f).next = [L.next EXCEPT ![f] = L.head]
       /\ AtFront(f).prev = [L.prev EXCEPT ![L.head] = f]
  BY <1>3, <1>7, FrontLinks, Zenon
<1>11. /\ m \in Links /\ m.head = f /\ m.tail = L.tail /\ m.in = L.in
       /\ m.next = AtFront(f).next
       /\ m.prev = [AtFront(f).prev EXCEPT ![f] = Null]
  BY <1>3, <1>8, <1>10, Zenon DEF Links, Pointer
<1>12. L.next \in [Fiber -> Pointer] /\ L.prev \in [Fiber -> Pointer]
  BY <1>3, Zenon DEF Links
<1>13. \A g \in Fiber : m.next[g] = IF g = f THEN L.head ELSE L.next[g]
  BY <1>3, <1>10, <1>11, <1>12
<1>16. \A g \in Fiber : m.prev[g] = IF g = f THEN Null ELSE IF g = L.head THEN f ELSE L.prev[g]
  BY <1>3, <1>11, <1>10, <1>7, <1>12 DEF Links
<1>17. PutFirst(m, L, q, p)
  <2>1. \A i \in 1..Len(q) : m.next[q[i]] = IF i = p THEN L.head ELSE L.next[q[i]]
    BY <1>4, <1>6, <1>13, Zenon
  <2>2. \A i \in 1..Len(q) : m.prev[q[i]] = IF i = p THEN Null
                                            ELSE IF i = 1 THEN q[p] ELSE L.prev[q[i]]
    BY <1>4, <1>6, <1>7, <1>16, Zenon
  <2>3. f \in Range(q) /\ L.head \in Range(q)
    BY <1>4, <1>5, <1>6, <1>7, Zenon
  <2>4. \A g \in Fiber \ Range(q) : m.next[g] = L.next[g] /\ m.prev[g] = L.prev[g]
    BY <1>13, <1>16, <2>3, Zenon
  <2> QED
    BY <1>4, <1>11, <2>1, <2>2, <2>4, Zenon DEF PutFirst
<1>18. PICK r \in Seq(Fiber) : r = ToHead(q, p) /\ IsToHead(r, q, p)
  BY <1>3, <1>5, ToHeadElements, Zenon
<1>19. Range(r) = Range(q)
  <2>1. /\ LinkType /\ \E s \in {"READY", "WAITING"} : Ordered(q, [st EXCEPT ![f] = s], tp)
        /\ st[f] = "READY"
    BY <1>1, <1>2, MoveFacts, Zenon
  <2>2. PICK s \in {"READY", "WAITING"} : Ordered(q, [st EXCEPT ![f] = s], tp)
    BY <2>1, Zenon
  <2>3. PICK old : old = [st EXCEPT ![f] = s]
    BY Zenon
  <2>4. Ordered(q, old, tp) /\ st[q[p]] = "READY" /\ \A i \in 1..Len(q) : i # p => st[q[i]] = old[q[i]]
    BY <1>4, <1>6, <2>1, <2>2, <2>3, Zenon DEF LinkType
  <2> QED
    BY <1>3, <1>5, <1>18, <2>4, ToHeadKeeps, Zenon
<1>20. Chain(m, r)
  BY <1>3, <1>4, <1>17, <1>18, <1>19, ChainRelinked, Zenon
<1>21. MoveToRun(q, f) = r
  BY <1>3, <1>4, <1>5, <1>18, MoveIsToHead, Zenon
<1> QED
  BY <1>1, <1>2, <1>3, <1>9, <1>11, <1>20, <1>21, MovedStays, Zenon

-----------------------------------------------------------------------------
(* move_to(), from the head. *)
LEMMA ScanCallStays ==
  ASSUME Remote = {}, LinkedInv, NEW n \in 0..MaxTime, ScanCall(n)
  PROVE  LinkedInv'
<1>1. /\ pc[Owner] = "idle" /\ LinkType /\ Chain(L, q) /\ L.in = Range(q)
      /\ Ordered(q, st, tp) /\ ~loop.fetch
  BY Zenon DEF ScanCall, LinkedInv, LinksInv, OrderInv, ScanInv
<1>2. /\ now' = n /\ loop' = [loop EXCEPT !.cur = L.head]
      /\ pc' = [pc EXCEPT ![Owner] = "scan"] /\ UNCHANGED <<L, st, tp, item, q>>
  BY Zenon DEF ScanCall, Goto
<1>3. pc'[Owner] = "scan" /\ pc' \in [Thread -> Place] /\ now' \in Nat
  BY <1>1, <1>2, Alone DEF LinkType, Place
<1>4. /\ loop' \in [cur : Pointer, other : Pointer, fetch : BOOLEAN]
      /\ loop'.cur = L.head /\ ~loop'.fetch
  BY <1>1, <1>2, Zenon DEF LinkType, Links
<1>5. LinkType'
  BY <1>1, <1>2, <1>3, <1>4, Zenon DEF LinkType
<1>6. LinksInv'
  BY <1>1, <1>2, <1>3, Zenon DEF LinksInv
<1>7. WalkInv' /\ ScanInv'
  BY <1>2, <1>3, <1>4, Zenon DEF WalkInv, ScanInv
<1>8. OrderInv'
  BY <1>1, <1>2, <1>3, Zenon DEF OrderInv
<1> QED
  BY <1>5, <1>6, <1>7, <1>8, Zenon DEF LinkedInv

LEMMA ScanStays ==
  ASSUME Remote = {}, LinkedInv, Scan
  PROVE  LinkedInv'
<1>1. /\ pc[Owner] = "scan" /\ LinkType /\ Chain(L, q) /\ L.in = Range(q)
      /\ Ordered(q, st, tp) /\ ~loop.fetch /\ loop.cur = L.head
  BY Zenon DEF Scan, LinkedInv, LinksInv, OrderInv, ScanInv
<1>2. UNCHANGED <<L, tp, now, q>>
  BY Zenon DEF Scan
<1>3. CASE Goto(Owner, "idle") /\ UNCHANGED <<st, item, loop>>
  <2>1. pc'[Owner] = "idle" /\ pc' \in [Thread -> Place]
    BY <1>1, <1>3, Alone, Zenon DEF LinkType, Place, Goto
  <2>2. LinkType'
    BY <1>1, <1>2, <1>3, <2>1, Zenon DEF LinkType
  <2>3. LinksInv' /\ WalkInv' /\ ScanInv' /\ OrderInv'
    BY <1>1, <1>2, <1>3, <2>1, Zenon DEF LinksInv, WalkInv, ScanInv, OrderInv
  <2> QED
    BY <2>2, <2>3, Zenon DEF LinkedInv
<1>4. CASE loop.cur # Null /\ Fetch(loop.cur)
  <2>1. PICK f : f = loop.cur
    BY Zenon
  <2>2. q \in Seq(Fiber) /\ q # <<>> /\ f = q[1] /\ f \in Fiber /\ L \in Links
    BY <1>1, <1>4, <2>1, InQueue DEF LinkType, Chain
  <2>3. /\ item' = [item EXCEPT ![Owner] = f]
        /\ loop' = [loop EXCEPT !.other = L.next[f], !.fetch = TRUE]
        /\ IF tp[f] <= now
           THEN st' = [st EXCEPT ![f] = "READY"] /\ pc' = [pc EXCEPT ![Owner] = "ready"]
           ELSE st' = st /\ pc' = [pc EXCEPT ![Owner] = "pop"]
    BY <1>4, <2>1, Zenon DEF Fetch, Goto
  <2>4. /\ loop' \in [cur : Pointer, other : Pointer, fetch : BOOLEAN]
        /\ loop'.other = L.next[q[1]] /\ loop'.fetch
    BY <1>1, <2>2, <2>3, Zenon DEF LinkType, Links
  <2>5. item'[Owner] = f /\ item' \in [Thread -> Pointer]
    BY <1>1, <2>2, <2>3, Alone, Zenon DEF LinkType, Pointer
  <2>6. CASE tp[f] <= now
    <3>1. pc'[Owner] = "ready" /\ pc' \in [Thread -> Place]
      BY <1>1, <2>3, <2>6, Alone, Zenon DEF LinkType, Place
    <3>2. /\ st' \in [Fiber -> {"READY", "WAITING"}] /\ st'[f] = "READY"
          /\ st[f] \in {"READY", "WAITING"} /\ [st' EXCEPT ![f] = st[f]] = st
      BY <1>1, <2>2, <2>3, <2>6, Zenon DEF LinkType
    <3>3. LinkType'
      BY <1>1, <1>2, <2>4, <2>5, <3>1, <3>2, Zenon DEF LinkType
    <3>4. LinksInv'
      BY <1>1, <1>2, <3>1, Zenon DEF LinksInv
    <3>5. WalkInv' /\ ScanInv'
      BY <1>2, <2>2, <2>4, <2>5, <3>1, Zenon DEF WalkInv, ScanInv
    <3>6. \E s \in {"READY", "WAITING"} : Ordered(q', [st' EXCEPT ![f] = s], tp')
      BY <1>1, <1>2, <3>2, Zenon
    <3>7. OrderInv'
      BY <2>2, <2>5, <3>1, <3>2, <3>6, Zenon DEF OrderInv
    <3> QED
      BY <3>3, <3>4, <3>5, <3>7, Zenon DEF LinkedInv
  <2>7. CASE ~(tp[f] <= now)
    <3>1. pc'[Owner] = "pop" /\ pc' \in [Thread -> Place] /\ st' = st
      BY <1>1, <2>3, <2>7, Alone, Zenon DEF LinkType, Place
    <3>2. LinkType'
      BY <1>1, <1>2, <2>4, <2>5, <3>1, Zenon DEF LinkType
    <3>3. LinksInv'
      BY <1>1, <1>2, <3>1, Zenon DEF LinksInv
    <3>4. WalkInv' /\ ScanInv'
      BY <1>2, <2>2, <2>4, <2>5, <3>1, Zenon DEF WalkInv, ScanInv
    <3>5. OrderInv'
      BY <1>1, <1>2, <3>1, Zenon DEF OrderInv
    <3> QED
      BY <3>2, <3>3, <3>4, <3>5, Zenon DEF LinkedInv
  <2> QED
    BY <2>6, <2>7, Zenon
<1> QED
  BY <1>3, <1>4, Zenon DEF Scan

(* move_to() takes the head out. *)
LEMMA PopStays ==
  ASSUME Remote = {}, LinkedInv, Pop
  PROVE  LinkedInv'
<1>1. PICK f : f = item[Owner]
  BY Zenon
<1>2. /\ pc[Owner] = "pop" /\ LinkType /\ Chain(L, q) /\ L.in = Range(q)
      /\ Ordered(q, st, tp) /\ q # <<>> /\ f = q[1] /\ loop.other = L.next[q[1]]
  BY <1>1, Zenon DEF Pop, LinkedInv, LinksInv, OrderInv, ScanInv
<1>3. /\ q \in Seq(Fiber) /\ IsInjective(q) /\ L \in Links /\ Len(q) \in Nat /\ Len(q) > 0
      /\ f \in Fiber /\ L.head = f /\ 1 \in 1..Len(q)
  BY <1>2, InQueue DEF LinkType, Chain
<1>4. /\ L' = Popped(f) /\ tp' = [tp EXCEPT ![f] = TPMax]
      /\ loop' = [loop EXCEPT !.cur = loop.other, !.fetch = FALSE]
      /\ pc' = [pc EXCEPT ![Owner] = "scan"] /\ q' = SubSeq(q, 2, Len(q))
      /\ UNCHANGED <<st, now, item>>
  BY <1>1, <1>3, Zenon DEF Pop, Goto
<1>a. q \in Seq(Fiber) /\ Len(q) \in Nat /\ Len(q) > 0 /\ (Len(q) # 1 => 2 \in 1..Len(q))
  <2>1. q \in Seq(Fiber) /\ Len(q) \in Nat /\ Len(q) > 0
    BY <1>3, Zenon
  <2>2. \A n \in Nat : n > 0 /\ n # 1 => 2 \in 1..n
    OBVIOUS
  <2> QED
    BY <2>1, <2>2, Zenon
<1>b. SubSeq(q, 2, Len(q)) \in Seq(Fiber)
  BY <1>a
<1>c. PICK r \in Seq(Fiber) : r = SubSeq(q, 2, Len(q))
  BY <1>b, Zenon
<1>5. r = q' /\ Len(r) \in Nat
  BY <1>4, <1>c
<1>6. Len(r) = Len(q) - 1 /\ \A i \in 1..Len(r) : r[i] = q[i + 1]
  BY <1>a, <1>c
<1>7. \A i \in 1..Len(q) : /\ q[i] \in Fiber /\ q[i] \in Range(q)
                           /\ q[i] = q[1] => i = 1
                           /\ i # 1 => i - 1 \in 1..Len(r) /\ r[i - 1] = q[i]
  BY <1>3, <1>6, InQueue, OnePosition
<1>8. \A i \in 1..Len(r) : i + 1 \in 1..Len(q) /\ i + 1 # 1 /\ r[i] # f
  BY <1>2, <1>3, <1>6, <1>7
<1>9. Range(q) = Range(r) \cup {f} /\ f \notin Range(r)
  <2>1. \A g \in Range(q) : g = f \/ g \in Range(r)
    <3> SUFFICES ASSUME NEW g \in Range(q) PROVE g = f \/ g \in Range(r)
      BY Zenon
    <3>1. PICK i \in 1..Len(q) : q[i] = g
      BY <1>a, InQueue, Zenon
    <3>2. i # 1 => i - 1 \in 1..Len(r) /\ r[i - 1] = q[i]
      BY <1>7, Zenon
    <3>3. i # 1 => r[i - 1] \in Range(r)
      BY <3>2, InQueue, Zenon
    <3> QED
      BY <1>2, <3>1, <3>2, <3>3, Zenon
  <2>2. \A g \in Range(r) : g \in Range(q) /\ g # f
    <3> SUFFICES ASSUME NEW g \in Range(r) PROVE g \in Range(q) /\ g # f
      BY Zenon
    <3>1. PICK i \in 1..Len(r) : r[i] = g
      BY InQueue, Zenon
    <3> QED
      BY <1>6, <1>7, <1>8, <3>1, Zenon
  <2> QED
    BY <1>2, <1>3, <1>7, <2>1, <2>2
<1>10. IsInjective(r)
  <2> SUFFICES ASSUME NEW i \in 1..Len(r), NEW j \in 1..Len(r), r[i] = r[j] PROVE i = j
    BY DEF IsInjective
  <2>1. i + 1 = j + 1
    BY <1>3, <1>6, <1>8, OnePosition
  <2> QED
    BY <2>1
<1>11. L.next \in [Fiber -> Pointer] /\ L.prev \in [Fiber -> Pointer]
  BY <1>3, Zenon DEF Links
<1>12. L.next[f] = IF Len(q) = 1 THEN Null ELSE q[2]
  <2>1. L.next[q[1]] = IF 1 = Len(q) THEN Null ELSE q[1 + 1]
    BY <1>2, <1>3, Zenon DEF Chain
  <2> QED
    BY <1>2, <2>1
<1>13. /\ L' \in Links /\ L'.head = L.next[f] /\ L'.in = L.in \ {f}
       /\ L'.tail = (IF L.next[f] = Null THEN Null ELSE L.tail)
       /\ L'.next = [L.next EXCEPT ![f] = Null]
       /\ L'.prev = [g \in Fiber |-> IF g \in {f, L.next[f]} THEN Null ELSE L.prev[g]]
  BY <1>3, <1>4, <1>11, Zenon DEF Popped, Links, Pointer
<1>14. HeadOut(L', L, q)
  <2>1. L.next[f] = Null <=> Len(q) = 1
    BY <1>12, <1>a, <1>7
  <2>2. \A i \in 2..Len(q) : i \in 1..Len(q) /\ q[i] # f /\ (q[i] = L.next[f] <=> i = 2)
    <3> SUFFICES ASSUME NEW i \in 2..Len(q)
                 PROVE  i \in 1..Len(q) /\ q[i] # f /\ (q[i] = L.next[f] <=> i = 2)
      BY Zenon
    <3>1. i \in 1..Len(q) /\ i # 1 /\ 2 \in 1..Len(q) /\ Len(q) # 1
      BY <1>a
    <3>2. q[i] = q[2] => i = 2
      BY <1>a, <1>3, <3>1, OnePosition, Zenon
    <3> QED
      BY <1>2, <1>7, <1>12, <3>1, <3>2
  <2>3. \A i \in 2..Len(q) : L'.next[q[i]] = L.next[q[i]]
    BY <1>3, <1>7, <1>11, <1>13, <2>2
  <2>4. \A i \in 2..Len(q) : L'.prev[q[i]] = IF i = 2 THEN Null ELSE L.prev[q[i]]
    BY <1>7, <1>13, <2>2
  <2>5. L'.next[f] = Null /\ L'.prev[f] = Null
    BY <1>3, <1>11, <1>13, Zenon
  <2>6. f \in Range(q) /\ (L.next[f] \in Fiber => L.next[f] \in Range(q))
    <3>1. Len(q) # 1 => q[2] \in Range(q)
      BY <1>a, <1>7, Zenon
    <3> QED
      BY <1>2, <1>3, <1>7, <1>12, <3>1
  <2>7. \A g \in Fiber \ Range(q) : L'.next[g] = L.next[g] /\ L'.prev[g] = L.prev[g]
    BY <1>3, <1>11, <1>13, <2>6
  <2> QED
    BY <1>2, <1>13, <2>1, <2>3, <2>4, <2>5, <2>7, Zenon DEF HeadOut
<1>15. PICK m : m = L'
  BY Zenon
<1>16. Chain(m, r)
  BY <1>2, <1>3, <1>5, <1>6, <1>9, <1>14, <1>15, ChainPopped
<1>17. pc'[Owner] = "scan" /\ pc' \in [Thread -> Place]
  BY <1>2, <1>4, Alone, Zenon DEF LinkType, Place
<1>18. /\ loop' \in [cur : Pointer, other : Pointer, fetch : BOOLEAN]
       /\ loop'.cur = L.next[f] /\ ~loop'.fetch
  BY <1>2, <1>4, Zenon DEF LinkType
<1>19. tp' \in [Fiber -> 0..TPMax] /\ \A g \in Fiber \ {f} : tp'[g] = tp[g]
  BY <1>2, <1>3, <1>4 DEF LinkType
<1>20. LinkType'
  BY <1>2, <1>4, <1>5, <1>10, <1>13, <1>17, <1>18, <1>19, Zenon DEF LinkType
<1>21. LinksInv'
  BY <1>2, <1>5, <1>9, <1>13, <1>15, <1>16, <1>17 DEF LinksInv
<1>22. WalkInv' /\ ScanInv'
  BY <1>13, <1>17, <1>18, Zenon DEF WalkInv, ScanInv
<1>23. Ordered(r, st, tp')
  <2> SUFFICES ASSUME NEW i \in 1..Len(r), NEW j \in 1..Len(r), i < j
               PROVE  /\ st[r[j]] = "READY" => st[r[i]] = "READY"
                      /\ st[r[i]] # "READY" => tp'[r[i]] <= tp'[r[j]]
    BY Zenon DEF Ordered
  <2>2. r[i] = q[i + 1] /\ r[j] = q[j + 1] /\ r[i] \in Fiber \ {f} /\ r[j] \in Fiber \ {f}
    BY <1>6, <1>7, <1>8
  <2>3. /\ st[q[j + 1]] = "READY" => st[q[i + 1]] = "READY"
        /\ st[q[i + 1]] # "READY" => tp[q[i + 1]] <= tp[q[j + 1]]
    BY <1>2, <1>8 DEF Ordered
  <2>4. tp'[r[i]] = tp[r[i]] /\ tp'[r[j]] = tp[r[j]]
    BY <1>19, <2>2, Zenon
  <2> QED
    BY <2>2, <2>3, <2>4
<1>24. OrderInv'
  BY <1>4, <1>5, <1>17, <1>23 DEF OrderInv
<1> QED
  BY <1>20, <1>21, <1>22, <1>24, Zenon DEF LinkedInv

-----------------------------------------------------------------------------
LEMMA LinkedStarts ==
  ASSUME Remote = {}, Init
  PROVE  LinkedInv
<1>1. /\ L = [head |-> Null, tail |-> Null, next |-> [f \in Fiber |-> Null],
              prev |-> [f \in Fiber |-> Null], in |-> {}]
      /\ st = [f \in Fiber |-> "READY"] /\ tp = [f \in Fiber |-> TPMax] /\ now = 0
      /\ pc = [t \in Thread |-> "idle"] /\ item = [t \in Thread |-> Null]
      /\ loop = [cur |-> Null, other |-> Null, fetch |-> FALSE] /\ q = <<>>
  BY Zenon DEF Init
<1>2. pc[Owner] = "idle" /\ ~loop.fetch
  BY <1>1, Alone, Zenon
<1>3. q \in Seq(Fiber) /\ Len(q) = 0 /\ IsInjective(q) /\ Range(q) = {}
  BY <1>1 DEF IsInjective, Range
<1>7. LinksInv
  BY <1>1, <1>2, <1>3 DEF LinksInv, Chain
<1>8. WalkInv /\ ScanInv /\ OrderInv
  BY <1>2, <1>3 DEF WalkInv, ScanInv, OrderInv, Ordered
<1> QED
  BY <1>7, <1>8, <1>1, <1>3 DEF LinkedInv, LinkType, Pointer, Place, Links

LEMMA LinkedStays ==
  ASSUME Remote = {}, LinkedInv, [Next]_vars
  PROVE  LinkedInv'
<1>1. CASE UNCHANGED vars
  BY <1>1, Zenon DEF vars, LinkedInv, LinkType, LinksInv, WalkInv, ScanInv, OrderInv,
      Passed
<1>2. ASSUME NEW t \in Thread PROVE t = Owner
  BY Alone, Zenon
<1>3. ASSUME NEW f \in Fiber, NEW s \in {"READY", "WAITING"}, NEW d \in Deadline, PushCall(f, s, d)
      PROVE  LinkedInv'
  BY <1>3, PushCallStays, Zenon
<1>4. CASE PushDecide
  BY <1>4, PushDecideStays, Zenon
<1>5. CASE PushWalk
  BY <1>5, PushWalkStays, Zenon
<1>6. ASSUME NEW n \in 0..MaxTime, ScanCall(n)
      PROVE  LinkedInv'
  BY <1>6, ScanCallStays, Zenon
<1>7. CASE Scan
  BY <1>7, ScanStays, Zenon
<1>8. CASE Pop
  BY <1>8, PopStays, Zenon
<1>9. ASSUME NEW t \in Thread, NEW f \in Fiber, SetReady(t, f)
      PROVE  LinkedInv'
  BY <1>2, <1>9, SetReadyStays, Zenon
<1>10. ASSUME NEW t \in Thread, MoveDecide(t) \/ Relink(t)
       PROVE  LinkedInv'
  BY <1>2, <1>10, MoveDecideStays, RelinkStays, Zenon
<1> QED
  BY <1>1, <1>3, <1>4, <1>5, <1>6, <1>7, <1>8, <1>9, <1>10, Zenon DEF Next

(* The invariant of push(), move_to_run() and move_to() at every step of   *)
(* their code, in the thread that owns the queue.                          *)
THEOREM LinksInvariant ==
  ASSUME Remote = {}
  PROVE  Spec => []LinkedInv
BY LinkedStarts, LinkedStays, PTL DEF Spec

(* For any number of fibers, deadlines and calls of push(), move_to_run()  *)
(* and move_to(), and while no other thread calls set_ready(): the links   *)
(* between two calls are those of the sequence that WaitingQueue computes, *)
(* no assertion fails and no null pointer is followed.                     *)
THEOREM PointersImplementQueue ==
  ASSUME Remote = {}
  PROVE  Spec => []LinksDenoteQueue
<1>1. ASSUME LinkedInv PROVE LinksDenoteQueue
  <2>1. LinkType /\ LinksInv
    BY <1>1, Zenon DEF LinkedInv
  <2>2. \A t \in Thread : pc[t] # "fault"
    BY <2>1, Zenon DEF LinkType, Place
  <2> QED
    BY <2>2, <2>1, Alone, Zenon DEF LinksDenoteQueue, Chain, LinksInv, Quiet
<1> QED
  BY <1>1, LinksInvariant, PTL

(* Under the same conditions no ready fiber is linked behind one that is   *)
(* not: the scan of move_to() reaches every ready fiber.                   *)
THEOREM ReadyFibersFirst ==
  ASSUME Remote = {}
  PROVE  Spec => []AwakenedFirst
<1>1. ASSUME LinkedInv PROVE AwakenedFirst
  <2> SUFFICES ASSUME Quiet, NEW f \in L.in, NEW g \in L.in, L.next[f] = g, st[g] = "READY"
               PROVE  st[f] = "READY"
    BY Zenon DEF AwakenedFirst
  <2>1. pc[Owner] \in {"idle", "scan"}
    BY Alone, Zenon DEF Quiet
  <2>2. Chain(L, q) /\ L.in = Range(q) /\ q \in Seq(Fiber) /\ Ordered(q, st, tp)
    BY <1>1, <2>1, Zenon DEF LinkedInv, LinksInv, LinkType, OrderInv
  <2>3. PICK i \in 1..Len(q) : q[i] = f
    BY <2>2, InQueue
  <2>4. g \in Fiber /\ g # Null
    BY <2>2, InQueue
  <2>5. i # Len(q) /\ g = q[i + 1]
    BY <2>2, <2>3, <2>4, Zenon DEF Chain
  <2>6. i + 1 \in 1..Len(q) /\ i < i + 1
    BY <2>2, <2>5
  <2> QED
    BY <2>2, <2>3, <2>5, <2>6, Zenon DEF Ordered
<1> QED
  BY <1>1, LinksInvariant, PTL

(* Under the same conditions the whole queue is in the order in which the  *)
(* scan of move_to() may stop at the first fiber that is not due.          *)
THEOREM LinkedQueueOrdered ==
  ASSUME Remote = {}
  PROVE  Spec => [](Quiet => Ordered(q, st, tp))
<1>1. ASSUME LinkedInv, Quiet PROVE Ordered(q, st, tp)
  BY <1>1, Alone, Zenon DEF LinkedInv, OrderInv, Quiet
<1> QED
  BY <1>1, LinksInvariant, PTL
=============================================================================
