----------------------------- MODULE QueueFacts -----------------------------
(***************************************************************************)
(* What the operators of MyQueue do to the fill and to the elements of a   *)
(* queue, and what regression_analysis makes of a full one, for every size *)
(* of the ring.  QueueRingProofs and EstimatorProofs rest on these lemmas. *)
(***************************************************************************)
EXTENDS Regression, FiniteSetTheorems, WellFoundedInduction, TLAPS

(* One turn of the ring is the most an offset goes before % takes it back. *)
LEMMA Wrap ==
  ASSUME NEW x \in 0 .. 2 * MaxSize - 1
  PROVE  x % MaxSize = IF x < MaxSize THEN x ELSE x - MaxSize
<1>1. CASE x < MaxSize
  BY <1>1, MaxSizeAssumption
<1>2. CASE x >= MaxSize
  BY <1>2, MaxSizeAssumption
<1> QED
  BY <1>1, <1>2, MaxSizeAssumption

(* The two offsets DeQueue and enQueue compute. *)
LEMMA NextSlot ==
  ASSUME NEW x \in 0 .. MaxSize - 1
  PROVE  /\ (x + 1) % MaxSize = IF x + 1 < MaxSize THEN x + 1 ELSE 0
         /\ (x + (1 - 1)) % MaxSize = x
<1>1. (x + 1) % MaxSize = IF x + 1 < MaxSize THEN x + 1 ELSE 0
  BY Wrap, MaxSizeAssumption
<1>2. x % MaxSize = x
  BY MaxSizeAssumption
<1>3. x + (1 - 1) = x
  OBVIOUS
<1> QED
  BY <1>1, <1>2, <1>3, Zenon

(* The fill of a queue: `length` elements lie between front and rear.  It  *)
(* is stated without %, the form the steps are computed with.              *)
Fill(q) ==
    /\ q \in MyQueueType
    /\ q.length <= MaxSize - 1
    /\ q.rear = IF q.front + q.length < MaxSize
                THEN q.front + q.length
                ELSE q.front + q.length - MaxSize

(* What Fill says of the ranges of offsets and length. *)
LEMMA FillTypes ==
  ASSUME NEW q, Fill(q)
  PROVE  /\ q.queue \in [Slots -> Elements \cup {Garbage}]
         /\ q.front \in 0 .. MaxSize - 1 /\ q.front \in Slots
         /\ q.rear \in 0 .. MaxSize - 1 /\ q.rear \in Slots
         /\ q.length \in 0 .. MaxSize - 1
  BY MaxSizeAssumption DEF Fill, MyQueueType, Slots

(* Under Fill the tests on the offsets say what the length says. *)
LEMMA FillMeaning ==
  ASSUME NEW q, Fill(q)
  PROVE  /\ q.rear = (q.front + q.length) % MaxSize
         /\ isQueueEmpty(q) <=> q.length = 0
         /\ isQueueFull(q) <=> q.length = MaxSize - 1
<1>1. (q.front + q.length) % MaxSize = q.rear
  BY FillTypes, Wrap, MaxSizeAssumption DEF Fill
<1>2. (q.rear + 1) % MaxSize =
         IF q.rear + 1 < MaxSize THEN q.rear + 1 ELSE 0
  BY FillTypes, Wrap, MaxSizeAssumption
<1>3. isQueueEmpty(q) <=> q.length = 0
  BY FillTypes, MaxSizeAssumption DEF Fill, isQueueEmpty
<1>4. isQueueFull(q) <=>
         q.front = IF q.rear + 1 < MaxSize THEN q.rear + 1 ELSE 0
  BY <1>2 DEF isQueueFull
<1>5. (q.front = IF q.rear + 1 < MaxSize THEN q.rear + 1 ELSE 0)
         <=> q.length = MaxSize - 1
  BY FillTypes, MaxSizeAssumption DEF Fill
<1> QED
  BY <1>1, <1>3, <1>4, <1>5

(* The slot of the k-th element without %. *)
LEMMA SlotOf ==
  ASSUME NEW q, Fill(q), NEW k \in 1 .. MaxSize
  PROVE  ElemSlot(q, k) = IF q.front + k - 1 < MaxSize
                          THEN q.front + k - 1
                          ELSE q.front + k - 1 - MaxSize
  BY FillTypes, MaxSizeAssumption, Wrap DEF ElemSlot

(* A queue just created is empty by both records. *)
LEMMA FillCreate == Fill(QueueCreate) /\ QueueCreate.length = 0
  BY MaxSizeAssumption DEF QueueCreate, Fill, MyQueueType, Slots

-----------------------------------------------------------------------------
(* enQueue lengthens the queue by e at its end. *)
LEMMA EnFill ==
  ASSUME NEW q, Fill(q), NEW e \in Elements, q.length < MaxSize - 1
  PROVE  LET r == enQueue(q, e) IN
         /\ Fill(r)
         /\ r.front = q.front
         /\ r.length = q.length + 1
         /\ r.queue = [q.queue EXCEPT ![q.rear] = e]
<1> DEFINE r == enQueue(q, e)
<1>1. (q.rear + 1) % MaxSize =
         IF q.rear + 1 < MaxSize THEN q.rear + 1 ELSE 0
  BY FillTypes, NextSlot
<1>2. /\ r.queue = [q.queue EXCEPT ![q.rear] = e]
      /\ r.front = q.front /\ r.length = q.length + 1
      /\ r.rear = (q.rear + 1) % MaxSize
  BY DEF enQueue
<1>3. r \in MyQueueType
  <2>1. [q.queue EXCEPT ![q.rear] = e] \in [Slots -> Elements \cup {Garbage}]
    BY FillTypes
  <2>2. /\ q.front \in Slots /\ (q.rear + 1) % MaxSize \in Slots
        /\ q.length + 1 \in Nat
    BY <1>1, FillTypes, MaxSizeAssumption DEF Slots
  <2> QED
    BY <2>1, <2>2 DEF enQueue, MyQueueType
<1>4. r.rear = IF q.rear + 1 < MaxSize THEN q.rear + 1 ELSE 0
  BY <1>1, <1>2
<1>5. r.length <= MaxSize - 1
  BY <1>2, FillTypes, MaxSizeAssumption
<1>6. r.rear = IF r.front + r.length < MaxSize
               THEN r.front + r.length
               ELSE r.front + r.length - MaxSize
  <2>1. q.rear = IF q.front + q.length < MaxSize
                 THEN q.front + q.length
                 ELSE q.front + q.length - MaxSize
    BY DEF Fill
  <2> HIDE DEF r
  <2> QED
    BY <1>2, <1>4, <2>1, FillTypes, MaxSizeAssumption
<1> QED
  BY <1>2, <1>3, <1>5, <1>6 DEF Fill

(* enQueue leaves every element in its place and puts e behind the last. *)
LEMMA EnElem ==
  ASSUME NEW q, Fill(q), NEW e \in Elements, q.length < MaxSize - 1,
         NEW k \in 1 .. q.length + 1
  PROVE  GetQueueElem(enQueue(q, e), k) =
            IF k = q.length + 1 THEN e ELSE GetQueueElem(q, k)
<1> DEFINE r == enQueue(q, e)
<1>1. /\ r.front = q.front
      /\ r.queue = [q.queue EXCEPT ![q.rear] = e]
  BY EnFill
<1>2. k \in 1 .. MaxSize
  BY FillTypes, MaxSizeAssumption
<1>3. ElemSlot(r, k) = ElemSlot(q, k)
  BY <1>1 DEF ElemSlot
<1>4. ElemSlot(q, k) = IF q.front + k - 1 < MaxSize
                       THEN q.front + k - 1
                       ELSE q.front + k - 1 - MaxSize
  BY <1>2, SlotOf
<1>5. q.rear = IF q.front + q.length < MaxSize
               THEN q.front + q.length
               ELSE q.front + q.length - MaxSize
  BY DEF Fill
<1>6. /\ ElemSlot(q, k) \in Slots
      /\ ElemSlot(q, k) = q.rear <=> k = q.length + 1
  <2>1. /\ q.front \in 0 .. MaxSize - 1 /\ q.rear \in 0 .. MaxSize - 1
        /\ q.length \in 0 .. MaxSize - 1 /\ MaxSize \in Nat
        /\ k \in 1 .. q.length + 1
    BY FillTypes, MaxSizeAssumption
  <2>2. ElemSlot(q, k) \in 0 .. MaxSize - 1
    BY <1>4, <1>2, <2>1
  <2>3. ElemSlot(q, k) = q.rear <=> k = q.length + 1
    BY <1>4, <1>5, <1>2, <2>1
  <2> QED
    BY <2>2, <2>3 DEF Slots
<1>7. GetQueueElem(r, k) = [q.queue EXCEPT ![q.rear] = e][ElemSlot(q, k)]
  BY <1>1, <1>3 DEF GetQueueElem
<1>8. q.queue \in [Slots -> Elements \cup {Garbage}]
  BY FillTypes
<1> QED
  BY <1>6, <1>7, <1>8 DEF GetQueueElem

-----------------------------------------------------------------------------
(* DeQueue drops the head, and every element moves up by one. *)
LEMMA DeFill ==
  ASSUME NEW q, Fill(q), q.length >= 1
  PROVE  LET r == DeQueue(q) IN
         /\ Fill(r)
         /\ r.front = (IF q.front + 1 < MaxSize THEN q.front + 1 ELSE 0)
         /\ r.length = q.length - 1
         /\ r.queue = q.queue
         /\ GetQueueFront(q) = GetQueueElem(q, 1)
<1> DEFINE r == DeQueue(q)
<1>0. /\ q.front \in 0 .. MaxSize - 1 /\ q.rear \in Slots
      /\ q.length \in 0 .. MaxSize - 1
  BY FillTypes
<1>1. /\ (q.front + 1) % MaxSize =
           IF q.front + 1 < MaxSize THEN q.front + 1 ELSE 0
      /\ (q.front + (1 - 1)) % MaxSize = q.front
  BY <1>0, NextSlot
<1>2. /\ r.queue = q.queue /\ r.rear = q.rear
      /\ r.front = (q.front + 1) % MaxSize /\ r.length = q.length - 1
  BY DEF DeQueue
<1>3. r.front = IF q.front + 1 < MaxSize THEN q.front + 1 ELSE 0
  BY <1>1, <1>2
<1>4. r \in MyQueueType
  <2>1. (q.front + 1) % MaxSize \in Slots
    BY <1>0, <1>1, MaxSizeAssumption DEF Slots
  <2>2. q.length - 1 \in Nat
    BY <1>0
  <2> QED
    BY <1>0, <2>1, <2>2, FillTypes DEF DeQueue, MyQueueType
<1>5. GetQueueFront(q) = GetQueueElem(q, 1)
  BY <1>1 DEF GetQueueFront, GetQueueElem, ElemSlot
<1>6. /\ r.length <= MaxSize - 1
      /\ r.rear = IF r.front + r.length < MaxSize
                  THEN r.front + r.length
                  ELSE r.front + r.length - MaxSize
  <2>1. q.rear = IF q.front + q.length < MaxSize
                 THEN q.front + q.length
                 ELSE q.front + q.length - MaxSize
    BY DEF Fill
  <2> HIDE DEF r
  <2> QED
    BY <1>2, <1>3, <2>1, FillTypes, MaxSizeAssumption
<1> QED
  BY <1>2, <1>3, <1>4, <1>5, <1>6 DEF Fill

(* After DeQueue the k-th element is the one that was behind it. *)
LEMMA DeElem ==
  ASSUME NEW q, Fill(q), NEW k \in 1 .. q.length - 1
  PROVE  GetQueueElem(DeQueue(q), k) = GetQueueElem(q, k + 1)
<1> DEFINE r == DeQueue(q)
<1>0. q.length >= 1
  BY FillTypes
<1>1. /\ Fill(r) /\ r.queue = q.queue
      /\ r.front = IF q.front + 1 < MaxSize THEN q.front + 1 ELSE 0
  BY <1>0, DeFill
<1>2. k \in 1 .. MaxSize /\ k + 1 \in 1 .. MaxSize
  BY FillTypes, MaxSizeAssumption
<1>3. ElemSlot(r, k) = IF r.front + k - 1 < MaxSize
                       THEN r.front + k - 1
                       ELSE r.front + k - 1 - MaxSize
  BY <1>1, <1>2, SlotOf
<1>4. ElemSlot(q, k + 1) = IF q.front + (k + 1) - 1 < MaxSize
                           THEN q.front + (k + 1) - 1
                           ELSE q.front + (k + 1) - 1 - MaxSize
  BY <1>2, SlotOf
<1> HIDE DEF r
<1>5. ElemSlot(r, k) = ElemSlot(q, k + 1)
  BY <1>1, <1>2, <1>3, <1>4, FillTypes, MaxSizeAssumption
<1> QED
  BY <1>1, <1>5 DEF GetQueueElem, r

-----------------------------------------------------------------------------
(* A set of natural numbers that is not empty has a least element. *)
LEMMA LeastOf ==
  ASSUME NEW S \in SUBSET Nat, S # {}
  PROVE  \E x \in S : \A y \in S : x <= y
<1> DEFINE R == {ss \in Nat \X Nat : ss[1] < ss[2]}
<1>1. IsWellFoundedOn(R, Nat)
  BY NatLessThanWellFounded, Zenon DEF OpToRel
<1> HIDE DEF R
<1>2. PICK x \in S : \A y \in S : ~(<<y, x>> \in R)
  BY <1>1, WFMin
<1>3. \A y \in S : x <= y
  <2> SUFFICES ASSUME NEW y \in S PROVE x <= y
    OBVIOUS
  <2>1. <<y, x>> \notin R
    BY <1>2
  <2> QED BY <2>1 DEF R
<1> QED BY <1>3

(* Induction, for a property given as the set of numbers that have it. *)
LEMMA AllNumbers ==
  ASSUME NEW K \in SUBSET Nat, 0 \in K, \A k \in K : k + 1 \in K
  PROVE  K = Nat
<1> SUFFICES ASSUME Nat \ K # {} PROVE FALSE
  OBVIOUS
<1>1. PICK x \in Nat \ K : \A y \in Nat \ K : x <= y
  BY LeastOf
<1>2. x # 0 /\ x - 1 \in Nat /\ x - 1 \notin Nat \ K
  BY <1>1
<1> QED BY <1>1, <1>2

(* The element that MapThenSumSet takes out of a set first. *)
First(s) == CHOOSE x \in s : TRUE

(* Induction for a property of finite sets, given as the set of those that *)
(* have it: it passes to a set from what is left without its first element.*)
LEMMA AllSubsets ==
  ASSUME NEW S, IsFiniteSet(S), NEW Good \in SUBSET SUBSET S, {} \in Good,
         \A s \in SUBSET S : s # {} /\ s \ {First(s)} \in Good => s \in Good
  PROVE  Good = SUBSET S
<1> DEFINE Sizes == {Cardinality(s) : s \in (SUBSET S) \ Good}
<1> SUFFICES ASSUME (SUBSET S) \ Good # {} PROVE FALSE
  OBVIOUS
<1>1. \A s \in SUBSET S : IsFiniteSet(s) /\ Cardinality(s) \in Nat
  BY FS_Subset, FS_CardinalityType
<1>2. Sizes \in SUBSET Nat /\ Sizes # {}
  BY <1>1
<1>3. PICK s \in (SUBSET S) \ Good :
         \A t \in (SUBSET S) \ Good : Cardinality(s) <= Cardinality(t)
  <2>1. PICK k \in Sizes : \A m \in Sizes : k <= m
    <3> HIDE DEF Sizes
    <3> QED BY <1>2, LeastOf
  <2> QED BY <2>1
<1>4. s # {} /\ First(s) \in s
  <2>1. s # {}
    BY <1>3
  <2> QED BY <2>1 DEF First
<1>5. Cardinality(s \ {First(s)}) = Cardinality(s) - 1
  BY <1>1, <1>3, <1>4, FS_RemoveElement
<1>6. s \ {First(s)} \notin Good
  BY <1>3, <1>4
<1>7. s \ {First(s)} \in (SUBSET S) \ Good
  BY <1>6
<1> QED BY <1>1, <1>3, <1>5, <1>7

(* The equation of the fold behind MapThenSumSet. *)
Adds(g, t, S) ==
    g = [s \in SUBSET S |-> IF s = {} THEN 0
                            ELSE t[First(s)] + g[s \ {First(s)}]]

(* The sum of t[x] over the elements x of S. *)
Total(t, S) == (CHOOSE g : Adds(g, t, S))[S]

(* It has a solution: one for the sets of up to k elements for every k. *)
LEMMA AddsSolved ==
  ASSUME NEW S, IsFiniteSet(S), NEW t \in [S -> Int]
  PROVE  \E g : Adds(g, t, S)
<1> DEFINE Small(k) == {s \in SUBSET S : Cardinality(s) <= k}
           Solves(g, k) == \A s \in Small(k) :
                              g[s] = IF s = {} THEN 0
                                     ELSE t[First(s)] + g[s \ {First(s)}]
           K == {k \in Nat : \E g \in [Small(k) -> Int] : Solves(g, k)}
<1>1. \A s \in SUBSET S : IsFiniteSet(s) /\ Cardinality(s) \in Nat
  BY FS_Subset, FS_CardinalityType
<1>2. \A s \in SUBSET S : s # {} =>
         /\ First(s) \in s /\ s \ {First(s)} \in SUBSET S
         /\ Cardinality(s \ {First(s)}) = Cardinality(s) - 1
  BY <1>1, FS_RemoveElement DEF First
<1>3. 0 \in K
  <2>1. Small(0) = {{}}
    BY <1>1, FS_EmptySet
  <2>2. [s \in Small(0) |-> 0] \in [Small(0) -> Int]
    OBVIOUS
  <2>3. Solves([s \in Small(0) |-> 0], 0)
    BY <2>1
  <2> QED BY <2>2, <2>3
<1>4. ASSUME NEW k \in K PROVE k + 1 \in K
  <2>1. PICK g \in [Small(k) -> Int] : Solves(g, k)
    OBVIOUS
  <2> DEFINE h == [s \in Small(k + 1) |->
                     IF s = {} THEN 0 ELSE t[First(s)] + g[s \ {First(s)}]]
  <2>2. \A s \in Small(k + 1) : s # {} => s \ {First(s)} \in Small(k)
    BY <1>1, <1>2
  <2>3. h \in [Small(k + 1) -> Int]
    BY <1>2, <2>2
  <2>4. Small(k) \subseteq Small(k + 1)
    BY <1>1
  <2>5. \A s \in Small(k) : h[s] = g[s]
    BY <2>1, <2>4
  <2>6. Solves(h, k + 1)
    BY <2>2, <2>5, <2>4
  <2> HIDE DEF h, Small, Solves
  <2>7. k + 1 \in Nat
    BY DEF K
  <2> QED BY <2>3, <2>6, <2>7 DEF K
<1>5. K = Nat
  <2> HIDE DEF K
  <2>1. K \in SUBSET Nat
    BY DEF K
  <2> QED BY <1>3, <1>4, <2>1, AllNumbers
<1>6. Cardinality(S) \in K
  BY <1>1, <1>5
<1>7. Small(Cardinality(S)) = SUBSET S
  BY FS_Subset
<1>8. PICK g \in [SUBSET S -> Int] : Solves(g, Cardinality(S))
  BY <1>6, <1>7
<1>9. Adds(g, t, S)
  BY <1>7, <1>8 DEF Adds
<1> QED BY <1>9

(* Its values are whole numbers if the terms are. *)
LEMMA AddsType ==
  ASSUME NEW S, IsFiniteSet(S), NEW t \in [S -> Int], NEW g, Adds(g, t, S)
  PROVE  \A s \in SUBSET S : g[s] \in Int
<1> DEFINE Good == {s \in SUBSET S : g[s] \in Int}
<1>1. g[{}] = 0
  BY DEF Adds
<1>2. ASSUME NEW s \in SUBSET S, s # {}, s \ {First(s)} \in Good
      PROVE  s \in Good
  <2>1. g[s] = t[First(s)] + g[s \ {First(s)}]
    BY <1>2 DEF Adds
  <2>2. First(s) \in S
    BY <1>2 DEF First
  <2> QED BY <1>2, <2>1, <2>2
<1>3. Good = SUBSET S
  <2>1. {} \in Good /\ Good \in SUBSET SUBSET S
    BY <1>1
  <2> HIDE DEF Good
  <2> QED BY <1>2, <2>1, AllSubsets
<1> QED BY <1>3

(* A sum of whole numbers is one. *)
LEMMA TotalType ==
  ASSUME NEW S, IsFiniteSet(S), NEW t \in [S -> Int]
  PROVE  Total(t, S) \in Int
<1> DEFINE g == CHOOSE g : Adds(g, t, S)
<1>1. Adds(g, t, S)
  BY AddsSolved
<1> HIDE DEF g
<1>2. g[S] \in Int
  BY <1>1, AddsType
<1> QED BY <1>2 DEF Total, g

(* A factor of all terms is one of their sum. *)
LEMMA TotalScales ==
  ASSUME NEW S, IsFiniteSet(S), NEW t \in [S -> Int], NEW a \in Int,
         NEW u \in [S -> Int], \A x \in S : u[x] = a * t[x]
  PROVE  Total(u, S) = a * Total(t, S)
<1> DEFINE g == CHOOSE g : Adds(g, t, S)
           h == CHOOSE h : Adds(h, u, S)
<1>1. Adds(g, t, S) /\ Adds(h, u, S)
  BY AddsSolved
<1> HIDE DEF g, h
<1> DEFINE Good == {s \in SUBSET S : h[s] = a * g[s]}
<1>2. g[{}] = 0 /\ h[{}] = 0
  BY <1>1 DEF Adds
<1>3. ASSUME NEW s \in SUBSET S, s # {}, s \ {First(s)} \in Good
      PROVE  s \in Good
  <2> DEFINE r == s \ {First(s)}
  <2>1. g[s] = t[First(s)] + g[r] /\ h[s] = u[First(s)] + h[r]
    BY <1>1, <1>3 DEF Adds
  <2>2. First(s) \in S
    BY <1>3 DEF First
  <2>3. u[First(s)] = a * t[First(s)] /\ t[First(s)] \in Int
    BY <2>2
  <2>4. g[r] \in Int /\ h[r] = a * g[r]
    BY <1>1, <1>3, AddsType
  <2> HIDE DEF r
  <2>5. h[s] = a * t[First(s)] + a * g[r]
    BY <2>1, <2>3, <2>4
  <2>6. a * t[First(s)] + a * g[r] = a * (t[First(s)] + g[r])
    BY <2>3, <2>4
  <2> QED BY <2>1, <2>5, <2>6
<1>4. Good = SUBSET S
  <2>1. {} \in Good /\ Good \in SUBSET SUBSET S
    BY <1>2
  <2> HIDE DEF Good
  <2> QED BY <1>3, <2>1, AllSubsets
<1> QED BY <1>4 DEF Total, g, h

(* A sum of natural numbers is one, and zero only if all of them are. *)
LEMMA TotalOfNaturals ==
  ASSUME NEW S, IsFiniteSet(S), NEW t \in [S -> Nat]
  PROVE  /\ Total(t, S) \in Nat
         /\ Total(t, S) = 0 => \A x \in S : t[x] = 0
<1> DEFINE g == CHOOSE g : Adds(g, t, S)
<1>1. Adds(g, t, S)
  BY AddsSolved
<1> HIDE DEF g
<1> DEFINE Good == {s \in SUBSET S : /\ g[s] \in Nat
                                     /\ g[s] = 0 => \A x \in s : t[x] = 0}
<1>2. g[{}] = 0
  BY <1>1 DEF Adds
<1>3. ASSUME NEW s \in SUBSET S, s # {}, s \ {First(s)} \in Good
      PROVE  s \in Good
  <2> DEFINE r == s \ {First(s)}
  <2>1. g[s] = t[First(s)] + g[r]
    BY <1>1, <1>3 DEF Adds
  <2>2. First(s) \in s
    BY <1>3 DEF First
  <2>3. t[First(s)] \in Nat
    BY <2>2
  <2>4. g[r] \in Nat /\ (g[r] = 0 => \A x \in r : t[x] = 0)
    BY <1>3
  <2>5. s = r \cup {First(s)}
    BY <2>2
  <2> HIDE DEF r
  <2> QED BY <2>1, <2>3, <2>4, <2>5
<1>4. Good = SUBSET S
  <2>1. {} \in Good /\ Good \in SUBSET SUBSET S
    BY <1>2
  <2> HIDE DEF Good
  <2> QED BY <1>3, <2>1, AllSubsets
<1> QED BY <1>4 DEF Total, g

-----------------------------------------------------------------------------
(* The terms that the loop of regression_analysis adds up. *)
Products(w, sx, sy, n, used) ==
    [i \in used |-> DeviationX(w, n, sx, i) * DeviationY(w, n, sy, i)]
Squares(w, sx, n, used) ==
    [i \in used |-> DeviationX(w, n, sx, i) * DeviationX(w, n, sx, i)]

(* numerator is the sum of the products: the two loops add the same terms. *)
LEMMA Numerator ==
  ASSUME NEW w, NEW sx, NEW sy, NEW n, NEW used
  PROVE  MapThenSumSet(LAMBDA i : DeviationX(w, n, sx, i)
                                  * DeviationY(w, n, sy, i), used)
         = Total(Products(w, sx, sy, n, used), used)
<1> DEFINE t == Products(w, sx, sy, n, used)
           term(i) == DeviationX(w, n, sx, i) * DeviationY(w, n, sy, i)
           Loop(g) == g = [s \in SUBSET used |->
                             IF s = {} THEN 0
                             ELSE term(First(s)) + g[s \ {First(s)}]]
<1>1. \A s \in SUBSET used : s # {} => First(s) \in used
  BY DEF First
<1>2. \A x \in used : t[x] = term(x)
  BY DEF Products
<1> HIDE DEF t, term
<1>3. ASSUME NEW g PROVE Adds(g, t, used) <=> Loop(g)
  BY <1>1, <1>2 DEF Adds
<1>4. (CHOOSE g : Adds(g, t, used)) = (CHOOSE g : Loop(g))
  <2> HIDE DEF Loop
  <2> QED BY <1>3, Zenon
<1>5. MapThenSumSet(LAMBDA i : term(i), used) = (CHOOSE g : Loop(g))[used]
  BY DEF MapThenSumSet, MapThenFoldSet, First
<1> QED BY <1>4, <1>5 DEF Total, term, t

(* And denominator: the same for the squares. *)
LEMMA Denominator ==
  ASSUME NEW w, NEW sx, NEW n, NEW used
  PROVE  MapThenSumSet(LAMBDA i : DeviationX(w, n, sx, i)
                                  * DeviationX(w, n, sx, i), used)
         = Total(Squares(w, sx, n, used), used)
<1> DEFINE t == Squares(w, sx, n, used)
           term(i) == DeviationX(w, n, sx, i) * DeviationX(w, n, sx, i)
           Loop(g) == g = [s \in SUBSET used |->
                             IF s = {} THEN 0
                             ELSE term(First(s)) + g[s \ {First(s)}]]
<1>1. \A s \in SUBSET used : s # {} => First(s) \in used
  BY DEF First
<1>2. \A x \in used : t[x] = term(x)
  BY DEF Squares
<1> HIDE DEF t, term
<1>3. ASSUME NEW g PROVE Adds(g, t, used) <=> Loop(g)
  BY <1>1, <1>2 DEF Adds
<1>4. (CHOOSE g : Adds(g, t, used)) = (CHOOSE g : Loop(g))
  <2> HIDE DEF Loop
  <2> QED BY <1>3, Zenon
<1>5. MapThenSumSet(LAMBDA i : term(i), used) = (CHOOSE g : Loop(g))[used]
  BY DEF MapThenSumSet, MapThenFoldSet, First
<1> QED BY <1>4, <1>5 DEF Total, term, t

(* So Predict can be computed with sums of functions. *)
LEMMA PredictTotals ==
  ASSUME NEW w, NEW sx, NEW sy, NEW n, NEW used
  PROVE  Predict(w, sx, sy, n, used) =
         LET numerator   == Total(Products(w, sx, sy, n, used), used)
             denominator == Total(Squares(w, sx, n, used), used)
             last        == GetQueueLast(w)
         IN  IF denominator = 0 THEN last
             ELSE Truncate(sy * denominator + numerator * (n * last - sx),
                           n * denominator)
<1> DEFINE num == MapThenSumSet(LAMBDA i : DeviationX(w, n, sx, i)
                                           * DeviationY(w, n, sy, i), used)
           den == MapThenSumSet(LAMBDA i : DeviationX(w, n, sx, i)
                                           * DeviationX(w, n, sx, i), used)
<1>1. Predict(w, sx, sy, n, used) =
         IF den = 0 THEN GetQueueLast(w)
         ELSE Truncate(sy * den + num * (n * GetQueueLast(w) - sx), n * den)
  BY DEF Predict, MapThenSumSet, MapThenFoldSet
<1>2. num = Total(Products(w, sx, sy, n, used), used)
  BY Numerator
<1>3. den = Total(Squares(w, sx, n, used), used)
  BY Denominator
<1> HIDE DEF num, den
<1> QED BY <1>1, <1>2, <1>3

(* Products of whole numbers, step by step: the squares ... *)
LEMMA SquareIsNatural ==
  ASSUME NEW x \in Int
  PROVE  x * x \in Nat /\ (x * x = 0 => x = 0)
<1>1. CASE x >= 0
  BY <1>1
<1>2. CASE x < 0
  <2>1. (-x) * (-x) = x * x
    OBVIOUS
  <2>2. -x \in Nat /\ (-x) * (-x) \in Nat
    BY <1>2
  <2> QED BY <1>2, <2>1, <2>2
<1> QED BY <1>1, <1>2

(* ... the quotient of a multiple ... *)
LEMMA QuotientExact ==
  ASSUME NEW k \in Int, NEW c \in Nat \ {0}
  PROVE  (k * c) \div c = k
<1> DEFINE d == (k * c) \div c
           r == (k * c) % c
<1>1. k * c \in Int /\ d \in Int /\ r \in 0 .. c - 1 /\ k * c = c * d + r
  OBVIOUS
<1> HIDE DEF d, r
<1>2. c * (k - d) = r
  BY <1>1
<1>3. CASE k - d >= 1
  <2>1. c * (k - d) >= c
    BY <1>1, <1>3
  <2> QED BY <1>1, <1>2, <2>1
<1>4. CASE k - d <= -1
  <2>1. c * (k - d) <= -c
    BY <1>1, <1>4
  <2> QED BY <1>1, <1>2, <2>1
<1>5. CASE k = d
  BY <1>5 DEF d
<1> QED BY <1>1, <1>3, <1>4, <1>5

(* The conversion to int gives back a whole number, also below zero. *)
LEMMA TruncateExact ==
  ASSUME NEW k \in Int, NEW c \in Nat \ {0}
  PROVE  Truncate(k * c, c) = k
<1>1. CASE k * c >= 0
  BY <1>1, QuotientExact DEF Truncate
<1>2. CASE ~(k * c >= 0)
  <2>1. -(k * c) = (-k) * c /\ -k \in Int
    OBVIOUS
  <2>2. (-(k * c)) \div c = -k
    BY <2>1, QuotientExact
  <2> QED BY <1>2, <2>2 DEF Truncate
<1> QED BY <1>1, <1>2

(* And of any number it makes a whole one. *)
LEMMA TruncateType ==
  ASSUME NEW x \in Int, NEW c \in Nat \ {0}
  PROVE  Truncate(x, c) \in Int
BY DEF Truncate

(* A queue of n + 1 counts, that is n pairs. *)
Window(w, n) ==
    /\ n \in Nat \ {0}
    /\ GetQueueNum(w) = n + 1
    /\ \A k \in 1 .. n + 1 : GetQueueElem(w, k) \in Int

(* The terms of the two sums over a window. *)
LEMMA Deviations ==
  ASSUME NEW w, NEW n, Window(w, n), NEW sx \in Int, NEW sy \in Int,
         NEW used, used \subseteq 1 .. n
  PROVE  /\ IsFiniteSet(used)
         /\ Products(w, sx, sy, n, used) \in [used -> Int]
         /\ Squares(w, sx, n, used) \in [used -> Nat]
         /\ \A i \in used : /\ DeviationX(w, n, sx, i) \in Int
                            /\ DeviationY(w, n, sy, i) \in Int
<1>1. IsFiniteSet(used)
  <2>1. 1 \in Int /\ n \in Int
    BY DEF Window
  <2>2. IsFiniteSet(1 .. n)
    BY <2>1, FS_Interval
  <2> QED BY <2>2, FS_Subset
<1>2. ASSUME NEW i \in used
      PROVE  /\ DeviationX(w, n, sx, i) \in Int
             /\ DeviationY(w, n, sy, i) \in Int
  <2>1. /\ GetQueueElem(w, i) \in Int /\ GetQueueElem(w, i + 1) \in Int
        /\ n \in Int
    BY DEF Window
  <2> QED BY <2>1 DEF DeviationX, DeviationY
<1>3. \A i \in used : DeviationX(w, n, sx, i) * DeviationX(w, n, sx, i) \in Nat
  BY <1>2, SquareIsNatural
<1>4. \A i \in used : DeviationX(w, n, sx, i) * DeviationY(w, n, sy, i) \in Int
  BY <1>2
<1> QED BY <1>1, <1>2, <1>3, <1>4 DEF Products, Squares

(* Whatever the pairs used, the value of the line is a whole number. *)
LEMMA PredictType ==
  ASSUME NEW w, NEW n, Window(w, n), NEW sx \in Int, NEW sy \in Int,
         NEW used, used \subseteq 1 .. n
  PROVE  Predict(w, sx, sy, n, used) \in Int
<1> DEFINE num  == Total(Products(w, sx, sy, n, used), used)
           den  == Total(Squares(w, sx, n, used), used)
           last == GetQueueLast(w)
<1>1. num \in Int /\ den \in Nat
  BY Deviations, TotalType, TotalOfNaturals
<1>2. last \in Int /\ n \in Nat \ {0}
  BY DEF Window, GetQueueLast
<1>3. Predict(w, sx, sy, n, used) =
         IF den = 0 THEN last
         ELSE Truncate(sy * den + num * (n * last - sx), n * den)
  BY PredictTotals
<1> HIDE DEF num, den, last
<1>4. CASE den # 0
  <2>1. n * den \in Nat \ {0}
    BY <1>1, <1>2, <1>4
  <2>2. sy * den + num * (n * last - sx) \in Int
    BY <1>1, <1>2
  <2> QED BY <1>3, <1>4, <2>1, <2>2, TruncateType
<1> QED BY <1>2, <1>3, <1>4

(* The pairs used lie on the line a * x + b and are not all one point, and *)
(* the line goes through the averages of all n pairs.                      *)
OnLine(w, sx, sy, n, used, a, b) ==
    /\ Window(w, n) /\ sx \in Int /\ sy \in Int /\ used \subseteq 1 .. n
    /\ a \in Int /\ b \in Int
    /\ \A i \in used : GetQueueElem(w, i + 1) = a * GetQueueElem(w, i) + b
    /\ sy = a * sx + n * b
    /\ \E i \in used : n * GetQueueElem(w, i) # sx

(* Then that is the line of Predict. *)
LEMMA PredictLine ==
  ASSUME NEW w, NEW sx, NEW sy, NEW n, NEW used, NEW a, NEW b,
         OnLine(w, sx, sy, n, used, a, b)
  PROVE  Predict(w, sx, sy, n, used) = a * GetQueueLast(w) + b
<1> USE DEF OnLine
<1> DEFINE num  == Total(Products(w, sx, sy, n, used), used)
           den  == Total(Squares(w, sx, n, used), used)
           last == GetQueueLast(w)
<1>1. num \in Int /\ den \in Nat
  BY Deviations, TotalType, TotalOfNaturals
<1>2. last \in Int /\ n \in Nat \ {0}
  BY DEF Window, GetQueueLast
<1>3. Predict(w, sx, sy, n, used) =
         IF den = 0 THEN last
         ELSE Truncate(sy * den + num * (n * last - sx), n * den)
  BY PredictTotals
<1>4. den # 0
  <2>1. PICK i \in used : n * GetQueueElem(w, i) # sx
    OBVIOUS
  <2>2. DeviationX(w, n, sx, i) # 0 /\ DeviationX(w, n, sx, i) \in Int
    <3>1. GetQueueElem(w, i) \in Int
      BY DEF Window
    <3>2. n * GetQueueElem(w, i) \in Int
      BY <1>2, <3>1
    <3>3. DeviationX(w, n, sx, i) = n * GetQueueElem(w, i) - sx
      BY DEF DeviationX
    <3> QED BY <2>1, <3>2, <3>3
  <2>3. Squares(w, sx, n, used)[i] # 0
    BY <2>2, SquareIsNatural DEF Squares
  <2> QED BY <2>3, Deviations, TotalOfNaturals
<1>5. num = a * den
  <2> DEFINE u == Products(w, sx, sy, n, used)
             t == Squares(w, sx, n, used)
  <2>1. ASSUME NEW i \in used PROVE u[i] = a * t[i]
    <3> DEFINE x == GetQueueElem(w, i)
               dx == DeviationX(w, n, sx, i)
               dy == DeviationY(w, n, sy, i)
    <3>1. x \in Int /\ GetQueueElem(w, i + 1) = a * x + b /\ n \in Int
      BY DEF Window
    <3>2. dx = n * x - sx /\ dy = n * (a * x + b) - (a * sx + n * b)
      BY <3>1 DEF DeviationX, DeviationY
    <3>3. u[i] = dx * dy /\ t[i] = dx * dx
      BY DEF Products, Squares
    <3> HIDE DEF x, dx, dy, u, t
    <3>4. dx \in Int /\ dy = a * dx
      <4>1. n * (a * x + b) = a * (n * x) + n * b
        BY <3>1
      <4>2. /\ n * x \in Int /\ a * (n * x) \in Int
            /\ a * sx \in Int /\ n * b \in Int
        BY <3>1
      <4>3. dy = a * (n * x) - a * sx
        BY <3>2, <4>1, <4>2
      <4>4. a * (n * x) - a * sx = a * (n * x - sx)
        BY <4>2
      <4> QED BY <3>2, <4>2, <4>3, <4>4
    <3>5. dx * (a * dx) = a * (dx * dx)
      BY <3>4
    <3> QED BY <3>3, <3>4, <3>5
  <2>2. u \in [used -> Int] /\ t \in [used -> Nat] /\ IsFiniteSet(used)
    BY Deviations
  <2> HIDE DEF u, t
  <2>4. t \in [used -> Int]
    BY <2>2
  <2>3. Total(u, used) = a * Total(t, used)
    BY <2>1, <2>2, <2>4, TotalScales
  <2> QED BY <2>3 DEF u, t
<1> HIDE DEF num, den, last
<1>6. sy * den + num * (n * last - sx) = (a * last + b) * (n * den)
  <2>1. /\ a * sx \in Int /\ n * b \in Int
        /\ n * last \in Int /\ a * den \in Int
    BY <1>1, <1>2
  <2>2. sy * den = (a * sx) * den + (n * b) * den
    BY <1>1, <2>1
  <2>3. num * (n * last - sx) = (a * den) * (n * last) - (a * den) * sx
    BY <1>5, <2>1
  <2>4. (a * sx) * den = (a * den) * sx
    BY <1>1
  <2>5. (a * den) * (n * last) = (a * last) * (n * den)
    BY <1>1, <1>2
  <2>6. (n * b) * den = b * (n * den)
    BY <1>1, <1>2
  <2>7. (a * last + b) * (n * den) = (a * last) * (n * den) + b * (n * den)
    <3>1. a * last \in Int /\ n * den \in Int
      BY <1>1, <1>2
    <3> QED BY <3>1
  <2>8. /\ (a * den) * sx \in Int /\ (a * last) * (n * den) \in Int
        /\ b * (n * den) \in Int
    BY <1>1, <1>2
  <2> QED BY <2>2, <2>3, <2>4, <2>5, <2>6, <2>7, <2>8
<1>7. n * den \in Nat \ {0} /\ a * last + b \in Int
  BY <1>1, <1>2, <1>4
<1>8. Truncate((a * last + b) * (n * den), n * den) = a * last + b
  BY <1>7, TruncateExact
<1> QED BY <1>3, <1>4, <1>6, <1>8 DEF last

(* Pairs that all lie on the average leave no slope: the last count stands. *)
LEMMA PredictFlat ==
  ASSUME NEW w, NEW n, Window(w, n), NEW sx \in Int, NEW sy \in Int,
         NEW used, used \subseteq 1 .. n,
         \A i \in used : n * GetQueueElem(w, i) = sx
  PROVE  Predict(w, sx, sy, n, used) = GetQueueLast(w)
<1> DEFINE t == Squares(w, sx, n, used)
<1>1. t \in [used -> Nat] /\ IsFiniteSet(used)
  BY Deviations
<1>2. ASSUME NEW i \in used PROVE t[i] = 0
  <2>1. DeviationX(w, n, sx, i) = n * GetQueueElem(w, i) - sx
    BY DEF DeviationX
  <2>2. DeviationX(w, n, sx, i) = 0
    BY <2>1
  <2> QED BY <2>2 DEF Squares
<1> HIDE DEF t
<1>3. t \in [used -> Int] /\ \A i \in used : t[i] = 2 * t[i]
  BY <1>1, <1>2
<1>4. /\ Total(t, used) \in Int
      /\ \A a \in Int : (\A i \in used : t[i] = a * t[i])
                          => Total(t, used) = a * Total(t, used)
  BY <1>1, <1>3, TotalScales, TotalType
<1>5. Total(t, used) = 2 * Total(t, used)
  BY <1>3, <1>4
<1>6. Total(t, used) = 0
  BY <1>4, <1>5
<1> QED BY <1>6, PredictTotals DEF t

-----------------------------------------------------------------------------
(* Running totals u of counts on a line: the sum of all counts but the     *)
(* first is the line at the sum of all but the last.                       *)
LEMMA SumsOfLine ==
  ASSUME NEW n \in Nat, NEW u, \A i \in 1 .. n + 2 : u[i] \in Int,
         NEW a \in Int, NEW b \in Int,
         \A k \in 1 .. n : u[k + 2] - u[k + 1] = a * (u[k + 1] - u[k]) + b
  PROVE  u[n + 2] - u[2] = a * (u[n + 1] - u[1]) + n * b
<1> DEFINE K == {k \in Nat : k <= n =>
                    u[k + 2] - u[2] = a * (u[k + 1] - u[1]) + k * b}
<1>1. 0 \in K
  <2>1. u[1] \in Int /\ u[2] \in Int
    OBVIOUS
  <2>2. u[2] - u[2] = 0 /\ u[1] - u[1] = 0
    BY <2>1
  <2> QED BY <2>2
<1>2. ASSUME NEW k \in K PROVE k + 1 \in K
  <2> SUFFICES ASSUME k + 1 <= n
               PROVE  u[k + 3] - u[2] = a * (u[k + 2] - u[1]) + (k + 1) * b
    <3>1. (k + 1) + 2 = k + 3 /\ (k + 1) + 1 = k + 2 /\ k + 1 \in Nat
      OBVIOUS
    <3> QED BY <3>1
  <2>1. k \in Nat /\ k + 1 \in 1 .. n
    OBVIOUS
  <2>2. /\ 1 \in 1 .. n + 2 /\ 2 \in 1 .. n + 2 /\ k + 1 \in 1 .. n + 2
        /\ k + 2 \in 1 .. n + 2 /\ k + 3 \in 1 .. n + 2
        /\ (k + 1) + 2 = k + 3 /\ (k + 1) + 1 = k + 2
    BY <2>1
  <2>3. u[k + 3] - u[k + 2] = a * (u[k + 2] - u[k + 1]) + b
    BY <2>1, <2>2
  <2>4. u[k + 2] - u[2] = a * (u[k + 1] - u[1]) + k * b
    BY <2>1
  <2> DEFINE x == u[k + 2] - u[k + 1]
             y == u[k + 1] - u[1]
  <2>5. /\ u[1] \in Int /\ u[2] \in Int /\ u[k + 1] \in Int
        /\ u[k + 2] \in Int /\ u[k + 3] \in Int
    BY <2>2
  <2>6. x \in Int /\ y \in Int /\ u[k + 2] - u[1] = x + y
    BY <2>5
  <2> HIDE DEF x, y
  <2>7. a * (x + y) = a * x + a * y /\ a * x \in Int /\ a * y \in Int
    BY <2>6
  <2>8. (k + 1) * b = k * b + b /\ k * b \in Int
    BY <2>1
  <2>9. u[k + 3] - u[k + 2] = a * x + b /\ u[k + 2] - u[2] = a * y + k * b
    BY <2>3, <2>4 DEF x, y
  <2> QED BY <2>5, <2>6, <2>7, <2>8, <2>9
<1>3. K = Nat
  <2>1. K \in SUBSET Nat
    OBVIOUS
  <2> HIDE DEF K
  <2> QED BY <1>1, <1>2, <2>1, AllNumbers
<1> QED BY <1>3

(* And of counts that are all c but the last.                              *)
LEMMA SumOfConstant ==
  ASSUME NEW n \in Nat \ {0}, NEW u, \A i \in 1 .. n + 1 : u[i] \in Int,
         NEW c \in Int, \A k \in 1 .. n - 1 : u[k + 1] - u[k] = c
  PROVE  u[n] - u[1] = (n - 1) * c
<1> DEFINE K == {k \in Nat : k <= n - 1 => u[k + 1] - u[1] = k * c}
<1>1. 0 \in K
  <2>1. u[1] \in Int
    OBVIOUS
  <2> QED BY <2>1
<1>2. ASSUME NEW k \in K PROVE k + 1 \in K
  <2> SUFFICES ASSUME k + 1 <= n - 1
               PROVE  u[k + 2] - u[1] = (k + 1) * c
    <3>1. (k + 1) + 1 = k + 2 /\ k + 1 \in Nat
      OBVIOUS
    <3> QED BY <3>1
  <2>1. /\ k \in Nat /\ k + 1 \in 1 .. n - 1 /\ (k + 1) + 1 = k + 2
        /\ u[1] \in Int /\ u[k + 1] \in Int /\ u[k + 2] \in Int
    OBVIOUS
  <2>2. u[k + 2] - u[k + 1] = c /\ u[k + 1] - u[1] = k * c
    BY <2>1
  <2>3. (k + 1) * c = k * c + c /\ k * c \in Int
    BY <2>1
  <2> QED BY <2>1, <2>2, <2>3
<1>3. K = Nat
  <2>1. K \in SUBSET Nat
    OBVIOUS
  <2> HIDE DEF K
  <2> QED BY <1>1, <1>2, <2>1, AllNumbers
<1>4. n - 1 \in Nat /\ (n - 1) + 1 = n
  OBVIOUS
<1>5. n - 1 \in K
  <2> HIDE DEF K
  <2> QED BY <1>3, <1>4
<1> QED BY <1>4, <1>5

-----------------------------------------------------------------------------
(* Each term of u is one of t and one of v. *)
Splits(u, t, v, S) ==
    /\ t \in [S -> Int] /\ v \in [S -> Int] /\ u \in [S -> Int]
    /\ \A x \in S : u[x] = t[x] + v[x]

(* Terms added one by one can be added as two sums. *)
LEMMA TotalAdds ==
  ASSUME NEW S, IsFiniteSet(S), NEW u, NEW t, NEW v, Splits(u, t, v, S)
  PROVE  Total(u, S) = Total(t, S) + Total(v, S)
<1> USE DEF Splits
<1> DEFINE f == CHOOSE e : Adds(e, t, S)
           g == CHOOSE e : Adds(e, v, S)
           h == CHOOSE e : Adds(e, u, S)
<1>1. Adds(f, t, S) /\ Adds(g, v, S) /\ Adds(h, u, S)
  BY AddsSolved
<1> HIDE DEF f, g, h
<1> DEFINE Good == {s \in SUBSET S : h[s] = f[s] + g[s]}
<1>2. f[{}] = 0 /\ g[{}] = 0 /\ h[{}] = 0
  BY <1>1 DEF Adds
<1>3. ASSUME NEW s \in SUBSET S, s # {}, s \ {First(s)} \in Good
      PROVE  s \in Good
  <2> DEFINE r == s \ {First(s)}
             x == First(s)
  <2>1. f[s] = t[x] + f[r] /\ g[s] = v[x] + g[r] /\ h[s] = u[x] + h[r]
    BY <1>1, <1>3 DEF Adds
  <2>2. x \in S
    BY <1>3 DEF First
  <2>3. u[x] = t[x] + v[x] /\ t[x] \in Int /\ v[x] \in Int
    BY <2>2
  <2>4. f[r] \in Int /\ g[r] \in Int /\ h[r] = f[r] + g[r]
    BY <1>1, <1>3, AddsType
  <2> HIDE DEF r, x
  <2>5. h[s] = f[s] + g[s]
    BY <2>1, <2>3, <2>4
  <2> QED BY <1>3, <2>5
<1>4. Good = SUBSET S
  <2>1. {} \in Good /\ Good \in SUBSET SUBSET S
    BY <1>2
  <2> HIDE DEF Good
  <2> QED BY <1>3, <2>1, AllSubsets
<1> QED BY <1>4 DEF Total, f, g, h

(* A sum with one term that counts is that term. *)
LEMMA TotalOfOne ==
  ASSUME NEW S, IsFiniteSet(S), NEW t \in [S -> Int], NEW e \in S,
         \A x \in S : x # e => t[x] = 0
  PROVE  Total(t, S) = t[e]
<1> DEFINE g == CHOOSE g : Adds(g, t, S)
<1>1. Adds(g, t, S)
  BY AddsSolved
<1> HIDE DEF g
<1> DEFINE Good == {s \in SUBSET S : g[s] = IF e \in s THEN t[e] ELSE 0}
<1>2. g[{}] = 0
  BY <1>1 DEF Adds
<1>3. ASSUME NEW s \in SUBSET S, s # {}, s \ {First(s)} \in Good
      PROVE  s \in Good
  <2> DEFINE r == s \ {First(s)}
             x == First(s)
  <2>1. g[s] = t[x] + g[r]
    BY <1>1, <1>3 DEF Adds
  <2>2. x \in s
    BY <1>3 DEF First
  <2>3. g[r] = IF e \in r THEN t[e] ELSE 0
    BY <1>3
  <2>4. t[e] \in Int
    OBVIOUS
  <2>5. CASE x = e
    <3>1. e \in s /\ e \notin r
      BY <2>2, <2>5
    <3> QED BY <2>1, <2>3, <2>4, <2>5, <3>1
  <2>6. CASE x # e
    <3>1. (e \in s <=> e \in r) /\ t[x] = 0
      BY <2>2, <2>6
    <3> HIDE DEF r
    <3> QED BY <2>1, <2>3, <2>4, <3>1
  <2> QED BY <2>5, <2>6
<1>4. Good = SUBSET S
  <2>1. {} \in Good /\ Good \in SUBSET SUBSET S
    BY <1>2
  <2> HIDE DEF Good
  <2> QED BY <1>3, <2>1, AllSubsets
<1>5. g[S] = t[e]
  BY <1>4
<1> QED BY <1>5 DEF Total, g

(* A sum of zeros is zero. *)
LEMMA TotalOfZeros ==
  ASSUME NEW S, IsFiniteSet(S), NEW t \in [S -> Int], \A x \in S : t[x] = 0
  PROVE  Total(t, S) = 0
<1>1. \A x \in S : t[x] = 0 * t[x]
  OBVIOUS
<1>2. Total(t, S) = 0 * Total(t, S)
  BY <1>1, TotalScales
<1> QED BY <1>2, TotalType

(* The counts of a window, added up, are what the running total u gained.  *)
LEMMA TotalOfGains ==
  ASSUME NEW n \in Nat, NEW u, \A i \in 1 .. n + 1 : u[i] \in Int,
         NEW t \in [1 .. n -> Int], \A k \in 1 .. n : t[k] = u[k + 1] - u[k]
  PROVE  Total(t, 1 .. n) = u[n + 1] - u[1]
<1> DEFINE S == 1 .. n
           part(k) == [x \in S |-> IF x <= k THEN t[x] ELSE 0]
           point(k) == [x \in S |-> IF x = k THEN t[x] ELSE 0]
           K == {k \in Nat : k <= n => Total(part(k), S) = u[k + 1] - u[1]}
<1>1. IsFiniteSet(S)
  BY FS_Interval
<1>2. \A k \in Nat : part(k) \in [S -> Int] /\ point(k) \in [S -> Int]
  OBVIOUS
<1>3. 0 \in K
  <2>1. \A x \in S : part(0)[x] = 0
    OBVIOUS
  <2>2. u[1] \in Int
    OBVIOUS
  <2> HIDE DEF part
  <2>3. Total(part(0), S) = 0
    BY <1>1, <1>2, <2>1, TotalOfZeros
  <2> QED BY <2>2, <2>3
<1>4. ASSUME NEW k \in K PROVE k + 1 \in K
  <2> SUFFICES ASSUME k + 1 <= n
               PROVE  Total(part(k + 1), S) = u[(k + 1) + 1] - u[1]
    OBVIOUS
  <2>1. k \in Nat /\ k + 1 \in S /\ k + 1 \in Nat
    OBVIOUS
  <2>2. \A x \in S : part(k + 1)[x] = part(k)[x] + point(k + 1)[x]
    <3> SUFFICES ASSUME NEW x \in S
                 PROVE  part(k + 1)[x] = part(k)[x] + point(k + 1)[x]
      OBVIOUS
    <3>1. t[x] \in Int /\ (x <= k + 1 <=> x <= k \/ x = k + 1)
      BY <2>1
    <3> QED BY <2>1, <3>1
  <2>3. /\ point(k + 1)[k + 1] = t[k + 1]
        /\ \A x \in S : x # k + 1 => point(k + 1)[x] = 0
    BY <2>1
  <2>4. Total(part(k), S) = u[k + 1] - u[1]
    BY <2>1
  <2> DEFINE before == part(k)
             after == part(k + 1)
             new == point(k + 1)
  <2>8. Splits(after, before, new, S)
    BY <1>2, <2>1, <2>2 DEF Splits
  <2>5. Total(part(k + 1), S) = Total(part(k), S) + Total(point(k + 1), S)
    <3> HIDE DEF before, after, new, S
    <3>1. Total(after, S) = Total(before, S) + Total(new, S)
      BY <1>1, <2>8, TotalAdds
    <3> QED BY <3>1 DEF before, after, new
  <2> HIDE DEF before, after, new, part, point, S
  <2>6. Total(point(k + 1), S) = t[k + 1]
    BY <1>1, <1>2, <2>1, <2>3, TotalOfOne
  <2>7. /\ t[k + 1] = u[(k + 1) + 1] - u[k + 1]
        /\ u[1] \in Int /\ u[k + 1] \in Int /\ u[(k + 1) + 1] \in Int
    BY <2>1 DEF S
  <2> QED BY <2>4, <2>5, <2>6, <2>7
<1>5. K = Nat
  <2>1. K \in SUBSET Nat
    OBVIOUS
  <2> HIDE DEF K
  <2> QED BY <1>3, <1>4, <2>1, AllNumbers
<1>6. Total(part(n), S) = u[n + 1] - u[1]
  <2>1. n \in K
    <3> HIDE DEF K
    <3> QED BY <1>5
  <2> QED BY <2>1
<1>7. part(n) = t
  OBVIOUS
<1> QED BY <1>6, <1>7

-----------------------------------------------------------------------------
(* The sum of the products of two families, and a combination of the two.  *)
Dot(f, g, S) == Total([x \in S |-> f[x] * g[x]], S)
Combine(a, f, b, g, S) == [x \in S |-> a * f[x] + b * g[x]]

(* Dot is symmetric, and the square of a family is not negative ... *)
LEMMA DotFacts ==
  ASSUME NEW S, IsFiniteSet(S), NEW f \in [S -> Int], NEW g \in [S -> Int]
  PROVE  /\ Dot(f, g, S) \in Int
         /\ Dot(f, g, S) = Dot(g, f, S)
         /\ Dot(f, f, S) \in Nat
<1>1. [x \in S |-> f[x] * g[x]] \in [S -> Int]
  OBVIOUS
<1>2. [x \in S |-> f[x] * g[x]] = [x \in S |-> g[x] * f[x]]
  <2>1. \A x \in S : f[x] * g[x] = g[x] * f[x]
    OBVIOUS
  <2> QED BY <2>1
<1>3. [x \in S |-> f[x] * f[x]] \in [S -> Nat]
  BY SquareIsNatural
<1> QED BY <1>1, <1>2, <1>3, TotalType, TotalOfNaturals DEF Dot

(* ... and linear. *)
LEMMA DotLinear ==
  ASSUME NEW S, IsFiniteSet(S), NEW f \in [S -> Int], NEW g \in [S -> Int],
         NEW h \in [S -> Int], NEW a \in Int, NEW b \in Int
  PROVE  /\ Combine(a, f, b, g, S) \in [S -> Int]
         /\ Dot(Combine(a, f, b, g, S), h, S)
               = a * Dot(f, h, S) + b * Dot(g, h, S)
<1>4. Combine(a, f, b, g, S) \in [S -> Int]
  BY DEF Combine
<1>5. Dot(Combine(a, f, b, g, S), h, S) = a * Dot(f, h, S) + b * Dot(g, h, S)
  <2> DEFINE c == Combine(a, f, b, g, S)
             s == [x \in S |-> f[x] * h[x]]
             t == [x \in S |-> g[x] * h[x]]
             af == [x \in S |-> a * s[x]]
             bg == [x \in S |-> b * t[x]]
             u == [x \in S |-> c[x] * h[x]]
  <2>1. /\ s \in [S -> Int] /\ t \in [S -> Int]
    OBVIOUS
  <2>2. af \in [S -> Int] /\ bg \in [S -> Int] /\ u \in [S -> Int]
    BY <1>4, <2>1
  <2>3. ASSUME NEW x \in S PROVE u[x] = af[x] + bg[x]
    <3> DEFINE fx == f[x]
               gx == g[x]
               hx == h[x]
    <3>1. fx \in Int /\ gx \in Int /\ hx \in Int
      OBVIOUS
    <3>2. /\ u[x] = (a * fx + b * gx) * hx
          /\ af[x] = a * (fx * hx) /\ bg[x] = b * (gx * hx)
      BY DEF Combine
    <3> HIDE DEF fx, gx, hx, u, af, bg
    <3>3. (a * fx + b * gx) * hx = (a * fx) * hx + (b * gx) * hx
      BY <3>1
    <3>4. (a * fx) * hx = a * (fx * hx) /\ (b * gx) * hx = b * (gx * hx)
      BY <3>1
    <3> QED BY <3>2, <3>3, <3>4
  <2>4. \A x \in S : af[x] = a * s[x]
    OBVIOUS
  <2>8. \A x \in S : bg[x] = b * t[x]
    OBVIOUS
  <2>9. Splits(u, af, bg, S)
    BY <2>2, <2>3 DEF Splits
  <2> HIDE DEF s, t, af, bg, u
  <2>5. Total(u, S) = Total(af, S) + Total(bg, S)
    BY <2>9, TotalAdds
  <2>6. Total(af, S) = a * Total(s, S)
    BY <2>1, <2>2, <2>4, TotalScales
  <2>7. Total(bg, S) = b * Total(t, S)
    BY <2>1, <2>2, <2>8, TotalScales
  <2> QED BY <2>5, <2>6, <2>7 DEF Dot, s, t, u
<1> QED BY <1>4, <1>5

(* The squares of t * y - r * x, in sums that t and r stand out of. *)
LEMMA DotOfDifference ==
  ASSUME NEW S, IsFiniteSet(S), NEW x \in [S -> Int], NEW y \in [S -> Int],
         NEW t \in Int, NEW r \in Int
  PROVE  LET z == Combine(t, y, -r, x, S)
             A == Dot(y, y, S)
             B == Dot(x, y, S)
             D == Dot(x, x, S)
         IN  Dot(z, z, S) = t * (t * A - r * B) - r * (t * B - r * D)
<1> DEFINE z == Combine(t, y, -r, x, S)
           A == Dot(y, y, S)
           B == Dot(x, y, S)
           D == Dot(x, x, S)
<1>1. -r \in Int
  OBVIOUS
<1>2. z \in [S -> Int]
  BY <1>1, DotLinear
<1>3. A \in Int /\ B \in Int /\ D \in Int /\ Dot(y, x, S) = B
  BY DotFacts
<1>4. Dot(z, z, S) = t * Dot(y, z, S) + (-r) * Dot(x, z, S)
  <2> HIDE DEF z
  <2> QED BY <1>1, <1>2, DotLinear DEF z
<1>5. Dot(y, z, S) = Dot(z, y, S) /\ Dot(x, z, S) = Dot(z, x, S)
  <2> HIDE DEF z
  <2> QED BY <1>2, DotFacts
<1>6. Dot(z, y, S) = t * A + (-r) * B
  BY <1>1, DotLinear
<1>7. Dot(z, x, S) = t * B + (-r) * D
  BY <1>1, <1>3, DotLinear
<1> HIDE DEF z, A, B, D
<1>8. t * A + (-r) * B = t * A - r * B /\ t * B + (-r) * D = t * B - r * D
  BY <1>3
<1>9. t * A - r * B \in Int /\ t * B - r * D \in Int
  BY <1>3
<1>10. Dot(z, z, S) = t * (t * A - r * B) + (-r) * (t * B - r * D)
  BY <1>4, <1>5, <1>6, <1>7, <1>8
<1>11. \A p \in Int : (-r) * p = -(r * p)
  OBVIOUS
<1>12. Dot(z, z, S) = t * (t * A - r * B) - r * (t * B - r * D)
  BY <1>9, <1>10, <1>11
<1> QED BY <1>12 DEF z, A, B, D

(* Adding c to terms that make zero together does not make their squares   *)
(* smaller.                                                                *)
LEMMA DotOfShifted ==
  ASSUME NEW S, IsFiniteSet(S), NEW z \in [S -> Int], NEW c \in Int,
         Dot(z, [k \in S |-> 1], S) = 0
  PROVE  LET s == Combine(1, z, c, [k \in S |-> 1], S)
         IN  Dot(z, z, S) <= Dot(s, s, S)
<1> DEFINE one == [k \in S |-> 1]
           s == Combine(1, z, c, one, S)
           P == Dot(z, z, S)
           Q == Dot(one, one, S)
<1>1. one \in [S -> Int]
  OBVIOUS
<1>2. 1 \in Int /\ s \in [S -> Int]
  BY <1>1, DotLinear
<1>3. P \in Nat /\ Q \in Nat /\ Dot(z, one, S) = 0 /\ Dot(one, z, S) = 0
  <2> HIDE DEF one
  <2> QED BY <1>1, DotFacts DEF one
<1>4. Dot(s, s, S) = 1 * Dot(z, s, S) + c * Dot(one, s, S)
  <2> HIDE DEF one, s
  <2> QED BY <1>1, <1>2, DotLinear DEF s
<1>5. Dot(z, s, S) = Dot(s, z, S) /\ Dot(one, s, S) = Dot(s, one, S)
  <2> HIDE DEF one, s
  <2> QED BY <1>1, <1>2, DotFacts
<1>6. /\ Dot(s, z, S) = 1 * P + c * Dot(one, z, S)
      /\ Dot(s, one, S) = 1 * Dot(z, one, S) + c * Q
  <2> HIDE DEF one
  <2> QED BY <1>1, <1>2, DotLinear
<1> HIDE DEF one, s, P, Q
<1>7. Dot(s, s, S) = P + c * (c * Q)
  BY <1>3, <1>4, <1>5, <1>6
<1>8. c * (c * Q) = (c * c) * Q /\ c * c \in Nat
  BY <1>3, SquareIsNatural
<1>9. (c * c) * Q \in Nat
  BY <1>3, <1>8
<1>10. P <= Dot(s, s, S)
  BY <1>3, <1>7, <1>8, <1>9
<1> QED BY <1>10 DEF one, s, P

(* A square in disguise: no slope r / t does better than B / D. *)
LEMMA SlopeAlgebra ==
  ASSUME NEW A \in Int, NEW B \in Int, NEW D \in Nat,
         NEW t \in Int, NEW r \in Int
  PROVE  t * t * (D * (D * A - B * B) - B * (D * B - B * D))
           <= D * D * (t * (t * A - r * B) - r * (t * B - r * D))
<1> DEFINE m == t * B - r * D
<1>1. m \in Int /\ D * (m * m) \in Nat
  <2>1. m \in Int
    OBVIOUS
  <2> HIDE DEF m
  <2>2. m * m \in Nat
    BY <2>1, SquareIsNatural
  <2> QED BY <2>1, <2>2
<1>2. D * D * (t * (t * A - r * B) - r * (t * B - r * D))
        = t * t * (D * (D * A - B * B) - B * (D * B - B * D)) + D * (m * m)
  BY SMTT(60)
<1>3. t * t * (D * (D * A - B * B) - B * (D * B - B * D)) \in Int
  OBVIOUS
<1> QED BY <1>1, <1>2, <1>3

-----------------------------------------------------------------------------
(* The line y = (r * x + c / n) / t, for any whole t, r and c: n * t times *)
(* the distance of the i-th pair from it, and the sum of their squares.    *)
Off(w, n, t, r, c, i) ==
    n * (t * GetQueueElem(w, i + 1) - r * GetQueueElem(w, i)) - c
SquaredError(w, n, pairs, t, r, c) ==
    Total([i \in pairs |-> Off(w, n, t, r, c, i) * Off(w, n, t, r, c, i)],
          pairs)

DeviationsX(w, sx, n, used) == [i \in used |-> DeviationX(w, n, sx, i)]
DeviationsY(w, sy, n, used) == [i \in used |-> DeviationY(w, n, sy, i)]

(* The two sums of the loop, as they stand in Predict. *)
SlopeOver(w, sx, sy, n, used) ==
    Dot(DeviationsX(w, sx, n, used), DeviationsY(w, sy, n, used), used)
SlopeUnder(w, sx, n, used) ==
    Dot(DeviationsX(w, sx, n, used), DeviationsX(w, sx, n, used), used)

(* Pairs of one window, some of which a sum runs over. *)
Pairs(w, sx, sy, n, used) ==
    Window(w, n) /\ sx \in Int /\ sy \in Int /\ used \subseteq 1 .. n

(* Predict is the value at the last count of the line with this slope      *)
(* through the averages; without a slope, it is the last count itself.     *)
LEMMA PredictIsOnLine ==
  ASSUME NEW w, NEW sx, NEW sy, NEW n, NEW used, Pairs(w, sx, sy, n, used)
  PROVE  LET num  == SlopeOver(w, sx, sy, n, used)
             den  == SlopeUnder(w, sx, n, used)
             last == GetQueueLast(w)
         IN  /\ num \in Int /\ den \in Nat
             /\ den = 0 <=> \A i \in used : n * GetQueueElem(w, i) = sx
             /\ Predict(w, sx, sy, n, used) =
                   IF den = 0 THEN last
                   ELSE Truncate(n * num * last + (den * sy - num * sx),
                                 n * den)
<1> USE DEF Pairs
<1> DEFINE num  == SlopeOver(w, sx, sy, n, used)
           den  == SlopeUnder(w, sx, n, used)
           last == GetQueueLast(w)
           t    == Squares(w, sx, n, used)
<1>1. num = Total(Products(w, sx, sy, n, used), used)
  <2>1. [i \in used |-> DeviationsX(w, sx, n, used)[i]
                          * DeviationsY(w, sy, n, used)[i]]
          = Products(w, sx, sy, n, used)
    BY DEF DeviationsX, DeviationsY, Products
  <2> QED BY <2>1 DEF SlopeOver, Dot
<1>2. den = Total(t, used)
  <2>1. [i \in used |-> DeviationsX(w, sx, n, used)[i]
                          * DeviationsX(w, sx, n, used)[i]] = t
    BY DEF DeviationsX, Squares
  <2> QED BY <2>1 DEF SlopeUnder, Dot
<1>3. t \in [used -> Nat] /\ IsFiniteSet(used)
      /\ Products(w, sx, sy, n, used) \in [used -> Int]
      /\ \A i \in used : DeviationX(w, n, sx, i) \in Int
  BY Deviations
<1>4. num \in Int /\ den \in Nat
  BY <1>1, <1>2, <1>3, TotalType, TotalOfNaturals
<1>5. last \in Int /\ n \in Nat \ {0}
  BY DEF Window, GetQueueLast
<1>6. \A i \in used : t[i] = 0 <=> n * GetQueueElem(w, i) = sx
  <2> SUFFICES ASSUME NEW i \in used
               PROVE  t[i] = 0 <=> n * GetQueueElem(w, i) = sx
    OBVIOUS
  <2> DEFINE d == DeviationX(w, n, sx, i)
             m == n * GetQueueElem(w, i)
  <2>1. GetQueueElem(w, i) \in Int
    BY DEF Window
  <2>2. m \in Int /\ d \in Int /\ d = m - sx /\ t[i] = d * d
    BY <1>3, <1>5, <2>1 DEF DeviationX, Squares
  <2> HIDE DEF d, m, t
  <2>3. d * d = 0 <=> d = 0
    BY <2>2, SquareIsNatural
  <2>4. t[i] = 0 <=> m = sx
    BY <2>2, <2>3
  <2> QED BY <2>4 DEF m
<1>7. den = 0 <=> \A i \in used : t[i] = 0
  <2> HIDE DEF t
  <2>1. t \in [used -> Int]
    BY <1>3
  <2>2. (\A i \in used : t[i] = 0) => Total(t, used) = 0
    BY <1>3, <2>1, TotalOfZeros
  <2>3. Total(t, used) = 0 => \A i \in used : t[i] = 0
    BY <1>3, TotalOfNaturals
  <2> QED BY <1>2, <2>2, <2>3
<1>8. Predict(w, sx, sy, n, used) =
         IF den = 0 THEN last
         ELSE Truncate(sy * den + num * (n * last - sx), n * den)
  BY <1>1, <1>2, PredictTotals
<1> HIDE DEF num, den, last, t
<1>9. sy * den + num * (n * last - sx)
        = n * num * last + (den * sy - num * sx)
  <2>1. num * (n * last - sx) = num * (n * last) - num * sx
    BY <1>4, <1>5
  <2>2. num * (n * last) = n * num * last /\ sy * den = den * sy
    BY <1>4, <1>5
  <2>3. num * (n * last) \in Int /\ num * sx \in Int /\ sy * den \in Int
    BY <1>4, <1>5
  <2> QED BY <2>1, <2>2, <2>3
<1> QED BY <1>4, <1>6, <1>7, <1>8, <1>9 DEF num, den, last

(* Pairs of a window, and what the sums are. *)
(* The errors of a line through the averages: the deviations, combined.    *)
Errors(w, sx, sy, n, used, t, r) ==
    Combine(t, DeviationsY(w, sy, n, used),
            -r, DeviationsX(w, sx, n, used), used)

(* So they are, and their squares are what SquaredError adds up.           *)
LEMMA ErrorThroughAverages ==
  ASSUME NEW w, NEW sx, NEW sy, NEW n, NEW used, Pairs(w, sx, sy, n, used),
         NEW t \in Int, NEW r \in Int
  PROVE  LET z == Errors(w, sx, sy, n, used, t, r)
         IN  /\ \A i \in used : z[i] = Off(w, n, t, r, t * sy - r * sx, i)
             /\ SquaredError(w, n, used, t, r, t * sy - r * sx)
                   = Dot(z, z, used)
<1> USE DEF Pairs
<1> DEFINE z == Errors(w, sx, sy, n, used, t, r)
           c == t * sy - r * sx
<1>1. \A i \in used : z[i] = Off(w, n, t, r, c, i)
  <2> SUFFICES ASSUME NEW i \in used PROVE z[i] = Off(w, n, t, r, c, i)
    OBVIOUS
  <2> DEFINE x == GetQueueElem(w, i)
             y == GetQueueElem(w, i + 1)
  <2>1. x \in Int /\ y \in Int /\ n \in Int
    BY DEF Window
  <2>2. z[i] = t * (n * y - sy) + (-r) * (n * x - sx)
    BY DEF Errors, Combine, DeviationsX, DeviationsY, DeviationX, DeviationY
  <2>3. Off(w, n, t, r, c, i) = n * (t * y - r * x) - (t * sy - r * sx)
    BY DEF Off
  <2> HIDE DEF x, y, z, c
  <2>4. t * (n * y - sy) = t * (n * y) - t * sy
    BY <2>1
  <2>5. (-r) * (n * x - sx) = r * sx - r * (n * x)
    BY <2>1
  <2>6. n * (t * y - r * x) = t * (n * y) - r * (n * x)
    BY <2>1
  <2>7. /\ t * (n * y) \in Int /\ r * (n * x) \in Int
        /\ t * sy \in Int /\ r * sx \in Int
    BY <2>1
  <2> QED BY <2>2, <2>3, <2>4, <2>5, <2>6, <2>7
<1>2. [i \in used |-> Off(w, n, t, r, c, i) * Off(w, n, t, r, c, i)]
        = [i \in used |-> z[i] * z[i]]
  BY <1>1
<1> QED BY <1>1, <1>2 DEF SquaredError, Dot

(* A sum of squares of whole numbers is a whole number. *)
LEMMA SquaredErrorType ==
  ASSUME NEW w, NEW sx, NEW sy, NEW n, NEW used, Pairs(w, sx, sy, n, used),
         NEW t \in Int, NEW r \in Int, NEW c \in Int
  PROVE  SquaredError(w, n, used, t, r, c) \in Int
<1> USE DEF Pairs
<1>1. IsFiniteSet(used)
  BY Deviations
<1>2. ASSUME NEW i \in used PROVE Off(w, n, t, r, c, i) \in Int
  <2> DEFINE x == GetQueueElem(w, i)
             y == GetQueueElem(w, i + 1)
  <2>1. x \in Int /\ y \in Int /\ n \in Int
    BY DEF Window
  <2>2. Off(w, n, t, r, c, i) = n * (t * y - r * x) - c
    BY DEF Off
  <2> HIDE DEF x, y
  <2>3. t * y - r * x \in Int
    BY <2>1
  <2> QED BY <2>1, <2>2, <2>3
<1> DEFINE s == [i \in used |-> Off(w, n, t, r, c, i) * Off(w, n, t, r, c, i)]
<1>3. s \in [used -> Int]
  <2>1. \A i \in used : Off(w, n, t, r, c, i) * Off(w, n, t, r, c, i) \in Int
    BY <1>2
  <2> QED BY <2>1
<1>4. Total(s, used) \in Int
  <2> HIDE DEF s
  <2> QED BY <1>1, <1>3, TotalType
<1> QED BY <1>4 DEF SquaredError

(* Of all the lines through the averages the one of Predict has the least  *)
(* sum of squares over the pairs used.                                     *)
LEMMA BestThroughAverages ==
  ASSUME NEW w, NEW n, Window(w, n), NEW sx \in Int, NEW sy \in Int,
         NEW used, used \subseteq 1 .. n, NEW t \in Int, NEW r \in Int
  PROVE  LET num == SlopeOver(w, sx, sy, n, used)
             den == SlopeUnder(w, sx, n, used)
         IN  t * t * SquaredError(w, n, used, den, num, den * sy - num * sx)
               <= den * den * SquaredError(w, n, used, t, r, t * sy - r * sx)
<1> DEFINE num == SlopeOver(w, sx, sy, n, used)
           den == SlopeUnder(w, sx, n, used)
           x   == DeviationsX(w, sx, n, used)
           y   == DeviationsY(w, sy, n, used)
           A   == Dot(y, y, used)
           zz(p, m) == Dot(Errors(w, sx, sy, n, used, p, m),
                           Errors(w, sx, sy, n, used, p, m), used)
<1>0. Pairs(w, sx, sy, n, used)
  BY DEF Pairs
<1>1. x \in [used -> Int] /\ y \in [used -> Int] /\ IsFiniteSet(used)
  BY Deviations DEF DeviationsX, DeviationsY
<1>2. num \in Int /\ den \in Nat /\ A \in Int
  BY <1>1, DotFacts DEF SlopeOver, SlopeUnder
<1>3. ASSUME NEW p \in Int, NEW m \in Int
      PROVE  SquaredError(w, n, used, p, m, p * sy - m * sx) = zz(p, m)
  BY <1>0, ErrorThroughAverages
<1>4. \A p, m \in Int :
         zz(p, m) = p * (p * A - m * num) - m * (p * num - m * den)
  <2> HIDE DEF x, y
  <2> QED BY <1>1, DotOfDifference DEF Errors, SlopeOver, SlopeUnder, x, y
<1> HIDE DEF num, den, x, y, A, zz
<1>5. zz(den, num)
        = den * (den * A - num * num) - num * (den * num - num * den)
  BY <1>2, <1>4
<1>6. zz(t, r) = t * (t * A - r * num) - r * (t * num - r * den)
  BY <1>2, <1>4
<1>7. t * t * zz(den, num) <= den * den * zz(t, r)
  BY <1>2, <1>5, <1>6, SlopeAlgebra
<1>8. /\ SquaredError(w, n, used, den, num, den * sy - num * sx) = zz(den, num)
      /\ SquaredError(w, n, used, t, r, t * sy - r * sx) = zz(t, r)
  BY <1>2, <1>3
<1>9. t * t * SquaredError(w, n, used, den, num, den * sy - num * sx)
        <= den * den * SquaredError(w, n, used, t, r, t * sy - r * sx)
  BY <1>7, <1>8
<1> QED BY <1>9 DEF num, den

(* The deviations from an average make zero together. *)
LEMMA DeviationsCancel ==
  ASSUME NEW n \in Nat \ {0}, NEW u, \A i \in 1 .. n + 1 : u[i] \in Int,
         NEW t \in [1 .. n -> Int],
         \A k \in 1 .. n : t[k] = n * (u[k + 1] - u[k]) - (u[n + 1] - u[1])
  PROVE  Total(t, 1 .. n) = 0
<1> DEFINE s == u[n + 1] - u[1]
           v == [i \in 1 .. n + 1 |-> n * u[i] - i * s]
<1>1. s \in Int
  OBVIOUS
<1> HIDE DEF s
<1>2. \A i \in 1 .. n + 1 : v[i] \in Int
  BY <1>1
<1>3. ASSUME NEW k \in 1 .. n PROVE t[k] = v[k + 1] - v[k]
  <2>1. /\ u[k] \in Int /\ u[k + 1] \in Int /\ k \in Int
        /\ k \in 1 .. n + 1 /\ k + 1 \in 1 .. n + 1
    OBVIOUS
  <2>2. v[k + 1] = n * u[k + 1] - (k + 1) * s /\ v[k] = n * u[k] - k * s
    BY <2>1
  <2>3. t[k] = n * (u[k + 1] - u[k]) - s
    BY DEF s
  <2> DEFINE p == u[k]
             m == u[k + 1]
  <2> HIDE DEF v, p, m
  <2>4. (k + 1) * s = k * s + s /\ k * s \in Int
    BY <1>1, <2>1
  <2>5. p \in Int /\ m \in Int
    BY <2>1 DEF p, m
  <2>6. n * (m - p) = n * m - n * p /\ n * m \in Int /\ n * p \in Int
    BY <2>5
  <2>7. /\ v[k + 1] = n * m - (k + 1) * s /\ v[k] = n * p - k * s
        /\ t[k] = n * (m - p) - s
    BY <2>2, <2>3 DEF p, m
  <2> QED BY <1>1, <2>4, <2>6, <2>7
<1>4. Total(t, 1 .. n) = v[n + 1] - v[1]
  <2> HIDE DEF v
  <2>1. n \in Nat
    OBVIOUS
  <2> QED BY <1>2, <1>3, <2>1, TotalOfGains
<1>5. v[n + 1] = n * u[n + 1] - (n + 1) * s /\ v[1] = n * u[1] - 1 * s
  OBVIOUS
<1> DEFINE p == u[1]
           m == u[n + 1]
<1>6. m \in Int /\ p \in Int /\ s = m - p
  BY DEF s
<1> HIDE DEF v, p, m
<1>7. /\ (n + 1) * s = n * s + s /\ n * (m - p) = n * m - n * p
      /\ n * m \in Int /\ n * p \in Int
  BY <1>1, <1>6
<1>8. v[n + 1] = n * m - (n + 1) * s /\ v[1] = n * p - s
  BY <1>1, <1>5 DEF p, m
<1> QED BY <1>1, <1>4, <1>6, <1>7, <1>8

(* All the pairs have these averages. *)
Centred(w, sx, sy, n) ==
    /\ Window(w, n) /\ sx \in Int /\ sy \in Int
    /\ Total(DeviationsX(w, sx, n, 1 .. n), 1 .. n) = 0
    /\ Total(DeviationsY(w, sy, n, 1 .. n), 1 .. n) = 0

(* Then a line that misses the averages is not better than its parallel    *)
(* through them.                                                           *)
LEMMA AveragesAreBest ==
  ASSUME NEW w, NEW sx, NEW sy, NEW n, Centred(w, sx, sy, n),
         NEW t \in Int, NEW r \in Int, NEW c \in Int
  PROVE  SquaredError(w, n, 1 .. n, t, r, t * sy - r * sx)
           <= SquaredError(w, n, 1 .. n, t, r, c)
<1> DEFINE S   == 1 .. n
           x   == DeviationsX(w, sx, n, S)
           y   == DeviationsY(w, sy, n, S)
           one == [k \in S |-> 1]
           z   == Errors(w, sx, sy, n, S, t, r)
           off == t * sy - r * sx - c
           s   == Combine(1, z, off, one, S)
<1> USE DEF Centred
<1>1. x \in [S -> Int] /\ y \in [S -> Int] /\ IsFiniteSet(S)
  BY Deviations DEF DeviationsX, DeviationsY
<1>2. one \in [S -> Int] /\ -r \in Int /\ off \in Int
  OBVIOUS
<1>3. z \in [S -> Int]
  <2>1. z = Combine(t, y, -r, x, S)
    BY DEF Errors
  <2> HIDE DEF x, y, z, S
  <2> QED BY <1>1, <1>2, <2>1, DotLinear
<1>4. Dot(x, one, S) = 0 /\ Dot(y, one, S) = 0
  <2>1. [k \in S |-> x[k] * one[k]] = x /\ [k \in S |-> y[k] * one[k]] = y
    <3>1. ASSUME NEW k \in S
          PROVE  x[k] * one[k] = x[k] /\ y[k] * one[k] = y[k]
      <4>1. one[k] = 1
        OBVIOUS
      <4> HIDE DEF x, y, one, S
      <4> QED BY <1>1, <4>1
    <3> HIDE DEF x, y, one, S
    <3> QED BY <1>1, <3>1
  <2> QED BY <2>1 DEF Dot
<1>5. Dot(z, one, S) = 0
  <2> HIDE DEF x, y, one, S
  <2> DEFINE mr == -r
  <2>2. mr \in Int /\ z = Combine(t, y, mr, x, S)
    BY <1>2 DEF Errors, x, y, S
  <2>1. Dot(z, one, S) = t * Dot(y, one, S) + (-r) * Dot(x, one, S)
    <3> HIDE DEF mr, z
    <3>1. Dot(z, one, S) = t * Dot(y, one, S) + mr * Dot(x, one, S)
      BY <1>1, <1>2, <2>2, DotLinear
    <3> QED BY <3>1 DEF mr
  <2> QED BY <1>2, <1>4, <2>1
<1>6. Dot(z, z, S) <= Dot(s, s, S)
  <2> HIDE DEF z, S, off
  <2> QED BY <1>1, <1>2, <1>3, <1>5, DotOfShifted
<1>11. Pairs(w, sx, sy, n, S)
  BY DEF Pairs
<1>7. /\ \A i \in S : z[i] = Off(w, n, t, r, t * sy - r * sx, i)
      /\ SquaredError(w, n, S, t, r, t * sy - r * sx) = Dot(z, z, S)
  <2> HIDE DEF S
  <2> QED BY <1>11, ErrorThroughAverages
<1>9. \A i \in S : s[i] = Off(w, n, t, r, c, i)
  <2> SUFFICES ASSUME NEW i \in S PROVE s[i] = Off(w, n, t, r, c, i)
    OBVIOUS
  <2> DEFINE m == n * (t * GetQueueElem(w, i + 1) - r * GetQueueElem(w, i))
  <2>1. GetQueueElem(w, i) \in Int /\ GetQueueElem(w, i + 1) \in Int
        /\ n \in Int
    BY DEF Window
  <2>2. m \in Int
    BY <2>1
  <2>3. z[i] = m - (t * sy - r * sx) /\ Off(w, n, t, r, c, i) = m - c
    BY <1>7 DEF Off
  <2>4. s[i] = 1 * z[i] + off * 1
    BY DEF Combine
  <2>5. t * sy \in Int /\ r * sx \in Int /\ off = t * sy - r * sx - c
    OBVIOUS
  <2> HIDE DEF m, z, s, off
  <2> QED BY <2>2, <2>3, <2>4, <2>5
<1>10. SquaredError(w, n, S, t, r, c) = Dot(s, s, S)
  <2>1. [i \in S |-> Off(w, n, t, r, c, i) * Off(w, n, t, r, c, i)]
          = [i \in S |-> s[i] * s[i]]
    <3> HIDE DEF s
    <3> QED BY <1>9
  <2> QED BY <2>1 DEF SquaredError, Dot
<1> QED BY <1>6, <1>7, <1>10
=============================================================================
