--------------------------- MODULE QueueRingProofs --------------------------
(***************************************************************************)
(* What TLAPS proves of MyQueue for every ring size and every set of       *)
(* elements: the two records of the fill agree, the pointer DeQueue        *)
(* returns is safe for one more enQueue, and the ring is a bounded FIFO.   *)
(***************************************************************************)
EXTENDS QueueRing, QueueFacts

(* The inductive invariant.  The last conjunct says where the lent slot is *)
(* as long as nothing was put in since: right behind the head, and so not  *)
(* where the next element goes.                                            *)
RingInv ==
    /\ TypeOK
    /\ Fill(ring)
    /\ LentSlotIntact
    /\ \A k \in 1 .. ring.length : GetQueueElem(ring, k) \in Elements
    /\ due # <<>> /\ age = 0 =>
          ring.front = IF lent + 1 < MaxSize THEN lent + 1 ELSE 0

(* A ring just created satisfies the invariant. *)
LEMMA RingInit == Init => RingInv
  BY MaxSizeAssumption
     DEF Init, RingInv, TypeOK, MyQueueType, QueueCreate, Slots, Fill,
         LentSlotIntact

(* What enQueue does to the fill of a ring that is not full. *)
LEMMA PutFacts ==
  ASSUME RingInv, NEW e \in Elements, Put(e)
  PROVE  /\ ring' \in MyQueueType
         /\ Fill(ring)'
         /\ ring'.front = ring.front /\ ring'.length = ring.length + 1
         /\ ring.length < MaxSize - 1
         /\ ring'.queue = [ring.queue EXCEPT ![ring.rear] = e]
<1>1. Fill(ring) /\ ~isQueueFull(ring) /\ ring' = enQueue(ring, e)
  BY DEF RingInv, Put
<1>2. ring.length < MaxSize - 1
  BY <1>1, FillMeaning, FillTypes, MaxSizeAssumption
<1> QED
  BY <1>1, <1>2, EnFill, Zenon DEF Fill

(* What DeQueue does to the fill of a ring that is not empty. *)
LEMMA TakeFacts ==
  ASSUME RingInv, Take
  PROVE  /\ ring' \in MyQueueType
         /\ Fill(ring)'
         /\ ring'.front = (IF ring.front + 1 < MaxSize
                           THEN ring.front + 1 ELSE 0)
         /\ ring'.length = ring.length - 1 /\ ring.length >= 1
         /\ ring'.queue = ring.queue
         /\ ring.queue[ring.front] = GetQueueElem(ring, 1)
<1>1. Fill(ring) /\ ~isQueueEmpty(ring) /\ ring' = DeQueue(ring)
  BY DEF RingInv, Take
<1>2. ring.length >= 1
  BY <1>1, FillMeaning, FillTypes, MaxSizeAssumption
<1> QED
  BY <1>1, <1>2, DeFill, Zenon DEF Fill, GetQueueFront

(* Put leaves every element in its place and puts e behind the last. *)
LEMMA PutElems ==
  ASSUME RingInv, NEW e \in Elements, Put(e), NEW k \in 1 .. ring.length + 1
  PROVE  GetQueueElem(ring', k) =
            IF k = ring.length + 1 THEN e ELSE GetQueueElem(ring, k)
<1>1. Fill(ring) /\ ring' = enQueue(ring, e) /\ ring.length < MaxSize - 1
  BY PutFacts DEF RingInv, Put
<1> QED
  BY <1>1, EnElem

(* After Take the k-th element is the one that was behind it. *)
LEMMA TakeElems ==
  ASSUME RingInv, Take, NEW k \in 1 .. ring.length - 1
  PROVE  GetQueueElem(ring', k) = GetQueueElem(ring, k + 1)
<1>1. Fill(ring) /\ ring' = DeQueue(ring)
  BY DEF RingInv, Take
<1> QED
  BY <1>1, DeElem

(* Every call keeps the invariant. *)
LEMMA RingStep == RingInv /\ [Next]_vars => RingInv'
<1> SUFFICES ASSUME RingInv, [Next]_vars PROVE RingInv'
  OBVIOUS
<1>0. /\ ring \in MyQueueType /\ lent \in Slots /\ age \in 0 .. 2
      /\ due \in {<<>>} \cup {<<e>> : e \in Elements}
      /\ ring.front \in 0 .. MaxSize - 1 /\ ring.length \in Nat
      /\ ring.rear \in 0 .. MaxSize - 1 /\ lent \in 0 .. MaxSize - 1
  BY DEF RingInv, TypeOK, MyQueueType, Slots
<1>1. ASSUME NEW e \in Elements, Put(e) PROVE RingInv'
  <2>1. age' = (IF age = 2 THEN 2 ELSE age + 1) /\ UNCHANGED <<lent, due>>
    BY <1>1 DEF Put
  <2>2. ring.length < MaxSize - 1
    BY <1>1, PutFacts
  <2>3. due # <<>> /\ age = 0 => ring.rear # lent
    BY <1>0, <2>2, MaxSizeAssumption DEF RingInv, Fill
  <2>4. LentSlotIntact'
    <3> SUFFICES ASSUME due # <<>>, age = 0
                 PROVE  ring'.queue[lent] = due[1]
      BY <1>0, <2>1 DEF LentSlotIntact
    <3>1. ring.queue[lent] = due[1]
      BY DEF RingInv, LentSlotIntact
    <3>2. ring'.queue = [ring.queue EXCEPT ![ring.rear] = e]
          /\ ring.queue \in [Slots -> Elements \cup {Garbage}]
      BY <1>0, <1>1, PutFacts DEF MyQueueType
    <3> QED
      BY <1>0, <2>3, <3>1, <3>2
  <2>5. TypeOK'
    <3>1. ring' \in MyQueueType
      BY <1>1, PutFacts
    <3>2. age' \in 0 .. 2
      BY <1>0, <2>1
    <3> QED
      BY <1>0, <2>1, <3>1, <3>2 DEF TypeOK
  <2>6. \A k \in 1 .. ring'.length : GetQueueElem(ring', k) \in Elements
    <3> SUFFICES ASSUME NEW k \in 1 .. ring'.length
                 PROVE  GetQueueElem(ring', k) \in Elements
      OBVIOUS
    <3>1. k \in 1 .. ring.length + 1
      BY <1>1, PutFacts
    <3>2. k = ring.length + 1 \/ GetQueueElem(ring, k) \in Elements
      BY <1>0, <3>1 DEF RingInv
    <3> QED
      BY <1>1, <3>1, <3>2, PutElems
  <2>7. Fill(ring)'
    BY <1>1, PutFacts
  <2>8. ~(due' # <<>> /\ age' = 0)
    BY <1>0, <2>1
  <2> QED
    BY <2>4, <2>5, <2>6, <2>7, <2>8 DEF RingInv
<1>2. ASSUME Take PROVE RingInv'
  <2>1. lent' = ring.front /\ due' = <<ring.queue[ring.front]>> /\ age' = 0
    BY <1>2 DEF Take, GetQueueFront
  <2>2. LentSlotIntact'
    BY <1>2, <2>1, TakeFacts DEF LentSlotIntact
  <2>3. ring.queue[ring.front] \in Elements
    BY <1>0, <1>2, TakeFacts DEF RingInv
  <2>4. TypeOK'
    <3>1. ring' \in MyQueueType /\ ring.front \in Slots
      BY <1>0, <1>2, TakeFacts DEF MyQueueType
    <3> QED
      BY <2>1, <2>3, <3>1 DEF TypeOK
  <2>5. \A k \in 1 .. ring'.length : GetQueueElem(ring', k) \in Elements
    <3> SUFFICES ASSUME NEW k \in 1 .. ring'.length
                 PROVE  GetQueueElem(ring', k) \in Elements
      OBVIOUS
    <3>1. k \in 1 .. ring.length - 1
      BY <1>2, TakeFacts
    <3>2. GetQueueElem(ring, k + 1) \in Elements
      BY <1>0, <3>1 DEF RingInv
    <3> QED
      BY <1>2, <3>1, <3>2, TakeElems
  <2>6. Fill(ring)'
    BY <1>2, TakeFacts
  <2>7. ring'.front = IF lent' + 1 < MaxSize THEN lent' + 1 ELSE 0
    BY <1>2, <2>1, TakeFacts
  <2> QED
    BY <2>2, <2>4, <2>5, <2>6, <2>7 DEF RingInv
<1>3. CASE UNCHANGED vars
  BY <1>3 DEF vars, RingInv, TypeOK, Fill, LentSlotIntact, GetQueueElem,
              ElemSlot
<1> QED
  BY <1>1, <1>2, <1>3 DEF Next

(* So it holds after any sequence of calls. *)
LEMMA RingAlways == Spec => []RingInv
  BY RingInit, RingStep, PTL DEF Spec

(* Types of the ring, and of the pointer its caller holds (queue.c).       *)
THEOREM TypeCorrect == Spec => []TypeOK
<1>1. RingInv => TypeOK
  BY DEF RingInv
<1> QED
  BY <1>1, RingAlways, PTL

(* The element count and the distance from front to rear never disagree,   *)
(* and the tests built on either mean the same.                            *)
THEOREM FillRecordsAgree == Spec => []FillAgrees
<1>1. RingInv => FillAgrees
  BY FillMeaning DEF RingInv, Fill, FillAgrees, GetQueueNum
<1> QED
  BY <1>1, RingAlways, PTL

(* Whoever holds the pointer DeQueue returned may call enQueue once before *)
(* reading through it.                                                     *)
THEOREM LentSlotSafe == Spec => []LentSlotIntact
<1>1. RingInv => LentSlotIntact
  BY DEF RingInv
<1> QED
  BY <1>1, RingAlways, PTL

-----------------------------------------------------------------------------
(* enQueue is Put and DeQueue is Take on the line of elements. *)
LEMMA FifoStep == RingInv /\ [Next]_vars => [Fifo!Next]_(Fifo!fifoVars)
<1> SUFFICES ASSUME RingInv, [Next]_vars
             PROVE  [Fifo!Next]_(Fifo!fifoVars)
  OBVIOUS
<1>0. ring.length \in Nat /\ MaxSize \in Nat
  BY MaxSizeAssumption DEF RingInv, TypeOK, MyQueueType
<1>a. Items \in Seq(Elements) /\ Len(Items) = ring.length
  BY <1>0 DEF Items, RingInv
<1>1. ASSUME NEW e \in Elements, Put(e) PROVE Fifo!Put(e)
  <2>1. Items' = [k \in 1 .. ring.length + 1 |->
                    IF k = ring.length + 1 THEN e ELSE GetQueueElem(ring, k)]
    BY <1>1, PutFacts, PutElems DEF Items
  <2>2. Append(Items, e) = [k \in 1 .. ring.length + 1 |->
                    IF k = ring.length + 1 THEN e ELSE GetQueueElem(ring, k)]
    BY <1>0, <1>a DEF Items
  <2>3. ring.length < MaxSize - 1 /\ UNCHANGED due
    BY <1>1, PutFacts DEF Put
  <2> QED
    BY <1>a, <2>1, <2>2, <2>3 DEF Fifo!Put
<1>2. ASSUME Take PROVE Fifo!Take
  <2>1. ring.length >= 1 /\ ring'.length = ring.length - 1
    BY <1>2, TakeFacts
  <2>2. Items # <<>> /\ Head(Items) = GetQueueElem(ring, 1)
    BY <1>0, <1>a, <2>1 DEF Items
  <2>3. due' = <<Head(Items)>>
    BY <1>2, <2>2, TakeFacts DEF Take, GetQueueFront
  <2>4. Items' = [k \in 1 .. ring.length - 1 |-> GetQueueElem(ring, k + 1)]
    BY <1>2, <2>1, TakeElems DEF Items
  <2>5. Tail(Items) = [k \in 1 .. ring.length - 1 |-> GetQueueElem(ring, k + 1)]
    BY <1>0, <1>a, <2>1 DEF Items
  <2> QED
    BY <2>2, <2>3, <2>4, <2>5 DEF Fifo!Take
<1>3. CASE UNCHANGED vars
  BY <1>3 DEF vars, Fifo!fifoVars, Items, GetQueueElem, ElemSlot
<1> QED
  BY <1>1, <1>2, <1>3 DEF Next, Fifo!Next

(* queue.c is a bounded first-in first-out queue of MaxSize - 1 elements,  *)
(* for every size of the ring and every kind of element.                   *)
THEOREM RingIsFifo == Spec => FifoSpec
<1>1. Init => Fifo!Init
  BY DEF Init, QueueCreate, Fifo!Init, Items
<1> QED
  BY <1>1, RingAlways, FifoStep, PTL DEF Spec, FifoSpec, Fifo!Spec
=============================================================================
