----------------------------- MODULE QueueRing ------------------------------
(***************************************************************************)
(* A MyQueue in use: any caller, any order of enQueue and DeQueue.  Calls  *)
(* that fail (enQueue on a full queue, DeQueue on an empty one) return an  *)
(* error and change nothing.                                               *)
(*                                                                         *)
(* DeQueue returns a pointer into the ring and AR_compute, its caller,     *)
(* reads through it later.  `lent` is the slot that pointer names, `due`   *)
(* what its holder means to find there, `age` how often enQueue was called *)
(* since (2 stands for more).                                              *)
(***************************************************************************)
EXTENDS MyQueue, Sequences

VARIABLES ring, lent, due, age

vars == <<ring, lent, due, age>>

TypeOK ==
    /\ ring \in MyQueueType
    /\ lent \in Slots
    /\ due \in {<<>>} \cup {<<e>> : e \in Elements}
    /\ age \in 0 .. 2

Init ==
    /\ ring = QueueCreate
    /\ lent = 0
    /\ due = <<>>
    /\ age = 0

Put(e) ==
    /\ ~isQueueFull(ring)
    /\ ring' = enQueue(ring, e)
    /\ age' = IF age = 2 THEN 2 ELSE age + 1
    /\ UNCHANGED <<lent, due>>

(* A mutant of Take: the address is taken after front has moved on. *)
TakeAfterMove ==
    /\ ~isQueueEmpty(ring)
    /\ ring' = DeQueue(ring)
    /\ lent' = ring'.front
    /\ due' = <<GetQueueFront(ring)>>
    /\ age' = 0

Take ==
    /\ ~isQueueEmpty(ring)
    /\ ring' = DeQueue(ring)
    /\ lent' = ring.front
    /\ due' = <<GetQueueFront(ring)>>
    /\ age' = 0

Next == Take \/ \E e \in Elements : Put(e)

Spec == Init /\ [][Next]_vars

-----------------------------------------------------------------------------
(* Both records of the fill agree, and with them the tests built on the    *)
(* one (isQueueEmpty, isQueueFull) and on the other (GetQueueNum, and      *)
(* GetQueueElem's check of its index).                                     *)
FillAgrees ==
    /\ GetQueueNum(ring) <= MaxSize - 1
    /\ ring.rear = (ring.front + GetQueueNum(ring)) % MaxSize
    /\ isQueueEmpty(ring) <=> GetQueueNum(ring) = 0
    /\ isQueueFull(ring) <=> GetQueueNum(ring) = MaxSize - 1

(* The pointer DeQueue returned still finds its element after one more     *)
(* enQueue, even if the queue was full: the gap between rear and front     *)
(* that isQueueFull keeps is what protects it.                             *)
LentSlotIntact == due # <<>> /\ age <= 1 => ring.queue[lent] = due[1]

Items == [k \in 1 .. ring.length |-> GetQueueElem(ring, k)]

Fifo == INSTANCE BoundedFifo WITH
          Capacity <- MaxSize - 1, items <- Items, taken <- due

(* The ring is a first-in first-out queue of MaxSize - 1 elements: nothing *)
(* is lost, doubled or reordered, and what malloc left is never delivered. *)
FifoSpec == Fifo!Spec
=============================================================================
