------------------------------ MODULE MyQueue -------------------------------
(***************************************************************************)
(* src/util/queue.c: the ring buffer that keeps the packet counts of the   *)
(* last blocks of an interface, as operators on the structure MyQueue.     *)
(* Its offsets front and rear are kept in bytes there and in elements      *)
(* here.  The number of elements is recorded twice: in `length`, and by    *)
(* the distance from front to rear.                                        *)
(***************************************************************************)
EXTENDS Integers

CONSTANTS
    MaxSize,            \* `maxsize`, the len given to QueueCreate
    Elements,           \* the values a TYPE takes
    Garbage             \* what malloc left in the ring

(* A ring of one slot is always empty and always full. *)
ASSUME MaxSizeAssumption == MaxSize \in Nat /\ MaxSize >= 2
ASSUME GarbageAssumption == Garbage \notin Elements

Slots == 0 .. MaxSize - 1

(* The structure MyQueue (queue.h). *)
MyQueueType ==
    [queue  : [Slots -> Elements \cup {Garbage}],
     front  : Slots,        \* slot of the head
     rear   : Slots,        \* slot the next element goes to
     length : Nat]

(* The memset of QueueCreate clears sizeof(length) bytes, not length bytes: *)
(* the ring holds what malloc found there.                                  *)
QueueCreate ==
    [queue |-> [k \in Slots |-> Garbage], front |-> 0, rear |-> 0, length |-> 0]

isQueueEmpty(q) == q.front = q.rear

isQueueFull(q) == (q.rear + 1) % MaxSize = q.front

GetQueueNum(q) == q.length

(* The slot of the k-th element, the head being the first. *)
ElemSlot(q, k) == (q.front + (k - 1)) % MaxSize

(* The k-th element, for 1 <= k <= length; the callers that could pass     *)
(* another k test for NULL, see Estimator.                                 *)
GetQueueElem(q, k) == q.queue[ElemSlot(q, k)]

GetQueueFront(q) == q.queue[q.front]

GetQueueLast(q) == GetQueueElem(q, GetQueueNum(q))

(* A mutant of enQueue: the element count is forgotten. *)
enQueueNoCount(q, e) ==
    [q EXCEPT !.queue[q.rear] = e, !.rear = (q.rear + 1) % MaxSize]

(* A mutant of enQueue: the offset wraps one slot too late. *)
enQueueAhead(q, e) ==
    [q EXCEPT !.rear = (q.rear + 1) % MaxSize,
              !.queue[(q.rear + 1) % MaxSize] = e,
              !.length = @ + 1]

(* enQueue on a queue that is not full; on a full one it changes nothing   *)
(* and returns MY_ERR_Q_FULL.                                              *)
enQueue(q, e) ==
    [queue  |-> [q.queue EXCEPT ![q.rear] = e],
     front  |-> q.front,
     rear   |-> (q.rear + 1) % MaxSize,
     length |-> q.length + 1]

(* A mutant of DeQueue: the element count is forgotten. *)
DeQueueNoCount(q) == [q EXCEPT !.front = (q.front + 1) % MaxSize]

(* DeQueue on a queue that is not empty; it returns the ADDRESS of the     *)
(* slot GetQueueFront reads and leaves the element in it.                  *)
DeQueue(q) ==
    [queue  |-> q.queue,
     front  |-> (q.front + 1) % MaxSize,
     rear   |-> q.rear,
     length |-> q.length - 1]
=============================================================================
