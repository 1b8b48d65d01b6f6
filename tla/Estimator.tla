----------------------------- MODULE Estimator ------------------------------
(***************************************************************************)
(* The sampling of one interface: src/analysis/analysis.c (the head of     *)
(* analysis_module, decide_sampled_packets, cal_interface_sampled_rate,    *)
(* AR_compute) and the part of the consumer's reset loop in src/main.c     *)
(* that calls it.  The producer counts and samples packets; at the end of  *)
(* the block the consumer feeds the count to AR_compute, sets the rate of  *)
(* the next block and clears the counters.                                 *)
(*                                                                         *)
(* The two never overlap (Handshake), so a packet and an end of block are  *)
(* one action each.  The interfaces share nothing here: one is modelled.   *)
(***************************************************************************)
EXTENDS Regression, Sequences

CONSTANTS
    Best,               \* system_best_sampled_n
    Uninitialised,      \* values an unset next_m may have
    MaxBlocks           \* bound on the blocks of a behaviour

(* Counts are natural numbers, and the queue keeps two of them at least    *)
(* (QUEUENUM is 6): AR_compute takes one out and looks at the rest.        *)
ASSUME ElementsAssumption == Elements \subseteq Nat /\ 0 \in Elements
ASSUME QueueNumAssumption == MaxSize >= 3
ASSUME BestAssumption == Best \in Nat
ASSUME UninitialisedAssumption ==
    Uninitialised \subseteq Int /\ Uninitialised # {}
ASSUME MaxBlocksAssumption == MaxBlocks \in Nat

VARIABLES
    q, sum_x, sum_y,            \* queue_array[if_index]
    out_sampled_rate,           \* a fraction <<numerator, denominator>>
    total_packets, sampled_packets, sampled_index,
                                \* interface_sampled_struct[if_index]
    estimate,                   \* what AR_compute returned last
    seen,                       \* history: packets of this block
    upto                        \* history: upto[k + 1] packets in k blocks

counters == <<total_packets, sampled_packets, sampled_index>>
vars == <<q, sum_x, sum_y, out_sampled_rate, counters, estimate, seen, upto>>

One == <<1, 1>>

(* The rate is a share of the packets, positive and at most 1: it is       *)
(* printed as one, and get_sampled_index makes an index of                 *)
(* sys_sampled_param[PARAM_LEN] of it.                                     *)
TypeOK ==
    /\ q \in MyQueueType
    /\ sum_x \in Int
    /\ sum_y \in Int
    /\ out_sampled_rate \in Nat \X Nat
    /\ out_sampled_rate[1] \in 1 .. out_sampled_rate[2]
    /\ total_packets \in Elements
    /\ sampled_packets \in Nat
    /\ sampled_index \in Nat
    /\ estimate \in Int
    /\ seen \in Nat
    /\ upto \in Seq(Nat)

(* init_queue_array, init_interface_sampled_struct. *)
Init ==
    /\ q = QueueCreate
    /\ sum_x = 0
    /\ sum_y = 0
    /\ out_sampled_rate = One
    /\ total_packets = 0
    /\ sampled_packets = 0
    /\ sampled_index = 0
    /\ estimate = 0
    /\ seen = 0
    /\ upto = <<0>>

-----------------------------------------------------------------------------
get_sampled_index(rate) == (10 * rate[1]) \div rate[2]

(* A mutant of get_sampled_rate: the table starts at zero tenths. *)
get_sampled_rate_low(index) == index

(* init_sys_sampled_param: the rate, in tenths, of an index. *)
get_sampled_rate(index) == index + 1

(* decide_sampled_packets: 0 means that the index is not known yet. *)
IndexInUse ==
    IF sampled_index = 0 THEN get_sampled_index(out_sampled_rate)
    ELSE sampled_index

(* analysis_module up to sampled_packets++; the draw is rand() % 10. *)
Packet ==
    /\ total_packets + 1 \in Elements
    /\ total_packets' = total_packets + 1
    /\ seen' = seen + 1
    /\ \/ /\ out_sampled_rate = One
          /\ sampled_packets' = sampled_packets + 1
          /\ UNCHANGED sampled_index
       \/ /\ out_sampled_rate # One
          /\ sampled_index' = IndexInUse
          /\ \E draw \in 0 .. 9 :
                sampled_packets' = IF draw < get_sampled_rate(IndexInUse)
                                   THEN sampled_packets + 1
                                   ELSE sampled_packets
    /\ UNCHANGED <<q, sum_x, sum_y, out_sampled_rate, estimate, upto>>

-----------------------------------------------------------------------------
(* AR_compute, before enQueue: the queue without the element that has to   *)
(* leave, and what sum_x and sum_y become with count v.                    *)
Shortened == IF isQueueFull(q) THEN DeQueue(q) ELSE q

(* A mutant of NewSumX: the element that leaves stays in the sum. *)
NewSumXKeepsFront(v) ==
    IF ~isQueueFull(q) /\ isQueueEmpty(q) THEN sum_x
    ELSE sum_x + GetQueueLast(Shortened)

NewSumX(v) ==
    IF isQueueFull(q)
    THEN sum_x + GetQueueLast(Shortened) - GetQueueFront(q)
    ELSE IF isQueueEmpty(q) THEN sum_x ELSE sum_x + GetQueueLast(q)

NewSumY(v) ==
    IF isQueueFull(q)
    THEN sum_y + v - GetQueueElem(Shortened, 1)
    ELSE IF isQueueEmpty(q) THEN sum_y ELSE sum_y + v

(* AR_compute: next_m is set only if the queue is full after enQueue. *)
Estimates(v) ==
    LET filled == enQueue(Shortened, v)
    IN  IF isQueueFull(filled)
        THEN {regression_analysis(filled, NewSumX(v), NewSumY(v))}
        ELSE Uninitialised

AR_compute(v) ==
    /\ q' = enQueue(Shortened, v)
    /\ sum_x' = NewSumX(v)
    /\ sum_y' = NewSumY(v)
    /\ estimate' \in Estimates(v)

(* A mutant of RateFor: Best may exceed what is expected. *)
RateForNoCeiling(expected) ==
    IF expected \in {0, -1} \/ Best = 0 THEN One ELSE <<Best, expected>>

(* cal_interface_sampled_rate: all packets, or Best of the expected ones. *)
RateFor(expected) ==
    IF expected \in {0, -1} \/ Best = 0 \/ Best >= expected
    THEN One
    ELSE <<Best, expected>>

(* A mutant of EndBlock: the index survives the block. *)
EndBlockKeepsIndex ==
    /\ Len(upto) <= MaxBlocks
    /\ AR_compute(total_packets)
    /\ out_sampled_rate' = RateFor(estimate')
    /\ total_packets' = 0
    /\ sampled_packets' = 0
    /\ UNCHANGED sampled_index
    /\ upto' = Append(upto, upto[Len(upto)] + seen)
    /\ seen' = 0

(* A mutant of EndBlock: only the count of all packets is cleared. *)
EndBlockKeepsSampled ==
    /\ Len(upto) <= MaxBlocks
    /\ AR_compute(total_packets)
    /\ out_sampled_rate' = RateFor(estimate')
    /\ total_packets' = 0
    /\ sampled_index' = 0
    /\ UNCHANGED sampled_packets
    /\ upto' = Append(upto, upto[Len(upto)] + seen)
    /\ seen' = 0

(* A mutant of EndBlock: the sampled packets are counted, not all. *)
EndBlockCountsSampled ==
    /\ Len(upto) <= MaxBlocks
    /\ AR_compute(sampled_packets)
    /\ out_sampled_rate' = RateFor(estimate')
    /\ total_packets' = 0
    /\ sampled_packets' = 0
    /\ sampled_index' = 0
    /\ upto' = Append(upto, upto[Len(upto)] + seen)
    /\ seen' = 0

(* The consumer's reset loop: the rate first, then the counters. *)
EndBlock ==
    /\ Len(upto) <= MaxBlocks
    /\ AR_compute(total_packets)
    /\ out_sampled_rate' = RateFor(estimate')
    /\ total_packets' = 0
    /\ sampled_packets' = 0
    /\ sampled_index' = 0
    /\ upto' = Append(upto, upto[Len(upto)] + seen)
    /\ seen' = 0

Next == Packet \/ EndBlock

Spec == Init /\ [][Next]_vars

-----------------------------------------------------------------------------
Abstract == INSTANCE Sampling WITH full_rate <- out_sampled_rate = One

(* The estimator keeps the promise of Sampling, which is all that Collector*)
(* knows of it: whatever the queue, the sums and the unset estimates do,   *)
(* packets only ever count up, the rate does not change within a block,    *)
(* and no count of one block is carried into the next.                     *)
SamplingSpec == Abstract!Spec

(* How many blocks are over. *)
Done == Len(upto) - 1

(* The queue holds the packet counts of the last blocks, oldest first:     *)
(* every block once, none skipped, and all of them until it is full.       *)
QueueHoldsLastBlocks ==
    /\ q.length = IF Done < MaxSize THEN Done ELSE MaxSize - 1
    /\ \A k \in 1 .. q.length :
          GetQueueElem(q, k) = upto[Done - q.length + k + 1]
                               - upto[Done - q.length + k]

(* sum_x and sum_y, kept up to date by adding and subtracting, are the     *)
(* sums of the counts in the queue but the last, and but the first: an     *)
(* error here is never repaired and bends every later estimate.            *)
SumsAreWindows ==
    IF q.length = 0
    THEN sum_x = 0 /\ sum_y = 0
    ELSE /\ sum_x = upto[Done] - upto[Done - q.length + 1]
         /\ sum_y = upto[Done + 1] - upto[Done - q.length + 2]

(* The cached index belongs to the rate in force, never to that of an      *)
(* earlier block, and it stays inside sys_sampled_param[PARAM_LEN].        *)
IndexFresh ==
    sampled_index # 0 =>
        /\ out_sampled_rate # One
        /\ sampled_index = get_sampled_index(out_sampled_rate)
        /\ sampled_index \in 0 .. 9

(* Below rate 1 the share of packets that is drawn is above the rate, by a *)
(* tenth at most: the index rounds down, and the table adds one.  Were both*)
(* to round the same way, or were the index of an older rate in use, fewer *)
(* samples than Best would have to be expected of a block.                 *)
DrawCoversRate ==
    out_sampled_rate # One =>
        LET asked == 10 * out_sampled_rate[1]
            whole == out_sampled_rate[2]
            drawn == get_sampled_rate(IndexInUse)
        IN  /\ asked < drawn * whole
            /\ (drawn - 1) * whole <= asked

(* The report scales bytes by sampled_packets / total_packets: at rate 1   *)
(* that must be 1, every packet of the block having been sampled, and at   *)
(* any other rate no more.                                                 *)
SampledFitsRate ==
    /\ sampled_packets <= total_packets
    /\ out_sampled_rate = One => sampled_packets = total_packets

(* A load that grows or shrinks as a * count + b from each block to the    *)
(* next, for whole a and b, is predicted exactly.                          *)
AffineLoadPredicted ==
    q.length = MaxSize - 1 =>
        \A a \in -2 .. 2, b \in -2 .. 2 :
            (\A k \in 1 .. q.length - 1 :
                GetQueueElem(q, k + 1) = a * GetQueueElem(q, k) + b)
            => estimate = a * GetQueueLast(q) + b

(* The comment of regression_analysis: the coefficients are those of the   *)
(* regression equation, that is of the line through all the pairs whose    *)
(* averages it has just computed.                                          *)
EstimateIsLeastSquares ==
    q.length = MaxSize - 1 => estimate = LeastSquares(q, sum_x, sum_y)
=============================================================================
