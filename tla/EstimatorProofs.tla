-------------------------- MODULE EstimatorProofs ---------------------------
(***************************************************************************)
(* What TLAPS proves of Estimator for every length of the queue, every     *)
(* number of blocks and every load: the queue keeps the counts of the last *)
(* blocks, and the two running sums are the sums of what it keeps.         *)
(***************************************************************************)
EXTENDS Estimator, QueueFacts

(* The inductive invariant: the sums are right because the queue holds the *)
(* last blocks, which it does because its count is never ahead of the fill *)
(* (Fill) and total_packets counts the packets of this block alone.        *)
WindowInv ==
    /\ Fill(q)
    /\ upto \in Seq(Nat) /\ Len(upto) >= 1
    /\ total_packets \in Elements /\ total_packets = seen
    /\ sampled_packets \in Nat
    /\ sum_x \in Int /\ sum_y \in Int
    /\ QueueHoldsLastBlocks
    /\ SumsAreWindows
    /\ SampledFitsRate

(* An empty queue and zero sums fit an empty history. *)
LEMMA WindowInit == Init => WindowInv
<1> SUFFICES ASSUME Init PROVE WindowInv
  OBVIOUS
<1>1. Fill(q) /\ q.length = 0
  BY FillCreate DEF Init
<1>2. upto = <<0>> /\ upto \in Seq(Nat) /\ Len(upto) = 1 /\ Done = 0
  BY DEF Init, Done
<1>3. QueueHoldsLastBlocks /\ SumsAreWindows
  BY <1>1, <1>2, QueueNumAssumption, MaxSizeAssumption
     DEF QueueHoldsLastBlocks, SumsAreWindows, Init
<1>4. /\ total_packets \in Elements /\ total_packets = seen
      /\ sampled_packets \in Nat
      /\ sum_x \in Int /\ sum_y \in Int /\ SampledFitsRate
  BY ElementsAssumption DEF Init, SampledFitsRate
<1> QED
  BY <1>1, <1>2, <1>3, <1>4 DEF WindowInv

(* The history after one more block. *)
LEMMA UptoGrows ==
  ASSUME WindowInv, upto' = Append(upto, upto[Len(upto)] + seen)
  PROVE  /\ upto' \in Seq(Nat) /\ Len(upto') = Len(upto) + 1
         /\ Done \in Nat /\ Done' = Done + 1 /\ Len(upto) = Done + 1
         /\ \A i \in 1 .. Done + 1 : upto'[i] = upto[i] /\ upto[i] \in Nat
         /\ upto'[Done + 2] = upto[Done + 1] + total_packets
         /\ total_packets \in Nat
<1>1. upto \in Seq(Nat) /\ Len(upto) \in Nat /\ Len(upto) >= 1
      /\ seen = total_packets /\ total_packets \in Nat
  BY ElementsAssumption DEF WindowInv
<1>2. upto[Len(upto)] \in Nat
  BY <1>1
<1>3. upto[Len(upto)] + seen \in Nat
  BY <1>1, <1>2
<1> QED
  BY <1>1, <1>2, <1>3 DEF Done

(* What AR_compute reads and writes while the queue is filling up. *)
LEMMA FillingUp ==
  ASSUME WindowInv, EndBlock, ~isQueueFull(q)
  PROVE  /\ q.length < MaxSize - 1 /\ q.length = Done
         /\ q' = enQueue(q, total_packets)
         /\ Fill(q)' /\ q'.length = q.length + 1
         /\ \A k \in 1 .. q'.length :
               GetQueueElem(q', k) = IF k = q.length + 1 THEN total_packets
                                     ELSE GetQueueElem(q, k)
         /\ q.length = 0 => sum_x' = sum_x /\ sum_y' = sum_y
         /\ q.length # 0 => /\ sum_x' = sum_x + GetQueueElem(q, q.length)
                            /\ sum_y' = sum_y + total_packets
<1>1. Fill(q) /\ total_packets \in Elements
  BY DEF WindowInv
<1>2. q.length < MaxSize - 1 /\ q.length \in Nat
  BY <1>1, FillMeaning, FillTypes, MaxSizeAssumption
<1>3. q.length = Done
  <2>1. Done \in Nat
    BY DEF WindowInv, Done
  <2> QED
    BY <1>2, <2>1, MaxSizeAssumption DEF WindowInv, QueueHoldsLastBlocks
<1>4. q' = enQueue(q, total_packets)
  BY DEF EndBlock, AR_compute, Shortened
<1>5. Fill(q)' /\ q'.length = q.length + 1
  BY <1>1, <1>2, <1>4, EnFill, Zenon DEF Fill
<1>6. \A k \in 1 .. q'.length :
         GetQueueElem(q', k) = IF k = q.length + 1 THEN total_packets
                               ELSE GetQueueElem(q, k)
  BY <1>1, <1>2, <1>4, <1>5, EnElem
<1>7. isQueueEmpty(q) <=> q.length = 0
  BY <1>1, FillMeaning
<1>8. /\ q.length = 0 => sum_x' = sum_x /\ sum_y' = sum_y
      /\ q.length # 0 => /\ sum_x' = sum_x + GetQueueElem(q, q.length)
                         /\ sum_y' = sum_y + total_packets
  BY <1>7 DEF EndBlock, AR_compute, NewSumX, NewSumY, GetQueueLast, GetQueueNum
<1> QED
  BY <1>2, <1>3, <1>4, <1>5, <1>6, <1>8

(* And once it is full: the head leaves, every other count moves up. *)
LEMMA MovingOn ==
  ASSUME WindowInv, EndBlock, isQueueFull(q)
  PROVE  /\ q.length = MaxSize - 1 /\ Done >= q.length
         /\ Fill(q)' /\ q'.length = q.length
         /\ \A k \in 1 .. q.length :
               GetQueueElem(q', k) = IF k = q.length THEN total_packets
                                     ELSE GetQueueElem(q, k + 1)
         /\ sum_x' = sum_x + GetQueueElem(q, q.length) - GetQueueElem(q, 1)
         /\ sum_y' = sum_y + total_packets - GetQueueElem(q, 2)
<1> DEFINE d == DeQueue(q)
<1>1. Fill(q) /\ total_packets \in Elements
  BY DEF WindowInv
<1>2. q.length = MaxSize - 1 /\ q.length \in Nat /\ q.length >= 2
  BY <1>1, FillMeaning, FillTypes, MaxSizeAssumption, QueueNumAssumption
<1>3. Done >= q.length
  <2>1. Done \in Nat
    BY DEF WindowInv, Done
  <2> QED
    BY <1>2, <2>1, MaxSizeAssumption DEF WindowInv, QueueHoldsLastBlocks
<1>4. /\ Fill(d) /\ d.length = q.length - 1
      /\ GetQueueFront(q) = GetQueueElem(q, 1)
  BY <1>1, <1>2, DeFill
<1>5. \A k \in 1 .. q.length - 1 : GetQueueElem(d, k) = GetQueueElem(q, k + 1)
  BY <1>1, DeElem
<1>6. Shortened = d
  BY DEF Shortened
<1>7. q' = enQueue(d, total_packets)
  BY <1>6 DEF EndBlock, AR_compute
<1>8. sum_x' = sum_x + GetQueueElem(d, d.length) - GetQueueElem(q, 1)
      /\ sum_y' = sum_y + total_packets - GetQueueElem(d, 1)
  BY <1>4, <1>6 DEF EndBlock, AR_compute, NewSumX, NewSumY, GetQueueLast,
                   GetQueueNum
<1> HIDE DEF d
<1>9. d.length < MaxSize - 1
  BY <1>2, <1>4
<1>10. Fill(q)' /\ q'.length = d.length + 1
  BY <1>1, <1>4, <1>7, <1>9, EnFill, Zenon DEF Fill
<1>11. q'.length = q.length
  BY <1>2, <1>4, <1>10
<1>12. \A k \in 1 .. q.length :
         GetQueueElem(q', k) = IF k = q.length THEN total_packets
                               ELSE GetQueueElem(q, k + 1)
  <2> SUFFICES ASSUME NEW k \in 1 .. q.length
               PROVE  GetQueueElem(q', k) = IF k = q.length THEN total_packets
                                            ELSE GetQueueElem(q, k + 1)
    OBVIOUS
  <2>1. k \in 1 .. d.length + 1 /\ (k = d.length + 1 <=> k = q.length)
    BY <1>2, <1>4
  <2>2. GetQueueElem(q', k) = IF k = q.length THEN total_packets
                              ELSE GetQueueElem(d, k)
    BY <1>1, <1>4, <1>7, <1>9, <2>1, EnElem
  <2>3. k # q.length => k \in 1 .. q.length - 1
    BY <1>2
  <2> QED
    BY <1>5, <2>2, <2>3
<1>13. sum_x' = sum_x + GetQueueElem(q, q.length) - GetQueueElem(q, 1)
  <2>1. d.length \in 1 .. q.length - 1 /\ d.length + 1 = q.length
    BY <1>2, <1>4
  <2>2. GetQueueElem(d, d.length) = GetQueueElem(q, q.length)
    BY <1>5, <2>1
  <2> QED
    BY <1>8, <2>2
<1>14. sum_y' = sum_y + total_packets - GetQueueElem(q, 2)
  <2>1. 1 \in 1 .. q.length - 1 /\ 1 + 1 = 2
    BY <1>2
  <2>2. GetQueueElem(d, 1) = GetQueueElem(q, 2)
    BY <1>5, <2>1
  <2> QED
    BY <1>8, <2>2
<1> QED
  BY <1>2, <1>3, <1>10, <1>11, <1>12, <1>13, <1>14

(* AR_compute keeps queue and sums those of the last blocks, in each of    *)
(* its cases: queue empty, part full, full.                                *)
LEMMA EndBlockKeepsWindow ==
  ASSUME WindowInv, EndBlock
  PROVE  /\ Fill(q)' /\ sum_x' \in Int /\ sum_y' \in Int
         /\ QueueHoldsLastBlocks' /\ SumsAreWindows'
<1>9. \A i \in 1 .. Done + 1 : upto'[i] = upto[i] /\ upto[i] \in Nat
  BY UptoGrows DEF EndBlock
<1>1. /\ Done \in Nat /\ Done' = Done + 1 /\ Len(upto) = Done + 1
      /\ upto'[Done + 2] = upto[Done + 1] + total_packets
      /\ total_packets \in Nat
  BY UptoGrows DEF EndBlock
<1>a. sum_x \in Int /\ sum_y \in Int
  BY DEF WindowInv
<1>2. /\ q.length = IF Done < MaxSize THEN Done ELSE MaxSize - 1
      /\ \A k \in 1 .. q.length :
            GetQueueElem(q, k) = upto[Done - q.length + k + 1]
                                 - upto[Done - q.length + k]
  BY DEF WindowInv, QueueHoldsLastBlocks
<1>3. q.length = 0 => sum_x = 0 /\ sum_y = 0
  BY DEF WindowInv, SumsAreWindows
<1>4. q.length # 0 => /\ sum_x = upto[Done] - upto[Done - q.length + 1]
                      /\ sum_y = upto[Done + 1] - upto[Done - q.length + 2]
  BY DEF WindowInv, SumsAreWindows
<1>5. q.length \in Nat /\ MaxSize \in Nat /\ MaxSize >= 3
  BY <1>1, <1>2, MaxSizeAssumption, QueueNumAssumption
<1>6. CASE ~isQueueFull(q)
  <2>1. /\ q.length = Done /\ q.length < MaxSize - 1
        /\ q'.length = Done + 1 /\ Fill(q)'
    BY <1>6, FillingUp
  <2>2. \A k \in 1 .. Done + 1 :
           GetQueueElem(q', k) = IF k = Done + 1 THEN total_packets
                                 ELSE GetQueueElem(q, k)
    BY <1>6, <2>1, FillingUp
  <2>3. QueueHoldsLastBlocks'
    <3>1. q'.length = IF Done' < MaxSize THEN Done' ELSE MaxSize - 1
      BY <1>1, <1>5, <2>1
    <3>2. ASSUME NEW k \in 1 .. Done + 1
          PROVE  GetQueueElem(q', k) = upto'[Done' - q'.length + k + 1]
                                       - upto'[Done' - q'.length + k]
      <4>1. Done' - q'.length + k + 1 = k + 1 /\ Done' - q'.length + k = k
        BY <1>1, <2>1
      <4>2. CASE k = Done + 1
        <5>1. GetQueueElem(q', k) = total_packets
          BY <2>2, <4>2
        <5>2. upto'[Done + 1] = upto[Done + 1] /\ upto[Done + 1] \in Nat
          BY <1>1, <1>9
        <5>3. k + 1 = Done + 2
          BY <1>1, <4>2
        <5>4. upto'[Done + 2] - upto'[Done + 1] = total_packets
          BY <1>1, <5>2
        <5> QED
          BY <4>1, <4>2, <5>1, <5>3, <5>4
      <4>3. CASE k # Done + 1
        <5>1. k \in 1 .. Done /\ k + 1 \in 1 .. Done + 1
          BY <1>1, <4>3
        <5>2. GetQueueElem(q, k) = upto[k + 1] - upto[k]
          BY <1>1, <1>2, <2>1, <5>1
        <5> QED
          BY <1>9, <2>2, <4>1, <4>3, <5>1, <5>2
      <4> QED
        BY <4>2, <4>3
    <3> QED
      BY <2>1, <3>1, <3>2 DEF QueueHoldsLastBlocks
  <2>4. CASE Done = 0
    <3>1. sum_x' = 0 /\ sum_y' = 0
      BY <1>3, <1>6, <2>1, <2>4, FillingUp
    <3>2. Done' = 1 /\ q'.length = 1
      BY <1>1, <2>1, <2>4
    <3>3. upto'[1] - upto'[1] = 0 /\ upto'[2] - upto'[2] = 0
      BY <1>9, <1>1, <2>4
    <3>4. SumsAreWindows'
      BY <3>1, <3>2, <3>3 DEF SumsAreWindows
    <3> QED
      BY <2>1, <2>3, <3>1, <3>4
  <2>5. CASE Done # 0
    <3>1. /\ sum_x' = sum_x + GetQueueElem(q, Done)
          /\ sum_y' = sum_y + total_packets
      BY <1>6, <2>1, <2>5, FillingUp
    <3>2. GetQueueElem(q, Done) = upto[Done + 1] - upto[Done]
      BY <1>1, <1>2, <2>1, <2>5
    <3>3. sum_x = upto[Done] - upto[1] /\ sum_y = upto[Done + 1] - upto[2]
      BY <1>1, <1>4, <2>1, <2>5
    <3>4. /\ upto'[1] = upto[1] /\ upto'[2] = upto[2]
          /\ upto'[Done + 1] = upto[Done + 1] /\ upto[Done] \in Nat
          /\ upto[1] \in Nat /\ upto[2] \in Nat /\ upto[Done + 1] \in Nat
      <4>1. /\ 1 \in 1 .. Done + 1 /\ 2 \in 1 .. Done + 1
            /\ Done \in 1 .. Done + 1 /\ Done + 1 \in 1 .. Done + 1
        BY <1>1, <2>5
      <4> QED
        BY <1>9, <4>1
    <3>5. /\ sum_x' = upto'[Done + 1] - upto'[1]
          /\ sum_y' = upto'[Done + 2] - upto'[2]
          /\ sum_x' \in Int /\ sum_y' \in Int
      <4>1. sum_x' = (upto[Done] - upto[1]) + (upto[Done + 1] - upto[Done])
        BY ONLY <3>1, <3>2, <3>3
      <4>2. sum_y' = (upto[Done + 1] - upto[2]) + total_packets
        BY ONLY <3>1, <3>3
      <4>3. sum_x' = upto[Done + 1] - upto[1] /\ sum_x' \in Int
        BY ONLY <3>4, <4>1
      <4>4. /\ sum_y' = upto[Done + 1] + total_packets - upto[2]
            /\ sum_y' \in Int
        BY ONLY <1>1, <3>4, <4>2
      <4> QED
        BY <1>1, <3>4, <4>3, <4>4
    <3>6. SumsAreWindows'
      <4>1. /\ Done' = Done + 1 /\ Done' + 1 = Done + 2 /\ q'.length # 0
            /\ Done' - q'.length + 1 = 1 /\ Done' - q'.length + 2 = 2
        BY <1>1, <2>1
      <4> QED
        BY <3>5, <4>1 DEF SumsAreWindows
    <3> QED
      BY <2>1, <2>3, <3>5, <3>6
  <2> QED
    BY <2>4, <2>5
<1>7. CASE isQueueFull(q)
  <2> DEFINE b == Done - q.length
  <2>1. /\ q.length = MaxSize - 1 /\ Done >= q.length /\ Fill(q)'
        /\ q'.length = q.length /\ q.length >= 2
        /\ b \in Nat /\ b + q.length = Done
    BY <1>1, <1>5, <1>7, MovingOn
  <2>2. /\ \A k \in 1 .. q.length :
              GetQueueElem(q', k) = IF k = q.length THEN total_packets
                                    ELSE GetQueueElem(q, k + 1)
        /\ sum_x' = sum_x + GetQueueElem(q, q.length) - GetQueueElem(q, 1)
        /\ sum_y' = sum_y + total_packets - GetQueueElem(q, 2)
    BY <1>7, MovingOn
  <2>3. Done' - q'.length = b + 1
    BY <1>1, <1>5, <2>1
  <2>4. \A k \in 1 .. q.length :
           GetQueueElem(q, k) = upto[b + k + 1] - upto[b + k]
    BY <1>2
  <2> HIDE DEF b
  <2>5. QueueHoldsLastBlocks'
    <3>1. q'.length = IF Done' < MaxSize THEN Done' ELSE MaxSize - 1
      BY <1>1, <1>5, <2>1
    <3>2. ASSUME NEW k \in 1 .. q.length
          PROVE  GetQueueElem(q', k) = upto'[b + 1 + k + 1] - upto'[b + 1 + k]
      <4>1. CASE k = q.length
        <5>1. b + 1 + k + 1 = Done + 2 /\ b + 1 + k = Done + 1
          BY <1>1, <2>1, <4>1
        <5>2. GetQueueElem(q', k) = total_packets
          BY <2>2, <4>1
        <5>3. upto'[Done + 1] = upto[Done + 1] /\ upto[Done + 1] \in Nat
          BY <1>1, <1>9
        <5>4. upto'[Done + 2] - upto'[Done + 1] = total_packets
          BY <1>1, <5>3
        <5> QED
          BY <5>1, <5>2, <5>4
      <4>2. CASE k # q.length
        <5>1. /\ k + 1 \in 1 .. q.length
              /\ b + 1 + k \in 1 .. Done + 1 /\ b + 1 + k + 1 \in 1 .. Done + 1
              /\ b + (k + 1) + 1 = b + 1 + k + 1 /\ b + (k + 1) = b + 1 + k
          BY <1>1, <1>5, <2>1, <4>2
        <5>2. GetQueueElem(q, k + 1) = upto[b + 1 + k + 1] - upto[b + 1 + k]
          BY <2>4, <5>1
        <5> QED
          BY <1>9, <2>2, <4>2, <5>1, <5>2
      <4> QED
        BY <4>1, <4>2
    <3> QED
      BY <2>1, <2>3, <3>1, <3>2 DEF QueueHoldsLastBlocks
  <2>6. /\ GetQueueElem(q, q.length) = upto[Done + 1] - upto[Done]
        /\ GetQueueElem(q, 1) = upto[b + 2] - upto[b + 1]
        /\ GetQueueElem(q, 2) = upto[b + 3] - upto[b + 2]
    <3>1. /\ q.length \in 1 .. q.length /\ 1 \in 1 .. q.length
          /\ 2 \in 1 .. q.length
          /\ b + q.length + 1 = Done + 1 /\ b + q.length = Done
          /\ b + 1 + 1 = b + 2 /\ b + 2 + 1 = b + 3
      BY <1>5, <2>1
    <3> QED
      BY <2>4, <3>1
  <2>7. /\ sum_x = upto[Done] - upto[b + 1]
        /\ sum_y = upto[Done + 1] - upto[b + 2]
    BY <1>4, <2>1 DEF b
  <2>8. /\ upto'[b + 2] = upto[b + 2] /\ upto'[b + 3] = upto[b + 3]
        /\ upto'[Done + 1] = upto[Done + 1] /\ upto[Done] \in Nat
        /\ upto[b + 1] \in Nat /\ upto[b + 2] \in Nat /\ upto[b + 3] \in Nat
        /\ upto[Done + 1] \in Nat
    <3>1. /\ b + 1 \in 1 .. Done + 1 /\ b + 2 \in 1 .. Done + 1
          /\ b + 3 \in 1 .. Done + 1 /\ Done \in 1 .. Done + 1
          /\ Done + 1 \in 1 .. Done + 1
      BY <1>1, <1>5, <2>1
    <3> QED
      BY <1>9, <3>1
  <2>9. /\ sum_x' = upto'[Done + 1] - upto'[b + 2]
        /\ sum_y' = upto'[Done + 2] - upto'[b + 3]
        /\ sum_x' \in Int /\ sum_y' \in Int
    <3>1. /\ sum_x' = sum_x + GetQueueElem(q, q.length) - GetQueueElem(q, 1)
          /\ sum_y' = sum_y + total_packets - GetQueueElem(q, 2)
      BY <2>2
    <3>2. sum_x' = (upto[Done] - upto[b + 1]) + (upto[Done + 1] - upto[Done])
                   - (upto[b + 2] - upto[b + 1])
      BY ONLY <2>6, <2>7, <3>1
    <3>3. sum_y' = (upto[Done + 1] - upto[b + 2]) + total_packets
                   - (upto[b + 3] - upto[b + 2])
      BY ONLY <2>6, <2>7, <3>1
    <3>4. sum_x' = upto[Done + 1] - upto[b + 2] /\ sum_x' \in Int
      BY ONLY <2>8, <3>2
    <3>a. total_packets \in Nat
      BY <1>1
    <3>5. /\ sum_y' = upto[Done + 1] + total_packets - upto[b + 3]
          /\ sum_y' \in Int
      BY ONLY <2>8, <3>3, <3>a
    <3> QED
      BY <1>1, <2>8, <3>4, <3>5
  <2>10. SumsAreWindows'
    <3>1. /\ Done' = Done + 1 /\ Done' + 1 = Done + 2 /\ q'.length # 0
          /\ Done' - q'.length + 1 = b + 2 /\ Done' - q'.length + 2 = b + 3
      BY <1>1, <1>5, <2>1, <2>3
    <3> QED
      BY <2>9, <3>1 DEF SumsAreWindows
  <2> QED
    BY <2>1, <2>5, <2>9, <2>10
<1> QED
  BY <1>6, <1>7

(* So does every step, packets included. *)
LEMMA WindowStep == WindowInv /\ [Next]_vars => WindowInv'
<1> SUFFICES ASSUME WindowInv, [Next]_vars PROVE WindowInv'
  OBVIOUS
<1>0. total_packets \in Nat /\ seen = total_packets
  BY ElementsAssumption DEF WindowInv
<1>1. CASE Packet
  <2>1. UNCHANGED <<q, sum_x, sum_y, out_sampled_rate, upto>>
    BY <1>1 DEF Packet
  <2>2. /\ total_packets' \in Elements /\ total_packets' = seen'
        /\ total_packets' = total_packets + 1
    BY <1>0, <1>1 DEF Packet
  <2>3. sampled_packets' \in {sampled_packets, sampled_packets + 1}
        /\ (out_sampled_rate = One => sampled_packets' = sampled_packets + 1)
    BY <1>1 DEF Packet
  <2>4. sampled_packets' \in Nat /\ SampledFitsRate'
    BY <1>0, <2>1, <2>2, <2>3 DEF WindowInv, SampledFitsRate
  <2>5. QueueHoldsLastBlocks' /\ SumsAreWindows'
    BY <2>1 DEF WindowInv, QueueHoldsLastBlocks, SumsAreWindows, Done,
                GetQueueElem, ElemSlot
  <2> QED
    BY <2>1, <2>2, <2>4, <2>5 DEF WindowInv
<1>2. CASE EndBlock
  <2>1. /\ total_packets' = 0 /\ sampled_packets' = 0 /\ seen' = 0
        /\ total_packets' \in Elements /\ SampledFitsRate'
    BY <1>2, ElementsAssumption DEF EndBlock, SampledFitsRate
  <2>2. upto' \in Seq(Nat) /\ Len(upto') >= 1
    BY <1>2, UptoGrows DEF EndBlock, WindowInv
  <2>3. /\ Fill(q)' /\ sum_x' \in Int /\ sum_y' \in Int
        /\ QueueHoldsLastBlocks' /\ SumsAreWindows'
    BY <1>2, EndBlockKeepsWindow
  <2> QED
    BY <2>1, <2>2, <2>3 DEF WindowInv
<1>3. CASE UNCHANGED vars
  BY <1>3 DEF vars, counters, WindowInv, QueueHoldsLastBlocks, SumsAreWindows,
              SampledFitsRate, Done, GetQueueElem, ElemSlot
<1> QED
  BY <1>1, <1>2, <1>3 DEF Next

(* So the window is right at all times. *)
LEMMA WindowAlways == Spec => []WindowInv
  BY WindowInit, WindowStep, PTL DEF Spec

(* The queue holds the counts of the last blocks, each once and in order,  *)
(* for every QUEUENUM and however many blocks there were.                  *)
THEOREM QueueWindow == Spec => []QueueHoldsLastBlocks
<1>1. WindowInv => QueueHoldsLastBlocks
  BY DEF WindowInv
<1> QED
  BY <1>1, WindowAlways, PTL

(* The running sums of AR_compute never drift from what the queue holds.   *)
THEOREM RunningSums == Spec => []SumsAreWindows
<1>1. WindowInv => SumsAreWindows
  BY DEF WindowInv
<1> QED
  BY <1>1, WindowAlways, PTL

(* A block whose rate is 1 is sampled completely.                          *)
THEOREM FullRateSamplesAll == Spec => []SampledFitsRate
<1>1. WindowInv => SampledFitsRate
  BY DEF WindowInv
<1> QED
  BY <1>1, WindowAlways, PTL

-----------------------------------------------------------------------------
(* A packet counts and an end of block clears, just as Sampling says: none *)
(* of queue, sums, estimate and index has a say in it (analysis.c, the     *)
(* head of analysis_module, and the reset loop of main.c).                 *)
THEOREM KeepsSampling == Spec => SamplingSpec
<1>1. Init => Abstract!Init
  BY DEF Init, Abstract!Init
<1>2. [Next]_vars => [Abstract!Next]_(Abstract!vars)
  <2> SUFFICES ASSUME [Next]_vars PROVE [Abstract!Next]_(Abstract!vars)
    OBVIOUS
  <2> USE DEF Abstract!Next, Abstract!vars
  <2>1. CASE Packet
    <3>1. total_packets' = total_packets + 1 /\ UNCHANGED out_sampled_rate
      BY <2>1 DEF Packet
    <3>2. \/ sampled_packets' = sampled_packets + 1
          \/ out_sampled_rate # One /\ sampled_packets' = sampled_packets
      BY <2>1 DEF Packet
    <3> QED BY <3>1, <3>2 DEF Abstract!Packet
  <2>2. CASE EndBlock
    <3>1. total_packets' = 0 /\ sampled_packets' = 0
      BY <2>2 DEF EndBlock
    <3> QED BY <3>1 DEF Abstract!EndBlock
  <2>3. CASE UNCHANGED vars
    BY <2>3 DEF vars, counters
  <2> QED BY <2>1, <2>2, <2>3 DEF Next
<1> QED BY <1>1, <1>2, PTL DEF Spec, SamplingSpec, Abstract!Spec

-----------------------------------------------------------------------------
(* What AR_compute returned last is the regression over the window as it   *)
(* stands, as soon as that is full.                                        *)
EstimateInv ==
    IF isQueueFull(q)
    THEN estimate = regression_analysis(q, sum_x, sum_y)
    ELSE estimate \in Uninitialised \cup {0}

(* No block is over and nothing is estimated yet. *)
LEMMA EstimateBegins == Init => EstimateInv
<1> SUFFICES ASSUME Init PROVE EstimateInv
  OBVIOUS
<1>1. Fill(q) /\ q.length = 0
  BY FillCreate DEF Init
<1>2. ~isQueueFull(q)
  BY <1>1, FillMeaning, MaxSizeAssumption
<1> QED BY <1>2 DEF EstimateInv, Init

(* AR_compute is the only one to touch the queue, the sums and the estimate.*)
LEMMA EstimateSteps == EstimateInv /\ [Next]_vars => EstimateInv'
<1> SUFFICES ASSUME EstimateInv, [Next]_vars PROVE EstimateInv'
  OBVIOUS
<1>1. CASE UNCHANGED <<q, sum_x, sum_y, estimate>>
  BY <1>1 DEF EstimateInv
<1>2. CASE EndBlock
  <2>1. /\ q' = enQueue(Shortened, total_packets)
        /\ sum_x' = NewSumX(total_packets) /\ sum_y' = NewSumY(total_packets)
        /\ estimate' \in Estimates(total_packets)
    BY <1>2 DEF EndBlock, AR_compute
  <2> QED BY <2>1 DEF Estimates, EstimateInv
<1> QED BY <1>1, <1>2 DEF Next, Packet, vars, counters

(* So the estimate is never one of an older window. *)
LEMMA EstimateAlways == Spec => []EstimateInv
BY EstimateBegins, EstimateSteps, PTL DEF Spec

(* The full queue as a window of whole numbers.                            *)
LEMMA FullWindow ==
  ASSUME WindowInv, isQueueFull(q)
  PROVE  /\ q.length = MaxSize - 1 /\ Window(q, MaxSize - 2)
         /\ sum_x \in Int /\ sum_y \in Int
         /\ Done \in Nat /\ Done >= q.length
         /\ \A i \in 1 .. Done + 1 : upto[i] \in Nat
         /\ regression_analysis(q, sum_x, sum_y) =
               Predict(q, sum_x, sum_y, MaxSize - 2, 1 .. MaxSize - 3)
<1>1. Fill(q) /\ sum_x \in Int /\ sum_y \in Int
      /\ upto \in Seq(Nat) /\ Len(upto) >= 1
  BY DEF WindowInv
<1>2. q.length = MaxSize - 1 /\ MaxSize \in Nat /\ MaxSize >= 3
  BY <1>1, FillMeaning, MaxSizeAssumption, QueueNumAssumption
<1>3. Done \in Nat /\ Len(upto) = Done + 1
  BY <1>1 DEF Done
<1>4. /\ q.length = IF Done < MaxSize THEN Done ELSE MaxSize - 1
      /\ \A k \in 1 .. q.length :
            GetQueueElem(q, k) = upto[Done - q.length + k + 1]
                                 - upto[Done - q.length + k]
  BY DEF WindowInv, QueueHoldsLastBlocks
<1>5. Done >= q.length
  BY <1>2, <1>3, <1>4
<1>6. \A i \in 1 .. Done + 1 : upto[i] \in Nat
  BY <1>1, <1>3
<1>7. \A k \in 1 .. q.length : GetQueueElem(q, k) \in Int
  <2> SUFFICES ASSUME NEW k \in 1 .. q.length PROVE GetQueueElem(q, k) \in Int
    OBVIOUS
  <2>1. /\ Done - q.length + k + 1 \in 1 .. Done + 1
        /\ Done - q.length + k \in 1 .. Done + 1
    BY <1>2, <1>3, <1>5
  <2>2. /\ upto[Done - q.length + k + 1] \in Nat
        /\ upto[Done - q.length + k] \in Nat
    BY <1>6, <2>1
  <2> QED BY <1>4, <2>2
<1>8. Window(q, MaxSize - 2)
  <2>1. (MaxSize - 2) + 1 = q.length /\ MaxSize - 2 \in Nat \ {0}
    BY <1>2
  <2> QED BY <1>7, <2>1 DEF Window, GetQueueNum
<1>9. regression_analysis(q, sum_x, sum_y) =
         Predict(q, sum_x, sum_y, MaxSize - 2, 1 .. MaxSize - 3)
  <2>1. GetQueueNum(q) - 1 = MaxSize - 2 /\ MaxSize - 2 # 0
        /\ (MaxSize - 2) - 1 = MaxSize - 3
    BY <1>2 DEF GetQueueNum
  <2> QED BY <2>1 DEF regression_analysis
<1> QED BY <1>1, <1>2, <1>3, <1>5, <1>6, <1>8, <1>9

(* So the estimate is a whole number, whatever the load. *)
LEMMA EstimateIsWhole == WindowInv /\ EstimateInv => estimate \in Int
<1> SUFFICES ASSUME WindowInv, EstimateInv PROVE estimate \in Int
  OBVIOUS
<1>1. CASE isQueueFull(q)
  <2>1. 1 .. MaxSize - 3 \subseteq 1 .. MaxSize - 2
    BY MaxSizeAssumption
  <2> QED BY <1>1, <2>1, FullWindow, PredictType DEF EstimateInv
<1>2. CASE ~isQueueFull(q)
  <2>1. estimate \in Uninitialised \cup {0}
    BY <1>2 DEF EstimateInv
  <2> QED BY <2>1, UninitialisedAssumption
<1> QED BY <1>1, <1>2

(* The counts of a full window and the two sums as gains of the running    *)
(* totals u.                                                               *)
LEMMA WindowTotals ==
  ASSUME WindowInv, isQueueFull(q)
  PROVE  LET n == MaxSize - 2
         IN  \E u : /\ \A i \in 1 .. n + 2 : u[i] \in Int
                    /\ \A k \in 1 .. n + 1 :
                          GetQueueElem(q, k) = u[k + 1] - u[k]
                    /\ sum_x = u[n + 1] - u[1] /\ sum_y = u[n + 2] - u[2]
<1> DEFINE n == MaxSize - 2
           h == Done - q.length
           u == [i \in 1 .. n + 2 |-> upto[h + i]]
           x(k) == GetQueueElem(q, k)
<1>1. /\ q.length = n + 1 /\ n \in Nat \ {0} /\ h \in Nat /\ h + n + 1 = Done
      /\ Done \in Nat
  <2>1. q.length = MaxSize - 1 /\ Done \in Nat /\ Done >= q.length
    BY FullWindow
  <2>2. MaxSize \in Nat /\ MaxSize >= 3
    BY MaxSizeAssumption, QueueNumAssumption
  <2> QED BY <2>1, <2>2
<1>2. \A i \in 1 .. n + 2 : u[i] = upto[h + i] /\ u[i] \in Int
  <2> SUFFICES ASSUME NEW i \in 1 .. n + 2
               PROVE  u[i] = upto[h + i] /\ u[i] \in Int
    OBVIOUS
  <2>1. h + i \in 1 .. Done + 1
    BY <1>1
  <2>2. upto[h + i] \in Nat
    BY <2>1, FullWindow
  <2> QED BY <2>2
<1>3. \A k \in 1 .. n + 1 : x(k) = u[k + 1] - u[k]
  <2> SUFFICES ASSUME NEW k \in 1 .. n + 1 PROVE x(k) = u[k + 1] - u[k]
    OBVIOUS
  <2>1. x(k) = upto[h + k + 1] - upto[h + k]
    BY <1>1 DEF WindowInv, QueueHoldsLastBlocks
  <2>2. k \in 1 .. n + 2 /\ k + 1 \in 1 .. n + 2 /\ h + (k + 1) = h + k + 1
    BY <1>1
  <2> QED BY <1>2, <2>1, <2>2
<1>4. sum_x = u[n + 1] - u[1] /\ sum_y = u[n + 2] - u[2]
  <2>1. /\ sum_x = upto[Done] - upto[h + 1]
        /\ sum_y = upto[Done + 1] - upto[h + 2]
    BY <1>1 DEF WindowInv, SumsAreWindows
  <2>2. /\ 1 \in 1 .. n + 2 /\ 2 \in 1 .. n + 2 /\ n + 1 \in 1 .. n + 2
        /\ n + 2 \in 1 .. n + 2 /\ h + (n + 1) = Done /\ h + (n + 2) = Done + 1
    BY <1>1
  <2> QED BY <1>2, <2>1, <2>2
<1> QED BY <1>2, <1>3, <1>4

(* sum_x and sum_y of a window whose counts lie on a line. *)
LEMMA WindowSums ==
  ASSUME WindowInv, isQueueFull(q)
  PROVE  LET n == MaxSize - 2
         IN  /\ \A a, b \in Int :
                   (\A k \in 1 .. n :
                       GetQueueElem(q, k + 1) = a * GetQueueElem(q, k) + b)
                   => sum_y = a * sum_x + n * b
             /\ \A c \in Int :
                   (\A k \in 1 .. n - 1 : GetQueueElem(q, k) = c)
                   => sum_x = (n - 1) * c + GetQueueElem(q, n)
<1> DEFINE n == MaxSize - 2
           x(k) == GetQueueElem(q, k)
<1>1. n \in Nat \ {0}
  BY MaxSizeAssumption, QueueNumAssumption
<1>2. PICK u : /\ \A i \in 1 .. n + 2 : u[i] \in Int
               /\ \A k \in 1 .. n + 1 : x(k) = u[k + 1] - u[k]
               /\ sum_x = u[n + 1] - u[1] /\ sum_y = u[n + 2] - u[2]
  BY WindowTotals
<1> HIDE DEF n, x
<1>5. ASSUME NEW a \in Int, NEW b \in Int,
             \A k \in 1 .. n : x(k + 1) = a * x(k) + b
      PROVE  sum_y = a * sum_x + n * b
  <2>1. ASSUME NEW k \in 1 .. n
        PROVE  u[k + 2] - u[k + 1] = a * (u[k + 1] - u[k]) + b
    <3>1. k \in 1 .. n + 1 /\ k + 1 \in 1 .. n + 1 /\ (k + 1) + 1 = k + 2
      BY <1>1
    <3>2. x(k) = u[k + 1] - u[k] /\ x(k + 1) = u[k + 2] - u[k + 1]
      BY <1>2, <3>1
    <3> QED BY <1>5, <3>2
  <2>2. u[n + 2] - u[2] = a * (u[n + 1] - u[1]) + n * b
    BY <1>1, <1>2, <2>1, SumsOfLine
  <2> QED BY <1>2, <2>2
<1>6. ASSUME NEW c \in Int, \A k \in 1 .. n - 1 : x(k) = c
      PROVE  sum_x = (n - 1) * c + x(n)
  <2>1. \A i \in 1 .. n + 1 : u[i] \in Int
    BY <1>1, <1>2
  <2>2. \A k \in 1 .. n - 1 : u[k + 1] - u[k] = c
    BY <1>1, <1>2, <1>6
  <2>3. u[n] - u[1] = (n - 1) * c
    BY <1>1, <2>1, <2>2, SumOfConstant
  <2>4. /\ x(n) = u[n + 1] - u[n]
        /\ u[n] \in Int /\ u[1] \in Int /\ u[n + 1] \in Int
    BY <1>1, <1>2, <2>1
  <2> QED BY <1>2, <2>3, <2>4
<1> QED BY <1>5, <1>6 DEF n, x

(* A factor above zero can be taken away. *)
LEMMA Cancels ==
  ASSUME NEW n \in Nat \ {0}, NEW y \in Int, NEW z \in Int, n * y = n * z
  PROVE  y = z
<1>1. n * (y - z) = n * y - n * z
  OBVIOUS
<1>2. n * (y - z) = 0
  BY <1>1
<1>3. CASE y - z >= 1
  <2>1. n * (y - z) >= n
    BY <1>3
  <2> QED BY <1>2, <2>1
<1>4. CASE y - z <= -1
  <2>1. n * (y - z) <= -n
    BY <1>4
  <2> QED BY <1>2, <2>1
<1> QED BY <1>3, <1>4

(* One summand taken away. *)
LEMMA OneMore ==
  ASSUME NEW n \in Nat \ {0}, NEW c \in Int
  PROVE  (n - 1) * c = n * c - c /\ n * c \in Int
OBVIOUS

(* With two pairs or more a load on a line is predicted exactly, with the  *)
(* last pair or without.                                                   *)
LEMMA LinePredicted ==
  ASSUME MaxSize >= 4, WindowInv, isQueueFull(q),
         NEW used, 1 .. MaxSize - 3 \subseteq used,
         used \subseteq 1 .. MaxSize - 2,
         NEW a \in Int, NEW b \in Int,
         \A k \in 1 .. q.length - 1 :
             GetQueueElem(q, k + 1) = a * GetQueueElem(q, k) + b
  PROVE  Predict(q, sum_x, sum_y, MaxSize - 2, used) = a * GetQueueLast(q) + b
<1> DEFINE n == MaxSize - 2
           x(k) == GetQueueElem(q, k)
<1>1. /\ q.length = n + 1 /\ n \in Nat \ {0, 1}
      /\ 1 .. n - 1 \subseteq used /\ used \subseteq 1 .. n
  BY FullWindow, MaxSizeAssumption
<1>2. Window(q, n) /\ sum_x \in Int /\ sum_y \in Int
  BY FullWindow
<1>3. \A k \in 1 .. n : x(k + 1) = a * x(k) + b
  BY <1>1
<1>4. \A k \in 1 .. n + 1 : x(k) \in Int
  BY <1>2 DEF Window
<1>5. sum_y = a * sum_x + n * b
  BY <1>3, WindowSums
<1>6. \A c \in Int : (\A k \in 1 .. n - 1 : x(k) = c)
                     => sum_x = (n - 1) * c + x(n)
  BY WindowSums
<1>7. GetQueueLast(q) = x(n + 1)
  BY <1>1 DEF GetQueueLast, GetQueueNum
<1> HIDE DEF n
<1>8. CASE \E i \in used : n * x(i) # sum_x
  <2>1. \A i \in used : x(i + 1) = a * x(i) + b
    BY <1>1, <1>3
  <2>2. /\ \A i \in used : GetQueueElem(q, i + 1) = a * GetQueueElem(q, i) + b
        /\ \E i \in used : n * GetQueueElem(q, i) # sum_x
    BY <1>8, <2>1
  <2>3. OnLine(q, sum_x, sum_y, n, used, a, b)
    BY <1>1, <1>2, <1>5, <2>2 DEF OnLine
  <2> QED BY <2>3, PredictLine DEF n
<1>9. CASE \A i \in used : n * x(i) = sum_x
  <2> DEFINE c == x(1)
  <2>1. Predict(q, sum_x, sum_y, n, used) = x(n + 1)
    BY <1>1, <1>2, <1>7, <1>9, PredictFlat
  <2>2. c \in Int /\ 1 \in used /\ n * c = sum_x
    BY <1>1, <1>4, <1>9
  <2>3. \A k \in 1 .. n - 1 : x(k) = c
    <3> SUFFICES ASSUME NEW k \in 1 .. n - 1 PROVE x(k) = c
      OBVIOUS
    <3>1. k \in used /\ k \in 1 .. n + 1 /\ n \in Nat \ {0}
      BY <1>1
    <3>2. x(k) \in Int
      BY <1>4, <3>1
    <3>3. n * x(k) = n * c
      BY <1>9, <2>2, <3>1
    <3> HIDE DEF c, x
    <3> QED BY <2>2, <3>1, <3>2, <3>3, Cancels
  <2>4. x(n) = c
    <3>1. sum_x = (n - 1) * c + x(n)
      BY <1>6, <2>2, <2>3
    <3>2. n \in 1 .. n + 1 /\ n \in Nat \ {0}
      BY <1>1
    <3>3. x(n) \in Int
      BY <1>4, <3>2
    <3> HIDE DEF c, x
    <3>4. (n - 1) * c = n * c - c /\ n * c \in Int
      BY <2>2, <3>2, OneMore
    <3> QED BY <2>2, <3>1, <3>3, <3>4
  <2>5. x(n) = a * x(n - 1) + b /\ x(n - 1) = c /\ x(n + 1) = a * x(n) + b
    <3>1. /\ n - 1 \in 1 .. n /\ n \in 1 .. n
          /\ (n - 1) + 1 = n /\ n - 1 \in 1 .. n - 1
      BY <1>1
    <3> QED BY <1>3, <2>3, <3>1
  <2>6. x(n + 1) = c
    BY <2>4, <2>5
  <2> QED BY <1>7, <2>1, <2>4, <2>5, <2>6 DEF n
<1> QED BY <1>8, <1>9

(* AffineLoadPredicted for all whole coefficients, and that leaving out the *)
(* last pair costs nothing there: the estimate is that of least squares.   *)
EveryLine ==
    q.length = MaxSize - 1 =>
        \A a, b \in Int :
            (\A k \in 1 .. q.length - 1 :
                GetQueueElem(q, k + 1) = a * GetQueueElem(q, k) + b)
            => /\ estimate = a * GetQueueLast(q) + b
               /\ estimate = LeastSquares(q, sum_x, sum_y)

(* A load on which regression_analysis does find the regression equation   *)
(* that its comment speaks of (analysis.c): one that is a line from block  *)
(* to block.  One pair alone, MaxSize = 3, is no line.                     *)
THEOREM EveryLinePredicted ==
  ASSUME MaxSize >= 4
  PROVE  Spec => []EveryLine
<1>1. WindowInv /\ EstimateInv => EveryLine
  <2> SUFFICES ASSUME WindowInv, EstimateInv, q.length = MaxSize - 1,
                      NEW a \in Int, NEW b \in Int,
                      \A k \in 1 .. q.length - 1 :
                          GetQueueElem(q, k + 1) = a * GetQueueElem(q, k) + b
               PROVE  /\ estimate = a * GetQueueLast(q) + b
                      /\ estimate = LeastSquares(q, sum_x, sum_y)
    BY DEF EveryLine
  <2>1. isQueueFull(q)
    BY FillMeaning DEF WindowInv
  <2>2. estimate = Predict(q, sum_x, sum_y, MaxSize - 2, 1 .. MaxSize - 3)
    BY <2>1, FullWindow DEF EstimateInv
  <2>3. LeastSquares(q, sum_x, sum_y) =
           Predict(q, sum_x, sum_y, MaxSize - 2, 1 .. MaxSize - 2)
    <3>1. GetQueueNum(q) - 1 = MaxSize - 2
      BY MaxSizeAssumption DEF GetQueueNum
    <3> QED BY <3>1 DEF LeastSquares
  <2>4. 1 .. MaxSize - 3 \subseteq 1 .. MaxSize - 2
    BY MaxSizeAssumption
  <2> QED BY <2>1, <2>2, <2>3, <2>4, LinePredicted
<1> QED BY <1>1, WindowAlways, EstimateAlways, PTL

(* The property of the run, with its few coefficients. *)
THEOREM LoadOnLinePredicted ==
  ASSUME MaxSize >= 4
  PROVE  Spec => []AffineLoadPredicted
<1>1. EveryLine => AffineLoadPredicted
  BY DEF EveryLine, AffineLoadPredicted
<1> QED BY <1>1, EveryLinePredicted, PTL

-----------------------------------------------------------------------------
(* The sums are those of all pairs: the averages are the true ones.        *)
LEMMA WindowCentred ==
  ASSUME WindowInv, isQueueFull(q)
  PROVE  Centred(q, sum_x, sum_y, MaxSize - 2)
<1> DEFINE n == MaxSize - 2
           x == DeviationsX(q, sum_x, n, 1 .. n)
           y == DeviationsY(q, sum_y, n, 1 .. n)
<1>1. Window(q, n) /\ sum_x \in Int /\ sum_y \in Int
  BY FullWindow
<1>2. n \in Nat \ {0}
  BY <1>1 DEF Window
<1>3. PICK u : /\ \A i \in 1 .. n + 2 : u[i] \in Int
               /\ \A k \in 1 .. n + 1 : GetQueueElem(q, k) = u[k + 1] - u[k]
               /\ sum_x = u[n + 1] - u[1] /\ sum_y = u[n + 2] - u[2]
  BY WindowTotals
<1>4. x \in [1 .. n -> Int] /\ y \in [1 .. n -> Int]
  <2>1. 1 .. n \subseteq 1 .. n
    OBVIOUS
  <2> HIDE DEF n
  <2> QED BY <1>1, <2>1, Deviations DEF DeviationsX, DeviationsY
<1> DEFINE v == [i \in 1 .. n + 1 |-> u[i + 1]]
<1> HIDE DEF n
<1>5. Total(x, 1 .. n) = 0
  <2>1. \A i \in 1 .. n + 1 : u[i] \in Int
    BY <1>2, <1>3
  <2>2. \A k \in 1 .. n : x[k] = n * (u[k + 1] - u[k]) - (u[n + 1] - u[1])
    BY <1>2, <1>3 DEF DeviationsX, DeviationX
  <2> HIDE DEF x
  <2> QED BY <1>2, <1>4, <2>1, <2>2, DeviationsCancel
<1>6. Total(y, 1 .. n) = 0
  <2>1. \A i \in 1 .. n + 1 : v[i] = u[i + 1] /\ v[i] \in Int
    BY <1>2, <1>3
  <2>2. \A k \in 1 .. n : y[k] = n * (v[k + 1] - v[k]) - (v[n + 1] - v[1])
    <3> SUFFICES ASSUME NEW k \in 1 .. n
                 PROVE  y[k] = n * (v[k + 1] - v[k]) - (v[n + 1] - v[1])
      OBVIOUS
    <3>1. /\ k + 1 \in 1 .. n + 1 /\ k \in 1 .. n + 1
          /\ n + 1 \in 1 .. n + 1 /\ 1 \in 1 .. n + 1
      BY <1>2
    <3>2. y[k] = n * GetQueueElem(q, k + 1) - sum_y
      BY DEF DeviationsY, DeviationY
    <3>3. /\ GetQueueElem(q, k + 1) = u[(k + 1) + 1] - u[k + 1]
          /\ sum_y = u[(n + 1) + 1] - u[1 + 1]
      BY <1>2, <1>3, <3>1
    <3>4. /\ v[k + 1] = u[(k + 1) + 1] /\ v[k] = u[k + 1]
          /\ v[n + 1] = u[(n + 1) + 1] /\ v[1] = u[1 + 1]
      BY <2>1, <3>1
    <3> HIDE DEF v, y
    <3> QED BY <3>2, <3>3, <3>4
  <2>3. \A i \in 1 .. n + 1 : v[i] \in Int
    BY <2>1
  <2> HIDE DEF v, y
  <2> QED BY <1>2, <1>4, <2>2, <2>3, DeviationsCancel
<1> QED BY <1>1, <1>5, <1>6 DEF Centred, n

(* `value` is what the line y = (num * x + c / n) / den gives for the last *)
(* count; the line goes through the averages of all n pairs of the window, *)
(* and it has no slope only if every pair used lies above the average.     *)
OnFittedLine(value, pairs, den, num) ==
    LET n    == MaxSize - 2
        c    == den * sum_y - num * sum_x
        last == GetQueueLast(q)
    IN  /\ den = 0 <=> \A k \in pairs : n * GetQueueElem(q, k) = sum_x
        /\ value = IF den = 0 THEN last
                   ELSE Truncate(n * num * last + c, n * den)

(* The squares of what the pairs are off the line through the averages     *)
(* with this slope; and off any line at all.                               *)
Misfit(pairs, den, num) ==
    SquaredError(q, MaxSize - 2, pairs, den, num, den * sum_y - num * sum_x)
MisfitOf(pairs, t, r, c) == SquaredError(q, MaxSize - 2, pairs, t, r, c)

(* What regression_analysis computes, and what the regression equation of  *)
(* its comment is: both lines go through the averages of all pairs; the    *)
(* first fits the pairs but the last better than any other such line, the  *)
(* second fits all pairs better than any other line.                       *)
BestLines ==
    q.length = MaxSize - 1 =>
        LET n == MaxSize - 2
        IN  /\ \E den \in Nat, num \in Int :
                  /\ OnFittedLine(estimate, 1 .. n - 1, den, num)
                  /\ \A t, r \in Int :
                        t * t * Misfit(1 .. n - 1, den, num)
                          <= den * den * Misfit(1 .. n - 1, t, r)
            /\ \E den \in Nat, num \in Int :
                  /\ OnFittedLine(LeastSquares(q, sum_x, sum_y),
                                  1 .. n, den, num)
                  /\ \A t, r, c \in Int :
                        t * t * Misfit(1 .. n, den, num)
                          <= den * den * MisfitOf(1 .. n, t, r, c)

(* A factor that is not negative keeps the order. *)
LEMMA Scaled ==
  ASSUME NEW d \in Nat, NEW x \in Int, NEW y \in Int, x <= y
  PROVE  d * d * x <= d * d * y
<1>1. d * d \in Nat /\ y - x \in Nat
  OBVIOUS
<1>2. (d * d) * (y - x) \in Nat
  BY <1>1
<1>3. (d * d) * (y - x) = d * d * y - d * d * x
  BY <1>1
<1> QED BY <1>2, <1>3

(* The estimate of a full window lies on the line that fits the pairs but  *)
(* the last, with the averages of all of them; the reference is the least  *)
(* squares line.  (analysis.c: the sums run over queue_num pairs, the loop *)
(* `for( i=1; i<queue_num; i++ )` over one less.)                          *)
THEOREM EstimateOnBestLine == Spec => []BestLines
<1>1. WindowInv /\ EstimateInv => BestLines
  <2> SUFFICES ASSUME WindowInv, EstimateInv, q.length = MaxSize - 1
               PROVE  BestLines
    BY DEF BestLines
  <2> DEFINE n == MaxSize - 2
             num(pairs) == SlopeOver(q, sum_x, sum_y, n, pairs)
             den(pairs) == SlopeUnder(q, sum_x, n, pairs)
  <2>1. isQueueFull(q)
    BY FillMeaning DEF WindowInv
  <2>2. Window(q, n) /\ sum_x \in Int /\ sum_y \in Int
    BY <2>1, FullWindow
  <2>3. /\ estimate = Predict(q, sum_x, sum_y, n, 1 .. n - 1)
        /\ LeastSquares(q, sum_x, sum_y)
              = Predict(q, sum_x, sum_y, n, 1 .. n)
        /\ 1 .. n - 1 \subseteq 1 .. n
    <3>1. n - 1 = MaxSize - 3 /\ GetQueueNum(q) - 1 = n
      BY MaxSizeAssumption DEF GetQueueNum
    <3>2. 1 .. n - 1 \subseteq 1 .. n
      BY MaxSizeAssumption
    <3> QED BY <2>1, <3>1, <3>2, FullWindow DEF EstimateInv, LeastSquares
  <2>4. Centred(q, sum_x, sum_y, n)
    BY <2>1, WindowCentred
  <2>5. ASSUME NEW pairs, pairs \subseteq 1 .. n
        PROVE  /\ num(pairs) \in Int /\ den(pairs) \in Nat
               /\ OnFittedLine(Predict(q, sum_x, sum_y, n, pairs),
                               pairs, den(pairs), num(pairs))
               /\ \A t, r \in Int :
                     t * t * Misfit(pairs, den(pairs), num(pairs))
                       <= den(pairs) * den(pairs) * Misfit(pairs, t, r)
    <3> HIDE DEF n
    <3>0. Pairs(q, sum_x, sum_y, n, pairs)
      BY <2>2, <2>5 DEF Pairs
    <3>1. /\ num(pairs) \in Int /\ den(pairs) \in Nat
          /\ den(pairs) = 0
                <=> \A i \in pairs : n * GetQueueElem(q, i) = sum_x
          /\ Predict(q, sum_x, sum_y, n, pairs) =
                IF den(pairs) = 0 THEN GetQueueLast(q)
                ELSE Truncate(n * num(pairs) * GetQueueLast(q)
                                + (den(pairs) * sum_y - num(pairs) * sum_x),
                              n * den(pairs))
      BY <3>0, PredictIsOnLine
    <3> HIDE DEF num, den
    <3>3. OnFittedLine(Predict(q, sum_x, sum_y, n, pairs),
                       pairs, den(pairs), num(pairs))
      BY <3>1 DEF OnFittedLine, n
    <3> USE DEF num, den, n
    <3>2. ASSUME NEW t \in Int, NEW r \in Int
          PROVE  t * t * Misfit(pairs, den(pairs), num(pairs))
                   <= den(pairs) * den(pairs) * Misfit(pairs, t, r)
      BY <2>2, <2>5, BestThroughAverages DEF Misfit
    <3> HIDE DEF num, den
    <3> QED BY <3>1, <3>2, <3>3
  <2>6. ASSUME NEW t \in Int, NEW r \in Int, NEW c \in Int
        PROVE  t * t * Misfit(1 .. n, den(1 .. n), num(1 .. n))
                 <= den(1 .. n) * den(1 .. n) * MisfitOf(1 .. n, t, r, c)
    <3> DEFINE d  == den(1 .. n)
               m1 == t * t * Misfit(1 .. n, d, num(1 .. n))
               m2 == Misfit(1 .. n, t, r)
               m3 == MisfitOf(1 .. n, t, r, c)
    <3>1. d \in Nat /\ m1 <= d * d * m2
      BY <2>5
    <3>2. m2 <= m3
      BY <2>4, AveragesAreBest DEF Misfit, MisfitOf
    <3>3. m2 \in Int /\ m3 \in Int /\ m1 \in Int
      <4> DEFINE u == num(1 .. n)
      <4>1. Pairs(q, sum_x, sum_y, n, 1 .. n)
        BY <2>2 DEF Pairs
      <4>2. d \in Int /\ u \in Int
        BY <4>1, PredictIsOnLine
      <4> HIDE DEF d, u
      <4>3. t * sum_y - r * sum_x \in Int /\ d * sum_y - u * sum_x \in Int
        BY <2>2, <4>2
      <4>4. /\ m2 \in Int /\ m3 \in Int
        BY <4>1, <4>3, SquaredErrorType DEF Misfit, MisfitOf
      <4>5. Misfit(1 .. n, d, u) \in Int
        BY <4>1, <4>2, <4>3, SquaredErrorType DEF Misfit
      <4>6. m1 \in Int
        BY <4>5 DEF u
      <4> QED BY <4>4, <4>6
    <3> HIDE DEF d, m1, m2, m3
    <3>4. d * d * m2 <= d * d * m3
      BY <3>1, <3>2, <3>3, Scaled
    <3>5. m1 <= d * d * m3
      BY <3>1, <3>3, <3>4
    <3> QED BY <3>5 DEF d, m1, m3
  <2> HIDE DEF num, den
  <2> QED BY <2>3, <2>5, <2>6 DEF BestLines
<1> QED BY <1>1, WindowAlways, EstimateAlways, PTL

-----------------------------------------------------------------------------
(* What RateFor makes of a whole number: 1, or a proper fraction.          *)
ProperRate(rate) ==
    \/ rate = One
    \/ /\ rate \in Nat \X Nat
       /\ 1 <= rate[1] /\ rate[1] < rate[2]

(* The inductive invariant of rate and index; it needs that the estimate   *)
(* is a whole number.                                                      *)
RateInv ==
    /\ ProperRate(out_sampled_rate)
    /\ sampled_index \in Nat
    /\ sampled_index # 0 =>
          /\ out_sampled_rate # One
          /\ sampled_index = get_sampled_index(out_sampled_rate)

(* cal_interface_sampled_rate never asks for more packets than it expects. *)
LEMMA RateIsProper ==
  ASSUME NEW expected \in Int
  PROVE  ProperRate(RateFor(expected))
BY BestAssumption DEF RateFor, ProperRate

(* The index of a proper fraction is one of the ten of sys_sampled_param.  *)
LEMMA IndexInRange ==
  ASSUME NEW rate \in Nat \X Nat, 1 <= rate[1], rate[1] < rate[2]
  PROVE  get_sampled_index(rate) \in 0 .. 9
<1> DEFINE n == rate[1]
           d == rate[2]
           i == (10 * n) \div d
<1>1. n \in Nat /\ d \in Nat /\ d > 0 /\ n < d
  OBVIOUS
<1> HIDE DEF n, d
<1>2. i \in Nat
  BY <1>1, SMT
<1>3. 10 * n = d * i + ((10 * n) % d) /\ (10 * n) % d >= 0
  BY <1>1, SMT
<1>4. d * i < 10 * d
  BY <1>1, <1>2, <1>3, SMT
<1>5. i < 10
  BY <1>1, <1>2, <1>4, SMT
<1> QED BY <1>2, <1>5 DEF get_sampled_index, n, d

(* The first block is sampled at rate 1 with no index. *)
LEMMA RateBegins == Init => RateInv
BY DEF Init, RateInv, ProperRate

(* The index is found for the rate in force and dropped with it.           *)
LEMMA RateSteps == RateInv /\ (estimate \in Int)' /\ [Next]_vars => RateInv'
<1> SUFFICES ASSUME RateInv, estimate' \in Int, [Next]_vars PROVE RateInv'
  OBVIOUS
<1>1. CASE Packet
  <2>1. UNCHANGED out_sampled_rate
    BY <1>1 DEF Packet
  <2>2. CASE out_sampled_rate = One
    BY <1>1, <2>1, <2>2 DEF Packet, RateInv
  <2>3. CASE out_sampled_rate # One
    <3>1. sampled_index' = IndexInUse
      BY <1>1, <2>3 DEF Packet
    <3>2. sampled_index' = get_sampled_index(out_sampled_rate)
      BY <3>1 DEF IndexInUse, RateInv
    <3>3. get_sampled_index(out_sampled_rate) \in Nat
      BY <2>3, IndexInRange DEF RateInv, ProperRate
    <3> QED BY <2>1, <2>3, <3>2, <3>3 DEF RateInv
  <2> QED BY <2>2, <2>3
<1>2. CASE EndBlock
  <2>1. out_sampled_rate' = RateFor(estimate') /\ sampled_index' = 0
    BY <1>2 DEF EndBlock
  <2>2. ProperRate(out_sampled_rate')
    BY <2>1, RateIsProper
  <2> QED BY <2>1, <2>2 DEF RateInv
<1>3. CASE UNCHANGED vars
  BY <1>3 DEF vars, counters, RateInv
<1> QED BY <1>1, <1>2, <1>3 DEF Next

(* So it holds, since the estimates are whole numbers.                     *)
LEMMA RateAlways == Spec => []RateInv
BY RateBegins, RateSteps, EstimateIsWhole, WindowAlways, EstimateAlways, PTL
   DEF Spec

(* The cached index is that of the rate in force and inside                *)
(* sys_sampled_param (main.c:137).                                         *)
THEOREM IndexNeverStale == Spec => []IndexFresh
<1>1. RateInv => IndexFresh
  BY IndexInRange DEF RateInv, ProperRate, IndexFresh
<1> QED BY <1>1, RateAlways, PTL

(* The share that is drawn is above the rate, by a tenth at most, whatever *)
(* rate the blocks have led to (analysis.c:160).                           *)
THEOREM DrawAboveRate == Spec => []DrawCoversRate
<1>1. RateInv => DrawCoversRate
  <2> SUFFICES ASSUME RateInv, out_sampled_rate # One
               PROVE  LET asked == 10 * out_sampled_rate[1]
                          whole == out_sampled_rate[2]
                          drawn == get_sampled_rate(IndexInUse)
                      IN  /\ asked < drawn * whole
                          /\ (drawn - 1) * whole <= asked
    BY DEF DrawCoversRate
  <2> DEFINE n == out_sampled_rate[1]
             d == out_sampled_rate[2]
             i == (10 * n) \div d
             r == (10 * n) % d
  <2>1. n \in Nat /\ d \in Nat \ {0}
    BY DEF RateInv, ProperRate
  <2>2. get_sampled_rate(IndexInUse) = i + 1
    BY DEF RateInv, IndexInUse, get_sampled_rate, get_sampled_index
  <2> HIDE DEF n, d
  <2>3. i \in Int /\ r \in 0 .. d - 1 /\ 10 * n = d * i + r
    BY <2>1, SMT
  <2> DEFINE drawn == get_sampled_rate(IndexInUse)
  <2>4. drawn \in Int /\ drawn - 1 = i /\ drawn = i + 1
    BY <2>2, <2>3
  <2> HIDE DEF i, r, drawn
  <2>5. (drawn - 1) * d = d * i /\ d * i \in Int
    BY <2>1, <2>3, <2>4, SMT
  <2>6. drawn * d = (drawn - 1) * d + d
    BY <2>1, <2>4, SMT
  <2>7. 10 * n < drawn * d /\ (drawn - 1) * d <= 10 * n
    BY <2>1, <2>3, <2>5, <2>6, SMT
  <2> QED BY <2>7 DEF n, d, drawn
<1> QED BY <1>1, RateAlways, PTL

(* All is of its type; the rate is a positive share, at most 1.            *)
THEOREM TypeCorrect == Spec => []TypeOK
<1>1. WindowInv /\ RateInv /\ estimate \in Int => TypeOK
  <2> SUFFICES ASSUME WindowInv, RateInv, estimate \in Int PROVE TypeOK
    OBVIOUS
  <2>1. q \in MyQueueType
    BY DEF WindowInv, Fill
  <2>2. seen \in Nat
    BY ElementsAssumption DEF WindowInv
  <2>3. out_sampled_rate \in Nat \X Nat
        /\ out_sampled_rate[1] \in 1 .. out_sampled_rate[2]
    BY DEF RateInv, ProperRate, One
  <2> QED BY <2>1, <2>2, <2>3 DEF WindowInv, RateInv, TypeOK
<1> QED BY <1>1, EstimateIsWhole, WindowAlways, EstimateAlways, RateAlways,
           PTL
=============================================================================
