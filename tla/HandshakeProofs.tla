-------------------------- MODULE HandshakeProofs ---------------------------
(***************************************************************************)
(* What TLAPS proves of Handshake for every number of interfaces:          *)
(*   - whatever fails, each producer works on the interface of its slot    *)
(*     and the consumer never sleeps on a full count;                      *)
(*   - as long as pthread_cond_wait on cond_pro does not return by itself, *)
(*     `value` counts the parked producers and a report meets all of them  *)
(*     parked;                                                             *)
(*   - if no pthread_create fails, the threads never all wait;             *)
(*   - without both faults Handshake implements Rounds.                    *)
(***************************************************************************)
EXTENDS Handshake, FiniteSetTheorems, WellFoundedInduction, TLAPS

-----------------------------------------------------------------------------
(* The identities of the threads differ from each other and from Free. *)
LEMMA ConstantFacts ==
    /\ Main \notin Producers
    /\ Consumer \notin Producers
    /\ Free \notin Producers
    /\ Free # Consumer
    /\ 0 \in Producers
    /\ \A p \in Producers : p \in Nat /\ p < N
    /\ N \in Nat
  BY NAssumption DEF Main, Consumer, Free, Producers

(* Type correctness, which the numbers need as well as the states. *)
THEOREM TypeCorrect == SafeSpec => []TypeOK
<1>1. Init => TypeOK
  BY NAssumption DEF Init, TypeOK, ProducerPC, ConsumerPC, MainPC
<1>2. TypeOK /\ [Next]_vars => TypeOK'
  <2> SUFFICES ASSUME TypeOK, [Next]_vars PROVE TypeOK'
    OBVIOUS
  <2> USE ConstantFacts
        DEF TypeOK, ProducerPC, ConsumerPC, MainPC
  <2>1. ASSUME MainStep PROVE TypeOK'
    <3>1. CASE CreateFirst
      BY <3>1 DEF CreateFirst, ProcessEnds
    <3>2. CASE CreateConsumer
      BY <3>2 DEF CreateConsumer, ProcessEnds
    <3>3. CASE Join
      BY <3>3 DEF Join, ProcessEnds
    <3> QED
      BY <2>1, <3>1, <3>2, <3>3 DEF MainStep
  <2>2. ASSUME NEW p \in Producers, ProducerStep(p) PROVE TypeOK'
    <3>1. CASE Start(p)
      BY <3>1 DEF Start
    <3>2. CASE CreateNext(p)
      BY <3>2 DEF CreateNext, Producers
    <3>3. CASE FinishCapture(p)
      BY <3>3 DEF FinishCapture
    <3>4. CASE Lock(p)
      BY <3>4 DEF Lock
    <3>5. CASE Arrive(p)
      BY <3>5 DEF Arrive, SignalConsumer
    <3>6. CASE SpuriousWake(p)
      BY <3>6 DEF SpuriousWake
    <3>7. CASE Reacquire(p)
      BY <3>7 DEF Reacquire
    <3>8. CASE Unlock(p)
      BY <3>8 DEF Unlock
    <3> QED
      BY <2>2, <3>1, <3>2, <3>3, <3>4, <3>5, <3>6, <3>7, <3>8
         DEF ProducerStep
  <2>3. CASE ConsumerStep
    BY <2>3 DEF ConsumerStep, ConsumerLock, ConsumerSleep,
                ConsumerSpuriousWake, ConsumerReacquire, ConsumerTake,
                FinishReport, NotifyLock, Broadcast
  <2>4. CASE UNCHANGED vars
    BY <2>4 DEF vars
  <2> QED
    BY <2>1, <2>2, <2>3, <2>4 DEF Next
<1> QED
  BY <1>1, <1>2, PTL DEF SafeSpec

-----------------------------------------------------------------------------
(* Nobody is created yet, so the chain is right. *)
LEMMA InitChain == Init => ChainInv
  BY ConstantFacts DEF Init, ChainInv, ChainOf, MainOf

(* A process that ended has no thread left to be wrong about. *)
LEMMA ProcessEndsChain == ASSUME TypeOK, ProcessEnds PROVE ChainInv'
  BY ConstantFacts DEF TypeOK, ProcessEnds, ChainInv, ChainOf, MainOf

(* Every step keeps the chain of creations right: a creator's i does not   *)
(* move while the thread created may still read it.                        *)
LEMMA ChainStep == TypeOK /\ ChainInv /\ [Next]_vars => ChainInv'
<1> SUFFICES ASSUME TypeOK, ChainInv, [Next]_vars PROVE ChainInv'
  OBVIOUS
<1> USE ConstantFacts DEF TypeOK, ChainInv, ChainOf, MainOf
<1>1. ASSUME MainStep PROVE ChainInv'
  <2>1. CASE CreateFirst
    BY <2>1, ProcessEndsChain DEF CreateFirst
  <2>2. CASE CreateConsumer
    BY <2>2, ProcessEndsChain DEF CreateConsumer
  <2>3. CASE Join
    BY <2>3, ProcessEndsChain DEF Join
  <2> QED
    BY <1>1, <2>1, <2>2, <2>3 DEF MainStep
<1>2. ASSUME NEW p \in Producers, ProducerStep(p) PROVE ChainInv'
  <2>1. CASE Start(p)
    <3>1. /\ pc[p] = "start" /\ i[arg[p]] = p
          /\ \A q \in Producers : q > p => pc[q] = "absent"
      BY <2>1 DEF Start
    <3>2. /\ pc' = [pc EXCEPT ![p] = "create"]
          /\ i' = [i EXCEPT ![p] = p + 1]
          /\ ifIndex' = [ifIndex EXCEPT ![p] = p]
          /\ UNCHANGED <<cpc, mpc, arg>>
      BY <2>1, <3>1 DEF Start
    <3>3. MainOf'
      BY <3>1, <3>2
    <3>4. ChainOf(p)'
      BY <3>1, <3>2
    <3>5. ASSUME NEW q \in Producers, q # p PROVE ChainOf(q)'
      <4>1. pc'[q] = pc[q] /\ i'[q] = i[q] /\ ifIndex'[q] = ifIndex[q]
        BY <3>2, <3>5
      <4>2. pc[q] \notin {"absent", "start", "create"} \/ q > p
        BY <3>1, <3>5
      <4> QED
        BY <3>1, <3>2, <4>1, <4>2, <3>5
    <3> QED
      BY <3>3, <3>4, <3>5
  <2>2. CASE CreateNext(p)
    <3>1. /\ pc[p] = "create" /\ i[p] = p + 1 /\ ifIndex[p] = p
          /\ \A q \in Producers : q > p => pc[q] = "absent"
      BY <2>2 DEF CreateNext
    <3>2. UNCHANGED <<cpc, mpc, i, ifIndex>>
      BY <2>2 DEF CreateNext
    <3>3. \A q \in Producers : q < p =>
             pc[q] \notin {"absent", "start", "create"}
      BY <3>1
    <3>4. CASE /\ p + 1 \in Producers
               /\ pc' = [pc EXCEPT ![p] = "capturing", ![p + 1] = "start"]
               /\ arg' = [arg EXCEPT ![p + 1] = p]
      <4>1. ChainOf(p)' /\ ChainOf(p + 1)'
        BY <3>1, <3>2, <3>4
      <4>2. ASSUME NEW q \in Producers, q # p, q # p + 1 PROVE ChainOf(q)'
        <5>1. pc'[q] = pc[q] /\ arg'[q] = arg[q]
          BY <3>4, <4>2
        <5>2. CASE q > p
          BY <3>1, <3>2, <3>4, <5>1, <5>2, <4>2
        <5>3. CASE q < p
          BY <3>1, <3>2, <3>3, <5>1, <5>3
        <5> QED
          BY <5>2, <5>3, <4>2
      <4>3. MainOf'
        BY <3>1, <3>2, <3>3, <3>4
      <4> QED
        BY <4>1, <4>2, <4>3
    <3>5. CASE \E s \in {"capturing", "gone"} :
                  pc' = [pc EXCEPT ![p] = s] /\ UNCHANGED arg
      BY <3>1, <3>2, <3>3, <3>5
    <3> QED
      BY <2>2, <3>1, <3>4, <3>5 DEF CreateNext, Producers
  <2>3. CASE FinishCapture(p)
    BY <2>3 DEF FinishCapture
  <2>4. CASE Lock(p)
    BY <2>4 DEF Lock
  <2>5. CASE Arrive(p)
    BY <2>5 DEF Arrive, SignalConsumer
  <2>6. CASE SpuriousWake(p)
    BY <2>6 DEF SpuriousWake
  <2>7. CASE Reacquire(p)
    BY <2>7 DEF Reacquire
  <2>8. CASE Unlock(p)
    BY <2>8 DEF Unlock
  <2> QED
    BY <1>2, <2>1, <2>2, <2>3, <2>4, <2>5, <2>6, <2>7, <2>8
       DEF ProducerStep
<1>3. CASE ConsumerStep
  BY <1>3 DEF ConsumerStep, ConsumerLock, ConsumerSleep,
              ConsumerSpuriousWake, ConsumerReacquire, ConsumerTake,
              FinishReport, NotifyLock, Broadcast
<1>4. CASE UNCHANGED vars
  BY <1>4 DEF vars
<1> QED
  BY <1>1, <1>2, <1>3, <1>4 DEF Next

(* Every producer works on the interface of its own thread slot, even when *)
(* pthread_create fails and whoever wakes up early: the `&i` of main.c is  *)
(* read before it changes.                                                 *)
THEOREM InterfaceEach == SafeSpec => []OneProducerPerInterface
<1>1. TypeOK /\ ChainInv => OneProducerPerInterface
  BY DEF ChainInv, ChainOf, OneProducerPerInterface
<1> QED
  BY <1>1, InitChain, ChainStep, TypeCorrect, PTL DEF SafeSpec

-----------------------------------------------------------------------------
(* Every step keeps the critical sections apart. *)
LEMMA MutexStep == TypeOK /\ MutexInv /\ ChainInv /\ [Next]_vars => MutexInv'
<1> SUFFICES ASSUME TypeOK, MutexInv, ChainInv, [Next]_vars PROVE MutexInv'
  OBVIOUS
<1> USE ConstantFacts DEF TypeOK, MutexInv
<1>1. ASSUME MainStep PROVE MutexInv'
  BY <1>1 DEF MainStep, CreateFirst, CreateConsumer, Join, ProcessEnds,
              ChainInv, MainOf
<1>2. ASSUME NEW p \in Producers, ProducerStep(p) PROVE MutexInv'
  <2>1. CASE Start(p)
    BY <2>1 DEF Start
  <2>2. CASE CreateNext(p)
    <3>1. i[p] = p + 1 /\ \A q \in Producers : q > p => pc[q] = "absent"
      BY <2>2 DEF ChainInv, ChainOf, CreateNext
    <3> QED
      BY <2>2, <3>1 DEF CreateNext, Producers
  <2>3. CASE FinishCapture(p)
    BY <2>3 DEF FinishCapture
  <2>4. CASE Lock(p)
    BY <2>4 DEF Lock
  <2>5. CASE Arrive(p)
    BY <2>5 DEF Arrive, SignalConsumer
  <2>6. CASE SpuriousWake(p)
    BY <2>6 DEF SpuriousWake
  <2>7. CASE Reacquire(p)
    BY <2>7 DEF Reacquire
  <2>8. CASE Unlock(p)
    BY <2>8 DEF Unlock
  <2> QED
    BY <1>2, <2>1, <2>2, <2>3, <2>4, <2>5, <2>6, <2>7, <2>8
       DEF ProducerStep
<1>3. CASE ConsumerStep
  BY <1>3 DEF ConsumerStep, ConsumerLock, ConsumerSleep,
              ConsumerSpuriousWake, ConsumerReacquire, ConsumerTake,
              FinishReport, NotifyLock, Broadcast
<1>4. CASE UNCHANGED vars
  BY <1>4 DEF vars
<1> QED
  BY <1>1, <1>2, <1>3, <1>4 DEF Next

(* The inductive invariant that TLC checks holds for every N. *)
THEOREM Inductive == SafeSpec => []IndInv
<1>1. Init => IndInv
  BY InitChain, ConstantFacts DEF Init, IndInv, MutexInv
<1>2. TypeOK /\ IndInv /\ [Next]_vars => IndInv'
  BY ChainStep, MutexStep DEF IndInv
<1> QED
  BY <1>1, <1>2, TypeCorrect, PTL DEF SafeSpec

(* The signal that producer_notify_consumer sends only when num == value   *)
(* is never missed, whatever fails.                                        *)
THEOREM NoLostSignal == SafeSpec => []NoSleepOnFullCount
<1>1. Init => NoSleepOnFullCount
  BY DEF Init, NoSleepOnFullCount
<1>2. TypeOK /\ NoSleepOnFullCount /\ [Next]_vars => NoSleepOnFullCount'
  BY ConstantFacts
     DEF TypeOK, NoSleepOnFullCount, vars, Next, MainStep, ProducerStep,
         ConsumerStep, CreateFirst, CreateConsumer, Join, ProcessEnds, Start,
         CreateNext, FinishCapture, Lock, Arrive, SignalConsumer,
         SpuriousWake, Reacquire, Unlock, ConsumerLock, ConsumerSleep,
         ConsumerSpuriousWake, ConsumerReacquire, ConsumerTake,
         FinishReport, NotifyLock, Broadcast
<1> QED
  BY <1>1, <1>2, TypeCorrect, PTL DEF SafeSpec

-----------------------------------------------------------------------------
(* What ties the counter to the threads: the invariant that makes          *)
(* AllParkedDuringReport inductive.                                        *)
RoundInv == AllParkedDuringReport /\ ValueCountsParked

(* A count of N parked producers means that all of them are parked. *)
LEMMA ParkedFacts ==
    /\ IsFiniteSet(Parked)
    /\ Cardinality(Parked) \in Nat
    /\ Cardinality(Parked) <= N
    /\ Cardinality(Parked) = N => Parked = Producers
<1>1. IsFiniteSet(Producers) /\ Cardinality(Producers) = N
  BY NAssumption, FS_Interval DEF Producers
<1>2. Parked \in SUBSET Producers
  BY DEF Parked
<1> QED
  BY <1>1, <1>2, FS_Subset, FS_CardinalityType, NAssumption

(* Every step keeps the count that of the parked, and the producers parked *)
(* while the consumer reports.                                             *)
LEMMA RoundStep ==
  ASSUME ~SpuriousProducers
  PROVE  TypeOK /\ ChainInv /\ RoundInv /\ [Next]_vars => RoundInv'
<1> SUFFICES ASSUME TypeOK, ChainInv, RoundInv, [Next]_vars PROVE RoundInv'
  OBVIOUS
<1>0. value \in Nat /\ N \in Nat /\ N > 0
  BY NAssumption DEF TypeOK
<1>a. ASSUME Parked' = Parked, UNCHANGED value,
             Reporting' = Reporting, cpc' # "gone" => cpc # "gone"
      PROVE RoundInv'
  BY <1>a DEF RoundInv, AllParkedDuringReport, ValueCountsParked
<1>b. ASSUME ProcessEnds PROVE RoundInv'
  BY <1>b DEF ProcessEnds, RoundInv, AllParkedDuringReport,
              ValueCountsParked, Reporting
<1>1. ASSUME MainStep PROVE RoundInv'
  <2>1. CASE CreateFirst
    <3>1. CASE pc' = [pc EXCEPT ![0] = "start"] /\ UNCHANGED <<value, cpc>>
      <4>1. pc[0] = "absent"
        BY <2>1 DEF CreateFirst, ChainInv, MainOf
      <4>2. Parked' = Parked
        BY <3>1, <4>1 DEF Parked, TypeOK
      <4> QED
        BY <1>a, <3>1, <4>2 DEF Reporting
    <3> QED
      BY <1>b, <2>1, <3>1 DEF CreateFirst
  <2>2. CASE CreateConsumer
    <3>1. cpc = "absent"
      BY <2>2 DEF CreateConsumer, ChainInv, MainOf
    <3> QED
      BY <1>a, <1>b, <2>2, <3>1 DEF CreateConsumer, Reporting, Parked
  <2>3. CASE Join
    BY <1>a, <1>b, <2>3 DEF Join, Reporting, Parked
  <2> QED
    BY <1>1, <2>1, <2>2, <2>3 DEF MainStep
<1>2. ASSUME NEW p \in Producers, ProducerStep(p) PROVE RoundInv'
  <2>1. CASE Arrive(p)
    <3>1. /\ pc[p] = "counting"
          /\ pc' = [pc EXCEPT ![p] = "parked"]
          /\ value' = value + 1
          /\ cpc' \in {cpc, "woken"} /\ (cpc' = "gone" => cpc = "gone")
      BY <2>1 DEF Arrive, SignalConsumer
    <3>2. p \notin Parked /\ Parked' = Parked \cup {p}
      BY <3>1 DEF Parked, TypeOK
    <3>3. ~Reporting
      BY <3>2 DEF RoundInv, AllParkedDuringReport
    <3>4. ~Reporting'
      BY <3>1, <3>3 DEF Reporting
    <3>5. Cardinality(Parked') = Cardinality(Parked) + 1
      BY <3>2, ParkedFacts, FS_AddElement
    <3>6. cpc' # "gone" => cpc # "gone"
      BY <2>1 DEF Arrive, SignalConsumer
    <3> QED
      BY <3>1, <3>3, <3>4, <3>5, <3>6
         DEF RoundInv, AllParkedDuringReport, ValueCountsParked
  <2>2. CASE CreateNext(p)
    <3>1. pc[p] = "create" /\ i[p] = p + 1
      BY <2>2 DEF CreateNext, ChainInv, ChainOf
    <3>2. i[p] < N => i[p] \in Producers /\ pc[i[p]] = "absent"
      BY <3>1, ConstantFacts DEF ChainInv, ChainOf, Producers
    <3>3. Parked' = Parked
      BY <2>2, <3>1, <3>2 DEF CreateNext, Parked, TypeOK
    <3> QED
      BY <1>a, <2>2, <3>3 DEF CreateNext, Reporting
  <2>3. ASSUME Start(p) \/ FinishCapture(p) \/ Lock(p) \/ Reacquire(p)
                 \/ Unlock(p)
        PROVE RoundInv'
    <3>1. Parked' = Parked /\ UNCHANGED <<value, cpc>>
      BY <2>3 DEF Start, FinishCapture, Lock, Reacquire, Unlock, Parked,
                  TypeOK
    <3> QED
      BY <1>a, <3>1 DEF Reporting
  <2> QED
    BY <1>2, <2>1, <2>2, <2>3 DEF ProducerStep, SpuriousWake
<1>3. ASSUME ConsumerStep PROVE RoundInv'
  <2>1. CASE ConsumerTake
    <3>1. value = Cardinality(Parked) /\ value >= N /\ value' = value - N
      BY <2>1 DEF ConsumerTake, RoundInv, ValueCountsParked, Reporting
    <3>2. value = N /\ value' = 0 /\ Parked = Producers
      BY <1>0, <3>1, ParkedFacts
    <3> QED
      BY <2>1, <3>2 DEF ConsumerTake, RoundInv, AllParkedDuringReport,
                        ValueCountsParked, Reporting, Parked
  <2>2. CASE Broadcast
    <3>1. Parked' = {} /\ UNCHANGED value /\ cpc' = "idle"
      BY <2>2 DEF Broadcast, Parked
    <3>2. value = 0
      BY <2>2 DEF Broadcast, RoundInv, ValueCountsParked, Reporting
    <3> QED
      BY <3>1, <3>2, FS_EmptySet
         DEF RoundInv, AllParkedDuringReport, ValueCountsParked, Reporting
  <2>3. ASSUME ConsumerLock \/ ConsumerSleep \/ ConsumerSpuriousWake
                 \/ ConsumerReacquire \/ FinishReport \/ NotifyLock
        PROVE RoundInv'
    BY <1>a, <2>3 DEF ConsumerLock, ConsumerSleep, ConsumerSpuriousWake,
         ConsumerReacquire, FinishReport, NotifyLock, Reporting, Parked
  <2> QED
    BY <1>3, <2>1, <2>2, <2>3 DEF ConsumerStep
<1>4. CASE UNCHANGED vars
  BY <1>a, <1>4 DEF vars, Parked, Reporting
<1> QED
  BY <1>1, <1>2, <1>3, <1>4 DEF Next

(* No producer is parked and value is 0. *)
LEMMA InitRound == Init => RoundInv
<1> SUFFICES ASSUME Init PROVE RoundInv
  OBVIOUS
<1>1. Parked = {}
  BY DEF Init, Parked
<1> QED
  BY <1>1, FS_EmptySet
     DEF Init, RoundInv, AllParkedDuringReport, ValueCountsParked, Reporting

(* So the turns are kept at all times, if no producer wakes by itself. *)
LEMMA RoundAlways ==
  ASSUME ~SpuriousProducers
  PROVE  SafeSpec => [](TypeOK /\ ChainInv /\ RoundInv)
<1>1. TypeOK /\ ChainInv /\ RoundInv /\ [Next]_vars => RoundInv'
  BY RoundStep
<1> QED
  BY <1>1, InitChain, ChainStep, InitRound, TypeCorrect, PTL DEF SafeSpec

(* As long as pthread_cond_wait on cond_pro does not return by itself, the *)
(* consumer has the flow tables to itself whenever it reads or wipes them. *)
THEOREM Exclusive ==
  ASSUME ~SpuriousProducers
  PROVE  SafeSpec => []AllParkedDuringReport
  BY RoundAlways, PTL DEF RoundInv

(* Under the same assumption `value` counts the parked producers.          *)
THEOREM Accounting ==
  ASSUME ~SpuriousProducers
  PROVE  SafeSpec => []ValueCountsParked
  BY RoundAlways, PTL DEF RoundInv

-----------------------------------------------------------------------------
(* When no pthread_create fails, main hangs in its first pthread_join.     *)
AliveInv ==
    /\ \A p \in Producers : pc[p] # "gone"
    /\ cpc # "gone"
    /\ mpc \in {"create_first", "create_consumer", "join"}
    /\ i[Main] = 0
    /\ mpc # "create_first" => pc[0] # "absent"

(* If no pthread_create fails then no thread ever ends: main stays in its  *)
(* first join.                                                             *)
LEMMA AliveStep ==
  ASSUME ~CreateMayFail
  PROVE  TypeOK /\ ChainInv /\ AliveInv /\ [Next]_vars => AliveInv'
<1> SUFFICES ASSUME TypeOK, ChainInv, AliveInv, [Next]_vars PROVE AliveInv'
  OBVIOUS
<1> USE ConstantFacts DEF TypeOK, AliveInv
<1>1. ASSUME MainStep PROVE AliveInv'
  BY <1>1, NAssumption DEF MainStep, CreateFirst, CreateConsumer, Join
<1>2. ASSUME NEW p \in Producers, ProducerStep(p) PROVE AliveInv'
  <2>1. CASE CreateNext(p)
    BY <2>1 DEF CreateNext, Producers
  <2> QED
    BY <1>2, <2>1 DEF ProducerStep, Start, FinishCapture, Lock, Arrive,
         SignalConsumer, SpuriousWake, Reacquire, Unlock
<1>3. CASE ConsumerStep
  BY <1>3 DEF ConsumerStep, ConsumerLock, ConsumerSleep,
              ConsumerSpuriousWake, ConsumerReacquire, ConsumerTake,
              FinishReport, NotifyLock, Broadcast
<1>4. CASE UNCHANGED vars
  BY <1>4 DEF vars
<1> QED
  BY <1>1, <1>2, <1>3, <1>4 DEF Next

(* So it is at all times. *)
LEMMA AliveAlways == ASSUME ~CreateMayFail PROVE SafeSpec => []AliveInv
<1>1. Init => AliveInv
  BY ConstantFacts DEF Init, AliveInv
<1>2. TypeOK /\ ChainInv /\ AliveInv /\ [Next]_vars => AliveInv'
  BY AliveStep
<1> QED
  BY <1>1, <1>2, InitChain, ChainStep, TypeCorrect, PTL DEF SafeSpec

(* How the creations go on when none fails: main has created the consumer  *)
(* before it joins, and a producer has created its neighbour before it     *)
(* captures.                                                               *)
Created ==
    /\ mpc = "join" => cpc # "absent"
    /\ \A p \in Producers :
          p + 1 \in Producers /\ pc[p] \notin {"absent", "start", "create"}
            => pc[p + 1] # "absent"

(* Every step keeps the creations complete up to where they have come.     *)
LEMMA CreatedStep ==
  ASSUME ~CreateMayFail
  PROVE  TypeOK /\ ChainInv /\ Created /\ [Next]_vars => Created'
<1> SUFFICES ASSUME TypeOK, ChainInv, Created, [Next]_vars PROVE Created'
  OBVIOUS
<1> USE ConstantFacts DEF TypeOK, Created
<1>1. ASSUME MainStep PROVE Created'
  <2>1. CASE CreateFirst
    BY <2>1 DEF CreateFirst, ChainInv, MainOf
  <2>2. CASE CreateConsumer
    BY <2>2 DEF CreateConsumer
  <2>3. CASE Join
    BY <2>3 DEF Join, ProcessEnds
  <2> QED
    BY <1>1, <2>1, <2>2, <2>3 DEF MainStep
<1>2. ASSUME NEW p \in Producers, ProducerStep(p) PROVE Created'
  <2>1. CASE Start(p)
    BY <2>1 DEF Start
  <2>2. CASE CreateNext(p)
    <3>1. i[p] = p + 1
      BY <2>2 DEF CreateNext, ChainInv, ChainOf
    <3>2. p + 1 \in Producers <=> p + 1 < N
      BY DEF Producers
    <3> QED
      BY <2>2, <3>1, <3>2 DEF CreateNext
  <2>3. CASE FinishCapture(p)
    BY <2>3 DEF FinishCapture
  <2>4. CASE Lock(p)
    BY <2>4 DEF Lock
  <2>5. CASE Arrive(p)
    BY <2>5 DEF Arrive, SignalConsumer
  <2>6. CASE SpuriousWake(p)
    BY <2>6 DEF SpuriousWake
  <2>7. CASE Reacquire(p)
    BY <2>7 DEF Reacquire
  <2>8. CASE Unlock(p)
    BY <2>8 DEF Unlock
  <2> QED
    BY <1>2, <2>1, <2>2, <2>3, <2>4, <2>5, <2>6, <2>7, <2>8
       DEF ProducerStep
<1>3. CASE ConsumerStep
  BY <1>3 DEF ConsumerStep, ConsumerLock, ConsumerSleep,
              ConsumerSpuriousWake, ConsumerReacquire, ConsumerTake,
              FinishReport, NotifyLock, Broadcast
<1>4. CASE UNCHANGED vars
  BY <1>4 DEF vars
<1> QED
  BY <1>1, <1>2, <1>3, <1>4 DEF Next

(* A set of numbers has a least element. *)
LEMMA LeastNumber ==
  ASSUME NEW S \in SUBSET Nat, S # {}
  PROVE  \E x \in S : \A y \in S : x <= y
<1> DEFINE Below == {ss \in Nat \X Nat : ss[1] < ss[2]}
<1>1. IsWellFoundedOn(Below, Nat)
  BY NatLessThanWellFounded, Zenon DEF OpToRel
<1> HIDE DEF Below
<1>2. PICK x \in S : \A y \in S : ~(<<y, x>> \in Below)
  BY <1>1, WFMin
<1>3. ASSUME NEW y \in S PROVE x <= y
  <2>1. <<y, x>> \notin Below
    BY <1>2
  <2> QED BY <2>1 DEF Below
<1> QED BY <1>3

(* Once main is past the creation of producer 0, a producer that is still  *)
(* missing has somebody on the way to create it.                           *)
LEMMA SomeoneCreates ==
  ASSUME TypeOK, AliveInv, Created, mpc # "create_first",
         NEW p \in Producers, pc[p] = "absent"
  PROVE  \E q \in Producers : pc[q] \in {"start", "create"}
<1> DEFINE Missing == {q \in Producers : pc[q] = "absent"}
<1>1. Missing \in SUBSET Nat /\ Missing # {}
  BY ConstantFacts
<1>2. PICK least \in Missing : \A q \in Missing : least <= q
  BY <1>1, LeastNumber
<1>3. least # 0
  BY <1>2 DEF AliveInv
<1>4. least - 1 \in Producers /\ least - 1 + 1 = least
  BY <1>2, <1>3, NAssumption DEF Producers
<1>5. pc[least - 1] # "absent"
  BY <1>1, <1>2, <1>4
<1> QED
  BY <1>2, <1>4, <1>5 DEF Created

(* Outside of a report value counts every parked producer, some of them    *)
(* perhaps more than once: a producer that wakes up by itself stays        *)
(* counted, and only a report takes the count down.                        *)
CountCovers ==
    ~Reporting /\ cpc # "gone" => Cardinality(Parked) <= value

(* Every step keeps the parked producers counted, even a wake-up that      *)
(* nobody asked for.                                                       *)
LEMMA CoversStep ==
  TypeOK /\ ChainInv /\ CountCovers /\ [Next]_vars => CountCovers'
<1> SUFFICES ASSUME TypeOK, ChainInv, CountCovers, [Next]_vars
             PROVE  CountCovers'
  OBVIOUS
<1>0. value \in Nat
  BY DEF TypeOK
<1>a. ASSUME Parked' = Parked, UNCHANGED value,
             Reporting' = Reporting, cpc' # "gone" => cpc # "gone"
      PROVE CountCovers'
  BY <1>a DEF CountCovers
<1>b. ASSUME ProcessEnds PROVE CountCovers'
  BY <1>b DEF ProcessEnds, CountCovers
<1>1. ASSUME MainStep PROVE CountCovers'
  <2>1. CASE CreateFirst
    <3>1. CASE pc' = [pc EXCEPT ![0] = "start"] /\ UNCHANGED <<value, cpc>>
      <4>1. pc[0] = "absent"
        BY <2>1 DEF CreateFirst, ChainInv, MainOf
      <4>2. Parked' = Parked
        BY <3>1, <4>1 DEF Parked, TypeOK
      <4> QED
        BY <1>a, <3>1, <4>2 DEF Reporting
    <3> QED
      BY <1>b, <2>1, <3>1 DEF CreateFirst
  <2>2. CASE CreateConsumer
    <3>1. cpc = "absent"
      BY <2>2 DEF CreateConsumer, ChainInv, MainOf
    <3> QED
      BY <1>a, <1>b, <2>2, <3>1 DEF CreateConsumer, Reporting, Parked
  <2>3. CASE Join
    BY <1>a, <1>b, <2>3 DEF Join, Reporting, Parked
  <2> QED
    BY <1>1, <2>1, <2>2, <2>3 DEF MainStep
<1>2. ASSUME NEW p \in Producers, ProducerStep(p) PROVE CountCovers'
  <2>1. CASE Arrive(p)
    <3>1. /\ pc[p] = "counting"
          /\ pc' = [pc EXCEPT ![p] = "parked"]
          /\ value' = value + 1
          /\ Reporting' = Reporting /\ (cpc' # "gone" => cpc # "gone")
      BY <2>1 DEF Arrive, SignalConsumer, Reporting
    <3>2. p \notin Parked /\ Parked' = Parked \cup {p}
      BY <3>1 DEF Parked, TypeOK
    <3>3. Cardinality(Parked') = Cardinality(Parked) + 1
      BY <3>2, ParkedFacts, FS_AddElement
    <3> QED
      BY <1>0, <3>1, <3>3, ParkedFacts DEF CountCovers
  <2>2. CASE CreateNext(p)
    <3>1. pc[p] = "create" /\ i[p] = p + 1
      BY <2>2 DEF CreateNext, ChainInv, ChainOf
    <3>2. i[p] < N => i[p] \in Producers /\ pc[i[p]] = "absent"
      BY <3>1, ConstantFacts DEF ChainInv, ChainOf, Producers
    <3>3. Parked' = Parked
      BY <2>2, <3>1, <3>2 DEF CreateNext, Parked, TypeOK
    <3> QED
      BY <1>a, <2>2, <3>3 DEF CreateNext, Reporting
  <2>3. CASE SpuriousWake(p)
    <3>1. Parked' \in SUBSET Parked /\ UNCHANGED <<value, cpc>>
      BY <2>3 DEF SpuriousWake, Parked, TypeOK
    <3>2. /\ Cardinality(Parked') <= Cardinality(Parked)
          /\ Cardinality(Parked') \in Nat
      BY <3>1, ParkedFacts, FS_Subset, FS_CardinalityType
    <3> QED
      BY <1>0, <3>1, <3>2, ParkedFacts DEF CountCovers, Reporting
  <2>4. ASSUME Start(p) \/ FinishCapture(p) \/ Lock(p) \/ Reacquire(p)
                 \/ Unlock(p)
        PROVE CountCovers'
    <3>1. Parked' = Parked /\ UNCHANGED <<value, cpc>>
      BY <2>4 DEF Start, FinishCapture, Lock, Reacquire, Unlock, Parked,
                  TypeOK
    <3> QED
      BY <1>a, <3>1 DEF Reporting
  <2> QED
    BY <1>2, <2>1, <2>2, <2>3, <2>4 DEF ProducerStep
<1>3. ASSUME ConsumerStep PROVE CountCovers'
  <2>1. CASE ConsumerTake
    BY <2>1 DEF ConsumerTake, CountCovers, Reporting
  <2>2. CASE Broadcast
    <3>1. Parked' = {} /\ UNCHANGED value
      BY <2>2 DEF Broadcast, Parked
    <3> QED
      BY <1>0, <3>1, FS_EmptySet DEF CountCovers
  <2>3. ASSUME ConsumerLock \/ ConsumerSleep \/ ConsumerSpuriousWake
                 \/ ConsumerReacquire \/ FinishReport \/ NotifyLock
        PROVE CountCovers'
    BY <1>a, <2>3 DEF ConsumerLock, ConsumerSleep, ConsumerSpuriousWake,
         ConsumerReacquire, FinishReport, NotifyLock, Reporting, Parked
  <2> QED
    BY <1>3, <2>1, <2>2, <2>3 DEF ConsumerStep
<1>4. CASE UNCHANGED vars
  BY <1>a, <1>4 DEF vars, Parked, Reporting
<1> QED
  BY <1>1, <1>2, <1>3, <1>4 DEF Next

(* If nobody gets on, then the mutex is free, since its owner would; all   *)
(* producers are parked; and the consumer does not sleep on their number.  *)
LEMMA NobodyStuck ==
  ASSUME TypeOK, MutexInv, CountCovers, AliveInv, Created,
         NoSleepOnFullCount
  PROVE  SomeoneGoesOn
<1> SUFFICES ASSUME ~SomeoneGoesOn PROVE FALSE
  OBVIOUS
<1>1. mpc = "join"
  BY DEF SomeoneGoesOn, AliveInv
<1>2. mutex = Free
  BY DEF SomeoneGoesOn, MutexInv, TypeOK
<1>3. cpc = "asleep"
  BY <1>1, <1>2
     DEF SomeoneGoesOn, AliveInv, Created, TypeOK, ConsumerPC
<1>4. \A p \in Producers : pc[p] \in {"absent", "parked"}
  BY <1>2 DEF SomeoneGoesOn, AliveInv, TypeOK, ProducerPC
<1>5. \A p \in Producers : pc[p] # "absent"
  BY <1>1, <1>4, SomeoneCreates
<1>6. Parked = Producers
  BY <1>4, <1>5 DEF Parked
<1>7. Cardinality(Producers) <= value
  BY <1>3, <1>6 DEF CountCovers, Reporting
<1>8. Cardinality(Producers) = N
  BY NAssumption, FS_Interval DEF Producers
<1> QED
  BY <1>3, <1>7, <1>8, NAssumption DEF NoSleepOnFullCount, TypeOK

(* If every pthread_create succeeds the threads never all wait for each    *)
(* other, however many interfaces there are and whoever wakes up by        *)
(* itself: the one signal on cond and the one broadcast on cond_pro are    *)
(* enough, and none of the wake-ups nobody asked for is relied on.         *)
THEOREM NeverStuck ==
  ASSUME ~CreateMayFail
  PROVE  SafeSpec => []SomeoneGoesOn
<1>1. Init => Created
  BY DEF Init, Created
<1>2. TypeOK /\ ChainInv /\ Created /\ [Next]_vars => Created'
  BY CreatedStep
<1>3. Init => CountCovers
  BY InitRound, ParkedFacts, NAssumption
     DEF Init, RoundInv, ValueCountsParked, CountCovers
<1>4. TypeOK /\ MutexInv /\ CountCovers /\ AliveInv /\ Created
        /\ NoSleepOnFullCount => SomeoneGoesOn
  BY NobodyStuck
<1> QED
  BY <1>1, <1>2, <1>3, <1>4, CoversStep, TypeCorrect, Inductive,
     AliveAlways, NoLostSignal, PTL DEF SafeSpec, IndInv

-----------------------------------------------------------------------------
(* Every step of the threads is a step of Rounds or leaves the round       *)
(* alone.                                                                  *)
LEMMA StepRefines ==
  ASSUME ~SpuriousProducers, ~CreateMayFail
  PROVE  TypeOK /\ ChainInv /\ RoundInv /\ AliveInv /\ [Next]_vars
           => [R!Next]_(R!roundVars)
<1> SUFFICES ASSUME TypeOK, ChainInv, RoundInv, AliveInv, [Next]_vars
             PROVE  [R!Next]_(R!roundVars)
  OBVIOUS
<1>a. ASSUME Parked' = Parked, Reporting' = Reporting
      PROVE  UNCHANGED R!roundVars
  BY <1>a DEF R!roundVars
<1>1. ASSUME MainStep PROVE UNCHANGED R!roundVars
  <2>1. CASE CreateFirst
    <3>1. pc[0] = "absent" /\ pc' = [pc EXCEPT ![0] = "start"]
      BY <2>1 DEF CreateFirst, ChainInv, MainOf
    <3>2. Parked' = Parked
      BY <3>1 DEF Parked, TypeOK
    <3> QED
      BY <1>a, <2>1, <3>2 DEF CreateFirst, Reporting
  <2>2. CASE CreateConsumer
    <3>1. cpc = "absent"
      BY <2>2 DEF CreateConsumer, ChainInv, MainOf
    <3> QED
      BY <1>a, <2>2, <3>1 DEF CreateConsumer, Reporting, Parked
  <2>3. CASE Join
    BY <2>3, NAssumption, ConstantFacts DEF Join, AliveInv
  <2> QED
    BY <1>1, <2>1, <2>2, <2>3 DEF MainStep
<1>2. ASSUME NEW p \in Producers, ProducerStep(p)
      PROVE  R!Arrive(p) \/ UNCHANGED R!roundVars
  <2>1. CASE Arrive(p)
    <3>1. /\ pc[p] = "counting"
          /\ pc' = [pc EXCEPT ![p] = "parked"]
      BY <2>1 DEF Arrive
    <3>2. p \notin Parked /\ Parked' = Parked \cup {p}
      BY <3>1 DEF Parked, TypeOK
    <3>3. ~Reporting
      BY <3>2 DEF RoundInv, AllParkedDuringReport
    <3>4. ~Reporting'
      BY <2>1, <3>3 DEF Arrive, SignalConsumer, Reporting
    <3> QED
      BY <3>2, <3>3, <3>4 DEF R!Arrive
  <2>2. CASE CreateNext(p)
    <3>1. pc[p] = "create" /\ i[p] = p + 1
      BY <2>2 DEF CreateNext, ChainInv, ChainOf
    <3>2. i[p] < N => i[p] \in Producers /\ pc[i[p]] = "absent"
      BY <3>1, ConstantFacts DEF ChainInv, ChainOf, Producers
    <3>3. Parked' = Parked
      BY <2>2, <3>1, <3>2 DEF CreateNext, Parked, TypeOK
    <3> QED
      BY <1>a, <2>2, <3>3 DEF CreateNext, Reporting
  <2>3. ASSUME Start(p) \/ FinishCapture(p) \/ Lock(p) \/ Reacquire(p)
                 \/ Unlock(p)
        PROVE  UNCHANGED R!roundVars
    <3>1. Parked' = Parked /\ UNCHANGED cpc
      BY <2>3 DEF Start, FinishCapture, Lock, Reacquire, Unlock, Parked,
                  TypeOK
    <3> QED
      BY <1>a, <3>1 DEF Reporting
  <2> QED
    BY <1>2, <2>1, <2>2, <2>3 DEF ProducerStep, SpuriousWake
<1>3. ASSUME ConsumerStep
      PROVE  R!BeginReport \/ R!EndReport \/ UNCHANGED R!roundVars
  <2>1. CASE ConsumerTake
    <3>1. value = Cardinality(Parked) /\ value >= N
      BY <2>1 DEF ConsumerTake, RoundInv, ValueCountsParked, Reporting
    <3>2. Parked = Producers
      BY <3>1, ParkedFacts, NAssumption
    <3> QED
      BY <2>1, <3>2 DEF ConsumerTake, R!BeginReport, Reporting, Parked
  <2>2. CASE Broadcast
    <3>1. Parked' = {} /\ cpc' = "idle" /\ cpc = "broadcasting"
      BY <2>2 DEF Broadcast, Parked
    <3> QED
      BY <3>1 DEF R!EndReport, Reporting
  <2>3. ASSUME ConsumerLock \/ ConsumerSleep \/ ConsumerSpuriousWake
                 \/ ConsumerReacquire \/ FinishReport \/ NotifyLock
        PROVE  UNCHANGED R!roundVars
    BY <1>a, <2>3 DEF ConsumerLock, ConsumerSleep, ConsumerSpuriousWake,
         ConsumerReacquire, FinishReport, NotifyLock, Reporting, Parked
  <2> QED
    BY <1>3, <2>1, <2>2, <2>3 DEF ConsumerStep
<1>4. CASE UNCHANGED vars
  BY <1>a, <1>4 DEF vars, Parked, Reporting
<1> QED
  BY <1>1, <1>2, <1>3, <1>4 DEF Next, R!Next

(* With no fault at all the threads take the turns of Rounds: a report     *)
(* begins only after every producer has handed in its block, and its end   *)
(* releases all of them at once.  (That every round ends is left to TLC.)  *)
THEOREM Refinement ==
  ASSUME ~SpuriousProducers, ~CreateMayFail
  PROVE  SafeSpec => R!SafeSpec
<1>1. Init => R!Init
  BY DEF Init, R!Init, Reporting, Parked
<1>2. TypeOK /\ ChainInv /\ RoundInv /\ AliveInv /\ [Next]_vars
        => [R!Next]_(R!roundVars)
  BY StepRefines
<1> QED
  BY <1>1, <1>2, RoundAlways, AliveAlways, PTL DEF SafeSpec, R!SafeSpec
=============================================================================
