----------------------------- MODULE Handshake ------------------------------
(***************************************************************************)
(* The threads of traffic_control and the handshake that makes them take   *)
(* turns: src/main.c (main, collect_traffic_info_func,                     *)
(* thread_statistics_operation) and src/pthread/pthread_cond_wait.c.       *)
(*                                                                         *)
(* main creates producer 0 and the consumer; producer k creates producer   *)
(* k+1 and hands it the ADDRESS of its own local i.  A producer captures a *)
(* block, then under `mutex` increments `value`, signals `cond` when it is *)
(* the last one, and waits on `cond_pro`.  The consumer waits on `cond`    *)
(* until value >= num, takes num off, reports, and broadcasts `cond_pro`.  *)
(*                                                                         *)
(* One action per mutex acquisition, and one per critical section with the *)
(* release that ends it (an unlock, or the release inside                  *)
(* pthread_cond_wait): all that a critical section touches is protected by *)
(* the mutex, so nothing can be seen between its statements.               *)
(***************************************************************************)
EXTENDS Integers, FiniteSets

CONSTANTS
    N,                  \* g_interface_size: how many producers there are
    SpuriousProducers,  \* may pthread_cond_wait on cond_pro wake by itself?
    CreateMayFail,      \* may pthread_create fail?
    ValueBound          \* no spurious producer wake-up from this value on

ASSUME NAssumption == N \in Nat \ {0}
ASSUME FaultAssumption ==
    SpuriousProducers \in BOOLEAN /\ CreateMayFail \in BOOLEAN
ASSUME ValueBoundAssumption == ValueBound \in Nat

Producers == 0 .. N - 1
Consumer  == N
Main      == N + 1
Free      == -1         \* `mutex` has no owner

VARIABLES
    mutex,      \* owner of the mutex: a producer, Consumer or Free
    value,      \* the counter `value`: blocks handed in and not yet taken
    pc,         \* where each producer is
    cpc,        \* where the consumer is
    mpc,        \* where main is
    i,          \* the local variable `i` of main and of every producer
    arg,        \* arg[p]: the thread whose local i producer p's arg points to
    ifIndex     \* the local variable `if_index` of every producer

vars == <<mutex, value, pc, cpc, mpc, i, arg, ifIndex>>

(* "absent": not created; "parked": inside pthread_cond_wait(cond_pro);    *)
(* "woken": woken there, waiting for the mutex; "gone": returned.          *)
ProducerPC == {"absent", "start", "create", "capturing", "arriving",
               "counting", "parked", "woken", "leaving", "gone"}

(* "asleep": inside pthread_cond_wait(cond). *)
ConsumerPC == {"absent", "idle", "checking", "asleep", "woken",
               "reporting", "notifying", "broadcasting", "gone"}

MainPC == {"create_first", "create_consumer", "join", "join_consumer", "gone"}

TypeOK ==
    /\ mutex \in Producers \cup {Consumer, Free}
    /\ value \in Nat
    /\ pc \in [Producers -> ProducerPC]
    /\ cpc \in ConsumerPC
    /\ mpc \in MainPC
    /\ i \in [Producers \cup {Main} -> Nat]
    /\ arg \in [Producers -> Producers \cup {Main}]
    /\ ifIndex \in [Producers -> Nat]

Init ==
    /\ mutex = Free
    /\ value = 0
    /\ pc = [p \in Producers |-> "absent"]
    /\ cpc = "absent"
    /\ mpc = "create_first"
    /\ i = [t \in Producers \cup {Main} |-> 0]
    /\ arg = [p \in Producers |-> Main]
    /\ ifIndex = [p \in Producers |-> 0]

-----------------------------------------------------------------------------
(* Every thread of the process ends: main returned, or it crashed. *)
ProcessEnds ==
    /\ pc' = [p \in Producers |-> "gone"]
    /\ cpc' = "gone"
    /\ mpc' = "gone"
    /\ mutex' = Free
    /\ UNCHANGED <<value, i, arg, ifIndex>>

(* main creates producer 0 and passes &i; a failure makes main return. *)
CreateFirst ==
    /\ mpc = "create_first"
    /\ \/ /\ pc' = [pc EXCEPT ![0] = "start"]
          /\ arg' = [arg EXCEPT ![0] = Main]
          /\ mpc' = "create_consumer"
          /\ UNCHANGED <<mutex, value, cpc, i, ifIndex>>
       \/ CreateMayFail /\ ProcessEnds

(* A mutant of CreateConsumer: the loop of joins does not start over at 0. *)
CreateConsumerSkipsJoin ==
    /\ mpc = "create_consumer"
    /\ \/ /\ cpc' = "idle"
          /\ i' = [i EXCEPT ![Main] = 1]
          /\ mpc' = "join"
          /\ UNCHANGED <<mutex, value, pc, arg, ifIndex>>
       \/ CreateMayFail /\ ProcessEnds

(* main creates the consumer, sleeps and enters the loop of joins. *)
CreateConsumer ==
    /\ mpc = "create_consumer"
    /\ \/ /\ cpc' = "idle"
          /\ i' = [i EXCEPT ![Main] = 0]
          /\ mpc' = "join"
          /\ UNCHANGED <<mutex, value, pc, arg, ifIndex>>
       \/ CreateMayFail /\ ProcessEnds

(* The loop of joins, one pthread_join per step: it waits for a producer   *)
(* that was created, and is undefined (an error return, or a crash) for a  *)
(* traffic_thrd entry that pthread_create never filled.                    *)
Join ==
    /\ mpc = "join"
    /\ \/ /\ i[Main] < N
          /\ pc[i[Main]] \in {"gone", "absent"}
          /\ i' = [i EXCEPT ![Main] = @ + 1]
          /\ UNCHANGED <<mutex, value, pc, cpc, mpc, arg, ifIndex>>
       \/ /\ i[Main] < N
          /\ pc[i[Main]] = "absent"
          /\ ProcessEnds
       \/ /\ i[Main] >= N
          /\ mpc' = "join_consumer"
          /\ UNCHANGED <<mutex, value, pc, cpc, i, arg, ifIndex>>

-----------------------------------------------------------------------------
(* A producer reads *arg, the current value of its creator's local i. *)
Start(p) ==
    /\ pc[p] = "start"
    /\ ifIndex' = [ifIndex EXCEPT ![p] = i[arg[p]]]
    /\ i' = [i EXCEPT ![p] = i[arg[p]] + 1]
    /\ pc' = [pc EXCEPT ![p] = "create"]
    /\ UNCHANGED <<mutex, value, cpc, mpc, arg>>

(* ... and creates the next producer, if one is missing, with its own &i;  *)
(* a failure makes it return without ever capturing.                       *)
CreateNext(p) ==
    /\ pc[p] = "create"
    /\ \/ /\ i[p] < N
          /\ pc' = [pc EXCEPT ![p] = "capturing", ![i[p]] = "start"]
          /\ arg' = [arg EXCEPT ![i[p]] = p]
       \/ /\ i[p] >= N
          /\ pc' = [pc EXCEPT ![p] = "capturing"]
          /\ UNCHANGED arg
       \/ /\ CreateMayFail
          /\ i[p] < N
          /\ pc' = [pc EXCEPT ![p] = "gone"]
          /\ UNCHANGED arg
    /\ UNCHANGED <<mutex, value, cpc, mpc, i, ifIndex>>

(* collect_information returns: the block is captured. *)
FinishCapture(p) ==
    /\ pc[p] = "capturing"
    /\ pc' = [pc EXCEPT ![p] = "arriving"]
    /\ UNCHANGED <<mutex, value, cpc, mpc, i, arg, ifIndex>>

(* producer_notify_consumer: pthread_mutex_lock. *)
Lock(p) ==
    /\ pc[p] = "arriving"
    /\ mutex = Free
    /\ mutex' = p
    /\ pc' = [pc EXCEPT ![p] = "counting"]
    /\ UNCHANGED <<value, cpc, mpc, i, arg, ifIndex>>

(* pthread_cond_signal(cond): only the consumer ever waits on cond. *)
SignalConsumer == cpc' = IF cpc = "asleep" THEN "woken" ELSE cpc

(* A mutant of Arrive: the signal is sent one block too late. *)
ArriveSignalsLate(p) ==
    /\ pc[p] = "counting"
    /\ value' = value + 1
    /\ IF value + 1 > N THEN SignalConsumer ELSE UNCHANGED cpc
    /\ pc' = [pc EXCEPT ![p] = "parked"]
    /\ mutex' = Free
    /\ UNCHANGED <<mpc, i, arg, ifIndex>>

(* producer_notify_consumer: value++, the signal when num == value, and    *)
(* pthread_cond_wait, which parks the producer and releases the mutex.     *)
Arrive(p) ==
    /\ pc[p] = "counting"
    /\ value' = value + 1
    /\ IF value + 1 = N THEN SignalConsumer ELSE UNCHANGED cpc
    /\ pc' = [pc EXCEPT ![p] = "parked"]
    /\ mutex' = Free
    /\ UNCHANGED <<mpc, i, arg, ifIndex>>

(* pthread_cond_wait(cond_pro) returns with nobody having notified it: the *)
(* wait stands in no loop, so the producer goes on.                        *)
SpuriousWake(p) ==
    /\ SpuriousProducers
    /\ value < ValueBound
    /\ pc[p] = "parked"
    /\ pc' = [pc EXCEPT ![p] = "woken"]
    /\ UNCHANGED <<mutex, value, cpc, mpc, i, arg, ifIndex>>

(* A woken producer gets the mutex back ... *)
Reacquire(p) ==
    /\ pc[p] = "woken"
    /\ mutex = Free
    /\ mutex' = p
    /\ pc' = [pc EXCEPT ![p] = "leaving"]
    /\ UNCHANGED <<value, cpc, mpc, i, arg, ifIndex>>

(* ... and unlocks it: the next block begins. *)
Unlock(p) ==
    /\ pc[p] = "leaving"
    /\ mutex' = Free
    /\ pc' = [pc EXCEPT ![p] = "capturing"]
    /\ UNCHANGED <<value, cpc, mpc, i, arg, ifIndex>>

-----------------------------------------------------------------------------
(* consumer_wait: pthread_mutex_lock. *)
ConsumerLock ==
    /\ cpc = "idle"
    /\ mutex = Free
    /\ mutex' = Consumer
    /\ cpc' = "checking"
    /\ UNCHANGED <<value, pc, mpc, i, arg, ifIndex>>

(* consumer_wait: value < num, so pthread_cond_wait(cond). *)
ConsumerSleep ==
    /\ cpc = "checking"
    /\ value < N
    /\ cpc' = "asleep"
    /\ mutex' = Free
    /\ UNCHANGED <<value, pc, mpc, i, arg, ifIndex>>

(* pthread_cond_wait(cond) may return by itself too; the loop checks. *)
ConsumerSpuriousWake ==
    /\ cpc = "asleep"
    /\ cpc' = "woken"
    /\ UNCHANGED <<mutex, value, pc, mpc, i, arg, ifIndex>>

(* A mutant of ConsumerReacquire: `if` for `while`, no second look.        *)
ConsumerReacquireNoLoop ==
    /\ cpc = "woken"
    /\ mutex = Free
    /\ value' = value - N
    /\ cpc' = "reporting"
    /\ UNCHANGED <<mutex, pc, mpc, i, arg, ifIndex>>

ConsumerReacquire ==
    /\ cpc = "woken"
    /\ mutex = Free
    /\ mutex' = Consumer
    /\ cpc' = "checking"
    /\ UNCHANGED <<value, pc, mpc, i, arg, ifIndex>>

(* A mutant of ConsumerTake: value is not taken down. *)
ConsumerTakeKeeps ==
    /\ cpc = "checking"
    /\ value >= N
    /\ cpc' = "reporting"
    /\ mutex' = Free
    /\ UNCHANGED <<value, pc, mpc, i, arg, ifIndex>>

(* consumer_wait: the loop ends, value -= num, unlock; the report begins. *)
ConsumerTake ==
    /\ cpc = "checking"
    /\ value >= N
    /\ value' = value - N
    /\ cpc' = "reporting"
    /\ mutex' = Free
    /\ UNCHANGED <<pc, mpc, i, arg, ifIndex>>

(* The two loops over the interfaces are through: statistics, then reset. *)
FinishReport ==
    /\ cpc = "reporting"
    /\ cpc' = "notifying"
    /\ UNCHANGED <<mutex, value, pc, mpc, i, arg, ifIndex>>

(* consumer_notify_producer: pthread_mutex_lock. *)
NotifyLock ==
    /\ cpc = "notifying"
    /\ mutex = Free
    /\ mutex' = Consumer
    /\ cpc' = "broadcasting"
    /\ UNCHANGED <<value, pc, mpc, i, arg, ifIndex>>

(* A mutant of Broadcast: pthread_cond_signal, which wakes one producer. *)
BroadcastWakesOne ==
    /\ cpc = "broadcasting"
    /\ \E p \in Producers :
          pc[p] = "parked" /\ pc' = [pc EXCEPT ![p] = "woken"]
    /\ cpc' = "idle"
    /\ mutex' = Free
    /\ UNCHANGED <<value, mpc, i, arg, ifIndex>>

(* consumer_notify_producer: the broadcast wakes everyone parked; unlock. *)
Broadcast ==
    /\ cpc = "broadcasting"
    /\ pc' = [p \in Producers |-> IF pc[p] = "parked" THEN "woken" ELSE pc[p]]
    /\ cpc' = "idle"
    /\ mutex' = Free
    /\ UNCHANGED <<value, mpc, i, arg, ifIndex>>

-----------------------------------------------------------------------------
MainStep == CreateFirst \/ CreateConsumer \/ Join

ProducerStep(p) ==
    \/ Start(p) \/ CreateNext(p) \/ FinishCapture(p) \/ Lock(p)
    \/ Arrive(p) \/ SpuriousWake(p) \/ Reacquire(p) \/ Unlock(p)

ConsumerStep ==
    \/ ConsumerLock \/ ConsumerSleep \/ ConsumerSpuriousWake
    \/ ConsumerReacquire \/ ConsumerTake \/ FinishReport
    \/ NotifyLock \/ Broadcast

Next ==
    \/ MainStep
    \/ \E p \in Producers : ProducerStep(p)
    \/ ConsumerStep

(* The scheduler runs every thread that can go on, so each step that stays *)
(* enabled is taken.  A producer's block ends by itself (Capture), and a   *)
(* report ends unless the server stops reading.  Of the mutex no more is   *)
(* asked than that a thread gets it if it stays free; and a process has    *)
(* finitely many spurious wake-ups of the consumer.                        *)
Fairness ==
    /\ WF_vars(CreateFirst) /\ WF_vars(CreateConsumer)
    /\ \A p \in Producers :
          /\ WF_vars(Start(p)) /\ WF_vars(CreateNext(p))
          /\ WF_vars(FinishCapture(p)) /\ WF_vars(Lock(p))
          /\ WF_vars(Arrive(p)) /\ WF_vars(Reacquire(p))
          /\ WF_vars(Unlock(p))
    /\ WF_vars(ConsumerLock) /\ WF_vars(ConsumerSleep)
    /\ WF_vars(ConsumerReacquire) /\ WF_vars(ConsumerTake)
    /\ WF_vars(FinishReport) /\ WF_vars(NotifyLock) /\ WF_vars(Broadcast)
    /\ <>[][~ConsumerSpuriousWake]_vars

SafeSpec == Init /\ [][Next]_vars

Spec == SafeSpec /\ Fairness

-----------------------------------------------------------------------------
(* From the end of consumer_wait to the broadcast the tables of all the    *)
(* interfaces belong to the consumer.                                      *)
Reporting == cpc \in {"reporting", "notifying", "broadcasting"}

Parked == {p \in Producers : pc[p] = "parked"}

R == INSTANCE Rounds WITH
        mode    <- IF Reporting THEN "report" ELSE "capture",
        arrived <- Parked

(* The threads take the turns that Rounds describes, and none is left      *)
(* behind: every producer hands in each block once, the report begins when *)
(* all have, and its end releases them all at once.                        *)
RoundsSpec == R!Spec

(* While the consumer walks the flow tables, sends them and clears them    *)
(* (main.c: the two loops over the interfaces) every producer sleeps in    *)
(* pthread_cond_wait, so nobody else touches what memset is wiping.        *)
AllParkedDuringReport == Reporting => Parked = Producers

(* `value` is what it is meant to count: the blocks handed in and not yet  *)
(* taken.  A value that drifts makes consumer_wait return too early or     *)
(* never again.                                                            *)
ValueCountsParked ==
    cpc # "gone" => value = IF Reporting THEN 0 ELSE Cardinality(Parked)

(* The one signal on cond, sent only when num == value, is never missed:   *)
(* the consumer does not sleep on a count that lets it go.                 *)
NoSleepOnFullCount == cpc = "asleep" => value < N

(* The threads never wait for each other in a circle: unless a thread      *)
(* could not be created, there is always one that gets on by itself.  A    *)
(* spurious wake-up of the consumer, which would hide a lost signal, is    *)
(* not counted on, and main is not once it waits in its joins.             *)
SomeoneGoesOn ==
    \/ mpc \in {"create_first", "create_consumer"}
    \/ \E p \in Producers :
          \/ pc[p] \in {"start", "create", "capturing", "counting", "leaving"}
          \/ pc[p] \in {"arriving", "woken"} /\ mutex = Free
    \/ cpc \in {"checking", "reporting", "broadcasting"}
    \/ cpc \in {"idle", "woken", "notifying"} /\ mutex = Free

(* Passing the address of the creator's i is safe: a producer reads it     *)
(* before it can change, so each one works on the interface of its own     *)
(* thread slot and no two share a socket, a flow table and its counters.   *)
OneProducerPerInterface ==
    \A p \in Producers :
        pc[p] \notin {"absent", "start", "gone"} => ifIndex[p] = p

(* Every captured block is reported, whatever the others are doing. *)
EveryBlockIsReported ==
    \A p \in Producers : pc[p] = "arriving" ~> (cpc = "reporting")

(* main.c says what ends the wait of a producer: "consumer notify          *)
(* producer".  So a report, which comes before the notification, never     *)
(* meets a producer that is filling its flow table.                        *)
NobodyCapturesDuringReport ==
    Reporting => \A p \in Producers : pc[p] # "capturing"

-----------------------------------------------------------------------------
(* The inductive invariant behind the proofs of HandshakeProofs. *)

(* How far the chain of creations has come at producer p. *)
ChainOf(p) ==
    /\ pc[p] = "start" =>
          /\ i[arg[p]] = p
          /\ arg[p] = IF p = 0 THEN Main ELSE p - 1
    /\ pc[p] \notin {"absent", "start", "gone"} =>
          i[p] = p + 1 /\ ifIndex[p] = p
    /\ pc[p] \in {"absent", "start", "create"} =>
          \A q \in Producers : q > p => pc[q] = "absent"

(* main's own i does not move before producer 0 has read it. *)
MainOf ==
    /\ mpc \in {"create_first", "create_consumer"} => i[Main] = 0
    /\ mpc = "create_first" => pc[0] = "absent"
    /\ pc[0] = "start" => i[Main] = 0
    /\ mpc \in {"create_first", "create_consumer"} => cpc = "absent"

ChainInv == MainOf /\ \A p \in Producers : ChainOf(p)

(* The critical sections exclude each other. *)
MutexInv ==
    /\ \A p \in Producers : pc[p] \in {"counting", "leaving"} <=> mutex = p
    /\ cpc \in {"checking", "broadcasting"} <=> mutex = Consumer

(* No two threads are in a critical section, and the chain of creations    *)
(* never hands out an interface twice.                                     *)
IndInv == ChainInv /\ MutexInv
=============================================================================
