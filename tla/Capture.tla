------------------------------ MODULE Capture -------------------------------
(***************************************************************************)
(* One block of one producer: capture_netlink_data of                      *)
(* src/collect/raw_socket.c, called by the producer once per round for as  *)
(* long as the program runs.  Handshake takes its return for granted and   *)
(* Collector its frames; here is when it returns, and what it leaves open. *)
(*                                                                         *)
(* Time is in ticks.  select() counts time that only moves on (clock);     *)
(* gettimeofday() is a wall clock that may be set back meanwhile.          *)
(***************************************************************************)
EXTENDS Integers

CONSTANTS
    CapturedTime,       \* captured_time of host_config.xml, in ticks
    Second,             \* ticks in a second
    SetupMayFail,       \* the calls before the loop may fail
    MaxSetBack,         \* bound: how far the wall clock is set back at most
    MaxFailed,          \* bound on the blocks that fail before the loop
    MaxErrors           \* bound on the errors of select and read in a block

(* With captured_time <= 0 the function returns at once; below a second its *)
(* select only polls, and a block is over at the first moment of silence.  *)
ASSUME TimeAssumption ==
    CapturedTime \in Nat /\ Second \in Nat \ {0} /\ CapturedTime >= Second
ASSUME FaultAssumption ==
    /\ SetupMayFail \in BOOLEAN
    /\ MaxSetBack \in Nat /\ MaxFailed \in Nat /\ MaxErrors \in Nat

VARIABLES
    pc,                 \* "setup", "select" or "returned"
    clock,              \* ticks since the loop was entered
    waiting,            \* clock when select was called
    set_back,           \* ticks the wall clock has lost since `start`
    difftime,           \* what the last packet found for get_diff_time
    errors,             \* history: failed selects and reads of this block
    sockets,            \* descriptors of raw sockets that are open
    failed              \* history: blocks that failed after socket()

block == <<clock, waiting, set_back, difftime, errors>>
vars == <<pc, block, sockets, failed>>

(* timeout.tv_sec = captured_time / 1000000: whole seconds. *)
Timeout == (CapturedTime \div Second) * Second

TypeOK ==
    /\ pc \in {"setup", "select", "returned"}
    /\ clock \in Nat
    /\ waiting \in 0 .. clock
    /\ set_back \in 0 .. MaxSetBack
    /\ difftime \in 0 .. clock
    /\ errors \in 0 .. MaxErrors
    /\ sockets \in Nat
    /\ failed \in 0 .. MaxFailed

Init ==
    /\ pc = "setup"
    /\ clock = 0 /\ waiting = 0 /\ set_back = 0 /\ difftime = 0 /\ errors = 0
    /\ sockets = 0 /\ failed = 0

(* create_raw_socket, bind_rawsocket_to_interface and setsockopt succeed.  *)
Setup ==
    /\ pc = "setup"
    /\ pc' = "select"
    /\ sockets' = sockets + 1
    /\ UNCHANGED <<block, failed>>

(* socket() itself fails: nothing was opened. *)
SocketFails ==
    /\ SetupMayFail
    /\ pc = "setup"
    /\ pc' = "returned"
    /\ UNCHANGED <<block, sockets, failed>>

(* bind or setsockopt fails: the function returns without close(). *)
BindFails ==
    /\ SetupMayFail
    /\ pc = "setup"
    /\ failed < MaxFailed
    /\ pc' = "returned"
    /\ sockets' = sockets + 1
    /\ failed' = failed + 1
    /\ UNCHANGED block

(* A mutant of get_diff_time: an end before the start is not looked for. *)
get_diff_time_signed(start, end) == end - start

(* get_diff_time: never negative. *)
get_diff_time(start, end) == IF end > start THEN end - start ELSE 0

(* Time passes in select(), which does not wait for longer than it may. *)
Tick ==
    /\ pc = "select"
    /\ clock < waiting + Timeout
    /\ clock' = clock + 1
    /\ UNCHANGED <<pc, waiting, set_back, difftime, errors, sockets, failed>>

(* The wall clock is set back by a tick. *)
SetBack ==
    /\ pc = "select"
    /\ set_back < MaxSetBack
    /\ set_back' = set_back + 1
    /\ UNCHANGED <<pc, clock, waiting, difftime, errors, sockets, failed>>

(* A mutant of Packet: the time since the last packet is compared. *)
PacketSinceLast ==
    /\ pc = "select"
    /\ difftime' = get_diff_time(waiting, clock)
    /\ IF difftime' > CapturedTime
       THEN pc' = "returned" /\ sockets' = sockets - 1 /\ UNCHANGED waiting
       ELSE waiting' = clock /\ UNCHANGED <<pc, sockets>>
    /\ UNCHANGED <<clock, set_back, errors, failed>>

(* A mutant of Packet: the socket is closed after an idle cycle only. *)
PacketKeepsOpen ==
    /\ pc = "select"
    /\ difftime' = get_diff_time(set_back, clock)
    /\ IF difftime' > CapturedTime
       THEN pc' = "returned" /\ UNCHANGED <<waiting, sockets>>
       ELSE waiting' = clock /\ UNCHANGED <<pc, sockets>>
    /\ UNCHANGED <<clock, set_back, errors, failed>>

(* A mutant of Packet: the whole seconds of select's timeout are compared. *)
PacketWholeSeconds ==
    /\ pc = "select"
    /\ difftime' = get_diff_time(set_back, clock)
    /\ IF difftime' > Timeout
       THEN pc' = "returned" /\ sockets' = sockets - 1 /\ UNCHANGED waiting
       ELSE waiting' = clock /\ UNCHANGED <<pc, sockets>>
    /\ UNCHANGED <<clock, set_back, errors, failed>>

(* A packet is read and handled; then, and only then, the wall clock is    *)
(* compared with captured_time.                                            *)
Packet ==
    /\ pc = "select"
    /\ difftime' = get_diff_time(set_back, clock)
    /\ IF difftime' > CapturedTime
       THEN pc' = "returned" /\ sockets' = sockets - 1 /\ UNCHANGED waiting
       ELSE waiting' = clock /\ UNCHANGED <<pc, sockets>>
    /\ UNCHANGED <<clock, set_back, errors, failed>>

(* select() or read() fails: select is called again with a full timeout,   *)
(* and nobody looks at the clock.                                          *)
CallFails ==
    /\ pc = "select"
    /\ errors < MaxErrors
    /\ errors' = errors + 1
    /\ waiting' = clock
    /\ UNCHANGED <<pc, clock, set_back, difftime, sockets, failed>>

(* A mutant of Idle: the idle cycle is not left, and select, which has     *)
(* used its timeout up, returns at once again.                             *)
IdleGoesOn ==
    /\ pc = "select"
    /\ clock = waiting + Timeout
    /\ UNCHANGED vars

(* "idle cycle": select has waited for Timeout in vain. *)
Idle ==
    /\ pc = "select"
    /\ clock = waiting + Timeout
    /\ pc' = "returned"
    /\ sockets' = sockets - 1
    /\ UNCHANGED <<block, failed>>

(* The producer calls again for the next block. *)
NextBlock ==
    /\ pc = "returned"
    /\ pc' = "setup"
    /\ clock' = 0 /\ waiting' = 0 /\ set_back' = 0 /\ difftime' = 0 /\ errors' = 0
    /\ UNCHANGED <<sockets, failed>>

Next ==
    \/ Setup \/ SocketFails \/ BindFails
    \/ Tick \/ SetBack \/ Packet \/ CallFails \/ Idle
    \/ NextBlock

(* Time passes, select returns when its time is up, and the thread goes    *)
(* on.  That packets come is not assumed.                                  *)
Fairness ==
    /\ WF_vars(Setup \/ SocketFails \/ BindFails)
    /\ WF_vars(Tick)
    /\ WF_vars(Idle)
    /\ WF_vars(NextBlock)

Spec == Init /\ [][Next]_vars /\ Fairness

-----------------------------------------------------------------------------
(* A block lasts captured_time and one timeout at the most, however the    *)
(* packets are spaced, plus what the wall clock is set back by and one more*)
(* timeout for each error: a producer keeps the others and the consumer    *)
(* waiting no longer than that.                                            *)
BlockBounded == clock <= CapturedTime + (1 + errors) * Timeout + set_back

(* A block is cut short only by silence: if it is over before captured_time*)
(* has passed, the last Timeout of it brought no packet.                   *)
ShortOnlyIfIdle ==
    [][pc = "select" /\ pc' = "returned" /\ clock <= CapturedTime
        => clock - waiting = Timeout]_vars

(* Every block closes its socket, those that failed after socket() apart:  *)
(* the number of open descriptors grows with the failures alone.           *)
SocketsAccounted ==
    sockets = failed + (IF pc = "select" THEN 1 ELSE 0)

(* Every block ends, under any traffic and none: what the fairness of the  *)
(* capture step in Handshake stands for.                                   *)
BlockEnds == pc = "select" ~> pc = "returned"
=============================================================================
