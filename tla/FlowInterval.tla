---------------------------- MODULE FlowInterval -----------------------------
(***************************************************************************)
(* The time a flow is said to have lasted: its stamps, which ipv4_add and  *)
(* ipv4_update of src/init/init_module.c take from the wall clock while a  *)
(* block is captured, and the interval that packet_xml_flow_info of        *)
(* src/xml/xml.c makes of them and divides the bytes of the flow by.       *)
(*                                                                         *)
(* One flow is followed through the blocks of Capture; what other flows do *)
(* to its stamps is nothing (Collector says which slot is whose).          *)
(***************************************************************************)
EXTENDS Capture

VARIABLES
    started,            \* the wall clock when the loop was entered
    recorded,           \* the flow is in the table of its interface
    start, end,         \* its stamps
    first, last         \* history: clock at its first and its last packet

stamps == <<recorded, start, end, first, last>>
flowVars == <<vars, started, stamps>>

(* gettimeofday.  Where in a second a block begins is left open; the wall  *)
(* clock is past MaxSetBack, so that it never reads less than zero.        *)
WallClock == started + clock - set_back
Beginnings == MaxSetBack .. MaxSetBack + Second - 1

tv_sec(time) == time \div Second

FlowTypeOK ==
    /\ TypeOK
    /\ started \in Beginnings
    /\ recorded \in BOOLEAN
    /\ {start, end, first, last} \subseteq Nat
    /\ recorded => first <= last /\ last <= clock

(* What memset leaves of a flow, and INIT_LIST_HEAD of the list it was in. *)
NoFlow ==
    /\ recorded' = FALSE
    /\ start' = 0 /\ end' = 0
    /\ first' = 0 /\ last' = 0

FlowInit ==
    /\ Init
    /\ started \in Beginnings
    /\ recorded = FALSE
    /\ start = 0 /\ end = 0
    /\ first = 0 /\ last = 0

-----------------------------------------------------------------------------
(* ipv4_add: both stamps are those of the packet that made the flow. *)
ipv4_add ==
    /\ recorded' = TRUE
    /\ start' = WallClock /\ end' = WallClock
    /\ first' = clock /\ last' = clock

(* ipv4_update *)
ipv4_update ==
    /\ end' = WallClock
    /\ last' = clock
    /\ UNCHANGED <<recorded, start, first>>

(* A packet of the flow is read and sampled. *)
FlowPacket ==
    /\ Packet
    /\ IF recorded THEN ipv4_update ELSE ipv4_add
    /\ UNCHANGED started

(* Any other packet, one of the flow that is not sampled or finds the table*)
(* full included.                                                          *)
OtherPacket == Packet /\ UNCHANGED <<started, stamps>>

(* The steps of a block that have nothing to do with packets. *)
BlockStep ==
    /\ Setup \/ SocketFails \/ BindFails \/ Tick \/ SetBack \/ CallFails \/ Idle
    /\ UNCHANGED <<started, stamps>>

(* A mutant of NextRound: the lists are cleared, the table is not, and the *)
(* next flow of the slot finds itself recorded already.                    *)
NextRoundKeepsStamps ==
    /\ NextBlock
    /\ started' \in Beginnings
    /\ UNCHANGED stamps

(* The consumer has reported the block and cleared the table (the second   *)
(* loop of main.c), and the producer calls again.                          *)
NextRound ==
    /\ NextBlock
    /\ started' \in Beginnings
    /\ NoFlow

FlowNext == FlowPacket \/ OtherPacket \/ BlockStep \/ NextRound

FlowSpec == FlowInit /\ [][FlowNext]_flowVars /\ Fairness

-----------------------------------------------------------------------------
(* packet_xml_flow_info: the difference of the stamps, except that two     *)
(* stamps of one second, or an end that lies before, count as a block.     *)
current_interval ==
    LET measured == IF tv_sec(start) >= tv_sec(end) THEN CapturedTime
                    ELSE get_diff_time(start, end)
    IN  IF measured = 0 THEN CapturedTime ELSE measured

(* The bytes of a flow are divided by a time that is never zero and is     *)
(* either captured_time or what lay between its own packets of this block, *)
(* short of it only by what the wall clock was set back; and the guess     *)
(* captured_time stands in for no flow whose stamps are a second apart.  So*)
(* no stamp of an earlier block or of a cleared slot ever gets into a rate.*)
IntervalOfThisBlock ==
    recorded =>
        LET lasted   == last - first
            measured == lasted - set_back .. lasted
        IN  /\ current_interval > 0
            /\ current_interval \in {CapturedTime} \cup measured
            /\ lasted - set_back >= Second => current_interval \in measured
=============================================================================
