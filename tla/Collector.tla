----------------------------- MODULE Collector ------------------------------
(***************************************************************************)
(* The flow tables of the monitored interfaces, from the frame that is     *)
(* captured to the report that is sent: ethernet_protocol_packet_callback  *)
(* and analysis_module fill them, one_interface_statistics_module joins    *)
(* them and reports them, and the reset loop in main.c clears them.        *)
(*                                                                         *)
(* Who works when is Rounds, which Handshake implements.  Of the sampling  *)
(* (Estimator) only this is kept: an interface samples every packet of a   *)
(* round, or any of them.                                                  *)
(***************************************************************************)
EXTENDS Integers, Sequences, FiniteSets, SequencesExt

CONSTANTS
    Size,               \* g_interface_size
    Active,             \* the interfaces whose `active` is 1
    Keys,               \* pairs (ip_src, ip_dst), all that a flow is told by
    Lengths,            \* bytes a packet adds to total_send
    Word,               \* 2^32: total_send is a __u32
    MaxFlow,            \* MAX_FLOW_NUM, the slots of an interface's table
    SendCapacity,       \* flows whose XML fits the 20000 bytes of send_data
    BeforeArray,        \* what the memory in front of if_array may hold
    Elsewhere,          \* a MAC address of another host
    Garbage,            \* a message made of an uninitialised buffer
    MaxPackets          \* bound on the packets of an interface in a round

Interfaces == 0 .. Size - 1

ASSUME SizeAssumption == Size \in Nat \ {0}
ASSUME ActiveAssumption == Active \subseteq Interfaces
ASSUME WordAssumption == Word \in Nat \ {0}
ASSUME LengthsAssumption == Lengths \subseteq 1 .. Word - 1
ASSUME TableAssumption == MaxFlow \in Nat /\ MaxFlow >= 2 /\ SendCapacity \in Nat
ASSUME BoundAssumption == MaxPackets \in Nat
ASSUME BeforeArrayAssumption ==
    BeforeArray # {} /\ BeforeArray \subseteq Int
ASSUME ElsewhereAssumption == Elsewhere \notin Interfaces

Directions == {"in", "out"}

(* get_all_interfaces_info stores interface ifi_index in slot ifi_index-2. *)
ifindex(i) == i + 2

(* struct _ipv4_flow; 0 is what memset left in if_in or if_out. *)
Flows ==
    [key            : Keys,
     flow_direction : Directions,
     if_in          : Int,
     if_out         : Int,
     total_send     : 0 .. Word - 1]

VARIABLES
    mode, arrived,      \* the round, see Rounds
    todo,               \* steps of the consumer's two loops that are done
    node,               \* if_array[i].element: the slots in use, in order
    list,               \* ipv4_head_in[i] and ipv4_head_out[i], as slots
    total_packets, sampled_packets,
    full_rate,          \* out_sampled_rate is 1
    report,             \* what was packed for the interface in this round
    inbox,              \* what the PMA agent received of it in this round
    wire                \* history: bytes sampled per direction and key

Round == INSTANCE Rounds WITH Producers <- Interfaces

counters == <<total_packets, sampled_packets, full_rate>>
tables == <<node, list, counters, wire>>
vars == <<mode, arrived, todo, tables, report, inbox>>

Slots == 1 .. MaxFlow - 1
NoFlows == [dir \in Directions |-> <<>>]
NoBytes == [dir \in Directions |-> [key \in Keys |-> 0]]
NoReport == <<>>

(* An element of a report: a flow, and the sampled and total packets that  *)
(* packet_xml_flow_info scales its bytes by.                               *)
Entries == [flow : Flows, sampled : Nat, total : Nat]

(* send_data ignores that packet_send_buff had no room for the report, and *)
(* sends the buffer as it is.                                              *)
Message(entries) ==
    IF Len(entries) <= SendCapacity THEN entries ELSE Garbage

TypeOK ==
    /\ Round!TypeOK
    /\ todo \in 0 .. 2 * Size
    /\ node \in [Interfaces -> Seq(Flows)]
    /\ list \in [Interfaces -> [Directions -> Seq(Slots)]]
    /\ total_packets \in [Interfaces -> Nat]
    /\ sampled_packets \in [Interfaces -> Nat]
    /\ full_rate \in [Interfaces -> BOOLEAN]
    /\ report \in [Interfaces -> Seq(Entries)]
    /\ \A i \in Interfaces : inbox[i] \in {NoReport, Message(report[i])}
    /\ wire \in [Interfaces -> [Directions -> [Keys -> Nat]]]
    /\ \A i \in Interfaces : Len(node[i]) < MaxFlow

(* init_if_array, init_tc_sys_list, init_interface_sampled_struct. *)
Init ==
    /\ Round!Init
    /\ todo = 0
    /\ node = [i \in Interfaces |-> <<>>]
    /\ list = [i \in Interfaces |-> NoFlows]
    /\ total_packets = [i \in Interfaces |-> 0]
    /\ sampled_packets = [i \in Interfaces |-> 0]
    /\ full_rate = [i \in Interfaces |-> TRUE]
    /\ report = [i \in Interfaces |-> NoReport]
    /\ inbox = [i \in Interfaces |-> NoReport]
    /\ wire = [i \in Interfaces |-> NoBytes]

-----------------------------------------------------------------------------
(* The producers.  A frame of type IP; its version is 4 or another: for 6  *)
(* there is a list of its own, which goes into no report, and for the rest *)
(* get_operation_func finds no functions.                                  *)
Frames ==
    [shost : Interfaces \cup {Elsewhere},
     dhost : Interfaces \cup {Elsewhere},
     ip_v  : {4, 0},
     key   : Keys,
     len   : Lengths]

(* ethernet_protocol_packet_callback: the frames of promiscuous neighbours *)
(* are passed over.                                                        *)
Mine(i, frame) == i \in {frame.shost, frame.dhost}

(* ipv4_search: the direction, by the source address first.                *)
flow_direction(i, frame) == IF frame.shost = i THEN "out" ELSE "in"

(* ipv4_operate and the first half of ipv4_search. *)
ipv4_operate(i, frame) ==
    LET dir == flow_direction(i, frame)
    IN  [key            |-> frame.key,
         flow_direction |-> dir,
         if_in          |-> IF dir = "in" THEN ifindex(i) ELSE 0,
         if_out         |-> IF dir = "out" THEN ifindex(i) ELSE 0,
         total_send     |-> frame.len]

(* A mutant of ipv4_policy_compare: the key is compared in part. *)
ipv4_policy_compare_any(compared, flow) == TRUE

(* ipv4_policy_compare *)
ipv4_policy_compare(compared, flow) == compared.key = flow.key

(* The position in a list of the first flow of this key, 0 if there is none. *)
LookUp(i, dir, flow) ==
    SelectInSeq(list[i][dir],
                LAMBDA slot : ipv4_policy_compare(node[i][slot], flow))

(* A mutant of ipv4_search: it looks in the list of input flows. *)
ipv4_search_in(i, flow) ==
    LET position == LookUp(i, "in", flow)
    IN  IF position = 0 THEN 0 ELSE list[i]["in"][position]

(* ipv4_search: the slot of the flow, 0 for NULL. *)
ipv4_search(i, flow) ==
    LET dir      == flow.flow_direction
        position == LookUp(i, dir, flow)
    IN  IF position = 0 THEN 0 ELSE list[i][dir][position]

(* A mutant of ipv4_add: the slot is taken although the table is full. *)
ipv4_add_unbounded(i, flow) ==
    /\ node' = [node EXCEPT ![i] = Append(@, flow)]
    /\ list' = [list EXCEPT ![i][flow.flow_direction] =
                               Append(@, Len(node[i]) + 1)]

(* ipv4_add with get_system_memory: the next slot, appended to its list.   *)
(* The last of the maxsize slots is never given away; when only it is left *)
(* the flow is dropped, and analysis_module ignores that.                  *)
ipv4_add(i, flow) ==
    IF Len(node[i]) + 1 = MaxFlow
    THEN UNCHANGED <<node, list>>
    ELSE /\ node' = [node EXCEPT ![i] = Append(@, flow)]
         /\ list' = [list EXCEPT ![i][flow.flow_direction] =
                                    Append(@, Len(node[i]) + 1)]

(* ipv4_update: the sum wraps, as nobody looks at a carry. *)
ipv4_update(i, slot, flow) ==
    /\ node' = [node EXCEPT
                  ![i][slot].total_send = (@ + flow.total_send) % Word]
    /\ UNCHANGED list

(* analysis_module from sampled_packets++ on. *)
Analyse(i, frame) ==
    /\ sampled_packets' = [sampled_packets EXCEPT ![i] = @ + 1]
    /\ IF frame.ip_v # 4
       THEN UNCHANGED <<node, list, wire>>
       ELSE LET flow == ipv4_operate(i, frame)
                slot == ipv4_search(i, flow)
            IN  /\ IF slot = 0 THEN ipv4_add(i, flow)
                               ELSE ipv4_update(i, slot, flow)
                /\ wire' = [wire EXCEPT
                     ![i][flow.flow_direction][flow.key] = @ + flow.total_send]

(* A captured frame that concerns interface i. *)
Packet(i, frame) ==
    /\ mode = "capture"
    /\ i \in Active \ arrived
    /\ total_packets[i] < MaxPackets
    /\ Mine(i, frame)
    /\ total_packets' = [total_packets EXCEPT ![i] = @ + 1]
    /\ \/ Analyse(i, frame)
       \/ ~full_rate[i] /\ UNCHANGED <<node, list, sampled_packets, wire>>
    /\ UNCHANGED <<mode, arrived, todo, full_rate, report, inbox>>

(* The block is over, see Capture; an interface that is not active has an  *)
(* empty one.                                                              *)
Arrive(i) ==
    /\ Round!Arrive(i)
    /\ UNCHANGED <<todo, tables, report, inbox>>

BeginReport ==
    /\ Round!BeginReport
    /\ UNCHANGED <<todo, tables, report, inbox>>

-----------------------------------------------------------------------------
(* The consumer.  cal_flow_in_out_interface: the first interface that      *)
(* received the flow, Size if there is none.                               *)
FirstInput(flow) ==
    LET receivers == {j \in Interfaces : LookUp(j, "in", flow) # 0}
    IN  IF receivers = {} THEN Size ELSE Min(receivers)

(* if_array[in].ifindex, in being -1 when no interface received the flow.  *)
if_in_of(flow, memory) ==
    LET in == FirstInput(flow) IN IF in = Size THEN memory ELSE ifindex(in)

(* one_interface_traverse_sys_link: the flows sent on i learn their input. *)
Traversed(i, memory) ==
    [slot \in DOMAIN node[i] |->
        IF slot \in Range(list[i]["out"])
        THEN [node[i][slot] EXCEPT !.if_in  = if_in_of(node[i][slot], memory),
                                   !.if_out = ifindex(i)]
        ELSE node[i][slot]]

(* op_interface_struct: the output flows, then the input flows, with the   *)
(* counters they are scaled by.                                            *)
op_interface_struct(i, flows) ==
    LET slots == list[i]["out"] \o list[i]["in"]
    IN  IF i \in Active
        THEN [k \in DOMAIN slots |-> [flow    |-> flows[slots[k]],
                                      sampled |-> sampled_packets[i],
                                      total   |-> total_packets[i]]]
        ELSE NoReport

(* A mutant of Statistics: the interface is cleared as soon as its report  *)
(* is sent, in the same loop.                                              *)
StatisticsClears(i) ==
    /\ mode = "report"
    /\ todo = i
    /\ \E memory \in BeforeArray :
          report' = [report EXCEPT
                       ![i] = op_interface_struct(i, Traversed(i, memory))]
    /\ inbox' \in {inbox, [inbox EXCEPT ![i] = Message(report'[i])]}
    /\ node' = [node EXCEPT ![i] = <<>>]
    /\ list' = [list EXCEPT ![i] = NoFlows]
    /\ todo' = todo + 1
    /\ UNCHANGED <<mode, arrived, counters, wire>>

(* one_interface_statistics_module, the first loop: join, pack and send.   *)
(* client_send may fail at any call; the report is then lost.              *)
Statistics(i) ==
    /\ mode = "report"
    /\ todo = i
    /\ \E memory \in BeforeArray :
          node' = [node EXCEPT ![i] = Traversed(i, memory)]
    /\ report' = [report EXCEPT ![i] = op_interface_struct(i, node'[i])]
    /\ inbox' \in {inbox, [inbox EXCEPT ![i] = Message(report'[i])]}
    /\ todo' = todo + 1
    /\ UNCHANGED <<mode, arrived, list, counters, wire>>

(* A mutant of Reset: the list heads keep pointing into the cleared table. *)
ResetKeepsLists(i) ==
    /\ mode = "report"
    /\ todo = Size + i
    /\ node' = [node EXCEPT ![i] = <<>>]
    /\ full_rate' \in {[full_rate EXCEPT ![i] = full] : full \in BOOLEAN}
    /\ total_packets' = [total_packets EXCEPT ![i] = 0]
    /\ sampled_packets' = [sampled_packets EXCEPT ![i] = 0]
    /\ wire' = [wire EXCEPT ![i] = NoBytes]
    /\ todo' = todo + 1
    /\ UNCHANGED <<mode, arrived, list, report, inbox>>

(* A mutant of Reset: the flows stay, only the counters are cleared. *)
ResetKeepsFlows(i) ==
    /\ mode = "report"
    /\ todo = Size + i
    /\ full_rate' \in {[full_rate EXCEPT ![i] = full] : full \in BOOLEAN}
    /\ total_packets' = [total_packets EXCEPT ![i] = 0]
    /\ sampled_packets' = [sampled_packets EXCEPT ![i] = 0]
    /\ wire' = [wire EXCEPT ![i] = NoBytes]
    /\ todo' = todo + 1
    /\ UNCHANGED <<mode, arrived, node, list, report, inbox>>

(* The second loop: memset of the table, the next rate, the counters, and  *)
(* INIT_LIST_HEAD of the two lists.                                        *)
Reset(i) ==
    /\ mode = "report"
    /\ todo = Size + i
    /\ node' = [node EXCEPT ![i] = <<>>]
    /\ list' = [list EXCEPT ![i] = NoFlows]
    /\ full_rate' \in {[full_rate EXCEPT ![i] = full] : full \in BOOLEAN}
    /\ total_packets' = [total_packets EXCEPT ![i] = 0]
    /\ sampled_packets' = [sampled_packets EXCEPT ![i] = 0]
    /\ wire' = [wire EXCEPT ![i] = NoBytes]
    /\ todo' = todo + 1
    /\ UNCHANGED <<mode, arrived, report, inbox>>

(* consumer_notify_producer, after the two loops. *)
EndReport ==
    /\ todo = 2 * Size
    /\ Round!EndReport
    /\ todo' = 0
    /\ report' = [i \in Interfaces |-> NoReport]
    /\ inbox' = [i \in Interfaces |-> NoReport]
    /\ UNCHANGED tables

Next ==
    \/ \E i \in Interfaces, frame \in Frames : Packet(i, frame)
    \/ \E i \in Interfaces : Arrive(i) \/ Statistics(i) \/ Reset(i)
    \/ BeginReport
    \/ EndReport

Spec == Init /\ [][Next]_vars

-----------------------------------------------------------------------------
(* The tables. *)

IsFull(i) == Len(node[i]) + 1 = MaxFlow

(* The slots of flows of this direction and key that the lists lead to. *)
Recorded(i, dir, key) ==
    {slot \in Range(list[i][dir]) : node[i][slot].key = key}

(* Every slot in use is reached from exactly one place of one list, and    *)
(* the lists lead nowhere else: no flow is lost in the table, and none is  *)
(* read from slots that memset has cleared.                                *)
ListsCoverTable ==
    \A i \in Interfaces :
        LET slots == list[i]["out"] \o list[i]["in"]
        IN  /\ IsInjective(slots)
            /\ Range(slots) = DOMAIN node[i]

(* A flow is recorded once, with all its sampled bytes modulo the word that*)
(* counts them, or not at all; and it is left out only for want of a slot. *)
(* A flow that is dropped can never come in later with a part of its bytes,*)
(* since no slot becomes free before the round ends.                       *)
FlowsWhole ==
    \A i \in Interfaces, dir \in Directions, key \in Keys :
        \/ \E slot \in Recorded(i, dir, key) :
              /\ Recorded(i, dir, key) = {slot}
              /\ node[i][slot].total_send = wire[i][dir][key] % Word
              /\ wire[i][dir][key] > 0
        \/ /\ Recorded(i, dir, key) = {}
           /\ wire[i][dir][key] = 0 \/ IsFull(i)

(* The reports. *)

(* What one interface packed is of this round and complete: the same flows *)
(* and bytes (modulo Word) as came by, unless the table was full.          *)
Reported(i) == mode = "report" /\ i < todo /\ todo <= Size /\ i \in Active

ReportsAreTrue ==
    \A i \in Interfaces : Reported(i) =>
        /\ \A entry \in Range(report[i]) :
              entry.flow.total_send =
                  wire[i][entry.flow.flow_direction][entry.flow.key] % Word
        /\ ~IsFull(i) =>
              \A dir \in Directions, key \in Keys :
                  wire[i][dir][key] > 0 =>
                      \E entry \in Range(report[i]) :
                          /\ entry.flow.flow_direction = dir
                          /\ entry.flow.key = key

(* packet_xml_flow_info divides by sampled / total: a flow is never packed *)
(* when nothing was sampled, however the round went.                       *)
RateNeverZero ==
    \A i \in Interfaces : \A entry \in Range(report[i]) :
        entry.sampled \in 1 .. entry.total

(* The joined reports: a flow that i sends on is said to have come in      *)
(* through an interface that did receive it in this same round, whenever   *)
(* there is one with room for it; so all reports must precede all resets.  *)
Received(j, key) == wire[j]["in"][key] > 0

InputIsAReceiver ==
    \A i \in Interfaces : Reported(i) =>
        \A entry \in Range(report[i]) :
            LET receivers == {j \in Interfaces : Received(j, entry.flow.key)}
            IN  /\ entry.flow.flow_direction = "out"
                /\ \E j \in receivers : ~IsFull(j)
                => entry.flow.if_in \in {ifindex(j) : j \in receivers}

(* The sample reports in test/ have input_if -1 for a flow that no         *)
(* interface received.                                                     *)
NoInputIsMinusOne ==
    \A i \in Interfaces : Reported(i) =>
        \A entry \in Range(report[i]) :
            (\A j \in Interfaces : ~Received(j, entry.flow.key))
            => entry.flow.if_in = -1

(* send_data: "send data to PMA agent", that is the data it was given.     *)
AgentGetsReports == \A i \in Interfaces : inbox[i] # Garbage
=============================================================================
