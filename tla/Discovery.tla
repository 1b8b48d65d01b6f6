----------------------------- MODULE Discovery ------------------------------
(***************************************************************************)
(* How the program finds its network cards: get_all_interfaces_info of     *)
(* src/util/util.c, called once by init_module.  It asks the kernel for a  *)
(* dump of all links over a netlink socket that also receives link         *)
(* notifications, and it takes every message on that socket, until the one *)
(* that ends the dump, for one of the dump.  What it leaves behind,        *)
(* if_array and g_interface_size, is what main.c starts threads from.      *)
(***************************************************************************)
EXTENDS Integers, FiniteSets

CONSTANTS
    MaxIndex,           \* the kernel numbers the links 1 .. MaxIndex
    MAX_INTERFACE_SIZE, \* slots of if_array
    MaxEvents,          \* bound on the notifications during the dump
    MayFail             \* the kernel may answer with an error

ASSUME SizeAssumption ==
    MaxIndex \in Nat /\ MAX_INTERFACE_SIZE \in Nat \ {0}
ASSUME EventAssumption == MaxEvents \in Nat /\ MayFail \in BOOLEAN

(* What a link can be to this program: an Ethernet card that is up or down,*)
(* the interface named tap0, something else, or a number not in use.  Link *)
(* 1 is the loopback device.                                               *)
Kinds == {"up", "down", "tap0", "other", "absent"}
Index == 1 .. MaxIndex

VARIABLES
    pc,                 \* "dump", "done", "failed" or "blocked"
    links,              \* the kernel's links, by ifi_index
    cursor,             \* the next link of the dump
    if_array,           \* slot -> its ifindex, active and tx (has stats)
    g_interface_size,
    events              \* history: notifications read

vars == <<pc, links, cursor, if_array, g_interface_size, events>>

Slots == 0 .. MAX_INTERFACE_SIZE - 1

Init ==
    /\ pc = "dump"
    /\ links \in {k \in [Index -> Kinds] : MaxIndex > 0 => k[1] = "other"}
    /\ cursor = 1
    /\ if_array = [s \in Slots |-> [ifindex |-> 0, active |-> FALSE, tx |-> FALSE]]
    /\ g_interface_size = 0
    /\ events = 0

-----------------------------------------------------------------------------
(* A mutant of InTable: the slot is compared and not the index. *)
InTableBySlot(i) == i - 2 >= 0 /\ i - 2 < MAX_INTERFACE_SIZE

(* The links that are given a slot, which is two below their index; so the *)
(* last two slots are given to nobody.                                     *)
InTable(i) == i - 2 >= 0 /\ i < MAX_INTERFACE_SIZE

(* A mutant of Counts: cards that are down count as well. *)
CountsDown(kind) == kind \in {"up", "down"}

(* IFLA_ADDRESS of an ARPHRD_ETHER link with IFF_UP; for tap0 the attribute*)
(* loop is left at its name, which comes before.                           *)
Counts(kind) == kind = "up"

(* A mutant of Link: a slot is filled next to the last. *)
LinkDense(i, kind) ==
    IF InTable(i) /\ Counts(kind)
    THEN /\ if_array' = [if_array EXCEPT ![g_interface_size] =
                            [ifindex |-> i, active |-> TRUE, tx |-> TRUE]]
         /\ g_interface_size' = g_interface_size + 1
    ELSE UNCHANGED <<if_array, g_interface_size>>

(* A mutant of Link: get_device_stats compares the slot and the count of   *)
(* the cards before this one.                                              *)
LinkStatsFirst(i, kind) ==
    IF InTable(i)
    THEN LET size == g_interface_size + (IF Counts(kind) THEN 1 ELSE 0) IN
         /\ g_interface_size' = size
         /\ if_array' = [if_array EXCEPT ![i - 2] =
                [ifindex |-> i,
                 active  |-> @.active \/ Counts(kind),
                 tx      |-> @.tx \/ (kind # "tap0" /\ i - 2 < g_interface_size)]]
    ELSE UNCHANGED <<if_array, g_interface_size>>

(* A mutant of Link: the count is advanced outside the test of IFF_UP.     *)
LinkCountsAll(i, kind) ==
    IF InTable(i)
    THEN LET size == g_interface_size + (IF CountsDown(kind) THEN 1 ELSE 0) IN
         /\ g_interface_size' = size
         /\ if_array' = [if_array EXCEPT ![i - 2] =
                [ifindex |-> i,
                 active  |-> @.active \/ Counts(kind),
                 tx      |-> @.tx \/ (kind # "tap0" /\ i - 2 <= size)]]
    ELSE UNCHANGED <<if_array, g_interface_size>>

(* One message about a link: its name, its address, then its statistics,   *)
(* which get_device_stats refuses for a slot beyond the count so far.  A   *)
(* slot that is active stays so, whatever the message says of it.          *)
Link(i, kind) ==
    IF InTable(i)
    THEN LET size == g_interface_size + (IF Counts(kind) THEN 1 ELSE 0) IN
         /\ g_interface_size' = size
         /\ if_array' = [if_array EXCEPT ![i - 2] =
                [ifindex |-> i,
                 active  |-> @.active \/ Counts(kind),
                 tx      |-> @.tx \/ (kind # "tap0" /\ i - 2 <= size)]]
    ELSE UNCHANGED <<if_array, g_interface_size>>

(* The next message of the dump. *)
DumpLink ==
    /\ pc = "dump"
    /\ cursor <= MaxIndex
    /\ cursor' = cursor + 1
    /\ IF links[cursor] = "absent"
       THEN UNCHANGED <<if_array, g_interface_size>>
       ELSE Link(cursor, links[cursor])
    /\ UNCHANGED <<pc, links, events>>

(* NLMSG_DONE. *)
DumpDone ==
    /\ pc = "dump"
    /\ cursor = MaxIndex + 1
    /\ pc' = "done"
    /\ UNCHANGED <<links, cursor, if_array, g_interface_size, events>>

(* sendto or recvmsg fails: the function returns -1, which init_module does*)
(* not look at.                                                            *)
CallFails ==
    /\ MayFail
    /\ pc = "dump"
    /\ pc' = "failed"
    /\ UNCHANGED <<links, cursor, if_array, g_interface_size, events>>

(* NLMSG_ERROR: only the loop over this buffer is left.  recvmsg is called *)
(* again, and no dump will answer it.                                      *)
DumpError ==
    /\ MayFail
    /\ pc = "dump"
    /\ pc' = "blocked"
    /\ UNCHANGED <<links, cursor, if_array, g_interface_size, events>>

(* What a notification can say of a link: a card is up or down, whether it *)
(* was so before or not; another link is what it was; a new link is there. *)
Told(kind) ==
    {k \in Kinds \ {"absent"} :
        kind \in {k, "absent"} \/ {kind, k} = {"up", "down"}}

(* The kernel tells of a link while the dump is read (or after it failed), *)
(* on the same socket, and the message is read as one of the dump's.  A    *)
(* link that is removed is told of as one that is down.                    *)
LinkEvent(i) ==
    /\ pc \in {"dump", "blocked"}
    /\ events < MaxEvents
    /\ events' = events + 1
    /\ \E kind \in Told(links[i]) : links' = [links EXCEPT ![i] = kind]
    /\ Link(i, links'[i])
    /\ UNCHANGED <<pc, cursor>>

Next ==
    \/ DumpLink \/ DumpDone \/ CallFails \/ DumpError
    \/ \E i \in Index : LinkEvent(i)

Spec == Init /\ [][Next]_vars

-----------------------------------------------------------------------------
ActiveSlots == {s \in Slots : if_array[s].active}

(* main.c starts a producer for each of these slots, and its consumer waits*)
(* for as many.                                                            *)
Threads == 0 .. g_interface_size - 1

TypeOK ==
    /\ pc \in {"dump", "done", "failed", "blocked"}
    /\ links \in [Index -> Kinds]
    /\ cursor \in 1 .. MaxIndex + 1
    /\ if_array \in
         [Slots -> [ifindex : Nat, active : BOOLEAN, tx : BOOLEAN]]
    /\ \A s \in Slots : if_array[s].ifindex \in {0, s + 2}
    /\ g_interface_size \in Nat
    /\ events \in 0 .. MaxEvents

(* Without notifications the number of threads is the number of active     *)
(* slots; each notification adds one thread too many at most, and never one*)
(* too few.                                                                *)
CountFitsSlots ==
    /\ Cardinality(ActiveSlots) <= g_interface_size
    /\ g_interface_size <= Cardinality(ActiveSlots) + events

(* If the cards that are up are the first links after the loopback device, *)
(* and none changes meanwhile, then the threads are those of the cards: the*)
(* case the program was written for.                                       *)
EveryCardServed ==
    pc = "done" /\ events = 0
        => \A k \in 1 .. MAX_INTERFACE_SIZE - 1 :
             (\A i \in Index \ {1} : links[i] = "up" <=> i <= k) /\ k <= MaxIndex
                => Threads = ActiveSlots /\ Threads = 0 .. k - 2

(* "create one thread for each network card" (src/main.c).  Refuted: the   *)
(* slots are numbered by link, the threads by count.                       *)
ThreadPerCard ==
    pc = "done" => \A i \in Index : links[i] = "up" => i - 2 \in Threads

(* Nor does such a card go without its statistics: what                    *)
(* op_interface_link_info reports for a slot that has a thread and a card  *)
(* is what the kernel counted, and not the zero if_array starts with.      *)
StatsOfThreads ==
    pc = "done" /\ events = 0 /\ Threads \subseteq ActiveSlots
        => \A s \in Threads : if_array[s].tx
=============================================================================
