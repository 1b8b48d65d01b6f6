------------------------------ MODULE Startup --------------------------------
(***************************************************************************)
(* init_module of src/init/init_module.c from its first statement to its   *)
(* last, and the threads that main.c starts whatever became of it.         *)
(* init_module is void and looks at no result but that of fopen: a         *)
(* configuration that cannot be read, a socket that cannot be opened, a    *)
(* dump that breaks off and a queue that gets no memory all leave their    *)
(* mark in global variables and are passed over.                           *)
(*                                                                         *)
(* The discovery of the cards is Discovery; it runs here between the steps *)
(* that precede and those that follow it.                                  *)
(***************************************************************************)
EXTENDS Discovery

CONSTANTS
    Configs,            \* what reading host_config.xml may leave
    zp                  \* get_zp

(* g_host_config as far as it matters.  a and p are fractions; a field that*)
(* the file lacks, or all of them if it cannot be parsed, is zero.         *)
Fraction == Nat \X (Nat \ {0})
ConfigType == [captured_time : Nat, nmax : Nat, a : Fraction, p : Fraction]
NoConfig == [captured_time |-> 0, nmax |-> 0, a |-> <<0, 1>>, p |-> <<0, 1>>]

ASSUME ConfigAssumption ==
    /\ Configs \subseteq ConfigType
    /\ \A c \in Configs : c.p[1] <= c.p[2]
ASSUME ZpAssumption == zp \in Nat

VARIABLES
    stage,              \* the function that init_module calls next, or "main"
    config,             \* g_host_config
    ready,              \* init function -> indices it has initialised
    best,               \* system_best_sampled_n
    threads             \* traffic_thrd: indices of the threads started

startupVars == <<vars, stage, config, ready, best, threads>>

(* The functions that initialise arrays with MAX_INTERFACE_SIZE elements.  *)
Loops == {"init_if_array", "init_interface_sampled_struct",
          "init_interface_sampled_param", "init_tc_sys_list",
          "init_queue_array"}

Stages == Loops \cup
    {"read_hostconfig_file", "fopen", "tc_netlink_open",
     "get_all_interfaces_info", "get_best_sampled_count", "main"}

StartupTypeOK ==
    /\ TypeOK
    /\ stage \in Stages
    /\ config \in Configs \cup {NoConfig}
    /\ ready \in [Loops -> SUBSET Nat]
    /\ best \in Int
    /\ threads \subseteq Nat

StartupInit ==
    /\ Init
    /\ stage = "read_hostconfig_file"
    /\ config = NoConfig
    /\ ready = [loop \in Loops |-> {}]
    /\ best = 0
    /\ threads = {}

-----------------------------------------------------------------------------
(* A file that cannot be parsed leaves what memset made of the struct. *)
ReadHostconfigFile ==
    /\ stage = "read_hostconfig_file"
    /\ config' \in Configs \cup {NoConfig}
    /\ stage' = "fopen"
    /\ UNCHANGED <<vars, ready, best, threads>>

OpenLog ==
    /\ stage = "fopen"
    /\ stage' = "tc_netlink_open"
    /\ UNCHANGED <<vars, config, ready, best, threads>>

(* fopen fails: the function returns, and main goes on. *)
OpenLogFails ==
    /\ MayFail
    /\ stage = "fopen"
    /\ stage' = "main"
    /\ UNCHANGED <<vars, config, ready, best, threads>>

NetlinkOpen ==
    /\ stage = "tc_netlink_open"
    /\ stage' = "get_all_interfaces_info"
    /\ UNCHANGED <<vars, config, ready, best, threads>>

(* tc_netlink_open returns -1, and sendto fails on that. *)
NetlinkOpenFails ==
    /\ MayFail
    /\ stage = "tc_netlink_open"
    /\ stage' = "get_all_interfaces_info"
    /\ pc' = "failed"
    /\ UNCHANGED <<links, cursor, if_array, g_interface_size, events>>
    /\ UNCHANGED <<config, ready, best, threads>>

(* get_all_interfaces_info: a step of Discovery. *)
DiscoveryStep ==
    /\ stage = "get_all_interfaces_info"
    /\ DumpLink \/ DumpDone \/ CallFails \/ DumpError
       \/ \E i \in Index : LinkEvent(i)
    /\ UNCHANGED <<stage, config, ready, best, threads>>

(* A mutant of DiscoveryReturns: nothing goes on without a whole dump. *)
DiscoveryReturnsWhole ==
    /\ stage = "get_all_interfaces_info"
    /\ pc = "done"
    /\ stage' = "init_if_array"
    /\ UNCHANGED <<vars, config, ready, best, threads>>

(* It returns; init_module does not look at what. *)
DiscoveryReturns ==
    /\ stage = "get_all_interfaces_info"
    /\ pc \in {"done", "failed"}
    /\ stage' = "init_if_array"
    /\ UNCHANGED <<vars, config, ready, best, threads>>

(* The indices that a loop up to g_interface_size writes. *)
Counted == 0 .. g_interface_size - 1

InitLoop(loop, indices, next) ==
    /\ stage = loop
    /\ stage' = next
    /\ ready' = [ready EXCEPT ![loop] = indices]
    /\ UNCHANGED <<vars, config, best, threads>>

InitIfArray ==
    InitLoop("init_if_array", Counted, "init_interface_sampled_struct")

InitSampledStruct ==
    InitLoop("init_interface_sampled_struct", Counted,
             "init_interface_sampled_param")

(* With init_flow_operation, which fills a table of constants. *)
InitSampledParam ==
    InitLoop("init_interface_sampled_param", Counted, "init_tc_sys_list")

(* A mutant of InitTcSysList: the last interface is left out. *)
InitTcSysListShort ==
    InitLoop("init_tc_sys_list", Counted \ {g_interface_size - 1},
             "init_queue_array")

(* The one loop that stops at MAX_INTERFACE_SIZE as well. *)
InitTcSysList ==
    InitLoop("init_tc_sys_list", Counted \cap Slots, "init_queue_array")

(* Once more init_if_array, which finds what it left, then the queues.     *)
(* QueueCreate may fail: the loop ends there, and AR_compute will answer -1*)
(* for an interface that has no queue.                                     *)
InitQueueArray ==
    \E n \in 0 .. g_interface_size :
        /\ n = g_interface_size \/ MayFail
        /\ InitLoop("init_queue_array", 0 .. n - 1, "get_best_sampled_count")

(* A mutant of get_n: the difference is taken the other way round. *)
get_n_reversed(p) ==
    IF p[1] = 0 THEN 0 ELSE (zp * (p[1] - p[2])) \div p[1]

(* get_n: zp * (1/p - 1), with 0 for 1/p - 1 when p is not configured.     *)
get_n(p) == IF p[1] = 0 THEN 0 ELSE (zp * (p[2] - p[1])) \div p[1]

(* nmax = a * nmax, which the conversion to int truncates. *)
nmax(c) == (c.a[1] * c.nmax) \div c.a[2]

GetBestSampledCount ==
    /\ stage = "get_best_sampled_count"
    /\ stage' = "main"
    /\ best' = IF nmax(config) < get_n(config.p) THEN nmax(config)
               ELSE get_n(config.p)
    /\ UNCHANGED <<vars, config, ready, threads>>

-----------------------------------------------------------------------------
(* main: a thread for index 0, asked for or not. *)
CreateFirst ==
    /\ stage = "main"
    /\ threads = {}
    /\ threads' = {0}
    /\ UNCHANGED <<vars, stage, config, ready, best>>

(* collect_traffic_info_func: each thread creates the next. *)
CreateNext(t) ==
    /\ t \in threads
    /\ t + 1 < g_interface_size
    /\ t + 1 \notin threads
    /\ threads' = threads \cup {t + 1}
    /\ UNCHANGED <<vars, stage, config, ready, best>>

(* What the program does by itself, as far as it succeeds. *)
Progress ==
    \/ ReadHostconfigFile \/ OpenLog \/ NetlinkOpen
    \/ stage = "get_all_interfaces_info" /\ (DumpLink \/ DumpDone)
       /\ UNCHANGED <<stage, config, ready, best, threads>>
    \/ DiscoveryReturns
    \/ InitIfArray \/ InitSampledStruct \/ InitSampledParam \/ InitTcSysList
    \/ InitQueueArray \/ GetBestSampledCount
    \/ CreateFirst \/ \E t \in threads : CreateNext(t)

StartupNext ==
    \/ ReadHostconfigFile
    \/ OpenLog \/ OpenLogFails
    \/ NetlinkOpen \/ NetlinkOpenFails
    \/ DiscoveryStep \/ DiscoveryReturns
    \/ InitIfArray \/ InitSampledStruct \/ InitSampledParam \/ InitTcSysList
    \/ InitQueueArray
    \/ GetBestSampledCount
    \/ CreateFirst
    \/ \E t \in threads : CreateNext(t)

StartupSpec ==
    StartupInit /\ [][StartupNext]_startupVars /\ WF_startupVars(Progress)

-----------------------------------------------------------------------------
(* collect_information and capture_netlink_data: a thread captures if its  *)
(* interface is active and captured_time is positive.                      *)
Captures(t) ==
    t \in threads \cap Slots /\ if_array[t].active /\ config.captured_time > 0

(* However init_module fared, a thread that captures packets finds its     *)
(* flow table, its list heads and its sampling structs initialised.  On a  *)
(* table that is not, get_system_memory compares with a maxsize of 0 and   *)
(* never refuses; on a head that is not, ipv4_search follows NULL.  The    *)
(* thread that main starts without a card is such a thread, but for its    *)
(* interface not being active.                                             *)
CapturesOnlyInitialised ==
    \A t \in threads : Captures(t) =>
        \A loop \in Loops \ {"init_queue_array"} : t \in ready[loop]

(* Only init_tc_sys_list tests for MAX_INTERFACE_SIZE.  The others stay    *)
(* inside their arrays, and the threads inside traffic_thrd, because the   *)
(* last two slots are never given to a link: they make good for two cards  *)
(* counted twice, and not for a third.                                     *)
LoopsStayInside ==
    events <= 2 =>
        /\ \A loop \in Loops : ready[loop] \subseteq Slots
        /\ threads \subseteq Slots

(* The number of packets to sample is a count, and not above nmax * a, the *)
(* most the machine is said to be able to process, whatever is missing from*)
(* the file: zero, which switches sampling off, is the worst it can be.    *)
(* Estimator takes it for such a count (BestAssumption).                   *)
BestWithinCapacity == best \in 0 .. nmax(config)

(* The program starts, with every thread it has counted, unless the kernel *)
(* has answered the request for the dump with an error.                    *)
StartsOrBlocks ==
    <>(\/ pc = "blocked"
       \/ stage = "main" /\ threads = {0} \cup Counted)
=============================================================================
