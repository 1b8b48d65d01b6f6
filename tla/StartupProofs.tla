--------------------------- MODULE StartupProofs ----------------------------
(***************************************************************************)
(* That main starts its threads on interfaces that are initialised, that   *)
(* no loop of init_module leaves its array, and that the number of packets *)
(* to sample is one the estimator can take: for any number of links and    *)
(* slots, any configuration and any step of init_module that fails.        *)
(***************************************************************************)
EXTENDS Startup, DiscoveryProofs

Before == {"read_hostconfig_file", "fopen", "tc_netlink_open"}

(* The dump is asked for once, by get_all_interfaces_info. *)
NotYet == stage \in Before => pc = "dump" /\ ActiveSlots = {}

(* Slots are given to links below MAX_INTERFACE_SIZE only, and without one *)
(* nothing is counted.                                                     *)
SlotInv ==
    /\ \A s \in ActiveSlots : s + 2 < MAX_INTERFACE_SIZE
    /\ g_interface_size > 0 => MAX_INTERFACE_SIZE >= 3

(* What a thread needs before it may capture. *)
Needed == Loops \ {"init_queue_array"}

(* The loops that init_module has come past. *)
Passed ==
    {loop \in Needed :
        \/ stage \in {"init_queue_array", "get_best_sampled_count"}
        \/ stage = "init_tc_sys_list" /\ loop # "init_tc_sys_list"
        \/ /\ stage = "init_interface_sampled_param"
           /\ loop \in {"init_if_array", "init_interface_sampled_struct"}
        \/ /\ stage = "init_interface_sampled_struct"
           /\ loop = "init_if_array"}

Prepared(loops) == \A loop \in loops : Counted \cap Slots \subseteq ready[loop]

ReadyInv ==
    /\ ready \in [Loops -> SUBSET Nat]
    /\ \A loop \in Loops : ready[loop] \subseteq Counted
    /\ stage \in Before \cup {"get_all_interfaces_info"}
          => \A loop \in Loops : ready[loop] = {}
    /\ Prepared(Passed)
    /\ stage = "main" => ActiveSlots = {} \/ Prepared(Needed)

ThreadInv ==
    /\ threads \subseteq {0} \cup Counted
    /\ stage # "main" => threads = {}

BestInv ==
    /\ config \in Configs \cup {NoConfig}
    /\ best \in 0 .. nmax(config)
    /\ stage = "read_hostconfig_file" => best = 0

StartupInv ==
    /\ DiscoveryInv /\ SlotInv
    /\ stage \in Stages /\ NotYet /\ ReadyInv /\ ThreadInv /\ BestInv

-----------------------------------------------------------------------------
(* What is read from the file, or left by memset, is a configuration whose *)
(* p is a share.                                                           *)
LEMMA ConfigOK ==
  ASSUME NEW c \in Configs \cup {NoConfig}
  PROVE  /\ c \in ConfigType
         /\ c.p[1] \in Nat /\ c.p[2] \in Nat /\ c.p[1] <= c.p[2]
BY ConfigAssumption DEF ConfigType, NoConfig, Fraction

(* A quotient of natural numbers is one. *)
LEMMA Quotient ==
  ASSUME NEW a \in Nat, NEW b \in Nat \ {0}
  PROVE  a \div b \in Nat
BY SMT

(* The two numbers that get_best_sampled_count takes the smaller of.       *)
LEMMA Candidates ==
  ASSUME NEW c \in Configs \cup {NoConfig}
  PROVE  nmax(c) \in Nat /\ get_n(c.p) \in Nat
<1>1. c \in ConfigType /\ c.p[1] \in Nat /\ c.p[2] \in Nat /\ c.p[1] <= c.p[2]
  BY ConfigOK
<1>2. c.nmax \in Nat /\ c.a[1] \in Nat /\ c.a[2] \in Nat \ {0}
  BY <1>1 DEF ConfigType, Fraction
<1>3. nmax(c) \in Nat
  <2>1. c.a[1] * c.nmax \in Nat
    BY <1>2, SMT
  <2> QED BY <1>2, <2>1, Quotient DEF nmax
<1>4. get_n(c.p) \in Nat
  <2>1. c.p[2] - c.p[1] \in Nat
    BY <1>1
  <2>2. zp * (c.p[2] - c.p[1]) \in Nat
    BY <2>1, ZpAssumption, SMT
  <2>3. c.p[1] # 0 => (zp * (c.p[2] - c.p[1])) \div c.p[1] \in Nat
    BY <1>1, <2>2, Quotient
  <2> QED BY <2>3 DEF get_n
<1> QED BY <1>3, <1>4

(* init_module takes the steps of get_all_interfaces_info, or none.        *)
LEMMA AsDiscovery ==
  ASSUME NotYet, [StartupNext]_startupVars
  PROVE  [Next]_vars
<1>1. CASE NetlinkOpenFails
  BY <1>1 DEF NetlinkOpenFails, NotYet, Before, CallFails, Next
<1>2. CASE DiscoveryStep
  BY <1>2 DEF DiscoveryStep, Next
<1>3. CASE \/ ReadHostconfigFile \/ OpenLog \/ OpenLogFails \/ NetlinkOpen
           \/ DiscoveryReturns \/ GetBestSampledCount \/ CreateFirst
           \/ \E t \in threads : CreateNext(t)
  BY <1>3 DEF ReadHostconfigFile, OpenLog, OpenLogFails, NetlinkOpen,
              DiscoveryReturns, GetBestSampledCount, CreateFirst, CreateNext
<1>4. CASE InitIfArray \/ InitSampledStruct \/ InitSampledParam
           \/ InitTcSysList \/ InitQueueArray
  BY <1>4 DEF InitIfArray, InitSampledStruct, InitSampledParam,
              InitTcSysList, InitQueueArray, InitLoop
<1> QED BY <1>1, <1>2, <1>3, <1>4 DEF StartupNext, startupVars

(* Every message keeps the slots below the last two. *)
LEMMA SlotSteps ==
  ASSUME DiscoveryInv, SlotInv, [Next]_vars
  PROVE  SlotInv'
<1>1. ASSUME NEW n \in Index, NEW kind \in Kinds, Link(n, kind)
      PROVE  SlotInv'
  <2> DEFINE counted == InTable(n) /\ kind = "up"
  <2>1. /\ \A s \in Slots : if_array'[s].active <=>
                              if_array[s].active \/ (counted /\ s = n - 2)
        /\ g_interface_size' =
             IF counted THEN g_interface_size + 1 ELSE g_interface_size
    BY <1>1, LinkEffect DEF DiscoveryInv
  <2>2. n \in Nat /\ MAX_INTERFACE_SIZE \in Nat
    BY SizeAssumption DEF Index
  <2>3. counted => n >= 2 /\ n < MAX_INTERFACE_SIZE
    BY <2>2 DEF InTable
  <2> HIDE DEF counted
  <2>4. \A s \in Slots : if_array'[s].active => s + 2 < MAX_INTERFACE_SIZE
    <3> SUFFICES ASSUME NEW s \in Slots, if_array'[s].active
                 PROVE  s + 2 < MAX_INTERFACE_SIZE
      OBVIOUS
    <3>1. CASE if_array[s].active
      BY <3>1 DEF SlotInv, ActiveSlots
    <3>2. CASE counted /\ s = n - 2
      BY <2>2, <2>3, <3>2
    <3> QED BY <2>1, <3>1, <3>2
  <2>5. g_interface_size' > 0 => MAX_INTERFACE_SIZE >= 3
    BY <2>1, <2>2, <2>3 DEF SlotInv
  <2> QED BY <2>4, <2>5 DEF SlotInv, ActiveSlots
<1>2. CASE UNCHANGED <<if_array, g_interface_size>>
  BY <1>2 DEF SlotInv, ActiveSlots
<1>3. CASE DumpLink
  <2>1. cursor \in Index /\ links[cursor] \in Kinds
    BY <1>3, SizeAssumption DEF DumpLink, DiscoveryInv, TypeOK, Index
  <2> QED BY <1>1, <1>2, <1>3, <2>1 DEF DumpLink
<1>4. CASE \E n \in Index : LinkEvent(n)
  <2>1. PICK n \in Index : LinkEvent(n)
    BY <1>4
  <2>2. links'[n] \in Kinds
    BY <2>1, ToldKinds DEF DiscoveryInv
  <2> QED BY <1>1, <2>1, <2>2 DEF LinkEvent
<1>5. CASE DumpDone \/ CallFails \/ DumpError \/ UNCHANGED vars
  BY <1>2, <1>5 DEF DumpDone, CallFails, DumpError, vars
<1> QED BY <1>3, <1>4, <1>5 DEF Next

-----------------------------------------------------------------------------
(* Before init_module there is nothing to be wrong. *)
LEMMA StartupBegins == StartupInit => StartupInv
<1> SUFFICES ASSUME StartupInit PROVE StartupInv
  OBVIOUS
<1>1. DiscoveryInv
  BY Begins DEF StartupInit
<1>2. ActiveSlots = {} /\ pc = "dump" /\ g_interface_size = 0
  BY DEF StartupInit, Init, ActiveSlots
<1>3. SlotInv /\ NotYet
  BY <1>2 DEF SlotInv, NotYet
<1>4. stage \in Stages
  BY DEF StartupInit, Stages
<1>5. Passed = {}
  BY DEF Passed, StartupInit
<1>6. ReadyInv
  BY <1>5 DEF StartupInit, ReadyInv, Prepared
<1>7. ThreadInv
  BY DEF StartupInit, ThreadInv
<1>8. BestInv
  BY Candidates DEF StartupInit, BestInv
<1> QED BY <1>1, <1>3, <1>4, <1>6, <1>7, <1>8 DEF StartupInv

(* A step that is none of Discovery's and none of a loop leaves what those *)
(* have done.                                                              *)
LEMMA Kept ==
  ASSUME StartupInv, UNCHANGED <<vars, ready>>
  PROVE  /\ ActiveSlots' = ActiveSlots /\ Counted' = Counted
         /\ \A loops : Prepared(loops) => Prepared(loops)'
BY DEF vars, ActiveSlots, Counted, Prepared

(* One loop of init_module done. *)
LEMMA LoopSteps ==
  ASSUME StartupInv,
         NEW loop \in Loops, NEW indices \in SUBSET Counted, NEW next \in Stages,
         InitLoop(loop, indices, next),
         next \notin Before \cup {"get_all_interfaces_info", "main"},
         loop \in Needed => Counted \cap Slots \subseteq indices,
         Passed' \subseteq Passed \cup ({loop} \cap Needed)
  PROVE  stage' \in Stages /\ NotYet' /\ ReadyInv' /\ ThreadInv' /\ BestInv'
<1>1. /\ stage = loop /\ stage' = next
      /\ ready' = [ready EXCEPT ![loop] = indices]
      /\ UNCHANGED <<vars, config, best, threads>>
  BY DEF InitLoop
<1>2. Counted' = Counted /\ Counted \subseteq Nat
  BY <1>1 DEF vars, Counted, StartupInv, DiscoveryInv, TypeOK
<1>3. loop \notin Before \cup {"get_all_interfaces_info", "main"}
  BY DEF Loops, Before
<1>4. NotYet' /\ ThreadInv' /\ BestInv'
  <2>1. stage # "main" /\ stage' # "main" /\ stage' \notin Before
        /\ stage' # "read_hostconfig_file"
    BY <1>1, <1>3 DEF Before
  <2>2. NotYet'
    BY <2>1 DEF NotYet
  <2>3. ThreadInv'
    BY <1>1, <1>2, <2>1 DEF StartupInv, ThreadInv
  <2>4. BestInv'
    BY <1>1, <2>1 DEF StartupInv, BestInv, nmax
  <2> QED BY <2>2, <2>3, <2>4
<1>5. ready \in [Loops -> SUBSET Nat]
      /\ \A other \in Loops : ready[other] \subseteq Counted
  BY DEF StartupInv, ReadyInv
<1>6. /\ ready' \in [Loops -> SUBSET Nat]
      /\ ready'[loop] = indices
      /\ \A other \in Loops : other # loop => ready'[other] = ready[other]
  BY <1>1, <1>2, <1>5
<1>7. \A other \in Loops : ready'[other] \subseteq Counted'
  BY <1>2, <1>5, <1>6
<1>8. Prepared(Passed)'
  <2> SUFFICES ASSUME NEW other \in Passed'
               PROVE  Counted \cap Slots \subseteq ready'[other]
    BY <1>2 DEF Prepared
  <2>1. other \in Needed /\ other \in Loops
    BY DEF Passed, Needed
  <2>2. CASE other = loop
    BY <1>6, <2>1, <2>2
  <2>3. CASE other # loop
    <3>1. other \in Passed
      BY <2>3
    <3>2. Counted \cap Slots \subseteq ready[other]
      BY <3>1 DEF StartupInv, ReadyInv, Prepared
    <3> QED BY <1>6, <2>1, <2>3, <3>2
  <2> QED BY <2>2, <2>3
<1> QED BY <1>1, <1>3, <1>4, <1>6, <1>7, <1>8 DEF ReadyInv

(* Every step of init_module and of main keeps the invariant. *)
LEMMA StartupSteps == StartupInv /\ [StartupNext]_startupVars => StartupInv'
<1> SUFFICES ASSUME StartupInv, [StartupNext]_startupVars PROVE StartupInv'
  OBVIOUS
<1>1. [Next]_vars
  BY AsDiscovery DEF StartupInv
<1>2. DiscoveryInv' /\ SlotInv'
  BY <1>1, Steps, SlotSteps DEF StartupInv
<1> SUFFICES stage' \in Stages /\ NotYet' /\ ReadyInv' /\ ThreadInv' /\ BestInv'
  BY <1>2 DEF StartupInv
<1>3. g_interface_size \in Nat
  BY DEF StartupInv, DiscoveryInv, TypeOK
<1>4. CASE ReadHostconfigFile
  <2>1. /\ stage = "read_hostconfig_file" /\ stage' = "fopen"
        /\ config' \in Configs \cup {NoConfig}
        /\ UNCHANGED <<vars, ready, best, threads>>
    BY <1>4 DEF ReadHostconfigFile
  <2>2. ActiveSlots' = ActiveSlots /\ Counted' = Counted /\ pc' = pc
    BY <2>1, Kept DEF vars
  <2>3. Passed' = {}
    BY <2>1 DEF Passed
  <2>4. BestInv'
    BY <2>1, Candidates DEF StartupInv, BestInv
  <2> QED
    BY <2>1, <2>2, <2>3, <2>4
    DEF StartupInv, Stages, NotYet, Before, ReadyInv, Prepared, ThreadInv
<1>5. CASE OpenLog \/ OpenLogFails \/ NetlinkOpen
  <2>1. /\ stage \in Before
        /\ stage' \in {"tc_netlink_open", "get_all_interfaces_info", "main"}
        /\ UNCHANGED <<vars, config, ready, best, threads>>
    BY <1>5 DEF OpenLog, OpenLogFails, NetlinkOpen, Before
  <2>2. ActiveSlots' = ActiveSlots /\ Counted' = Counted /\ pc' = pc
    BY <2>1, Kept DEF vars
  <2>3. Passed' = {}
    BY <2>1 DEF Passed
  <2>4. BestInv'
    BY <2>1 DEF StartupInv, BestInv, nmax
  <2>5. ActiveSlots = {} /\ threads = {}
    BY <2>1 DEF StartupInv, NotYet, ThreadInv, Before
  <2>6. ReadyInv'
    BY <2>1, <2>2, <2>3, <2>5 DEF StartupInv, ReadyInv, Prepared, Before
  <2> QED
    BY <2>1, <2>2, <2>4, <2>5, <2>6
    DEF StartupInv, Stages, NotYet, Before, ThreadInv
<1>6. CASE NetlinkOpenFails \/ DiscoveryStep
  <2>1. /\ stage \in {"tc_netlink_open", "get_all_interfaces_info"}
        /\ stage' = "get_all_interfaces_info"
        /\ UNCHANGED <<config, ready, best, threads>>
    BY <1>6 DEF NetlinkOpenFails, DiscoveryStep
  <2>2. \A loop \in Loops : ready[loop] = {}
    BY <2>1 DEF StartupInv, ReadyInv, Before
  <2>3. Passed' = {}
    BY <2>1 DEF Passed
  <2>4. ReadyInv'
    BY <2>1, <2>2, <2>3 DEF StartupInv, ReadyInv, Prepared
  <2>5. BestInv'
    BY <2>1 DEF StartupInv, BestInv, nmax
  <2>6. threads = {}
    BY <2>1 DEF StartupInv, ThreadInv
  <2> QED
    BY <2>1, <2>4, <2>5, <2>6 DEF Stages, NotYet, Before, ThreadInv
<1>7. CASE DiscoveryReturns
  <2>1. /\ stage = "get_all_interfaces_info" /\ stage' = "init_if_array"
        /\ UNCHANGED <<vars, config, ready, best, threads>>
    BY <1>7 DEF DiscoveryReturns
  <2>2. Counted' = Counted
    BY <2>1, Kept
  <2>3. Passed' = {}
    BY <2>1 DEF Passed
  <2>4. BestInv'
    BY <2>1 DEF StartupInv, BestInv, nmax
  <2> QED
    BY <2>1, <2>2, <2>3, <2>4
    DEF StartupInv, Stages, Loops, NotYet, Before, ReadyInv, Prepared, ThreadInv
<1>8. CASE InitIfArray
  <2>1. Passed' \subseteq Passed \cup {"init_if_array"}
    BY <1>8 DEF InitIfArray, InitLoop, Passed
  <2> QED
    BY <1>8, <2>1, LoopSteps DEF InitIfArray, Loops, Stages, Needed, Before
<1>9. CASE InitSampledStruct
  <2>1. Passed' \subseteq Passed \cup {"init_interface_sampled_struct"}
    BY <1>9 DEF InitSampledStruct, InitLoop, Passed
  <2> QED
    BY <1>9, <2>1, LoopSteps
    DEF InitSampledStruct, Loops, Stages, Needed, Before
<1>10. CASE InitSampledParam
  <2>1. Passed' \subseteq Passed \cup {"init_interface_sampled_param"}
    BY <1>10 DEF InitSampledParam, InitLoop, Passed, Needed, Loops
  <2> QED
    BY <1>10, <2>1, LoopSteps
    DEF InitSampledParam, Loops, Stages, Needed, Before
<1>11. CASE InitTcSysList
  <2>1. Passed' \subseteq Passed \cup {"init_tc_sys_list"}
    BY <1>11 DEF InitTcSysList, InitLoop, Passed
  <2> QED
    BY <1>11, <2>1, LoopSteps DEF InitTcSysList, Loops, Stages, Needed, Before
<1>12. CASE InitQueueArray
  <2>1. PICK n \in 0 .. g_interface_size :
          InitLoop("init_queue_array", 0 .. n - 1, "get_best_sampled_count")
    BY <1>12 DEF InitQueueArray
  <2>2. 0 .. n - 1 \in SUBSET Counted
    BY <1>3 DEF Counted
  <2>3. Passed' \subseteq Passed
    BY <2>1 DEF InitLoop, Passed
  <2> QED BY <2>1, <2>2, <2>3, LoopSteps DEF Loops, Stages, Needed, Before
<1>13. CASE GetBestSampledCount
  <2>1. /\ stage = "get_best_sampled_count" /\ stage' = "main"
        /\ best' = IF nmax(config) < get_n(config.p) THEN nmax(config)
                   ELSE get_n(config.p)
        /\ UNCHANGED <<vars, config, ready, threads>>
    BY <1>13 DEF GetBestSampledCount
  <2>2. Counted' = Counted
    BY <2>1, Kept
  <2>3. Passed = Needed /\ Passed' = {}
    BY <2>1 DEF Passed
  <2>4. Prepared(Needed)'
    BY <2>1, <2>2, <2>3 DEF StartupInv, ReadyInv, Prepared
  <2>5. BestInv'
    <3>1. nmax(config) \in Nat /\ get_n(config.p) \in Nat
      BY Candidates DEF StartupInv, BestInv
    <3>2. best' \in 0 .. nmax(config)
      BY <2>1, <3>1
    <3>3. nmax(config)' = nmax(config)
      BY <2>1 DEF nmax
    <3> QED BY <2>1, <3>2, <3>3 DEF StartupInv, BestInv
  <2>6. ReadyInv'
    BY <2>1, <2>2, <2>3, <2>4 DEF StartupInv, ReadyInv, Prepared, Before
  <2> QED
    BY <2>1, <2>2, <2>5, <2>6 DEF StartupInv, Stages, NotYet, Before, ThreadInv
<1>14. CASE CreateFirst \/ \E t \in threads : CreateNext(t)
  <2>1. /\ UNCHANGED <<vars, stage, config, ready, best>>
        /\ threads' \subseteq {0} \cup Counted
        /\ stage = "main"
    <3>1. CASE CreateFirst
      BY <3>1 DEF CreateFirst
    <3>2. CASE \E t \in threads : CreateNext(t)
      <4>1. PICK t \in threads : CreateNext(t)
        BY <3>2
      <4>2. t \in Nat /\ t + 1 \in Counted
        BY <1>3, <4>1 DEF CreateNext, StartupInv, ThreadInv, Counted
      <4> QED BY <4>1, <4>2 DEF CreateNext, StartupInv, ThreadInv
    <3> QED BY <1>14, <3>1, <3>2
  <2>2. ActiveSlots' = ActiveSlots /\ Counted' = Counted /\ pc' = pc
    BY <2>1, Kept DEF vars
  <2>3. Passed' = Passed /\ BestInv'
    BY <2>1 DEF StartupInv, BestInv, nmax, Passed
  <2> QED
    BY <2>1, <2>2, <2>3
    DEF StartupInv, NotYet, ReadyInv, Prepared, ThreadInv
<1>15. CASE UNCHANGED startupVars
  <2>1. UNCHANGED <<vars, stage, config, ready, best, threads>>
    BY <1>15 DEF startupVars
  <2>2. ActiveSlots' = ActiveSlots /\ Counted' = Counted /\ pc' = pc
    BY <2>1, Kept DEF vars
  <2>3. Passed' = Passed /\ BestInv'
    BY <2>1 DEF StartupInv, BestInv, nmax, Passed
  <2> QED
    BY <2>1, <2>2, <2>3
    DEF StartupInv, NotYet, ReadyInv, Prepared, ThreadInv
<1> QED
  BY <1>4, <1>5, <1>6, <1>7, <1>8, <1>9, <1>10, <1>11, <1>12, <1>13, <1>14,
     <1>15
  DEF StartupNext

(* So it always holds. *)
LEMMA StartupAlways == StartupSpec => []StartupInv
BY StartupBegins, StartupSteps, PTL DEF StartupSpec

-----------------------------------------------------------------------------
(* What is proved of get_all_interfaces_info holds where init_module calls *)
(* it, after a socket that could not be opened included.                   *)
THEOREM StartupDiscovers == StartupSpec => Spec
<1>1. StartupInit => Init
  BY DEF StartupInit
<1>2. StartupInv /\ [StartupNext]_startupVars => [Next]_vars
  BY AsDiscovery DEF StartupInv
<1> QED BY <1>1, <1>2, StartupAlways, PTL DEF StartupSpec, Spec

(* Types of what init_module leaves in the global variables.               *)
THEOREM StartupTypeCorrect == StartupSpec => []StartupTypeOK
<1>1. StartupInv => StartupTypeOK
  <2> SUFFICES ASSUME StartupInv PROVE StartupTypeOK
    OBVIOUS
  <2>1. TypeOK /\ stage \in Stages /\ ready \in [Loops -> SUBSET Nat]
        /\ config \in Configs \cup {NoConfig}
    BY DEF StartupInv, DiscoveryInv, ReadyInv, BestInv
  <2>2. best \in Int
    BY Candidates DEF StartupInv, BestInv
  <2>3. threads \subseteq Nat
    BY <2>1 DEF StartupInv, ThreadInv, Counted, TypeOK
  <2> QED BY <2>1, <2>2, <2>3 DEF StartupTypeOK
<1> QED BY <1>1, StartupAlways, PTL

(* A configuration that lacks fields, or could not be read, costs the      *)
(* sampling and nothing else: the number of packets to sample is a count,  *)
(* which is Estimator's BestAssumption (get_best_sampled_count).           *)
THEOREM BestIsCount == StartupSpec => []BestWithinCapacity
<1>1. StartupInv => BestWithinCapacity
  BY DEF StartupInv, BestInv, BestWithinCapacity
<1> QED BY <1>1, StartupAlways, PTL

(* A thread that captures does so on an interface whose table, lists and   *)
(* structs are initialised, whichever step of init_module failed.          *)
THEOREM CapturesInitialised == StartupSpec => []CapturesOnlyInitialised
<1>1. StartupInv => CapturesOnlyInitialised
  <2> SUFFICES ASSUME StartupInv, NEW t \in threads, Captures(t),
                      NEW loop \in Needed
               PROVE  t \in ready[loop]
    BY DEF CapturesOnlyInitialised, Needed
  <2>1. t \in Slots /\ t \in ActiveSlots /\ stage = "main"
    BY DEF Captures, ActiveSlots, StartupInv, ThreadInv
  <2>2. Prepared(Needed)
    BY <2>1 DEF StartupInv, ReadyInv
  <2>3. t \in Counted
    <3>1. ActiveSlots \in SUBSET Slots
      BY DEF ActiveSlots
    <3>2. IsFiniteSet(ActiveSlots) /\ Cardinality(ActiveSlots) \in Nat
      BY <3>1, SlotsFinite
    <3>3. Cardinality(ActiveSlots) # 0
      BY <2>1, <3>2, FS_EmptySet
    <3>4. g_interface_size \in Nat /\ g_interface_size > 0
      BY <3>2, <3>3 DEF StartupInv, DiscoveryInv, CountInv, TypeOK
    <3> QED BY <3>4 DEF StartupInv, ThreadInv, Counted
  <2> QED BY <2>1, <2>2, <2>3 DEF Prepared
<1> QED BY <1>1, StartupAlways, PTL

(* With two notifications or fewer during the dump, no loop over           *)
(* g_interface_size leaves its array (init_module.c:710).                  *)
THEOREM LoopsInside == StartupSpec => []LoopsStayInside
<1>1. StartupInv => LoopsStayInside
  <2> SUFFICES ASSUME StartupInv, events <= 2
               PROVE  /\ \A loop \in Loops : ready[loop] \subseteq Slots
                      /\ threads \subseteq Slots
    BY DEF LoopsStayInside
  <2>1. g_interface_size \in Nat /\ events \in Nat
        /\ MAX_INTERFACE_SIZE \in Nat \ {0}
    BY SizeAssumption, EventAssumption DEF StartupInv, DiscoveryInv, TypeOK
  <2>2. CASE g_interface_size = 0
    BY <2>1, <2>2 DEF StartupInv, ReadyInv, ThreadInv, Counted, Slots
  <2>3. CASE g_interface_size > 0
    <3>1. MAX_INTERFACE_SIZE >= 3
      BY <2>3 DEF StartupInv, SlotInv
    <3>2. ActiveSlots \subseteq 0 .. MAX_INTERFACE_SIZE - 3
      BY <2>1 DEF StartupInv, SlotInv, ActiveSlots, Slots
    <3>3. /\ IsFiniteSet(0 .. MAX_INTERFACE_SIZE - 3)
          /\ Cardinality(0 .. MAX_INTERFACE_SIZE - 3) = MAX_INTERFACE_SIZE - 2
      BY <2>1, <3>1, FS_Interval
    <3>4. /\ Cardinality(ActiveSlots) <= MAX_INTERFACE_SIZE - 2
          /\ Cardinality(ActiveSlots) \in Nat
      <4>1. ActiveSlots \in SUBSET Slots
        BY DEF ActiveSlots
      <4>2. Cardinality(ActiveSlots) <= Cardinality(0 .. MAX_INTERFACE_SIZE - 3)
        BY <3>2, <3>3, FS_Subset
      <4> QED BY <3>3, <4>1, <4>2, SlotsFinite
    <3>5. Cardinality(Undumped) \in Nat
      <4>1. Undumped \in SUBSET Slots
        BY DEF Undumped, ActiveSlots
      <4> QED BY <4>1, SlotsFinite
    <3>6. g_interface_size <= MAX_INTERFACE_SIZE
      BY <2>1, <3>4, <3>5 DEF StartupInv, DiscoveryInv, CountInv
    <3>7. Counted \subseteq Slots
      BY <2>1, <3>6 DEF Counted, Slots
    <3> QED
      BY <2>1, <3>7 DEF StartupInv, ReadyInv, ThreadInv, Slots
  <2> QED BY <2>1, <2>2, <2>3
<1> QED BY <1>1, StartupAlways, PTL
=============================================================================
