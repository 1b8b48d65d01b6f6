# traffic_control in TLA+

A verification development for the traffic monitor in this repository
(`src/src`, `src/include`): one process that captures packets on every network
card, samples them, sums them up as flows, and once per block sends a report of
the flows of each card to a server, the PMA agent.

Paths below are relative to the repository's own `src/` directory (`main.c` is
`src/src/main.c` in PROJECT.json).

## The system

| Component | Code | State it keeps | Operations |
|---|---|---|---|
| threads and handshake | `main.c`, `pthread/pthread_cond_wait.c` | `mutex`, `value`, `cond`, `cond_pro`, the local `i` of each thread | `main`, `collect_traffic_info_func` (producer), `thread_statistics_operation` (consumer), `producer_notify_consumer`, `consumer_wait`, `consumer_notify_producer` |
| startup | `init/init_module.c`, `util/util.c` | `g_host_config`, `system_best_sampled_n`, everything the others start from | `init_module`, `read_hostconfig_file`, the five `init_` loops, `get_best_sampled_count` |
| discovery | `util/util.c`, `init_module` | `if_array[]`, `g_interface_size` | `tc_netlink_open`, `get_all_interfaces_info`, `get_device_stats` |
| capture | `collect/raw_socket.c`, `collect/get_ethernet2_code.c` | a raw socket, two times, per call | `collect_information`, `capture_netlink_data`, `get_diff_time` |
| flow tables | `init/init_module.c`, `policy/policy.c`, `analysis/analysis.c`, `include/list.h` | `if_array[i].element`, `ipv4_head_in[i]`, `ipv4_head_out[i]` | `analysis_module`, `ipv4_operate/search/add/update`, `get_system_memory`, `ipv4_policy_compare` |
| estimator | `analysis/analysis.c` | `interface_sampled_struct[i]`, `queue_array[i]` | `decide_sampled_packets`, `cal_interface_sampled_rate`, `AR_compute`, `regression_analysis` |
| ring buffer | `util/queue.c` | a `MyQueue` | `enQueue`, `DeQueue`, `GetQueueFront/Last/Elem/Num`, `isQueueEmpty/Full` |
| statistics | `analysis/statistics.c` | none of its own; writes `if_in`, `if_out` of flows | `one_interface_statistics_module`, `cal_flow_in_out_interface` |
| report | `xml/xml.c` | none | `one_interface_pack_flow_info_xml_buff`, `op_interface_struct`, `packet_xml_flow_info` |
| transport | `comm/comm.c` | a TCP socket per message | `send_data`, `packet_send_buff`, `client_send` |

How they interact. `init_module` reads the configuration, runs discovery once
and sets up the tables and queues; it reports no failure of any of that. `main` creates producer 0 and the consumer; each producer creates the
next. A producer calls `collect_information`, which captures for
`captured_time` and for each frame calls the Ethernet filter and
`analysis_module`: the estimator's counters and draw, then the flow table of
that interface. Then it hands in its block (`producer_notify_consumer`) and
sleeps. When all have, the consumer reports interface after interface
(`one_interface_statistics_module`: join, pack, send), then in a second loop
clears each table, computes the next rate from the packet count, clears the
counters and the lists, and wakes all producers.

What is hard here:

* concurrency: the flow tables have no lock. Only the handshake keeps the
  consumer's `memset` apart from the producers, and its one signal must not be
  missed; thread arguments are addresses of locals that go on changing;
* ordering: report all, then reset all; table before list heads, all of it
  while nobody captures;
* history: running sums, a cached index and an estimator window that are
  updated for ever and never recomputed; a pointer into a ring that moves;
* bounds: a full flow table, a full ring, a send buffer, an index of -1;
* time: a block ended by two clocks, one of which can be set back;
* environment: the kernel tells of links while it lists them, calls fail;
* startup: whatever fails there is ignored, and the threads start all the same.

PROJECT.json lists these under `hazards`, each at its line.

Two remarks on the source as it is. `main.c:153` reads `retrun NULL;` after an
endless loop; no execution reaches it, and the models take the loop for
endless. Files ending in `.bak`, `.mul` and `.onelibpcap` are older versions
that the makefile does not build.

## The modules

| Module | Models | What it is |
|---|---|---|
| `Rounds` | the promise of the handshake | abstract: capture and report take turns |
| `Handshake` | `main.c`, `pthread_cond_wait.c` | every thread, one action per mutex acquisition and critical section |
| `HandshakeProofs` | | theorems about `Handshake` |
| `MyQueue` | `queue.c` | the ring as operators |
| `BoundedFifo` | the promise of the ring | abstract: a bounded line |
| `QueueRing` | callers of `queue.c` | any order of calls, and the pointer that `DeQueue` lends |
| `QueueFacts`, `QueueRingProofs` | | lemmas on the operators of the ring and on the sums of `Regression`; theorems about `QueueRing` |
| `Regression` | `regression_analysis` | a pure function and its reference, least squares over all pairs |
| `Sampling` | the promise of the sampling | abstract: two counts and a rate, block by block |
| `Estimator` | `analysis.c` for one interface | packets of a block, end of the block |
| `EstimatorProofs` | | theorems about `Estimator` |
| `Collector` | filter, tables, statistics, packing, sending, reset | on top of `Rounds`, for all interfaces |
| `CollectorProofs` | | theorems about `Collector` |
| `Capture` | `capture_netlink_data` | one producer's blocks against two clocks |
| `FlowInterval` | stamps of a flow, interval in `packet_xml_flow_info` | one flow through the blocks of `Capture` |
| `CaptureProofs` | | theorems about `Capture` and `FlowInterval` |
| `Discovery` | `get_all_interfaces_info` | the dump of the links and what it leaves in `if_array` |
| `DiscoveryProofs` | | theorems about `Discovery` |
| `Startup` | `init_module`, creation of the threads | what is initialised when the threads start; runs `Discovery` |
| `StartupProofs` | | theorems about `Startup` |
| `MCEstimator`, `MCCollector`, `MCStartup` | | sets and symmetry for TLC |

How they fit together. `Handshake` implements `Rounds` (`RoundsSpec`), and
`Collector` instantiates `Rounds` for who works when: it relies on what was
shown of the handshake and not on its details. `QueueRing` implements
`BoundedFifo` (`FifoSpec`), and `Estimator`, by `EXTENDS Regression`, uses the
operators of `MyQueue` for its window. What passes between the sampling and the
tables is `Sampling`, which `Estimator` implements (`SamplingSpec`). `Collector`
writes the two actions of `Sampling` out for every interface, in `Packet` and
`Reset`, with the same choices: any packet may be skipped below the full rate,
and any rate may follow a block. That is read off the two definitions and is no
result of a run; what the run and the proof add is that the estimator never does
anything `Sampling` does not allow. `Capture`
shows that a block ends
(`BlockEnds`), which is the fairness `Handshake` assumes of `FinishCapture`.
`FlowInterval` puts the stamps of a flow on top of it. `Discovery` shows when the
number of threads is the number of cards, which `Handshake` (one producer per
index below `N`) and `Collector` (`Size`, `Active`) start from. `Startup` runs
`Discovery` between the other steps of `init_module`, and shows that what
`Collector` and `Estimator` call `Init` is there before a thread captures, and
that `Best` is the natural number `Estimator` assumes (`BestAssumption`).

### State and actions

`Handshake`. `pc`, `cpc` and `mpc` say where the producers, the consumer and
`main` are; `mutex` and `value` are the globals; `i`, `arg` and `ifIndex` are
the locals of the creation chain. `Lock`, `Arrive`, `Reacquire` and `Unlock` are
`producer_notify_consumer`; `ConsumerLock`, `ConsumerSleep`,
`ConsumerReacquire` and `ConsumerTake` are `consumer_wait`; `NotifyLock` and
`Broadcast` are `consumer_notify_producer`. A critical section up to its unlock
is one action, because everything it touches is touched under the mutex only.
The `sleep(1)` of `main` is not relied on.

`Collector`. `node` is the used part of `if_array[i].element`, `list` the two
lists as sequences of slots, `todo` how far the consumer's two loops are.
`Packet` is a frame from the filter to the end of `analysis_module`;
`Statistics(i)` and `Reset(i)` are one turn of each loop. `wire` is a history
variable: the bytes that were sampled, per interface, direction and key, a
number without bound; `total_send` is a `__u32` in the code and counts modulo
`Word`. `Reset(i)` is one action although the code clears table, counters and
list heads one after the other: nobody searches meanwhile, which is what
`Rounds` promises. `inbox` is read by no other step, as nothing in the program
depends on what became of a report that was sent. The
memory in front of `if_array` and the content of an unfilled send buffer are
the constants `BeforeArray` and `Garbage`.

`Estimator`. `q`, `sum_x` and `sum_y` are the queue and its sums;
`out_sampled_rate` is a fraction; `upto` is the history of the packet counts.
The draw `rand() % 10` is `\E draw \in 0 .. 9`. The unset `next_m` is any value
of `Uninitialised`. The doubles of the regression are exact fractions, and so is
the `float` rate whose tenfold is cut to an index.

`Capture`. `clock` is the time `select` counts, `set_back` what `gettimeofday`
has lost against it; `difftime`, `sockets` are the code's; `failed` and
`errors` are history variables.

`FlowInterval`. `start` and `end` are the stamps of the flow, `started` where in
a second of the wall clock the block began, `first` and `last` the true times.
`FlowPacket` is a packet of the flow, with `ipv4_add` or `ipv4_update`;
`NextRound` is the `memset` of the consumer and the next block.

`Startup`. `stage` is the statement of `init_module` that comes next, `ready`
the indices each of the five loops has initialised, `best` is
`system_best_sampled_n`. A call that may fail has an action that fails. `threads`
are the ones created, `CreateNext` by the one before. Of the configuration the
fields that are computed with are kept; `a` and `p` are fractions.

`Discovery`. `links` are the kernel's, `cursor` the dump's place in them;
`if_array` keeps `ifindex`, `active` and whether statistics were stored. The
three calls of a message's attributes (name, address, statistics) are one
action, since nothing happens between them. `LinkEvent` is any notification of a
link: a card says that it is up or down, whether that is new or not, another link
says something of itself, or a new link appears.

Definitions that begin with a comment "A mutant of ..." are not part of the
models. Each is a definition with a plausible slip, kept next to the correct
one to show that a property notices it; no specification uses them.

## The runs

| Run | Instance | Shows |
|---|---|---|
| `handshake` | 4 producers, no faults | `AllParkedDuringReport`, `ValueCountsParked`, `SomeoneGoesOn`; `RoundsSpec`, liveness included; `EveryBlockIsReported` |
| `handshake_faults` | 3 producers, spurious wake-ups while `value < 5`, `pthread_create` may fail | what still holds: `NoSleepOnFullCount`, `OneProducerPerInterface` |
| `spurious_wakeup` | 2 producers | counterexample to `NobodyCapturesDuringReport` |
| `queue_ring` | 5 slots, 2 values | `FillAgrees`, `LentSlotIntact`, `FifoSpec` |
| `estimator` | 5 slots, counts 0..3, 6 blocks, `Best` 2 | `QueueHoldsLastBlocks`, `SumsAreWindows`, `IndexFresh`, `SampledFitsRate`, `DrawCoversRate`, `AffineLoadPredicted`, `SamplingSpec` |
| `regression` | 5 slots, 4 blocks | counterexample to `EstimateIsLeastSquares` |
| `collector` | 2 interfaces, 2 keys, tables of 2 flows, 3 packets per interface and round, `Word` 3 | `ListsCoverTable`, `FlowsWhole`, `ReportsAreTrue`, `RateNeverZero`, `InputIsAReceiver` |
| `unknown_input` | 1 of 2 interfaces active | counterexample to `NoInputIsMinusOne` |
| `long_report` | reports of up to 3 flows, buffer for 2 | counterexample to `AgentGetsReports` |
| `capture` | `captured_time` 2.5 s, clock set back up to 2 ticks, 1 error, 2 failed blocks (module `FlowInterval`) | `BlockBounded`, `SocketsAccounted`, `ShortOnlyIfIdle`, `BlockEnds`; `IntervalOfThisBlock` |
| `discovery` | 5 links of every kind, a table of 5 slots of which 3 can be used, 2 notifications, any call may fail (module `Startup`) | `CountFitsSlots`, `EveryCardServed`, `StatsOfThreads`; `CapturesOnlyInitialised`, `LoopsStayInside`, `BestWithinCapacity`, `StartsOrBlocks` |
| `thread_per_card` | 4 links, no notification | counterexample to `ThreadPerCard` |

Each passing run checks the type invariant of its module too
(`handshake_faults` leaves it to `handshake` and the proof). `capture` and
`discovery` run the larger module, and check the properties of the smaller one
on it: `FlowInterval` and `Startup` only add to what `Capture` and `Discovery` do
(`BlocksOfFlows`, `StartupDiscovers`).

Why the bounds are enough to be of interest:

* `handshake`: with four producers there are first, last and middle ones, and
  any of them can be ahead by a round while others have not yet left the last;
  rounds are not bounded.
* `handshake_faults`: `ValueBound` only stops new spurious wake-ups; `value` can
  pass `N` and come back, which is the case that breaks the turn taking.
* `queue_ring`: five slots wrap around within any six puts, and every fill
  occurs at every offset; calls are not bounded.
* `estimator`: the window is full after four blocks, so two more blocks take
  the branch that drops an element and wrap the ring. A full window with all
  zero, equal, rising and falling counts occurs. `Best` 2 against counts of 3
  gives rates below 1. `Uninitialised` contains the error value -1, an estimate
  above `Best` and a larger one.
* `collector`: tables of two flows are filled by three packets of two keys and
  two directions, so a dropped flow, a later packet of it, and a full table
  next to one that is not all occur, over any number of rounds. `Word` is 3, so
  that three packets of one flow bring `total_send` back to zero. A frame may
  carry both the source and the destination address of an interface.
* `capture`: `captured_time` is not a multiple of the second, so timeout and
  `captured_time` differ; gaps of every length up to the timeout occur. A second
  has two ticks and a block may begin at either, so two stamps a tick apart are
  of one second or of two; the two ticks the clock may be set back are a second.
* `discovery`: links that are up, down, no card, `tap0` or absent at each
  index, one index beyond the table; two notifications are what the two unused slots
  make good for. The configurations are the two of the repository and an
  unreadable one, so that `nmax * a` and the number from `p` are each the smaller
  one somewhere.

`CHECK_DEADLOCK FALSE` stands where the system really stops: a failed
`pthread_create` leaves threads waiting or ends the process
(`handshake_faults`), `Discovery` is a function that returns, `Startup` ends when
the threads are there, and `Estimator` stops at its bound `MaxBlocks`.

### Fairness

`Handshake` asks weak fairness of each step of each thread: a thread that can go
on does so sooner or later, and a thread that waits for a mutex that stays free
gets it. Strong fairness of the mutex is not assumed, since pthread mutexes do
not promise it: in a round nobody takes the mutex more than a few times, so the
mutex becomes free for good until the waiting thread has taken it. Two
assumptions come from elsewhere: that a capture ends (`FinishCapture`) is
`BlockEnds` of `Capture`; that a report ends (`FinishReport`) is left to the
kernel: `client_send` sets no timeout, but what it writes is at most 20000 bytes,
which the socket's buffer takes without the reader, and `connect` gives up by
itself. The last conjunct says that the consumer's spurious wake-ups come to an end.

`Capture` asks that time passes, that `select` returns when its time is up, and
that the thread goes on. That packets arrive is not assumed, nor that they stop:
a block ends either way.

`Startup` asks that `init_module` goes on and that the threads that were created
run (`Progress`), in which calls succeed; failures are allowed and not assumed.
Notifications may come between any two steps of the dump, but they are bounded
and cannot hold it up. `StartsOrBlocks` says that the program starts with every
thread it counted unless the kernel answers the dump with an error, after which
`get_all_interfaces_info` waits for good.

`Collector`, `Estimator` and `Discovery` have safety properties only.

### What the counterexamples say

Each stands under `findings` with the line it is about: the unguarded wait on
`cond_pro`; the regression loop that leaves out the newest pair; `if_array[-1]`
as the input interface of a locally sent flow; the ignored refusal of
`packet_send_buff`; and threads counted by card but numbered by link. A sixth
finding, the return value of `enQueue`, is a comment that the code contradicts
and has no run.

## The proofs

All are checked by TLAPS for every value of the constants, under the `ASSUME`s
of the module (which TLC evaluates on its instances).

`HandshakeProofs`, for any `N > 0`:

* `TypeCorrect`, and `Inductive`, `InterfaceEach`, `NoLostSignal` with all
  faults allowed. `IndInv` is `ChainInv /\ MutexInv`. `ChainInv` is needed
  because "each producer works on its own slot" is not inductive: it rests on
  the thread that has not yet read its argument being the last of the chain, so
  that its creator's `i` cannot have moved on. `MutexInv` says who holds the
  mutex in which critical section.
* `Exclusive` and `Accounting` assume `~SpuriousProducers`: the counterexample of
  `spurious_wakeup` shows that they need it. Neither is inductive alone:
  `RoundInv` is their conjunction, since the consumer leaves its loop on the
  count and only the count being that of the parked makes all of them parked.
  `ParkedFacts` has the step from the cardinality to the set.
* `NeverStuck` assumes only that no `pthread_create` fails: there is always a
  thread that goes on by itself (`SomeoneGoesOn`). TLC's own search for deadlocks
  would not do, since the consumer may always wake up for no reason, and that step
  hides a lost signal; `SomeoneGoesOn` does not count it. The argument supposes
  that nobody gets on. Then the mutex is free and no producer is on its way, so
  all that exist are parked. All exist: `Created` says that each but the last
  created one has made the next, and the least one missing would have a creator
  that is not on its way (`SomeoneCreates`). And the consumer is asleep, on a
  count below `N`, by `NoLostSignal`. But `CountCovers` says that outside a report
  `value` is at least the number of the parked. That holds even with spurious
  wake-ups of producers, where the equality of `ValueCountsParked` does not.
* `Refinement` assumes in addition that no `pthread_create` fails, and shows
  that `SafeSpec` implements the safety part of `Rounds`, step by step.

`QueueRingProofs`, for any `MaxSize >= 2`: `TypeCorrect`, `FillRecordsAgree`,
`LentSlotSafe`, `RingIsFifo`. `RingInv` adds to the type that the two records of the fill agree
(`Fill`, free of `%`, which the solver handles better), that the slots in use
hold elements, and that a slot just lent lies right behind `front`.
`QueueFacts` has the lemmas about the modular arithmetic and what `enQueue`
and `DeQueue` do to the fill and to the element at each place. Its second part
is about the sums in `Regression`, which are folds over a set of pairs. A fold is
there any function that solves the equation of the fold on all subsets (`Adds`):
such a function exists and its values are what a sum of whole numbers should be
(`TotalType`, `TotalScales`, `TotalAdds`). An induction over data stands as one
about a set: the subsets, or numbers, for which a claim fails have a smallest
member, by a theorem on well-founded orders, and that one leads to a
contradiction.

`EstimatorProofs`, for any window and number of blocks: `QueueWindow`,
`RunningSums`, `FullRateSamplesAll`. `WindowInv` has the fill of the ring, the
relation of its elements to the history `upto`, and that of the two sums to
the same history; the history as running totals makes the sum of a window a
difference of two of its elements. `KeepsSampling` is the step by step
refinement of `Sampling`. `IndexNeverStale` and `TypeCorrect` rest on `RateInv`
(the rate is a fraction above zero and at most one, and the index, if known, is
its own), which needs that every estimate is a whole number: `EstimateInv` says
that it is the result of `regression_analysis` on the queue and the sums of this
very moment once the window is full, and 0 or one of the
values of `Uninitialised` before. `DrawAboveRate` follows from `RateInv` and
the division that makes the index: the share of packets that is drawn is above
the rate of the block, by a tenth of all packets at most (`DrawCoversRate`), so
where the estimate is right, `Best` samples or more are to be expected.

Three theorems say what the estimate is worth, and how far the regression loop
that leaves out the newest pair is off:

* `EveryLinePredicted` and `LoadOnLinePredicted` assume `MaxSize >= 4`, a window
  of two pairs or more (the code's `QUEUENUM` is 6). If each count is
  `a * (the one before) + b`, for any whole `a` and `b`, then the estimate is
  the next value of that line, and the one that least squares over all pairs
  gives: on such loads the pair left out costs nothing. The first has all
  coefficients, the second is the property of the run. One pair alone lies on
  many lines, and with it left out nothing remains, hence the assumption. If all
  pairs used are equal there is no slope to compute; the code then returns the
  last count, which is right because the sums force the last pair to be equal
  as well.
* `EstimateOnBestLine` is about any load. `regression_analysis` computes a line
  through the averages of all pairs, and of those lines it is the one with the
  least sum of squares over the pairs but the newest. `LeastSquares`, the
  reference of the finding, is of all lines the one with the least sum of squares
  over all pairs, which is what makes it the regression equation. So the code
  fits what it has seen up to the last pair, but through a point that this pair
  has moved. The proof is that of least squares: sums of products are linear
  (`DotLinear`), the deviations from the averages cancel (`DeviationsCancel`,
  which needs that the sums carried from block to block are those of the
  window), and what is left is a square (`SlopeAlgebra`, `AveragesAreBest`).

`CollectorProofs`, for any number of interfaces, keys, slots and packets:
`TypeCorrect`, `ListsCover`, `FlowsAreWhole`, `RateNonzero`, `ReportsTrue`,
`InputReceived`. None of the invariants is inductive alone:
that a list leads to every slot needs that the search finds the flows that have
one, which needs that no two slots are of one flow, which needs the lists. Their
conjunction is `Table`: each list leads to the slots of its direction (`Led`),
one slot per flow (`Single`), with all its bytes modulo `Word` (`Whole`, by
`WordAdds`), and no flow left out
while there is room (`Kept`). A lemma for each operation shows that it makes one
table of another (`TableAdd`, `TableUpdate`, `TableFull`, `TableSame`,
`TableEmpty`); `SearchFinds` says what the search answers in a table, by the
least element of a set of positions (`Smallest`). `CountsInv` says that where
there is a flow something was sampled, `ReportTypes` that an interface the
consumer has not come to has no report yet. `TrueReport` derives from these what
a report says at the moment it is packed, and it stays true because nothing
touches tables or counts until the first reset.

`CaptureProofs`, for any `captured_time` of a second or more: `Bounded`,
`NoSocketLost`, `OnlySilenceShortens`, and of the stamps `FlowTypeCorrect` and
`IntervalTrue`. `CaptureInv` says that the last packet
or error that sent the thread back to `select` found at most
`captured_time + errors * Timeout + set_back` on the clock. `BlocksOfFlows` makes
every one of these a theorem about `FlowInterval` too. `FlowInv` holds what the
stamps are: the wall clock at the true times, less what it had lost by then, and
the clock loses no more than `set_back` in all.

`DiscoveryProofs`, for any number of links, size of the table and number of
notifications: `TypeCorrect`, `CountIsOfSlots`, `CardsServed`, `StatsServed`. The count is an accumulation
over messages and is not inductive by itself: `CountInv` strengthens it by
`Undumped`, the active slots the dump has yet to come to. Only a notification
can have made them active, and each stands for one double count that the dump
may still make. For the other theorem `DumpInv` says that without notifications
the active slots are those of the dump so far. `StatsInv` does the same for the
statistics: with the cards up in a row from the first index on, the count is the
slot of the next card at each message, which is why none is refused.

`StartupProofs`, for any links, table and configurations: `StartupDiscovers`
makes the theorems of `Discovery` theorems of `Startup`; `StartupTypeCorrect`,
`BestIsCount`, `CapturesInitialised`, `LoopsInside`. The invariant says which
loops have been run at each stage and up to which index; the last theorem takes
`CountIsOfSlots` for the bound on the count.

Only model-checked: liveness, that is `EveryBlockIsReported`, `BlockEnds`,
`StartsOrBlocks` and the fairness part of `RoundsSpec`, since the proof system
does not reason about fairness.

## Not modelled

* The ipv6 operations. `ETHERTYPE_IPV6` is commented out of the filter, so only a
  frame of type IP whose header says version 6 reaches them. They keep nodes
  from `malloc` in lists of their own, which no report contains and no reset
  clears; all producers share the one `ipv6_flow` they copy from. `Collector` has
  such frames as ones that are counted and leave its tables alone. There is
  nothing about these lists that the rest of the program relies on.
* The link and interface reports (`operate_link_info_buff`,
  `interface_info_func`): no live path calls or sends them. `free_module` has no
  caller, since the program runs until it is killed.
* `int` overflow of `get_diff_time` after 2147 s, a wall clock that is set
  forward, and a `captured_time` below a second. The configurations of the
  repository have a `captured_time` of 8 to 60 seconds.
* The text of the report and its rounding; a `write` that takes only a part of a
  message, which counts as lost; the time that `connect` and `write` take.
* The rounding of the doubles in `get_n` and in the regression, and of the `float`
  rate: all are exact fractions. A configured `p` above 1 is excluded (`ConfigAssumption`), as a
  share of packets cannot be.
* The notifications about IPv6 addresses that the netlink socket subscribes to
  as well (`RTMGRP_IPV6_IFADDR`). `get_all_interfaces_info` looks at no message
  type but `NLMSG_DONE` and `NLMSG_ERROR`, so it would read such a message as one
  about a link, with the attributes beginning in the middle of the first of
  its own. What that changes depends on the bytes of an address, and the model
  has notifications about links only.
* Discovery keeps no names and addresses: the filter of `Collector` compares
  interface with frame. A card with a slot but no address has neither.
* An interface without a queue. `init_queue_array` stops at a `QueueCreate` that
  fails (`InitQueueArray` of `Startup`, where `CapturesOnlyInitialised` leaves the
  queues out for that reason); `AR_compute` answers -1 for the queues that are
  missing, and their interfaces sample every packet for good. `Estimator` is one
  that has its queue.
* A failing `pthread_create` is in `Handshake` and not in `Startup`:
  `StartsOrBlocks` supposes that the threads can be created.
* Malloc failures other than those of the queues at startup, and logging.

## Plan

Done: the turn taking of the threads, the ring, the estimator, the flow tables
and reports, the capture of a block with the stamps of its flows, the discovery
of the cards and the startup around it, each with its runs, and the proofs
above, which leave no safety invariant of the passing runs unproved.

Left, by what it would add:

1. A `write` that takes a part of a report, for which the source has no retry:
   what the agent has then is neither the report nor nothing.
2. The lists of the ipv6 operations, should the filter let IPv6 frames through.
