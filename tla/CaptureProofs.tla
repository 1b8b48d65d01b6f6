--------------------------- MODULE CaptureProofs ----------------------------
(***************************************************************************)
(* That a block is bounded, that only silence cuts it short, and that no   *)
(* socket is lost but on the paths that fail: for every captured_time, any *)
(* number of errors and any setting of the wall clock.  And that the flows *)
(* of the block get an interval of the block.                              *)
(***************************************************************************)
EXTENDS FlowInterval, TLAPS

(* Where select started to wait, and how long it has: waiting never lies   *)
(* beyond what BlockBounded leaves after the last timeout.                 *)
WaitBounded ==
    /\ clock <= waiting + Timeout
    /\ waiting <= CapturedTime + errors * Timeout + set_back

CaptureInv == TypeOK /\ WaitBounded /\ SocketsAccounted

(* The timeout handed to select is a length of time. *)
LEMMA TimeoutNat == Timeout \in Nat
<1>1. CapturedTime \div Second \in Nat
  BY TimeAssumption, SMT
<1> QED BY <1>1, TimeAssumption, SMT DEF Timeout

(* One more error is one more timeout. *)
LEMMA OneMore ==
  ASSUME NEW k \in Nat
  PROVE  /\ k * Timeout \in Nat
         /\ (k + 1) * Timeout = k * Timeout + Timeout
         /\ (1 + k) * Timeout = k * Timeout + Timeout
BY TimeoutNat, SMT

(* The invariant holds before the first block. *)
LEMMA Begins == Init => CaptureInv
<1> SUFFICES ASSUME Init PROVE CaptureInv
  OBVIOUS
<1> USE FaultAssumption, TimeAssumption, TimeoutNat DEF Init
<1>1. TypeOK
  BY DEF TypeOK
<1>2. WaitBounded
  BY OneMore DEF WaitBounded
<1>3. SocketsAccounted
  BY DEF SocketsAccounted
<1> QED BY <1>1, <1>2, <1>3 DEF CaptureInv

(* Every step of a block, a clock set back and an error included, keeps    *)
(* it.                                                                     *)
LEMMA Steps == CaptureInv /\ [Next]_vars => CaptureInv'
<1> SUFFICES ASSUME CaptureInv, [Next]_vars PROVE CaptureInv'
  OBVIOUS
<1> USE FaultAssumption, TimeAssumption, TimeoutNat DEF CaptureInv
<1>1. errors \in Nat /\ errors * Timeout \in Nat
  BY OneMore DEF TypeOK
<1>2. CASE Setup \/ SocketFails \/ BindFails
  <2>1. TypeOK' /\ SocketsAccounted'
    BY <1>2 DEF TypeOK, SocketsAccounted, Setup, SocketFails, BindFails, block
  <2>2. WaitBounded'
    BY <1>2 DEF WaitBounded, Setup, SocketFails, BindFails, block
  <2> QED BY <2>1, <2>2
<1>3. CASE Tick \/ SetBack
  <2>1. TypeOK' /\ SocketsAccounted'
    BY <1>3 DEF TypeOK, SocketsAccounted, Tick, SetBack
  <2>2. WaitBounded'
    BY <1>1, <1>3 DEF TypeOK, WaitBounded, Tick, SetBack
  <2> QED BY <2>1, <2>2
<1>4. CASE Packet
  <2>1. TypeOK' /\ SocketsAccounted'
    BY <1>4 DEF TypeOK, SocketsAccounted, Packet, get_diff_time
  <2>2. WaitBounded'
    BY <1>1, <1>4 DEF TypeOK, WaitBounded, Packet, get_diff_time
  <2> QED BY <2>1, <2>2
<1>5. CASE CallFails
  <2>1. TypeOK' /\ SocketsAccounted'
    BY <1>5 DEF TypeOK, SocketsAccounted, CallFails
  <2>2. (errors + 1) * Timeout = errors * Timeout + Timeout
    BY <1>1, OneMore
  <2>3. clock' <= waiting' + Timeout
    BY <1>5 DEF TypeOK, CallFails
  <2>4. errors' * Timeout = errors * Timeout + Timeout
    BY <1>5, <2>2 DEF CallFails
  <2>5. waiting' <= CapturedTime + errors' * Timeout + set_back'
    BY <1>1, <1>5, <2>4 DEF TypeOK, WaitBounded, CallFails
  <2> QED BY <2>1, <2>3, <2>5 DEF WaitBounded
<1>6. CASE Idle
  <2>1. TypeOK' /\ SocketsAccounted'
    BY <1>6 DEF TypeOK, SocketsAccounted, Idle, block
  <2>2. WaitBounded'
    BY <1>6 DEF WaitBounded, Idle, block
  <2> QED BY <2>1, <2>2
<1>7. CASE NextBlock
  <2>1. TypeOK' /\ SocketsAccounted'
    BY <1>7 DEF TypeOK, SocketsAccounted, NextBlock
  <2>2. WaitBounded'
    BY <1>7, OneMore DEF WaitBounded, NextBlock
  <2> QED BY <2>1, <2>2
<1>8. CASE UNCHANGED vars
  BY <1>8 DEF TypeOK, WaitBounded, SocketsAccounted, vars, block
<1> QED BY <1>2, <1>3, <1>4, <1>5, <1>6, <1>7, <1>8 DEF Next

(* So it always holds. *)
LEMMA Always == Spec => []CaptureInv
BY Begins, Steps, PTL DEF Spec

(* A block is over at the latest one timeout, and one more for every error *)
(* of select or read, after captured_time (raw_socket.c, the loop).        *)
THEOREM Bounded == Spec => []BlockBounded
<1>1. CaptureInv => BlockBounded
  <2> SUFFICES ASSUME CaptureInv PROVE BlockBounded
    OBVIOUS
  <2>1. errors \in Nat /\ errors * Timeout \in Nat
    BY OneMore, FaultAssumption DEF CaptureInv, TypeOK
  <2>2. (1 + errors) * Timeout = errors * Timeout + Timeout
    BY <2>1, OneMore
  <2> QED
    BY <2>1, <2>2, TimeoutNat, TimeAssumption, FaultAssumption
    DEF CaptureInv, TypeOK, WaitBounded, BlockBounded
<1> QED BY <1>1, Always, PTL

(* However long the program runs, only blocks that failed before the loop  *)
(* have left a descriptor open (raw_socket.c: the returns without close).  *)
THEOREM NoSocketLost == Spec => []SocketsAccounted
BY Always, PTL DEF CaptureInv

(* A block that ends early ends after a whole timeout without a packet:    *)
(* the loop is left in two places only, and the wall clock never makes a   *)
(* block shorter than captured_time.                                       *)
THEOREM OnlySilenceShortens == Spec => ShortOnlyIfIdle
<1> DEFINE EndsInTime ==
      pc = "select" /\ pc' = "returned" /\ clock <= CapturedTime
        => clock - waiting = Timeout
<1>1. CaptureInv /\ [Next]_vars => [EndsInTime]_vars
  <2> SUFFICES ASSUME CaptureInv, Next PROVE EndsInTime
    BY DEF vars
  <2> USE FaultAssumption, TimeAssumption, TimeoutNat DEF CaptureInv, TypeOK
  <2>1. CASE Setup \/ SocketFails \/ BindFails \/ NextBlock
    BY <2>1 DEF Setup, SocketFails, BindFails, NextBlock
  <2>2. CASE Tick \/ SetBack \/ CallFails
    BY <2>2 DEF Tick, SetBack, CallFails
  <2>3. CASE Packet
    BY <2>3 DEF Packet, get_diff_time
  <2>4. CASE Idle
    BY <2>4 DEF Idle
  <2> QED BY <2>1, <2>2, <2>3, <2>4 DEF Next
<1> QED BY <1>1, Always, PTL DEF Spec, ShortOnlyIfIdle

-----------------------------------------------------------------------------
(* A flow is stamped in steps of the block, so whatever Capture promises   *)
(* holds with the stamps as well.                                          *)
LEMMA FlowSteps == [FlowNext]_flowVars => [Next]_vars
BY DEF FlowNext, FlowPacket, OtherPacket, BlockStep, NextRound, Next, flowVars

(* FlowInterval adds to Capture and takes nothing from it, its fairness    *)
(* included: the theorems above are theorems of FlowSpec.                  *)
THEOREM BlocksOfFlows == FlowSpec => Spec
<1>1. FlowInit => Init
  BY DEF FlowInit
<1> QED BY <1>1, FlowSteps, PTL DEF FlowSpec, Spec

(* The stamps are of this block: start was read off the wall clock at the  *)
(* first packet, and what lies between it and end is what lay between the  *)
(* packets, but for what the clock has lost meanwhile.                     *)
StampsFit ==
    recorded =>
        /\ started + first - set_back <= start /\ start <= started + first
        /\ end - start <= last - first
        /\ last - first - set_back <= end - start

FlowInv == CaptureInv /\ FlowTypeOK /\ StampsFit

(* A clock that reads the beginning of the block or later never reads less *)
(* than zero.                                                              *)
LEMMA ClockReads ==
  ASSUME TypeOK, started \in Beginnings
  PROVE  /\ WallClock \in Nat
         /\ started \in Nat
         /\ started - set_back \in Nat
BY FaultAssumption, TimeAssumption DEF TypeOK, Beginnings, WallClock

(* No flow is in the table before the first packet. *)
LEMMA FlowBegins == FlowInit => FlowInv
<1> SUFFICES ASSUME FlowInit PROVE FlowInv
  OBVIOUS
<1>1. CaptureInv
  BY Begins DEF FlowInit
<1>2. TypeOK
  BY <1>1 DEF CaptureInv
<1>3. ~recorded /\ recorded \in BOOLEAN
  BY DEF FlowInit
<1>4. started \in Beginnings /\ {start, end, first, last} \subseteq Nat
  BY DEF FlowInit
<1> QED BY <1>1, <1>2, <1>3, <1>4 DEF FlowInv, FlowTypeOK, StampsFit

(* Every packet stamps it so, and what the others do is no matter to it.   *)
LEMMA FlowInvSteps == FlowInv /\ [FlowNext]_flowVars => FlowInv'
<1> SUFFICES ASSUME FlowInv, [FlowNext]_flowVars PROVE FlowInv'
  OBVIOUS
<1>1. CaptureInv' /\ TypeOK'
  BY FlowSteps, Steps DEF FlowInv, CaptureInv
<1>2. TypeOK
  BY DEF FlowInv, CaptureInv
<1>3. started \in Nat /\ started - set_back \in Nat /\ WallClock \in Nat
  BY <1>2, ClockReads DEF FlowInv, FlowTypeOK
<1>4. CASE FlowPacket
  <2>1. UNCHANGED <<clock, set_back, started>>
    BY <1>4 DEF FlowPacket, Packet
  <2>2. CASE ~recorded
    <3>1. /\ recorded' = TRUE
          /\ start' = WallClock /\ end' = WallClock
          /\ first' = clock /\ last' = clock
      BY <1>4, <2>2 DEF FlowPacket, ipv4_add
    <3>2. FlowTypeOK'
      BY <1>1, <1>2, <1>3, <2>1, <3>1 DEF FlowInv, FlowTypeOK, TypeOK
    <3>3. StampsFit'
      BY <1>2, <1>3, <2>1, <3>1, FaultAssumption
      DEF StampsFit, TypeOK, WallClock
    <3> QED BY <1>1, <3>2, <3>3 DEF FlowInv
  <2>3. CASE recorded
    <3>1. /\ end' = WallClock /\ last' = clock
          /\ UNCHANGED <<recorded, start, first>>
      BY <1>4, <2>3 DEF FlowPacket, ipv4_update
    <3>2. FlowTypeOK'
      BY <1>1, <1>2, <1>3, <2>1, <2>3, <3>1 DEF FlowInv, FlowTypeOK, TypeOK
    <3>3. StampsFit'
      BY <1>2, <1>3, <2>1, <2>3, <3>1, FaultAssumption
      DEF FlowInv, FlowTypeOK, StampsFit, TypeOK, WallClock
    <3> QED BY <1>1, <3>2, <3>3 DEF FlowInv
  <2> QED BY <2>2, <2>3
<1>5. CASE OtherPacket \/ BlockStep
  <2>1. UNCHANGED <<started, stamps>>
    BY <1>5 DEF OtherPacket, BlockStep
  <2>2. clock' >= clock /\ set_back' >= set_back
    <3>1. Packet \/ Setup \/ SocketFails \/ BindFails \/ Tick \/ SetBack
          \/ CallFails \/ Idle
      BY <1>5 DEF OtherPacket, BlockStep
    <3> QED
      BY <1>2, <3>1, FaultAssumption
      DEF TypeOK, Packet, Setup, SocketFails, BindFails, Tick, SetBack,
          CallFails, Idle, block
  <2>3. FlowTypeOK'
    BY <1>1, <1>2, <2>1, <2>2 DEF FlowInv, FlowTypeOK, TypeOK, stamps
  <2>4. StampsFit'
    BY <1>1, <1>2, <1>3, <2>1, <2>2, FaultAssumption
    DEF FlowInv, FlowTypeOK, StampsFit, TypeOK, stamps
  <2> QED BY <1>1, <2>3, <2>4 DEF FlowInv
<1>6. CASE NextRound
  <2>1. ~recorded' /\ recorded' \in BOOLEAN
    BY <1>6 DEF NextRound, NoFlow
  <2>2. started' \in Beginnings /\ {start', end', first', last'} \subseteq Nat
    BY <1>6 DEF NextRound, NoFlow
  <2>3. FlowTypeOK'
    BY <1>1, <2>1, <2>2 DEF FlowTypeOK, Beginnings
  <2>4. StampsFit'
    BY <2>1 DEF StampsFit
  <2> QED BY <1>1, <2>3, <2>4 DEF FlowInv
<1>7. CASE UNCHANGED flowVars
  BY <1>1, <1>7
  DEF FlowInv, FlowTypeOK, StampsFit, flowVars, stamps, vars, block
<1> QED BY <1>4, <1>5, <1>6, <1>7 DEF FlowNext

(* So it always holds. *)
LEMMA FlowAlways == FlowSpec => []FlowInv
BY FlowBegins, FlowInvSteps, PTL DEF FlowSpec

(* Types of the block and of the stamps (raw_socket.c, init_module.c).     *)
THEOREM FlowTypeCorrect == FlowSpec => []FlowTypeOK
BY FlowAlways, PTL DEF FlowInv

(* Two times of which the later is in a later second, and how far they are *)
(* apart.                                                                  *)
LEMMA Seconds ==
  ASSUME NEW a \in Nat, NEW b \in Nat
  PROVE  /\ tv_sec(a) \in Nat /\ tv_sec(b) \in Nat
         /\ tv_sec(a) < tv_sec(b) => a < b
         /\ a + Second <= b => tv_sec(a) < tv_sec(b)
<1> DEFINE p == a \div Second
           r == b \div Second
<1>1. Second \in Nat /\ Second > 0
  BY TimeAssumption
<1>2. p \in Nat /\ r \in Nat
  BY <1>1, SMT
<1>3. a = Second * p + (a % Second) /\ 0 <= a % Second /\ a % Second < Second
  BY <1>1, SMT
<1>4. b = Second * r + (b % Second) /\ 0 <= b % Second /\ b % Second < Second
  BY <1>1, SMT
<1>5. p < r => a < b
  <2> SUFFICES ASSUME p + 1 <= r PROVE a < b
    BY <1>2
  <2>1. Second * (p + 1) <= Second * r
    BY <1>1, <1>2, SMT
  <2>2. Second * (p + 1) = Second * p + Second
    BY <1>1, <1>2, SMT
  <2> QED BY <1>1, <1>2, <1>3, <1>4, <2>1, <2>2, SMT
<1>6. a + Second <= b => p < r
  <2> SUFFICES ASSUME a + Second <= b, r <= p PROVE FALSE
    BY <1>2
  <2>1. Second * r <= Second * p
    BY <1>1, <1>2, SMT
  <2> QED BY <1>1, <1>2, <1>3, <1>4, <2>1, SMT
<1> QED BY <1>2, <1>5, <1>6 DEF tv_sec

(* The interval by which packet_xml_flow_info divides is of this block and *)
(* never zero, wherever in a second the block began and however far the    *)
(* wall clock was set back (xml.c:340).                                    *)
THEOREM IntervalTrue == FlowSpec => []IntervalOfThisBlock
<1>1. FlowInv => IntervalOfThisBlock
  <2> SUFFICES ASSUME FlowInv, recorded
               PROVE  LET lasted   == last - first
                          measured == lasted - set_back .. lasted
                      IN  /\ current_interval > 0
                          /\ current_interval \in {CapturedTime} \cup measured
                          /\ lasted - set_back >= Second
                             => current_interval \in measured
    BY DEF IntervalOfThisBlock
  <2>1. start \in Nat /\ end \in Nat /\ first \in Nat /\ last \in Nat
    BY DEF FlowInv, FlowTypeOK
  <2>2. set_back \in Nat
    BY FaultAssumption DEF FlowInv, CaptureInv, TypeOK
  <2>3. /\ end - start <= last - first
        /\ last - first - set_back <= end - start
    BY DEF FlowInv, StampsFit
  <2>4. CapturedTime \in Nat /\ CapturedTime > 0 /\ Second \in Nat
    BY TimeAssumption
  <2>5. CASE tv_sec(start) < tv_sec(end)
    <3>1. start < end
      BY <2>1, <2>5, Seconds
    <3>2. current_interval = end - start
      BY <2>1, <2>5, <3>1, Seconds DEF current_interval, get_diff_time
    <3> QED BY <2>1, <2>2, <2>3, <2>4, <3>1, <3>2
  <2>6. CASE ~(tv_sec(start) < tv_sec(end))
    <3>1. current_interval = CapturedTime
      BY <2>1, <2>4, <2>6, Seconds DEF current_interval
    <3>2. ~(start + Second <= end)
      BY <2>1, <2>6, Seconds
    <3> QED BY <2>1, <2>2, <2>3, <2>4, <3>1, <3>2
  <2> QED BY <2>5, <2>6
<1> QED BY <1>1, FlowAlways, PTL
=============================================================================
