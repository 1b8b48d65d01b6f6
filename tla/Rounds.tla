------------------------------- MODULE Rounds -------------------------------
(***************************************************************************)
(* What the handshake between the capture threads and the statistics       *)
(* thread promises, without its mutex, its counter and its condition       *)
(* variables: time is cut into rounds.  While the round is in "capture",   *)
(* each producer finishes its block once and then stays out of the flow    *)
(* tables; only when all of them have finished does the round enter        *)
(* "report", where the consumer alone works on the tables; the end of the  *)
(* report lets every producer go at once.                                  *)
(*                                                                         *)
(* Handshake implements this specification; Collector is built on it.      *)
(***************************************************************************)
CONSTANT Producers      \* the capture threads, one per monitored interface

VARIABLES
    mode,               \* "capture": producers work, "report": consumer works
    arrived             \* producers that have finished the block of this round

roundVars == <<mode, arrived>>

TypeOK ==
    /\ mode \in {"capture", "report"}
    /\ arrived \in SUBSET Producers

Init ==
    /\ mode = "capture"
    /\ arrived = {}

(* producer_notify_consumer: producer p hands in its block and parks. *)
Arrive(p) ==
    /\ mode = "capture"
    /\ p \notin arrived
    /\ arrived' = arrived \cup {p}
    /\ UNCHANGED mode

(* consumer_wait returns: every block of the round has been handed in. *)
BeginReport ==
    /\ mode = "capture"
    /\ arrived = Producers
    /\ mode' = "report"
    /\ UNCHANGED arrived

(* consumer_notify_producer: the broadcast releases all the producers. *)
EndReport ==
    /\ mode = "report"
    /\ mode' = "capture"
    /\ arrived' = {}

Next ==
    \/ \E p \in Producers : Arrive(p)
    \/ BeginReport
    \/ EndReport

Fairness ==
    /\ \A p \in Producers : WF_roundVars(Arrive(p))
    /\ WF_roundVars(BeginReport)
    /\ WF_roundVars(EndReport)

SafeSpec == Init /\ [][Next]_roundVars

Spec == SafeSpec /\ Fairness
=============================================================================
