------------------------------ MODULE Sampling -------------------------------
(***************************************************************************)
(* What the sampling of an interface promises to the rest of the program:  *)
(* every packet of a block is counted, at rate 1 every packet is sampled,  *)
(* at any other rate any of them may be, and a block begins with both      *)
(* counts at zero and a rate that holds until it is over.                  *)
(*                                                                         *)
(* Estimator is what keeps the promise, from the history of the counts;    *)
(* Collector is what relies on it, for each interface.                     *)
(***************************************************************************)
EXTENDS Naturals

VARIABLES
    total_packets, sampled_packets,
    full_rate           \* out_sampled_rate is 1

vars == <<total_packets, sampled_packets, full_rate>>

(* The first block is sampled completely: init_interface_sampled_struct.   *)
Init ==
    /\ total_packets = 0
    /\ sampled_packets = 0
    /\ full_rate = TRUE

(* The head of analysis_module. *)
Packet ==
    /\ total_packets' = total_packets + 1
    /\ \/ sampled_packets' = sampled_packets + 1
       \/ ~full_rate /\ sampled_packets' = sampled_packets
    /\ UNCHANGED full_rate

(* cal_interface_sampled_rate and the assignments that follow it. *)
EndBlock ==
    /\ total_packets' = 0
    /\ sampled_packets' = 0
    /\ full_rate' \in BOOLEAN

Next == Packet \/ EndBlock

Spec == Init /\ [][Next]_vars
=============================================================================
