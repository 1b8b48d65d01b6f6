---------------------------- MODULE MCEstimator -----------------------------
(* Estimator with the sets that a .cfg cannot write down. *)
EXTENDS Estimator

(* Up to three packets in a block. *)
MCElements == 0 .. 3

(* An unset next_m: an error value, a small and a large estimate. *)
MCUninitialised == {-1, 3, 7}
=============================================================================
