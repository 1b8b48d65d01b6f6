---------------------------- MODULE MCCollector -----------------------------
(* Collector with a set that a .cfg cannot write down. *)
EXTENDS Collector, TLC

(* An ifindex that no interface has. *)
MCBeforeArray == {99}

(* Nothing depends on which key is which. *)
Symmetric == Permutations(Keys)
=============================================================================
