---------------------------- MODULE MCMpmcQueue -----------------------------
(* MpmcQueue on small instances; the threads of one kind are alike. *)
EXTENDS MpmcQueue, TLC

Symmetry == Permutations(Producers) \cup Permutations(Consumers)
=============================================================================
