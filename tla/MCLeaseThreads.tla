--------------------------- MODULE MCLeaseThreads ---------------------------
(* LeaseThreads for TLC: interchangeable threads. *)
EXTENDS LeaseThreads, TLC

Symmetry == Permutations(Threads)
=============================================================================
