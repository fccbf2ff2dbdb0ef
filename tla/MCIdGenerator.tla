--------------------------- MODULE MCIdGenerator ----------------------------
(* IdGenerator for TLC: interchangeable threads. *)
EXTENDS IdGenerator, TLC

Symmetry == Permutations(Threads)
=============================================================================
