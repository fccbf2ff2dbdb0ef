-------------------------- MODULE MCPgIdGenerator ---------------------------
(* PgIdGenerator for TLC: interchangeable workers. *)
EXTENDS PgIdGenerator, TLC

Symmetry == Permutations(Workers)
=============================================================================
