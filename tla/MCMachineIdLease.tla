-------------------------- MODULE MCMachineIdLease --------------------------
(* MachineIdLease for TLC: interchangeable workers. *)
EXTENDS MachineIdLease, TLC

Symmetry == Permutations(Workers)
=============================================================================
