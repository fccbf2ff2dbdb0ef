--------------------------- MODULE MCProvisioning ----------------------------
(* Provisioning for TLC: two processes with auto_provision, one without,   *)
(* one migration, and two schemas.  The third name is one longer than the  *)
(* limit and begins like the second.                                       *)
EXTENDS Provisioning, TLC

CONSTANTS a1, a2, p1, m1

MCProcesses == {a1, a2, p1, m1}
MCKind == [p \in MCProcesses |-> CASE p = m1 -> "migration"
                                    [] p = p1 -> "plain"
                                    [] OTHER  -> "auto"]
MCNames == {<<"p">>, <<"x", "1">>, <<"x", "1", "1">>}
MCDefault == <<"p">>
Symmetry == Permutations({a1, a2})
=============================================================================
