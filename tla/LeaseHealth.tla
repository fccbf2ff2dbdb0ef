---------------------------- MODULE LeaseHealth -----------------------------
(***************************************************************************)
(* MachineIdLease under a punctual runtime: a task acts at the instant its *)
(* sleep ends and a transaction takes no time, so that the schedule is the *)
(* one the timing constants of lib.rs:81-100 prescribe.  What remains is   *)
(* that any transaction may fail.  How long does the lease stay usable?    *)
(***************************************************************************)
EXTENDS MachineIdLease

CONSTANT BootBy   \* BOUND: build() starts no later (only time since matters)

VARIABLES missed,   \* heartbeats of a worker failed since its last refresh
          renewed   \* the last refresh was by a heartbeat, not by a claim

healthVars == <<vars, missed, renewed>>

HealthInit == /\ Init
              /\ missed = [w \in Workers |-> 0]
              /\ renewed = [w \in Workers |-> FALSE]

(* w has something to do now. *)
Due(w) == \/ tx[w].outcome # "idle"
          \/ pc[w] \in {"sleep", "lost"} /\ mono[w] >= wake[w]

(* The deadlines of w are set anew. *)
Refreshed(w) == Adopt(w) \/ HeartbeatRenewed(w)

(* A heartbeat of w fails. *)
Missed(w) == pc[w] = "beating" /\ TxError(w)

HealthNext ==
  /\ Next
  /\ UNCHANGED call                              \* no generate() is looked at
  /\ now' # now => \A w \in Workers : ~Due(w)
  /\ now > BootBy => \A w \in Workers : pc[w] = "off" => pc'[w] = "off"
  /\ missed' = [w \in Workers |-> IF Refreshed(w) THEN 0
                                  ELSE IF Missed(w) THEN missed[w] + 1
                                  ELSE missed[w]]
  /\ renewed' = [w \in Workers |-> IF Refreshed(w) THEN pc[w] = "beating"
                                   ELSE renewed[w]]

HealthSpec == HealthInit /\ [][HealthNext]_healthVars

-----------------------------------------------------------------------------
Leased(w) == On(w) /\ ~poisoned[w]

(* "a single missed beat must not poison you" (docs 6.4, lines 421-422):   *)
(* not even if it is the first one after a claim.                          *)
OneMissIsHarmless ==
  \A w \in Workers : Leased(w) /\ missed[w] <= 1 => is_fresh(w)

(* "tolerates ~2 missed beats" (docs 6.2, lines 388-390): a lease that has *)
(* been renewed stays usable through two failed heartbeats in a row, and   *)
(* one that has only been claimed while none has failed.                   *)
TwoMissesAreAbsorbed ==
  \A w \in Workers :
    Leased(w) /\ missed[w] <= (IF renewed[w] THEN 2 ELSE 0) => is_fresh(w)
=============================================================================
