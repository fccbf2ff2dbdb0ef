------------------------ MODULE MachineIdLease_proofs -----------------------
(***************************************************************************)
(* Theorems about MachineIdLease for any workers, machine IDs and timing   *)
(* constants that satisfy the assertions of lib.rs and Timely: Invariant S *)
(* and what it rests on.  At the end, one about LeaseHealth: the failed    *)
(* heartbeats that a renewed lease survives.                               *)
(***************************************************************************)
EXTENDS LeaseHealth, TLAPS

-----------------------------------------------------------------------------
(* The inductive invariant. *)

(* The holder w's token is the one in its row. *)
Current(w) == claimed_at[machine_id[w]] = fencing[w]

(* A token that no longer stands in its row is older than the grace: no    *)
(* claim under way can choose it again.                                    *)
Dead(f) == f + BOOTLOOP_GRACE <= now

(* Rows: a claimed row is protected for the grace at least, for the TTL at *)
(* most.                                                                   *)
RowsInv == \A m \in MachineIds :
  /\ claimed_at[m] = NULL <=> reclaimable_after[m] = NULL
  /\ claimed_at[m] # NULL =>
       /\ claimed_at[m] <= now
       /\ claimed_at[m] + BOOTLOOP_GRACE <= reclaimable_after[m]
       /\ reclaimable_after[m] <= now + RECLAIM_TTL

(* Transactions are at most MaxDelay old, and what their outcome says is   *)
(* still true of the row when the reply arrives.                           *)
TxOf(w) ==
  /\ tx[w].outcome # "idle" => tx[w].at <= now /\ now <= tx[w].at + MaxDelay
  /\ pc[w] \in {"off", "sleep", "lost"} => tx[w].outcome = "idle"
  /\ pc[w] \in {"building", "reclaiming"} =>
       tx[w].outcome \in {"begun", "Got", "NotSeeded", "Exhausted"}
  /\ pc[w] = "beating" => tx[w].outcome \in {"begun", "Renewed", "Stolen"}
  /\ tx[w].outcome = "Got" =>
       /\ claimed_at[tx[w].mid] = tx[w].at
       /\ reclaimable_after[tx[w].mid] = tx[w].at + BOOTLOOP_GRACE
  /\ tx[w].outcome = "Renewed" =>
       /\ Current(w)
       /\ reclaimable_after[machine_id[w]] = tx[w].at + RECLAIM_TTL
  /\ tx[w].outcome = "Stolen" => ~Current(w)
  /\ pc[w] = "beating" /\ tx[w].outcome = "begun" /\ Current(w) =>
       reclaimable_after[machine_id[w]] <= tx[w].at + RECLAIM_TTL

(* Holders: while the token is current, each clock that does not lag ends  *)
(* the lease MaxInFlight before the row does; once it is not, each such    *)
(* clock has ended it.                                                     *)
HoldOf(w) ==
  /\ poisoned[w] <=> pc[w] \in {"lost", "reclaiming"}
  /\ On(w) /\ ~Current(w) => Dead(fencing[w])
  /\ poisoned[w] => ~Current(w)
  /\ On(w) /\ ~poisoned[w] /\ Current(w) =>
       /\ "mono" \notin lagging[w] =>
            mono_deadline[w] - mono[w] + MaxInFlight
              <= reclaimable_after[machine_id[w]] - now
       /\ "wall" \notin lagging[w] =>
            wall_deadline[w] - wall[w] + MaxInFlight
              <= reclaimable_after[machine_id[w]] - now
  /\ On(w) /\ ~poisoned[w] /\ ~Current(w) =>
       /\ "mono" \notin lagging[w] => mono[w] >= mono_deadline[w]
       /\ "wall" \notin lagging[w] => wall[w] >= wall_deadline[w]

(* A call under way pins its lease until it must be over. *)
CallOf(w) ==
  /\ call[w].at = NULL => call[w].mid = NULL
  /\ call[w].at # NULL =>
       /\ On(w) /\ ~poisoned[w] /\ Current(w)
       /\ call[w].at <= now /\ now <= call[w].at + MaxInFlight
       /\ call[w].at + MaxInFlight < reclaimable_after[machine_id[w]]
       /\ call[w].mid # NULL => call[w].mid = machine_id[w]

(* A release on its way whose row has another token is obsolete. *)
ReleaseInv == \A r \in releases : claimed_at[r.mid] # r.fencing => Dead(r.fencing)

(* TokensIdentifyClaims, pointwise. *)
TokenInv ==
  /\ \A v, w \in Workers :
       v # w /\ On(v) /\ On(w) /\ machine_id[v] = machine_id[w]
         => fencing[v] # fencing[w]
  /\ \A v, w \in Workers :
       v # w /\ On(v) /\ tx[w].outcome = "Got" /\ machine_id[v] = tx[w].mid
         => fencing[v] # tx[w].at
  /\ \A v, w \in Workers :
       v # w /\ tx[v].outcome = "Got" /\ tx[w].outcome = "Got"
         => tx[v].mid # tx[w].mid
  /\ \A w \in Workers : \A r \in releases :
       /\ On(w) /\ r.mid = machine_id[w] => r.fencing # fencing[w]
       /\ tx[w].outcome = "Got" /\ r.mid = tx[w].mid => r.fencing # tx[w].at

(* No monotonic clock is ahead. *)
ClocksInv == \A w \in Workers : mono[w] <= now

WorkersInv == \A w \in Workers : TxOf(w) /\ HoldOf(w) /\ CallOf(w)

RestInv == RowsInv /\ WorkersInv /\ ReleaseInv /\ TokenInv

IInv == TypeOK /\ ClocksInv /\ RestInv

-----------------------------------------------------------------------------
(* What the invariant implies. *)

LEMMA Timing ==
  /\ {HEARTBEAT_INTERVAL, RECLAIM_TTL, SELF_POISON_AFTER, BOOTLOOP_GRACE,
      BOOTLOOP_SELF_POISON, FIRST_HEARTBEAT_DELAY, HEARTBEAT_RETRY_BACKOFF,
      RECLAIM_RETRY_BACKOFF, MaxMachineId, MaxDelay, MaxInFlight, MaxTime}
        \subseteq Nat
  /\ BOOTLOOP_GRACE <= RECLAIM_TTL
  BY TimingAssumption, EnvironmentAssumption

(* A lease that is fresh by the worker's clocks is current, and stays so   *)
(* for an ID in flight.                                                    *)
LEMMA FreshIsCurrent ==
  ASSUME IInv, NEW w \in Workers, On(w), is_fresh(w)
  PROVE  /\ Current(w)
         /\ reclaimable_after[machine_id[w]] # NULL
         /\ now + MaxInFlight < reclaimable_after[machine_id[w]]
<1>1. /\ ~poisoned[w] /\ mono[w] < mono_deadline[w] /\ wall[w] < wall_deadline[w]
  BY DEF is_fresh
<1>2. /\ mono[w] \in Nat /\ mono_deadline[w] \in Nat /\ now \in Nat
      /\ wall[w] \in Int /\ wall_deadline[w] \in Int
      /\ machine_id[w] \in MachineIds /\ fencing[w] \in Nat
      /\ lagging[w] \in Lags
      /\ MaxInFlight \in Nat
  BY Timing DEF IInv, TypeOK, Times
<1>3. "mono" \notin lagging[w] \/ "wall" \notin lagging[w]
  BY <1>2 DEF Lags
<1>4. HoldOf(w)
  BY DEF IInv, RestInv, WorkersInv
<1>5. Current(w)
  BY <1>1, <1>2, <1>3, <1>4 DEF HoldOf
<1>6. claimed_at[machine_id[w]] # NULL
  BY <1>2, <1>5 DEF Current, NULL
<1>7. /\ reclaimable_after[machine_id[w]] \in Nat
  BY <1>2, <1>6 DEF IInv, RestInv, TypeOK, RowsInv
<1>8. now + MaxInFlight < reclaimable_after[machine_id[w]]
  BY <1>1, <1>2, <1>3, <1>4, <1>5, <1>7 DEF HoldOf
<1> QED BY <1>2, <1>5, <1>7, <1>8 DEF NULL

LEMMA UsingIsCurrent ==
  ASSUME IInv, NEW w \in Workers, NEW m \in Using(w)
  PROVE  /\ On(w) /\ m = machine_id[w] /\ Current(w)
         /\ now < reclaimable_after[m]
<1>1. CASE On(w) /\ is_fresh(w) /\ machine_id[w] = m
  <2>1. /\ Current(w) /\ reclaimable_after[m] # NULL
        /\ now + MaxInFlight < reclaimable_after[m]
    BY <1>1, FreshIsCurrent
  <2>2. reclaimable_after[m] \in Nat /\ now \in Nat /\ MaxInFlight \in Nat
    BY <1>1, <2>1, Timing DEF IInv, TypeOK, Times
  <2> QED BY <1>1, <2>1, <2>2
<1>2. CASE call[w].mid = m
  <2>1. m \in MachineIds /\ m # NULL
    BY DEF Using, MachineIds, NULL
  <2>2. call[w].at # NULL
    BY <1>2, <2>1 DEF IInv, RestInv, WorkersInv, CallOf
  <2>3. /\ On(w) /\ Current(w) /\ m = machine_id[w]
        /\ now <= call[w].at + MaxInFlight
        /\ call[w].at + MaxInFlight < reclaimable_after[m]
    BY <1>2, <2>1, <2>2 DEF IInv, RestInv, WorkersInv, CallOf
  <2>4. /\ call[w].at \in Nat /\ now \in Nat /\ MaxInFlight \in Nat
        /\ reclaimable_after[m] \in Int
    BY <2>1, <2>2, Timing DEF IInv, TypeOK, Calls, Times, NULL
  <2> QED BY <2>3, <2>4
<1> QED BY <1>1, <1>2 DEF Using

LEMMA InvImpliesLeased == IInv => InUseIsLeased
  BY UsingIsCurrent DEF InUseIsLeased, Current

LEMMA InvImpliesS == IInv => InvariantS
<1> SUFFICES ASSUME IInv, NEW v \in Workers, NEW w \in Workers, v # w,
                    NEW m \in Using(v), m \in Using(w)
             PROVE  FALSE
  BY DEF InvariantS
<1>1. /\ On(v) /\ On(w) /\ machine_id[v] = m /\ machine_id[w] = m
      /\ fencing[v] = claimed_at[m] /\ fencing[w] = claimed_at[m]
  BY UsingIsCurrent DEF Current
<1> QED BY <1>1 DEF IInv, RestInv, TokenInv

LEMMA InvImpliesTokens == IInv => TokensIdentifyClaims
<1> SUFFICES ASSUME IInv PROVE TokensIdentifyClaims
  OBVIOUS
<1>1. ASSUME NEW v \in Workers, NEW w \in Workers, v # w,
             NEW t \in TokensOf(v), t \in TokensOf(w)
      PROVE  FALSE
  BY <1>1 DEF IInv, RestInv, TokenInv, TokensOf, Tokens
<1>2. ASSUME NEW w \in Workers, NEW t \in TokensOf(w), t \in releases
      PROVE  FALSE
  BY <1>2 DEF IInv, RestInv, TokenInv, TokensOf, Tokens
<1> QED BY <1>1, <1>2 DEF TokensIdentifyClaims
-----------------------------------------------------------------------------
(* Types.  For these Timely is not needed. *)

LEMMA Zeros ==
  /\ MaxTime \in Nat /\ MaxMachineId \in Nat /\ MaxWallSteps \in Nat
  /\ 0 \in Times /\ 0 \in MachineIds
  /\ NoTx \in Txs /\ NoCall \in Calls /\ {} \in Lags
<1>1. 0 \in Times /\ 0 \in MachineIds
  BY EnvironmentAssumption DEF Times, MachineIds
<1> QED
  BY <1>1, EnvironmentAssumption
  DEF NoTx, NoCall, Txs, Calls, Lags, Outcomes

LEMMA InitTypes == Init => TypeOK /\ ClocksInv
  BY Zeros DEF Init, TypeOK, ClocksInv, Pcs

(* What a worker is left with when its lease is gone, *)
LEMMA GoneTypes ==
  ASSUME TypeOK, ClocksInv, NEW w \in Workers, Gone(w),
         UNCHANGED <<now, dbVars, wallSteps>>, releases' \subseteq Tokens
  PROVE  TypeOK' /\ ClocksInv'
<1>1. /\ pc' \in [Workers -> Pcs]
      /\ tx' \in [Workers -> Txs]
      /\ call' \in [Workers -> Calls]
      /\ lagging' \in [Workers -> Lags]
  BY Zeros DEF Gone, Goto, EndTx, TypeOK, Pcs
<1>2. /\ wake' \in [Workers -> Nat]
      /\ machine_id' \in [Workers -> MachineIds]
      /\ fencing' \in [Workers -> Times]
      /\ poisoned' \in [Workers -> BOOLEAN]
  BY Zeros DEF Gone, TypeOK
<1>3. /\ mono_deadline' \in [Workers -> Nat]
      /\ wall_deadline' \in [Workers -> Int]
      /\ mono' \in [Workers -> Times]
      /\ wall' \in [Workers -> Int]
  BY Zeros DEF Gone, TypeOK
<1>4. \A v \in Workers : mono'[v] <= now
  BY Zeros DEF Gone, TypeOK, ClocksInv, Times
<1> QED BY <1>1, <1>2, <1>3, <1>4 DEF TypeOK, ClocksInv, dbVars

(* and when it tries again. *)
LEMMA RetryTypes ==
  ASSUME TypeOK, ClocksInv, NEW w \in Workers, NEW from \in Pcs, NEW to \in Pcs,
         NEW backoff \in Nat, Retry(w, from, to, backoff),
         UNCHANGED <<now, dbVars, releases, wallSteps>>
  PROVE  TypeOK' /\ ClocksInv'
<1>1. mono[w] + backoff \in Nat
  BY Zeros DEF TypeOK, Times
<1>2. /\ pc' \in [Workers -> Pcs]
      /\ tx' \in [Workers -> Txs]
      /\ wake' \in [Workers -> Nat]
  BY <1>1, Zeros DEF Retry, Goto, EndTx, SleepFor, TypeOK
<1> QED BY <1>2 DEF Retry, TypeOK, ClocksInv, dbVars, sharedVars

LEMMA TypeStep == TypeOK /\ ClocksInv /\ [Next]_vars => TypeOK' /\ ClocksInv'
<1> SUFFICES ASSUME TypeOK, ClocksInv, [Next]_vars PROVE TypeOK' /\ ClocksInv'
  OBVIOUS
<1> USE DEF dbVars, sharedVars, clockVars
<1>1. CASE Tick
  <2>1. now' \in Times /\ now' = now + 1 /\ now \in Nat
    BY <1>1, Zeros DEF Tick, TypeOK, Times
  <2>2. PICK S \in SUBSET {v \in Suspendable : Running(v) /\ "wall" \notin lagging[v]} :
          /\ mono' = [v \in Workers |->
                        IF Running(v) /\ v \notin S THEN mono[v] + 1 ELSE mono[v]]
          /\ lagging' = [v \in Workers |->
                        IF v \in S THEN lagging[v] \cup {"mono"} ELSE lagging[v]]
    BY <1>1 DEF Tick
  <2>3. ASSUME NEW v \in Workers PROVE mono'[v] \in Times /\ mono'[v] <= now'
    <3>1. mono[v] \in Nat /\ mono[v] <= now
      BY DEF ClocksInv, TypeOK, Times
    <3>2. mono'[v] = mono[v] \/ mono'[v] = mono[v] + 1
      BY <2>2
    <3> QED BY <3>1, <3>2, <2>1, Zeros DEF Times
  <2>4. ASSUME NEW v \in Workers PROVE lagging'[v] \in Lags
    BY <2>2 DEF TypeOK, Lags
  <2>5. mono' \in [Workers -> Times] /\ lagging' \in [Workers -> Lags]
    BY <2>2, <2>3, <2>4
  <2>6. wall' \in [Workers -> Int]
    BY <1>1 DEF Tick, TypeOK
  <2> QED BY <1>1, <2>1, <2>3, <2>5, <2>6 DEF Tick, TypeOK, ClocksInv
<1>2. CASE Provision
  BY <1>2 DEF Provision, TypeOK, ClocksInv
<1>3. ASSUME NEW w \in Workers, TaskStep(w) PROVE TypeOK' /\ ClocksInv'
  <2> USE DEF Goto, EndTx, SleepFor
  <2>a. /\ now \in Nat /\ now \in Times /\ tx[w] \in Txs
        /\ mono[w] \in Nat /\ wall[w] \in Int
        /\ tx[w].mid \in MachineIds /\ tx[w].at \in Times /\ tx[w].at \in Nat
        /\ machine_id[w] \in MachineIds
    BY Zeros DEF TypeOK, Times, Txs
  <2>b. ASSUME NEW o \in Outcomes, NEW m \in MachineIds,
               \/ tx' = [tx EXCEPT ![w].outcome = o]
               \/ tx' = [tx EXCEPT ![w].outcome = o, ![w].mid = m]
        PROVE  tx' \in [Workers -> Txs]
    <3>1. \/ tx' = [tx EXCEPT ![w] = [tx[w] EXCEPT !.outcome = o]]
          \/ tx' = [tx EXCEPT ![w] = [tx[w] EXCEPT !.outcome = o, !.mid = m]]
      BY <2>b DEF TypeOK
    <3>2. /\ [tx[w] EXCEPT !.outcome = o] \in Txs
          /\ [tx[w] EXCEPT !.outcome = o, !.mid = m] \in Txs
      BY <2>a DEF Txs
    <3> QED BY <3>1, <3>2 DEF TypeOK
  <2>c. BeginTx(w) => tx' \in [Workers -> Txs]
    BY <2>a, Zeros DEF BeginTx, TypeOK, Txs, Outcomes
  <2>1. CASE BeginBuild(w)
    <3>1. mono' \in [Workers -> Times] /\ wall' \in [Workers -> Int]
      BY <2>1, <2>a DEF BeginBuild, TypeOK
    <3>2. ClocksInv'
      BY <2>1, <2>a DEF BeginBuild, TypeOK, ClocksInv
    <3> QED BY <2>1, <2>c, <3>1, <3>2 DEF BeginBuild, TypeOK, Pcs
  <2>2. CASE BeginReclaim(w)
    BY <2>2, <2>c DEF BeginReclaim, WakeUp, TypeOK, ClocksInv, Pcs
  <2>3. CASE BeginHeartbeat(w)
    BY <2>3, <2>c DEF BeginHeartbeat, WakeUp, TypeOK, ClocksInv, Pcs
  <2>4. CASE ExecClaim(w)
    <3>1. PICK m \in rows :
            /\ tx' = [tx EXCEPT ![w].outcome = "Got", ![w].mid = m]
            /\ claimed_at' = [claimed_at EXCEPT ![m] = tx[w].at]
            /\ reclaimable_after' =
                 [reclaimable_after EXCEPT ![m] = tx[w].at + BOOTLOOP_GRACE]
      BY <2>4 DEF ExecClaim, Candidates
    <3>2. m \in MachineIds
      BY DEF TypeOK
    <3>3. tx' \in [Workers -> Txs]
      BY <3>1, <3>2, <2>b DEF Outcomes
    <3>4. /\ claimed_at' \in [MachineIds -> Times \cup {NULL}]
          /\ reclaimable_after' \in [MachineIds -> Nat \cup {NULL}]
      BY <3>1, <3>2, <2>a, Timing DEF TypeOK
    <3> QED BY <2>4, <3>3, <3>4 DEF ExecClaim, TypeOK, ClocksInv
  <2>5. CASE ExecClaimNothing(w)
    BY <2>5, <2>b, Zeros DEF ExecClaimNothing, TypeOK, ClocksInv, Outcomes
  <2>6. CASE ExecHeartbeat(w)
    <3>1. reclaimable_after' \in [MachineIds -> Nat \cup {NULL}]
      BY <2>6, <2>a, Timing DEF ExecHeartbeat, TypeOK
    <3> QED BY <2>6, <3>1, <2>b, Zeros DEF ExecHeartbeat, TypeOK, ClocksInv, Outcomes
  <2>7. CASE ExecHeartbeatStolen(w)
    BY <2>7, <2>b, Zeros DEF ExecHeartbeatStolen, TypeOK, ClocksInv, Outcomes
  <2>8. CASE Adopt(w)
    BY <2>8, <2>a, Zeros, Timing DEF Adopt, refresh_deadlines, TypeOK, ClocksInv, Pcs
  <2>9. CASE ClaimFails(w)
    BY <2>9, GoneTypes, RetryTypes, Timing DEF ClaimFails, BuildFails, TypeOK, Pcs
  <2>10. CASE TxError(w)
    BY <2>10, GoneTypes, RetryTypes, Timing DEF TxError, BuildFails, TypeOK, Pcs
  <2>11. CASE HeartbeatRenewed(w)
    BY <2>11, <2>a, Zeros, Timing
    DEF HeartbeatRenewed, refresh_deadlines, TypeOK, ClocksInv, Pcs
  <2>12. CASE HeartbeatStolen(w)
    BY <2>12, <2>a, Zeros DEF HeartbeatStolen, TypeOK, ClocksInv, Pcs
  <2> QED BY <1>3, <2>1, <2>2, <2>3, <2>4, <2>5, <2>6, <2>7, <2>8, <2>9, <2>10,
             <2>11, <2>12 DEF TaskStep
<1>4. ASSUME NEW w \in Workers, UserStep(w) PROVE TypeOK' /\ ClocksInv'
  <2>1. CASE Drop(w)
    <3>1. [mid |-> machine_id[w], fencing |-> fencing[w]] \in Tokens
      BY DEF TypeOK, Tokens
    <3> QED BY <2>1, <3>1, GoneTypes DEF Drop, TypeOK
  <2>2. CASE Crash(w)
    BY <2>2, GoneTypes DEF Crash, TypeOK
  <2>3. CASE BeginGenerate(w)
    BY <2>3 DEF BeginGenerate, TypeOK, ClocksInv, Calls
  <2>4. CASE LoadMachineId(w)
    BY <2>4 DEF LoadMachineId, TypeOK, ClocksInv, Calls
  <2>5. CASE EndGenerate(w)
    BY <2>5, Zeros DEF EndGenerate, TypeOK, ClocksInv
  <2> QED BY <1>4, <2>1, <2>2, <2>3, <2>4, <2>5 DEF UserStep
<1>5. ASSUME NEW w \in Workers, StepWall(w) PROVE TypeOK' /\ ClocksInv'
  <2>1. wall' \in [Workers -> Int] /\ wallSteps' \in 0 .. MaxWallSteps
    BY <1>5, Zeros, EnvironmentAssumption DEF StepWall, TypeOK
  <2>2. /\ lagging[w] \in Lags
        /\ ("mono" \notin lagging[w] => lagging[w] \cup {"wall"} \in Lags)
    BY DEF TypeOK, Lags
  <2>3. lagging' \in [Workers -> Lags]
    BY <1>5, <2>2 DEF StepWall, TypeOK
  <2> QED BY <1>5, <2>1, <2>3 DEF StepWall, TypeOK, ClocksInv
<1>6. ASSUME NEW r \in releases, ExecRelease(r) \/ LoseRelease(r)
      PROVE  TypeOK' /\ ClocksInv'
  <2>1. r.mid \in MachineIds
    BY DEF TypeOK, Tokens
  <2>2. CASE ExecRelease(r)
    BY <2>1, <2>2 DEF ExecRelease, TypeOK, ClocksInv
  <2>3. CASE LoseRelease(r)
    BY <2>3 DEF LoseRelease, TypeOK, ClocksInv
  <2> QED BY <1>6, <2>2, <2>3
<1>7. CASE UNCHANGED vars
  BY <1>7 DEF vars, TypeOK, ClocksInv
<1> QED BY <1>1, <1>2, <1>3, <1>4, <1>5, <1>6, <1>7 DEF Next

(* Every variable keeps its type, and no monotonic clock gets ahead.       *)
THEOREM TypeCorrect == Spec => []TypeOK
<1>1. TypeOK /\ ClocksInv /\ [Next]_vars => (TypeOK /\ ClocksInv)'
  BY TypeStep
<1> QED BY <1>1, InitTypes, PTL DEF Spec

-----------------------------------------------------------------------------
(* Invariance of the rest, given Timely.  First the steps of one worker    *)
(* that leave the table alone: only what they say of that worker is to be  *)
(* shown.                                                                  *)

(* v's lease, task and clocks stay as they are. *)
Same(v) ==
  /\ pc'[v] = pc[v]                 /\ tx'[v] = tx[v]
  /\ machine_id'[v] = machine_id[v] /\ fencing'[v] = fencing[v]
  /\ poisoned'[v] = poisoned[v]     /\ call'[v] = call[v]
  /\ mono_deadline'[v] = mono_deadline[v] /\ mono'[v] = mono[v]
  /\ wall_deadline'[v] = wall_deadline[v] /\ wall'[v] = wall[v]
  /\ lagging'[v] = lagging[v]

(* w has no token that it did not have before. *)
NoNewToken(w) ==
  /\ On(w)' => \/ On(w) /\ machine_id'[w] = machine_id[w] /\ fencing'[w] = fencing[w]
               \/ /\ tx[w].outcome = "Got"
                  /\ machine_id'[w] = tx[w].mid /\ fencing'[w] = tx[w].at
  /\ tx'[w].outcome = "Got" =>
       tx[w].outcome = "Got" /\ tx'[w].mid = tx[w].mid /\ tx'[w].at = tx[w].at

LEMMA SameTokens ==
  ASSUME TokenInv, NEW w \in Workers, NoNewToken(w), releases' \subseteq releases,
         \A v \in Workers \ {w} : Same(v)
  PROVE  TokenInv'
<1>1. ASSUME NEW v \in Workers PROVE NoNewToken(v)
  BY <1>1 DEF NoNewToken, Same, On
<1>2. ASSUME NEW v \in Workers, NEW u \in Workers, v # u
      PROVE  /\ (On(v) /\ On(u) /\ machine_id[v] = machine_id[u]
                   => fencing[v] # fencing[u])'
             /\ (On(v) /\ tx[u].outcome = "Got" /\ machine_id[v] = tx[u].mid
                   => fencing[v] # tx[u].at)'
             /\ (tx[v].outcome = "Got" /\ tx[u].outcome = "Got"
                   => tx[v].mid # tx[u].mid)'
  <2>1. NoNewToken(v) /\ NoNewToken(u)
    BY <1>1
  <2> QED BY <1>2, <2>1 DEF NoNewToken, TokenInv
<1>3. ASSUME NEW v \in Workers, NEW r \in releases'
      PROVE  /\ (On(v) /\ r.mid = machine_id[v] => r.fencing # fencing[v])'
             /\ (tx[v].outcome = "Got" /\ r.mid = tx[v].mid => r.fencing # tx[v].at)'
  BY <1>1 DEF NoNewToken, TokenInv
<1> QED BY <1>2, <1>3 DEF TokenInv

LEMMA LocalStep ==
  ASSUME RestInv, NEW w \in Workers, UNCHANGED <<now, claimed_at, reclaimable_after>>,
         releases' \subseteq releases, \A v \in Workers \ {w} : Same(v),
         NoNewToken(w), TxOf(w)', HoldOf(w)', CallOf(w)'
  PROVE  RestInv'
<1>1. RowsInv'
  BY DEF RestInv, RowsInv
<1>2. ASSUME NEW v \in Workers \ {w} PROVE TxOf(v)' /\ HoldOf(v)' /\ CallOf(v)'
  <2>1. Same(v) /\ TxOf(v) /\ HoldOf(v) /\ CallOf(v)
    BY DEF RestInv, WorkersInv
  <2>2. TxOf(v)'
    BY <2>1 DEF Same, TxOf, Current
  <2>3. HoldOf(v)'
    BY <2>1 DEF Same, HoldOf, Current, Dead, On
  <2>4. CallOf(v)'
    BY <2>1 DEF Same, CallOf, Current, On
  <2> QED BY <2>2, <2>3, <2>4
<1>3. WorkersInv'
  BY <1>2 DEF WorkersInv
<1>4. ReleaseInv'
  BY DEF RestInv, ReleaseInv, Dead
<1>5. TokenInv'
  BY SameTokens DEF RestInv
<1> QED BY <1>1, <1>3, <1>4, <1>5 DEF RestInv

LEMMA WorkerFacts ==
  ASSUME IInv, NEW w \in Workers
  PROVE  /\ TxOf(w) /\ HoldOf(w) /\ CallOf(w)
         /\ now \in Nat
         /\ pc[w] \in Pcs
         /\ tx[w].outcome \in Outcomes /\ tx[w].at \in Nat /\ tx[w].mid \in MachineIds
         /\ machine_id[w] \in MachineIds /\ fencing[w] \in Nat
         /\ poisoned[w] \in BOOLEAN
         /\ mono_deadline[w] \in Nat /\ wall_deadline[w] \in Int
         /\ mono[w] \in Nat /\ wall[w] \in Int
         /\ call[w] \in Calls
<1>1. /\ now \in Nat /\ tx[w] \in Txs /\ fencing[w] \in Nat /\ mono[w] \in Nat
      /\ Times \subseteq Nat
  BY Zeros DEF IInv, TypeOK, Times
<1> QED BY <1>1 DEF IInv, RestInv, WorkersInv, TypeOK, Txs

LEMMA RowFacts ==
  ASSUME IInv, NEW m \in MachineIds
  PROVE  /\ claimed_at[m] = NULL <=> reclaimable_after[m] = NULL
         /\ claimed_at[m] # NULL =>
              /\ claimed_at[m] \in Nat /\ reclaimable_after[m] \in Nat
              /\ claimed_at[m] <= now
              /\ claimed_at[m] + BOOTLOOP_GRACE <= reclaimable_after[m]
              /\ reclaimable_after[m] <= now + RECLAIM_TTL
         /\ NULL \notin Nat
<1>1. Times \subseteq Nat
  BY Zeros DEF Times
<1>2. claimed_at[m] \in Times \cup {NULL} /\ reclaimable_after[m] \in Nat \cup {NULL}
  BY DEF IInv, TypeOK
<1>3. /\ claimed_at[m] = NULL <=> reclaimable_after[m] = NULL
      /\ claimed_at[m] # NULL =>
           /\ claimed_at[m] <= now
           /\ claimed_at[m] + BOOTLOOP_GRACE <= reclaimable_after[m]
           /\ reclaimable_after[m] <= now + RECLAIM_TTL
  BY DEF IInv, RestInv, RowsInv
<1>4. NULL \notin Nat
  BY DEF NULL
<1> QED BY <1>1, <1>2, <1>3, <1>4

(* A worker whose lease is gone has nothing to keep. *)
LEMMA GoneKeeps ==
  ASSUME IInv, NEW w \in Workers, Gone(w)
  PROVE  /\ \A v \in Workers \ {w} : Same(v)
         /\ NoNewToken(w) /\ TxOf(w)' /\ HoldOf(w)' /\ CallOf(w)'
<1>1. /\ pc'[w] = "off" /\ tx'[w] = NoTx /\ call'[w] = NoCall /\ poisoned'[w] = FALSE
  BY DEF Gone, Goto, EndTx, IInv, TypeOK
<1>2. ASSUME NEW v \in Workers \ {w} PROVE Same(v)
  BY DEF Gone, Goto, EndTx, Same, IInv, TypeOK
<1>3. NoNewToken(w) /\ TxOf(w)' /\ HoldOf(w)' /\ CallOf(w)'
  BY <1>1 DEF NoNewToken, TxOf, HoldOf, CallOf, On, NoTx, NoCall, NULL
<1> QED BY <1>2, <1>3

(* A worker whose transaction fails keeps its lease as it is. *)
LEMMA RetryKeeps ==
  ASSUME IInv, NEW w \in Workers, NEW from, NEW to, NEW backoff,
         <<from, to>> \in {<<"beating", "sleep">>, <<"reclaiming", "lost">>},
         Retry(w, from, to, backoff),
         UNCHANGED <<now, claimed_at, reclaimable_after>>
  PROVE  /\ \A v \in Workers \ {w} : Same(v)
         /\ NoNewToken(w) /\ TxOf(w)' /\ HoldOf(w)' /\ CallOf(w)'
<1>1. /\ pc[w] = from /\ pc'[w] = to /\ tx'[w] = NoTx
      /\ UNCHANGED <<sharedVars, call, mono, wall, lagging>>
  BY DEF Retry, Goto, EndTx, IInv, TypeOK
<1>2. ASSUME NEW v \in Workers \ {w} PROVE Same(v)
  BY <1>1 DEF Retry, Goto, EndTx, Same, IInv, TypeOK, sharedVars
<1>3. TxOf(w) /\ HoldOf(w) /\ CallOf(w)
  BY WorkerFacts
<1>4. TxOf(w)'
  BY <1>1 DEF TxOf, NoTx
<1>5. NoNewToken(w) /\ HoldOf(w)' /\ CallOf(w)'
  BY <1>1, <1>3
  DEF NoNewToken, HoldOf, CallOf, On, Current, Dead, NoTx, sharedVars
<1> QED BY <1>2, <1>4, <1>5

LEMMA BeginBuildKeeps ==
  ASSUME IInv, NEW w \in Workers, BeginBuild(w) PROVE RestInv'
<1>1. /\ pc[w] = "off" /\ pc'[w] = "building"
      /\ tx'[w] = [outcome |-> "begun", at |-> now, mid |-> 0]
      /\ UNCHANGED <<now, claimed_at, reclaimable_after, releases, sharedVars, call>>
  BY DEF BeginBuild, BeginTx, Goto, IInv, TypeOK, dbVars
<1>2. \A v \in Workers \ {w} : Same(v)
  BY DEF BeginBuild, BeginTx, Goto, Same, IInv, TypeOK, sharedVars
<1>3. TxOf(w) /\ HoldOf(w) /\ CallOf(w) /\ now \in Nat /\ MaxDelay \in Nat
  BY WorkerFacts, Timing
<1>4. NoNewToken(w) /\ TxOf(w)' /\ HoldOf(w)' /\ CallOf(w)'
  BY <1>1, <1>3 DEF NoNewToken, TxOf, HoldOf, CallOf, On, sharedVars
<1> QED BY <1>1, <1>2, <1>4, LocalStep DEF IInv

LEMMA BeginReclaimKeeps ==
  ASSUME IInv, NEW w \in Workers, BeginReclaim(w) PROVE RestInv'
<1>1. /\ pc[w] = "lost" /\ pc'[w] = "reclaiming"
      /\ tx'[w] = [outcome |-> "begun", at |-> now, mid |-> 0]
      /\ UNCHANGED <<now, claimed_at, reclaimable_after, releases, sharedVars, call,
                     mono, wall, lagging>>
  BY DEF BeginReclaim, BeginTx, Goto, IInv, TypeOK, dbVars, clockVars
<1>2. \A v \in Workers \ {w} : Same(v)
  BY DEF BeginReclaim, BeginTx, Goto, Same, IInv, TypeOK, sharedVars, clockVars
<1>3. TxOf(w) /\ HoldOf(w) /\ CallOf(w) /\ now \in Nat /\ MaxDelay \in Nat
  BY WorkerFacts, Timing
<1>4. NoNewToken(w) /\ TxOf(w)' /\ CallOf(w)'
  BY <1>1, <1>3 DEF NoNewToken, TxOf, CallOf, On, Current, sharedVars
<1>5. HoldOf(w)'
  BY <1>1, <1>3 DEF HoldOf, On, Current, Dead, sharedVars
<1> QED BY <1>1, <1>2, <1>4, <1>5, LocalStep DEF IInv

LEMMA BeginHeartbeatKeeps ==
  ASSUME IInv, NEW w \in Workers, BeginHeartbeat(w) PROVE RestInv'
<1>1. /\ pc[w] = "sleep" /\ pc'[w] = "beating"
      /\ tx'[w] = [outcome |-> "begun", at |-> now, mid |-> 0]
      /\ UNCHANGED <<now, claimed_at, reclaimable_after, releases, sharedVars, call,
                     mono, wall, lagging>>
  BY DEF BeginHeartbeat, BeginTx, Goto, IInv, TypeOK, dbVars, clockVars
<1>2. \A v \in Workers \ {w} : Same(v)
  BY DEF BeginHeartbeat, BeginTx, Goto, Same, IInv, TypeOK, sharedVars, clockVars
<1>3. /\ TxOf(w) /\ HoldOf(w) /\ CallOf(w) /\ now \in Nat /\ MaxDelay \in Nat
      /\ machine_id[w] \in MachineIds /\ fencing[w] \in Nat
  BY WorkerFacts, Timing
<1>4. Current(w) => reclaimable_after[machine_id[w]] <= now + RECLAIM_TTL
  BY <1>3, RowFacts DEF Current
<1>5. NoNewToken(w) /\ CallOf(w)'
  BY <1>1, <1>3 DEF NoNewToken, CallOf, On, Current, sharedVars
<1>6. TxOf(w)'
  BY <1>1, <1>3, <1>4 DEF TxOf, Current, sharedVars
<1>7. HoldOf(w)'
  BY <1>1, <1>3 DEF HoldOf, On, Current, Dead, sharedVars
<1> QED BY <1>1, <1>2, <1>5, <1>6, <1>7, LocalStep DEF IInv

LEMMA ExecClaimNothingKeeps ==
  ASSUME IInv, NEW w \in Workers, ExecClaimNothing(w) PROVE RestInv'
<1>1. PICK o \in {"NotSeeded", "Exhausted"} : tx' = [tx EXCEPT ![w].outcome = o]
  BY DEF ExecClaimNothing
<1>2. /\ pc[w] \in {"building", "reclaiming"} /\ tx[w].outcome = "begun"
      /\ tx'[w].outcome = o /\ tx'[w].at = tx[w].at
      /\ UNCHANGED <<now, claimed_at, reclaimable_after, releases, pc, sharedVars, call,
                     mono, wall, lagging>>
  BY <1>1 DEF ExecClaimNothing, IInv, TypeOK, Txs, dbVars, clockVars
<1>3. \A v \in Workers \ {w} : Same(v)
  BY <1>1, <1>2 DEF Same, IInv, TypeOK, sharedVars
<1>4. TxOf(w) /\ HoldOf(w) /\ CallOf(w)
  BY WorkerFacts
<1>5. NoNewToken(w) /\ CallOf(w)'
  BY <1>2, <1>4 DEF NoNewToken, CallOf, On, Current, sharedVars
<1>6. TxOf(w)'
  BY <1>2, <1>4 DEF TxOf, Current, sharedVars
<1>7. HoldOf(w)'
  BY <1>2, <1>4 DEF HoldOf, On, Current, Dead, sharedVars
<1> QED BY <1>2, <1>3, <1>5, <1>6, <1>7, LocalStep DEF IInv

LEMMA ExecHeartbeatStolenKeeps ==
  ASSUME IInv, NEW w \in Workers, ExecHeartbeatStolen(w) PROVE RestInv'
<1>1. /\ pc[w] = "beating" /\ tx[w].outcome = "begun" /\ ~Current(w)
      /\ tx'[w].outcome = "Stolen" /\ tx'[w].at = tx[w].at
      /\ UNCHANGED <<now, claimed_at, reclaimable_after, releases, pc, sharedVars, call,
                     mono, wall, lagging>>
  BY DEF ExecHeartbeatStolen, Current, IInv, TypeOK, Txs, dbVars, clockVars
<1>2. \A v \in Workers \ {w} : Same(v)
  BY <1>1 DEF ExecHeartbeatStolen, Same, IInv, TypeOK, sharedVars
<1>3. TxOf(w) /\ HoldOf(w) /\ CallOf(w)
  BY WorkerFacts
<1>4. NoNewToken(w) /\ CallOf(w)'
  BY <1>1, <1>3 DEF NoNewToken, CallOf, On, Current, sharedVars
<1>5. TxOf(w)'
  BY <1>1, <1>3 DEF TxOf, Current, sharedVars
<1>6. HoldOf(w)'
  BY <1>1, <1>3 DEF HoldOf, On, Current, Dead, sharedVars
<1> QED BY <1>1, <1>2, <1>4, <1>5, <1>6, LocalStep DEF IInv

(* The margin that a late reply to a claim leaves. *)
LEMMA AdoptKeeps ==
  ASSUME IInv, Timely, NEW w \in Workers, Adopt(w) PROVE RestInv'
<1>1. /\ tx[w].outcome = "Got" /\ pc'[w] = "sleep" /\ tx'[w] = NoTx
      /\ machine_id'[w] = tx[w].mid /\ fencing'[w] = tx[w].at
      /\ poisoned'[w] = FALSE /\ lagging'[w] = {}
      /\ mono_deadline'[w] = mono[w] + BOOTLOOP_SELF_POISON
      /\ wall_deadline'[w] = wall[w] + BOOTLOOP_SELF_POISON
      /\ UNCHANGED <<now, claimed_at, reclaimable_after, releases, call, mono, wall>>
  BY DEF Adopt, refresh_deadlines, Goto, EndTx, IInv, TypeOK, dbVars
<1>2. \A v \in Workers \ {w} : Same(v)
  BY <1>1 DEF Adopt, refresh_deadlines, Goto, EndTx, Same, IInv, TypeOK
<1>3. /\ TxOf(w) /\ HoldOf(w) /\ CallOf(w) /\ now \in Nat /\ pc[w] \in Pcs
      /\ tx[w].at \in Nat /\ mono[w] \in Nat /\ wall[w] \in Int
      /\ {BOOTLOOP_SELF_POISON, BOOTLOOP_GRACE, MaxDelay, MaxInFlight} \subseteq Nat
  BY WorkerFacts, Timing
<1>4. TxOf(w)' /\ NoNewToken(w)
  BY <1>1, <1>3 DEF TxOf, NoNewToken, NoTx
<1>5. pc[w] \in {"building", "reclaiming"}
  BY <1>1, <1>3 DEF TxOf, Pcs
<1>6. call[w].at = NULL
  BY <1>3, <1>5 DEF HoldOf, CallOf, On
<1>7. CallOf(w)'
  BY <1>1, <1>3, <1>6 DEF CallOf
<1>8. /\ Current(w)'
      /\ reclaimable_after[tx[w].mid] = tx[w].at + BOOTLOOP_GRACE
      /\ now <= tx[w].at + MaxDelay
  BY <1>1, <1>3 DEF TxOf, Current
<1>9. BOOTLOOP_SELF_POISON + MaxInFlight <= reclaimable_after'[machine_id'[w]] - now'
  BY <1>1, <1>3, <1>8 DEF Timely
<1>10. HoldOf(w)'
  BY <1>1, <1>3, <1>8, <1>9 DEF HoldOf
<1> QED BY <1>1, <1>2, <1>4, <1>7, <1>10, LocalStep DEF IInv

LEMMA ClaimFailsKeeps ==
  ASSUME IInv, NEW w \in Workers, ClaimFails(w) PROVE RestInv'
  BY GoneKeeps, RetryKeeps, LocalStep DEF ClaimFails, BuildFails, IInv, dbVars

LEMMA TxErrorKeeps ==
  ASSUME IInv, NEW w \in Workers, TxError(w) PROVE RestInv'
  BY GoneKeeps, RetryKeeps, LocalStep DEF TxError, BuildFails, IInv, dbVars

(* The margin that a late reply to a heartbeat leaves. *)
LEMMA HeartbeatRenewedKeeps ==
  ASSUME IInv, Timely, NEW w \in Workers, HeartbeatRenewed(w) PROVE RestInv'
<1>1. /\ tx[w].outcome = "Renewed" /\ pc'[w] = "sleep" /\ tx'[w] = NoTx
      /\ poisoned'[w] = FALSE /\ lagging'[w] = {}
      /\ mono_deadline'[w] = mono[w] + SELF_POISON_AFTER
      /\ wall_deadline'[w] = wall[w] + SELF_POISON_AFTER
      /\ UNCHANGED <<now, claimed_at, reclaimable_after, releases, machine_id, fencing,
                     call, mono, wall>>
  BY DEF HeartbeatRenewed, refresh_deadlines, Goto, EndTx, IInv, TypeOK, dbVars
<1>2. \A v \in Workers \ {w} : Same(v)
  BY <1>1 DEF HeartbeatRenewed, refresh_deadlines, Goto, EndTx, Same, IInv, TypeOK
<1>3. /\ TxOf(w) /\ HoldOf(w) /\ CallOf(w) /\ now \in Nat /\ pc[w] \in Pcs
      /\ tx[w].at \in Nat /\ mono[w] \in Nat /\ wall[w] \in Int
      /\ {SELF_POISON_AFTER, RECLAIM_TTL, MaxDelay, MaxInFlight} \subseteq Nat
  BY WorkerFacts, Timing
<1>4. pc[w] = "beating"
  BY <1>1, <1>3 DEF TxOf, Pcs
<1>5. TxOf(w)' /\ NoNewToken(w)
  BY <1>1, <1>4 DEF TxOf, NoNewToken, NoTx, On
<1>6. CallOf(w)'
  BY <1>1, <1>3, <1>4 DEF CallOf, Current, On
<1>7. /\ Current(w)'
      /\ reclaimable_after[machine_id[w]] = tx[w].at + RECLAIM_TTL
      /\ now <= tx[w].at + MaxDelay
  BY <1>1, <1>3 DEF TxOf, Current
<1>8. SELF_POISON_AFTER + MaxInFlight <= reclaimable_after'[machine_id'[w]] - now'
  BY <1>1, <1>3, <1>7 DEF Timely
<1>9. HoldOf(w)'
  BY <1>1, <1>3, <1>7, <1>8 DEF HoldOf
<1> QED BY <1>1, <1>2, <1>5, <1>6, <1>9, LocalStep DEF IInv

LEMMA HeartbeatStolenKeeps ==
  ASSUME IInv, NEW w \in Workers, HeartbeatStolen(w) PROVE RestInv'
<1>1. /\ tx[w].outcome = "Stolen" /\ pc'[w] = "lost" /\ tx'[w] = NoTx
      /\ poisoned'[w] = TRUE
      /\ UNCHANGED <<now, claimed_at, reclaimable_after, releases, machine_id, fencing,
                     call, mono, wall, mono_deadline, wall_deadline, lagging>>
  BY DEF HeartbeatStolen, Goto, EndTx, IInv, TypeOK, dbVars, clockVars
<1>2. \A v \in Workers \ {w} : Same(v)
  BY <1>1 DEF HeartbeatStolen, Goto, EndTx, Same, IInv, TypeOK
<1>3. TxOf(w) /\ HoldOf(w) /\ CallOf(w) /\ pc[w] \in Pcs
  BY WorkerFacts
<1>4. pc[w] = "beating" /\ ~Current(w)
  BY <1>1, <1>3 DEF TxOf, Pcs
<1>5. TxOf(w)' /\ NoNewToken(w)
  BY <1>1, <1>4 DEF TxOf, NoNewToken, NoTx, On
<1>6. CallOf(w)' /\ HoldOf(w)'
  BY <1>1, <1>3, <1>4 DEF CallOf, HoldOf, Current, Dead, On
<1> QED BY <1>1, <1>2, <1>5, <1>6, LocalStep DEF IInv

LEMMA CrashKeeps ==
  ASSUME IInv, NEW w \in Workers, Crash(w) PROVE RestInv'
  BY GoneKeeps, LocalStep DEF Crash, IInv, dbVars

LEMMA BeginGenerateKeeps ==
  ASSUME IInv, NEW w \in Workers, BeginGenerate(w) PROVE RestInv'
<1>1. /\ On(w) /\ is_fresh(w) /\ call'[w] = [at |-> now, mid |-> NULL]
      /\ UNCHANGED <<now, claimed_at, reclaimable_after, releases, pc, tx, sharedVars,
                     mono, wall, lagging>>
  BY DEF BeginGenerate, IInv, TypeOK, dbVars, clockVars
<1>2. \A v \in Workers \ {w} : Same(v)
  BY <1>1 DEF BeginGenerate, Same, IInv, TypeOK, sharedVars
<1>3. TxOf(w) /\ HoldOf(w) /\ now \in Nat /\ MaxInFlight \in Nat
  BY WorkerFacts, Timing
<1>4. Current(w) /\ now + MaxInFlight < reclaimable_after[machine_id[w]]
  BY <1>1, FreshIsCurrent
<1>5. TxOf(w)' /\ NoNewToken(w)
  BY <1>1, <1>3 DEF TxOf, NoNewToken, On, Current, sharedVars
<1>6. HoldOf(w)'
  BY <1>1, <1>3 DEF HoldOf, On, Current, Dead, sharedVars
<1>7. CallOf(w)'
  BY <1>1, <1>3, <1>4 DEF CallOf, is_fresh, On, Current, sharedVars
<1> QED BY <1>1, <1>2, <1>5, <1>6, <1>7, LocalStep DEF IInv

LEMMA LoadMachineIdKeeps ==
  ASSUME IInv, NEW w \in Workers, LoadMachineId(w) PROVE RestInv'
<1>1. /\ call[w].at # NULL
      /\ call'[w].at = call[w].at /\ call'[w].mid = machine_id[w]
      /\ UNCHANGED <<now, claimed_at, reclaimable_after, releases, pc, tx, sharedVars,
                     mono, wall, lagging>>
  BY DEF LoadMachineId, NoCall, IInv, TypeOK, Calls, dbVars, clockVars
<1>2. \A v \in Workers \ {w} : Same(v)
  BY <1>1 DEF LoadMachineId, Same, IInv, TypeOK, sharedVars
<1>3. TxOf(w) /\ HoldOf(w) /\ CallOf(w)
  BY WorkerFacts
<1>4. TxOf(w)' /\ NoNewToken(w)
  BY <1>1, <1>3 DEF TxOf, NoNewToken, On, Current, sharedVars
<1>5. HoldOf(w)'
  BY <1>1, <1>3 DEF HoldOf, On, Current, Dead, sharedVars
<1>6. CallOf(w)'
  BY <1>1, <1>3 DEF CallOf, On, Current, sharedVars
<1> QED BY <1>1, <1>2, <1>4, <1>5, <1>6, LocalStep DEF IInv

LEMMA EndGenerateKeeps ==
  ASSUME IInv, NEW w \in Workers, EndGenerate(w) PROVE RestInv'
<1>1. /\ call'[w] = NoCall
      /\ UNCHANGED <<now, claimed_at, reclaimable_after, releases, pc, tx, sharedVars,
                     mono, wall, lagging>>
  BY DEF EndGenerate, IInv, TypeOK, dbVars, clockVars
<1>2. \A v \in Workers \ {w} : Same(v)
  BY <1>1 DEF EndGenerate, Same, IInv, TypeOK, sharedVars
<1>3. TxOf(w) /\ HoldOf(w)
  BY WorkerFacts
<1>4. TxOf(w)' /\ NoNewToken(w)
  BY <1>1, <1>3 DEF TxOf, NoNewToken, On, Current, sharedVars
<1>5. HoldOf(w)'
  BY <1>1, <1>3 DEF HoldOf, On, Current, Dead, sharedVars
<1>6. CallOf(w)'
  BY <1>1 DEF CallOf, NoCall
<1> QED BY <1>1, <1>2, <1>4, <1>5, <1>6, LocalStep DEF IInv

LEMMA StepWallKeeps ==
  ASSUME IInv, NEW w \in Workers, StepWall(w) PROVE RestInv'
<1>1. PICK d \in Nat :
        /\ \/ wall'[w] = wall[w] + d /\ lagging'[w] = lagging[w]
           \/ lagging'[w] = lagging[w] \cup {"wall"}
        /\ UNCHANGED <<now, claimed_at, reclaimable_after, releases, pc, tx, sharedVars,
                       call, mono>>
  BY EnvironmentAssumption DEF StepWall, IInv, TypeOK, dbVars
<1>2. \A v \in Workers \ {w} : Same(v)
  BY <1>1 DEF StepWall, Same, IInv, TypeOK, sharedVars
<1>3. /\ TxOf(w) /\ HoldOf(w) /\ CallOf(w) /\ now \in Nat /\ MaxInFlight \in Nat
      /\ machine_id[w] \in MachineIds /\ fencing[w] \in Nat
      /\ mono[w] \in Nat /\ wall[w] \in Int
      /\ mono_deadline[w] \in Nat /\ wall_deadline[w] \in Int
  BY WorkerFacts, Timing
<1>4. Current(w) => reclaimable_after[machine_id[w]] \in Nat
  BY <1>3, RowFacts DEF Current
<1>5. TxOf(w)' /\ NoNewToken(w)
  BY <1>1, <1>3 DEF TxOf, NoNewToken, On, Current, sharedVars
<1>6. CallOf(w)'
  BY <1>1, <1>3 DEF CallOf, On, Current, sharedVars
<1>7. HoldOf(w)'
  BY <1>1, <1>3, <1>4 DEF HoldOf, On, Current, Dead, sharedVars
<1> QED BY <1>1, <1>2, <1>5, <1>6, <1>7, LocalStep DEF IInv

-----------------------------------------------------------------------------
(* The steps that change the table, the releases or the time.              *)

(* A transaction's NOW() is later than any dead token. *)
LEMMA LaterThanDead ==
  ASSUME IInv, Timely, NEW w \in Workers, tx[w].outcome # "idle", NEW f \in Nat, Dead(f)
  PROVE  f # tx[w].at
<1>1. now <= tx[w].at + MaxDelay /\ tx[w].at \in Nat /\ now \in Nat
  BY WorkerFacts DEF TxOf
<1>2. /\ BOOTLOOP_SELF_POISON + MaxDelay + MaxInFlight <= BOOTLOOP_GRACE
      /\ BOOTLOOP_SELF_POISON \in Nat \ {0}
      /\ {MaxDelay, MaxInFlight, BOOTLOOP_GRACE} \subseteq Nat
  BY Timing, TimingAssumption DEF Timely
<1> QED BY <1>1, <1>2 DEF Dead

LEMMA ProvisionKeeps == ASSUME IInv, Provision PROVE RestInv'
<1>1. RowsInv'
  BY DEF Provision, IInv, RestInv, RowsInv
<1>2. ASSUME NEW w \in Workers PROVE TxOf(w)' /\ HoldOf(w)' /\ CallOf(w)'
  <2>1. TxOf(w) /\ HoldOf(w) /\ CallOf(w)
    BY WorkerFacts
  <2>2. TxOf(w)'
    BY <2>1 DEF Provision, TxOf, Current, sharedVars
  <2>3. HoldOf(w)'
    BY <2>1 DEF Provision, HoldOf, Current, On, Dead, sharedVars, clockVars
  <2>4. CallOf(w)'
    BY <2>1 DEF Provision, CallOf, Current, On, sharedVars
  <2> QED BY <2>2, <2>3, <2>4
<1>3. ReleaseInv' /\ TokenInv'
  BY DEF Provision, IInv, RestInv, ReleaseInv, TokenInv, On, Dead, sharedVars
<1> QED BY <1>1, <1>2, <1>3 DEF RestInv, WorkersInv

LEMMA LoseReleaseKeeps ==
  ASSUME IInv, NEW r \in releases, LoseRelease(r) PROVE RestInv'
<1>1. RowsInv'
  BY DEF LoseRelease, IInv, RestInv, RowsInv, dbVars
<1>2. ASSUME NEW w \in Workers PROVE TxOf(w)' /\ HoldOf(w)' /\ CallOf(w)'
  <2>1. TxOf(w) /\ HoldOf(w) /\ CallOf(w)
    BY WorkerFacts
  <2>2. TxOf(w)'
    BY <2>1 DEF LoseRelease, TxOf, Current, sharedVars, dbVars
  <2>3. HoldOf(w)'
    BY <2>1 DEF LoseRelease, HoldOf, Current, On, Dead, sharedVars, clockVars, dbVars
  <2>4. CallOf(w)'
    BY <2>1 DEF LoseRelease, CallOf, Current, On, sharedVars, dbVars
  <2> QED BY <2>2, <2>3, <2>4
<1>3. ReleaseInv' /\ TokenInv'
  BY DEF LoseRelease, IInv, RestInv, ReleaseInv, TokenInv, On, Dead, sharedVars, dbVars
<1> QED BY <1>1, <1>2, <1>3 DEF RestInv, WorkersInv

(* A release on its way repeats no other token: the dropped lease was the  *)
(* only one with it.                                                       *)
LEMMA DropKeeps == ASSUME IInv, NEW w \in Workers, Drop(w) PROVE RestInv'
<1> DEFINE t == [mid |-> machine_id[w], fencing |-> fencing[w]]
<1>1. /\ On(w) /\ releases' = releases \cup {t} /\ Gone(w)
      /\ UNCHANGED <<now, claimed_at, reclaimable_after>>
  BY DEF Drop, dbVars
<1>2. /\ \A v \in Workers \ {w} : Same(v)
      /\ NoNewToken(w) /\ TxOf(w)' /\ HoldOf(w)' /\ CallOf(w)'
  BY <1>1, GoneKeeps
<1>3. RowsInv'
  BY <1>1 DEF IInv, RestInv, RowsInv
<1>4. ASSUME NEW v \in Workers \ {w} PROVE TxOf(v)' /\ HoldOf(v)' /\ CallOf(v)'
  <2>1. Same(v) /\ TxOf(v) /\ HoldOf(v) /\ CallOf(v)
    BY <1>2, WorkerFacts
  <2> QED BY <1>1, <2>1 DEF Same, TxOf, HoldOf, CallOf, Current, Dead, On
<1>5. ReleaseInv'
  <2>1. claimed_at[t.mid] # t.fencing => Dead(t.fencing)
    BY <1>1, WorkerFacts DEF HoldOf, Current
  <2> QED BY <1>1, <2>1 DEF IInv, RestInv, ReleaseInv, Dead
<1>6. /\ pc'[w] = "off" /\ tx'[w].outcome = "idle"
  BY <1>1 DEF Gone, Goto, EndTx, NoTx, IInv, TypeOK
<1>7. ASSUME NEW v \in Workers, NEW r \in releases'
      PROVE  /\ (On(v) /\ r.mid = machine_id[v] => r.fencing # fencing[v])'
             /\ (tx[v].outcome = "Got" /\ r.mid = tx[v].mid => r.fencing # tx[v].at)'
  <2>1. CASE v = w
    BY <1>6, <2>1 DEF On
  <2>2. CASE v # w
    <3>1. Same(v) /\ TokenInv
      BY <1>2, <2>2 DEF IInv, RestInv
    <3>2. CASE r = t
      BY <1>1, <2>2, <3>1, <3>2 DEF Same, TokenInv, On
    <3>3. CASE r \in releases
      BY <2>2, <3>1, <3>3 DEF Same, TokenInv, On
    <3> QED BY <1>1, <3>2, <3>3
  <2> QED BY <2>1, <2>2
<1>8. ASSUME NEW v \in Workers, NEW u \in Workers, v # u
      PROVE  /\ (On(v) /\ On(u) /\ machine_id[v] = machine_id[u]
                   => fencing[v] # fencing[u])'
             /\ (On(v) /\ tx[u].outcome = "Got" /\ machine_id[v] = tx[u].mid
                   => fencing[v] # tx[u].at)'
             /\ (tx[v].outcome = "Got" /\ tx[u].outcome = "Got"
                   => tx[v].mid # tx[u].mid)'
  <2>1. CASE v = w \/ u = w
    BY <1>6, <2>1 DEF On
  <2>2. CASE v # w /\ u # w
    BY <1>2, <1>8, <2>2 DEF Same, IInv, RestInv, TokenInv, On
  <2> QED BY <2>1, <2>2
<1>9. TokenInv'
  BY <1>7, <1>8 DEF TokenInv
<1> QED BY <1>2, <1>3, <1>4, <1>5, <1>9 DEF RestInv, WorkersInv

(* A row freed by its token was nobody's lease any more. *)
LEMMA ExecReleaseKeeps ==
  ASSUME IInv, NEW r \in releases, ExecRelease(r) PROVE RestInv'
<1>1. CASE claimed_at[r.mid] # r.fencing
  <2>1. LoseRelease(r)
    BY <1>1 DEF ExecRelease, LoseRelease, dbVars
  <2> QED BY <2>1, LoseReleaseKeeps
<1>2. CASE claimed_at[r.mid] = r.fencing
  <2>1. /\ claimed_at' = [claimed_at EXCEPT ![r.mid] = NULL]
        /\ reclaimable_after' = [reclaimable_after EXCEPT ![r.mid] = NULL]
        /\ releases' = releases \ {r}
        /\ UNCHANGED <<now, pc, tx, sharedVars, call, mono, wall, lagging>>
    BY <1>2 DEF ExecRelease, clockVars
  <2>2. /\ r \in Tokens /\ r.mid \in MachineIds /\ r.fencing \in Nat /\ NULL \notin Nat
        /\ claimed_at \in [MachineIds -> Times \cup {NULL}]
        /\ reclaimable_after \in [MachineIds -> Nat \cup {NULL}]
    BY Zeros DEF IInv, TypeOK, Tokens, Times, NULL
  <2>3. /\ claimed_at'[r.mid] = NULL /\ reclaimable_after'[r.mid] = NULL
        /\ \A m \in MachineIds \ {r.mid} :
             /\ claimed_at'[m] = claimed_at[m]
             /\ reclaimable_after'[m] = reclaimable_after[m]
    BY <2>1, <2>2
  <2>4. RowsInv'
    BY <2>1, <2>3 DEF IInv, RestInv, RowsInv
  <2>5. ASSUME NEW v \in Workers PROVE TxOf(v)' /\ HoldOf(v)' /\ CallOf(v)'
    <3>1. /\ TxOf(v) /\ HoldOf(v) /\ CallOf(v) /\ machine_id[v] \in MachineIds
          /\ tx[v].mid \in MachineIds /\ fencing[v] \in Nat /\ pc[v] \in Pcs
      BY WorkerFacts
    <3>2. /\ On(v) /\ r.mid = machine_id[v] => r.fencing # fencing[v]
          /\ tx[v].outcome = "Got" /\ r.mid = tx[v].mid => r.fencing # tx[v].at
      BY DEF IInv, RestInv, TokenInv
    <3>3. On(v) => (Current(v)' <=> Current(v))
      BY <1>2, <2>1, <2>2, <2>3, <3>1, <3>2 DEF Current, sharedVars
    <3>4. On(v) /\ Current(v) =>
            reclaimable_after'[machine_id[v]] = reclaimable_after[machine_id[v]]
      BY <1>2, <2>3, <3>1, <3>2 DEF Current
    <3>5. TxOf(v)'
      BY <1>2, <2>1, <2>3, <3>1, <3>2, <3>3, <3>4 DEF TxOf, On, Pcs, sharedVars
    <3>6. HoldOf(v)'
      BY <2>1, <3>1, <3>3, <3>4 DEF HoldOf, On, Dead, sharedVars
    <3>7. CallOf(v)'
      BY <2>1, <3>1, <3>3, <3>4 DEF CallOf, On, sharedVars
    <3> QED BY <3>5, <3>6, <3>7
  <2>6. ReleaseInv'
    <3> SUFFICES ASSUME NEW q \in releases', claimed_at'[q.mid] # q.fencing
                 PROVE  Dead(q.fencing)'
      BY DEF ReleaseInv
    <3>1. q \in Tokens /\ q \in releases /\ q # r
      BY <2>1 DEF IInv, TypeOK
    <3>2. q.mid \in MachineIds /\ (q.mid = r.mid => q.fencing # r.fencing)
      BY <2>2, <3>1 DEF Tokens
    <3>3. claimed_at[q.mid] # q.fencing
      BY <1>2, <2>3, <3>2
    <3> QED BY <2>1, <3>1, <3>3 DEF IInv, RestInv, ReleaseInv, Dead
  <2>7. TokenInv'
    BY <2>1 DEF IInv, RestInv, TokenInv, On, sharedVars
  <2> QED BY <2>4, <2>5, <2>6, <2>7 DEF RestInv, WorkersInv
<1> QED BY <1>1, <1>2

(* A heartbeat only ever extends its own row. *)
LEMMA ExecHeartbeatExtends ==
  ASSUME IInv, NEW w \in Workers, ExecHeartbeat(w)
  PROVE  /\ On(w) /\ Current(w)
         /\ claimed_at' = claimed_at
         /\ \A m \in MachineIds \ {machine_id[w]} :
              reclaimable_after'[m] = reclaimable_after[m]
         /\ reclaimable_after'[machine_id[w]] = tx[w].at + RECLAIM_TTL
         /\ reclaimable_after[machine_id[w]] \in Nat
         /\ reclaimable_after[machine_id[w]] <= tx[w].at + RECLAIM_TTL
<1>1. /\ pc[w] = "beating" /\ tx[w].outcome = "begun" /\ Current(w)
      /\ claimed_at' = claimed_at
      /\ reclaimable_after' =
           [reclaimable_after EXCEPT ![machine_id[w]] = tx[w].at + RECLAIM_TTL]
  BY DEF ExecHeartbeat, Current
<1>2. /\ TxOf(w) /\ machine_id[w] \in MachineIds /\ fencing[w] \in Nat
      /\ DOMAIN reclaimable_after = MachineIds
  BY WorkerFacts DEF IInv, TypeOK
<1>3. reclaimable_after[machine_id[w]] \in Nat
  BY <1>1, <1>2, RowFacts DEF Current
<1> QED BY <1>1, <1>2, <1>3 DEF TxOf, On

LEMMA ExecHeartbeatKeeps ==
  ASSUME IInv, NEW w \in Workers, ExecHeartbeat(w) PROVE RestInv'
<1> DEFINE m == machine_id[w]
<1>1. /\ pc[w] = "beating" /\ tx[w].outcome = "begun"
      /\ tx' = [tx EXCEPT ![w].outcome = "Renewed"]
      /\ UNCHANGED <<now, releases, pc, sharedVars, call, mono, wall, lagging>>
  BY DEF ExecHeartbeat, clockVars
<1>2. tx'[w].outcome = "Renewed" /\ tx'[w].at = tx[w].at
  BY <1>1 DEF IInv, TypeOK, Txs
<1>3. \A v \in Workers \ {w} : Same(v)
  BY <1>1 DEF Same, IInv, TypeOK, sharedVars
<1>4. /\ On(w) /\ Current(w) /\ claimed_at' = claimed_at
      /\ \A k \in MachineIds \ {m} : reclaimable_after'[k] = reclaimable_after[k]
      /\ reclaimable_after'[m] = tx[w].at + RECLAIM_TTL
      /\ reclaimable_after[m] \in Nat
      /\ reclaimable_after[m] <= tx[w].at + RECLAIM_TTL
  BY ExecHeartbeatExtends
<1>5. /\ TxOf(w) /\ HoldOf(w) /\ CallOf(w) /\ m \in MachineIds /\ fencing[w] \in Nat
      /\ tx[w].at \in Nat /\ now \in Nat /\ mono[w] \in Nat /\ wall[w] \in Int
      /\ mono_deadline[w] \in Nat /\ wall_deadline[w] \in Int /\ call[w] \in Calls
      /\ {RECLAIM_TTL, BOOTLOOP_GRACE, MaxInFlight, MaxDelay} \subseteq Nat
  BY WorkerFacts, Timing
<1>6. claimed_at[m] # NULL /\ claimed_at[m] \in Nat
  BY <1>4, <1>5, RowFacts DEF Current
<1>7. RowsInv'
  <2> SUFFICES ASSUME NEW k \in MachineIds
               PROVE  /\ claimed_at'[k] = NULL <=> reclaimable_after'[k] = NULL
                      /\ claimed_at'[k] # NULL =>
                           /\ claimed_at'[k] <= now'
                           /\ claimed_at'[k] + BOOTLOOP_GRACE <= reclaimable_after'[k]
                           /\ reclaimable_after'[k] <= now' + RECLAIM_TTL
    BY DEF RowsInv
  <2>1. CASE k # m
    BY <1>1, <1>4, <2>1, RowFacts
  <2>2. CASE k = m
    <3>1. tx[w].at + RECLAIM_TTL # NULL
      BY <1>5 DEF NULL
    <3>2. tx[w].at <= now
      BY <1>1, <1>5 DEF TxOf
    <3> QED BY <1>1, <1>4, <1>5, <1>6, <2>2, <3>1, <3>2, RowFacts
  <2> QED BY <2>1, <2>2
<1>8. TxOf(w)'
  BY <1>1, <1>2, <1>4, <1>5 DEF TxOf, Current, sharedVars
<1>9. HoldOf(w)'
  BY <1>1, <1>4, <1>5 DEF HoldOf, On, Current, Dead, sharedVars
<1>10. CallOf(w)'
  <2>1. call[w].at # NULL => call[w].at \in Nat
    BY <1>5, Zeros DEF Calls, Times
  <2> QED BY <1>1, <1>4, <1>5, <2>1 DEF CallOf, On, Current, sharedVars
<1>11. ASSUME NEW v \in Workers \ {w} PROVE TxOf(v)' /\ HoldOf(v)' /\ CallOf(v)'
  <2>1. /\ Same(v) /\ TxOf(v) /\ HoldOf(v) /\ CallOf(v) /\ pc[v] \in Pcs
        /\ machine_id[v] \in MachineIds /\ tx[v].mid \in MachineIds
    BY <1>3, WorkerFacts
  <2>2. /\ On(v) /\ Current(v) => machine_id[v] # m
        /\ tx[v].outcome = "Got" => tx[v].mid # m
    BY <1>4, <2>1 DEF IInv, RestInv, TokenInv, Current, TxOf
  <2>3. TxOf(v)'
    BY <1>1, <1>4, <2>1, <2>2 DEF Same, TxOf, On, Pcs, Current
  <2>4. HoldOf(v)'
    BY <1>1, <1>4, <2>1, <2>2 DEF Same, HoldOf, On, Current, Dead
  <2>5. CallOf(v)'
    BY <1>1, <1>4, <2>1, <2>2 DEF Same, CallOf, On, Current
  <2> QED BY <2>3, <2>4, <2>5
<1>12. WorkersInv'
  BY <1>8, <1>9, <1>10, <1>11 DEF WorkersInv
<1>13. ReleaseInv'
  BY <1>1, <1>4 DEF IInv, RestInv, ReleaseInv, Dead
<1>14. NoNewToken(w)
  BY <1>1, <1>2 DEF NoNewToken, On, sharedVars
<1>15. TokenInv'
  BY <1>1, <1>3, <1>14, SameTokens DEF IInv, RestInv
<1> QED BY <1>7, <1>12, <1>13, <1>15 DEF RestInv

LEMMA TickKeeps == ASSUME IInv, Tick PROVE RestInv'
<1>1. /\ now' = now + 1 /\ now \in Nat
      /\ UNCHANGED <<dbVars, releases, pc, tx, sharedVars, call>>
      /\ {BOOTLOOP_GRACE, RECLAIM_TTL, MaxDelay, MaxInFlight} \subseteq Nat
  BY Timing, Zeros DEF Tick, IInv, TypeOK, Times
<1>2. RowsInv'
  <2> SUFFICES ASSUME NEW k \in MachineIds
               PROVE  /\ claimed_at[k] = NULL <=> reclaimable_after[k] = NULL
                      /\ claimed_at[k] # NULL =>
                           /\ claimed_at[k] <= now'
                           /\ claimed_at[k] + BOOTLOOP_GRACE <= reclaimable_after[k]
                           /\ reclaimable_after[k] <= now' + RECLAIM_TTL
    BY <1>1 DEF RowsInv, dbVars
  <2> QED BY <1>1, RowFacts
<1>3. \A f \in Nat : Dead(f) => Dead(f)'
  BY <1>1 DEF Dead
<1>4. ASSUME NEW v \in Workers PROVE TxOf(v)' /\ HoldOf(v)' /\ CallOf(v)'
  <2>1. /\ TxOf(v) /\ HoldOf(v) /\ CallOf(v)
        /\ tx[v].at \in Nat /\ machine_id[v] \in MachineIds /\ fencing[v] \in Nat
        /\ mono[v] \in Nat /\ wall[v] \in Int
        /\ mono_deadline[v] \in Nat /\ wall_deadline[v] \in Int /\ call[v] \in Calls
    BY WorkerFacts
  <2>2. /\ tx[v].outcome # "idle" => now < tx[v].at + MaxDelay
        /\ call[v] # NoCall => now < call[v].at + MaxInFlight
    BY DEF Tick
  <2>3. /\ On(v) => /\ "mono" \notin lagging'[v] =>
                         "mono" \notin lagging[v] /\ mono'[v] = mono[v] + 1
                    /\ "wall" \notin lagging'[v] =>
                         "wall" \notin lagging[v]
                    /\ wall'[v] = wall[v] + 1
    BY DEF Tick, Running, On
  <2>4. Current(v) => reclaimable_after[machine_id[v]] \in Nat
    BY <2>1, RowFacts DEF Current
  <2>5. TxOf(v)'
    BY <1>1, <2>1, <2>2 DEF TxOf, Current, sharedVars, dbVars
  <2>6. HoldOf(v)'
    BY <1>1, <1>3, <2>1, <2>3, <2>4 DEF HoldOf, On, Current, sharedVars, dbVars
  <2>7. CallOf(v)'
    <3>1. call[v].at # NULL => call[v].at \in Nat /\ call[v] # NoCall
      BY <2>1, Zeros DEF Calls, Times, NoCall
    <3> QED BY <1>1, <2>1, <2>2, <3>1 DEF CallOf, On, Current, sharedVars, dbVars
  <2> QED BY <2>5, <2>6, <2>7
<1>5. ReleaseInv'
  <2>1. \A r \in releases : r.fencing \in Nat
    BY Zeros DEF IInv, TypeOK, Tokens, Times
  <2> QED BY <1>1, <1>3, <2>1 DEF IInv, RestInv, ReleaseInv, dbVars
<1>6. TokenInv'
  BY <1>1 DEF IInv, RestInv, TokenInv, On, sharedVars
<1> QED BY <1>2, <1>4, <1>5, <1>6 DEF RestInv, WorkersInv

(* A claim takes a row that nobody has, or whose holder has stopped. *)
LEMMA ExecClaimTakes ==
  ASSUME IInv, Timely, NEW w \in Workers, ExecClaim(w)
  PROVE  \E m \in MachineIds :
           /\ pc[w] \in {"building", "reclaiming"} /\ tx[w].outcome = "begun"
           /\ tx' = [tx EXCEPT ![w].outcome = "Got", ![w].mid = m]
           /\ claimed_at' = [claimed_at EXCEPT ![m] = tx[w].at]
           /\ reclaimable_after' =
                [reclaimable_after EXCEPT ![m] = tx[w].at + BOOTLOOP_GRACE]
           /\ tx[w].at <= now /\ now <= tx[w].at + MaxDelay
           /\ reclaimable_after[m] # NULL => reclaimable_after[m] <= tx[w].at
           /\ claimed_at[m] # NULL => Dead(claimed_at[m])
<1>0. PICK locked \in SUBSET Lockable(w) :
        \E m \in Candidates(w, locked) :
          /\ tx' = [tx EXCEPT ![w].outcome = "Got", ![w].mid = m]
          /\ claimed_at' = [claimed_at EXCEPT ![m] = tx[w].at]
          /\ reclaimable_after' =
               [reclaimable_after EXCEPT ![m] = tx[w].at + BOOTLOOP_GRACE]
  BY DEF ExecClaim
<1>1. PICK m \in Candidates(w, locked) :
        /\ tx' = [tx EXCEPT ![w].outcome = "Got", ![w].mid = m]
        /\ claimed_at' = [claimed_at EXCEPT ![m] = tx[w].at]
        /\ reclaimable_after' =
             [reclaimable_after EXCEPT ![m] = tx[w].at + BOOTLOOP_GRACE]
  BY <1>0
<1>2. /\ m \in MachineIds
      /\ reclaimable_after[m] # NULL => reclaimable_after[m] <= tx[w].at
  BY DEF Candidates, IInv, TypeOK
<1>3. pc[w] \in {"building", "reclaiming"} /\ tx[w].outcome = "begun"
  BY DEF ExecClaim
<1>4. /\ tx[w].at <= now /\ now <= tx[w].at + MaxDelay
      /\ tx[w].at \in Nat /\ now \in Nat /\ BOOTLOOP_GRACE \in Nat
  BY <1>3, WorkerFacts, Timing DEF TxOf
<1>5. claimed_at[m] # NULL => Dead(claimed_at[m])
  BY <1>2, <1>4, RowFacts DEF Dead
<1> QED BY <1>1, <1>2, <1>3, <1>4, <1>5

LEMMA ExecClaimKeeps ==
  ASSUME IInv, Timely, NEW w \in Workers, ExecClaim(w) PROVE RestInv'
<1>1. PICK m \in MachineIds :
        /\ pc[w] \in {"building", "reclaiming"} /\ tx[w].outcome = "begun"
        /\ tx' = [tx EXCEPT ![w].outcome = "Got", ![w].mid = m]
        /\ claimed_at' = [claimed_at EXCEPT ![m] = tx[w].at]
        /\ reclaimable_after' =
             [reclaimable_after EXCEPT ![m] = tx[w].at + BOOTLOOP_GRACE]
        /\ tx[w].at <= now /\ now <= tx[w].at + MaxDelay
        /\ reclaimable_after[m] # NULL => reclaimable_after[m] <= tx[w].at
        /\ claimed_at[m] # NULL => Dead(claimed_at[m])
  BY ExecClaimTakes
<1>2. UNCHANGED <<now, releases, pc, sharedVars, call, mono, wall, lagging>>
  BY DEF ExecClaim, clockVars
<1>3. /\ tx'[w].outcome = "Got" /\ tx'[w].at = tx[w].at /\ tx'[w].mid = m
      /\ claimed_at'[m] = tx[w].at
      /\ reclaimable_after'[m] = tx[w].at + BOOTLOOP_GRACE
      /\ \A k \in MachineIds \ {m} :
           claimed_at'[k] = claimed_at[k] /\ reclaimable_after'[k] = reclaimable_after[k]
  BY <1>1 DEF IInv, TypeOK, Txs
<1>4. \A v \in Workers \ {w} : Same(v)
  BY <1>1, <1>2 DEF Same, IInv, TypeOK, sharedVars
<1>5. /\ TxOf(w) /\ HoldOf(w) /\ CallOf(w) /\ tx[w].at \in Nat /\ now \in Nat
      /\ machine_id[w] \in MachineIds /\ fencing[w] \in Nat
      /\ {RECLAIM_TTL, BOOTLOOP_GRACE, MaxInFlight, MaxDelay} \subseteq Nat
      /\ BOOTLOOP_GRACE <= RECLAIM_TTL /\ MaxDelay < BOOTLOOP_GRACE
  BY WorkerFacts, Timing, TimingAssumption DEF Timely
<1>6. \A f \in Nat : Dead(f) => Dead(f)' /\ f # tx[w].at
  BY <1>1, <1>2, <1>5, LaterThanDead DEF Dead
<1>7. RowsInv'
  <2> SUFFICES ASSUME NEW k \in MachineIds
               PROVE  /\ claimed_at'[k] = NULL <=> reclaimable_after'[k] = NULL
                      /\ claimed_at'[k] # NULL =>
                           /\ claimed_at'[k] <= now'
                           /\ claimed_at'[k] + BOOTLOOP_GRACE <= reclaimable_after'[k]
                           /\ reclaimable_after'[k] <= now' + RECLAIM_TTL
    BY DEF RowsInv
  <2>1. CASE k # m
    BY <1>2, <1>3, <2>1, RowFacts
  <2>2. CASE k = m
    <3>1. tx[w].at # NULL /\ tx[w].at + BOOTLOOP_GRACE # NULL
      BY <1>5 DEF NULL
    <3> QED BY <1>1, <1>2, <1>3, <1>5, <2>2, <3>1
  <2> QED BY <2>1, <2>2
(* Whoever had the row, or wants it as well. *)
<1>8. ASSUME NEW v \in Workers
      PROVE  /\ On(v) /\ machine_id[v] = m => Dead(fencing[v])
             /\ tx[v].outcome = "Got" => tx[v].mid # m
             /\ tx[v].outcome = "Renewed" => machine_id[v] # m
             /\ call[v].at # NULL => machine_id[v] # m
             /\ On(v) /\ ~poisoned[v] /\ Current(v) /\ machine_id[v] = m =>
                  /\ "mono" \notin lagging[v] => mono[v] >= mono_deadline[v]
                  /\ "wall" \notin lagging[v] => wall[v] >= wall_deadline[v]
  <2>1. /\ TxOf(v) /\ HoldOf(v) /\ CallOf(v) /\ fencing[v] \in Nat /\ tx[v].at \in Nat
        /\ mono[v] \in Nat /\ wall[v] \in Int /\ pc[v] \in Pcs
        /\ mono_deadline[v] \in Nat /\ wall_deadline[v] \in Int /\ call[v] \in Calls
        /\ NULL \notin Nat
    BY WorkerFacts DEF NULL
  <2>2. reclaimable_after[m] # NULL =>
          reclaimable_after[m] \in Nat /\ reclaimable_after[m] <= now
    BY <1>1, <1>5, RowFacts
  <2>3. On(v) /\ machine_id[v] = m => Dead(fencing[v])
    BY <1>1, <2>1 DEF HoldOf, Current
  <2>4. tx[v].outcome = "Got" => tx[v].mid # m
    BY <1>5, <2>1, <2>2 DEF TxOf
  <2>5. tx[v].outcome = "Renewed" => machine_id[v] # m
    BY <1>5, <2>1, <2>2 DEF TxOf
  <2>6. Current(v) /\ machine_id[v] = m => reclaimable_after[m] # NULL
    BY <2>1, RowFacts DEF Current
  <2>7. call[v].at # NULL => machine_id[v] # m
    <3>1. call[v].at # NULL => call[v].at \in Nat
      BY <2>1, Zeros DEF Calls, Times
    <3> QED BY <1>5, <2>1, <2>2, <2>6, <3>1 DEF CallOf
  <2>8. On(v) /\ ~poisoned[v] /\ Current(v) /\ machine_id[v] = m =>
          /\ "mono" \notin lagging[v] => mono[v] >= mono_deadline[v]
          /\ "wall" \notin lagging[v] => wall[v] >= wall_deadline[v]
    BY <1>5, <2>1, <2>2, <2>6 DEF HoldOf
  <2> QED BY <2>3, <2>4, <2>5, <2>7, <2>8
<1>9. ASSUME NEW v \in Workers
      PROVE  /\ On(v) /\ machine_id[v] = m => ~Current(v)'
             /\ machine_id[v] # m =>
                  /\ Current(v)' <=> Current(v)
                  /\ reclaimable_after'[machine_id[v]] = reclaimable_after[machine_id[v]]
  <2>1. fencing[v] \in Nat /\ machine_id[v] \in MachineIds
    BY WorkerFacts
  <2>2. On(v) /\ machine_id[v] = m => ~Current(v)'
    BY <1>2, <1>3, <1>6, <1>8, <2>1 DEF Current, sharedVars
  <2> QED BY <1>2, <1>3, <2>1, <2>2 DEF Current, sharedVars
<1>10. ASSUME NEW v \in Workers PROVE TxOf(v)' /\ HoldOf(v)' /\ CallOf(v)'
  <2>1. /\ TxOf(v) /\ HoldOf(v) /\ CallOf(v) /\ pc[v] \in Pcs /\ fencing[v] \in Nat
        /\ machine_id[v] \in MachineIds /\ tx[v].mid \in MachineIds
    BY WorkerFacts
  <2>2. HoldOf(v)'
    <3>1. On(v)' <=> On(v)
      BY <1>2 DEF On
    <3>2. CASE machine_id[v] = m
      BY <1>2, <1>6, <1>8, <1>9, <2>1, <3>1, <3>2 DEF HoldOf, On, sharedVars
    <3>3. CASE machine_id[v] # m
      BY <1>2, <1>6, <1>9, <2>1, <3>1, <3>3 DEF HoldOf, On, sharedVars
    <3> QED BY <3>2, <3>3
  <2>3. CallOf(v)'
    BY <1>2, <1>8, <1>9, <2>1 DEF CallOf, On, sharedVars
  <2>4. TxOf(v)'
    <3>1. CASE v = w
      BY <1>1, <1>2, <1>3, <1>5, <3>1 DEF TxOf
    <3>2. CASE v # w
      <4>1. /\ tx'[v] = tx[v] /\ pc'[v] = pc[v]
            /\ machine_id'[v] = machine_id[v] /\ now' = now
        BY <1>2, <1>4, <3>2 DEF Same
      <4>2. tx[v].outcome \in {"Renewed", "Stolen"} => On(v)
        BY <2>1 DEF TxOf, On, Pcs
      <4>3. tx[v].outcome = "Got" =>
              /\ claimed_at'[tx[v].mid] = tx[v].at
              /\ reclaimable_after'[tx[v].mid] = tx[v].at + BOOTLOOP_GRACE
        BY <1>3, <1>8, <2>1 DEF TxOf
      <4>4. /\ tx[v].outcome = "Renewed" =>
                 /\ Current(v)'
                 /\ reclaimable_after'[machine_id[v]] = tx[v].at + RECLAIM_TTL
            /\ tx[v].outcome = "Stolen" => ~Current(v)'
        BY <1>8, <1>9, <2>1, <4>2 DEF TxOf
      <4>5. pc[v] = "beating" /\ tx[v].outcome = "begun" /\ Current(v)' =>
              reclaimable_after'[machine_id[v]] <= tx[v].at + RECLAIM_TTL
        BY <1>9, <2>1 DEF TxOf, On
      <4> QED BY <2>1, <4>1, <4>3, <4>4, <4>5 DEF TxOf
    <3> QED BY <3>1, <3>2
  <2> QED BY <2>2, <2>3, <2>4
<1>11. ASSUME NEW r \in releases
       PROVE  /\ r.mid = m => Dead(r.fencing) /\ r.fencing # tx[w].at
              /\ r.fencing \in Nat /\ r.mid \in MachineIds
  <2>1. r.fencing \in Nat /\ r.mid \in MachineIds
    BY Zeros DEF IInv, TypeOK, Tokens, Times
  <2>2. r.mid = m => Dead(r.fencing)
    BY <1>1, <2>1 DEF IInv, RestInv, ReleaseInv, NULL
  <2> QED BY <1>6, <2>1, <2>2
<1>12. ReleaseInv'
  BY <1>2, <1>3, <1>6, <1>11 DEF IInv, RestInv, ReleaseInv
<1>13. ASSUME NEW v \in Workers, On(v), machine_id[v] = m PROVE fencing[v] # tx[w].at
  BY <1>6, <1>8, <1>13, WorkerFacts
<1>14. ASSUME NEW v \in Workers
       PROVE  \/ tx'[v] = tx[v]
              \/ v = w /\ tx'[v].outcome = "Got" /\ tx'[v].mid = m /\ tx'[v].at = tx[w].at
  BY <1>3, <1>4 DEF Same
<1>15. TokenInv'
  <2>1. TokenInv /\ UNCHANGED <<pc, machine_id, fencing, releases>>
    BY <1>2 DEF IInv, RestInv, sharedVars
  <2>2. \A v, u \in Workers :
          v # u /\ On(v)' /\ On(u)' /\ machine_id'[v] = machine_id'[u]
            => fencing'[v] # fencing'[u]
    BY <2>1 DEF TokenInv, On
  <2>3. \A v, u \in Workers :
          v # u /\ On(v)' /\ tx'[u].outcome = "Got" /\ machine_id'[v] = tx'[u].mid
            => fencing'[v] # tx'[u].at
    BY <1>13, <1>14, <2>1 DEF TokenInv, On
  <2>4. \A v, u \in Workers :
          v # u /\ tx'[v].outcome = "Got" /\ tx'[u].outcome = "Got"
            => tx'[v].mid # tx'[u].mid
    BY <1>8, <1>14, <2>1 DEF TokenInv
  <2>5. \A v \in Workers : \A r \in releases' :
          /\ On(v)' /\ r.mid = machine_id'[v] => r.fencing # fencing'[v]
          /\ tx'[v].outcome = "Got" /\ r.mid = tx'[v].mid => r.fencing # tx'[v].at
    BY <1>11, <1>14, <2>1 DEF TokenInv, On
  <2> QED BY <2>2, <2>3, <2>4, <2>5 DEF TokenInv
<1> QED BY <1>7, <1>10, <1>12, <1>15 DEF RestInv, WorkersInv

-----------------------------------------------------------------------------
(* The theorems. *)

LEMMA InitInv == Init => IInv
<1> SUFFICES ASSUME Init PROVE RestInv
  BY InitTypes DEF IInv
<1>1. /\ claimed_at = [m \in MachineIds |-> NULL]
      /\ reclaimable_after = [m \in MachineIds |-> NULL]
      /\ releases = {} /\ pc = [w \in Workers |-> "off"]
      /\ tx = [w \in Workers |-> NoTx] /\ call = [w \in Workers |-> NoCall]
      /\ poisoned = [w \in Workers |-> FALSE]
  BY DEF Init
<1>2. RowsInv /\ ReleaseInv
  BY <1>1 DEF RowsInv, ReleaseInv
<1>3. ASSUME NEW w \in Workers PROVE TxOf(w) /\ HoldOf(w) /\ CallOf(w)
  BY <1>1 DEF TxOf, HoldOf, CallOf, On, NoTx, NoCall
<1>4. TokenInv
  BY <1>1 DEF TokenInv, On, NoTx
<1> QED BY <1>2, <1>3, <1>4 DEF RestInv, WorkersInv

LEMMA NextKeeps == ASSUME Timely, IInv, [Next]_vars PROVE RestInv'
<1>1. CASE Tick
  BY <1>1, TickKeeps
<1>2. CASE Provision
  BY <1>2, ProvisionKeeps
<1>3. ASSUME NEW w \in Workers, TaskStep(w) PROVE RestInv'
  BY <1>3, BeginBuildKeeps, BeginReclaimKeeps, BeginHeartbeatKeeps, ExecClaimKeeps,
     ExecClaimNothingKeeps, ExecHeartbeatKeeps, ExecHeartbeatStolenKeeps, AdoptKeeps,
     ClaimFailsKeeps, TxErrorKeeps, HeartbeatRenewedKeeps, HeartbeatStolenKeeps
  DEF TaskStep
<1>4. ASSUME NEW w \in Workers, UserStep(w) PROVE RestInv'
  BY <1>4, DropKeeps, CrashKeeps, BeginGenerateKeeps, LoadMachineIdKeeps,
     EndGenerateKeeps
  DEF UserStep
<1>5. ASSUME NEW w \in Workers, StepWall(w) PROVE RestInv'
  BY <1>5, StepWallKeeps
<1>6. ASSUME NEW r \in releases, ExecRelease(r) \/ LoseRelease(r) PROVE RestInv'
  BY <1>6, ExecReleaseKeeps, LoseReleaseKeeps
<1>7. CASE UNCHANGED vars
  <2>1. UNCHANGED <<now, claimed_at, reclaimable_after, releases, pc, tx, sharedVars,
                    call, mono, wall, lagging>>
    BY <1>7 DEF vars, dbVars, clockVars
  <2>2. RowsInv' /\ ReleaseInv' /\ TokenInv'
    BY <2>1 DEF IInv, RestInv, RowsInv, ReleaseInv, TokenInv, On, Dead, sharedVars
  <2>3. ASSUME NEW w \in Workers PROVE TxOf(w)' /\ HoldOf(w)' /\ CallOf(w)'
    <3>1. TxOf(w) /\ HoldOf(w) /\ CallOf(w)
      BY WorkerFacts
    <3> QED BY <2>1, <3>1 DEF TxOf, HoldOf, CallOf, On, Current, Dead, sharedVars
  <2> QED BY <2>2, <2>3 DEF RestInv, WorkersInv
<1> QED BY <1>1, <1>2, <1>3, <1>4, <1>5, <1>6, <1>7 DEF Next

(* The induction: with the margins that the timing constants leave, the    *)
(* rows, the replies on their way, the deadlines, the calls, the releases  *)
(* and the tokens fit together in every reachable state.                   *)
THEOREM Invariance == ASSUME Timely PROVE Spec => []IInv
<1>1. Init => IInv
  BY InitInv
<1>2. IInv /\ [Next]_vars => IInv'
  BY Timely, TypeStep, NextKeeps DEF IInv
<1> QED BY <1>1, <1>2, PTL DEF Spec

(* Invariant S (docs/pg-machine-id-leasing.md 30): two workers can never   *)
(* issue IDs under the same machine ID at the same time.                   *)
THEOREM TwoNeverUseOneMachineId == ASSUME Timely PROVE Spec => []InvariantS
<1>1. Spec => []IInv
  BY Timely, Invariance
<1> QED BY <1>1, InvImpliesS, PTL

(* A machine ID in use belongs to a row with the user's token that nobody  *)
(* may reclaim yet.                                                        *)
THEOREM UseIsLeased == ASSUME Timely PROVE Spec => []InUseIsLeased
<1>1. Spec => []IInv
  BY Timely, Invariance
<1> QED BY <1>1, InvImpliesLeased, PTL

(* claimed_at identifies one claim of a row (lib.rs:110-113).              *)
THEOREM OneTokenPerClaim == ASSUME Timely PROVE Spec => []TokensIdentifyClaims
<1>1. Spec => []IInv
  BY Timely, Invariance
<1> QED BY <1>1, InvImpliesTokens, PTL

(* No step of anybody re-tokens, frees or shortens a row in use.           *)
LEMMA UsedRowKept ==
  ASSUME Timely, IInv, Next, NEW w \in Workers, NEW m \in Using(w)
  PROVE  /\ claimed_at'[m] = claimed_at[m]
         /\ reclaimable_after'[m] >= reclaimable_after[m]
<1>1. /\ On(w) /\ m = machine_id[w] /\ Current(w) /\ now < reclaimable_after[m]
      /\ m \in MachineIds
  BY UsingIsCurrent DEF Using
<1>2. /\ reclaimable_after[m] \in Nat /\ claimed_at[m] \in Nat /\ fencing[w] \in Nat
      /\ now \in Nat
  BY <1>1, WorkerFacts, RowFacts DEF Current
<1>3. ASSUME UNCHANGED <<claimed_at, reclaimable_after>>
      PROVE  /\ claimed_at'[m] = claimed_at[m]
             /\ reclaimable_after'[m] >= reclaimable_after[m]
  BY <1>2, <1>3
<1>4. ASSUME NEW v \in Workers, ExecClaim(v)
      PROVE  /\ claimed_at'[m] = claimed_at[m]
             /\ reclaimable_after'[m] >= reclaimable_after[m]
  <2>1. PICK k \in MachineIds :
          /\ claimed_at' = [claimed_at EXCEPT ![k] = tx[v].at]
          /\ reclaimable_after' =
               [reclaimable_after EXCEPT ![k] = tx[v].at + BOOTLOOP_GRACE]
          /\ tx[v].at <= now
          /\ reclaimable_after[k] # NULL => reclaimable_after[k] <= tx[v].at
    BY <1>4, ExecClaimTakes
  <2>2. k # m
    BY <1>1, <1>2, <2>1, WorkerFacts DEF NULL
  <2> QED BY <1>1, <1>2, <2>1, <2>2
<1>5. ASSUME NEW v \in Workers, ExecHeartbeat(v)
      PROVE  /\ claimed_at'[m] = claimed_at[m]
             /\ reclaimable_after'[m] >= reclaimable_after[m]
  <2>1. tx[v].at \in Nat /\ RECLAIM_TTL \in Nat
    BY WorkerFacts, Timing
  <2> QED BY <1>1, <1>2, <1>5, <2>1, ExecHeartbeatExtends
<1>6. ASSUME NEW r \in releases, ExecRelease(r)
      PROVE  /\ claimed_at'[m] = claimed_at[m]
             /\ reclaimable_after'[m] >= reclaimable_after[m]
  <2>1. claimed_at[r.mid] = r.fencing => r.mid # m
    BY <1>1 DEF Current, IInv, RestInv, TokenInv
  <2>2. \/ UNCHANGED <<claimed_at, reclaimable_after>>
        \/ /\ r.mid # m
           /\ claimed_at' = [claimed_at EXCEPT ![r.mid] = NULL]
           /\ reclaimable_after' = [reclaimable_after EXCEPT ![r.mid] = NULL]
    BY <1>6, <2>1 DEF ExecRelease
  <2>3. DOMAIN claimed_at = MachineIds /\ DOMAIN reclaimable_after = MachineIds
    BY DEF IInv, TypeOK
  <2> QED BY <1>1, <1>2, <2>2, <2>3
<1>7. ASSUME NEW v \in Workers, TaskStep(v)
      PROVE  /\ claimed_at'[m] = claimed_at[m]
             /\ reclaimable_after'[m] >= reclaimable_after[m]
  <2>1. \/ ExecClaim(v) \/ ExecHeartbeat(v)
        \/ UNCHANGED <<claimed_at, reclaimable_after>>
    BY <1>7 DEF TaskStep, BeginBuild, BeginReclaim, BeginHeartbeat, ExecClaimNothing,
                ExecHeartbeatStolen, Adopt, ClaimFails, TxError, HeartbeatRenewed,
                HeartbeatStolen, dbVars
  <2> QED BY <2>1, <1>3, <1>4, <1>5
<1>8. \/ UNCHANGED <<claimed_at, reclaimable_after>>
      \/ \E v \in Workers : TaskStep(v)
      \/ \E r \in releases : ExecRelease(r)
  BY DEF Next, Tick, Provision, UserStep, Drop, Crash, BeginGenerate, LoadMachineId,
         EndGenerate, StepWall, LoseRelease, dbVars
<1> QED BY <1>3, <1>6, <1>7, <1>8

(* While a machine ID is in use nobody's claim, heartbeat or release, late *)
(* or repeated, takes its row.                                             *)
THEOREM UseKeepsTheRow == ASSUME Timely PROVE Spec => RowInUseIsStable
<1>1. Spec => []IInv
  BY Timely, Invariance
<1>2. IInv /\ [Next]_vars =>
        [\A w \in Workers : \A m \in Using(w) :
           /\ claimed_at'[m] = claimed_at[m]
           /\ reclaimable_after'[m] >= reclaimable_after[m]]_vars
  BY Timely, UsedRowKept
<1> QED BY <1>1, <1>2, PTL DEF Spec, RowInUseIsStable

(* What a step does to the users: only Tick touches more than one worker,  *)
(* and time only ends a use.                                               *)
LEMMA SameUse ==
  ASSUME NEW w \in Workers, Same(w)
  PROVE  Using(w)' = Using(w)
BY DEF Same, Using, On, is_fresh

LEMMA TickEndsUse ==
  ASSUME IInv, Tick, NEW w \in Workers
  PROVE  Using(w)' \subseteq Using(w)
<1>1. /\ mono[w] \in Nat /\ wall[w] \in Int /\ mono_deadline[w] \in Nat
      /\ wall_deadline[w] \in Int
  BY WorkerFacts
<1>2. /\ mono'[w] \in {mono[w], mono[w] + 1} /\ wall'[w] \in {wall[w], wall[w] + 1}
      /\ UNCHANGED <<pc, poisoned, machine_id, call, mono_deadline, wall_deadline>>
  BY <1>1 DEF Tick, sharedVars
<1>3. is_fresh(w)' => is_fresh(w)
  BY <1>1, <1>2 DEF is_fresh
<1> QED BY <1>2, <1>3 DEF Using, On

LEMMA OneWorkerMoves ==
  ASSUME IInv, [Next]_vars, ~Tick
  PROVE  \E u \in Workers \cup {NULL} : \A w \in Workers \ {u} : Using(w)' = Using(w)
<1>1. ASSUME NEW u \in Workers, TaskStep(u) \/ UserStep(u) \/ StepWall(u),
             NEW w \in Workers \ {u}
      PROVE  Same(w)
  <2>1. CASE BeginBuild(u)
    BY <2>1 DEF BeginBuild, BeginTx, Goto, sharedVars, Same, IInv, TypeOK
  <2>2. CASE BeginReclaim(u)
    BY <2>2 DEF BeginReclaim, BeginTx, Goto, sharedVars, clockVars, Same, IInv, TypeOK
  <2>3. CASE BeginHeartbeat(u)
    BY <2>3 DEF BeginHeartbeat, BeginTx, Goto, sharedVars, clockVars, Same, IInv, TypeOK
  <2>4. CASE ExecClaim(u)
    BY <2>4 DEF ExecClaim, sharedVars, clockVars, Same, IInv, TypeOK
  <2>5. CASE ExecClaimNothing(u)
    BY <2>5 DEF ExecClaimNothing, sharedVars, clockVars, Same, IInv, TypeOK
  <2>6. CASE ExecHeartbeat(u)
    BY <2>6 DEF ExecHeartbeat, sharedVars, clockVars, Same, IInv, TypeOK
  <2>7. CASE ExecHeartbeatStolen(u)
    BY <2>7 DEF ExecHeartbeatStolen, sharedVars, clockVars, Same, IInv, TypeOK
  <2>8. CASE Adopt(u)
    BY <2>8 DEF Adopt, refresh_deadlines, Goto, EndTx, Same, IInv, TypeOK
  <2>9. CASE HeartbeatRenewed(u)
    BY <2>9 DEF HeartbeatRenewed, refresh_deadlines, Goto, EndTx, Same, IInv, TypeOK
  <2>10. CASE HeartbeatStolen(u)
    BY <2>10 DEF HeartbeatStolen, Goto, EndTx, clockVars, Same, IInv, TypeOK
  <2>11. CASE BeginGenerate(u)
    BY <2>11 DEF BeginGenerate, sharedVars, clockVars, Same, IInv, TypeOK
  <2>12. CASE LoadMachineId(u)
    BY <2>12 DEF LoadMachineId, sharedVars, clockVars, Same, IInv, TypeOK
  <2>13. CASE EndGenerate(u)
    BY <2>13 DEF EndGenerate, sharedVars, clockVars, Same, IInv, TypeOK
  <2>14. CASE StepWall(u)
    BY <2>14 DEF StepWall, sharedVars, Same, IInv, TypeOK
  <2>15. CASE ClaimFails(u) \/ TxError(u) \/ Drop(u) \/ Crash(u)
    BY <2>15, GoneKeeps, RetryKeeps
    DEF ClaimFails, TxError, Drop, Crash, BuildFails, dbVars
  <2> QED BY <1>1, <2>1, <2>2, <2>3, <2>4, <2>5, <2>6, <2>7, <2>8,
           <2>9, <2>10, <2>11, <2>12, <2>13, <2>14, <2>15
    DEF TaskStep, UserStep
<1>2. CASE \E u \in Workers : TaskStep(u) \/ UserStep(u) \/ StepWall(u)
  BY <1>1, <1>2, SameUse
<1>3. CASE Provision \/ (\E r \in releases : ExecRelease(r) \/ LoseRelease(r))
           \/ UNCHANGED vars
  <2>1. ASSUME NEW w \in Workers PROVE Same(w)
    BY <1>3 DEF Provision, ExecRelease, LoseRelease, vars, Same, sharedVars, clockVars
  <2> QED BY <2>1, SameUse
<1> QED BY <1>2, <1>3 DEF Next

(* The lease implements MachineIdUse: with the margins of Timely, no step  *)
(* of claims, heartbeats, expiry, steals, releases and calls takes a       *)
(* machine ID from one user straight to another.                           *)
THEOREM ImplementsUse == ASSUME Timely PROVE Spec => UseSpec
<1> DEFINE U(m) == {w \in Workers : m \in Using(w)}
           users == [m \in MachineIds |-> U(m)]
<1>1. Init => Use!Init
  <2> SUFFICES ASSUME Init PROVE \A w \in Workers : Using(w) = {}
    BY DEF Use!Init
  <2>1. ASSUME NEW w \in Workers PROVE ~On(w) /\ call[w].mid = NULL
    BY DEF Init, On, NoCall
  <2>2. NULL \notin MachineIds
    BY DEF NULL, MachineIds
  <2> QED BY <2>1, <2>2 DEF Using
<1>2. IInv /\ IInv' /\ [Next]_vars => [Use!Next]_users
  <2> SUFFICES ASSUME IInv, IInv', [Next]_vars, NEW m \in MachineIds
               PROVE  \/ U(m) = {} /\ \E w \in Workers : U(m)' = {w}
                      \/ U(m)' = {}
                      \/ U(m)' = U(m)
    BY DEF Use!Next, Use!Start, Use!Stop
  <2>1. InvariantS /\ InvariantS'
    BY InvImpliesS, PTL
  <2>2. SUFFICES ASSUME NEW w \in Workers, m \in Using(w)',
                        NEW v \in Workers, m \in Using(v), v # w
                 PROVE  FALSE
    BY <2>1 DEF InvariantS
  <2>3. m \notin Using(w) /\ m \notin Using(v)'
    BY <2>1, <2>2 DEF InvariantS
  <2>4. ~Tick
    BY <2>2, <2>3, TickEndsUse
  <2> QED BY <2>2, <2>3, <2>4, OneWorkerMoves
<1>3. Spec => []IInv
  BY Timely, Invariance
<1> QED BY <1>1, <1>2, <1>3, PTL DEF Spec, UseSpec, Use!Spec
-----------------------------------------------------------------------------
(* LeaseHealth: how many failed heartbeats a lease survives.               *)

(* The constants leave room for two back-offs, and clocks keep time.       *)
RoomForTwo == HEARTBEAT_INTERVAL + 2 * HEARTBEAT_RETRY_BACKOFF < SELF_POISON_AFTER
GoodClocks == Suspendable = {} /\ MaxWallSteps = 0

(* What is left of the lease when its first heartbeat is due, ... *)
Slack(w) == IF renewed[w] THEN SELF_POISON_AFTER - HEARTBEAT_INTERVAL
            ELSE BOOTLOOP_SELF_POISON - FIRST_HEARTBEAT_DELAY

(* ... and what the failed ones have cost. *)
Lost(w) == IF missed[w] = 0 THEN 0
           ELSE IF missed[w] = 1 THEN HEARTBEAT_RETRY_BACKOFF
           ELSE 2 * HEARTBEAT_RETRY_BACKOFF

HealthOf(w) ==
  /\ On(w) => mono_deadline[w] - mono[w] = wall_deadline[w] - wall[w]
  /\ missed[w] \in Nat
  /\ pc[w] = "beating" => tx[w].outcome # "idle"
  /\ tx[w].outcome \in {"Renewed", "Stolen"} => pc[w] = "beating"
  /\ tx[w].outcome = "Got" => pc[w] # "beating"
  /\ pc[w] \in {"lost", "reclaiming"} => poisoned[w]
  /\ missed[w] <= 2 =>
       /\ pc[w] = "sleep" =>
            mono[w] <= wake[w] /\ wake[w] + Slack(w) <= mono_deadline[w] + Lost(w)
       /\ pc[w] = "beating" => mono[w] + Slack(w) <= mono_deadline[w] + Lost(w)

HealthInv == \A w \in Workers : HealthOf(w)

(* w's task, lease and clocks stay as they are. *)
Unmoved(w) ==
  /\ pc'[w] = pc[w]     /\ tx'[w] = tx[w]   /\ wake'[w] = wake[w]
  /\ mono'[w] = mono[w] /\ wall'[w] = wall[w] /\ poisoned'[w] = poisoned[w]
  /\ mono_deadline'[w] = mono_deadline[w] /\ wall_deadline'[w] = wall_deadline[w]

(* Its deadlines and clocks do. *)
TimesKept(w) ==
  /\ mono'[w] = mono[w] /\ wall'[w] = wall[w]
  /\ mono_deadline'[w] = mono_deadline[w] /\ wall_deadline'[w] = wall_deadline[w]

LEMMA HealthNumbers ==
  ASSUME TypeOK, NEW w \in Workers
  PROVE  /\ mono[w] \in Nat /\ wall[w] \in Int /\ wake[w] \in Nat
         /\ mono_deadline[w] \in Nat /\ wall_deadline[w] \in Int
         /\ Slack(w) \in Int /\ Lost(w) \in Nat
         /\ HEARTBEAT_INTERVAL \in Nat /\ SELF_POISON_AFTER \in Nat
         /\ BOOTLOOP_SELF_POISON \in Nat /\ FIRST_HEARTBEAT_DELAY \in Nat
         /\ HEARTBEAT_RETRY_BACKOFF \in Nat
         /\ FIRST_HEARTBEAT_DELAY < BOOTLOOP_SELF_POISON
<1>1. /\ HEARTBEAT_INTERVAL \in Nat /\ SELF_POISON_AFTER \in Nat
      /\ BOOTLOOP_SELF_POISON \in Nat /\ FIRST_HEARTBEAT_DELAY \in Nat
      /\ HEARTBEAT_RETRY_BACKOFF \in Nat
      /\ FIRST_HEARTBEAT_DELAY < BOOTLOOP_SELF_POISON
  BY TimingAssumption
<1>2. /\ mono[w] \in Nat /\ wall[w] \in Int /\ wake[w] \in Nat
      /\ mono_deadline[w] \in Nat /\ wall_deadline[w] \in Int
  BY Zeros DEF TypeOK, Times
<1> QED BY <1>1, <1>2 DEF Slack, Lost

(* A worker's step is nobody else's. *)
LEMMA OthersUnmoved ==
  ASSUME TypeOK, NEW u \in Workers, TaskStep(u) \/ UserStep(u) \/ StepWall(u),
         NEW w \in Workers \ {u}
  PROVE  Unmoved(w)
<1> USE DEF TypeOK, Unmoved, sharedVars, clockVars, Goto, SleepFor, EndTx, BeginTx, WakeUp
<1>1. CASE BeginBuild(u)
  BY <1>1 DEF BeginBuild
<1>2. CASE BeginReclaim(u)
  BY <1>2 DEF BeginReclaim
<1>3. CASE BeginHeartbeat(u)
  BY <1>3 DEF BeginHeartbeat
<1>4. CASE ExecClaim(u)
  BY <1>4 DEF ExecClaim
<1>5. CASE ExecClaimNothing(u)
  BY <1>5 DEF ExecClaimNothing
<1>6. CASE ExecHeartbeat(u)
  BY <1>6 DEF ExecHeartbeat
<1>7. CASE ExecHeartbeatStolen(u)
  BY <1>7 DEF ExecHeartbeatStolen
<1>8. CASE Adopt(u)
  BY <1>8 DEF Adopt, refresh_deadlines
<1>9. CASE HeartbeatRenewed(u)
  BY <1>9 DEF HeartbeatRenewed, refresh_deadlines
<1>10. CASE HeartbeatStolen(u)
  BY <1>10 DEF HeartbeatStolen
<1>11. CASE BeginGenerate(u) \/ LoadMachineId(u) \/ EndGenerate(u)
  BY <1>11 DEF BeginGenerate, LoadMachineId, EndGenerate
<1>12. CASE StepWall(u)
  BY <1>12 DEF StepWall
<1>13. Gone(u) => Unmoved(w)
  BY DEF Gone
<1>14. ASSUME NEW p, NEW q, NEW d, Retry(u, p, q, d) PROVE Unmoved(w)
  BY <1>14 DEF Retry
<1>15. CASE ClaimFails(u) \/ TxError(u) \/ Drop(u) \/ Crash(u)
  BY <1>13, <1>14, <1>15 DEF ClaimFails, TxError, Drop, Crash, BuildFails
<1> QED BY <1>1, <1>2, <1>3, <1>4, <1>5, <1>6, <1>7, <1>8, <1>9, <1>10, <1>11, <1>12,
           <1>15 DEF TaskStep, UserStep

(* A step of w's own that neither refreshes its lease nor misses a beat. *)
LEMMA QuietTask ==
  ASSUME TypeOK, HealthInv, NEW w \in Workers, TaskStep(w) \/ UserStep(w),
         ~Refreshed(w), ~Missed(w), missed'[w] = missed[w], renewed'[w] = renewed[w]
  PROVE  HealthOf(w)'
<1>1. HealthOf(w) /\ pc[w] \in Pcs
  BY DEF HealthInv, TypeOK
<1>2. Slack(w)' = Slack(w) /\ Lost(w)' = Lost(w)
  BY DEF Slack, Lost
<1> HIDE DEF Slack, Lost
<1>3. ASSUME pc'[w] \in {"off", "building"}, tx'[w].outcome \in {"idle", "begun"}
      PROVE  HealthOf(w)'
  BY <1>1, <1>3 DEF HealthOf, On
<1>4. ASSUME pc'[w] \in {"lost", "reclaiming"}, tx'[w].outcome \in {"idle", "begun"},
             On(w), TimesKept(w), poisoned'[w]
      PROVE  HealthOf(w)'
  BY <1>1, <1>4 DEF HealthOf, TimesKept, On
<1>5. ASSUME Unmoved(w) PROVE HealthOf(w)'
  BY <1>1, <1>2, <1>5 DEF HealthOf, Unmoved, On
<1>6. ASSUME Gone(w) PROVE HealthOf(w)'
  <2>1. pc'[w] = "off" /\ tx'[w].outcome = "idle"
    BY <1>6 DEF Gone, Goto, EndTx, NoTx, TypeOK
  <2> QED BY <1>3, <2>1
<1>7. ASSUME NEW d, Retry(w, "reclaiming", "lost", d) PROVE HealthOf(w)'
  <2>1. /\ pc[w] = "reclaiming" /\ pc'[w] = "lost" /\ tx'[w].outcome = "idle"
        /\ TimesKept(w) /\ poisoned'[w] = poisoned[w]
    BY <1>7 DEF Retry, Goto, EndTx, NoTx, TimesKept, sharedVars, TypeOK
  <2>2. poisoned[w] /\ On(w)
    BY <1>1, <2>1 DEF HealthOf, On
  <2> QED BY <1>4, <2>1, <2>2
<1>8. CASE BeginBuild(w)
  <2>1. pc'[w] = "building" /\ tx'[w].outcome = "begun"
    BY <1>8 DEF BeginBuild, Goto, BeginTx, TypeOK
  <2> QED BY <1>3, <2>1
<1>9. CASE BeginReclaim(w)
  <2>1. /\ pc[w] = "lost" /\ pc'[w] = "reclaiming" /\ tx'[w].outcome = "begun"
        /\ TimesKept(w) /\ poisoned'[w] = poisoned[w]
    BY <1>9 DEF BeginReclaim, Goto, BeginTx, TimesKept, sharedVars, clockVars, TypeOK
  <2>2. poisoned[w] /\ On(w)
    BY <1>1, <2>1 DEF HealthOf, On
  <2> QED BY <1>4, <2>1, <2>2
<1>10. CASE BeginHeartbeat(w)
  <2>1. /\ pc[w] = "sleep" /\ pc'[w] = "beating" /\ tx'[w].outcome = "begun"
        /\ TimesKept(w)
    BY <1>10 DEF BeginHeartbeat, Goto, BeginTx, TimesKept, sharedVars, clockVars, TypeOK
  <2>2. missed[w] <= 2 => mono[w] + Slack(w) <= mono_deadline[w] + Lost(w)
    BY <1>1, <2>1, HealthNumbers DEF HealthOf
  <2> QED BY <1>1, <1>2, <2>1, <2>2 DEF HealthOf, TimesKept, On
<1>11. CASE \/ ExecClaim(w) \/ ExecClaimNothing(w)
            \/ ExecHeartbeat(w) \/ ExecHeartbeatStolen(w)
  <2>1. /\ pc'[w] = pc[w] /\ TimesKept(w) /\ poisoned'[w] = poisoned[w]
        /\ wake'[w] = wake[w]
    BY <1>11 DEF ExecClaim, ExecClaimNothing, ExecHeartbeat, ExecHeartbeatStolen,
       TimesKept, sharedVars, clockVars, TypeOK
  <2>2. \/ /\ pc[w] \in {"building", "reclaiming"}
           /\ tx'[w].outcome \in {"Got", "NotSeeded", "Exhausted"}
        \/ pc[w] = "beating" /\ tx'[w].outcome \in {"Renewed", "Stolen"}
    <3>1. tx \in [Workers -> Txs] /\ tx[w] \in Txs
      BY DEF TypeOK
    <3>2. CASE ExecClaim(w)
      BY <3>1, <3>2 DEF ExecClaim, Txs
    <3>3. CASE ExecClaimNothing(w)
      BY <3>1, <3>3 DEF ExecClaimNothing, Txs
    <3>4. CASE ExecHeartbeat(w)
      BY <3>1, <3>4 DEF ExecHeartbeat, Txs
    <3>5. CASE ExecHeartbeatStolen(w)
      BY <3>1, <3>5 DEF ExecHeartbeatStolen, Txs
    <3> QED BY <1>11, <3>2, <3>3, <3>4, <3>5
  <2> QED BY <1>1, <1>2, <2>1, <2>2 DEF HealthOf, TimesKept, On
<1>12. CASE ClaimFails(w)
  BY <1>6, <1>7, <1>12 DEF ClaimFails, BuildFails
<1>13. CASE TxError(w)
  <2>1. pc[w] # "beating"
    BY <1>13 DEF Missed
  <2>2. ~Retry(w, "beating", "sleep", HEARTBEAT_RETRY_BACKOFF)
    BY <2>1 DEF Retry
  <2> QED BY <1>6, <1>7, <1>13, <2>2 DEF TxError, BuildFails
<1>14. CASE HeartbeatStolen(w)
  <2>1. /\ tx[w].outcome = "Stolen" /\ pc'[w] = "lost" /\ tx'[w].outcome = "idle"
        /\ TimesKept(w) /\ poisoned'[w]
    BY <1>14 DEF HeartbeatStolen, Goto, EndTx, NoTx, TimesKept, clockVars, TypeOK
  <2>2. On(w)
    BY <1>1, <2>1 DEF HealthOf, On
  <2> QED BY <1>4, <2>1, <2>2
<1>15. CASE Drop(w) \/ Crash(w)
  BY <1>6, <1>15 DEF Drop, Crash
<1>16. CASE BeginGenerate(w) \/ LoadMachineId(w) \/ EndGenerate(w)
  <2>1. Unmoved(w)
    BY <1>16 DEF BeginGenerate, LoadMachineId, EndGenerate, Unmoved, sharedVars, clockVars
  <2> QED BY <1>5, <2>1
<1>17. ~Adopt(w) /\ ~HeartbeatRenewed(w)
  BY DEF Refreshed
<1> QED BY <1>8, <1>9, <1>10, <1>11, <1>12, <1>13, <1>14, <1>15, <1>16, <1>17
        DEF TaskStep, UserStep

LEMMA RefreshKeepsHealth ==
  ASSUME TypeOK, HealthInv, NEW w \in Workers, Refreshed(w),
         missed'[w] = 0, renewed'[w] = (pc[w] = "beating")
  PROVE  HealthOf(w)'
<1>1. HealthOf(w) /\ mono[w] \in Nat /\ wall[w] \in Int
  BY HealthNumbers DEF HealthInv
<1>2. CASE Adopt(w)
  <2>1. /\ tx[w].outcome = "Got" /\ pc'[w] = "sleep" /\ tx'[w].outcome = "idle"
        /\ mono'[w] = mono[w] /\ wall'[w] = wall[w]
        /\ mono_deadline'[w] = mono[w] + BOOTLOOP_SELF_POISON
        /\ wall_deadline'[w] = wall[w] + BOOTLOOP_SELF_POISON
        /\ wake'[w] = mono[w] + FIRST_HEARTBEAT_DELAY
    BY <1>2 DEF Adopt, Goto, EndTx, NoTx, SleepFor, refresh_deadlines, TypeOK
  <2>2. ~renewed'[w]
    BY <1>1, <2>1 DEF HealthOf
  <2>3. Slack(w)' = BOOTLOOP_SELF_POISON - FIRST_HEARTBEAT_DELAY /\ Lost(w)' = 0
    BY <2>2 DEF Slack, Lost
  <2> HIDE DEF Slack, Lost
  <2> QED BY <1>1, <2>1, <2>3, HealthNumbers DEF HealthOf, On
<1>3. CASE HeartbeatRenewed(w)
  <2>1. /\ tx[w].outcome = "Renewed" /\ pc'[w] = "sleep" /\ tx'[w].outcome = "idle"
        /\ mono'[w] = mono[w] /\ wall'[w] = wall[w]
        /\ mono_deadline'[w] = mono[w] + SELF_POISON_AFTER
        /\ wall_deadline'[w] = wall[w] + SELF_POISON_AFTER
        /\ wake'[w] = mono[w] + HEARTBEAT_INTERVAL
    BY <1>3 DEF HeartbeatRenewed, Goto, EndTx, NoTx, SleepFor, refresh_deadlines, TypeOK
  <2>2. renewed'[w]
    BY <1>1, <2>1 DEF HealthOf
  <2>3. Slack(w)' = SELF_POISON_AFTER - HEARTBEAT_INTERVAL /\ Lost(w)' = 0
    BY <2>2 DEF Slack, Lost
  <2> HIDE DEF Slack, Lost
  <2> QED BY <1>1, <2>1, <2>3, HealthNumbers DEF HealthOf, On
<1> QED BY <1>2, <1>3 DEF Refreshed

(* Each back-off is paid for by what the lease has left. *)
LEMMA MissKeepsHealth ==
  ASSUME TypeOK, HealthInv, NEW w \in Workers, Missed(w),
         missed'[w] = missed[w] + 1, renewed'[w] = renewed[w]
  PROVE  HealthOf(w)'
<1>1. HealthOf(w)
  BY DEF HealthInv
<1>2. pc[w] = "beating" /\ Retry(w, "beating", "sleep", HEARTBEAT_RETRY_BACKOFF)
  BY DEF Missed, TxError, BuildFails, Retry
<1>3. /\ pc'[w] = "sleep" /\ tx'[w].outcome = "idle" /\ TimesKept(w)
      /\ wake'[w] = mono[w] + HEARTBEAT_RETRY_BACKOFF
  BY <1>2 DEF Retry, Goto, EndTx, NoTx, SleepFor, TimesKept, sharedVars, TypeOK
<1>4. Slack(w)' = Slack(w)
  BY DEF Slack
<1>5. missed[w] \in Nat
  BY <1>1 DEF HealthOf
<1>6. missed[w] + 1 <= 2 =>
        missed[w] <= 2 /\ Lost(w)' = Lost(w) + HEARTBEAT_RETRY_BACKOFF
  BY <1>5, HealthNumbers DEF Lost
<1> HIDE DEF Slack, Lost
<1>7. missed[w] + 1 <= 2 =>
        /\ mono[w] <= wake'[w]
        /\ wake'[w] + Slack(w) <= mono_deadline[w] + Lost(w)'
  BY <1>1, <1>2, <1>3, <1>6, HealthNumbers DEF HealthOf
<1> QED BY <1>1, <1>2, <1>3, <1>4, <1>5, <1>7 DEF HealthOf, TimesKept, On

LEMMA TickKeepsHealth ==
  ASSUME GoodClocks, TypeOK, HealthInv, NEW w \in Workers, Tick, ~Due(w),
         missed'[w] = missed[w], renewed'[w] = renewed[w]
  PROVE  HealthOf(w)'
<1>1. HealthOf(w)
  BY DEF HealthInv
<1>2. /\ pc'[w] = pc[w] /\ tx'[w] = tx[w] /\ wake'[w] = wake[w]
      /\ poisoned'[w] = poisoned[w] /\ mono_deadline'[w] = mono_deadline[w]
      /\ wall_deadline'[w] = wall_deadline[w]
  BY DEF Tick, sharedVars
<1>3. Running(w) => mono'[w] = mono[w] + 1 /\ wall'[w] = wall[w] + 1
  BY DEF Tick, GoodClocks
<1>4. Slack(w)' = Slack(w) /\ Lost(w)' = Lost(w)
  BY DEF Slack, Lost
<1>5. tx[w].outcome = "idle" /\ (pc[w] = "sleep" => mono[w] < wake[w])
  BY HealthNumbers DEF Due
<1>6. pc[w] # "beating"
  BY <1>1, <1>5 DEF HealthOf
<1>7. On(w) => Running(w)
  BY DEF On, Running
<1>8. On(w)' => mono_deadline'[w] - mono'[w] = wall_deadline'[w] - wall'[w]
  BY <1>1, <1>2, <1>3, <1>7, HealthNumbers DEF HealthOf, On
<1>9. pc[w] = "sleep" => mono'[w] <= wake[w]
  BY <1>3, <1>5, <1>7, HealthNumbers DEF On
<1> HIDE DEF Slack, Lost
<1> QED BY <1>1, <1>2, <1>4, <1>5, <1>6, <1>8, <1>9 DEF HealthOf

LEMMA HealthStep ==
  ASSUME GoodClocks, TypeOK, HealthInv, [HealthNext]_healthVars
  PROVE  HealthInv'
<1> SUFFICES ASSUME NEW w \in Workers PROVE HealthOf(w)'
  BY DEF HealthInv
<1>1. HealthOf(w)
  BY DEF HealthInv
<1>2. ASSUME Unmoved(w), missed'[w] = missed[w], renewed'[w] = renewed[w]
      PROVE  HealthOf(w)'
  <2>1. Slack(w)' = Slack(w) /\ Lost(w)' = Lost(w)
    BY <1>2 DEF Slack, Lost
  <2> HIDE DEF Slack, Lost
  <2> QED BY <1>1, <1>2, <2>1 DEF HealthOf, Unmoved, On
<1>3. CASE UNCHANGED healthVars
  BY <1>2, <1>3 DEF healthVars, vars, sharedVars, clockVars, Unmoved
<1>4. CASE HealthNext
  <2>1. /\ missed'[w] = IF Refreshed(w) THEN 0
                        ELSE IF Missed(w) THEN missed[w] + 1 ELSE missed[w]
        /\ renewed'[w] = IF Refreshed(w) THEN pc[w] = "beating" ELSE renewed[w]
        /\ Next /\ (now' # now => ~Due(w))
    BY <1>4 DEF HealthNext
  <2>2. CASE Refreshed(w)
    BY <2>1, <2>2, RefreshKeepsHealth
  <2>3. CASE ~Refreshed(w) /\ Missed(w)
    BY <2>1, <2>3, MissKeepsHealth
  <2>4. CASE ~Refreshed(w) /\ ~Missed(w)
    <3>1. missed'[w] = missed[w] /\ renewed'[w] = renewed[w]
      BY <2>1, <2>4
    <3>2. CASE Tick
      <4>1. now' # now
        BY <3>2, Zeros DEF Tick, TypeOK, Times
      <4> QED BY <2>1, <3>1, <3>2, <4>1, TickKeepsHealth
    <3>3. CASE Provision \/ \E r \in releases : ExecRelease(r) \/ LoseRelease(r)
      BY <1>2, <3>1, <3>3 DEF Provision, ExecRelease, LoseRelease, sharedVars, clockVars,
         Unmoved
    <3>4. ASSUME NEW u \in Workers, TaskStep(u) \/ UserStep(u) \/ StepWall(u)
          PROVE  HealthOf(w)'
      <4>1. CASE u # w
        BY <1>2, <3>1, <3>4, <4>1, OthersUnmoved
      <4>2. CASE u = w
        <5>1. ~StepWall(w)
          BY DEF StepWall, GoodClocks, TypeOK
        <5> QED BY <2>4, <3>1, <3>4, <4>2, <5>1, QuietTask
      <4> QED BY <4>1, <4>2
    <3> QED BY <2>1, <3>2, <3>3, <3>4 DEF Next
  <2> QED BY <2>2, <2>3, <2>4
<1> QED BY <1>3, <1>4

(* "Tolerates ~2 missed beats" (docs 6.2), for any workers and constants:  *)
(* with a punctual runtime and clocks that keep time, a lease that has     *)
(* been renewed stays usable through two failed heartbeats in a row, and   *)
(* one that has only been claimed while none has failed, whatever becomes  *)
(* of claims, crashes and steals, if two back-offs and an interval are     *)
(* shorter than SELF_POISON_AFTER.                                         *)
THEOREM LeaseSurvivesTwoMisses ==
  ASSUME RoomForTwo, GoodClocks
  PROVE  HealthSpec => []TwoMissesAreAbsorbed
<1>1. HealthInit => HealthInv
  <2> SUFFICES ASSUME HealthInit, NEW w \in Workers PROVE HealthOf(w)
    BY DEF HealthInv
  <2>1. pc[w] = "off" /\ tx[w].outcome = "idle" /\ missed[w] = 0
    BY DEF HealthInit, Init, NoTx
  <2> QED BY <2>1 DEF HealthOf, On
<1>2. TypeOK /\ HealthInv /\ [HealthNext]_healthVars => HealthInv'
  BY GoodClocks, HealthStep
<1>3. HealthSpec => Spec
  <2>1. HealthInit => Init
    BY DEF HealthInit
  <2>2. [HealthNext]_healthVars => [Next]_vars
    BY DEF HealthNext, healthVars
  <2> QED BY <2>1, <2>2, PTL DEF HealthSpec, Spec
<1>4. TypeOK /\ HealthInv => TwoMissesAreAbsorbed
  <2> SUFFICES ASSUME TypeOK, HealthInv, NEW w \in Workers, Leased(w),
                      missed[w] <= (IF renewed[w] THEN 2 ELSE 0)
               PROVE  is_fresh(w)
    BY DEF TwoMissesAreAbsorbed
  <2>1. HealthOf(w) /\ On(w) /\ ~poisoned[w] /\ pc[w] \in Pcs /\ missed[w] \in Nat
    BY DEF HealthInv, Leased, TypeOK, HealthOf
  <2>2. pc[w] \in {"sleep", "beating"}
    BY <2>1 DEF HealthOf, On, Pcs
  <2>3. missed[w] <= 2
    BY <2>1
  <2>4. mono[w] + Slack(w) <= mono_deadline[w] + Lost(w)
    <3> HIDE DEF Slack, Lost
    <3> QED BY <2>1, <2>2, <2>3, HealthNumbers DEF HealthOf
  <2>5. Lost(w) < Slack(w)
    <3>1. CASE renewed[w]
      BY <2>1, <2>3, <3>1, RoomForTwo, HealthNumbers DEF Slack, Lost, RoomForTwo
    <3>2. CASE ~renewed[w]
      BY <2>1, <3>2, HealthNumbers DEF Slack, Lost
    <3> QED BY <3>1, <3>2
  <2>6. mono[w] < mono_deadline[w]
    <3> HIDE DEF Slack, Lost
    <3> QED BY <2>4, <2>5, HealthNumbers
  <2>7. wall[w] < wall_deadline[w]
    <3>1. mono_deadline[w] - mono[w] = wall_deadline[w] - wall[w]
      BY <2>1 DEF HealthOf
    <3> QED BY <2>6, <3>1, HealthNumbers
  <2> QED BY <2>1, <2>6, <2>7 DEF is_fresh
<1> QED BY <1>1, <1>2, <1>3, <1>4, TypeCorrect, PTL DEF HealthSpec
=============================================================================
