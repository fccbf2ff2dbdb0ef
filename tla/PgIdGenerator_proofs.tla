------------------------ MODULE PgIdGenerator_proofs ------------------------
(***************************************************************************)
(* Theorems about PgIdGenerator for any workers, machine IDs and timing    *)
(* constants: under TimelyWindows, and if no lease is dropped, no ID is    *)
(* issued twice.  They rest on the invariant of MachineIdLease, taken      *)
(* twice: as it is, and Wide, with MaxInFlight longer by Margin, that is,  *)
(* as if an ID were in use until it is old enough for its window to be     *)
(* over by every clock.                                                    *)
(***************************************************************************)
EXTENDS PgIdGenerator, MachineIdLease_proofs

Wide == INSTANCE MachineIdLease_proofs WITH MaxInFlight <- MaxInFlight + Margin

-----------------------------------------------------------------------------
(* The wide lease.  Only Tick knows of MaxInFlight, and there it is the    *)
(* weaker guard.                                                           *)

(* How far wall clocks may be stepped in all. *)
Skew == MaxWallStep * MaxWallSteps

LEMMA Margins ==
  /\ Skew \in Nat /\ Margin \in Nat /\ Margin = WINDOW - 1 + Skew
  /\ WINDOW \in Nat /\ WINDOW > 0
<1>1. /\ MaxWallStep \in Nat /\ MaxWallSteps \in Nat
      /\ WINDOW \in Nat /\ WINDOW > 0
  BY EnvironmentAssumption, WindowAssumption
<1>2. MaxWallStep * MaxWallSteps \in Nat
  BY <1>1
<1> QED BY <1>1, <1>2 DEF Skew, Margin

LEMMA WideAssumptions == Wide!TimingAssumption /\ Wide!EnvironmentAssumption
<1>1. MaxInFlight + Margin \in Nat
  BY Margins, EnvironmentAssumption
<1>2. Wide!TimingAssumption
  BY TimingAssumption DEF Wide!TimingAssumption
<1>3. Wide!EnvironmentAssumption
  BY <1>1, EnvironmentAssumption DEF Wide!EnvironmentAssumption
<1> QED BY <1>2, <1>3

LEMMA TimelyBoth == ASSUME TimelyWindows PROVE Timely /\ Wide!Timely
<1>1. /\ {SELF_POISON_AFTER, MaxDelay, MaxInFlight, RECLAIM_TTL,
          BOOTLOOP_SELF_POISON, BOOTLOOP_GRACE} \subseteq Nat
      /\ Margin \in Nat
  BY Timing, Margins
<1> QED BY <1>1 DEF TimelyWindows, Timely, Wide!Timely

LEMMA WideInit == Init => Wide!Init
  BY DEF Init, Wide!Init, NULL, Wide!NULL, MachineIds, Wide!MachineIds, NoTx,
         Wide!NoTx, NoCall, Wide!NoCall

LEMMA WideTick == ASSUME TypeOK, Tick PROVE Wide!Tick
<1>1. /\ Margin \in Nat /\ MaxInFlight \in Nat /\ now \in Nat
      /\ \A w \in Workers : call[w] # NoCall => now < call[w].at + MaxInFlight
  BY Margins, Timing, Zeros DEF Tick, TypeOK, Times
<1>2. ASSUME NEW w \in Workers, call[w] # Wide!NoCall
      PROVE  now < call[w].at + (MaxInFlight + Margin)
  <2>1. call[w] # NoCall
    BY <1>2 DEF NoCall, Wide!NoCall, NULL, Wide!NULL
  <2>2. call[w].at \in Int
    BY Zeros DEF TypeOK, Calls, Times, NULL
  <2> QED BY <1>1, <2>1, <2>2
<1> QED
  BY <1>2 DEF Tick, Wide!Tick, Running, Wide!Running, dbVars, Wide!dbVars,
              sharedVars, Wide!sharedVars

(* The other steps are the same in either reading. *)
LEMMA WideClaims ==
  ASSUME NEW w \in Workers
  PROVE  /\ BeginBuild(w) => Wide!BeginBuild(w)
         /\ BeginReclaim(w) => Wide!BeginReclaim(w)
         /\ ExecClaim(w) => Wide!ExecClaim(w)
         /\ ExecClaimNothing(w) => Wide!ExecClaimNothing(w)
         /\ Adopt(w) => Wide!Adopt(w)
         /\ ClaimFails(w) => Wide!ClaimFails(w)
<1> USE DEF Goto, Wide!Goto, BeginTx, Wide!BeginTx, EndTx, Wide!EndTx, SleepFor,
        Wide!SleepFor, WakeUp, Wide!WakeUp, dbVars, Wide!dbVars, sharedVars,
        Wide!sharedVars, clockVars, Wide!clockVars, NoTx, Wide!NoTx
<1>1. /\ BeginBuild(w) => Wide!BeginBuild(w)
      /\ BeginReclaim(w) => Wide!BeginReclaim(w)
  BY DEF BeginBuild, Wide!BeginBuild, BeginReclaim, Wide!BeginReclaim
<1>2. Lockable(w) = Wide!Lockable(w)
  BY DEF Lockable, Wide!Lockable, MachineIds, Wide!MachineIds
<1>3. \A locked : Candidates(w, locked) = Wide!Candidates(w, locked)
  BY DEF Candidates, Wide!Candidates, NULL, Wide!NULL
<1>4. ASSUME ExecClaim(w) PROVE Wide!ExecClaim(w)
  <2> DEFINE Takes(m) ==
        /\ tx' = [tx EXCEPT ![w].outcome = "Got", ![w].mid = m]
        /\ claimed_at' = [claimed_at EXCEPT ![m] = tx[w].at]
        /\ reclaimable_after' =
             [reclaimable_after EXCEPT ![m] = tx[w].at + BOOTLOOP_GRACE]
  <2>1. PICK locked \in SUBSET Lockable(w) : \E m \in Candidates(w, locked) :
          (\A n \in Candidates(w, locked) : m <= n) /\ Takes(m)
    BY <1>4 DEF ExecClaim
  <2>2. \E l \in SUBSET Wide!Lockable(w) : \E m \in Wide!Candidates(w, l) :
          (\A n \in Wide!Candidates(w, l) : m <= n) /\ Takes(m)
    <3> HIDE DEF Takes
    <3> QED BY <1>2, <1>3, <2>1
  <2> QED BY <1>4, <2>2 DEF ExecClaim, Wide!ExecClaim
<1>5. ExecClaimNothing(w) => Wide!ExecClaimNothing(w)
  BY <1>2, <1>3 DEF ExecClaimNothing, Wide!ExecClaimNothing
<1>6. Adopt(w) => Wide!Adopt(w)
  BY DEF Adopt, Wide!Adopt, refresh_deadlines, Wide!refresh_deadlines
<1>7. ClaimFails(w) => Wide!ClaimFails(w)
  BY DEF ClaimFails, Wide!ClaimFails, BuildFails, Wide!BuildFails, Gone, Wide!Gone,
         Retry, Wide!Retry, NoCall, Wide!NoCall, NULL, Wide!NULL
<1> QED BY <1>1, <1>4, <1>5, <1>6, <1>7

LEMMA WideHeartbeats ==
  ASSUME NEW w \in Workers
  PROVE  /\ BeginHeartbeat(w) => Wide!BeginHeartbeat(w)
         /\ ExecHeartbeat(w) => Wide!ExecHeartbeat(w)
         /\ ExecHeartbeatStolen(w) => Wide!ExecHeartbeatStolen(w)
         /\ HeartbeatRenewed(w) => Wide!HeartbeatRenewed(w)
         /\ HeartbeatStolen(w) => Wide!HeartbeatStolen(w)
         /\ TxError(w) => Wide!TxError(w)
<1> USE DEF Goto, Wide!Goto, BeginTx, Wide!BeginTx, EndTx, Wide!EndTx, SleepFor,
        Wide!SleepFor, WakeUp, Wide!WakeUp, dbVars, Wide!dbVars, sharedVars,
        Wide!sharedVars, clockVars, Wide!clockVars, NoTx, Wide!NoTx
<1>1. BeginHeartbeat(w) => Wide!BeginHeartbeat(w)
  BY DEF BeginHeartbeat, Wide!BeginHeartbeat
<1>2. /\ ExecHeartbeat(w) => Wide!ExecHeartbeat(w)
      /\ ExecHeartbeatStolen(w) => Wide!ExecHeartbeatStolen(w)
  BY DEF ExecHeartbeat, Wide!ExecHeartbeat, ExecHeartbeatStolen,
         Wide!ExecHeartbeatStolen
<1>3. /\ HeartbeatRenewed(w) => Wide!HeartbeatRenewed(w)
      /\ HeartbeatStolen(w) => Wide!HeartbeatStolen(w)
  BY DEF HeartbeatRenewed, Wide!HeartbeatRenewed, refresh_deadlines,
         Wide!refresh_deadlines, HeartbeatStolen, Wide!HeartbeatStolen
<1>4. TxError(w) => Wide!TxError(w)
  BY DEF TxError, Wide!TxError, BuildFails, Wide!BuildFails, Gone, Wide!Gone,
         Retry, Wide!Retry, NoCall, Wide!NoCall, NULL, Wide!NULL
<1> QED BY <1>1, <1>2, <1>3, <1>4

LEMMA WideUse ==
  ASSUME NEW w \in Workers
  PROVE  /\ UserStep(w) => Wide!UserStep(w)
         /\ StepWall(w) => Wide!StepWall(w)
<1> USE DEF dbVars, Wide!dbVars, sharedVars, Wide!sharedVars, clockVars,
        Wide!clockVars, NoCall, Wide!NoCall, NULL, Wide!NULL
<1>1. Drop(w) \/ Crash(w) => Wide!Drop(w) \/ Wide!Crash(w)
  BY DEF Drop, Wide!Drop, Crash, Wide!Crash, Gone, Wide!Gone, Goto, Wide!Goto,
         EndTx, Wide!EndTx, NoTx, Wide!NoTx, On, Wide!On
<1>2. /\ BeginGenerate(w) => Wide!BeginGenerate(w)
      /\ LoadMachineId(w) => Wide!LoadMachineId(w)
      /\ EndGenerate(w) => Wide!EndGenerate(w)
  BY DEF BeginGenerate, Wide!BeginGenerate, LoadMachineId, Wide!LoadMachineId,
         EndGenerate, Wide!EndGenerate, On, Wide!On, is_fresh, Wide!is_fresh
<1>3. StepWall(w) => Wide!StepWall(w)
  BY DEF StepWall, Wide!StepWall, Running, Wide!Running
<1> QED BY <1>1, <1>2, <1>3 DEF UserStep, Wide!UserStep

LEMMA WideNext == ASSUME TypeOK, Next PROVE Wide!Next
<1>1. ASSUME NEW w \in Workers, TaskStep(w) PROVE Wide!TaskStep(w)
  BY <1>1, WideClaims, WideHeartbeats DEF TaskStep, Wide!TaskStep
<1>2. Provision => Wide!Provision
  BY DEF Provision, Wide!Provision, MachineIds, Wide!MachineIds, sharedVars,
         Wide!sharedVars, clockVars, Wide!clockVars
<1>3. ASSUME NEW r \in releases
      PROVE  /\ ExecRelease(r) => Wide!ExecRelease(r)
             /\ LoseRelease(r) => Wide!LoseRelease(r)
  BY DEF ExecRelease, Wide!ExecRelease, LoseRelease, Wide!LoseRelease, dbVars,
         Wide!dbVars, sharedVars, Wide!sharedVars, clockVars, Wide!clockVars,
         NULL, Wide!NULL
<1> QED BY <1>1, <1>2, <1>3, WideTick, WideUse DEF Next, Wide!Next

(* An ID leaves its row in use for Margin longer than it takes. *)
Ample == \A w \in Workers :
  call[w].at # NULL =>
    call[w].at + MaxInFlight + Margin < reclaimable_after[machine_id[w]]

(* The invariant of MachineIdLease, with and without Margin. *)
LeaseInv == IInv /\ Wide!IInv

LEMMA LeaseInit == Init => LeaseInv
  BY InitInv, WideInit, WideAssumptions, Wide!InitInv DEF LeaseInv

LEMMA LeaseStep == ASSUME TimelyWindows, LeaseInv, [Next]_vars PROVE LeaseInv'
<1>1. IInv'
  BY TimelyBoth, TypeStep, NextKeeps DEF LeaseInv, IInv
<1>2. [Wide!Next]_(Wide!vars)
  BY WideNext DEF LeaseInv, IInv, vars, Wide!vars, dbVars, Wide!dbVars, sharedVars,
                  Wide!sharedVars, clockVars, Wide!clockVars
<1>3. Wide!IInv'
  BY <1>2, TimelyBoth, WideAssumptions, Wide!TypeStep, Wide!NextKeeps
  DEF LeaseInv, Wide!IInv
<1> QED BY <1>1, <1>3 DEF LeaseInv

LEMMA LeaseIsAmple == LeaseInv => Ample
<1> SUFFICES ASSUME LeaseInv, NEW w \in Workers, call[w].at # NULL
             PROVE  call[w].at + MaxInFlight + Margin
                      < reclaimable_after[machine_id[w]]
  BY DEF Ample
<1>1. /\ call[w].at \in Int /\ MaxInFlight \in Int /\ Margin \in Int
  BY Margins, Timing, Zeros DEF LeaseInv, IInv, TypeOK, Calls, Times, NULL
<1>2. call[w].at + (MaxInFlight + Margin) < reclaimable_after[machine_id[w]]
  BY DEF LeaseInv, Wide!IInv, Wide!RestInv, Wide!WorkersInv, Wide!CallOf, NULL,
         Wide!NULL
<1> QED BY <1>1, <1>2

-----------------------------------------------------------------------------
(* What a step does to the table and to the tokens, if nothing is ever     *)
(* released: except for the claims, rows keep their tokens.                *)

Keeps == /\ claimed_at' = claimed_at
         /\ \A m \in MachineIds : reclaimable_after[m] # NULL =>
              reclaimable_after'[m] # NULL /\ reclaimable_after[m] <= reclaimable_after'[m]
         /\ \A v \in Workers : NoNewToken(v)

LEMMA SameTable ==
  ASSUME IInv, UNCHANGED <<claimed_at, reclaimable_after>>,
         \A v \in Workers : NoNewToken(v)
  PROVE  Keeps
<1>1. \A m \in MachineIds : reclaimable_after[m] \in Int
  BY DEF IInv, TypeOK, NULL
<1> QED BY <1>1 DEF Keeps

LEMMA GoneKeepsTokens ==
  ASSUME IInv, NEW w \in Workers, Gone(w), UNCHANGED <<claimed_at, reclaimable_after>>
  PROVE  Keeps
<1>1. \A v \in Workers : NoNewToken(v)
  BY DEF Gone, Goto, EndTx, NoTx, NoNewToken, On, IInv, TypeOK
<1> QED BY <1>1, SameTable

LEMMA RetryKeepsTokens ==
  ASSUME IInv, NEW w \in Workers, NEW from \in {"beating", "reclaiming"}, NEW to,
         NEW backoff, Retry(w, from, to, backoff), UNCHANGED <<claimed_at, reclaimable_after>>
  PROVE  Keeps
<1>1. \A v \in Workers : NoNewToken(v)
  BY DEF Retry, Goto, EndTx, NoTx, NoNewToken, On, IInv, TypeOK, sharedVars
<1> QED BY <1>1, SameTable

LEMMA TaskKeepsTokens ==
  ASSUME IInv, NEW w \in Workers, TaskStep(w), ~ExecClaim(w)
  PROVE  Keeps
<1> USE DEF Goto, BeginTx, EndTx, NoTx, NoNewToken, On, dbVars, sharedVars
<1>0. /\ pc \in [Workers -> Pcs] /\ tx \in [Workers -> Txs]
      /\ machine_id \in [Workers -> MachineIds] /\ fencing \in [Workers -> Times]
  BY DEF IInv, TypeOK
<1>1. CASE BeginBuild(w)
  <2>1. \A v \in Workers : NoNewToken(v)
    BY <1>0, <1>1 DEF BeginBuild
  <2> QED BY <1>1, <2>1, SameTable DEF BeginBuild
<1>2. CASE BeginReclaim(w) \/ BeginHeartbeat(w)
  <2>1. \A v \in Workers : NoNewToken(v)
    BY <1>0, <1>2 DEF BeginReclaim, BeginHeartbeat
  <2> QED BY <1>2, <2>1, SameTable DEF BeginReclaim, BeginHeartbeat
<1>3. CASE ExecClaimNothing(w) \/ ExecHeartbeatStolen(w)
  <2>1. \A v \in Workers : NoNewToken(v)
    BY <1>0, <1>3 DEF ExecClaimNothing, ExecHeartbeatStolen, Txs
  <2> QED BY <1>3, <2>1, SameTable DEF ExecClaimNothing, ExecHeartbeatStolen
<1>4. CASE ExecHeartbeat(w)
  <2>1. \A v \in Workers : NoNewToken(v)
    BY <1>0, <1>4 DEF ExecHeartbeat, Txs
  <2>2. /\ claimed_at' = claimed_at
        /\ \A m \in MachineIds \ {machine_id[w]} :
             reclaimable_after'[m] = reclaimable_after[m]
        /\ reclaimable_after'[machine_id[w]] = tx[w].at + RECLAIM_TTL
        /\ reclaimable_after[machine_id[w]] \in Nat
        /\ reclaimable_after[machine_id[w]] <= tx[w].at + RECLAIM_TTL
    BY <1>4, ExecHeartbeatExtends
  <2>3. /\ tx[w].at + RECLAIM_TTL # NULL
        /\ \A m \in MachineIds : reclaimable_after[m] \in Int
    BY WorkerFacts, Timing DEF NULL, IInv, TypeOK
  <2> QED BY <2>1, <2>2, <2>3 DEF Keeps
<1>5. CASE Adopt(w)
  <2>1. \A v \in Workers : NoNewToken(v)
    BY <1>0, <1>5 DEF Adopt
  <2> QED BY <1>5, <2>1, SameTable DEF Adopt
<1>6. CASE HeartbeatRenewed(w) \/ HeartbeatStolen(w)
  <2>1. pc[w] = "beating"
    BY <1>0, <1>6, WorkerFacts DEF HeartbeatRenewed, HeartbeatStolen, TxOf, Pcs
  <2>2. \A v \in Workers : NoNewToken(v)
    BY <1>0, <1>6, <2>1 DEF HeartbeatRenewed, HeartbeatStolen
  <2> QED BY <1>6, <2>2, SameTable DEF HeartbeatRenewed, HeartbeatStolen
<1>7. CASE ClaimFails(w) \/ TxError(w)
  <2>1. /\ UNCHANGED <<claimed_at, reclaimable_after>>
        /\ \/ Gone(w)
           \/ Retry(w, "beating", "sleep", HEARTBEAT_RETRY_BACKOFF)
           \/ Retry(w, "reclaiming", "lost", RECLAIM_RETRY_BACKOFF)
    BY <1>7 DEF ClaimFails, TxError, BuildFails
  <2> QED BY <2>1, GoneKeepsTokens, RetryKeepsTokens
<1> QED BY <1>1, <1>2, <1>3, <1>4, <1>5, <1>6, <1>7 DEF TaskStep

(* A claim takes a row whose time is over, and gives it a token that nobody *)
(* else has. *)
LEMMA ClaimTakesFreeRow ==
  ASSUME Timely, IInv, IInv', NEW w \in Workers, ExecClaim(w)
  PROVE  \E m \in MachineIds :
           /\ reclaimable_after[m] = NULL \/ reclaimable_after[m] <= now
           /\ tx'[w].mid = m /\ reclaimable_after'[m] # NULL
           /\ reclaimable_after[m] # NULL =>
                reclaimable_after[m] <= reclaimable_after'[m]
           /\ \A k \in MachineIds \ {m} :
                reclaimable_after'[k] = reclaimable_after[k]
           /\ \A v \in Workers \ {w} : tx'[v] = tx[v]
           /\ \A v \in Workers : On(v)' /\ Current(v)' =>
                On(v) /\ Current(v) /\ machine_id'[v] = machine_id[v]
<1>1. PICK m \in MachineIds :
        /\ pc[w] \in {"building", "reclaiming"}
        /\ tx' = [tx EXCEPT ![w].outcome = "Got", ![w].mid = m]
        /\ claimed_at' = [claimed_at EXCEPT ![m] = tx[w].at]
        /\ reclaimable_after' =
             [reclaimable_after EXCEPT ![m] = tx[w].at + BOOTLOOP_GRACE]
        /\ tx[w].at <= now
        /\ reclaimable_after[m] # NULL => reclaimable_after[m] <= tx[w].at
  BY ExecClaimTakes
<1>2. /\ tx[w].at \in Nat /\ now \in Nat /\ BOOTLOOP_GRACE \in Nat
      /\ reclaimable_after[m] \in Int
  BY WorkerFacts, Timing DEF IInv, TypeOK, NULL
<1>3. /\ tx \in [Workers -> Txs] /\ DOMAIN claimed_at = MachineIds
      /\ DOMAIN reclaimable_after = MachineIds
  BY DEF IInv, TypeOK
<1>4. /\ tx'[w].outcome = "Got" /\ tx'[w].mid = m /\ tx'[w].at = tx[w].at
      /\ \A v \in Workers \ {w} : tx'[v] = tx[v]
  BY <1>1, <1>3 DEF Txs
<1>5. ASSUME NEW v \in Workers, On(v)', Current(v)'
      PROVE  On(v) /\ Current(v) /\ machine_id'[v] = machine_id[v]
  <2>1. pc' = pc /\ machine_id' = machine_id /\ fencing' = fencing
    BY DEF ExecClaim, sharedVars
  <2>2. v # w
    <3> SUFFICES ASSUME v = w PROVE FALSE
      OBVIOUS
    <3>1. HoldOf(w)'
      BY DEF IInv, RestInv, WorkersInv
    <3> QED BY <1>1, <1>5, <2>1, <3>1 DEF HoldOf, On
  <2>3. machine_id[v] # m
    <3> SUFFICES ASSUME machine_id[v] = m PROVE FALSE
      OBVIOUS
    <3>1. fencing'[v] # tx'[w].at
      BY <1>4, <1>5, <2>1, <2>2 DEF IInv, RestInv, TokenInv
    <3> QED BY <1>1, <1>3, <1>4, <1>5, <2>1, <3>1 DEF Current
  <2> QED BY <1>1, <1>3, <1>5, <2>1, <2>3 DEF Current, On, IInv, TypeOK
<1>6. reclaimable_after'[m] = tx[w].at + BOOTLOOP_GRACE
  BY <1>1, <1>3
<1>7. reclaimable_after'[m] # NULL
  BY <1>2, <1>6 DEF NULL
<1>8. \A k \in MachineIds \ {m} : reclaimable_after'[k] = reclaimable_after[k]
  BY <1>1, <1>3
<1>9. /\ reclaimable_after[m] = NULL \/ reclaimable_after[m] <= now
      /\ reclaimable_after[m] # NULL => reclaimable_after[m] <= reclaimable_after'[m]
  BY <1>1, <1>2, <1>6
<1> QED BY <1>4, <1>5, <1>7, <1>8, <1>9

LEMMA OthersKeepTokens ==
  ASSUME IInv, releases = {}, Droppers = {}, [Next]_vars,
         \A w \in Workers : ~ExecClaim(w)
  PROVE  Keeps /\ releases' = {}
<1>1. CASE Tick \/ Provision \/ UNCHANGED vars
  <2>1. \A v \in Workers : NoNewToken(v)
    BY <1>1 DEF Tick, Provision, vars, sharedVars, NoNewToken, On
  <2> QED BY <1>1, <2>1, SameTable DEF Tick, Provision, vars, dbVars
<1>2. ASSUME NEW w \in Workers, TaskStep(w) PROVE Keeps /\ releases' = {}
  <2>1. releases' = releases
    BY <1>2 DEF TaskStep, BeginBuild, BeginReclaim, BeginHeartbeat, ExecClaim,
      ExecClaimNothing, ExecHeartbeat, ExecHeartbeatStolen, Adopt, ClaimFails, TxError,
      HeartbeatRenewed, HeartbeatStolen
  <2> QED BY <1>2, <2>1, TaskKeepsTokens
<1>3. ASSUME NEW w \in Workers, UserStep(w) \/ StepWall(w)
      PROVE  Keeps /\ releases' = {}
  <2>1. CASE Crash(w)
    BY <2>1, GoneKeepsTokens DEF Crash, dbVars
  <2>2. CASE \/ BeginGenerate(w) \/ LoadMachineId(w) \/ EndGenerate(w)
             \/ StepWall(w)
    <3>1. /\ UNCHANGED <<claimed_at, reclaimable_after, releases>>
          /\ UNCHANGED <<pc, tx, machine_id, fencing>>
      BY <2>2 DEF BeginGenerate, LoadMachineId, EndGenerate, StepWall, dbVars, sharedVars
    <3>2. \A v \in Workers : NoNewToken(v)
      BY <3>1 DEF NoNewToken, On
    <3> QED BY <3>1, <3>2, SameTable
  <2>3. ~Drop(w)
    BY DEF Drop
  <2> QED BY <1>3, <2>1, <2>2, <2>3 DEF UserStep
<1> QED BY <1>1, <1>2, <1>3 DEF Next

(* Rows keep their deadlines or get later ones; who holds a current token  *)
(* held it before or has just claimed it; who is about to be told of a     *)
(* claim was so before or has taken a row that was free.                   *)
LEMMA LeaseChange ==
  ASSUME Timely, IInv, IInv', releases = {}, Droppers = {}, [Next]_vars
  PROVE  /\ releases' = {}
         /\ \A m \in MachineIds : reclaimable_after[m] # NULL =>
              reclaimable_after'[m] # NULL /\ reclaimable_after[m] <= reclaimable_after'[m]
         /\ \A v \in Workers : On(v)' /\ Current(v)' =>
              \/ On(v) /\ Current(v) /\ machine_id'[v] = machine_id[v]
              \/ tx[v].outcome = "Got" /\ machine_id'[v] = tx[v].mid
         /\ \A v \in Workers : tx'[v].outcome = "Got" =>
              \/ tx[v].outcome = "Got" /\ tx'[v].mid = tx[v].mid
              \/ reclaimable_after[tx'[v].mid] = NULL
              \/ reclaimable_after[tx'[v].mid] <= now
<1>1. CASE \A w \in Workers : ~ExecClaim(w)
  <2>1. Keeps /\ releases' = {}
    BY <1>1, OthersKeepTokens
  <2>2. ASSUME NEW v \in Workers, On(v)', Current(v)'
        PROVE  \/ On(v) /\ Current(v) /\ machine_id'[v] = machine_id[v]
               \/ tx[v].outcome = "Got" /\ machine_id'[v] = tx[v].mid
    BY <2>1, <2>2 DEF Keeps, NoNewToken, Current
  <2> QED BY <2>1, <2>2 DEF Keeps, NoNewToken
<1>2. ASSUME NEW w \in Workers, ExecClaim(w)
      PROVE  /\ releases' = {}
             /\ \A m \in MachineIds : reclaimable_after[m] # NULL =>
                  /\ reclaimable_after'[m] # NULL
                  /\ reclaimable_after[m] <= reclaimable_after'[m]
             /\ \A v \in Workers : On(v)' /\ Current(v)' =>
                  On(v) /\ Current(v) /\ machine_id'[v] = machine_id[v]
             /\ \A v \in Workers : tx'[v].outcome = "Got" =>
                  \/ tx[v].outcome = "Got" /\ tx'[v].mid = tx[v].mid
                  \/ reclaimable_after[tx'[v].mid] = NULL
                  \/ reclaimable_after[tx'[v].mid] <= now
  <2>1. releases' = releases
    BY <1>2 DEF ExecClaim
  <2>2. \A m \in MachineIds : reclaimable_after[m] \in Int
    BY DEF IInv, TypeOK, NULL
  <2> QED BY <1>2, <2>1, <2>2, ClaimTakesFreeRow
<1> QED BY <1>1, <1>2

-----------------------------------------------------------------------------
(* Clocks. *)

(* By how much a wall clock may still be stepped, *)
Left == MaxWallStep * (MaxWallSteps - wallSteps)

(* and so how far a wall clock, that of a running worker or of one that is *)
(* yet to be built, can get behind the database's.                         *)
Behind == {Left} \cup {Left + (now - wall[v]) : v \in {u \in Workers : Running(u)}}

(* No two clocks get further apart than Skew. *)
Clocks == \A b \in Behind :
  /\ b <= Skew
  /\ \A w \in Workers : Running(w) => (wall[w] - now) + b <= Skew

(* Window ts is over by every clock when the database's is at t. *)
Over(ts, t) == \A b \in Behind : (ts * WINDOW + WINDOW) + b <= t

Steady ==
  /\ wallSteps' = wallSteps /\ now <= now'
  /\ \A v \in Workers : Running(v)' =>
       \/ Running(v) /\ now' - wall'[v] = now - wall[v]
       \/ wall'[v] = now'

Stepped(w) ==
  /\ wallSteps' = wallSteps + 1 /\ now' = now
  /\ \A v \in Workers : Running(v)' => Running(v)
  /\ \A v \in Workers \ {w} : wall'[v] = wall[v]
  /\ wall'[w] <= wall[w] + MaxWallStep /\ wall[w] <= wall'[w] + MaxWallStep

LEMMA ClockStep ==
  ASSUME IInv, [Next]_vars PROVE Steady \/ \E w \in Workers : Stepped(w)
<1>0. /\ now \in Nat /\ wall \in [Workers -> Int] /\ pc \in [Workers -> Pcs]
      /\ MaxWallStep \in Nat
  BY Zeros, EnvironmentAssumption DEF IInv, TypeOK, Times
<1>1. CASE Tick
  BY <1>0, <1>1 DEF Tick, Steady, Running
<1>2. CASE Provision \/ UNCHANGED vars
  BY <1>0, <1>2 DEF Provision, vars, clockVars, Steady, Running
<1>3. ASSUME NEW w \in Workers, TaskStep(w) \/ UserStep(w) PROVE Steady
  <2>1. CASE BeginBuild(w)
    BY <1>0, <2>1 DEF BeginBuild, Goto, Steady, Running
  <2>2. CASE Gone(w) /\ UNCHANGED <<now, wallSteps>>
    BY <1>0, <2>2 DEF Gone, Goto, Steady, Running
  <2>3. CASE /\ UNCHANGED <<now, wall, wallSteps>>
             /\ pc' = pc \/ (pc[w] # "off" /\ \E p : pc' = [pc EXCEPT ![w] = p])
    BY <1>0, <2>3 DEF Steady, Running
  <2>4. CASE Adopt(w) \/ HeartbeatRenewed(w) \/ HeartbeatStolen(w)
    <3>1. pc[w] # "off"
      BY <2>4, WorkerFacts DEF Adopt, HeartbeatRenewed, HeartbeatStolen, TxOf
    <3> QED BY <2>3, <2>4, <3>1 DEF Adopt, HeartbeatRenewed, HeartbeatStolen, Goto,
                                    clockVars
  <2>5. CASE BeginReclaim(w) \/ BeginHeartbeat(w)
    BY <2>3, <2>5 DEF BeginReclaim, BeginHeartbeat, Goto, clockVars
  <2>6. CASE \/ ExecClaim(w) \/ ExecClaimNothing(w) \/ ExecHeartbeat(w)
             \/ ExecHeartbeatStolen(w) \/ BeginGenerate(w) \/ LoadMachineId(w)
             \/ EndGenerate(w)
    BY <2>3, <2>6 DEF ExecClaim, ExecClaimNothing, ExecHeartbeat, ExecHeartbeatStolen,
                      BeginGenerate, LoadMachineId, EndGenerate, clockVars
  <2>7. CASE ClaimFails(w) \/ TxError(w)
    <3>1. \/ Gone(w)
          \/ Retry(w, "beating", "sleep", HEARTBEAT_RETRY_BACKOFF)
          \/ Retry(w, "reclaiming", "lost", RECLAIM_RETRY_BACKOFF)
      BY <2>7 DEF ClaimFails, TxError, BuildFails
    <3>2. UNCHANGED <<now, wallSteps>>
      BY <2>7 DEF ClaimFails, TxError
    <3> QED BY <2>2, <2>3, <3>1, <3>2 DEF Retry, Goto
  <2>8. CASE Drop(w) \/ Crash(w)
    BY <2>2, <2>8 DEF Drop, Crash
  <2> QED BY <1>3, <2>1, <2>4, <2>5, <2>6, <2>7, <2>8 DEF TaskStep, UserStep
<1>4. ASSUME NEW w \in Workers, StepWall(w) PROVE Stepped(w)
  <2>1. PICK d \in 1 .. MaxWallStep :
          \/ wall' = [wall EXCEPT ![w] = @ + d]
          \/ wall' = [wall EXCEPT ![w] = @ - d]
    BY <1>4 DEF StepWall
  <2>2. d \in Nat /\ d <= MaxWallStep
    BY <1>0
  <2>3. /\ wallSteps' = wallSteps + 1 /\ now' = now /\ pc' = pc
    BY <1>4 DEF StepWall
  <2> QED BY <1>0, <2>1, <2>2, <2>3 DEF Stepped, Running
<1>5. ASSUME NEW r \in releases, ExecRelease(r) \/ LoseRelease(r) PROVE Steady
  BY <1>0, <1>5 DEF ExecRelease, LoseRelease, clockVars, Steady, Running
<1> QED BY <1>1, <1>2, <1>3, <1>4, <1>5 DEF Next

LEMMA LeftOver ==
  ASSUME NEW steps \in 0 .. MaxWallSteps
  PROVE  /\ MaxWallStep * (MaxWallSteps - steps) \in Nat
         /\ MaxWallStep * (MaxWallSteps - steps) <= Skew
<1>1. MaxWallSteps \in Nat /\ MaxWallStep \in Nat
  BY EnvironmentAssumption
<1> DEFINE n == MaxWallSteps - steps
<1>2. n \in Nat /\ steps \in Nat /\ steps + n = MaxWallSteps
  BY <1>1
<1>3. \A a, b, c \in Nat : a * b \in Nat /\ a * (b + c) = a * b + a * c
  OBVIOUS
<1>4. /\ MaxWallStep * n \in Nat /\ MaxWallStep * steps \in Nat
      /\ MaxWallStep * MaxWallSteps = MaxWallStep * steps + MaxWallStep * n
  BY <1>1, <1>2, <1>3
<1> QED BY <1>4 DEF Skew

LEMMA ClockTypes ==
  ASSUME IInv
  PROVE  /\ Left \in Nat /\ Left <= Skew /\ now \in Nat
         /\ \A w \in Workers : wall[w] \in Int
         /\ Behind \subseteq Int
<1>1. /\ now \in Nat /\ \A w \in Workers : wall[w] \in Int
      /\ wallSteps \in 0 .. MaxWallSteps
  BY Zeros DEF IInv, TypeOK, Times
<1>2. Left \in Nat /\ Left <= Skew
  BY <1>1, LeftOver DEF Left
<1>3. Behind \subseteq Int
  BY <1>1, <1>2 DEF Behind
<1> QED BY <1>1, <1>2, <1>3

(* Whoever is behind was so before, by no less. *)
LEMMA BehindShrinks ==
  ASSUME IInv, IInv', [Next]_vars, Clocks
  PROVE  /\ Clocks'
         /\ \A c \in Behind' : \E b \in Behind : c <= b
<1>0. /\ Left \in Nat /\ now \in Nat /\ Left <= Skew
      /\ \A w \in Workers : wall[w] \in Int /\ wall'[w] \in Int
      /\ Left' \in Nat /\ now' \in Nat /\ Left' <= Skew
      /\ MaxWallStep \in Nat /\ Skew \in Nat
  <2>1. /\ now' \in Nat /\ \A w \in Workers : wall'[w] \in Int
        /\ wallSteps' \in 0 .. MaxWallSteps
    BY Zeros DEF IInv, TypeOK, Times
  <2>2. Left' \in Nat /\ Left' <= Skew
    BY <2>1, LeftOver DEF Left
  <2> QED BY <2>1, <2>2, ClockTypes, Margins, EnvironmentAssumption
<1>1. /\ Left \in Behind
      /\ \A v \in Workers : Running(v) => Left + (now - wall[v]) \in Behind
  BY DEF Behind
<1>2. \A c \in Behind' : \/ c = Left'
                        \/ \E v \in Workers : Running(v)' /\ c = Left' + (now' - wall'[v])
  BY DEF Behind
<1>3. \A v, w \in Workers : Running(v) /\ Running(w) =>
        /\ Left + (now - wall[v]) <= Skew
        /\ (wall[w] - now) + Left <= Skew
        /\ (wall[w] - now) + (Left + (now - wall[v])) <= Skew
  BY <1>1 DEF Clocks
<1>4. CASE Steady
  <2>1. Left' = Left
    BY <1>4 DEF Steady, Left
  <2>2. \A c \in Behind' : c = Left \/ \E v \in Workers : Running(v) /\ c = Left + (now - wall[v])
    BY <1>0, <1>2, <1>4, <2>1 DEF Steady
  <2>3. \A c \in Behind' : c \in Behind
    BY <1>1, <2>2
  <2>4. \A c \in Behind' : c \in Int /\ c <= Skew
    BY <1>0, <2>3, ClockTypes DEF Clocks
  <2>5. ASSUME NEW c \in Behind', NEW w \in Workers, Running(w)'
        PROVE  (wall'[w] - now') + c <= Skew
    <3>1. CASE wall'[w] = now'
      BY <1>0, <2>4, <3>1
    <3>2. CASE Running(w) /\ now' - wall'[w] = now - wall[w]
      <4>1. (wall[w] - now) + c <= Skew
        BY <2>3, <3>2 DEF Clocks
      <4> QED BY <1>0, <2>4, <3>2, <4>1
    <3> QED BY <1>4, <2>5, <3>1, <3>2 DEF Steady
  <2>6. Clocks'
    BY <2>4, <2>5 DEF Clocks, Skew
  <2> QED BY <2>3, <2>4, <2>6
<1>5. ASSUME NEW u \in Workers, Stepped(u)
      PROVE  Clocks' /\ \A c \in Behind' : \E b \in Behind : c <= b
  <2>1. Left' = Left - MaxWallStep
    <3>1. wallSteps \in Int /\ MaxWallSteps \in Int
      BY Zeros DEF IInv, TypeOK
    <3>2. \A k, n, x \in Int : k * (n - (x + 1)) = k * (n - x) - k
      OBVIOUS
    <3> QED BY <1>0, <1>5, <3>1, <3>2 DEF Stepped, Left
  <2>2. \A v \in Workers : Running(v)' =>
          /\ Running(v)
          /\ wall'[v] <= wall[v] + MaxWallStep /\ wall[v] <= wall'[v] + MaxWallStep
          /\ v = u \/ wall'[v] = wall[v]
    BY <1>0, <1>5 DEF Stepped
  <2>3. ASSUME NEW c \in Behind' PROVE \E b \in Behind : c <= b
    <3>1. CASE c = Left'
      BY <1>0, <1>1, <2>1, <3>1
    <3>2. ASSUME NEW v \in Workers, Running(v)', c = Left' + (now' - wall'[v])
          PROVE  \E b \in Behind : c <= b
      BY <1>0, <1>1, <1>5, <2>1, <2>2, <3>2 DEF Stepped
    <3> QED BY <1>2, <3>1, <3>2
  <2>4. ASSUME NEW c \in Behind' PROVE c \in Int /\ c <= Skew
    <3>1. c \in Int
      BY <1>0, <1>2
    <3> QED BY <1>0, <2>3, <3>1, ClockTypes DEF Clocks
  <2>5. ASSUME NEW c \in Behind', NEW w \in Workers, Running(w)'
        PROVE  (wall'[w] - now') + c <= Skew
    <3>1. CASE c = Left'
      BY <1>0, <1>3, <1>5, <2>1, <2>2, <2>5, <3>1 DEF Stepped
    <3>2. ASSUME NEW v \in Workers, Running(v)', c = Left' + (now' - wall'[v])
          PROVE  (wall'[w] - now') + c <= Skew
      <4>1. /\ (wall[w] - now) + (Left + (now - wall[v])) <= Skew
            /\ now' = now
        BY <1>3, <1>5, <2>2, <2>5, <3>2 DEF Stepped
      <4>2. CASE w = v
        BY <1>0, <3>2, <4>2
      <4>3. CASE w # v
        <5>1. wall'[w] - wall'[v] <= wall[w] - wall[v] + MaxWallStep
          BY <1>0, <2>2, <2>5, <3>2, <4>3
        <5> QED BY <1>0, <2>1, <3>2, <4>1, <5>1
      <4> QED BY <4>2, <4>3
    <3> QED BY <1>2, <2>5, <3>1, <3>2
  <2>6. Clocks'
    BY <2>4, <2>5 DEF Clocks, Skew
  <2> QED BY <2>3, <2>6
<1> QED BY <1>4, <1>5, ClockStep

(* What is over stays so. *)
LEMMA OverKept ==
  ASSUME IInv, IInv', [Next]_vars, Clocks, NEW ts \in Nat, NEW t \in Int,
         NEW u \in Int, t <= u, Over(ts, t)
  PROVE  Over(ts, u)'
<1>1. ASSUME NEW c \in Behind' PROVE (ts * WINDOW + WINDOW) + c <= u
  <2>1. PICK b \in Behind : c <= b
    BY BehindShrinks
  <2>2. c \in Int
    <3>1. /\ now' \in Int /\ \A w \in Workers : wall'[w] \in Int
          /\ wallSteps' \in 0 .. MaxWallSteps
      BY Zeros DEF IInv, TypeOK, Times
    <3>2. Left' \in Int
      BY <3>1, LeftOver DEF Left
    <3> QED BY <3>1, <3>2 DEF Behind
  <2>3. b \in Int /\ ts * WINDOW + WINDOW \in Int
    BY ClockTypes, Margins
  <2>4. (ts * WINDOW + WINDOW) + b <= t
    BY DEF Over
  <2> HIDE DEF Over
  <2> DEFINE x == ts * WINDOW + WINDOW
  <2>5. x \in Int /\ x + b <= t
    BY <2>3, <2>4
  <2>6. x + c <= u
    <3> HIDE DEF x
    <3> QED BY <2>1, <2>2, <2>3, <2>5
  <2> QED BY <2>6
<1> QED BY <1>1 DEF Over

LEMMA WindowOfClock ==
  ASSUME NEW x \in Nat
  PROVE  /\ x \div WINDOW \in Nat
         /\ (x \div WINDOW) * WINDOW <= x
         /\ \A ts \in Nat : ts * WINDOW + WINDOW <= x => ts < x \div WINDOW
<1>1. WINDOW \in Nat /\ WINDOW > 0
  BY Margins
<1> DEFINE q == x \div WINDOW
<1>2. q \in Nat /\ q * WINDOW <= x /\ x < q * WINDOW + WINDOW
  BY <1>1
<1>3. ASSUME NEW ts \in Nat, ts * WINDOW + WINDOW <= x PROVE ts < q
  <2> HIDE DEF q
  <2> SUFFICES ASSUME q <= ts PROVE FALSE
    BY <1>2
  <2>1. q * WINDOW <= ts * WINDOW
    BY <1>1, <1>2
  <2>2. q * WINDOW \in Int /\ ts * WINDOW \in Int
    BY <1>1, <1>2
  <2> QED BY <1>1, <1>2, <1>3, <2>1, <2>2
<1> QED BY <1>2, <1>3

LEMMA TNowType == ASSUME IInv, NEW w \in Workers PROVE TNow(w) \in Nat
  BY ClockTypes, WindowOfClock DEF TNow

(* A window that is over by every clock is over by a worker's. *)
LEMMA OverIsPast ==
  ASSUME IInv, NEW w \in Workers, Running(w), NEW ts \in Nat, Over(ts, now)
  PROVE  ts < TNow(w)
<1>1. (ts * WINDOW + WINDOW) + (Left + (now - wall[w])) <= now
  BY DEF Over, Behind
<1>2. ts * WINDOW + WINDOW \in Nat
  BY Margins
<1>3. wall[w] \in Nat /\ ts * WINDOW + WINDOW <= wall[w]
  <2> DEFINE x == ts * WINDOW + WINDOW
  <2>1. x \in Nat /\ x + (Left + (now - wall[w])) <= now
    BY <1>1, <1>2
  <2>2. wall[w] \in Nat /\ x <= wall[w]
    <3> HIDE DEF x
    <3> QED BY <2>1, ClockTypes
  <2> QED BY <2>2
<1> QED BY <1>3, WindowOfClock DEF TNow

(* The window of a worker's clock will be over, by every clock, when a row *)
(* that has Margin left runs out.                                          *)
LEMMA NowWillBeOver ==
  ASSUME IInv, Clocks, NEW w \in Workers, Running(w), NEW r \in Int,
         now + Margin < r
  PROVE  Over(TNow(w), r)
<1> SUFFICES ASSUME NEW b \in Behind
             PROVE  (TNow(w) * WINDOW + WINDOW) + b <= r
  BY DEF Over
<1>1. /\ b \in Int /\ b <= Skew /\ (wall[w] - now) + b <= Skew
      /\ wall[w] \in Int /\ now \in Nat
  BY ClockTypes DEF Clocks
<1>2. /\ Skew \in Nat /\ Margin = WINDOW - 1 + Skew /\ WINDOW \in Nat
  BY Margins
<1> DEFINE x == TNow(w) * WINDOW
<1>3. x \in Int /\ (x <= wall[w] \/ x = 0)
  BY <1>1, <1>2, WindowOfClock, TNowType DEF TNow
<1>4. (x + WINDOW) + b <= r
  <2> HIDE DEF x
  <2> QED BY <1>1, <1>2, <1>3
<1> QED BY <1>4

-----------------------------------------------------------------------------
(* The invariant. *)

(* id is not beyond what g has issued. *)
UpTo(id, g) ==
  /\ g.ts # NULL /\ g.mid = id.mid
  /\ id.ts < g.ts \/ (id.ts = g.ts /\ id.seq <= g.seq)

(* A row outlives the windows of the IDs issued under it. *)
Covered == \A id \in issued :
  reclaimable_after[id.mid] # NULL /\ Over(id.ts, reclaimable_after[id.mid])

(* An ID under a machine ID in somebody's hands is its own or long past; *)
Held == \A w \in Workers : On(w) /\ Current(w) =>
  \A id \in issued : id.mid = machine_id[w] => Over(id.ts, now) \/ UpTo(id, inner[w])

(* under one that has just been claimed, it is past. *)
Taken == \A w \in Workers : tx[w].outcome = "Got" =>
  \A id \in issued : id.mid = tx[w].mid => Over(id.ts, now)

(* Where a generator stands is the last ID it issued. *)
Inners == \A w \in Workers : inner[w].ts # NULL => inner[w] \in issued

IdsInv == /\ PgTypeOK /\ releases = {} /\ Clocks
          /\ Covered /\ Held /\ Taken /\ Inners /\ UniqueIds

PgIInv == LeaseInv /\ IdsInv

LEMMA PgInitInv == PgInit => PgIInv
<1> SUFFICES ASSUME PgInit PROVE PgIInv
  OBVIOUS
<1>1. LeaseInv
  BY LeaseInit DEF PgInit
<1>2. PgTypeOK
  BY Zeros DEF PgInit, PgTypeOK, NewGenerator
<1>3. Clocks
  <2>1. \A w \in Workers : ~Running(w)
    BY DEF PgInit, Init, Running
  <2>2. \A b \in Behind : b = Left
    BY <2>1 DEF Behind
  <2> QED BY <1>1, <2>1, <2>2, ClockTypes DEF Clocks, LeaseInv
<1>4. Covered /\ Held /\ Taken /\ Inners /\ UniqueIds
  BY DEF PgInit, Covered, Held, Taken, Inners, UniqueIds, NewGenerator
<1>5. releases = {}
  BY DEF PgInit, Init
<1> QED BY <1>1, <1>2, <1>3, <1>4, <1>5 DEF PgIInv, IdsInv

(* Steps that issue nothing. *)
LEMMA QuietStep ==
  ASSUME TimelyWindows, Droppers = {}, PgIInv, [Next]_vars, LeaseInv', PgTypeOK',
         UNCHANGED <<issued, duplicated>>,
         \A w \in Workers : \/ inner'[w] = inner[w]
                            \/ inner'[w].ts = NULL /\ ~(On(w) /\ On(w)')
  PROVE  IdsInv'
<1>0. /\ IInv /\ IInv' /\ releases = {} /\ Timely /\ Clocks
      /\ PgTypeOK /\ Covered /\ Held /\ Taken /\ Inners
  BY TimelyBoth DEF PgIInv, IdsInv, LeaseInv
<1>1. /\ releases' = {}
      /\ \A m \in MachineIds : reclaimable_after[m] # NULL =>
           reclaimable_after'[m] # NULL /\ reclaimable_after[m] <= reclaimable_after'[m]
      /\ \A v \in Workers : On(v)' /\ Current(v)' =>
           \/ On(v) /\ Current(v) /\ machine_id'[v] = machine_id[v]
           \/ tx[v].outcome = "Got" /\ machine_id'[v] = tx[v].mid
      /\ \A v \in Workers : tx'[v].outcome = "Got" =>
           \/ tx[v].outcome = "Got" /\ tx'[v].mid = tx[v].mid
           \/ reclaimable_after[tx'[v].mid] = NULL
           \/ reclaimable_after[tx'[v].mid] <= now
  BY <1>0, LeaseChange
<1>2. Clocks' /\ now \in Nat /\ now' \in Nat /\ now <= now'
  <2>1. Clocks'
    BY <1>0, BehindShrinks
  <2>2. now <= now'
    BY <1>0, ClockStep, ClockTypes DEF Steady, Stepped
  <2>3. now' \in Nat
    BY <1>0, Zeros DEF IInv, TypeOK, Times
  <2> QED BY <1>0, <2>1, <2>2, <2>3, ClockTypes
<1>3. /\ \A id \in issued : id.ts \in Nat /\ id.mid \in MachineIds
      /\ \A m \in MachineIds : reclaimable_after[m] \in Int /\ reclaimable_after'[m] \in Int
  BY <1>0 DEF PgTypeOK, IInv, TypeOK, NULL
<1>4. ASSUME NEW id \in issued, NEW t \in Int, NEW u \in Int, t <= u, Over(id.ts, t)
      PROVE  Over(id.ts, u)'
  <2>1. id.ts \in Nat /\ id' = id
    BY <1>3
  <2> QED BY <1>0, <1>4, <2>1, OverKept
<1>5. Covered'
  <2> SUFFICES ASSUME NEW id \in issued
               PROVE  /\ reclaimable_after'[id.mid] # NULL
                      /\ Over(id.ts, reclaimable_after[id.mid])'
    BY DEF Covered
  <2>1. /\ reclaimable_after[id.mid] # NULL
        /\ Over(id.ts, reclaimable_after[id.mid])
    BY <1>0 DEF Covered
  <2>2. \A u \in Int : reclaimable_after[id.mid] <= u => Over(id.ts, u)'
    BY <1>3, <1>4, <2>1
  <2>3. \A u \in Int : reclaimable_after[id.mid] <= u =>
          \A b \in Behind' : (id.ts * WINDOW + WINDOW) + b <= u
    BY <2>2 DEF Over
  <2>4. /\ reclaimable_after'[id.mid] \in Int /\ reclaimable_after'[id.mid] # NULL
        /\ reclaimable_after[id.mid] <= reclaimable_after'[id.mid]
    BY <1>1, <1>3, <2>1
  <2>5. \A b \in Behind' : (id.ts * WINDOW + WINDOW) + b <= reclaimable_after'[id.mid]
    BY <2>3, <2>4
  <2> QED BY <2>4, <2>5 DEF Over
<1>6. \A id \in issued : Over(id.ts, now) => Over(id.ts, now)'
  BY <1>2, <1>4
<1>7. Held'
  <2> SUFFICES ASSUME NEW w \in Workers, On(w)', Current(w)', NEW id \in issued,
                      id.mid = machine_id'[w]
               PROVE  Over(id.ts, now)' \/ UpTo(id, inner'[w])
    BY DEF Held, UpTo
  <2>1. CASE On(w) /\ Current(w) /\ machine_id'[w] = machine_id[w]
    <3>1. inner'[w] = inner[w]
      BY <2>1
    <3> QED BY <1>0, <1>6, <2>1, <3>1 DEF Held
  <2>2. CASE tx[w].outcome = "Got" /\ machine_id'[w] = tx[w].mid
    BY <1>0, <1>6, <2>2 DEF Taken
  <2> QED BY <1>1, <2>1, <2>2
<1>8. Taken'
  <2> SUFFICES ASSUME NEW w \in Workers, tx'[w].outcome = "Got", NEW id \in issued,
                      id.mid = tx'[w].mid
               PROVE  Over(id.ts, now)'
    BY DEF Taken
  <2>1. CASE tx[w].outcome = "Got" /\ tx'[w].mid = tx[w].mid
    BY <1>0, <1>6, <2>1 DEF Taken
  <2>2. CASE reclaimable_after[tx'[w].mid] = NULL \/ reclaimable_after[tx'[w].mid] <= now
    <3>1. /\ reclaimable_after[id.mid] # NULL
          /\ Over(id.ts, reclaimable_after[id.mid])
      BY <1>0 DEF Covered
    <3>2. reclaimable_after[id.mid] <= now' /\ reclaimable_after[id.mid] \in Int
      BY <1>2, <1>3, <2>2, <3>1
    <3> QED BY <1>2, <1>4, <3>1, <3>2
  <2> QED BY <1>1, <2>1, <2>2
<1>9. Inners'
  BY <1>0 DEF Inners
<1>10. UniqueIds'
  BY DEF PgIInv, IdsInv, UniqueIds
<1> QED BY <1>1, <1>2, <1>5, <1>7, <1>8, <1>9, <1>10 DEF IdsInv

(* What generate puts out is above all that was put out before under its   *)
(* machine ID, and its window will be over when its row runs out.          *)
LEMMA IssueFacts ==
  ASSUME PgIInv, NEW w \in Workers, Generate(w)
  PROVE  \E id \in [ts : Nat, mid : MachineIds, seq : 0 .. SEQ_MASK] :
           /\ inner' = [inner EXCEPT ![w] = id] /\ last' = [last EXCEPT ![w] = id]
           /\ issued' = issued \cup {id}
           /\ duplicated' = duplicated \cup (issued \cap {id})
           /\ id.mid = machine_id[w] /\ On(w) /\ Current(w)
           /\ reclaimable_after[id.mid] # NULL
           /\ Over(id.ts, reclaimable_after[id.mid])
           /\ \A j \in issued : j.mid = id.mid =>
                j.ts < id.ts \/ (Inner(w).ts # NULL /\ j.ts = id.ts /\ j.seq < id.seq)
<1> DEFINE m == call[w].mid
           g == Inner(w)
           id == IF g.ts = NULL \/ TNow(w) > g.ts
                   THEN [ts |-> TNow(w), mid |-> g.mid, seq |-> 0]
                   ELSE [ts |-> g.ts, mid |-> g.mid, seq |-> g.seq + 1]
<1>0. /\ IInv /\ Clocks /\ PgTypeOK /\ Covered /\ Held /\ Inners /\ Ample
  BY LeaseIsAmple DEF PgIInv, IdsInv, LeaseInv
<1>1. /\ inner' = [inner EXCEPT ![w] = id] /\ last' = [last EXCEPT ![w] = id]
      /\ issued' = issued \cup {id}
      /\ duplicated' = duplicated \cup (issued \cap {id})
      /\ id.seq <= SEQ_MASK /\ m # NULL
  BY DEF Generate, EndGenerate
<1>2. /\ On(w) /\ Current(w) /\ m = machine_id[w] /\ m \in MachineIds
      /\ call[w].at # NULL /\ now <= call[w].at + MaxInFlight
  BY <1>0, <1>1, WorkerFacts DEF CallOf
<1>3. Running(w)
  BY <1>2 DEF On, Running
<1>4. reclaimable_after[m] \in Nat /\ reclaimable_after[m] # NULL
  <2>1. claimed_at[m] # NULL
    BY <1>0, <1>2, WorkerFacts DEF Current, NULL
  <2> QED BY <1>0, <1>2, <2>1, RowFacts
<1>5. now + Margin < reclaimable_after[m]
  <2>1. call[w].at + MaxInFlight + Margin < reclaimable_after[m]
    BY <1>0, <1>2 DEF Ample
  <2>2. call[w].at \in Int
    BY <1>0, WorkerFacts, Zeros DEF Calls, Times, NULL
  <2> QED BY <1>0, <1>2, <1>4, <2>1, <2>2, ClockTypes, Margins, Timing
<1>6. TNow(w) \in Nat
  BY <1>0, TNowType
<1>7. /\ g.mid = m
      /\ g.ts # NULL => /\ g = inner[w] /\ g \in issued
                        /\ g.ts \in Nat /\ g.seq \in Nat
                        /\ Over(g.ts, reclaimable_after[m])
  <2>1. CASE inner[w].mid = m
    <3>1. g = inner[w]
      BY <2>1 DEF Inner
    <3>2. ASSUME g.ts # NULL PROVE g \in issued
      BY <1>0, <3>1, <3>2 DEF Inners
    <3>3. ASSUME g \in issued PROVE g.ts \in Nat /\ g.seq \in Nat
      BY <1>0, <3>3, WindowAssumption DEF PgTypeOK
    <3>4. ASSUME g \in issued PROVE Over(g.ts, reclaimable_after[m])
      BY <1>0, <2>1, <3>1, <3>4 DEF Covered
    <3> QED BY <2>1, <3>1, <3>2, <3>3, <3>4
  <2>2. CASE inner[w].mid # m
    BY <2>2 DEF Inner, NewGenerator
  <2> QED BY <2>1, <2>2
<1> HIDE DEF g
<1>8. /\ id \in [ts : Nat, mid : MachineIds, seq : 0 .. SEQ_MASK]
      /\ id.mid = m
  BY <1>1, <1>2, <1>6, <1>7, WindowAssumption
<1>9. Over(id.ts, reclaimable_after[m])
  <2>1. Over(TNow(w), reclaimable_after[m])
    BY <1>0, <1>3, <1>4, <1>5, NowWillBeOver
  <2> QED BY <1>7, <2>1
<1>10. ASSUME NEW j \in issued, j.mid = m
       PROVE  j.ts < id.ts \/ (g.ts # NULL /\ j.ts = id.ts /\ j.seq < id.seq)
  <2>1. j.ts \in Nat /\ j.seq \in Nat
    BY <1>0, WindowAssumption DEF PgTypeOK
  <2>2. CASE Over(j.ts, now)
    <3>1. j.ts < TNow(w)
      BY <1>0, <1>3, <2>1, <2>2, OverIsPast
    <3> QED BY <1>6, <1>7, <2>1, <3>1
  <2>3. CASE UpTo(j, inner[w])
    <3>1. g = inner[w] /\ g.ts # NULL
      BY <1>10, <2>3 DEF UpTo, Inner, g
    <3>2. j.ts < g.ts \/ (j.ts = g.ts /\ j.seq <= g.seq)
      BY <2>3, <3>1 DEF UpTo
    <3> QED BY <1>6, <1>7, <2>1, <3>1, <3>2
  <2> QED BY <1>0, <1>2, <1>10, <2>2, <2>3 DEF Held
<1> HIDE DEF id
<1>11. \A j \in issued : j.mid = id.mid =>
         j.ts < id.ts \/ (Inner(w).ts # NULL /\ j.ts = id.ts /\ j.seq < id.seq)
  BY <1>8, <1>10 DEF g
<1> QED BY <1>1, <1>2, <1>4, <1>8, <1>9, <1>11

LEMMA IssueStep ==
  ASSUME PgIInv, LeaseInv', NEW w \in Workers, Generate(w) PROVE IdsInv'
<1>0. /\ IInv /\ releases = {} /\ Clocks
      /\ PgTypeOK /\ Covered /\ Held /\ Taken /\ Inners
  BY DEF PgIInv, IdsInv, LeaseInv
<1>1. PICK id \in [ts : Nat, mid : MachineIds, seq : 0 .. SEQ_MASK] :
        /\ inner' = [inner EXCEPT ![w] = id] /\ last' = [last EXCEPT ![w] = id]
        /\ issued' = issued \cup {id}
        /\ duplicated' = duplicated \cup (issued \cap {id})
        /\ id.mid = machine_id[w] /\ On(w) /\ Current(w)
        /\ reclaimable_after[id.mid] # NULL
        /\ Over(id.ts, reclaimable_after[id.mid])
        /\ \A j \in issued : j.mid = id.mid =>
             j.ts < id.ts \/ (Inner(w).ts # NULL /\ j.ts = id.ts /\ j.seq < id.seq)
  BY IssueFacts
<1>2. /\ UNCHANGED <<now, claimed_at, reclaimable_after, releases, pc, tx>>
      /\ UNCHANGED <<machine_id, fencing, wall, wallSteps>>
  BY DEF Generate, EndGenerate, dbVars, sharedVars, clockVars
<1>3. Behind' = Behind /\ \A v \in Workers : Running(v)' = Running(v)
  BY <1>2 DEF Behind, Left, Running
<1>4. Clocks'
  BY <1>0, <1>2, <1>3 DEF Clocks, Skew
<1>5. id \notin issued /\ UniqueIds'
  <2>1. id \notin issued
    <3>1. id.ts \in Nat /\ id.seq \in Nat
      BY WindowAssumption
    <3> QED BY <1>1, <3>1
  <2> QED BY <1>1, <2>1 DEF PgIInv, IdsInv, UniqueIds
<1>6. PgTypeOK'
  <2>1. id \in [mid : MachineIds, ts : Nat \cup {NULL}, seq : 0 .. SEQ_MASK \cup {NULL}]
    OBVIOUS
  <2>2. /\ inner' \in [Workers -> [mid : MachineIds, ts : Nat \cup {NULL},
                                  seq : 0 .. SEQ_MASK \cup {NULL}]]
        /\ issued' \subseteq [ts : Nat, mid : MachineIds, seq : 0 .. SEQ_MASK]
    BY <1>0, <1>1, <2>1 DEF PgTypeOK
  <2>3. duplicated' \subseteq issued'
    BY <1>5 DEF UniqueIds
  <2>4. \A v \in Workers : last'[v] \in issued' \cup {NoId}
    BY <1>0, <1>1 DEF PgTypeOK
  <2> QED BY <2>2, <2>3, <2>4 DEF PgTypeOK, NoId
<1>7. Covered'
  BY <1>0, <1>1, <1>2, <1>3 DEF Covered, Over
<1>8. \A v \in Workers \ {w} : inner'[v] = inner[v]
  BY <1>0, <1>1 DEF PgTypeOK
<1>9. inner'[w] = id
  BY <1>0, <1>1 DEF PgTypeOK
<1>10. Held'
  <2> SUFFICES ASSUME NEW v \in Workers, On(v), Current(v), NEW j \in issued',
                      j.mid = machine_id[v]
               PROVE  Over(j.ts, now)' \/ UpTo(j, inner'[v])
    BY <1>2 DEF Held, UpTo, On, Current
  <2>1. CASE v = w
    <3>1. CASE j = id
      <4>1. id.ts # NULL /\ id.seq \in Nat
        BY WindowAssumption DEF NULL
      <4> QED BY <1>9, <2>1, <3>1, <4>1 DEF UpTo
    <3>2. CASE j \in issued
      <4>1. id.ts # NULL /\ id.seq \in Nat /\ j.seq \in Nat
        BY <1>0, <3>2, WindowAssumption DEF NULL, PgTypeOK
      <4> QED BY <1>1, <1>9, <2>1, <3>2, <4>1 DEF UpTo
    <3> QED BY <1>1, <3>1, <3>2
  <2>2. CASE v # w
    <3>1. machine_id[v] # machine_id[w]
      BY <1>0, <1>1, <2>2 DEF IInv, RestInv, TokenInv, Current
    <3>2. j \in issued
      BY <1>1, <3>1
    <3> QED BY <1>0, <1>2, <1>3, <1>8, <2>2, <3>2 DEF Held, Over
  <2> QED BY <2>1, <2>2
<1>11. Taken'
  <2> SUFFICES ASSUME NEW v \in Workers, tx[v].outcome = "Got", NEW j \in issued',
                      j.mid = tx[v].mid
               PROVE  Over(j.ts, now)'
    BY <1>2 DEF Taken
  <2>1. TxOf(v) /\ HoldOf(v) /\ TxOf(w) /\ HoldOf(w) /\ pc[v] \in Pcs
    BY <1>0, WorkerFacts
  <2>2. tx[v].mid # machine_id[w]
    <3> SUFFICES ASSUME tx[v].mid = machine_id[w] PROVE FALSE
      OBVIOUS
    <3>1. CASE v = w
      BY <1>1, <2>1, <3>1 DEF TxOf, HoldOf, On, Pcs
    <3>2. CASE v # w
      BY <1>0, <1>1, <2>1, <3>2 DEF IInv, RestInv, TokenInv, Current, TxOf
    <3> QED BY <3>1, <3>2
  <2>3. j \in issued
    BY <1>1, <2>2
  <2> QED BY <1>0, <1>2, <1>3, <2>3 DEF Taken, Over
<1>12. Inners'
  BY <1>0, <1>1, <1>8, <1>9 DEF Inners
<1> QED BY <1>0, <1>2, <1>4, <1>5, <1>6, <1>7, <1>10, <1>11, <1>12 DEF IdsInv

LEMMA PgStepIsLeaseStep == [PgNext]_pgVars => [Next]_vars
  BY DEF PgNext, pgVars, Next, UserStep, Generate, GenerateExhausted

(* The steps of the lease: a generator goes with its lease. *)
LEMMA FollowStep ==
  ASSUME TimelyWindows, Droppers = {}, PgIInv, LeaseInv', Next, InnerFollows
  PROVE  IdsInv'
<1>0. /\ PgTypeOK /\ pc \in [Workers -> Pcs] /\ pc' \in [Workers -> Pcs]
      /\ machine_id' \in [Workers -> MachineIds]
  BY DEF PgIInv, IdsInv, LeaseInv, IInv, TypeOK
<1>1. ASSUME NEW w \in Workers
      PROVE  \/ inner'[w] = inner[w]
             \/ /\ inner'[w].ts = NULL /\ ~(On(w) /\ On(w)')
                /\ inner'[w] \in [mid : MachineIds, ts : Nat \cup {NULL},
                                  seq : 0 .. SEQ_MASK \cup {NULL}]
  BY <1>0, Zeros DEF InnerFollows, On, NewGenerator
<1>2. PgTypeOK'
  <2>1. inner' \in [Workers -> [mid : MachineIds, ts : Nat \cup {NULL},
                               seq : 0 .. SEQ_MASK \cup {NULL}]]
    <3>1. inner' = [w \in Workers |-> inner'[w]]
      BY DEF InnerFollows
    <3>2. \A w \in Workers : inner'[w] \in [mid : MachineIds, ts : Nat \cup {NULL},
                                            seq : 0 .. SEQ_MASK \cup {NULL}]
      BY <1>0, <1>1 DEF PgTypeOK
    <3> QED BY <3>1, <3>2
  <2>2. /\ issued' = issued /\ duplicated' = duplicated
        /\ \A w \in Workers : last'[w] \in {last[w], NoId}
    BY DEF InnerFollows
  <2> QED BY <1>0, <2>1, <2>2 DEF PgTypeOK, NoId
<1>3. UNCHANGED <<issued, duplicated>>
  BY DEF InnerFollows
<1>4. \A w \in Workers : \/ inner'[w] = inner[w]
                         \/ inner'[w].ts = NULL /\ ~(On(w) /\ On(w)')
  BY <1>1
<1>5. [Next]_vars
  OBVIOUS
<1> QED BY <1>2, <1>3, <1>4, <1>5, TimelyWindows, Droppers = {}, PgIInv, LeaseInv', QuietStep

LEMMA PgStep ==
  ASSUME TimelyWindows, Droppers = {}, PgIInv, [PgNext]_pgVars PROVE PgIInv'
<1>1. [Next]_vars
  BY PgStepIsLeaseStep
<1>2. LeaseInv'
  BY <1>1, LeaseStep DEF PgIInv
<1>3. CASE Next /\ InnerFollows
  BY <1>2, <1>3, FollowStep DEF PgIInv
<1>4. ASSUME NEW w \in Workers, Generate(w) PROVE IdsInv'
  BY <1>2, <1>4, IssueStep
<1>5. CASE UNCHANGED <<inner, idVars>>
  <2>1. PgTypeOK'
    BY <1>5 DEF PgIInv, IdsInv, PgTypeOK, idVars
  <2>2. /\ UNCHANGED <<issued, duplicated>>
        /\ \A w \in Workers : inner'[w] = inner[w]
    BY <1>5 DEF idVars
  <2>3. IdsInv'
    BY <1>1, <1>2, <2>1, <2>2, QuietStep
  <2> QED BY <1>2, <2>3 DEF PgIInv
<1>6. \/ Next /\ InnerFollows
      \/ \E w \in Workers : Generate(w)
      \/ UNCHANGED <<inner, idVars>>
  <2>1. CASE UNCHANGED pgVars
    BY <2>1 DEF pgVars
  <2>2. CASE PgNext
    BY <2>2 DEF PgNext, Next, UserStep, GenerateExhausted
  <2> QED BY <2>1, <2>2
<1> QED BY <1>2, <1>3, <1>4, <1>5, <1>6 DEF PgIInv

-----------------------------------------------------------------------------
(* The theorems. *)

(* The induction: whatever is issued is covered by its row until its window *)
(* is over by every clock.                                                 *)
THEOREM PgInvariance ==
  ASSUME TimelyWindows, Droppers = {} PROVE PgSpec => []PgIInv
<1>1. PgInit => PgIInv
  BY PgInitInv
<1>2. PgIInv /\ [PgNext]_pgVars => PgIInv'
  BY PgStep
<1> QED BY <1>1, <1>2, PTL DEF PgSpec

(* Types of the generators and of the IDs they issue. *)
THEOREM PgTypeCorrect ==
  ASSUME TimelyWindows, Droppers = {} PROVE PgSpec => []PgTypeOK
<1>1. PgSpec => []PgIInv
  BY PgInvariance
<1>2. PgIInv => PgTypeOK
  BY DEF PgIInv, IdsInv
<1> QED BY <1>1, <1>2, PTL

(* "The one thing the module exists to prevent" (docs 33): no ID is issued *)
(* twice, by any worker, across steals, crashes, restarts, suspends, clock *)
(* steps and moves between machine IDs.                                    *)
THEOREM NoIdTwice ==
  ASSUME TimelyWindows, Droppers = {} PROVE PgSpec => []UniqueIds
<1>1. PgSpec => []PgIInv
  BY PgInvariance
<1>2. PgIInv => UniqueIds
  BY DEF PgIInv, IdsInv
<1> QED BY <1>1, <1>2, PTL

(* Only Generate makes an ID the last one of a worker. *)
LEMMA OnlyGenerate ==
  ASSUME [PgNext]_pgVars, PgTypeOK, NEW w \in Workers, last'[w] # last[w],
         last'[w] # NoId
  PROVE  Generate(w)
<1>1. ASSUME NEW v \in Workers, Generate(v) PROVE v = w
  <2>1. \E id : last' = [last EXCEPT ![v] = id]
    BY <1>1 DEF Generate
  <2> QED BY <2>1
<1>2. ~InnerFollows /\ ~UNCHANGED idVars
  BY DEF InnerFollows, idVars
<1> QED BY <1>1, <1>2 DEF PgNext, pgVars, GenerateExhausted

(* "A fresh generator's timestamps strictly exceed the previous holder's"  *)
(* (docs 411-412).                                                         *)
THEOREM FreshGeneratorStartsLater ==
  ASSUME TimelyWindows, Droppers = {} PROVE PgSpec => FreshWindow
<1>1. PgSpec => []PgIInv
  BY PgInvariance
<1>2. ASSUME PgIInv, [PgNext]_pgVars, NEW w \in Workers, last'[w] # last[w],
             last'[w] # NoId, Inner(w).ts = NULL, NEW id \in issued,
             id.mid = last'[w].mid
      PROVE  id.ts < last'[w].ts
  <2>1. PgTypeOK /\ Generate(w)
    BY <1>2, OnlyGenerate DEF PgIInv, IdsInv
  <2>2. PICK new \in [ts : Nat, mid : MachineIds, seq : 0 .. SEQ_MASK] :
          /\ last' = [last EXCEPT ![w] = new]
          /\ \A j \in issued : j.mid = new.mid =>
               j.ts < new.ts \/ (Inner(w).ts # NULL /\ j.ts = new.ts /\ j.seq < new.seq)
    BY <1>2, <2>1, IssueFacts
  <2>3. last'[w] = new
    BY <1>2, <2>2
  <2> QED BY <1>2, <2>2, <2>3
<1>3. PgIInv /\ [PgNext]_pgVars =>
        [\A w \in Workers :
           last'[w] # last[w] /\ last'[w] # NoId /\ Inner(w).ts = NULL
             => \A id \in issued : id.mid = last'[w].mid => id.ts < last'[w].ts]_pgVars
  BY <1>2
<1> QED BY <1>1, <1>3, PTL DEF PgSpec, FreshWindow

(* "Per generator: strictly increasing" (SPEC 7.1), for the machine ID in  *)
(* the generator's place: over any number of machine IDs and workers, what *)
(* is issued under one of them is above all that was issued under it, by   *)
(* the same worker or by others, across losses, moves and re-claims of the *)
(* lease and rebuilt or old inner generators (lib.rs:697-707).             *)
THEOREM IdsUnderOneMachineIdIncrease ==
  ASSUME TimelyWindows, Droppers = {} PROVE PgSpec => IdsIncreasePerMachineId
<1>1. PgSpec => []PgIInv
  BY PgInvariance
<1>2. ASSUME PgIInv, [PgNext]_pgVars, NEW w \in Workers, last'[w] # last[w],
             last'[w] # NoId, NEW id \in issued, id.mid = last'[w].mid
      PROVE  Below(id, last'[w])
  <2>1. PgTypeOK /\ Generate(w)
    BY <1>2, OnlyGenerate DEF PgIInv, IdsInv
  <2>2. PICK new \in [ts : Nat, mid : MachineIds, seq : 0 .. SEQ_MASK] :
          /\ last' = [last EXCEPT ![w] = new]
          /\ \A j \in issued : j.mid = new.mid =>
               j.ts < new.ts \/ (Inner(w).ts # NULL /\ j.ts = new.ts /\ j.seq < new.seq)
    BY <1>2, <2>1, IssueFacts
  <2>3. last'[w] = new
    BY <1>2, <2>2
  <2> QED BY <1>2, <2>2, <2>3 DEF Below
<1>3. PgIInv /\ [PgNext]_pgVars =>
        [\A w \in Workers :
           last'[w] # last[w] /\ last'[w] # NoId
             => \A id \in issued :
                  id.mid = last'[w].mid => Below(id, last'[w])]_pgVars
  BY <1>2
<1> QED BY <1>1, <1>3, PTL DEF PgSpec, IdsIncreasePerMachineId
=============================================================================
