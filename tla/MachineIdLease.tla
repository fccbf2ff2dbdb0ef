--------------------------- MODULE MachineIdLease ---------------------------
(***************************************************************************)
(* The Postgres machine-ID lease, snowdrop-id-postgres/src/lib.rs: workers *)
(* claim a row of the lease table, renew it by heartbeat, stop using it    *)
(* (self-poison) by their own two clocks, detect a steal by the fencing    *)
(* token, re-claim, and release on drop.                                   *)
(*                                                                         *)
(* Time is discrete.  `now` is the database clock; a transaction sees the  *)
(* NOW() of its BEGIN, executes later and is answered later still.         *)
(***************************************************************************)
EXTENDS Integers

CONSTANTS
  Workers,                \* processes that may hold a PgMachineIdLease
  MaxMachineId,           \* machine IDs are 0 .. MaxMachineId (1023)
  \* The timing constants, lib.rs:81-100:
  HEARTBEAT_INTERVAL, RECLAIM_TTL, SELF_POISON_AFTER,
  BOOTLOOP_GRACE, BOOTLOOP_SELF_POISON, FIRST_HEARTBEAT_DELAY,
  HEARTBEAT_RETRY_BACKOFF, RECLAIM_RETRY_BACKOFF,
  \* The environment:
  MaxDelay,               \* from BEGIN's NOW() until the reply is processed
  MaxInFlight,            \* from is_fresh until the ID is out
  Droppers,               \* workers that may drop their lease
  Killable,               \* workers that may die
  Suspendable,            \* workers whose monotonic clock may freeze
  MaxWallStep,            \* how far a wall clock is stepped at once
  MaxWallSteps,           \* BOUND: how often wall clocks are stepped
  MaxTime                 \* BOUND: the last instant

(* lib.rs:103-108, the compile-time assertions (the last asks for a minute *)
(* between the two; here for one unit).  That the grace is no longer than  *)
(* the TTL is not asserted there, but true of the values.                  *)
ASSUME TimingAssumption ==
  /\ {HEARTBEAT_INTERVAL, RECLAIM_TTL, SELF_POISON_AFTER, BOOTLOOP_GRACE,
      BOOTLOOP_SELF_POISON, FIRST_HEARTBEAT_DELAY, HEARTBEAT_RETRY_BACKOFF,
      RECLAIM_RETRY_BACKOFF} \subseteq Nat \ {0}
  /\ FIRST_HEARTBEAT_DELAY < BOOTLOOP_GRACE
  /\ BOOTLOOP_SELF_POISON < BOOTLOOP_GRACE
  /\ FIRST_HEARTBEAT_DELAY < BOOTLOOP_SELF_POISON
  /\ HEARTBEAT_INTERVAL * 2 <= SELF_POISON_AFTER
  /\ SELF_POISON_AFTER < RECLAIM_TTL
  /\ BOOTLOOP_GRACE <= RECLAIM_TTL

ASSUME EnvironmentAssumption ==
  /\ {MaxMachineId, MaxDelay, MaxInFlight, MaxWallStep, MaxWallSteps, MaxTime}
       \subseteq Nat
  /\ Droppers \subseteq Workers
  /\ Killable \subseteq Workers
  /\ Suspendable \subseteq Workers

(* "Safety reduces to one inequality" (docs 6.1), once per deadline the    *)
(* code writes: what is left of the row when the worker stops using it     *)
(* covers a late reply and an ID in flight.  A hypothesis of the theorems, *)
(* not an assumption: MachineIdLease_latereply.cfg breaks it.              *)
Timely ==
  /\ SELF_POISON_AFTER + MaxDelay + MaxInFlight <= RECLAIM_TTL
  /\ BOOTLOOP_SELF_POISON + MaxDelay + MaxInFlight <= BOOTLOOP_GRACE

NULL == -1

MachineIds == 0 .. MaxMachineId

VARIABLES
  \* The database:
  now,                \* its clock
  rows,               \* the seeded rows of the lease table
  claimed_at,         \* per row; also the fencing token, see FENCING
  reclaimable_after,  \* per row
  releases,           \* release statements on their way
  \* Each worker:
  pc,                 \* where its build() or run_lease_task is
  tx,                 \* its transaction under way
  wake,               \* when its sleep ends, on its monotonic clock
  machine_id, fencing, poisoned, mono_deadline, wall_deadline, \* LeaseShared
  call,               \* its generate() under way
  mono, wall,         \* its clocks; right when it starts to build
  \* The environment:
  lagging,            \* clocks of a worker that lag behind since its last
                      \* refresh_deadlines
  wallSteps           \* how often a wall clock was stepped

dbVars     == <<rows, claimed_at, reclaimable_after>>
sharedVars == <<machine_id, fencing, poisoned, mono_deadline, wall_deadline>>
clockVars  == <<mono, wall, lagging, wallSteps>>
vars == <<now, dbVars, releases, pc, tx, wake, sharedVars, call, clockVars>>

(* off: no lease; building: in build(); sleep, beating: in the loop of     *)
(* run_lease_task; lost, reclaiming: in reacquire, between attempts or in  *)
(* claim_once.                                                             *)
Pcs == {"off", "building", "sleep", "beating", "lost", "reclaiming"}

Outcomes == {"idle", "begun", "Got", "NotSeeded", "Exhausted", "Renewed", "Stolen"}

NoTx   == [outcome |-> "idle", at |-> 0, mid |-> 0]
NoCall == [at |-> NULL, mid |-> NULL]

(* The PgMachineIdLease exists. *)
On(w) == pc[w] \notin {"off", "building"}

Running(w) == pc[w] # "off"

(* Mutants: only one of the two clocks is looked at. *)
is_fresh_MonoOnly(w) == ~poisoned[w] /\ mono[w] < mono_deadline[w]
is_fresh_WallOnly(w) == ~poisoned[w] /\ wall[w] < wall_deadline[w]

is_fresh(w) == /\ ~poisoned[w]
               /\ mono[w] < mono_deadline[w]
               /\ wall[w] < wall_deadline[w]

-----------------------------------------------------------------------------
Init ==
  /\ now = 0
  /\ rows \in {{}, MachineIds}
  /\ claimed_at = [m \in MachineIds |-> NULL]
  /\ reclaimable_after = [m \in MachineIds |-> NULL]
  /\ releases = {}
  /\ pc = [w \in Workers |-> "off"]
  /\ tx = [w \in Workers |-> NoTx]
  /\ wake = [w \in Workers |-> 0]
  /\ machine_id = [w \in Workers |-> 0]
  /\ fencing = [w \in Workers |-> 0]
  /\ poisoned = [w \in Workers |-> FALSE]
  /\ mono_deadline = [w \in Workers |-> 0]
  /\ wall_deadline = [w \in Workers |-> 0]
  /\ call = [w \in Workers |-> NoCall]
  /\ mono = [w \in Workers |-> 0]
  /\ wall = [w \in Workers |-> 0]
  /\ lagging = [w \in Workers |-> {}]
  /\ wallSteps = 0

(* pool.begin(): NOW() is fixed here. *)
BeginTx(w) ==
  tx' = [tx EXCEPT ![w] = [outcome |-> "begun", at |-> now, mid |-> 0]]

EndTx(w) == tx' = [tx EXCEPT ![w] = NoTx]

Goto(w, p) == pc' = [pc EXCEPT ![w] = p]

SleepFor(w, delay) == wake' = [wake EXCEPT ![w] = mono[w] + delay]

WakeUp(w) == mono[w] >= wake[w] /\ wake' = [wake EXCEPT ![w] = 0]

refresh_deadlines(w, valid_for) ==
  /\ mono_deadline' = [mono_deadline EXCEPT ![w] = mono[w] + valid_for]
  /\ wall_deadline' = [wall_deadline EXCEPT ![w] = wall[w] + valid_for]
  /\ lagging' = [lagging EXCEPT ![w] = {}]

(* No lease, no task: the worker is as if it had never built one. *)
Gone(w) ==
  /\ Goto(w, "off")
  /\ EndTx(w)
  /\ wake' = [wake EXCEPT ![w] = 0]
  /\ machine_id' = [machine_id EXCEPT ![w] = 0]
  /\ fencing' = [fencing EXCEPT ![w] = 0]
  /\ poisoned' = [poisoned EXCEPT ![w] = FALSE]
  /\ mono_deadline' = [mono_deadline EXCEPT ![w] = 0]
  /\ wall_deadline' = [wall_deadline EXCEPT ![w] = 0]
  /\ call' = [call EXCEPT ![w] = NoCall]
  /\ mono' = [mono EXCEPT ![w] = 0]
  /\ wall' = [wall EXCEPT ![w] = 0]
  /\ lagging' = [lagging EXCEPT ![w] = {}]

-----------------------------------------------------------------------------
(* Claiming: claim_sql and claim_once. *)

(* provision_sql and seeding_ddl: ON CONFLICT DO NOTHING. *)
Provision == /\ rows' = MachineIds
             /\ UNCHANGED <<now, claimed_at, reclaimable_after, releases, pc, tx,
                            wake, sharedVars, call, clockVars>>

BeginBuild(w) ==
  /\ pc[w] = "off"
  /\ Goto(w, "building")
  /\ BeginTx(w)
  /\ mono' = [mono EXCEPT ![w] = now]
  /\ wall' = [wall EXCEPT ![w] = now]
  /\ UNCHANGED <<now, dbVars, releases, wake, sharedVars, call, lagging, wallSteps>>

BeginReclaim(w) ==
  /\ pc[w] = "lost"
  /\ Goto(w, "reclaiming")
  /\ WakeUp(w)
  /\ BeginTx(w)
  /\ UNCHANGED <<now, dbVars, releases, sharedVars, call, clockVars>>

(* Rows another statement may have locked when w's claim runs. *)
Lockable(w) ==
  {m \in MachineIds :
     \/ \E v \in Workers \ {w} :
          /\ tx[v].outcome = "begun"
          /\ pc[v] = "beating" => machine_id[v] = m
     \/ \E r \in releases : r.mid = m}

(* Mutants: the deadline is ignored; it is taken to be one unit earlier. *)
Candidates_AnyRow(w, locked) == rows \ locked
Candidates_OneEarly(w, locked) ==
  {m \in rows \ locked : reclaimable_after[m] = NULL
                           \/ reclaimable_after[m] <= tx[w].at + 1}

Candidates(w, locked) ==
  {m \in rows \ locked : reclaimable_after[m] = NULL
                           \/ reclaimable_after[m] <= tx[w].at}

(* FOR UPDATE SKIP LOCKED, lowest first: the row is w's for the grace. *)
ExecClaim(w) ==
  /\ pc[w] \in {"building", "reclaiming"}
  /\ tx[w].outcome = "begun"
  /\ \E locked \in SUBSET Lockable(w) :
       \E m \in Candidates(w, locked) :
         /\ \A n \in Candidates(w, locked) : m <= n
         /\ tx' = [tx EXCEPT ![w].outcome = "Got", ![w].mid = m]
         /\ claimed_at' = [claimed_at EXCEPT ![m] = tx[w].at]
         /\ reclaimable_after' =
              [reclaimable_after EXCEPT ![m] = tx[w].at + BOOTLOOP_GRACE]
  /\ UNCHANGED <<now, rows, releases, pc, wake, sharedVars, call, clockVars>>

ExecClaimNothing(w) ==
  /\ pc[w] \in {"building", "reclaiming"}
  /\ tx[w].outcome = "begun"
  /\ \E locked \in SUBSET Lockable(w) : Candidates(w, locked) = {}
  /\ tx' = [tx EXCEPT ![w].outcome = IF rows = {} THEN "NotSeeded" ELSE "Exhausted"]
  /\ UNCHANGED <<now, dbVars, releases, pc, wake, sharedVars, call, clockVars>>

(* Mutant: the lease is used up to the row's deadline. *)
Adopt_UntilDeadline(w) ==
  /\ tx[w].outcome = "Got"
  /\ machine_id' = [machine_id EXCEPT ![w] = tx[w].mid]
  /\ fencing' = [fencing EXCEPT ![w] = tx[w].at]
  /\ refresh_deadlines(w, BOOTLOOP_GRACE)
  /\ poisoned' = [poisoned EXCEPT ![w] = FALSE]
  /\ SleepFor(w, FIRST_HEARTBEAT_DELAY)
  /\ Goto(w, "sleep")
  /\ EndTx(w)
  /\ UNCHANGED <<now, dbVars, releases, call, mono, wall, wallSteps>>

(* The claim's reply arrives in build() or in reacquire: adopt the lease.  *)
Adopt(w) ==
  /\ tx[w].outcome = "Got"
  /\ machine_id' = [machine_id EXCEPT ![w] = tx[w].mid]
  /\ fencing' = [fencing EXCEPT ![w] = tx[w].at]
  /\ refresh_deadlines(w, BOOTLOOP_SELF_POISON)
  /\ poisoned' = [poisoned EXCEPT ![w] = FALSE]
  /\ SleepFor(w, FIRST_HEARTBEAT_DELAY)
  /\ Goto(w, "sleep")
  /\ EndTx(w)
  /\ UNCHANGED <<now, dbVars, releases, call, mono, wall, wallSteps>>

BuildFails(w) == pc[w] = "building" /\ Gone(w)

Retry(w, from, to, backoff) ==
  /\ pc[w] = from
  /\ Goto(w, to)
  /\ SleepFor(w, backoff)
  /\ EndTx(w)
  /\ UNCHANGED <<sharedVars, call, mono, wall, lagging>>

(* TableNotSeeded, NoMachineIdAvailable: build() fails; reacquire retries. *)
ClaimFails(w) ==
  /\ tx[w].outcome \in {"NotSeeded", "Exhausted"}
  /\ BuildFails(w) \/ Retry(w, "reclaiming", "lost", RECLAIM_RETRY_BACKOFF)
  /\ UNCHANGED <<now, dbVars, releases, wallSteps>>

-----------------------------------------------------------------------------
(* Heartbeats: heartbeat_sql, heartbeat_once and run_lease_task. *)

BeginHeartbeat(w) ==
  /\ pc[w] = "sleep"
  /\ Goto(w, "beating")
  /\ WakeUp(w)
  /\ BeginTx(w)
  /\ UNCHANGED <<now, dbVars, releases, sharedVars, call, clockVars>>

(* One row affected: the token is still w's. *)
ExecHeartbeat(w) ==
  /\ pc[w] = "beating"
  /\ tx[w].outcome = "begun"
  /\ claimed_at[machine_id[w]] = fencing[w]
  /\ reclaimable_after' =
       [reclaimable_after EXCEPT ![machine_id[w]] = tx[w].at + RECLAIM_TTL]
  /\ tx' = [tx EXCEPT ![w].outcome = "Renewed"]
  /\ UNCHANGED <<now, rows, claimed_at, releases, pc, wake, sharedVars, call,
                 clockVars>>

(* No row affected: another claim has rotated the token, or freed it. *)
ExecHeartbeatStolen(w) ==
  /\ pc[w] = "beating"
  /\ tx[w].outcome = "begun"
  /\ claimed_at[machine_id[w]] # fencing[w]
  /\ tx' = [tx EXCEPT ![w].outcome = "Stolen"]
  /\ UNCHANGED <<now, dbVars, releases, pc, wake, sharedVars, call, clockVars>>

HeartbeatRenewed(w) ==
  /\ tx[w].outcome = "Renewed"
  /\ refresh_deadlines(w, SELF_POISON_AFTER)
  /\ poisoned' = [poisoned EXCEPT ![w] = FALSE]
  /\ SleepFor(w, HEARTBEAT_INTERVAL)
  /\ Goto(w, "sleep")
  /\ EndTx(w)
  /\ UNCHANGED <<now, dbVars, releases, machine_id, fencing, call, mono, wall,
                 wallSteps>>

(* Mutant: the token is cleared with the lease. *)
HeartbeatStolen_Forgets(w) ==
  /\ tx[w].outcome = "Stolen"
  /\ poisoned' = [poisoned EXCEPT ![w] = TRUE]
  /\ fencing' = [fencing EXCEPT ![w] = NULL]
  /\ SleepFor(w, 0)
  /\ Goto(w, "lost")
  /\ EndTx(w)
  /\ UNCHANGED <<now, dbVars, releases, machine_id, mono_deadline,
                 wall_deadline, call, clockVars>>

(* Poisoned at once, and straight into reacquire. *)
HeartbeatStolen(w) ==
  /\ tx[w].outcome = "Stolen"
  /\ poisoned' = [poisoned EXCEPT ![w] = TRUE]
  /\ SleepFor(w, 0)
  /\ Goto(w, "lost")
  /\ EndTx(w)
  /\ UNCHANGED <<now, dbVars, releases, machine_id, fencing, mono_deadline,
                 wall_deadline, call, clockVars>>

(* Mutant: a failed heartbeat waits for the next regular one. *)
TxError_NoBackoff(w) ==
  /\ tx[w].outcome # "idle"
  /\ \/ BuildFails(w)
     \/ Retry(w, "beating", "sleep", HEARTBEAT_INTERVAL)
     \/ Retry(w, "reclaiming", "lost", RECLAIM_RETRY_BACKOFF)
  /\ UNCHANGED <<now, dbVars, releases, wallSteps>>

(* sqlx::Error: the transaction did not run, or it committed and its reply *)
(* was lost.  build() fails, the task retries after a back-off.            *)
TxError(w) ==
  /\ tx[w].outcome # "idle"
  /\ \/ BuildFails(w)
     \/ Retry(w, "beating", "sleep", HEARTBEAT_RETRY_BACKOFF)
     \/ Retry(w, "reclaiming", "lost", RECLAIM_RETRY_BACKOFF)
  /\ UNCHANGED <<now, dbVars, releases, wallSteps>>

-----------------------------------------------------------------------------
(* The end of a lease. *)

(* Drop for PgMachineIdLease: abort the task wherever it is (a statement   *)
(* under way has run or never will), spawn a fenced release.  No generate  *)
(* is under way: it borrows the lease.                                     *)
Drop(w) ==
  /\ w \in Droppers
  /\ On(w)
  /\ call[w] = NoCall
  /\ releases' = releases \cup {[mid |-> machine_id[w], fencing |-> fencing[w]]}
  /\ Gone(w)
  /\ UNCHANGED <<now, dbVars, wallSteps>>

(* The process dies, or build() is cancelled: nothing is released. *)
Crash(w) ==
  /\ w \in Killable
  /\ pc[w] # "off"
  /\ Gone(w)
  /\ UNCHANGED <<now, dbVars, releases, wallSteps>>

(* Mutant: the release does not ask for the token. *)
ExecRelease_Unfenced(r) ==
  /\ r \in releases
  /\ releases' = releases \ {r}
  /\ claimed_at' = [claimed_at EXCEPT ![r.mid] = NULL]
  /\ reclaimable_after' = [reclaimable_after EXCEPT ![r.mid] = NULL]
  /\ UNCHANGED <<now, rows, pc, tx, wake, sharedVars, call, clockVars>>

(* release_sql runs, if the row still has the token ... *)
ExecRelease(r) ==
  /\ r \in releases
  /\ releases' = releases \ {r}
  /\ IF claimed_at[r.mid] = r.fencing
       THEN /\ claimed_at' = [claimed_at EXCEPT ![r.mid] = NULL]
            /\ reclaimable_after' = [reclaimable_after EXCEPT ![r.mid] = NULL]
       ELSE UNCHANGED <<claimed_at, reclaimable_after>>
  /\ UNCHANGED <<now, rows, pc, tx, wake, sharedVars, call, clockVars>>

(* ... or it never lands (no runtime, no connection). *)
LoseRelease(r) ==
  /\ r \in releases
  /\ releases' = releases \ {r}
  /\ UNCHANGED <<now, dbVars, pc, tx, wake, sharedVars, call, clockVars>>

-----------------------------------------------------------------------------
(* PgIdGenerator::generate, as far as it depends on the lease: is_fresh,   *)
(* then with_inner's load of the machine ID, then the ID is taken from the *)
(* inner generator.  The lease may change between the three.               *)

BeginGenerate(w) ==
  /\ On(w)
  /\ is_fresh(w)
  /\ call[w] = NoCall
  /\ call' = [call EXCEPT ![w] = [at |-> now, mid |-> NULL]]
  /\ UNCHANGED <<now, dbVars, releases, pc, tx, wake, sharedVars, clockVars>>

LoadMachineId(w) ==
  /\ call[w] # NoCall
  /\ call[w].mid = NULL
  /\ call' = [call EXCEPT ![w].mid = machine_id[w]]
  /\ UNCHANGED <<now, dbVars, releases, pc, tx, wake, sharedVars, clockVars>>

EndGenerate(w) ==
  /\ call[w].mid # NULL
  /\ call' = [call EXCEPT ![w] = NoCall]
  /\ UNCHANGED <<now, dbVars, releases, pc, tx, wake, sharedVars, clockVars>>

-----------------------------------------------------------------------------
(* Time.  It passes for the database and for every wall clock; the         *)
(* monotonic clock of a suspended worker stands still.  A transaction is   *)
(* answered within MaxDelay, an ID is out within MaxInFlight.  At most one *)
(* of a worker's clocks lags behind between two refreshes: no suspend      *)
(* together with a wall clock set back.                                    *)

Tick ==
  /\ now < MaxTime
  /\ \A w \in Workers : tx[w].outcome # "idle" => now < tx[w].at + MaxDelay
  /\ \A w \in Workers : call[w] # NoCall => now < call[w].at + MaxInFlight
  /\ \E S \in SUBSET {w \in Suspendable : Running(w) /\ "wall" \notin lagging[w]} :
       /\ mono' = [w \in Workers |->
                     IF Running(w) /\ w \notin S THEN mono[w] + 1 ELSE mono[w]]
       /\ lagging' = [w \in Workers |->
                     IF w \in S THEN lagging[w] \cup {"mono"} ELSE lagging[w]]
  /\ wall' = [w \in Workers |-> IF Running(w) THEN wall[w] + 1 ELSE wall[w]]
  /\ now' = now + 1
  /\ UNCHANGED <<dbVars, releases, pc, tx, wake, sharedVars, call, wallSteps>>

StepWall(w) ==
  /\ wallSteps < MaxWallSteps
  /\ Running(w)
  /\ \E d \in 1 .. MaxWallStep :
       \/ /\ wall' = [wall EXCEPT ![w] = @ + d]
          /\ UNCHANGED lagging
       \/ /\ "mono" \notin lagging[w]
          /\ wall' = [wall EXCEPT ![w] = @ - d]
          /\ lagging' = [lagging EXCEPT ![w] = @ \cup {"wall"}]
  /\ wallSteps' = wallSteps + 1
  /\ UNCHANGED <<now, dbVars, releases, pc, tx, wake, sharedVars, call, mono>>

-----------------------------------------------------------------------------
TaskStep(w) ==
  \/ BeginBuild(w)       \/ BeginReclaim(w)  \/ BeginHeartbeat(w)
  \/ ExecClaim(w)        \/ ExecClaimNothing(w)
  \/ ExecHeartbeat(w)    \/ ExecHeartbeatStolen(w)
  \/ Adopt(w)            \/ ClaimFails(w)    \/ TxError(w)
  \/ HeartbeatRenewed(w) \/ HeartbeatStolen(w)

UserStep(w) ==
  \/ Drop(w) \/ Crash(w)
  \/ BeginGenerate(w) \/ LoadMachineId(w) \/ EndGenerate(w)

Next ==
  \/ Tick
  \/ Provision
  \/ \E w \in Workers : TaskStep(w) \/ UserStep(w) \/ StepWall(w)
  \/ \E r \in releases : ExecRelease(r) \/ LoseRelease(r)

Spec == Init /\ [][Next]_vars

-----------------------------------------------------------------------------
(* Properties. *)

Times == 0 .. MaxTime

Txs    == [outcome : Outcomes, at : Times, mid : MachineIds]
Calls  == [at : Times \cup {NULL}, mid : MachineIds \cup {NULL}]
Tokens == [mid : MachineIds, fencing : Times]
Lags   == {{}, {"mono"}, {"wall"}}

(* Type correctness. *)
TypeOK ==
  /\ now \in Times
  /\ rows \in {{}, MachineIds}
  /\ claimed_at \in [MachineIds -> Times \cup {NULL}]
  /\ reclaimable_after \in [MachineIds -> Nat \cup {NULL}]
  /\ releases \subseteq Tokens
  /\ pc \in [Workers -> Pcs]
  /\ tx \in [Workers -> Txs]
  /\ wake \in [Workers -> Nat]
  /\ machine_id \in [Workers -> MachineIds]
  /\ fencing \in [Workers -> Times]
  /\ poisoned \in [Workers -> BOOLEAN]
  /\ mono_deadline \in [Workers -> Nat]
  /\ wall_deadline \in [Workers -> Int]
  /\ call \in [Workers -> Calls]
  /\ mono \in [Workers -> Times]
  /\ wall \in [Workers -> Int]
  /\ lagging \in [Workers -> Lags]
  /\ wallSteps \in 0 .. MaxWallSteps

(* The machine IDs under which w may put out an ID now: that of a lease it *)
(* takes for fresh, and that of a generate() under way, even if the lease  *)
(* has expired since it was checked.                                       *)
Using(w) ==
  {m \in MachineIds : \/ On(w) /\ is_fresh(w) /\ machine_id[w] = m
                      \/ call[w].mid = m}

(* "Invariant S. At no wall-clock instant do two live generators in the    *)
(* same ID space hold the same machine ID" (docs/pg-machine-id-leasing.md  *)
(* 30), where holding is being able to issue an ID: whatever the order of  *)
(* claims, heartbeats, releases, crashes, suspends and clock steps.        *)
InvariantS ==
  \A v, w \in Workers : v # w => Using(v) \cap Using(w) = {}

(* Seen as MachineIdUse, the lease hands a machine ID over only through a  *)
(* state in which nobody uses it: no claim, expiry, renewal, re-claim or   *)
(* late load of the machine ID replaces one user by another in one step.   *)
Use == INSTANCE MachineIdUse
         WITH users <- [m \in MachineIds |-> {w \in Workers : m \in Using(w)}]
UseSpec == Use!Spec

(* Liveness is declared by the row (docs 3.1): an ID in use belongs to a   *)
(* row that carries the user's token and that nobody may reclaim yet.      *)
InUseIsLeased ==
  \A w \in Workers : \A m \in Using(w) :
    /\ claimed_at[m] = fencing[w]
    /\ machine_id[w] = m
    /\ now < reclaimable_after[m]

(* While an ID is in use, nobody else's claim, heartbeat or release - late,*)
(* repeated or from a holder long gone - re-tokens its row, frees it or    *)
(* shortens its deadline; nor does an own heartbeat shorten it.            *)
RowInUseIsStable ==
  [][\A w \in Workers : \A m \in Using(w) :
       /\ claimed_at'[m] = claimed_at[m]
       /\ reclaimable_after'[m] >= reclaimable_after[m]]_vars

(* Who can present which token for which row. *)
TokensOf(w) ==
  {t \in Tokens :
     \/ On(w) /\ t.mid = machine_id[w] /\ t.fencing = fencing[w]
     \/ tx[w].outcome = "Got" /\ t.mid = tx[w].mid /\ t.fencing = tx[w].at}

(* claimed_at "rotates only on a steal, so this identifies one claim of a  *)
(* row" (lib.rs:110-113): no two workers, and no worker and release on its *)
(* way, ever have the same token for the same row, although tokens are     *)
(* timestamps taken before the claim runs.                                 *)
TokensIdentifyClaims ==
  /\ \A v, w \in Workers : v # w => TokensOf(v) \cap TokensOf(w) = {}
  /\ \A w \in Workers : TokensOf(w) \cap releases = {}
=============================================================================
