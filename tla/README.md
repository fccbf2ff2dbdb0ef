# Snowdrop ID: verification project

TLA+ models of the Snowdrop ID crates (`snowdrop-id`, `snowdrop-id-postgres`,
`snowdrop-id-cli`),
TLC configurations that model-check them on small instances, and TLAPS proofs of
their main properties for every instance. Source references are to the
repository's files; `generator.rs`, `id.rs`, `base62.rs`, `global.rs` and the
like are in `snowdrop-id/src/`, `lib.rs` is `snowdrop-id-postgres/src/lib.rs`,
`main.rs` is `snowdrop-id-cli/src/main.rs`, "docs" is
`docs/pg-machine-id-leasing.md`.

## 1. The system

A Snowdrop ID is a 63-bit number: 31 bits of timestamp (1024 ms windows since an
epoch), 10 bits of machine ID, 22 bits of sequence. Its external form is a
base62 text of the same fields in the opposite order.

| Component | State | Operations | Talks to |
|---|---|---|---|
| ID layout (`id.rs`) | none | assemble, read fields | everything |
| Local generator (`generator.rs`, `clock.rs`) | one `AtomicU64`: last (timestamp, sequence) | `try_generate`, `generate`, `generate_async` | any number of threads; the wall clock |
| Global generator (`global.rs`) | a `OnceLock` | `init`, `init_with`, `generator`, `generate` | threads at start-up and later |
| External forms (`id.rs`, `base62.rs`, `serde_support.rs`, `sqlx_support.rs`) | none | `encode`, `decode`, `from_u64`, `TryFrom`, `from_parts`, (de)serialisation | texts, numbers and columns from outside |
| Lease table (`lib.rs` SQL) | 1024 rows: `claimed_at`, `reclaimable_after` | claim, heartbeat, release; `provision_sql`, `schema_ddl`, `seeding_ddl` | all workers and migrations, concurrently |
| Machine-ID lease (`lib.rs`) | `LeaseShared`: machine ID, fencing token, poisoned flag, two deadlines | `build`, `run_lease_task`, `reacquire`, `is_fresh`, `Drop` | table by transactions; generator by shared atomics |
| Leased generator (`PgIdGenerator`) | an `RwLock<IdGenerator>` | `generate`, `generate_async`, `with_inner` | lease (reads), inner generator |
| Command-line tool (`main.rs`) | one invocation | `generate`, `encode`, `decode` | the library, a clock, standard output |
| Value types (`epoch.rs`, `machine.rs`, `clock.rs`) | none | range checks, clock reading | everything |

What is hard here, and a test hardly reaches:

* **Races on the atomic.** Clock reading, load and exchange are three steps;
  other threads, and clock steps, come in between (`generator.rs:71-113`).
* **Clocks.** Wall clocks are set back, monotonic clocks freeze in a suspend;
  the generator must hold its window, the lease must expire by either clock.
* **The lease is a distributed timeout.** Whoever holds a row is decided on the
  database's clock, whether a worker still may use it on the worker's; replies
  are late or lost, releases arrive after the row has a new holder, workers
  die, stall and are resumed, machine IDs move.
* **Check, then use.** `is_fresh` is five reads, the machine ID and the ID itself
  are read later still (`lib.rs:637-652`, `696-709`), while the lease task stores
  a new lease piece by piece (`lib.rs:393-399`) and other threads rebuild the
  inner generator.
* **Provisioning.** Any number of processes create schema, table and rows at
  once, some die in between, a migration that is "not race-safe" may run too.
* **Boundaries.** The last sequence number of a window, the last window of the
  epoch, the largest 11-digit text, bit 63, the 63rd byte of a schema name, leap
  days.

`PROJECT.json` lists each hazard at its line with the properties aimed at it.

What makes each component correct: the generator's IDs strictly increase and
its waits are right and finite; a process has one global generator; reading an
external form inverts writing it and each ID has one form of each kind; what the
command prints is what it was asked for, and its exit code says so; everybody
who provisions succeeds, and whoever claims meanwhile sees the whole table or an
empty one; no two workers can use one machine ID at one time ("Invariant S", docs
30), and no ID is ever issued twice; a lease survives the failures it is said to
survive.

## 2. Modules

```
IdLayout ──── IdGenerator ──── MCIdGenerator           (TLC)
   │              │  └──────── GlobalGenerator         OnceLock + generator
   │              │                └── IdGenerator_proofs       (TLAPS)
   │              └ INSTANCE IdIssuer                   the abstract issuer
   ├───────── IdCodec ───────── IdCodec_proofs ──┐
   │              └─── Cli ──── MCCli            │      IdCodec + Calendar
   │                    └─────────────────── Cli_proofs
   └───────── IdLayout_proofs ── IdGenerator_proofs, IdCodec_proofs
MachineIdLease ─── MCMachineIdLease
   │  └ INSTANCE MachineIdUse                           the abstract use
   ├───────── LeaseHealth ──── MachineIdLease_proofs ─┐ punctual schedule
   └───────── PgIdGenerator ── MCPgIdGenerator        │ lease + inner generator
                    └──────────────── PgIdGenerator_proofs
LeaseThreads ───── MCLeaseThreads, LeaseThreads_proofs  inside one worker
Provisioning ───── MCProvisioning, Provisioning_proofs  before the lease
```

**IdLayout** — the field widths are constants (`TS_MASK`, `MID_MASK`,
`SEQ_MASK`); shifts are multiplications by the spans of the fields.

**IdGenerator** — `state` is the atomic, packed by `pack` as in the source;
each thread has the locals of `try_generate` (`nowMs`, `current`) and a program
counter. One step is one access to what threads share: `ReadClock` /
`EpochExhausted`, `Load` / `Sleep` / `SequenceExhausted`, `CasOk` / `CasFail`
(the weak exchange may fail for no reason), then `Wake`, and `Cancel` for a
dropped `generate_async`. The wall clock ticks, and `StepClock` sets it to any
value. `log`, `high`, `steady` and `expired` are history. The Acquire/AcqRel orderings
are taken as sequential consistency: there is one atomic location, whose
modification order is all the algorithm relies on.

**IdIssuer** — what a generator promises, without threads or an atomic: the
next ID is the next sequence number of the last window, or number 0 of a later
window that the clock has already shown. `IdGenerator` implements it
(`IssuerSpec`, with `state` and the locals hidden).

**GlobalGenerator** — `IdGenerator` inside `GLOBAL`, a `OnceLock`. `BeginSet` and
`EndSet` are the two ends of the initialisation that `OnceLock::set` lets in,
`SetAgain` is a caller that has waited for it and is turned away, `Panic` is
`generator()` on an empty lock. `stamps` remembers under whose machine ID IDs were
issued.

**IdCodec** — an ID in one of four forms: base62 text, `u64`, `i64`, the three
fields. `Write` writes one (`encode`, `Serialize`, `as_u64`, `sqlx::Encode`, the
accessors), `MakeUp` is anything else somebody may supply, `Cast` changes the
signedness of an integer outside the library, `Read` is `decode`, `Deserialize`,
`from_u64`, `TryFrom`, `from_parts`. `transform`, `untransform`, the digits and the
checked arithmetic of `decode_str` have base, buffer length and word width as
constants. A text is a sequence of digit values, any byte outside the alphabet
is `INVALID`.

**Calendar** — milliseconds to date and time of day as `format_iso8601_ms` computes
them (`civil`, `time_of_day`), and, independently, the Gregorian calendar and the
clock by their rules (`IsInstant`).

**Cli** — one run of the command, over `IdCodec` and `Calendar`: `parse_options`
runs `parse_argument` through the arguments (`parsing`, a recursive function), then
there is one action per command
and outcome (`Inform`, `Usage`, `EncodeCommand`, `DecodeCommand`, and for `generate`
`GenerateNext`, `GenerateExhausted`, `GenerateDone`, `GeneratePanics`) while `Tick`
advances the clock. The two sums of milliseconds that may leave the u64 are there:
the start of an ID's window (`window_start_ms`, `id.rs:84`), which panics or wraps,
and the end of a used-up one (`WindowEnd`, `generator.rs:90`). Where that is beyond
the word (`WaitsForNothing`) a build that checks overflow panics; one that does not
computes an end long past and retries every millisecond, or after the 1 or 2 s to
which the sum has wrapped: it stays where it is, which is no action.
The exit codes are those of `main`. `ExitCodeTells` reads the arguments a second
time, declaratively (`Asked`, `Said`, `WellFormed`). `Library` continues `IdCodec`'s
own steps in the behaviours with an empty command line, so that one run covers
both.

**MachineIdLease** — the table (`rows`, `claimed_at`, `reclaimable_after`), each
worker's `LeaseShared`, its task's program counter and transaction, and two
clocks per worker. A transaction has three moments: `Begin…` fixes `NOW()`,
`Exec…` runs the statement against the table as it is then, and the reply is
processed by `Adopt`, `HeartbeatRenewed`, `HeartbeatStolen`, `ClaimFails` or,
lost or failed, `TxError` — which may follow a statement that did commit. The
fencing token is `claimed_at`, hence a `NOW()` that is older than the claim.
`FOR UPDATE SKIP LOCKED` skips any set of rows that other statements under way
may have locked. `Drop` sends a release that runs later, never, or after the
row has a new holder. `BeginGenerate`, `LoadMachineId`, `EndGenerate` are the three moments of a
`generate()`. `now` is the database's clock; `Tick` advances everything, except
that the monotonic clock of a suspended worker stands still; `StepWall` sets a
wall clock.

**MachineIdUse** — what the lease promises, without rows, tokens, clocks or
deadlines: a machine ID has one user or none, and passes from one to the next
only through none. `MachineIdLease` implements it (`UseSpec`, `users` being those
who may issue an ID now).

**PgIdGenerator** — adds to every worker its inner `IdGenerator` (as the
abstract issuer: machine ID and last timestamp and sequence), rebuilt by
`with_inner` when the machine ID has changed, and the set of all IDs ever
returned. `GenerateExhausted` is both errors of `try_generate`: EpochExhausted is
returned, SequenceExhausted slept out and tried again.

**LeaseThreads** — the inside of one worker. Its threads go through `generate`
one load at a time: `LoadPoisoned`, `ReadClock` and `LoadDeadline` for either
clock, `LoadMachineId`, `ReadLock`, `WriteLock` (with the second comparison), `Issue`
or `Exhausted`. The lease task's `Store` does one store of `refresh_deadlines` or
`reacquire` at a time, in the source's order. Rows and clocks are reduced to what
`MachineIdLease` and its theorems leave of them: terms of a lease, and a row that
others may take only after its last term, after the calls that rely on it and
after the window of its last ID (`Reclaimable`: a contract with the modules above,
not a translation of `claim_sql`). `window` is what the wall clock shows;
`WallClock` lets it go on and, if it is the slow clock of the two, steps it either
way, though never before `floor`, which goes on with time.

**Provisioning** — what happens before a lease: processes with
`auto_provision(true)`, without it, and a migration, each going through the
`CREATE`s (`Find`, `Create`), the seeding row by row (`BeginSeed`, `SeedRow`,
`NotSerializable`, `CommitSeed`) and the claim. Of Postgres there is the unique
index: whoever inserts what another transaction has inserted waits for its end,
and then gets a unique_violation. The database's default isolation level is
chosen at the start. `Kill` ends a process anywhere; its transaction is rolled
back.

**LeaseHealth** — the same `Next`, restricted to a runtime that does everything
at the instant it is due, so that only the timing constants decide how many
failed heartbeats a lease survives.

Operators named `X_Something` directly before an operator `X` and marked
"Mutant" are deliberate faults; no specification uses them.

## 3. Runs

| Run | Shows | Instance |
|---|---|---|
| `gen_safety` | IDs strictly increase; windows are neither borrowed nor under-used; waits are right; no ID is older than its caller; refinement of `IdIssuer` | 2 threads, 2 windows × 2 numbers, one clock step to any value |
| `global` | one initialisation wins, IDs carry its machine ID, nobody who was answered panics, IDs increase, and every call returns | 2 starters, 2 threads, 2 windows × 1 number, one clock step |
| `gen_setback` | *violation*: EpochExhausted is not permanent if the clock is set back | 1 window |
| `cli` | reading inverts writing, one form of each kind per ID, refusals are justified, earlier fields dominate the length; exit codes and output of the command; dates and times of day; `generate` ends, but where it has nothing to wait for | 32 IDs, base 5, all texts up to 4 characters, all 6-bit integers; command lines of up to 4 arguments out of 9; every day from 1970 to 2101; the last epochs of the word |
| `lease_safety` | Invariant S; whatever is in use is leased; tokens identify claims; nobody touches a row in use; refinement of `MachineIdUse` | 2 workers, 1 machine ID, everything that can go wrong |
| `lease_latereply` | *violation*: a reply processed too late breaks Invariant S | as `lease_safety`, `MaxDelay = 3` |
| `health_misses` | a renewed lease survives two failed heartbeats | the source's constants in units of 5 s |
| `health_firstbeat` | *violation*: it does not survive a failed first heartbeat | the same |
| `pg_unique` | no ID twice, across steals and crashes; a new generator starts in a later window; IDs under the machine ID increase, whoever issues them | 2 workers, 1 machine ID, 3 windows × 2 numbers, one clock step |
| `pg_drop` | *violation*: a dropped machine ID is reused within its window | 2 workers, drops |
| `threads` | no ID without the lease, one machine ID in hand, no ID twice; IDs under each machine ID increase across rebuilds | 2 threads, 2 machine IDs, 3 terms, 3 windows × 1 number, a clock that runs past them and is stepped |
| `provisioning` | all that provision succeed; spaces are distinct; rows appear all together; nobody waits in a circle | 2 provisioning processes, 1 plain, 1 migration, 2 schemas, 2 rows, one death |

**Bounds.** Two threads and two workers are enough for every pairwise race the
code has (each thread or worker meets others only through one atomic, or one
row). Two windows of two sequence numbers contain: first use, next number,
exhaustion, next window, hold, and the end of the epoch. Three terms on two
machine IDs let a lease be lost, move to the other machine ID and come back,
with a thread from each stage still under way. Two starters are enough because
all but the first are treated alike. With two seed rows two seedings can meet in
either order, and a migration and two processes can wait for each other in a
circle of any shape they could have with more. The alphabet, the word and the
fields of `cli` are small but keep what the source's have: the longest text can
overflow the word, the sign bit is one bit beyond the ID, and windows start and end
beyond the last millisecond: `decode` and `generate` get the last two epochs of the
word, `generate` for exactly one window's IDs and for one more. Its four arguments contain every pair of an
option and a value with something before or after it. The days, each at another time of day, go
beyond 1 March 2100 (`LastDay`), the first century without a leap day;
`EveryInstantIsRight` covers the others. `DatesAreRight` fails for a wrong time of
day (`time_of_day_WholeMinutes`) as it does for a wrong leap year. The lease instances
shrink the timing constants but keep every inequality that `lib.rs:103-108`
asserts, and satisfy `Timely` with equality, so that one unit less of margin
fails (the mutants `Candidates_OneEarly` and `Adopt_UntilDeadline` do just
that). `MaxTime` lets a claim, its expiry, a steal and the old holder's
reaction happen; time then stops, which is why the lease runs do not check
deadlock. In `pg_unique` a machine ID is claimed once more after another worker's
use, but the time in which the first worker gets it back and goes on with its
old generator is beyond `MaxTime`; `IdsUnderOneMachineIdIncrease` covers it, and
`threads` has the same within a worker. The other bounds are `MaxSteps`, `MaxWallSteps` (clock steps),
`BootBy`, `MaxText`, `MaxArguments`, `LastDay`, `MaxClock`, `MaxTerm`, `MaxWindow` and `MaxKills`. The runs in
which something really ends (a command, a bounded number of terms, processes
that have their answer) do not check deadlock either; `NoWaitingCircle` says for
provisioning what deadlock would. Symmetry is used for safety runs only.

**Fairness** (`IdGenerator!Fairness`, which `GlobalSpec` takes over). Weak fairness of a thread's own steps: a
running thread is scheduled. Weak fairness of `Tick`: time passes. Strong
fairness of `CasOk`: a thread whose exchange again and again could succeed
eventually does; the source's loop has no better guarantee, a spurious failure
of the weak exchange or an unlimited stream of faster rivals could starve it.
Nobody is obliged to call. `CliSpec`: weak fairness of `generate`'s own steps and of
its clock, but not of `GeneratePanics`, which a release build never takes.

## 4. Environment assumptions of the lease model

* **`Timely`**: `SELF_POISON_AFTER + MaxDelay + MaxInFlight <= RECLAIM_TTL` and
  the same for the grace after a claim. `MaxDelay` is the longest time from a
  transaction's `NOW()` until its reply is processed, `MaxInFlight` the longest
  from `is_fresh` until the ID is out. In the source the margins are 5 min and
  15 s; nothing in the code enforces them. `lease_latereply` shows that a longer
  delay breaks Invariant S, and so does a longer pause after `is_fresh`
  (`MaxDelay = 0`, `MaxInFlight = 4` in the same configuration).
* **`TimelyWindows`** (for `PgIdGenerator`): both sums of `Timely` with
  `Margin = WINDOW - 1 + MaxWallStep * MaxWallSteps` added, that is, a row outlives
  the last `is_fresh` under it by what is left of the window and by the most that
  two workers' wall clocks are ever apart. In the source: 1 s, and clocks that agree
  to within 5 min (15 s after a claim). `pg_unique` satisfies it with equality.
* **One clock at a time**: between two refreshes at most one of a worker's
  clocks falls behind the database's (`lagging`). A suspend together with a
  wall clock set back defeats both deadlines.
* The database's clock does not jump (docs 6.3 say so too), and the table is
  not lost or rolled back by an asynchronous failover.
* A process that dies takes its IDs in flight with it.
* `BOOTLOOP_GRACE <= RECLAIM_TTL`, true of the constants though not asserted.

## 5. Where code and docs disagree

1. `EpochExhausted` is called permanent (`generator.rs:70`, `203`) but nothing
   is remembered: set the clock back and IDs are issued again (`gen_setback`).
2. "VM suspend … No collision" (docs 438) fails for a suspend between `BEGIN`
   and the processing of the reply, because `refresh_deadlines` counts from the
   latter (`lib.rs:148-156`, `lease_latereply`).
3. "a single missed beat must not poison you" (docs 421) fails for the first
   one: 20 s + 30 s back-off > 45 s (`health_firstbeat`).
4. Releasing on drop is "purely a latency optimization" (docs 283), but it lets
   the next holder start at sequence 0 of a window in which the last holder
   issued IDs: duplicates (`pg_drop`). The release would have to wait for the
   window's end.

Not checked by a run of their own:

* "Per generator: strictly increasing, in generation order" (`SPEC.md:310`), and "IDs
  from one generator must be strictly increasing" of a `PgIdGenerator`
  (`tests/lease.rs:279`), is not so once its lease moves (`lib.rs:706`): a smaller
  machine ID in the same window, or any machine ID with a wall clock that was set
  back before, makes the next ID the smaller one. What holds is the same for each
  machine ID (`IdsIncrease` in `threads`, `IdsIncreasePerMachineId` in `pg_unique`), which is what
  uniqueness rests on (`SPEC.md:303-306`).
* `generate` with an epoch close to the end of the u64 (with today's clock, in its
  last 1024 ms) does not always end: after a whole window's IDs the sum of
  `generator.rs:90` overflows, and a debug build panics, a release build waits for
  ever. `GenerateEnds` names the
  exception, `NoWayOut` shows that it is one. `window_start_ms` (`id.rs:81-85`) overflows
  for epochs in the last 2^41 ms; a release build of `decode` then prints an instant before the
  epoch and exits with 0 (`DatesAreRight` excepts it).
* Seeding does not pin the isolation level as claims and heartbeats do
  (`lib.rs:566` against `311-319`). In a database whose default is REPEATABLE READ
  or SERIALIZABLE, a row that a concurrent seeding inserts and commits makes
  `ON CONFLICT DO NOTHING` fail, so not quite "N instances creating at once all
  succeed" (`lib.rs:206-207`, `252-253`). `AutoProvisionSucceeds` names the
  exception; without it the run fails.
* `schema_ddl` is documented as not race-safe; in `provisioning` a migration may
  fail (`Sqlx`) while the processes that provision never do.
* Each invocation of `snowdrop generate` starts at sequence 0 (`main.rs:134`): two
  of the same machine ID within 1024 ms print the same IDs. `SPEC.md:110` makes
  distinct machine IDs the user's duty.
* `generator.rs:203-204` says that the default epoch ends in 2094; 2^41 ms after
  2026-01-01 is 2095-09-07, as `epoch.rs:13-14` says.

## 6. Proofs

Checked by TLAPS for every value of the constants that satisfies the assumptions
named in the modules:

* `LayoutAssumption`, `GeneratorAssumption`, `StartersAssumption`: any field
  widths, any number of threads and of callers of `init`, any clock;
* `CodecAssumption`, `BufferAssumption`, `CliAssumption`: any base from 2 on, a
  word with one bit more than an ID, a buffer that holds the largest ID's text
  ("2^63 - 1 needs 11 base62 digits", `base62.rs:7`), any command lines, any
  length of a window;
* `CalendarAssumption`: any milliseconds to the second, and minutes, hours and
  days that are made of one another;
* `TimingAssumption`, `EnvironmentAssumption`, `WindowAssumption`: any number of
  workers and machine IDs, any timing constants that pass the assertions of
  `lib.rs:103-108`;
* `ThreadsAssumption`, `ProvisioningAssumption`: any threads, terms, windows,
  processes, schema names and numbers of rows.

TLC evaluates each of them in a run. What a theorem needs beyond them is a
hypothesis of its statement.

| Module | Theorems |
|---|---|
| `IdLayout_proofs` | fields can be read back (`FieldsRoundTrip`); a later window has larger IDs (`TimeOrder`) |
| `IdCodec_proofs` | `transform` and `untransform` are inverse bijections (`UntransformTransform`, `TransformUntransform`); the integer forms are exact (`IntegerForms`); `decode` undoes `encode` (`DecodeEncode`) and accepts nothing else (`EncodeDecode`); of the machine: `HandInvariant`, `NothingIsLost` (`RoundTrip`), `FormsAreCanonical` (`OneFormPerId`), `RefusalsAreJustified` (`RefusalsAreTrue`), `EarlierIsShorter` (`EarlierIsNoLonger`) |
| `Cli_proofs` | the date conversion is the calendar's for every day since 1970 (`EveryDateIsRight`), and with the time of day for every millisecond (`EveryInstantIsRight`); `CliInvariant`, `ExitCodesTell` (`ExitCodeTells`), `PrintedDatesAreRight` (`DatesAreRight`), `NoWayOut` (the exception of `GenerateEnds`); a lemma (`LibraryUse`) carries what `IdCodec_proofs` shows of `Spec` over to `CliSpec` — all invariants of `cli` |
| `IdGenerator_proofs` | `TypeCorrect`, `IdsStrictlyIncrease`, `ExhaustedIsUsedUp`, `SleepIsRight`, `IdsNotBeforeReading`: the invariants and action properties of `gen_safety`; `ImplementsIssuer`: it implements `IdIssuer`; `ExpiryPermanentIfMonotone`: what `gen_setback` refutes holds if the clock is never stepped (`MaxSteps = 0`); of the global generator: `GlobalInvariance`, `OneInitWins` (`OneIdentity`), `GlobalIdsIncrease` (`StrictlyIncreasing`), `PanicsOnlyBeforeInit` (`PanicOnlyBeforeInit`) |
| `MachineIdLease_proofs` | `TypeCorrect`; under `Timely`: `TwoNeverUseOneMachineId` (Invariant S), `UseIsLeased`, `OneTokenPerClaim`, `UseKeepsTheRow`, `ImplementsUse` — all properties of `lease_safety`; under `RoomForTwo` and `GoodClocks`: `LeaseSurvivesTwoMisses` (`TwoMissesAreAbsorbed`, `health_misses`) |
| `PgIdGenerator_proofs` | `PgTypeCorrect`; under `TimelyWindows` and without `Drop`: `NoIdTwice` (`UniqueIds`), `FreshGeneratorStartsLater` (`FreshWindow`), `IdsUnderOneMachineIdIncrease` (`IdsIncreasePerMachineId`), for any number of machine IDs — all properties of `pg_unique` |
| `LeaseThreads_proofs` | `TypeCorrect`, `LeaseInvariant`, `ThreadsIssueUnderLease` (`IssuedUnderLease`), `ThreadsAgree` (`AgreeOnMachineId`), `ThreadsGetUniqueIds` (`UniqueIds`), `IdsUnderAMachineIdIncrease` (`IdsIncrease`) — all properties of `threads` |
| `Provisioning_proofs` | `TypeCorrect`, `Invariant`, `AutoProvisionWorks` (`AutoProvisionSucceeds`), `NamesAreSpaces` (`SpacesAreDistinct`), `RowsAppearTogether` (`SeededAtOnce`), `NobodyWaitsInACircle` (`NoWaitingCircle`) — all properties of `provisioning` |

So every invariant and every action property of a passing run is a theorem, under
the hypotheses named, and so is every refinement.

**The generator's invariant** (`IInv` in `IdGenerator_proofs`).
`StrictlyIncreasing` speaks of the log of issued IDs, which no exchange reads.
What ties it to the atomic is `StateIsLast`: the state word is the last ID of
the log, and its window has been filled from number 0 up to it (so that a window
found exhausted is used up). `Checked` keeps what a thread has found out before
its exchange — its reading is within the epoch, the value it expects is not
exhausted — and `Reading` that a reading is in the past unless the clock has been
stepped. A successful exchange replaces the value the thread expects, so its
candidate, computed from that value (`CandidateStep`), follows the last ID.

**The global generator's** (`OnceInv`). `OneIdentity` says nothing of a caller still
inside `OnceLock::set`, nor of a thread that has the generator in hand and has
issued nothing. `OnceInv` says of both that they can come to no other generator
than `global`: nobody is answered before the lock is complete, the one answered
`Ok` is the one whose generator is in it, and a thread that generates has that one.
`GlobalNext` refines `Next` (`GlobalIsNext`), so the generator's theorems carry over.

**The lease's invariant** (`IInv` in `MachineIdLease_proofs`). Invariant S is far
from inductive: it relates two workers' clocks through a row neither of them
looks at. What is added:

* `TxOf`: what a reply on its way says is still true when it arrives. A row
  claimed or renewed cannot be claimed again before `MaxDelay` has passed,
  because `MaxDelay` is shorter than the grace.
* `HoldOf`: as long as the worker's token stands in its row, each of its clocks
  that does not lag will end the lease `MaxInFlight` before the row ends; when
  the token no longer stands there, each such clock *has* ended it, and the
  token is `Dead`: older than the grace. Both clocks are needed exactly because
  either one may lag.
* `CallOf`: a `generate()` under way, though `is_fresh` is not asked again, ends
  before the row can be claimed.
* `TokenInv`, `ReleaseInv`: tokens are unique among holders, claims on their way
  and releases on their way; one that is not in its row is `Dead`, and a
  transaction's `NOW()` is later than any dead token (`LaterThanDead`). So a
  token, though only a timestamp, can never be issued again while anyone has
  it, and a late heartbeat or release cannot match a later holder's row.

`LocalStep` reduces the steps that leave the table alone to what they say of
the one worker that takes them; `ExecClaim`, `ExecHeartbeat`, `ExecRelease`,
`Drop` and `Tick` are done worker by worker. `Timely` is used in `AdoptKeeps`
and `HeartbeatRenewedKeeps`, the two calls of `refresh_deadlines`, and in
`ExecClaimKeeps`; nothing of it is needed for `TypeCorrect`. The theorems hold for
any number of machine IDs, though `lease_safety` has one.

**The refinement** (`ImplementsUse`) needs more than Invariant S, which does not
forbid one step to replace one user by another. `OneWorkerMoves`: a step other
than `Tick` changes what one worker may use, and of no row that another uses
(`RowInUseIsStable` and the invariant before and after the step); `TickEndsUse`:
time only ends uses.

**Two missed heartbeats** (`HealthInv`). "Fresh" compares clocks with deadlines,
"two missed" counts failures; what relates them is time. `HealthOf` says what is
left of the lease when the next heartbeat is due: `Slack` (the length of the lease
less the time until its first heartbeat) minus what the back-offs have cost
(`Lost`), by both clocks alike. That the task sleeps exactly until then, and that
a reply on its way is one to the request it has sent, is the rest. Hypotheses:
`RoomForTwo`, an interval and two back-offs are shorter than `SELF_POISON_AFTER`
(10 min + 2 × 30 s < 25 min in the source); the assertions of `lib.rs:103-108` do
not imply it. `GoodClocks`: nobody is suspended and no wall clock is stepped; either
may end a lease at any time, as it should.

**No ID twice** (`PgIInv`, `PgInvariance` in `PgIdGenerator_proofs`). Invariant S
is about now; an ID is for ever. Two workers that never hold a machine ID at the
same time still collide if the later one's clock shows a window the earlier
one has used, so the invariant follows an ID beyond its lease:

* *The lease, taken twice.* `MachineIdLease`'s invariant holds as it is and, under
  `TimelyWindows`, with `MaxInFlight` longer by `Margin` (`Wide`, an instance of
  the lease's theorems; only `Tick` knows of `MaxInFlight`, and there the longer
  one is the weaker guard, `WideNext`). So a call under way has `Margin` left in
  its row (`LeaseIsAmple`): the rest of the window its ID will be from, and what
  wall clocks may be apart.
* `Clocks`: no two wall clocks are further apart than `Skew`, whatever steps are
  still to come. `Behind` are the distances by which a clock is or may yet get
  behind the database's, and a window is `Over` when it is over by all of them;
  once over, it stays so (`OverKept`).
* `Covered`: a row runs out only when the windows of the IDs issued under it are
  over. `Taken`: so whoever takes the row finds them over, and `Held`: whoever
  holds it finds every ID under it over or its own, up to where its generator
  stands. `Inners`: where a generator stands is an ID it has issued.

`QuietStep` has the steps that issue nothing, `IssueFacts` and `IssueStep` those
that do. Neither hypothesis can go: `pg_drop` refutes `UniqueIds` with a `Drop`,
which frees a row before its windows are over, and one more clock step than
`TimelyWindows` allows does so in `pg_unique`. `IdsUnderOneMachineIdIncrease` follows from
`Held`: whoever issues finds each ID under its machine ID over, or not beyond where
its generator stands. Nothing of the kind relates IDs under two machine IDs (see
section 5).

**Inside a worker** (`LeaseInv`, `IdsInv` in `LeaseThreads_proofs`). A thread may be
between any two loads while the task is between any two stores. What holds at each
of these points:

* `DeadlineInv`: the deadline that the good clock is compared with is `Over` — no
  thread that still has to compare can pass it — or the lease in `LeaseShared` is
  the one in the table (`Holding`) and lasts at least as long. So while `reacquire`
  has stored a new machine ID and not yet the new token and deadlines, nobody
  gets past the old ones.
* `GrantInv`: what the task has yet to store was granted to it and still stands in
  the table, or is `Over`, too. `Pending` are the orders in which that is stored.
* `Relies`: a thread that has passed the good clock's deadline relies on a row
  that nobody else can take before its call is over, and the machine ID it then
  loads is that row's.
* `IdsInv`: every ID under the inner generator's machine ID is `Past` or not beyond
  where the generator stands (`UpTo`); an ID under the machine ID that the lease
  has, or is about to have, while the generator still has another, is past. So a
  rebuilt generator repeats nothing, in whatever order threads rebuild it.

The first three prove `ThreadsIssueUnderLease` and `ThreadsAgree`, the last needs them
and proves `ThreadsGetUniqueIds` and `IdsUnderAMachineIdIncrease`.

**Provisioning** (`IInv` in `Provisioning_proofs`). That whoever provisions succeeds
needs what it found or made on the way to be still there: `PassedInv`. What a
process has passed is its own or committed, never another transaction's that a
rollback takes away again. That nobody waits in a circle is a
property of the order: everybody creates schema, table and rows in one order
(`Rank`), what a transaction has created comes before what it creates next
(`Position`, `OrderInv`), and whoever waits waits for somebody further on
(`WaitsForLater`); a circle has no furthest member (`Largest`). A seeding that
inserted rows in another order (the mutant `NextRow_AnyOrder`) has no such order.
`RowsAppearTogether` needs `PassedInv` too: whoever ends a seeding has passed all rows,
and those that were not its own were committed already; and `HomeInv`, that a
transaction has rows in its own table only.

**Reading what was written** (`CodecInv` in `IdCodec_proofs`). The loops of
`base62.rs` are recursive functions on numbers and on texts. Induction is done in
sets: a set of counterexamples has a smallest member (`Least`, `Smallest`, from the
well-foundedness of `<`), and the same argument shows that a recursive definition
defines a function (`Recursion`). From there: `ReadingTells`, what the checked
loop of `decode_str` has found out after each prefix; the texts it accepts are the
`Canonical` ones, and these are the digits of a number (`DigitsAreCanonical`,
`CanonicalAreDigits`); more digits are a larger number (`LengthMonotone`), so that
overflow is reported only for texts that denote more than the largest ID, and no
ID's text is too long for the buffer. The machine adds little: what is in hand
is of its form (`Fits`) and, unless made up, the very form in which its ID is written,
and a result is what reading it gives.

**The command line** (`CliInv` in `Cli_proofs`). `ExitCodeTells` reads the arguments
declaratively — which of them are values, what was said last — while the code goes
through them once with an option in hand. `Agrees` relates the two after each
prefix of the arguments (`AgreesStep`, `AllAgree`): what is wanted, what each option
is worth so far, the positionals so far, and bad exactly if one of the arguments
so far may not stand where it stands. `GeneratedInv` keeps the last line printed
equal to where the generator stands, so that the next one is larger.

**Dates.** `civil` divides a day of an era by 1460, 36524 and 146096 and subtracts; the
calendar says which years have a leap day. `TakeApart` writes every day of an
era as century, group of four years, year and day, with the last day of a group
or an era where the leap day is; `YearOfEra`, `YearsBefore` and `Months` show what
the source's quotients make of those. `TimeOfDay` does the same for the day's seconds.

**Only model-checked:** liveness, which is beyond this prover: that every call of a
generator returns (`EveryCallReturns` in `global`) and that `generate` ends
(`GenerateEnds` in `cli`). The violations of section 5 are TLC's.

## 7. Not modelled

* **Provisioning:** missing privileges, failing connections and pool exhaustion;
  a migration that drops or alters the table while workers run.
* **Lease:** the sqlx pool (an `acquire` that waits is part of `MaxDelay`), a
  database clock that jumps, replication lag and failover (docs 6.3, 6.5 leave
  them out as well), `tracing` output. An asynchronous `release` that waits for a
  connection is a release that runs late.
* **Generators:** overflow of the sum of `generator.rs:90` for an epoch near 2^64 ms
  is in `Cli`, where an argument reaches it, and not in `IdGenerator`, whose sums are
  natural numbers. TLC tries `generate` with small epochs and with the last two of
  the word; the theorems about the command hold for all. Weak memory orderings (see
  `IdGenerator` above; the stores and loads
  of `LeaseShared` are `Release` and `Acquire`, and are taken one by one, in
  order).
* **External forms:** the alphabets, the serde and sqlx wire formats beyond the
  value they carry, the wording of errors.
* **Command line:** help texts and messages, the long and the hexadecimal spelling
  of options, a standard output that fails. Two invocations of `generate` share
  nothing that could be modelled.
* Liveness of the lease: the task's loops retry for ever, and the code bounds
  neither how often a transaction fails nor how long a connection takes, so
  nothing can be promised without assuming most of it.

## 8. Plan

Done, in this order: `IdLayout`, `IdGenerator` with `IdIssuer`,
`MachineIdLease`, `PgIdGenerator`, `LeaseHealth`, `IdCodec` and their proofs;
then `GlobalGenerator`, `LeaseThreads`, `Provisioning`, `Cli` with `Calendar`,
`MachineIdUse` and the proof that `MachineIdLease` implements it; then that no ID
is issued twice, for any number of workers (`PgIdGenerator_proofs`); then the
inside of a worker, provisioning, the global generator, the external forms, the
command line and the lease's schedule, for all instances.

Next:

1. `LeaseThreads` and `MachineIdLease` joined by a refinement: the terms of the
   former from the rows of the latter, instead of by the argument above.
2. Liveness of the lease under an explicit assumption on the database: a worker
   whose transactions succeed from some time on has a machine ID again.
