---------------------------- MODULE Provisioning -----------------------------
(***************************************************************************)
(* Provisioning of the lease table, snowdrop-id-postgres/src/lib.rs: any   *)
(* number of processes build() at the same time, with auto_provision or    *)
(* without, while a migration may run schema_sql and seeding_sql.          *)
(*                                                                         *)
(* What counts of Postgres is the unique index: who inserts an entry that  *)
(* another transaction has inserted waits for its end, and then fails with *)
(* unique_violation if it has committed.  The catalogue entries of schema  *)
(* and table are such entries, and so are the seed rows.                   *)
(***************************************************************************)
EXTENDS Integers, Sequences

CONSTANTS
  Processes,      \* they build() or migrate
  Kind,           \* of each: "auto" (auto_provision(true)), "plain", "migration"
  Names,          \* schema names they may be configured with,
  Characters,     \*   sequences of these
  Letters,        \* characters that may begin a name,
  Digits,         \*   and that may follow
  MaxNameLength,  \* 63, to which Postgres truncates an identifier
  DEFAULT_SCHEMA, \* "public"
  MaxMachineId,   \* the seed rows are 0 .. MaxMachineId (1023)
  MaxKills,       \* BOUND: processes that die while they provision
  None, Committed

Outcomes == {"Got", "NotSeeded", "Exhausted", "Sqlx", "NotSerializable",
             "InvalidSchemaName", "Migrated"}

ASSUME ProvisioningAssumption ==
  /\ Kind \in [Processes -> {"auto", "plain", "migration"}]
  /\ DEFAULT_SCHEMA \in Names /\ Names \subseteq Seq(Characters)
  /\ {MaxNameLength, MaxMachineId, MaxKills} \subseteq Nat
  /\ None \notin Processes \cup Outcomes \cup {Committed} /\ Committed \notin Processes

MachineIds == 0 .. MaxMachineId

(* What Postgres takes a quoted identifier for. *)
Identifier(n) == SubSeq(n, 1, IF Len(n) < MaxNameLength THEN Len(n) ELSE MaxNameLength)

Spaces == {Identifier(n) : n \in Names}

Schema == <<"schema", 0>>
Table  == <<"table", 0>>
Row(m) == <<"row", m>>
Entries == {Schema, Table} \cup {Row(m) : m \in MachineIds}

VARIABLES
  isolation, \* the database's default isolation level
  entry,     \* per space and entry: None, its uncommitted creator, or Committed
  holder,    \* per space and seed row: who has claimed it
  pc,        \* where each process is
  name,      \* its schema name
  next,      \* the next row it seeds
  snapshot,  \* the rows its seeding statement sees
  answer,    \* how its build() or migration has ended
  kills      \* processes that have died

vars == <<isolation, entry, holder, pc, name, next, snapshot, answer, kills>>

Pcs == {"off", "find_schema", "create_schema", "find_table", "create_table",
        "commit", "begin_seed", "seed", "claim"}

Answers == Outcomes \cup {None}

Init ==
  /\ isolation \in {"read committed", "repeatable read"}
  /\ entry = [s \in Spaces |-> [e \in Entries |->
                IF s = DEFAULT_SCHEMA /\ e = Schema THEN Committed ELSE None]]
  /\ holder = [s \in Spaces |-> [m \in MachineIds |-> None]]
  /\ pc = [p \in Processes |-> "off"]
  /\ name = [p \in Processes |-> DEFAULT_SCHEMA]
  /\ next = [p \in Processes |-> 0]
  /\ snapshot = [p \in Processes |-> {}]
  /\ answer = [p \in Processes |-> None]
  /\ kills = 0

-----------------------------------------------------------------------------
(* p's own transaction, in the space of its name. *)

Space(p) == Identifier(name[p])
Its(p, e) == entry[Space(p)][e]

Goto(p, l) == pc' = [pc EXCEPT ![p] = l]

Insert(p, e) == /\ Its(p, e) = None
                /\ entry' = [entry EXCEPT ![Space(p)][e] = p]

EndTx(p, outcome) ==
  entry' = [s \in Spaces |-> [e \in Entries |->
              IF entry[s][e] = p THEN outcome ELSE entry[s][e]]]

(* build() or the migration returns; a transaction is rolled back.         *)
Return(p, a) ==
  /\ Goto(p, "off")
  /\ answer' = [answer EXCEPT ![p] = a]
  /\ next' = [next EXCEPT ![p] = 0]
  /\ snapshot' = [snapshot EXCEPT ![p] = {}]
  /\ UNCHANGED <<isolation, name, kills>>

localVars == <<holder, name, next, snapshot, answer, kills>>

-----------------------------------------------------------------------------
(* Mutant: names of one character too many are accepted. *)
validate_schema_name_TooLong(n) ==
  /\ n # <<>> /\ Len(n) <= MaxNameLength + 1
  /\ n[1] \in Letters
  /\ \A i \in 1 .. Len(n) : n[i] \in Letters \cup Digits

validate_schema_name(n) ==
  /\ n # <<>> /\ Len(n) <= MaxNameLength
  /\ n[1] \in Letters
  /\ \A i \in 1 .. Len(n) : n[i] \in Letters \cup Digits

(* The builder's schema_name, then build(). *)
Start(p) ==
  /\ pc[p] = "off" /\ answer[p] = None
  /\ \E n \in Names : /\ validate_schema_name(n)
                      /\ name' = [name EXCEPT ![p] = n]
                      /\ Goto(p, CASE Kind[p] = "plain" -> "claim"
                                   [] n = DEFAULT_SCHEMA -> "find_table"
                                   [] OTHER -> "find_schema")
  /\ UNCHANGED <<isolation, entry, holder, next, snapshot, answer, kills>>

InvalidName(p) ==
  /\ pc[p] = "off" /\ answer[p] = None
  /\ \E n \in Names : ~validate_schema_name(n)
  /\ Return(p, "InvalidSchemaName")
  /\ UNCHANGED <<entry, holder>>

-----------------------------------------------------------------------------
(* provision_sql, one DO block in one transaction, and schema_ddl.  Each   *)
(* CREATE looks for the name and then inserts it; what another transaction *)
(* has inserted but not committed is not found, and waited for.            *)

(* Mutant: the handlers know only duplicate_schema and duplicate_table. *)
SwallowsViolation_Never(p) == FALSE

(* The handlers of the DO block; IF NOT EXISTS has none. *)
SwallowsViolation(p) == Kind[p] = "auto"

Find(p, e, at, create, done) ==
  /\ pc[p] = at
  /\ Goto(p, IF Its(p, e) \in {Committed, p} THEN done ELSE create)
  /\ UNCHANGED <<isolation, entry, localVars>>

Create(p, e, at, done) ==
  /\ pc[p] = at
  /\ \/ /\ Insert(p, e)
        /\ Goto(p, done)
        /\ UNCHANGED <<isolation, localVars>>
     \/ /\ Its(p, e) = Committed
        /\ SwallowsViolation(p)
        /\ Goto(p, done)
        /\ UNCHANGED <<isolation, entry, localVars>>
     \/ /\ Its(p, e) = Committed
        /\ ~SwallowsViolation(p)
        /\ Return(p, "Sqlx")
        /\ EndTx(p, None)
        /\ UNCHANGED holder

CommitSchema(p) ==
  /\ pc[p] = "commit"
  /\ EndTx(p, Committed)
  /\ Goto(p, "begin_seed")
  /\ UNCHANGED <<isolation, localVars>>

-----------------------------------------------------------------------------
(* seeding_ddl, a statement and transaction of its own.                    *)

Seeded(s) == {m \in MachineIds : entry[s][Row(m)] = Committed}

BeginSeed(p) ==
  /\ pc[p] = "begin_seed"
  /\ snapshot' = [snapshot EXCEPT ![p] = Seeded(Space(p))]
  /\ Goto(p, "seed")
  /\ UNCHANGED <<isolation, entry, holder, name, next, answer, kills>>

(* Mutant: the migration seeds from the other end. *)
NextRow_AnyOrder(p) ==
  Row(IF Kind[p] = "migration" THEN MaxMachineId - next[p] ELSE next[p])

(* generate_series. *)
NextRow(p) == Row(next[p])

(* Mutant: the rows are inserted by statements of their own. *)
SeedRow_ByItself(p) ==
  /\ pc[p] = "seed" /\ next[p] <= MaxMachineId
  /\ \/ /\ Its(p, NextRow(p)) = None
        /\ entry' = [entry EXCEPT ![Space(p)][NextRow(p)] = Committed]
     \/ Its(p, NextRow(p)) = Committed /\ UNCHANGED entry
  /\ next' = [next EXCEPT ![p] = @ + 1]
  /\ UNCHANGED <<isolation, holder, pc, name, snapshot, answer, kills>>

(* A row is inserted, or is there: ON CONFLICT DO NOTHING.                 *)
SeedRow(p) ==
  /\ pc[p] = "seed" /\ next[p] <= MaxMachineId
  /\ \/ Insert(p, NextRow(p))
     \/ /\ Its(p, NextRow(p)) = Committed
        /\ isolation = "repeatable read" => next[p] \in snapshot[p]
        /\ UNCHANGED entry
  /\ next' = [next EXCEPT ![p] = @ + 1]
  /\ UNCHANGED <<isolation, holder, pc, name, snapshot, answer, kills>>

(* DO NOTHING about a row that the statement's snapshot does not have is   *)
(* an error above READ COMMITTED, which only claims and heartbeats pin.    *)
NotSerializable(p) ==
  /\ pc[p] = "seed" /\ next[p] <= MaxMachineId
  /\ isolation = "repeatable read"
  /\ Its(p, NextRow(p)) = Committed /\ next[p] \notin snapshot[p]
  /\ Return(p, "NotSerializable")
  /\ EndTx(p, None)
  /\ UNCHANGED holder

(* Mutant: the seeding transaction is left open. *)
CommitSeed_Open(p) ==
  /\ pc[p] = "seed" /\ next[p] > MaxMachineId
  /\ \/ /\ Kind[p] = "migration"
        /\ Return(p, "Migrated")
     \/ /\ Kind[p] = "auto"
        /\ Goto(p, "claim")
        /\ UNCHANGED <<isolation, name, next, snapshot, answer, kills>>
  /\ UNCHANGED <<entry, holder>>

CommitSeed(p) ==
  /\ pc[p] = "seed" /\ next[p] > MaxMachineId
  /\ EndTx(p, Committed)
  /\ \/ /\ Kind[p] = "migration"
        /\ Return(p, "Migrated")
     \/ /\ Kind[p] = "auto"
        /\ Goto(p, "claim")
        /\ UNCHANGED <<isolation, name, next, snapshot, answer, kills>>
  /\ UNCHANGED holder

-----------------------------------------------------------------------------
(* claim_once, of which MachineIdLease has the details.                    *)
Claim(p) ==
  LET s    == Space(p)
      free == {m \in Seeded(s) : holder[s][m] = None}
  IN  /\ pc[p] = "claim"
      /\ \/ /\ Its(p, Table) # Committed
            /\ Return(p, "Sqlx") /\ UNCHANGED holder
         \/ /\ Its(p, Table) = Committed /\ Seeded(s) = {}
            /\ Return(p, "NotSeeded") /\ UNCHANGED holder
         \/ /\ Seeded(s) # {} /\ free = {}
            /\ Return(p, "Exhausted") /\ UNCHANGED holder
         \/ \E m \in free : /\ \A n \in free : m <= n
                            /\ holder' = [holder EXCEPT ![s][m] = p]
                            /\ Return(p, "Got")
      /\ UNCHANGED entry

(* The process dies; it is started again. *)
Kill(p) ==
  /\ kills < MaxKills
  /\ pc[p] # "off"
  /\ kills' = kills + 1
  /\ EndTx(p, None)
  /\ Goto(p, "off")
  /\ next' = [next EXCEPT ![p] = 0]
  /\ snapshot' = [snapshot EXCEPT ![p] = {}]
  /\ UNCHANGED <<isolation, holder, name, answer>>

Step(p) ==
  \/ Start(p) \/ InvalidName(p)
  \/ Find(p, Schema, "find_schema", "create_schema", "find_table")
  \/ Create(p, Schema, "create_schema", "find_table")
  \/ Find(p, Table, "find_table", "create_table", "commit")
  \/ Create(p, Table, "create_table", "commit")
  \/ CommitSchema(p)
  \/ BeginSeed(p) \/ SeedRow(p) \/ NotSerializable(p) \/ CommitSeed(p)
  \/ Claim(p)

Next == \E p \in Processes : Step(p) \/ Kill(p)

Spec == Init /\ [][Next]_vars

-----------------------------------------------------------------------------
(* Type correctness.  What is under creation belongs to a transaction that *)
(* is under way.                                                           *)
TypeOK ==
  /\ isolation \in {"read committed", "repeatable read"}
  /\ entry \in [Spaces -> [Entries -> Processes \cup {None, Committed}]]
  /\ holder \in [Spaces -> [MachineIds -> Processes \cup {None}]]
  /\ pc \in [Processes -> Pcs]
  /\ name \in [Processes -> Names]
  /\ next \in [Processes -> 0 .. MaxMachineId + 1]
  /\ snapshot \in [Processes -> SUBSET MachineIds]
  /\ answer \in [Processes -> Answers]
  /\ kills \in 0 .. MaxKills
  /\ \A s \in Spaces, e \in Entries :
       entry[s][e] \in Processes => pc[entry[s][e]] \notin {"off", "claim"}

(* "so N instances creating at once all succeed" (lib.rs:206-207): whoever *)
(* provisions for itself never fails on what another process creates, has  *)
(* created or has left behind when it died, and finds the table seeded.    *)
(* Only the seeding statement may fail, and only if the database's default *)
(* isolation level is not READ COMMITTED.                                  *)
AutoProvisionSucceeds ==
  \A p \in Processes : Kind[p] = "auto" =>
    /\ answer[p] \notin {"Sqlx", "NotSeeded"}
    /\ answer[p] = "NotSerializable" => isolation = "repeatable read"

(* "Independent ID spaces in one database use distinct schemas"            *)
(* (lib.rs:531), and only one schema name denotes one: names that are      *)
(* accepted and differ are not the same table to Postgres, which truncates *)
(* what is too long.                                                       *)
SpacesAreDistinct ==
  \A p, q \in Processes : pc[p] # "off" /\ pc[q] # "off" =>
    (Space(p) = Space(q) <=> name[p] = name[q])

(* Seeding is "safe under concurrency" (lib.rs:252-253) for those who      *)
(* claim meanwhile: however seedings overlap, wait for each other's rows,  *)
(* fail or die half-way, the rows of a table appear all together.  So a    *)
(* claim never takes a table that is being seeded for one whose machine    *)
(* IDs are all held (NoMachineIdAvailable), and the machine ID it gets is  *)
(* the lowest free of all (lib.rs:558).                                    *)
SeededAtOnce == \A s \in Spaces : Seeded(s) \in {{}, MachineIds}

(* Whose transaction p waits for. *)
WaitsFor(p) ==
  {Its(p, e) : e \in CASE pc[p] = "create_schema" -> {Schema}
                        [] pc[p] = "create_table" -> {Table}
                        [] pc[p] = "seed" /\ next[p] <= MaxMachineId -> {NextRow(p)}
                        [] OTHER -> {}} \ {None, Committed, p}

(* Provisioning is "race-safe" also in that it ends: blocks, seedings and  *)
(* migrations that wait for each other's entries never do so in a circle,  *)
(* since all create them in one order (lib.rs:209-260).                    *)
NoWaitingCircle ==
  \A S \in (SUBSET Processes) \ {{}} : \E p \in S : WaitsFor(p) \cap S = {}
=============================================================================
