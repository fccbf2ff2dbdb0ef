---------------------------- MODULE LeaseThreads ----------------------------
(***************************************************************************)
(* Inside one worker (snowdrop-id-postgres/src/lib.rs): the lease task     *)
(* writes LeaseShared store by store, any number of threads run generate,  *)
(* whose is_fresh reads it load by load, and with_inner swaps the inner    *)
(* generator under an RwLock.                                              *)
(*                                                                         *)
(* Time is what MachineIdLease leaves of it.  Every claim or renewal makes *)
(* a new term of the lease, term k ends when the clock reaches k, and a    *)
(* deadline set for it is k: earlier than the row's, by the margin that    *)
(* MachineIdLease!Timely demands.  What that margin buys is Reclaimable.   *)
(***************************************************************************)
EXTENDS Integers, Sequences

CONSTANTS Threads,      \* callers of the worker's PgIdGenerator
          MaxMachineId, \* machine IDs are 0 .. MaxMachineId (1023)
          TS_MASK,      \* the last window of the epoch
          SEQ_MASK,     \* largest sequence number of a window
          MaxTerm,      \* BOUND: terms granted
          MaxWindow     \* BOUND: the last window that the clock shows

ASSUME ThreadsAssumption ==
  /\ {MaxMachineId, TS_MASK, SEQ_MASK, MaxTerm, MaxWindow} \subseteq Nat
  /\ MaxTerm > 0

NULL == -1

MachineIds == 0 .. MaxMachineId

VARIABLES
  \* The table and the clocks:
  row,      \* per machine ID, as the worker's last claim of it left it
  term,     \* the last term granted
  time,     \* the last term that is over
  slow,     \* the clock that may lag: "mono" or "wall"
  window,   \* the ID window that the wall clock shows
  floor,    \* it will never show an earlier one than this
  \* LeaseShared:
  machine_id, fencing, poisoned, mono_deadline, wall_deadline,
  \* The task:
  task,     \* "sleep": before a heartbeat; "lost": in reacquire
  stores,   \* the stores to LeaseShared it has still to do
  granted,  \* the claim or renewal they are for
  \* The threads:
  pc, reading, since, mid,
  inner,    \* PgIdGenerator.inner: machine ID and last (ts, seq)
  \* History:
  issued, duplicated

sharedVars == <<machine_id, fencing, poisoned, mono_deadline, wall_deadline>>
clockVars  == <<time, slow, window, floor>>
taskVars   == <<task, stores, granted>>
threadVars == <<pc, reading, since, mid>>
idVars     == <<inner, issued, duplicated>>
vars == <<row, term, clockVars, sharedVars, taskVars, threadVars, idVars>>

Pcs == {"idle", "mono", "mono_deadline", "wall", "wall_deadline", "machine_id",
        "read", "write", "read_locked", "write_locked"}

FREE  == 0    \* tokens are the terms of the claims, 1 and up
ALIEN == -1   \* held by another worker

FreeRow == [token |-> FREE, until |-> 0]

(* A generator that has issued nothing: STATE_EMPTY. *)
NewGenerator(m) == [mid |-> m, ts |-> NULL, seq |-> NULL]

-----------------------------------------------------------------------------
(* build() has claimed machine ID 0 and refreshed the deadlines. *)
Init ==
  /\ row = [m \in MachineIds |-> IF m = 0 THEN [token |-> 1, until |-> 1] ELSE FreeRow]
  /\ term = 1
  /\ time = 0
  /\ slow \in {"mono", "wall"}
  /\ window = 0
  /\ floor = 0
  /\ machine_id = 0
  /\ fencing = 1
  /\ poisoned = FALSE
  /\ mono_deadline = 1
  /\ wall_deadline = 1
  /\ task = "sleep"
  /\ stores = <<>>
  /\ granted = [mid |-> 0, token |-> 1, term |-> 1]
  /\ pc = [t \in Threads |-> "idle"]
  /\ reading = [t \in Threads |-> 0]
  /\ since = [t \in Threads |-> NULL]
  /\ mid = [t \in Threads |-> 0]
  /\ inner = NewGenerator(0)
  /\ issued = {}
  /\ duplicated = {}

-----------------------------------------------------------------------------
(* The database and the clocks. *)

Tick ==
  /\ time < term
  /\ time' = time + 1
  /\ UNCHANGED <<row, term, slow, window, floor, sharedVars, taskVars, threadVars,
                 idVars>>

(* The wall clock goes on, or is stepped.  It is set back only if it is    *)
(* the slow one, and with time not as far as before.                       *)
WallClock ==
  /\ floor' \in floor .. floor + 1
  /\ window' \in floor' .. MaxWindow
  /\ slow = "mono" => window' = floor'
  /\ UNCHANGED <<row, term, time, slow, sharedVars, taskVars, threadVars, idVars>>

(* The contract of MachineIdLease, under Timely (UseIsLeased) and with     *)
(* PgIdGenerator!TimelyWindows: a row is up for claiming only after its    *)
(* last term, when every call that has found itself before that term's end *)
(* is over, and so is the window of its last ID by every wall clock.       *)
Reclaimable(m) ==
  /\ row[m].token # ALIEN
  /\ time >= row[m].until
  /\ \A t \in Threads : since[t] = NULL \/ since[t] >= row[m].until
  /\ \A id \in issued : id.mid = m => id.ts < floor

(* Another worker claims the row; it leaves it again. *)
Steal(m) ==
  /\ Reclaimable(m)
  /\ row' = [row EXCEPT ![m] = [token |-> ALIEN, until |-> 0]]
  /\ UNCHANGED <<term, clockVars, sharedVars, taskVars, threadVars, idVars>>

Leave(m) ==
  /\ row[m].token = ALIEN
  /\ row' = [row EXCEPT ![m] = FreeRow]
  /\ UNCHANGED <<term, clockVars, sharedVars, taskVars, threadVars, idVars>>

-----------------------------------------------------------------------------
(* The lease task, run_lease_task and reacquire.  A transaction is one     *)
(* step; its reply is processed when the first of its stores is done.      *)

RefreshStores == <<"mono_deadline", "wall_deadline", "poisoned">>

(* Mutant: the deadlines are set before the machine ID. *)
ReacquireStores_DeadlinesFirst ==
  RefreshStores \o <<"machine_id", "fencing">>

ReacquireStores == <<"machine_id", "fencing">> \o RefreshStores

(* The next term of row m begins in the database; its reply may be lost. *)
Grant(m, token, todo, next) ==
  /\ term < MaxTerm
  /\ term' = term + 1
  /\ row' = [row EXCEPT ![m] = [token |-> token, until |-> term + 1]]
  /\ \/ /\ granted' = [mid |-> m, token |-> token, term |-> term + 1]
        /\ stores' = todo
        /\ task' = next
     \/ UNCHANGED taskVars
  /\ UNCHANGED <<clockVars, sharedVars, threadVars, idVars>>

Renew ==
  /\ task = "sleep" /\ stores = <<>>
  /\ row[machine_id].token = fencing
  /\ Grant(machine_id, fencing, RefreshStores, "sleep")

(* No row affected: poisoned, and into reacquire. *)
Stolen ==
  /\ task = "sleep" /\ stores = <<>>
  /\ row[machine_id].token # fencing
  /\ poisoned' = TRUE
  /\ task' = "lost"
  /\ UNCHANGED <<row, term, clockVars, machine_id, fencing, mono_deadline,
                 wall_deadline, stores, granted, threadVars, idVars>>

(* claim_once: rows that others have locked are skipped. *)
Reclaim ==
  /\ task = "lost" /\ stores = <<>>
  /\ \E m \in MachineIds : /\ Reclaimable(m)
                           /\ Grant(m, term + 1, ReacquireStores, "sleep")

Store ==
  /\ stores # <<>>
  /\ stores' = Tail(stores)
  /\ machine_id' = IF Head(stores) = "machine_id" THEN granted.mid ELSE machine_id
  /\ fencing' = IF Head(stores) = "fencing" THEN granted.token ELSE fencing
  /\ mono_deadline' = IF Head(stores) = "mono_deadline" THEN granted.term
                      ELSE mono_deadline
  /\ wall_deadline' = IF Head(stores) = "wall_deadline" THEN granted.term
                      ELSE wall_deadline
  /\ poisoned' = (poisoned /\ Head(stores) # "poisoned")
  /\ UNCHANGED <<row, term, clockVars, task, granted, threadVars, idVars>>

-----------------------------------------------------------------------------
(* A thread in PgIdGenerator::generate, load by load. *)

Transition(t, from, to) ==
  /\ pc[t] = from
  /\ pc' = [pc EXCEPT ![t] = to]

(* The call returns, or its loop starts over: back to is_fresh. *)
Return(t) ==
  /\ pc' = [pc EXCEPT ![t] = "idle"]
  /\ reading' = [reading EXCEPT ![t] = 0]
  /\ since' = [since EXCEPT ![t] = NULL]
  /\ mid' = [mid EXCEPT ![t] = 0]

outsideVars == <<row, term, clockVars, sharedVars, taskVars>>

LoadPoisoned(t) ==
  /\ ~poisoned
  /\ Transition(t, "idle", "mono")
  /\ UNCHANGED <<outsideVars, reading, since, mid, idVars>>

(* One clock may lag, a suspended monotonic one or a wall clock set back:  *)
(* it may show any time that has been.  What the other one said is what    *)
(* the call may rely on.                                                   *)
ReadClock(t, c, next) ==
  /\ Transition(t, c, next)
  /\ \E r \in 0 .. time :
       /\ c = slow \/ r = time
       /\ reading' = [reading EXCEPT ![t] = r]
  /\ since' = [since EXCEPT ![t] = IF c = slow THEN @ ELSE time]
  /\ UNCHANGED <<outsideVars, mid, idVars>>

LoadDeadline(t, at, deadline, next) ==
  /\ reading[t] < deadline
  /\ Transition(t, at, next)
  /\ reading' = [reading EXCEPT ![t] = 0]
  /\ UNCHANGED <<outsideVars, since, mid, idVars>>

(* MachineIdLeaseLost. *)
LeaseLost(t, at, deadline) ==
  /\ pc[t] = at
  /\ reading[t] >= deadline
  /\ Return(t)
  /\ UNCHANGED <<outsideVars, idVars>>

LoadMachineId(t) ==
  /\ Transition(t, "machine_id", "read")
  /\ mid' = [mid EXCEPT ![t] = machine_id]
  /\ UNCHANGED <<outsideVars, reading, since, idVars>>

(* The RwLock around inner. *)
Writing == \E t \in Threads : pc[t] = "write_locked"
Reading == \E t \in Threads : pc[t] = "read_locked"

ReadLock(t) ==
  /\ ~Writing
  /\ Transition(t, "read", IF inner.mid = mid[t] THEN "read_locked" ELSE "write")
  /\ UNCHANGED <<outsideVars, reading, since, mid, idVars>>

(* Mutant: the machine ID is not compared again under the write lock. *)
WriteLock_NoRecheck(t) ==
  /\ ~Writing /\ ~Reading
  /\ Transition(t, "write", "write_locked")
  /\ inner' = NewGenerator(mid[t])
  /\ UNCHANGED <<outsideVars, reading, since, mid, issued, duplicated>>

WriteLock(t) ==
  /\ ~Writing /\ ~Reading
  /\ Transition(t, "write", "write_locked")
  /\ inner' = IF inner.mid = mid[t] THEN inner ELSE NewGenerator(mid[t])
  /\ UNCHANGED <<outsideVars, reading, since, mid, issued, duplicated>>

(* Mutant: the window is not held when the clock has been set back. *)
NextId_FollowsClock ==
  IF inner.ts = NULL \/ window # inner.ts
  THEN [inner EXCEPT !.ts = window, !.seq = 0]
  ELSE [inner EXCEPT !.seq = @ + 1]

(* The inner generator as the issuer that IdGenerator implements.          *)
NextId == IF inner.ts = NULL \/ window > inner.ts
            THEN [inner EXCEPT !.ts = window, !.seq = 0]
            ELSE [inner EXCEPT !.seq = @ + 1]

(* Mutant: the sequence is not limited. *)
Issue_NoLimit(t) ==
  /\ pc[t] \in {"read_locked", "write_locked"}
  /\ inner' = NextId
  /\ issued' = issued \cup {NextId}
  /\ duplicated' = duplicated \cup (issued \cap {NextId})
  /\ Return(t)
  /\ UNCHANGED outsideVars

Issue(t) ==
  /\ pc[t] \in {"read_locked", "write_locked"}
  /\ window <= TS_MASK
  /\ NextId.seq <= SEQ_MASK
  /\ inner' = NextId
  /\ issued' = issued \cup {NextId}
  /\ duplicated' = duplicated \cup (issued \cap {NextId})
  /\ Return(t)
  /\ UNCHANGED outsideVars

(* EpochExhausted, which the call returns; or SequenceExhausted, and the   *)
(* call sleeps and starts over.  Either way the lock is given up.          *)
Exhausted(t) ==
  /\ pc[t] \in {"read_locked", "write_locked"}
  /\ window > TS_MASK \/ NextId.seq > SEQ_MASK
  /\ Return(t)
  /\ UNCHANGED <<outsideVars, idVars>>

ThreadStep(t) ==
  \/ LoadPoisoned(t)
  \/ ReadClock(t, "mono", "mono_deadline")
  \/ LoadDeadline(t, "mono_deadline", mono_deadline, "wall")
  \/ LeaseLost(t, "mono_deadline", mono_deadline)
  \/ ReadClock(t, "wall", "wall_deadline")
  \/ LoadDeadline(t, "wall_deadline", wall_deadline, "machine_id")
  \/ LeaseLost(t, "wall_deadline", wall_deadline)
  \/ LoadMachineId(t)
  \/ ReadLock(t) \/ WriteLock(t)
  \/ Issue(t) \/ Exhausted(t)

Next ==
  \/ Tick \/ WallClock
  \/ \E m \in MachineIds : Steal(m) \/ Leave(m)
  \/ Renew \/ Stolen \/ Reclaim \/ Store
  \/ \E t \in Threads : ThreadStep(t)

Spec == Init /\ [][Next]_vars

-----------------------------------------------------------------------------
Terms == 0 .. MaxTerm
Tokens == Terms \cup {ALIEN}
Generators == [mid : MachineIds, ts : 0 .. TS_MASK \cup {NULL},
               seq : 0 .. SEQ_MASK \cup {NULL}]

(* Type correctness; no timestamp and no sequence number leaves its field. *)
TypeOK ==
  /\ row \in [MachineIds -> [token : Tokens, until : Terms]]
  /\ {term, time, mono_deadline, wall_deadline} \subseteq Terms
  /\ slow \in {"mono", "wall"}
  /\ floor \in 0 .. MaxWindow
  /\ window \in floor .. MaxWindow
  /\ machine_id \in MachineIds
  /\ fencing \in Terms
  /\ poisoned \in BOOLEAN
  /\ task \in {"sleep", "lost"}
  /\ stores \in Seq({"machine_id", "fencing", "mono_deadline", "wall_deadline", "poisoned"})
  /\ granted \in [mid : MachineIds, token : Terms, term : Terms]
  /\ pc \in [Threads -> Pcs]
  /\ reading \in [Threads -> Terms]
  /\ since \in [Threads -> Terms \cup {NULL}]
  /\ mid \in [Threads -> MachineIds]
  /\ inner \in Generators
  /\ issued \subseteq Generators
  /\ duplicated \subseteq issued

InGenerator(t) == pc[t] \in {"read", "write", "read_locked", "write_locked"}

(* "refuses to generate whenever the lease is not confirmed held"          *)
(* (lib.rs:607-610), whatever order the stores of the task and the loads   *)
(* of is_fresh and with_inner come in: from the load of the machine ID on  *)
(* until the ID is issued, the row of that machine ID is the worker's.     *)
IssuedUnderLease ==
  \A t \in Threads : InGenerator(t) => row[mid[t]].token \notin {FREE, ALIEN}

(* Threads never have different machine IDs in hand, so that with_inner    *)
(* cannot rebuild the generator back and forth (lib.rs:694-709).           *)
AgreeOnMachineId ==
  \A t, u \in Threads : InGenerator(t) /\ InGenerator(u) => mid[t] = mid[u]

(* Rebuilding the generator under the write lock loses no ID that another  *)
(* thread has issued: no ID is returned twice by the threads of a worker.  *)
UniqueIds == duplicated = {}

(* "Per generator: strictly increasing, in generation order" (SPEC 7.2),   *)
(* where a generator is whoever issues under one machine ID (SPEC 5.1):    *)
(* when the lease has moved to another machine ID and back, the generator  *)
(* that with_inner rebuilds (lib.rs:704-707) knows nothing of the IDs      *)
(* issued before, and yet starts after them all; in between, IDs increase  *)
(* though threads race and the clock is set back.                          *)
IdsIncrease ==
  [][inner' # inner /\ inner'.ts # NULL =>
       \A id \in issued : id.mid = inner'.mid =>
         \/ id.ts < inner'.ts
         \/ id.ts = inner'.ts /\ id.seq < inner'.seq]_vars
=============================================================================
