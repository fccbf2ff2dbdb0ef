--------------------------- MODULE PgIdGenerator ----------------------------
(***************************************************************************)
(* PgIdGenerator (snowdrop-id-postgres/src/lib.rs:603-710): every worker   *)
(* of MachineIdLease owns an IdGenerator, rebuilt from nothing whenever    *)
(* the lease's machine ID has changed, and issues IDs under the lease.     *)
(* The inner generator is the abstract one, IdIssuer, which IdGenerator    *)
(* implements: its state is the last (timestamp, sequence) it used.        *)
(***************************************************************************)
EXTENDS MachineIdLease

CONSTANTS WINDOW,    \* units of time per ID window (1024 ms)
          TS_MASK,   \* largest window an ID can hold
          SEQ_MASK   \* largest sequence number of a window

ASSUME WindowAssumption ==
  WINDOW \in Nat \ {0} /\ TS_MASK \in Nat /\ SEQ_MASK \in Nat

VARIABLES
  inner,       \* per worker: machine ID and last (ts, seq) of its IdGenerator
  \* History:
  last,        \* per worker: the last ID its PgIdGenerator returned
  issued,      \* every ID returned by any worker
  duplicated   \* every ID returned a second time

idVars == <<last, issued, duplicated>>
pgVars == <<vars, inner, idVars>>

(* An IdGenerator that has issued nothing: STATE_EMPTY. *)
NewGenerator(mid) == [mid |-> mid, ts |-> NULL, seq |-> NULL]

NoId == [ts |-> NULL, mid |-> NULL, seq |-> NULL]

(* The window of a worker's wall clock; before the epoch it is 0. *)
TNow(w) == IF wall[w] >= 0 THEN wall[w] \div WINDOW ELSE 0

(* IDs compare by timestamp, then machine ID, then sequence (id.rs:19-28). *)
Below(a, b) == \/ a.ts < b.ts
               \/ a.ts = b.ts /\ a.mid < b.mid
               \/ a.ts = b.ts /\ a.mid = b.mid /\ a.seq < b.seq

PgInit ==
  /\ Init
  /\ inner = [w \in Workers |-> NewGenerator(0)]
  /\ last = [w \in Workers |-> NoId]
  /\ issued = {}
  /\ duplicated = {}

(* PgIdGeneratorBuilder::build gives a new lease a new generator; it goes  *)
(* with the lease.                                                         *)
InnerFollows ==
  /\ inner' = [w \in Workers |->
                 IF pc'[w] = "off" THEN NewGenerator(0)
                 ELSE IF pc[w] = "building" /\ On(w)' THEN NewGenerator(machine_id'[w])
                 ELSE inner[w]]
  /\ last' = [w \in Workers |-> IF pc'[w] = "off" THEN NoId ELSE last[w]]
  /\ UNCHANGED <<issued, duplicated>>

(* Mutant: the generator is rebuilt for every call. *)
Inner_Rebuilt(w) == NewGenerator(call[w].mid)

(* with_inner: the generator, rebuilt if it has another machine ID. *)
Inner(w) == IF inner[w].mid = call[w].mid THEN inner[w] ELSE NewGenerator(call[w].mid)

(* Mutant: the sequence is not limited. *)
Generate_NoLimit(w) ==
  /\ EndGenerate(w)
  /\ TNow(w) <= TS_MASK
  /\ LET g  == Inner(w)
         id == IF g.ts = NULL \/ TNow(w) > g.ts
                 THEN [ts |-> TNow(w), mid |-> g.mid, seq |-> 0]
                 ELSE [ts |-> g.ts, mid |-> g.mid, seq |-> g.seq + 1]
     IN  /\ inner' = [inner EXCEPT ![w] = id]
         /\ last' = [last EXCEPT ![w] = id]
         /\ issued' = issued \cup {id}
         /\ duplicated' = duplicated \cup (issued \cap {id})

(* Mutant: a clock behind the last window does not hold that window. *)
Generate_NoHold(w) ==
  /\ EndGenerate(w)
  /\ TNow(w) <= TS_MASK
  /\ LET g  == Inner(w)
         id == IF g.ts = NULL \/ TNow(w) # g.ts
                 THEN [ts |-> TNow(w), mid |-> g.mid, seq |-> 0]
                 ELSE [ts |-> g.ts, mid |-> g.mid, seq |-> g.seq + 1]
     IN  /\ id.seq <= SEQ_MASK
         /\ inner' = [inner EXCEPT ![w] = id]
         /\ last' = [last EXCEPT ![w] = id]
         /\ issued' = issued \cup {id}
         /\ duplicated' = duplicated \cup (issued \cap {id})

(* try_generate of the inner generator returns an ID ... *)
Generate(w) ==
  /\ EndGenerate(w)
  /\ TNow(w) <= TS_MASK
  /\ LET g  == Inner(w)
         id == IF g.ts = NULL \/ TNow(w) > g.ts
                 THEN [ts |-> TNow(w), mid |-> g.mid, seq |-> 0]
                 ELSE [ts |-> g.ts, mid |-> g.mid, seq |-> g.seq + 1]
     IN  /\ id.seq <= SEQ_MASK
         /\ inner' = [inner EXCEPT ![w] = id]
         /\ last' = [last EXCEPT ![w] = id]
         /\ issued' = issued \cup {id}
         /\ duplicated' = duplicated \cup (issued \cap {id})

(* ... or not: EpochExhausted goes back to the caller; SequenceExhausted   *)
(* makes generate sleep and start over at is_fresh, here another call.     *)
GenerateExhausted(w) ==
  /\ EndGenerate(w)
  /\ \/ TNow(w) > TS_MASK
     \/ /\ Inner(w).ts # NULL
        /\ TNow(w) <= Inner(w).ts
        /\ Inner(w).seq = SEQ_MASK
  /\ UNCHANGED <<inner, idVars>>

PgNext ==
  \/ /\ \/ Tick
        \/ Provision
        \/ \E w \in Workers : \/ TaskStep(w) \/ Drop(w) \/ Crash(w)
                              \/ BeginGenerate(w) \/ LoadMachineId(w) \/ StepWall(w)
        \/ \E r \in releases : ExecRelease(r) \/ LoseRelease(r)
     /\ InnerFollows
  \/ \E w \in Workers : Generate(w) \/ GenerateExhausted(w)

PgSpec == PgInit /\ [][PgNext]_pgVars

-----------------------------------------------------------------------------
(* What must be left of a row when an ID comes out: the rest of the ID's   *)
(* window, and what two wall clocks may be apart.                          *)
Margin == WINDOW - 1 + MaxWallStep * MaxWallSteps

(* What the docs' timing argument needs for uniqueness: Timely, and time   *)
(* for the window of the last ID to be over when the row is free (docs     *)
(* 6.3).  A hypothesis of the theorems; PgIdGenerator_unique.cfg satisfies *)
(* it with equality.                                                       *)
TimelyWindows ==
  /\ SELF_POISON_AFTER + MaxDelay + MaxInFlight + Margin <= RECLAIM_TTL
  /\ BOOTLOOP_SELF_POISON + MaxDelay + MaxInFlight + Margin <= BOOTLOOP_GRACE

(* Type correctness of what this module adds. *)
PgTypeOK ==
  /\ inner \in [Workers -> [mid : MachineIds, ts : Nat \cup {NULL},
                            seq : 0 .. SEQ_MASK \cup {NULL}]]
  /\ issued \subseteq [ts : Nat, mid : MachineIds, seq : 0 .. SEQ_MASK]
  /\ duplicated \subseteq issued
  /\ \A w \in Workers : last[w] \in issued \cup {NoId}

(* "Violating S can produce duplicate IDs, which is the one thing the      *)
(* module exists to prevent" (docs 33): no ID is ever returned twice, by   *)
(* any worker, across steals, failovers, crashes and restarts.             *)
UniqueIds == duplicated = {}

(* "a fresh generator's timestamps strictly exceed the previous holder's"  *)
(* (docs 411-412): the first ID a generator issues under a machine ID is   *)
(* from a later window than every ID issued under it before.               *)
FreshWindow ==
  [][\A w \in Workers :
       last'[w] # last[w] /\ last'[w] # NoId /\ Inner(w).ts = NULL
         => \A id \in issued : id.mid = last'[w].mid => id.ts < last'[w].ts]_pgVars

(* Per generator the IDs increase, and a machine ID is one generator's at  *)
(* a time (SPEC 7.1, 5.2): whoever issues an ID under a machine ID, be it  *)
(* a worker that has claimed it again and still has its generator of       *)
(* before the other's use (lib.rs:699), issues a larger one than all that  *)
(* were issued under it, whatever steps the wall clocks take.  IDs under   *)
(* two machine IDs are not compared: a lease that moves to a smaller one   *)
(* within a window puts its next ID below its last.                        *)
IdsIncreasePerMachineId ==
  [][\A w \in Workers :
       last'[w] # last[w] /\ last'[w] # NoId
         => \A id \in issued :
              id.mid = last'[w].mid => Below(id, last'[w])]_pgVars
=============================================================================
