------------------------- MODULE LeaseThreads_proofs -------------------------
(***************************************************************************)
(* Theorems about LeaseThreads for any number of threads, machine IDs and  *)
(* terms.  All rest on one fact about the order of the task's stores and   *)
(* the threads' loads: while a deadline is ahead of what some thread may   *)
(* still compare with it, the row it was granted for, the machine ID and   *)
(* the token stand.                                                        *)
(***************************************************************************)
EXTENDS LeaseThreads, SequenceTheorems, TLAPS

(* The deadline that is compared with the clock that does not lag. *)
Deadline == IF slow = "wall" THEN mono_deadline ELSE wall_deadline

(* The pc at which t has read that clock, *)
AtDeadline(t) == pc[t] = (IF slow = "wall" THEN "mono_deadline" ELSE "wall_deadline")

(* and those at which it has found it before the deadline. *)
Passed(t) == \/ InGenerator(t) \/ pc[t] = "machine_id"
             \/ slow = "wall" /\ pc[t] \in {"wall", "wall_deadline"}

(* Nobody passes a deadline d any more. *)
Over(d) == /\ d <= time
           /\ \A t \in Threads : since[t] # NULL => d <= since[t]

(* The stores of reacquire but for the first. *)
FencingOn == Tail(ReacquireStores)

(* What the task may still have to store. *)
Pending == {ReacquireStores, FencingOn, RefreshStores,
            <<"wall_deadline", "poisoned">>, <<"poisoned">>, <<>>}

(* The lease as LeaseShared shows it is the one in the table. *)
Holding == /\ row[machine_id].token = fencing
           /\ task = "sleep"
           /\ stores \notin {ReacquireStores, FencingOn}

(* What is granted is there to be stored, or of no use any more. *)
GrantInv ==
  stores # <<>> =>
    /\ task = "sleep"
    /\ \/ /\ row[granted.mid].token = granted.token
          /\ granted.term <= row[granted.mid].until
       \/ Over(granted.term)
    /\ stores # ReacquireStores => machine_id = granted.mid
    /\ stores \notin {ReacquireStores, FencingOn} =>
         fencing = granted.token

(* The deadline is good as long as the row is. *)
DeadlineInv == \/ Holding /\ Deadline <= row[machine_id].until
               \/ Over(Deadline)

(* Who has passed it relies on the row, until its call is over. *)
Relies(t) ==
  /\ since[t] <= time
  /\ AtDeadline(t) => since[t] # NULL /\ since[t] = reading[t]
  /\ Passed(t) => /\ since[t] # NULL
                  /\ Holding /\ since[t] < row[machine_id].until
                  /\ InGenerator(t) => mid[t] = machine_id

LeaseInv == /\ TypeOK
            /\ stores \in Pending /\ fencing > 0 /\ granted.token > 0
            /\ \A m \in MachineIds : row[m].until <= term
            /\ granted.term <= term /\ Deadline <= term
            /\ GrantInv /\ DeadlineInv
            /\ \A t \in Threads : Relies(t)

(* IDs that no generator can repeat: they are past by every clock, *)
Past(id) == id.ts < floor

(* or not beyond where the generator stands. *)
UpTo(id) == \/ id.ts < inner.ts
            \/ id.ts = inner.ts /\ id.seq <= inner.seq

IdsInv ==
  /\ \A t \in Threads : pc[t] \in {"read_locked", "write_locked"} => inner.mid = mid[t]
  /\ \A id \in issued :
       /\ id.mid = inner.mid => Past(id) \/ UpTo(id)
       /\ id.mid = machine_id /\ inner.mid # machine_id => Past(id)
       /\ id.mid = granted.mid /\ stores = ReacquireStores => Past(id)
  /\ \A id \in issued : id.ts # NULL
  /\ UniqueIds

IInv == LeaseInv /\ IdsInv
-----------------------------------------------------------------------------
(* Sequences of stores. *)

LEMMA Concat23 ==
  ASSUME NEW a, NEW b, NEW c, NEW d, NEW e
  PROVE  <<a, b>> \o <<c, d, e>> = <<a, b, c, d, e>>
<1> DEFINE m == <<a, b>>  r == <<c, d, e>>  t == <<a, b, c, d, e>>
<1>1. PICK S : S = {a, b, c, d, e}
  OBVIOUS
<1>2. /\ m \in Seq(S) /\ Len(m) = 2 /\ r \in Seq(S) /\ Len(r) = 3
      /\ t \in Seq(S) /\ Len(t) = 5
  BY <1>1
<1>3. /\ m[1] = a /\ m[2] = b /\ r[1] = c /\ r[2] = d /\ r[3] = e
      /\ t[1] = a /\ t[2] = b /\ t[3] = c /\ t[4] = d /\ t[5] = e
  OBVIOUS
<1> HIDE DEF m, r, t
<1>4. /\ m \o r \in Seq(S) /\ Len(m \o r) = Len(m) + Len(r)
      /\ \A i \in 1 .. Len(m) + Len(r) :
           (m \o r)[i] = IF i <= Len(m) THEN m[i] ELSE r[i - Len(m)]
  BY <1>2, ConcatProperties
<1>5. m \o r \in Seq(S) /\ Len(m \o r) = 5
  BY <1>2, <1>4
<1>6. \A i \in 1 .. 5 : (m \o r)[i] = t[i]
  BY <1>2, <1>3, <1>4
<1>7. m \o r = t
  BY <1>2, <1>5, <1>6, SeqEqual
<1> QED BY <1>7 DEF m, r, t

LEMMA StoreSeqs ==
  /\ ReacquireStores = <<"machine_id", "fencing", "mono_deadline", "wall_deadline",
                         "poisoned">>
  /\ FencingOn = <<"fencing", "mono_deadline", "wall_deadline", "poisoned">>
<1>1. ReacquireStores = <<"machine_id", "fencing", "mono_deadline", "wall_deadline",
                          "poisoned">>
  BY Concat23 DEF ReacquireStores, RefreshStores
<1> QED BY <1>1 DEF FencingOn

LEMMA Heads ==
  /\ Head(ReacquireStores) = "machine_id" /\ Tail(ReacquireStores) = FencingOn
  /\ Head(FencingOn) = "fencing" /\ Tail(FencingOn) = RefreshStores
  /\ Head(RefreshStores) = "mono_deadline"
  /\ Tail(RefreshStores) = <<"wall_deadline", "poisoned">>
  /\ Head(<<"wall_deadline", "poisoned">>) = "wall_deadline"
  /\ Tail(<<"wall_deadline", "poisoned">>) = <<"poisoned">>
  /\ Head(<<"poisoned">>) = "poisoned" /\ Tail(<<"poisoned">>) = <<>>
BY StoreSeqs DEF RefreshStores

LEMMA Lengths ==
  /\ Len(ReacquireStores) = 5 /\ Len(FencingOn) = 4 /\ Len(RefreshStores) = 3
  /\ Len(<<"wall_deadline", "poisoned">>) = 2 /\ Len(<<"poisoned">>) = 1
  /\ Len(<<>>) = 0
BY StoreSeqs DEF RefreshStores

(* The sequences differ. *)
LEMMA Distinct ==
  /\ ReacquireStores # FencingOn
  /\ ReacquireStores # RefreshStores /\ FencingOn # RefreshStores
  /\ ReacquireStores # <<"wall_deadline", "poisoned">>
  /\ FencingOn # <<"wall_deadline", "poisoned">>
  /\ ReacquireStores # <<"poisoned">> /\ FencingOn # <<"poisoned">>
  /\ ReacquireStores # <<>> /\ FencingOn # <<>> /\ RefreshStores # <<>>
  /\ <<"wall_deadline", "poisoned">> # <<>> /\ <<"poisoned">> # <<>>
<1>1. /\ ReacquireStores # FencingOn
      /\ ReacquireStores # RefreshStores /\ FencingOn # RefreshStores
  BY Lengths
<1>2. /\ ReacquireStores # <<"wall_deadline", "poisoned">>
      /\ FencingOn # <<"wall_deadline", "poisoned">>
  BY Lengths
<1>3. /\ ReacquireStores # <<"poisoned">> /\ FencingOn # <<"poisoned">>
  BY Lengths
<1>4. /\ ReacquireStores # <<>> /\ FencingOn # <<>> /\ RefreshStores # <<>>
  BY Lengths
<1>5. <<"wall_deadline", "poisoned">> # <<>> /\ <<"poisoned">> # <<>>
  OBVIOUS
<1> QED BY <1>1, <1>2, <1>3, <1>4, <1>5

(* What a store does. *)
LEMMA StoreCases ==
  ASSUME stores \in Pending, Store
  PROVE  \/ /\ stores = ReacquireStores /\ stores' = FencingOn
            /\ machine_id' = granted.mid
            /\ UNCHANGED <<fencing, mono_deadline, wall_deadline>>
         \/ /\ stores = FencingOn /\ stores' = RefreshStores
            /\ fencing' = granted.token
            /\ UNCHANGED <<machine_id, mono_deadline, wall_deadline>>
         \/ /\ stores = RefreshStores /\ stores' = <<"wall_deadline", "poisoned">>
            /\ mono_deadline' = granted.term
            /\ UNCHANGED <<machine_id, fencing, wall_deadline>>
         \/ /\ stores = <<"wall_deadline", "poisoned">> /\ stores' = <<"poisoned">>
            /\ wall_deadline' = granted.term
            /\ UNCHANGED <<machine_id, fencing, mono_deadline>>
         \/ /\ stores = <<"poisoned">> /\ stores' = <<>>
            /\ UNCHANGED <<machine_id, fencing, mono_deadline, wall_deadline>>
<1>1. CASE stores = ReacquireStores
  BY <1>1, Heads DEF Store
<1>2. CASE stores = FencingOn
  BY <1>2, Heads DEF Store
<1>3. CASE stores = RefreshStores
  BY <1>3, Heads DEF Store
<1>4. CASE stores = <<"wall_deadline", "poisoned">>
  BY <1>4, Heads DEF Store
<1>5. CASE stores = <<"poisoned">>
  BY <1>5, Heads DEF Store
<1> QED BY <1>1, <1>2, <1>3, <1>4, <1>5 DEF Pending, Store
-----------------------------------------------------------------------------
(* Types. *)

LEMMA Numbers ==
  /\ MaxMachineId \in Nat /\ TS_MASK \in Nat /\ SEQ_MASK \in Nat
  /\ MaxTerm \in Nat /\ MaxWindow \in Nat
  /\ MaxTerm > 0 /\ Terms \subseteq Nat /\ {0, 1} \subseteq Terms
BY ThreadsAssumption DEF Terms

LEMMA InitType == Init => TypeOK
<1> SUFFICES ASSUME Init PROVE TypeOK
  OBVIOUS
<1>1. row \in [MachineIds -> [token : Tokens, until : Terms]]
  BY Numbers DEF Init, FreeRow, FREE, Tokens
<1>2. stores \in Seq({"machine_id", "fencing", "mono_deadline", "wall_deadline", "poisoned"})
  BY DEF Init
<1>3. inner \in Generators
  BY Numbers DEF Init, NewGenerator, Generators, MachineIds
<1>4. /\ machine_id \in MachineIds /\ fencing \in Terms
      /\ floor \in 0 .. MaxWindow /\ window \in floor .. MaxWindow
      /\ {term, time, mono_deadline, wall_deadline} \subseteq Terms
      /\ granted \in [mid : MachineIds, token : Terms, term : Terms]
  BY Numbers DEF Init, MachineIds
<1>5. /\ pc \in [Threads -> Pcs] /\ reading \in [Threads -> Terms]
      /\ since \in [Threads -> Terms \cup {NULL}] /\ mid \in [Threads -> MachineIds]
  BY Numbers DEF Init, MachineIds, Pcs
<1> QED BY <1>1, <1>2, <1>3, <1>4, <1>5 DEF Init, TypeOK

LEMMA StoreTypes ==
  LET S == {"machine_id", "fencing", "mono_deadline", "wall_deadline", "poisoned"}
  IN  RefreshStores \in Seq(S) /\ ReacquireStores \in Seq(S)
BY StoreSeqs DEF RefreshStores

LEMMA GrantType ==
  ASSUME TypeOK, NEW m \in MachineIds, NEW token \in Terms,
         NEW todo \in {RefreshStores, ReacquireStores}, Grant(m, token, todo, "sleep")
  PROVE  TypeOK'
<1>1. term + 1 \in Terms
  <2>1. term \in Terms /\ term < MaxTerm
    BY DEF Grant, TypeOK
  <2> QED BY <2>1, Numbers DEF Terms
<1>2. row' \in [MachineIds -> [token : Tokens, until : Terms]]
  BY <1>1 DEF Grant, TypeOK, Tokens
<1>3. /\ task' \in {"sleep", "lost"}
      /\ granted' \in [mid : MachineIds, token : Terms, term : Terms]
      /\ stores' \in Seq({"machine_id", "fencing", "mono_deadline", "wall_deadline",
                          "poisoned"})
  BY <1>1, StoreTypes DEF Grant, TypeOK, taskVars
<1> QED BY <1>1, <1>2, <1>3 DEF Grant, TypeOK, clockVars, sharedVars, threadVars, idVars

LEMMA NextIdType ==
  ASSUME TypeOK, window <= TS_MASK, NextId.seq <= SEQ_MASK
  PROVE  /\ NextId \in Generators /\ NextId.mid = inner.mid /\ NextId.ts # NULL
         /\ \/ /\ inner.ts = NULL \/ window > inner.ts
               /\ NextId.ts = window /\ NextId.seq = 0
            \/ /\ inner.ts # NULL /\ window <= inner.ts
               /\ NextId.ts = inner.ts /\ NextId.seq = inner.seq + 1
<1>1. /\ inner.mid \in MachineIds /\ inner.ts \in 0 .. TS_MASK \cup {NULL}
      /\ inner.seq \in 0 .. SEQ_MASK \cup {NULL} /\ window \in 0 .. TS_MASK
      /\ inner = [mid |-> inner.mid, ts |-> inner.ts, seq |-> inner.seq]
  BY Numbers DEF TypeOK, Generators
<1>2. CASE inner.ts = NULL \/ window > inner.ts
  <2>1. NextId = [mid |-> inner.mid, ts |-> window, seq |-> 0]
    BY <1>1, <1>2 DEF NextId
  <2> QED BY <1>1, <1>2, <2>1, Numbers DEF Generators, NULL
<1>3. CASE ~(inner.ts = NULL \/ window > inner.ts)
  <2>1. NextId = [mid |-> inner.mid, ts |-> inner.ts, seq |-> inner.seq + 1]
    BY <1>1, <1>3 DEF NextId
  <2>2. inner.seq + 1 \in 0 .. SEQ_MASK
    BY <1>1, <2>1, Numbers DEF NULL
  <2> QED BY <1>1, <1>3, <2>1, <2>2, Numbers DEF Generators, NULL
<1> QED BY <1>2, <1>3

LEMMA ThreadType ==
  ASSUME TypeOK, NEW t \in Threads, ThreadStep(t)
  PROVE  TypeOK'
<1> USE Numbers DEF outsideVars, clockVars, sharedVars, taskVars, idVars, Transition, Pcs
<1>1. ASSUME Return(t) PROVE /\ pc' \in [Threads -> Pcs] /\ reading' \in [Threads -> Terms]
                             /\ since' \in [Threads -> Terms \cup {NULL}]
                             /\ mid' \in [Threads -> MachineIds]
  BY <1>1 DEF Return, TypeOK, MachineIds
<1>2. CASE LoadPoisoned(t)
  BY <1>2 DEF LoadPoisoned, TypeOK
<1>3. ASSUME NEW c \in {"mono", "wall"}, NEW n \in Pcs, ReadClock(t, c, n)
      PROVE  TypeOK'
  <2>1. time \in Terms /\ 0 .. time \subseteq Terms
    BY DEF TypeOK, Terms
  <2>2. reading' \in [Threads -> Terms]
    BY <1>3, <2>1 DEF ReadClock, TypeOK
  <2> QED BY <1>3, <2>1, <2>2 DEF ReadClock, TypeOK
<1>4. ASSUME NEW c, NEW d, NEW n \in Pcs, LoadDeadline(t, c, d, n)
      PROVE  TypeOK'
  <2>1. reading' \in [Threads -> Terms]
    BY <1>4 DEF LoadDeadline, TypeOK
  <2> QED BY <1>4, <2>1 DEF LoadDeadline, TypeOK
<1>5. ASSUME NEW c, NEW d, LeaseLost(t, c, d) PROVE TypeOK'
  BY <1>1, <1>5 DEF LeaseLost, TypeOK
<1>6. CASE LoadMachineId(t)
  BY <1>6 DEF LoadMachineId, TypeOK
<1>7. CASE ReadLock(t)
  BY <1>7 DEF ReadLock, TypeOK
<1>8. CASE WriteLock(t)
  <2>1. inner' \in Generators
    BY <1>8 DEF WriteLock, TypeOK, NewGenerator, Generators
  <2> QED BY <1>8, <2>1 DEF WriteLock, TypeOK
<1>9. CASE Issue(t)
  <2>1. inner' \in Generators /\ issued' \subseteq Generators /\ duplicated' \subseteq issued'
    BY <1>9, NextIdType DEF Issue, TypeOK
  <2> QED BY <1>1, <1>9, <2>1 DEF Issue, TypeOK
<1>10. CASE Exhausted(t)
  BY <1>1, <1>10 DEF Exhausted, TypeOK
<1> QED BY <1>2, <1>3, <1>4, <1>5, <1>6, <1>7, <1>8, <1>9, <1>10 DEF ThreadStep

LEMMA TypeStep == TypeOK /\ [Next]_vars => TypeOK'
<1> SUFFICES ASSUME TypeOK, [Next]_vars PROVE TypeOK'
  OBVIOUS
<1> USE Numbers DEF clockVars, sharedVars, taskVars, threadVars, idVars
<1>1. CASE Tick
  <2>1. term \in Terms /\ time \in Terms
    BY DEF TypeOK
  <2>2. time' \in Terms
    BY <1>1, <2>1 DEF Tick, Terms
  <2> QED BY <1>1, <2>2 DEF Tick, TypeOK
<1>2. CASE WallClock
  <2>1. floor' \in 0 .. MaxWindow /\ window' \in floor' .. MaxWindow
    BY <1>2 DEF WallClock, TypeOK
  <2> QED BY <1>2, <2>1 DEF WallClock, TypeOK
<1>3. ASSUME NEW m \in MachineIds, Steal(m) \/ Leave(m) PROVE TypeOK'
  <2>1. [token |-> ALIEN, until |-> 0] \in [token : Tokens, until : Terms]
    BY DEF Tokens, Terms
  <2>2. FreeRow \in [token : Tokens, until : Terms]
    BY DEF FreeRow, FREE, Tokens, Terms
  <2>3. row' \in [MachineIds -> [token : Tokens, until : Terms]]
    BY <1>3, <2>1, <2>2 DEF Steal, Leave, TypeOK
  <2>4. UNCHANGED <<term, clockVars, sharedVars, taskVars, threadVars, idVars>>
    BY <1>3 DEF Steal, Leave
  <2> QED BY <2>3, <2>4 DEF TypeOK
<1>4. CASE Renew
  BY <1>4, GrantType DEF Renew, TypeOK
<1>5. CASE Stolen
  BY <1>5 DEF Stolen, TypeOK
<1>6. CASE Reclaim
  <2>1. PICK m \in MachineIds : Grant(m, term + 1, ReacquireStores, "sleep")
    BY <1>6 DEF Reclaim
  <2>2. term + 1 \in Terms
    <3>1. term \in Terms /\ term < MaxTerm
      BY <2>1 DEF Grant, TypeOK
    <3> QED BY <3>1, Numbers DEF Terms
  <2> QED BY <2>1, <2>2, GrantType
<1>7. CASE Store
  <2>1. /\ machine_id' \in MachineIds /\ fencing' \in Terms /\ poisoned' \in BOOLEAN
        /\ mono_deadline' \in Terms /\ wall_deadline' \in Terms
    BY <1>7 DEF Store, TypeOK
  <2>2. stores' \in Seq({"machine_id", "fencing", "mono_deadline", "wall_deadline",
                         "poisoned"})
    BY <1>7, HeadTailProperties DEF Store, TypeOK
  <2> QED BY <1>7, <2>1, <2>2 DEF Store, TypeOK
<1>8. CASE UNCHANGED vars
  BY <1>8 DEF vars, TypeOK
<1> QED BY <1>1, <1>2, <1>3, <1>4, <1>5, <1>6, <1>7, <1>8, ThreadType DEF Next
-----------------------------------------------------------------------------
(* The lease. *)

LEMMA Ints ==
  ASSUME TypeOK
  PROVE  /\ time \in Nat /\ term \in Nat
         /\ machine_id \in MachineIds /\ fencing \in Nat /\ Deadline \in Nat
         /\ granted.mid \in MachineIds /\ granted.token \in Nat /\ granted.term \in Nat
         /\ mono_deadline \in Nat /\ wall_deadline \in Nat
         /\ \A m \in MachineIds : row[m].token \in Int /\ row[m].until \in Nat
         /\ \A t \in Threads : since[t] \in Int /\ reading[t] \in Nat
<1>1. Terms \subseteq Nat
  BY Numbers
<1>2. /\ time \in Nat /\ term \in Nat
      /\ machine_id \in MachineIds /\ fencing \in Nat
      /\ mono_deadline \in Nat /\ wall_deadline \in Nat
  BY <1>1 DEF TypeOK
<1>3. granted.mid \in MachineIds /\ granted.token \in Nat /\ granted.term \in Nat
  BY <1>1 DEF TypeOK
<1>4. \A m \in MachineIds : row[m].token \in Int /\ row[m].until \in Nat
  <2>1. \A m \in MachineIds : row[m].token \in Terms \cup {-1} /\ row[m].until \in Terms
    BY DEF TypeOK, Tokens, ALIEN
  <2>2. Terms \cup {-1} \subseteq Int
    BY <1>1
  <2> QED BY <1>1, <2>1, <2>2
<1>5. \A t \in Threads : since[t] \in Int /\ reading[t] \in Nat
  <2>1. \A t \in Threads : since[t] \in Terms \cup {-1} /\ reading[t] \in Terms
    BY DEF TypeOK, NULL
  <2>2. Terms \cup {-1} \subseteq Int
    BY <1>1
  <2> QED BY <1>1, <2>1, <2>2
<1> QED BY <1>2, <1>3, <1>4, <1>5 DEF Deadline

LEMMA InitLease == Init => LeaseInv
<1> SUFFICES ASSUME Init PROVE LeaseInv
  OBVIOUS
<1>1. TypeOK
  BY InitType
<1>2. /\ stores \in Pending /\ stores = <<>> /\ fencing > 0 /\ granted.token > 0
      /\ granted.term <= term /\ Deadline <= term
  BY DEF Init, Pending, Deadline
<1>3. machine_id = 0 /\ 0 \in MachineIds /\ row[0] = [token |-> 1, until |-> 1]
  BY Numbers DEF Init, MachineIds
<1>4. \A m \in MachineIds : row[m].until <= term
  BY DEF Init, FreeRow
<1>5. GrantInv
  BY <1>2 DEF GrantInv
<1>6. Holding /\ Deadline <= row[machine_id].until
  <2>1. stores \notin {ReacquireStores, FencingOn}
    BY <1>2, Distinct
  <2>2. machine_id = 0 /\ fencing = 1 /\ Deadline = 1 /\ task = "sleep"
    BY DEF Init, Deadline
  <2> QED BY <1>3, <2>1, <2>2 DEF Holding
<1>7. ASSUME NEW t \in Threads PROVE Relies(t)
  <2>1. pc[t] = "idle" /\ since[t] = -1 /\ time = 0
    BY DEF Init, NULL
  <2>2. ~Passed(t) /\ ~AtDeadline(t)
    BY <2>1 DEF Passed, AtDeadline, InGenerator
  <2> QED BY <2>1, <2>2 DEF Relies
<1>8. DeadlineInv
  BY <1>6 DEF DeadlineInv
<1> QED BY <1>1, <1>2, <1>4, <1>5, <1>7, <1>8 DEF LeaseInv

LEMMA TickKeeps == ASSUME LeaseInv, TypeOK', Tick PROVE LeaseInv'
<1> USE DEF clockVars, sharedVars, taskVars, threadVars, idVars
<1>1. TypeOK
  BY DEF LeaseInv
<1>2. time <= time' /\ time' \in Nat /\ time \in Nat
  BY <1>1, Ints DEF Tick
<1>3. \A d \in Nat : Over(d) => Over(d)'
  BY <1>1, <1>2, Ints DEF Tick, Over
<1>4. Deadline' = Deadline /\ (Holding <=> Holding')
  BY DEF Tick, Deadline, Holding
<1>5. GrantInv'
  BY <1>1, <1>3, Ints DEF Tick, LeaseInv, GrantInv
<1>6. DeadlineInv'
  BY <1>1, <1>3, <1>4, Ints DEF Tick, LeaseInv, DeadlineInv
<1>7. \A t \in Threads : Relies(t)'
  BY <1>1, <1>2, <1>4, Ints DEF Tick, LeaseInv, Relies, Passed, AtDeadline, InGenerator
<1> QED BY <1>4, <1>5, <1>6, <1>7 DEF Tick, LeaseInv

(* A row that another worker claims is over for all threads. *)
LEMMA StealKeeps ==
  ASSUME LeaseInv, TypeOK', NEW m \in MachineIds, Steal(m) PROVE LeaseInv'
<1> USE DEF clockVars, sharedVars, taskVars, threadVars, idVars
<1>1. TypeOK
  BY DEF LeaseInv
<1>2. /\ row'[m] = [token |-> ALIEN, until |-> 0]
      /\ \A n \in MachineIds : n # m => row'[n] = row[n]
  BY <1>1 DEF Steal, TypeOK
<1>3. \A d \in Nat : /\ Over(d)' = Over(d)
                     /\ d <= row[m].until => Over(d)
  BY <1>1, Ints DEF Steal, Reclaimable, Over
<1>4. Deadline' = Deadline /\ Deadline \in Nat
  BY <1>1, Ints DEF Steal, Deadline
<1>5. machine_id # m => (Holding <=> Holding')
  BY <1>1, <1>2, Ints DEF Steal, Holding
<1>6. GrantInv'
  <2>1. \/ row'[granted.mid] = row[granted.mid]
        \/ granted.term <= row[granted.mid].until => Over(granted.term)'
    BY <1>1, <1>2, <1>3, Ints DEF Steal
  <2> QED BY <1>1, <1>3, <2>1, Ints DEF Steal, LeaseInv, GrantInv
<1>7. DeadlineInv'
  <2>1. CASE machine_id = m
    BY <1>3, <1>4, <2>1 DEF LeaseInv, DeadlineInv
  <2>2. CASE machine_id # m
    BY <1>1, <1>2, <1>3, <1>4, <1>5, <2>2, Ints DEF Steal, LeaseInv, DeadlineInv
  <2> QED BY <2>1, <2>2
<1>8. ASSUME NEW t \in Threads PROVE Relies(t)'
  <2>1. Passed(t)' = Passed(t) /\ AtDeadline(t)' = AtDeadline(t)
        /\ InGenerator(t)' = InGenerator(t)
    BY DEF Steal, Passed, AtDeadline, InGenerator
  <2>2. Relies(t)
    BY DEF LeaseInv
  <2>3. Passed(t) => machine_id # m
    BY <1>1, <2>2, Ints DEF Steal, Reclaimable, Relies
  <2> QED BY <1>1, <1>2, <1>5, <2>1, <2>2, <2>3, Ints DEF Steal, Relies
<1>9. \A n \in MachineIds : row'[n].until <= term'
  BY <1>1, <1>2, Ints DEF Steal, LeaseInv
<1> QED BY <1>4, <1>6, <1>7, <1>8, <1>9 DEF Steal, LeaseInv

LEMMA LeaveKeeps ==
  ASSUME LeaseInv, TypeOK', NEW m \in MachineIds, Leave(m) PROVE LeaseInv'
<1> USE DEF clockVars, sharedVars, taskVars, threadVars, idVars
<1>1. TypeOK
  BY DEF LeaseInv
<1>2. /\ row'[m] = [token |-> FREE, until |-> 0] /\ row[m].token = ALIEN
      /\ \A n \in MachineIds : n # m => row'[n] = row[n]
  BY <1>1 DEF Leave, TypeOK, FreeRow
<1>3. \A d \in Nat : Over(d)' = Over(d)
  BY DEF Leave, Over
<1>4. Deadline' = Deadline /\ Deadline \in Nat
  BY <1>1, Ints DEF Leave, Deadline
<1>5. /\ granted.mid = m => row[m].token # granted.token
      /\ Holding <=> Holding'
      /\ Holding => machine_id # m
  BY <1>1, <1>2, Ints DEF Leave, Holding, LeaseInv, ALIEN, FREE
<1>6. GrantInv'
  BY <1>1, <1>2, <1>3, <1>5, Ints DEF Leave, LeaseInv, GrantInv
<1>7. DeadlineInv'
  BY <1>1, <1>2, <1>3, <1>4, <1>5, Ints DEF Leave, LeaseInv, DeadlineInv
<1>8. ASSUME NEW t \in Threads PROVE Relies(t)'
  <2>1. Passed(t)' = Passed(t) /\ AtDeadline(t)' = AtDeadline(t)
        /\ InGenerator(t)' = InGenerator(t)
    BY DEF Leave, Passed, AtDeadline, InGenerator
  <2>2. Relies(t)
    BY DEF LeaseInv
  <2> QED BY <1>1, <1>2, <1>5, <2>1, <2>2, Ints DEF Leave, Relies
<1>9. \A n \in MachineIds : row'[n].until <= term'
  BY <1>1, <1>2, Ints DEF Leave, LeaseInv
<1> QED BY <1>4, <1>6, <1>7, <1>8, <1>9 DEF Leave, LeaseInv

(* A new term of a row that nobody relies on, or of the worker's own. *)
LEMMA RenewKeeps == ASSUME LeaseInv, TypeOK', Renew PROVE LeaseInv'
<1> USE DEF clockVars, sharedVars, taskVars, threadVars, idVars
<1> DEFINE m == machine_id
<1>1. TypeOK /\ term' = term + 1
  BY DEF LeaseInv, Renew, Grant
<1>2. /\ row'[m] = [token |-> fencing, until |-> term + 1]
      /\ row[m].token = fencing
      /\ \A n \in MachineIds : n # m => row'[n] = row[n]
  BY <1>1, Ints DEF Renew, Grant, TypeOK
<1>3. \A d \in Nat : Over(d)' = Over(d)
  BY DEF Renew, Grant, Over
<1>4. Deadline' = Deadline /\ Deadline \in Nat
  BY <1>1, Ints DEF Renew, Grant, Deadline
<1>5. stores = <<>> /\ stores' \in {<<>>, RefreshStores} /\ task = "sleep" /\ task' = "sleep"
  BY DEF Renew, Grant, taskVars
<1>6. Holding /\ Holding'
  BY <1>2, <1>5, Distinct DEF Renew, Grant, Holding
<1>7. /\ stores' \in Pending /\ granted'.token > 0 /\ granted'.term <= term'
      /\ stores' # <<>> => granted' = [mid |-> m, token |-> fencing, term |-> term + 1]
  BY <1>1, <1>5, Ints DEF Renew, Grant, LeaseInv, Pending
<1>8. GrantInv'
  BY <1>1, <1>2, <1>5, <1>7, Distinct, Ints DEF Renew, Grant, GrantInv
<1>9. DeadlineInv'
  BY <1>1, <1>2, <1>4, <1>6, Ints DEF Renew, Grant, LeaseInv, DeadlineInv
<1>10. ASSUME NEW t \in Threads PROVE Relies(t)'
  <2>1. Passed(t)' = Passed(t) /\ AtDeadline(t)' = AtDeadline(t)
        /\ InGenerator(t)' = InGenerator(t)
    BY DEF Renew, Grant, Passed, AtDeadline, InGenerator
  <2>2. Relies(t) /\ row[m].until <= term
    BY <1>1, Ints DEF LeaseInv
  <2> QED BY <1>1, <1>2, <1>6, <2>1, <2>2, Ints DEF Renew, Grant, Relies
<1>11. \A n \in MachineIds : row'[n].until <= term'
  BY <1>1, <1>2, Ints DEF LeaseInv
<1> QED BY <1>1, <1>4, <1>7, <1>8, <1>9, <1>10, <1>11, Ints DEF Renew, Grant, LeaseInv

LEMMA StolenKeeps == ASSUME LeaseInv, TypeOK', Stolen PROVE LeaseInv'
<1> USE DEF clockVars, sharedVars, taskVars, threadVars, idVars
<1>1. ~Holding /\ Deadline' = Deadline /\ stores = <<>>
  BY DEF Stolen, Holding, Deadline
<1>2. Over(Deadline)
  BY <1>1 DEF LeaseInv, DeadlineInv
<1>3. Over(Deadline)'
  BY <1>1, <1>2 DEF Stolen, Over
<1>4. GrantInv'
  BY <1>1 DEF Stolen, GrantInv
<1>5. ASSUME NEW t \in Threads PROVE Relies(t)'
  BY <1>1 DEF Stolen, LeaseInv, Relies, Passed, AtDeadline, InGenerator
<1> QED BY <1>1, <1>3, <1>4, <1>5 DEF Stolen, LeaseInv, DeadlineInv

LEMMA ReclaimKeeps == ASSUME LeaseInv, TypeOK', Reclaim PROVE LeaseInv'
<1> USE DEF clockVars, sharedVars, taskVars, threadVars, idVars
<1>1. PICK m \in MachineIds : Reclaimable(m) /\ Grant(m, term + 1, ReacquireStores, "sleep")
  BY DEF Reclaim
<1>2. TypeOK /\ term' = term + 1
  BY <1>1 DEF LeaseInv, Grant
<1>3. /\ row'[m] = [token |-> term + 1, until |-> term + 1]
      /\ \A n \in MachineIds : n # m => row'[n] = row[n]
  BY <1>1, <1>2 DEF Grant, TypeOK
<1>4. stores = <<>> /\ ~Holding /\ Deadline' = Deadline
  BY <1>1 DEF Reclaim, Grant, Holding, Deadline
<1>5. Over(Deadline)'
  BY <1>1, <1>4 DEF LeaseInv, DeadlineInv, Grant, Over
<1>6. /\ stores' \in Pending /\ granted'.token > 0 /\ granted'.term <= term'
      /\ stores' # <<>> => /\ stores' = ReacquireStores /\ task' = "sleep"
                           /\ granted' = [mid |-> m, token |-> term + 1, term |-> term + 1]
  BY <1>1, <1>2, <1>4, Ints DEF Grant, LeaseInv, Pending, taskVars
<1>7. GrantInv'
  BY <1>2, <1>3, <1>6, Distinct, Ints DEF GrantInv
<1>8. ASSUME NEW t \in Threads PROVE Relies(t)'
  BY <1>1, <1>4 DEF Grant, LeaseInv, Relies, Passed, AtDeadline, InGenerator
<1>9. \A n \in MachineIds : row'[n].until <= term'
  BY <1>2, <1>3, Ints DEF LeaseInv
<1> QED BY <1>1, <1>2, <1>4, <1>5, <1>6, <1>7, <1>8, <1>9, Ints
        DEF Grant, LeaseInv, DeadlineInv

(* A store moves the worker on to what it was granted. *)
LEMMA StoreKeeps == ASSUME LeaseInv, TypeOK', Store PROVE LeaseInv'
<1> USE DEF clockVars, sharedVars, taskVars, threadVars, idVars
<1>1. TypeOK /\ stores \in Pending /\ stores # <<>> /\ GrantInv
  BY DEF LeaseInv, Store
<1>2. /\ task = "sleep" /\ task' = "sleep" /\ row' = row /\ granted' = granted
      /\ slow' = slow /\ term' = term /\ time' = time
  BY <1>1 DEF Store, GrantInv
<1>3. \A d \in Nat : Over(d)' = Over(d)
  BY DEF Store, Over
<1>4. \/ stores \in {ReacquireStores, FencingOn} /\ Deadline' = Deadline
      \/ /\ stores \notin {ReacquireStores, FencingOn}
         /\ stores' \notin {ReacquireStores, FencingOn}
         /\ machine_id' = machine_id /\ fencing' = fencing
         /\ machine_id = granted.mid /\ fencing = granted.token
         /\ Deadline' \in {Deadline, granted.term}
  <2>1. CASE stores = ReacquireStores
    BY <1>1, <2>1, StoreCases, Distinct DEF Store, Deadline
  <2>2. CASE stores = FencingOn
    BY <1>1, <2>2, StoreCases, Distinct DEF Store, Deadline
  <2>3. CASE stores \notin {ReacquireStores, FencingOn}
    <3>1. machine_id = granted.mid /\ fencing = granted.token
      BY <1>1, <2>3 DEF GrantInv
    <3>2. /\ stores' \notin {ReacquireStores, FencingOn}
          /\ machine_id' = machine_id /\ fencing' = fencing
      BY <1>1, <2>3, StoreCases, Distinct
    <3>3. Deadline' \in {Deadline, granted.term}
      BY <1>1, <1>2, <2>3, StoreCases DEF Deadline
    <3> QED BY <2>3, <3>1, <3>2, <3>3
  <2> QED BY <2>1, <2>2, <2>3
<1>5. GrantInv'
  <2>1. Over(granted.term)' = Over(granted.term)
    BY <1>2 DEF Store, Over
  <2>2. stores' # ReacquireStores /\ machine_id' = granted.mid
    <3>1. CASE stores = ReacquireStores
      BY <1>1, <3>1, StoreCases, Distinct
    <3>2. CASE stores # ReacquireStores
      BY <1>1, <3>2, StoreCases, Distinct DEF GrantInv
    <3> QED BY <3>1, <3>2
  <2>3. stores' \notin {ReacquireStores, FencingOn} => fencing' = granted.token
    <3>1. CASE stores \in {ReacquireStores, FencingOn}
      BY <1>1, <3>1, StoreCases, Distinct
    <3>2. CASE stores \notin {ReacquireStores, FencingOn}
      BY <1>4, <3>2
    <3> QED BY <3>1, <3>2
  <2>4. \/ /\ row[granted.mid].token = granted.token
           /\ granted.term <= row[granted.mid].until
        \/ Over(granted.term)
    BY <1>1 DEF GrantInv
  <2> QED BY <1>2, <2>1, <2>2, <2>3, <2>4 DEF GrantInv
<1>6. Holding => Holding' /\ machine_id' = machine_id
  BY <1>2, <1>4 DEF Holding
<1>7. DeadlineInv'
  <2>1. CASE Deadline' = Deadline
    BY <1>1, <1>2, <1>3, <1>6, <2>1, Ints DEF LeaseInv, DeadlineInv
  <2>2. CASE Deadline' # Deadline
    <3>1. /\ stores' \notin {ReacquireStores, FencingOn} /\ Deadline' = granted.term
          /\ machine_id' = granted.mid /\ fencing' = granted.token
      BY <1>4, <2>2
    <3>2. CASE Over(granted.term)
      BY <1>1, <1>3, <3>1, <3>2, Ints DEF DeadlineInv
    <3>3. CASE ~Over(granted.term)
      BY <1>1, <1>2, <3>1, <3>3 DEF GrantInv, DeadlineInv, Holding
    <3> QED BY <3>2, <3>3
  <2> QED BY <2>1, <2>2
<1>8. ASSUME NEW t \in Threads PROVE Relies(t)'
  <2>1. /\ Passed(t)' = Passed(t) /\ AtDeadline(t)' = AtDeadline(t)
        /\ InGenerator(t)' = InGenerator(t)
        /\ since' = since /\ reading' = reading /\ mid' = mid
    BY DEF Store, Passed, AtDeadline, InGenerator
  <2>2. Relies(t)
    BY DEF LeaseInv
  <2> QED BY <1>2, <1>6, <2>1, <2>2 DEF Relies
<1>9. /\ stores' \in Pending /\ fencing' > 0 /\ granted'.token > 0
      /\ granted'.term <= term' /\ Deadline' <= term'
  <2>1. stores' \in Pending
    BY <1>1, StoreCases DEF Pending
  <2>2. fencing' \in {fencing, granted.token} /\ Deadline' \in {Deadline, granted.term}
    BY <1>1, <1>4, StoreCases
  <2> QED BY <1>2, <2>1, <2>2 DEF LeaseInv
<1> QED BY <1>2, <1>5, <1>7, <1>8, <1>9 DEF LeaseInv

(* A step of one thread disturbs no other. *)
LEMMA OneThread ==
  ASSUME LeaseInv, TypeOK', NEW t \in Threads, UNCHANGED outsideVars,
         \A u \in Threads \ {t} : /\ pc'[u] = pc[u] /\ reading'[u] = reading[u]
                                  /\ since'[u] = since[u] /\ mid'[u] = mid[u],
         since'[t] \in {since[t], NULL, time},
         Relies(t)'
  PROVE  LeaseInv'
<1> USE DEF outsideVars, clockVars, sharedVars, taskVars
<1>1. TypeOK /\ Deadline' = Deadline /\ Holding' = Holding
  BY DEF LeaseInv, Deadline, Holding
<1>2. \A d \in Nat : Over(d) => Over(d)'
  BY DEF Over
<1>3. GrantInv' /\ DeadlineInv'
  BY <1>1, <1>2, Ints DEF LeaseInv, GrantInv, DeadlineInv
<1>4. ASSUME NEW u \in Threads, u # t PROVE Relies(u)'
  <2>1. /\ Passed(u)' = Passed(u) /\ AtDeadline(u)' = AtDeadline(u)
        /\ InGenerator(u)' = InGenerator(u)
    BY <1>4 DEF Passed, AtDeadline, InGenerator
  <2> QED BY <1>1, <1>4, <2>1 DEF LeaseInv, Relies
<1> QED BY <1>1, <1>3, <1>4 DEF LeaseInv

(* A reading before the deadline shows that the lease holds. *)
LEMMA BeforeDeadline ==
  ASSUME LeaseInv, NEW t \in Threads, AtDeadline(t), reading[t] < Deadline
  PROVE  /\ since[t] # NULL
         /\ Holding /\ since[t] < row[machine_id].until
<1>1. TypeOK /\ since[t] # NULL /\ since[t] = reading[t]
  BY DEF LeaseInv, Relies
<1>2. ~Over(Deadline)
  BY <1>1, Ints DEF Over
<1> QED BY <1>1, <1>2, Ints DEF LeaseInv, DeadlineInv

LEMMA ThreadKeeps ==
  ASSUME LeaseInv, TypeOK', NEW t \in Threads, ThreadStep(t) PROVE LeaseInv'
<1> USE DEF outsideVars, clockVars, sharedVars, taskVars, idVars, Transition
<1>1. TypeOK /\ Relies(t) /\ time \in Nat /\ slow \in {"mono", "wall"}
  BY Ints DEF LeaseInv, TypeOK
<1>2. /\ UNCHANGED outsideVars
      /\ \A u \in Threads \ {t} : /\ pc'[u] = pc[u] /\ reading'[u] = reading[u]
                                   /\ since'[u] = since[u] /\ mid'[u] = mid[u]
      /\ since'[t] \in {since[t], NULL, time}
      /\ Holding' = Holding
  <2>1. UNCHANGED outsideVars
    BY DEF ThreadStep, LoadPoisoned, ReadClock, LoadDeadline, LeaseLost, LoadMachineId,
           ReadLock, WriteLock, Issue, Exhausted
  <2>2. /\ \A u \in Threads \ {t} : /\ pc'[u] = pc[u] /\ reading'[u] = reading[u]
                                     /\ since'[u] = since[u] /\ mid'[u] = mid[u]
        /\ since'[t] \in {since[t], NULL, time}
    BY <1>1 DEF ThreadStep, LoadPoisoned, ReadClock, LoadDeadline, LeaseLost,
           LoadMachineId, ReadLock, WriteLock, Issue, Exhausted, Return, TypeOK
  <2> QED BY <2>1, <2>2 DEF Holding
<1> SUFFICES Relies(t)'
  BY <1>2, OneThread
<1>3. ASSUME Return(t) PROVE Relies(t)'
  <2>1. pc'[t] = "idle" /\ since'[t] = NULL /\ time' = time
    BY <1>1, <1>2, <1>3 DEF Return, TypeOK
  <2> QED BY <1>1, <2>1 DEF Relies, Passed, AtDeadline, InGenerator, NULL
<1>4. CASE LoadPoisoned(t)
  <2>1. pc'[t] = "mono" /\ since' = since /\ time' = time
    BY <1>1, <1>4 DEF LoadPoisoned, TypeOK
  <2> QED BY <1>1, <2>1 DEF Relies, Passed, AtDeadline, InGenerator
<1>5. CASE ReadClock(t, "mono", "mono_deadline")
  <2>1. pc'[t] = "mono_deadline" /\ time' = time /\ slow' = slow
    BY <1>1, <1>5 DEF ReadClock, TypeOK
  <2>2. CASE slow = "wall"
    <3>1. reading'[t] = time /\ since'[t] = time
      BY <1>1, <1>5, <2>2 DEF ReadClock, TypeOK
    <3> QED BY <1>1, <2>1, <2>2, <3>1 DEF Relies, Passed, AtDeadline, InGenerator, NULL
  <2>3. CASE slow = "mono"
    <3>1. since'[t] = since[t]
      BY <1>1, <1>5, <2>3 DEF ReadClock, TypeOK
    <3> QED BY <1>1, <2>1, <2>3, <3>1 DEF Relies, Passed, AtDeadline, InGenerator
  <2> QED BY <1>1, <2>2, <2>3
<1>6. CASE LoadDeadline(t, "mono_deadline", mono_deadline, "wall")
  <2>1. /\ pc[t] = "mono_deadline" /\ reading[t] < mono_deadline
        /\ pc'[t] = "wall" /\ time' = time /\ slow' = slow /\ since' = since
        /\ row' = row /\ machine_id' = machine_id
    BY <1>1, <1>6 DEF LoadDeadline, TypeOK
  <2>2. CASE slow = "wall"
    <3>1. since[t] # NULL /\ Holding /\ since[t] < row[machine_id].until
      BY <2>1, <2>2, BeforeDeadline DEF AtDeadline, Deadline
    <3> QED BY <1>1, <1>2, <2>1, <2>2, <3>1 DEF Relies, AtDeadline, InGenerator
  <2>3. CASE slow = "mono"
    BY <1>1, <2>1, <2>3 DEF Relies, Passed, AtDeadline, InGenerator
  <2> QED BY <1>1, <2>2, <2>3
<1>7. CASE ReadClock(t, "wall", "wall_deadline")
  <2>1. /\ pc[t] = "wall" /\ pc'[t] = "wall_deadline" /\ time' = time /\ slow' = slow
        /\ row' = row /\ machine_id' = machine_id
    BY <1>1, <1>7 DEF ReadClock, TypeOK
  <2>2. CASE slow = "wall"
    <3>1. since'[t] = since[t]
      BY <1>1, <1>7, <2>2 DEF ReadClock, TypeOK
    <3> QED BY <1>1, <1>2, <2>1, <2>2, <3>1 DEF Relies, Passed, AtDeadline, InGenerator
  <2>3. CASE slow = "mono"
    <3>1. reading'[t] = time /\ since'[t] = time
      BY <1>1, <1>7, <2>3 DEF ReadClock, TypeOK
    <3> QED BY <1>1, <2>1, <2>3, <3>1 DEF Relies, Passed, AtDeadline, InGenerator, NULL
  <2> QED BY <1>1, <2>2, <2>3
<1>8. CASE LoadDeadline(t, "wall_deadline", wall_deadline, "machine_id")
  <2>1. /\ pc[t] = "wall_deadline" /\ reading[t] < wall_deadline
        /\ pc'[t] = "machine_id" /\ time' = time /\ slow' = slow /\ since' = since
        /\ row' = row /\ machine_id' = machine_id
    BY <1>1, <1>8 DEF LoadDeadline, TypeOK
  <2>2. since[t] # NULL /\ Holding /\ since[t] < row[machine_id].until
    <3>1. CASE slow = "wall"
      BY <1>1, <2>1, <3>1 DEF Relies, Passed
    <3>2. CASE slow = "mono"
      BY <2>1, <3>2, BeforeDeadline DEF AtDeadline, Deadline
    <3> QED BY <1>1, <3>1, <3>2
  <2> QED BY <1>1, <1>2, <2>1, <2>2 DEF Relies, AtDeadline, InGenerator
<1>9. CASE LoadMachineId(t)
  <2>1. /\ pc[t] = "machine_id" /\ pc'[t] = "read" /\ mid'[t] = machine_id
        /\ time' = time /\ since' = since /\ row' = row /\ machine_id' = machine_id
    BY <1>1, <1>9 DEF LoadMachineId, TypeOK
  <2> QED BY <1>1, <1>2, <2>1 DEF Relies, Passed, AtDeadline
<1>10. CASE ReadLock(t) \/ WriteLock(t)
  <2>1. /\ InGenerator(t) /\ pc'[t] \in {"read_locked", "write", "write_locked"}
        /\ mid' = mid /\ time' = time /\ since' = since /\ row' = row
        /\ machine_id' = machine_id
    BY <1>1, <1>10 DEF ReadLock, WriteLock, TypeOK, InGenerator
  <2> QED BY <1>1, <1>2, <2>1 DEF Relies, Passed, AtDeadline
<1> QED BY <1>3, <1>4, <1>5, <1>6, <1>7, <1>8, <1>9, <1>10
        DEF ThreadStep, LeaseLost, Issue, Exhausted

LEMMA LeaseStep == LeaseInv /\ [Next]_vars => LeaseInv'
<1> SUFFICES ASSUME LeaseInv, [Next]_vars PROVE LeaseInv'
  OBVIOUS
<1>1. TypeOK'
  BY TypeStep DEF LeaseInv
<1>2. CASE WallClock \/ UNCHANGED vars
  <2>1. UNCHANGED <<row, term, time, slow, sharedVars, taskVars, threadVars>>
    BY <1>2 DEF WallClock, vars, clockVars
  <2> QED BY <1>1, <2>1 DEF sharedVars, taskVars, threadVars, LeaseInv, GrantInv, DeadlineInv,
             Relies, Passed, AtDeadline, InGenerator, Holding, Deadline, Over
<1> QED BY <1>1, <1>2, TickKeeps, StealKeeps, LeaveKeeps, RenewKeeps, StolenKeeps,
           ReclaimKeeps, StoreKeeps, ThreadKeeps DEF Next
-----------------------------------------------------------------------------
(* The IDs. *)

LEMMA InitIds == Init => IdsInv
<1> SUFFICES ASSUME Init PROVE IdsInv
  OBVIOUS
<1>1. \A t \in Threads : pc[t] = "idle"
  BY DEF Init
<1>2. issued = {} /\ duplicated = {}
  BY DEF Init
<1> QED BY <1>1, <1>2 DEF IdsInv, UniqueIds

(* The window, the machine ID and what is granted may move on while the    *)
(* threads stand still. *)
LEMMA IdsWithoutThreads ==
  ASSUME LeaseInv, IdsInv, [Next]_vars, UNCHANGED <<pc, mid, idVars>>
  PROVE  IdsInv'
<1> USE DEF clockVars, sharedVars, taskVars, threadVars, idVars
<1>1. TypeOK /\ stores \in Pending
  BY DEF LeaseInv
<1>2. ASSUME NEW id \in issued, Past(id) PROVE Past(id)'
  <2>1. floor \in Nat /\ floor' \in {floor, floor + 1}
    <3>1. floor \in Nat
      BY <1>1, Numbers DEF TypeOK
    <3>2. floor' \in {floor, floor + 1}
      BY <3>1 DEF Next, Tick, WallClock, Steal, Leave, Renew, Grant, Stolen, Reclaim, Store,
             ThreadStep, LoadPoisoned, ReadClock, LoadDeadline, LeaseLost, LoadMachineId,
             ReadLock, WriteLock, Issue, Exhausted, outsideVars, vars
    <3> QED BY <3>1, <3>2
  <2>2. id.ts \in Int
    <3>1. id.ts \in 0 .. TS_MASK \cup {-1}
      BY <1>1 DEF TypeOK, Generators, NULL
    <3> QED BY <3>1, Numbers
  <2> QED BY <1>2, <2>1, <2>2 DEF Past
<1>3. \A id \in issued : UpTo(id)' = UpTo(id)
  BY DEF UpTo
<1>4. \/ machine_id' = machine_id
      \/ stores = ReacquireStores /\ machine_id' = granted.mid
  <2>1. CASE Store
    BY <1>1, <2>1, StoreCases
  <2>2. CASE ~Store
    BY <2>2 DEF Next, Tick, WallClock, Steal, Leave, Renew, Grant, Stolen, Reclaim,
             ThreadStep, LoadPoisoned, ReadClock, LoadDeadline, LeaseLost, LoadMachineId,
             ReadLock, WriteLock, Issue, Exhausted, outsideVars, vars
  <2> QED BY <2>1, <2>2
<1>5. ASSUME NEW id \in issued, id.mid = granted'.mid, stores' = ReacquireStores
      PROVE  Past(id)'
  <2>1. CASE Reclaim
    <3>1. PICK m \in MachineIds : Reclaimable(m) /\ Grant(m, term + 1, ReacquireStores, "sleep")
      BY <2>1 DEF Reclaim
    <3>2. stores = <<>> /\ stores' # stores
      BY <1>5, <2>1, Distinct DEF Reclaim
    <3>3. granted'.mid = m
      BY <3>1, <3>2 DEF Grant
    <3> QED BY <1>2, <1>5, <3>1, <3>3 DEF Reclaimable, Past
  <2>2. CASE Renew
    BY <1>5, <2>2, Distinct DEF Renew, Grant
  <2>3. CASE Store
    BY <1>1, <1>5, <2>3, StoreCases, Distinct
  <2>4. CASE ~Reclaim /\ ~Renew /\ ~Store
    <3>1. stores' = stores /\ granted' = granted
      BY <2>4 DEF Next, Tick, WallClock, Steal, Leave, Stolen,
             ThreadStep, LoadPoisoned, ReadClock, LoadDeadline, LeaseLost, LoadMachineId,
             ReadLock, WriteLock, Issue, Exhausted, outsideVars, vars
    <3> QED BY <1>2, <1>5, <3>1 DEF IdsInv
  <2> QED BY <2>1, <2>2, <2>3, <2>4
<1>6. ASSUME NEW id \in issued, id.mid = machine_id', inner.mid # machine_id'
      PROVE  Past(id)'
  BY <1>2, <1>4, <1>6 DEF IdsInv
<1>7. \A id \in issued : id.mid = inner.mid => Past(id)' \/ UpTo(id)'
  BY <1>2, <1>3 DEF IdsInv
<1> QED BY <1>5, <1>6, <1>7 DEF IdsInv, UniqueIds

(* A generator rebuilt for a machine ID starts after all IDs of it. *)
LEMMA IdsWriteLock ==
  ASSUME LeaseInv, IdsInv, NEW t \in Threads, WriteLock(t)
  PROVE  IdsInv'
<1> USE DEF outsideVars, clockVars, sharedVars, taskVars, idVars
<1>1. TypeOK /\ pc[t] = "write" /\ mid[t] = machine_id
  BY DEF WriteLock, Transition, LeaseInv, Relies, Passed, InGenerator
<1>2. inner'.mid = machine_id
  BY <1>1 DEF WriteLock, NewGenerator
<1>3. \A u \in Threads : pc'[u] \in {"read_locked", "write_locked"} => inner'.mid = mid'[u]
  <2>1. \A u \in Threads : u # t => pc'[u] = pc[u]
    BY <1>1 DEF WriteLock, Transition, TypeOK
  <2>2. \A u \in Threads : pc[u] \notin {"read_locked", "write_locked"}
    BY DEF WriteLock, Writing, Reading
  <2> QED BY <1>1, <1>2, <2>1, <2>2 DEF WriteLock
<1>4. \A id \in issued : Past(id)' = Past(id)
  BY DEF WriteLock, Past
<1>5. \A id \in issued : id.mid = machine_id => Past(id) \/ UpTo(id)'
  <2>1. CASE inner.mid = machine_id
    <3>1. inner' = inner
      BY <1>1, <2>1 DEF WriteLock
    <3> QED BY <2>1, <3>1 DEF IdsInv, UpTo
  <2>2. CASE inner.mid # machine_id
    BY <2>2 DEF IdsInv
  <2> QED BY <2>1, <2>2
<1> QED BY <1>2, <1>3, <1>4, <1>5 DEF WriteLock, IdsInv, UniqueIds

(* An ID is issued beyond where the generator stood. *)
LEMMA IdsIssue ==
  ASSUME LeaseInv, IdsInv, NEW t \in Threads, Issue(t)
  PROVE  IdsInv'
<1> USE DEF outsideVars, clockVars, sharedVars, taskVars, idVars
<1> DEFINE new == NextId
<1>1. TypeOK /\ pc[t] \in {"read_locked", "write_locked"}
      /\ window <= TS_MASK /\ new.seq <= SEQ_MASK
  BY DEF Issue, LeaseInv
<1>2. /\ inner.ts \in 0 .. TS_MASK \cup {-1} /\ inner.seq \in 0 .. SEQ_MASK \cup {-1}
      /\ floor \in Nat /\ window \in Nat /\ floor <= window
      /\ \A id \in issued : /\ id.ts \in 0 .. TS_MASK \cup {-1}
                            /\ id.seq \in 0 .. SEQ_MASK \cup {-1}
  BY <1>1, Numbers DEF TypeOK, Generators, NULL
<1>3. /\ inner.ts \in Int /\ inner.seq \in Int
      /\ \A id \in issued : id.ts \in Int /\ id.seq \in Int
  BY <1>2, Numbers
<1>4. /\ new.mid = inner.mid /\ new.ts # NULL
      /\ \/ /\ inner.ts = NULL \/ window > inner.ts
            /\ new.ts = window /\ new.seq = 0
         \/ /\ inner.ts # NULL /\ window <= inner.ts
            /\ new.ts = inner.ts /\ new.seq = inner.seq + 1
  BY <1>1, NextIdType
<1> HIDE DEF new
<1>5. /\ inner' = new /\ issued' = issued \cup {new}
      /\ duplicated' = duplicated \cup (issued \cap {new})
  BY DEF Issue, new
<1>6. ~Past(new) /\ ~UpTo(new) /\ new.seq \in Int
  BY <1>2, <1>3, <1>4 DEF Past, UpTo, NULL
<1>7. new \notin issued
  BY <1>4, <1>6 DEF IdsInv
<1>8. ASSUME NEW id \in issued', id.mid = inner'.mid PROVE Past(id)' \/ UpTo(id)'
  <2>1. CASE id = new
    <3>1. inner'.seq <= inner'.seq
      BY <1>5, <1>6
    <3> QED BY <1>5, <2>1, <3>1 DEF UpTo
  <2>2. CASE id # new
    <3>1. id \in issued /\ (Past(id) \/ UpTo(id))
      BY <1>4, <1>5, <1>8, <2>2 DEF IdsInv
    <3>2. Past(id)' = Past(id)
      BY DEF Issue, Past
    <3>3. UpTo(id) => UpTo(id)' \/ Past(id)
      BY <1>2, <1>3, <1>4, <1>5, <3>1 DEF UpTo, Past, NULL
    <3> QED BY <3>1, <3>2, <3>3
  <2> QED BY <2>1, <2>2
<1>9. stores # ReacquireStores
  BY <1>1 DEF LeaseInv, Relies, Passed, InGenerator, Holding
<1>10. ASSUME NEW id \in issued', id.mid = machine_id', inner'.mid # machine_id'
       PROVE  Past(id)'
  <2>1. id \in issued /\ machine_id' = machine_id /\ inner.mid # machine_id
    BY <1>4, <1>5, <1>10 DEF Issue
  <2> QED BY <1>10, <2>1 DEF IdsInv, Issue, Past
<1>11. \A u \in Threads : pc'[u] \in {"read_locked", "write_locked"} => inner'.mid = mid'[u]
  <2>1. \A u \in Threads : \/ pc'[u] = "idle"
                           \/ pc'[u] = pc[u] /\ mid'[u] = mid[u]
    BY <1>1 DEF Issue, Return, TypeOK
  <2> QED BY <1>4, <1>5, <2>1 DEF IdsInv
<1>12. UniqueIds'
  BY <1>5, <1>7 DEF IdsInv, UniqueIds
<1>13. \A id \in issued' : id.ts # NULL
  BY <1>4, <1>5 DEF IdsInv
<1>14. stores' = stores
  BY DEF Issue
<1> QED BY <1>8, <1>9, <1>10, <1>11, <1>12, <1>13, <1>14 DEF IdsInv

LEMMA IdsStep == LeaseInv /\ IdsInv /\ [Next]_vars => IdsInv'
<1> SUFFICES ASSUME LeaseInv, IdsInv, [Next]_vars PROVE IdsInv'
  OBVIOUS
<1>1. TypeOK
  BY DEF LeaseInv
<1>2. ASSUME NEW t \in Threads, ThreadStep(t), ~WriteLock(t), ~Issue(t) PROVE IdsInv'
  <2>1. UNCHANGED <<outsideVars, idVars>>
    BY <1>2 DEF ThreadStep, LoadPoisoned, ReadClock, LoadDeadline, LeaseLost, LoadMachineId,
                ReadLock, Exhausted
  <2>2. \A u \in Threads : pc'[u] \in {"read_locked", "write_locked"} => inner.mid = mid'[u]
    <3>1. CASE ReadLock(t)
      BY <1>1, <3>1 DEF ReadLock, Transition, IdsInv, TypeOK
    <3>2. CASE LeaseLost(t, "mono_deadline", mono_deadline)
               \/ LeaseLost(t, "wall_deadline", wall_deadline) \/ Exhausted(t)
      BY <1>1, <3>2 DEF LeaseLost, Exhausted, Return, IdsInv, TypeOK
    <3>3. CASE LoadMachineId(t)
      BY <1>1, <3>3 DEF LoadMachineId, Transition, IdsInv, TypeOK
    <3>4. CASE \/ LoadPoisoned(t) \/ ReadClock(t, "mono", "mono_deadline")
               \/ ReadClock(t, "wall", "wall_deadline")
               \/ LoadDeadline(t, "mono_deadline", mono_deadline, "wall")
               \/ LoadDeadline(t, "wall_deadline", wall_deadline, "machine_id")
      BY <1>1, <3>4 DEF LoadPoisoned, ReadClock, LoadDeadline, Transition, IdsInv, TypeOK
    <3> QED BY <1>2, <3>1, <3>2, <3>3, <3>4 DEF ThreadStep
  <2> QED BY <2>1, <2>2 DEF IdsInv, UniqueIds, Past, UpTo, outsideVars, clockVars,
             sharedVars, taskVars, idVars
<1>3. CASE ~\E t \in Threads : ThreadStep(t)
  <2>1. UNCHANGED <<pc, mid, idVars>>
    BY <1>3 DEF Next, Tick, WallClock, Steal, Leave, Renew, Grant, Stolen, Reclaim, Store,
                vars, threadVars
  <2> QED BY <2>1, IdsWithoutThreads
<1> QED BY <1>2, <1>3, IdsWriteLock, IdsIssue
-----------------------------------------------------------------------------
(* Every state of LeaseThreads has the type it should, and no sequence     *)
(* number leaves its field: generate reports SequenceExhausted before.     *)
THEOREM TypeCorrect == Spec => []TypeOK
<1> QED BY InitType, TypeStep, PTL DEF Spec

(* Whatever the stores and loads interleave to: who has passed is_fresh     *)
(* relies on a row that is the worker's until the call is over.            *)
THEOREM LeaseInvariant == Spec => []LeaseInv
<1> QED BY InitLease, LeaseStep, PTL DEF Spec

(* Whatever order the stores of the task and the loads of the threads come *)
(* in, however many threads there are and whichever clock lags: an ID that *)
(* generate returns carries a machine ID whose row is the worker's.        *)
THEOREM ThreadsIssueUnderLease == Spec => []IssuedUnderLease
<1>1. LeaseInv => IssuedUnderLease
  <2> SUFFICES ASSUME LeaseInv, NEW t \in Threads, InGenerator(t)
               PROVE  row[mid[t]].token \notin {FREE, ALIEN}
    BY DEF IssuedUnderLease
  <2>1. row[mid[t]].token = fencing /\ fencing > 0 /\ fencing \in Nat
    BY Ints DEF LeaseInv, Relies, Passed, Holding
  <2> QED BY <2>1 DEF FREE, ALIEN
<1> QED BY <1>1, LeaseInvariant, PTL

(* Two threads between the load of the machine ID and the return of the ID *)
(* have the same one: with_inner never rebuilds the generator for one of   *)
(* them while another needs it for a different one.                        *)
THEOREM ThreadsAgree == Spec => []AgreeOnMachineId
<1>1. LeaseInv => AgreeOnMachineId
  BY DEF LeaseInv, Relies, Passed, AgreeOnMachineId
<1> QED BY <1>1, LeaseInvariant, PTL

(* The threads of a worker never get one ID twice, though with_inner drops *)
(* what the generator remembers at each change of the machine ID.          *)
THEOREM ThreadsGetUniqueIds == Spec => []UniqueIds
<1>1. IInv => UniqueIds
  BY DEF IInv, IdsInv
<1>2. Init => IInv
  BY InitLease, InitIds DEF IInv
<1>3. IInv /\ [Next]_vars => IInv'
  BY LeaseStep, IdsStep DEF IInv
<1> QED BY <1>1, <1>2, <1>3, PTL DEF Spec

(* Under one machine ID the IDs of a worker strictly increase: between two *)
(* moves of the lease because the generator holds its window, across moves *)
(* because a row comes back only when the windows used under it are over.  *)
THEOREM IdsUnderAMachineIdIncrease == Spec => IdsIncrease
<1> DEFINE Increases ==
      inner' # inner /\ inner'.ts # NULL =>
        \A id \in issued : id.mid = inner'.mid =>
          \/ id.ts < inner'.ts
          \/ id.ts = inner'.ts /\ id.seq < inner'.seq
<1>1. ASSUME LeaseInv, IdsInv, NEW t \in Threads, Issue(t) PROVE Increases
  <2>1. /\ inner' = NextId /\ window <= TS_MASK /\ NextId.seq <= SEQ_MASK
        /\ TypeOK
    BY <1>1 DEF Issue, LeaseInv
  <2>2. /\ NextId.mid = inner.mid
        /\ \/ /\ inner.ts = NULL \/ window > inner.ts
              /\ NextId.ts = window /\ NextId.seq = 0
           \/ /\ inner.ts # NULL /\ window <= inner.ts
              /\ NextId.ts = inner.ts /\ NextId.seq = inner.seq + 1
    BY <2>1, NextIdType
  <2>3. /\ inner.ts \in 0 .. TS_MASK \cup {-1} /\ inner.seq \in 0 .. SEQ_MASK \cup {-1}
        /\ floor \in Nat /\ window \in Nat /\ floor <= window
        /\ \A id \in issued : /\ id.ts \in 0 .. TS_MASK \cup {-1}
                              /\ id.seq \in 0 .. SEQ_MASK \cup {-1}
    BY <2>1, Numbers DEF TypeOK, Generators, NULL
  <2>4. \A id \in issued : id.mid = inner.mid => Past(id) \/ UpTo(id)
    BY <1>1 DEF IdsInv
  <2>5. inner.ts \in Int /\ inner.seq \in Int
        /\ \A id \in issued : id.ts \in Int /\ id.seq \in Int
    BY <2>3, Numbers
  <2>6. \A id \in issued : id.ts # NULL
    BY <1>1 DEF IdsInv
  <2> QED BY <2>1, <2>2, <2>3, <2>4, <2>5, <2>6 DEF Past, UpTo, NULL
<1>2. ASSUME NEW t \in Threads, WriteLock(t) PROVE Increases
  BY <1>2 DEF WriteLock, NewGenerator
<1>3. ASSUME [Next]_vars, \A t \in Threads : ~Issue(t) /\ ~WriteLock(t)
      PROVE  inner' = inner
  BY <1>3 DEF Next, Tick, WallClock, Steal, Leave, Renew, Grant, Stolen, Reclaim, Store,
              ThreadStep, LoadPoisoned, ReadClock, LoadDeadline, LeaseLost,
              LoadMachineId, ReadLock, Exhausted, outsideVars, idVars, vars
<1>4. IInv /\ [Next]_vars => Increases
  BY <1>1, <1>2, <1>3 DEF IInv
<1>5. Init => IInv
  BY InitLease, InitIds DEF IInv
<1>6. IInv /\ [Next]_vars => IInv'
  BY LeaseStep, IdsStep DEF IInv
<1> QED BY <1>4, <1>5, <1>6, PTL DEF Spec, IdsIncrease
=============================================================================
