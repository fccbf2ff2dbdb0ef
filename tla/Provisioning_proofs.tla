------------------------- MODULE Provisioning_proofs -------------------------
(***************************************************************************)
(* Theorems about Provisioning for any number of processes, names and seed *)
(* rows: that it ends without an error or a waiting circle rests on the    *)
(* one order in which all of them create the entries.                      *)
(***************************************************************************)
EXTENDS Provisioning, SequenceTheorems, WellFoundedInduction, TLAPS

(* The order in which entries are created, *)
Rank(e) == CASE e = Schema -> 0
             [] e = Table  -> 1
             [] OTHER      -> 2 + e[2]

(* and the rank of what p creates next. *)
Position(p) == CASE pc[p] \in {"find_schema", "create_schema"} -> 0
                 [] pc[p] \in {"find_table", "create_table"}   -> 1
                 [] OTHER                                      -> 2 + next[p]

(* What a transaction has created comes before what it creates next. *)
OrderInv ==
  \A s \in Spaces, e \in Entries :
    entry[s][e] \in Processes => Rank(e) < Position(entry[s][e])

(* Where p stands, what it has passed is there for good, or its own. *)
PassedInv ==
  \A p \in Processes :
    /\ pc[p] \notin {"seed", "claim"} => next[p] = 0
    /\ pc[p] = "commit" => Its(p, Table) \in {p, Committed}
    /\ pc[p] \in {"begin_seed", "seed"} => Its(p, Table) = Committed
    /\ pc[p] = "seed" => \A m \in MachineIds :
                           m < next[p] => Its(p, Row(m)) \in {p, Committed}
    /\ pc[p] = "claim" /\ Kind[p] = "auto" =>
         /\ Its(p, Table) = Committed
         /\ \A m \in MachineIds : Its(p, Row(m)) = Committed

ValidInv == \A p \in Processes : pc[p] # "off" => validate_schema_name(name[p])

IInv == TypeOK /\ OrderInv /\ PassedInv /\ ValidInv /\ AutoProvisionSucceeds
-----------------------------------------------------------------------------
(* Entries, and what a step makes of them. *)

LEMMA Numbers == MaxMachineId \in Nat /\ MaxKills \in Nat
BY ProvisioningAssumption

LEMMA EntryFacts ==
  /\ Schema \in Entries /\ Table \in Entries /\ Schema # Table
  /\ \A m \in MachineIds : Row(m) \in Entries /\ Row(m) # Schema /\ Row(m) # Table
  /\ MachineIds \subseteq Nat /\ 0 \in MachineIds
BY ProvisioningAssumption DEF Entries, Schema, Table, Row, MachineIds

LEMMA Ranks ==
  /\ Rank(Schema) = 0 /\ Rank(Table) = 1
  /\ \A m \in MachineIds : Rank(Row(m)) = 2 + m
<1>1. Rank(Schema) = 0
  BY EntryFacts DEF Rank
<1>2. Rank(Table) = 1
  BY EntryFacts DEF Rank
<1>3. ASSUME NEW m \in MachineIds PROVE Rank(Row(m)) = 2 + m
  <2>1. Row(m)[2] = m
    BY DEF Row
  <2>2. Row(m) # Schema /\ Row(m) # Table
    BY EntryFacts
  <2>3. Rank(Row(m)) = 2 + Row(m)[2]
    BY <2>2 DEF Rank
  <2> QED BY <2>1, <2>3
<1> QED BY <1>1, <1>2, <1>3

LEMMA SpaceType == ASSUME TypeOK, NEW p \in Processes PROVE Space(p) \in Spaces
BY DEF TypeOK, Space, Spaces

(* The row that p seeds next. *)
LEMMA SeedsRow ==
  ASSUME TypeOK, NEW p \in Processes, next[p] <= MaxMachineId
  PROVE  next[p] \in MachineIds /\ NextRow(p) \in Entries
<1>1. next[p] \in 0 .. MaxMachineId + 1
  BY DEF TypeOK
<1>2. next[p] \in MachineIds
  BY <1>1, Numbers DEF MachineIds
<1> QED BY <1>2, EntryFacts DEF NextRow

(* No step of p touches what is others', or committed. *)
LEMMA OwnEntries ==
  ASSUME TypeOK, NEW p \in Processes, Step(p) \/ Kill(p)
  PROVE  \A s \in Spaces, e \in Entries :
           \/ entry'[s][e] = entry[s][e]
           \/ entry[s][e] = None /\ entry'[s][e] = p
           \/ entry[s][e] = p /\ entry'[s][e] \in {None, Committed}
<1>1. ASSUME NEW e \in Entries, Insert(p, e)
      PROVE  \A s \in Spaces, f \in Entries :
               \/ entry'[s][f] = entry[s][f]
               \/ entry[s][f] = None /\ entry'[s][f] = p
  BY <1>1, SpaceType DEF Insert, Its, TypeOK
<1>2. ASSUME NEW o \in {None, Committed}, EndTx(p, o)
      PROVE  \A s \in Spaces, e \in Entries :
               \/ entry'[s][e] = entry[s][e]
               \/ entry[s][e] = p /\ entry'[s][e] \in {None, Committed}
  BY <1>2 DEF EndTx
<1>3. CASE \E e \in Entries : Insert(p, e)
  BY <1>1, <1>3
<1>4. CASE EndTx(p, None) \/ EndTx(p, Committed)
  BY <1>2, <1>4
<1>5. CASE UNCHANGED entry
  BY <1>5
<1>6. SeedRow(p) => (\E e \in Entries : Insert(p, e)) \/ UNCHANGED entry
  <2> SUFFICES ASSUME SeedRow(p) PROVE (\E e \in Entries : Insert(p, e)) \/ UNCHANGED entry
    OBVIOUS
  <2>1. NextRow(p) \in Entries
    BY SeedsRow DEF SeedRow
  <2> QED BY <2>1 DEF SeedRow
<1> QED BY <1>3, <1>4, <1>5, <1>6, EntryFacts DEF Step, Kill, Start, InvalidName, Find, Create,
           CommitSchema, BeginSeed, NotSerializable, CommitSeed, Claim

LEMMA OthersStand ==
  ASSUME TypeOK, NEW p \in Processes, Step(p) \/ Kill(p)
  PROVE  /\ \A q \in Processes \ {p} : /\ pc'[q] = pc[q] /\ name'[q] = name[q]
                                     /\ next'[q] = next[q] /\ answer'[q] = answer[q]
         /\ isolation' = isolation
<1>1. isolation' = isolation
  BY DEF Step, Kill, Start, InvalidName, Find, Create, CommitSchema, BeginSeed, SeedRow,
         NotSerializable, CommitSeed, Claim, Return
<1>2. \A q \in Processes \ {p} : pc'[q] = pc[q]
  BY DEF TypeOK, Step, Kill, Start, InvalidName, Find, Create, CommitSchema, BeginSeed,
         SeedRow, NotSerializable, CommitSeed, Claim, Return, Goto
<1>3. \A q \in Processes \ {p} : name'[q] = name[q]
  BY DEF TypeOK, Step, Kill, Start, InvalidName, Find, Create, CommitSchema, BeginSeed,
         SeedRow, NotSerializable, CommitSeed, Claim, Return, localVars
<1>4. \A q \in Processes \ {p} : next'[q] = next[q]
  BY DEF TypeOK, Step, Kill, Start, InvalidName, Find, Create, CommitSchema, BeginSeed,
         SeedRow, NotSerializable, CommitSeed, Claim, Return, localVars
<1>5. \A q \in Processes \ {p} : answer'[q] = answer[q]
  BY DEF TypeOK, Step, Kill, Start, InvalidName, Find, Create, CommitSchema, BeginSeed,
         SeedRow, NotSerializable, CommitSeed, Claim, Return, localVars
<1> QED BY <1>1, <1>2, <1>3, <1>4, <1>5
-----------------------------------------------------------------------------
(* Types. *)

(* The types without what they say of the transactions. *)
TableTypes ==
  /\ entry \in [Spaces -> [Entries -> Processes \cup {None, Committed}]]
  /\ holder \in [Spaces -> [MachineIds -> Processes \cup {None}]]

LocalTypes ==
  /\ isolation \in {"read committed", "repeatable read"}
  /\ pc \in [Processes -> Pcs]
  /\ name \in [Processes -> Names]
  /\ snapshot \in [Processes -> SUBSET MachineIds]
  /\ answer \in [Processes -> Answers]

CountTypes ==
  /\ next \in [Processes -> 0 .. MaxMachineId + 1]
  /\ kills \in 0 .. MaxKills

Types == TableTypes /\ LocalTypes /\ CountTypes

LEMMA TypeParts ==
  TypeOK <=> /\ Types
             /\ \A s \in Spaces, e \in Entries :
                  entry[s][e] \in Processes => pc[entry[s][e]] \notin {"off", "claim"}
BY DEF TypeOK, Types, TableTypes, LocalTypes, CountTypes

LEMMA InitType == Init => TypeOK
<1> SUFFICES ASSUME Init PROVE TypeOK
  OBVIOUS
<1>1. \A s \in Spaces, e \in Entries : entry[s][e] \notin Processes
  BY ProvisioningAssumption DEF Init
<1>2. TableTypes
  BY DEF Init, TableTypes
<1>3. LocalTypes
  BY ProvisioningAssumption DEF Init, LocalTypes, Pcs, Answers, Outcomes
<1>4. CountTypes
  <2>1. 0 \in 0 .. MaxMachineId + 1 /\ 0 \in 0 .. MaxKills
    BY Numbers
  <2> QED BY <2>1 DEF Init, CountTypes
<1> QED BY <1>1, <1>2, <1>3, <1>4, TypeParts DEF Types

LEMMA ReturnType ==
  ASSUME LocalTypes, NEW p \in Processes, NEW a \in Answers, Return(p, a)
  PROVE  LocalTypes'
BY DEF LocalTypes, Return, Goto, Pcs

LEMMA CountsStep ==
  ASSUME CountTypes, NEW p \in Processes, Step(p) \/ Kill(p) PROVE CountTypes'
<1>1. kills' \in 0 .. MaxKills
  <2>1. kills \in 0 .. MaxKills
    BY DEF CountTypes
  <2>2. Step(p) => kills' = kills
    BY DEF Step, Start, InvalidName, Find, Create, CommitSchema, BeginSeed, SeedRow,
           NotSerializable, CommitSeed, Claim, Return, localVars
  <2>3. Kill(p) => kills < MaxKills /\ kills' = kills + 1
    BY DEF Kill
  <2> QED BY <2>1, <2>2, <2>3, Numbers
<1>2. next' \in [Processes -> 0 .. MaxMachineId + 1]
  <2>1. next \in [Processes -> 0 .. MaxMachineId + 1]
    BY DEF CountTypes
  <2>2. \/ next' = next \/ next' = [next EXCEPT ![p] = 0]
        \/ next[p] <= MaxMachineId /\ next' = [next EXCEPT ![p] = next[p] + 1]
    BY DEF Step, Kill, Start, InvalidName, Find, Create, CommitSchema, BeginSeed, SeedRow,
           NotSerializable, CommitSeed, Claim, Return, localVars
  <2>3. 0 \in 0 .. MaxMachineId + 1
    BY Numbers
  <2>4. next[p] <= MaxMachineId => next[p] + 1 \in 0 .. MaxMachineId + 1
    BY <2>1, Numbers
  <2> QED BY <2>1, <2>2, <2>3, <2>4
<1> QED BY <1>1, <1>2 DEF CountTypes

LEMMA EntryType ==
  ASSUME Types, NEW p \in Processes,
         \/ UNCHANGED entry
         \/ EndTx(p, None) \/ EndTx(p, Committed)
         \/ \E e \in Entries : Insert(p, e)
  PROVE  entry' \in [Spaces -> [Entries -> Processes \cup {None, Committed}]]
<1>1. ASSUME NEW o \in {None, Committed}, EndTx(p, o)
      PROVE  entry' \in [Spaces -> [Entries -> Processes \cup {None, Committed}]]
  BY <1>1 DEF EndTx, Types, TableTypes
<1>2. ASSUME NEW e \in Entries, Insert(p, e)
      PROVE  entry' \in [Spaces -> [Entries -> Processes \cup {None, Committed}]]
  BY <1>2 DEF Insert, Types, TableTypes
<1> QED BY <1>1, <1>2 DEF Types, TableTypes

(* What a step does to the entries, and where it leads. *)
LEMMA EntrySteps ==
  ASSUME TypeOK, NEW p \in Processes, Step(p) \/ Kill(p)
  PROVE  \/ /\ UNCHANGED entry
            /\ pc[p] \in {"off", "claim"} \/ pc'[p] \notin {"off", "claim"}
         \/ EndTx(p, None) \/ EndTx(p, Committed)
         \/ /\ \E e \in Entries : Insert(p, e)
            /\ pc'[p] \notin {"off", "claim"}
<1>1. pc \in [Processes -> Pcs]
  BY DEF TypeOK
<1>2. CASE Start(p) \/ InvalidName(p) \/ Claim(p)
  BY <1>1, <1>2 DEF Start, InvalidName, Claim
<1>3. ASSUME NEW e \in Entries, NEW a, NEW c, NEW d, d \notin {"off", "claim"},
             c \notin {"off", "claim"}, Find(p, e, a, c, d)
      PROVE  UNCHANGED entry /\ pc'[p] \notin {"off", "claim"}
  BY <1>1, <1>3 DEF Find, Goto
<1>4. ASSUME NEW e \in Entries, NEW a, a \notin {"off", "claim"}, NEW d,
             d \notin {"off", "claim"}, Create(p, e, a, d)
      PROVE  \/ UNCHANGED entry /\ pc'[p] \notin {"off", "claim"}
             \/ EndTx(p, None)
             \/ Insert(p, e) /\ pc'[p] \notin {"off", "claim"}
  BY <1>1, <1>4 DEF Create, Goto
<1>5. CASE CommitSchema(p) \/ CommitSeed(p) \/ Kill(p) \/ NotSerializable(p)
  BY <1>5 DEF CommitSchema, CommitSeed, Kill, NotSerializable
<1>6. CASE BeginSeed(p)
  BY <1>1, <1>6 DEF BeginSeed, Goto
<1>7. CASE SeedRow(p)
  <2>1. NextRow(p) \in Entries
    BY <1>7, SeedsRow DEF SeedRow
  <2> QED BY <1>7, <2>1 DEF SeedRow
<1> QED BY <1>2, <1>3, <1>4, <1>5, <1>6, <1>7, EntryFacts DEF Step

LEMMA TypesStep == ASSUME TypeOK, NEW p \in Processes, Step(p) \/ Kill(p) PROVE Types'
<1>1. TableTypes /\ LocalTypes /\ CountTypes
  BY TypeParts DEF Types
<1>2. CountTypes'
  BY <1>1, CountsStep
<1>3. TableTypes'
  <2>1. entry' \in [Spaces -> [Entries -> Processes \cup {None, Committed}]]
    BY <1>1, EntrySteps, EntryType DEF Types
  <2>2. CASE UNCHANGED holder
    BY <1>1, <2>1, <2>2 DEF TableTypes
  <2>3. CASE Claim(p)
    <3>1. holder' \in [Spaces -> [MachineIds -> Processes \cup {None}]]
      BY <1>1, <2>3 DEF Claim, TableTypes, Seeded
    <3> QED BY <2>1, <3>1 DEF TableTypes
  <2> QED BY <2>2, <2>3 DEF Step, Kill, Start, InvalidName, Find, Create, CommitSchema,
             BeginSeed, SeedRow, NotSerializable, CommitSeed, localVars
<1>4. LocalTypes'
  <2>1. ASSUME NEW l \in Pcs, Goto(p, l), UNCHANGED <<isolation, name, snapshot, answer>>
        PROVE  LocalTypes'
    BY <1>1, <2>1 DEF LocalTypes, Goto
  <2>2. CASE Start(p)
    BY <1>1, <2>2 DEF Start, Goto, LocalTypes, Pcs
  <2>3. ASSUME NEW e, NEW a, NEW c \in Pcs, NEW d \in Pcs, Find(p, e, a, c, d)
        PROVE  LocalTypes'
    BY <2>1, <2>3 DEF Find, localVars
  <2>4. ASSUME NEW e, NEW a, NEW d \in Pcs, Create(p, e, a, d) PROVE LocalTypes'
    BY <1>1, <2>1, <2>4, ReturnType DEF Create, localVars, Answers, Outcomes
  <2>5. CASE CommitSchema(p)
    BY <2>1, <2>5 DEF CommitSchema, localVars, Pcs
  <2>6. CASE BeginSeed(p)
    BY <1>1, <2>6 DEF BeginSeed, Goto, LocalTypes, Pcs, Seeded
  <2>7. CASE SeedRow(p)
    BY <1>1, <2>7 DEF SeedRow, LocalTypes
  <2>8. CASE InvalidName(p) \/ NotSerializable(p)
    BY <1>1, <2>8, ReturnType DEF InvalidName, NotSerializable, Answers, Outcomes
  <2>9. CASE CommitSeed(p)
    BY <1>1, <2>1, <2>9, ReturnType DEF CommitSeed, Answers, Outcomes, Pcs
  <2>10. CASE Claim(p)
    BY <1>1, <2>10, ReturnType DEF Claim, Answers, Outcomes
  <2>11. CASE Kill(p)
    BY <1>1, <2>11 DEF Kill, Goto, LocalTypes, Pcs
  <2>12. {"find_schema", "create_schema", "find_table", "create_table", "commit"} \subseteq Pcs
    BY DEF Pcs
  <2> QED BY <2>2, <2>3, <2>4, <2>5, <2>6, <2>7, <2>8, <2>9, <2>10, <2>11, <2>12 DEF Step
<1> QED BY <1>2, <1>3, <1>4 DEF Types

LEMMA TypeStep == TypeOK /\ [Next]_vars => TypeOK'
<1> SUFFICES ASSUME TypeOK, [Next]_vars PROVE TypeOK'
  OBVIOUS
<1>1. CASE UNCHANGED vars
  BY <1>1 DEF vars, TypeOK
<1>2. ASSUME NEW p \in Processes, Step(p) \/ Kill(p) PROVE TypeOK'
  <2>1. Types'
    BY <1>2, TypesStep
  <2>2. ASSUME NEW s \in Spaces, NEW e \in Entries, entry'[s][e] \in Processes
        PROVE  pc'[entry'[s][e]] \notin {"off", "claim"}
    <3>1. entry'[s][e] \in Processes \ {p} => entry'[s][e] = entry[s][e]
      BY <1>2, <2>2, OwnEntries, ProvisioningAssumption
    <3>2. CASE entry'[s][e] # p
      <4> DEFINE q == entry[s][e]
      <4>1. q \in Processes \ {p} /\ entry'[s][e] = q
        BY <2>2, <3>1, <3>2
      <4>2. pc[q] \notin {"off", "claim"}
        BY <4>1 DEF TypeOK
      <4>3. pc'[q] = pc[q]
        BY <1>2, <4>1, OthersStand
      <4> QED BY <4>1, <4>2, <4>3
    <3>3. CASE entry'[s][e] = p
      <4>1. ~EndTx(p, None) /\ ~EndTx(p, Committed)
        BY <3>3, ProvisioningAssumption DEF EndTx
      <4>2. CASE UNCHANGED entry
        <5>1. pc[p] \notin {"off", "claim"}
          BY <2>2, <3>3, <4>2, TypeParts
        <5>2. pc'[p] \notin {"off", "claim"}
          BY <1>2, <4>1, <5>1, EntrySteps
        <5> QED BY <3>3, <5>2
      <4>3. pc'[p] \notin {"off", "claim"}
        BY <1>2, <3>3, <4>1, <4>2, EntrySteps
      <4> QED BY <3>3, <4>3
    <3> QED BY <3>2, <3>3
  <2> QED BY <2>1, <2>2 DEF TypeOK, Types, TableTypes, LocalTypes, CountTypes
<1> QED BY <1>1, <1>2 DEF Next

-----------------------------------------------------------------------------
(* What is passed is there. *)

LEMMA Standing ==
  ASSUME TypeOK, NEW p \in Processes, NEW q \in Processes, q # p, Step(p) \/ Kill(p)
  PROVE  /\ Space(q)' = Space(q)
         /\ \A e \in Entries : Its(q, e) \in {q, Committed} => Its(q, e)' = Its(q, e)
<1>1. Space(q)' = Space(q)
  BY OthersStand DEF Space
<1>2. \A e \in Entries : Its(q, e) \in {q, Committed} => Its(q, e)' = Its(q, e)
  BY <1>1, SpaceType, OwnEntries, ProvisioningAssumption DEF Its
<1> QED BY <1>1, <1>2

(* What p has created, and what is committed, stays as it goes on. *)
LEMMA Own ==
  ASSUME TypeOK, NEW p \in Processes, name'[p] = name[p]
  PROVE  /\ Space(p)' = Space(p)
         /\ UNCHANGED entry => \A e \in Entries : Its(p, e)' = Its(p, e)
         /\ \A f \in Entries : Insert(p, f) =>
              /\ Its(p, f)' = p
              /\ \A e \in Entries : e # f => Its(p, e)' = Its(p, e)
         /\ EndTx(p, Committed) =>
              \A e \in Entries : Its(p, e) \in {p, Committed} => Its(p, e)' = Committed
<1>1. Space(p)' = Space(p)
  BY DEF Space
<1>2. Space(p) \in Spaces
  BY SpaceType
<1>3. UNCHANGED entry => \A e \in Entries : Its(p, e)' = Its(p, e)
  BY <1>1 DEF Its
<1>4. ASSUME NEW f \in Entries, Insert(p, f)
      PROVE  /\ Its(p, f)' = p
             /\ \A e \in Entries : e # f => Its(p, e)' = Its(p, e)
  BY <1>1, <1>2, <1>4 DEF Its, Insert, TypeOK
<1>5. EndTx(p, Committed) =>
        \A e \in Entries : Its(p, e) \in {p, Committed} => Its(p, e)' = Committed
  BY <1>1, <1>2 DEF Its, EndTx
<1> QED BY <1>1, <1>3, <1>4, <1>5

(* PassedInv and AutoProvisionSucceeds, process by process. *)
PassedBy(p) ==
  /\ pc[p] \notin {"seed", "claim"} => next[p] = 0
  /\ pc[p] = "commit" => Its(p, Table) \in {p, Committed}
  /\ pc[p] \in {"begin_seed", "seed"} => Its(p, Table) = Committed
  /\ pc[p] = "seed" => \A m \in MachineIds :
                         m < next[p] => Its(p, Row(m)) \in {p, Committed}
  /\ pc[p] = "claim" /\ Kind[p] = "auto" =>
       /\ Its(p, Table) = Committed
       /\ \A m \in MachineIds : Its(p, Row(m)) = Committed

Succeeds(p) ==
  Kind[p] = "auto" => /\ answer[p] \notin {"Sqlx", "NotSeeded"}
                      /\ answer[p] = "NotSerializable" => isolation = "repeatable read"

LEMMA OthersPassed ==
  ASSUME TypeOK, NEW p \in Processes, NEW q \in Processes, q # p, Step(p) \/ Kill(p),
         PassedBy(q), Succeeds(q)
  PROVE  PassedBy(q)' /\ Succeeds(q)'
<1>1. /\ pc'[q] = pc[q] /\ next'[q] = next[q] /\ answer'[q] = answer[q]
      /\ isolation' = isolation
  BY OthersStand
<1>2. \A e \in Entries : Its(q, e) \in {q, Committed} => Its(q, e)' = Its(q, e)
  BY Standing
<1>3. Succeeds(q)'
  BY <1>1 DEF Succeeds
<1>4. PassedBy(q)'
  BY <1>1, <1>2, EntryFacts DEF PassedBy
<1> QED BY <1>3, <1>4

LEMMA OwnPassed ==
  ASSUME TypeOK, NEW p \in Processes, Step(p) \/ Kill(p), PassedBy(p), Succeeds(p)
  PROVE  PassedBy(p)' /\ Succeeds(p)'
<1>1. /\ pc \in [Processes -> Pcs] /\ DOMAIN next = Processes
      /\ DOMAIN answer = Processes /\ next[p] \in Nat
  <2>1. next \in [Processes -> 0 .. MaxMachineId + 1]
    BY TypeParts DEF Types, CountTypes
  <2>2. next[p] \in 0 .. MaxMachineId + 1
    BY <2>1
  <2>3. pc \in [Processes -> Pcs] /\ DOMAIN answer = Processes
    BY TypeParts DEF Types, LocalTypes
  <2> QED BY <2>1, <2>2, <2>3, Numbers
<1>2. isolation' = isolation
  BY OthersStand
<1>3. ASSUME NEW a, Return(p, a) PROVE PassedBy(p)' /\ answer'[p] = a
  <2>1. pc'[p] = "off" /\ next'[p] = 0 /\ answer'[p] = a
    BY <1>1, <1>3 DEF Return, Goto
  <2> QED BY <2>1 DEF PassedBy
<1>4. CASE Start(p)
  <2>1. /\ pc[p] = "off" /\ next' = next /\ answer' = answer
        /\ \/ pc'[p] = "claim" /\ Kind[p] = "plain"
           \/ pc'[p] \in {"find_table", "find_schema"}
    BY <1>1, <1>4 DEF Start, Goto
  <2> QED BY <1>2, <2>1 DEF PassedBy, Succeeds
<1>5. CASE InvalidName(p)
  <2>1. Return(p, "InvalidSchemaName")
    BY <1>5 DEF InvalidName
  <2>2. PassedBy(p)' /\ answer'[p] = "InvalidSchemaName"
    BY <1>3, <2>1
  <2> QED BY <2>2 DEF Succeeds
<1>6. CASE Find(p, Schema, "find_schema", "create_schema", "find_table")
  <2>1. /\ pc[p] = "find_schema" /\ next' = next /\ answer' = answer
        /\ pc'[p] \in {"create_schema", "find_table"}
    BY <1>1, <1>6 DEF Find, Goto, localVars
  <2> QED BY <1>2, <2>1 DEF PassedBy, Succeeds
<1>7. CASE Create(p, Schema, "create_schema", "find_table")
  <2>1. CASE Goto(p, "find_table") /\ UNCHANGED localVars
    <3>1. /\ pc[p] = "create_schema" /\ next' = next /\ answer' = answer
          /\ pc'[p] = "find_table"
      BY <1>1, <1>7, <2>1 DEF Create, Goto, localVars
    <3> QED BY <1>2, <3>1 DEF PassedBy, Succeeds
  <2>2. CASE ~SwallowsViolation(p) /\ Return(p, "Sqlx")
    BY <1>2, <1>3, <2>2 DEF SwallowsViolation, Succeeds
  <2> QED BY <1>7, <2>1, <2>2 DEF Create
<1>8. CASE Find(p, Table, "find_table", "create_table", "commit")
  <2>1. /\ pc[p] = "find_table" /\ next' = next /\ answer' = answer /\ name' = name
        /\ entry' = entry
        /\ pc'[p] = IF Its(p, Table) \in {Committed, p} THEN "commit" ELSE "create_table"
    BY <1>1, <1>8 DEF Find, Goto, localVars
  <2>2. Its(p, Table)' = Its(p, Table)
    BY <2>1 DEF Its, Space
  <2> QED BY <1>2, <2>1, <2>2 DEF PassedBy, Succeeds
<1>9. CASE Create(p, Table, "create_table", "commit")
  <2>1. CASE /\ Goto(p, "commit") /\ UNCHANGED localVars
             /\ Insert(p, Table) \/ (Its(p, Table) = Committed /\ UNCHANGED entry)
    <3>1. /\ pc[p] = "create_table" /\ next' = next /\ answer' = answer /\ name' = name
          /\ pc'[p] = "commit"
      BY <1>1, <1>9, <2>1 DEF Create, Goto, localVars
    <3>2. Its(p, Table)' \in {p, Committed}
      BY <2>1, <3>1, Own, EntryFacts
    <3> QED BY <1>2, <3>1, <3>2 DEF PassedBy, Succeeds
  <2>2. CASE ~SwallowsViolation(p) /\ Return(p, "Sqlx")
    BY <1>2, <1>3, <2>2 DEF SwallowsViolation, Succeeds
  <2> QED BY <1>9, <2>1, <2>2 DEF Create
<1>10. CASE CommitSchema(p)
  <2>1. /\ pc[p] = "commit" /\ next' = next /\ answer' = answer /\ name' = name
        /\ pc'[p] = "begin_seed" /\ EndTx(p, Committed)
    BY <1>1, <1>10 DEF CommitSchema, Goto, localVars
  <2>2. Its(p, Table)' = Committed
    BY <2>1, Own, EntryFacts DEF PassedBy
  <2> QED BY <1>2, <2>1, <2>2 DEF PassedBy, Succeeds
<1>11. CASE BeginSeed(p)
  <2>1. /\ pc[p] = "begin_seed" /\ next' = next /\ answer' = answer /\ name' = name
        /\ pc'[p] = "seed" /\ entry' = entry
    BY <1>1, <1>11 DEF BeginSeed, Goto
  <2>2. Its(p, Table)' = Its(p, Table)
    BY <2>1 DEF Its, Space
  <2>3. \A m \in MachineIds : ~(m < next[p])
    BY <2>1, EntryFacts DEF PassedBy
  <2> QED BY <1>2, <2>1, <2>2, <2>3 DEF PassedBy, Succeeds
<1>12. CASE SeedRow(p)
  <2>1. /\ pc[p] = "seed" /\ pc'[p] = "seed" /\ answer' = answer /\ name' = name
        /\ next[p] <= MaxMachineId /\ next'[p] = next[p] + 1
        /\ \/ Insert(p, NextRow(p))
           \/ Its(p, NextRow(p)) = Committed /\ UNCHANGED entry
    BY <1>1, <1>12 DEF SeedRow
  <2>2. next[p] \in MachineIds /\ NextRow(p) \in Entries
    BY <2>1, SeedsRow
  <2> PICK r \in Entries : r = NextRow(p)
    BY <2>2
  <2>3. /\ Its(p, r)' \in {p, Committed}
        /\ \A e \in Entries : e # r => Its(p, e)' = Its(p, e)
    BY <2>1, Own
  <2>4. Its(p, Table)' = Committed
    BY <2>1, <2>2, <2>3, EntryFacts DEF PassedBy, NextRow
  <2>5. ASSUME NEW m \in MachineIds, m < next'[p] PROVE Its(p, Row(m))' \in {p, Committed}
    <3>1. CASE m = next[p]
      <4>1. Row(m) = r
        BY <3>1 DEF NextRow
      <4> QED BY <2>3, <4>1
    <3>2. CASE m # next[p]
      <4>1. m < next[p]
        BY <1>1, <2>1, <2>5, <3>2, EntryFacts
      <4>2. Row(m) # r
        BY <3>2 DEF Row, NextRow
      <4> QED BY <2>1, <2>3, <4>1, <4>2, EntryFacts DEF PassedBy
    <3> QED BY <3>1, <3>2
  <2> QED BY <1>2, <2>1, <2>4, <2>5 DEF PassedBy, Succeeds
<1>13. CASE NotSerializable(p)
  <2>1. Return(p, "NotSerializable") /\ isolation = "repeatable read"
    BY <1>13 DEF NotSerializable
  <2>2. PassedBy(p)' /\ answer'[p] = "NotSerializable"
    BY <1>3, <2>1
  <2> QED BY <1>2, <2>1, <2>2 DEF Succeeds
<1>14. CASE CommitSeed(p)
  <2>1. CASE Return(p, "Migrated")
    <3>1. PassedBy(p)' /\ answer'[p] = "Migrated"
      BY <1>3, <2>1
    <3> QED BY <3>1 DEF Succeeds
  <2>2. CASE Goto(p, "claim") /\ UNCHANGED <<name, next, answer>>
    <3>1. /\ pc[p] = "seed" /\ pc'[p] = "claim" /\ next' = next /\ answer' = answer
          /\ name' = name /\ next[p] > MaxMachineId /\ EndTx(p, Committed)
      BY <1>1, <1>14, <2>2 DEF CommitSeed, Goto
    <3>2. \A m \in MachineIds : m < next[p]
      BY <1>1, <3>1, Numbers DEF MachineIds
    <3>3. Its(p, Table)' = Committed
      BY <3>1, Own, EntryFacts DEF PassedBy
    <3>4. \A m \in MachineIds : Its(p, Row(m))' = Committed
      BY <3>1, <3>2, Own, EntryFacts DEF PassedBy
    <3> QED BY <1>2, <3>1, <3>3, <3>4 DEF PassedBy, Succeeds
  <2> QED BY <1>14, <2>1, <2>2 DEF CommitSeed
<1>15. CASE Claim(p)
  <2>1. Kind[p] = "auto" => Its(p, Table) = Committed /\ Seeded(Space(p)) # {}
    BY <1>15, EntryFacts DEF Claim, PassedBy, Seeded, Its
  <2>2. \/ Its(p, Table) # Committed /\ Return(p, "Sqlx")
        \/ Seeded(Space(p)) = {} /\ Return(p, "NotSeeded")
        \/ Return(p, "Exhausted") \/ Return(p, "Got")
    BY <1>15 DEF Claim
  <2>3. \E a : Return(p, a) /\ (Kind[p] = "auto" => a \in {"Exhausted", "Got"})
    BY <2>1, <2>2
  <2> QED BY <1>2, <1>3, <2>3 DEF Succeeds
<1>16. CASE Kill(p)
  <2>1. pc'[p] = "off" /\ next'[p] = 0 /\ answer' = answer
    BY <1>1, <1>16 DEF Kill, Goto
  <2> QED BY <1>2, <2>1 DEF PassedBy, Succeeds
<1> QED BY <1>4, <1>5, <1>6, <1>7, <1>8, <1>9, <1>10, <1>11, <1>12, <1>13, <1>14, <1>15,
           <1>16 DEF Step

-----------------------------------------------------------------------------
(* The order. *)

LEMMA PositionType ==
  ASSUME TypeOK, NEW p \in Processes PROVE next[p] \in Nat /\ Position(p) \in Nat
<1>1. next[p] \in 0 .. MaxMachineId + 1
  BY TypeParts DEF Types, CountTypes
<1>2. next[p] \in Nat
  BY <1>1, Numbers
<1> QED BY <1>2 DEF Position

LEMMA RankType == \A e \in Entries : Rank(e) \in Nat
BY Ranks, EntryFacts DEF Entries

(* p's position falls only when its transaction has nothing. *)
LEMMA PositionSteps ==
  ASSUME TypeOK, PassedInv, NEW p \in Processes, Step(p) \/ Kill(p)
  PROVE  \/ /\ UNCHANGED entry
            /\ pc[p] \in {"off", "claim"} \/ Position(p) <= Position(p)'
         \/ EndTx(p, None) \/ EndTx(p, Committed)
         \/ \E e \in Entries : Insert(p, e) /\ Rank(e) < Position(p)'
                                 /\ Position(p) <= Position(p)'
<1>1. /\ pc \in [Processes -> Pcs] /\ next[p] \in Nat /\ Position(p) \in Nat
      /\ DOMAIN next = Processes
  <2>1. pc \in [Processes -> Pcs] /\ DOMAIN next = Processes
    BY TypeParts DEF Types, LocalTypes, CountTypes
  <2> QED BY <2>1, PositionType
<1>2. CASE Start(p) \/ InvalidName(p) \/ Claim(p)
  BY <1>2 DEF Start, InvalidName, Claim
<1>3. CASE Find(p, Schema, "find_schema", "create_schema", "find_table")
  <2>1. /\ entry' = entry /\ pc[p] = "find_schema" /\ pc'[p] \in {"create_schema", "find_table"}
    BY <1>1, <1>3 DEF Find, Goto
  <2> QED BY <2>1 DEF Position
<1>4. CASE Create(p, Schema, "create_schema", "find_table")
  <2>1. CASE EndTx(p, None)
    BY <2>1
  <2>2. CASE ~EndTx(p, None)
    <3>1. /\ pc[p] = "create_schema" /\ pc'[p] = "find_table"
          /\ Insert(p, Schema) \/ UNCHANGED entry
      BY <1>1, <1>4, <2>2 DEF Create, Goto
    <3>2. Position(p) = 0 /\ Position(p)' = 1
      BY <3>1 DEF Position
    <3> QED BY <3>1, <3>2, Ranks, EntryFacts
  <2> QED BY <2>1, <2>2
<1>5. CASE Find(p, Table, "find_table", "create_table", "commit")
  <2>1. /\ entry' = entry /\ pc[p] = "find_table" /\ pc'[p] \in {"create_table", "commit"}
        /\ next' = next
    BY <1>1, <1>5 DEF Find, Goto, localVars
  <2> QED BY <1>1, <2>1 DEF Position
<1>6. CASE Create(p, Table, "create_table", "commit")
  <2>1. CASE EndTx(p, None)
    BY <2>1
  <2>2. CASE ~EndTx(p, None)
    <3>1. /\ pc[p] = "create_table" /\ pc'[p] = "commit" /\ next' = next
          /\ Insert(p, Table) \/ UNCHANGED entry
      BY <1>1, <1>6, <2>2 DEF Create, Goto, localVars
    <3>2. Position(p) = 1 /\ Position(p)' = 2 + next[p]
      BY <3>1 DEF Position
    <3> QED BY <1>1, <3>1, <3>2, Ranks, EntryFacts
  <2> QED BY <2>1, <2>2
<1>7. CASE CommitSchema(p) \/ NotSerializable(p) \/ CommitSeed(p) \/ Kill(p)
  BY <1>7 DEF CommitSchema, NotSerializable, CommitSeed, Kill
<1>8. CASE BeginSeed(p)
  <2>1. entry' = entry /\ pc[p] = "begin_seed" /\ pc'[p] = "seed" /\ next' = next
    BY <1>1, <1>8 DEF BeginSeed, Goto
  <2> QED BY <1>1, <2>1 DEF Position
<1>9. CASE SeedRow(p)
  <2>1. /\ pc[p] = "seed" /\ pc'[p] = "seed" /\ next'[p] = next[p] + 1
        /\ next[p] \in MachineIds /\ NextRow(p) \in Entries
        /\ Insert(p, NextRow(p)) \/ UNCHANGED entry
    BY <1>1, <1>9, SeedsRow DEF SeedRow
  <2>2. Position(p) = 2 + next[p] /\ Position(p)' = 2 + (next[p] + 1)
    BY <2>1 DEF Position
  <2>3. Rank(NextRow(p)) = 2 + next[p]
    BY <2>1, Ranks DEF NextRow
  <2> QED BY <1>1, <2>1, <2>2, <2>3
<1> QED BY <1>2, <1>3, <1>4, <1>5, <1>6, <1>7, <1>8, <1>9 DEF Step

LEMMA OrderStep ==
  ASSUME TypeOK, PassedInv, OrderInv, NEW p \in Processes, Step(p) \/ Kill(p),
         NEW s \in Spaces, NEW e \in Entries, NEW q \in Processes, entry'[s][e] = q
  PROVE  Rank(e) < Position(q)'
<1>1. Rank(e) \in Nat /\ Position(p) \in Nat
  BY PositionType, RankType
<1>2. CASE q # p
  <2>1. entry[s][e] = q /\ pc'[q] = pc[q] /\ next'[q] = next[q]
    BY <1>2, OwnEntries, OthersStand, ProvisioningAssumption
  <2>2. Position(q)' = Position(q)
    BY <2>1 DEF Position
  <2>3. Rank(e) < Position(q)
    BY <2>1 DEF OrderInv
  <2> QED BY <2>2, <2>3
<1>3. CASE q = p
  <2>1. ~EndTx(p, None) /\ ~EndTx(p, Committed)
    BY <1>3, ProvisioningAssumption DEF EndTx
  <2>2. CASE entry[s][e] = p
    <3>1. Rank(e) < Position(p) /\ pc[p] \notin {"off", "claim"}
      BY <2>2, TypeParts DEF OrderInv
    <3>2. Position(p) <= Position(p)'
      BY <2>1, <3>1, PositionSteps
    <3>3. Position(p)' \in Nat
      <4>1. next' \in [Processes -> 0 .. MaxMachineId + 1]
        BY TypeParts, CountsStep DEF Types, CountTypes
      <4>2. next'[p] \in Nat
        BY <4>1, Numbers
      <4> QED BY <4>2 DEF Position
    <3> QED BY <1>1, <1>3, <3>1, <3>2, <3>3
  <2>3. CASE entry[s][e] # p
    <3>1. ~UNCHANGED entry
      BY <1>3, <2>3
    <3>2. PICK f \in Entries : Insert(p, f) /\ Rank(f) < Position(p)'
      BY <2>1, <3>1, PositionSteps
    <3>3. e = f
      BY <1>3, <2>3, <3>2, SpaceType DEF Insert, TypeOK
    <3> QED BY <1>3, <3>2, <3>3
  <2> QED BY <2>2, <2>3
<1> QED BY <1>2, <1>3

LEMMA InitInv == Init => IInv
<1> SUFFICES ASSUME Init PROVE IInv
  OBVIOUS
<1>1. TypeOK
  BY InitType
<1>2. OrderInv
  BY ProvisioningAssumption DEF Init, OrderInv
<1>3. PassedInv /\ ValidInv
  BY DEF Init, PassedInv, ValidInv
<1>4. AutoProvisionSucceeds
  BY ProvisioningAssumption DEF Init, AutoProvisionSucceeds, Outcomes
<1> QED BY <1>1, <1>2, <1>3, <1>4 DEF IInv

LEMMA InvStep == IInv /\ [Next]_vars => IInv'
<1> SUFFICES ASSUME IInv, [Next]_vars PROVE IInv'
  OBVIOUS
<1>1. TypeOK'
  BY TypeStep DEF IInv
<1>2. CASE UNCHANGED vars
  BY <1>2 DEF vars, IInv, TypeOK, OrderInv, Position, PassedInv, ValidInv,
              AutoProvisionSucceeds, Its, Space
<1>3. ASSUME NEW p \in Processes, Step(p) \/ Kill(p) PROVE IInv'
  <2>1. TypeOK /\ PassedInv /\ OrderInv /\ ValidInv /\ AutoProvisionSucceeds
    BY DEF IInv
  <2>2. OrderInv'
    BY <1>3, <2>1, OrderStep DEF OrderInv
  <2>3. \A q \in Processes : PassedBy(q) /\ Succeeds(q)
    BY <2>1 DEF PassedInv, PassedBy, AutoProvisionSucceeds, Succeeds
  <2>4. \A q \in Processes : PassedBy(q)' /\ Succeeds(q)'
    BY <1>3, <2>1, <2>3, OwnPassed, OthersPassed
  <2>5. PassedInv'
    BY <2>4 DEF PassedInv, PassedBy
  <2>6. AutoProvisionSucceeds'
    BY <2>4 DEF AutoProvisionSucceeds, Succeeds
  <2>7. ValidInv'
    <3>1. \A q \in Processes \ {p} : pc'[q] = pc[q] /\ name'[q] = name[q]
      BY <1>3, <2>1, OthersStand
    <3>2. CASE Start(p)
      <4>1. validate_schema_name(name'[p])
        BY <2>1, <3>2 DEF Start, TypeOK
      <4> QED BY <2>1, <3>1, <4>1 DEF ValidInv, validate_schema_name
    <3>3. CASE ~Start(p)
      <4>1. name'[p] = name[p] /\ (pc[p] # "off" \/ pc'[p] = "off")
        BY <1>3, <2>1, <3>3 DEF TypeOK, Step, Kill, InvalidName, Find, Create, CommitSchema,
             BeginSeed, SeedRow, NotSerializable, CommitSeed, Claim, Return, Goto, localVars
      <4> QED BY <2>1, <3>1, <4>1 DEF ValidInv, validate_schema_name
    <3> QED BY <3>2, <3>3
  <2> QED BY <1>1, <2>2, <2>5, <2>6, <2>7 DEF IInv
<1> QED BY <1>2, <1>3 DEF Next
-----------------------------------------------------------------------------
(* Every state of Provisioning has its type, and what is under creation    *)
(* belongs to a transaction that is under way: none is left behind.        *)
THEOREM TypeCorrect == Spec => []TypeOK
<1> QED BY InitType, TypeStep, PTL DEF Spec

(* What a process has been through is there, and entries are created in one *)
(* order: schema, table, rows from the first to the last.                  *)
THEOREM Invariant == Spec => []IInv
<1> QED BY InitInv, InvStep, PTL DEF Spec

(* With auto_provision, build() never fails on what others create at the   *)
(* same time, and never finds its table missing or without rows, however   *)
(* many instances and migrations start at once and wherever some of them   *)
(* die.                                                                    *)
THEOREM AutoProvisionWorks == Spec => []AutoProvisionSucceeds
<1>1. IInv => AutoProvisionSucceeds
  BY DEF IInv
<1> QED BY <1>1, Invariant, PTL

(* A name that validate_schema_name lets through is taken for itself.      *)
LEMMA IdentifierIsName ==
  ASSUME NEW n \in Names, validate_schema_name(n) PROVE Identifier(n) = n
<1>1. n \in Seq(Characters) /\ Len(n) <= MaxNameLength /\ MaxNameLength \in Nat
  BY ProvisioningAssumption DEF validate_schema_name
<1>2. Len(n) \in Nat /\ n = [i \in 1 .. Len(n) |-> n[i]]
  BY <1>1
<1>3. Identifier(n) = SubSeq(n, 1, Len(n))
  <2>1. (IF Len(n) < MaxNameLength THEN Len(n) ELSE MaxNameLength) = Len(n)
    BY <1>1, <1>2
  <2> QED BY <2>1 DEF Identifier
<1>4. SubSeq(n, 1, Len(n)) = n
  BY <1>1, SubSeqFull
<1> QED BY <1>3, <1>4

(* Processes with different schema names use different tables: Postgres    *)
(* truncates none of the names that build() lets through.                  *)
THEOREM NamesAreSpaces == Spec => []SpacesAreDistinct
<1>1. IInv => SpacesAreDistinct
  <2> SUFFICES ASSUME IInv, NEW p \in Processes, pc[p] # "off" PROVE Space(p) = name[p]
    BY DEF SpacesAreDistinct
  <2>1. name[p] \in Names /\ validate_schema_name(name[p])
    BY DEF IInv, TypeOK, ValidInv
  <2> QED BY <2>1, IdentifierIsName DEF Space
<1> QED BY <1>1, Invariant, PTL

(* A transaction creates entries in one space.                             *)
HomeInv ==
  \A s \in Spaces, e \in Entries, q \in Processes :
    entry[s][e] = q => s = Space(q)

(* Who stays in its space, or leaves with nothing.                         *)
LEMMA StaysAtHome ==
  ASSUME TypeOK, NEW p \in Processes, Step(p) \/ Kill(p)
  PROVE  Space(p)' = Space(p) \/ (pc[p] = "off" /\ UNCHANGED entry)
<1>1. CASE Start(p)
  BY <1>1 DEF Start
<1>2. CASE ~Start(p)
  <2>1. name'[p] = name[p]
    BY <1>2 DEF Step, Kill, InvalidName, Find, Create, CommitSchema, BeginSeed, SeedRow,
           NotSerializable, CommitSeed, Claim, Return, localVars
  <2> QED BY <2>1 DEF Space
<1> QED BY <1>1, <1>2

LEMMA HomeStep ==
  ASSUME TypeOK, HomeInv, NEW p \in Processes, Step(p) \/ Kill(p) PROVE HomeInv'
<1> SUFFICES ASSUME NEW s \in Spaces, NEW e \in Entries, NEW q \in Processes,
                    entry'[s][e] = q
             PROVE  s = Space(q)'
  BY DEF HomeInv
<1>1. CASE q # p
  <2>1. entry[s][e] = q
    BY <1>1, OwnEntries, ProvisioningAssumption
  <2>2. s = Space(q) /\ name'[q] = name[q]
    BY <1>1, <2>1, OthersStand DEF HomeInv
  <2> QED BY <2>2 DEF Space
<1>2. CASE q = p
  <2>1. ~EndTx(p, None) /\ ~EndTx(p, Committed)
    BY <1>2, ProvisioningAssumption DEF EndTx
  <2>2. s = Space(p)
    <3>1. CASE entry[s][e] = p
      BY <3>1 DEF HomeInv
    <3>2. CASE entry[s][e] # p
      <4>1. PICK f \in Entries : Insert(p, f)
        BY <1>2, <2>1, <3>2, EntrySteps
      <4> QED BY <1>2, <3>2, <4>1, SpaceType DEF Insert, TypeOK
    <3> QED BY <3>1, <3>2
  <2>3. Space(p)' = Space(p)
    <3>1. CASE UNCHANGED entry
      BY <1>2, <3>1, TypeParts, StaysAtHome
    <3>2. CASE ~UNCHANGED entry
      BY <3>2, StaysAtHome
    <3> QED BY <3>1, <3>2
  <2> QED BY <1>2, <2>2, <2>3
<1> QED BY <1>1, <1>2

(* Only the end of a seeding makes rows visible, and then it is all.       *)
LEMMA SeedStep ==
  ASSUME IInv, HomeInv, SeededAtOnce, NEW p \in Processes, Step(p) \/ Kill(p)
  PROVE  SeededAtOnce'
<1>0. TypeOK /\ OrderInv /\ PassedInv
  BY DEF IInv
<1> SUFFICES ASSUME NEW s \in Spaces PROVE Seeded(s)' \in {{}, MachineIds}
  BY DEF SeededAtOnce
<1>1. Seeded(s) \in {{}, MachineIds} /\ p # Committed /\ None # Committed
  BY ProvisioningAssumption DEF SeededAtOnce
<1>2. ASSUME \A m \in MachineIds : entry'[s][Row(m)] = Committed <=> entry[s][Row(m)] = Committed
      PROVE  Seeded(s)' \in {{}, MachineIds}
  BY <1>1, <1>2 DEF Seeded
<1>3. \A m \in MachineIds :
        \/ entry'[s][Row(m)] = entry[s][Row(m)]
        \/ entry[s][Row(m)] = None /\ entry'[s][Row(m)] = p
        \/ entry[s][Row(m)] = p /\ entry'[s][Row(m)] \in {None, Committed}
  BY <1>0, OwnEntries, EntryFacts
<1>4. CASE \A m \in MachineIds : ~(entry[s][Row(m)] = p /\ entry'[s][Row(m)] = Committed)
  BY <1>1, <1>2, <1>3, <1>4
<1>5. ASSUME NEW m \in MachineIds, entry[s][Row(m)] = p, entry'[s][Row(m)] = Committed
      PROVE  Seeded(s)' = MachineIds
  <2>1. s = Space(p) /\ Rank(Row(m)) < Position(p) /\ pc[p] # "off"
    BY <1>0, <1>5, EntryFacts, TypeParts DEF HomeInv, OrderInv
  <2>2. CASE CommitSeed(p)
    <3>1. pc[p] = "seed" /\ next[p] > MaxMachineId /\ EndTx(p, Committed)
      BY <2>2 DEF CommitSeed
    <3>2. \A n \in MachineIds : n < next[p]
      BY <1>0, <3>1, PositionType, Numbers DEF MachineIds
    <3>3. \A n \in MachineIds : entry[s][Row(n)] \in {p, Committed}
      BY <1>0, <2>1, <3>1, <3>2 DEF PassedInv, Its
    <3>4. \A n \in MachineIds : entry'[s][Row(n)] = Committed
      BY <3>1, <3>3, EntryFacts DEF EndTx
    <3> QED BY <3>4 DEF Seeded
  <2>3. CASE CommitSchema(p)
    <3>1. pc[p] = "commit" /\ next[p] = 0
      BY <1>0, <2>3 DEF CommitSchema, PassedInv
    <3>2. Position(p) = 2 /\ Rank(Row(m)) = 2 + m /\ m \in Nat
      BY <3>1, Ranks, EntryFacts DEF Position
    <3> QED BY <2>1, <3>2
  <2>4. ~CommitSeed(p) /\ ~CommitSchema(p) =>
          UNCHANGED entry \/ EndTx(p, None) \/ (\E e \in Entries : Insert(p, e))
    <3>1. SeedRow(p) => NextRow(p) \in Entries
      BY <1>0, SeedsRow DEF SeedRow
    <3> QED BY <3>1, EntryFacts DEF Step, Kill, Start, InvalidName, Find, Create, BeginSeed,
               SeedRow, NotSerializable, Claim
  <2>5. ~UNCHANGED entry
    BY <1>1, <1>5
  <2>6. ~EndTx(p, None)
    BY <1>1, <1>5, EntryFacts DEF EndTx
  <2>7. ~(\E e \in Entries : Insert(p, e))
    <3> SUFFICES ASSUME NEW e \in Entries, Insert(p, e) PROVE FALSE
      OBVIOUS
    <3>1. entry'[s][Row(m)] \in {p, entry[s][Row(m)]}
      BY <1>0, EntryFacts, SpaceType DEF Insert, TypeOK
    <3> QED BY <1>1, <1>5, <3>1
  <2> QED BY <2>2, <2>3, <2>4, <2>5, <2>6, <2>7
<1> QED BY <1>4, <1>5

(* The rows of a table appear all together, however many seedings overlap, *)
(* fail or die half-way (lib.rs:251-260): whoever claims finds all machine *)
(* IDs or none.                                                            *)
THEOREM RowsAppearTogether == Spec => []SeededAtOnce
<1>1. Init => HomeInv /\ SeededAtOnce
  <2> SUFFICES ASSUME Init PROVE HomeInv /\ SeededAtOnce
    OBVIOUS
  <2>1. \A s \in Spaces, e \in Entries : entry[s][e] \notin Processes
    BY ProvisioningAssumption DEF Init
  <2>2. \A s \in Spaces : \A m \in MachineIds : entry[s][Row(m)] # Committed
    BY EntryFacts, ProvisioningAssumption DEF Init
  <2> QED BY <2>1, <2>2 DEF HomeInv, SeededAtOnce, Seeded
<1>2. IInv /\ HomeInv /\ SeededAtOnce /\ [Next]_vars => (HomeInv /\ SeededAtOnce)'
  <2> SUFFICES ASSUME IInv, HomeInv, SeededAtOnce, [Next]_vars
               PROVE  (HomeInv /\ SeededAtOnce)'
    OBVIOUS
  <2>1. CASE UNCHANGED vars
    BY <2>1 DEF vars, HomeInv, SeededAtOnce, Seeded, Space
  <2>2. ASSUME NEW p \in Processes, Step(p) \/ Kill(p) PROVE (HomeInv /\ SeededAtOnce)'
    BY <2>2, HomeStep, SeedStep DEF IInv
  <2> QED BY <2>1, <2>2 DEF Next
<1> QED BY <1>1, <1>2, Invariant, PTL DEF Spec

(* A bounded set of numbers has a largest one. *)
LEMMA Largest ==
  ASSUME NEW T, T \subseteq Nat, T # {}, NEW b \in Nat, \A x \in T : x <= b
  PROVE  \E x \in T : \A y \in T : y <= x
<1> DEFINE R == {ss \in Nat \X Nat : ss[1] < ss[2]}
           D == {b - x : x \in T}
<1>1. D \subseteq Nat /\ D # {}
  <2>1. ASSUME NEW x \in T PROVE b - x \in Nat
    <3>1. x \in Nat /\ x <= b
      OBVIOUS
    <3> QED BY <3>1
  <2>2. PICK x \in T : TRUE
    OBVIOUS
  <2>3. b - x \in D
    BY <2>2
  <2> QED BY <2>1, <2>3
<1>2. IsWellFoundedOn(R, Nat)
  BY NatLessThanWellFounded, Zenon DEF OpToRel
<1>3. PICK d \in D : \A e \in D : <<e, d>> \notin R
  BY <1>1, <1>2, WFMin
<1>4. PICK x \in T : d = b - x
  BY <1>3
<1>5. ASSUME NEW y \in T PROVE y <= x
  <2>1. b - y \in D /\ b - y \in Nat /\ d \in Nat
    BY <1>1, <1>3
  <2>2. <<b - y, d>> \notin R
    BY <1>3, <2>1
  <2>3. ~(b - y < d)
    BY <2>1, <2>2
  <2> QED BY <1>4, <2>3
<1> QED BY <1>5

(* Who waits, waits for one that is further on. *)
LEMMA WaitsForLater ==
  ASSUME TypeOK, OrderInv, NEW p \in Processes, NEW q \in Processes, q \in WaitsFor(p)
  PROVE  Position(p) < Position(q)
<1>1. PICK e : /\ q = Its(p, e)
               /\ \/ pc[p] = "create_schema" /\ e = Schema
                  \/ pc[p] = "create_table" /\ e = Table
                  \/ pc[p] = "seed" /\ next[p] <= MaxMachineId /\ e = NextRow(p)
  BY DEF WaitsFor
<1>2. e \in Entries /\ Rank(e) = Position(p)
  <2>1. CASE pc[p] = "create_schema" /\ e = Schema
    BY <2>1, EntryFacts, Ranks DEF Position
  <2>2. CASE pc[p] = "create_table" /\ e = Table
    BY <2>2, EntryFacts, Ranks DEF Position
  <2>3. CASE pc[p] = "seed" /\ next[p] <= MaxMachineId /\ e = NextRow(p)
    <3>1. next[p] \in MachineIds /\ NextRow(p) \in Entries
      BY <2>3, SeedsRow
    <3>2. Position(p) = 2 + next[p]
      BY <2>3 DEF Position
    <3> QED BY <2>3, <3>1, <3>2, Ranks DEF NextRow
  <2> QED BY <1>1, <2>1, <2>2, <2>3
<1> QED BY <1>1, <1>2, SpaceType DEF OrderInv, Its

(* However many processes provision at once, they never wait for each      *)
(* other in a circle: all create schema, table and rows in one order.      *)
THEOREM NobodyWaitsInACircle == Spec => []NoWaitingCircle
<1>1. IInv => NoWaitingCircle
  <2> SUFFICES ASSUME IInv, NEW S \in SUBSET Processes, S # {}
               PROVE  \E p \in S : WaitsFor(p) \cap S = {}
    BY DEF NoWaitingCircle
  <2>1. TypeOK /\ OrderInv
    BY DEF IInv
  <2> DEFINE T == {Position(p) : p \in S}
             b == MaxMachineId + 3
  <2>2. \A p \in S : Position(p) \in Nat /\ Position(p) <= b
    <3> SUFFICES ASSUME NEW p \in S PROVE Position(p) \in Nat /\ Position(p) <= b
      OBVIOUS
    <3>1. next[p] \in 0 .. MaxMachineId + 1
      BY <2>1, TypeParts DEF Types, CountTypes
    <3>2. Position(p) \in {0, 1, 2 + next[p]}
      BY DEF Position
    <3> QED BY <3>1, <3>2, Numbers
  <2>3. PICK x \in T : \A y \in T : y <= x
    <3>1. T \subseteq Nat /\ T # {} /\ \A y \in T : y <= b
      BY <2>2
    <3>2. b \in Nat
      BY Numbers
    <3> HIDE DEF T, b
    <3> QED BY <3>1, <3>2, Largest
  <2>4. PICK p \in S : x = Position(p)
    BY <2>3
  <2>5. \A q \in S : ~(Position(p) < Position(q))
    BY <2>2, <2>3, <2>4
  <2>6. WaitsFor(p) \cap S = {}
    <3> SUFFICES ASSUME NEW q \in S, q \in WaitsFor(p) PROVE FALSE
      OBVIOUS
    <3>1. Position(p) < Position(q)
      BY <2>1, WaitsForLater
    <3> QED BY <2>5, <3>1
  <2> QED BY <2>6
<1> QED BY <1>1, Invariant, PTL
=============================================================================
