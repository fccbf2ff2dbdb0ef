------------------------- MODULE IdGenerator_proofs -------------------------
(***************************************************************************)
(* Theorems about IdGenerator for any threads, field widths, epoch, window *)
(* length and any number of clock steps: its safety properties, and that   *)
(* it implements IdIssuer.  At the end, theorems about GlobalGenerator,    *)
(* which has it in a OnceLock, for any number of callers of init.          *)
(***************************************************************************)
EXTENDS GlobalGenerator, IdLayout_proofs, SequenceTheorems

-----------------------------------------------------------------------------
(* The inductive invariant. *)

States == 0 .. (TS_MASK + 2) * SeqSpan - 1

Last(s) == s[Len(s)]

(* The ID a packed state stands for, and its predecessors in the window. *)
IdAt(s, seq) == from_parts_unchecked(unpack(s).ts, MachineId, seq)

Issued(id) == \E i \in 1 .. Len(log) : log[i] = id

(* The state word is the last ID of the log, and that ID's window has been *)
(* filled from 0 up to it.                                                 *)
StateIsLast ==
  IF state = STATE_EMPTY
  THEN log = <<>>
  ELSE /\ state >= SeqSpan
       /\ log # <<>>
       /\ Last(log) = IdAt(state, unpack(state).seq)
       /\ \A s \in 0 .. unpack(state).seq : Issued(IdAt(state, s))

(* What a thread has checked before its exchange. *)
Checked == \A t \in Threads :
  /\ pc[t] \in {"load", "cas"} => /\ TNow(nowMs[t]) <= TS_MASK
                                  /\ TNow(nowMs[t]) <= high
  /\ pc[t] = "cas" => ~IsExhausted(current[t], nowMs[t])
  /\ pc[t] = "sleep" => current[t] >= SeqSpan

(* A reading is in the past unless the clock was stepped. *)
Reading == /\ TNow(clock) <= high
           /\ \A t \in Threads :
                pc[t] \in {"load", "cas"} /\ steady[t] => nowMs[t] <= clock

IInv == /\ TypeOK
        /\ StateIsLast
        /\ StrictlyIncreasing
        /\ Checked
        /\ Reading
        /\ WindowUsedUp
        /\ SleepFitsWindow

-----------------------------------------------------------------------------
(* Arithmetic of the state word. *)

LEMMA StatesRange == States \subseteq Nat
  BY DEF States

(* A state that is not empty is at least one span, and unpacks to fields   *)
(* in range.                                                               *)
LEMMA UnpackRange ==
  ASSUME NEW s \in States, s >= SeqSpan
  PROVE  /\ unpack(s).ts \in 0 .. TS_MASK
         /\ unpack(s).seq \in 0 .. SEQ_MASK
<1>1. s \in Nat /\ s < (TS_MASK + 2) * SeqSpan
  BY Spans, LayoutAssumption DEF States
<1> DEFINE q == s \div SeqSpan
           r == s % SeqSpan
<1>2. q \in Nat /\ r \in 0 .. SeqSpan - 1 /\ s = q * SeqSpan + r
  BY <1>1, Spans
<1>3. q >= 1
  BY <1>1, <1>2, Spans
<1>4. q <= TS_MASK + 1
  <2>1. SUFFICES ASSUME TS_MASK + 1 < q PROVE FALSE
    BY <1>2, LayoutAssumption
  <2>2. (TS_MASK + 1) * SeqSpan + SeqSpan <= q * SeqSpan
    BY <1>2, <2>1, Spans, LayoutAssumption, MulMono
  <2>3. (TS_MASK + 2) * SeqSpan = (TS_MASK + 1) * SeqSpan + SeqSpan
    BY Spans, LayoutAssumption
  <2>4. q * SeqSpan \in Nat /\ (TS_MASK + 1) * SeqSpan \in Nat
    BY <1>2, Spans, LayoutAssumption
  <2> HIDE DEF q, r
  <2> QED BY <1>1, <1>2, <2>2, <2>3, <2>4, Spans
<1> HIDE DEF q, r
<1>5. q - 1 \in 0 .. TS_MASK /\ r \in 0 .. SEQ_MASK
  BY <1>2, <1>3, <1>4, LayoutAssumption DEF SeqSpan
<1> QED BY <1>5 DEF unpack, q, r

LEMMA PackRange ==
  ASSUME NEW ts \in 0 .. TS_MASK, NEW seq \in 0 .. SEQ_MASK
  PROVE  /\ pack(ts, seq) \in States
         /\ pack(ts, seq) >= SeqSpan
         /\ unpack(pack(ts, seq)) = [ts |-> ts, seq |-> seq]
<1>1. /\ ts \in Nat /\ seq \in Nat /\ ts + 1 \in Nat
      /\ ts + 1 < TS_MASK + 2 /\ seq < SeqSpan
  BY LayoutAssumption DEF SeqSpan
<1>2. (ts + 1) * SeqSpan + SeqSpan <= (TS_MASK + 2) * SeqSpan
  BY <1>1, Spans, LayoutAssumption, MulMono
<1>3. (ts + 1) * SeqSpan \in Nat /\ (TS_MASK + 2) * SeqSpan \in Nat
  BY <1>1, Spans, LayoutAssumption
<1>4. (ts + 1) * SeqSpan >= SeqSpan
  BY <1>1, Spans
<1>5. pack(ts, seq) \in States /\ pack(ts, seq) >= SeqSpan
  BY <1>1, <1>2, <1>3, <1>4, Spans DEF pack, States
<1>6. /\ ((ts + 1) * SeqSpan + seq) \div SeqSpan = ts + 1
      /\ ((ts + 1) * SeqSpan + seq) % SeqSpan = seq
  BY <1>1, Spans, DivMod
<1> QED BY <1>1, <1>5, <1>6 DEF pack, unpack

LEMMA TNowNat == \A ms \in Nat : TNow(ms) \in Nat
  BY GeneratorAssumption DEF TNow, saturating_sub

(* A reading whose window is over lies at or after that window's end.      *)
LEMMA WindowEnd ==
  ASSUME NEW ms \in Nat, NEW ts \in Nat, ms >= EpochMs + (ts + 1) * WindowMs
  PROVE  TNow(ms) > ts
<1>1. EpochMs \in Nat /\ WindowMs \in Nat \ {0}
  BY GeneratorAssumption
<1> DEFINE d == ms - EpochMs
<1>2. (ts + 1) * WindowMs \in Nat
  BY <1>1
<1>3. d \in Nat /\ d >= (ts + 1) * WindowMs /\ TNow(ms) = d \div WindowMs
  BY <1>1, <1>2 DEF TNow, saturating_sub
<1> HIDE DEF d
<1>4. d \div WindowMs >= ts + 1
  BY <1>1, <1>3
<1> QED BY <1>1, <1>3, <1>4

(* What the exchange installs: in range, and above the state it replaces.  *)
LEMMA CandidateStep ==
  ASSUME NEW s \in States, s = STATE_EMPTY \/ s >= SeqSpan,
         NEW ms \in Nat, TNow(ms) <= TS_MASK, ~IsExhausted(s, ms)
  PROVE  LET c == Candidate(s, ms)
         IN  /\ c.ts \in 0 .. TS_MASK /\ c.seq \in 0 .. SEQ_MASK
             /\ TNow(ms) <= c.ts
             /\ \/ c.seq = 0 /\ c.ts = TNow(ms)
                   /\ (s # STATE_EMPTY => c.ts > unpack(s).ts)
                \/ /\ s # STATE_EMPTY
                   /\ c.ts = unpack(s).ts
                   /\ c.seq = unpack(s).seq + 1
<1>1. TNow(ms) \in 0 .. TS_MASK
  BY TNowNat, LayoutAssumption
<1>2. CASE s = STATE_EMPTY \/ TNow(ms) > unpack(s).ts
  BY <1>1, <1>2, LayoutAssumption DEF Candidate
<1>3. CASE ~(s = STATE_EMPTY \/ TNow(ms) > unpack(s).ts)
  <2>1. unpack(s).ts \in 0 .. TS_MASK /\ unpack(s).seq \in 0 .. SEQ_MASK
    BY <1>3, UnpackRange
  <2>2. TNow(ms) <= unpack(s).ts
    BY <1>1, <1>3, <2>1
  <2>3. unpack(s).seq # SEQ_MASK
    BY <1>3, <2>2 DEF IsExhausted
  <2> QED BY <1>3, <2>1, <2>2, <2>3, LayoutAssumption DEF Candidate
<1> QED BY <1>2, <1>3

-----------------------------------------------------------------------------
(* The invariant is inductive. *)

(* A step that leaves the state word and the log alone keeps what relates  *)
(* them, and a thread that stays asleep keeps its exhausted window.        *)
LEMMA SharedUnchanged ==
  ASSUME StateIsLast, StrictlyIncreasing, UNCHANGED sharedVars
  PROVE  StateIsLast' /\ StrictlyIncreasing'
  BY DEF StateIsLast, StrictlyIncreasing, sharedVars, Issued, Last, IdAt

(* The thread t that returns is the only one whose locals change.          *)
LEMMA ReturnKeeps ==
  ASSUME NEW t \in Threads, IInv, Return(t), UNCHANGED clockVars
  PROVE  /\ pc' \in [Threads -> Pcs] /\ api' \in [Threads -> Apis]
         /\ nowMs' \in [Threads -> 0 .. MaxMs]
         /\ current' \in [Threads -> States]
         /\ left' \in [Threads -> Nat]
         /\ steady' \in [Threads -> BOOLEAN]
         /\ Checked' /\ Reading' /\ SleepFitsWindow'
<1>1. TypeOK
  BY DEF IInv
<1>2. /\ pc' \in [Threads -> Pcs] /\ api' \in [Threads -> Apis]
      /\ nowMs' \in [Threads -> 0 .. MaxMs]
      /\ current' \in [Threads -> States]
      /\ left' \in [Threads -> Nat]
      /\ steady' \in [Threads -> BOOLEAN]
  <2>1. STATE_EMPTY \in States
    BY Spans, LayoutAssumption DEF STATE_EMPTY, States
  <2>2. 0 \in 0 .. MaxMs
    BY GeneratorAssumption
  <2> QED BY <1>1, <2>1, <2>2 DEF TypeOK, Return, Pcs, Apis, States
<1>3. /\ pc'[t] = "idle"
      /\ \A u \in Threads \ {t} :
           /\ pc'[u] = pc[u] /\ nowMs'[u] = nowMs[u] /\ left'[u] = left[u]
           /\ current'[u] = current[u] /\ steady'[u] = steady[u]
  BY <1>1 DEF TypeOK, Return
<1>4. Checked'
  BY <1>3 DEF IInv, Checked, clockVars
<1>5. Reading'
  BY <1>3 DEF IInv, Reading, clockVars
<1>6. SleepFitsWindow'
  BY <1>3 DEF IInv, SleepFitsWindow, clockVars
<1> QED BY <1>2, <1>4, <1>5, <1>6

LEMMA InitInv == Init => IInv
<1> SUFFICES ASSUME Init PROVE IInv
  OBVIOUS
<1>1. TypeOK
  <2>1. 0 \in States /\ 0 \in 0 .. MaxMs
    BY Spans, LayoutAssumption, GeneratorAssumption DEF States
  <2>2. high \in Nat
    BY TNowNat, GeneratorAssumption DEF Init
  <2> QED BY <2>1, <2>2, GeneratorAssumption
          DEF Init, TypeOK, Pcs, Apis, States, STATE_EMPTY
<1>2. StateIsLast /\ StrictlyIncreasing
  BY DEF Init, StateIsLast, StrictlyIncreasing
<1>3. Checked /\ WindowUsedUp /\ SleepFitsWindow
  BY DEF Init, Checked, WindowUsedUp, SleepFitsWindow
<1>4. Reading
  BY <1>1, TNowNat, GeneratorAssumption DEF Init, Reading, TypeOK
<1> QED BY <1>1, <1>2, <1>3, <1>4 DEF IInv

LEMMA CallInv == ASSUME NEW t \in Threads, IInv, Call(t) PROVE IInv'
<1>1. TypeOK'
  BY DEF IInv, TypeOK, Call, clockVars, sharedVars, Pcs
<1>2. \A u \in Threads : pc'[u] \in {"load", "cas", "sleep"} => pc'[u] = pc[u]
  BY DEF IInv, TypeOK, Call
<1>3. Checked' /\ Reading'
  BY <1>2 DEF IInv, Checked, Reading, Call, clockVars
<1>4. WindowUsedUp' /\ SleepFitsWindow'
  BY <1>2 DEF IInv, WindowUsedUp, SleepFitsWindow, Call, clockVars, sharedVars
<1>5. StateIsLast' /\ StrictlyIncreasing'
  BY SharedUnchanged DEF IInv, Call
<1> QED BY <1>1, <1>3, <1>4, <1>5 DEF IInv

LEMMA ReadClockInv == ASSUME NEW t \in Threads, IInv, ReadClock(t) PROVE IInv'
<1>1. TypeOK'
  BY DEF IInv, TypeOK, ReadClock, clockVars, sharedVars, Pcs
<1>2. /\ pc'[t] = "load" /\ nowMs'[t] = clock
      /\ \A u \in Threads \ {t} :
           pc'[u] = pc[u] /\ nowMs'[u] = nowMs[u] /\ steady'[u] = steady[u]
  BY DEF IInv, TypeOK, ReadClock
<1>3. Checked'
  BY <1>2 DEF IInv, Checked, Reading, ReadClock, clockVars
<1>4. Reading'
  BY <1>1, <1>2 DEF IInv, Reading, ReadClock, clockVars, TypeOK
<1>5. WindowUsedUp' /\ SleepFitsWindow'
  BY <1>2 DEF IInv, WindowUsedUp, SleepFitsWindow, ReadClock, clockVars, sharedVars
<1>6. StateIsLast' /\ StrictlyIncreasing'
  BY SharedUnchanged DEF IInv, ReadClock
<1> QED BY <1>1, <1>3, <1>4, <1>5, <1>6 DEF IInv

LEMMA LoadInv == ASSUME NEW t \in Threads, IInv, Load(t) PROVE IInv'
<1>1. TypeOK'
  BY DEF IInv, TypeOK, Load, clockVars, sharedVars, Pcs
<1>2. /\ pc[t] = "load" /\ pc'[t] = "cas" /\ current'[t] = state
      /\ \A u \in Threads \ {t} : pc'[u] = pc[u] /\ current'[u] = current[u]
  BY DEF IInv, TypeOK, Load
<1>3. Checked'
  BY <1>2 DEF IInv, Checked, Load, clockVars
<1>4. Reading'
  BY <1>2 DEF IInv, Reading, Load, clockVars
<1>5. WindowUsedUp' /\ SleepFitsWindow'
  BY <1>2 DEF IInv, WindowUsedUp, SleepFitsWindow, Load, clockVars, sharedVars
<1>6. StateIsLast' /\ StrictlyIncreasing'
  BY SharedUnchanged DEF IInv, Load
<1> QED BY <1>1, <1>3, <1>4, <1>5, <1>6 DEF IInv

(* Falling asleep: the state just loaded is the window that is full, and   *)
(* retry_after reaches its end from the clock reading, hence from now.     *)
LEMMA SleepInv == ASSUME NEW t \in Threads, IInv, Sleep(t) PROVE IInv'
<1>1. /\ pc[t] = "load" /\ pc'[t] = "sleep" /\ current'[t] = state
      /\ left'[t] = retry_after(state, nowMs[t])
      /\ \A u \in Threads \ {t} : /\ pc'[u] = pc[u] /\ left'[u] = left[u]
                                  /\ current'[u] = current[u]
  BY DEF IInv, TypeOK, Sleep
<1>2. /\ state \in States /\ state >= SeqSpan /\ nowMs[t] \in Nat
      /\ clock \in Nat
  BY DEF IInv, TypeOK, Sleep, IsExhausted, StateIsLast, States
<1>3. unpack(state).ts \in 0 .. TS_MASK /\ unpack(state).seq = SEQ_MASK
  BY <1>2, UnpackRange DEF Sleep, IsExhausted
<1>4. window_end_ms(state) \in Nat
  BY <1>3, GeneratorAssumption, LayoutAssumption DEF window_end_ms
<1>5. /\ left'[t] \in Nat
      /\ nowMs[t] + left'[t] >= window_end_ms(state)
  BY <1>1, <1>2, <1>4 DEF retry_after, saturating_sub
<1>6. TypeOK'
  BY <1>5, <1>1 DEF IInv, TypeOK, Sleep, clockVars, sharedVars, Pcs, States
<1>7. Checked'
  BY <1>1, <1>2 DEF IInv, Checked, Sleep, clockVars
<1>8. Reading'
  BY <1>1 DEF IInv, Reading, Sleep, clockVars
<1>9. WindowUsedUp'
  <2>1. \A s \in 0 .. SEQ_MASK : Issued(IdAt(state, s))
    BY <1>2, <1>3, Spans DEF IInv, StateIsLast, STATE_EMPTY
  <2>2. \A s \in 0 .. SEQ_MASK : \E i \in 1 .. Len(log) :
          log[i] = from_parts_unchecked(unpack(state).ts, MachineId, s)
    BY <2>1 DEF Issued, IdAt
  <2> QED BY <1>1, <2>2 DEF IInv, WindowUsedUp, Sleep, sharedVars
<1>10. SleepFitsWindow'
  <2>1. steady[t] => clock + left'[t] >= window_end_ms(state)
    BY <1>1, <1>2, <1>4, <1>5 DEF IInv, Reading
  <2>2. ASSUME nowMs[t] >= EpochMs, TNow(nowMs[t]) = unpack(state).ts
        PROVE  left'[t] <= WindowMs
    <3>1. /\ EpochMs \in Nat /\ WindowMs \in Nat \ {0}
      BY GeneratorAssumption
    <3> DEFINE d == nowMs[t] - EpochMs
               w == unpack(state).ts
    <3>2. d \in Nat /\ w \in Nat /\ d \div WindowMs = w
      BY <1>2, <1>3, <2>2, <3>1, LayoutAssumption DEF TNow, saturating_sub
    <3>3. window_end_ms(state) = EpochMs + (w + 1) * WindowMs
      BY DEF window_end_ms
    <3> HIDE DEF w
    <3>4. nowMs[t] = EpochMs + d
      BY <1>2, <3>1
    <3> HIDE DEF d
    <3>5. d >= w * WindowMs
      BY <3>1, <3>2
    <3>6. (w + 1) * WindowMs = w * WindowMs + WindowMs /\ w * WindowMs \in Nat
      BY <3>1, <3>2
    <3>7. window_end_ms(state) <= nowMs[t] + WindowMs
      BY <3>1, <3>2, <3>3, <3>4, <3>5, <3>6
    <3> QED BY <1>1, <1>2, <1>4, <3>1, <3>7 DEF retry_after, saturating_sub
  <2>3. UNCHANGED <<clock, nowMs, steady>>
    BY DEF Sleep, clockVars
  <2> QED BY <1>1, <2>1, <2>2, <2>3 DEF IInv, SleepFitsWindow
<1>11. StateIsLast' /\ StrictlyIncreasing'
  BY SharedUnchanged DEF IInv, Sleep
<1> QED BY <1>6, <1>7, <1>8, <1>9, <1>10, <1>11 DEF IInv
(* Back to the clock reading, after a lost exchange or a sleep.            *)
LEMMA AgainInv ==
  ASSUME NEW t \in Threads, IInv, CasFail(t) \/ Wake(t) PROVE IInv'
<1>1. TypeOK'
  <2>1. 0 \in 0 .. MaxMs /\ STATE_EMPTY \in States
    BY Spans, LayoutAssumption, GeneratorAssumption DEF States, STATE_EMPTY
  <2> QED BY <2>1 DEF IInv, TypeOK, CasFail, Wake, clockVars, sharedVars, Pcs, States
<1>2. /\ pc'[t] = "clock"
      /\ \A u \in Threads \ {t} :
           pc'[u] = pc[u] /\ nowMs'[u] = nowMs[u] /\ current'[u] = current[u]
  BY DEF IInv, TypeOK, CasFail, Wake
<1>3. UNCHANGED <<clockVars, sharedVars, left, steady>>
  BY DEF CasFail, Wake
<1>4. Checked' /\ Reading'
  BY <1>2, <1>3 DEF IInv, Checked, Reading, clockVars
<1>5. WindowUsedUp' /\ SleepFitsWindow'
  BY <1>2, <1>3 DEF IInv, WindowUsedUp, SleepFitsWindow, clockVars, sharedVars
<1>6. StateIsLast' /\ StrictlyIncreasing'
  BY <1>3, SharedUnchanged DEF IInv
<1> QED BY <1>1, <1>4, <1>5, <1>6 DEF IInv

(* A return without an ID. *)
LEMMA NoIdInv ==
  ASSUME NEW t \in Threads, IInv,
         EpochExhausted(t) \/ SequenceExhausted(t) \/ Cancel(t)
  PROVE  IInv'
<1>1. /\ Return(t) /\ UNCHANGED <<clockVars, sharedVars>>
      /\ expired' \in [Threads -> BOOLEAN]
  BY DEF EpochExhausted, SequenceExhausted, Cancel, IInv, TypeOK
<1>2. TypeOK'
  BY <1>1, ReturnKeeps DEF IInv, TypeOK, clockVars, sharedVars, States
<1>3. WindowUsedUp'
  BY <1>1 DEF IInv, TypeOK, WindowUsedUp, Return, sharedVars
<1>4. StateIsLast' /\ StrictlyIncreasing'
  BY <1>1, SharedUnchanged DEF IInv
<1> QED BY <1>1, <1>2, <1>3, <1>4, ReturnKeeps DEF IInv

(* The exchange: the ID is new, the next in its window or the first of a   *)
(* later one, and larger than every ID before it.                          *)
LEMMA CasOkFacts ==
  ASSUME NEW t \in Threads, IInv, CasOk(t)
  PROVE  LET c == Candidate(state, nowMs[t])
             id == from_parts_unchecked(c.ts, MachineId, c.seq)
         IN  /\ c.ts \in 0 .. TS_MASK /\ c.seq \in 0 .. SEQ_MASK
             /\ TNow(nowMs[t]) <= c.ts
             /\ state' = pack(c.ts, c.seq)
             /\ log' = Append(log, id)
             /\ id \in Ids
             /\ timestamp(id) = c.ts /\ sequence(id) = c.seq
             /\ \/ /\ c.seq = 0
                   /\ c.ts = TNow(nowMs[t])
                   /\ state # STATE_EMPTY => c.ts > unpack(state).ts
                \/ /\ state # STATE_EMPTY
                   /\ c.ts = unpack(state).ts
                   /\ c.seq = unpack(state).seq + 1
<1>1. /\ state = current[t] /\ state \in States /\ nowMs[t] \in Nat
      /\ state = STATE_EMPTY \/ state >= SeqSpan
      /\ TNow(nowMs[t]) <= TS_MASK /\ ~IsExhausted(state, nowMs[t])
  BY DEF IInv, TypeOK, CasOk, StateIsLast, Checked, States
<1> DEFINE c == Candidate(state, nowMs[t])
<1>2. /\ c.ts \in 0 .. TS_MASK /\ c.seq \in 0 .. SEQ_MASK
      /\ TNow(nowMs[t]) <= c.ts
      /\ \/ /\ c.seq = 0
            /\ c.ts = TNow(nowMs[t])
            /\ state # STATE_EMPTY => c.ts > unpack(state).ts
         \/ /\ state # STATE_EMPTY
            /\ c.ts = unpack(state).ts
            /\ c.seq = unpack(state).seq + 1
  BY <1>1, CandidateStep
<1>3. /\ state' = pack(c.ts, c.seq)
      /\ log' = Append(log, from_parts_unchecked(c.ts, MachineId, c.seq))
  BY <1>1 DEF CasOk
<1> HIDE DEF c
<1>4. /\ from_parts_unchecked(c.ts, MachineId, c.seq) \in Ids
      /\ timestamp(from_parts_unchecked(c.ts, MachineId, c.seq)) = c.ts
      /\ sequence(from_parts_unchecked(c.ts, MachineId, c.seq)) = c.seq
  BY <1>2, FieldsRoundTrip, GeneratorAssumption
<1> QED BY <1>2, <1>3, <1>4 DEF c

LEMMA NewIdLarger ==
  ASSUME NEW t \in Threads, IInv, CasOk(t), state # STATE_EMPTY
  PROVE  LET c == Candidate(state, nowMs[t])
         IN  Last(log) < from_parts_unchecked(c.ts, MachineId, c.seq)
<1> DEFINE c == Candidate(state, nowMs[t])
           u == unpack(state)
<1>1. /\ u.ts \in 0 .. TS_MASK /\ u.seq \in 0 .. SEQ_MASK
      /\ Last(log) = from_parts_unchecked(u.ts, MachineId, u.seq)
  BY UnpackRange DEF IInv, TypeOK, StateIsLast, States, IdAt
<1>2. /\ c.ts \in 0 .. TS_MASK /\ c.seq \in 0 .. SEQ_MASK
      /\ c.ts > u.ts \/ (c.ts = u.ts /\ c.seq = u.seq + 1)
  BY CasOkFacts
<1> HIDE DEF c, u
<1>3. /\ u.ts \in Nat /\ c.ts \in Nat /\ MachineId \in 0 .. MID_MASK
  BY <1>1, <1>2, GeneratorAssumption, LayoutAssumption
<1>4. from_parts_unchecked(u.ts, MachineId, u.seq)
        < from_parts_unchecked(c.ts, MachineId, c.seq)
  <2>1. CASE c.ts > u.ts
    BY <1>1, <1>2, <1>3, <2>1, TimeOrder
  <2>2. CASE c.ts = u.ts /\ c.seq = u.seq + 1
    <3>1. (u.ts * MidSpan + MachineId) * SeqSpan \in Nat
      BY <1>3, Spans, LayoutAssumption
    <3> QED BY <1>1, <1>2, <2>2, <3>1, LayoutAssumption DEF from_parts_unchecked
  <2> QED BY <1>2, <2>1, <2>2
<1> QED BY <1>1, <1>4 DEF c

LEMMA CasOkInv == ASSUME NEW t \in Threads, IInv, CasOk(t) PROVE IInv'
<1> DEFINE c == Candidate(state, nowMs[t])
           id == from_parts_unchecked(c.ts, MachineId, c.seq)
<1>1. /\ c.ts \in 0 .. TS_MASK /\ c.seq \in 0 .. SEQ_MASK
      /\ state' = pack(c.ts, c.seq) /\ log' = Append(log, id)
      /\ id \in Ids
      /\ \/ c.seq = 0
         \/ /\ state # STATE_EMPTY
            /\ c.ts = unpack(state).ts /\ c.seq = unpack(state).seq + 1
  BY CasOkFacts
<1>2. state # STATE_EMPTY => Last(log) < id
  BY NewIdLarger
<1> HIDE DEF c, id
<1>3. log \in Seq(Ids) /\ log' \in Seq(Ids)
  BY <1>1 DEF IInv, TypeOK
<1>4. /\ Len(log') = Len(log) + 1 /\ Len(log) \in Nat
      /\ \A i \in 1 .. Len(log) : log'[i] = log[i]
      /\ log'[Len(log) + 1] = id
  BY <1>1, <1>3
<1>5. Return(t) /\ UNCHANGED <<clockVars, expired>>
  BY DEF CasOk
<1>6. TypeOK'
  <2>1. state' \in States
    BY <1>1, PackRange
  <2> QED BY <1>3, <1>5, <2>1, ReturnKeeps DEF IInv, TypeOK, clockVars, States
<1>7. StrictlyIncreasing'
  <2>0. Ids \subseteq Int /\ \A i \in 1 .. Len(log) : log[i] \in Int
    <3>1. Ids \subseteq Int
      BY DEF Ids
    <3>2. \A i \in 1 .. Len(log) : log[i] \in Ids
      BY <1>3
    <3> QED BY <3>1, <3>2
  <2>1. \A i \in 1 .. Len(log) : log[i] <= Last(log)
    BY <1>4, <2>0 DEF IInv, StrictlyIncreasing, Last
  <2>2. \A i \in 1 .. Len(log) : log[i] < id
    <3>1. CASE state = STATE_EMPTY
      BY <3>1 DEF IInv, StateIsLast
    <3>2. CASE state # STATE_EMPTY
      <4>1. log # <<>>
        BY <3>2 DEF IInv, StateIsLast
      <4>2. Last(log) \in Int /\ id \in Int
        BY <1>1, <1>3, <2>0, <4>1 DEF Last
      <4> QED BY <1>2, <2>0, <2>1, <3>2, <4>2
    <3> QED BY <3>1, <3>2
  <2> QED BY <1>4, <2>2 DEF IInv, StrictlyIncreasing
<1>8. StateIsLast'
  <2>1. /\ state' >= SeqSpan /\ unpack(state') = [ts |-> c.ts, seq |-> c.seq]
        /\ state' # STATE_EMPTY
    BY <1>1, PackRange, Spans DEF STATE_EMPTY
  <2>2. log' # <<>> /\ Last(log') = id
    BY <1>4, <1>3 DEF Last
  <2>3. \A s \in 0 .. c.seq : \E i \in 1 .. Len(log') :
          log'[i] = from_parts_unchecked(c.ts, MachineId, s)
    <3> TAKE s \in 0 .. c.seq
    <3>1. CASE s = c.seq
      BY <1>4, <3>1 DEF id
    <3>2. CASE s # c.seq
      <4>1. /\ state # STATE_EMPTY /\ c.ts = unpack(state).ts
            /\ s \in 0 .. unpack(state).seq
        <5>1. /\ state # STATE_EMPTY /\ c.ts = unpack(state).ts
              /\ c.seq = unpack(state).seq + 1
          BY <1>1, <3>2
        <5>2. state \in States
          BY Zenon DEF IInv, TypeOK, States
        <5>3. state >= SeqSpan
          BY <5>1, Zenon DEF IInv, StateIsLast
        <5>5. unpack(state).seq \in 0 .. SEQ_MASK
          BY <5>2, <5>3, UnpackRange
        <5>4. s \in 0 .. unpack(state).seq
          BY <5>1, <5>5, <3>2, LayoutAssumption
        <5> QED BY <5>1, <5>4
      <4>2. \E i \in 1 .. Len(log) :
              log[i] = from_parts_unchecked(c.ts, MachineId, s)
        BY <4>1 DEF IInv, StateIsLast, Issued, IdAt
      <4> QED BY <1>4, <4>2
    <3> QED BY <3>1, <3>2
  <2> QED BY <2>1, <2>2, <2>3 DEF StateIsLast, Issued, IdAt, id
<1>9. WindowUsedUp'
  <2>1. \A u \in Threads : pc'[u] = "sleep" => pc[u] = "sleep" /\ current'[u] = current[u]
    BY <1>5 DEF IInv, TypeOK, Return
  <2> QED BY <1>4, <2>1 DEF IInv, WindowUsedUp
<1> QED BY <1>5, <1>6, <1>7, <1>8, <1>9, ReturnKeeps DEF IInv

(* A millisecond passes.  Where the clock is held at MaxMs it is past the  *)
(* end of every window, so the sleeps that end there are long enough.      *)
LEMMA TickInv == ASSUME IInv, Tick PROVE IInv'
<1>1. /\ clock \in 0 .. MaxMs /\ high \in Nat /\ clock' \in 0 .. MaxMs
      /\ clock <= clock' /\ MaxMs \in Nat
      /\ clock' = clock + 1 \/ (clock' = clock /\ clock = MaxMs)
  BY GeneratorAssumption DEF IInv, TypeOK, Tick
<1>2. TNow(clock') \in Nat
  BY <1>1, TNowNat
<1>3. high' \in Nat /\ high <= high' /\ TNow(clock') <= high'
  BY <1>1, <1>2 DEF Tick, Highest
<1>4. \A t \in Threads : /\ left[t] \in Nat /\ left'[t] \in Nat
                         /\ left'[t] <= left[t] /\ left'[t] >= left[t] - 1
  BY DEF IInv, TypeOK, Tick, saturating_sub
<1>5. TypeOK'
  BY <1>1, <1>3, <1>4 DEF IInv, TypeOK, Tick, sharedVars, saturating_sub
<1>6. Checked'
  <2>1. \A t \in Threads : nowMs[t] \in Nat
    BY DEF IInv, TypeOK
  <2>2. \A t \in Threads : TNow(nowMs[t]) \in Nat
    BY <2>1, TNowNat
  <2> QED BY <1>1, <1>3, <2>2 DEF IInv, Checked, Tick
<1>7. Reading'
  <2>1. \A t \in Threads : nowMs[t] \in Nat
    BY DEF IInv, TypeOK
  <2> QED BY <1>1, <1>3, <2>1 DEF IInv, Reading, Tick
<1>8. WindowUsedUp'
  BY DEF IInv, WindowUsedUp, Tick, sharedVars
<1>9. SleepFitsWindow'
  <2> SUFFICES ASSUME NEW t \in Threads, pc'[t] = "sleep"
               PROVE  /\ steady'[t] => clock' + left'[t] >= window_end_ms(current'[t])
                      /\ nowMs'[t] >= EpochMs /\ TNow(nowMs'[t]) = unpack(current'[t]).ts
                           => left'[t] <= WindowMs
    BY DEF SleepFitsWindow
  <2>1. UNCHANGED <<pc, nowMs, current, steady>>
    BY DEF Tick
  <2>2. current[t] \in States /\ current[t] >= SeqSpan
    BY <2>1 DEF IInv, TypeOK, Checked, States
  <2>3. unpack(current[t]).ts \in 0 .. TS_MASK
    BY <2>2, UnpackRange
  <2>4. window_end_ms(current[t]) \in Nat /\ window_end_ms(current[t]) <= MaxMs
    <3> DEFINE w == unpack(current[t]).ts
    <3>1. w \in Nat /\ w <= TS_MASK
      BY <2>3, LayoutAssumption
    <3> HIDE DEF w
    <3>2. w * WindowMs + WindowMs <= (TS_MASK + 1) * WindowMs
      BY <3>1, MulMono, LayoutAssumption, GeneratorAssumption
    <3>3. (w + 1) * WindowMs = w * WindowMs + WindowMs /\ w * WindowMs \in Nat
      BY <3>1, GeneratorAssumption
    <3>4. (TS_MASK + 1) * WindowMs \in Nat
      BY LayoutAssumption, GeneratorAssumption
    <3>5. window_end_ms(current[t]) = EpochMs + (w + 1) * WindowMs
      BY DEF window_end_ms, w
    <3> QED BY <3>2, <3>3, <3>4, <3>5, GeneratorAssumption
  <2>5. steady[t] => clock' + left'[t] >= window_end_ms(current[t])
    BY <1>1, <1>4, <2>1, <2>4 DEF IInv, SleepFitsWindow
  <2>6. nowMs[t] >= EpochMs /\ TNow(nowMs[t]) = unpack(current[t]).ts => left'[t] <= WindowMs
    BY <1>4, <2>1, GeneratorAssumption DEF IInv, SleepFitsWindow
  <2> QED BY <2>1, <2>5, <2>6
<1>10. StateIsLast' /\ StrictlyIncreasing'
  BY SharedUnchanged DEF IInv, Tick
<1> QED BY <1>5, <1>6, <1>7, <1>8, <1>9, <1>10 DEF IInv

LEMMA StepClockInv == ASSUME IInv, StepClock PROVE IInv'
<1>1. clock' \in Nat /\ high \in Nat
  BY DEF IInv, TypeOK, StepClock
<1>2. high' \in Nat /\ high <= high' /\ TNow(clock') <= high'
  BY <1>1, TNowNat DEF StepClock, Highest
<1>3. TypeOK'
  BY <1>2, GeneratorAssumption DEF IInv, TypeOK, StepClock, sharedVars
<1>4. Checked'
  <2>1. \A t \in Threads : nowMs[t] \in Nat
    BY DEF IInv, TypeOK
  <2>2. \A t \in Threads : TNow(nowMs[t]) \in Nat
    BY <2>1, TNowNat
  <2> QED BY <1>1, <1>2, <2>2 DEF IInv, Checked, StepClock
<1>5. Reading' /\ WindowUsedUp' /\ SleepFitsWindow'
  BY <1>2 DEF IInv, Reading, WindowUsedUp, SleepFitsWindow, StepClock, sharedVars
<1>6. StateIsLast' /\ StrictlyIncreasing'
  BY SharedUnchanged DEF IInv, StepClock
<1> QED BY <1>3, <1>4, <1>5, <1>6 DEF IInv

LEMMA NextInv == IInv /\ [Next]_vars => IInv'
<1> SUFFICES ASSUME IInv, [Next]_vars PROVE IInv'
  OBVIOUS
<1>1. CASE UNCHANGED vars
  BY <1>1 DEF vars, IInv, TypeOK, StateIsLast, StrictlyIncreasing, Checked,
       Reading, WindowUsedUp, SleepFitsWindow, Issued, IdAt, Last
<1>2. CASE Tick
  BY <1>2, TickInv
<1>3. CASE StepClock
  BY <1>3, StepClockInv
<1>4. ASSUME NEW t \in Threads, ThreadStep(t) PROVE IInv'
  BY <1>4, CallInv, ReadClockInv, LoadInv, SleepInv, AgainInv, NoIdInv, CasOkInv
     DEF ThreadStep
<1> QED BY <1>1, <1>2, <1>3, <1>4 DEF Next

(* Every reachable state satisfies the invariant. *)
THEOREM Invariance == Spec => []IInv
  BY InitInv, NextInv, PTL DEF Spec

-----------------------------------------------------------------------------
(* The theorems. *)

(* The packed state, and every local of every thread, keeps its range.     *)
THEOREM TypeCorrect == Spec => []TypeOK
<1>1. IInv => TypeOK
  BY DEF IInv
<1> QED BY <1>1, Invariance, PTL

(* Uniqueness and order of the IDs of one generator, id.rs:22.             *)
THEOREM IdsStrictlyIncrease == Spec => []StrictlyIncreasing
<1>1. IInv => StrictlyIncreasing
  BY DEF IInv
<1> QED BY <1>1, Invariance, PTL

(* Exhaustion is reported only for a window that is used up.               *)
THEOREM ExhaustedIsUsedUp == Spec => []WindowUsedUp
<1>1. IInv => WindowUsedUp
  BY DEF IInv
<1> QED BY <1>1, Invariance, PTL

(* retry_after reaches the next window and is at most one window long.     *)
THEOREM SleepIsRight == Spec => []SleepFitsWindow
<1>1. IInv => SleepFitsWindow
  BY DEF IInv
<1> QED BY <1>1, Invariance, PTL

(* Of all the steps only the exchange leads from "cas" to "idle".          *)
LEMMA OnlyCasReturns ==
  ASSUME NEW t \in Threads, IInv, [Next]_vars, pc[t] = "cas", pc'[t] = "idle"
  PROVE  CasOk(t)
<1>1. pc' # pc
  OBVIOUS
<1>2. ~Tick /\ ~StepClock
  BY <1>1 DEF Tick, StepClock
<1>3. ASSUME NEW u \in Threads, u # t, ThreadStep(u) PROVE FALSE
  BY <1>3 DEF IInv, TypeOK, ThreadStep, Call, ReadClock, EpochExhausted, Load,
     SequenceExhausted, Sleep, CasOk, CasFail, Wake, Cancel, Return
<1>4. ThreadStep(t) => CasOk(t)
  BY DEF IInv, TypeOK, ThreadStep, Call, ReadClock, EpochExhausted, Load,
     SequenceExhausted, Sleep, CasFail, Wake, Cancel, Return
<1> QED BY <1>1, <1>2, <1>3, <1>4 DEF Next, vars

(* An ID never carries a window that was over when its caller looked.      *)
THEOREM IdsNotBeforeReading == Spec => NotBeforeReading
<1>1. ASSUME IInv, [Next]_vars
      PROVE  [\A t \in Threads : pc[t] = "cas" /\ pc'[t] = "idle"
                => timestamp(Issuer!Last(log')) >= TNow(nowMs[t])]_vars
  <2> SUFFICES ASSUME NEW t \in Threads, pc[t] = "cas", pc'[t] = "idle"
               PROVE  timestamp(Issuer!Last(log')) >= TNow(nowMs[t])
    OBVIOUS
  <2>1. CasOk(t)
    BY <1>1, OnlyCasReturns
  <2> DEFINE c == Candidate(state, nowMs[t])
             id == from_parts_unchecked(c.ts, MachineId, c.seq)
  <2>2. /\ TNow(nowMs[t]) <= c.ts /\ c.ts \in 0 .. TS_MASK
        /\ log' = Append(log, id) /\ id \in Ids /\ timestamp(id) = c.ts
    BY <1>1, <2>1, CasOkFacts
  <2> HIDE DEF c, id
  <2>3. Issuer!Last(log') = id
    BY <1>1, <2>2 DEF IInv, TypeOK, Issuer!Last
  <2>4. TNow(nowMs[t]) \in Nat
    <3>1. nowMs[t] \in Nat
      BY <1>1, GeneratorAssumption DEF IInv, TypeOK
    <3> QED BY <3>1, TNowNat
  <2> QED BY <2>2, <2>3, <2>4, LayoutAssumption
<1> QED BY <1>1, Invariance, PTL DEF Spec, NotBeforeReading

(* Implementation of the abstract issuer: the exchange is its Issue, a     *)
(* clock that shows a new highest window its Advance, every other step     *)
(* stutters.                                                               *)
THEOREM ImplementsIssuer == Spec => IssuerSpec
<1>1. Init => Issuer!Init
  BY TNowNat, GeneratorAssumption DEF Init, Issuer!Init
<1>2. IInv /\ [Next]_vars => [Issuer!Next]_(Issuer!vars)
  <2> SUFFICES ASSUME IInv, [Next]_vars PROVE [Issuer!Next]_(Issuer!vars)
    OBVIOUS
  <2> USE DEF Issuer!vars
  <2>1. CASE UNCHANGED vars
    BY <2>1 DEF vars
  <2>2. CASE Tick \/ StepClock
    <3>1. high \in Nat /\ clock' \in Nat
      BY <2>2, GeneratorAssumption DEF IInv, TypeOK, Tick, StepClock
    <3>2. high' \in Nat /\ (high' = high \/ high' > high) /\ log' = log
      BY <2>2, <3>1, TNowNat DEF Tick, StepClock, Highest, sharedVars
    <3> QED BY <3>2 DEF Issuer!Next, Issuer!Advance
  <2>3. ASSUME NEW t \in Threads, ThreadStep(t) PROVE [Issuer!Next]_(Issuer!vars)
    <3>1. CASE CasOk(t)
      <4> DEFINE c == Candidate(state, nowMs[t])
                 id == from_parts_unchecked(c.ts, MachineId, c.seq)
      <4>1. /\ c.ts \in 0 .. TS_MASK /\ c.seq \in 0 .. SEQ_MASK
            /\ log' = Append(log, id)
            /\ \/ /\ c.seq = 0 /\ c.ts = TNow(nowMs[t])
                  /\ state # STATE_EMPTY => c.ts > unpack(state).ts
               \/ /\ state # STATE_EMPTY
                  /\ c.ts = unpack(state).ts
                  /\ c.seq = unpack(state).seq + 1
        BY <3>1, CasOkFacts
      <4> HIDE DEF c
      <4>2. high' = high
        BY <3>1 DEF CasOk, clockVars
      <4>3. state # STATE_EMPTY =>
              /\ log # <<>>
              /\ timestamp(Last(log)) = unpack(state).ts
              /\ sequence(Last(log)) = unpack(state).seq
        <5> SUFFICES ASSUME state # STATE_EMPTY
                     PROVE  /\ log # <<>>
                            /\ timestamp(Last(log)) = unpack(state).ts
                            /\ sequence(Last(log)) = unpack(state).seq
          OBVIOUS
        <5>1. state \in States
          BY Zenon DEF IInv, TypeOK, States
        <5>3. /\ state >= SeqSpan /\ log # <<>>
              /\ Last(log) = from_parts_unchecked(unpack(state).ts, MachineId,
                                                 unpack(state).seq)
          BY Zenon DEF IInv, StateIsLast, IdAt
        <5>2. unpack(state).ts \in 0 .. TS_MASK /\ unpack(state).seq \in 0 .. SEQ_MASK
          BY <5>1, <5>3, UnpackRange
        <5> QED BY <5>2, <5>3, FieldsRoundTrip, GeneratorAssumption
      <4>4. state = STATE_EMPTY => log = <<>>
        BY DEF IInv, StateIsLast
      <4>5. TNow(nowMs[t]) <= high
        BY <3>1 DEF IInv, Checked, CasOk
      <4>6. Issuer!Last(log) = Last(log)
        BY DEF Issuer!Last, Last
      <4>7. Issuer!timestamp(Last(log)) = timestamp(Last(log))
            /\ Issuer!sequence(Last(log)) = sequence(Last(log))
        BY DEF Issuer!timestamp, Issuer!sequence, timestamp, sequence,
               Issuer!SeqSpan, Issuer!MidSpan, SeqSpan, MidSpan
      <4>8. Issuer!from_parts_unchecked(c.ts, MachineId, c.seq) = id
        BY DEF Issuer!from_parts_unchecked, from_parts_unchecked,
               Issuer!SeqSpan, Issuer!MidSpan, SeqSpan, MidSpan
      <4> HIDE DEF id
      <4>9. Issuer!NextInWindow(c.ts, c.seq) \/ Issuer!OpensWindow(c.ts, c.seq)
        BY <4>1, <4>3, <4>4, <4>5, <4>6, <4>7
           DEF Issuer!NextInWindow, Issuer!OpensWindow
      <4> QED BY <4>1, <4>2, <4>8, <4>9 DEF Issuer!Next, Issuer!Issue
    <3>2. CASE ~CasOk(t)
      BY <2>3, <3>2 DEF ThreadStep, Call, ReadClock, EpochExhausted, Load,
         SequenceExhausted, Sleep, CasFail, Wake, Cancel, clockVars, sharedVars
    <3> QED BY <3>1, <3>2
  <2> QED BY <2>1, <2>2, <2>3 DEF Next
<1> QED BY <1>1, <1>2, Invariance, PTL DEF Spec, IssuerSpec, Issuer!Spec

(* EpochExhausted is permanent if the wall clock is never stepped: then    *)
(* every later reading lies past the epoch as well.                        *)
Expired == /\ steps = 0
           /\ \A t \in Threads : expired[t] =>
                /\ TNow(clock) > TS_MASK
                /\ pc[t] \notin {"load", "cas", "sleep"}

LEMMA TNowMonotone ==
  \A a, b \in Nat : a <= b => TNow(a) <= TNow(b)
<1> TAKE a, b \in Nat
<1> HAVE a <= b
<1> DEFINE x == saturating_sub(a, EpochMs)
           y == saturating_sub(b, EpochMs)
<1>1. x \in Nat /\ y \in Nat /\ x <= y
  BY GeneratorAssumption DEF saturating_sub
<1> HIDE DEF x, y
<1>2. \A p, q \in Nat, m \in Nat \ {0} : p <= q => p \div m <= q \div m
  OBVIOUS
<1>3. x \div WindowMs <= y \div WindowMs
  BY <1>1, <1>2, GeneratorAssumption
<1> QED BY <1>3 DEF TNow, x, y

(* EpochExhausted is permanent, as generator.rs:70 and 203 have it, as long *)
(* as nobody sets the clock.                                               *)
THEOREM ExpiryPermanentIfMonotone ==
  ASSUME MaxSteps = 0
  PROVE  Spec => EpochExhaustionIsPermanent
<1>1. Init => Expired
  BY DEF Init, Expired
<1>2. IInv /\ Expired /\ [Next]_vars => Expired'
  <2> SUFFICES ASSUME IInv, Expired, [Next]_vars PROVE Expired'
    OBVIOUS
  <2>1. CASE UNCHANGED vars
    BY <2>1 DEF vars, Expired
  <2>2. CASE Tick
    <3>1. /\ clock \in Nat /\ clock' \in Nat /\ clock <= clock'
      BY <2>2, GeneratorAssumption DEF IInv, TypeOK, Tick
    <3>2. TNow(clock) \in Nat /\ TNow(clock') \in Nat /\ TNow(clock) <= TNow(clock')
      BY <3>1, TNowNat, TNowMonotone
    <3> QED BY <2>2, <3>2, LayoutAssumption DEF Expired, Tick
  <2>3. ~StepClock
    BY GeneratorAssumption DEF Expired, StepClock
  <2>4. ASSUME NEW t \in Threads, ThreadStep(t) PROVE Expired'
    <3>1. UNCHANGED <<clock, steps>>
      BY <2>4 DEF ThreadStep, Call, ReadClock, EpochExhausted, Load,
         SequenceExhausted, Sleep, CasOk, CasFail, Wake, Cancel, clockVars
    <3>2. \A u \in Threads \ {t} : pc'[u] = pc[u] /\ expired'[u] = expired[u]
      BY <2>4 DEF IInv, TypeOK, ThreadStep, Call, ReadClock, EpochExhausted, Load,
         SequenceExhausted, Sleep, CasOk, CasFail, Wake, Cancel, Return
    <3>3. expired'[t] => /\ TNow(clock) > TS_MASK
                         /\ pc'[t] \notin {"load", "cas", "sleep"}
      <4>1. TNow(clock) \in Nat
        BY TNowNat DEF IInv, TypeOK
      <4> QED BY <2>4, <4>1, LayoutAssumption
         DEF IInv, TypeOK, Expired, ThreadStep, Call, ReadClock, EpochExhausted,
         Load, SequenceExhausted, Sleep, CasOk, CasFail, Wake, Cancel, Return
    <3> QED BY <3>1, <3>2, <3>3 DEF Expired
  <2> QED BY <2>1, <2>2, <2>3, <2>4 DEF Next
<1>3. Expired /\ [Next]_vars =>
        [\A t \in Threads :
           expired[t] /\ pc[t] = "cas" /\ pc'[t] = "idle" => log' = log]_vars
  BY DEF Expired
<1> QED BY <1>1, <1>2, <1>3, Invariance, PTL DEF Spec, EpochExhaustionIsPermanent

-----------------------------------------------------------------------------
(* The process-global generator. *)

(* GLOBAL is set once, by the one caller that is told Ok, and whoever      *)
(* generates does so with what is in it.                                   *)
OnceInv ==
  /\ answer \in [Starters -> {None, "Ok", "AlreadyInitialized"}]
  /\ generator \in [Threads -> Starters \cup {None}]
  /\ once \in {"incomplete", "running", "complete"}
  /\ once # "incomplete" => global \in Starters
  /\ once # "complete" => \A s \in Starters : answer[s] = None
  /\ \A s \in Starters : answer[s] = "Ok" <=> once = "complete" /\ s = global
  /\ \A t \in Threads : pc[t] # "idle" => once = "complete" /\ generator[t] = global
  /\ \A s \in stamps : once = "complete" /\ s = global

LEMMA GlobalIsNext == GlobalNext => [Next]_vars
  BY DEF GlobalNext, BeginSet, EndSet, SetAgain, Panic, GlobalCall, GlobalStep, Next,
         ThreadStep

LEMMA InitOnce == GlobalInit => OnceInv
  BY StartersAssumption DEF GlobalInit, Init, OnceInv

LEMMA OnceStep == TypeOK /\ OnceInv /\ [GlobalNext]_globalVars => OnceInv'
<1> SUFFICES ASSUME TypeOK, OnceInv, [GlobalNext]_globalVars PROVE OnceInv'
  OBVIOUS
<1> USE DEF initVars
<1>1. pc \in [Threads -> Pcs]
  BY DEF TypeOK
<1>2. ASSUME NEW s \in Starters, BeginSet(s) PROVE OnceInv'
  BY <1>2, StartersAssumption DEF BeginSet, OnceInv, vars
<1>3. ASSUME NEW s \in Starters, EndSet(s) PROVE OnceInv'
  BY <1>3, StartersAssumption DEF EndSet, OnceInv, vars
<1>4. ASSUME NEW s \in Starters, SetAgain(s) PROVE OnceInv'
  BY <1>4, StartersAssumption DEF SetAgain, OnceInv, vars
<1>5. ASSUME NEW t \in Threads, Panic(t) PROVE OnceInv'
  BY <1>5 DEF Panic, OnceInv, vars
<1>6. ASSUME NEW t \in Threads, GlobalCall(t) PROVE OnceInv'
  BY <1>1, <1>6 DEF GlobalCall, Call, OnceInv
<1>7. ASSUME NEW t \in Threads, GlobalStep(t) PROVE OnceInv'
  <2>1. \A u \in Threads \ {t} : pc'[u] = pc[u]
    BY <1>1, <1>7 DEF GlobalStep, ThreadStep, Call, ReadClock, EpochExhausted, Load,
       SequenceExhausted, Sleep, CasOk, CasFail, Wake, Cancel, Return
  <2>2. once = "complete" /\ generator[t] = global /\ global \in Starters
    BY <1>7 DEF GlobalStep, OnceInv
  <2>3. /\ generator' \in [Threads -> Starters \cup {None}]
        /\ \A u \in Threads \ {t} : generator'[u] = generator[u]
        /\ pc'[t] # "idle" => generator'[t] = generator[t]
    BY <1>7 DEF GlobalStep, OnceInv
  <2>4. stamps' \subseteq stamps \cup {global}
    BY <1>7, <2>2 DEF GlobalStep
  <2>5. UNCHANGED <<once, global, answer>>
    BY <1>7 DEF GlobalStep
  <2> QED BY <2>1, <2>2, <2>3, <2>4, <2>5 DEF OnceInv
<1>8. CASE (Tick \/ StepClock) /\ UNCHANGED <<initVars, generator, panicked, stamps>>
  BY <1>8 DEF Tick, StepClock, OnceInv
<1>9. CASE UNCHANGED globalVars
  BY <1>9 DEF globalVars, vars, OnceInv
<1> QED BY <1>2, <1>3, <1>4, <1>5, <1>6, <1>7, <1>8, <1>9 DEF GlobalNext

LEMMA GlobalStepIsNext == [GlobalNext]_globalVars => [Next]_vars
<1>1. CASE UNCHANGED globalVars
  BY <1>1 DEF globalVars, vars
<1>2. CASE GlobalNext
  BY <1>2, GlobalIsNext
<1> QED BY <1>1, <1>2

(* The lock opens once, and what is behind it keeps its invariant.          *)
THEOREM GlobalInvariance == GlobalSpec => [](IInv /\ OnceInv)
<1>1. GlobalInit => IInv /\ OnceInv
  BY InitInv, InitOnce DEF GlobalInit
<1>2. IInv /\ OnceInv /\ [GlobalNext]_globalVars => (IInv /\ OnceInv)'
  BY NextInv, OnceStep, GlobalStepIsNext DEF IInv
<1> QED BY <1>1, <1>2, PTL DEF GlobalSpec

(* However many callers of init and generate race at start-up: one init    *)
(* succeeds, and every ID of the process has its machine ID.               *)
THEOREM OneInitWins == GlobalSpec => []OneIdentity
<1>1. OnceInv => OneIdentity
  BY DEF OnceInv, OneIdentity
<1> QED BY <1>1, GlobalInvariance, PTL

(* The IDs of the process increase, whichever init succeeds.               *)
THEOREM GlobalIdsIncrease == GlobalSpec => []StrictlyIncreasing
<1>1. IInv => StrictlyIncreasing
  BY DEF IInv
<1> QED BY <1>1, GlobalInvariance, PTL

(* generate panics only while no init has returned, not even with          *)
(* AlreadyInitialized.                                                     *)
THEOREM PanicsOnlyBeforeInit == GlobalSpec => PanicOnlyBeforeInit
<1>1. OnceInv /\ [GlobalNext]_globalVars =>
        [panicked' # panicked => \A s \in Starters : answer[s] = None]_globalVars
  <2> SUFFICES ASSUME OnceInv, GlobalNext, panicked' # panicked
               PROVE  \A s \in Starters : answer[s] = None
    OBVIOUS
  <2>1. PICK t \in Threads : Panic(t)
    BY DEF GlobalNext, BeginSet, EndSet, SetAgain, GlobalCall, GlobalStep, initVars
  <2> QED BY <2>1 DEF Panic, OnceInv
<1> QED BY <1>1, GlobalInvariance, PTL DEF GlobalSpec, PanicOnlyBeforeInit
=============================================================================
