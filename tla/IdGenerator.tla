---------------------------- MODULE IdGenerator -----------------------------
(***************************************************************************)
(* IdGenerator (snowdrop-id/src/generator.rs): one AtomicU64 shared by any *)
(* number of threads, each of which loops "read the wall clock, load the   *)
(* state, compare-and-exchange".  A step is one access to what the threads *)
(* share (clock or state) with the thread-local code up to the next one,   *)
(* so every interleaving of the loop is a behaviour.  The wall clock is    *)
(* the environment's: it ticks, and may be stepped to any value.           *)
(***************************************************************************)
EXTENDS IdLayout, Sequences

CONSTANTS Threads,    \* callers of the generator
          MachineId,  \* IdGenerator.machine_id
          EpochMs,    \* IdGenerator.epoch, Unix milliseconds
          WindowMs,   \* length of a window (1024, the >> 10 of the source)
          MaxMs,      \* BOUND: the clock stays at most here
          MaxSteps    \* BOUND: how often the wall clock may be stepped

ASSUME GeneratorAssumption == /\ MachineId \in 0 .. MID_MASK
                              /\ EpochMs \in Nat
                              /\ WindowMs \in Nat \ {0}
                              /\ MaxMs \in Nat
                              /\ MaxMs >= EpochMs + (TS_MASK + 1) * WindowMs
                              /\ MaxSteps \in Nat

VARIABLES
  clock,    \* the wall clock, Unix milliseconds
  steps,    \* how often it has been stepped
  state,    \* IdGenerator.state
  pc,       \* where each thread is in try_generate / generate
  api,      \* the entry point each thread called
  nowMs,    \* its now_ms
  current,  \* its current
  left,     \* what remains of its sleep(retry_after), in ms
  \* History, read by no action of the generator:
  log,      \* the IDs returned, in the order of their compare-and-exchange
  high,     \* the highest window the clock has shown
  steady,   \* thread's clock reading not followed by a clock step
  expired   \* thread has been told EpochExhausted

sharedVars == <<state, log>>
clockVars  == <<clock, steps, high>>
localVars  == <<api, nowMs, current, left, steady, expired>>
vars == <<clock, steps, state, pc, api, nowMs, current, left, log, high,
          steady, expired>>

Apis == {"try_generate", "generate", "generate_async"}
Pcs  == {"idle", "clock", "load", "cas", "sleep"}

-----------------------------------------------------------------------------
(* The arithmetic of try_generate. *)

STATE_EMPTY == 0

pack(ts, seq) == (ts + 1) * SeqSpan + seq

unpack(s) == [ts |-> s \div SeqSpan - 1, seq |-> s % SeqSpan]

saturating_sub(a, b) == IF a >= b THEN a - b ELSE 0

(* t_now, the window a clock reading lies in. *)
TNow(ms) == saturating_sub(ms, EpochMs) \div WindowMs

(* Mutant: a window that is held although the clock is behind it is never  *)
(* found exhausted.                                                        *)
IsExhausted_NotHeld(s, ms) == /\ s # STATE_EMPTY
                              /\ TNow(ms) = unpack(s).ts
                              /\ unpack(s).seq = SEQ_MASK

(* Mutant: the last sequence number is not handed out. *)
IsExhausted_OneEarly(s, ms) == /\ s # STATE_EMPTY
                               /\ TNow(ms) <= unpack(s).ts
                               /\ unpack(s).seq + 1 >= SEQ_MASK

(* The loaded state allows no ID in the window of this reading. *)
IsExhausted(s, ms) == /\ s # STATE_EMPTY
                      /\ TNow(ms) <= unpack(s).ts
                      /\ unpack(s).seq = SEQ_MASK

(* Mutant: the timestamp follows a clock that is set back. *)
Candidate_FollowsClock(s, ms) ==
  IF s = STATE_EMPTY \/ TNow(ms) # unpack(s).ts
    THEN [ts |-> TNow(ms), seq |-> 0]
    ELSE [ts |-> unpack(s).ts, seq |-> unpack(s).seq + 1]

(* Mutant: a window is used up before the next one is begun. *)
Candidate_FillsWindow(s, ms) ==
  IF s = STATE_EMPTY \/ (TNow(ms) > unpack(s).ts /\ unpack(s).seq = SEQ_MASK)
    THEN [ts |-> TNow(ms), seq |-> 0]
    ELSE [ts |-> unpack(s).ts, seq |-> unpack(s).seq + 1]

(* The (ts, seq) the exchange tries to install: a window the clock has     *)
(* newly reached, or the next number of the last one (the hold rule).      *)
Candidate(s, ms) ==
  IF s = STATE_EMPTY \/ TNow(ms) > unpack(s).ts
    THEN [ts |-> TNow(ms), seq |-> 0]
    ELSE [ts |-> unpack(s).ts, seq |-> unpack(s).seq + 1]

window_end_ms(s) == EpochMs + (unpack(s).ts + 1) * WindowMs

(* Mutant: wait for the end of the clock's window, not of the held one. *)
retry_after_ClockWindow(s, ms) ==
  WindowMs - (saturating_sub(ms, EpochMs) % WindowMs)

retry_after(s, ms) ==
  LET wait == saturating_sub(window_end_ms(s), ms)
  IN  IF wait >= 1 THEN wait ELSE 1

-----------------------------------------------------------------------------
Init ==
  /\ clock \in 0 .. MaxMs
  /\ steps = 0
  /\ state = STATE_EMPTY
  /\ pc = [t \in Threads |-> "idle"]
  /\ api = [t \in Threads |-> "generate"]
  /\ nowMs = [t \in Threads |-> 0]
  /\ current = [t \in Threads |-> STATE_EMPTY]
  /\ left = [t \in Threads |-> 0]
  /\ log = <<>>
  /\ high = TNow(clock)
  /\ steady = [t \in Threads |-> TRUE]
  /\ expired = [t \in Threads |-> FALSE]

(* A thread enters one of the three entry points. *)
Call(t) ==
  /\ pc[t] = "idle"
  /\ \E a \in Apis : api' = [api EXCEPT ![t] = a]
  /\ pc' = [pc EXCEPT ![t] = "clock"]
  /\ UNCHANGED <<clockVars, sharedVars, nowMs, current, left, steady, expired>>

(* The call returns; its locals are dead. *)
Return(t) ==
  /\ pc' = [pc EXCEPT ![t] = "idle"]
  /\ api' = [api EXCEPT ![t] = "generate"]
  /\ nowMs' = [nowMs EXCEPT ![t] = 0]
  /\ current' = [current EXCEPT ![t] = STATE_EMPTY]
  /\ left' = [left EXCEPT ![t] = 0]
  /\ steady' = [steady EXCEPT ![t] = TRUE]

(* The reading lies in a window of the epoch. *)
ReadClock(t) ==
  /\ pc[t] = "clock"
  /\ TNow(clock) <= TS_MASK
  /\ pc' = [pc EXCEPT ![t] = "load"]
  /\ nowMs' = [nowMs EXCEPT ![t] = clock]
  /\ steady' = [steady EXCEPT ![t] = TRUE]
  /\ UNCHANGED <<clockVars, sharedVars, api, current, left, expired>>

(* The reading lies past the epoch: return Err(EpochExhausted). *)
EpochExhausted(t) ==
  /\ pc[t] = "clock"
  /\ TNow(clock) > TS_MASK
  /\ Return(t)
  /\ expired' = [expired EXCEPT ![t] = TRUE]
  /\ UNCHANGED <<clockVars, sharedVars>>

Load(t) ==
  /\ pc[t] = "load"
  /\ ~IsExhausted(state, nowMs[t])
  /\ pc' = [pc EXCEPT ![t] = "cas"]
  /\ current' = [current EXCEPT ![t] = state]
  /\ UNCHANGED <<clockVars, sharedVars, api, nowMs, left, steady, expired>>

(* The window is used up: generate sleeps for retry_after ... *)
Sleep(t) ==
  /\ pc[t] = "load"
  /\ IsExhausted(state, nowMs[t])
  /\ api[t] # "try_generate"
  /\ pc' = [pc EXCEPT ![t] = "sleep"]
  /\ current' = [current EXCEPT ![t] = state]
  /\ left' = [left EXCEPT ![t] = retry_after(state, nowMs[t])]
  /\ UNCHANGED <<clockVars, sharedVars, api, nowMs, steady, expired>>

(* ... and try_generate returns Err(SequenceExhausted { retry_after }). *)
SequenceExhausted(t) ==
  /\ pc[t] = "load"
  /\ IsExhausted(state, nowMs[t])
  /\ api[t] = "try_generate"
  /\ Return(t)
  /\ UNCHANGED <<clockVars, sharedVars, expired>>

(* Mutant: a store instead of the compare-and-exchange. *)
CasOk_Store(t) ==
  /\ pc[t] = "cas"
  /\ LET c == Candidate(current[t], nowMs[t])
     IN  /\ state' = pack(c.ts, c.seq)
         /\ log' = Append(log, from_parts_unchecked(c.ts, MachineId, c.seq))
  /\ Return(t)
  /\ UNCHANGED <<clockVars, expired>>

(* compare_exchange_weak succeeds: the ID is this thread's. *)
CasOk(t) ==
  /\ pc[t] = "cas"
  /\ state = current[t]
  /\ LET c == Candidate(current[t], nowMs[t])
     IN  /\ state' = pack(c.ts, c.seq)
         /\ log' = Append(log, from_parts_unchecked(c.ts, MachineId, c.seq))
  /\ Return(t)
  /\ UNCHANGED <<clockVars, expired>>

(* It fails, because another thread was faster or spuriously (it is the    *)
(* weak form): around the loop, from the clock reading on.                 *)
CasFail(t) ==
  /\ pc[t] = "cas"
  /\ pc' = [pc EXCEPT ![t] = "clock"]
  /\ current' = [current EXCEPT ![t] = STATE_EMPTY]
  /\ nowMs' = [nowMs EXCEPT ![t] = 0]
  /\ UNCHANGED <<clockVars, sharedVars, api, left, steady, expired>>

(* Mutant: the loop goes on with the clock reading from before the sleep. *)
Wake_StaleReading(t) ==
  /\ pc[t] = "sleep"
  /\ left[t] = 0
  /\ pc' = [pc EXCEPT ![t] = "load"]
  /\ current' = [current EXCEPT ![t] = STATE_EMPTY]
  /\ UNCHANGED <<clockVars, sharedVars, api, nowMs, left, steady, expired>>

(* sleep returns, at retry_after or later. *)
Wake(t) ==
  /\ pc[t] = "sleep"
  /\ left[t] = 0
  /\ pc' = [pc EXCEPT ![t] = "clock"]
  /\ current' = [current EXCEPT ![t] = STATE_EMPTY]
  /\ nowMs' = [nowMs EXCEPT ![t] = 0]
  /\ UNCHANGED <<clockVars, sharedVars, api, left, steady, expired>>

(* The future of generate_async is dropped at its only await point. *)
Cancel(t) ==
  /\ pc[t] = "sleep"
  /\ api[t] = "generate_async"
  /\ Return(t)
  /\ UNCHANGED <<clockVars, sharedVars, expired>>

-----------------------------------------------------------------------------
(* The environment: a millisecond passes (sleeps run on the monotonic      *)
(* clock), or the wall clock is set, by hand or by NTP.  MaxMs lies past   *)
(* the epoch's last window, so a clock that stays there changes nothing.   *)

Highest(a, b) == IF a >= b THEN a ELSE b

Tick ==
  /\ clock' = IF clock < MaxMs THEN clock + 1 ELSE clock
  /\ left' = [t \in Threads |-> saturating_sub(left[t], 1)]
  /\ high' = Highest(high, TNow(clock'))
  /\ UNCHANGED <<steps, sharedVars, pc, api, nowMs, current, steady, expired>>

StepClock ==
  /\ steps < MaxSteps
  /\ steps' = steps + 1
  /\ clock' \in 0 .. MaxMs
  /\ high' = Highest(high, TNow(clock'))
  /\ steady' = [t \in Threads |-> FALSE]
  /\ UNCHANGED <<sharedVars, pc, api, nowMs, current, left, expired>>

ThreadStep(t) ==
  \/ Call(t)  \/ ReadClock(t)         \/ EpochExhausted(t)
  \/ Load(t)  \/ SequenceExhausted(t) \/ Sleep(t)
  \/ CasOk(t) \/ CasFail(t)           \/ Wake(t) \/ Cancel(t)

Next == Tick \/ StepClock \/ \E t \in Threads : ThreadStep(t)

Spec == Init /\ [][Next]_vars

(* A running thread is scheduled, time passes, and compare_exchange_weak   *)
(* does not fail spuriously for ever.                                      *)
Fairness ==
  /\ WF_vars(Tick)
  /\ \A t \in Threads :
       /\ WF_vars(ReadClock(t) \/ EpochExhausted(t))
       /\ WF_vars(Load(t) \/ Sleep(t) \/ SequenceExhausted(t))
       /\ WF_vars(CasOk(t) \/ CasFail(t))
       /\ SF_vars(CasOk(t))
       /\ WF_vars(Wake(t))

FairSpec == Spec /\ Fairness

-----------------------------------------------------------------------------
(* Properties. *)

(* Type correctness; the packed state stays within its (TS_BITS + 1 +      *)
(* SEQ_BITS) bits, so pack never overflows into a wrong timestamp.         *)
TypeOK ==
  /\ clock \in 0 .. MaxMs
  /\ steps \in 0 .. MaxSteps
  /\ high \in Nat
  /\ state \in 0 .. (TS_MASK + 2) * SeqSpan - 1
  /\ pc \in [Threads -> Pcs]
  /\ api \in [Threads -> Apis]
  /\ nowMs \in [Threads -> 0 .. MaxMs]
  /\ current \in [Threads -> 0 .. (TS_MASK + 2) * SeqSpan - 1]
  /\ left \in [Threads -> Nat]
  /\ log \in Seq(Ids)
  /\ steady \in [Threads -> BOOLEAN]
  /\ expired \in [Threads -> BOOLEAN]

(* "IDs from one generator are strictly increasing" (id.rs:22), numerically *)
(* and in the order of the exchanges, with any number of threads and        *)
(* whatever the wall clock does; in particular no ID is issued twice.       *)
StrictlyIncreasing ==
  \A i, j \in 1 .. Len(log) : i < j => log[i] < log[j]

(* The generator implements the abstract issuer: no sequence number is     *)
(* skipped or wraps, and no window is borrowed from the future, although   *)
(* clock reading, load and exchange are three steps (generator.rs:71-113). *)
Issuer == INSTANCE IdIssuer WITH log <- log, high <- high
IssuerSpec == Issuer!Spec

(* An ID is stamped with the window of the caller's clock reading or with  *)
(* a later one, never with a window that was over when the caller looked,  *)
(* however many other calls complete in between (generator.rs:84-97).      *)
NotBeforeReading ==
  [][\A t \in Threads :
       pc[t] = "cas" /\ pc'[t] = "idle"
         => timestamp(Issuer!Last(log')) >= TNow(nowMs[t])]_vars

(* A caller is told that a window is exhausted only when every sequence    *)
(* number of that window has really been handed out (generator.rs:86-93).  *)
WindowUsedUp ==
  \A t \in Threads : pc[t] = "sleep" =>
    \A s \in 0 .. SEQ_MASK : \E i \in 1 .. Len(log) :
      log[i] = from_parts_unchecked(unpack(current[t]).ts, MachineId, s)

(* retry_after is long enough: unless the wall clock is stepped meanwhile, *)
(* a sleeper wakes in a later window; and it is at most one window unless  *)
(* the clock is behind the last ID, "being held" (generator.rs:117-119),   *)
(* or before the epoch, whose instants all read as window 0.               *)
SleepFitsWindow ==
  \A t \in Threads : pc[t] = "sleep" =>
    /\ steady[t] => clock + left[t] >= window_end_ms(current[t])
    /\ nowMs[t] >= EpochMs /\ TNow(nowMs[t]) = unpack(current[t]).ts
         => left[t] <= WindowMs

(* "(permanent)", "the generator can never produce another ID"             *)
(* (generator.rs:70 and 202-204): a thread told EpochExhausted gets no ID  *)
(* from a later call.  It needs a clock that is never set back.            *)
EpochExhaustionIsPermanent ==
  [][\A t \in Threads :
       expired[t] /\ pc[t] = "cas" /\ pc'[t] = "idle" => log' = log]_vars

(* Every call returns: the retry loop is not a livelock, and waiting out a *)
(* window ends even if the window is held (generator.rs:71-133).           *)
EveryCallReturns == \A t \in Threads : pc[t] # "idle" ~> pc[t] = "idle"
=============================================================================
