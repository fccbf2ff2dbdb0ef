--------------------------- MODULE GlobalGenerator ---------------------------
(***************************************************************************)
(* The process-global generator, snowdrop-id/src/global.rs: a OnceLock     *)
(* that start-up code fills with init / init_with, and generate, which     *)
(* anybody may call from anywhere at any time.                             *)
(* The IdGenerator in it is IdGenerator's; which machine ID it got is      *)
(* tracked here, IdGenerator's own MachineId being the same for all.       *)
(***************************************************************************)
EXTENDS IdGenerator

CONSTANTS Starters,  \* callers of init_with, each with its own machine ID
          None

ASSUME StartersAssumption == None \notin Starters \cup {"Ok", "AlreadyInitialized"}

VARIABLES
  once,      \* GLOBAL's Once: "incomplete", "running" or "complete"
  global,    \* the starter whose generator is in GLOBAL
  answer,    \* what init_with has returned to each starter
  generator, \* per thread: the starter whose generator its call works on
  panicked,  \* threads that have panicked in generator() and are gone
  stamps     \* History: the starters under whose machine ID IDs were issued

initVars   == <<once, global, answer>>
globalVars == <<vars, initVars, generator, panicked, stamps>>

GlobalInit ==
  /\ Init
  /\ once = "incomplete"
  /\ global = None
  /\ answer = [s \in Starters |-> None]
  /\ generator = [t \in Threads |-> None]
  /\ panicked = {}
  /\ stamps = {}

-----------------------------------------------------------------------------
(* init_with builds a new generator and sets it.  OnceLock::set lets one   *)
(* caller in and has the others wait until the value is there ...          *)
BeginSet(s) ==
  /\ answer[s] = None
  /\ once = "incomplete"
  /\ once' = "running"
  /\ global' = s
  /\ UNCHANGED <<vars, answer, generator, panicked, stamps>>

EndSet(s) ==
  /\ global = s
  /\ once = "running"
  /\ once' = "complete"
  /\ answer' = [answer EXCEPT ![s] = "Ok"]
  /\ UNCHANGED <<vars, global, generator, panicked, stamps>>

(* Mutant: a second caller is turned away while the first is not done.     *)
SetAgain_Early(s) ==
  /\ answer[s] = None
  /\ global \notin {None, s}
  /\ answer' = [answer EXCEPT ![s] = "AlreadyInitialized"]
  /\ UNCHANGED <<vars, once, global, generator, panicked, stamps>>

(* Mutant: the last caller wins, with a generator that starts anew.        *)
SetAgain_Replaces(s) ==
  /\ answer[s] = None
  /\ once = "complete"
  /\ global' = s
  /\ state' = STATE_EMPTY
  /\ answer' = [answer EXCEPT ![s] = "Ok"]
  /\ UNCHANGED <<clockVars, log, pc, localVars, once, generator, panicked, stamps>>

(* ... and then drops their generator: Err(AlreadyInitialized).            *)
SetAgain(s) ==
  /\ answer[s] = None
  /\ once = "complete"
  /\ answer' = [answer EXCEPT ![s] = "AlreadyInitialized"]
  /\ UNCHANGED <<vars, once, global, generator, panicked, stamps>>

(* generator() finds no value: it panics rather than make one up.          *)
Panic(t) ==
  /\ pc[t] = "idle"
  /\ t \notin panicked
  /\ once # "complete"
  /\ panicked' = panicked \cup {t}
  /\ UNCHANGED <<vars, initVars, generator, stamps>>

(* generate, generate_async or generator().try_generate().                 *)
GlobalCall(t) ==
  /\ t \notin panicked
  /\ once = "complete"
  /\ Call(t)
  /\ generator' = [generator EXCEPT ![t] = global]
  /\ UNCHANGED <<initVars, panicked, stamps>>

(* The call goes on, on the generator it has got hold of.                  *)
GlobalStep(t) ==
  /\ pc[t] # "idle"
  /\ ThreadStep(t)
  /\ generator' = [generator EXCEPT ![t] = IF pc'[t] = "idle" THEN None ELSE @]
  /\ stamps' = IF log' # log THEN stamps \cup {generator[t]} ELSE stamps
  /\ UNCHANGED <<initVars, panicked>>

GlobalNext ==
  \/ \E s \in Starters : BeginSet(s) \/ EndSet(s) \/ SetAgain(s)
  \/ \E t \in Threads : Panic(t) \/ GlobalCall(t) \/ GlobalStep(t)
  \/ (Tick \/ StepClock) /\ UNCHANGED <<initVars, generator, panicked, stamps>>

GlobalSpec == GlobalInit /\ [][GlobalNext]_globalVars /\ Fairness

-----------------------------------------------------------------------------
(* "First call wins; later calls fail ... and leave the existing generator *)
(* untouched" (global.rs:44-45): whatever race start-up code runs with     *)
(* itself and with generating threads, one init succeeds, and every ID of  *)
(* the process carries its machine ID.                                     *)
OneIdentity ==
  /\ \A r, s \in Starters : answer[r] = "Ok" /\ answer[s] = "Ok" => r = s
  /\ \A s \in stamps : answer[s] = "Ok"

(* generate panics "if the global generator has not been initialized"      *)
(* (global.rs:85), and only then: whoever has an answer from init, be it   *)
(* AlreadyInitialized, may generate.                                       *)
PanicOnlyBeforeInit ==
  [][panicked' # panicked => \A s \in Starters : answer[s] = None]_globalVars
=============================================================================
