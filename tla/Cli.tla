-------------------------------- MODULE Cli ---------------------------------
(***************************************************************************)
(* The command `snowdrop`, snowdrop-id-cli/src/main.rs: one invocation,    *)
(* from its arguments to its exit code.  An argument is an option or       *)
(* command name, or a word, which is a text of IdCodec; a decimal number   *)
(* is a text whose characters are below RADIX.  Where the arguments and    *)
(* the clock stand at the beginning is up to the environment.              *)
(***************************************************************************)
EXTENDS IdCodec, Calendar

CONSTANTS CommandLines, \* the lists of arguments that are tried, in sets
          RADIX,        \* 10, at most BASE
          WINDOW_MS,    \* 1024
          MS_WORD,      \* number of values of a u64, for milliseconds
          DefaultEpoch, \* Epoch::DEFAULT
          MaxClock      \* BOUND: the clock stops here

(* A name, or a text that is none. *)
Argument == [name : STRING, text : Seq(Chars)]

ASSUME CliAssumption ==
  /\ \A s \in CommandLines : s \subseteq Seq(Argument)
  /\ {RADIX, WINDOW_MS, MS_WORD, DefaultEpoch, MaxClock} \subseteq Nat
  /\ 0 < WINDOW_MS /\ 1 < RADIX /\ RADIX <= BASE
  /\ WORD <= MS_WORD /\ DefaultEpoch < MS_WORD /\ MaxClock < MS_WORD
  /\ (TS_MASK + 1) * WINDOW_MS <= MS_WORD

VARIABLES args, clock,
          options,   \* what parse_options makes of the arguments
          exit,      \* the exit code, NULL while the command runs
          lines,     \* the IDs that generate or decode, the text that encode prints
          printed,   \* what decode prints of the window
          gen        \* generate's IdGenerator: its last (ts, seq)

cliVars == <<args, clock, options, exit, lines, printed, gen>>

Commands == {"generate", "encode", "decode"}
Valued   == {"-m", "-n", "--epoch-ms"}    \* options that take a value
Word(s)  == [name |-> "", text |-> s]
Name(n)  == [name |-> n, text |-> <<INVALID>>]

OK      == 0
RUNTIME == 1
USAGE   == 2
PANIC   == 101

-----------------------------------------------------------------------------
decimal[s \in Seq(Chars)] ==
  IF s = <<>> THEN 0 ELSE decimal[Front(s)] * RADIX + Last(s)

(* parse::<u16>, parse::<u64>, parse_u64: NULL if it is not a number, or   *)
(* not below the limit.                                                    *)
parse(s, limit) ==
  IF s = <<>> \/ (\E i \in DOMAIN s : s[i] >= RADIX) \/ decimal[s] >= limit
  THEN NULL ELSE decimal[s]

NoOptions == [bad |-> FALSE, wants |-> "", machine_id |-> 0, count |-> 1,
              epoch |-> DefaultEpoch, positionals |-> <<>>]

(* An option's value, whatever the argument looks like. *)
take_value(o, s) ==
  LET p == [o EXCEPT !.wants = ""]
  IN  CASE o.wants = "-m" ->
             LET v == parse(s, MidSpan)
             IN  [p EXCEPT !.machine_id = v, !.bad = (v = NULL)]
        [] o.wants = "-n" ->
             LET v == parse(s, WORD) IN [p EXCEPT !.count = v, !.bad = (v = NULL)]
        [] o.wants = "--epoch-ms" ->
             LET v == parse(s, MS_WORD) IN [p EXCEPT !.epoch = v, !.bad = (v = NULL)]

(* Mutant: an option is recognised even where a value is due. *)
parse_argument_Peeks(o, a) ==
  IF o.bad THEN o
  ELSE IF a.name \in Valued THEN [o EXCEPT !.wants = a.name]
  ELSE IF o.wants # "" THEN take_value(o, a.text)
  ELSE IF a.name # "" THEN [o EXCEPT !.bad = TRUE]
  ELSE [o EXCEPT !.positionals = Append(@, a.text)]

(* One turn of the loop of parse_options. *)
parse_argument(o, a) ==
  IF o.bad THEN o
  ELSE IF o.wants # "" THEN take_value(o, a.text)
  ELSE IF a.name \in Valued THEN [o EXCEPT !.wants = a.name]
  ELSE IF a.name # "" THEN [o EXCEPT !.bad = TRUE]
  ELSE [o EXCEPT !.positionals = Append(@, a.text)]

parsing[s \in Seq(Argument)] ==
  IF s = <<>> THEN NoOptions ELSE parse_argument(parsing[Front(s)], Last(s))

parse_options(s) ==
  [parsing[s] EXCEPT !.bad = @ \/ parsing[s].wants # ""]

Command == IF args = <<>> THEN "missing" ELSE Head(args).name

-----------------------------------------------------------------------------
CliInit ==
  /\ Init
  /\ \E s \in CommandLines : args \in s
  /\ clock = 0
  /\ options = IF args = <<>> THEN NoOptions ELSE parse_options(Tail(args))
  /\ exit = NULL
  /\ lines = <<>>
  /\ printed = <<>>
  /\ gen = [ts |-> NULL, seq |-> NULL]

Running(command) == exit = NULL /\ Command = command

Exit(code) == exit' = code /\ UNCHANGED <<vars, args, clock, options, gen>>

(* -h, -V: something else is printed. *)
Inform == /\ exit = NULL
          /\ Command \in {"-h", "-V"}
          /\ Exit(OK)
          /\ UNCHANGED <<lines, printed>>

Number == IF Len(options.positionals) # 1 THEN NULL
          ELSE parse(options.positionals[1], WORD)

(* What is no command, or does not fit its command, is a usage error. *)
Misused ==
  CASE Command = "generate" -> options.bad \/ options.positionals # <<>>
    [] Command = "encode"   -> options.bad \/ Number = NULL
    [] Command = "decode"   -> options.bad \/ Len(options.positionals) # 1
    [] OTHER                -> Command \notin {"-h", "-V"}

Usage == /\ exit = NULL
         /\ Misused
         /\ Exit(USAGE)
         /\ UNCHANGED <<lines, printed>>

EncodeCommand ==
  /\ Running("encode")
  /\ ~Misused
  /\ LET r == from_u64(Number)
     IN  \/ /\ r.error # "none"
            /\ Exit(RUNTIME)
            /\ UNCHANGED lines
         \/ /\ r.error = "none"
            /\ Exit(OK)
            /\ lines' = encode(r.value)
  /\ UNCHANGED printed

(* Id::window_start_ms: an addition that may leave the word, and then      *)
(* panics or wraps, as the build has it.                                   *)
window_start_ms(id, epoch) == epoch + timestamp(id) * WINDOW_MS

DecodeCommand ==
  /\ Running("decode")
  /\ ~Misused
  /\ LET r  == decode(options.positionals[1])
         ms == window_start_ms(r.value, options.epoch)
     IN  \/ /\ r.error # "none"
            /\ Exit(RUNTIME)
            /\ UNCHANGED <<lines, printed>>
         \/ /\ r.error = "none"
            /\ ms >= MS_WORD
            /\ Exit(PANIC)
            /\ UNCHANGED <<lines, printed>>
         \/ /\ r.error = "none"
            /\ Exit(OK)
            /\ lines' = <<r.value>>
            /\ printed' = <<[ms  |-> ms % MS_WORD,
                             iso |-> format_iso8601_ms(ms % MS_WORD)]>>

-----------------------------------------------------------------------------
(* generate, one ID at a time.  TNow is the window the generator reads.    *)

(* Mutant: the last window never ends. *)
TNow_Clamped ==
  LET t == (IF clock >= options.epoch THEN clock - options.epoch ELSE 0) \div WINDOW_MS
  IN  IF t > TS_MASK THEN TS_MASK ELSE t

TNow == (IF clock >= options.epoch THEN clock - options.epoch ELSE 0) \div WINDOW_MS

Generating == /\ Running("generate")
              /\ ~Misused
              /\ Len(lines) < options.count

NewWindow == gen.ts = NULL \/ TNow > gen.ts

PrintId(ts, seq) ==
  /\ gen' = [ts |-> ts, seq |-> seq]
  /\ lines' = Append(lines, from_parts_unchecked(ts, options.machine_id, seq))
  /\ UNCHANGED <<vars, args, clock, options, exit, printed>>

(* The generator may sleep until the clock is in the next window.          *)
GenerateNext ==
  /\ Generating
  /\ TNow <= TS_MASK
  /\ \/ NewWindow /\ PrintId(TNow, 0)
     \/ ~NewWindow /\ gen.seq < SEQ_MASK /\ PrintId(gen.ts, gen.seq + 1)

(* When the window in hand is over: an addition to a u64, which may leave  *)
(* the word (generator.rs:90).                                             *)
WindowEnd == options.epoch + (gen.ts + 1) * WINDOW_MS

(* A used-up window that no clock gets past.                               *)
WaitsForNothing == /\ Generating
                   /\ TNow <= TS_MASK
                   /\ ~NewWindow
                   /\ gen.seq = SEQ_MASK
                   /\ WindowEnd >= MS_WORD

(* The build panics, if it checks overflow; if not, the end wraps to the   *)
(* first milliseconds of the word, and generate sleeps until then, or the  *)
(* 1 ms it sleeps at least, and is here again: nothing but the clock has   *)
(* changed, so that is no action.                                          *)
GeneratePanics ==
  /\ WaitsForNothing
  /\ Exit(PANIC)
  /\ UNCHANGED <<lines, printed>>

GenerateExhausted ==
  /\ Generating
  /\ TNow > TS_MASK
  /\ Exit(RUNTIME)
  /\ UNCHANGED <<lines, printed>>

GenerateDone ==
  /\ Running("generate")
  /\ ~Misused
  /\ Len(lines) = options.count
  /\ Exit(OK)
  /\ UNCHANGED <<lines, printed>>

(* Once the epoch is over, more time changes nothing. *)
Tick == /\ Generating
        /\ clock < MaxClock
        /\ TNow <= TS_MASK
        /\ clock' = clock + 1
        /\ UNCHANGED <<vars, args, options, exit, lines, printed, gen>>

Generate == GenerateNext \/ GenerateExhausted \/ GenerateDone

(* When the shortest command is over somebody else uses the library.       *)
Library == args = <<>> /\ exit # NULL /\ Next /\ UNCHANGED cliVars

CliNext == Inform \/ Usage \/ EncodeCommand \/ DecodeCommand \/ Generate
             \/ GeneratePanics \/ Tick \/ Library

(* GeneratePanics is not fair: not every build has the check.              *)
CliSpec == /\ CliInit /\ [][CliNext]_<<vars, cliVars>>
           /\ WF_cliVars(Generate) /\ WF_cliVars(Tick)

-----------------------------------------------------------------------------
(* What a command line says, read declaratively. *)

Arguments == Tail(args)

(* An argument is a value if an option before it, not itself a value, asks *)
(* for one.                                                                *)
IsValue[i \in DOMAIN Arguments] ==
  i > 1 /\ Arguments[i - 1].name \in Valued /\ ~IsValue[i - 1]

Asked(n) == {i \in DOMAIN Arguments : Arguments[i].name = n /\ ~IsValue[i]}

Plain == {i \in DOMAIN Arguments : Arguments[i].name = "" /\ ~IsValue[i]}

Limit(n) == CASE n = "-m" -> MidSpan [] n = "-n" -> WORD [] n = "--epoch-ms" -> MS_WORD

(* What is said last counts. *)
Said(n, default) ==
  IF Asked(n) = {} THEN default ELSE parse(Arguments[Max(Asked(n)) + 1].text, Limit(n))

WellFormed ==
  \/ Command \in {"-h", "-V"}
  \/ /\ Command \in Commands
     /\ \A i \in DOMAIN Arguments :
          \/ IsValue[i] \/ i \in Plain
          \/ \E n \in Valued : i \in Asked(n) /\ i < Len(Arguments)
                               /\ parse(Arguments[i + 1].text, Limit(n)) # NULL
     /\ Cardinality(Plain) = IF Command = "generate" THEN 0 ELSE 1
     /\ Command = "encode" => \A i \in Plain : parse(Arguments[i].text, WORD) # NULL

(* The exit code says what happened (main.rs:34-47): 2 exactly for command *)
(* lines that make no sense, and then nothing has been printed; `generate` *)
(* prints as many IDs as the command line asks for, ascending and under    *)
(* the machine ID it names, exactly if the code is 0; if the epoch ends on *)
(* the way, those printed before are fewer.  A panic, 101, is only for an  *)
(* epoch whose last window does not end before 2^64 ms, and in `generate`  *)
(* after the IDs of a whole window.                                        *)
ExitCodeTells ==
  exit # NULL =>
    /\ exit = USAGE <=> ~WellFormed
    /\ exit = USAGE \/ (exit # OK /\ Command # "generate") => lines = <<>>
    /\ Command = "generate" /\ WellFormed =>
         /\ Len(lines) <= Said("-n", 1)
         /\ exit = OK <=> Len(lines) = Said("-n", 1)
         /\ \A i \in DOMAIN lines : machine_id(lines[i]) = Said("-m", 0)
         /\ \A i, j \in DOMAIN lines : i < j => lines[i] < lines[j]
    /\ exit = PANIC =>
         /\ Command \in {"generate", "decode"}
         /\ Said("--epoch-ms", DefaultEpoch) + (TS_MASK + 1) * WINDOW_MS >= MS_WORD
         /\ Command = "generate" => Len(lines) > SEQ_MASK

(* "The Unix-millisecond instant at which this ID's 1024 ms timestamp      *)
(* window starts" (id.rs:81) and its date and time (main.rs:187-212): the  *)
(* date and time that are printed are the calendar's for the instant; a    *)
(* generator of the same epoch would use the ID's timestamp from that      *)
(* instant on and not before, unless the instant is before the epoch; and  *)
(* it is before the epoch only if the window starts after the last u64 and *)
(* the build lets the addition wrap.                                       *)
DatesAreRight ==
  exit = OK /\ Command = "decode" =>
    LET epoch == Said("--epoch-ms", DefaultEpoch)
        ts    == timestamp(lines[1])
        ms    == printed[1].ms
    IN  /\ IsInstant(printed[1].iso, ms)
        /\ ms >= epoch => /\ (ms - epoch) \div WINDOW_MS = ts
                          /\ (ms - 1 - epoch) \div WINDOW_MS < ts
        /\ ms < epoch => epoch + ts * WINDOW_MS >= MS_WORD

(* Whatever the count and the epoch, `generate` comes to an end when the   *)
(* clock runs: its loop (main.rs:137-142) waits out used-up windows and    *)
(* stops at the end of the epoch.  The one exception is a used-up window   *)
(* whose end is beyond the last u64 (generator.rs:90): there one build     *)
(* panics and the other waits for ever.                                    *)
GenerateEnds ==
  Running("generate") /\ ~Misused ~> exit # NULL \/ WaitsForNothing
=============================================================================
