------------------------------- MODULE MCCli --------------------------------
(* Cli for TLC: every command with up to four arguments out of nine,       *)
(* decode with an epoch for every day from 1970 to LastDay, and generate   *)
(* and decode with epochs in the last milliseconds of the word.            *)
EXTENDS Cli

CONSTANTS MaxArguments, \* BOUND: arguments after the command
          LastDay       \* BOUND: the last day whose date is printed

SomeArguments ==
  {Name(n) : n \in Valued \cup {"-x"}}
    \cup {Word(s) : s \in {<<0>>, <<1>>, <<1, 2>>, <<1, 0, 1, 2>>, <<INVALID>>}}

Digits(v) == LET decimals[n \in Nat] ==
                   IF n < RADIX THEN <<n>>
                   ELSE Append(decimals[n \div RADIX], n % RADIX)
             IN  decimals[v]

Decode(epoch, ts) ==
  <<Name("decode"), Name("--epoch-ms"), Word(Digits(epoch)),
    Word(encode(from_parts_unchecked(ts, 0, 0)))>>

(* On every day a window starts, the times of day taken in turn. *)
EveryDay ==
  LET day == DAY_S * SECOND_MS
      start(d) == d * day + ((7 * d) % day)
  IN  {Decode(start(d) - (d % (TS_MASK + 1)) * WINDOW_MS, d % (TS_MASK + 1)) :
         d \in 0 .. LastDay}

LastEpochs == {MS_WORD - 2, MS_WORD - 1}

(* The window after the last u64, and as many IDs as a window has, or one more. *)
Late ==
  {Decode(e, ts) : e \in LastEpochs \cup {MS_WORD}, ts \in 0 .. TS_MASK}
    \cup {<<Name("generate"), Name("--epoch-ms"), Word(Digits(e)),
            Name("-n"), Word(Digits(n))>> :
            e \in LastEpochs, n \in {SEQ_MASK + 1, SEQ_MASK + 2}}

MCCommandLines ==
  {{<<Name(c)>> \o s : s \in SeqOf(SomeArguments, MaxArguments)} : c \in Commands}
    \cup {EveryDay, Late}
    \cup {{<<>>, <<Name("-h")>>, <<Name("-V")>>, <<Name("-x")>>, <<Word(<<1>>)>>}}
=============================================================================
