------------------------------ MODULE IdCodec -------------------------------
(***************************************************************************)
(* The forms an ID takes outside the program: the base62 text              *)
(* (id.rs:106-141, base62.rs, serde_support.rs), the u64 (serde_u64), the  *)
(* i64 of a BIGINT column (sqlx_support.rs) and the three fields           *)
(* (Id::from_parts).  A character of the alphabet is its digit value (the  *)
(* alphabet is in ascending order), any other byte is INVALID; the base,   *)
(* the word width and the longest length are parameters.  The machine is   *)
(* a form in somebody's hands: written from an ID, or made up, then read.  *)
(***************************************************************************)
EXTENDS IdLayout, SequencesExt

CONSTANTS BASE,      \* 62
          MAX_LEN,   \* length of the buffer, 11
          WORD,      \* number of values of a u64
          MaxText    \* BOUND: typed texts are at most this long

ASSUME CodecAssumption ==
  /\ {BASE, MAX_LEN, WORD, MaxText} \subseteq Nat
  /\ BASE >= 2
  /\ WORD = 2 * (MaxId + 1)     \* an ID leaves the top bit clear

VARIABLES form,      \* of what is in hand: "text", "u64", "i64", "parts"; "none"
          hand,      \* its characters, its number or its fields
          source,    \* the ID it was written from; NULL if it was made up
          result     \* of the last reading of it; NoResult before

vars == <<form, hand, source, result>>

NULL == -1
INVALID == BASE
Chars == 0 .. INVALID

NoResult == [error |-> "none", value |-> NULL, index |-> NULL]

-----------------------------------------------------------------------------
(* The field-order swap, SPEC 6.2: sequence, machine ID, timestamp. *)

TsSpan == TS_MASK + 1

(* Mutant: the fields keep their order. *)
transform_Plain(id) == id

transform(id) == (sequence(id) * MidSpan + machine_id(id)) * TsSpan + timestamp(id)

untransform(v) ==
  from_parts_unchecked(v % TsSpan, (v \div TsSpan) % MidSpan,
                       (v \div TsSpan) \div MidSpan)

(* Mutant: the digits are not reversed. *)
encode_into_Backwards(v) ==
  LET remainders[n \in Nat] == IF n < BASE THEN <<n>>
                               ELSE <<n % BASE>> \o remainders[n \div BASE]
  IN  remainders[v]

(* The digits of a number, by repeated division, most significant first. *)
digits[n \in Nat] == IF n < BASE THEN <<n>>
                     ELSE Append(digits[n \div BASE], n % BASE)

encode_into(v) == digits[v]

encode(id) == encode_into(transform(id))

(* "2^63 - 1 needs 11 base62 digits" (base62.rs:7): the buffer is long enough. *)
ASSUME BufferAssumption == Len(encode_into(MaxId)) <= MAX_LEN

Err(e) == [error |-> e, value |-> NULL, index |-> NULL]

(* Mutant: wrapping instead of checked arithmetic. *)
read_digit_Wrapping(r, c) ==
  IF r.error # "none" THEN r
  ELSE IF c = INVALID THEN [r EXCEPT !.error = "InvalidCharacter", !.value = NULL]
  ELSE [r EXCEPT !.value = (@ * BASE + c) % WORD, !.index = @ + 1]

(* One turn of the loop of decode_str; the first error ends it. *)
read_digit(r, c) ==
  IF r.error # "none" THEN r
  ELSE IF c = INVALID THEN [r EXCEPT !.error = "InvalidCharacter", !.value = NULL]
  ELSE IF r.value * BASE + c >= WORD THEN Err("Overflow")
  ELSE [r EXCEPT !.value = @ * BASE + c, !.index = @ + 1]

(* Mutant: the largest ID is taken for an overflow. *)
in_range_Strict(r) ==
  IF r.error = "none" /\ r.value >= MaxId THEN Err("Overflow") ELSE r

(* The final check, v > i64::MAX. *)
in_range(r) ==
  IF r.error = "none" /\ r.value > MaxId THEN Err("Overflow") ELSE r

(* The loop of decode_str over the characters of s. *)
reading[s \in Seq(Chars)] ==
  IF s = <<>> THEN [error |-> "none", value |-> 0, index |-> 0]
  ELSE read_digit(reading[Front(s)], Last(s))

decode_str(s) ==
  IF s = <<>> THEN Err("Empty")
  ELSE IF Len(s) > MAX_LEN THEN Err("TooLong")
  ELSE IF Len(s) > 1 /\ s[1] = 0 THEN Err("NonCanonical")
  ELSE in_range(reading[s])

(* Id::decode. *)
decode(s) ==
  LET r == decode_str(s)
  IN  IF r.error = "none" THEN [r EXCEPT !.value = untransform(@)] ELSE r

-----------------------------------------------------------------------------
(* The integer forms, id.rs:88-104 and 171-200. *)

Ok(id) == [error |-> "none", value |-> id, index |-> NULL]

(* The cast `as i64` of a word, and `as u64` back. *)
to_i64(v) == IF v < WORD \div 2 THEN v ELSE v - WORD
to_u64(i) == i % WORD

as_i64(id) == to_i64(id)

from_u64(v) == IF v >= WORD \div 2 THEN Err("SignBitSet") ELSE Ok(v)

(* TryFrom<i64>, what sqlx decodes a column with. *)
try_from_i64(i) == IF i < 0 THEN Err("SignBitSet") ELSE Ok(i)

(* Id::from_parts, of a machine ID that MachineId::new has accepted. *)
from_parts(ts, mid, seq) ==
  IF mid > MID_MASK THEN Err("MachineIdOutOfRange")
  ELSE IF ts > TS_MASK THEN Err("TimestampOutOfRange")
  ELSE IF seq > SEQ_MASK THEN Err("SequenceOutOfRange")
  ELSE Ok(from_parts_unchecked(ts, mid, seq))

-----------------------------------------------------------------------------
(* An ID in each of its forms ... *)
Written(id) == [text  |-> encode(id),
                u64   |-> <<id>>,
                i64   |-> <<as_i64(id)>>,
                parts |-> <<timestamp(id), machine_id(id), sequence(id)>>]

(* ... and what the program makes of a form. *)
Outcome(f, h) == CASE f = "text"  -> decode(h)
                   [] f = "u64"   -> from_u64(h[1])
                   [] f = "i64"   -> try_from_i64(h[1])
                   [] f = "parts" -> from_parts(h[1], h[2], h[3])

Forms == {"text", "u64", "i64", "parts"}

(* Everything of a form, up to one past the end of each field. *)
MadeUp(f) == CASE f = "text"  -> SeqOf(Chars, MaxText)
               [] f = "u64"   -> {<<v>> : v \in 0 .. WORD - 1}
               [] f = "i64"   -> {<<i>> : i \in -(WORD \div 2) .. WORD \div 2 - 1}
               [] f = "parts" -> (0 .. TS_MASK + 1) \X (0 .. MID_MASK + 1)
                                                    \X (0 .. SEQ_MASK + 1)

Init == form = "none" /\ hand = <<>> /\ source = NULL /\ result = NoResult

(* encode, Serialize, as_u64, sqlx::Encode, the accessors. *)
Write == /\ form = "none"
         /\ form' \in Forms
         /\ source' \in Ids
         /\ hand' = Written(source')[form']
         /\ result' = NoResult

(* Somebody types, mistypes or truncates a text, or computes a number. *)
MakeUp == /\ form = "none"
          /\ form' \in Forms
          /\ hand' \in MadeUp(form')
          /\ source' = NULL
          /\ result' = NoResult

(* Somebody casts an integer to the other integer type. *)
Cast == /\ \/ form = "u64" /\ form' = "i64" /\ hand' = <<to_i64(hand[1])>>
           \/ form = "i64" /\ form' = "u64" /\ hand' = <<to_u64(hand[1])>>
        /\ result' = NoResult
        /\ UNCHANGED source

(* decode, Deserialize, from_u64, sqlx::Decode, from_parts. *)
Read == /\ form # "none"
        /\ result' = Outcome(form, hand)
        /\ UNCHANGED <<form, hand, source>>

Next == Write \/ MakeUp \/ Cast \/ Read

Spec == Init /\ [][Next]_vars

-----------------------------------------------------------------------------
(* Properties. *)

Accepted == result.error = "none" /\ result.value # NULL

WasRead == result # NoResult

(* "Decoding is the exact inverse of encoding" (SPEC 6.3) for every ID and *)
(* every form, the largest ID included, and an integer may change its      *)
(* signedness on the way ("a zero sign bit", SPEC 1): nothing that an ID   *)
(* was written as is refused or misread.                                   *)
RoundTrip == source # NULL /\ WasRead => Accepted /\ result.value = source

(* Forms are canonical (SPEC 6.3, id.rs:118-122; for integers 99-104 and   *)
(* 194-199): a form is accepted only if it is the very one in which the ID *)
(* it denotes would be written, so that no two texts, integers or triples  *)
(* name one ID, and no overflow of a word or of a field goes unseen.       *)
OneFormPerId ==
  Accepted => result.value \in Ids /\ hand = Written(result.value)[form]

(* The number that digits denote. *)
number[s \in Seq(Chars)] ==
  IF s = <<>> THEN 0 ELSE number[Front(s)] * BASE + Last(s)

(* The number that the first k characters denote. *)
Denoted(k) == number[SubSeq(hand, 1, k)]

(* A refusal tells the truth (base62.rs:39-65, id.rs:44-49 and 99-104):    *)
(* the invalid character it points at is the first one, Overflow is        *)
(* reported for no text whose digits are those of an ID, and a field or a  *)
(* sign is called wrong only where putting it right could help.            *)
RefusalsAreTrue ==
  /\ result.error = "InvalidCharacter" =>
       /\ hand[result.index + 1] = INVALID
       /\ \A i \in 1 .. result.index : hand[i] # INVALID
  /\ result.error = "Overflow" =>
       \E k \in 1 .. Len(hand) : /\ \A i \in 1 .. k : hand[i] # INVALID
                                 /\ Denoted(k) > MaxId
  /\ result.error = "SignBitSet" => form \in {"u64", "i64"} /\ hand[1] \notin Ids
  /\ result.error = "TimestampOutOfRange" => hand[1] > timestamp(MaxId)
  /\ result.error = "SequenceOutOfRange"  => hand[3] > sequence(MaxId)
  /\ result.error = "MachineIdOutOfRange" => hand[2] > machine_id(MaxId)

(* "The string length is a deterministic function of the sequence, machine *)
(* ID, and date, in that order of dominance" (SPEC 6.4): an ID that comes  *)
(* first in that order never has the longer text.                          *)
EarlierIsNoLonger ==
  source # NULL /\ form = "text" =>
    \A id \in Ids :
      \/ sequence(id) > sequence(source)
      \/ sequence(id) = sequence(source) /\ machine_id(id) > machine_id(source)
      \/ /\ sequence(id) = sequence(source)
         /\ machine_id(id) = machine_id(source)
         /\ timestamp(id) > timestamp(source)
      \/ Len(encode(id)) <= Len(hand)
=============================================================================
