--------------------------- MODULE IdLayout_proofs --------------------------
(* What the ID layout guarantees for fields of any width: the fields can   *)
(* be read back, and numeric order is the lexicographic order of the       *)
(* fields, timestamp first.                                                *)
EXTENDS IdLayout, TLAPS

(* Two facts of arithmetic. *)
LEMMA MulMono == \A a, b, k \in Nat : a < b => a * k + k <= b * k
<1>1. \A a, b, k \in Nat : a <= b => a * k <= b * k
  OBVIOUS
<1> TAKE a, b, k \in Nat
<1> HAVE a < b
<1>2. (a + 1) * k <= b * k
  BY <1>1
<1>3. (a + 1) * k = a * k + k
  OBVIOUS
<1> QED BY <1>2, <1>3

LEMMA DivMod ==
  \A a, s \in Nat, m \in Nat \ {0} :
    s < m => (a * m + s) \div m = a /\ (a * m + s) % m = s
  OBVIOUS

(* The spans are positive. *)
LEMMA Spans == /\ SeqSpan \in Nat \ {0}
               /\ MidSpan \in Nat \ {0}
  BY LayoutAssumption DEF SeqSpan, MidSpan

(* An ID assembled from fields in range is an ID, and timestamp(),         *)
(* machine_id() and sequence() read the fields back (id.rs:58-79).         *)
THEOREM FieldsRoundTrip ==
  ASSUME NEW ts \in 0 .. TS_MASK, NEW mid \in 0 .. MID_MASK,
         NEW seq \in 0 .. SEQ_MASK
  PROVE  LET id == from_parts_unchecked(ts, mid, seq)
         IN  /\ id \in Ids
             /\ timestamp(id) = ts
             /\ machine_id(id) = mid
             /\ sequence(id) = seq
<1> DEFINE hi == ts * MidSpan + mid
<1>1. /\ ts \in Nat /\ mid \in Nat /\ seq \in Nat
      /\ ts < TS_MASK + 1 /\ mid < MidSpan /\ seq < SeqSpan
  BY LayoutAssumption DEF MidSpan, SeqSpan
<1>2. hi \in Nat
  BY <1>1, Spans
<1>3. hi \div MidSpan = ts /\ hi % MidSpan = mid
  BY <1>1, Spans, DivMod
<1>4. (hi * SeqSpan + seq) \div SeqSpan = hi /\ (hi * SeqSpan + seq) % SeqSpan = seq
  <2> HIDE DEF hi
  <2> QED BY <1>1, <1>2, Spans, DivMod
<1>5. hi < (TS_MASK + 1) * MidSpan
  <2>1. ts * MidSpan + MidSpan <= (TS_MASK + 1) * MidSpan
    BY <1>1, Spans, LayoutAssumption, MulMono
  <2>2. ts * MidSpan \in Nat /\ (TS_MASK + 1) * MidSpan \in Nat
    BY <1>1, Spans, LayoutAssumption
  <2> QED BY <1>1, <2>1, <2>2, Spans
<1>6. hi * SeqSpan + seq \in Ids
  <2>1. (TS_MASK + 1) * MidSpan \in Nat
    BY Spans, LayoutAssumption
  <2> DEFINE top == (TS_MASK + 1) * MidSpan
  <2> HIDE DEF hi, top
  <2>2. hi * SeqSpan + SeqSpan <= top * SeqSpan
    BY <1>2, <1>5, <2>1, Spans, MulMono DEF top
  <2>3. hi * SeqSpan \in Nat /\ top * SeqSpan \in Nat
    BY <1>2, <2>1, Spans DEF top
  <2>4. hi * SeqSpan + seq \in 0 .. top * SeqSpan - 1
    BY <1>1, <2>2, <2>3, Spans
  <2> QED BY <2>4 DEF Ids, MaxId, top
<1> QED BY <1>3, <1>4, <1>6
         DEF from_parts_unchecked, timestamp, machine_id, sequence

(* "Numeric ordering is time ordering" (id.rs:22-23): an ID of a later     *)
(* window is larger, whatever machines and sequence numbers are involved.  *)
THEOREM TimeOrder ==
  ASSUME NEW ts1 \in Nat, NEW ts2 \in Nat, ts1 < ts2,
         NEW mid1 \in 0 .. MID_MASK, NEW mid2 \in 0 .. MID_MASK,
         NEW seq1 \in 0 .. SEQ_MASK, NEW seq2 \in 0 .. SEQ_MASK
  PROVE  from_parts_unchecked(ts1, mid1, seq1)
           < from_parts_unchecked(ts2, mid2, seq2)
<1> DEFINE hi1 == ts1 * MidSpan + mid1
           hi2 == ts2 * MidSpan + mid2
<1>1. /\ mid1 \in Nat /\ mid2 \in Nat /\ seq1 \in Nat /\ seq2 \in Nat
      /\ mid1 < MidSpan /\ seq1 < SeqSpan
  BY LayoutAssumption DEF MidSpan, SeqSpan
<1>2. ts1 * MidSpan + MidSpan <= ts2 * MidSpan
  BY Spans, MulMono
<1>3. hi1 \in Nat /\ hi2 \in Nat /\ hi1 < hi2
  <2>1. ts1 * MidSpan \in Nat /\ ts2 * MidSpan \in Nat
    BY Spans
  <2> QED BY <1>1, <1>2, <2>1, Spans
<1>4. hi1 * SeqSpan + seq1 < hi2 * SeqSpan + seq2
  <2> HIDE DEF hi1, hi2
  <2>1. hi1 * SeqSpan + SeqSpan <= hi2 * SeqSpan
    BY <1>3, Spans, MulMono
  <2>2. hi1 * SeqSpan \in Nat /\ hi2 * SeqSpan \in Nat
    BY <1>3, Spans
  <2> QED BY <1>1, <2>1, <2>2, Spans
<1> QED BY <1>4 DEF from_parts_unchecked
=============================================================================
