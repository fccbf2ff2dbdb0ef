------------------------------ MODULE IdLayout ------------------------------
(***************************************************************************)
(* The 63-bit layout of a Snowdrop ID, snowdrop-id/src/id.rs: timestamp    *)
(* (31 bits), machine ID (10 bits), sequence (22 bits), most significant   *)
(* first.  Shifts by a field width are multiplications by the number of    *)
(* values of the field, `|` of disjoint fields is an addition; the widths  *)
(* are parameters, so that a small layout can be model-checked and every   *)
(* layout proved about.                                                    *)
(***************************************************************************)
EXTENDS Integers

CONSTANTS TS_MASK,    \* largest timestamp (2^31 - 1 in the source)
          MID_MASK,   \* largest machine ID (2^10 - 1)
          SEQ_MASK    \* largest sequence number (2^22 - 1)

ASSUME LayoutAssumption == /\ TS_MASK \in Nat
                           /\ MID_MASK \in Nat
                           /\ SEQ_MASK \in Nat

(* 1 << SEQ_BITS and 1 << MID_BITS. *)
SeqSpan == SEQ_MASK + 1
MidSpan == MID_MASK + 1

(* Id::MAX, the largest value with bit 63 clear. *)
MaxId == (TS_MASK + 1) * MidSpan * SeqSpan - 1

Ids == 0 .. MaxId

from_parts_unchecked(ts, mid, seq) == (ts * MidSpan + mid) * SeqSpan + seq

timestamp(id)  == (id \div SeqSpan) \div MidSpan
machine_id(id) == (id \div SeqSpan) % MidSpan
sequence(id)   == id % SeqSpan
=============================================================================
