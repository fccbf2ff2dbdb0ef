--------------------------- MODULE IdCodec_proofs ---------------------------
(***************************************************************************)
(* Theorems about IdCodec for any field widths, base and word: the swap of *)
(* the fields is a permutation of the IDs; decode undoes encode and takes  *)
(* nothing but what encode writes; and so for every form of an ID, whoever *)
(* writes, casts or makes it up.  Recursive functions on numbers and on    *)
(* texts are got hold of by smallest counterexamples (Least, Recursion).   *)
(***************************************************************************)
EXTENDS IdCodec, IdLayout_proofs, SequenceTheorems, WellFoundedInduction

(* Three digits of mixed radix can be read back ... *)
LEMMA ReadBack ==
  ASSUME NEW a \in Nat, NEW b \in Nat, NEW c \in Nat,
         NEW B \in Nat \ {0}, NEW C \in Nat \ {0}, b < B, c < C
  PROVE  LET v == (a * B + b) * C + c
         IN  /\ v \in Nat
             /\ v % C = c
             /\ (v \div C) % B = b
             /\ (v \div C) \div B = a
<1> DEFINE hi == a * B + b
<1>1. hi \in Nat /\ hi \div B = a /\ hi % B = b
  BY DivMod
<1> HIDE DEF hi
<1>2. (hi * C + c) \div C = hi /\ (hi * C + c) % C = c /\ hi * C + c \in Nat
  BY <1>1, DivMod
<1> QED BY <1>1, <1>2 DEF hi

(* ... and put together again, ... *)
LEMMA PutTogether ==
  ASSUME NEW v \in Nat, NEW B \in Nat \ {0}, NEW C \in Nat \ {0}
  PROVE  /\ (v \div C) \div B \in Nat
         /\ (v \div C) % B \in Nat /\ (v \div C) % B < B
         /\ v % C \in Nat /\ v % C < C
         /\ (((v \div C) \div B) * B + ((v \div C) % B)) * C + (v % C) = v
<1>1. v \div C \in Nat /\ v % C \in Nat /\ v % C < C /\ (v \div C) * C + (v % C) = v
  OBVIOUS
<1> DEFINE q == v \div C
<1> HIDE DEF q
<1>2. q \in Nat
  BY <1>1 DEF q
<1>3. /\ q \div B \in Nat /\ q % B \in Nat /\ q % B < B
      /\ (q \div B) * B + (q % B) = q
  BY <1>2
<1> QED BY <1>1, <1>3 DEF q

(* ... and the leading one is bounded by the whole. *)
LEMMA Bounded ==
  ASSUME NEW a \in Nat, NEW b \in Nat, NEW c \in Nat, NEW A \in Nat \ {0},
         NEW B \in Nat \ {0}, NEW C \in Nat \ {0}, b < B, c < C
  PROVE  (a * B + b) * C + c < A * B * C <=> a < A
<1> DEFINE hi == a * B + b
           top == A * B
<1>1. hi \in Nat /\ top \in Nat /\ a * B \in Nat
  OBVIOUS
<1>2. hi < top <=> a < A
  <2>1. a < A => a * B + B <= A * B
    BY MulMono
  <2>2. A <= a => A * B <= a * B
    OBVIOUS
  <2> QED BY <1>1, <2>1, <2>2
<1> HIDE DEF hi, top
<1>3. hi * C + c < top * C <=> hi < top
  <2>1. hi < top => hi * C + C <= top * C
    BY <1>1, MulMono
  <2>2. top <= hi => top * C <= hi * C
    BY <1>1
  <2>3. hi * C \in Nat /\ top * C \in Nat
    BY <1>1
  <2>4. hi < top => hi * C + c < top * C
    BY <2>1, <2>3
  <2>5. top <= hi => top * C <= hi * C + c
    BY <2>2, <2>3
  <2>6. top * C <= hi * C + c => ~(hi * C + c < top * C)
    BY <2>3
  <2> QED BY <1>1, <2>4, <2>5, <2>6
<1> QED BY <1>2, <1>3 DEF hi, top

LEMMA CodecSpans ==
  /\ TsSpan \in Nat \ {0} /\ MidSpan \in Nat \ {0} /\ SeqSpan \in Nat \ {0}
  /\ Ids = {v \in Nat : v < TsSpan * MidSpan * SeqSpan}
  /\ Ids = {v \in Nat : v < SeqSpan * MidSpan * TsSpan}
<1>1. TsSpan \in Nat \ {0} /\ MidSpan \in Nat \ {0} /\ SeqSpan \in Nat \ {0}
  BY LayoutAssumption, Spans DEF TsSpan
<1>2. /\ TsSpan * MidSpan * SeqSpan \in Nat
      /\ TsSpan * MidSpan * SeqSpan = SeqSpan * MidSpan * TsSpan
  BY <1>1
<1>3. MaxId = TsSpan * MidSpan * SeqSpan - 1
  BY DEF MaxId, TsSpan
<1> QED BY <1>1, <1>2, <1>3 DEF Ids

(* untransform undoes transform, which maps IDs to IDs (id.rs:129-141,     *)
(* SPEC 6.3): nothing is lost on the way to the base62 value, and the      *)
(* value has its top bit clear, as decode_str demands.                     *)
THEOREM UntransformTransform ==
  ASSUME NEW id \in Ids
  PROVE  transform(id) \in Ids /\ untransform(transform(id)) = id
<1> DEFINE ts == timestamp(id)  mid == machine_id(id)  seq == sequence(id)
<1>1. /\ ts \in Nat /\ mid \in Nat /\ mid < MidSpan /\ seq \in Nat /\ seq < SeqSpan
      /\ (ts * MidSpan + mid) * SeqSpan + seq = id
  BY CodecSpans, PutTogether DEF timestamp, machine_id, sequence
<1> HIDE DEF ts, mid, seq
<1>2. ts < TsSpan
  BY <1>1, CodecSpans, Bounded
<1>3. LET v == (seq * MidSpan + mid) * TsSpan + ts
      IN  /\ v \in Nat /\ v < SeqSpan * MidSpan * TsSpan
          /\ v % TsSpan = ts
          /\ (v \div TsSpan) % MidSpan = mid
          /\ (v \div TsSpan) \div MidSpan = seq
  BY <1>1, <1>2, CodecSpans, Bounded, ReadBack
<1>4. transform(id) = (seq * MidSpan + mid) * TsSpan + ts
  BY DEF transform, ts, mid, seq
<1> QED BY <1>1, <1>3, <1>4, CodecSpans DEF untransform, from_parts_unchecked

(* And transform undoes untransform: two base62 values never denote the    *)
(* same ID, so a canonical text is the only text of its ID.                *)
THEOREM TransformUntransform ==
  ASSUME NEW v \in Ids
  PROVE  untransform(v) \in Ids /\ transform(untransform(v)) = v
<1> DEFINE ts == v % TsSpan  mid == (v \div TsSpan) % MidSpan
           seq == (v \div TsSpan) \div MidSpan
<1>1. /\ seq \in Nat /\ mid \in Nat /\ mid < MidSpan /\ ts \in Nat /\ ts < TsSpan
      /\ (seq * MidSpan + mid) * TsSpan + ts = v
  BY CodecSpans, PutTogether
<1> HIDE DEF ts, mid, seq
<1>2. seq < SeqSpan
  BY <1>1, CodecSpans, Bounded
<1>3. LET id == (ts * MidSpan + mid) * SeqSpan + seq
      IN  /\ id \in Nat /\ id < TsSpan * MidSpan * SeqSpan
          /\ id % SeqSpan = seq
          /\ (id \div SeqSpan) % MidSpan = mid
          /\ (id \div SeqSpan) \div MidSpan = ts
  BY <1>1, <1>2, CodecSpans, Bounded, ReadBack
<1>4. untransform(v) = (ts * MidSpan + mid) * SeqSpan + seq
  BY DEF untransform, from_parts_unchecked, ts, mid, seq
<1> QED BY <1>1, <1>3, <1>4, CodecSpans DEF transform, timestamp, machine_id, sequence

(* An ID keeps its value and its place in the order as a u64 and as the    *)
(* i64 of a BIGINT column (id.rs:88-104, sqlx_support.rs), and a word is   *)
(* accepted as the one exactly if its cast is accepted as the other: an    *)
(* index on the column orders rows as the IDs were issued.                 *)
THEOREM IntegerForms ==
  /\ \A id \in Ids : /\ from_u64(id) = Ok(id)
                     /\ try_from_i64(as_i64(id)) = Ok(id)
  /\ \A id, jd \in Ids : id < jd <=> as_i64(id) < as_i64(jd)
  /\ \A v \in 0 .. WORD - 1 : try_from_i64(to_i64(v)) = from_u64(v)
  /\ \A v \in 0 .. WORD - 1 : to_u64(to_i64(v)) = v
<1> DEFINE H == MaxId + 1
<1>1. H \in Nat \ {0} /\ WORD = 2 * H /\ MaxId \in Nat
  <2>1. \A a, b \in Nat \ {0} : a * b \in Nat \ {0}
    OBVIOUS
  <2>2. TsSpan * MidSpan * SeqSpan \in Nat \ {0}
    BY <2>1, CodecSpans
  <2> QED BY <2>2, CodecAssumption DEF MaxId, TsSpan
<1>2. WORD \div 2 = H
  BY <1>1
<1>3. Ids = 0 .. H - 1
  BY <1>1 DEF Ids
<1> HIDE DEF H
<1>4. \A v \in 0 .. WORD - 1 : to_i64(v) = IF v < H THEN v ELSE v - 2 * H
  BY <1>1, <1>2 DEF to_i64
<1>5. \A id \in Ids : id \in 0 .. WORD - 1 /\ as_i64(id) = id /\ id < H
  BY <1>1, <1>3, <1>4 DEF as_i64
<1>6. \A v \in 0 .. WORD - 1 : try_from_i64(to_i64(v)) = from_u64(v)
  BY <1>1, <1>2, <1>4 DEF try_from_i64, from_u64
<1>7. \A v \in 0 .. WORD - 1 : to_u64(to_i64(v)) = v
  BY <1>1, <1>4 DEF to_u64
<1>8. \A id \in Ids : from_u64(id) = Ok(id) /\ try_from_i64(as_i64(id)) = Ok(id)
  BY <1>1, <1>2, <1>3, <1>5 DEF from_u64, try_from_i64
<1> QED BY <1>5, <1>6, <1>7, <1>8
-----------------------------------------------------------------------------
(* Induction over data, in sets: a set of what has a size has a smallest   *)
(* member, ...                                                             *)
LEMMA Least ==
  ASSUME NEW T \in SUBSET Nat, T # {}
  PROVE  \E n \in T : \A k \in T : n <= k
<1> DEFINE R == {ss \in Nat \X Nat : ss[1] < ss[2]}
<1>1. IsWellFoundedOn(R, Nat)
  BY NatLessThanWellFounded, Zenon DEF OpToRel
<1>2. PICK n \in T : \A k \in T : <<k, n>> \notin R
  BY <1>1, WFMin
<1>3. ASSUME NEW k \in T PROVE n <= k
  <2>1. n \in Nat /\ k \in Nat /\ <<k, n>> \notin R
    BY <1>2
  <2>2. ~(k < n)
    BY <2>1
  <2> QED BY <2>1, <2>2
<1> QED BY <1>3

LEMMA Smallest ==
  ASSUME NEW D, NEW size \in [D -> Nat], NEW T \in SUBSET D, T # {}
  PROVE  \E d \in T : \A e \in T : size[d] <= size[e]
<1> DEFINE S == {size[d] : d \in T}
<1>1. S \in SUBSET Nat /\ S # {}
  OBVIOUS
<1>2. PICK n \in S : \A k \in S : n <= k
  <2> HIDE DEF S
  <2> QED BY <1>1, Least
<1> QED BY <1>2

(* ... and a function may be defined by recursion to what is smaller.      *)
Recursive(f, D, leaf, base, down, step) ==
  \A d \in D : f[d] = IF d \in leaf THEN base[d] ELSE step[<<d, f[down[d]]>>]

LEMMA Recursion ==
  ASSUME NEW D, NEW X, NEW size \in [D -> Nat], NEW leaf \in SUBSET D,
         NEW base \in [D -> X], NEW down \in [D -> D], NEW step \in [D \X X -> X],
         \A d \in D \ leaf : size[down[d]] < size[d]
  PROVE  \E f \in [D -> X] : Recursive(f, D, leaf, base, down, step)
<1> DEFINE Below(n) == {d \in D : size[d] < n}
           Good(g, n) == /\ g \in [Below(n) -> X]
                         /\ \A d \in Below(n) :
                              g[d] = IF d \in leaf THEN base[d]
                                     ELSE step[<<d, g[down[d]]>>]
<1>1. \A n \in Nat : \E g : Good(g, n)
  <2> DEFINE Bad == {n \in Nat : ~\E g : Good(g, n)}
  <2> SUFFICES ASSUME Bad # {} PROVE FALSE
    OBVIOUS
  <2>1. PICK n \in Bad : \A k \in Bad : n <= k
    <3>1. Bad \in SUBSET Nat
      OBVIOUS
    <3> HIDE DEF Bad
    <3> QED BY <3>1, Least
  <2>2. n \in Nat /\ n # 0
    <3>1. Below(0) = {}
      OBVIOUS
    <3>2. Good([d \in {} |-> d], 0)
      BY <3>1
    <3>3. ~\E g : Good(g, n)
      BY <2>1
    <3> HIDE DEF Good
    <3> QED BY <3>2, <3>3
  <2>3. PICK g : Good(g, n - 1)
    <3>1. n - 1 \in Nat /\ n - 1 \notin Bad
      <4> HIDE DEF Bad
      <4> QED BY <2>1, <2>2
    <3> HIDE DEF Good
    <3> QED BY <3>1
  <2> DEFINE h == [d \in Below(n) |-> IF d \in leaf THEN base[d]
                                      ELSE step[<<d, g[down[d]]>>]]
  <2>4. \A d \in Below(n) \ leaf : down[d] \in Below(n - 1)
    BY <2>2
  <2>5. \A d \in Below(n - 1) : d \in Below(n) /\ h[d] = g[d]
    BY <2>3, <2>2
  <2>6. h \in [Below(n) -> X]
    <3> SUFFICES ASSUME NEW d \in Below(n)
                 PROVE  (IF d \in leaf THEN base[d] ELSE step[<<d, g[down[d]]>>]) \in X
      OBVIOUS
    <3>1. CASE d \in leaf
      BY <3>1
    <3>2. CASE d \notin leaf
      <4>1. g[down[d]] \in X
        BY <2>3, <2>4, <3>2
      <4> QED BY <3>2, <4>1
    <3> QED BY <3>1, <3>2
  <2>7. Good(h, n)
    BY <2>4, <2>5, <2>6
  <2> QED BY <2>1, <2>7
<1>2. ASSUME NEW m \in Nat, NEW n \in Nat, NEW g, NEW h, Good(g, m), Good(h, n)
      PROVE  \A d \in Below(m) \cap Below(n) : g[d] = h[d]
  <2> DEFINE Bad == {d \in Below(m) \cap Below(n) : g[d] # h[d]}
  <2> SUFFICES ASSUME Bad # {} PROVE FALSE
    OBVIOUS
  <2>1. PICK d \in Bad : \A e \in Bad : size[d] <= size[e]
    <3>1. Bad \in SUBSET D
      OBVIOUS
    <3> HIDE DEF Bad
    <3> QED BY <3>1, Smallest
  <2>2. d \notin leaf
    BY <1>2, <2>1
  <2>3. size[down[d]] < size[d] /\ down[d] \in D /\ size[down[d]] \in Nat
        /\ size[d] \in Nat
    BY <2>2
  <2>4. down[d] \in Below(m) \cap Below(n)
    BY <2>1, <2>3
  <2>5. g[down[d]] = h[down[d]]
    BY <2>1, <2>3, <2>4
  <2> QED BY <1>2, <2>1, <2>2, <2>5
<1> DEFINE G(d) == CHOOSE g : Good(g, size[d] + 1)
           f == [d \in D |-> G(d)[d]]
<1>3. \A d \in D : Good(G(d), size[d] + 1) /\ d \in Below(size[d] + 1)
  <2> TAKE d \in D
  <2>1. size[d] + 1 \in Nat
    OBVIOUS
  <2>2. \E g : Good(g, size[d] + 1)
    BY <1>1, <2>1
  <2> HIDE DEF Good
  <2>3. Good(G(d), size[d] + 1)
    BY <2>2
  <2> QED BY <2>3
<1> HIDE DEF G
<1>4. \A d \in D : f[d] \in X
  BY <1>3
<1>5. ASSUME NEW d \in D
      PROVE  f[d] = IF d \in leaf THEN base[d] ELSE step[<<d, f[down[d]]>>]
  <2>1. CASE d \in leaf
    BY <1>3, <2>1
  <2>2. CASE d \notin leaf
    <3>1. /\ down[d] \in D /\ down[d] \in Below(size[d] + 1)
          /\ size[d] + 1 \in Nat /\ size[down[d]] + 1 \in Nat
      BY <2>2
    <3>2. Good(G(d), size[d] + 1) /\ Good(G(down[d]), size[down[d]] + 1)
      BY <1>3, <3>1
    <3>3. G(d)[down[d]] = G(down[d])[down[d]]
      <4>1. down[d] \in Below(size[d] + 1) \cap Below(size[down[d]] + 1)
        BY <1>3, <3>1
      <4> HIDE DEF Good, Below
      <4> QED BY <1>2, <3>1, <3>2, <4>1
    <3>4. G(d)[d] = step[<<d, G(d)[down[d]]>>]
      BY <1>3, <2>2
    <3> HIDE DEF Good, Below
    <3> QED BY <2>2, <3>1, <3>3, <3>4
  <2> QED BY <2>1, <2>2
<1>6. f \in [D -> X]
  BY <1>4
<1> HIDE DEF f
<1> QED BY <1>5, <1>6 DEF Recursive
-----------------------------------------------------------------------------
(* Digits. *)

LEMMA Numbers == /\ BASE \in Nat /\ BASE >= 2 /\ MAX_LEN \in Nat
                 /\ WORD \in Nat /\ MaxId \in Nat /\ MaxId < WORD
                 /\ \A id \in Ids : id \in Nat /\ id <= MaxId
                 /\ Ids = 0 .. MaxId
<1>1. \A a, b \in Nat \ {0} : a * b \in Nat \ {0}
  OBVIOUS
<1>2. TsSpan * MidSpan * SeqSpan \in Nat \ {0}
  BY <1>1, CodecSpans
<1>3. MaxId \in Nat
  BY <1>2 DEF MaxId, TsSpan
<1> QED BY <1>3, CodecAssumption DEF Ids

(* A number's last digit and what is before it. *)
Unit(n) == n % BASE
Rest(n) == n \div BASE
Values  == 0 .. BASE - 1

LEMMA Division ==
  ASSUME NEW n \in Nat
  PROVE  /\ Rest(n) \in Nat /\ Unit(n) \in Values
         /\ n = Rest(n) * BASE + Unit(n)
         /\ ~(n < BASE) => Rest(n) < n /\ Rest(n) # 0
<1>1. /\ n \div BASE \in Nat /\ n % BASE \in 0 .. BASE - 1
      /\ n = (n \div BASE) * BASE + (n % BASE)
  BY Numbers
<1> DEFINE q == n \div BASE  r == n % BASE
<1> HIDE DEF q, r
<1>2. q \in Nat /\ r \in 0 .. BASE - 1 /\ n = q * BASE + r
  BY <1>1 DEF q, r
<1>3. n >= BASE => q # 0
  BY <1>2, Numbers
<1>4. q # 0 => q * BASE >= q * 2
  BY <1>2, Numbers
<1>5. q * BASE \in Nat
  BY <1>2, Numbers
<1>6. n >= BASE => q < n
  BY <1>2, <1>3, <1>4, <1>5
<1>7. ~(n < BASE) => n >= BASE
  BY Numbers
<1> QED BY <1>1, <1>3, <1>6, <1>7 DEF q, Unit, Rest, Values

LEMMA Quotient ==
  ASSUME NEW n \in Nat
  PROVE  /\ Rest(n) \in Nat /\ Unit(n) \in Values
         /\ ~(n < BASE) => Rest(n) < n /\ Rest(n) # 0
  BY Division, Zenon

LEMMA DigitsOf ==
  /\ digits \in [Nat -> Seq(Values)]
  /\ \A n \in Nat : digits[n] = IF n < BASE THEN <<n>>
                                  ELSE Append(digits[Rest(n)], Unit(n))
<1> DEFINE D == Nat
           X == Seq(Values)
           size == [n \in Nat |-> n]
           leaf == {n \in Nat : n < BASE}
           base == [n \in Nat |-> IF n < BASE THEN <<n>> ELSE <<>>]
           down == [n \in Nat |-> Rest(n)]
           step == [x \in Nat \X Seq(Values) |-> Append(x[2], Unit(x[1]))]
<1>1. size \in [D -> Nat] /\ leaf \in SUBSET D
  OBVIOUS
<1>2. base \in [D -> X]
  <2>1. \A n \in Nat : n < BASE => n \in Values
    BY Numbers DEF Values
  <2> QED BY <2>1
<1>3. down \in [D -> D]
  BY Quotient
<1>4. step \in [D \X X -> X]
  <2>1. \A n \in Nat, s \in Seq(Values) : Append(s, Unit(n)) \in Seq(Values)
    BY Quotient
  <2> QED BY <2>1
<1>5. \A n \in D \ leaf : size[down[n]] < size[n]
  <2> SUFFICES ASSUME NEW n \in Nat, ~(n < BASE) PROVE Rest(n) \in Nat /\ Rest(n) < n
    OBVIOUS
  <2> QED BY Quotient
<1>6. PICK f \in [D -> X] : Recursive(f, D, leaf, base, down, step)
  <2> HIDE DEF D, X, size, leaf, base, down, step
  <2> QED BY <1>1, <1>2, <1>3, <1>4, <1>5, Recursion
<1>7. \A n \in Nat : f[n] = IF n < BASE THEN <<n>> ELSE Append(f[Rest(n)], Unit(n))
  <2> TAKE n \in Nat
  <2>1. CASE n < BASE
    BY <1>6, <2>1 DEF Recursive
  <2>2. CASE ~(n < BASE)
    <3>1. Rest(n) \in Nat /\ f[Rest(n)] \in Seq(Values)
      BY Quotient, <1>6
    <3> QED BY <1>6, <2>2, <3>1 DEF Recursive
  <2> QED BY <2>1, <2>2
<1>8. f = [n \in Nat |-> IF n < BASE THEN <<n>> ELSE Append(f[Rest(n)], Unit(n))]
  BY <1>6, <1>7
<1>9. digits = [n \in Nat |-> IF n < BASE THEN <<n>>
                              ELSE Append(digits[Rest(n)], Unit(n))]
  BY <1>8 DEF digits, Rest, Unit
<1>10. \A n \in Nat : digits[n] = IF n < BASE THEN <<n>>
                                    ELSE Append(digits[Rest(n)], Unit(n))
  BY <1>9
<1>11. \A n \in Nat : digits[n] = f[n]
  <2> DEFINE Bad == {n \in Nat : digits[n] # f[n]}
  <2> SUFFICES ASSUME Bad # {} PROVE FALSE
    OBVIOUS
  <2>1. PICK n \in Bad : \A k \in Bad : n <= k
    <3>1. Bad \in SUBSET Nat
      OBVIOUS
    <3> HIDE DEF Bad
    <3> QED BY <3>1, Least
  <2>2. CASE n < BASE
    BY <1>7, <1>10, <2>1, <2>2
  <2>3. CASE ~(n < BASE)
    <3>1. Rest(n) \in Nat /\ Rest(n) < n
      BY <2>1, <2>3, Quotient
    <3>2. Rest(n) \notin Bad
      <4>1. n \in Nat
        BY <2>1
      <4> HIDE DEF Bad
      <4> QED BY <2>1, <3>1, <4>1
    <3> QED BY <1>7, <1>10, <2>1, <2>3, <3>1, <3>2
  <2> QED BY <2>2, <2>3
<1>12. digits \in [Nat -> Seq(Values)]
  BY <1>6, <1>9, <1>11
<1> QED BY <1>10, <1>12

-----------------------------------------------------------------------------
(* Texts, from the front. *)

LEMMA NatInd ==
  ASSUME NEW T, \A n \in Nat : (\A k \in Nat : k < n => k \in T) => n \in T
  PROVE  Nat \subseteq T
<1> DEFINE Bad == Nat \ T
<1> SUFFICES ASSUME Bad # {} PROVE FALSE
  OBVIOUS
<1>1. PICK n \in Bad : \A k \in Bad : n <= k
  <2>1. Bad \in SUBSET Nat
    OBVIOUS
  <2> HIDE DEF Bad
  <2> QED BY <2>1, Least
<1>2. ASSUME NEW k \in Nat, k < n PROVE k \in T
  <2>1. n \in Nat
    OBVIOUS
  <2>2. k \notin Bad
    <3> HIDE DEF Bad
    <3> QED BY <1>1, <1>2, <2>1
  <2> QED BY <2>2
<1> QED BY <1>1, <1>2

LEMMA FrontLast ==
  ASSUME NEW S, NEW s \in Seq(S), s # <<>>
  PROVE  /\ Front(s) \in Seq(S) /\ Last(s) \in S
         /\ Len(Front(s)) = Len(s) - 1
         /\ s = Append(Front(s), Last(s))
<1>1. Len(s) \in Nat \ {0} /\ \A i \in 1 .. Len(s) : s[i] \in S
  BY EmptySeq, ElementOfSeq
<1>2. /\ Front(s) \in Seq(S)
      /\ Len(Front(s)) = Len(s) - 1
      /\ \A i \in 1 .. Len(s) - 1 : Front(s)[i] = s[i]
  <2> DEFINE k == Len(s) - 1
             f == SubSeq(s, 1, k)
  <2>1. k \in Nat /\ 1 \in Int /\ k \in Int /\ \A i \in 1 .. k : s[i] \in S
    BY <1>1
  <2> HIDE DEF k
  <2>2. /\ f \in Seq(S)
        /\ Len(f) = IF 1 <= k THEN k - 1 + 1 ELSE 0
        /\ \A i \in 1 .. k - 1 + 1 : f[i] = s[1 + i - 1]
    BY <2>1, SubSeqProperties
  <2>3. Len(f) = k /\ \A i \in 1 .. k : f[i] = s[i]
    BY <2>1, <2>2
  <2>4. Front(s) = f
    BY DEF Front, k
  <2> QED BY <2>2, <2>3, <2>4 DEF k
<1>3. Last(s) = s[Len(s)] /\ Last(s) \in S
  BY <1>1 DEF Last
<1>4. s = Append(Front(s), Last(s))
  <2> DEFINE t == Append(Front(s), Last(s))
  <2>1. /\ t \in Seq(S) /\ Len(t) = Len(s)
        /\ \A i \in 1 .. Len(s) - 1 : t[i] = Front(s)[i]
        /\ t[Len(s)] = Last(s)
    BY <1>1, <1>2, <1>3, AppendProperties
  <2> HIDE DEF t
  <2>2. \A i \in 1 .. Len(s) : s[i] = t[i]
    BY <1>1, <1>2, <1>3, <2>1
  <2>3. s = t
    BY <2>1, <2>2, SeqEqual
  <2> QED BY <2>3 DEF t
<1> QED BY <1>2, <1>3, <1>4

LEMMA FrontOfAppend ==
  ASSUME NEW S, NEW s \in Seq(S), NEW e \in S
  PROVE  /\ Append(s, e) \in Seq(S) /\ Append(s, e) # <<>>
         /\ Front(Append(s, e)) = s /\ Last(Append(s, e)) = e
<1>1. Append(s, e) \in Seq(S) /\ Append(s, e) # <<>>
  BY AppendProperties
<1>2. /\ Front(Append(s, e)) \in Seq(S) /\ Last(Append(s, e)) \in S
      /\ Append(s, e) = Append(Front(Append(s, e)), Last(Append(s, e)))
  BY <1>1, FrontLast
<1> DEFINE a == Append(s, e)
<1>3. /\ Front(a) \in Seq(S) /\ Last(a) \in S
      /\ Append(s, e) = Append(Front(a), Last(a))
  BY <1>2
<1> HIDE DEF a
<1>4. s = Front(a) /\ e = Last(a)
  BY <1>3, AppendInjective
<1> QED BY <1>1, <1>4 DEF a

LEMMA SeqInd ==
  ASSUME NEW S, NEW T, <<>> \in T,
         \A s \in Seq(S), e \in S : s \in T => Append(s, e) \in T
  PROVE  Seq(S) \subseteq T
<1> DEFINE N == {n \in Nat : \A s \in Seq(S) : Len(s) = n => s \in T}
<1>1. ASSUME NEW n \in Nat, \A k \in Nat : k < n => k \in N PROVE n \in N
  <2> SUFFICES ASSUME NEW s \in Seq(S), Len(s) = n PROVE s \in T
    OBVIOUS
  <2>1. CASE s = <<>>
    BY <2>1
  <2>2. CASE s # <<>>
    <3>1. /\ Front(s) \in Seq(S) /\ Last(s) \in S
          /\ Len(Front(s)) = n - 1 /\ n - 1 \in Nat
          /\ s = Append(Front(s), Last(s))
      BY <2>2, FrontLast, EmptySeq
    <3>2. n - 1 \in N
      <4> HIDE DEF N
      <4> QED BY <1>1, <3>1
    <3>3. Front(s) \in T
      BY <3>1, <3>2
    <3> QED BY <3>1, <3>3
  <2> QED BY <2>1, <2>2
<1>2. Nat \subseteq N
  <2> HIDE DEF N
  <2> QED BY <1>1, NatInd
<1> QED BY <1>2, LenProperties

Folds(f, C, b, step) ==
  \A s \in Seq(C) : f[s] = IF s = <<>> THEN b ELSE step[<<f[Front(s)], Last(s)>>]

LEMMA SeqRecursion ==
  ASSUME NEW C, NEW X, NEW b \in X, NEW step \in [X \X C -> X]
  PROVE  \E f \in [Seq(C) -> X] : Folds(f, C, b, step)
<1> DEFINE D == Seq(C)
           size == [s \in D |-> Len(s)]
           leaf == {<<>>}
           base == [s \in D |-> b]
           down == [s \in D |-> IF s = <<>> THEN s ELSE Front(s)]
           turn == [x \in D \X X |-> IF x[1] = <<>> THEN b ELSE step[<<x[2], Last(x[1])>>]]
<1>1. size \in [D -> Nat]
  BY LenProperties
<1>2. leaf \in SUBSET D /\ base \in [D -> X]
  BY EmptySeq
<1>3. down \in [D -> D]
  BY FrontLast
<1>4. turn \in [D \X X -> X]
  <2> SUFFICES ASSUME NEW s \in D, NEW x \in X, s # <<>>
               PROVE  step[<<x, Last(s)>>] \in X
    OBVIOUS
  <2>1. Last(s) \in C
    BY FrontLast
  <2> QED BY <2>1
<1>5. \A s \in D \ leaf : size[down[s]] < size[s]
  <2> SUFFICES ASSUME NEW s \in D, s # <<>>
               PROVE  Front(s) \in D /\ Len(Front(s)) < Len(s)
    BY EmptySeq
  <2> QED BY FrontLast, LenProperties
<1>6. PICK f \in [D -> X] : Recursive(f, D, leaf, base, down, turn)
  <2> HIDE DEF D, size, leaf, base, down, turn
  <2> QED BY <1>1, <1>2, <1>3, <1>4, <1>5, Recursion
<1>7. ASSUME NEW s \in D
      PROVE  f[s] = IF s = <<>> THEN b ELSE step[<<f[Front(s)], Last(s)>>]
  <2>1. CASE s = <<>>
    BY <1>6, <2>1 DEF Recursive
  <2>2. CASE s # <<>>
    <3>1. Front(s) \in D /\ f[Front(s)] \in X
      BY <2>2, FrontLast
    <3>2. turn[<<s, f[Front(s)]>>] = step[<<f[Front(s)], Last(s)>>]
      BY <2>2, <3>1
    <3>3. f[s] = turn[<<s, f[down[s]]>>] /\ down[s] = Front(s)
      BY <1>6, <2>2 DEF Recursive
    <3> QED BY <2>2, <3>2, <3>3
  <2> QED BY <2>1, <2>2
<1> QED BY <1>7 DEF Folds

-----------------------------------------------------------------------------
(* What the loop of decode_str and the numbers of texts come to. *)

Readings == [error : {"none", "InvalidCharacter", "Overflow"}, value : Int, index : Int]

LEMMA TextTypes ==
  /\ Values \subseteq Chars /\ Chars \subseteq Nat /\ INVALID \in Chars
  /\ \A c \in Chars : c # INVALID => c \in Values
  /\ \A c \in Values : c # INVALID
  /\ <<>> \in Seq(Chars) /\ Seq(Values) \subseteq Seq(Chars)
<1>1. Values \subseteq Chars /\ Chars \subseteq Nat /\ INVALID \in Chars
  BY Numbers DEF Values, Chars, INVALID
<1>2. Seq(Values) \subseteq Seq(Chars)
  BY <1>1, SeqMonotonic
<1> QED BY <1>1, <1>2, Numbers, EmptySeq DEF Values, Chars, INVALID

LEMMA ReadDigitType ==
  ASSUME NEW r \in Readings, NEW c \in Chars
  PROVE  read_digit(r, c) \in Readings
<1>1. /\ r.value * BASE + c \in Int /\ r.index + 1 \in Int /\ NULL \in Int
  BY Numbers, TextTypes DEF Readings, NULL
<1> QED BY <1>1 DEF read_digit, Readings, Err

LEMMA ReadingOf ==
  /\ reading \in [Seq(Chars) -> Readings]
  /\ reading[<<>>] = [error |-> "none", value |-> 0, index |-> 0]
  /\ \A s \in Seq(Chars), c \in Chars :
       reading[Append(s, c)] = read_digit(reading[s], c)
<1> DEFINE b == [error |-> "none", value |-> 0, index |-> 0]
           step == [x \in Readings \X Chars |-> read_digit(x[1], x[2])]
<1>1. b \in Readings
  BY DEF Readings
<1>2. step \in [Readings \X Chars -> Readings]
  BY ReadDigitType
<1>3. PICK f \in [Seq(Chars) -> Readings] : Folds(f, Chars, b, step)
  <2> HIDE DEF b, step
  <2> QED BY <1>1, <1>2, SeqRecursion
<1>4. \A s \in Seq(Chars) : f[s] = IF s = <<>> THEN b ELSE read_digit(f[Front(s)], Last(s))
  BY <1>3, FrontLast DEF Folds
<1> HIDE DEF step
<1>5. f = [s \in Seq(Chars) |-> IF s = <<>> THEN b ELSE read_digit(f[Front(s)], Last(s))]
  BY <1>3, <1>4
<1>6. reading = [s \in Seq(Chars) |->
                   IF s = <<>> THEN b ELSE read_digit(reading[Front(s)], Last(s))]
  BY <1>5 DEF reading
<1> HIDE DEF b
<1>7. ASSUME NEW g, g = [s \in Seq(Chars) |->
                           IF s = <<>> THEN b ELSE read_digit(g[Front(s)], Last(s))]
      PROVE  /\ g[<<>>] = b
             /\ \A s \in Seq(Chars), c \in Chars : g[Append(s, c)] = read_digit(g[s], c)
  <2>1. <<>> \in Seq(Chars)
    BY TextTypes
  <2>2. g[<<>>] = b
    BY <1>7, <2>1
  <2>3. ASSUME NEW s \in Seq(Chars), NEW c \in Chars
        PROVE  g[Append(s, c)] = read_digit(g[s], c)
    <3> DEFINE a == Append(s, c)
    <3>1. a \in Seq(Chars) /\ a # <<>> /\ Front(a) = s /\ Last(a) = c
      BY FrontOfAppend
    <3> HIDE DEF a
    <3>2. g[a] = read_digit(g[Front(a)], Last(a))
      BY <1>7, <3>1
    <3> QED BY <3>1, <3>2 DEF a
  <2> QED BY <2>2, <2>3
<1>8. /\ reading[<<>>] = b /\ f[<<>>] = b
      /\ \A s \in Seq(Chars), c \in Chars :
           /\ reading[Append(s, c)] = read_digit(reading[s], c)
           /\ f[Append(s, c)] = read_digit(f[s], c)
  BY <1>5, <1>6, <1>7
<1>9. \A s \in Seq(Chars) : reading[s] = f[s]
  <2> DEFINE T == {s \in Seq(Chars) : reading[s] = f[s]}
  <2>1. <<>> \in T
    BY <1>8, TextTypes
  <2>2. \A s \in Seq(Chars), c \in Chars : s \in T => Append(s, c) \in T
    BY <1>8, FrontOfAppend
  <2>3. Seq(Chars) \subseteq T
    <3> HIDE DEF T
    <3> QED BY <2>1, <2>2, SeqInd
  <2> QED BY <2>3
<1>10. reading \in [Seq(Chars) -> Readings]
  BY <1>3, <1>6, <1>9
<1> QED BY <1>8, <1>10 DEF b

LEMMA NumberOf ==
  /\ number \in [Seq(Chars) -> Nat]
  /\ number[<<>>] = 0
  /\ \A s \in Seq(Chars), c \in Chars : number[Append(s, c)] = number[s] * BASE + c
<1> DEFINE step == [x \in Nat \X Chars |-> x[1] * BASE + x[2]]
<1>1. step \in [Nat \X Chars -> Nat]
  <2>1. \A n \in Nat, c \in Chars : n * BASE + c \in Nat
    BY Numbers, TextTypes
  <2> QED BY <2>1
<1>2. PICK f \in [Seq(Chars) -> Nat] : Folds(f, Chars, 0, step)
  <2> HIDE DEF step
  <2> QED BY <1>1, SeqRecursion
<1>3. \A s \in Seq(Chars) : f[s] = IF s = <<>> THEN 0 ELSE f[Front(s)] * BASE + Last(s)
  BY <1>2, FrontLast DEF Folds
<1> HIDE DEF step
<1>4. f = [s \in Seq(Chars) |-> IF s = <<>> THEN 0 ELSE f[Front(s)] * BASE + Last(s)]
  BY <1>2, <1>3
<1>5. number = [s \in Seq(Chars) |->
                  IF s = <<>> THEN 0 ELSE number[Front(s)] * BASE + Last(s)]
  BY <1>4 DEF number
<1>6. ASSUME NEW g, g = [s \in Seq(Chars) |->
                           IF s = <<>> THEN 0 ELSE g[Front(s)] * BASE + Last(s)]
      PROVE  /\ g[<<>>] = 0
             /\ \A s \in Seq(Chars), c \in Chars : g[Append(s, c)] = g[s] * BASE + c
  BY <1>6, TextTypes, FrontOfAppend
<1>7. /\ number[<<>>] = 0 /\ f[<<>>] = 0
      /\ \A s \in Seq(Chars), c \in Chars :
           /\ number[Append(s, c)] = number[s] * BASE + c
           /\ f[Append(s, c)] = f[s] * BASE + c
  BY <1>4, <1>5, <1>6
<1>8. \A s \in Seq(Chars) : number[s] = f[s]
  <2> DEFINE T == {s \in Seq(Chars) : number[s] = f[s]}
  <2>1. <<>> \in T
    BY <1>7, TextTypes
  <2>2. \A s \in Seq(Chars), c \in Chars : s \in T => Append(s, c) \in T
    BY <1>7, FrontOfAppend
  <2>3. Seq(Chars) \subseteq T
    <3> HIDE DEF T
    <3> QED BY <2>1, <2>2, SeqInd
  <2> QED BY <2>3
<1>9. number \in [Seq(Chars) -> Nat]
  BY <1>2, <1>5, <1>8
<1> QED BY <1>7, <1>9

UpTo(s, k) == SubSeq(s, 1, k)

(* A prefix of what is extended is as it was, ... *)
LEMMA Extended ==
  ASSUME NEW S, NEW s \in Seq(S), NEW c \in S
  PROVE  LET a == Append(s, c)
         IN  /\ a \in Seq(S) /\ Len(s) \in Nat /\ Len(a) = Len(s) + 1
             /\ \A i \in 1 .. Len(s) : a[i] = s[i]
             /\ a[Len(s) + 1] = c
             /\ \A k \in 0 .. Len(s) : UpTo(a, k) = UpTo(s, k)
             /\ UpTo(a, Len(s) + 1) = a
<1> DEFINE a == Append(s, c)
<1>1. /\ a \in Seq(S) /\ Len(s) \in Nat /\ Len(a) = Len(s) + 1
      /\ \A i \in 1 .. Len(s) : a[i] = s[i]
      /\ a[Len(s) + 1] = c
  BY AppendProperties, LenProperties
<1>2. a = s \o <<c>> /\ <<c>> \in Seq(S)
  BY AppendIsConcat
<1>3. ASSUME NEW k \in 0 .. Len(s) PROVE SubSeq(a, 1, k) = SubSeq(s, 1, k)
  <2>1. CASE k = 0
    BY <2>1, SubSeqEmpty
  <2>2. CASE k # 0
    <3>1. 1 \in 1 .. Len(s) /\ k \in 1 .. Len(s)
      BY <1>1, <2>2
    <3> QED BY <1>2, <3>1, SubSeqOfConcat1
  <2> QED BY <2>1, <2>2
<1>4. SubSeq(a, 1, Len(s) + 1) = a
  <2>1. SubSeq(a, 1, Len(a)) = a
    <3> HIDE DEF a
    <3> QED BY <1>1, SubSeqFull
  <2> QED BY <1>1, <2>1
<1> QED BY <1>1, <1>3, <1>4 DEF UpTo

(* ... and denotes no more. *)
LEMMA PrefixNumber ==
  ASSUME NEW s \in Seq(Chars), NEW k \in 0 .. Len(s)
  PROVE  UpTo(s, k) \in Seq(Chars) /\ number[UpTo(s, k)] <= number[s]
<1> DEFINE T == {t \in Seq(Chars) : \A j \in 0 .. Len(t) :
                   UpTo(t, j) \in Seq(Chars) /\ number[UpTo(t, j)] <= number[t]}
<1>1. <<>> \in T
  <2>1. <<>> \in Seq(Chars) /\ Len(<<>>) = 0 /\ UpTo(<<>>, 0) = <<>>
    BY TextTypes, EmptySeq, SubSeqEmpty DEF UpTo
  <2>2. number[<<>>] <= number[<<>>]
    BY NumberOf
  <2>3. \A j \in 0 .. Len(<<>>) : j = 0
    BY <2>1
  <2> QED BY <2>1, <2>2, <2>3
<1>2. ASSUME NEW t \in Seq(Chars), NEW c \in Chars, t \in T PROVE Append(t, c) \in T
  <2> DEFINE a == Append(t, c)
  <2>1. /\ a \in Seq(Chars) /\ Len(t) \in Nat /\ Len(a) = Len(t) + 1
        /\ \A j \in 0 .. Len(t) : UpTo(a, j) = UpTo(t, j)
        /\ UpTo(a, Len(t) + 1) = a
    BY Extended
  <2>2. number[a] = number[t] * BASE + c /\ number[t] \in Nat
    BY NumberOf
  <2>3. number[t] <= number[t] * BASE
    BY <2>2, Numbers
  <2>4. number[t] <= number[a] /\ number[a] \in Nat
    BY <2>2, <2>3, Numbers, TextTypes
  <2> HIDE DEF a
  <2>5. ASSUME NEW j \in 0 .. Len(a)
        PROVE  UpTo(a, j) \in Seq(Chars) /\ number[UpTo(a, j)] <= number[a]
    <3>1. CASE j = Len(t) + 1
      BY <2>1, <2>4, <3>1
    <3>2. CASE j # Len(t) + 1
      <4>1. j \in 0 .. Len(t)
        BY <2>1, <3>2
      <4>2. /\ UpTo(t, j) \in Seq(Chars) /\ number[UpTo(t, j)] <= number[t]
            /\ number[UpTo(t, j)] \in Nat
        BY <1>2, <4>1, NumberOf
      <4>3. UpTo(a, j) = UpTo(t, j)
        BY <2>1, <4>1
      <4> QED BY <2>2, <2>4, <4>2, <4>3
    <3> QED BY <3>1, <3>2
  <2>6. a \in T
    BY <2>1, <2>5
  <2> QED BY <2>6 DEF a
<1>3. Seq(Chars) \subseteq T
  <2> HIDE DEF T
  <2> QED BY <1>1, <1>2, SeqInd
<1> QED BY <1>3

(* What the loop has found out after the characters of s. *)
Tells(s) ==
  LET r == reading[s]
  IN  /\ r.error = "none" => /\ s \in Seq(Values) /\ r.value = number[s]
                             /\ r.index = Len(s)
      /\ r.error = "InvalidCharacter" =>
           /\ r.index \in 0 .. Len(s) - 1 /\ s[r.index + 1] = INVALID
           /\ \A i \in 1 .. r.index : s[i] # INVALID
      /\ r.error = "Overflow" =>
           \E k \in 1 .. Len(s) : /\ \A i \in 1 .. k : s[i] # INVALID
                                  /\ number[UpTo(s, k)] > MaxId

LEMMA ReadingTells == \A s \in Seq(Chars) : Tells(s)
<1> DEFINE T == {s \in Seq(Chars) : Tells(s)}
<1>1. <<>> \in T
  BY ReadingOf, NumberOf, TextTypes, EmptySeq DEF Tells
<1>2. ASSUME NEW s \in Seq(Chars), NEW c \in Chars, Tells(s) PROVE Tells(Append(s, c))
  <2> DEFINE a == Append(s, c)
             r == reading[s]
             q == reading[a]
  <2>1. /\ a \in Seq(Chars) /\ Len(s) \in Nat /\ Len(a) = Len(s) + 1
        /\ \A i \in 1 .. Len(s) : a[i] = s[i]
        /\ a[Len(s) + 1] = c
        /\ \A k \in 0 .. Len(s) : UpTo(a, k) = UpTo(s, k)
        /\ UpTo(a, Len(s) + 1) = a
    BY Extended
  <2>2. q = read_digit(r, c) /\ r \in Readings
    BY ReadingOf
  <2>3. number[a] = number[s] * BASE + c /\ number[s] \in Nat
    BY NumberOf
  <2>4. /\ r.error = "none" => /\ s \in Seq(Values) /\ r.value = number[s]
                               /\ r.index = Len(s)
        /\ r.error = "InvalidCharacter" =>
             /\ r.index \in 0 .. Len(s) - 1 /\ s[r.index + 1] = INVALID
             /\ \A i \in 1 .. r.index : s[i] # INVALID
        /\ r.error = "Overflow" =>
             \E k \in 1 .. Len(s) : /\ \A i \in 1 .. k : s[i] # INVALID
                                    /\ number[UpTo(s, k)] > MaxId
    BY <1>2 DEF Tells
  <2>5. r.error = "none" => \A i \in 1 .. Len(s) : s[i] # INVALID
    <3> SUFFICES ASSUME s \in Seq(Values), NEW i \in 1 .. Len(s) PROVE s[i] # INVALID
      BY <2>4
    <3>1. s[i] \in Values
      BY ElementOfSeq
    <3> QED BY <3>1, TextTypes
  <2>6. c # INVALID /\ r.error = "none" => a \in Seq(Values)
    BY <2>4, TextTypes, Extended
  <2> HIDE DEF a, r, q
  <2>7. CASE r.error # "none"
    <3>1. q = r
      BY <2>2, <2>7 DEF read_digit
    <3>2. q.error = "InvalidCharacter" =>
            /\ q.index \in 0 .. Len(a) - 1 /\ a[q.index + 1] = INVALID
            /\ \A i \in 1 .. q.index : a[i] # INVALID
      <4> SUFFICES ASSUME r.error = "InvalidCharacter"
                   PROVE  /\ r.index \in 0 .. Len(a) - 1 /\ a[r.index + 1] = INVALID
                          /\ \A i \in 1 .. r.index : a[i] # INVALID
        BY <3>1
      <4>1. /\ r.index \in 0 .. Len(s) - 1 /\ s[r.index + 1] = INVALID
            /\ \A i \in 1 .. r.index : s[i] # INVALID
        BY <2>4
      <4>2. /\ r.index \in 0 .. Len(a) - 1 /\ r.index + 1 \in 1 .. Len(s)
            /\ 1 .. r.index \subseteq 1 .. Len(s)
        BY <2>1, <4>1
      <4> QED BY <2>1, <4>1, <4>2
    <3>3. q.error = "Overflow" =>
            \E k \in 1 .. Len(a) : /\ \A i \in 1 .. k : a[i] # INVALID
                                   /\ number[UpTo(a, k)] > MaxId
      <4> SUFFICES ASSUME NEW k \in 1 .. Len(s), \A i \in 1 .. k : s[i] # INVALID,
                          number[UpTo(s, k)] > MaxId
                   PROVE  /\ k \in 1 .. Len(a) /\ \A i \in 1 .. k : a[i] # INVALID
                          /\ number[UpTo(a, k)] > MaxId
        BY <2>4, <3>1
      <4> QED BY <2>1
    <3> QED BY <2>7, <3>1, <3>2, <3>3 DEF Tells, q, a
  <2>8. CASE r.error = "none" /\ c = INVALID
    <3>1. q.error = "InvalidCharacter" /\ q.index = Len(s)
      BY <2>2, <2>4, <2>8 DEF read_digit, Readings
    <3>2. /\ q.index \in 0 .. Len(a) - 1 /\ a[q.index + 1] = INVALID
          /\ \A i \in 1 .. q.index : a[i] # INVALID
      BY <2>1, <2>5, <2>8, <3>1
    <3> QED BY <3>1, <3>2 DEF Tells, q, a
  <2>9. CASE r.error = "none" /\ c # INVALID /\ r.value * BASE + c >= WORD
    <3>1. q.error = "Overflow"
      BY <2>2, <2>9 DEF read_digit, Readings, Err
    <3>2. number[a] > MaxId
      BY <2>3, <2>4, <2>9, Numbers, TextTypes
    <3>3. \A i \in 1 .. Len(a) : a[i] # INVALID
      BY <2>1, <2>5, <2>9
    <3>4. Len(a) \in 1 .. Len(a) /\ number[UpTo(a, Len(a))] > MaxId
      BY <2>1, <3>2
    <3> QED BY <3>1, <3>3, <3>4 DEF Tells, q, a
  <2>10. CASE r.error = "none" /\ c # INVALID /\ ~(r.value * BASE + c >= WORD)
    <3>1. q.error = "none" /\ q.value = r.value * BASE + c /\ q.index = r.index + 1
      BY <2>2, <2>10 DEF read_digit, Readings
    <3>2. a \in Seq(Values) /\ q.value = number[a] /\ q.index = Len(a)
      BY <2>1, <2>3, <2>4, <2>6, <2>10, <3>1
    <3> QED BY <3>1, <3>2 DEF Tells, q, a
  <2> QED BY <2>7, <2>8, <2>9, <2>10
<1>3. \A s \in Seq(Chars), c \in Chars : s \in T => Append(s, c) \in T
  BY <1>2, FrontOfAppend
<1>4. Seq(Chars) \subseteq T
  <2> HIDE DEF T
  <2> QED BY <1>1, <1>3, SeqInd
<1> QED BY <1>4

-----------------------------------------------------------------------------
(* Canonical texts are the digits of numbers. *)

Canonical(s) == /\ s \in Seq(Values) /\ s # <<>>
                /\ Len(s) > 1 => s[1] # 0

LEMMA OneDigit ==
  ASSUME NEW n \in Nat, n < BASE
  PROVE  /\ digits[n] = <<n>> /\ n \in Values /\ <<n>> \in Seq(Values)
         /\ number[<<n>>] = n /\ Len(<<n>>) = 1 /\ <<n>>[1] = n
<1>1. n \in Values
  BY Numbers DEF Values
<1>2. <<n>> \in Seq(Values) /\ Append(<<>>, n) = <<n>>
  BY <1>1
<1>3. number[Append(<<>>, n)] = number[<<>>] * BASE + n /\ number[<<>>] = 0
  BY <1>1, NumberOf, TextTypes
<1>4. number[<<n>>] = n
  BY <1>2, <1>3, Numbers
<1> QED BY <1>1, <1>2, <1>4, DigitsOf

LEMMA DigitsAreCanonical ==
  \A n \in Nat : /\ Canonical(digits[n]) /\ number[digits[n]] = n
                 /\ n # 0 => digits[n][1] # 0
<1> DEFINE Right(n) == /\ Canonical(digits[n]) /\ number[digits[n]] = n
                       /\ n # 0 => digits[n][1] # 0
           T == {n \in Nat : Right(n)}
<1>1. ASSUME NEW n \in Nat, \A k \in Nat : k < n => k \in T PROVE Right(n)
  <2>1. CASE n < BASE
    <3>1. /\ digits[n] = <<n>> /\ <<n>> \in Seq(Values)
          /\ number[<<n>>] = n /\ Len(<<n>>) = 1 /\ <<n>>[1] = n
      BY <2>1, OneDigit
    <3>2. <<n>> # <<>> /\ ~(Len(<<n>>) > 1)
      BY <3>1
    <3> QED BY <3>1, <3>2 DEF Canonical
  <2>2. CASE ~(n < BASE)
    <3>1. /\ Rest(n) \in Nat /\ Unit(n) \in Values /\ Rest(n) # 0 /\ Rest(n) < n
      BY <2>2, Quotient
    <3> DEFINE s == digits[Rest(n)]
               a == Append(s, Unit(n))
    <3>2. Right(Rest(n))
      BY <1>1, <3>1
    <3>3. s \in Seq(Values) /\ s # <<>> /\ s[1] # 0 /\ number[s] = Rest(n)
      BY <3>1, <3>2 DEF Canonical
    <3>4. digits[n] = a
      BY <2>2, DigitsOf
    <3> HIDE DEF s
    <3>5. /\ a \in Seq(Values) /\ Len(s) \in Nat /\ Len(a) = Len(s) + 1
          /\ \A i \in 1 .. Len(s) : a[i] = s[i]
      BY <3>1, <3>3, Extended
    <3>6. number[a] = number[s] * BASE + Unit(n)
      BY <3>1, <3>3, NumberOf, TextTypes
    <3>7. number[a] = n
      BY <3>1, <3>3, <3>6, Division
    <3>8. a # <<>> /\ a[1] = s[1]
      <4>1. Len(s) > 0
        BY <3>3, EmptySeq
      <4> QED BY <3>5, <4>1, EmptySeq
    <3> HIDE DEF a
    <3> QED BY <3>3, <3>4, <3>5, <3>7, <3>8 DEF Canonical
  <2> QED BY <2>1, <2>2
<1>2. Nat \subseteq T
  <2>1. \A n \in Nat : (\A k \in Nat : k < n => k \in T) => n \in T
    BY <1>1
  <2> HIDE DEF T
  <2> QED BY <2>1, NatInd
<1> QED BY <1>2

LEMMA Compose ==
  ASSUME NEW q \in Nat \ {0}, NEW c \in Values
  PROVE  LET n == q * BASE + c
         IN  n \in Nat /\ ~(n < BASE) /\ Rest(n) = q /\ Unit(n) = c
<1>1. c \in Nat /\ c < BASE /\ BASE \in Nat \ {0}
  BY Numbers DEF Values
<1>2. q * BASE \in Nat /\ q * BASE >= BASE
  BY <1>1
<1> QED BY <1>1, <1>2, DivMod DEF Rest, Unit

LEMMA CanonicalAreDigits ==
  \A s \in Seq(Values) : Canonical(s) =>
    number[s] \in Nat /\ digits[number[s]] = s /\ (s[1] # 0 => number[s] # 0)
<1> DEFINE Right(s) == Canonical(s) =>
             number[s] \in Nat /\ digits[number[s]] = s /\ (s[1] # 0 => number[s] # 0)
           T == {s \in Seq(Values) : Right(s)}
<1>1. <<>> \in T
  BY EmptySeq DEF Canonical
<1>2. ASSUME NEW s \in Seq(Values), NEW c \in Values, Right(s),
             Canonical(Append(s, c))
      PROVE  Right(Append(s, c))
  <2>1. CASE s = <<>>
    <3>1. Append(s, c) = <<c>> /\ c \in Nat /\ c < BASE
      BY <2>1, Numbers DEF Values
    <3> QED BY <3>1, OneDigit
  <2>2. CASE s # <<>>
    <3> DEFINE a == Append(s, c)
    <3>1. /\ a \in Seq(Values) /\ Len(s) \in Nat /\ Len(a) = Len(s) + 1
          /\ \A i \in 1 .. Len(s) : a[i] = s[i]
      BY Extended
    <3>2. Len(s) > 0
      BY <2>2, EmptySeq
    <3>3. a[1] = s[1] /\ a[1] # 0
      <4>1. Len(a) > 1 => a[1] # 0
        BY <1>2 DEF Canonical
      <4> HIDE DEF a
      <4> QED BY <3>1, <3>2, <4>1
    <3>4. Canonical(s)
      BY <2>2, <3>3 DEF Canonical
    <3>5. number[s] \in Nat \ {0} /\ digits[number[s]] = s
      BY <1>2, <3>3, <3>4
    <3>6. number[a] = number[s] * BASE + c
      BY NumberOf, TextTypes
    <3>7. number[a] \in Nat /\ ~(number[a] < BASE)
          /\ Rest(number[a]) = number[s] /\ Unit(number[a]) = c
      BY <3>5, <3>6, Compose
    <3>8. digits[number[a]] = a
      BY <3>5, <3>7, DigitsOf
    <3>9. number[a] # 0
      BY <3>7, Numbers
    <3> QED BY <3>7, <3>8, <3>9
  <2> QED BY <2>1, <2>2
<1>3. \A s \in Seq(Values), c \in Values : s \in T => Append(s, c) \in T
  BY <1>2, AppendProperties
<1>4. Seq(Values) \subseteq T
  <2> HIDE DEF T
  <2> QED BY <1>1, <1>3, SeqInd
<1> QED BY <1>4

(* A larger number has no fewer digits. *)
LEMMA RestMonotone ==
  ASSUME NEW m \in Nat, NEW n \in Nat, m <= n
  PROVE  Rest(m) <= Rest(n)
<1> DEFINE p == Rest(m)  q == Rest(n)  c == Unit(m)  d == Unit(n)
<1>1. /\ p \in Nat /\ q \in Nat /\ c \in 0 .. BASE - 1 /\ d \in 0 .. BASE - 1
      /\ m = p * BASE + c /\ n = q * BASE + d
  BY Division DEF Values
<1> HIDE DEF p, q, c, d
<1>2. q < p => q * BASE + BASE <= p * BASE
  BY <1>1, Numbers, MulMono
<1>3. q * BASE \in Nat /\ p * BASE \in Nat
  BY <1>1, Numbers
<1>4. ~(q < p)
  BY <1>1, <1>2, <1>3, Numbers
<1>5. p <= q
  BY <1>1, <1>4
<1> QED BY <1>5 DEF p, q

LEMMA LengthMonotone ==
  \A n \in Nat : \A m \in Nat : m <= n => Len(digits[m]) <= Len(digits[n])
<1> DEFINE Right(n) == \A m \in Nat : m <= n => Len(digits[m]) <= Len(digits[n])
           T == {n \in Nat : Right(n)}
<1>1. \A n \in Nat :
        /\ digits[n] \in Seq(Values) /\ Len(digits[n]) \in Nat
        /\ Len(digits[n]) >= 1
        /\ n < BASE => Len(digits[n]) = 1
        /\ ~(n < BASE) => Len(digits[n]) = Len(digits[Rest(n)]) + 1
  <2> TAKE n \in Nat
  <2>1. digits[n] \in Seq(Values) /\ digits[n] # <<>>
    BY DigitsAreCanonical DEF Canonical
  <2>2. Len(digits[n]) \in Nat /\ Len(digits[n]) >= 1
    BY <2>1, EmptySeq
  <2>3. n < BASE => Len(digits[n]) = 1
    BY OneDigit
  <2>4. ASSUME ~(n < BASE) PROVE Len(digits[n]) = Len(digits[Rest(n)]) + 1
    <3>1. Rest(n) \in Nat /\ Unit(n) \in Values
      BY Quotient
    <3>2. digits[Rest(n)] \in Seq(Values)
      BY <3>1, DigitsOf
    <3>3. digits[n] = Append(digits[Rest(n)], Unit(n))
      BY <2>4, DigitsOf
    <3> QED BY <3>1, <3>2, <3>3, AppendProperties
  <2> QED BY <2>1, <2>2, <2>3, <2>4
<1>2. ASSUME NEW n \in Nat, \A k \in Nat : k < n => k \in T,
             NEW m \in Nat, m <= n
      PROVE  Len(digits[m]) <= Len(digits[n])
  <2>1. CASE m < BASE
    BY <1>1, <2>1
  <2>2. CASE ~(m < BASE)
    <3>1. ~(n < BASE)
      BY <1>2, <2>2, Numbers
    <3>2. Rest(n) \in Nat /\ Rest(n) < n /\ Rest(m) \in Nat
      BY <3>1, Quotient
    <3>3. Rest(m) <= Rest(n)
      BY <1>2, RestMonotone
    <3>4. Len(digits[Rest(m)]) <= Len(digits[Rest(n)])
      BY <1>2, <3>2, <3>3
    <3> QED BY <1>1, <2>2, <3>1, <3>2, <3>4
  <2> QED BY <2>1, <2>2
<1>3. Nat \subseteq T
  <2>1. \A n \in Nat : (\A k \in Nat : k < n => k \in T) => n \in T
    BY <1>2
  <2> HIDE DEF T
  <2> QED BY <2>1, NatInd
<1> QED BY <1>3

-----------------------------------------------------------------------------
(* What decode makes of a text. *)

TextErrors == {"none", "Empty", "TooLong", "NonCanonical", "InvalidCharacter", "Overflow"}
TextOutcomes == [error : TextErrors, value : Int, index : Int]

(* An outcome of decode_str, before the order of the fields is restored. *)
LEMMA DecodeStr ==
  ASSUME NEW s \in Seq(Chars)
  PROVE  LET r == decode_str(s)
         IN  /\ r \in TextOutcomes
             /\ r.error = "none" => /\ Canonical(s) /\ Len(s) <= MAX_LEN
                                    /\ r.value = number[s] /\ r.value \in Ids
             /\ r.error = "InvalidCharacter" =>
                  /\ r.index \in 0 .. Len(s) - 1 /\ s[r.index + 1] = INVALID
                  /\ \A i \in 1 .. r.index : s[i] # INVALID
             /\ r.error = "Overflow" =>
                  \E k \in 1 .. Len(s) : /\ \A i \in 1 .. k : s[i] # INVALID
                                         /\ number[UpTo(s, k)] > MaxId
<1> DEFINE r == decode_str(s)
           q == reading[s]
<1>1. \A e \in {"Empty", "TooLong", "NonCanonical", "Overflow"} :
        Err(e).error = e /\ Err(e) \in TextOutcomes
  BY DEF Err, NULL, TextOutcomes, TextErrors
<1>2. /\ q \in Readings
      /\ q.error = "none" => /\ s \in Seq(Values) /\ q.value = number[s]
                             /\ q.index = Len(s)
      /\ q.error = "InvalidCharacter" =>
           /\ q.index \in 0 .. Len(s) - 1 /\ s[q.index + 1] = INVALID
           /\ \A i \in 1 .. q.index : s[i] # INVALID
      /\ q.error = "Overflow" =>
           \E k \in 1 .. Len(s) : /\ \A i \in 1 .. k : s[i] # INVALID
                                  /\ number[UpTo(s, k)] > MaxId
  BY ReadingOf, ReadingTells DEF Tells
<1>3. number[s] \in Nat /\ Len(s) \in Nat
  BY NumberOf, LenProperties
<1>4. CASE s = <<>> \/ Len(s) > MAX_LEN \/ (Len(s) > 1 /\ s[1] = 0)
  <2>1. r = Err("Empty") \/ r = Err("TooLong") \/ r = Err("NonCanonical")
    BY <1>4 DEF decode_str
  <2> HIDE DEF r
  <2>2. r.error \in {"Empty", "TooLong", "NonCanonical"}
        /\ r \in TextOutcomes
    BY <1>1, <2>1
  <2> QED BY <2>2 DEF r
<1>5. CASE ~(s = <<>> \/ Len(s) > MAX_LEN \/ (Len(s) > 1 /\ s[1] = 0))
  <2>1. r = IF q.error = "none" /\ q.value > MaxId THEN Err("Overflow") ELSE q
    BY <1>5 DEF decode_str, in_range
  <2> HIDE DEF r, q
  <2>2. CASE q.error = "none" /\ q.value > MaxId
    <3>1. r.error = "Overflow" /\ r \in TextOutcomes
      BY <1>1, <2>1, <2>2
    <3>2. Len(s) \in 1 .. Len(s)
      BY <1>5, EmptySeq
    <3>3. UpTo(s, Len(s)) = s
      BY SubSeqFull DEF UpTo
    <3>4. \A i \in 1 .. Len(s) : s[i] # INVALID
      <4>1. s \in Seq(Values)
        BY <1>2, <2>2
      <4> QED BY <4>1, ElementOfSeq, TextTypes
    <3>5. number[UpTo(s, Len(s))] > MaxId
      BY <1>2, <2>2, <3>3
    <3>6. \E k \in 1 .. Len(s) : /\ \A i \in 1 .. k : s[i] # INVALID
                                 /\ number[UpTo(s, k)] > MaxId
      BY <3>2, <3>4, <3>5
    <3> QED BY <3>1, <3>6 DEF r
  <2>3. CASE q.error = "none" /\ ~(q.value > MaxId)
    <3>1. r = q /\ r \in TextOutcomes
      BY <1>2, <2>1, <2>3 DEF Readings, TextOutcomes, TextErrors
    <3>2. Canonical(s) /\ Len(s) <= MAX_LEN
      BY <1>2, <1>3, <1>5, <2>3, Numbers DEF Canonical
    <3>3. r.value = number[s] /\ r.value \in Ids
      BY <1>2, <1>3, <2>3, <3>1, Numbers
    <3> QED BY <2>3, <3>1, <3>2, <3>3 DEF r
  <2>4. CASE q.error # "none"
    <3>1. r = q /\ q.error \in {"InvalidCharacter", "Overflow"}
          /\ r \in TextOutcomes
      BY <1>2, <2>1, <2>4 DEF Readings, TextOutcomes, TextErrors
    <3> QED BY <1>2, <3>1 DEF r
  <2> QED BY <2>2, <2>3, <2>4
<1> QED BY <1>4, <1>5

LEMMA EncodeFacts ==
  ASSUME NEW id \in Ids
  PROVE  /\ encode(id) \in Seq(Chars) /\ Canonical(encode(id))
         /\ Len(encode(id)) <= MAX_LEN /\ number[encode(id)] = transform(id)
<1>1. transform(id) \in Nat /\ transform(id) <= MaxId /\ MaxId \in Nat
  BY UntransformTransform, Numbers
<1>2. encode(id) = digits[transform(id)]
  BY DEF encode, encode_into
<1>3. Canonical(encode(id)) /\ number[encode(id)] = transform(id)
  BY <1>1, <1>2, DigitsAreCanonical
<1>4. encode(id) \in Seq(Chars) /\ Len(encode(id)) \in Nat
  BY <1>3, TextTypes, LenProperties DEF Canonical
<1>5. Len(encode(id)) <= Len(digits[MaxId]) /\ Len(digits[MaxId]) \in Nat
  BY <1>1, <1>2, LengthMonotone, DigitsOf, LenProperties
<1>6. Len(digits[MaxId]) <= MAX_LEN
  BY BufferAssumption DEF encode_into
<1> QED BY <1>3, <1>4, <1>5, <1>6, Numbers

(* "Decoding is the exact inverse of encoding" (SPEC 6.3): what encode      *)
(* writes decode accepts as the ID it was written from, for IDs of any      *)
(* fields and any base.                                                    *)
THEOREM DecodeEncode ==
  ASSUME NEW id \in Ids
  PROVE  decode(encode(id)).error = "none" /\ decode(encode(id)).value = id
<1> DEFINE s == encode(id)
           r == decode_str(s)
<1>1. /\ s \in Seq(Chars) /\ Canonical(s) /\ s \in Seq(Values)
      /\ Len(s) <= MAX_LEN /\ number[s] = transform(id)
  BY EncodeFacts DEF Canonical
<1>2. transform(id) \in Ids /\ untransform(transform(id)) = id
      /\ transform(id) \in Nat /\ transform(id) <= MaxId
  BY UntransformTransform, Numbers
<1> HIDE DEF s
<1>3. /\ r \in TextOutcomes
      /\ r.error = "none" => r.value = number[s]
  BY <1>1, DecodeStr
<1>4. r.error \notin {"Empty", "TooLong", "NonCanonical"}
  <2>1. /\ s # <<>> /\ ~(Len(s) > MAX_LEN) /\ ~(Len(s) > 1 /\ s[1] = 0)
    BY <1>1, Numbers, LenProperties DEF Canonical
  <2>2. r = in_range(reading[s])
    BY <2>1 DEF decode_str
  <2>3. reading[s] \in Readings
    BY <1>1, ReadingOf
  <2> HIDE DEF r
  <2> QED BY <2>2, <2>3 DEF in_range, Err, Readings
<1>5. r.error # "InvalidCharacter"
  <2> SUFFICES ASSUME NEW i \in 0 .. Len(s) - 1, s[i + 1] = INVALID PROVE FALSE
    BY <1>1, DecodeStr
  <2>1. i + 1 \in 1 .. Len(s)
    BY <1>1, LenProperties
  <2>2. s[i + 1] \in Values
    BY <1>1, <2>1, ElementOfSeq
  <2> QED BY <2>2, TextTypes
<1>6. r.error # "Overflow"
  <2> SUFFICES ASSUME NEW k \in 1 .. Len(s), number[UpTo(s, k)] > MaxId PROVE FALSE
    BY <1>1, DecodeStr
  <2>1. k \in 0 .. Len(s)
    BY <1>1, LenProperties
  <2>2. UpTo(s, k) \in Seq(Chars) /\ number[UpTo(s, k)] <= number[s]
    BY <1>1, <2>1, PrefixNumber
  <2>3. number[UpTo(s, k)] \in Nat /\ number[s] <= MaxId /\ number[s] \in Nat
    BY <1>1, <1>2, <2>2, NumberOf
  <2> QED BY <2>2, <2>3, Numbers
<1>7. r.error = "none"
  <2>1. r.error \in TextErrors
    BY <1>3 DEF TextOutcomes
  <2> QED BY <1>4, <1>5, <1>6, <2>1 DEF TextErrors
<1> HIDE DEF r
<1>8. decode(s) = [r EXCEPT !.value = untransform(@)]
  BY <1>7 DEF decode, r
<1> QED BY <1>1, <1>2, <1>3, <1>7, <1>8 DEF s, TextOutcomes

(* Encodings are canonical (SPEC 6.3, id.rs:118-122): a text is accepted    *)
(* only if it is the text of the ID that it is taken for.                  *)
THEOREM EncodeDecode ==
  ASSUME NEW s \in Seq(Chars), decode(s).error = "none"
  PROVE  decode(s).value \in Ids /\ encode(decode(s).value) = s
<1> DEFINE r == decode_str(s)
<1>1. /\ r \in TextOutcomes
      /\ r.error = "none" => Canonical(s) /\ r.value = number[s] /\ r.value \in Ids
  BY DecodeStr
<1> HIDE DEF r
<1>2. r.error = "none" /\ decode(s) = [r EXCEPT !.value = untransform(@)]
  BY DEF decode, r
<1>3. decode(s).value = untransform(number[s])
  BY <1>1, <1>2 DEF TextOutcomes
<1>4. /\ untransform(number[s]) \in Ids
      /\ transform(untransform(number[s])) = number[s]
  BY <1>1, <1>2, TransformUntransform
<1>5. digits[number[s]] = s
  BY <1>1, <1>2, CanonicalAreDigits DEF Canonical
<1> QED BY <1>3, <1>4, <1>5 DEF encode, encode_into

-----------------------------------------------------------------------------
(* The machine: a form in somebody's hands. *)

Words == 0 .. WORD - 1

(* What may be in hand as a form f. *)
Fits(f, h) ==
  /\ f = "text"  => h \in Seq(Chars)
  /\ f = "u64"   => \E v \in Words : h = <<v>>
  /\ f = "i64"   => \E v \in Words : h = <<to_i64(v)>>
  /\ f = "parts" => h \in Nat \X Nat \X Nat

CodecInv ==
  /\ form \in Forms \cup {"none"}
  /\ Fits(form, hand)
  /\ source # NULL => form # "none" /\ source \in Ids /\ hand = Written(source)[form]
  /\ result = NoResult \/ (form # "none" /\ result = Outcome(form, hand))

LEMMA WrittenForms ==
  ASSUME NEW id \in Ids
  PROVE  /\ Written(id)["text"]  = encode(id)
         /\ Written(id)["u64"]   = <<id>>
         /\ Written(id)["i64"]   = <<as_i64(id)>>
         /\ Written(id)["parts"] = <<timestamp(id), machine_id(id), sequence(id)>>
  BY DEF Written

LEMMA FieldTypes ==
  ASSUME NEW id \in Ids
  PROVE  /\ timestamp(id) \in 0 .. TS_MASK /\ machine_id(id) \in 0 .. MID_MASK
         /\ sequence(id) \in 0 .. SEQ_MASK
         /\ from_parts_unchecked(timestamp(id), machine_id(id), sequence(id)) = id
<1> DEFINE ts == timestamp(id)  mid == machine_id(id)  seq == sequence(id)
<1>1. /\ ts \in Nat /\ mid \in Nat /\ mid < MidSpan /\ seq \in Nat /\ seq < SeqSpan
      /\ (ts * MidSpan + mid) * SeqSpan + seq = id
  BY CodecSpans, PutTogether DEF timestamp, machine_id, sequence
<1> HIDE DEF ts, mid, seq
<1>2. ts < TsSpan
  BY <1>1, CodecSpans, Bounded
<1>3. /\ TsSpan = TS_MASK + 1 /\ MidSpan = MID_MASK + 1 /\ SeqSpan = SEQ_MASK + 1
      /\ TS_MASK \in Nat /\ MID_MASK \in Nat /\ SEQ_MASK \in Nat
  BY LayoutAssumption DEF TsSpan, MidSpan, SeqSpan
<1>4. ts \in 0 .. TS_MASK /\ mid \in 0 .. MID_MASK /\ seq \in 0 .. SEQ_MASK
  BY <1>1, <1>2, <1>3
<1> QED BY <1>1, <1>4 DEF from_parts_unchecked, ts, mid, seq

(* The largest ID has the largest fields. *)
LEMMA LargestFields ==
  /\ MaxId \in Ids /\ timestamp(MaxId) = TS_MASK
  /\ machine_id(MaxId) = MID_MASK /\ sequence(MaxId) = SEQ_MASK
<1>1. TS_MASK \in 0 .. TS_MASK /\ MID_MASK \in 0 .. MID_MASK /\ SEQ_MASK \in 0 .. SEQ_MASK
  BY LayoutAssumption
<1>2. from_parts_unchecked(TS_MASK, MID_MASK, SEQ_MASK) = MaxId
  <2> DEFINE h == TS_MASK * MidSpan + MID_MASK
  <2>1. /\ MidSpan = MID_MASK + 1 /\ SeqSpan = SEQ_MASK + 1
        /\ TS_MASK \in Nat /\ MID_MASK \in Nat /\ SEQ_MASK \in Nat
    BY LayoutAssumption DEF MidSpan, SeqSpan
  <2>2. h + 1 = (TS_MASK + 1) * MidSpan /\ h \in Nat
    BY <2>1
  <2> HIDE DEF h
  <2>3. h * SeqSpan + SEQ_MASK = (h + 1) * SeqSpan - 1
    BY <2>1, <2>2
  <2> QED BY <2>2, <2>3 DEF from_parts_unchecked, MaxId, h
<1> QED BY <1>1, <1>2, FieldsRoundTrip

(* In each form an ID can be read back ... *)
LEMMA ReadWritten ==
  ASSUME NEW id \in Ids, NEW f \in Forms
  PROVE  /\ Fits(f, Written(id)[f])
         /\ Outcome(f, Written(id)[f]).error = "none"
         /\ Outcome(f, Written(id)[f]).value = id
<1>1. CASE f = "text"
  BY <1>1, WrittenForms, EncodeFacts, DecodeEncode DEF Outcome, Fits
<1>2. CASE f = "u64"
  <2>1. id \in Words /\ from_u64(id) = Ok(id)
    BY IntegerForms, Numbers DEF Words
  <2> QED BY <1>2, <2>1, WrittenForms DEF Outcome, Fits, Ok
<1>3. CASE f = "i64"
  <2>1. id \in Words /\ try_from_i64(as_i64(id)) = Ok(id)
    BY IntegerForms, Numbers DEF Words
  <2> QED BY <1>3, <2>1, WrittenForms DEF Outcome, Fits, Ok, as_i64
<1>4. CASE f = "parts"
  <2>1. /\ timestamp(id) \in 0 .. TS_MASK /\ machine_id(id) \in 0 .. MID_MASK
        /\ sequence(id) \in 0 .. SEQ_MASK
        /\ from_parts_unchecked(timestamp(id), machine_id(id), sequence(id)) = id
    BY FieldTypes
  <2>2. from_parts(timestamp(id), machine_id(id), sequence(id)) = Ok(id)
    BY <2>1, LayoutAssumption DEF from_parts
  <2>3. Written(id)["parts"] \in Nat \X Nat \X Nat
    BY <2>1, LayoutAssumption, WrittenForms
  <2> QED BY <1>4, <2>2, <2>3, WrittenForms DEF Outcome, Fits, Ok
<1> QED BY <1>1, <1>2, <1>3, <1>4 DEF Forms

(* ... and nothing else is read as that ID. *)
LEMMA WriteRead ==
  ASSUME NEW f \in Forms, NEW h, Fits(f, h), Outcome(f, h).error = "none"
  PROVE  Outcome(f, h).value \in Ids /\ h = Written(Outcome(f, h).value)[f]
<1>1. CASE f = "text"
  <2>1. h \in Seq(Chars) /\ Outcome(f, h) = decode(h)
    BY <1>1 DEF Fits, Outcome
  <2> QED BY <1>1, <2>1, EncodeDecode, WrittenForms
<1>2. CASE f = "u64"
  <2>1. PICK v \in Words : h = <<v>>
    BY <1>2 DEF Fits
  <2>2. Outcome(f, h) = from_u64(v)
    BY <1>2, <2>1 DEF Outcome
  <2>4. WORD \div 2 = MaxId + 1
    BY CodecAssumption, Numbers
  <2>3. from_u64(v).error = "none" => v < MaxId + 1 /\ from_u64(v).value = v
    BY <2>4, Numbers DEF from_u64, Err, Ok, Words
  <2>5. v \in Ids
    BY <2>2, <2>3, <2>4, Numbers DEF Words
  <2> QED BY <1>2, <2>1, <2>2, <2>3, <2>5, WrittenForms
<1>3. CASE f = "i64"
  <2>1. PICK v \in Words : h = <<to_i64(v)>>
    BY <1>3 DEF Fits
  <2>2. Outcome(f, h) = try_from_i64(to_i64(v))
    BY <1>3, <2>1 DEF Outcome
  <2>3. WORD \div 2 = MaxId + 1 /\ WORD = 2 * (MaxId + 1)
    BY CodecAssumption, Numbers
  <2>4. try_from_i64(to_i64(v)).error = "none" => ~(to_i64(v) < 0)
    BY DEF try_from_i64, Err
  <2>5. v \in Ids /\ to_i64(v) = v
    BY <2>2, <2>3, <2>4, Numbers DEF Words, to_i64
  <2>6. Outcome(f, h).value = v /\ as_i64(v) = v
    BY <2>2, <2>4, <2>5 DEF try_from_i64, Ok, as_i64
  <2> QED BY <1>3, <2>1, <2>5, <2>6, WrittenForms
<1>4. CASE f = "parts"
  <2>1. PICK ts \in Nat, mid \in Nat, seq \in Nat : h = <<ts, mid, seq>>
    BY <1>4 DEF Fits
  <2>2. Outcome(f, h) = from_parts(ts, mid, seq)
    BY <1>4, <2>1 DEF Outcome
  <2>3. /\ ts \in 0 .. TS_MASK /\ mid \in 0 .. MID_MASK /\ seq \in 0 .. SEQ_MASK
        /\ from_parts(ts, mid, seq).value = from_parts_unchecked(ts, mid, seq)
    BY <2>2, LayoutAssumption DEF from_parts, Err, Ok
  <2> QED BY <1>4, <2>1, <2>2, <2>3, FieldsRoundTrip, WrittenForms
<1> QED BY <1>1, <1>2, <1>3, <1>4 DEF Forms

LEMMA MadeUpFits ==
  ASSUME NEW f \in Forms, NEW h \in MadeUp(f)
  PROVE  Fits(f, h)
<1>1. CASE f = "text"
  <2>1. PICK n \in 0 .. MaxText : h \in [1 .. n -> Chars]
    BY <1>1 DEF MadeUp, SeqOf
  <2>2. n \in Nat
    BY <2>1, CodecAssumption
  <2>3. h \in Seq(Chars)
    BY <2>1, <2>2
  <2> QED BY <1>1, <2>3 DEF Fits
<1>2. CASE f = "u64"
  BY <1>2 DEF MadeUp, Fits, Words
<1>3. CASE f = "i64"
  <2>1. PICK i \in -(WORD \div 2) .. WORD \div 2 - 1 : h = <<i>>
    BY <1>3 DEF MadeUp
  <2>2. WORD \div 2 = MaxId + 1 /\ WORD = 2 * (MaxId + 1)
    BY CodecAssumption, Numbers
  <2>3. i \in Int /\ -(MaxId + 1) <= i /\ i <= MaxId
    BY <2>1, <2>2, Numbers
  <2>4. \E v \in Words : i = to_i64(v)
    <3>1. CASE i >= 0
      <4>1. i \in Words /\ to_i64(i) = i
        BY <2>2, <2>3, <3>1, Numbers DEF Words, to_i64
      <4> QED BY <4>1
    <3>2. CASE i < 0
      <4>1. i + WORD \in Words /\ to_i64(i + WORD) = i
        BY <2>2, <2>3, <3>2, Numbers DEF Words, to_i64
      <4> QED BY <4>1
    <3> QED BY <2>3, <3>1, <3>2
  <2> QED BY <1>3, <2>1, <2>4 DEF Fits
<1>4. CASE f = "parts"
  <2>1. h \in (0 .. TS_MASK + 1) \X (0 .. MID_MASK + 1) \X (0 .. SEQ_MASK + 1)
    BY <1>4 DEF MadeUp
  <2>2. /\ 0 .. TS_MASK + 1 \subseteq Nat /\ 0 .. MID_MASK + 1 \subseteq Nat
        /\ 0 .. SEQ_MASK + 1 \subseteq Nat
    BY LayoutAssumption
  <2> QED BY <1>4, <2>1, <2>2 DEF Fits
<1> QED BY <1>1, <1>2, <1>3, <1>4 DEF Forms

LEMMA InitCodec == Init => CodecInv
  BY DEF Init, CodecInv, Fits

LEMMA CodecStep == CodecInv /\ [Next]_vars => CodecInv'
<1> SUFFICES ASSUME CodecInv, [Next]_vars PROVE CodecInv'
  OBVIOUS
<1>1. CASE Write
  <2>1. /\ form' \in Forms /\ source' \in Ids /\ hand' = Written(source')[form']
        /\ result' = NoResult
    BY <1>1 DEF Write
  <2>2. form' # "none" /\ Fits(form', hand')
    BY <2>1, ReadWritten DEF Forms
  <2> QED BY <2>1, <2>2 DEF CodecInv
<1>2. CASE MakeUp
  <2>1. /\ form' \in Forms /\ hand' \in MadeUp(form') /\ source' = NULL
        /\ result' = NoResult
    BY <1>2 DEF MakeUp
  <2>2. Fits(form', hand')
    BY <2>1, MadeUpFits
  <2> QED BY <2>1, <2>2 DEF CodecInv
<1>3. CASE Cast
  <2>1. ASSUME form = "u64", form' = "i64", hand' = <<to_i64(hand[1])>>
        PROVE  CodecInv'
    <3>1. PICK v \in Words : hand = <<v>>
      BY <2>1 DEF CodecInv, Fits
    <3>2. Fits(form', hand')
      BY <2>1, <3>1 DEF Fits
    <3>3. ASSUME source # NULL
          PROVE  source \in Ids /\ hand' = Written(source)[form']
      <4>1. source \in Ids /\ hand = <<source>>
        BY <2>1, <3>3, WrittenForms DEF CodecInv
      <4> QED BY <2>1, <4>1, WrittenForms DEF as_i64
    <3> QED BY <1>3, <2>1, <3>2, <3>3 DEF Cast, CodecInv, Forms
  <2>2. ASSUME form = "i64", form' = "u64", hand' = <<to_u64(hand[1])>>
        PROVE  CodecInv'
    <3>1. PICK v \in Words : hand = <<to_i64(v)>>
      BY <2>2 DEF CodecInv, Fits
    <3>2. hand' = <<v>>
      BY <2>2, <3>1, IntegerForms DEF Words
    <3>3. Fits(form', hand')
      BY <2>2, <3>2 DEF Fits
    <3>4. ASSUME source # NULL
          PROVE  source \in Ids /\ hand' = Written(source)[form']
      <4>1. source \in Ids /\ hand = <<as_i64(source)>>
        BY <2>2, <3>4, WrittenForms DEF CodecInv
      <4>2. source \in Words /\ to_u64(to_i64(source)) = source
        BY <4>1, IntegerForms, Numbers DEF Words
      <4>3. hand' = <<source>>
        BY <2>2, <4>1, <4>2 DEF as_i64
      <4> QED BY <2>2, <4>1, <4>3, WrittenForms
    <3> QED BY <1>3, <2>2, <3>3, <3>4 DEF Cast, CodecInv, Forms
  <2> QED BY <1>3, <2>1, <2>2 DEF Cast
<1>4. CASE Read
  BY <1>4 DEF Read, CodecInv
<1>5. CASE UNCHANGED vars
  BY <1>5 DEF vars, CodecInv
<1> QED BY <1>1, <1>2, <1>3, <1>4, <1>5 DEF Next

(* Whatever is written, made up, cast and read: what is in hand is a form   *)
(* of its kind, it is the source's own as long as there is a source, and    *)
(* the last result is the one of reading it.                               *)
THEOREM HandInvariant == Spec => []CodecInv
<1> QED BY InitCodec, CodecStep, PTL DEF Spec

(* Any ID survives being written in any of its forms and read again,        *)
(* integers being cast on the way.                                         *)
THEOREM NothingIsLost == Spec => []RoundTrip
<1>1. CodecInv => RoundTrip
  <2> SUFFICES ASSUME CodecInv, source # NULL, result # NoResult
               PROVE  result.error = "none" /\ result.value # NULL
                      /\ result.value = source
    BY DEF RoundTrip, WasRead, Accepted
  <2>1. /\ form \in Forms /\ source \in Ids
        /\ result = Outcome(form, Written(source)[form])
    BY DEF CodecInv
  <2> QED BY <2>1, ReadWritten
<1> QED BY <1>1, HandInvariant, PTL

(* No two texts, integers or triples are accepted as one ID.                *)
THEOREM FormsAreCanonical == Spec => []OneFormPerId
<1>1. CodecInv => OneFormPerId
  <2> SUFFICES ASSUME CodecInv, result.error = "none", result.value # NULL
               PROVE  result.value \in Ids /\ hand = Written(result.value)[form]
    BY DEF OneFormPerId, Accepted
  <2>1. form # "none" /\ result = Outcome(form, hand)
    BY DEF CodecInv, NoResult
  <2>2. form \in Forms /\ Fits(form, hand)
    BY <2>1 DEF CodecInv
  <2> QED BY <2>1, <2>2, WriteRead
<1> QED BY <1>1, HandInvariant, PTL

(* A refusal is never wrong about what is the matter.                       *)
THEOREM RefusalsAreJustified == Spec => []RefusalsAreTrue
<1>1. ASSUME CodecInv PROVE RefusalsAreTrue
  <2>1. CASE result = NoResult
    BY <2>1 DEF RefusalsAreTrue, NoResult
  <2>2. CASE form = "text" /\ result = decode(hand)
    <3> DEFINE r == decode_str(hand)
    <3>1. hand \in Seq(Chars)
      BY <1>1, <2>2 DEF CodecInv, Fits
    <3>2. /\ r \in TextOutcomes
          /\ r.error = "InvalidCharacter" =>
               /\ r.index \in 0 .. Len(hand) - 1 /\ hand[r.index + 1] = INVALID
               /\ \A i \in 1 .. r.index : hand[i] # INVALID
          /\ r.error = "Overflow" =>
               \E k \in 1 .. Len(hand) : /\ \A i \in 1 .. k : hand[i] # INVALID
                                         /\ Denoted(k) > MaxId
      BY <3>1, DecodeStr DEF UpTo, Denoted
    <3> HIDE DEF r
    <3>3. r.error # "none" => result = r
      BY <2>2 DEF decode, r
    <3>4. r.error = "none" => result.error = "none"
      BY <2>2, <3>2 DEF decode, r, TextOutcomes
    <3>5. result.error = r.error /\ r.error \in TextErrors
      BY <3>2, <3>3, <3>4 DEF TextOutcomes
    <3> QED BY <3>2, <3>3, <3>5 DEF RefusalsAreTrue, TextErrors
  <2>3. CASE form = "u64" /\ result = from_u64(hand[1])
    <3>1. PICK v \in Words : hand = <<v>>
      BY <1>1, <2>3 DEF CodecInv, Fits
    <3>2. WORD \div 2 = MaxId + 1
      BY CodecAssumption, Numbers
    <3>3. result.error = "none" \/ (result.error = "SignBitSet" /\ v > MaxId)
      BY <2>3, <3>1, <3>2, Numbers DEF from_u64, Err, Ok, Words
    <3>4. result.error = "SignBitSet" => hand[1] \notin Ids
      BY <3>1, <3>3, Numbers
    <3> QED BY <2>3, <3>3, <3>4 DEF RefusalsAreTrue
  <2>4. CASE form = "i64" /\ result = try_from_i64(hand[1])
    <3>1. result.error = "none" \/ (result.error = "SignBitSet" /\ hand[1] < 0)
      BY <2>4 DEF try_from_i64, Err, Ok
    <3>2. result.error = "SignBitSet" => hand[1] \notin Ids
      BY <3>1, Numbers
    <3> QED BY <2>4, <3>1, <3>2 DEF RefusalsAreTrue
  <2>5. CASE form = "parts" /\ result = from_parts(hand[1], hand[2], hand[3])
    <3>1. \/ result.error = "none"
          \/ result.error = "MachineIdOutOfRange" /\ hand[2] > MID_MASK
          \/ result.error = "TimestampOutOfRange" /\ hand[1] > TS_MASK
          \/ result.error = "SequenceOutOfRange" /\ hand[3] > SEQ_MASK
      BY <2>5 DEF from_parts, Err, Ok
    <3> QED BY <3>1, LargestFields DEF RefusalsAreTrue
  <2> QED BY <1>1, <2>1, <2>2, <2>3, <2>4, <2>5 DEF CodecInv, Forms, Outcome
<1> QED BY <1>1, HandInvariant, PTL

(* The length of a text depends on the sequence number first, then on the   *)
(* machine ID, then on the date.                                           *)
THEOREM EarlierIsShorter == Spec => []EarlierIsNoLonger
<1>1. ASSUME CodecInv, source # NULL, form = "text", NEW id \in Ids,
             ~(sequence(id) > sequence(source)),
             ~(sequence(id) = sequence(source) /\ machine_id(id) > machine_id(source)),
             ~(/\ sequence(id) = sequence(source)
               /\ machine_id(id) = machine_id(source)
               /\ timestamp(id) > timestamp(source))
      PROVE  Len(encode(id)) <= Len(hand)
  <2>1. source \in Ids /\ hand = encode(source)
    BY <1>1, WrittenForms DEF CodecInv
  <2>2. transform(id) <= transform(source)
    <3> DEFINE ts == timestamp(id)  mid == machine_id(id)  seq == sequence(id)
               ts2 == timestamp(source)  mid2 == machine_id(source)
               seq2 == sequence(source)
               hi == seq * MidSpan + mid  hi2 == seq2 * MidSpan + mid2
    <3>1. /\ ts \in Nat /\ mid \in Nat /\ seq \in Nat
          /\ ts2 \in Nat /\ mid2 \in Nat /\ seq2 \in Nat
          /\ mid < MidSpan /\ mid2 < MidSpan /\ ts < TsSpan /\ ts2 < TsSpan
      BY <2>1, FieldTypes, LayoutAssumption DEF MidSpan, TsSpan
    <3>2. /\ transform(id) = hi * TsSpan + ts /\ transform(source) = hi2 * TsSpan + ts2
      BY DEF transform
    <3>3. /\ ~(seq > seq2)
          /\ ~(seq = seq2 /\ mid > mid2)
          /\ ~(seq = seq2 /\ mid = mid2 /\ ts > ts2)
      BY <1>1
    <3> HIDE DEF ts, mid, seq, ts2, mid2, seq2
    <3>4. hi \in Nat /\ hi2 \in Nat /\ TsSpan \in Nat
      BY <3>1, CodecSpans
    <3>5. hi < hi2 \/ (hi = hi2 /\ ts <= ts2)
      <4>1. CASE seq < seq2
        <5>1. seq * MidSpan + MidSpan <= seq2 * MidSpan
          BY <3>1, <4>1, CodecSpans, MulMono
        <5>2. seq * MidSpan \in Nat /\ seq2 * MidSpan \in Nat
          BY <3>1, CodecSpans
        <5> QED BY <3>1, <5>1, <5>2, CodecSpans
      <4>2. CASE seq = seq2
        <5>1. seq * MidSpan \in Nat
          BY <3>1, CodecSpans
        <5> QED BY <3>1, <3>3, <4>2, <5>1
      <4> QED BY <3>1, <3>3, <4>1, <4>2
    <3> HIDE DEF hi, hi2
    <3>6. hi < hi2 => hi * TsSpan + TsSpan <= hi2 * TsSpan
      BY <3>4, MulMono
    <3>7. hi * TsSpan \in Nat /\ hi2 * TsSpan \in Nat
      BY <3>4
    <3>8. hi * TsSpan + ts <= hi2 * TsSpan + ts2
      BY <3>1, <3>4, <3>5, <3>6, <3>7
    <3> QED BY <3>2, <3>8
  <2>3. transform(id) \in Nat /\ transform(source) \in Nat
    BY <2>1, UntransformTransform, Numbers
  <2> QED BY <2>1, <2>2, <2>3, LengthMonotone DEF encode, encode_into
<1>2. CodecInv => EarlierIsNoLonger
  BY <1>1 DEF EarlierIsNoLonger
<1> QED BY <1>2, HandInvariant, PTL
=============================================================================
