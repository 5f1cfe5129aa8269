------------------------- MODULE MaskAnalysis_proofs -------------------------
(***************************************************************************)
(* What TLAPS proves of the decoding of masks.  First of the operations of *)
(* MaskState, for ranges, limits and tiles of any size, known to the       *)
(* compiler or not; then of every kernel MaskAnalysis can build with them. *)
(***************************************************************************)
EXTENDS MaskAnalysis, FiniteSetTheorems, SequenceTheorems, TLAPS

-----------------------------------------------------------------------------
(* Numbers of either kind *)

Number(a) == a.kind \in {"attr", "constant", "value"} /\ a.val \in Int

LEMMA Emitted ==
  ASSUME NEW a, NEW b, Number(a), Number(b)
  PROVE  /\ Emit(Plus, a, b) = Value(a.val + b.val)
         /\ Emit(Minus, a, b) = Value(a.val - b.val)
         /\ Emit(MinOf, a, b) = Value(MinOf(a.val, b.val))
         /\ Emit(MaxOf, a, b) = Value(MaxOf(a.val, b.val))
<1>1. ~IsTensor(a) /\ ~IsTensor(b)
  BY DEF Number, IsTensor
<1> QED BY <1>1 DEF Emit, Plus, Minus

LEMMA NumberType ==
  ASSUME NEW n \in Int
  PROVE  /\ Number(Attr(n)) /\ Attr(n).val = n /\ Attr(n).kind = "attr"
         /\ Number(Value(n)) /\ Value(n).val = n
  BY DEF Attr, Value, Number

LEMMA AddType ==
  ASSUME NEW a, NEW b, Number(a), Number(b)
  PROVE  Number(AddOFRs(a, b)) /\ AddOFRs(a, b).val = a.val + b.val
<1>1. CASE IsAttr(a) /\ IsAttr(b)
  <2>1. AddOFRs(a, b) = Attr(a.val + b.val)
    BY <1>1, Zenon DEF AddOFRs
  <2>2. a.val + b.val \in Int
    BY DEF Number
  <2> QED BY <2>1, <2>2, NumberType
<1>2. CASE ~IsAttr(a) /\ IsAttr(b) /\ b.val = 0
  <2>1. AddOFRs(a, b) = a
    BY <1>2, Zenon DEF AddOFRs
  <2> QED BY <1>2, <2>1 DEF Number
<1>3. CASE ~IsAttr(b) /\ IsAttr(a) /\ a.val = 0
  <2>1. AddOFRs(a, b) = b
    BY <1>3, Zenon DEF AddOFRs
  <2> QED BY <1>3, <2>1 DEF Number
<1>4. CASE /\ ~(IsAttr(a) /\ IsAttr(b))
           /\ ~(~IsAttr(a) /\ IsAttr(b) /\ b.val = 0)
           /\ ~(~IsAttr(b) /\ IsAttr(a) /\ a.val = 0)
  <2>1. AddOFRs(a, b) = Emit(Plus, a, b)
    BY <1>4, Zenon DEF AddOFRs
  <2>2. a.val + b.val \in Int
    BY DEF Number
  <2>3. AddOFRs(a, b) = Value(a.val + b.val)
    BY <2>1, Emitted
  <2>4. \A n \in Int : Number(Value(n)) /\ Value(n).val = n
    BY NumberType
  <2> QED BY <2>2, <2>3, <2>4
<1> QED BY <1>1, <1>2, <1>3, <1>4

LEMMA SubType ==
  ASSUME NEW a, NEW b, Number(a), Number(b)
  PROVE  Number(SubOFRs(a, b)) /\ SubOFRs(a, b).val = a.val - b.val
<1>1. CASE IsAttr(a) /\ IsAttr(b)
  <2>1. SubOFRs(a, b) = Attr(a.val - b.val)
    BY <1>1, Zenon DEF SubOFRs
  <2>2. a.val - b.val \in Int
    BY DEF Number
  <2> QED BY <2>1, <2>2, NumberType
<1>2. CASE ~IsAttr(a) /\ IsAttr(b) /\ b.val = 0
  <2>1. SubOFRs(a, b) = a
    BY <1>2, Zenon DEF SubOFRs
  <2> QED BY <1>2, <2>1 DEF Number
<1>3. CASE ~(IsAttr(a) /\ IsAttr(b)) /\ ~(~IsAttr(a) /\ IsAttr(b) /\ b.val = 0)
  <2>1. SubOFRs(a, b) = Emit(Minus, a, b)
    BY <1>3, Zenon DEF SubOFRs
  <2>2. a.val - b.val \in Int
    BY DEF Number
  <2> QED BY <2>1, <2>2, Emitted, NumberType
<1> QED BY <1>1, <1>2, <1>3

LEMMA MinMaxType ==
  ASSUME NEW a, NEW b, Number(a), Number(b)
  PROVE  /\ Number(MinOFRs(a, b)) /\ MinOFRs(a, b).val = MinOf(a.val, b.val)
         /\ Number(MaxOFRs(a, b)) /\ MaxOFRs(a, b).val = MaxOf(a.val, b.val)
<1>1. MinOf(a.val, b.val) \in Int /\ MaxOf(a.val, b.val) \in Int
  BY DEF Number, MinOf, MaxOf
<1>2. MinOFRs(a, b) \in {Attr(MinOf(a.val, b.val)), Value(MinOf(a.val, b.val))}
  BY Emitted DEF MinOFRs
<1>3. MaxOFRs(a, b) \in {Attr(MaxOf(a.val, b.val)), Value(MaxOf(a.val, b.val))}
  BY Emitted DEF MaxOFRs
<1> QED BY <1>1, <1>2, <1>3, NumberType

-----------------------------------------------------------------------------
(* Ranges *)

(* The numbers s, s + 1, ... of n elements; the number v of every element. *)
IsRange(st, s, n) ==
  /\ st = MaskOf(st.start, st.end, Absent, <<Attr(n)>>)
  /\ Number(st.start) /\ st.start.val = s
  /\ Number(st.end) /\ st.end.val = s + n

IsUniform(st, v) ==
  /\ st = MaskOf(Absent, Absent, st.scalar, st.dims)
  /\ Number(st.scalar) /\ st.scalar.val = v

LEMMA Kinds ==
  /\ \A a : Number(a) => Present(a)
  /\ ~Present(Absent)
  BY DEF Number, Present, Absent

LEMMA RangeMade ==
  ASSUME NEW s \in Int, NEW n \in Nat
  PROVE  IsRange(parseMakeRange(s, n), s, n)
  BY NumberType DEF parseMakeRange, IsRange, MaskOf

(* Adding a number to a range, on either side, shifts it. *)
LEMMA AddShifts ==
  ASSUME NEW l, NEW r, NEW s \in Int, NEW n \in Nat, NEW k \in Int,
         IsRange(l, s, n), IsUniform(r, k)
  PROVE  IsRange(parseAdd(l, r), s + k, n) /\ IsRange(parseAdd(r, l), s + k, n)
<1> DEFINE sum == MaskOf(AddOFRs(l.start, r.scalar), AddOFRs(l.end, r.scalar), Absent, <<Attr(n)>>)
<1>1. /\ Parsed(l) /\ Parsed(r) /\ ~isScalar(l) /\ isScalar(r)
      /\ Present(l.start) /\ Present(l.end)
  BY Kinds DEF IsRange, IsUniform, MaskOf, Parsed, isScalar
<1>2. addStateScalar(l, r.scalar) = sum
  <2> DEFINE a == l.start
             b == l.end
  <2>1. l = [outcome |-> "ok", start |-> a, end |-> b, scalar |-> Absent, dims |-> <<Attr(n)>>]
    BY DEF IsRange, MaskOf
  <2>2. addStateScalar(l, r.scalar) =
          [l EXCEPT !.start = AddOFRs(l.start, r.scalar), !.end = AddOFRs(l.end, r.scalar)]
    BY <1>1 DEF addStateScalar
  <2>3. sum = [outcome |-> "ok", start |-> AddOFRs(a, r.scalar), end |-> AddOFRs(b, r.scalar),
               scalar |-> Absent, dims |-> <<Attr(n)>>]
    BY DEF MaskOf
  <2>4. a = l.start /\ b = l.end
    OBVIOUS
  <2> HIDE DEF a, b, sum
  <2> QED BY <2>1, <2>2, <2>3, <2>4
<1>3. parseAdd(l, r) = sum /\ parseAdd(r, l) = sum
  BY <1>1, <1>2 DEF parseAdd, BothParsed
<1>4. IsRange(sum, s + k, n)
  <2>1. /\ Number(AddOFRs(l.start, r.scalar)) /\ AddOFRs(l.start, r.scalar).val = s + k
        /\ Number(AddOFRs(l.end, r.scalar)) /\ AddOFRs(l.end, r.scalar).val = (s + n) + k
    BY AddType DEF IsRange, IsUniform
  <2> QED BY <2>1 DEF IsRange, MaskOf
<1> QED BY <1>3, <1>4

-----------------------------------------------------------------------------
(* Comparisons *)

LEMMA CmpClips ==
  ASSUME NEW l, NEW r, NEW s \in Int, NEW n \in Nat, n > 1, NEW limit \in Int,
         IsRange(l, s, n), IsUniform(r, limit), NEW pred \in {"slt", "ult"}
  PROVE  /\ parseCmp(l, r, pred) = MaskOf(Absent, Absent, Absent, <<ClampedDim(l, r.scalar)>>)
         /\ ClampedDim(l, r.scalar).val = MaxOf(MinOf(s + n, limit), s) - s
<1>1. /\ Parsed(l) /\ Parsed(r) /\ ~isScalar(l) /\ isScalar(r)
      /\ Present(l.start) /\ Present(l.end) /\ l.dims = <<Attr(n)>>
  BY Kinds DEF IsRange, IsUniform, MaskOf, Parsed, isScalar
<1>2. WideDims(l) = {1}
  <2>1. Attr(n) # Attr(1)
    BY DEF Attr
  <2> QED BY <1>1, <2>1 DEF WideDims
<1>3. CmpDim(l, r) = 1
  BY <1>1, <1>2 DEF CmpDim
<1>4. ~TooWide(l, r)
  <2>1. Cardinality({1}) = 1
    BY FS_Singleton
  <2> QED BY <1>1, <1>2, <2>1 DEF TooWide
<1>5. CmpAsserts(l, r, pred)
  BY <1>1, <1>3 DEF CmpAsserts
<1>6. NewDim(l, r, pred) = ClampedDim(l, r.scalar)
  BY <1>1 DEF NewDim
<1>7. [d \in DOMAIN l.dims |-> IF d = CmpDim(l, r) THEN NewDim(l, r, pred) ELSE l.dims[d]]
        = <<ClampedDim(l, r.scalar)>>
  BY <1>1, <1>3, <1>6
<1>8. parseCmp(l, r, pred) = MaskOf(Absent, Absent, Absent, <<ClampedDim(l, r.scalar)>>)
  BY <1>1, <1>4, <1>5, <1>7 DEF parseCmp, BothParsed
<1>9. ClampedDim(l, r.scalar).val = MaxOf(MinOf(s + n, limit), s) - s
  <2>1. Number(l.start) /\ Number(l.end) /\ Number(r.scalar)
        /\ l.start.val = s /\ l.end.val = s + n /\ r.scalar.val = limit
    BY DEF IsRange, IsUniform
  <2> QED BY <2>1, MinMaxType, SubType DEF ClampedDim
<1> QED BY <1>8, <1>9

(* offsets < limit (MaskState::parseCmp): of a range of more than one      *)
(* element (a shorter one is folded before), wherever it starts and        *)
(* wherever the limit lies, the mask selects the elements for which the    *)
(* comparison holds, and its box lies in the tile.  An unsigned comparison *)
(* is decoded as a signed one: neither side may be negative.               *)
THEOREM ComparisonExact ==
  ASSUME NEW l, NEW r, NEW s \in Int, NEW n \in Nat, n > 1, NEW limit \in Int,
         IsRange(l, s, n), IsUniform(r, limit),
         NEW pred \in {"slt", "ult"}, pred = "ult" => s >= 0 /\ limit >= 0
  PROVE  /\ parseCmp(l, r, pred).dims[1].val \in 0 .. n
         /\ \A i \in 0 .. n - 1 : Selects(parseCmp(l, r, pred), <<i>>) <=> Holds(pred, s + i, limit)
<1> DEFINE d == ClampedDim(l, r.scalar)
<1>1. parseCmp(l, r, pred).dims = <<d>> /\ d.val = MaxOf(MinOf(s + n, limit), s) - s
  <2>1. /\ parseCmp(l, r, pred) = MaskOf(Absent, Absent, Absent, <<d>>)
        /\ d.val = MaxOf(MinOf(s + n, limit), s) - s
    BY CmpClips
  <2> HIDE DEF d
  <2> QED BY <2>1 DEF MaskOf
<1> HIDE DEF d
<1>2. d.val \in 0 .. n /\ \A i \in 0 .. n - 1 : i < d.val <=> s + i < limit
  BY <1>1 DEF MaxOf, MinOf
<1>3. \A i : Selects(parseCmp(l, r, pred), <<i>>) <=> i < d.val
  BY <1>1 DEF Selects
<1>4. \A i \in 0 .. n - 1 : Holds(pred, s + i, limit) <=> s + i < limit
  <2> SUFFICES ASSUME NEW i \in 0 .. n - 1 PROVE Holds(pred, s + i, limit) <=> s + i < limit
    OBVIOUS
  <2>1. CASE pred = "slt"
    BY <2>1, Zenon DEF Holds
  <2>2. CASE pred = "ult"
    <3>1. Holds(pred, s + i, limit) <=>
            IF (s + i < 0) = (limit < 0) THEN s + i < limit ELSE limit < 0
      BY <2>2, Zenon DEF Holds
    <3>2. ~(s + i < 0) /\ ~(limit < 0)
      BY <2>2
    <3> QED BY <3>1, <3>2
  <2> QED BY <2>1, <2>2
<1> QED BY <1>1, <1>2, <1>3, <1>4

-----------------------------------------------------------------------------
(* Conjunctions *)

(* A box, one bound for each dimension. *)
IsBox(st) ==
  /\ st = MaskOf(Absent, Absent, Absent, st.dims) /\ st.dims # <<>>
  /\ st.dims \in Seq([kind : {"attr", "constant", "value"}, val : Int])

(* a & b of two masks (MaskState::parseAnd): the box of the conjunction is *)
(* that of both, dimension by dimension, for masks of any equal rank.      *)
THEOREM ConjunctionExact ==
  ASSUME NEW l, NEW r, IsBox(l), IsBox(r), Len(l.dims) = Len(r.dims),
         NEW x, DOMAIN x = DOMAIN l.dims, \A d \in DOMAIN x : x[d] \in Int
  PROVE  Selects(parseAnd(l, r), x) <=> Selects(l, x) /\ Selects(r, x)
<1> DEFINE D == [kind : {"attr", "constant", "value"}, val : Int]
<1>1. l.dims \in Seq(D) /\ r.dims \in Seq(D)
  BY DEF IsBox
<1> HIDE DEF D
<1>2. /\ DOMAIN l.dims = 1 .. Len(l.dims) /\ DOMAIN r.dims = DOMAIN l.dims
      /\ \A d \in DOMAIN l.dims : l.dims[d] \in D /\ r.dims[d] \in D
  BY <1>1, LenProperties, ElementOfSeq
<1>3. \A d \in DOMAIN l.dims : Number(l.dims[d]) /\ Number(r.dims[d])
  BY <1>2 DEF Number, D
<1>4. Parsed(l) /\ Parsed(r) /\ isMask(l) /\ isMask(r)
  BY Kinds DEF IsBox, MaskOf, Parsed, isMask
<1>5. parseAnd(l, r).dims = minStates(l, r)
  BY <1>4 DEF parseAnd, BothParsed, MaskOf
<1>6. \A d \in DOMAIN l.dims : minStates(l, r)[d].val = MinOf(l.dims[d].val, r.dims[d].val)
  BY <1>3, MinMaxType DEF minStates
<1>7. ASSUME NEW d \in DOMAIN x
      PROVE  x[d] < parseAnd(l, r).dims[d].val <=> x[d] < l.dims[d].val /\ x[d] < r.dims[d].val
  <2>1. l.dims[d].val \in Int /\ r.dims[d].val \in Int /\ x[d] \in Int
    BY <1>3, <1>7 DEF Number
  <2> QED BY <1>5, <1>6, <1>7, <2>1 DEF MinOf
<1> QED BY <1>7 DEF Selects

-----------------------------------------------------------------------------
(* The masks kernels are written with *)

(* base + arange(n) < limit, on n elements of one dimension *)
Offsets(base, n) == parseAdd(parseUniform(base, <<n>>), parseMakeRange(0, n))

Below(base, n, limit) == parseCmp(Offsets(base, n), parseUniform(limit, <<n>>), "slt")

LEMMA UniformType ==
  ASSUME NEW a, Number(a), NEW shape PROVE IsUniform(parseUniform(a, shape), a.val)
  BY DEF parseUniform, IsUniform, MaskOf

LEMMA BelowIs ==
  ASSUME NEW base, Number(base), NEW limit, Number(limit), NEW n \in Nat, n > 1
  PROVE  \E bound : /\ Number(bound) /\ bound.val \in 0 .. n
                    /\ Below(base, n, limit) = MaskOf(Absent, Absent, Absent, <<bound>>)
                    /\ \A i \in 0 .. n - 1 : i < bound.val <=> base.val + i < limit.val
<1>1. base.val \in Int /\ limit.val \in Int
  BY DEF Number
<1> DEFINE shape == <<n>>
<1> HIDE DEF shape
<1>2. IsRange(Offsets(base, n), 0 + base.val, n)
  <2>1. IsUniform(parseUniform(base, shape), base.val) /\ IsRange(parseMakeRange(0, n), 0, n)
    BY UniformType, RangeMade
  <2>2. IsRange(parseAdd(parseUniform(base, shape), parseMakeRange(0, n)), 0 + base.val, n)
    BY <1>1, <2>1, AddShifts
  <2> QED BY <2>2 DEF Offsets, shape
<1>3. IsUniform(parseUniform(limit, shape), limit.val)
  BY UniformType
<1> DEFINE bound == ClampedDim(Offsets(base, n), parseUniform(limit, shape).scalar)
<1>4. /\ Below(base, n, limit) = MaskOf(Absent, Absent, Absent, <<bound>>)
      /\ bound.val = MaxOf(MinOf(base.val + n, limit.val), base.val) - base.val
  <2>1. 0 + base.val = base.val
    BY <1>1
  <2>2. Below(base, n, limit) = parseCmp(Offsets(base, n), parseUniform(limit, shape), "slt")
    BY DEF Below, shape
  <2> QED BY <1>1, <1>2, <1>3, <2>1, <2>2, CmpClips
<1>5. Number(bound)
  BY <1>2, <1>3, MinMaxType, SubType DEF ClampedDim, IsRange, IsUniform
<1> HIDE DEF bound
<1>6. bound.val \in 0 .. n /\ \A i \in 0 .. n - 1 : i < bound.val <=> base.val + i < limit.val
  BY <1>1, <1>4 DEF MaxOf, MinOf
<1> QED BY <1>4, <1>5, <1>6

LEMMA Pair ==
  ASSUME NEW a, NEW b
  PROVE  <<a>> \o <<b>> = <<a, b>>
<1> DEFINE S == {a, b}
<1>1. <<a>> \in Seq(S) /\ <<b>> \in Seq(S) /\ <<a, b>> \in Seq(S)
  OBVIOUS
<1>2. Len(<<a>>) = 1 /\ Len(<<b>>) = 1 /\ Len(<<a, b>>) = 2 /\ <<a>>[1] = a /\ <<b>>[1] = b
      /\ <<a, b>>[1] = a /\ <<a, b>>[2] = b
  OBVIOUS
<1> DEFINE p == <<a>>
           q == <<b>>
           t == <<a, b>>
<1>3. p \in Seq(S) /\ q \in Seq(S) /\ t \in Seq(S) /\ Len(p) = 1 /\ Len(q) = 1 /\ Len(t) = 2
      /\ p[1] = a /\ q[1] = b /\ t[1] = a /\ t[2] = b
  BY <1>1, <1>2
<1> HIDE DEF S, p, q, t
<1>4. /\ p \o q \in Seq(S) /\ Len(p \o q) = 2
      /\ \A i \in 1 .. 2 : (p \o q)[i] = IF i <= 1 THEN p[i] ELSE q[i - 1]
  BY <1>3, ConcatProperties
<1>5. \A i \in 1 .. 2 : (p \o q)[i] = t[i]
  BY <1>3, <1>4
<1>6. p \o q = t
  BY <1>3, <1>4, <1>5, SeqEqual
<1> QED BY <1>6 DEF p, q, t

LEMMA Expanded ==
  ASSUME NEW a
  PROVE  /\ parseExpandDims(MaskOf(Absent, Absent, Absent, <<a>>), 2)
              = MaskOf(Absent, Absent, Absent, <<a, Attr(1)>>)
         /\ parseExpandDims(MaskOf(Absent, Absent, Absent, <<a>>), 1)
              = MaskOf(Absent, Absent, Absent, <<Attr(1), a>>)
<1> DEFINE b == Attr(1)
           S == {a, b}
           p == <<a>>
           q == <<b>>
           st == MaskOf(Absent, Absent, Absent, p)
<1>1. p \in Seq(S) /\ q \in Seq(S) /\ Len(p) = 1
  OBVIOUS
<1>2. Parsed(st) /\ st.dims = p
      /\ \A dims : [st EXCEPT !.dims = dims] = MaskOf(Absent, Absent, Absent, dims)
  BY DEF Parsed, MaskOf
<1>3. p \o q = <<a, b>> /\ q \o p = <<b, a>>
  BY Pair
<1> HIDE DEF S, p, q, st
<1>4. SubSeq(p, 1, 1) = p /\ SubSeq(p, 2, 1) = <<>> /\ SubSeq(p, 1, 0) = <<>>
  BY <1>1, SubSeqFull, SubSeqEmpty
<1>5. p \o q \in Seq(S)
  BY <1>1, ConcatProperties
<1>6. (p \o q) \o <<>> = p \o q /\ <<>> \o q = q
  BY <1>1, <1>5, ConcatEmptySeq
<1>7. ASSUME NEW axis \in {1, 2}
      PROVE  parseExpandDims(st, axis) =
               MaskOf(Absent, Absent, Absent, (SubSeq(p, 1, axis - 1) \o q) \o SubSeq(p, axis, 1))
  <2>1. parseExpandDims(st, axis) =
          [st EXCEPT !.dims = (SubSeq(st.dims, 1, axis - 1) \o q) \o SubSeq(st.dims, axis, Len(st.dims))]
    <3>1. Parsed(st) /\ ~(axis > Len(st.dims) + 1)
      BY <1>1, <1>2, <1>7
    <3> QED BY <3>1, Zenon DEF parseExpandDims, q, b
  <2> QED BY <1>1, <1>2, <2>1
<1>8. parseExpandDims(st, 2) = MaskOf(Absent, Absent, Absent, p \o q)
  <2>1. parseExpandDims(st, 2) = MaskOf(Absent, Absent, Absent, (SubSeq(p, 1, 2 - 1) \o q) \o SubSeq(p, 2, 1))
    BY <1>7
  <2>2. 2 - 1 = 1
    OBVIOUS
  <2> QED BY <1>4, <1>6, <2>1, <2>2
<1>9. parseExpandDims(st, 1) = MaskOf(Absent, Absent, Absent, q \o p)
  <2>1. parseExpandDims(st, 1) = MaskOf(Absent, Absent, Absent, (SubSeq(p, 1, 1 - 1) \o q) \o SubSeq(p, 1, 1))
    BY <1>7
  <2>2. 1 - 1 = 0
    OBVIOUS
  <2> QED BY <1>4, <1>6, <2>1, <2>2
<1> QED BY <1>3, <1>8, <1>9 DEF st, p

LEMMA PairBroadcast ==
  ASSUME NEW a, NEW b, NEW k, NEW l, NEW m, NEW n
  PROVE  parseBroadcast(MaskOf(Absent, Absent, Absent, <<a, b>>), <<k, l>>, <<m, n>>)
           = MaskOf(Absent, Absent, Absent,
               <<IF k < m THEN Attr(m) ELSE a, IF l < n THEN Attr(n) ELSE b>>)
<1> DEFINE st == MaskOf(Absent, Absent, Absent, <<a, b>>)
           src == <<k, l>>
           dst == <<m, n>>
<1>1. Parsed(st) /\ st.dims = <<a, b>> /\ ~(Len(st.dims) < Len(src))
      /\ \A dims : [st EXCEPT !.dims = dims] = MaskOf(Absent, Absent, Absent, dims)
  BY DEF Parsed, MaskOf
<1>2. parseBroadcast(st, src, dst) =
        [st EXCEPT !.dims = [d \in DOMAIN st.dims |->
           IF d \in DOMAIN src /\ src[d] < dst[d] THEN Attr(dst[d]) ELSE st.dims[d]]]
  BY <1>1, Zenon DEF parseBroadcast
<1>3. [d \in DOMAIN <<a, b>> |-> IF d \in DOMAIN src /\ src[d] < dst[d] THEN Attr(dst[d]) ELSE <<a, b>>[d]]
        = <<IF k < m THEN Attr(m) ELSE a, IF l < n THEN Attr(n) ELSE b>>
  OBVIOUS
<1> QED BY <1>1, <1>2, <1>3

(* The two sides of the mask of a tile of n rows and m columns,            *)
(* (row + arange(n) < rows)[:, None] and                                   *)
(* (column + arange(m) < columns)[None, :]                                 *)
Rows(row, n, rows, m) ==
  parseBroadcast(parseExpandDims(Below(row, n, rows), 2), <<n, 1>>, <<n, m>>)

Columns(column, m, columns, n) ==
  parseBroadcast(parseExpandDims(Below(column, m, columns), 1), <<1, m>>, <<n, m>>)

(* The mask a kernel guards a tile with, made by parseAdd, parseCmp,       *)
(* parseExpandDims, parseBroadcast and parseAnd: wherever the tile lies    *)
(* over the edge of the matrix, exactly its elements within are selected,  *)
(* whether offsets and sizes are known to the compiler or not.             *)
THEOREM TileMaskExact ==
  ASSUME NEW row, Number(row), NEW rows, Number(rows), NEW n \in Nat, n > 1,
         NEW column, Number(column), NEW columns, Number(columns), NEW m \in Nat, m > 1,
         NEW i \in 0 .. n - 1, NEW j \in 0 .. m - 1
  PROVE  Selects(parseAnd(Rows(row, n, rows, m), Columns(column, m, columns, n)), <<i, j>>)
           <=> row.val + i < rows.val /\ column.val + j < columns.val
<1>1. PICK r : /\ Number(r) /\ r.val \in 0 .. n
               /\ Below(row, n, rows) = MaskOf(Absent, Absent, Absent, <<r>>)
               /\ \A k \in 0 .. n - 1 : k < r.val <=> row.val + k < rows.val
  BY BelowIs
<1>2. PICK c : /\ Number(c) /\ c.val \in 0 .. m
               /\ Below(column, m, columns) = MaskOf(Absent, Absent, Absent, <<c>>)
               /\ \A k \in 0 .. m - 1 : k < c.val <=> column.val + k < columns.val
  BY BelowIs
<1>3. Rows(row, n, rows, m) = MaskOf(Absent, Absent, Absent, <<r, Attr(m)>>)
  <2>1. parseExpandDims(Below(row, n, rows), 2) = MaskOf(Absent, Absent, Absent, <<r, Attr(1)>>)
    BY <1>1, Expanded
  <2>2. ~(n < n) /\ 1 < m
    OBVIOUS
  <2> QED BY <2>1, <2>2, PairBroadcast DEF Rows
<1>4. Columns(column, m, columns, n) = MaskOf(Absent, Absent, Absent, <<Attr(n), c>>)
  <2>1. parseExpandDims(Below(column, m, columns), 1) = MaskOf(Absent, Absent, Absent, <<Attr(1), c>>)
    BY <1>2, Expanded
  <2>2. ~(m < m) /\ 1 < n
    OBVIOUS
  <2> QED BY <2>1, <2>2, PairBroadcast DEF Columns
<1>5. Number(Attr(n)) /\ Attr(n).val = n /\ Number(Attr(m)) /\ Attr(m).val = m
  BY NumberType
<1> DEFINE left == MaskOf(Absent, Absent, Absent, <<r, Attr(m)>>)
           right == MaskOf(Absent, Absent, Absent, <<Attr(n), c>>)
<1>6. /\ Parsed(left) /\ Parsed(right) /\ isMask(left) /\ isMask(right)
      /\ left.dims = <<r, Attr(m)>> /\ right.dims = <<Attr(n), c>>
  BY Kinds DEF MaskOf, Parsed, isMask
<1> HIDE DEF left, right
<1>7. parseAnd(left, right) = MaskOf(Absent, Absent, Absent, <<MinOFRs(r, Attr(n)), MinOFRs(Attr(m), c)>>)
  BY <1>6 DEF parseAnd, BothParsed, minStates
<1>8. Selects(parseAnd(left, right), <<i, j>>) <=> i < MinOFRs(r, Attr(n)).val /\ j < MinOFRs(Attr(m), c).val
  BY <1>7 DEF Selects, MaskOf
<1>9. MinOFRs(r, Attr(n)).val = MinOf(r.val, n) /\ MinOFRs(Attr(m), c).val = MinOf(m, c.val)
  BY <1>1, <1>2, <1>5, MinMaxType
<1>10. (i < MinOf(r.val, n) <=> i < r.val) /\ (j < MinOf(m, c.val) <=> j < c.val)
  BY <1>1, <1>2 DEF MinOf
<1> QED BY <1>1, <1>2, <1>3, <1>4, <1>8, <1>9, <1>10 DEF left, right

-----------------------------------------------------------------------------
(* The values of a kernel *)

Numbers == [kind : {"attr", "constant", "value"}, val : Int]

Fields == Numbers \cup {Absent}

MaskStates ==
  [outcome : {"ok", "failed", "crash"}, start : Fields, end : Fields, scalar : Fields,
   dims : Seq(Numbers)]

PtrDims == [offset : Numbers, size : Nat, stride : Numbers, shape : {Attr(0)}]

PtrStates == [outcome : {"ok"}, source : {FALSE}, scalar : Fields, dims : Seq(PtrDims)]

TensorShapes == {s \in Seq(Nat \ {0}) : Len(s) \in 1 .. 2}

LEMMA NumbersAre ==
  /\ \A a \in Numbers : Number(a) /\ Present(a) /\ a.val \in Int
  /\ \A a \in Fields : Present(a) => a \in Numbers
  /\ \A n \in Int : Attr(n) \in Numbers /\ Value(n) \in Numbers /\ Attr(n).val = n /\ Value(n).val = n
  /\ Absent \in Fields /\ ~Present(Absent)
  BY DEF Numbers, Number, Present, Fields, Absent, Attr, Value

LEMMA Arithmetic ==
  ASSUME NEW a \in Numbers, NEW b \in Numbers
  PROVE  /\ AddOFRs(a, b) \in Numbers /\ AddOFRs(a, b).val = a.val + b.val
         /\ SubOFRs(a, b) \in Numbers /\ SubOFRs(a, b).val = a.val - b.val
         /\ MinOFRs(a, b) \in Numbers /\ MinOFRs(a, b).val = MinOf(a.val, b.val)
         /\ MaxOFRs(a, b) \in Numbers /\ MaxOFRs(a, b).val = MaxOf(a.val, b.val)
         /\ Emit(Plus, a, b) \in Numbers
<1>1. Number(a) /\ Number(b) /\ a.val \in Int /\ b.val \in Int
  BY NumbersAre
<1>2. /\ Emit(Plus, a, b) = Value(a.val + b.val)
      /\ Emit(Minus, a, b) = Value(a.val - b.val)
      /\ Emit(MinOf, a, b) = Value(MinOf(a.val, b.val))
      /\ Emit(MaxOf, a, b) = Value(MaxOf(a.val, b.val))
  BY <1>1, Emitted
<1>3. /\ AddOFRs(a, b).val = a.val + b.val /\ SubOFRs(a, b).val = a.val - b.val
      /\ MinOFRs(a, b).val = MinOf(a.val, b.val) /\ MaxOFRs(a, b).val = MaxOf(a.val, b.val)
  BY <1>1, AddType, SubType, MinMaxType
<1>4. \A n \in Int : Attr(n) \in Numbers /\ Value(n) \in Numbers
  BY NumbersAre
<1>5. AddOFRs(a, b) \in {a, b, Attr(a.val + b.val), Value(a.val + b.val)}
  BY <1>2 DEF AddOFRs
<1>6. SubOFRs(a, b) \in {a, Attr(a.val - b.val), Value(a.val - b.val)}
  BY <1>2 DEF SubOFRs
<1>7. MinOFRs(a, b) \in {Attr(MinOf(a.val, b.val)), Value(MinOf(a.val, b.val))}
  BY <1>2 DEF MinOFRs
<1>8. MaxOFRs(a, b) \in {Attr(MaxOf(a.val, b.val)), Value(MaxOf(a.val, b.val))}
  BY <1>2 DEF MaxOFRs
<1>9. a.val + b.val \in Int /\ a.val - b.val \in Int /\ MinOf(a.val, b.val) \in Int /\ MaxOf(a.val, b.val) \in Int
  BY <1>1 DEF MinOf, MaxOf
<1> QED BY <1>2, <1>3, <1>4, <1>5, <1>6, <1>7, <1>8, <1>9

LEMMA ShapeFacts ==
  ASSUME NEW s \in TensorShapes
  PROVE  /\ Len(s) \in {1, 2} /\ DOMAIN s = 1 .. Len(s) /\ 1 \in DOMAIN s /\ s # <<>>
         /\ \A d \in DOMAIN s : s[d] \in Nat /\ s[d] >= 1
<1>1. s \in Seq(Nat \ {0}) /\ Len(s) \in 1 .. 2
  BY DEF TensorShapes
<1>2. DOMAIN s = 1 .. Len(s) /\ \A d \in 1 .. Len(s) : s[d] \in Nat \ {0}
  BY <1>1, LenProperties, ElementOfSeq
<1>3. Len(<<>>) = 0
  OBVIOUS
<1> QED BY <1>1, <1>2, <1>3

(* A function on the dimensions of a tensor is a sequence. *)
LEMMA OverDims ==
  ASSUME NEW S, NEW n \in Nat, NEW f \in [1 .. n -> S]
  PROVE  f \in Seq(S) /\ Len(f) = n
  BY IsASeq, LenProperties, SeqDef

LEMMA AttrsAre ==
  ASSUME NEW s \in TensorShapes
  PROVE  /\ Attrs(s) \in Seq(Numbers) /\ Len(Attrs(s)) = Len(s) /\ DOMAIN Attrs(s) = DOMAIN s
         /\ Attrs(s) # <<>>
         /\ \A d \in DOMAIN s : Attrs(s)[d] = Attr(s[d]) /\ Attrs(s)[d].val = s[d]
<1>1. \A d \in DOMAIN s : Attr(s[d]) \in Numbers /\ Attr(s[d]).val = s[d]
  BY ShapeFacts, NumbersAre
<1>2. Attrs(s) \in [1 .. Len(s) -> Numbers]
  BY <1>1, ShapeFacts DEF Attrs
<1>3. Attrs(s) \in Seq(Numbers) /\ Len(Attrs(s)) = Len(s)
  BY <1>2, OverDims, ShapeFacts
<1>4. Len(<<>>) = 0
  OBVIOUS
<1> QED BY <1>1, <1>3, <1>4, ShapeFacts DEF Attrs

(* The indices of a tensor, whatever its rank. *)
LEMMA ElementsAre ==
  ASSUME NEW s \in TensorShapes
  PROVE  \A x : x \in Elements(s) <=> x \in [DOMAIN s -> Int] /\ \A d \in DOMAIN s : x[d] \in 0 .. s[d] - 1
<1>1. CASE Len(s) = 1
  <2>1. Elements(s) = {<<i>> : i \in 0 .. s[1] - 1} /\ DOMAIN s = 1 .. 1
    <3>1. ~(Len(s) = 0) /\ ~(Len(s) = 2)
      BY <1>1
    <3>2. DOMAIN s = 1 .. 1
      BY <1>1, ShapeFacts
    <3> QED BY <1>1, <3>1, <3>2 DEF Elements
  <2>2. s[1] \in Nat
    BY <1>1, ShapeFacts
  <2>3. ASSUME NEW x, x \in [1 .. 1 -> Int]
        PROVE  x = <<x[1]>>
    BY <2>3
  <2> QED BY <2>1, <2>2, <2>3
<1>2. CASE Len(s) = 2
  <2>1. Elements(s) = {<<i, j>> : i \in 0 .. s[1] - 1, j \in 0 .. s[2] - 1} /\ DOMAIN s = 1 .. 2
    <3>1. ~(Len(s) = 0) /\ ~(Len(s) = 1)
      BY <1>2
    <3>2. DOMAIN s = 1 .. 2
      BY <1>2, ShapeFacts
    <3> QED BY <1>2, <3>1, <3>2 DEF Elements
  <2>2. s[1] \in Nat /\ s[2] \in Nat
    BY <1>2, ShapeFacts
  <2>3. ASSUME NEW x, x \in [1 .. 2 -> Int]
        PROVE  x = <<x[1], x[2]>>
    BY <2>3
  <2>4. 1 .. 2 = {1, 2}
    OBVIOUS
  <2>5. ASSUME NEW x, x \in Elements(s)
        PROVE  x \in [DOMAIN s -> Int] /\ \A d \in DOMAIN s : x[d] \in 0 .. s[d] - 1
    BY <2>1, <2>2, <2>4, <2>5
  <2>6. ASSUME NEW x, x \in [DOMAIN s -> Int], \A d \in DOMAIN s : x[d] \in 0 .. s[d] - 1
        PROVE  x \in Elements(s)
    <3>1. x = <<x[1], x[2]>> /\ x[1] \in 0 .. s[1] - 1 /\ x[2] \in 0 .. s[2] - 1
      BY <2>1, <2>3, <2>4, <2>6
    <3> QED BY <2>1, <3>1
  <2> QED BY <2>5, <2>6
<1> QED BY <1>1, <1>2, ShapeFacts

Zero(s) == [d \in DOMAIN s |-> 0]

LEMMA ZeroIsElement ==
  ASSUME NEW s \in TensorShapes
  PROVE  Zero(s) \in Elements(s) /\ \A d \in DOMAIN s : Zero(s)[d] = 0
<1>1. Zero(s) \in [DOMAIN s -> Int] /\ \A d \in DOMAIN s : Zero(s)[d] = 0
  BY DEF Zero
<1>2. \A d \in DOMAIN s : 0 \in 0 .. s[d] - 1
  BY ShapeFacts
<1> QED BY <1>1, <1>2, ElementsAre

(* A new dimension *)
LEMMA Inserted ==
  ASSUME NEW S, NEW a \in S, NEW e \in S, NEW axis \in {1, 2}, NEW seq \in Seq(S), Len(seq) = 1, seq[1] = a
  PROVE  /\ InsertDim(seq, axis, e) \in Seq(S) /\ Len(InsertDim(seq, axis, e)) = 2
         /\ InsertDim(seq, axis, e)[axis] = e /\ InsertDim(seq, axis, e)[3 - axis] = a
<1>1. SubSeq(seq, 1, 1) = seq /\ SubSeq(seq, 2, 1) = <<>> /\ SubSeq(seq, 1, 0) = <<>>
  BY SubSeqFull, SubSeqEmpty
<1> DEFINE q == <<e>>
<1>2. q \in Seq(S) /\ Len(q) = 1 /\ q[1] = e
  OBVIOUS
<1> HIDE DEF q
<1>3. /\ seq \o q \in Seq(S) /\ Len(seq \o q) = 2 /\ (seq \o q)[1] = a /\ (seq \o q)[2] = e
      /\ q \o seq \in Seq(S) /\ Len(q \o seq) = 2 /\ (q \o seq)[1] = e /\ (q \o seq)[2] = a
  BY <1>2, ConcatProperties
<1>4. CASE axis = 1
  <2>1. InsertDim(seq, axis, e) = (SubSeq(seq, 1, 1 - 1) \o q) \o SubSeq(seq, 1, 1)
    BY <1>4, Zenon DEF InsertDim, q
  <2>2. 1 - 1 = 0 /\ <<>> \o q = q
    BY <1>2, ConcatEmptySeq
  <2>3. InsertDim(seq, axis, e) = q \o seq
    BY <1>1, <2>1, <2>2
  <2>4. axis = 1 /\ 3 - axis = 2
    BY <1>4
  <2> QED BY <1>3, <2>3, <2>4, Zenon
<1>5. CASE axis = 2
  <2>1. InsertDim(seq, axis, e) = (SubSeq(seq, 1, 2 - 1) \o q) \o SubSeq(seq, 2, 1)
    BY <1>5, Zenon DEF InsertDim, q
  <2>2. 2 - 1 = 1 /\ (seq \o q) \o <<>> = seq \o q
    BY <1>3, ConcatEmptySeq
  <2>3. InsertDim(seq, axis, e) = seq \o q
    BY <1>1, <2>1, <2>2
  <2>4. axis = 2 /\ 3 - axis = 1
    BY <1>5
  <2> QED BY <1>3, <2>3, <2>4, Zenon
<1> QED BY <1>4, <1>5

-----------------------------------------------------------------------------
(* What is known of the state m of a value, in four steps.  It is a        *)
(* MaskState, if nothing else when integers were anded.                    *)
Formed(m) ==
  /\ m = [outcome |-> m.outcome, start |-> m.start, end |-> m.end, scalar |-> m.scalar,
          dims |-> m.dims]
  /\ m.outcome \in {"ok", "failed", "crash"}

(* It has the rank of the value; that of a mask is a box, that of integers *)
(* a number or a range in a tensor of the value's shape.                   *)
Shaped(isBool, m, shape) ==
  /\ m \in MaskStates
  /\ Parsed(m) =>
       /\ Len(m.dims) = Len(shape)
       /\ isBool => ~Present(m.start) /\ ~Present(m.end) /\ ~Present(m.scalar)
       /\ ~isBool => /\ m.dims = Attrs(shape)
                     /\ Present(m.start) = ~Present(m.scalar)
                     /\ Present(m.end) = ~Present(m.scalar)

RangeAt(m, shape, axis) ==
  axis \in DOMAIN shape /\ shape[axis] > 1 /\ m.end.val = m.start.val + shape[axis]

(* A box lies in the tile, and a range has the length of a wide dimension. *)
Within(isBool, m, shape) ==
  Parsed(m) =>
    /\ isBool => \A d \in DOMAIN shape : m.dims[d].val \in 0 .. shape[d]
    /\ ~isBool => isScalar(m) \/ \E axis \in DOMAIN shape : RangeAt(m, shape, axis)

AlongAxis(m, shape, elem) ==
  \E axis \in DOMAIN shape :
    RangeAt(m, shape, axis) /\ \A x \in Elements(shape) : elem[x] = m.start.val + x[axis]

(* It says what the elements of the value are. *)
Exact(isBool, m, shape, elem) ==
  Parsed(m) =>
    /\ isBool => \A x \in Elements(shape) : Selects(m, x) <=> elem[x]
    /\ ~isBool => IF isScalar(m) THEN \A x \in Elements(shape) : elem[x] = m.scalar.val
                  ELSE AlongAxis(m, shape, elem)

LEMMA MaskOfIs ==
  ASSUME NEW s, NEW e, NEW k, NEW d
  PROVE  /\ Formed(MaskOf(s, e, k, d)) /\ Parsed(MaskOf(s, e, k, d))
         /\ MaskOf(s, e, k, d).start = s /\ MaskOf(s, e, k, d).end = e
         /\ MaskOf(s, e, k, d).scalar = k /\ MaskOf(s, e, k, d).dims = d
         /\ MaskOf(s, e, k, d).outcome = "ok"
         /\ s \in Fields /\ e \in Fields /\ k \in Fields /\ d \in Seq(Numbers)
              => MaskOf(s, e, k, d) \in MaskStates
  BY DEF MaskOf, Formed, Parsed, MaskStates

LEMMA Unparsed ==
  /\ Formed(Undecoded) /\ ~Parsed(Undecoded) /\ Undecoded \in MaskStates /\ Undecoded.outcome = "failed"
  /\ Formed(Crash) /\ ~Parsed(Crash) /\ Crash \in MaskStates /\ Crash.outcome = "crash"
<1>1. <<>> \in Seq(Numbers) /\ Absent \in Fields
  BY NumbersAre
<1>2. Undecoded = [outcome |-> "failed", start |-> Absent, end |-> Absent, scalar |-> Absent, dims |-> <<>>]
  BY DEF Undecoded, MaskOf
<1>3. Crash = [outcome |-> "crash", start |-> Absent, end |-> Absent, scalar |-> Absent, dims |-> <<>>]
  BY <1>2 DEF Crash
<1>4. Formed(Undecoded) /\ ~Parsed(Undecoded) /\ Undecoded \in MaskStates /\ Undecoded.outcome = "failed"
  BY <1>1, <1>2 DEF Formed, Parsed, MaskStates
<1>5. Formed(Crash) /\ ~Parsed(Crash) /\ Crash \in MaskStates /\ Crash.outcome = "crash"
  BY <1>1, <1>3 DEF Formed, Parsed, MaskStates
<1> QED BY <1>4, <1>5

LEMMA ExceptIs ==
  ASSUME NEW m, Formed(m), Parsed(m)
  PROVE  /\ \A d : [m EXCEPT !.dims = d] = MaskOf(m.start, m.end, m.scalar, d)
         /\ \A s, e : [m EXCEPT !.start = s, !.end = e] = MaskOf(s, e, m.scalar, m.dims)
<1> DEFINE a == m.start
           b == m.end
           c == m.scalar
           f == m.dims
<1>1. m = [outcome |-> "ok", start |-> a, end |-> b, scalar |-> c, dims |-> f]
  BY DEF Formed, Parsed
<1> HIDE DEF a, b, c, f
<1>2. ASSUME NEW d PROVE [m EXCEPT !.dims = d] = MaskOf(a, b, c, d)
  BY <1>1 DEF MaskOf
<1>3. ASSUME NEW s, NEW e PROVE [m EXCEPT !.start = s, !.end = e] = MaskOf(s, e, c, f)
  <2>1. [[m EXCEPT !.start = s] EXCEPT !.end = e] = [m EXCEPT !.start = s, !.end = e]
    BY <1>1, Zenon
  <2>2. [m EXCEPT !.start = s] = [outcome |-> "ok", start |-> s, end |-> b, scalar |-> c, dims |-> f]
    BY <1>1
  <2> DEFINE n == [m EXCEPT !.start = s]
  <2>3. n = [outcome |-> "ok", start |-> s, end |-> b, scalar |-> c, dims |-> f]
    BY <2>2
  <2>4. [m EXCEPT !.start = s, !.end = e] = [n EXCEPT !.end = e]
    BY <2>1
  <2> HIDE DEF n
  <2>5. [n EXCEPT !.end = e] = [outcome |-> "ok", start |-> s, end |-> e, scalar |-> c, dims |-> f]
    BY <2>3
  <2> QED BY <2>4, <2>5 DEF MaskOf
<1> QED BY <1>2, <1>3 DEF a, b, c, f

LEMMA StatesFormed == \A m \in MaskStates : Formed(m)
  BY DEF MaskStates, Formed

LEMMA ShapedBasics ==
  ASSUME NEW isBool \in BOOLEAN, NEW m, NEW shape \in TensorShapes, Shaped(isBool, m, shape), Parsed(m)
  PROVE  /\ m.dims \in Seq(Numbers) /\ DOMAIN m.dims = DOMAIN shape /\ m.dims # <<>>
         /\ \A d \in DOMAIN shape : m.dims[d] \in Numbers /\ m.dims[d].val \in Int
         /\ m.start \in Fields /\ m.end \in Fields /\ m.scalar \in Fields
         /\ Formed(m) /\ m \in MaskStates
<1>1. m \in MaskStates /\ Len(m.dims) = Len(shape)
  BY DEF Shaped
<1>2. m.dims \in Seq(Numbers) /\ m.start \in Fields /\ m.end \in Fields /\ m.scalar \in Fields
  BY <1>1 DEF MaskStates
<1>3. DOMAIN m.dims = 1 .. Len(shape) /\ \A d \in 1 .. Len(m.dims) : m.dims[d] \in Numbers
  BY <1>1, <1>2, LenProperties, ElementOfSeq
<1>4. Len(<<>>) = 0
  OBVIOUS
<1> QED BY <1>1, <1>2, <1>3, <1>4, ShapeFacts, NumbersAre, StatesFormed

-----------------------------------------------------------------------------
(* tt.expand_dims *)

LEMMA ExpandIs ==
  ASSUME NEW m, Formed(m), NEW axis
  PROVE  parseExpandDims(m, axis) =
           IF ~Parsed(m) THEN m
           ELSE IF axis > Len(m.dims) + 1 THEN Undecoded
           ELSE MaskOf(m.start, m.end, m.scalar, InsertDim(m.dims, axis, Attr(1)))
<1>1. CASE ~Parsed(m)
  BY <1>1 DEF parseExpandDims
<1>2. CASE Parsed(m) /\ axis > Len(m.dims) + 1
  BY <1>2 DEF parseExpandDims
<1>3. CASE Parsed(m) /\ ~(axis > Len(m.dims) + 1)
  <2>1. parseExpandDims(m, axis) = [m EXCEPT !.dims = InsertDim(m.dims, axis, Attr(1))]
    BY <1>3, Zenon DEF parseExpandDims, InsertDim
  <2> QED BY <1>3, <2>1, ExceptIs
<1> QED BY <1>1, <1>2, <1>3

LEMMA ExpandedShape ==
  ASSUME NEW shape \in TensorShapes, Len(shape) = 1, NEW axis \in {1, 2}
  PROVE  /\ InsertDim(shape, axis, 1) \in TensorShapes /\ Len(InsertDim(shape, axis, 1)) = 2
         /\ DOMAIN InsertDim(shape, axis, 1) = {axis, 3 - axis} /\ DOMAIN shape = {1}
         /\ axis \in {1, 2} /\ 3 - axis \in {1, 2} /\ axis # 3 - axis
         /\ InsertDim(shape, axis, 1)[axis] = 1 /\ InsertDim(shape, axis, 1)[3 - axis] = shape[1]
         /\ shape[1] \in Nat /\ shape[1] >= 1
<1>1. shape \in Seq(Nat \ {0}) /\ shape[1] \in Nat \ {0} /\ shape[1] >= 1 /\ DOMAIN shape = 1 .. 1
  BY ShapeFacts DEF TensorShapes
<1> DEFINE t == InsertDim(shape, axis, 1)
<1>2. t \in Seq(Nat \ {0}) /\ Len(t) = 2 /\ t[axis] = 1 /\ t[3 - axis] = shape[1]
  <2> DEFINE S == Nat \ {0}
  <2>1. 1 \in S /\ shape \in Seq(S) /\ shape[1] \in S
    BY <1>1
  <2>2. t \in Seq(S) /\ Len(t) = 2 /\ t[axis] = 1 /\ t[3 - axis] = shape[1]
    <3> HIDE DEF S
    <3> QED BY <2>1, Inserted
  <2> QED BY <2>2
<1> HIDE DEF t
<1>3. t \in TensorShapes
  BY <1>2 DEF TensorShapes
<1>4. DOMAIN t = {axis, 3 - axis} /\ 3 - axis \in {1, 2} /\ axis # 3 - axis
  BY <1>2, <1>3, ShapeFacts
<1> QED BY <1>1, <1>2, <1>3, <1>4 DEF t

LEMMA ExpandedDims ==
  ASSUME NEW isBool \in BOOLEAN, NEW m, NEW shape \in TensorShapes, Len(shape) = 1, NEW axis \in {1, 2},
         Shaped(isBool, m, shape), Parsed(m)
  PROVE  /\ parseExpandDims(m, axis) = MaskOf(m.start, m.end, m.scalar, InsertDim(m.dims, axis, Attr(1)))
         /\ InsertDim(m.dims, axis, Attr(1)) \in Seq(Numbers)
         /\ Len(InsertDim(m.dims, axis, Attr(1))) = 2
         /\ InsertDim(m.dims, axis, Attr(1))[axis] = Attr(1)
         /\ InsertDim(m.dims, axis, Attr(1))[3 - axis] = m.dims[1]
<1>1. m.dims \in Seq(Numbers) /\ Len(m.dims) = 1 /\ Formed(m) /\ m.dims[1] \in Numbers
  BY ShapedBasics, ShapeFacts DEF Shaped
<1>2. Attr(1) \in Numbers
  BY NumbersAre
<1>3. ~(axis > Len(m.dims) + 1)
  BY <1>1
<1>4. parseExpandDims(m, axis) = MaskOf(m.start, m.end, m.scalar, InsertDim(m.dims, axis, Attr(1)))
  BY <1>1, <1>3, ExpandIs
<1> QED BY <1>1, <1>2, <1>4, Inserted

LEMMA ExpandShaped ==
  ASSUME NEW isBool \in BOOLEAN, NEW m, NEW shape \in TensorShapes, Len(shape) = 1, NEW axis \in {1, 2},
         Shaped(isBool, m, shape)
  PROVE  Shaped(isBool, parseExpandDims(m, axis), InsertDim(shape, axis, 1))
<1> DEFINE t == InsertDim(shape, axis, 1)
           r == parseExpandDims(m, axis)
           g == InsertDim(m.dims, axis, Attr(1))
<1>1. CASE ~Parsed(m)
  BY <1>1 DEF Shaped, parseExpandDims
<1>2. CASE Parsed(m)
  <2>1. /\ r = MaskOf(m.start, m.end, m.scalar, g) /\ g \in Seq(Numbers) /\ Len(g) = 2
        /\ g[axis] = Attr(1) /\ g[3 - axis] = m.dims[1]
    BY <1>2, ExpandedDims
  <2>2. /\ t \in TensorShapes /\ Len(t) = 2 /\ DOMAIN t = {axis, 3 - axis} /\ DOMAIN shape = {1}
        /\ t[axis] = 1 /\ t[3 - axis] = shape[1]
    BY ExpandedShape
  <2>3. m.start \in Fields /\ m.end \in Fields /\ m.scalar \in Fields
    BY <1>2, ShapedBasics
  <2> HIDE DEF t, r, g
  <2>4. /\ r \in MaskStates /\ Parsed(r) /\ r.dims = g
        /\ r.start = m.start /\ r.end = m.end /\ r.scalar = m.scalar
    BY <2>1, <2>3, MaskOfIs
  <2>5. ~isBool => g = Attrs(t)
    <3> SUFFICES ASSUME ~isBool PROVE g = Attrs(t)
      OBVIOUS
    <3>1. m.dims = Attrs(shape)
      BY <1>2 DEF Shaped
    <3>2. m.dims[1] = Attr(shape[1])
      BY <3>1, <2>2, AttrsAre
    <3>3. Attrs(t) \in Seq(Numbers) /\ Len(Attrs(t)) = 2 /\ \A d \in DOMAIN t : Attrs(t)[d] = Attr(t[d])
      BY <2>2, AttrsAre
    <3>4. \A d \in {axis, 3 - axis} : g[d] = Attrs(t)[d]
      BY <2>1, <2>2, <3>2, <3>3
    <3>5. 1 .. 2 = {axis, 3 - axis}
      OBVIOUS
    <3> QED BY <2>1, <3>3, <3>4, <3>5, SeqEqual
  <2> QED BY <1>2, <2>1, <2>2, <2>4, <2>5 DEF Shaped, t, r
<1> QED BY <1>1, <1>2

LEMMA ExpandWithin ==
  ASSUME NEW isBool \in BOOLEAN, NEW m, NEW shape \in TensorShapes, Len(shape) = 1, NEW axis \in {1, 2},
         Shaped(isBool, m, shape), Within(isBool, m, shape)
  PROVE  Within(isBool, parseExpandDims(m, axis), InsertDim(shape, axis, 1))
<1> DEFINE t == InsertDim(shape, axis, 1)
           r == parseExpandDims(m, axis)
           g == InsertDim(m.dims, axis, Attr(1))
<1>1. CASE ~Parsed(m)
  BY <1>1 DEF Within, parseExpandDims
<1>2. CASE Parsed(m)
  <2>1. r = MaskOf(m.start, m.end, m.scalar, g) /\ g[axis] = Attr(1) /\ g[3 - axis] = m.dims[1]
    BY <1>2, ExpandedDims
  <2>2. /\ DOMAIN t = {axis, 3 - axis} /\ DOMAIN shape = {1} /\ t[axis] = 1 /\ t[3 - axis] = shape[1]
        /\ shape[1] \in Nat
    BY ExpandedShape
  <2> HIDE DEF t, r, g
  <2>3. r.dims = g /\ r.start = m.start /\ r.end = m.end /\ r.scalar = m.scalar
    BY <2>1, MaskOfIs
  <2>4. Attr(1).val = 1
    BY NumbersAre
  <2>5. isBool => \A d \in DOMAIN t : r.dims[d].val \in 0 .. t[d]
    <3> SUFFICES ASSUME isBool PROVE \A d \in DOMAIN t : r.dims[d].val \in 0 .. t[d]
      OBVIOUS
    <3>1. m.dims[1].val \in 0 .. shape[1]
      BY <1>2, <2>2 DEF Within
    <3>2. g[axis].val \in 0 .. t[axis] /\ g[3 - axis].val \in 0 .. t[3 - axis]
      BY <2>1, <2>2, <2>4, <3>1
    <3> QED BY <2>2, <2>3, <3>2
  <2>6. ~isBool => isScalar(r) \/ \E a \in DOMAIN t : RangeAt(r, t, a)
    <3> SUFFICES ASSUME ~isBool, ~isScalar(r) PROVE RangeAt(r, t, 3 - axis)
      BY <2>2
    <3>1. ~isScalar(m)
      BY <2>3 DEF isScalar
    <3>2. RangeAt(m, shape, 1)
      BY <1>2, <3>1, <2>2 DEF Within
    <3> QED BY <3>2, <2>2, <2>3 DEF RangeAt
  <2> QED BY <2>5, <2>6 DEF Within, t, r
<1> QED BY <1>1, <1>2

LEMMA ExpandExact ==
  ASSUME NEW isBool \in BOOLEAN, NEW m, NEW shape \in TensorShapes, Len(shape) = 1, NEW axis \in {1, 2},
         Shaped(isBool, m, shape), NEW elem, Exact(isBool, m, shape, elem)
  PROVE  Exact(isBool, parseExpandDims(m, axis), InsertDim(shape, axis, 1),
               [x \in Elements(InsertDim(shape, axis, 1)) |-> elem[<<x[3 - axis]>>]])
<1> DEFINE t == InsertDim(shape, axis, 1)
           r == parseExpandDims(m, axis)
           g == InsertDim(m.dims, axis, Attr(1))
           f == [x \in Elements(t) |-> elem[<<x[3 - axis]>>]]
<1>1. CASE ~Parsed(m)
  BY <1>1 DEF Exact, parseExpandDims
<1>2. CASE Parsed(m)
  <2>1. r = MaskOf(m.start, m.end, m.scalar, g) /\ g[axis] = Attr(1) /\ g[3 - axis] = m.dims[1]
    BY <1>2, ExpandedDims
  <2>2. /\ t \in TensorShapes /\ DOMAIN t = {axis, 3 - axis} /\ DOMAIN shape = {1}
        /\ t[axis] = 1 /\ t[3 - axis] = shape[1]
    BY ExpandedShape
  <2>3. \A x \in Elements(t) : f[x] = elem[<<x[3 - axis]>>]
    OBVIOUS
  <2> HIDE DEF t, r, g, f
  <2>4. r.dims = g /\ r.start = m.start /\ r.end = m.end /\ r.scalar = m.scalar
    BY <2>1, MaskOfIs
  <2>5. Attr(1).val = 1
    BY NumbersAre
  <2>6. ASSUME NEW x \in Elements(t)
        PROVE  /\ <<x[3 - axis]>> \in Elements(shape) /\ x[axis] = 0 /\ DOMAIN x = {axis, 3 - axis}
               /\ <<x[3 - axis]>>[1] = x[3 - axis] /\ DOMAIN <<x[3 - axis]>> = {1}
    <3>1. x \in [DOMAIN t -> Int] /\ \A d \in DOMAIN t : x[d] \in 0 .. t[d] - 1
      BY <2>2, ElementsAre
    <3>2. x[axis] \in 0 .. 1 - 1 /\ x[3 - axis] \in 0 .. shape[1] - 1 /\ x[3 - axis] \in Int
      BY <2>2, <3>1
    <3>3. <<x[3 - axis]>> \in [{1} -> Int] /\ <<x[3 - axis]>>[1] = x[3 - axis]
      BY <3>2
    <3>4. <<x[3 - axis]>> \in Elements(shape)
      BY <2>2, <3>2, <3>3, ElementsAre
    <3> QED BY <2>2, <3>1, <3>2, <3>3, <3>4
  <2>7. isBool => \A x \in Elements(t) : Selects(r, x) <=> f[x]
    <3> SUFFICES ASSUME isBool, NEW x \in Elements(t) PROVE Selects(r, x) <=> f[x]
      OBVIOUS
    <3>1. f[x] <=> Selects(m, <<x[3 - axis]>>)
      BY <1>2, <2>3, <2>6 DEF Exact
    <3>2. Selects(m, <<x[3 - axis]>>) <=> x[3 - axis] < m.dims[1].val
      BY <2>6 DEF Selects
    <3>3. Selects(r, x) <=> x[axis] < g[axis].val /\ x[3 - axis] < g[3 - axis].val
      BY <2>4, <2>6 DEF Selects
    <3>4. x[axis] < g[axis].val
      <4>1. x[axis] = 0 /\ g[axis].val = 1
        BY <2>1, <2>5, <2>6
      <4> QED BY <4>1
    <3> QED BY <2>1, <3>1, <3>2, <3>3, <3>4, Zenon
  <2>8. ~isBool /\ isScalar(r) => \A x \in Elements(t) : f[x] = r.scalar.val
    <3> SUFFICES ASSUME ~isBool, isScalar(r), NEW x \in Elements(t) PROVE f[x] = r.scalar.val
      OBVIOUS
    <3>1. isScalar(m)
      BY <2>4 DEF isScalar
    <3> QED BY <1>2, <2>3, <2>4, <2>6, <3>1 DEF Exact
  <2>9. ~isBool /\ ~isScalar(r) => AlongAxis(r, t, f)
    <3> SUFFICES ASSUME ~isBool, ~isScalar(r) PROVE AlongAxis(r, t, f)
      OBVIOUS
    <3>1. ~isScalar(m)
      BY <2>4 DEF isScalar
    <3>2. RangeAt(m, shape, 1) /\ \A y \in Elements(shape) : elem[y] = m.start.val + y[1]
      BY <1>2, <3>1, <2>2 DEF Exact, AlongAxis
    <3>3. RangeAt(r, t, 3 - axis)
      BY <3>2, <2>2, <2>4 DEF RangeAt
    <3>4. \A x \in Elements(t) : f[x] = r.start.val + x[3 - axis]
      BY <2>3, <2>4, <2>6, <3>2
    <3> QED BY <2>2, <3>3, <3>4 DEF AlongAxis
  <2> QED BY <2>7, <2>8, <2>9 DEF Exact, t, r, f
<1> QED BY <1>1, <1>2

-----------------------------------------------------------------------------
(* tt.broadcast *)

(* The dimensions that a broadcast leaves: the extents of dst where it widens src. *)
Widened(dims, src, dst) ==
  [d \in DOMAIN dims |-> IF d \in DOMAIN src /\ src[d] < dst[d] THEN Attr(dst[d]) ELSE dims[d]]

LEMMA BroadcastIs ==
  ASSUME NEW m, Formed(m), NEW src, NEW dst
  PROVE  parseBroadcast(m, src, dst) =
           IF ~Parsed(m) THEN m
           ELSE IF Len(m.dims) < Len(src) THEN Undecoded
           ELSE MaskOf(m.start, m.end, m.scalar, Widened(m.dims, src, dst))
<1>1. CASE ~Parsed(m)
  BY <1>1 DEF parseBroadcast
<1>2. CASE Parsed(m) /\ Len(m.dims) < Len(src)
  BY <1>2 DEF parseBroadcast
<1>3. CASE Parsed(m) /\ ~(Len(m.dims) < Len(src))
  <2>1. parseBroadcast(m, src, dst) = [m EXCEPT !.dims = Widened(m.dims, src, dst)]
    BY <1>3, Zenon DEF parseBroadcast, Widened
  <2>2. \A dims : [m EXCEPT !.dims = dims] = MaskOf(m.start, m.end, m.scalar, dims)
    BY <1>3, ExceptIs
  <2> QED BY <1>3, <2>1, <2>2
<1> QED BY <1>1, <1>2, <1>3

(* A tensor of shape s is broadcast to t. *)
Broadcastable(s, t) ==
  /\ s \in TensorShapes /\ t \in TensorShapes /\ Len(s) = Len(t)
  /\ \A d \in DOMAIN t : s[d] \in {1, t[d]}

LEMMA BroadcastFacts ==
  ASSUME NEW s, NEW t, Broadcastable(s, t)
  PROVE  /\ s \in TensorShapes /\ t \in TensorShapes /\ DOMAIN s = DOMAIN t
         /\ \A d \in DOMAIN t : /\ s[d] \in Nat /\ t[d] \in Nat /\ s[d] >= 1 /\ t[d] >= 1
                                /\ s[d] < t[d] \/ s[d] = t[d]
                                /\ s[d] < t[d] => s[d] = 1
<1>1. s \in TensorShapes /\ t \in TensorShapes /\ DOMAIN s = DOMAIN t
  BY ShapeFacts DEF Broadcastable
<1>2. ASSUME NEW d \in DOMAIN t
      PROVE  /\ s[d] \in Nat /\ t[d] \in Nat /\ s[d] >= 1 /\ t[d] >= 1
             /\ s[d] < t[d] \/ s[d] = t[d]
             /\ s[d] < t[d] => s[d] = 1
  <2>1. s[d] \in Nat /\ t[d] \in Nat /\ s[d] >= 1 /\ t[d] >= 1
    BY <1>1, ShapeFacts
  <2>2. s[d] = 1 \/ s[d] = t[d]
    BY DEF Broadcastable
  <2> QED BY <2>1, <2>2
<1> QED BY <1>1, <1>2

LEMMA BroadcastDims ==
  ASSUME NEW isBool \in BOOLEAN, NEW m, NEW s, NEW t, Broadcastable(s, t), Shaped(isBool, m, s), Parsed(m)
  PROVE  \E g \in Seq(Numbers) :
           /\ parseBroadcast(m, s, t) = MaskOf(m.start, m.end, m.scalar, g) /\ Len(g) = Len(t)
           /\ \A d \in DOMAIN t : g[d] = IF s[d] < t[d] THEN Attr(t[d]) ELSE m.dims[d]
<1> DEFINE g == Widened(m.dims, s, t)
<1>1. /\ s \in TensorShapes /\ t \in TensorShapes /\ DOMAIN s = DOMAIN t
      /\ \A d \in DOMAIN t : t[d] \in Int
  BY BroadcastFacts
<1>2. /\ Formed(m) /\ DOMAIN m.dims = DOMAIN t /\ ~(Len(m.dims) < Len(s))
      /\ \A d \in DOMAIN t : m.dims[d] \in Numbers
  <2>1. Formed(m) /\ DOMAIN m.dims = DOMAIN s /\ \A d \in DOMAIN s : m.dims[d] \in Numbers
    BY <1>1, ShapedBasics
  <2>2. Len(m.dims) = Len(s) /\ Len(s) \in Nat
    BY <1>1, ShapeFacts DEF Shaped
  <2> QED BY <1>1, <2>1, <2>2
<1>3. parseBroadcast(m, s, t) = MaskOf(m.start, m.end, m.scalar, g)
  <2>1. parseBroadcast(m, s, t) =
          IF ~Parsed(m) THEN m
          ELSE IF Len(m.dims) < Len(s) THEN Undecoded ELSE MaskOf(m.start, m.end, m.scalar, g)
    <3>1. Formed(m)
      BY <1>2
    <3> QED BY <3>1, BroadcastIs
  <2> HIDE DEF g
  <2> QED BY <1>2, <2>1
<1>4. \A d \in DOMAIN t : Attr(t[d]) \in Numbers
  BY <1>1, NumbersAre
<1>5. g \in [1 .. Len(t) -> Numbers] /\ Len(t) \in Nat
  BY <1>1, <1>2, <1>4, ShapeFacts DEF Widened
<1>6. \A d \in DOMAIN t : g[d] = IF s[d] < t[d] THEN Attr(t[d]) ELSE m.dims[d]
  BY <1>1, <1>2 DEF Widened
<1> HIDE DEF g
<1>7. g \in Seq(Numbers) /\ Len(g) = Len(t)
  BY <1>5, OverDims
<1> QED BY <1>3, <1>6, <1>7

LEMMA BroadcastShaped ==
  ASSUME NEW isBool \in BOOLEAN, NEW m, NEW s, NEW t, Broadcastable(s, t), Shaped(isBool, m, s)
  PROVE  Shaped(isBool, parseBroadcast(m, s, t), t)
<1>1. CASE ~Parsed(m)
  BY <1>1 DEF Shaped, parseBroadcast
<1>2. CASE Parsed(m)
  <2> DEFINE r == parseBroadcast(m, s, t)
  <2>1. PICK g \in Seq(Numbers) :
           /\ r = MaskOf(m.start, m.end, m.scalar, g) /\ Len(g) = Len(t)
           /\ \A d \in DOMAIN t : g[d] = IF s[d] < t[d] THEN Attr(t[d]) ELSE m.dims[d]
    BY <1>2, BroadcastDims
  <2>2. m.start \in Fields /\ m.end \in Fields /\ m.scalar \in Fields
    BY <1>2, ShapedBasics, BroadcastFacts
  <2> HIDE DEF r
  <2>3. /\ r \in MaskStates /\ Parsed(r) /\ r.dims = g
        /\ r.start = m.start /\ r.end = m.end /\ r.scalar = m.scalar
    BY <2>1, <2>2, MaskOfIs
  <2>4. ~isBool => g = Attrs(t)
    <3> SUFFICES ASSUME ~isBool PROVE g = Attrs(t)
      OBVIOUS
    <3>1. \A d \in DOMAIN t : m.dims[d] = Attr(s[d])
      BY <1>2, BroadcastFacts, AttrsAre DEF Shaped
    <3>2. \A d \in DOMAIN t : g[d] = Attr(t[d])
      BY <2>1, <3>1, BroadcastFacts
    <3>3. /\ Attrs(t) \in Seq(Numbers) /\ Len(Attrs(t)) = Len(t) /\ DOMAIN t = 1 .. Len(t)
          /\ \A d \in DOMAIN t : Attrs(t)[d] = Attr(t[d])
      BY BroadcastFacts, AttrsAre, ShapeFacts
    <3>4. \A d \in 1 .. Len(g) : g[d] = Attrs(t)[d]
      BY <2>1, <3>2, <3>3
    <3> QED BY <2>1, <3>3, <3>4, SeqEqual
  <2> QED BY <1>2, <2>1, <2>3, <2>4 DEF Shaped, r
<1> QED BY <1>1, <1>2

LEMMA BroadcastWithin ==
  ASSUME NEW isBool \in BOOLEAN, NEW m, NEW s, NEW t, Broadcastable(s, t), Shaped(isBool, m, s),
         Within(isBool, m, s)
  PROVE  Within(isBool, parseBroadcast(m, s, t), t)
<1>1. CASE ~Parsed(m)
  BY <1>1 DEF Within, parseBroadcast
<1>2. CASE Parsed(m)
  <2> DEFINE r == parseBroadcast(m, s, t)
  <2>1. PICK g \in Seq(Numbers) :
           /\ r = MaskOf(m.start, m.end, m.scalar, g) /\ Len(g) = Len(t)
           /\ \A d \in DOMAIN t : g[d] = IF s[d] < t[d] THEN Attr(t[d]) ELSE m.dims[d]
    BY <1>2, BroadcastDims
  <2> HIDE DEF r
  <2>2. r.dims = g /\ r.start = m.start /\ r.end = m.end /\ r.scalar = m.scalar
    BY <2>1, MaskOfIs
  <2>3. isBool => \A d \in DOMAIN t : r.dims[d].val \in 0 .. t[d]
    <3> SUFFICES ASSUME isBool, NEW d \in DOMAIN t PROVE g[d].val \in 0 .. t[d]
      BY <2>2
    <3>1. t[d] \in Nat /\ Attr(t[d]).val = t[d]
      BY BroadcastFacts, NumbersAre
    <3>2. m.dims[d].val \in 0 .. s[d]
      BY <1>2, BroadcastFacts DEF Within
    <3>3. s[d] < t[d] \/ s[d] = t[d]
      BY BroadcastFacts
    <3>4. CASE s[d] < t[d]
      BY <2>1, <3>1, <3>4
    <3>5. CASE s[d] = t[d]
      <4>1. ~(s[d] < t[d])
        BY <3>1, <3>5
      <4> QED BY <2>1, <3>2, <3>5, <4>1
    <3> QED BY <3>3, <3>4, <3>5
  <2>4. ~isBool => isScalar(r) \/ \E a \in DOMAIN t : RangeAt(r, t, a)
    <3> SUFFICES ASSUME ~isBool, ~isScalar(r) PROVE \E a \in DOMAIN t : RangeAt(r, t, a)
      OBVIOUS
    <3>1. ~isScalar(m)
      BY <2>2 DEF isScalar
    <3>2. PICK a \in DOMAIN s : RangeAt(m, s, a)
      BY <1>2, <3>1 DEF Within
    <3>3. a \in DOMAIN t /\ s[a] = t[a]
      BY <3>2, BroadcastFacts DEF RangeAt
    <3>4. RangeAt(r, t, a)
      BY <2>2, <3>2, <3>3 DEF RangeAt
    <3> QED BY <3>3, <3>4
  <2> QED BY <2>3, <2>4 DEF Within, r
<1> QED BY <1>1, <1>2

(* The element of the tensor that is broadcast to x. *)
Source(x, s, t) == [d \in DOMAIN t |-> IF s[d] = 1 THEN 0 ELSE x[d]]

LEMMA SourceIs ==
  ASSUME NEW s, NEW t, Broadcastable(s, t), NEW x \in Elements(t)
  PROVE  /\ Source(x, s, t) \in Elements(s) /\ DOMAIN Source(x, s, t) = DOMAIN t
         /\ DOMAIN x = DOMAIN t
         /\ \A d \in DOMAIN t : /\ x[d] \in 0 .. t[d] - 1 /\ x[d] \in Int
                                /\ Source(x, s, t)[d] = IF s[d] < t[d] THEN 0 ELSE x[d]
<1>1. /\ DOMAIN s = DOMAIN t /\ s \in TensorShapes /\ t \in TensorShapes
      /\ x \in [DOMAIN t -> Int] /\ \A d \in DOMAIN t : x[d] \in 0 .. t[d] - 1
  BY BroadcastFacts, ElementsAre
<1> DEFINE y == Source(x, s, t)
<1>2. y \in [DOMAIN s -> Int] /\ \A d \in DOMAIN t : y[d] = IF s[d] = 1 THEN 0 ELSE x[d]
  BY <1>1 DEF Source
<1> HIDE DEF y
<1>3. ASSUME NEW d \in DOMAIN t
      PROVE  /\ x[d] \in 0 .. t[d] - 1 /\ x[d] \in Int
             /\ y[d] = IF s[d] < t[d] THEN 0 ELSE x[d]
             /\ y[d] \in 0 .. s[d] - 1
  <2>1. /\ s[d] \in Nat /\ t[d] \in Nat /\ s[d] >= 1 /\ (s[d] < t[d] \/ s[d] = t[d])
        /\ s[d] < t[d] => s[d] = 1
    BY BroadcastFacts
  <2>2. x[d] \in 0 .. t[d] - 1 /\ x[d] \in Int /\ (s[d] = 1 => y[d] = 0) /\ (s[d] # 1 => y[d] = x[d])
    BY <1>1, <1>2
  <2>3. CASE s[d] < t[d]
    BY <2>1, <2>2, <2>3
  <2>4. CASE s[d] = t[d]
    <3>1. y[d] = x[d]
      BY <2>1, <2>2, <2>4
    <3> QED BY <2>1, <2>2, <2>4, <3>1
  <2> QED BY <2>1, <2>3, <2>4
<1>4. y \in Elements(s)
  BY <1>1, <1>2, <1>3, ElementsAre
<1> QED BY <1>1, <1>2, <1>3, <1>4 DEF y

(* An extent of 0 is not lost. *)
Lost(m, s, t) ==
  /\ \E d \in DOMAIN t : s[d] < t[d] /\ m.dims[d].val = 0
  /\ \A d \in DOMAIN t : s[d] = t[d] => m.dims[d].val # 0

LEMMA BroadcastExact ==
  ASSUME NEW isBool \in BOOLEAN, NEW m, NEW s, NEW t, Broadcastable(s, t), Shaped(isBool, m, s),
         Within(isBool, m, s), NEW elem, Exact(isBool, m, s, elem), isBool /\ Parsed(m) => ~Lost(m, s, t)
  PROVE  Exact(isBool, parseBroadcast(m, s, t), t, [x \in Elements(t) |-> elem[Source(x, s, t)]])
<1>1. CASE ~Parsed(m)
  BY <1>1 DEF Exact, parseBroadcast
<1>2. CASE Parsed(m)
  <2> DEFINE r == parseBroadcast(m, s, t)
             f == [x \in Elements(t) |-> elem[Source(x, s, t)]]
  <2>1. PICK g \in Seq(Numbers) :
           /\ r = MaskOf(m.start, m.end, m.scalar, g) /\ Len(g) = Len(t)
           /\ \A d \in DOMAIN t : g[d] = IF s[d] < t[d] THEN Attr(t[d]) ELSE m.dims[d]
    BY <1>2, BroadcastDims
  <2>2. \A x \in Elements(t) : f[x] = elem[Source(x, s, t)]
    OBVIOUS
  <2> HIDE DEF r, f
  <2>3. r.dims = g /\ r.start = m.start /\ r.end = m.end /\ r.scalar = m.scalar
    BY <2>1, MaskOfIs
  <2>4. DOMAIN s = DOMAIN t /\ \A d \in DOMAIN t : s[d] < t[d] \/ s[d] = t[d]
    BY BroadcastFacts
  <2>5. isBool => \A x \in Elements(t) : Selects(r, x) <=> f[x]
    <3> SUFFICES ASSUME isBool, NEW x \in Elements(t) PROVE Selects(r, x) <=> f[x]
      OBVIOUS
    <3> DEFINE y == Source(x, s, t)
    <3>1. /\ y \in Elements(s) /\ DOMAIN y = DOMAIN t /\ DOMAIN x = DOMAIN t
          /\ \A d \in DOMAIN t : /\ x[d] \in 0 .. t[d] - 1 /\ x[d] \in Int
                                 /\ y[d] = IF s[d] < t[d] THEN 0 ELSE x[d]
      BY SourceIs
    <3> HIDE DEF y
    <3>2. f[x] <=> Selects(m, y)
      BY <1>2, <2>2, <3>1 DEF Exact, y
    <3>3. \A d \in DOMAIN t : s[d] < t[d] => x[d] < g[d].val
      <4> SUFFICES ASSUME NEW d \in DOMAIN t, s[d] < t[d] PROVE x[d] < g[d].val
        OBVIOUS
      <4>1. g[d].val = t[d] /\ t[d] \in Nat
        BY <2>1, NumbersAre, BroadcastFacts
      <4>2. x[d] \in 0 .. t[d] - 1
        BY <3>1
      <4> QED BY <4>1, <4>2
    <3>4. \A d \in DOMAIN t : ~(s[d] < t[d]) => (x[d] < g[d].val <=> y[d] < m.dims[d].val)
      BY <2>1, <3>1
    <3>5. Selects(r, x) <=> \A d \in DOMAIN t : ~(s[d] < t[d]) => y[d] < m.dims[d].val
      <4>1. Selects(r, x) <=> \A d \in DOMAIN t : x[d] < g[d].val
        BY <2>3, <3>1 DEF Selects
      <4> QED BY <3>3, <3>4, <4>1, Zenon
    <3>6. Selects(m, y) <=> \A d \in DOMAIN t : y[d] < m.dims[d].val
      BY <3>1 DEF Selects
    <3>7. \A d \in DOMAIN t : m.dims[d].val \in Nat
      BY <1>2, <2>4, BroadcastFacts DEF Within
    <3>8. ASSUME Selects(r, x) PROVE Selects(m, y)
      <4> SUFFICES ASSUME NEW e \in DOMAIN t, s[e] < t[e] PROVE y[e] < m.dims[e].val
        BY <3>5, <3>6, <3>8
      <4>1. \A d \in DOMAIN t : s[d] = t[d] => m.dims[d].val # 0
        <5> SUFFICES ASSUME NEW d \in DOMAIN t, s[d] = t[d] PROVE m.dims[d].val # 0
          OBVIOUS
        <5>1. ~(s[d] < t[d])
          BY BroadcastFacts
        <5>2. x[d] < m.dims[d].val /\ x[d] \in 0 .. t[d] - 1 /\ t[d] \in Nat
          BY <3>1, <3>5, <3>8, <5>1, BroadcastFacts
        <5> QED BY <5>2
      <4>2. m.dims[e].val # 0
        BY <1>2, <4>1 DEF Lost
      <4>3. y[e] = 0 /\ m.dims[e].val \in Nat
        BY <3>1, <3>7
      <4> QED BY <4>2, <4>3
    <3> QED BY <3>2, <3>5, <3>6, <3>8
  <2>6. ~isBool /\ isScalar(r) => \A x \in Elements(t) : f[x] = r.scalar.val
    <3> SUFFICES ASSUME ~isBool, isScalar(r), NEW x \in Elements(t) PROVE f[x] = r.scalar.val
      OBVIOUS
    <3>1. isScalar(m)
      BY <2>3 DEF isScalar
    <3> QED BY <1>2, <2>2, <2>3, <3>1, SourceIs DEF Exact
  <2>7. ~isBool /\ ~isScalar(r) => AlongAxis(r, t, f)
    <3> SUFFICES ASSUME ~isBool, ~isScalar(r) PROVE AlongAxis(r, t, f)
      OBVIOUS
    <3>1. ~isScalar(m)
      BY <2>3 DEF isScalar
    <3>2. PICK a \in DOMAIN s : RangeAt(m, s, a) /\ \A y \in Elements(s) : elem[y] = m.start.val + y[a]
      BY <1>2, <3>1 DEF Exact, AlongAxis
    <3>3. a \in DOMAIN t /\ s[a] = t[a] /\ ~(s[a] < t[a])
      BY <3>2, BroadcastFacts DEF RangeAt
    <3>4. RangeAt(r, t, a)
      BY <2>3, <3>2, <3>3 DEF RangeAt
    <3>5. \A x \in Elements(t) : f[x] = r.start.val + x[a]
      <4> SUFFICES ASSUME NEW x \in Elements(t) PROVE f[x] = r.start.val + x[a]
        OBVIOUS
      <4>1. Source(x, s, t) \in Elements(s) /\ Source(x, s, t)[a] = x[a]
        BY <3>3, SourceIs
      <4> QED BY <2>2, <2>3, <3>2, <4>1
    <3> QED BY <3>3, <3>4, <3>5 DEF AlongAxis
  <2> QED BY <2>5, <2>6, <2>7 DEF Exact, r, f
<1> QED BY <1>1, <1>2

-----------------------------------------------------------------------------
(* The tensor of a loop's iteration *)

LoopStart(m) == IF isScalar(m) THEN Attr(0) ELSE m.start
LoopEnd(m) == IF isScalar(m) THEN m.scalar ELSE m.end

LEMMA LoopIs ==
  ASSUME NEW m, NEW offset, NEW nested
  PROVE  parseLoopIterArg(m, offset, nested) =
           IF nested \/ ~Parsed(m) THEN Undecoded
           ELSE IF ~Present(LoopStart(m)) \/ ~Present(LoopEnd(m)) THEN Crash
           ELSE MaskOf(offset, AddOFRs(offset, SubOFRs(LoopEnd(m), LoopStart(m))), Absent, m.dims)
  BY DEF parseLoopIterArg, LoopStart, LoopEnd

LEMMA LoopShaped ==
  ASSUME NEW m, NEW shape \in TensorShapes, Shaped(FALSE, m, shape), NEW offset \in Numbers, NEW nested
  PROVE  /\ Shaped(FALSE, parseLoopIterArg(m, offset, nested), shape)
         /\ parseLoopIterArg(m, offset, nested).outcome # "crash"
         /\ Parsed(m) /\ ~nested =>
              /\ parseLoopIterArg(m, offset, nested)
                   = MaskOf(offset, AddOFRs(offset, SubOFRs(LoopEnd(m), LoopStart(m))), Absent, m.dims)
              /\ LoopStart(m) \in Numbers /\ LoopEnd(m) \in Numbers
<1> DEFINE r == parseLoopIterArg(m, offset, nested)
           e == AddOFRs(offset, SubOFRs(LoopEnd(m), LoopStart(m)))
<1>1. CASE nested \/ ~Parsed(m)
  <2>1. r = Undecoded
    BY <1>1, LoopIs
  <2> HIDE DEF r
  <2> QED BY <1>1, <2>1, Unparsed DEF Shaped, r
<1>2. CASE Parsed(m) /\ ~nested
  <2>1. /\ m.start \in Fields /\ m.end \in Fields /\ m.scalar \in Fields /\ m.dims \in Seq(Numbers)
        /\ Present(m.start) = ~Present(m.scalar) /\ Present(m.end) = ~Present(m.scalar)
        /\ m.dims = Attrs(shape) /\ Len(m.dims) = Len(shape)
    BY <1>2, ShapedBasics DEF Shaped
  <2>2. LoopStart(m) \in Numbers /\ LoopEnd(m) \in Numbers
    <3>1. Attr(0) \in Numbers
      BY NumbersAre
    <3>2. CASE isScalar(m)
      <4>1. LoopStart(m) = Attr(0) /\ LoopEnd(m) = m.scalar
        BY <3>2 DEF LoopStart, LoopEnd
      <4> QED BY <2>1, <3>1, <3>2, <4>1, NumbersAre DEF isScalar
    <3>3. CASE ~isScalar(m)
      <4>1. LoopStart(m) = m.start /\ LoopEnd(m) = m.end
        BY <3>3 DEF LoopStart, LoopEnd
      <4> QED BY <2>1, <3>3, <4>1, NumbersAre DEF isScalar
    <3> QED BY <3>2, <3>3
  <2>3. e \in Numbers
    BY <2>2, Arithmetic
  <2>4. Present(offset) /\ Present(e) /\ Present(LoopStart(m)) /\ Present(LoopEnd(m))
    BY <2>2, <2>3, NumbersAre
  <2> HIDE DEF e
  <2>5. r = MaskOf(offset, e, Absent, m.dims)
    BY <1>2, <2>4, LoopIs DEF e
  <2> HIDE DEF r
  <2>6. /\ r \in MaskStates /\ r.outcome = "ok" /\ r.start = offset /\ r.end = e /\ r.scalar = Absent
        /\ r.dims = m.dims
    BY <2>1, <2>3, <2>5, MaskOfIs, NumbersAre DEF Fields
  <2>7. Shaped(FALSE, r, shape)
    BY <2>1, <2>4, <2>6, NumbersAre DEF Shaped
  <2> QED BY <2>2, <2>5, <2>6, <2>7 DEF r, e
<1> QED BY <1>1, <1>2

(* r is the range of m at offset. *)
LoopedTo(r, m, offset) ==
  /\ Parsed(r) /\ ~isScalar(r) /\ r.start = offset /\ r.dims = m.dims
  /\ r.end.val = offset.val + (m.end.val - m.start.val)
  /\ m.start.val \in Int /\ m.end.val \in Int /\ offset.val \in Int

LEMMA LoopMoves ==
  ASSUME NEW m, NEW shape \in TensorShapes, Shaped(FALSE, m, shape), Parsed(m), ~isScalar(m),
         NEW offset \in Numbers, NEW nested, ~nested
  PROVE  LoopedTo(parseLoopIterArg(m, offset, nested), m, offset)
<1> DEFINE r == parseLoopIterArg(m, offset, nested)
           e == AddOFRs(offset, SubOFRs(LoopEnd(m), LoopStart(m)))
<1>1. r = MaskOf(offset, e, Absent, m.dims) /\ LoopStart(m) \in Numbers /\ LoopEnd(m) \in Numbers
  BY LoopShaped
<1>2. LoopStart(m) = m.start /\ LoopEnd(m) = m.end
  BY DEF LoopStart, LoopEnd
<1>3. e.val = offset.val + (m.end.val - m.start.val)
  BY <1>1, <1>2, Arithmetic
<1>4. m.start.val \in Int /\ m.end.val \in Int /\ offset.val \in Int
  BY <1>1, <1>2, NumbersAre
<1> HIDE DEF e, r
<1>5. Parsed(r) /\ r.start = offset /\ r.end = e /\ r.scalar = Absent /\ r.dims = m.dims
  BY <1>1, MaskOfIs
<1>6. ~isScalar(r)
  BY <1>5, NumbersAre DEF isScalar
<1>7. LoopedTo(r, m, offset)
  BY <1>3, <1>4, <1>5, <1>6 DEF LoopedTo
<1> QED BY <1>7 DEF r

LEMMA LoopWithin ==
  ASSUME NEW m, NEW shape \in TensorShapes, Shaped(FALSE, m, shape), Within(FALSE, m, shape),
         Parsed(m) => ~isScalar(m), NEW offset \in Numbers, NEW nested
  PROVE  Within(FALSE, parseLoopIterArg(m, offset, nested), shape)
<1> DEFINE r == parseLoopIterArg(m, offset, nested)
<1>1. CASE nested \/ ~Parsed(m)
  BY <1>1, LoopIs, Unparsed DEF Within
<1>2. CASE Parsed(m) /\ ~nested
  <2>1. /\ r.start = offset /\ r.end.val = offset.val + (m.end.val - m.start.val)
        /\ m.start.val \in Int /\ m.end.val \in Int /\ offset.val \in Int
    <3>1. Parsed(m) /\ ~isScalar(m) /\ ~nested
      BY <1>2
    <3>2. LoopedTo(r, m, offset)
      BY <3>1, LoopMoves
    <3> HIDE DEF r
    <3> QED BY <3>2 DEF LoopedTo
  <2>2. PICK a \in DOMAIN shape : RangeAt(m, shape, a)
    BY <1>2 DEF Within
  <2>3. shape[a] \in Nat
    BY ShapeFacts
  <2> HIDE DEF r
  <2>4. RangeAt(r, shape, a)
    BY <2>1, <2>2, <2>3 DEF RangeAt
  <2> QED BY <2>4 DEF Within, r
<1> QED BY <1>1, <1>2

LEMMA LoopExact ==
  ASSUME NEW m, NEW shape \in TensorShapes, Shaped(FALSE, m, shape),
         NEW elem, DOMAIN elem = Elements(shape), Exact(FALSE, m, shape, elem),
         Parsed(m) => ~isScalar(m), NEW offset \in Numbers, NEW nested, NEW step \in Int,
         Parsed(m) => offset.val = m.start.val + step
  PROVE  Exact(FALSE, parseLoopIterArg(m, offset, nested), shape, [x \in DOMAIN elem |-> elem[x] + step])
<1> DEFINE r == parseLoopIterArg(m, offset, nested)
           f == [x \in DOMAIN elem |-> elem[x] + step]
<1>1. CASE nested \/ ~Parsed(m)
  BY <1>1, LoopIs, Unparsed DEF Exact
<1>2. CASE Parsed(m) /\ ~nested
  <2>1. /\ ~isScalar(r) /\ r.start = offset /\ r.end.val = offset.val + (m.end.val - m.start.val)
        /\ m.start.val \in Int /\ m.end.val \in Int /\ offset.val \in Int
    <3>1. Parsed(m) /\ ~isScalar(m) /\ ~nested
      BY <1>2
    <3>2. LoopedTo(r, m, offset)
      BY <3>1, LoopMoves
    <3> HIDE DEF r, f
    <3> QED BY <3>2 DEF LoopedTo
  <2>2. PICK a \in DOMAIN shape :
          RangeAt(m, shape, a) /\ \A x \in Elements(shape) : elem[x] = m.start.val + x[a]
    BY <1>2 DEF Exact, AlongAxis
  <2>3. shape[a] \in Nat
    BY ShapeFacts
  <2>4. \A x \in Elements(shape) : f[x] = elem[x] + step
    OBVIOUS
  <2>5. \A x \in Elements(shape) : x[a] \in Int
    BY ElementsAre
  <2> HIDE DEF r, f
  <2>6. RangeAt(r, shape, a)
    BY <2>1, <2>2, <2>3 DEF RangeAt
  <2>7. \A x \in Elements(shape) : f[x] = r.start.val + x[a]
    BY <1>2, <2>1, <2>2, <2>4, <2>5
  <2> QED BY <2>1, <2>6, <2>7 DEF Exact, AlongAxis, r, f
<1> QED BY <1>1, <1>2

-----------------------------------------------------------------------------
(* arith.addi *)

(* s is the range m, moved by k. *)
Moved(s, m, k) ==
  /\ s \in MaskStates /\ Parsed(s) /\ Present(s.start) /\ Present(s.end) /\ ~isScalar(s)
  /\ s.dims = m.dims
  /\ m.start.val \in Int /\ m.end.val \in Int /\ k.val \in Int
  /\ s.start.val = m.start.val + k.val /\ s.end.val = m.end.val + k.val

LEMMA AddMoves ==
  ASSUME NEW m, NEW shape \in TensorShapes, Shaped(FALSE, m, shape), Parsed(m), ~isScalar(m), NEW k \in Numbers
  PROVE  Moved(addStateScalar(m, k), m, k)
<1> DEFINE a == AddOFRs(m.start, k)
           b == AddOFRs(m.end, k)
           s == addStateScalar(m, k)
<1>1. /\ m.start \in Fields /\ m.end \in Fields /\ m.scalar \in Fields /\ m.dims \in Seq(Numbers)
      /\ Present(m.start) /\ Present(m.end) /\ ~Present(m.scalar) /\ Formed(m)
  BY ShapedBasics DEF Shaped, isScalar
<1>2. m.start \in Numbers /\ m.end \in Numbers
  BY <1>1, NumbersAre
<1>3. /\ a \in Numbers /\ b \in Numbers /\ a.val = m.start.val + k.val /\ b.val = m.end.val + k.val
      /\ m.start.val \in Int /\ m.end.val \in Int /\ k.val \in Int
  BY <1>2, Arithmetic, NumbersAre
<1>4. s = [m EXCEPT !.start = a, !.end = b]
  BY <1>1, Zenon DEF addStateScalar
<1> HIDE DEF a, b, s
<1>5. s = MaskOf(a, b, m.scalar, m.dims)
  BY <1>1, <1>4, ExceptIs
<1>6. s \in MaskStates /\ Parsed(s) /\ s.start = a /\ s.end = b /\ s.scalar = m.scalar /\ s.dims = m.dims
  BY <1>1, <1>3, <1>5, MaskOfIs DEF Fields
<1>7. Present(a) /\ Present(b)
  BY <1>3, NumbersAre
<1> QED BY <1>1, <1>3, <1>6, <1>7 DEF Moved, isScalar, s

LEMMA AddCases ==
  ASSUME NEW l, NEW r, NEW shape \in TensorShapes, Shaped(FALSE, l, shape), Shaped(FALSE, r, shape)
  PROVE  \/ ~Parsed(parseAdd(l, r)) /\ parseAdd(l, r) \in {l, r, Undecoded}
         \/ /\ Parsed(l) /\ Parsed(r) /\ isScalar(l) /\ ~isScalar(r) /\ l.scalar \in Numbers
            /\ Moved(parseAdd(l, r), r, l.scalar)
         \/ /\ Parsed(l) /\ Parsed(r) /\ ~isScalar(l) /\ isScalar(r) /\ r.scalar \in Numbers
            /\ Moved(parseAdd(l, r), l, r.scalar)
<1>1. CASE ~BothParsed(l, r)
  BY <1>1 DEF parseAdd, FirstUnparsed, BothParsed
<1>2. CASE BothParsed(l, r) /\ isScalar(l) = isScalar(r)
  BY <1>2, Unparsed DEF parseAdd
<1>3. CASE BothParsed(l, r) /\ ~(isScalar(l) = isScalar(r))
  <2>1. Parsed(l) /\ Parsed(r)
    BY <1>3 DEF BothParsed
  <2>2. (isScalar(l) => l.scalar \in Numbers) /\ (isScalar(r) => r.scalar \in Numbers)
    BY <2>1, ShapedBasics, NumbersAre DEF isScalar
  <2>5. isScalar(l) \in BOOLEAN /\ isScalar(r) \in BOOLEAN
    BY DEF isScalar, Present
  <2>3. CASE isScalar(l)
    <3>1. ~isScalar(r)
      BY <1>3, <2>3, <2>5, Zenon
    <3>2. parseAdd(l, r) = addStateScalar(r, l.scalar)
      BY <1>3, <2>3 DEF parseAdd
    <3> QED BY <2>1, <2>2, <2>3, <3>1, <3>2, AddMoves
  <2>4. CASE ~isScalar(l)
    <3>1. isScalar(r)
      BY <1>3, <2>4, <2>5, Zenon
    <3>2. parseAdd(l, r) = addStateScalar(l, r.scalar)
      BY <1>3, <2>4 DEF parseAdd
    <3> QED BY <2>1, <2>2, <2>4, <3>1, <3>2, AddMoves
  <2> QED BY <2>3, <2>4
<1> QED BY <1>1, <1>2, <1>3

LEMMA AddShaped ==
  ASSUME NEW l, NEW r, NEW shape \in TensorShapes, Shaped(FALSE, l, shape), Shaped(FALSE, r, shape)
  PROVE  /\ Shaped(FALSE, parseAdd(l, r), shape)
         /\ parseAdd(l, r).outcome = "crash" => l.outcome = "crash" \/ r.outcome = "crash"
<1> DEFINE s == parseAdd(l, r)
<1>1. ASSUME ~Parsed(s), s \in {l, r, Undecoded}
      PROVE  Shaped(FALSE, s, shape) /\ (s.outcome = "crash" => l.outcome = "crash" \/ r.outcome = "crash")
  <2> HIDE DEF s
  <2> QED BY <1>1, Unparsed DEF Shaped
<1>2. ASSUME NEW m, NEW k, Shaped(FALSE, m, shape), Parsed(m), Moved(s, m, k)
      PROVE  Shaped(FALSE, s, shape) /\ s.outcome # "crash"
  <2> HIDE DEF s
  <2> QED BY <1>2 DEF Shaped, Moved, isScalar, Parsed
<1> HIDE DEF s
<1> QED BY <1>1, <1>2, AddCases DEF s

LEMMA AddWithin ==
  ASSUME NEW l, NEW r, NEW shape \in TensorShapes, Shaped(FALSE, l, shape), Shaped(FALSE, r, shape),
         Within(FALSE, l, shape), Within(FALSE, r, shape)
  PROVE  Within(FALSE, parseAdd(l, r), shape)
<1> DEFINE s == parseAdd(l, r)
<1>1. ASSUME NEW m, NEW k, Within(FALSE, m, shape), Parsed(m), ~isScalar(m), Moved(s, m, k)
      PROVE  Within(FALSE, s, shape)
  <2>1. PICK a \in DOMAIN shape : RangeAt(m, shape, a)
    BY <1>1 DEF Within
  <2>2. shape[a] \in Nat
    BY ShapeFacts
  <2> HIDE DEF s
  <2>3. RangeAt(s, shape, a)
    BY <1>1, <2>1, <2>2 DEF RangeAt, Moved
  <2> QED BY <2>3 DEF Within
<1>2. ASSUME ~Parsed(s) PROVE Within(FALSE, s, shape)
  BY <1>2 DEF Within
<1> HIDE DEF s
<1> QED BY <1>1, <1>2, AddCases DEF s

LEMMA AddExact ==
  ASSUME NEW l, NEW r, NEW shape \in TensorShapes, Shaped(FALSE, l, shape), Shaped(FALSE, r, shape),
         NEW a, NEW b, DOMAIN a = Elements(shape), Exact(FALSE, l, shape, a), Exact(FALSE, r, shape, b)
  PROVE  Exact(FALSE, parseAdd(l, r), shape, [x \in DOMAIN a |-> a[x] + b[x]])
<1> DEFINE s == parseAdd(l, r)
           f == [x \in DOMAIN a |-> a[x] + b[x]]
<1>1. \A x \in Elements(shape) : f[x] = a[x] + b[x]
  OBVIOUS
<1>2. ASSUME NEW m, NEW k \in Numbers, NEW elem, AlongAxis(m, shape, elem), Moved(s, m, k),
             \A x \in Elements(shape) : f[x] = elem[x] + k.val \/ f[x] = k.val + elem[x]
      PROVE  Exact(FALSE, s, shape, f)
  <2>1. PICK c \in DOMAIN shape :
          RangeAt(m, shape, c) /\ \A x \in Elements(shape) : elem[x] = m.start.val + x[c]
    BY <1>2 DEF AlongAxis
  <2>2. shape[c] \in Nat /\ \A x \in Elements(shape) : x[c] \in Int
    BY ShapeFacts, ElementsAre
  <2> HIDE DEF s, f
  <2>3. RangeAt(s, shape, c)
    BY <1>2, <2>1, <2>2 DEF RangeAt, Moved
  <2>4. \A x \in Elements(shape) : f[x] = s.start.val + x[c]
    <3> SUFFICES ASSUME NEW x \in Elements(shape) PROVE f[x] = s.start.val + x[c]
      OBVIOUS
    <3>1. s.start.val = m.start.val + k.val /\ m.start.val \in Int /\ k.val \in Int /\ x[c] \in Int
      BY <1>2, <2>2 DEF Moved
    <3>2. f[x] = (m.start.val + x[c]) + k.val \/ f[x] = k.val + (m.start.val + x[c])
      BY <1>2, <2>1
    <3> QED BY <3>1, <3>2
  <2>5. ~isScalar(s)
    BY <1>2 DEF Moved
  <2> QED BY <2>3, <2>4, <2>5 DEF Exact, AlongAxis
<1>3. CASE ~Parsed(s)
  BY <1>3 DEF Exact
<1> HIDE DEF s, f
<1>4. CASE /\ Parsed(l) /\ Parsed(r) /\ isScalar(l) /\ ~isScalar(r) /\ l.scalar \in Numbers
           /\ Moved(s, r, l.scalar)
  <2>1. AlongAxis(r, shape, b) /\ \A x \in Elements(shape) : a[x] = l.scalar.val
    BY <1>4 DEF Exact
  <2>2. \A x \in Elements(shape) : f[x] = b[x] + l.scalar.val \/ f[x] = l.scalar.val + b[x]
    BY <1>1, <2>1
  <2>3. Exact(FALSE, s, shape, f)
    BY <1>2, <1>4, <2>1, <2>2
  <2> QED BY <2>3 DEF s, f
<1>5. CASE /\ Parsed(l) /\ Parsed(r) /\ ~isScalar(l) /\ isScalar(r) /\ r.scalar \in Numbers
           /\ Moved(s, l, r.scalar)
  <2>1. AlongAxis(l, shape, a) /\ \A x \in Elements(shape) : b[x] = r.scalar.val
    BY <1>5 DEF Exact
  <2>2. \A x \in Elements(shape) : f[x] = a[x] + r.scalar.val \/ f[x] = r.scalar.val + a[x]
    BY <1>1, <2>1
  <2>3. Exact(FALSE, s, shape, f)
    BY <1>2, <1>5, <2>1, <2>2
  <2> QED BY <2>3 DEF s, f
<1> QED BY <1>3, <1>4, <1>5, AddCases DEF s, f

-----------------------------------------------------------------------------
(* arith.andi of masks *)

(* s is an operand without a mask, or the box where those of l and r meet. *)
AndsTo(s, l, r, shape) ==
  \/ ~Parsed(s) /\ s \in {l, r}
  \/ /\ Parsed(l) /\ Parsed(r)
     /\ \E g \in Seq(Numbers) :
          /\ s = MaskOf(Absent, Absent, Absent, g) /\ Len(g) = Len(shape)
          /\ \A d \in DOMAIN shape : g[d].val = MinOf(l.dims[d].val, r.dims[d].val)

LEMMA AndCases ==
  ASSUME NEW l, NEW r, NEW shape \in TensorShapes, Shaped(TRUE, l, shape), Shaped(TRUE, r, shape)
  PROVE  AndsTo(parseAnd(l, r), l, r, shape)
<1>1. CASE ~BothParsed(l, r)
  BY <1>1 DEF parseAnd, FirstUnparsed, BothParsed, AndsTo
<1>2. CASE BothParsed(l, r)
  <2> DEFINE g == minStates(l, r)
  <2>1. Parsed(l) /\ Parsed(r)
    BY <1>2 DEF BothParsed
  <2>2. /\ DOMAIN l.dims = DOMAIN shape /\ l.dims # <<>> /\ r.dims # <<>>
        /\ \A d \in DOMAIN shape : l.dims[d] \in Numbers /\ r.dims[d] \in Numbers
        /\ Len(l.dims) = Len(shape) /\ Len(r.dims) = Len(shape)
    BY <2>1, ShapedBasics DEF Shaped
  <2>3. isMask(l) /\ isMask(r)
    BY <2>1, <2>2 DEF Shaped, isMask
  <2>4. parseAnd(l, r) = MaskOf(Absent, Absent, Absent, g)
    BY <1>2, <2>2, <2>3 DEF parseAnd
  <2>5. \A d \in DOMAIN shape : g[d] = MinOFRs(l.dims[d], r.dims[d])
    BY <2>2 DEF minStates
  <2>6. g \in [1 .. Len(shape) -> Numbers] /\ Len(shape) \in Nat
    BY <2>2, Arithmetic, ShapeFacts DEF minStates
  <2> HIDE DEF g
  <2>7. g \in Seq(Numbers) /\ Len(g) = Len(shape)
    BY <2>6, OverDims
  <2>8. \A d \in DOMAIN shape : g[d].val = MinOf(l.dims[d].val, r.dims[d].val)
    BY <2>2, <2>5, Arithmetic
  <2> QED BY <2>1, <2>4, <2>7, <2>8 DEF AndsTo
<1> QED BY <1>1, <1>2

LEMMA AndShaped ==
  ASSUME NEW l, NEW r, NEW shape \in TensorShapes, Shaped(TRUE, l, shape), Shaped(TRUE, r, shape)
  PROVE  /\ Shaped(TRUE, parseAnd(l, r), shape)
         /\ parseAnd(l, r).outcome = "crash" => l.outcome = "crash" \/ r.outcome = "crash"
<1> DEFINE s == parseAnd(l, r)
<1> HIDE DEF s
<1>1. ASSUME ~Parsed(s), s \in {l, r}
      PROVE  Shaped(TRUE, s, shape) /\ (s.outcome = "crash" => l.outcome = "crash" \/ r.outcome = "crash")
  BY <1>1 DEF Shaped
<1>2. ASSUME NEW g \in Seq(Numbers), s = MaskOf(Absent, Absent, Absent, g), Len(g) = Len(shape)
      PROVE  Shaped(TRUE, s, shape) /\ s.outcome # "crash"
  <2> DEFINE yes == TRUE
  <2>1. /\ s \in MaskStates /\ s.start = Absent /\ s.end = Absent /\ s.scalar = Absent /\ s.dims = g
        /\ s.outcome = "ok"
    BY <1>2, MaskOfIs, NumbersAre
  <2>2. ~Present(s.start) /\ ~Present(s.end) /\ ~Present(s.scalar)
    BY <2>1, NumbersAre
  <2>3. Len(s.dims) = Len(shape) /\ yes
    BY <1>2, <2>1
  <2> HIDE DEF yes
  <2>4. Shaped(yes, s, shape)
    BY <2>1, <2>2, <2>3, Zenon DEF Shaped
  <2> QED BY <2>1, <2>4 DEF yes
<1>3. \/ ~Parsed(s) /\ s \in {l, r}
      \/ \E g \in Seq(Numbers) : s = MaskOf(Absent, Absent, Absent, g) /\ Len(g) = Len(shape)
  <2>1. AndsTo(s, l, r, shape)
    BY AndCases DEF s
  <2> QED BY <2>1 DEF AndsTo
<1>4. Shaped(TRUE, s, shape) /\ (s.outcome = "crash" => l.outcome = "crash" \/ r.outcome = "crash")
  BY <1>1, <1>2, <1>3
<1> QED BY <1>4 DEF s

LEMMA AndWithin ==
  ASSUME NEW l, NEW r, NEW shape \in TensorShapes, Shaped(TRUE, l, shape), Shaped(TRUE, r, shape),
         Within(TRUE, l, shape), Within(TRUE, r, shape)
  PROVE  Within(TRUE, parseAnd(l, r), shape)
<1> DEFINE s == parseAnd(l, r)
<1> HIDE DEF s
<1>1. CASE ~Parsed(s)
  BY <1>1 DEF Within, s
<1>2. ASSUME Parsed(l), Parsed(r), NEW g \in Seq(Numbers), s = MaskOf(Absent, Absent, Absent, g),
             \A d \in DOMAIN shape : g[d].val = MinOf(l.dims[d].val, r.dims[d].val)
      PROVE  Within(TRUE, s, shape)
  <2>1. s.dims = g
    BY <1>2, MaskOfIs
  <2> SUFFICES ASSUME NEW d \in DOMAIN shape PROVE g[d].val \in 0 .. shape[d]
    BY <2>1 DEF Within
  <2> DEFINE x == l.dims[d].val
             y == r.dims[d].val
             n == shape[d]
             k == g[d].val
  <2>2. x \in 0 .. n /\ y \in 0 .. n
    BY <1>2 DEF Within
  <2>3. k = MinOf(x, y)
    BY <1>2
  <2>4. n \in Nat
    BY ShapeFacts
  <2> HIDE DEF x, y, n, k
  <2>5. k \in 0 .. n
    BY <2>2, <2>3, <2>4 DEF MinOf
  <2> QED BY <2>5 DEF n, k
<1>3. \/ ~Parsed(s)
      \/ /\ Parsed(l) /\ Parsed(r)
         /\ \E g \in Seq(Numbers) : /\ s = MaskOf(Absent, Absent, Absent, g)
                                   /\ \A d \in DOMAIN shape : g[d].val = MinOf(l.dims[d].val, r.dims[d].val)
  <2>1. AndsTo(s, l, r, shape)
    BY AndCases DEF s
  <2> QED BY <2>1, Zenon DEF AndsTo
<1>4. Within(TRUE, s, shape)
  <2> DEFINE done == Within(TRUE, s, shape)
  <2>1. ~Parsed(s) => done
    BY <1>1 DEF s
  <2>2. ASSUME Parsed(l), Parsed(r), NEW g \in Seq(Numbers), s = MaskOf(Absent, Absent, Absent, g),
               \A d \in DOMAIN shape : g[d].val = MinOf(l.dims[d].val, r.dims[d].val)
        PROVE  done
    BY <1>2, <2>2
  <2> HIDE DEF done
  <2>3. done
    BY <1>3, <2>1, <2>2
  <2> QED BY <2>3 DEF done
<1> QED BY <1>4 DEF s

LEMMA AndExact ==
  ASSUME NEW l, NEW r, NEW shape \in TensorShapes, Shaped(TRUE, l, shape), Shaped(TRUE, r, shape),
         NEW a, NEW b, DOMAIN a = Elements(shape), Exact(TRUE, l, shape, a), Exact(TRUE, r, shape, b),
         NEW f, \A x \in Elements(shape) : f[x] = (a[x] /\ b[x])
  PROVE  Exact(TRUE, parseAnd(l, r), shape, f)
<1> DEFINE s == parseAnd(l, r)
<1>1. \A x \in Elements(shape) : f[x] = (a[x] /\ b[x])
  OBVIOUS
<1> HIDE DEF s
<1>2. CASE ~Parsed(s)
  BY <1>2 DEF Exact, s
<1>3. ASSUME Parsed(l), Parsed(r), NEW g \in Seq(Numbers), s = MaskOf(Absent, Absent, Absent, g),
             \A d \in DOMAIN shape : g[d].val = MinOf(l.dims[d].val, r.dims[d].val)
      PROVE  Exact(TRUE, s, shape, f)
  <2>1. s.dims = g
    BY <1>3, MaskOfIs
  <2> SUFFICES ASSUME NEW x \in Elements(shape) PROVE Selects(s, x) <=> f[x]
    BY DEF Exact
  <2>2. DOMAIN x = DOMAIN shape /\ \A d \in DOMAIN shape : x[d] \in Int
    BY ElementsAre
  <2>3. (a[x] <=> Selects(l, x)) /\ (b[x] <=> Selects(r, x))
    BY <1>3 DEF Exact
  <2>4. \A d \in DOMAIN shape : x[d] < g[d].val <=> x[d] < l.dims[d].val /\ x[d] < r.dims[d].val
    <3> SUFFICES ASSUME NEW d \in DOMAIN shape
                 PROVE  x[d] < g[d].val <=> x[d] < l.dims[d].val /\ x[d] < r.dims[d].val
      OBVIOUS
    <3>1. /\ g[d].val = MinOf(l.dims[d].val, r.dims[d].val)
          /\ l.dims[d].val \in Int /\ r.dims[d].val \in Int /\ x[d] \in Int
      BY <1>3, <2>2, ShapedBasics
    <3> QED BY <3>1 DEF MinOf
  <2>5. /\ Selects(s, x) <=> \A d \in DOMAIN shape : x[d] < g[d].val
        /\ Selects(l, x) <=> \A d \in DOMAIN shape : x[d] < l.dims[d].val
        /\ Selects(r, x) <=> \A d \in DOMAIN shape : x[d] < r.dims[d].val
    BY <2>1, <2>2 DEF Selects
  <2>6. Selects(s, x) <=> Selects(l, x) /\ Selects(r, x)
    BY <2>4, <2>5, Zenon
  <2>7. f[x] <=> a[x] /\ b[x]
    BY <1>1, Zenon
  <2> QED BY <2>3, <2>6, <2>7, Zenon
<1>4. \/ ~Parsed(s)
      \/ /\ Parsed(l) /\ Parsed(r)
         /\ \E g \in Seq(Numbers) : /\ s = MaskOf(Absent, Absent, Absent, g)
                                   /\ \A d \in DOMAIN shape : g[d].val = MinOf(l.dims[d].val, r.dims[d].val)
  <2>1. AndsTo(s, l, r, shape)
    BY AndCases DEF s
  <2> QED BY <2>1, Zenon DEF AndsTo
<1>5. Exact(TRUE, s, shape, f)
  <2> DEFINE done == Exact(TRUE, s, shape, f)
  <2>1. ~Parsed(s) => done
    BY <1>2 DEF s
  <2>2. ASSUME Parsed(l), Parsed(r), NEW g \in Seq(Numbers), s = MaskOf(Absent, Absent, Absent, g),
               \A d \in DOMAIN shape : g[d].val = MinOf(l.dims[d].val, r.dims[d].val)
        PROVE  done
    BY <1>3, <2>2
  <2> HIDE DEF done
  <2>3. done
    BY <1>4, <2>1, <2>2
  <2> QED BY <2>3 DEF done
<1> QED BY <1>5 DEF s

-----------------------------------------------------------------------------
(* arith.cmpi *)

LEMMA AtMostOne ==
  ASSUME NEW S, IsFiniteSet(S)
  PROVE  /\ Cardinality(S) <= 0 => S = {}
         /\ Cardinality(S) <= 1 => \A x \in S, y \in S : x = y
<1>1. Cardinality(S) \in Nat /\ (Cardinality(S) = 0 <=> S = {})
  BY FS_CardinalityType, FS_EmptySet
<1>2. Cardinality(S) = 1 <=> \E x : S = {x}
  BY FS_Singleton
<1>3. Cardinality(S) <= 1 => Cardinality(S) = 0 \/ Cardinality(S) = 1
  BY <1>1
<1> QED BY <1>1, <1>2, <1>3

LEMMA WideAre ==
  ASSUME NEW shape \in TensorShapes, NEW m, m.dims = Attrs(shape)
  PROVE  WideDims(m) = {d \in DOMAIN shape : shape[d] > 1} /\ IsFiniteSet(WideDims(m))
<1>1. DOMAIN m.dims = DOMAIN shape /\ \A d \in DOMAIN shape : m.dims[d] = Attr(shape[d])
  BY AttrsAre
<1>2. \A d \in DOMAIN shape : shape[d] \in Nat /\ shape[d] >= 1
  BY ShapeFacts
<1>3. ASSUME NEW d \in DOMAIN shape PROVE m.dims[d] # Attr(1) <=> shape[d] > 1
  <2>1. m.dims[d] = Attr(1) <=> shape[d] = 1
    BY <1>1 DEF Attr
  <2>2. shape[d] \in Nat /\ shape[d] >= 1
    BY <1>2
  <2> QED BY <2>1, <2>2
<1>4. WideDims(m) = {d \in DOMAIN shape : shape[d] > 1}
  BY <1>1, <1>3 DEF WideDims
<1>5. IsFiniteSet(DOMAIN shape)
  <2>1. DOMAIN shape = 1 .. Len(shape) /\ Len(shape) \in Int
    BY ShapeFacts
  <2> QED BY <2>1, FS_Interval
<1> QED BY <1>4, <1>5, FS_Subset

(* A comparison that is not refused. *)
Compared(l, r, pred) ==
  /\ Parsed(l) /\ Parsed(r) /\ pred \in {"slt", "ult", "sge"}
  /\ pred = "sge" => isScalar(r) /\ HasConstZero(r.scalar)
  /\ ~TooWide(l, r) /\ CmpAsserts(l, r, pred)

Clipped(l, r, pred) ==
  [d \in DOMAIN l.dims |-> IF d = CmpDim(l, r) THEN NewDim(l, r, pred) ELSE l.dims[d]]

LEMMA CmpCases ==
  ASSUME NEW l, NEW r, NEW pred \in Predicates
  PROVE  LET s == parseCmp(l, r, pred) IN
           \/ ~Parsed(s) /\ s \in {l, r, Undecoded}
           \/ s = Crash /\ Parsed(l) /\ Parsed(r) /\ pred # "sle" /\ ~CmpAsserts(l, r, pred)
           \/ Compared(l, r, pred) /\ s = MaskOf(Absent, Absent, Absent, Clipped(l, r, pred))
<1>1. CASE pred = "sle"
  BY <1>1, Unparsed DEF parseCmp
<1>2. CASE pred # "sle" /\ ~BothParsed(l, r)
  BY <1>2 DEF parseCmp, BothParsed, FirstUnparsed
<1>3. CASE /\ pred # "sle" /\ BothParsed(l, r)
           /\ (pred = "sge" /\ ~(isScalar(r) /\ HasConstZero(r.scalar))) \/ TooWide(l, r)
  <2>1. parseCmp(l, r, pred) = Undecoded
    BY <1>3, Zenon DEF parseCmp
  <2> QED BY <2>1, Unparsed
<1>4. CASE /\ pred # "sle" /\ BothParsed(l, r)
           /\ ~(pred = "sge" /\ ~(isScalar(r) /\ HasConstZero(r.scalar))) /\ ~TooWide(l, r)
  <2>1. CASE ~CmpAsserts(l, r, pred)
    <3>1. parseCmp(l, r, pred) = Crash
      BY <1>4, <2>1, Zenon DEF parseCmp
    <3> QED BY <1>4, <2>1, <3>1 DEF BothParsed
  <2>2. CASE CmpAsserts(l, r, pred)
    <3>1. parseCmp(l, r, pred) = MaskOf(Absent, Absent, Absent, Clipped(l, r, pred))
      BY <1>4, <2>2, Zenon DEF parseCmp, Clipped
    <3>2. Compared(l, r, pred)
      BY <1>4, <2>2 DEF Compared, BothParsed, Predicates
    <3> QED BY <3>1, <3>2
  <2> QED BY <2>1, <2>2
<1> QED BY <1>1, <1>2, <1>3, <1>4

(* Where a range has a wide dimension, no assertion fails of a comparison  *)
(* with a scalar.                                                          *)
LEMMA CmpStops ==
  ASSUME NEW l, NEW r, NEW shape \in TensorShapes, NEW pred \in Predicates,
         Shaped(FALSE, l, shape), Within(FALSE, l, shape),
         parseCmp(l, r, pred).outcome = "crash"
  PROVE  l.outcome = "crash" \/ r.outcome = "crash" \/ (Parsed(r) /\ ~isScalar(r))
<1> DEFINE s == parseCmp(l, r, pred)
<1>1. ASSUME Parsed(l), Parsed(r), pred # "sle", isScalar(r) PROVE CmpAsserts(l, r, pred)
  <2>1. CASE isScalar(l)
    <3>1. CmpDim(l, r) # 0
      BY <1>1, <2>1 DEF CmpDim
    <3> QED BY <1>1, <2>1, <3>1 DEF CmpAsserts
  <2>2. CASE ~isScalar(l)
    <3>1. PICK a \in DOMAIN shape : RangeAt(l, shape, a)
      BY <1>1, <2>2 DEF Within
    <3>2. a \in WideDims(l) /\ 0 \notin WideDims(l)
      BY <1>1, <3>1, WideAre, ShapeFacts DEF Shaped, RangeAt
    <3> DEFINE w == CHOOSE d \in WideDims(l) : TRUE
    <3>3. w \in WideDims(l)
      BY <3>2
    <3>4. CmpDim(l, r) = w
      BY <2>2, <3>2 DEF CmpDim
    <3>5. CmpDim(l, r) # 0
      BY <3>2, <3>3, <3>4
    <3>6. Present(l.start) /\ Present(l.end)
      BY <1>1, <2>2 DEF Shaped, isScalar
    <3> QED BY <1>1, <2>2, <3>5, <3>6 DEF CmpAsserts
  <2> QED BY <2>1, <2>2
<1>2. Parsed(MaskOf(Absent, Absent, Absent, Clipped(l, r, pred)))
  BY MaskOfIs
<1>3. s.outcome = "crash" /\ ~Parsed(s)
  BY DEF Parsed
<1> HIDE DEF s
<1>4. \/ s \in {l, r, Undecoded}
      \/ Parsed(l) /\ Parsed(r) /\ pred # "sle" /\ ~CmpAsserts(l, r, pred)
  BY <1>2, <1>3, CmpCases DEF s
<1> QED BY <1>1, <1>3, <1>4, Unparsed

LEMMA CompareIs ==
  ASSUME NEW a \in Numbers, NEW b \in Numbers, NEW yes \in Numbers, NEW no \in Numbers,
         NEW pred \in {"slt", "ult", "sge"}, NEW s, s = compareOFRs(a, b, pred, yes, no)
  PROVE  /\ s \in Numbers /\ s.val \in {yes.val, no.val}
         /\ (pred = "ult" => a.val >= 0 /\ b.val >= 0)
              => s.val = IF Holds(pred, a.val, b.val) THEN yes.val ELSE no.val
<1> DEFINE signed == IF pred = "sge" THEN a.val >= b.val ELSE a.val < b.val
<1>1. a.val \in Int /\ b.val \in Int /\ yes.val \in Int /\ no.val \in Int
  BY NumbersAre
<1>2. IsAttr(a) /\ IsAttr(b) => s = IF signed THEN yes ELSE no
  BY Zenon DEF compareOFRs
<1>3. ~(IsAttr(a) /\ IsAttr(b)) => s = Value(IF Holds(pred, a.val, b.val) THEN yes.val ELSE no.val)
  BY Zenon DEF compareOFRs
<1>4. pred = "sge" => Holds(pred, a.val, b.val) = (a.val >= b.val)
  BY DEF Holds
<1>5. pred = "slt" => Holds(pred, a.val, b.val) = (a.val < b.val)
  BY DEF Holds
<1>6. pred = "ult" /\ a.val >= 0 /\ b.val >= 0 => Holds(pred, a.val, b.val) = (a.val < b.val)
  <2> SUFFICES ASSUME pred = "ult", a.val >= 0, b.val >= 0
               PROVE  Holds(pred, a.val, b.val) = (a.val < b.val)
    OBVIOUS
  <2>1. Holds(pred, a.val, b.val) = IF (a.val < 0) = (b.val < 0) THEN a.val < b.val ELSE b.val < 0
    BY DEF Holds
  <2>2. ~(a.val < 0) /\ ~(b.val < 0)
    BY <1>1
  <2> QED BY <2>1, <2>2
<1>7. Value(yes.val) \in Numbers /\ Value(no.val) \in Numbers /\ Value(yes.val).val = yes.val /\ Value(no.val).val = no.val
  BY <1>1, NumbersAre
<1>8. s \in Numbers /\ s.val \in {yes.val, no.val}
  BY <1>2, <1>3, <1>7
<1>9. (pred = "ult" => a.val >= 0 /\ b.val >= 0)
        => s.val = IF Holds(pred, a.val, b.val) THEN yes.val ELSE no.val
  <2> SUFFICES ASSUME pred = "ult" => a.val >= 0 /\ b.val >= 0
               PROVE  s.val = IF Holds(pred, a.val, b.val) THEN yes.val ELSE no.val
    OBVIOUS
  <2>1. Holds(pred, a.val, b.val) = signed
    BY <1>4, <1>5, <1>6
  <2> HIDE DEF signed
  <2> QED BY <1>2, <1>3, <1>7, <2>1
<1> QED BY <1>8, <1>9

LEMMA ClampIs ==
  ASSUME NEW l, l.start \in Numbers, l.end \in Numbers, NEW limit \in Numbers
  PROVE  /\ ClampedDim(l, limit) \in Numbers
         /\ ClampedDim(l, limit).val
              = MaxOf(MinOf(l.end.val, limit.val), l.start.val) - l.start.val
<1> DEFINE m == MinOFRs(l.end, limit)
           n == MaxOFRs(m, l.start)
<1>1. m \in Numbers /\ m.val = MinOf(l.end.val, limit.val)
  BY Arithmetic
<1> HIDE DEF m
<1>2. n \in Numbers /\ n.val = MaxOf(m.val, l.start.val)
  BY <1>1, Arithmetic
<1> HIDE DEF n
<1>3. ClampedDim(l, limit) = SubOFRs(n, l.start)
  BY DEF ClampedDim, m, n
<1> QED BY <1>1, <1>2, <1>3, Arithmetic

(* The dimension a comparison clips: the only wide one, or the first one   *)
(* of two uniform tensors of one element.                                  *)
LEMMA CmpDimIs ==
  ASSUME NEW l, NEW r, NEW pred, NEW shape \in TensorShapes,
         Shaped(FALSE, l, shape), Compared(l, r, pred)
  PROVE  /\ \A d \in DOMAIN shape : d # CmpDim(l, r) \/ isScalar(l) => shape[d] = 1
         /\ isScalar(l) => isScalar(r) /\ CmpDim(l, r) = 1
         /\ CmpDim(l, r) \in DOMAIN shape \/ (CmpDim(l, r) = 0 /\ ~isScalar(l) /\ WideDims(l) = {})
<1>1. Parsed(l) /\ ~TooWide(l, r) /\ CmpAsserts(l, r, pred) /\ l.dims = Attrs(shape)
  BY DEF Compared, Shaped
<1>2. WideDims(l) = {d \in DOMAIN shape : shape[d] > 1} /\ IsFiniteSet(WideDims(l))
  BY <1>1, WideAre
<1>3. \A d \in DOMAIN shape : shape[d] \in Nat /\ shape[d] >= 1
  BY ShapeFacts
<1>4. Cardinality(WideDims(l)) \in Nat
  BY <1>2, FS_CardinalityType
<1>5. CASE isScalar(l)
  <2>1. isScalar(r)
    BY <1>1, <1>5 DEF CmpAsserts
  <2>2. Cardinality(WideDims(l)) <= 0
    BY <1>1, <1>4, <1>5, <2>1 DEF TooWide
  <2>3. WideDims(l) = {}
    BY <1>2, <2>2, AtMostOne
  <2>4. \A d \in DOMAIN shape : shape[d] = 1
    BY <1>2, <1>3, <2>3
  <2>5. CmpDim(l, r) = 1
    BY <1>5, <2>1 DEF CmpDim
  <2> QED BY <2>1, <2>4, <2>5, ShapeFacts
<1>6. CASE ~isScalar(l) /\ WideDims(l) = {}
  <2>1. CmpDim(l, r) = 0
    BY <1>6 DEF CmpDim
  <2>2. \A d \in DOMAIN shape : shape[d] = 1
    BY <1>2, <1>3, <1>6
  <2> QED BY <1>6, <2>1, <2>2
<1>7. CASE ~isScalar(l) /\ WideDims(l) # {}
  <2> DEFINE w == CHOOSE d \in WideDims(l) : TRUE
  <2>1. w \in WideDims(l)
    BY <1>7
  <2>2. CmpDim(l, r) = w
    BY <1>7 DEF CmpDim
  <2> HIDE DEF w
  <2>3. Cardinality(WideDims(l)) <= 1
    BY <1>1, <1>4, <1>7 DEF TooWide
  <2>4. \A d \in WideDims(l) : d = w
    BY <1>2, <2>1, <2>3, AtMostOne
  <2>5. \A d \in DOMAIN shape : d # w => shape[d] = 1
    BY <1>2, <1>3, <2>4
  <2> QED BY <1>2, <1>7, <2>1, <2>2, <2>5
<1> QED BY <1>5, <1>6, <1>7

(* The extent n a comparison of two uniform tensors leaves, and one of a   *)
(* range with a uniform tensor, in a dimension of the given size.          *)
ClipsUniform(l, r, pred, n) ==
  /\ n \in {1, 0}
  /\ (pred = "ult" => l.scalar.val >= 0 /\ r.scalar.val >= 0)
       => n = IF Holds(pred, l.scalar.val, r.scalar.val) THEN 1 ELSE 0

ClipsRange(l, r, pred, size, n) ==
  /\ pred # "sge" =>
       /\ l.start.val \in Int /\ l.end.val \in Int /\ r.scalar.val \in Int
       /\ n = MaxOf(MinOf(l.end.val, r.scalar.val), l.start.val) - l.start.val
  /\ pred = "sge" => n = size /\ r.scalar.val = 0

(* The extent a comparison gives to that dimension. *)
LEMMA NewDimIs ==
  ASSUME NEW l, NEW r, NEW pred, NEW shape \in TensorShapes,
         Shaped(FALSE, l, shape), Shaped(FALSE, r, shape), Compared(l, r, pred), CmpDim(l, r) \in DOMAIN shape
  PROVE  /\ NewDim(l, r, pred) \in Numbers
         /\ isScalar(l) => ClipsUniform(l, r, pred, NewDim(l, r, pred).val)
         /\ ~isScalar(l) => ClipsRange(l, r, pred, shape[CmpDim(l, r)], NewDim(l, r, pred).val)
<1> DEFINE c == CmpDim(l, r)
<1>1. /\ Parsed(l) /\ Parsed(r) /\ CmpAsserts(l, r, pred) /\ pred \in {"slt", "ult", "sge"}
      /\ pred = "sge" => isScalar(r) /\ HasConstZero(r.scalar)
  BY DEF Compared
<1>2. /\ l.start \in Fields /\ l.end \in Fields /\ l.scalar \in Fields /\ r.scalar \in Fields
      /\ \A d \in DOMAIN shape : l.dims[d] \in Numbers
  BY <1>1, ShapedBasics
<1>3. l.dims = Attrs(shape) /\ Present(l.start) = ~Present(l.scalar) /\ Present(l.end) = ~Present(l.scalar)
  BY <1>1 DEF Shaped
<1>4. l.dims[c] \in Numbers /\ l.dims[c].val = shape[c]
  BY <1>2, <1>3, AttrsAre
<1>5. CASE isScalar(l)
  <2>1. isScalar(r) /\ l.scalar \in Numbers /\ r.scalar \in Numbers
    BY <1>1, <1>2, <1>5, NumbersAre DEF CmpAsserts, isScalar
  <2>2. shape[c] = 1
    <3>1. \A d \in DOMAIN shape : d # CmpDim(l, r) \/ isScalar(l) => shape[d] = 1
      BY CmpDimIs
    <3> QED BY <1>5, <3>1
  <2>3. NewDim(l, r, pred) = compareOFRs(l.scalar, r.scalar, pred, l.dims[c], Attr(0))
    BY <1>5 DEF NewDim
  <2>4. Attr(0) \in Numbers /\ Attr(0).val = 0
    BY NumbersAre
  <2> DEFINE n == NewDim(l, r, pred)
  <2>5. n \in Numbers /\ ClipsUniform(l, r, pred, n.val)
    <3> DEFINE a == l.scalar
               b == r.scalar
               yes == l.dims[c]
               no == Attr(0)
    <3>1. yes \in Numbers /\ yes.val = 1 /\ no \in Numbers /\ no.val = 0 /\ a \in Numbers /\ b \in Numbers
      BY <1>4, <2>1, <2>2, <2>4
    <3>2. n = compareOFRs(a, b, pred, yes, no) /\ pred \in {"slt", "ult", "sge"}
      BY <1>1, <2>3
    <3> HIDE DEF yes, no, n, a, b
    <3>3. /\ n \in Numbers /\ n.val \in {yes.val, no.val}
          /\ (pred = "ult" => a.val >= 0 /\ b.val >= 0)
               => n.val = IF Holds(pred, a.val, b.val) THEN yes.val ELSE no.val
      BY <3>1, <3>2, CompareIs
    <3>4. /\ n \in Numbers /\ n.val \in {1, 0}
          /\ (pred = "ult" => a.val >= 0 /\ b.val >= 0)
               => n.val = IF Holds(pred, a.val, b.val) THEN 1 ELSE 0
      BY <3>1, <3>3, Zenon
    <3> QED BY <3>4 DEF a, b, ClipsUniform
  <2> QED BY <1>5, <2>1, <2>5
<1>6. CASE ~isScalar(l) /\ pred # "sge"
  <2>1. Present(l.start) /\ Present(l.end) /\ isScalar(r)
    BY <1>1, <1>6 DEF CmpAsserts
  <2>2. l.start \in Numbers /\ l.end \in Numbers /\ r.scalar \in Numbers
    BY <1>2, <2>1, NumbersAre DEF isScalar
  <2>3. NewDim(l, r, pred) = ClampedDim(l, r.scalar)
    BY <1>6 DEF NewDim
  <2>4. NewDim(l, r, pred) \in Numbers
    BY <2>2, <2>3, ClampIs
  <2>5. ClipsRange(l, r, pred, shape[c], NewDim(l, r, pred).val)
    BY <1>6, <2>2, <2>3, ClampIs, NumbersAre DEF ClipsRange
  <2> QED BY <1>6, <2>4, <2>5
<1>7. CASE ~isScalar(l) /\ pred = "sge"
  <2>1. NewDim(l, r, pred) = l.dims[c]
    BY <1>7 DEF NewDim
  <2>2. isScalar(r) /\ r.scalar.val = 0
    BY <1>1, <1>7 DEF HasConstZero
  <2>3. ClipsRange(l, r, pred, shape[c], NewDim(l, r, pred).val)
    BY <1>4, <1>7, <2>1, <2>2 DEF ClipsRange
  <2> QED BY <1>4, <1>7, <2>1, <2>3
<1> QED BY <1>5, <1>6, <1>7

(* Only the extent of dimension c is another: n. *)
Replaces(shape, c, g, n) ==
  /\ \A d \in DOMAIN shape : d # c => g[d].val = shape[d]
  /\ c \in DOMAIN shape => g[c] = n

LEMMA CmpDims ==
  ASSUME NEW l, NEW r, NEW pred, NEW shape \in TensorShapes,
         Shaped(FALSE, l, shape), Shaped(FALSE, r, shape), Compared(l, r, pred)
  PROVE  /\ Clipped(l, r, pred) \in Seq(Numbers) /\ Len(Clipped(l, r, pred)) = Len(shape)
         /\ Replaces(shape, CmpDim(l, r), Clipped(l, r, pred), NewDim(l, r, pred))
<1> DEFINE g == Clipped(l, r, pred)
           c == CmpDim(l, r)
<1>1. Parsed(l) /\ Parsed(r) /\ l.dims = Attrs(shape)
  BY DEF Compared, Shaped
<1>2. DOMAIN l.dims = DOMAIN shape /\ \A d \in DOMAIN shape : l.dims[d] \in Numbers /\ l.dims[d].val = shape[d]
  BY <1>1, ShapedBasics, AttrsAre
<1>3. c \in DOMAIN shape => NewDim(l, r, pred) \in Numbers
  BY NewDimIs
<1>4. \A d \in DOMAIN shape : g[d] = IF d = c THEN NewDim(l, r, pred) ELSE l.dims[d]
  BY <1>2 DEF Clipped
<1>5. DOMAIN shape = 1 .. Len(shape) /\ Len(shape) \in Nat
  BY ShapeFacts
<1>6. g = [d \in DOMAIN shape |-> IF d = c THEN NewDim(l, r, pred) ELSE l.dims[d]]
  BY <1>2 DEF Clipped
<1> HIDE DEF c, g
<1>7. g \in [1 .. Len(shape) -> Numbers]
  BY <1>2, <1>3, <1>5, <1>6
<1>8. g \in Seq(Numbers) /\ Len(g) = Len(shape)
  BY <1>5, <1>7, OverDims
<1> DEFINE n == NewDim(l, r, pred)
<1> HIDE DEF n
<1>9. Replaces(shape, c, g, n)
  BY <1>2, <1>4 DEF Replaces, n
<1> QED BY <1>8, <1>9 DEF g, c, n

LEMMA CmpShaped ==
  ASSUME NEW l, NEW r, NEW pred \in Predicates, NEW shape \in TensorShapes,
         Shaped(FALSE, l, shape), Shaped(FALSE, r, shape)
  PROVE  Shaped(TRUE, parseCmp(l, r, pred), shape)
<1> DEFINE s == parseCmp(l, r, pred)
           g == Clipped(l, r, pred)
<1>1. ASSUME ~Parsed(s), s \in {l, r, Undecoded, Crash} PROVE Shaped(TRUE, s, shape)
  <2> HIDE DEF s
  <2> QED BY <1>1, Unparsed DEF Shaped
<1>2. ASSUME Compared(l, r, pred), s = MaskOf(Absent, Absent, Absent, g) PROVE Shaped(TRUE, s, shape)
  <2>1. g \in Seq(Numbers) /\ Len(g) = Len(shape)
    BY <1>2, CmpDims
  <2> HIDE DEF s, g
  <2>2. s \in MaskStates /\ s.start = Absent /\ s.end = Absent /\ s.scalar = Absent /\ s.dims = g
    BY <1>2, <2>1, MaskOfIs, NumbersAre
  <2> QED BY <2>1, <2>2, NumbersAre DEF Shaped
<1>3. \/ ~Parsed(s) /\ s \in {l, r, Undecoded, Crash}
      \/ Compared(l, r, pred) /\ s = MaskOf(Absent, Absent, Absent, g)
  <2> HIDE DEF s, g
  <2>1. \/ ~Parsed(s) /\ s \in {l, r, Undecoded}
        \/ s = Crash
        \/ Compared(l, r, pred) /\ s = MaskOf(Absent, Absent, Absent, g)
    BY CmpCases DEF s, g
  <2> QED BY <2>1, Unparsed
<1> HIDE DEF s, g
<1>4. Shaped(TRUE, s, shape)
  BY <1>1, <1>2, <1>3
<1> QED BY <1>4 DEF s

(* What is known of the extents g a comparison leaves; c is the dimension  *)
(* compared.                                                               *)
Clips(l, r, pred, shape, c, g) ==
  /\ \A d \in DOMAIN shape : d # c => g[d].val = shape[d]
  /\ isScalar(l) => c \in DOMAIN shape /\ shape[c] = 1 /\ ClipsUniform(l, r, pred, g[c].val)
  /\ ~isScalar(l) /\ c \in DOMAIN shape => ClipsRange(l, r, pred, shape[c], g[c].val)
  /\ ~isScalar(l) => \A a \in DOMAIN shape :
       RangeAt(l, shape, a) => a = c /\ l.end.val = l.start.val + shape[c]

LEMMA ClippedAre ==
  ASSUME NEW l, NEW r, NEW pred, NEW shape \in TensorShapes,
         Shaped(FALSE, l, shape), Shaped(FALSE, r, shape), Compared(l, r, pred)
  PROVE  Clips(l, r, pred, shape, CmpDim(l, r), Clipped(l, r, pred))
<1> DEFINE c == CmpDim(l, r)
           g == Clipped(l, r, pred)
<1>1. (\A d \in DOMAIN shape : d # c => g[d].val = shape[d]) /\ (c \in DOMAIN shape => g[c] = NewDim(l, r, pred))
  <2>1. Replaces(shape, c, g, NewDim(l, r, pred))
    BY CmpDims
  <2> HIDE DEF c, g
  <2> QED BY <2>1 DEF Replaces
<1>2. /\ \A d \in DOMAIN shape : d # c \/ isScalar(l) => shape[d] = 1
      /\ isScalar(l) => c = 1
  BY CmpDimIs
<1>3. ASSUME isScalar(l) PROVE c \in DOMAIN shape /\ shape[c] = 1
  <2> HIDE DEF c, g
  <2> QED BY <1>2, <1>3, ShapeFacts
<1>4. c \in DOMAIN shape =>
        /\ isScalar(l) => ClipsUniform(l, r, pred, g[c].val)
        /\ ~isScalar(l) => ClipsRange(l, r, pred, shape[c], g[c].val)
  <2> SUFFICES ASSUME c \in DOMAIN shape
               PROVE  /\ isScalar(l) => ClipsUniform(l, r, pred, NewDim(l, r, pred).val)
                      /\ ~isScalar(l) => ClipsRange(l, r, pred, shape[c], NewDim(l, r, pred).val)
    BY <1>1
  <2> QED BY NewDimIs
<1>6. ASSUME ~isScalar(l), NEW a \in DOMAIN shape, RangeAt(l, shape, a)
      PROVE  a = c /\ l.end.val = l.start.val + shape[c]
  <2>1. shape[a] # 1 /\ l.end.val = l.start.val + shape[a]
    <3>1. shape[a] \in Nat /\ shape[a] > 1
      BY <1>6, ShapeFacts DEF RangeAt
    <3> QED BY <1>6, <3>1 DEF RangeAt
  <2> QED BY <1>2, <2>1
<1> HIDE DEF c, g
<1>7. Clips(l, r, pred, shape, c, g)
  BY <1>1, <1>3, <1>4, <1>6 DEF Clips
<1> QED BY <1>7 DEF c, g

(* What a comparison that is parsed yields. *)
LEMMA CmpParsed ==
  ASSUME NEW l, NEW r, NEW pred \in Predicates, NEW s, s = parseCmp(l, r, pred), Parsed(s)
  PROVE  /\ Compared(l, r, pred) /\ s.dims = Clipped(l, r, pred)
         /\ Parsed(l) /\ Parsed(r) /\ pred \in {"slt", "ult", "sge"}
<1> DEFINE g == Clipped(l, r, pred)
<1> HIDE DEF g
<1>1. \/ ~Parsed(s) /\ s \in {l, r, Undecoded}
      \/ s = Crash
      \/ Compared(l, r, pred) /\ s = MaskOf(Absent, Absent, Absent, g)
  BY CmpCases DEF g
<1>2. Compared(l, r, pred) /\ s = MaskOf(Absent, Absent, Absent, g)
  BY <1>1, Unparsed
<1>3. s.dims = g
  BY <1>2, MaskOfIs
<1> QED BY <1>2, <1>3 DEF g, Compared

LEMMA CmpWithin ==
  ASSUME NEW l, NEW r, NEW pred \in Predicates, NEW shape \in TensorShapes,
         Shaped(FALSE, l, shape), Shaped(FALSE, r, shape), Within(FALSE, l, shape)
  PROVE  Within(TRUE, parseCmp(l, r, pred), shape)
<1> DEFINE s == parseCmp(l, r, pred)
           g == Clipped(l, r, pred)
           c == CmpDim(l, r)
<1> HIDE DEF s, g, c
<1> SUFFICES ASSUME Parsed(s), NEW d \in DOMAIN shape
             PROVE  s.dims[d].val \in 0 .. shape[d]
  BY DEF Within, s
<1>1. s.dims = g /\ Parsed(l) /\ Parsed(r) /\ Clips(l, r, pred, shape, c, g)
  <2>1. Compared(l, r, pred) /\ s.dims = g /\ Parsed(l) /\ Parsed(r)
    BY CmpParsed DEF s, g
  <2> QED BY <2>1, ClippedAre DEF c, g
<1>2. shape[d] \in Nat /\ shape[d] >= 1
  BY ShapeFacts
<1>3. CASE d # c
  <2>1. g[d].val = shape[d]
    BY <1>1, <1>3 DEF Clips, ClipsUniform, ClipsRange
  <2> QED BY <1>1, <1>2, <2>1
<1>4. CASE d = c /\ isScalar(l)
  <2>1. g[c].val \in {1, 0}
    BY <1>1, <1>4 DEF Clips, ClipsUniform, ClipsRange
  <2> QED BY <1>1, <1>2, <1>4, <2>1
<1>5. CASE d = c /\ ~isScalar(l) /\ pred = "sge"
  <2>1. g[c].val = shape[c]
    BY <1>1, <1>5 DEF Clips, ClipsUniform, ClipsRange
  <2> QED BY <1>1, <1>2, <1>5, <2>1
<1>6. CASE d = c /\ ~isScalar(l) /\ pred # "sge"
  <2>1. PICK a \in DOMAIN shape : RangeAt(l, shape, a)
    BY <1>1, <1>6 DEF Within
  <2>2. l.end.val = l.start.val + shape[c]
    BY <1>1, <1>6, <2>1 DEF Clips, ClipsUniform, ClipsRange
  <2>3. /\ l.start.val \in Int /\ l.end.val \in Int /\ r.scalar.val \in Int
        /\ g[c].val = MaxOf(MinOf(l.end.val, r.scalar.val), l.start.val) - l.start.val
    BY <1>1, <1>6 DEF Clips, ClipsUniform, ClipsRange
  <2>4. g[c].val \in 0 .. shape[c]
    BY <1>2, <1>6, <2>2, <2>3 DEF MaxOf, MinOf
  <2> QED BY <1>1, <1>6, <2>4
<1> QED BY <1>3, <1>4, <1>5, <1>6

LEMMA SignedHolds ==
  ASSUME NEW pred \in {"slt", "ult", "sge"}, NEW m \in Int, NEW n \in Int, pred = "ult" => m >= 0 /\ n >= 0
  PROVE  Holds(pred, m, n) = IF pred = "sge" THEN m >= n ELSE m < n
<1>1. CASE pred = "ult"
  <2>1. Holds(pred, m, n) = IF (m < 0) = (n < 0) THEN m < n ELSE n < 0
    BY <1>1 DEF Holds
  <2>2. ~(m < 0) /\ ~(n < 0)
    BY <1>1
  <2> QED BY <1>1, <2>1, <2>2
<1>2. CASE pred = "slt"
  BY <1>2 DEF Holds
<1>3. CASE pred = "sge"
  BY <1>3 DEF Holds
<1> QED BY <1>1, <1>2, <1>3

LEMMA CmpExact ==
  ASSUME NEW l, NEW r, NEW pred \in Predicates, NEW shape \in TensorShapes,
         Shaped(FALSE, l, shape), Shaped(FALSE, r, shape),
         NEW a, NEW b, DOMAIN a = Elements(shape), Exact(FALSE, l, shape, a), Exact(FALSE, r, shape, b),
         \A x \in Elements(shape) : a[x] \in Int /\ b[x] \in Int,
         pred = "sge" => \A x \in Elements(shape) : a[x] >= 0,
         pred = "ult" => \A x \in Elements(shape) : a[x] >= 0 /\ b[x] >= 0,
         Parsed(r) => isScalar(r), NEW f, \A x \in Elements(shape) : f[x] = Holds(pred, a[x], b[x])
  PROVE  Exact(TRUE, parseCmp(l, r, pred), shape, f)
<1> DEFINE s == parseCmp(l, r, pred)
           g == Clipped(l, r, pred)
           c == CmpDim(l, r)
<1>2. \A x \in Elements(shape) : f[x] = Holds(pred, a[x], b[x])
  OBVIOUS
<1> HIDE DEF s, g, c
<1> SUFFICES ASSUME Parsed(s), NEW x \in Elements(shape) PROVE Selects(s, x) <=> f[x]
  BY DEF Exact, s
<1>1. /\ s.dims = g /\ Parsed(l) /\ Parsed(r) /\ isScalar(r) /\ Clips(l, r, pred, shape, c, g)
      /\ pred \in {"slt", "ult", "sge"}
  <2>1. Compared(l, r, pred) /\ s.dims = g /\ Parsed(l) /\ Parsed(r) /\ pred \in {"slt", "ult", "sge"}
    BY CmpParsed DEF s, g
  <2> QED BY <2>1, ClippedAre DEF c, g
<1>3. /\ DOMAIN x = DOMAIN shape
      /\ \A d \in DOMAIN shape : x[d] \in 0 .. shape[d] - 1 /\ x[d] \in Int /\ shape[d] \in Nat
  BY ElementsAre, ShapeFacts
<1>4. \A d \in DOMAIN shape : d # c => x[d] < g[d].val
  <2>1. \A d \in DOMAIN shape : d # c => g[d].val = shape[d]
    BY <1>1 DEF Clips, ClipsUniform, ClipsRange
  <2> QED BY <1>3, <2>1
<1>5. Selects(s, x) <=> (c \in DOMAIN shape => x[c] < g[c].val)
  <2>1. Selects(s, x) <=> \A d \in DOMAIN shape : x[d] < g[d].val
    BY <1>1, <1>3 DEF Selects
  <2> QED BY <1>4, <2>1
<1>6. b[x] = r.scalar.val /\ a[x] \in Int /\ b[x] \in Int
  BY <1>1 DEF Exact
<1>7. Holds(pred, a[x], b[x]) = IF pred = "sge" THEN a[x] >= b[x] ELSE a[x] < b[x]
  BY <1>1, <1>6, SignedHolds
<1>8. CASE isScalar(l)
  <2>1. a[x] = l.scalar.val
    BY <1>1, <1>8 DEF Exact
  <2>2. pred = "ult" => l.scalar.val >= 0 /\ r.scalar.val >= 0
    BY <1>6, <2>1
  <2>3. /\ c \in DOMAIN shape /\ shape[c] = 1
        /\ g[c].val = IF Holds(pred, l.scalar.val, r.scalar.val) THEN 1 ELSE 0
    BY <1>1, <1>8, <2>2 DEF Clips, ClipsUniform, ClipsRange
  <2>4. x[c] = 0
    BY <1>3, <2>3
  <2>5. f[x] = Holds(pred, a[x], b[x])
    BY <1>2
  <2>6. g[c].val = IF f[x] THEN 1 ELSE 0
    BY <1>6, <2>1, <2>3, <2>5, Zenon
  <2>7. CASE f[x]
    <3>1. g[c].val = 1
      BY <2>6, <2>7, Zenon
    <3> QED BY <1>5, <2>3, <2>4, <2>7, <3>1
  <2>8. CASE ~f[x]
    <3>1. g[c].val = 0
      BY <2>6, <2>8, Zenon
    <3> QED BY <1>5, <2>3, <2>4, <2>8, <3>1
  <2> QED BY <2>7, <2>8
<1>9. CASE ~isScalar(l)
  <2>1. PICK e \in DOMAIN shape :
          RangeAt(l, shape, e) /\ \A y \in Elements(shape) : a[y] = l.start.val + y[e]
    BY <1>1, <1>9 DEF Exact, AlongAxis
  <2>2. c = e /\ l.end.val = l.start.val + shape[c] /\ c \in DOMAIN shape
    BY <1>1, <1>9, <2>1 DEF Clips, ClipsUniform, ClipsRange
  <2>3. a[x] = l.start.val + x[c]
    BY <2>1, <2>2
  <2>4. x[c] \in 0 .. shape[c] - 1 /\ shape[c] \in Nat
    BY <1>3, <2>2
  <2>5. CASE pred = "sge"
    <3>1. g[c].val = shape[c] /\ r.scalar.val = 0
      BY <1>1, <1>9, <2>2, <2>5 DEF Clips, ClipsUniform, ClipsRange
    <3>2. a[x] >= 0 /\ b[x] = 0
      BY <1>6, <2>5, <3>1
    <3>3. Holds(pred, a[x], b[x]) = TRUE
      BY <1>6, <1>7, <2>5, <3>2
    <3>4. f[x] = TRUE
      BY <1>2, <3>3
    <3> QED BY <1>5, <2>2, <2>4, <3>1, <3>4
  <2>6. CASE pred # "sge"
    <3>1. /\ l.start.val \in Int /\ l.end.val \in Int /\ r.scalar.val \in Int
          /\ g[c].val = MaxOf(MinOf(l.end.val, r.scalar.val), l.start.val) - l.start.val
      BY <1>1, <1>9, <2>2, <2>6 DEF Clips, ClipsUniform, ClipsRange
    <3>2. f[x] = (a[x] < b[x])
      BY <1>2, <1>7, <2>6
    <3>3. x[c] < g[c].val <=> l.start.val + x[c] < r.scalar.val
      BY <2>2, <2>4, <3>1 DEF MaxOf, MinOf
    <3> QED BY <1>5, <1>6, <2>2, <2>3, <3>2, <3>3
  <2> QED BY <2>5, <2>6
<1> QED BY <1>8, <1>9

-----------------------------------------------------------------------------
(* What is decoded whatever the tensors hold *)

LEMMA ParsesFormed ==
  ASSUME NEW l, NEW r, Formed(l), Formed(r)
  PROVE  /\ Formed(parseAdd(l, r)) /\ Formed(parseAnd(l, r))
         /\ \A pred \in Predicates : Formed(parseCmp(l, r, pred))
         /\ \A axis : /\ Formed(parseExpandDims(l, axis))
                      /\ parseExpandDims(l, axis).outcome = "crash" => l.outcome = "crash"
         /\ \A src, dst : /\ Formed(parseBroadcast(l, src, dst))
                          /\ parseBroadcast(l, src, dst).outcome = "crash" => l.outcome = "crash"
         /\ \A offset, nested : Formed(parseLoopIterArg(l, offset, nested))
<1>1. ASSUME NEW m, NEW k, Formed(m), Parsed(m) PROVE Formed(addStateScalar(m, k))
  <2>1. CASE ~Present(m.start) \/ ~Present(m.end)
    BY <2>1, Unparsed DEF addStateScalar
  <2>2. CASE ~(~Present(m.start) \/ ~Present(m.end))
    <3>1. addStateScalar(m, k) = [m EXCEPT !.start = AddOFRs(m.start, k), !.end = AddOFRs(m.end, k)]
      BY <2>2, Zenon DEF addStateScalar
    <3>2. addStateScalar(m, k) = MaskOf(AddOFRs(m.start, k), AddOFRs(m.end, k), m.scalar, m.dims)
      BY <1>1, <3>1, ExceptIs
    <3> QED BY <3>2, MaskOfIs
  <2> QED BY <2>1, <2>2
<1>2. Formed(parseAdd(l, r))
  <2>1. parseAdd(l, r) \in {l, r, Undecoded} \/ (BothParsed(l, r) /\ parseAdd(l, r) = addStateScalar(r, l.scalar))
          \/ (BothParsed(l, r) /\ parseAdd(l, r) = addStateScalar(l, r.scalar))
    BY DEF parseAdd, FirstUnparsed
  <2>2. BothParsed(l, r) => Formed(addStateScalar(r, l.scalar)) /\ Formed(addStateScalar(l, r.scalar))
    BY <1>1 DEF BothParsed
  <2> QED BY <2>1, <2>2, Unparsed
<1>3. Formed(parseAnd(l, r))
  <2>1. \/ parseAnd(l, r) \in {l, r, Undecoded}
        \/ parseAnd(l, r) = MaskOf(Absent, Absent, Absent, minStates(l, r))
        \/ parseAnd(l, r) = MaskOf(Absent, Absent, Absent, minStateScalar(l, r))
    BY DEF parseAnd, FirstUnparsed
  <2> QED BY <2>1, Unparsed, MaskOfIs
<1>4. ASSUME NEW pred \in Predicates PROVE Formed(parseCmp(l, r, pred))
  <2> DEFINE s == parseCmp(l, r, pred)
             g == Clipped(l, r, pred)
  <2> HIDE DEF s, g
  <2>1. s \in {l, r, Undecoded, Crash} \/ s = MaskOf(Absent, Absent, Absent, g)
    BY CmpCases DEF s, g
  <2>2. Formed(s)
    BY <2>1, Unparsed, MaskOfIs
  <2> QED BY <2>2 DEF s
<1>5. ASSUME NEW axis
      PROVE  /\ Formed(parseExpandDims(l, axis))
             /\ parseExpandDims(l, axis).outcome = "crash" => l.outcome = "crash"
  <2> DEFINE g == InsertDim(l.dims, axis, Attr(1))
  <2> HIDE DEF g
  <2>1. parseExpandDims(l, axis) \in {l, Undecoded, MaskOf(l.start, l.end, l.scalar, g)}
    BY ExpandIs DEF g
  <2>2. /\ Formed(MaskOf(l.start, l.end, l.scalar, g))
        /\ MaskOf(l.start, l.end, l.scalar, g).outcome = "ok"
    BY MaskOfIs
  <2> QED BY <2>1, <2>2, Unparsed
<1>6. ASSUME NEW src, NEW dst
      PROVE  /\ Formed(parseBroadcast(l, src, dst))
             /\ parseBroadcast(l, src, dst).outcome = "crash" => l.outcome = "crash"
  <2> DEFINE g == Widened(l.dims, src, dst)
  <2>1. parseBroadcast(l, src, dst) \in {l, Undecoded, MaskOf(l.start, l.end, l.scalar, g)}
    BY BroadcastIs
  <2> HIDE DEF g
  <2>2. /\ Formed(MaskOf(l.start, l.end, l.scalar, g))
        /\ MaskOf(l.start, l.end, l.scalar, g).outcome = "ok"
    BY MaskOfIs
  <2> QED BY <2>1, <2>2, Unparsed
<1>7. ASSUME NEW offset, NEW nested PROVE Formed(parseLoopIterArg(l, offset, nested))
  BY LoopIs, Unparsed, MaskOfIs
<1> QED BY <1>2, <1>3, <1>4, <1>5, <1>6, <1>7

(* A range and a number are added. *)
LEMMA AddPlain ==
  ASSUME NEW l, NEW r, NEW shape \in TensorShapes, Shaped(FALSE, l, shape), Shaped(FALSE, r, shape),
         Parsed(l), Parsed(r),
         (isScalar(l) /\ ~isScalar(r)) \/ (~isScalar(l) /\ isScalar(r))
  PROVE  Parsed(parseAdd(l, r)) /\ ~isScalar(parseAdd(l, r))
<1>1. (isScalar(l) => l.scalar \in Numbers) /\ (isScalar(r) => r.scalar \in Numbers)
  BY ShapedBasics, NumbersAre DEF isScalar
<1>2. CASE isScalar(l) /\ ~isScalar(r)
  <2>1. parseAdd(l, r) = addStateScalar(r, l.scalar)
    BY <1>2 DEF parseAdd, BothParsed
  <2>2. Moved(addStateScalar(r, l.scalar), r, l.scalar)
    BY <1>1, <1>2, AddMoves
  <2> QED BY <2>1, <2>2 DEF Moved
<1>3. CASE ~isScalar(l) /\ isScalar(r)
  <2>1. parseAdd(l, r) = addStateScalar(l, r.scalar)
    BY <1>3 DEF parseAdd, BothParsed
  <2>2. Moved(addStateScalar(l, r.scalar), l, r.scalar)
    BY <1>1, <1>3, AddMoves
  <2> QED BY <2>1, <2>2 DEF Moved
<1> QED BY <1>2, <1>3

OneWide(shape) == \E a \in DOMAIN shape : \A d \in DOMAIN shape : d # a => shape[d] = 1

(* A range is compared with a number. *)
LEMMA CmpPlain ==
  ASSUME NEW l, NEW r, NEW pred \in {"slt", "ult", "sge"}, NEW shape \in TensorShapes,
         Shaped(FALSE, l, shape), Shaped(FALSE, r, shape), Within(FALSE, l, shape),
         Parsed(l), Parsed(r), ~isScalar(l), isScalar(r), OneWide(shape),
         pred = "sge" => HasConstZero(r.scalar)
  PROVE  Parsed(parseCmp(l, r, pred))
<1>1. pred \in Predicates /\ pred # "sle"
  BY DEF Predicates
<1>2. parseCmp(l, r, pred).outcome # "crash"
  <2>1. l.outcome # "crash" /\ r.outcome # "crash"
    BY DEF Parsed
  <2> QED BY <1>1, <2>1, CmpStops
<1>3. ~TooWide(l, r)
  <2>1. WideDims(l) = {d \in DOMAIN shape : shape[d] > 1}
    BY WideAre DEF Shaped
  <2>2. PICK a \in DOMAIN shape : \A d \in DOMAIN shape : d # a => shape[d] = 1
    BY DEF OneWide
  <2>3. WideDims(l) \subseteq {a}
    BY <2>1, <2>2
  <2>4. Cardinality(WideDims(l)) <= 1 /\ Cardinality(WideDims(l)) \in Nat
    <3>1. IsFiniteSet({a}) /\ Cardinality({a}) = 1
      BY FS_Singleton
    <3>2. IsFiniteSet(WideDims(l)) /\ Cardinality(WideDims(l)) <= 1
      BY <2>3, <3>1, FS_Subset
    <3> QED BY <3>2, FS_CardinalityType
  <2>5. ~(isScalar(l) /\ isScalar(r)) /\ ~(Cardinality(WideDims(l)) > 1)
    BY <2>4
  <2> QED BY <2>5, Zenon DEF TooWide
<1>4. parseCmp(l, r, pred) \in {Crash, MaskOf(Absent, Absent, Absent, Clipped(l, r, pred))}
  <2>1. BothParsed(l, r) /\ ~(pred = "sge" /\ ~(isScalar(r) /\ HasConstZero(r.scalar)))
    BY DEF BothParsed
  <2> QED BY <1>1, <1>3, <2>1, Zenon DEF parseCmp, Clipped
<1> QED BY <1>2, <1>4, Unparsed, MaskOfIs

-----------------------------------------------------------------------------
(* The PtrState of integers *)

AtOrigin(dims) == IF Len(dims) = 1 THEN dims[1].offset.val ELSE dims[1].offset.val + dims[2].offset.val

(* Its offsets add up to the first element of the tensor. *)
PtrRight(p, shape, elem) ==
  Ok(p) => /\ p \in PtrStates /\ Len(p.dims) = Len(shape)
           /\ AtOrigin(p.dims) = elem[Zero(shape)]

LEMMA DimIs ==
  ASSUME NEW a \in Numbers, NEW n \in Nat, NEW b \in Numbers
  PROVE  Dim(a, n, b) \in PtrDims /\ Dim(a, n, b).offset = a /\ Dim(a, n, b).size = n /\ Dim(a, n, b).stride = b
  BY DEF Dim, PtrDims

LEMMA StateIs ==
  ASSUME NEW k \in Fields, NEW dims \in Seq(PtrDims)
  PROVE  /\ State(FALSE, k, dims) \in PtrStates /\ Ok(State(FALSE, k, dims))
         /\ State(FALSE, k, dims).dims = dims /\ State(FALSE, k, dims).scalar = k
  BY DEF State, PtrStates, Ok

LEMMA PtrFacts ==
  ASSUME NEW p \in PtrStates, NEW shape \in TensorShapes, Len(p.dims) = Len(shape)
  PROVE  /\ p = State(FALSE, p.scalar, p.dims) /\ p.scalar \in Fields /\ p.dims \in Seq(PtrDims)
         /\ DOMAIN p.dims = DOMAIN shape
         /\ \A d \in DOMAIN shape : /\ p.dims[d] \in PtrDims /\ p.dims[d].offset \in Numbers
                                    /\ p.dims[d].stride \in Numbers /\ p.dims[d].offset.val \in Int
                                    /\ p.dims[d].size \in Nat /\ p.dims[d].shape = Attr(0)
         /\ ~HasModulo(p) /\ Unstructured(p) = {} /\ IsStructured(p)
<1>1. p.scalar \in Fields /\ p.dims \in Seq(PtrDims) /\ p = State(FALSE, p.scalar, p.dims)
  BY DEF PtrStates, State
<1>2. DOMAIN p.dims = DOMAIN shape /\ \A d \in DOMAIN shape : p.dims[d] \in PtrDims
  BY <1>1, ShapeFacts, LenProperties, ElementOfSeq
<1>3. ASSUME NEW d \in DOMAIN shape
      PROVE  /\ p.dims[d].offset \in Numbers /\ p.dims[d].stride \in Numbers
             /\ p.dims[d].offset.val \in Int /\ p.dims[d].size \in Nat /\ p.dims[d].shape = Attr(0)
             /\ ~IsTensor(p.dims[d].offset) /\ ~DimHasModulo(p.dims[d])
  <2>1. p.dims[d].offset \in Numbers /\ p.dims[d].stride \in Numbers /\ p.dims[d].size \in Nat
          /\ p.dims[d].shape = Attr(0)
    BY <1>2 DEF PtrDims
  <2>2. ~IsTensor(p.dims[d].offset) /\ p.dims[d].offset.val \in Int
    BY <2>1 DEF Numbers, IsTensor
  <2>3. ~DimHasModulo(p.dims[d])
    BY <2>1 DEF DimHasModulo, IsAttr, Attr
  <2> QED BY <2>1, <2>2, <2>3
<1>4. ~HasModulo(p) /\ Unstructured(p) = {} /\ IsStructured(p)
  BY <1>2, <1>3 DEF HasModulo, Unstructured, IsStructured
<1> QED BY <1>1, <1>2, <1>3, <1>4

LEMMA SplatPtr ==
  ASSUME NEW k \in Numbers, NEW shape \in TensorShapes, NEW elem, elem[Zero(shape)] = k.val
  PROVE  PtrRight([State(FALSE, k, <<>>) EXCEPT !.dims = SplatDims(State(FALSE, k, <<>>), shape)], shape, elem)
<1> DEFINE src == State(FALSE, k, <<>>)
           g == SplatDims(src, shape)
           p == [src EXCEPT !.dims = g]
<1>1. k \in Fields /\ Present(k) /\ k.val \in Int /\ Attr(0) \in Numbers /\ Attr(0).val = 0
  BY NumbersAre DEF Fields
<1>2. p = State(FALSE, k, g) /\ src.scalar = k
  <2> DEFINE none == <<>>
             no == FALSE
  <2>1. src = [outcome |-> "ok", source |-> no, scalar |-> k, dims |-> none]
    BY DEF State
  <2> HIDE DEF g, src, none, no
  <2>2. p = [outcome |-> "ok", source |-> no, scalar |-> k, dims |-> g] /\ src.scalar = k
    BY <2>1
  <2> HIDE DEF p
  <2> QED BY <2>2 DEF State, no
<1>3. \A d \in DOMAIN shape : g[d] = Dim(IF d = 1 THEN k ELSE Attr(0), shape[d], Attr(0))
  <2> HIDE DEF src
  <2> QED BY <1>1, <1>2 DEF SplatDims
<1>4. DOMAIN shape = 1 .. Len(shape) /\ Len(shape) \in {1, 2} /\ \A d \in DOMAIN shape : shape[d] \in Nat
  BY ShapeFacts
<1>5. DOMAIN g = DOMAIN shape /\ g = [d \in DOMAIN shape |-> g[d]]
  BY DEF SplatDims
<1> HIDE DEF g, p
<1>6. ASSUME NEW d \in DOMAIN shape
      PROVE  g[d] \in PtrDims /\ g[d].offset = IF d = 1 THEN k ELSE Attr(0)
  <2> DEFINE offset == IF d = 1 THEN k ELSE Attr(0)
  <2>1. offset \in Numbers /\ g[d] = Dim(offset, shape[d], Attr(0)) /\ shape[d] \in Nat
    BY <1>1, <1>3, <1>4
  <2> HIDE DEF offset
  <2>2. g[d] \in PtrDims /\ g[d].offset = offset
    BY <1>1, <2>1, DimIs
  <2> QED BY <2>2 DEF offset
<1>11. g \in [1 .. Len(shape) -> PtrDims]
  BY <1>4, <1>5, <1>6
<1>7. g \in Seq(PtrDims) /\ Len(g) = Len(shape)
  BY <1>4, <1>11, OverDims
<1>8. AtOrigin(g) = k.val
  BY <1>1, <1>4, <1>6, <1>7 DEF AtOrigin
<1>9. p \in PtrStates /\ p.dims = g
  BY <1>1, <1>2, <1>7, StateIs
<1>10. PtrRight(p, shape, elem)
  BY <1>7, <1>8, <1>9 DEF PtrRight
<1> QED BY <1>10 DEF p, g

LEMMA ExpandPtr ==
  ASSUME NEW p, NEW shape \in TensorShapes, Len(shape) = 1, NEW axis \in {1, 2},
         NEW elem, PtrRight(p, shape, elem)
  PROVE  PtrRight(ExpandState(p, axis), InsertDim(shape, axis, 1),
                  [x \in Elements(InsertDim(shape, axis, 1)) |-> elem[<<x[3 - axis]>>]])
<1> DEFINE t == InsertDim(shape, axis, 1)
           f == [x \in Elements(t) |-> elem[<<x[3 - axis]>>]]
           q == ExpandState(p, axis)
           e == Dim(Attr(0), 1, Attr(0))
           g == InsertDim(p.dims, axis, e)
<1>1. CASE ~Ok(p)
  BY <1>1 DEF ExpandState, PtrRight
<1>2. CASE Ok(p)
  <2>1. p \in PtrStates /\ Len(p.dims) = 1 /\ AtOrigin(p.dims) = elem[Zero(shape)]
    BY <1>2 DEF PtrRight
  <2>2. /\ p = State(FALSE, p.scalar, p.dims) /\ p.scalar \in Fields /\ p.dims \in Seq(PtrDims)
        /\ p.dims[1] \in PtrDims /\ p.dims[1].offset.val \in Int /\ ~HasModulo(p)
    BY <2>1, PtrFacts, ShapeFacts
  <2>3. e \in PtrDims /\ e.offset = Attr(0) /\ Attr(0).val = 0
    BY NumbersAre, DimIs
  <2>4. g \in Seq(PtrDims) /\ Len(g) = 2 /\ g[axis] = e /\ g[3 - axis] = p.dims[1]
    <3> HIDE DEF e
    <3> QED BY <2>1, <2>2, <2>3, Inserted
  <2>5. q = [p EXCEPT !.dims = g]
    <3>1. ~(HasModulo(p) /\ Rank(p) >= 2)
      BY <2>2
    <3> QED BY <1>2, <3>1, Zenon DEF ExpandState
  <2>6. q = State(FALSE, p.scalar, g)
    <3> DEFINE k == p.scalar
               dims == p.dims
    <3>1. p = [outcome |-> "ok", source |-> FALSE, scalar |-> k, dims |-> dims]
      BY <2>2 DEF State
    <3> HIDE DEF k, dims, g, q
    <3>2. q = [outcome |-> "ok", source |-> FALSE, scalar |-> k, dims |-> g]
      BY <2>5, <3>1
    <3> QED BY <3>2 DEF State, k
  <2>7. Zero(t) \in Elements(t) /\ Zero(t)[3 - axis] = 0 /\ t \in TensorShapes /\ Len(t) = 2
    <3>1. t \in TensorShapes /\ Len(t) = 2 /\ 3 - axis \in DOMAIN t
      BY ExpandedShape
    <3> HIDE DEF t
    <3> QED BY <3>1, ZeroIsElement
  <2>8. Zero(shape) = <<0>>
    <3>1. DOMAIN shape = {1} /\ 1 .. 1 = {1}
      BY ExpandedShape
    <3> QED BY <3>1 DEF Zero
  <2>9. f[Zero(t)] = elem[Zero(shape)]
    <3>1. f[Zero(t)] = elem[<<Zero(t)[3 - axis]>>]
      BY <2>7
    <3> QED BY <2>7, <2>8, <3>1
  <2> HIDE DEF t, f, q, g, e
  <2>10. AtOrigin(g) = elem[Zero(shape)]
    <3>1. elem[Zero(shape)] = p.dims[1].offset.val
      BY <2>1 DEF AtOrigin
    <3>2. AtOrigin(g) = g[axis].offset.val + g[3 - axis].offset.val
      <4>1. AtOrigin(g) = g[1].offset.val + g[2].offset.val
        BY <2>4 DEF AtOrigin
      <4>2. \A d \in {1, 2} : g[d].offset.val \in Int
        BY <2>2, <2>3, <2>4
      <4> QED BY <4>1, <4>2
    <3> QED BY <2>2, <2>3, <2>4, <3>1, <3>2
  <2>11. q \in PtrStates /\ q.dims = g
    BY <2>2, <2>4, <2>6, StateIs
  <2>12. PtrRight(q, t, f)
    BY <2>4, <2>7, <2>9, <2>10, <2>11 DEF PtrRight
  <2> QED BY <2>12 DEF q, t, f
<1> QED BY <1>1, <1>2

LEMMA BroadcastPtr ==
  ASSUME NEW p, NEW s, NEW t, Broadcastable(s, t), NEW elem, PtrRight(p, s, elem)
  PROVE  PtrRight(BroadcastState(p, t), t, [x \in Elements(t) |-> elem[Source(x, s, t)]])
<1> DEFINE f == [x \in Elements(t) |-> elem[Source(x, s, t)]]
           q == BroadcastState(p, t)
           g == [d \in DOMAIN p.dims |-> [p.dims[d] EXCEPT !.size = t[d]]]
<1>1. CASE ~Ok(p)
  BY <1>1 DEF BroadcastState, PtrRight
<1>2. CASE Ok(p)
  <2>1. p \in PtrStates /\ Len(p.dims) = Len(s) /\ AtOrigin(p.dims) = elem[Zero(s)]
    BY <1>2 DEF PtrRight
  <2>2. /\ s \in TensorShapes /\ t \in TensorShapes /\ DOMAIN s = DOMAIN t /\ Len(s) = Len(t)
        /\ \A d \in DOMAIN t : t[d] \in Nat
    <3>1. /\ s \in TensorShapes /\ t \in TensorShapes /\ DOMAIN s = DOMAIN t
          /\ \A d \in DOMAIN t : t[d] \in Nat
      BY BroadcastFacts
    <3>2. 1 .. Len(s) = 1 .. Len(t) /\ Len(s) \in {1, 2} /\ Len(t) \in {1, 2}
      BY <3>1, ShapeFacts
    <3>3. Len(s) = Len(t)
      BY <3>2, 1 .. 1 = {1}, 1 .. 2 = {1, 2}
    <3> QED BY <3>1, <3>3
  <2>3. /\ p = State(FALSE, p.scalar, p.dims) /\ p.scalar \in Fields
        /\ DOMAIN p.dims = DOMAIN t /\ \A d \in DOMAIN t : p.dims[d] \in PtrDims
    BY <2>1, <2>2, PtrFacts
  <2>4. q = [p EXCEPT !.dims = g]
    BY <1>2, Zenon DEF BroadcastState
  <2>5. q = State(FALSE, p.scalar, g)
    <3> DEFINE k == p.scalar
               dims == p.dims
    <3>1. p = [outcome |-> "ok", source |-> FALSE, scalar |-> k, dims |-> dims]
      BY <2>3 DEF State
    <3> HIDE DEF k, dims, g, q
    <3>2. q = [outcome |-> "ok", source |-> FALSE, scalar |-> k, dims |-> g]
      BY <2>4, <3>1
    <3> QED BY <3>2 DEF State, k
  <2>6. \A d \in DOMAIN t : g[d] \in PtrDims /\ g[d].offset = p.dims[d].offset
    <3> SUFFICES ASSUME NEW d \in DOMAIN t PROVE g[d] \in PtrDims /\ g[d].offset = p.dims[d].offset
      OBVIOUS
    <3> DEFINE dim == p.dims[d]
    <3>1. g[d] = [dim EXCEPT !.size = t[d]] /\ dim \in PtrDims /\ t[d] \in Nat
      BY <2>2, <2>3
    <3> HIDE DEF dim, g
    <3> QED BY <3>1 DEF PtrDims, dim
  <2>7. g \in [1 .. Len(t) -> PtrDims] /\ Len(t) \in Nat
    <3>1. DOMAIN g = 1 .. Len(t) /\ Len(t) \in Nat /\ DOMAIN t = 1 .. Len(t)
      BY <2>2, <2>3, ShapeFacts
    <3>2. g = [d \in 1 .. Len(t) |-> g[d]]
      BY <3>1
    <3> HIDE DEF g
    <3> QED BY <2>6, <3>1, <3>2
  <2> HIDE DEF g, q
  <2>8. g \in Seq(PtrDims) /\ Len(g) = Len(t)
    BY <2>7, OverDims
  <2>9. AtOrigin(g) = AtOrigin(p.dims)
    <3>1. 1 \in DOMAIN t /\ (Len(t) # 1 => 2 \in DOMAIN t)
      BY <2>2, ShapeFacts
    <3> QED BY <2>1, <2>2, <2>6, <2>8, <3>1 DEF AtOrigin
  <2>10. f[Zero(t)] = elem[Zero(s)]
    <3>1. Zero(t) \in Elements(t) /\ \A d \in DOMAIN t : Zero(t)[d] = 0
      BY <2>2, ZeroIsElement
    <3>2. Source(Zero(t), s, t) = Zero(s)
      BY <2>2, <3>1 DEF Source, Zero
    <3> QED BY <3>1, <3>2
  <2>11. q \in PtrStates /\ q.dims = g
    BY <2>3, <2>5, <2>8, StateIs
  <2> HIDE DEF f
  <2>12. PtrRight(q, t, f)
    BY <2>1, <2>8, <2>9, <2>10, <2>11 DEF PtrRight
  <2> QED BY <2>12 DEF q, f
<1> QED BY <1>1, <1>2

(* The PtrState that a loop carries, moved to the given offset. *)
Advanced(p, offset) == [p EXCEPT !.dims[1].offset = offset, !.scalar = Absent]

LEMMA LoopPtr ==
  ASSUME NEW p, Ok(p), NEW shape \in TensorShapes, NEW elem, PtrRight(p, shape, elem), NEW step \in Int,
         NEW f, f[Zero(shape)] = elem[Zero(shape)] + step,
         NEW offset, offset = Value(p.dims[1].offset.val + step),
         NEW q, q = Advanced(p, offset)
  PROVE  p.dims[1].offset.val + step \in Int /\ PtrRight(q, shape, f)
<1> DEFINE dim == [p.dims[1] EXCEPT !.offset = offset]
           g == [p.dims EXCEPT ![1] = dim]
<1>1. p \in PtrStates /\ Len(p.dims) = Len(shape) /\ AtOrigin(p.dims) = elem[Zero(shape)]
  BY DEF PtrRight
<1>2. /\ p = State(FALSE, p.scalar, p.dims) /\ p.dims \in Seq(PtrDims) /\ DOMAIN p.dims = DOMAIN shape
      /\ \A d \in DOMAIN shape : p.dims[d] \in PtrDims /\ p.dims[d].offset.val \in Int
  BY <1>1, PtrFacts
<1>3. 1 \in DOMAIN shape /\ (Len(shape) # 1 => Len(shape) = 2 /\ 2 \in DOMAIN shape)
  BY ShapeFacts
<1>4. offset \in Numbers /\ offset.val = p.dims[1].offset.val + step
  BY <1>2, <1>3, NumbersAre
<1>5. dim \in PtrDims /\ dim.offset = offset
  <2> DEFINE old == p.dims[1]
  <2>1. dim = [old EXCEPT !.offset = offset] /\ old \in PtrDims
    BY <1>2, <1>3
  <2> HIDE DEF old, dim
  <2> QED BY <1>4, <2>1 DEF PtrDims
<1>6. q = State(FALSE, Absent, g)
  <2> DEFINE k == p.scalar
             dims == p.dims
             no == FALSE
             none == Absent
  <2>1. p = [outcome |-> "ok", source |-> no, scalar |-> k, dims |-> dims]
    BY <1>2 DEF State
  <2>2. q = [[p EXCEPT !.dims = g] EXCEPT !.scalar = none]
    <3> DEFINE r == [p EXCEPT !.dims[1].offset = offset]
    <3>1. r = [p EXCEPT !.dims = g]
      BY Zenon
    <3>2. q = [r EXCEPT !.scalar = none]
      BY Zenon DEF Advanced
    <3> HIDE DEF r, g
    <3> QED BY <3>1, <3>2
  <2> HIDE DEF k, dims, no, none, g
  <2> DEFINE r == [p EXCEPT !.dims = g]
  <2>3. r = [outcome |-> "ok", source |-> no, scalar |-> k, dims |-> g]
    BY <2>1
  <2>4. q = [r EXCEPT !.scalar = none]
    BY <2>2
  <2> HIDE DEF r
  <2>5. q = [outcome |-> "ok", source |-> no, scalar |-> none, dims |-> g]
    BY <2>3, <2>4
  <2> QED BY <2>5 DEF State, no, none
<1> HIDE DEF dim
<1>7. /\ g \in Seq(PtrDims) /\ Len(g) = Len(p.dims) /\ g[1] = dim
      /\ \A d \in DOMAIN shape : d # 1 => g[d] = p.dims[d]
  <2> DEFINE dims == p.dims
  <2>1. dims \in Seq(PtrDims) /\ 1 \in 1 .. Len(dims) /\ DOMAIN dims = DOMAIN shape
    BY <1>1, <1>2, <1>3, ShapeFacts
  <2>2. g = [dims EXCEPT ![1] = dim]
    OBVIOUS
  <2> HIDE DEF dims, g
  <2>3. g \in Seq(PtrDims) /\ Len(g) = Len(dims) /\ g[1] = dim
    BY <1>5, <2>1, <2>2, ExceptSeq
  <2>4. \A d \in DOMAIN shape : d # 1 => g[d] = dims[d]
    BY <2>1, <2>2
  <2> QED BY <2>3, <2>4 DEF dims
<1> HIDE DEF g
<1>8. AtOrigin(g) = AtOrigin(p.dims) + step
  <2>1. g[1].offset.val = p.dims[1].offset.val + step /\ p.dims[1].offset.val \in Int
    BY <1>2, <1>3, <1>4, <1>5, <1>7
  <2>2. CASE Len(shape) = 1
    <3>1. AtOrigin(g) = g[1].offset.val /\ AtOrigin(p.dims) = p.dims[1].offset.val
      BY <1>1, <1>7, <2>2 DEF AtOrigin
    <3> QED BY <2>1, <3>1
  <2>3. CASE Len(shape) # 1
    <3>1. /\ AtOrigin(g) = g[1].offset.val + g[2].offset.val
          /\ AtOrigin(p.dims) = p.dims[1].offset.val + p.dims[2].offset.val
      BY <1>1, <1>7, <2>3 DEF AtOrigin
    <3>2. g[2].offset.val = p.dims[2].offset.val /\ p.dims[2].offset.val \in Int
      BY <1>2, <1>3, <1>7, <2>3
    <3> QED BY <2>1, <3>1, <3>2
  <2> QED BY <2>2, <2>3
<1>9. f[Zero(shape)] = elem[Zero(shape)] + step
  OBVIOUS
<1>10. q \in PtrStates /\ q.dims = g
  <2>1. Absent \in Fields /\ g \in Seq(PtrDims)
    BY <1>7, NumbersAre
  <2>2. State(FALSE, Absent, g) \in PtrStates /\ State(FALSE, Absent, g).dims = g
    BY <2>1, StateIs
  <2> QED BY <1>6, <2>2, Zenon
<1>11. PtrRight(q, shape, f)
  BY <1>1, <1>7, <1>8, <1>9, <1>10 DEF PtrRight
<1>12. p.dims[1].offset.val + step \in Int
  BY <1>2, <1>3
<1> QED BY <1>11, <1>12

LEMMA SumPtr ==
  ASSUME NEW p, NEW q, NEW shape \in TensorShapes, NEW a, NEW b, DOMAIN a = Elements(shape),
         PtrRight(p, shape, a), PtrRight(q, shape, b), Ok(p), Ok(q)
  PROVE  PtrRight(addState(p, q, FALSE), shape, [x \in DOMAIN a |-> a[x] + b[x]])
<1> DEFINE f == [x \in DOMAIN a |-> a[x] + b[x]]
           g == [d \in DOMAIN p.dims |->
                   [AddDim(p.dims[d], q.dims[d], FALSE) EXCEPT !.shape = SumShape(p, q, d)]]
           k == AddScalar(p, q)
           s == addState(p, q, FALSE)
<1>1. /\ p \in PtrStates /\ Len(p.dims) = Len(shape) /\ AtOrigin(p.dims) = a[Zero(shape)]
      /\ q \in PtrStates /\ Len(q.dims) = Len(shape) /\ AtOrigin(q.dims) = b[Zero(shape)]
  BY DEF PtrRight
<1>2. /\ p.scalar \in Fields /\ p.dims \in Seq(PtrDims) /\ DOMAIN p.dims = DOMAIN shape
      /\ \A d \in DOMAIN shape : /\ p.dims[d] \in PtrDims /\ p.dims[d].offset \in Numbers
                                 /\ p.dims[d].stride \in Numbers /\ p.dims[d].offset.val \in Int
                                 /\ p.dims[d].size \in Nat /\ p.dims[d].shape = Attr(0)
      /\ ~HasModulo(p) /\ Unstructured(p) = {} /\ IsStructured(p)
  BY <1>1, PtrFacts
<1>3. /\ q.scalar \in Fields /\ q.dims \in Seq(PtrDims) /\ DOMAIN q.dims = DOMAIN shape
      /\ \A d \in DOMAIN shape : /\ q.dims[d] \in PtrDims /\ q.dims[d].offset \in Numbers
                                 /\ q.dims[d].stride \in Numbers /\ q.dims[d].offset.val \in Int
      /\ ~HasModulo(q) /\ Unstructured(q) = {} /\ IsStructured(q)
  BY <1>1, PtrFacts
<1>4. ~p.source /\ ~q.source
  BY <1>1 DEF PtrStates
<1>5. AddAssert(p, q, FALSE) /\ ~Refused(p, q)
  <2>1. Cardinality({}) = 0
    BY FS_EmptySet
  <2>2. AddAssert(p, q, FALSE)
    BY <1>1, <1>2, <1>3, <2>1 DEF AddAssert, Rank
  <2>3. ~Refused(p, q)
    BY <1>2, <1>3, <1>4 DEF Refused
  <2> QED BY <2>2, <2>3
<1>6. \A d \in DOMAIN shape : ~Shifted(p, q, d)
  BY <1>2 DEF Shifted, HasModulo
<1>7. ~AllowedShift(p, q)
  BY <1>6, ShapeFacts DEF AllowedShift
<1>8. s = State(FALSE, k, g)
  <2>1. s = State(p.source \/ q.source, AddScalar(p, q), g)
    <3>1. {d \in DOMAIN p.dims : Shifted(p, q, d)} = {}
      BY <1>2, <1>6
    <3> QED BY <1>2, <1>3, <1>5, <3>1, Zenon DEF addState
  <2>2. (p.source \/ q.source) = FALSE
    BY <1>4
  <2> HIDE DEF g, s, k
  <2> QED BY <2>1, <2>2, Zenon DEF k
<1>9. k \in Fields
  <2>1. CASE Present(p.scalar) /\ Present(q.scalar)
    <3>1. p.scalar \in Numbers /\ q.scalar \in Numbers
      BY <1>2, <1>3, <2>1, NumbersAre
    <3>2. Emit(Plus, p.scalar, q.scalar) \in Numbers
      BY <3>1, Arithmetic
    <3>3. k = Emit(Plus, p.scalar, q.scalar)
      BY <2>1, Zenon DEF AddScalar, SumScalar
    <3> QED BY <3>2, <3>3 DEF Fields
  <2>2. CASE ~(Present(p.scalar) /\ Present(q.scalar))
    <3>1. k \in {p.scalar, q.scalar, Absent}
      BY <2>2 DEF AddScalar, SumScalar
    <3> QED BY <1>2, <1>3, <3>1, NumbersAre
  <2> QED BY <2>1, <2>2
<1> HIDE DEF k, s
<1>10. ASSUME NEW d \in DOMAIN shape
       PROVE  g[d] \in PtrDims /\ g[d].offset.val = p.dims[d].offset.val + q.dims[d].offset.val
  <2> DEFINE l == p.dims[d]
             r == q.dims[d]
             o == AddOFRs(l.offset, r.offset)
             t == AddOFRs(l.stride, r.stride)
  <2>1. o \in Numbers /\ o.val = l.offset.val + r.offset.val /\ t \in Numbers /\ l.size \in Nat
    BY <1>2, <1>3, Arithmetic
  <2>2. ~IsTensor(l.offset) /\ ~IsTensor(r.offset)
    BY <1>2, <1>3 DEF Numbers, IsTensor
  <2>3. AddDim(l, r, FALSE) = Dim(o, l.size, t)
    BY <2>2, Zenon DEF AddDim, SumDim
  <2>4. SumShape(p, q, d) = Attr(0)
    BY <1>2, <1>7, <2>2 DEF SumShape
  <2>5. g[d] = [AddDim(l, r, FALSE) EXCEPT !.shape = SumShape(p, q, d)]
    BY <1>2
  <2> HIDE DEF o, t, g
  <2>6. g[d] = Dim(o, l.size, t)
    <3> DEFINE n == l.size
    <3> HIDE DEF n
    <3>1. g[d] = [Dim(o, n, t) EXCEPT !.shape = Attr(0)]
      BY <2>3, <2>4, <2>5 DEF n
    <3>2. Dim(o, n, t) = [offset |-> o, size |-> n, stride |-> t, shape |-> Attr(0)]
      BY DEF Dim
    <3>3. g[d] = [offset |-> o, size |-> n, stride |-> t, shape |-> Attr(0)]
      BY <3>1, <3>2
    <3> QED BY <3>2, <3>3 DEF n
  <2> QED BY <2>1, <2>6, DimIs
<1>11. DOMAIN g = DOMAIN shape /\ g = [d \in DOMAIN shape |-> g[d]]
  BY <1>2
<1> HIDE DEF g
<1>12. g \in Seq(PtrDims) /\ Len(g) = Len(shape)
  <2>1. DOMAIN shape = 1 .. Len(shape) /\ Len(shape) \in Nat
    BY ShapeFacts
  <2>2. g \in [1 .. Len(shape) -> PtrDims]
    BY <1>10, <1>11, <2>1
  <2> QED BY <2>1, <2>2, OverDims
<1>13. AtOrigin(g) = AtOrigin(p.dims) + AtOrigin(q.dims)
  <2>1. CASE Len(shape) = 1
    <3>1. 1 \in DOMAIN shape
      BY ShapeFacts
    <3>2. /\ AtOrigin(g) = g[1].offset.val /\ AtOrigin(p.dims) = p.dims[1].offset.val
          /\ AtOrigin(q.dims) = q.dims[1].offset.val
      BY <1>1, <1>12, <2>1 DEF AtOrigin
    <3> QED BY <1>10, <3>1, <3>2
  <2>2. CASE Len(shape) # 1
    <3>1. 1 \in DOMAIN shape /\ 2 \in DOMAIN shape
      BY <2>2, ShapeFacts
    <3>2. /\ AtOrigin(g) = g[1].offset.val + g[2].offset.val
          /\ AtOrigin(p.dims) = p.dims[1].offset.val + p.dims[2].offset.val
          /\ AtOrigin(q.dims) = q.dims[1].offset.val + q.dims[2].offset.val
      BY <1>1, <1>12, <2>2 DEF AtOrigin
    <3>3. /\ g[1].offset.val = p.dims[1].offset.val + q.dims[1].offset.val
          /\ g[2].offset.val = p.dims[2].offset.val + q.dims[2].offset.val
          /\ \A d \in {1, 2} : p.dims[d].offset.val \in Int /\ q.dims[d].offset.val \in Int
      BY <1>2, <1>3, <1>10, <3>1
    <3> QED BY <3>2, <3>3
  <2> QED BY <2>1, <2>2
<1>14. f[Zero(shape)] = a[Zero(shape)] + b[Zero(shape)]
  BY ZeroIsElement
<1>15. s \in PtrStates /\ s.dims = g
  BY <1>8, <1>9, <1>12, StateIs
<1> HIDE DEF f
<1>16. PtrRight(s, shape, f)
  BY <1>1, <1>12, <1>13, <1>14, <1>15 DEF PtrRight
<1> QED BY <1>16 DEF s, f

-----------------------------------------------------------------------------
(* A value of the kernel *)

Val(isBool, shape, elem, st, ptr, form, carried, patterns) ==
  [isBool |-> isBool, shape |-> shape, elem |-> elem, m |-> st, p |-> ptr,
   form |-> form, carried |-> carried, patterns |-> patterns]

Forms == {"range", "uniform", "mask", "other"}

(* It is of the types of its fields. *)
Typed(v) ==
  /\ v = Val(v.isBool, v.shape, v.elem, v.m, v.p, v.form, v.carried, v.patterns)
  /\ v.isBool \in BOOLEAN /\ v.shape \in TensorShapes /\ DOMAIN v.elem = Elements(v.shape)
  /\ ~v.isBool => \A x \in Elements(v.shape) : v.elem[x] \in Int
  /\ v.form \in Forms /\ v.patterns \subseteq KnownPatterns /\ Formed(v.m)

(* What its state says is right as far as its patterns allow, ...          *)
StateRight(v) ==
  /\ "and of integers" \notin v.patterns => Shaped(v.isBool, v.m, v.shape)
  /\ v.patterns \cap {"carried uniform", "and of integers"} = {} => Within(v.isBool, v.m, v.shape)
  /\ v.patterns = {} => Exact(v.isBool, v.m, v.shape, v.elem)
  /\ v.m.outcome = "crash"
       => v.patterns \cap {"and of integers", "range on the right", "carried uniform"} # {}

(* ... that of its PtrState is, and it is decoded if its form is plain.    *)
FormRight(v) ==
  v.form # "other" =>
    /\ Parsed(v.m) /\ v.patterns \cap {"carried uniform", "and of integers"} = {}
    /\ v.isBool <=> v.form = "mask"
    /\ v.form = "uniform" => isScalar(v.m)
    /\ v.form = "range" => ~isScalar(v.m) /\ OneWide(v.shape)

Right(v) ==
  /\ Typed(v) /\ StateRight(v) /\ FormRight(v)
  /\ ~v.isBool => PtrRight(v.p, v.shape, v.elem)

(* v has these fields. *)
IsVal(v, b, s, e, m, p, f, c, t) ==
  /\ v = Val(b, s, e, m, p, f, c, t)
  /\ v.isBool = b /\ v.shape = s /\ v.elem = e /\ v.m = m
  /\ v.p = p /\ v.form = f /\ v.carried = c /\ v.patterns = t

LEMMA ValIs ==
  ASSUME NEW b, NEW s, NEW e, NEW m, NEW p, NEW f, NEW c, NEW t
  PROVE  IsVal(Val(b, s, e, m, p, f, c, t), b, s, e, m, p, f, c, t)
  BY DEF Val, IsVal

LEMMA ResultIs ==
  ASSUME NEW b, NEW s, NEW e, NEW m, NEW p, NEW f, NEW v, v = Result(b, s, e, m, p, f)
  PROVE  IsVal(v, b, s, e, m, p, f, FALSE, {})
<1> DEFINE no == FALSE
           none == {}
<1>1. v = Val(b, s, e, m, p, f, no, none)
  BY DEF Result, Val
<1> HIDE DEF no, none
<1>2. IsVal(v, b, s, e, m, p, f, no, none)
  BY <1>1, ValIs
<1> QED BY <1>2 DEF no, none

LEMMA Created ==
  ASSUME NEW b, NEW s, NEW e, NEW m, NEW p, NEW f, NEW c, NEW t
  PROVE  [Result(b, s, e, m, p, f) EXCEPT !.carried = c, !.patterns = t] = Val(b, s, e, m, p, f, c, t)
<1> DEFINE v == Result(b, s, e, m, p, f)
           w == [v EXCEPT !.carried = c]
           no == FALSE
           none == {}
<1>1. v = [isBool |-> b, shape |-> s, elem |-> e, m |-> m, p |-> p, form |-> f, carried |-> no, patterns |-> none]
  BY DEF Result
<1>2. [v EXCEPT !.carried = c, !.patterns = t] = [w EXCEPT !.patterns = t]
  <2> HIDE DEF v
  <2> QED BY Zenon
<1> HIDE DEF v, no, none
<1>3. w = [isBool |-> b, shape |-> s, elem |-> e, m |-> m, p |-> p, form |-> f, carried |-> c, patterns |-> none]
  BY <1>1
<1> HIDE DEF w
<1>4. [w EXCEPT !.patterns = t]
        = [isBool |-> b, shape |-> s, elem |-> e, m |-> m, p |-> p, form |-> f, carried |-> c, patterns |-> t]
  BY <1>3
<1> QED BY <1>2, <1>4 DEF Val, v

(* The field-by-field updates of the operations with one operand. *)
LEMMA UpdatedShape ==
  ASSUME NEW v, Typed(v), NEW s, NEW e, NEW m, NEW p, NEW w,
         w = [v EXCEPT !.shape = s, !.elem = e, !.m = m, !.p = p]
  PROVE  IsVal(w, v.isBool, s, e, m, p, v.form, v.carried, v.patterns)
<1> DEFINE b0 == v.isBool
           s0 == v.shape
           e0 == v.elem
           m0 == v.m
           p0 == v.p
           f0 == v.form
           c0 == v.carried
           t0 == v.patterns
<1>1. v = Val(b0, s0, e0, m0, p0, f0, c0, t0)
  BY DEF Typed
<1> HIDE DEF b0, s0, e0, m0, p0, f0, c0, t0
<1> DEFINE v1 == [v EXCEPT !.shape = s]
           v2 == [v1 EXCEPT !.elem = e]
           v3 == [v2 EXCEPT !.m = m]
           v4 == [v3 EXCEPT !.p = p]
<1>2. [v EXCEPT !.shape = s, !.elem = e, !.m = m, !.p = p] = v4
  BY Zenon
<1>3. v1 = Val(b0, s, e0, m0, p0, f0, c0, t0)
  BY <1>1 DEF Val
<1>4. v2 = Val(b0, s, e, m0, p0, f0, c0, t0)
  <2> HIDE DEF v1
  <2> QED BY <1>3 DEF Val
<1>5. v3 = Val(b0, s, e, m, p0, f0, c0, t0)
  <2> HIDE DEF v2
  <2> QED BY <1>4 DEF Val
<1>6. v4 = Val(b0, s, e, m, p, f0, c0, t0)
  <2> HIDE DEF v3
  <2> QED BY <1>5 DEF Val
<1> HIDE DEF v4
<1>7. w = Val(b0, s, e, m, p, f0, c0, t0)
  BY <1>2, <1>6, Zenon
<1>8. IsVal(w, b0, s, e, m, p, f0, c0, t0)
  BY <1>7, ValIs
<1> QED BY <1>8 DEF b0, f0, c0, t0

LEMMA UpdatedForm ==
  ASSUME NEW v, Typed(v), NEW s, NEW e, NEW m, NEW p, NEW f, NEW t, NEW w,
         w = [v EXCEPT !.shape = s, !.elem = e, !.m = m, !.p = p, !.form = f, !.patterns = t]
  PROVE  IsVal(w, v.isBool, s, e, m, p, f, v.carried, t)
<1> DEFINE b0 == v.isBool
           s0 == v.shape
           e0 == v.elem
           m0 == v.m
           p0 == v.p
           f0 == v.form
           c0 == v.carried
           t0 == v.patterns
<1>1. v = Val(b0, s0, e0, m0, p0, f0, c0, t0)
  BY DEF Typed
<1> HIDE DEF b0, s0, e0, m0, p0, f0, c0, t0
<1> DEFINE v1 == [v EXCEPT !.shape = s]
           v2 == [v1 EXCEPT !.elem = e]
           v3 == [v2 EXCEPT !.m = m]
           v4 == [v3 EXCEPT !.p = p]
           v5 == [v4 EXCEPT !.form = f]
           v6 == [v5 EXCEPT !.patterns = t]
<1>2. [v EXCEPT !.shape = s, !.elem = e, !.m = m, !.p = p, !.form = f, !.patterns = t] = v6
  BY Zenon
<1>3. v1 = Val(b0, s, e0, m0, p0, f0, c0, t0)
  BY <1>1 DEF Val
<1>4. v2 = Val(b0, s, e, m0, p0, f0, c0, t0)
  <2> HIDE DEF v1
  <2> QED BY <1>3 DEF Val
<1>5. v3 = Val(b0, s, e, m, p0, f0, c0, t0)
  <2> HIDE DEF v2
  <2> QED BY <1>4 DEF Val
<1>6. v4 = Val(b0, s, e, m, p, f0, c0, t0)
  <2> HIDE DEF v3
  <2> QED BY <1>5 DEF Val
<1>7. v5 = Val(b0, s, e, m, p, f, c0, t0)
  <2> HIDE DEF v4
  <2> QED BY <1>6 DEF Val
<1>8. v6 = Val(b0, s, e, m, p, f, c0, t)
  <2> HIDE DEF v5
  <2> QED BY <1>7 DEF Val
<1> HIDE DEF v6
<1>9. w = Val(b0, s, e, m, p, f, c0, t)
  BY <1>2, <1>8, Zenon
<1>10. IsVal(w, b0, s, e, m, p, f, c0, t)
  BY <1>9, ValIs
<1> QED BY <1>10 DEF b0, c0

LEMMA UpdatedCarried ==
  ASSUME NEW v, Typed(v), NEW e, NEW m, NEW p, NEW f, NEW c, NEW t, NEW w,
         w = [v EXCEPT !.elem = e, !.m = m, !.p = p, !.form = f, !.carried = c, !.patterns = t]
  PROVE  IsVal(w, v.isBool, v.shape, e, m, p, f, c, t)
<1> DEFINE b0 == v.isBool
           s0 == v.shape
           e0 == v.elem
           m0 == v.m
           p0 == v.p
           f0 == v.form
           c0 == v.carried
           t0 == v.patterns
<1>1. v = Val(b0, s0, e0, m0, p0, f0, c0, t0)
  BY DEF Typed
<1> HIDE DEF b0, s0, e0, m0, p0, f0, c0, t0
<1> DEFINE v1 == [v EXCEPT !.elem = e]
           v2 == [v1 EXCEPT !.m = m]
           v3 == [v2 EXCEPT !.p = p]
           v4 == [v3 EXCEPT !.form = f]
           v5 == [v4 EXCEPT !.carried = c]
           v6 == [v5 EXCEPT !.patterns = t]
<1>2. [v EXCEPT !.elem = e, !.m = m, !.p = p, !.form = f, !.carried = c, !.patterns = t] = v6
  BY Zenon
<1>3. v1 = Val(b0, s0, e, m0, p0, f0, c0, t0)
  BY <1>1 DEF Val
<1>4. v2 = Val(b0, s0, e, m, p0, f0, c0, t0)
  <2> HIDE DEF v1
  <2> QED BY <1>3 DEF Val
<1>5. v3 = Val(b0, s0, e, m, p, f0, c0, t0)
  <2> HIDE DEF v2
  <2> QED BY <1>4 DEF Val
<1>6. v4 = Val(b0, s0, e, m, p, f, c0, t0)
  <2> HIDE DEF v3
  <2> QED BY <1>5 DEF Val
<1>7. v5 = Val(b0, s0, e, m, p, f, c, t0)
  <2> HIDE DEF v4
  <2> QED BY <1>6 DEF Val
<1>8. v6 = Val(b0, s0, e, m, p, f, c, t)
  <2> HIDE DEF v5
  <2> QED BY <1>7 DEF Val
<1> HIDE DEF v6
<1>9. w = Val(b0, s0, e, m, p, f, c, t)
  BY <1>2, <1>8, Zenon
<1>10. IsVal(w, b0, s0, e, m, p, f, c, t)
  BY <1>9, ValIs
<1> QED BY <1>10 DEF b0, s0

LEMMA CreatedIs ==
  ASSUME NEW b, NEW s, NEW e, NEW m, NEW p, NEW f, NEW c, NEW t, NEW w,
         w = [Result(b, s, e, m, p, f) EXCEPT !.carried = c, !.patterns = t]
  PROVE  IsVal(w, b, s, e, m, p, f, c, t)
<1>1. w = Val(b, s, e, m, p, f, c, t)
  BY Created, Zenon
<1> QED BY <1>1, ValIs

-----------------------------------------------------------------------------
(* The operations without tensor operands make values that are right. *)

LEMMA MakeRangeRight ==
  ASSUME NEW start \in Int, NEW n \in Nat, n > 1
  PROVE  Right(Result(FALSE, <<n>>, [x \in Elements(<<n>>) |-> start + x[1]], parseMakeRange(start, n),
                      State(FALSE, Absent, <<Dim(Attr(start), n, Attr(1))>>), "range"))
<1> DEFINE s == <<n>>
           e == [x \in Elements(s) |-> start + x[1]]
           m == parseMakeRange(start, n)
           dims == <<Dim(Attr(start), n, Attr(1))>>
           p == State(FALSE, Absent, dims)
           v == Result(FALSE, s, e, m, p, "range")
<1>1. s \in TensorShapes /\ DOMAIN s = {1} /\ s[1] = n /\ Len(s) = 1
  BY DEF TensorShapes
<1>2. /\ Attr(start) \in Numbers /\ Attr(start + n) \in Numbers /\ Attr(n) \in Numbers /\ Attr(1) \in Numbers
      /\ Attr(start).val = start /\ Attr(start + n).val = start + n
      /\ Present(Attr(start)) /\ Present(Attr(start + n)) /\ Absent \in Fields /\ ~Present(Absent)
  BY NumbersAre
<1>3. <<Attr(n)>> = Attrs(s)
  BY <1>1 DEF Attrs
<1>4. /\ m \in MaskStates /\ Parsed(m) /\ m.start = Attr(start) /\ m.end = Attr(start + n) /\ m.scalar = Absent
      /\ m.dims = Attrs(s) /\ Formed(m) /\ m.outcome = "ok"
  <2>1. Attrs(s) \in Seq(Numbers)
    BY <1>1, AttrsAre
  <2>2. m = MaskOf(Attr(start), Attr(start + n), Absent, Attrs(s))
    BY <1>3 DEF parseMakeRange
  <2> HIDE DEF m, s
  <2> QED BY <1>2, <2>1, <2>2, MaskOfIs DEF Fields
<1>5. \A x \in Elements(s) : e[x] = start + x[1] /\ x[1] \in Int
  BY <1>1, ElementsAre
<1>6. DOMAIN e = Elements(s)
  OBVIOUS
<1>7. dims \in Seq(PtrDims) /\ Len(dims) = 1 /\ dims[1].offset = Attr(start)
  BY <1>2, DimIs
<1>8. Zero(s) \in Elements(s) /\ Zero(s)[1] = 0
  BY <1>1, ZeroIsElement
<1>9. IsVal(v, FALSE, s, e, m, p, "range", FALSE, {})
  BY ResultIs
<1> HIDE DEF s, e, m, dims, v
<1>10. RangeAt(m, s, 1)
  BY <1>1, <1>2, <1>4 DEF RangeAt
<1>11. ~isScalar(m)
  BY <1>2, <1>4 DEF isScalar
<1>12. Shaped(FALSE, m, s) /\ Within(FALSE, m, s)
  <2>1. Len(m.dims) = Len(s)
    BY <1>1, <1>4, AttrsAre
  <2> QED BY <1>1, <1>2, <1>4, <1>10, <2>1 DEF Shaped, Within
<1>13. Exact(FALSE, m, s, e)
  <2>1. \A x \in Elements(s) : e[x] = m.start.val + x[1]
    BY <1>2, <1>4, <1>5
  <2>2. AlongAxis(m, s, e)
    BY <1>1, <1>10, <2>1 DEF AlongAxis
  <2> QED BY <1>11, <2>2 DEF Exact
<1>14. PtrRight(p, s, e)
  <2>1. p \in PtrStates /\ p.dims = dims
    BY <1>2, <1>7, StateIs
  <2>2. AtOrigin(dims) = start /\ e[Zero(s)] = start
    BY <1>2, <1>5, <1>7, <1>8 DEF AtOrigin
  <2> QED BY <1>1, <1>7, <2>1, <2>2 DEF PtrRight
<1> HIDE DEF p
<1>15. Typed(v)
  <2>1. \A x \in Elements(s) : e[x] \in Int
    BY <1>5
  <2> QED BY <1>1, <1>4, <1>6, <1>9, <2>1 DEF IsVal, Typed, Forms
<1>16. StateRight(v)
  BY <1>4, <1>9, <1>12, <1>13 DEF IsVal, StateRight
<1>17. FormRight(v)
  <2>1. OneWide(s)
    BY <1>1 DEF OneWide
  <2> QED BY <1>4, <1>9, <1>11, <2>1 DEF IsVal, FormRight
<1>18. Right(v)
  BY <1>9, <1>14, <1>15, <1>16, <1>17 DEF IsVal, Right
<1> QED BY <1>18 DEF v, s, e, m, p, dims

LEMMA SplatRight ==
  ASSUME NEW k \in Numbers, NEW s \in TensorShapes
  PROVE  Right(Result(FALSE, s, [x \in Elements(s) |-> k.val], parseUniform(k, s),
                      [State(FALSE, k, <<>>) EXCEPT !.dims = SplatDims(State(FALSE, k, <<>>), s)], "uniform"))
<1> DEFINE e == [x \in Elements(s) |-> k.val]
           m == parseUniform(k, s)
           p == [State(FALSE, k, <<>>) EXCEPT !.dims = SplatDims(State(FALSE, k, <<>>), s)]
           v == Result(FALSE, s, e, m, p, "uniform")
<1>1. Absent \in Fields /\ ~Present(Absent) /\ Present(k) /\ k.val \in Int /\ k \in Fields
  BY NumbersAre DEF Fields
<1>2. Attrs(s) \in Seq(Numbers) /\ Len(Attrs(s)) = Len(s)
  BY AttrsAre
<1>3. /\ m \in MaskStates /\ Parsed(m) /\ m.start = Absent /\ m.end = Absent /\ m.scalar = k
      /\ m.dims = Attrs(s) /\ Formed(m) /\ m.outcome = "ok"
  <2>1. m = MaskOf(Absent, Absent, k, Attrs(s))
    BY DEF parseUniform
  <2> HIDE DEF m
  <2> QED BY <1>1, <1>2, <2>1, MaskOfIs
<1>4. DOMAIN e = Elements(s) /\ \A x \in Elements(s) : e[x] = k.val
  OBVIOUS
<1>5. IsVal(v, FALSE, s, e, m, p, "uniform", FALSE, {})
  BY ResultIs
<1>6. PtrRight(p, s, e)
  <2>1. e[Zero(s)] = k.val
    BY <1>4, ZeroIsElement
  <2> HIDE DEF e
  <2> QED BY <2>1, SplatPtr
<1> HIDE DEF e, m, p, v
<1>7. isScalar(m)
  BY <1>1, <1>3 DEF isScalar
<1>8. Shaped(FALSE, m, s) /\ Within(FALSE, m, s)
  <2>1. /\ Present(m.start) = FALSE /\ Present(m.end) = FALSE /\ Present(m.scalar) = TRUE
        /\ Len(m.dims) = Len(s)
    BY <1>1, <1>2, <1>3
  <2> QED BY <1>3, <1>7, <2>1 DEF Shaped, Within
<1>9. Exact(FALSE, m, s, e)
  BY <1>3, <1>4, <1>7 DEF Exact
<1>10. Typed(v)
  BY <1>1, <1>3, <1>4, <1>5 DEF IsVal, Typed, Forms
<1>11. StateRight(v)
  BY <1>3, <1>5, <1>8, <1>9 DEF IsVal, StateRight
<1>12. FormRight(v)
  BY <1>3, <1>5, <1>7 DEF IsVal, FormRight
<1>13. Right(v)
  BY <1>5, <1>6, <1>10, <1>11, <1>12 DEF IsVal, Right
<1> QED BY <1>13 DEF v, e, m, p

LEMMA SplatBoolRight ==
  ASSUME NEW b \in BOOLEAN, NEW s \in TensorShapes
  PROVE  Right(Result(TRUE, s, [x \in Elements(s) |-> b], parseSplatBool(b, s), Failure, "mask"))
<1> DEFINE e == [x \in Elements(s) |-> b]
           g == [d \in DOMAIN s |-> Value(IF b THEN s[d] ELSE 0)]
           m == parseSplatBool(b, s)
           v == Result(TRUE, s, e, m, Failure, "mask")
<1>1. DOMAIN s = 1 .. Len(s) /\ Len(s) \in Nat /\ 1 \in DOMAIN s /\ \A d \in DOMAIN s : s[d] \in Nat
  BY ShapeFacts
<1>2. \A d \in DOMAIN s : g[d] \in Numbers /\ g[d].val = IF b THEN s[d] ELSE 0
  <2> SUFFICES ASSUME NEW d \in DOMAIN s PROVE g[d] \in Numbers /\ g[d].val = IF b THEN s[d] ELSE 0
    OBVIOUS
  <2> DEFINE n == IF b THEN s[d] ELSE 0
  <2>1. n \in Int /\ g[d] = Value(n)
    BY <1>1
  <2> HIDE DEF n, g
  <2>2. g[d] \in Numbers /\ g[d].val = n
    BY <2>1, NumbersAre
  <2> QED BY <2>2 DEF n
<1>3. m = MaskOf(Absent, Absent, Absent, g)
  BY Zenon DEF parseSplatBool
<1>4. DOMAIN g = DOMAIN s /\ g = [d \in DOMAIN s |-> g[d]]
  OBVIOUS
<1>5. DOMAIN e = Elements(s) /\ \A x \in Elements(s) : e[x] = b
  OBVIOUS
<1>6. IsVal(v, TRUE, s, e, m, Failure, "mask", FALSE, {})
  BY ResultIs
<1> HIDE DEF e, g, m, v
<1>7. g \in Seq(Numbers) /\ Len(g) = Len(s)
  <2>1. g \in [1 .. Len(s) -> Numbers]
    BY <1>1, <1>2, <1>4
  <2> QED BY <1>1, <2>1, OverDims
<1>8. /\ m \in MaskStates /\ Parsed(m) /\ m.start = Absent /\ m.end = Absent /\ m.scalar = Absent
      /\ m.dims = g /\ Formed(m) /\ m.outcome = "ok"
  BY <1>3, <1>7, MaskOfIs, NumbersAre
<1>9. Shaped(TRUE, m, s)
  BY <1>7, <1>8, NumbersAre DEF Shaped
<1>10. Within(TRUE, m, s)
  BY <1>1, <1>2, <1>8 DEF Within
<1>11. Exact(TRUE, m, s, e)
  <2> SUFFICES ASSUME NEW x \in Elements(s) PROVE Selects(m, x) <=> e[x]
    BY DEF Exact
  <2>1. DOMAIN x = DOMAIN s /\ \A d \in DOMAIN s : x[d] \in 0 .. s[d] - 1
    BY ElementsAre
  <2>2. Selects(m, x) <=> \A d \in DOMAIN s : x[d] < g[d].val
    BY <1>8, <2>1 DEF Selects
  <2>3. CASE b
    <3>1. \A d \in DOMAIN s : x[d] < g[d].val
      BY <1>1, <1>2, <2>1, <2>3
    <3> QED BY <1>5, <2>2, <2>3, <3>1
  <2>4. CASE ~b
    <3>1. ~(x[1] < g[1].val)
      BY <1>1, <1>2, <2>1, <2>4
    <3> QED BY <1>1, <1>5, <2>2, <2>4, <3>1
  <2> QED BY <2>3, <2>4
<1>12. Typed(v)
  BY <1>5, <1>6, <1>8 DEF IsVal, Typed, Forms
<1>13. StateRight(v)
  BY <1>6, <1>8, <1>9, <1>10, <1>11 DEF IsVal, StateRight
<1>14. FormRight(v)
  BY <1>6, <1>8 DEF IsVal, FormRight
<1>15. Right(v)
  BY <1>6, <1>12, <1>13, <1>14 DEF IsVal, Right
<1> QED BY <1>15 DEF v, e, m

-----------------------------------------------------------------------------
(* A value is right when its fields are. *)
LEMMA RightFields ==
  ASSUME NEW v, NEW b \in BOOLEAN, NEW s \in TensorShapes, NEW e, NEW m, NEW p, NEW f \in Forms,
         NEW c, NEW t \in SUBSET KnownPatterns, IsVal(v, b, s, e, m, p, f, c, t),
         DOMAIN e = Elements(s), ~b => \A x \in Elements(s) : e[x] \in Int, Formed(m),
         "and of integers" \notin t => Shaped(b, m, s),
         t \cap {"carried uniform", "and of integers"} = {} => Within(b, m, s),
         t = {} => Exact(b, m, s, e),
         m.outcome = "crash" => t \cap {"and of integers", "range on the right", "carried uniform"} # {},
         f # "other" =>
           /\ Parsed(m) /\ t \cap {"carried uniform", "and of integers"} = {}
           /\ b <=> f = "mask"
           /\ f = "uniform" => isScalar(m)
           /\ f = "range" => ~isScalar(m) /\ OneWide(s),
         ~b => PtrRight(p, s, e)
  PROVE  Right(v)
<1>1. Typed(v)
  BY DEF IsVal, Typed
<1>2. StateRight(v)
  BY DEF IsVal, StateRight
<1>3. FormRight(v)
  BY DEF IsVal, FormRight
<1> QED BY <1>1, <1>2, <1>3 DEF IsVal, Right

LEMMA ExpandRight ==
  ASSUME NEW v, Right(v), Len(v.shape) = 1, NEW axis \in {1, 2}
  PROVE  Right([v EXCEPT !.shape = InsertDim(v.shape, axis, 1),
                  !.elem = [x \in Elements(InsertDim(v.shape, axis, 1)) |-> v.elem[<<x[3 - axis]>>]],
                  !.m = parseExpandDims(v.m, axis), !.p = ExpandState(v.p, axis)])
<1> DEFINE b == v.isBool
           s == v.shape
           e == v.elem
           m == v.m
           t == v.patterns
           f == v.form
           s2 == InsertDim(s, axis, 1)
           e2 == [x \in Elements(s2) |-> e[<<x[3 - axis]>>]]
           m2 == parseExpandDims(m, axis)
           p2 == ExpandState(v.p, axis)
           w == [v EXCEPT !.shape = s2, !.elem = e2, !.m = m2, !.p = p2]
<1>1. /\ Typed(v) /\ StateRight(v) /\ FormRight(v) /\ b \in BOOLEAN /\ s \in TensorShapes
      /\ DOMAIN e = Elements(s) /\ Formed(m) /\ f \in Forms /\ t \in SUBSET KnownPatterns
      /\ ~b => PtrRight(v.p, s, e)
  BY DEF Right, Typed
<1>2. IsVal(w, b, s2, e2, m2, p2, f, v.carried, t)
  <2> HIDE DEF s2, e2, m2, p2
  <2> QED BY <1>1, UpdatedShape
<1>3. s2 \in TensorShapes
  BY <1>1, ExpandedShape
<1>4. ASSUME NEW x \in Elements(s2)
      PROVE  e2[x] = e[<<x[3 - axis]>>] /\ <<x[3 - axis]>> \in Elements(s)
  <2>1. /\ DOMAIN s2 = {axis, 3 - axis} /\ s2[3 - axis] = s[1] /\ DOMAIN s = {1} /\ s[1] \in Nat
    BY <1>1, ExpandedShape
  <2>2. x[3 - axis] \in 0 .. s2[3 - axis] - 1
    <3> HIDE DEF s2
    <3> QED BY <1>3, <2>1, ElementsAre
  <2>3. <<x[3 - axis]>> \in [DOMAIN s -> Int] /\ <<x[3 - axis]>>[1] = x[3 - axis]
    BY <2>1, <2>2
  <2>4. <<x[3 - axis]>> \in Elements(s)
    <3> DEFINE y == <<x[3 - axis]>>
    <3>1. y \in [DOMAIN s -> Int] /\ \A d \in DOMAIN s : y[d] \in 0 .. s[d] - 1
      BY <2>1, <2>2, <2>3
    <3> HIDE DEF y, s, s2
    <3>2. y \in Elements(s)
      BY <1>1, <3>1, ElementsAre
    <3> QED BY <3>2 DEF y
  <2> QED BY <2>4
<1>5. DOMAIN e2 = Elements(s2)
  OBVIOUS
<1>6. ~b => \A x \in Elements(s2) : e2[x] \in Int
  <2> SUFFICES ASSUME ~b, NEW x \in Elements(s2) PROVE e2[x] \in Int
    OBVIOUS
  <2>1. \A y \in Elements(s) : e[y] \in Int
    BY <1>1 DEF Typed
  <2> HIDE DEF e2, e, s
  <2> QED BY <1>4, <2>1
<1>7. Formed(m2)
  <2> HIDE DEF m
  <2> QED BY <1>1, ParsesFormed
<1>8. /\ "and of integers" \notin t => Shaped(b, m, s)
      /\ t \cap {"carried uniform", "and of integers"} = {} => Within(b, m, s)
      /\ t = {} => Exact(b, m, s, e)
      /\ m.outcome = "crash" => t \cap {"and of integers", "range on the right", "carried uniform"} # {}
      /\ f # "other" =>
           /\ Parsed(m) /\ t \cap {"carried uniform", "and of integers"} = {}
           /\ b <=> f = "mask"
           /\ f = "uniform" => isScalar(m)
           /\ f = "range" => ~isScalar(m) /\ OneWide(s)
  BY <1>1 DEF StateRight, FormRight
<1> HIDE DEF b, e, m, t, f, w
<1>9. "and of integers" \notin t => Shaped(b, m2, s2)
  BY <1>1, <1>8, ExpandShaped
<1>10. t \cap {"carried uniform", "and of integers"} = {} => Within(b, m2, s2)
  BY <1>1, <1>8, ExpandWithin
<1>11. t = {} => Exact(b, m2, s2, e2)
  BY <1>1, <1>8, ExpandExact
<1>12. m2.outcome = "crash" => t \cap {"and of integers", "range on the right", "carried uniform"} # {}
  BY <1>1, <1>8, ParsesFormed
<1>13. ~b => PtrRight(p2, s2, e2)
  <2> DEFINE p == v.p
  <2> HIDE DEF p, s
  <2>1. ~b => PtrRight(p, s, e)
    BY <1>1 DEF p
  <2>2. Len(s) = 1 /\ s \in TensorShapes
    BY <1>1 DEF s
  <2> QED BY <2>1, <2>2, ExpandPtr DEF p
<1>14. f # "other" =>
         /\ Parsed(m2) /\ t \cap {"carried uniform", "and of integers"} = {}
         /\ b <=> f = "mask"
         /\ f = "uniform" => isScalar(m2)
         /\ f = "range" => ~isScalar(m2) /\ OneWide(s2)
  <2> SUFFICES ASSUME f # "other"
               PROVE  Parsed(m2) /\ isScalar(m2) = isScalar(m) /\ OneWide(s2)
    BY <1>8
  <2>1. Shaped(b, m, s) /\ Parsed(m)
    BY <1>8
  <2>2. m2 = MaskOf(m.start, m.end, m.scalar, InsertDim(m.dims, axis, Attr(1)))
    BY <1>1, <2>1, ExpandedDims
  <2>3. Parsed(m2) /\ m2.scalar = m.scalar
    <3> HIDE DEF m2
    <3> QED BY <2>2, MaskOfIs
  <2>4. DOMAIN s2 = {axis, 3 - axis} /\ s2[axis] = 1 /\ 3 - axis \in DOMAIN s2
    BY <1>1, ExpandedShape
  <2>5. OneWide(s2)
    <3> HIDE DEF s2
    <3> QED BY <2>4 DEF OneWide
  <2> QED BY <2>3, <2>5 DEF isScalar
<1> HIDE DEF s, s2, e2, m2, p2
<1>15. Right(w)
  BY <1>1, <1>2, <1>3, <1>5, <1>6, <1>7, <1>9, <1>10, <1>11, <1>12, <1>13, <1>14, RightFields
<1> QED BY <1>15 DEF w, s, s2, e2, e, m2, m, p2

(* w is what the operation makes of v. *)
BroadcastOf(w, v, s2) ==
  IsVal(w, v.isBool, s2, [x \in Elements(s2) |-> v.elem[Source(x, v.shape, s2)]],
        parseBroadcast(v.m, v.shape, s2), BroadcastState(v.p, s2),
        IF v.form = "range" THEN "other" ELSE v.form, v.carried,
        v.patterns \cup If(v.isBool /\ ExtentLost(v, s2), "extent lost"))

LEMMA BroadcastRight ==
  ASSUME NEW v, Right(v), NEW s2, Broadcastable(v.shape, s2), NEW w, BroadcastOf(w, v, s2)
  PROVE  Right(w)
<1> DEFINE b == v.isBool
           s == v.shape
           e == v.elem
           m == v.m
           p == v.p
           t == v.patterns
           f == v.form
           e2 == [x \in Elements(s2) |-> e[Source(x, s, s2)]]
           m2 == parseBroadcast(m, s, s2)
           p2 == BroadcastState(p, s2)
           f2 == IF f = "range" THEN "other" ELSE f
           t2 == t \cup If(v.isBool /\ ExtentLost(v, s2), "extent lost")
<1>1. /\ Typed(v) /\ b \in BOOLEAN /\ s \in TensorShapes /\ s2 \in TensorShapes
      /\ DOMAIN e = Elements(s) /\ Formed(m) /\ f \in Forms /\ t \in SUBSET KnownPatterns
      /\ ~b => \A x \in Elements(s) : e[x] \in Int
      /\ Broadcastable(s, s2)
      /\ ~b => PtrRight(p, s, e)
  BY DEF Right, Typed, Broadcastable
<1>2. /\ "and of integers" \notin t => Shaped(b, m, s)
      /\ t \cap {"carried uniform", "and of integers"} = {} => Within(b, m, s)
      /\ t = {} => Exact(b, m, s, e)
      /\ m.outcome = "crash" => t \cap {"and of integers", "range on the right", "carried uniform"} # {}
      /\ f # "other" =>
           /\ Parsed(m) /\ t \cap {"carried uniform", "and of integers"} = {}
           /\ b <=> f = "mask"
           /\ f = "uniform" => isScalar(m)
           /\ f = "range" => ~isScalar(m) /\ OneWide(s)
  BY DEF Right, StateRight, FormRight
<1>3. IsVal(w, b, s2, e2, m2, p2, f2, v.carried, t2)
  BY DEF BroadcastOf
<1>4. /\ t2 \in {t, t \cup {"extent lost"}} /\ t2 \in SUBSET KnownPatterns
      /\ t2 = {} => t = {} /\ ~(v.isBool /\ ExtentLost(v, s2))
  <2>1. "extent lost" \in KnownPatterns
    BY DEF KnownPatterns
  <2>2. t2 = IF v.isBool /\ ExtentLost(v, s2) THEN t \cup {"extent lost"} ELSE t
    BY DEF If
  <2> HIDE DEF t2, t
  <2> QED BY <1>1, <2>1, <2>2
<1>5. t2 = {} => ~(b /\ Parsed(m) /\ Lost(m, s, s2))
  <2>1. Parsed(m) /\ Lost(m, s, s2) => ExtentLost(v, s2)
    <3> HIDE DEF t2, b, p, e, t, f
    <3> QED BY DEF ExtentLost, Lost
  <2> HIDE DEF t2, m, s, t
  <2> QED BY <1>4, <2>1
<1>6. f2 \in Forms /\ (f2 # "other" => f2 = f) /\ f2 # "range"
  <2> HIDE DEF f
  <2> QED BY <1>1 DEF Forms
<1>7. DOMAIN e2 = Elements(s2) /\ \A x \in Elements(s2) : e2[x] = e[Source(x, s, s2)]
  OBVIOUS
<1> HIDE DEF b, s, e, m, p, t, f, e2, f2, t2
<1>8. ~b => \A x \in Elements(s2) : e2[x] \in Int
  BY <1>1, <1>7, SourceIs
<1>9. Formed(m2)
  BY <1>1, ParsesFormed
<1>10. "and of integers" \notin t2 => Shaped(b, m2, s2)
  BY <1>1, <1>2, <1>4, BroadcastShaped
<1>11. t2 \cap {"carried uniform", "and of integers"} = {} => Within(b, m2, s2)
  <2>1. t2 \cap {"carried uniform", "and of integers"} = {}
          => t \cap {"carried uniform", "and of integers"} = {} /\ "and of integers" \notin t
    BY <1>4
  <2> QED BY <1>1, <1>2, <2>1, BroadcastWithin
<1>12. t2 = {} => Exact(b, m2, s2, e2)
  <2> SUFFICES ASSUME t2 = {} PROVE Exact(b, m2, s2, e2)
    OBVIOUS
  <2>1. Shaped(b, m, s) /\ Within(b, m, s) /\ Exact(b, m, s, e) /\ (b /\ Parsed(m) => ~Lost(m, s, s2))
    BY <1>2, <1>4, <1>5
  <2> QED BY <1>1, <2>1, BroadcastExact DEF e2
<1>13. m2.outcome = "crash" => t2 \cap {"and of integers", "range on the right", "carried uniform"} # {}
  <2>1. m2.outcome = "crash" => m.outcome = "crash"
    BY <1>1, ParsesFormed
  <2> HIDE DEF m2
  <2> QED BY <1>2, <1>4, <2>1
<1>14. ~b => PtrRight(p2, s2, e2)
  BY <1>1, BroadcastPtr DEF e2
<1>15. f2 # "other" =>
         /\ Parsed(m2) /\ t2 \cap {"carried uniform", "and of integers"} = {}
         /\ b <=> f2 = "mask"
         /\ f2 = "uniform" => isScalar(m2)
         /\ f2 = "range" => ~isScalar(m2) /\ OneWide(s2)
  <2> SUFFICES ASSUME f2 # "other"
               PROVE  Parsed(m2) /\ isScalar(m2) = isScalar(m)
                      /\ t2 \cap {"carried uniform", "and of integers"} = {}
    BY <1>2, <1>6
  <2>1. Shaped(b, m, s) /\ Parsed(m) /\ t \cap {"carried uniform", "and of integers"} = {}
    BY <1>2, <1>6
  <2> DEFINE g == Widened(m.dims, s, s2)
  <2>2. m2 = MaskOf(m.start, m.end, m.scalar, g)
    <3>1. Len(m.dims) = Len(s) /\ Len(s) \in Nat
      <4> HIDE DEF g, m2, p2
      <4>1. Len(m.dims) = Len(s)
        BY <2>1 DEF Shaped
      <4>2. Len(s) \in {1, 2}
        BY <1>1, ShapeFacts
      <4> QED BY <4>1, <4>2
    <3>2. ~(Len(m.dims) < Len(s))
      BY <3>1
    <3> QED BY <1>1, <2>1, <3>2, BroadcastIs
  <2>3. Parsed(m2) /\ m2.scalar = m.scalar
    <3> HIDE DEF m2, g
    <3> QED BY <2>2, MaskOfIs
  <2>4. t2 \cap {"carried uniform", "and of integers"} = {}
    BY <1>4, <2>1
  <2> QED BY <2>3, <2>4 DEF isScalar
<1> HIDE DEF m2, p2
<1> QED BY <1>1, <1>3, <1>4, <1>6, <1>7, <1>8, <1>9, <1>10, <1>11, <1>12, <1>13, <1>14, <1>15, RightFields

(* offset is what LoopIterArg takes from the PtrState. *)
LoopOf(w, v, step, unknown) ==
  IsVal(w, v.isBool, v.shape, [x \in DOMAIN v.elem |-> v.elem[x] + step],
        parseLoopIterArg(v.m, Value(v.p.dims[1].offset.val + step), unknown),
        [v.p EXCEPT !.dims[1].offset = Value(v.p.dims[1].offset.val + step), !.scalar = Absent],
        IF v.form = "range" /\ ~unknown THEN v.form ELSE "other", TRUE,
        v.patterns \cup If(CarriedColumn(v), "carried column") \cup If(CarriedUniform(v), "carried uniform"))

(* The offset of dimension 0 is that of the range, unless the range has    *)
(* one of its own in dimension 1.                                          *)
LEMMA RangeOffset ==
  ASSUME NEW m, NEW p, NEW shape \in TensorShapes, NEW elem, Parsed(m), ~isScalar(m),
         Shaped(FALSE, m, shape), Exact(FALSE, m, shape, elem), Ok(p), PtrRight(p, shape, elem),
         Rank(p) = 2 => p.dims[2].offset.val = 0
  PROVE  p.dims[1].offset.val = m.start.val
<1>1. PICK a \in DOMAIN shape : \A x \in Elements(shape) : elem[x] = m.start.val + x[a]
  BY DEF Exact, AlongAxis
<1>2. Zero(shape) \in Elements(shape) /\ Zero(shape)[a] = 0
  BY ZeroIsElement
<1>3. m.start.val \in Int
  <2>1. m.start \in Fields
    BY ShapedBasics, FALSE \in BOOLEAN
  <2>2. Absent.val = 0
    BY DEF Absent
  <2> QED BY <2>1, <2>2, NumbersAre DEF Fields
<1>4. elem[Zero(shape)] = m.start.val
  BY <1>1, <1>2, <1>3
<1>5. p \in PtrStates /\ Len(p.dims) = Len(shape) /\ AtOrigin(p.dims) = m.start.val
  BY <1>4 DEF PtrRight
<1>6. /\ Len(shape) \in {1, 2} /\ DOMAIN shape = 1 .. Len(shape)
      /\ \A d \in DOMAIN shape : p.dims[d].offset.val \in Int
  BY <1>5, ShapeFacts, PtrFacts
<1>7. CASE Len(shape) = 1
  BY <1>5, <1>7 DEF AtOrigin
<1>8. CASE Len(shape) = 2
  <2>1. p.dims[2].offset.val = 0 /\ p.dims[1].offset.val \in Int
    BY <1>5, <1>6, <1>8 DEF Rank
  <2>2. AtOrigin(p.dims) = p.dims[1].offset.val + p.dims[2].offset.val
    BY <1>5, <1>8 DEF AtOrigin
  <2> QED BY <1>5, <2>1, <2>2
<1> QED BY <1>6, <1>7, <1>8

LEMMA LoopRight ==
  ASSUME NEW v, Right(v), ~v.isBool, Ok(v.p), NEW step \in Int, NEW unknown \in BOOLEAN,
         NEW w, LoopOf(w, v, step, unknown)
  PROVE  Right(w)
<1> DEFINE s == v.shape
           e == v.elem
           m == v.m
           p == v.p
           t == v.patterns
           f == v.form
           offset == Value(p.dims[1].offset.val + step)
           e2 == [x \in DOMAIN e |-> e[x] + step]
           m2 == parseLoopIterArg(m, offset, unknown)
           p2 == [p EXCEPT !.dims[1].offset = offset, !.scalar = Absent]
           f2 == IF f = "range" /\ ~unknown THEN f ELSE "other"
           t2 == t \cup If(CarriedColumn(v), "carried column") \cup If(CarriedUniform(v), "carried uniform")
<1>1. /\ Typed(v) /\ s \in TensorShapes
      /\ DOMAIN e = Elements(s) /\ Formed(m) /\ f \in Forms /\ t \in SUBSET KnownPatterns
      /\ \A x \in Elements(s) : e[x] \in Int
      /\ PtrRight(p, s, e) /\ Ok(p)
  BY DEF Right, Typed
<1>2. /\ "and of integers" \notin t => Shaped(FALSE, m, s)
      /\ t \cap {"carried uniform", "and of integers"} = {} => Within(FALSE, m, s)
      /\ t = {} => Exact(FALSE, m, s, e)
      /\ m.outcome = "crash" => t \cap {"and of integers", "range on the right", "carried uniform"} # {}
      /\ f # "other" =>
           /\ Parsed(m) /\ t \cap {"carried uniform", "and of integers"} = {}
           /\ FALSE <=> f = "mask"
           /\ f = "uniform" => isScalar(m)
           /\ f = "range" => ~isScalar(m) /\ OneWide(s)
  <2>1. Typed(v) /\ StateRight(v) /\ FormRight(v) /\ v.isBool = FALSE
    BY DEF Right, Typed
  <2> QED BY <2>1, Zenon DEF StateRight, FormRight
<1>3. IsVal(w, FALSE, s, e2, m2, p2, f2, TRUE, t2)
  <2>1. v.isBool = FALSE
    BY <1>1 DEF Typed
  <2> QED BY <2>1 DEF LoopOf
<1>4. /\ t2 \in SUBSET KnownPatterns /\ t \subseteq t2
      /\ "carried uniform" \notin t2 => ~(Parsed(m) /\ isScalar(m))
      /\ "carried column" \notin t2 => ~(Rank(p) = 2 /\ p.dims[2].offset.val # 0)
      /\ t2 \subseteq t \cup {"carried column", "carried uniform"}
      /\ Parsed(m) /\ ~isScalar(m) => "carried uniform" \notin t2 \ t
  <2> DEFINE column == Rank(p) = 2 /\ p.dims[2].offset.val # 0
             uniform == Parsed(m) /\ isScalar(m)
  <2>1. (uniform <=> CarriedUniform(v)) /\ (column <=> CarriedColumn(v))
    <3> HIDE DEF e2, m2, p2, f2, t2
    <3> QED BY <1>1 DEF CarriedColumn, CarriedUniform
  <2>2. {"carried column", "carried uniform"} \subseteq KnownPatterns
    BY DEF KnownPatterns
  <2>3. t2 = t \cup (IF column THEN {"carried column"} ELSE {})
              \cup (IF uniform THEN {"carried uniform"} ELSE {})
    <3> HIDE DEF column, uniform, t, e2, m2, p2, f2
    <3> QED BY <2>1, Zenon DEF If
  <2> HIDE DEF column, uniform, e2, m2, p2, f2, t2, t
  <2>4. /\ t2 \in SUBSET KnownPatterns /\ t \subseteq t2
        /\ "carried uniform" \notin t2 => ~uniform
        /\ "carried column" \notin t2 => ~column
        /\ t2 \subseteq t \cup {"carried column", "carried uniform"}
        /\ ~uniform => "carried uniform" \notin t2 \ t
    BY <1>1, <2>2, <2>3
  <2> QED BY <2>4, Zenon DEF column, uniform
<1>5. f2 \in Forms /\ (f2 # "other" => f2 = "range" /\ f = "range" /\ ~unknown)
  <2> HIDE DEF f
  <2> QED BY <1>1 DEF Forms
<1>6. /\ DOMAIN e2 = Elements(s) /\ \A x \in Elements(s) : e2[x] \in Int
      /\ e2 = [x \in DOMAIN e |-> e[x] + step]
  <2> HIDE DEF e, s
  <2> QED BY <1>1
<1> HIDE DEF e2, f2, t2, e, s, m, t, f
<1>7. p.dims[1].offset.val + step \in Int /\ PtrRight(p2, s, e2)
  <2>1. Ok(p) /\ s \in TensorShapes /\ PtrRight(p, s, e) /\ step \in Int
    BY <1>1
  <2>2. e2[Zero(s)] = e[Zero(s)] + step
    <3> DEFINE z == Zero(s)
    <3>1. z \in DOMAIN e
      BY <1>1, ZeroIsElement DEF e, s
    <3>2. \A x \in DOMAIN e : e2[x] = e[x] + step
      <4> HIDE DEF e
      <4> QED BY DEF e2
    <3> HIDE DEF z, p, offset, m2, p2
    <3> QED BY <3>1, <3>2 DEF z
  <2>3. p2 = Advanced(p, offset) /\ offset = Value(p.dims[1].offset.val + step)
    <3> HIDE DEF p
    <3> QED BY Zenon DEF Advanced
  <2> HIDE DEF p, p2, offset
  <2> QED BY <2>1, <2>2, <2>3, LoopPtr
<1>8. offset \in Numbers /\ offset.val = p.dims[1].offset.val + step
  <2> DEFINE n == p.dims[1].offset.val + step
  <2> HIDE DEF n
  <2>1. n \in Int
    BY <1>7 DEF n
  <2>2. Value(n) \in Numbers /\ Value(n).val = n
    BY <2>1, NumbersAre
  <2> QED BY <2>2 DEF n
<1> HIDE DEF offset, p, p2
<1>9. Formed(m2)
  BY <1>1, ParsesFormed
<1>10. "and of integers" \notin t2 => Shaped(FALSE, m2, s)
  BY <1>1, <1>2, <1>4, <1>8, LoopShaped
<1>11. t2 \cap {"carried uniform", "and of integers"} = {} => Within(FALSE, m2, s)
  <2>1. t2 \cap {"carried uniform", "and of integers"} = {}
          => /\ t \cap {"carried uniform", "and of integers"} = {} /\ "and of integers" \notin t
             /\ Parsed(m) => ~isScalar(m)
    BY <1>4
  <2> QED BY <1>1, <1>2, <1>8, <2>1, LoopWithin
<1>12. t2 = {} => Exact(FALSE, m2, s, e2)
  <2> SUFFICES ASSUME t2 = {} PROVE Exact(FALSE, m2, s, e2)
    OBVIOUS
  <2>1. /\ t = {} /\ (Parsed(m) => ~isScalar(m))
        /\ Rank(p) = 2 => p.dims[2].offset.val = 0
    BY <1>4
  <2>2. Shaped(FALSE, m, s) /\ Exact(FALSE, m, s, e)
    BY <1>2, <2>1
  <2>3. Parsed(m) => offset.val = m.start.val + step
    BY <1>1, <1>8, <2>1, <2>2, RangeOffset
  <2> QED BY <1>1, <1>6, <1>8, <2>1, <2>2, <2>3, LoopExact
<1>13. m2.outcome = "crash" => t2 \cap {"and of integers", "range on the right", "carried uniform"} # {}
  <2>1. "and of integers" \notin t => m2.outcome # "crash"
    BY <1>1, <1>2, <1>8, LoopShaped
  <2> HIDE DEF m2
  <2> QED BY <1>4, <2>1
<1>14. f2 # "other" =>
         /\ Parsed(m2) /\ t2 \cap {"carried uniform", "and of integers"} = {}
         /\ FALSE <=> f2 = "mask"
         /\ f2 = "uniform" => isScalar(m2)
         /\ f2 = "range" => ~isScalar(m2) /\ OneWide(s)
  <2> SUFFICES ASSUME f2 # "other"
               PROVE  /\ Parsed(m2) /\ ~isScalar(m2) /\ OneWide(s)
                      /\ t2 \cap {"carried uniform", "and of integers"} = {} /\ f2 = "range"
    OBVIOUS
  <2>1. /\ Parsed(m) /\ t \cap {"carried uniform", "and of integers"} = {} /\ ~isScalar(m) /\ OneWide(s)
        /\ f2 = "range" /\ ~unknown
    BY <1>2, <1>5
  <2>2. Shaped(FALSE, m, s)
    BY <1>2, <2>1
  <2>3. Parsed(m2) /\ ~isScalar(m2)
    <3>1. LoopedTo(m2, m, offset)
      BY <1>1, <1>8, <2>1, <2>2, LoopMoves
    <3> HIDE DEF m2
    <3> QED BY <3>1 DEF LoopedTo
  <2>4. t2 \cap {"carried uniform", "and of integers"} = {}
    BY <1>4, <2>1
  <2> QED BY <2>1, <2>3, <2>4
<1> HIDE DEF m2
<1>15. FALSE \in BOOLEAN /\ ~FALSE
  OBVIOUS
<1> DEFINE no == FALSE
<1>16. IsVal(w, no, s, e2, m2, p2, f2, TRUE, t2) /\ no \in BOOLEAN
  BY <1>3
<1> QED BY <1>1, <1>3, <1>4, <1>5, <1>6, <1>7, <1>9, <1>10, <1>11, <1>12, <1>13, <1>14, <1>15, RightFields

-----------------------------------------------------------------------------
(* The operations with two operands *)

(* w is a value made of a and b, of one shape. *)
BinaryOf(w, isBool, a, b, elem, st, ptr, form, new) ==
  /\ IsVal(w, isBool, a.shape, elem, st, ptr, form, a.carried \/ b.carried, a.patterns \cup b.patterns \cup new)
  /\ Right(a) /\ Right(b) /\ a.shape = b.shape

(* What an operand that is right brings. *)
Brings(b, s, e, m, p, f, t) ==
  /\ s \in TensorShapes /\ DOMAIN e = Elements(s) /\ Formed(m) /\ f \in Forms /\ t \in SUBSET KnownPatterns
  /\ ~b => \A x \in Elements(s) : e[x] \in Int
  /\ "and of integers" \notin t => Shaped(b, m, s)
  /\ t \cap {"carried uniform", "and of integers"} = {} => Within(b, m, s)
  /\ t = {} => Exact(b, m, s, e)
  /\ m.outcome = "crash" => t \cap {"and of integers", "range on the right", "carried uniform"} # {}
  /\ f # "other" =>
       /\ Parsed(m) /\ t \cap {"carried uniform", "and of integers"} = {}
       /\ b <=> f = "mask"
       /\ f = "uniform" => isScalar(m)
       /\ f = "range" => ~isScalar(m) /\ OneWide(s)
  /\ ~b => PtrRight(p, s, e)

LEMMA RightBrings ==
  ASSUME NEW v, Right(v)
  PROVE  /\ Brings(v.isBool, v.shape, v.elem, v.m, v.p, v.form, v.patterns)
         /\ v.isBool \in BOOLEAN /\ (~v.isBool => v.isBool = FALSE) /\ (v.isBool => v.isBool = TRUE)
<1>1. Typed(v) /\ StateRight(v) /\ FormRight(v) /\ (~v.isBool => PtrRight(v.p, v.shape, v.elem))
  BY DEF Right
<1>2. Brings(v.isBool, v.shape, v.elem, v.m, v.p, v.form, v.patterns)
  <2> DEFINE b == v.isBool
  <2>1. b \in BOOLEAN
    BY <1>1 DEF Typed
  <2> QED BY <1>1 DEF Typed, StateRight, FormRight, Brings
<1>3. v.isBool \in BOOLEAN
  BY <1>1 DEF Typed
<1> QED BY <1>2, <1>3

AddOf(w, a, b) ==
  BinaryOf(w, FALSE, a, b, [x \in DOMAIN a.elem |-> a.elem[x] + b.elem[x]],
           parseAdd(a.m, b.m), PtrSum(a, b),
           IF {a.form, b.form} = {"range", "uniform"} THEN "range" ELSE "other", {})

LEMMA AddRight ==
  ASSUME NEW a, NEW b, ~a.isBool, ~b.isBool, NEW w, AddOf(w, a, b)
  PROVE  Right(w)
<1> DEFINE no == FALSE
           s == a.shape
           ea == a.elem
           eb == b.elem
           l == a.m
           r == b.m
           ta == a.patterns
           tb == b.patterns
           fa == a.form
           fb == b.form
           pa == a.p
           pb == b.p
           e == [x \in DOMAIN ea |-> ea[x] + eb[x]]
           m == parseAdd(l, r)
           p == PtrSum(a, b)
           f == IF {fa, fb} = {"range", "uniform"} THEN "range" ELSE "other"
           t == ta \cup tb \cup {}
           c == a.carried \/ b.carried
<1>1. Brings(no, s, ea, l, pa, fa, ta) /\ Brings(no, s, eb, r, pb, fb, tb)
  <2>1. Right(a) /\ Right(b) /\ a.shape = b.shape
    BY DEF AddOf, BinaryOf
  <2>2. a.isBool = no /\ b.isBool = no
    BY <2>1, RightBrings
  <2> HIDE DEF no
  <2> QED BY <2>1, <2>2, RightBrings
<1>2. IsVal(w, no, s, e, m, p, f, c, t)
  BY DEF AddOf, BinaryOf
<1>3. ~no /\ no \in BOOLEAN
  OBVIOUS
<1>4. Ok(p) => Ok(pa) /\ Ok(pb) /\ p = addState(pa, pb, no)
  BY DEF PtrSum, Ok, Failure
<1>5. t = ta \cup tb
  OBVIOUS
<1>6. f \in Forms /\ (f # "other" => f = "range" /\ {fa, fb} = {"range", "uniform"})
  <2> HIDE DEF fa, fb
  <2> QED BY DEF Forms
<1>7. no = FALSE
  OBVIOUS
<1>8. e = [x \in DOMAIN ea |-> ea[x] + eb[x]]
  OBVIOUS
<1> HIDE DEF no, s, ea, eb, l, r, ta, tb, fa, fb, pa, pb, p, f, t, c, e
<1>9. /\ s \in TensorShapes /\ DOMAIN ea = Elements(s) /\ DOMAIN eb = Elements(s)
      /\ Formed(l) /\ Formed(r) /\ t \in SUBSET KnownPatterns
      /\ \A x \in Elements(s) : ea[x] \in Int /\ eb[x] \in Int
      /\ PtrRight(pa, s, ea) /\ PtrRight(pb, s, eb)
  BY <1>1, <1>3, <1>5 DEF Brings
<1>10. DOMAIN e = Elements(s) /\ \A x \in Elements(s) : e[x] \in Int
  BY <1>8, <1>9
<1>11. Formed(m)
  BY <1>9, ParsesFormed
<1>12. "and of integers" \notin t => Shaped(FALSE, l, s) /\ Shaped(FALSE, r, s)
  BY <1>1, <1>5, <1>7 DEF Brings
<1>13. "and of integers" \notin t => Shaped(no, m, s)
  BY <1>7, <1>9, <1>12, AddShaped
<1>14. t \cap {"carried uniform", "and of integers"} = {} => Within(no, m, s)
  <2> SUFFICES ASSUME t \cap {"carried uniform", "and of integers"} = {} PROVE Within(no, m, s)
    OBVIOUS
  <2>1. /\ "and of integers" \notin t /\ ta \cap {"carried uniform", "and of integers"} = {}
        /\ tb \cap {"carried uniform", "and of integers"} = {}
    BY <1>5
  <2>2. Within(FALSE, l, s) /\ Within(FALSE, r, s)
    BY <1>1, <1>7, <2>1 DEF Brings
  <2> QED BY <1>7, <1>9, <1>12, <2>1, <2>2, AddWithin
<1>15. t = {} => Exact(no, m, s, e)
  <2> SUFFICES ASSUME t = {} PROVE Exact(no, m, s, e)
    OBVIOUS
  <2>1. "and of integers" \notin t /\ ta = {} /\ tb = {}
    BY <1>5
  <2>2. Exact(FALSE, l, s, ea) /\ Exact(FALSE, r, s, eb)
    BY <1>1, <1>7, <2>1 DEF Brings
  <2> QED BY <1>7, <1>9, <1>12, <2>1, <2>2, AddExact DEF e
<1>16. m.outcome = "crash" => t \cap {"and of integers", "range on the right", "carried uniform"} # {}
  <2>1. m.outcome = "crash" /\ "and of integers" \notin t => l.outcome = "crash" \/ r.outcome = "crash"
    BY <1>9, <1>12, AddShaped
  <2>2. /\ l.outcome = "crash" => ta \cap {"and of integers", "range on the right", "carried uniform"} # {}
        /\ r.outcome = "crash" => tb \cap {"and of integers", "range on the right", "carried uniform"} # {}
    BY <1>1 DEF Brings
  <2> HIDE DEF m
  <2> QED BY <1>5, <2>1, <2>2
<1>17. ~no => PtrRight(p, s, e)
  <2>1. CASE Ok(p)
    <3>1. Ok(pa) /\ Ok(pb) /\ p = addState(pa, pb, FALSE)
      BY <1>4, <1>7, <2>1
    <3>2. PtrRight(addState(pa, pb, FALSE), s, e)
      BY <1>9, <3>1, SumPtr DEF e
    <3> QED BY <3>1, <3>2
  <2>2. CASE ~Ok(p)
    BY <2>2 DEF PtrRight
  <2> QED BY <2>1, <2>2
<1>18. f # "other" =>
         /\ Parsed(m) /\ t \cap {"carried uniform", "and of integers"} = {}
         /\ no <=> f = "mask"
         /\ f = "uniform" => isScalar(m)
         /\ f = "range" => ~isScalar(m) /\ OneWide(s)
  <2> SUFFICES ASSUME f # "other"
               PROVE  /\ Parsed(m) /\ ~isScalar(m) /\ OneWide(s) /\ f = "range"
                      /\ t \cap {"carried uniform", "and of integers"} = {}
    BY <1>3
  <2>1. f = "range" /\ ((fa = "range" /\ fb = "uniform") \/ (fa = "uniform" /\ fb = "range"))
    BY <1>6
  <2>2. /\ Parsed(l) /\ Parsed(r) /\ ta \cap {"carried uniform", "and of integers"} = {}
        /\ tb \cap {"carried uniform", "and of integers"} = {} /\ OneWide(s)
        /\ (isScalar(l) /\ ~isScalar(r)) \/ (~isScalar(l) /\ isScalar(r))
    BY <1>1, <2>1 DEF Brings
  <2>3. "and of integers" \notin t /\ t \cap {"carried uniform", "and of integers"} = {}
    BY <1>5, <2>2
  <2>4. Parsed(m) /\ ~isScalar(m)
    BY <1>9, <1>12, <2>2, <2>3, AddPlain
  <2> QED BY <2>1, <2>2, <2>3, <2>4
<1> HIDE DEF m
<1> QED BY <1>2, <1>3, <1>6, <1>9, <1>10, <1>11, <1>13, <1>14, <1>15, <1>16, <1>17, <1>18, RightFields

AndOf(w, a, b) ==
  BinaryOf(w, TRUE, a, b, [x \in DOMAIN a.elem |-> a.elem[x] /\ b.elem[x]],
           parseAnd(a.m, b.m), Failure, IF {a.form, b.form} = {"mask"} THEN "mask" ELSE "other", {})

AndIntegersOf(w, a, b) ==
  BinaryOf(w, FALSE, a, b, [x \in DOMAIN a.elem |-> a.elem[x] * b.elem[x]],
           parseAnd(a.m, b.m), Failure, "other", {"and of integers"})

LEMMA AndRight ==
  ASSUME NEW a, NEW b, a.isBool, b.isBool, NEW w, AndOf(w, a, b)
  PROVE  Right(w)
<1> DEFINE yes == TRUE
           s == a.shape
           ea == a.elem
           eb == b.elem
           l == a.m
           r == b.m
           ta == a.patterns
           tb == b.patterns
           fa == a.form
           fb == b.form
           pa == a.p
           pb == b.p
           e == [x \in DOMAIN ea |-> ea[x] /\ eb[x]]
           m == parseAnd(l, r)
           f == IF {fa, fb} = {"mask"} THEN "mask" ELSE "other"
           t == ta \cup tb \cup {}
           c == a.carried \/ b.carried
<1>1. Brings(yes, s, ea, l, pa, fa, ta) /\ Brings(yes, s, eb, r, pb, fb, tb)
  <2>1. Right(a) /\ Right(b) /\ a.shape = b.shape
    BY DEF AndOf, AndIntegersOf, BinaryOf
  <2>2. a.isBool = yes /\ b.isBool = yes
    BY <2>1, RightBrings
  <2> HIDE DEF yes
  <2> QED BY <2>1, <2>2, RightBrings
<1>2. IsVal(w, yes, s, e, m, Failure, f, c, t)
  BY DEF AndOf, AndIntegersOf, BinaryOf
<1>3. yes /\ yes \in BOOLEAN
  OBVIOUS
<1>4. t = ta \cup tb
  OBVIOUS
<1>5. f \in Forms /\ (f # "other" => f = "mask" /\ fa = "mask" /\ fb = "mask")
  <2> HIDE DEF fa, fb
  <2> QED BY DEF Forms
<1>6. yes = TRUE
  OBVIOUS
<1>7. DOMAIN e = DOMAIN ea /\ \A x \in DOMAIN ea : e[x] = (ea[x] /\ eb[x])
  OBVIOUS
<1> HIDE DEF yes, s, ea, eb, l, r, ta, tb, fa, fb, pa, pb, f, t, c, e
<1>9. /\ s \in TensorShapes /\ DOMAIN ea = Elements(s) /\ DOMAIN e = Elements(s)
      /\ Formed(l) /\ Formed(r) /\ t \in SUBSET KnownPatterns
  BY <1>1, <1>4, <1>7 DEF Brings
<1>11. Formed(m)
  BY <1>9, ParsesFormed
<1>12. "and of integers" \notin t => Shaped(TRUE, l, s) /\ Shaped(TRUE, r, s)
  BY <1>1, <1>4, <1>6 DEF Brings
<1>13. "and of integers" \notin t => Shaped(yes, m, s)
  BY <1>6, <1>9, <1>12, AndShaped
<1>14. t \cap {"carried uniform", "and of integers"} = {} => Within(yes, m, s)
  <2> SUFFICES ASSUME t \cap {"carried uniform", "and of integers"} = {} PROVE Within(yes, m, s)
    OBVIOUS
  <2>1. /\ "and of integers" \notin t /\ ta \cap {"carried uniform", "and of integers"} = {}
        /\ tb \cap {"carried uniform", "and of integers"} = {}
    BY <1>4
  <2>2. Within(TRUE, l, s) /\ Within(TRUE, r, s)
    BY <1>1, <1>6, <2>1 DEF Brings
  <2> QED BY <1>6, <1>9, <1>12, <2>1, <2>2, AndWithin
<1>15. t = {} => Exact(yes, m, s, e)
  <2> SUFFICES ASSUME t = {} PROVE Exact(yes, m, s, e)
    OBVIOUS
  <2>1. "and of integers" \notin t /\ ta = {} /\ tb = {}
    BY <1>4
  <2>2. Exact(TRUE, l, s, ea) /\ Exact(TRUE, r, s, eb)
    BY <1>1, <1>6, <2>1 DEF Brings
  <2>3. s \in TensorShapes /\ Shaped(TRUE, l, s) /\ Shaped(TRUE, r, s) /\ DOMAIN ea = Elements(s)
    BY <1>9, <1>12, <2>1
  <2>4. \A x \in Elements(s) : e[x] = (ea[x] /\ eb[x])
    BY <1>7, <2>3, Zenon
  <2>5. Exact(TRUE, m, s, e)
    BY <2>2, <2>3, <2>4, AndExact, Zenon
  <2> QED BY <1>6, <2>5
<1>16. m.outcome = "crash" => t \cap {"and of integers", "range on the right", "carried uniform"} # {}
  <2>1. m.outcome = "crash" /\ "and of integers" \notin t => l.outcome = "crash" \/ r.outcome = "crash"
    BY <1>9, <1>12, AndShaped
  <2>2. /\ l.outcome = "crash" => ta \cap {"and of integers", "range on the right", "carried uniform"} # {}
        /\ r.outcome = "crash" => tb \cap {"and of integers", "range on the right", "carried uniform"} # {}
    BY <1>1 DEF Brings
  <2> HIDE DEF m
  <2> QED BY <1>4, <2>1, <2>2
<1>17. f # "other" =>
         /\ Parsed(m) /\ t \cap {"carried uniform", "and of integers"} = {}
         /\ yes <=> f = "mask"
         /\ f = "uniform" => isScalar(m)
         /\ f = "range" => ~isScalar(m) /\ OneWide(s)
  <2> SUFFICES ASSUME f # "other"
               PROVE  Parsed(m) /\ f = "mask" /\ t \cap {"carried uniform", "and of integers"} = {}
    BY <1>3
  <2>1. /\ Parsed(l) /\ Parsed(r) /\ ta \cap {"carried uniform", "and of integers"} = {}
        /\ tb \cap {"carried uniform", "and of integers"} = {}
    BY <1>1, <1>5 DEF Brings
  <2>2. "and of integers" \notin t /\ t \cap {"carried uniform", "and of integers"} = {}
    BY <1>4, <2>1
  <2>3. m \in {l, r} \/ Parsed(m)
    <3>1. Shaped(TRUE, l, s) /\ Shaped(TRUE, r, s)
      BY <1>12, <2>2
    <3>2. AndsTo(m, l, r, s)
      BY <1>9, <3>1, AndCases
    <3> HIDE DEF m
    <3>3. \/ ~Parsed(m) /\ m \in {l, r}
          \/ \E g \in Seq(Numbers) : m = MaskOf(Absent, Absent, Absent, g)
      BY <3>2, Zenon DEF AndsTo
    <3> QED BY <3>3, MaskOfIs
  <2> HIDE DEF m
  <2> QED BY <1>5, <2>1, <2>2, <2>3
<1> HIDE DEF m
<1> QED BY <1>2, <1>3, <1>5, <1>9, <1>11, <1>13, <1>14, <1>15, <1>16, <1>17, RightFields

LEMMA AndIntegersRight ==
  ASSUME NEW a, NEW b, ~a.isBool, ~b.isBool,
         \A x \in DOMAIN a.elem : a.elem[x] \in {0, 1} /\ b.elem[x] \in {0, 1}, NEW w,
         AndIntegersOf(w, a, b)
  PROVE  Right(w)
<1> DEFINE no == FALSE
           s == a.shape
           e == [x \in DOMAIN a.elem |-> a.elem[x] * b.elem[x]]
           m == parseAnd(a.m, b.m)
           t == a.patterns \cup b.patterns \cup {"and of integers"}
           c == a.carried \/ b.carried
<1>1. Typed(a) /\ Typed(b)
  BY DEF AndIntegersOf, BinaryOf, Right
<1>2. IsVal(w, no, s, e, m, Failure, "other", c, t)
  BY DEF AndOf, AndIntegersOf, BinaryOf
<1>3. s \in TensorShapes /\ DOMAIN e = Elements(s) /\ t \in SUBSET KnownPatterns
  BY <1>1 DEF Typed, KnownPatterns
<1>4. \A x \in Elements(s) : e[x] \in Int
  <2> SUFFICES ASSUME NEW x \in DOMAIN a.elem PROVE a.elem[x] * b.elem[x] \in Int
    BY <1>3
  <2>1. \A i \in {0, 1}, j \in {0, 1} : i * j \in Int
    <3> SUFFICES ASSUME NEW i \in {0, 1}, NEW j \in {0, 1} PROVE i * j \in Int
      OBVIOUS
    <3> HIDE DEF no, s, e, m, t, c
    <3>1. i \in Int /\ j \in Int
      OBVIOUS
    <3> QED BY <3>1
  <2>2. a.elem[x] \in {0, 1} /\ b.elem[x] \in {0, 1}
    OBVIOUS
  <2> QED BY <2>1, <2>2, Zenon
<1>5. Formed(m)
  BY <1>1, ParsesFormed DEF Typed
<1>6. ~Ok(Failure)
  BY DEF Ok, Failure
<1>7. PtrRight(Failure, s, e)
  <2> HIDE DEF s, e
  <2> QED BY <1>6 DEF PtrRight
<1>8. no \in BOOLEAN /\ "other" \in Forms /\ "and of integers" \in t
  BY DEF Forms
<1> HIDE DEF no, s, e, m, t, c
<1>9. t \cap {"and of integers", "range on the right", "carried uniform"} # {} /\ t # {}
      /\ t \cap {"carried uniform", "and of integers"} # {}
  BY <1>8
<1> QED BY <1>2, <1>3, <1>4, <1>5, <1>7, <1>8, <1>9, RightFields

CmpOf(w, a, b, pred) ==
  BinaryOf(w, TRUE, a, b, [x \in DOMAIN a.elem |-> Holds(pred, a.elem[x], b.elem[x])],
           parseCmp(a.m, b.m, pred), Failure, IF Plain(a, b, pred) THEN "mask" ELSE "other",
           If(BelowZero(a, b, pred), "below zero") \cup If(RangeOnTheRight(b), "range on the right"))

LEMMA CmpRight ==
  ASSUME NEW a, NEW b, ~a.isBool, ~b.isBool, NEW pred \in Predicates, NEW w, CmpOf(w, a, b, pred)
  PROVE  Right(w)
<1> DEFINE no == FALSE
           yes == TRUE
           s == a.shape
           ea == a.elem
           eb == b.elem
           l == a.m
           r == b.m
           ta == a.patterns
           tb == b.patterns
           fa == a.form
           fb == b.form
           pa == a.p
           pb == b.p
           below == BelowZero(a, b, pred)
           ranged == RangeOnTheRight(b)
           plain == Plain(a, b, pred)
           e == [x \in DOMAIN ea |-> Holds(pred, ea[x], eb[x])]
           m == parseCmp(l, r, pred)
           f == IF plain THEN "mask" ELSE "other"
           t == ta \cup tb \cup (If(below, "below zero") \cup If(ranged, "range on the right"))
           c == a.carried \/ b.carried
<1>1. Brings(no, s, ea, l, pa, fa, ta) /\ Brings(no, s, eb, r, pb, fb, tb)
  <2>1. Right(a) /\ Right(b) /\ a.shape = b.shape
    BY DEF CmpOf, BinaryOf
  <2>2. a.isBool = no /\ b.isBool = no
    BY <2>1, RightBrings
  <2> HIDE DEF no
  <2> QED BY <2>1, <2>2, RightBrings
<1>2. IsVal(w, yes, s, e, m, Failure, f, c, t)
  BY DEF CmpOf, BinaryOf
<1>3. no = FALSE /\ yes = TRUE
  OBVIOUS
<1>4. /\ below => "below zero" \in t
      /\ ranged => "range on the right" \in t
      /\ ta \cup tb \subseteq t /\ t \subseteq ta \cup tb \cup {"below zero", "range on the right"}
  <2>1. t = ta \cup tb \cup (IF below THEN {"below zero"} ELSE {}) \cup (IF ranged THEN {"range on the right"} ELSE {})
    <3>1. /\ If(below, "below zero") = IF below THEN {"below zero"} ELSE {}
          /\ If(ranged, "range on the right") = IF ranged THEN {"range on the right"} ELSE {}
      BY Zenon DEF If
    <3> DEFINE x == If(below, "below zero")
               y == If(ranged, "range on the right")
               x2 == IF below THEN {"below zero"} ELSE {}
               y2 == IF ranged THEN {"range on the right"} ELSE {}
    <3>2. t = ta \cup tb \cup (x \cup y) /\ x = x2 /\ y = y2
      BY <3>1
    <3> HIDE DEF x, y, x2, y2, ta, tb, t
    <3>3. t = ta \cup tb \cup x2 \cup y2
      BY <3>2
    <3> QED BY <3>3 DEF x2, y2
  <2> HIDE DEF t, ta, tb, below, ranged
  <2> QED BY <2>1
<1>5. f \in Forms /\ (f # "other" => f = "mask" /\ plain)
  <2> HIDE DEF plain
  <2> QED BY DEF Forms
<1>6. /\ ~below => /\ pred = "sge" => \A x \in DOMAIN ea : ~(ea[x] < 0)
                   /\ pred = "ult" => \A x \in DOMAIN ea : ~(ea[x] < 0) /\ ~(eb[x] < 0)
      /\ ~ranged => (Parsed(r) => isScalar(r))
      /\ Parsed(r) /\ ~isScalar(r) => ranged
      /\ plain => /\ fa = "range" /\ fb = "uniform" /\ pred \in {"slt", "ult", "sge"}
                  /\ pred = "sge" => r.scalar = Const(0)
  <2> HIDE DEF m, f, t, c, e
  <2>1. ~below => /\ pred = "sge" => \A x \in DOMAIN ea : ~(ea[x] < 0)
                  /\ pred = "ult" => \A x \in DOMAIN ea : ~(ea[x] < 0) /\ ~(eb[x] < 0)
    BY Zenon DEF BelowZero
  <2>2. (~ranged => (Parsed(r) => isScalar(r))) /\ (Parsed(r) /\ ~isScalar(r) => ranged)
    BY Zenon DEF RangeOnTheRight
  <2>3. plain => /\ fa = "range" /\ fb = "uniform" /\ pred \in {"slt", "ult", "sge"}
                 /\ pred = "sge" => r.scalar = Const(0)
    BY DEF Plain
  <2> QED BY <2>1, <2>2, <2>3, Zenon
<1>7. DOMAIN e = DOMAIN ea /\ \A x \in DOMAIN ea : e[x] = Holds(pred, ea[x], eb[x])
  OBVIOUS
<1> HIDE DEF no, yes, s, ea, eb, l, r, ta, tb, fa, fb, pa, pb, f, t, c, e, below, ranged, plain
<1>9. /\ s \in TensorShapes /\ DOMAIN ea = Elements(s) /\ DOMAIN e = Elements(s)
      /\ Formed(l) /\ Formed(r) /\ t \in SUBSET KnownPatterns
      /\ \A x \in Elements(s) : ea[x] \in Int /\ eb[x] \in Int
  <2>1. {"below zero", "range on the right"} \subseteq KnownPatterns
    BY DEF KnownPatterns
  <2>2. t \in SUBSET KnownPatterns
    BY <1>1, <1>4, <2>1 DEF Brings
  <2> QED BY <1>1, <1>3, <1>7, <2>2 DEF Brings
<1>11. Formed(m)
  BY <1>9, ParsesFormed
<1>12. "and of integers" \notin t => Shaped(FALSE, l, s) /\ Shaped(FALSE, r, s)
  BY <1>1, <1>3, <1>4 DEF Brings
<1>13. "and of integers" \notin t => Shaped(yes, m, s)
  BY <1>3, <1>9, <1>12, CmpShaped
<1>14. t \cap {"carried uniform", "and of integers"} = {}
         => "and of integers" \notin t /\ Within(FALSE, l, s)
  <2> SUFFICES ASSUME t \cap {"carried uniform", "and of integers"} = {}
               PROVE  "and of integers" \notin t /\ Within(FALSE, l, s)
    OBVIOUS
  <2>1. "and of integers" \notin t /\ ta \cap {"carried uniform", "and of integers"} = {}
    BY <1>4
  <2> QED BY <1>1, <1>3, <2>1 DEF Brings
<1>15. t \cap {"carried uniform", "and of integers"} = {} => Within(yes, m, s)
  BY <1>3, <1>9, <1>12, <1>14, CmpWithin
<1>16. t = {} => Exact(yes, m, s, e)
  <2> SUFFICES ASSUME t = {} PROVE Exact(yes, m, s, e)
    OBVIOUS
  <2>1. "and of integers" \notin t /\ ta = {} /\ tb = {} /\ ~below /\ ~ranged
    BY <1>4
  <2>2. Exact(FALSE, l, s, ea) /\ Exact(FALSE, r, s, eb)
    BY <1>1, <1>3, <2>1 DEF Brings
  <2>3. /\ pred = "sge" => \A x \in Elements(s) : ea[x] >= 0
        /\ pred = "ult" => \A x \in Elements(s) : ea[x] >= 0 /\ eb[x] >= 0
    <3>1. \A x \in Elements(s) : /\ ~(ea[x] < 0) <=> ea[x] >= 0
                                 /\ ~(eb[x] < 0) <=> eb[x] >= 0
      BY <1>9
    <3> HIDE DEF m
    <3> QED BY <1>6, <1>9, <2>1, <3>1
  <2>4. Parsed(r) => isScalar(r)
    BY <1>6, <2>1
  <2>5. s \in TensorShapes /\ Shaped(FALSE, l, s) /\ Shaped(FALSE, r, s) /\ DOMAIN ea = Elements(s)
        /\ \A x \in Elements(s) : ea[x] \in Int /\ eb[x] \in Int
    BY <1>9, <1>12, <2>1
  <2>6. \A x \in Elements(s) : e[x] = Holds(pred, ea[x], eb[x])
    BY <1>7, <2>5, Zenon
  <2>7. Exact(TRUE, m, s, e)
    <3> HIDE DEF m
    <3>1. Exact(TRUE, parseCmp(l, r, pred), s, e)
      BY <2>2, <2>3, <2>4, <2>5, <2>6, CmpExact
    <3> QED BY <3>1 DEF m
  <2> QED BY <1>3, <2>7
<1>17. m.outcome = "crash" => t \cap {"and of integers", "range on the right", "carried uniform"} # {}
  <2> SUFFICES ASSUME m.outcome = "crash", t \cap {"carried uniform", "and of integers"} = {}
               PROVE  t \cap {"and of integers", "range on the right", "carried uniform"} # {}
    <3> HIDE DEF m
    <3> QED OBVIOUS
  <2>1. l.outcome = "crash" \/ r.outcome = "crash" \/ (Parsed(r) /\ ~isScalar(r))
    BY <1>9, <1>12, <1>14, CmpStops
  <2>2. /\ l.outcome = "crash" => ta \cap {"and of integers", "range on the right", "carried uniform"} # {}
        /\ r.outcome = "crash" => tb \cap {"and of integers", "range on the right", "carried uniform"} # {}
        /\ Parsed(r) /\ ~isScalar(r) => "range on the right" \in t
    BY <1>1, <1>4, <1>6 DEF Brings
  <2> HIDE DEF m
  <2> QED BY <1>4, <2>1, <2>2
<1>18. f # "other" =>
         /\ Parsed(m) /\ t \cap {"carried uniform", "and of integers"} = {}
         /\ yes <=> f = "mask"
         /\ f = "uniform" => isScalar(m)
         /\ f = "range" => ~isScalar(m) /\ OneWide(s)
  <2> SUFFICES ASSUME f # "other"
               PROVE  Parsed(m) /\ f = "mask" /\ t \cap {"carried uniform", "and of integers"} = {}
    BY <1>3
  <2>1. /\ f = "mask" /\ fa = "range" /\ fb = "uniform" /\ pred \in {"slt", "ult", "sge"}
        /\ pred = "sge" => r.scalar = Const(0)
    BY <1>5, <1>6
  <2>2. /\ Parsed(l) /\ Parsed(r) /\ ta \cap {"carried uniform", "and of integers"} = {}
        /\ tb \cap {"carried uniform", "and of integers"} = {}
        /\ ~isScalar(l) /\ isScalar(r) /\ OneWide(s)
    BY <1>1, <2>1 DEF Brings
  <2>3. "and of integers" \notin t /\ t \cap {"carried uniform", "and of integers"} = {}
    BY <1>4, <2>2
  <2>4. pred = "sge" => HasConstZero(r.scalar)
    <3> HIDE DEF m
    <3>1. HasConstZero(Const(0))
      BY DEF HasConstZero, IsConst, Const
    <3> QED BY <2>1, <3>1
  <2>5. Parsed(m)
    BY <1>9, <1>12, <1>14, <2>1, <2>2, <2>3, <2>4, CmpPlain
  <2> QED BY <2>1, <2>3, <2>5
<1> HIDE DEF m
<1> QED BY <1>2, <1>3, <1>5, <1>9, <1>11, <1>13, <1>15, <1>16, <1>17, <1>18, RightFields

-----------------------------------------------------------------------------
(* The inductive invariant: every value not used yet is right. *)
AllRight(ops) ==
  /\ ops \in Seq({ops[i] : i \in DOMAIN ops}) /\ Len(ops) <= 3
  /\ \A i \in DOMAIN ops : Right(ops[i])

OperandsRight == AllRight(operands)

LEMMA AllRightFacts ==
  ASSUME NEW ops, AllRight(ops)
  PROVE  /\ Len(ops) \in Nat /\ Len(ops) <= 3 /\ DOMAIN ops = 1 .. Len(ops)
         /\ \A i \in 1 .. Len(ops) : Right(ops[i])
         /\ ops # <<>> => Len(ops) >= 1 /\ Right(ops[Len(ops)])
  BY DEF AllRight

LEMMA AllRightIf ==
  ASSUME NEW ops, NEW n \in Nat, n <= 3, DOMAIN ops = 1 .. n, ops = [i \in 1 .. n |-> ops[i]],
         \A i \in 1 .. n : Right(ops[i])
  PROVE  AllRight(ops)
<1> DEFINE S == {ops[i] : i \in DOMAIN ops}
<1>1. ops \in [1 .. n -> S]
  BY Zenon
<1> HIDE DEF S
<1>2. ops \in Seq(S) /\ Len(ops) = n
  BY <1>1, OverDims
<1> QED BY <1>2 DEF AllRight, S

LEMMA AppendRight ==
  ASSUME NEW ops, AllRight(ops), Len(ops) < 3, NEW w, Right(w)
  PROVE  AllRight(Append(ops, w))
<1> DEFINE n == Len(ops) + 1
           new == Append(ops, w)
           S == {ops[i] : i \in DOMAIN ops}
<1>1. /\ ops \in Seq(S) /\ Len(ops) \in Nat /\ n \in Nat /\ n <= 3
      /\ \A i \in 1 .. Len(ops) : Right(ops[i])
  BY AllRightFacts DEF AllRight
<1> HIDE DEF S
<1>2. /\ DOMAIN new = 1 .. n /\ new = [i \in 1 .. n |-> new[i]]
      /\ \A i \in 1 .. n : new[i] = IF i = n THEN w ELSE ops[i]
  <2> DEFINE T == S \cup {w}
  <2>1. ops \in Seq(T) /\ w \in T /\ ops \in [1 .. Len(ops) -> T]
    BY <1>1
  <2> HIDE DEF T
  <2>2. new \in Seq(T) /\ Len(new) = n /\ new[n] = w /\ \A i \in 1 .. Len(ops) : new[i] = ops[i]
    BY <2>1, AppendProperties
  <2> HIDE DEF new
  <2>3. new \in [1 .. n -> T]
    BY <1>1, <2>2
  <2> QED BY <1>1, <2>2, <2>3
<1>3. \A i \in 1 .. n : Right(new[i])
  <2> SUFFICES ASSUME NEW i \in 1 .. n PROVE Right(new[i])
    OBVIOUS
  <2>1. i = n \/ i \in 1 .. Len(ops)
    BY <1>1
  <2> HIDE DEF n, new
  <2> QED BY <1>1, <1>2, <2>1
<1> HIDE DEF new, n
<1> QED BY <1>1, <1>2, <1>3, AllRightIf DEF new

LEMMA ReplaceRight ==
  ASSUME NEW ops, AllRight(ops), NEW w, Right(w)
  PROVE  AllRight([ops EXCEPT ![Len(ops)] = w])
<1> DEFINE n == Len(ops)
           new == [ops EXCEPT ![n] = w]
<1>1. n \in Nat /\ n <= 3 /\ DOMAIN ops = 1 .. n /\ \A i \in 1 .. n : Right(ops[i])
  BY AllRightFacts
<1> HIDE DEF n
<1>2. /\ DOMAIN new = 1 .. n /\ new = [i \in 1 .. n |-> new[i]]
      /\ \A i \in 1 .. n : new[i] = IF i = n THEN w ELSE ops[i]
  BY <1>1
<1> HIDE DEF new
<1>3. \A i \in 1 .. n : Right(new[i])
  BY <1>1, <1>2
<1>4. AllRight(new)
  BY <1>1, <1>2, <1>3, AllRightIf
<1> QED BY <1>4 DEF new, n

LEMMA CombineRight ==
  ASSUME NEW ops, AllRight(ops), Len(ops) >= 2, NEW w, Right(w)
  PROVE  AllRight(Append(SubSeq(ops, 1, Len(ops) - 2), w))
<1> DEFINE n == Len(ops) - 2
           old == SubSeq(ops, 1, n)
<1>1. n \in Nat /\ n <= 1 /\ \A i \in 1 .. Len(ops) : Right(ops[i])
  BY AllRightFacts
<1>2. /\ DOMAIN old = 1 .. n /\ old = [i \in 1 .. n |-> old[i]] /\ \A i \in 1 .. n : old[i] = ops[i]
      /\ Len(old) = n
  <2> DEFINE S == {ops[i] : i \in DOMAIN ops}
  <2>1. ops \in Seq(S) /\ n <= Len(ops)
    BY AllRightFacts DEF AllRight
  <2> HIDE DEF S, n
  <2> QED BY <1>1, <2>1
<1>3. AllRight(old)
  <2>1. \A i \in 1 .. n : Right(old[i])
    BY <1>1, <1>2, AllRightFacts
  <2> HIDE DEF old, n
  <2> QED BY <1>1, <1>2, <2>1, AllRightIf
<1> HIDE DEF old
<1>4. Len(old) < 3
  BY <1>1, <1>2
<1>5. AllRight(Append(old, w))
  BY <1>3, <1>4, AppendRight
<1> QED BY <1>5 DEF old

LEMMA PushKeeps ==
  ASSUME OperandsRight, Len(operands) < 3, NEW w, Right(w), Push(w)
  PROVE  OperandsRight'
  BY AppendRight DEF OperandsRight, Push

LEMMA ReplaceKeeps ==
  ASSUME OperandsRight, NEW w, Right(w), Replace(w)
  PROVE  OperandsRight'
  BY ReplaceRight DEF OperandsRight, Replace

LEMMA CombineKeeps ==
  ASSUME OperandsRight, Len(operands) >= 2, NEW w, Right(w), Combine(w)
  PROVE  OperandsRight'
  BY CombineRight DEF OperandsRight, Combine

LEMMA LeafKeeps == OperandsRight /\ Leaf => OperandsRight'
<1> SUFFICES ASSUME OperandsRight, Leaf PROVE OperandsRight'
  OBVIOUS
<1>1. Len(operands) < 3
  BY DEF Leaf
<1>2. ASSUME NEW start \in Starts, NEW n \in Extents, MakeRange(start, n) PROVE OperandsRight'
  <2> DEFINE w == Result(FALSE, <<n>>, [x \in Elements(<<n>>) |-> start + x[1]], parseMakeRange(start, n),
                         State(FALSE, Absent, <<Dim(Attr(start), n, Attr(1))>>), "range")
  <2>1. start \in Int /\ n \in Nat /\ n > 1
    <3> DEFINE Many == Nat \ {0, 1}
    <3>1. start \in Nat /\ n \in Many
      BY InputsAssumption
    <3> QED BY <3>1
  <2>2. Right(w)
    BY <2>1, MakeRangeRight
  <2>3. Push(w)
    BY <1>2 DEF MakeRange
  <2> HIDE DEF w
  <2> QED BY <1>1, <2>2, <2>3, PushKeeps
<1>3. ASSUME NEW b \in BOOLEAN, NEW shape \in Shapes, SplatBool(b, shape) PROVE OperandsRight'
  <2> DEFINE w == Result(TRUE, shape, [x \in Elements(shape) |-> b], parseSplatBool(b, shape), Failure, "mask")
  <2>1. shape \in TensorShapes
    BY ShapesAssumption DEF TensorShapes
  <2>2. Right(w)
    BY <2>1, SplatBoolRight
  <2>3. Push(w)
    BY <1>3 DEF SplatBool
  <2> HIDE DEF w
  <2> QED BY <1>1, <2>2, <2>3, PushKeeps
<1>4. ASSUME NEW k \in Scalars, NEW shape \in Shapes, Splat(k, shape) PROVE OperandsRight'
  <2> DEFINE w == Result(FALSE, shape, [x \in Elements(shape) |-> k.val], parseUniform(k, shape),
                         [State(FALSE, k, <<>>) EXCEPT !.dims = SplatDims(State(FALSE, k, <<>>), shape)],
                         "uniform")
  <2>1. shape \in TensorShapes
    BY ShapesAssumption DEF TensorShapes
  <2>2. k \in Numbers
    BY InputsAssumption DEF Numbers
  <2>3. Right(w)
    BY <2>1, <2>2, SplatRight
  <2>4. Push(w)
    BY <1>4 DEF Splat
  <2> HIDE DEF w
  <2> QED BY <1>1, <2>3, <2>4, PushKeeps
<1> QED BY <1>2, <1>3, <1>4 DEF Leaf

LEMMA UnaryKeeps == OperandsRight /\ Unary => OperandsRight'
<1> SUFFICES ASSUME OperandsRight, Unary PROVE OperandsRight'
  OBVIOUS
<1>1. Right(Last)
  BY AllRightFacts DEF OperandsRight, Last, Unary
<1> DEFINE v == Last
<1>2. Typed(v)
  BY <1>1 DEF Right
<1>3. ASSUME NEW axis \in {1, 2}, ExpandDims(axis) PROVE OperandsRight'
  <2> DEFINE w == [v EXCEPT !.shape = InsertDim(v.shape, axis, 1),
                     !.elem = [x \in Elements(InsertDim(v.shape, axis, 1)) |-> v.elem[<<x[3 - axis]>>]],
                     !.m = parseExpandDims(v.m, axis), !.p = ExpandState(v.p, axis)]
  <2>1. Len(v.shape) = 1 /\ Replace(w)
    BY <1>3 DEF ExpandDims
  <2>2. Right(w)
    <3> HIDE DEF v
    <3> QED BY <1>1, <2>1, ExpandRight DEF v
  <2> HIDE DEF w
  <2> QED BY <2>1, <2>2, ReplaceKeeps
<1>4. ASSUME NEW shape \in Shapes, Broadcast(shape) PROVE OperandsRight'
  <2> DEFINE e2 == [x \in Elements(shape) |-> v.elem[Source(x, v.shape, shape)]]
             m2 == parseBroadcast(v.m, v.shape, shape)
             p2 == BroadcastState(v.p, shape)
             f2 == IF v.form = "range" THEN "other" ELSE v.form
             t2 == v.patterns \cup If(v.isBool /\ ExtentLost(v, shape), "extent lost")
             w == [v EXCEPT !.shape = shape, !.elem = e2, !.m = m2, !.p = p2, !.form = f2, !.patterns = t2]
  <2>1. Replace(w)
    BY <1>4 DEF Broadcast, Source
  <2>2. Broadcastable(v.shape, shape)
    <3>1. shape \in TensorShapes /\ v.shape \in TensorShapes
      BY <1>2, ShapesAssumption DEF TensorShapes, Typed
    <3>2. Len(v.shape) = Len(shape) /\ \A d \in DOMAIN shape : v.shape[d] \in {1, shape[d]}
      BY <1>4 DEF Broadcast
    <3> HIDE DEF v
    <3> QED BY <3>1, <3>2 DEF Broadcastable
  <2>3. BroadcastOf(w, v, shape)
    <3> HIDE DEF e2, m2, p2, f2, t2, v
    <3>1. IsVal(w, v.isBool, shape, e2, m2, p2, f2, v.carried, t2)
      BY <1>2, UpdatedForm
    <3> HIDE DEF w
    <3> QED BY <3>1 DEF BroadcastOf, e2, m2, p2, f2, t2
  <2> HIDE DEF w, v
  <2>4. Right(w)
    BY <1>1, <2>2, <2>3, BroadcastRight DEF v
  <2> QED BY <2>1, <2>4, ReplaceKeeps
<1>5. ASSUME NEW step \in Steps, NEW nested \in BOOLEAN, LoopIterArg(step, nested) PROVE OperandsRight'
  <2> DEFINE unknown == nested \/ v.carried
             offset == Value(v.p.dims[1].offset.val + step)
             e2 == [x \in DOMAIN v.elem |-> v.elem[x] + step]
             m2 == parseLoopIterArg(v.m, offset, unknown)
             p2 == [v.p EXCEPT !.dims[1].offset = offset, !.scalar = Absent]
             f2 == IF v.form = "range" /\ ~unknown THEN v.form ELSE "other"
             t2 == v.patterns \cup If(CarriedColumn(v), "carried column")
                              \cup If(CarriedUniform(v), "carried uniform")
             w == [v EXCEPT !.elem = e2, !.m = m2, !.p = p2, !.form = f2, !.carried = TRUE, !.patterns = t2]
  <2>1. ~v.isBool /\ Ok(v.p) /\ Replace(w)
    BY <1>5 DEF LoopIterArg
  <2>2. step \in Int /\ unknown \in BOOLEAN
    BY InputsAssumption
  <2>3. LoopOf(w, v, step, unknown)
    <3> HIDE DEF e2, m2, p2, f2, t2, v, unknown
    <3>1. IsVal(w, v.isBool, v.shape, e2, m2, p2, f2, TRUE, t2)
      BY <1>2, UpdatedCarried
    <3> HIDE DEF w
    <3> QED BY <3>1 DEF LoopOf, e2, m2, p2, f2, t2
  <2> HIDE DEF w, v, unknown
  <2>4. Right(w)
    BY <1>1, <2>1, <2>2, <2>3, LoopRight DEF v
  <2> QED BY <2>1, <2>4, ReplaceKeeps
<1> QED BY <1>3, <1>4, <1>5 DEF Unary

(* What the operations with two operands push. *)
LEMMA BinaryKeeps ==
  ASSUME OperandsRight, Len(operands) >= 2, NEW isBool, NEW a, NEW b, NEW elem, NEW st, NEW ptr, NEW form, NEW new,
         Binary(isBool, a, b, elem, st, ptr, form, new), Right(a), Right(b), a.shape = b.shape,
         \A w : BinaryOf(w, isBool, a, b, elem, st, ptr, form, new) => Right(w)
  PROVE  OperandsRight'
<1> DEFINE c == a.carried \/ b.carried
           t == a.patterns \cup b.patterns \cup new
           w == [Result(isBool, a.shape, elem, st, ptr, form) EXCEPT !.carried = c, !.patterns = t]
<1>1. Combine(w)
  BY DEF Binary
<1>2. IsVal(w, isBool, a.shape, elem, st, ptr, form, c, t)
  <2> HIDE DEF c, t
  <2> QED BY CreatedIs
<1>3. BinaryOf(w, isBool, a, b, elem, st, ptr, form, new)
  <2> HIDE DEF w
  <2> QED BY <1>2 DEF BinaryOf
<1> HIDE DEF w, c, t
<1> QED BY <1>1, <1>3, CombineKeeps

LEMMA CombiningKeeps == OperandsRight /\ Combining => OperandsRight'
<1> SUFFICES ASSUME OperandsRight, Combining PROVE OperandsRight'
  OBVIOUS
<1>1. PICK i \in {Len(operands), Len(operands) - 1} :
        LET a == operands[i] b == operands[2 * Len(operands) - 1 - i] IN
          /\ a.shape = b.shape
          /\ \/ AddI(a, b) \/ AndI(a, b) \/ AndIntegers(a, b)
             \/ \E pred \in Predicates : CmpI(a, b, pred)
  BY DEF Combining
<1>2. Len(operands) >= 2 /\ Len(operands) \in Nat
  BY AllRightFacts DEF Combining, OperandsRight
<1> DEFINE j == 2 * Len(operands) - 1 - i
           a == operands[i]
           b == operands[j]
<1>3. Right(a) /\ Right(b)
  <2>1. i \in 1 .. Len(operands) /\ j \in 1 .. Len(operands)
    BY <1>2
  <2> HIDE DEF j
  <2> QED BY <2>1, AllRightFacts DEF OperandsRight
<1>4. /\ a.shape = b.shape
      /\ AddI(a, b) \/ AndI(a, b) \/ AndIntegers(a, b) \/ \E pred \in Predicates : CmpI(a, b, pred)
  BY <1>1
<1> HIDE DEF a, b
<1>5. CASE AddI(a, b)
  <2> DEFINE e == [x \in DOMAIN a.elem |-> a.elem[x] + b.elem[x]]
             m == parseAdd(a.m, b.m)
             p == PtrSum(a, b)
             f == IF {a.form, b.form} = {"range", "uniform"} THEN "range" ELSE "other"
             none == {}
  <2>1. ~a.isBool /\ ~b.isBool /\ Binary(FALSE, a, b, e, m, p, f, none)
    BY <1>5 DEF AddI
  <2>2. ASSUME NEW w, BinaryOf(w, FALSE, a, b, e, m, p, f, none) PROVE Right(w)
    <3>1. AddOf(w, a, b)
      BY <2>2 DEF AddOf
    <3> QED BY <2>1, <3>1, AddRight
  <2> HIDE DEF e, m, p, f, none
  <2> QED BY <1>2, <1>3, <1>4, <2>1, <2>2, BinaryKeeps
<1>6. CASE AndI(a, b)
  <2> DEFINE e == [x \in DOMAIN a.elem |-> a.elem[x] /\ b.elem[x]]
             m == parseAnd(a.m, b.m)
             f == IF {a.form, b.form} = {"mask"} THEN "mask" ELSE "other"
             none == {}
  <2>1. a.isBool /\ b.isBool /\ Binary(TRUE, a, b, e, m, Failure, f, none)
    BY <1>6 DEF AndI
  <2>2. ASSUME NEW w, BinaryOf(w, TRUE, a, b, e, m, Failure, f, none) PROVE Right(w)
    <3>1. AndOf(w, a, b)
      BY <2>2 DEF AndOf
    <3> QED BY <2>1, <3>1, AndRight
  <2> HIDE DEF e, m, f, none
  <2> QED BY <1>2, <1>3, <1>4, <2>1, <2>2, BinaryKeeps
<1>7. CASE AndIntegers(a, b)
  <2> DEFINE e == [x \in DOMAIN a.elem |-> a.elem[x] * b.elem[x]]
             m == parseAnd(a.m, b.m)
             new == {"and of integers"}
  <2>1. /\ ~a.isBool /\ ~b.isBool /\ Binary(FALSE, a, b, e, m, Failure, "other", new)
        /\ \A x \in DOMAIN a.elem : a.elem[x] \in {0, 1} /\ b.elem[x] \in {0, 1}
    BY <1>7 DEF AndIntegers
  <2>2. ASSUME NEW w, BinaryOf(w, FALSE, a, b, e, m, Failure, "other", new) PROVE Right(w)
    <3>1. AndIntegersOf(w, a, b)
      BY <2>2 DEF AndIntegersOf
    <3> HIDE DEF e, m, new
    <3> QED BY <2>1, <3>1, AndIntegersRight
  <2> HIDE DEF e, m, new
  <2> QED BY <1>2, <1>3, <1>4, <2>1, <2>2, BinaryKeeps
<1>8. ASSUME NEW pred \in Predicates, CmpI(a, b, pred) PROVE OperandsRight'
  <2> DEFINE e == [x \in DOMAIN a.elem |-> Holds(pred, a.elem[x], b.elem[x])]
             m == parseCmp(a.m, b.m, pred)
             f == IF Plain(a, b, pred) THEN "mask" ELSE "other"
             new == If(BelowZero(a, b, pred), "below zero") \cup If(RangeOnTheRight(b), "range on the right")
  <2>1. ~a.isBool /\ ~b.isBool /\ Binary(TRUE, a, b, e, m, Failure, f, new)
    BY <1>8 DEF CmpI
  <2>2. ASSUME NEW w, BinaryOf(w, TRUE, a, b, e, m, Failure, f, new) PROVE Right(w)
    <3>1. CmpOf(w, a, b, pred)
      BY <2>2 DEF CmpOf
    <3> HIDE DEF e, m, f, new
    <3> QED BY <2>1, <3>1, CmpRight
  <2> HIDE DEF e, m, f, new
  <2> QED BY <1>2, <1>3, <1>4, <2>1, <2>2, BinaryKeeps
<1> QED BY <1>4, <1>5, <1>6, <1>7, <1>8

LEMMA OperandsRightInitially == Init => OperandsRight
<1> SUFFICES ASSUME Init PROVE OperandsRight
  OBVIOUS
<1>1. operands = <<>>
  BY DEF Init
<1> QED BY <1>1 DEF OperandsRight, AllRight

(* Every value not used yet, of whatever ranges, uniform tensors, loops    *)
(* and comparisons it was made, is decoded as its patterns allow.          *)
THEOREM OperandsRightHolds == Spec => []OperandsRight
<1>1. OperandsRight /\ [Next]_operands => OperandsRight'
  <2>1. OperandsRight /\ Next => OperandsRight'
    BY LeafKeeps, UnaryKeeps, CombiningKeeps DEF Next
  <2>2. OperandsRight /\ UNCHANGED operands => OperandsRight'
    BY Zenon DEF OperandsRight
  <2> QED BY <2>1, <2>2
<1> QED BY <1>1, OperandsRightInitially, PTL DEF Spec

LEMMA RightSelects ==
  ASSUME NEW v, Right(v)
  PROVE  /\ v.isBool /\ Parsed(v.m) /\ v.patterns = {}
              => \A x \in Elements(v.shape) : Selects(v.m, x) <=> v.elem[x]
         /\ v.isBool /\ Parsed(v.m) /\ v.patterns \cap {"carried uniform", "and of integers"} = {}
              => \A d \in DOMAIN v.shape : v.m.dims[d].val \in 0 .. v.shape[d]
         /\ v.form # "other" => Parsed(v.m)
<1>1. /\ v.patterns \cap {"carried uniform", "and of integers"} = {} => Within(v.isBool, v.m, v.shape)
      /\ v.patterns = {} => Exact(v.isBool, v.m, v.shape, v.elem)
      /\ v.form # "other" => Parsed(v.m)
  BY DEF Right, StateRight, FormRight
<1> QED BY <1>1 DEF Exact, Within

(* A mask's box is the set of elements the mask is true for, and within    *)
(* its tile, for every shape, range, limit and loop step.                  *)
THEOREM BoxExactHolds == Spec => []BoxExact
<1>1. OperandsRight => BoxExact
  <2> SUFFICES ASSUME OperandsRight PROVE BoxExact
    OBVIOUS
  <2>1. \A i \in DOMAIN operands : Right(operands[i])
    BY DEF OperandsRight, AllRight
  <2>2. SelectsExactly
    BY <2>1, RightSelects DEF SelectsExactly
  <2>3. BoxInTile
    BY <2>1, RightSelects DEF BoxInTile
  <2> QED BY <2>2, <2>3 DEF BoxExact
<1> QED BY <1>1, OperandsRightHolds, PTL

(* A mask made in the general lifetime is decoded.                         *)
THEOREM PlainDecodedHolds == Spec => []PlainDecoded
<1>1. OperandsRight => PlainDecoded
  <2> SUFFICES ASSUME OperandsRight PROVE PlainDecoded
    OBVIOUS
  <2>1. \A i \in DOMAIN operands : Right(operands[i])
    BY DEF OperandsRight, AllRight
  <2> QED BY <2>1, RightSelects DEF PlainDecoded
<1> QED BY <1>1, OperandsRightHolds, PTL

(* No kernel without the three patterns stops the compiler, and what is    *)
(* decoded has the rank of its tensor.                                     *)
THEOREM AssertsHoldHolds == Spec => []AssertsHold
<1>1. OperandsRight => AssertsHold
  <2> SUFFICES ASSUME OperandsRight PROVE AssertsHold
    OBVIOUS
  <2>1. Len(operands) <= 3 /\ \A i \in DOMAIN operands : Right(operands[i])
    BY DEF OperandsRight, AllRight
  <2>2. ASSUME NEW i \in DOMAIN operands
        PROVE  LET v == operands[i] IN
                 /\ v.form \in {"range", "uniform", "mask", "other"} /\ v.patterns \subseteq KnownPatterns
                 /\ DOMAIN v.elem = Elements(v.shape)
                 /\ v.m.outcome \in {"ok", "failed", "crash"}
                 /\ Parsed(v.m) /\ "and of integers" \notin v.patterns
                      => Len(v.m.dims) = Len(v.shape) /\ (v.isBool => isMask(v.m))
                 /\ ~v.isBool /\ Ok(v.p) => Rank(v.p) = Len(v.shape)
    <3> DEFINE v == operands[i]
    <3>1. Right(v)
      BY <2>1
    <3> HIDE DEF v
    <3>2. Typed(v) /\ StateRight(v)
      BY <3>1 DEF Right
    <3>3. v.shape \in TensorShapes /\ v.isBool \in BOOLEAN
      BY <3>2 DEF Typed
    <3>4. /\ v.form \in {"range", "uniform", "mask", "other"} /\ v.patterns \subseteq KnownPatterns
          /\ DOMAIN v.elem = Elements(v.shape) /\ v.m.outcome \in {"ok", "failed", "crash"}
      BY <3>2 DEF Typed, Forms, Formed
    <3>5. ASSUME Parsed(v.m), "and of integers" \notin v.patterns
          PROVE  Len(v.m.dims) = Len(v.shape) /\ (v.isBool => isMask(v.m))
      <4>1. Shaped(v.isBool, v.m, v.shape)
        BY <3>2, <3>5 DEF StateRight
      <4>2. v.m.dims # <<>>
        BY <3>3, <3>5, <4>1, ShapedBasics
      <4> QED BY <3>5, <4>1, <4>2 DEF Shaped, isMask
    <3>6. ~v.isBool /\ Ok(v.p) => Rank(v.p) = Len(v.shape)
      BY <3>1 DEF Right, PtrRight, Rank
    <3> QED BY <3>4, <3>5, <3>6 DEF v
  <2>3. TypeOK
    BY <2>1, <2>2 DEF TypeOK
  <2>4. \A i \in DOMAIN operands :
          operands[i].m.outcome = "crash"
            => operands[i].patterns \cap {"and of integers", "range on the right", "carried uniform"} # {}
    BY <2>1 DEF Right, StateRight
  <2> QED BY <2>3, <2>4 DEF AssertsHold
<1> QED BY <1>1, OperandsRightHolds, PTL
=============================================================================
