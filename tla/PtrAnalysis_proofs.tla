------------------------ MODULE PtrAnalysis_proofs -------------------------
(***************************************************************************)
(* What the structured pointer analysis decodes, for every kernel: every   *)
(* shape of one or two dimensions, every operation tree.                   *)
(*                                                                         *)
(* The inductive invariant OperandsRight says of every value not used yet  *)
(* that it is Right: Pair, what holds of the forms of its two states       *)
(* whatever the kernel; Safe, that the second one stops at no assert       *)
(* unless factors cancel; Simple, that the first one is structured if the  *)
(* value is affine; and Exactly, that the states decode the value unless   *)
(* one of the other patterns was met.  Exactly has to say more of the      *)
(* states than the properties do.  The first mode's state, if              *)
(* unstructured, decodes to nothing (the offset of its unstructured        *)
(* dimension is a mark), yet what rewriteAddptrOp emits is that state with *)
(* one dimension of the second mode's: so the two must have the same       *)
(* unstructured dimension and the same terms in the others (Same), and     *)
(* that through each operation.  Nor can the second state be the first one *)
(* where that is structured: it says the same in other numbers.            *)
(*                                                                         *)
(* The lemmas go up from numbers to dimensions, to states, to the pair of  *)
(* states of a value, to values, and to the stack of them.                 *)
(***************************************************************************)
EXTENDS PtrAnalysis, FiniteSetTheorems, SequenceTheorems, TLAPS

-----------------------------------------------------------------------------
(* Numbers, known or not; an offset is one or, of an unstructured          *)
(* dimension of n elements, n of them.                                     *)

Numbers == [kind : {"attr", "value"}, val : Int] \cup [kind : {"constant"}, val : Int \ {0}]

Lines(n) == [kind : {"tensor"}, val : [0 .. n - 1 -> Int]]

Offsets(n) == Numbers \cup Lines(n)

LEMMA NumberFacts ==
  /\ \A a \in Numbers : /\ ~IsTensor(a) /\ Present(a) /\ a.val \in Int /\ (HasConstZero(a) <=> a = Attr(0))
                        /\ \A i : At(a, i) = a.val
  /\ \A k \in Int : Attr(k) \in Numbers /\ Value(k) \in Numbers /\ Attr(k).val = k /\ Value(k).val = k
                    /\ IsAttr(Attr(k)) /\ ~IsConst(Value(k)) /\ ~IsAttr(Value(k))
                    /\ (k # 0 => Const(k) \in Numbers) /\ Const(k).val = k
                    /\ ~IsTensor(Attr(k)) /\ ~IsTensor(Value(k)) /\ (HasConstZero(Attr(k)) <=> k = 0)
                    /\ ~HasConstZero(Value(k))
<1>1. ASSUME NEW a \in Numbers
      PROVE  ~IsTensor(a) /\ Present(a) /\ a.val \in Int /\ (HasConstZero(a) <=> a = Attr(0))
  BY DEF Numbers, IsTensor, Present, HasConstZero, IsConst, Attr
<1>2. ASSUME NEW a \in Numbers, NEW i PROVE At(a, i) = a.val
  BY <1>1 DEF At
<1>3. ASSUME NEW k \in Int
      PROVE  /\ Attr(k) \in Numbers /\ Value(k) \in Numbers /\ Attr(k).val = k /\ Value(k).val = k
             /\ IsAttr(Attr(k)) /\ ~IsConst(Value(k)) /\ ~IsAttr(Value(k))
             /\ (k # 0 => Const(k) \in Numbers) /\ Const(k).val = k
             /\ ~IsTensor(Attr(k)) /\ ~IsTensor(Value(k)) /\ (HasConstZero(Attr(k)) <=> k = 0)
             /\ ~HasConstZero(Value(k))
  BY DEF Attr, Value, Const, Numbers, IsAttr, IsConst, IsTensor, HasConstZero
<1> QED BY <1>1, <1>2, <1>3

LEMMA LineFacts ==
  ASSUME NEW n
  PROVE  /\ \A a \in Lines(n) :
              /\ IsTensor(a) /\ ~IsAttr(a) /\ ~IsConst(a) /\ ~HasConstZero(a) /\ Present(a)
              /\ a.val \in [0 .. n - 1 -> Int] /\ DOMAIN a.val = 0 .. n - 1
              /\ \A i \in 0 .. n - 1 : At(a, i) = a.val[i] /\ At(a, i) \in Int
         /\ \A f \in [0 .. n - 1 -> Int] : Tensor(f) \in Lines(n) /\ Tensor(f).val = f
<1>1. ASSUME NEW a \in Lines(n)
      PROVE  /\ IsTensor(a) /\ ~IsAttr(a) /\ ~IsConst(a) /\ ~HasConstZero(a) /\ Present(a)
             /\ a.val \in [0 .. n - 1 -> Int]
  BY DEF Lines, IsTensor, IsAttr, IsConst, HasConstZero, Present
<1>2. ASSUME NEW a \in Lines(n), NEW i \in 0 .. n - 1 PROVE At(a, i) = a.val[i] /\ At(a, i) \in Int
  BY <1>1 DEF At
<1>3. ASSUME NEW f \in [0 .. n - 1 -> Int] PROVE Tensor(f) \in Lines(n) /\ Tensor(f).val = f
  BY DEF Tensor, Lines
<1> QED BY <1>1, <1>2, <1>3

LEMMA OffsetFacts ==
  ASSUME NEW n, NEW a \in Offsets(n)
  PROVE  /\ IsTensor(a) <=> a \in Lines(n)
         /\ ~IsTensor(a) <=> a \in Numbers
         /\ Present(a) /\ \A i \in 0 .. n - 1 : At(a, i) \in Int
<1>1. CASE a \in Numbers
  BY <1>1, NumberFacts, LineFacts
<1>2. CASE a \in Lines(n)
  BY <1>2, NumberFacts, LineFacts
<1> QED BY <1>1, <1>2 DEF Offsets

(* What is emitted is added, subtracted or multiplied element by element.  *)
LEMMA Emitted ==
  ASSUME NEW n, NEW a \in Offsets(n), NEW b \in Offsets(n)
  PROVE  /\ IsTensor(a) \/ IsTensor(b) =>
              /\ Emit(Plus, a, b) = Tensor([i \in 0 .. n - 1 |-> At(a, i) + At(b, i)])
              /\ Emit(Minus, a, b) = Tensor([i \in 0 .. n - 1 |-> At(a, i) - At(b, i)])
              /\ Emit(Times, a, b) = Tensor([i \in 0 .. n - 1 |-> At(a, i) * At(b, i)])
         /\ ~IsTensor(a) /\ ~IsTensor(b) =>
              /\ Emit(Plus, a, b) = Value(a.val + b.val)
              /\ Emit(Minus, a, b) = Value(a.val - b.val)
              /\ Emit(Times, a, b) = Value(a.val * b.val)
<1>1. CASE IsTensor(a) \/ IsTensor(b)
  <2>1. DOMAIN (IF IsTensor(a) THEN a ELSE b).val = 0 .. n - 1
    BY <1>1, OffsetFacts, LineFacts
  <2> QED BY <1>1, <2>1, Zenon DEF Emit, Plus, Minus, Times
<1>2. CASE ~IsTensor(a) /\ ~IsTensor(b)
  BY <1>2, Zenon DEF Emit, Plus, Minus, Times
<1> QED BY <1>1, <1>2

LEMMA EmittedType ==
  ASSUME NEW n, NEW a \in Offsets(n), NEW b \in Offsets(n)
  PROVE  /\ Emit(Plus, a, b) \in Offsets(n) /\ Emit(Minus, a, b) \in Offsets(n) /\ Emit(Times, a, b) \in Offsets(n)
         /\ \A i \in 0 .. n - 1 : /\ At(Emit(Plus, a, b), i) = At(a, i) + At(b, i)
                                  /\ At(Emit(Minus, a, b), i) = At(a, i) - At(b, i)
                                  /\ At(Emit(Times, a, b), i) = At(a, i) * At(b, i)
         /\ IsTensor(Emit(Plus, a, b)) <=> IsTensor(a) \/ IsTensor(b)
         /\ IsTensor(Emit(Minus, a, b)) <=> IsTensor(a) \/ IsTensor(b)
         /\ IsTensor(Emit(Times, a, b)) <=> IsTensor(a) \/ IsTensor(b)
<1>1. CASE IsTensor(a) \/ IsTensor(b)
  <2> DEFINE p == [i \in 0 .. n - 1 |-> At(a, i) + At(b, i)]
             m == [i \in 0 .. n - 1 |-> At(a, i) - At(b, i)]
             t == [i \in 0 .. n - 1 |-> At(a, i) * At(b, i)]
  <2>1. \A i \in 0 .. n - 1 : At(a, i) \in Int /\ At(b, i) \in Int
    BY OffsetFacts
  <2>2. p \in [0 .. n - 1 -> Int] /\ m \in [0 .. n - 1 -> Int] /\ t \in [0 .. n - 1 -> Int]
    BY <2>1
  <2>3. Emit(Plus, a, b) = Tensor(p) /\ Emit(Minus, a, b) = Tensor(m) /\ Emit(Times, a, b) = Tensor(t)
    <3>1. Emit(Plus, a, b) = Tensor(p)
      BY Zenon, <1>1, Emitted
    <3>2. Emit(Minus, a, b) = Tensor(m)
      BY Zenon, <1>1, Emitted
    <3>3. Emit(Times, a, b) = Tensor(t)
      BY Zenon, <1>1, Emitted
    <3> QED BY Zenon, <3>1, <3>2, <3>3
  <2>4. \A i \in 0 .. n - 1 : /\ p[i] = At(a, i) + At(b, i) /\ m[i] = At(a, i) - At(b, i)
                              /\ t[i] = At(a, i) * At(b, i)
    OBVIOUS
  <2> HIDE DEF p, m, t
  <2>5. \A f \in [0 .. n - 1 -> Int] : /\ Tensor(f) \in Lines(n) /\ IsTensor(Tensor(f))
                                       /\ \A i \in 0 .. n - 1 : At(Tensor(f), i) = f[i]
    <3> SUFFICES ASSUME NEW f \in [0 .. n - 1 -> Int]
                 PROVE  /\ Tensor(f) \in Lines(n) /\ IsTensor(Tensor(f))
                        /\ \A i \in 0 .. n - 1 : At(Tensor(f), i) = f[i]
      OBVIOUS
    <3>1. Tensor(f) \in Lines(n) /\ Tensor(f).val = f
      BY LineFacts
    <3> DEFINE g == Tensor(f)
    <3>2. g \in Lines(n) /\ g.val = f
      BY <3>1
    <3> HIDE DEF g
    <3>3. IsTensor(g) /\ \A i \in 0 .. n - 1 : At(g, i) = f[i]
      BY <3>2, LineFacts
    <3> QED BY <3>1, <3>3 DEF g
  <2>6. /\ Tensor(p) \in Lines(n) /\ Tensor(m) \in Lines(n) /\ Tensor(t) \in Lines(n)
        /\ IsTensor(Tensor(p)) /\ IsTensor(Tensor(m)) /\ IsTensor(Tensor(t))
        /\ \A i \in 0 .. n - 1 : /\ At(Tensor(p), i) = p[i] /\ At(Tensor(m), i) = m[i]
                                  /\ At(Tensor(t), i) = t[i]
    BY <2>2, <2>5
  <2> QED BY <1>1, <2>3, <2>4, <2>6, Zenon DEF Offsets
<1>2. CASE ~IsTensor(a) /\ ~IsTensor(b)
  <2>1. a \in Numbers /\ b \in Numbers /\ a.val \in Int /\ b.val \in Int
    BY <1>2, OffsetFacts, NumberFacts
  <2> DEFINE p == a.val + b.val
             m == a.val - b.val
             t == a.val * b.val
  <2>2. p \in Int /\ m \in Int /\ t \in Int
    BY <2>1
  <2>3. Emit(Plus, a, b) = Value(p) /\ Emit(Minus, a, b) = Value(m) /\ Emit(Times, a, b) = Value(t)
    BY <1>2, Emitted
  <2>4. \A i : At(a, i) = a.val /\ At(b, i) = b.val
    BY <2>1, NumberFacts
  <2>5. \A k \in Int : Value(k) \in Numbers /\ ~IsTensor(Value(k)) /\ \A i : At(Value(k), i) = k
    BY NumberFacts
  <2> QED BY <1>2, <2>2, <2>3, <2>4, <2>5 DEF Offsets
<1> QED BY <1>1, <1>2

LEMMA AddIs ==
  ASSUME NEW n, NEW a \in Offsets(n), NEW b \in Offsets(n)
  PROVE  /\ AddOFRs(a, b) \in Offsets(n)
         /\ IsTensor(AddOFRs(a, b)) <=> IsTensor(a) \/ IsTensor(b)
         /\ \A i \in 0 .. n - 1 : At(AddOFRs(a, b), i) = At(a, i) + At(b, i)
<1> DEFINE c == AddOFRs(a, b)
<1>a. \A i \in 0 .. n - 1 : At(a, i) \in Int /\ At(b, i) \in Int
  BY OffsetFacts
<1>b. /\ IsAttr(a) => a \in Numbers
      /\ IsAttr(b) => b \in Numbers
  BY OffsetFacts, LineFacts
<1>c. \A x \in Numbers : ~IsTensor(x) /\ x.val \in Int /\ \A i : At(x, i) = x.val
  BY NumberFacts
<1>1. CASE IsAttr(a) /\ IsAttr(b)
  <2>1. c = Attr(a.val + b.val)
    BY <1>1, Zenon DEF AddOFRs
  <2>2. a \in Numbers /\ b \in Numbers /\ a.val + b.val \in Int
    BY <1>1, <1>b, <1>c
  <2>3. c \in Numbers /\ c.val = a.val + b.val
    BY <2>1, <2>2, NumberFacts
  <2> HIDE DEF c
  <2> QED BY <2>2, <2>3, <1>c DEF Offsets, c
<1>2. CASE ~IsAttr(a) /\ IsAttr(b) /\ b.val = 0
  <2>1. c = a
    BY <1>2, Zenon DEF AddOFRs
  <2>2. b \in Numbers
    BY <1>2, <1>b
  <2> QED BY <1>2, <2>1, <2>2, <1>a, <1>c
<1>3. CASE ~IsAttr(b) /\ IsAttr(a) /\ a.val = 0
  <2>1. c = b
    BY <1>3, Zenon DEF AddOFRs
  <2>2. a \in Numbers
    BY <1>3, <1>b
  <2> QED BY <1>3, <2>1, <2>2, <1>a, <1>c
<1>4. CASE /\ ~(IsAttr(a) /\ IsAttr(b))
           /\ ~(~IsAttr(a) /\ IsAttr(b) /\ b.val = 0)
           /\ ~(~IsAttr(b) /\ IsAttr(a) /\ a.val = 0)
  <2>1. c = Emit(Plus, a, b)
    BY <1>4, Zenon DEF AddOFRs
  <2> QED BY <2>1, EmittedType
<1> QED BY <1>1, <1>2, <1>3, <1>4

LEMMA SubIs ==
  ASSUME NEW n, NEW a \in Offsets(n), NEW b \in Offsets(n)
  PROVE  /\ SubOFRs(a, b) \in Offsets(n)
         /\ IsTensor(SubOFRs(a, b)) <=> IsTensor(a) \/ IsTensor(b)
         /\ \A i \in 0 .. n - 1 : At(SubOFRs(a, b), i) = At(a, i) - At(b, i)
<1> DEFINE c == SubOFRs(a, b)
<1>a. \A i \in 0 .. n - 1 : At(a, i) \in Int /\ At(b, i) \in Int
  BY OffsetFacts
<1>b. /\ IsAttr(a) => a \in Numbers
      /\ IsAttr(b) => b \in Numbers
  BY OffsetFacts, LineFacts
<1>c. \A x \in Numbers : ~IsTensor(x) /\ x.val \in Int /\ \A i : At(x, i) = x.val
  BY NumberFacts
<1>1. CASE IsAttr(a) /\ IsAttr(b)
  <2>1. c = Attr(a.val - b.val)
    BY <1>1, Zenon DEF SubOFRs
  <2>2. a \in Numbers /\ b \in Numbers /\ a.val - b.val \in Int
    BY <1>1, <1>b, <1>c
  <2>3. c \in Numbers /\ c.val = a.val - b.val
    BY <2>1, <2>2, NumberFacts
  <2> HIDE DEF c
  <2> QED BY <2>2, <2>3, <1>c DEF Offsets, c
<1>2. CASE ~IsAttr(a) /\ IsAttr(b) /\ b.val = 0
  <2>1. c = a
    BY <1>2, Zenon DEF SubOFRs
  <2>2. b \in Numbers
    BY <1>2, <1>b
  <2> QED BY <1>2, <2>1, <2>2, <1>a, <1>c
<1>3. CASE ~(IsAttr(a) /\ IsAttr(b)) /\ ~(~IsAttr(a) /\ IsAttr(b) /\ b.val = 0)
  <2>1. c = Emit(Minus, a, b)
    BY <1>3, Zenon DEF SubOFRs
  <2> QED BY <2>1, EmittedType
<1> QED BY <1>1, <1>2, <1>3

LEMMA MulIs ==
  ASSUME NEW n, NEW a \in Offsets(n), NEW b \in Offsets(n)
  PROVE  /\ MulOFRs(a, b) \in Offsets(n)
         /\ ~HasConstZero(a) /\ ~HasConstZero(b) => (IsTensor(MulOFRs(a, b)) <=> IsTensor(a) \/ IsTensor(b))
         /\ ~IsTensor(a) /\ ~IsTensor(b) => ~IsTensor(MulOFRs(a, b))
         /\ \A i \in 0 .. n - 1 : At(MulOFRs(a, b), i) = At(a, i) * At(b, i)
<1> DEFINE c == MulOFRs(a, b)
<1>a. \A i \in 0 .. n - 1 : At(a, i) \in Int /\ At(b, i) \in Int
  BY OffsetFacts
<1>b. /\ IsConst(a) => a \in Numbers
      /\ IsConst(b) => b \in Numbers
  BY OffsetFacts, LineFacts
<1>c. \A x \in Numbers : ~IsTensor(x) /\ x.val \in Int /\ \A i : At(x, i) = x.val
  BY NumberFacts
<1>1. CASE IsConst(a) /\ a.val = 0
  <2>1. c = a /\ HasConstZero(a)
    BY <1>1, Zenon DEF MulOFRs, HasConstZero
  <2> QED BY <1>1, <2>1, <1>a, <1>b, <1>c
<1>2. CASE ~(IsConst(a) /\ a.val = 0) /\ IsConst(a) /\ a.val = 1
  <2>1. c = b
    BY <1>2, Zenon DEF MulOFRs
  <2> QED BY <1>2, <2>1, <1>a, <1>b, <1>c
<1>3. CASE ~(IsConst(a) /\ a.val = 0) /\ ~(IsConst(a) /\ a.val = 1) /\ IsConst(b) /\ b.val = 0
  <2>1. c = b /\ HasConstZero(b)
    BY <1>3, Zenon DEF MulOFRs, HasConstZero
  <2> QED BY <1>3, <2>1, <1>a, <1>b, <1>c
<1>4. CASE /\ ~(IsConst(a) /\ a.val = 0) /\ ~(IsConst(a) /\ a.val = 1)
           /\ ~(IsConst(b) /\ b.val = 0) /\ IsConst(b) /\ b.val = 1
  <2>1. c = a
    BY <1>4, Zenon DEF MulOFRs
  <2> QED BY <1>4, <2>1, <1>a, <1>b, <1>c
<1>5. CASE /\ ~(IsConst(a) /\ a.val = 0) /\ ~(IsConst(a) /\ a.val = 1)
           /\ ~(IsConst(b) /\ b.val = 0) /\ ~(IsConst(b) /\ b.val = 1)
           /\ IsConst(a) /\ IsConst(b)
  <2>1. c = Attr(a.val * b.val)
    BY <1>5, Zenon DEF MulOFRs
  <2>2. a \in Numbers /\ b \in Numbers /\ a.val * b.val \in Int
    BY <1>5, <1>b, <1>c
  <2>3. c \in Numbers /\ c.val = a.val * b.val
    BY <2>1, <2>2, NumberFacts
  <2> HIDE DEF c
  <2> QED BY <2>2, <2>3, <1>c DEF Offsets, c
<1>6. CASE /\ ~(IsConst(a) /\ a.val = 0) /\ ~(IsConst(a) /\ a.val = 1)
           /\ ~(IsConst(b) /\ b.val = 0) /\ ~(IsConst(b) /\ b.val = 1)
           /\ ~(IsConst(a) /\ IsConst(b))
  <2>1. c = Emit(Times, a, b)
    BY <1>6, Zenon DEF MulOFRs
  <2> QED BY <2>1, EmittedType
<1> QED BY <1>1, <1>2, <1>3, <1>4, <1>5, <1>6

-----------------------------------------------------------------------------
(* A dimension of n elements.  One element has no stride.                  *)

DimOf(offset, n, stride, shape) == [offset |-> offset, size |-> n, stride |-> stride, shape |-> shape]

OfSize(dim, n) ==
  /\ dim = DimOf(dim.offset, n, dim.stride, dim.shape)
  /\ dim.offset \in Offsets(n) /\ dim.stride \in Numbers /\ dim.shape \in Numbers
  /\ n = 1 => ~IsTensor(dim.offset) /\ dim.stride.val = 0

LEMMA DimIs ==
  \A o, n, s, m :
    /\ DimOf(o, n, s, m).offset = o /\ DimOf(o, n, s, m).size = n
    /\ DimOf(o, n, s, m).stride = s /\ DimOf(o, n, s, m).shape = m
    /\ Dim(o, n, s) = DimOf(o, n, s, Attr(0))
    /\ \A k : /\ [DimOf(o, n, s, m) EXCEPT !.shape = k] = DimOf(o, n, s, k)
              /\ [DimOf(o, n, s, m) EXCEPT !.size = k] = DimOf(o, k, s, m)
    /\ o \in Offsets(n) /\ s \in Numbers /\ m \in Numbers /\ (n = 1 => ~IsTensor(o) /\ s.val = 0)
         => OfSize(DimOf(o, n, s, m), n)
<1> SUFFICES ASSUME NEW o, NEW n, NEW s, NEW m
             PROVE  /\ DimOf(o, n, s, m).offset = o /\ DimOf(o, n, s, m).size = n
                    /\ DimOf(o, n, s, m).stride = s /\ DimOf(o, n, s, m).shape = m
                    /\ Dim(o, n, s) = DimOf(o, n, s, Attr(0))
                    /\ \A k : /\ [DimOf(o, n, s, m) EXCEPT !.shape = k] = DimOf(o, n, s, k)
                              /\ [DimOf(o, n, s, m) EXCEPT !.size = k] = DimOf(o, k, s, m)
                    /\ o \in Offsets(n) /\ s \in Numbers /\ m \in Numbers /\ (n = 1 => ~IsTensor(o) /\ s.val = 0)
                         => OfSize(DimOf(o, n, s, m), n)
  OBVIOUS
<1> DEFINE dim == DimOf(o, n, s, m)
<1>1. dim.offset = o /\ dim.size = n /\ dim.stride = s /\ dim.shape = m
  BY DEF DimOf
<1>2. Dim(o, n, s) = DimOf(o, n, s, Attr(0))
  BY DEF DimOf, Dim
<1>3. \A k : [dim EXCEPT !.shape = k] = DimOf(o, n, s, k) /\ [dim EXCEPT !.size = k] = DimOf(o, k, s, m)
  BY DEF DimOf
<1>4. dim = DimOf(dim.offset, n, dim.stride, dim.shape)
  BY <1>1
<1> HIDE DEF dim
<1>5. o \in Offsets(n) /\ s \in Numbers /\ m \in Numbers /\ (n = 1 => ~IsTensor(o) /\ s.val = 0)
        => OfSize(dim, n)
  BY <1>1, <1>4 DEF OfSize
<1> QED BY <1>1, <1>2, <1>3, <1>5 DEF dim

LEMMA DimFacts ==
  ASSUME NEW n, NEW dim, OfSize(dim, n)
  PROVE  /\ dim.offset \in Offsets(n) /\ dim.stride \in Numbers /\ dim.shape \in Numbers
         /\ dim.size = n /\ dim.stride.val \in Int /\ dim.shape.val \in Int
         /\ \A i \in 0 .. n - 1 : At(dim.offset, i) \in Int
         /\ IsTensor(dim.offset) <=> dim.offset \in Lines(n)
         /\ ~IsTensor(dim.offset) => dim.offset \in Numbers /\ dim.offset.val \in Int
         /\ ~DimHasModulo(dim) <=> dim.shape = Attr(0)
         /\ ~DimHasModulo(dim) => dim.shape.val = 0
<1>1. dim = DimOf(dim.offset, n, dim.stride, dim.shape)
  BY DEF OfSize
<1>2. dim.size = n
  <2> DEFINE o == dim.offset
             s == dim.stride
             h == dim.shape
  <2>1. dim = DimOf(o, n, s, h)
    BY <1>1
  <2> HIDE DEF o, s, h
  <2> QED BY <2>1 DEF DimOf
<1>3. dim.offset \in Offsets(n) /\ dim.stride \in Numbers /\ dim.shape \in Numbers
  BY DEF OfSize
<1>4. dim.stride.val \in Int /\ dim.shape.val \in Int /\ (~IsTensor(dim.offset) => dim.offset.val \in Int)
  BY <1>3, OffsetFacts, NumberFacts
<1>5. ~DimHasModulo(dim) <=> dim.shape = Attr(0)
  BY <1>3 DEF DimHasModulo, IsAttr, Attr, Numbers
<1> QED BY <1>2, <1>3, <1>4, <1>5, OffsetFacts, NumberFacts

(* What a dimension adds to the element i. *)
LEMMA TermIs ==
  ASSUME NEW n, NEW dim, OfSize(dim, n), NEW i \in 0 .. n - 1
  PROVE  /\ IsTensor(dim.offset) => Term(dim, i) = At(dim.offset, i) * dim.stride.val
         /\ ~IsTensor(dim.offset) /\ dim.shape.val = 0 => Term(dim, i) = At(dim.offset, i) + i * dim.stride.val
         /\ ~IsTensor(dim.offset) /\ dim.shape.val # 0
              => Term(dim, i) = RemSI(At(dim.offset, i) + i * dim.stride.val, dim.shape.val)
         /\ dim.shape.val >= 0 \/ IsTensor(dim.offset) => Term(dim, i) \in Int
<1> DEFINE o == At(dim.offset, i)
           s == dim.stride.val
           m == dim.shape.val
<1>1. o \in Int /\ s \in Int /\ m \in Int /\ i \in Int
  BY DimFacts
<1>2. CASE IsTensor(dim.offset)
  <2>1. Term(dim, i) = o * s
    <3>1. Term(dim, i) = dim.offset.val[i] * s
      BY <1>2, Zenon DEF Term
    <3>2. o = dim.offset.val[i]
      BY <1>2 DEF At
    <3> QED BY <3>1, <3>2
  <2> QED BY <1>1, <1>2, <2>1
<1>3. CASE ~IsTensor(dim.offset)
  <2>1. o = dim.offset.val
    BY <1>3 DEF At
  <2>2. Term(dim, i) = IF m = 0 THEN dim.offset.val + i * s ELSE RemSI(dim.offset.val + i * s, m)
    BY <1>3, Zenon DEF Term
  <2>3. Term(dim, i) = IF m = 0 THEN o + i * s ELSE RemSI(o + i * s, m)
    BY <2>1, <2>2
  <2>4. o + i * s \in Int
    BY <1>1
  <2>5. \A k \in Int, p \in Int : p > 0 => RemSI(k, p) \in Int
    BY DEF RemSI
  <2>6. m >= 0 => Term(dim, i) \in Int
    <3>1. CASE m = 0
      BY <2>3, <2>4, <3>1
    <3>2. CASE m > 0
      <4>1. Term(dim, i) = RemSI(o + i * s, m)
        BY <1>1, <2>3, <3>2
      <4> HIDE DEF o, s, m
      <4> QED BY <1>1, <2>4, <2>5, <3>2, <4>1
    <3> HIDE DEF m
    <3> QED BY <1>1, <3>1, <3>2
  <2> QED BY <1>3, <2>3, <2>6
<1> QED BY <1>2, <1>3

-----------------------------------------------------------------------------
(* addState, one dimension *)

LEMMA FactorIs ==
  ASSUME NEW n, NEW dim, OfSize(dim, n)
  PROVE  /\ FactorOf(dim) \in Numbers /\ FactorOf(dim).val \in Int /\ ~HasConstZero(FactorOf(dim))
         /\ HasConstZero(dim.stride) => FactorOf(dim).val = 1 /\ dim.stride.val = 0
         /\ ~HasConstZero(dim.stride) => FactorOf(dim) = dim.stride
<1>1. /\ dim.stride \in Numbers /\ Attr(1) \in Numbers /\ Attr(1).val = 1 /\ ~HasConstZero(Attr(1))
      /\ HasConstZero(dim.stride) => dim.stride.val = 0
  BY DimFacts, NumberFacts DEF HasConstZero
<1>2. CASE HasConstZero(dim.stride)
  <2>1. FactorOf(dim) = Attr(1)
    BY <1>2, Zenon DEF FactorOf
  <2> QED BY <1>1, <1>2, <2>1
<1>3. CASE ~HasConstZero(dim.stride)
  <2>1. FactorOf(dim) = dim.stride
    BY <1>3, Zenon DEF FactorOf
  <2> QED BY <1>1, <1>3, <2>1, NumberFacts
<1> QED BY <1>2, <1>3

(* The six ways GatherDim goes. *)
LEMMA GatherCases ==
  ASSUME NEW l, NEW r
  PROVE  LET ls == FactorOf(l)
             rs == FactorOf(r)
             g == GatherDim(l, r)
         IN /\ NotInDim(l) => g = Dim(r.offset, l.size, r.stride)
            /\ ~NotInDim(l) /\ NotInDim(r) => g = Dim(l.offset, l.size, l.stride)
            /\ ~NotInDim(l) /\ ~NotInDim(r) /\ ~SameOFR(l.offset, r.offset) /\ ~SameOFR(ls, rs)
                 => g = Dim(AddOFRs(MulOFRs(l.offset, ls), MulOFRs(r.offset, rs)), l.size, Attr(1))
            /\ ~NotInDim(l) /\ ~NotInDim(r) /\ SameOFR(ls, rs)
                 => g = Dim(AddOFRs(l.offset, r.offset), l.size, ls)
            /\ ~NotInDim(l) /\ ~NotInDim(r) /\ SameOFR(l.offset, r.offset) /\ ~SameOFR(ls, rs)
                 => g = Dim(l.offset, l.size, AddOFRs(ls, rs))
  BY Zenon DEF GatherDim

(* A gather in either operand makes the sum one. *)
LEMMA GatherType ==
  ASSUME NEW n, NEW l, NEW r, OfSize(l, n), OfSize(r, n), IsTensor(l.offset) \/ IsTensor(r.offset)
  PROVE  \E o \in Lines(n), s \in Numbers : GatherDim(l, r) = Dim(o, n, s)
<1> DEFINE ls == FactorOf(l)
           rs == FactorOf(r)
           lo == l.offset
           ro == r.offset
<1>1. /\ lo \in Offsets(n) /\ ro \in Offsets(n) /\ l.size = n /\ l.stride \in Numbers /\ r.stride \in Numbers
      /\ IsTensor(lo) <=> lo \in Lines(n)
      /\ IsTensor(ro) <=> ro \in Lines(n)
  BY DimFacts
<1>2. /\ ls \in Numbers /\ rs \in Numbers /\ ~HasConstZero(ls) /\ ~HasConstZero(rs)
      /\ ~IsTensor(ls) /\ ~IsTensor(rs) /\ ls \in Offsets(n) /\ rs \in Offsets(n)
  BY FactorIs, NumberFacts DEF Offsets
<1>3. /\ IsTensor(lo) => ~HasConstZero(lo)
      /\ IsTensor(ro) => ~HasConstZero(ro)
  BY <1>1, LineFacts
<1>4. \A x \in Offsets(n) : IsTensor(x) <=> x \in Lines(n)
  BY OffsetFacts
<1> HIDE DEF ls, rs, lo, ro
<1>5. CASE NotInDim(l)
  <2>1. ro \in Lines(n)
    BY <1>1, <1>3, <1>5 DEF NotInDim, lo, ro
  <2> QED BY <1>1, <1>5, <2>1, GatherCases DEF lo, ro
<1>6. CASE ~NotInDim(l) /\ NotInDim(r)
  <2>1. lo \in Lines(n)
    BY <1>1, <1>3, <1>6 DEF NotInDim, lo, ro
  <2> QED BY <1>1, <1>6, <2>1, GatherCases DEF lo, ro
<1>7. CASE ~NotInDim(l) /\ ~NotInDim(r) /\ ~SameOFR(lo, ro) /\ ~SameOFR(ls, rs)
  <2> DEFINE p == MulOFRs(lo, ls)
             q == MulOFRs(ro, rs)
  <2>1. /\ p \in Offsets(n) /\ q \in Offsets(n)
        /\ IsTensor(lo) => IsTensor(p)
        /\ IsTensor(ro) => IsTensor(q)
    BY <1>1, <1>2, <1>3, MulIs
  <2> HIDE DEF p, q
  <2>2. AddOFRs(p, q) \in Lines(n)
    BY <1>4, <2>1, AddIs DEF lo, ro
  <2>3. GatherDim(l, r) = Dim(AddOFRs(p, q), n, Attr(1))
    BY <1>1, <1>7, GatherCases DEF p, q, lo, ro, ls, rs
  <2>4. Attr(1) \in Numbers
    BY NumberFacts
  <2> QED BY <2>2, <2>3, <2>4
<1>8. CASE ~NotInDim(l) /\ ~NotInDim(r) /\ SameOFR(ls, rs)
  <2>1. AddOFRs(lo, ro) \in Lines(n)
    BY <1>1, <1>4, AddIs DEF lo, ro
  <2>2. GatherDim(l, r) = Dim(AddOFRs(lo, ro), n, ls)
    BY <1>1, <1>8, GatherCases DEF lo, ro, ls, rs
  <2> QED BY <1>2, <2>1, <2>2
<1>9. CASE ~NotInDim(l) /\ ~NotInDim(r) /\ SameOFR(lo, ro) /\ ~SameOFR(ls, rs)
  <2>1. lo \in Lines(n)
    BY <1>1, <1>9 DEF SameOFR, IsTensor, lo, ro
  <2>2. AddOFRs(ls, rs) \in Numbers
    BY <1>2, AddIs, OffsetFacts
  <2>3. GatherDim(l, r) = Dim(lo, n, AddOFRs(ls, rs))
    BY <1>1, <1>9, GatherCases DEF lo, ro, ls, rs
  <2> QED BY <2>1, <2>2, <2>3
<1> QED BY <1>5, <1>6, <1>7, <1>8, <1>9 DEF lo, ro

(* Where no range is dropped, the sum of two products is the product.      *)
LEMMA GatherExact ==
  ASSUME NEW n, NEW l, NEW r, OfSize(l, n), OfSize(r, n), ~DimHasModulo(l), ~DimHasModulo(r),
         IsTensor(l.offset) \/ IsTensor(r.offset), GatherAssert(l, r),
         IsTensor(l.offset) \/ HasConstZero(l.stride), IsTensor(r.offset) \/ HasConstZero(r.stride),
         NEW i \in 0 .. n - 1
  PROVE  At(GatherDim(l, r).offset, i) * GatherDim(l, r).stride.val = Term(l, i) + Term(r, i)
<1> DEFINE ls == FactorOf(l)
           rs == FactorOf(r)
           lo == l.offset
           ro == r.offset
           a == At(lo, i)
           b == At(ro, i)
           g == GatherDim(l, r)
<1>1. /\ lo \in Offsets(n) /\ ro \in Offsets(n) /\ l.size = n /\ l.stride \in Numbers /\ r.stride \in Numbers
      /\ a \in Int /\ b \in Int /\ l.stride.val \in Int /\ r.stride.val \in Int /\ i \in Int
      /\ l.shape.val = 0 /\ r.shape.val = 0
  BY DimFacts
<1>2. /\ ls \in Numbers /\ rs \in Numbers /\ ls.val \in Int /\ rs.val \in Int
      /\ ls \in Offsets(n) /\ rs \in Offsets(n)
      /\ HasConstZero(l.stride) => ls.val = 1 /\ l.stride.val = 0
      /\ HasConstZero(r.stride) => rs.val = 1 /\ r.stride.val = 0
      /\ ~HasConstZero(l.stride) => ls = l.stride
      /\ ~HasConstZero(r.stride) => rs = r.stride
  BY FactorIs, NumberFacts DEF Offsets
<1>3. /\ IsTensor(lo) => ~HasConstZero(lo)
      /\ IsTensor(ro) => ~HasConstZero(ro)
  BY DimFacts, LineFacts
<1>4. /\ IsTensor(lo) => Term(l, i) = a * l.stride.val
      /\ IsTensor(ro) => Term(r, i) = b * r.stride.val
      /\ ~IsTensor(lo) => Term(l, i) = a + i * l.stride.val
      /\ ~IsTensor(ro) => Term(r, i) = b + i * r.stride.val
  BY <1>1, TermIs
<1>5. \A x \in Numbers : At(x, i) = x.val
  BY NumberFacts
<1>6. \A o, s : Dim(o, n, s).offset = o /\ Dim(o, n, s).stride = s
  BY DEF Dim
<1> HIDE DEF ls, rs, lo, ro, a, b, g
<1>7. CASE NotInDim(l)
  <2>1. g = Dim(ro, n, r.stride) /\ HasConstZero(lo) /\ HasConstZero(l.stride)
    BY <1>1, <1>7, GatherCases DEF lo, ro, NotInDim, g
  <2>2. IsTensor(ro) /\ ~IsTensor(lo)
    BY <1>3, <2>1 DEF lo, ro
  <2>3. a = 0
    BY <2>1, <2>2 DEF HasConstZero, At, a
  <2>4. Term(l, i) = 0 /\ Term(r, i) = b * r.stride.val
    BY <1>1, <1>2, <1>4, <2>1, <2>2, <2>3
  <2>5. At(g.offset, i) * g.stride.val = b * r.stride.val
    BY <1>6, <2>1 DEF b
  <2> DEFINE y == b * r.stride.val
  <2>6. y \in Int
    BY <1>1
  <2> HIDE DEF y
  <2> QED BY <2>4, <2>5, <2>6 DEF y, g
<1>8. CASE ~NotInDim(l) /\ NotInDim(r)
  <2>1. g = Dim(lo, n, l.stride) /\ HasConstZero(ro) /\ HasConstZero(r.stride)
    BY <1>1, <1>8, GatherCases DEF lo, ro, NotInDim, g
  <2>2. IsTensor(lo) /\ ~IsTensor(ro)
    BY <1>3, <2>1 DEF lo, ro
  <2>3. b = 0
    BY <2>1, <2>2 DEF HasConstZero, At, b
  <2>4. Term(r, i) = 0 /\ Term(l, i) = a * l.stride.val
    BY <1>1, <1>2, <1>4, <2>1, <2>2, <2>3
  <2>5. At(g.offset, i) * g.stride.val = a * l.stride.val
    BY <1>6, <2>1 DEF a
  <2> DEFINE y == a * l.stride.val
  <2>6. y \in Int
    BY <1>1
  <2> HIDE DEF y
  <2> QED BY <2>4, <2>5, <2>6 DEF y, g
<1>9. CASE ~NotInDim(l) /\ ~NotInDim(r)
  <2>1. /\ HasConstZero(l.stride) => ~IsTensor(lo)
        /\ HasConstZero(r.stride) => ~IsTensor(ro)
    BY <1>9 DEF GatherAssert, lo, ro
  <2> DEFINE p == a * ls.val
             q == b * rs.val
  <2>2. Term(l, i) = p /\ Term(r, i) = q /\ p \in Int /\ q \in Int
    <3>1. Term(l, i) = p /\ p \in Int
      <4>1. CASE IsTensor(lo)
        BY <1>1, <1>2, <1>4, <2>1, <4>1
      <4>2. CASE ~IsTensor(lo)
        <5>1. l.stride.val = 0 /\ ls.val = 1
          BY <1>2, <4>2 DEF lo
        <5> QED BY <1>1, <1>4, <4>2, <5>1
      <4> QED BY <4>1, <4>2
    <3>2. Term(r, i) = q /\ q \in Int
      <4>1. CASE IsTensor(ro)
        BY <1>1, <1>2, <1>4, <2>1, <4>1
      <4>2. CASE ~IsTensor(ro)
        <5>1. r.stride.val = 0 /\ rs.val = 1
          BY <1>2, <4>2 DEF ro
        <5> QED BY <1>1, <1>4, <4>2, <5>1
      <4> QED BY <4>1, <4>2
    <3> QED BY <3>1, <3>2
  <2>3. CASE ~SameOFR(lo, ro) /\ ~SameOFR(ls, rs)
    <3> DEFINE x == MulOFRs(lo, ls)
               y == MulOFRs(ro, rs)
    <3>1. x \in Offsets(n) /\ y \in Offsets(n) /\ At(x, i) = p /\ At(y, i) = q
      <4>1. At(ls, i) = ls.val /\ At(rs, i) = rs.val
        BY <1>2, <1>5
      <4>2. x \in Offsets(n) /\ y \in Offsets(n) /\ At(x, i) = a * At(ls, i) /\ At(y, i) = b * At(rs, i)
        BY <1>1, <1>2, MulIs DEF a, b
      <4> QED BY <4>1, <4>2
    <3>2. g = Dim(AddOFRs(x, y), n, Attr(1))
      BY <1>1, <1>9, <2>3, GatherCases DEF g, ls, rs, lo, ro
    <3> HIDE DEF x, y, p, q
    <3>3. At(AddOFRs(x, y), i) = p + q
      BY <3>1, AddIs
    <3>4. At(g.offset, i) = p + q /\ g.stride.val = 1
      BY <1>6, <3>2, <3>3, NumberFacts
    <3> QED BY <2>2, <3>4 DEF g
  <2>4. CASE SameOFR(ls, rs)
    <3>1. g = Dim(AddOFRs(lo, ro), n, ls)
      BY <1>1, <1>9, <2>4, GatherCases DEF g, ls, rs, lo, ro
    <3>2. At(AddOFRs(lo, ro), i) = a + b
      BY <1>1, AddIs DEF a, b
    <3>3. At(g.offset, i) = a + b /\ g.stride.val = ls.val /\ ls.val = rs.val
      BY <1>6, <2>4, <3>1, <3>2 DEF SameOFR
    <3> DEFINE k == ls.val
    <3>4. k \in Int /\ p = a * k /\ q = b * k /\ At(g.offset, i) * g.stride.val = (a + b) * k
      BY <1>2, <3>3
    <3> HIDE DEF k, p, q
    <3>5. (a + b) * k = p + q
      BY <1>1, <3>4
    <3> QED BY <2>2, <3>4, <3>5 DEF g
  <2>5. CASE SameOFR(lo, ro) /\ ~SameOFR(ls, rs)
    <3>1. g = Dim(lo, n, AddOFRs(ls, rs))
      BY <1>1, <1>9, <2>5, GatherCases DEF g, ls, rs, lo, ro
    <3>2. a = b
      BY <2>5 DEF SameOFR, IsTensor, At, a, b
    <3>3. AddOFRs(ls, rs) \in Numbers /\ At(AddOFRs(ls, rs), i) = At(ls, i) + At(rs, i)
      <4>1. ~IsTensor(ls) /\ ~IsTensor(rs)
        BY <1>2, NumberFacts
      <4> QED BY <1>2, <4>1, AddIs, OffsetFacts
    <3>4. At(g.offset, i) = a /\ g.stride.val = ls.val + rs.val
      BY <1>2, <1>5, <1>6, <3>1, <3>3 DEF a
    <3>5. a * (ls.val + rs.val) = p + q
      BY <1>1, <1>2, <3>2
    <3> QED BY <2>2, <3>4, <3>5 DEF g
  <2> QED BY <2>3, <2>4, <2>5
<1> QED BY <1>7, <1>8, <1>9 DEF g

-----------------------------------------------------------------------------
(* Numbers: remainders *)

(* A remainder is scaled by scaling both operands. *)
LEMMA ModIs ==
  ASSUME NEW d \in Int, d > 0, NEW q \in Int, NEW r \in 0 .. d - 1
  PROVE  (d * q + r) % d = r
<1> DEFINE x == d * q + r
           p == x \div d
           s == x % d
<1>1. x \in Int
  OBVIOUS
<1> HIDE DEF x
<1>2. p \in Int /\ s \in 0 .. d - 1 /\ x = d * p + s
  BY <1>1
<1> HIDE DEF p, s
<1>3. d * (p - q) = r - s
  <2>1. x = d * q + r
    BY DEF x
  <2>2. d * (p - q) = d * p - d * q
    BY <1>2
  <2> DEFINE a == d * p
             b == d * q
  <2>3. a \in Int /\ b \in Int /\ x = a + s /\ x = b + r /\ d * (p - q) = a - b
    BY <1>2, <2>1, <2>2
  <2> HIDE DEF a, b
  <2> QED BY <1>2, <2>3
<1>4. CASE p - q >= 1
  <2>1. d * (p - q) >= d
    BY <1>2, <1>4
  <2> QED BY <1>2, <1>3, <2>1
<1>5. CASE p - q <= -1
  <2>1. d * (p - q) <= -d
    BY <1>2, <1>5
  <2> QED BY <1>2, <1>3, <2>1
<1>6. CASE p = q
  <2>1. d * (p - q) = 0
    BY <1>2, <1>6
  <2>2. r = s
    BY <1>2, <1>3, <2>1
  <2> QED BY <2>2 DEF s, x
<1> QED BY <1>2, <1>4, <1>5, <1>6

LEMMA ModScaled ==
  ASSUME NEW a \in Int, NEW m \in Int, m > 0, NEW k \in Int, k > 0
  PROVE  (a * k) % (m * k) = (a % m) * k
<1> DEFINE q == a \div m
           r == a % m
           d == m * k
           s == r * k
<1>1. q \in Int /\ r \in Int /\ r >= 0 /\ r < m /\ a = m * q + r
  OBVIOUS
<1> HIDE DEF q, r
<1>2. d \in Int /\ d > 0 /\ s \in Int /\ s >= 0
  BY <1>1
<1>3. s < d
  <2>1. (m - r) * k > 0
    BY <1>1
  <2>2. (m - r) * k = m * k - r * k
    BY <1>1
  <2> QED BY <1>2, <2>1, <2>2
<1>4. a * k = d * q + s
  BY <1>1
<1> HIDE DEF d, s
<1>5. (d * q + s) % d = s
  BY <1>1, <1>2, <1>3, ModIs
<1> QED BY <1>4, <1>5 DEF d, s, r

LEMMA RemScaled ==
  ASSUME NEW a \in Int, NEW m \in Int, m > 0, NEW k \in Int, k > 0
  PROVE  RemSI(a * k, m * k) = RemSI(a, m) * k
<1> DEFINE d == m * k
           b == a * k
<1>1. d \in Int /\ b \in Int /\ (a >= 0 <=> b >= 0)
  <2>1. a >= 0 => b >= 0
    OBVIOUS
  <2>2. a < 0 => b < 0
    <3>1. a < 0 => (-a) * k > 0
      OBVIOUS
    <3>2. (-a) * k = -(a * k)
      OBVIOUS
    <3> QED BY <3>1, <3>2
  <2> QED BY <2>1, <2>2
<1>2. CASE a >= 0
  <2>1. b % d = (a % m) * k
    BY ModScaled
  <2> HIDE DEF b, d
  <2>2. RemSI(b, d) = b % d /\ RemSI(a, m) = a % m
    BY <1>1, <1>2 DEF RemSI
  <2> QED BY <2>1, <2>2 DEF b, d
<1>3. CASE a < 0
  <2>1. ((-a) * k) % d = ((-a) % m) * k
    BY ModScaled
  <2>2. (-a) * k = -b
    OBVIOUS
  <2> HIDE DEF b, d
  <2>3. RemSI(b, d) = -((-b) % d) /\ RemSI(a, m) = -((-a) % m)
    BY <1>1, <1>3 DEF RemSI
  <2> DEFINE r == (-a) % m
  <2>4. r \in Int /\ RemSI(b, d) = -(r * k) /\ RemSI(a, m) = -r
    BY <2>1, <2>2, <2>3
  <2> HIDE DEF r
  <2>5. -(r * k) = (-r) * k
    BY <2>4
  <2> QED BY <2>4, <2>5 DEF b, d
<1> QED BY <1>2, <1>3

(* A dimension of addState's sum, with whatever modulo it is given. *)
SummedDim(l, r, mode, m) == [AddDim(l, r, mode) EXCEPT !.shape = m]

DimSums(c, l, r, n, m, mode) ==
  /\ OfSize(c, n) /\ c.shape = m
  /\ IsTensor(c.offset) <=> IsTensor(l.offset) \/ IsTensor(r.offset)
  /\ ~IsTensor(l.offset) /\ ~IsTensor(r.offset)
       => c.offset = AddOFRs(l.offset, r.offset) /\ c.stride = AddOFRs(l.stride, r.stride)
  /\ mode /\ (IsTensor(l.offset) \/ IsTensor(r.offset))
       => c.offset = GatherDim(l, r).offset /\ c.stride = GatherDim(l, r).stride

LEMMA AddDimIs ==
  ASSUME NEW n, NEW l, NEW r, OfSize(l, n), OfSize(r, n), NEW mode, NEW m \in Numbers
  PROVE  DimSums(SummedDim(l, r, mode, m), l, r, n, m, mode)
<1> DEFINE a == AddDim(l, r, mode)
           c == SummedDim(l, r, mode, m)
           tensor == IsTensor(l.offset) \/ IsTensor(r.offset)
<1>0. /\ l.offset \in Offsets(n) /\ r.offset \in Offsets(n) /\ l.size = n
      /\ l.stride \in Offsets(n) /\ r.stride \in Offsets(n) /\ ~IsTensor(l.stride) /\ ~IsTensor(r.stride)
      /\ l.stride \in Numbers /\ r.stride \in Numbers
  BY DimFacts, NumberFacts DEF Offsets
<1>1. SUFFICES ASSUME NEW o \in Offsets(n), NEW s \in Numbers, a = Dim(o, n, s),
                      IsTensor(o) <=> tensor, n = 1 => s.val = 0,
                      ~tensor => o = AddOFRs(l.offset, r.offset) /\ s = AddOFRs(l.stride, r.stride),
                      mode /\ tensor => a = GatherDim(l, r)
               PROVE  DimSums(c, l, r, n, m, mode)
  <2>1. CASE ~tensor
    <3>1. a = Dim(AddOFRs(l.offset, r.offset), n, AddOFRs(l.stride, r.stride))
      BY <1>0, <2>1, Zenon DEF AddDim, SumDim
    <3>2. AddOFRs(l.offset, r.offset) \in Offsets(n) /\ ~IsTensor(AddOFRs(l.offset, r.offset))
      BY <1>0, <2>1, AddIs
    <3>3. AddOFRs(l.stride, r.stride) \in Numbers
      BY <1>0, AddIs, OffsetFacts
    <3>4. n = 1 => AddOFRs(l.stride, r.stride).val = 0
      <4> HAVE n = 1
      <4>1. l.stride.val = 0 /\ r.stride.val = 0 /\ 0 \in 0 .. n - 1
        BY DEF OfSize
      <4>2. At(AddOFRs(l.stride, r.stride), 0) = At(l.stride, 0) + At(r.stride, 0)
        BY <1>0, <4>1, AddIs
      <4> QED BY <1>0, <3>3, <4>1, <4>2, NumberFacts
    <3> HIDE DEF a
    <3> QED BY <2>1, <3>1, <3>2, <3>3, <3>4 DEF a
  <2>2. CASE tensor
    <3>1. n # 1
      BY <2>2 DEF OfSize
    <3>2. CASE mode
      <4>1. a = GatherDim(l, r)
        BY <2>2, <3>2, Zenon DEF AddDim
      <4>2. PICK o \in Lines(n), s \in Numbers : GatherDim(l, r) = Dim(o, n, s)
        BY <2>2, GatherType
      <4>3. o \in Offsets(n) /\ IsTensor(o)
        BY LineFacts DEF Offsets
      <4> HIDE DEF a
      <4> QED BY <2>2, <3>1, <4>1, <4>2, <4>3 DEF a
    <3>3. CASE ~mode
      <4> DEFINE o == IF IsTensor(l.offset) THEN l.offset ELSE r.offset
      <4>1. a = Dim(o, n, Attr(1))
        BY <1>0, <2>2, <3>3, Zenon DEF AddDim, MarkedDim
      <4>2. o \in Offsets(n) /\ IsTensor(o) /\ Attr(1) \in Numbers
        BY <1>0, <2>2, NumberFacts
      <4> HIDE DEF a, o
      <4> QED BY <2>2, <3>1, <3>3, <4>1, <4>2 DEF a
    <3> QED BY <3>2, <3>3
  <2> QED BY <2>1, <2>2
<1>2. c = DimOf(o, n, s, m) /\ a.offset = o /\ a.stride = s
  <2>1. a = DimOf(o, n, s, Attr(0))
    BY <1>1, DimIs
  <2>2. c = [a EXCEPT !.shape = m]
    BY DEF SummedDim
  <2> HIDE DEF a, c
  <2> QED BY <2>1, <2>2, DimIs
<1>3. /\ OfSize(DimOf(o, n, s, m), n) /\ DimOf(o, n, s, m).shape = m
      /\ DimOf(o, n, s, m).offset = o /\ DimOf(o, n, s, m).stride = s
  <2>1. n = 1 => ~IsTensor(o)
    BY <1>1 DEF OfSize
  <2> QED BY <1>1, <2>1, DimIs
<1> HIDE DEF c
<1> QED BY <1>1, <1>2, <1>3 DEF DimSums

(* Dimensions that are not gathers add up, where at most one has a modulo  *)
(* and the other one adds nothing to it.                                   *)
LEMMA PlainSum ==
  ASSUME NEW n, NEW l, NEW r, NEW c, OfSize(l, n), OfSize(r, n), OfSize(c, n),
         ~IsTensor(l.offset), ~IsTensor(r.offset), ~IsTensor(c.offset),
         c.offset = AddOFRs(l.offset, r.offset), c.stride = AddOFRs(l.stride, r.stride),
         NEW i \in 0 .. n - 1
  PROVE  /\ ~DimHasModulo(l) /\ ~DimHasModulo(r) /\ ~DimHasModulo(c) => Term(c, i) = Term(l, i) + Term(r, i)
         /\ l.shape.val > 0 /\ c.shape = l.shape /\ ~DimHasModulo(r) /\ HasConstZero(r.offset) /\ r.stride.val = 0
              => Term(c, i) = Term(l, i) + Term(r, i)
         /\ r.shape.val > 0 /\ c.shape = r.shape /\ ~DimHasModulo(l) /\ HasConstZero(l.offset) /\ l.stride.val = 0
              => Term(c, i) = Term(l, i) + Term(r, i)
<1> DEFINE lo == At(l.offset, i)
           ro == At(r.offset, i)
           co == At(c.offset, i)
           ls == l.stride.val
           rs == r.stride.val
           cs == c.stride.val
<1>1. /\ lo \in Int /\ ro \in Int /\ ls \in Int /\ rs \in Int /\ l.shape.val \in Int /\ r.shape.val \in Int
      /\ l.offset \in Offsets(n) /\ r.offset \in Offsets(n) /\ l.stride \in Numbers /\ r.stride \in Numbers
      /\ c.shape.val \in Int /\ i \in Int
      /\ ~DimHasModulo(l) => l.shape.val = 0
      /\ ~DimHasModulo(r) => r.shape.val = 0
      /\ ~DimHasModulo(c) => c.shape.val = 0
  BY DimFacts
<1>2. co = lo + ro
  BY <1>1, AddIs
<1>3. cs = ls + rs
  <2>1. l.stride \in Offsets(n) /\ r.stride \in Offsets(n) /\ c.stride \in Numbers
    BY <1>1, DimFacts DEF Offsets
  <2>2. At(c.stride, i) = At(l.stride, i) + At(r.stride, i)
    BY <2>1, AddIs
  <2> QED BY <1>1, <2>1, <2>2, NumberFacts
<1>4. /\ HasConstZero(r.offset) => ro = 0
      /\ HasConstZero(l.offset) => lo = 0
  BY DEF HasConstZero, At
<1>5. /\ l.shape.val = 0 => Term(l, i) = lo + i * ls
      /\ r.shape.val = 0 => Term(r, i) = ro + i * rs
      /\ c.shape.val = 0 => Term(c, i) = co + i * cs
      /\ l.shape.val # 0 => Term(l, i) = RemSI(lo + i * ls, l.shape.val)
      /\ r.shape.val # 0 => Term(r, i) = RemSI(ro + i * rs, r.shape.val)
      /\ c.shape.val # 0 => Term(c, i) = RemSI(co + i * cs, c.shape.val)
      /\ l.shape.val > 0 => Term(l, i) \in Int
      /\ r.shape.val > 0 => Term(r, i) \in Int
  BY <1>1, TermIs
<1> HIDE DEF lo, ro, co, ls, rs, cs
<1>6. i * (ls + rs) = i * ls + i * rs
  BY <1>1
<1>7. ASSUME ~DimHasModulo(l), ~DimHasModulo(r), ~DimHasModulo(c)
      PROVE  Term(c, i) = Term(l, i) + Term(r, i)
  <2> DEFINE x == i * ls
             y == i * rs
  <2>1. x \in Int /\ y \in Int
    BY <1>1
  <2>2. Term(l, i) = lo + x /\ Term(r, i) = ro + y /\ Term(c, i) = (lo + ro) + (x + y)
    BY <1>1, <1>2, <1>3, <1>5, <1>6, <1>7
  <2> HIDE DEF x, y
  <2> QED BY <1>1, <2>1, <2>2
<1>8. ASSUME l.shape.val > 0, c.shape = l.shape, ~DimHasModulo(r), HasConstZero(r.offset), rs = 0
      PROVE  Term(c, i) = Term(l, i) + Term(r, i)
  <2>1. Term(r, i) = 0 /\ co = lo /\ cs = ls
    BY <1>1, <1>2, <1>3, <1>4, <1>5, <1>8
  <2>2. Term(c, i) = Term(l, i)
    BY <1>1, <1>5, <1>8, <2>1
  <2> QED BY <1>5, <1>8, <2>1, <2>2
<1>9. ASSUME r.shape.val > 0, c.shape = r.shape, ~DimHasModulo(l), HasConstZero(l.offset), ls = 0
      PROVE  Term(c, i) = Term(l, i) + Term(r, i)
  <2>1. Term(l, i) = 0 /\ co = ro /\ cs = rs
    BY <1>1, <1>2, <1>3, <1>4, <1>5, <1>9
  <2>2. Term(c, i) = Term(r, i)
    BY <1>1, <1>5, <1>9, <2>1
  <2> QED BY <1>5, <1>9, <2>1, <2>2
<1> QED BY <1>7, <1>8, <1>9 DEF ls, rs

-----------------------------------------------------------------------------
(* 0 - state and state * k, one dimension *)

NegatedDim(dim) == [dim EXCEPT !.offset = SubOFRs(Attr(0), @), !.stride = SubOFRs(Attr(0), @)]

LEMMA NegatedNumber ==
  ASSUME NEW a \in Numbers
  PROVE  /\ SubOFRs(Attr(0), a) \in Numbers /\ SubOFRs(Attr(0), a).val = -a.val
         /\ HasConstZero(SubOFRs(Attr(0), a)) <=> HasConstZero(a)
<1>1. a.val \in Int /\ ~IsTensor(a) /\ ~IsTensor(Attr(0)) /\ IsAttr(Attr(0)) /\ Attr(0).val = 0
  BY NumberFacts
<1>2. CASE IsAttr(a)
  <2>1. SubOFRs(Attr(0), a) = Attr(0 - a.val)
    BY <1>1, <1>2, Zenon DEF SubOFRs
  <2>2. a = Attr(a.val)
    BY <1>2 DEF Numbers, IsAttr, Attr
  <2>3. 0 - a.val = -a.val /\ -a.val \in Int
    BY <1>1
  <2>4. (-a.val = 0) <=> (a.val = 0)
    BY <1>1
  <2>5. HasConstZero(a) <=> a.val = 0
    BY <1>1, <2>2, NumberFacts
  <2> DEFINE k == -a.val
  <2>6. SubOFRs(Attr(0), a) = Attr(k) /\ k \in Int /\ (k = 0 <=> a.val = 0)
    BY <2>1, <2>3, <2>4
  <2> HIDE DEF k
  <2>7. Attr(k) \in Numbers /\ Attr(k).val = k /\ (HasConstZero(Attr(k)) <=> k = 0)
    BY <2>6, NumberFacts
  <2> QED BY <2>5, <2>6, <2>7 DEF k
<1>3. CASE ~IsAttr(a)
  <2>1. SubOFRs(Attr(0), a) = Emit(Minus, Attr(0), a)
    BY <1>1, <1>3, Zenon DEF SubOFRs
  <2>2. Emit(Minus, Attr(0), a) = Value(Attr(0).val - a.val)
    BY <1>1, Zenon DEF Emit, Minus
  <2> DEFINE k == -a.val
  <2>3. k \in Int /\ SubOFRs(Attr(0), a) = Value(k)
    BY <1>1, <2>1, <2>2
  <2> HIDE DEF k
  <2>4. Value(k) \in Numbers /\ Value(k).val = k /\ ~HasConstZero(Value(k))
    BY <2>3, NumberFacts
  <2>5. ~HasConstZero(a)
    BY <1>3, NumberFacts
  <2> QED BY <2>3, <2>4, <2>5 DEF k
<1> QED BY <1>2, <1>3

LEMMA NegatedDimIs ==
  ASSUME NEW n, NEW dim, OfSize(dim, n)
  PROVE  /\ OfSize(NegatedDim(dim), n) /\ NegatedDim(dim).shape = dim.shape
         /\ IsTensor(NegatedDim(dim).offset) <=> IsTensor(dim.offset)
         /\ HasConstZero(NegatedDim(dim).stride) <=> HasConstZero(dim.stride)
         /\ ~IsTensor(dim.offset) => (HasConstZero(NegatedDim(dim).offset) <=> HasConstZero(dim.offset))
         /\ dim.stride.val = 0 => NegatedDim(dim).stride.val = 0
         /\ ~IsTensor(dim.offset) /\ ~DimHasModulo(dim) =>
              \A i \in 0 .. n - 1 : Term(NegatedDim(dim), i) = -Term(dim, i)
<1> DEFINE o == dim.offset
           s == dim.stride
           m == dim.shape
           p == SubOFRs(Attr(0), o)
           t == SubOFRs(Attr(0), s)
           c == NegatedDim(dim)
<1>1. o \in Offsets(n) /\ s \in Numbers /\ m \in Numbers /\ (n = 1 => ~IsTensor(o) /\ s.val = 0) /\ dim = DimOf(o, n, s, m)
  BY DEF OfSize
<1>2. /\ t \in Numbers /\ t.val = -s.val /\ (HasConstZero(t) <=> HasConstZero(s)) /\ s.val \in Int
  BY <1>1, NegatedNumber, NumberFacts
<1>3. /\ p \in Offsets(n) /\ (IsTensor(p) <=> IsTensor(o))
      /\ \A i \in 0 .. n - 1 : At(p, i) = At(Attr(0), i) - At(o, i)
  <2>1. Attr(0) \in Offsets(n) /\ ~IsTensor(Attr(0))
    BY NumberFacts DEF Offsets
  <2> QED BY <1>1, <2>1, SubIs
<1>4. ~IsTensor(o) => (HasConstZero(p) <=> HasConstZero(o))
  BY <1>1, OffsetFacts, NegatedNumber
<1>5. c = DimOf(p, n, t, m)
  <2> HIDE DEF o, s, m, p, t
  <2>1. dim.offset = o /\ dim.stride = s
    BY DEF o, s
  <2>2. c = [dim EXCEPT !.offset = SubOFRs(Attr(0), dim.offset), !.stride = SubOFRs(Attr(0), dim.stride)]
    BY DEF NegatedDim
  <2>3. c = [dim EXCEPT !.offset = p, !.stride = t]
    BY <2>2 DEF p, t, o, s
  <2> HIDE DEF c
  <2> QED BY <1>1, <2>3 DEF DimOf
<1> HIDE DEF c, p, t, o, s, m
<1>6. OfSize(c, n) /\ c.offset = p /\ c.stride = t /\ c.shape = m
  <2>1. n = 1 => ~IsTensor(p) /\ t.val = 0
    BY <1>1, <1>2, <1>3
  <2> QED BY <1>1, <1>2, <1>3, <1>5, <2>1, DimIs
<1>7. ASSUME ~IsTensor(o), ~DimHasModulo(dim), NEW i \in 0 .. n - 1
      PROVE  Term(c, i) = -Term(dim, i)
  <2>1. m.val = 0
    BY <1>7, DimFacts DEF m
  <2>2. Term(dim, i) = At(o, i) + i * s.val
    BY <1>7, <2>1, TermIs DEF o, s, m
  <2>3. Term(c, i) = At(p, i) + i * t.val
    BY <1>3, <1>6, <1>7, <2>1, TermIs
  <2>4. At(p, i) = 0 - At(o, i) /\ At(o, i) \in Int
    BY <1>1, <1>3, <1>7, NumberFacts, OffsetFacts
  <2>5. i * (-s.val) = -(i * s.val)
    BY <1>2
  <2> DEFINE x == i * s.val
             y == At(o, i)
  <2>6. x \in Int /\ y \in Int /\ Term(dim, i) = y + x /\ Term(c, i) = (0 - y) + (-x)
    BY <1>2, <2>2, <2>3, <2>4, <2>5
  <2> HIDE DEF x, y
  <2> QED BY <2>6
<1> QED BY <1>2, <1>3, <1>4, <1>6, <1>7 DEF c, o, s, m

-----------------------------------------------------------------------------
(* Scalars, and the sum of two dimensions *)

(* The scalar of a state: not a number the compiler takes for zero. *)
Scalars == [kind : {"value"}, val : Int] \cup [kind : {"constant"}, val : Int \ {0}]

LEMMA ScalarFacts ==
  /\ \A k \in Scalars : /\ k \in Numbers /\ Present(k) /\ ~IsTensor(k) /\ ~HasConstZero(k) /\ k.val \in Int
                        /\ (IsConst(k) => k.val # 0) /\ k # Absent /\ ~IsAttr(k)
  /\ \A n \in Int : Value(n) \in Scalars /\ (n # 0 => Const(n) \in Scalars)
  /\ ~Present(Absent)
<1>1. ASSUME NEW k \in Scalars
      PROVE  /\ k \in Numbers /\ Present(k) /\ ~IsTensor(k) /\ ~HasConstZero(k) /\ k.val \in Int
             /\ (IsConst(k) => k.val # 0) /\ k # Absent /\ ~IsAttr(k)
  BY DEF Scalars, Numbers, Present, IsTensor, HasConstZero, IsConst, Absent, IsAttr
<1>2. ASSUME NEW n \in Int PROVE Value(n) \in Scalars /\ (n # 0 => Const(n) \in Scalars)
  BY DEF Scalars, Value, Const
<1> QED BY <1>1, <1>2 DEF Present, Absent

LEMMA MulScalar ==
  ASSUME NEW a \in Numbers, NEW k \in Scalars
  PROVE  /\ MulOFRs(a, k) \in Numbers /\ MulOFRs(a, k).val = a.val * k.val
         /\ HasConstZero(MulOFRs(a, k)) <=> HasConstZero(a)
<1> DEFINE c == MulOFRs(a, k)
<1>1. a \in Offsets(1) /\ k \in Offsets(1) /\ ~IsTensor(a) /\ ~IsTensor(k) /\ a.val \in Int /\ k.val \in Int
  BY NumberFacts, ScalarFacts DEF Offsets
<1>2. c \in Numbers
  BY <1>1, MulIs, OffsetFacts
<1>3. c.val = a.val * k.val
  <2>1. 0 \in 0 .. 1 - 1
    OBVIOUS
  <2>2. At(c, 0) = At(a, 0) * At(k, 0)
    BY <1>1, <2>1, MulIs
  <2> HIDE DEF c
  <2> QED BY <1>1, <1>2, <2>2, NumberFacts, ScalarFacts
<1>4. HasConstZero(c) <=> HasConstZero(a)
  <2>1. CASE HasConstZero(a)
    <3>1. c = a
      BY <2>1, Zenon DEF MulOFRs, HasConstZero
    <3> QED BY <2>1, <3>1
  <2>2. CASE ~HasConstZero(a)
    <3>1. ~HasConstZero(k)
      BY ScalarFacts
    <3>2. c \in {k, a} \/ c = Emit(Times, a, k) \/ (IsConst(a) /\ IsConst(k) /\ c = Attr(a.val * k.val))
      BY <2>2, <3>1, Zenon DEF MulOFRs, HasConstZero
    <3>3. CASE c = Emit(Times, a, k)
      <4>1. Emit(Times, a, k) = Value(a.val * k.val)
        BY <1>1, Zenon DEF Emit, Times
      <4>2. ~HasConstZero(Value(a.val * k.val))
        BY DEF HasConstZero, IsConst, Value
      <4> QED BY <2>2, <3>3, <4>1, <4>2
    <3>4. CASE IsConst(a) /\ IsConst(k) /\ c = Attr(a.val * k.val)
      <4>1. a.val # 0 /\ k.val # 0
        BY <2>2, <3>4, ScalarFacts DEF HasConstZero
      <4>2. a.val * k.val # 0
        BY <1>1, <4>1
      <4>3. c.val # 0
        BY <1>3, <4>2
      <4> QED BY <2>2, <4>3 DEF HasConstZero
    <3> QED BY <2>2, <3>1, <3>2, <3>3, <3>4
  <2> QED BY <2>1, <2>2
<1> QED BY <1>2, <1>3, <1>4

(* What multiplying a state by the number k makes of a dimension.          *)
DimScales(c, dim, k, n, mode) ==
  /\ OfSize(c, n) /\ (IsTensor(c.offset) <=> IsTensor(dim.offset))
  /\ mode /\ ~HasConstZero(dim.stride) => ~HasConstZero(c.stride)
  /\ DimHasModulo(c) => DimHasModulo(dim) /\ ~IsTensor(dim.offset) /\ c.shape.val = dim.shape.val * k.val
  /\ IsTensor(dim.offset) /\ mode => \A i \in 0 .. n - 1 : Term(c, i) = Term(dim, i) * k.val
  /\ ~IsTensor(dim.offset) /\ (DimHasModulo(dim) => dim.shape.val > 0 /\ k.val > 0)
       => \A i \in 0 .. n - 1 : Term(c, i) = Term(dim, i) * k.val

LEMMA MulDimIs ==
  ASSUME NEW n, NEW dim, OfSize(dim, n), NEW k \in Scalars, NEW mode
  PROVE  DimScales(MulDim(dim, k, mode), dim, k, n, mode)
<1> DEFINE o == dim.offset
           s == dim.stride
           m == dim.shape
           c == MulDim(dim, k, mode)
           so == MulOFRs(s, k)
           mo == MulOFRs(m, k)
           oo == MulOFRs(o, k)
<1>1. o \in Offsets(n) /\ s \in Numbers /\ m \in Numbers /\ (n = 1 => ~IsTensor(o) /\ s.val = 0) /\ dim = DimOf(o, n, s, m)
  BY DEF OfSize
<1>2. /\ so \in Numbers /\ so.val = s.val * k.val /\ (HasConstZero(so) <=> HasConstZero(s))
      /\ mo \in Numbers /\ mo.val = m.val * k.val /\ (HasConstZero(mo) <=> HasConstZero(m))
      /\ ~IsTensor(o) => oo \in Numbers /\ oo.val = o.val * k.val
  BY <1>1, MulScalar, OffsetFacts
<1>3. Attr(0) \in Numbers /\ k.val \in Int /\ s.val \in Int /\ m.val \in Int /\ (~IsTensor(o) => o.val \in Int)
      /\ (n = 1 => so.val = 0)
  <2>1. k.val \in Int /\ s.val \in Int /\ m.val \in Int /\ (~IsTensor(o) => o.val \in Int)
    BY <1>1, NumberFacts, ScalarFacts, OffsetFacts
  <2>2. 0 * k.val = 0
    BY <2>1
  <2> QED BY <1>1, <1>2, <2>1, <2>2, NumberFacts
<1>4. ~DimHasModulo(dim) <=> m = Attr(0)
  BY DimFacts DEF m
<1>5. CASE ~IsTensor(o)
  <2>1. c = DimOf(oo, n, so, mo)
    <3>1. c = [dim EXCEPT !.offset = MulOFRs(dim.offset, k), !.stride = MulOFRs(dim.stride, k),
                          !.shape = MulOFRs(dim.shape, k)]
      BY <1>5 DEF MulDim
    <3> HIDE DEF oo, so, mo, c
    <3>2. c = [dim EXCEPT !.offset = oo, !.stride = so, !.shape = mo]
      BY <3>1 DEF oo, so, mo, o, s, m
    <3> HIDE DEF o, s, m
    <3> QED BY <1>1, <3>2 DEF DimOf
  <2>2. oo \in Offsets(n) /\ ~IsTensor(oo)
    BY <1>2, <1>5, NumberFacts DEF Offsets
  <2> HIDE DEF c, oo, so, mo, o, s, m
  <2>3. OfSize(c, n) /\ c.offset = oo /\ c.stride = so /\ c.shape = mo
    BY <1>2, <1>3, <2>1, <2>2, DimIs
  <2>4. DimHasModulo(c) => DimHasModulo(dim)
    <3>1. HasConstZero(mo) <=> mo = Attr(0)
      BY <1>2, NumberFacts
    <3>2. HasConstZero(m) <=> m = Attr(0)
      BY <1>1, NumberFacts
    <3>3. ~DimHasModulo(c) <=> mo = Attr(0)
      BY <2>3, DimFacts
    <3> QED BY <1>2, <1>4, <3>1, <3>2, <3>3
  <2>5. ASSUME DimHasModulo(dim) => m.val > 0 /\ k.val > 0, NEW i \in 0 .. n - 1
        PROVE  Term(c, i) = Term(dim, i) * k.val
    <3> DEFINE x == o.val + i * s.val
    <3>1. x \in Int /\ i \in Int
      BY <1>3, <1>5 DEF o
    <3>2. At(oo, i) + i * so.val = x * k.val /\ At(o, i) = o.val
      <4>1. At(oo, i) = o.val * k.val /\ At(o, i) = o.val
        BY <1>1, <1>2, <1>5, NumberFacts, OffsetFacts
      <4> DEFINE a == o.val
                 b == s.val
                 d == k.val
      <4>2. a \in Int /\ b \in Int /\ d \in Int
        BY <1>3, <1>5
      <4> HIDE DEF a, b, d
      <4>3. a * d + i * (b * d) = (a + i * b) * d
        BY <3>1, <4>2
      <4> QED BY <1>2, <4>1, <4>3 DEF a, b, d
    <3> HIDE DEF x
    <3>3. CASE m.val = 0
      <4>1. Term(dim, i) = x
        BY <1>5, <3>2, <3>3, TermIs DEF o, s, m, x
      <4>2. 0 * k.val = 0
        BY <1>3
      <4>3. c.shape.val = 0
        BY <1>2, <2>3, <3>3, <4>2
      <4>4. Term(c, i) = x * k.val
        BY <2>2, <2>3, <3>2, <4>3, TermIs
      <4> QED BY <4>1, <4>4
    <3>4. CASE m.val > 0 /\ k.val > 0
      <4>1. m.val * k.val > 0
        BY <1>3, <3>4
      <4>2. Term(dim, i) = RemSI(x, m.val)
        <5>1. m.val # 0
          BY <1>3, <3>4
        <5> QED BY <1>5, <3>2, <5>1, TermIs DEF o, s, m, x
      <4>3. c.shape.val # 0 /\ c.shape.val = m.val * k.val
        <5> DEFINE z == m.val * k.val
        <5>1. z > 0 /\ z \in Int /\ c.shape.val = z
          BY <1>2, <1>3, <2>3, <4>1
        <5> HIDE DEF z
        <5> QED BY <5>1 DEF z
      <4>4. Term(c, i) = RemSI(x * k.val, m.val * k.val)
        BY <2>2, <2>3, <3>2, <4>3, TermIs
      <4>5. RemSI(x * k.val, m.val * k.val) = RemSI(x, m.val) * k.val
        <5> DEFINE y == m.val
                   z == k.val
        <5>1. y \in Int /\ y > 0 /\ z \in Int /\ z > 0
          BY <1>3, <3>4
        <5> HIDE DEF y, z
        <5>2. RemSI(x * z, y * z) = RemSI(x, y) * z
          BY <3>1, <5>1, RemScaled
        <5> QED BY <5>2 DEF y, z
      <4> QED BY <4>2, <4>4, <4>5
    <3>5. ~DimHasModulo(dim) => m.val = 0
      BY DimFacts DEF m
    <3> QED BY <2>5, <3>3, <3>4, <3>5
  <2> QED BY <1>2, <1>5, <2>2, <2>3, <2>4, <2>5 DEF c, o, s, m, DimScales
<1>6. CASE IsTensor(o) /\ mode
  <2>1. c = DimOf(o, n, so, Attr(0))
    <3>1. c = [dim EXCEPT !.stride = MulOFRs(dim.stride, k), !.shape = Attr(0)]
      BY <1>6 DEF MulDim
    <3> HIDE DEF so, c
    <3>2. c = [dim EXCEPT !.stride = so, !.shape = Attr(0)]
      BY <3>1 DEF so, s
    <3> HIDE DEF o, s, m
    <3> QED BY <1>1, <3>2 DEF DimOf
  <2> HIDE DEF c, so, o, s, m
  <2>2. OfSize(c, n) /\ c.offset = o /\ c.stride = so /\ c.shape = Attr(0)
    BY <1>1, <1>2, <1>3, <2>1, DimIs
  <2>3. ~DimHasModulo(c)
    BY <2>2, DimFacts
  <2>4. ASSUME NEW i \in 0 .. n - 1 PROVE Term(c, i) = Term(dim, i) * k.val
    <3> DEFINE a == At(o, i)
               b == s.val
               d == k.val
    <3>1. a \in Int /\ b \in Int /\ d \in Int /\ so.val = b * d
      BY <1>1, <1>2, <1>3, OffsetFacts
    <3>2. Term(dim, i) = a * b
      BY <1>6, TermIs DEF o, s
    <3>3. Term(c, i) = a * (b * d)
      BY <1>6, <2>2, <3>1, TermIs
    <3> HIDE DEF a, b, d
    <3>4. Term(c, i) = Term(dim, i) * d
      BY <3>1, <3>2, <3>3
    <3> QED BY <3>4 DEF d
  <2> QED BY <1>2, <1>6, <2>2, <2>3, <2>4 DEF c, o, s, DimScales
<1>7. CASE IsTensor(o) /\ ~mode
  <2>1. c = DimOf(o, n, s, Attr(0))
    <3>1. c = [dim EXCEPT !.shape = Attr(0)]
      BY <1>7 DEF MulDim
    <3> HIDE DEF o, s, m, c
    <3> QED BY <1>1, <3>1 DEF DimOf
  <2> HIDE DEF c, o, s, m
  <2>2. OfSize(c, n) /\ c.offset = o /\ c.shape = Attr(0)
    BY <1>1, <1>3, <2>1, DimIs
  <2>3. ~DimHasModulo(c)
    BY <2>2, DimFacts
  <2> QED BY <1>7, <2>2, <2>3 DEF c, o, DimScales
<1> QED BY <1>5, <1>6, <1>7

-----------------------------------------------------------------------------
(* States of one or two dimensions *)

(* A sequence of one or two integers. *)
LEMMA SumIs ==
  ASSUME NEW seq \in Seq(Int), Len(seq) \in {1, 2}
  PROVE  Sum(seq) = IF Len(seq) = 1 THEN seq[1] ELSE seq[1] + seq[2]
<1> DEFINE len == Len(seq)
           F(f) == [n \in 0 .. len |-> IF n = 0 THEN 0 ELSE f[n - 1] + seq[n]]
           sum == CHOOSE f : f = F(f)
           g == [n \in 0 .. len |-> IF n = 0 THEN 0 ELSE IF n = 1 THEN seq[1] ELSE seq[1] + seq[2]]
<1>1. Sum(seq) = sum[len]
  BY DEF Sum
<1>2. len \in {1, 2} /\ seq[1] \in Int /\ (len = 2 => seq[2] \in Int)
  OBVIOUS
<1> HIDE DEF len
<1>3. \E f : f = F(f)
  <2>1. \A n \in 0 .. len : g[n] = IF n = 0 THEN 0 ELSE g[n - 1] + seq[n]
    BY <1>2
  <2>2. g = [n \in 0 .. len |-> g[n]]
    OBVIOUS
  <2> HIDE DEF g
  <2>3. g = F(g)
    BY <2>1, <2>2
  <2> QED BY <2>3
<1>4. sum = F(sum)
  BY <1>3, Zenon
<1> HIDE DEF sum
<1>5. \A n \in 0 .. len : sum[n] = IF n = 0 THEN 0 ELSE sum[n - 1] + seq[n]
  BY <1>4
<1>6. sum[0] = 0 /\ sum[1] = seq[1] /\ (len = 2 => sum[2] = seq[1] + seq[2])
  BY <1>2, <1>5
<1> QED BY <1>1, <1>2, <1>6 DEF len
-----------------------------------------------------------------------------
TensorShapes == {s \in Seq(Nat \ {0}) : Len(s) \in 1 .. 2}

LEMMA ShapeFacts ==
  ASSUME NEW s \in TensorShapes
  PROVE  /\ Len(s) \in {1, 2} /\ DOMAIN s = 1 .. Len(s) /\ 1 \in DOMAIN s /\ s # <<>>
         /\ \A d \in DOMAIN s : s[d] \in Nat /\ s[d] >= 1
<1>1. s \in Seq(Nat \ {0}) /\ Len(s) \in 1 .. 2
  BY DEF TensorShapes
<1>2. DOMAIN s = 1 .. Len(s) /\ \A d \in 1 .. Len(s) : s[d] \in Nat \ {0}
  BY <1>1, LenProperties, ElementOfSeq
<1>3. Len(<<>>) = 0
  OBVIOUS
<1> QED BY <1>1, <1>2, <1>3

(* A function on the dimensions of a tensor is a sequence. *)
LEMMA OverDims ==
  ASSUME NEW S, NEW n \in Nat, NEW f \in [1 .. n -> S]
  PROVE  f \in Seq(S) /\ Len(f) = n
  BY IsASeq, LenProperties, SeqDef

(* The indices of a tensor, whatever its rank. *)
LEMMA ElementsAre ==
  ASSUME NEW s \in TensorShapes
  PROVE  \A x : x \in Elements(s) <=> x \in [DOMAIN s -> Int] /\ \A d \in DOMAIN s : x[d] \in 0 .. s[d] - 1
<1>1. CASE Len(s) = 1
  <2>1. Elements(s) = {<<i>> : i \in 0 .. s[1] - 1} /\ DOMAIN s = 1 .. 1
    <3>1. ~(Len(s) = 0) /\ ~(Len(s) = 2)
      BY <1>1
    <3>2. DOMAIN s = 1 .. 1
      BY <1>1, ShapeFacts
    <3> QED BY <1>1, <3>1, <3>2 DEF Elements
  <2>2. s[1] \in Nat
    BY <1>1, ShapeFacts
  <2>3. ASSUME NEW x, x \in [1 .. 1 -> Int]
        PROVE  x = <<x[1]>>
    BY <2>3
  <2> QED BY <2>1, <2>2, <2>3
<1>2. CASE Len(s) = 2
  <2>1. Elements(s) = {<<i, j>> : i \in 0 .. s[1] - 1, j \in 0 .. s[2] - 1} /\ DOMAIN s = 1 .. 2
    <3>1. ~(Len(s) = 0) /\ ~(Len(s) = 1)
      BY <1>2
    <3>2. DOMAIN s = 1 .. 2
      BY <1>2, ShapeFacts
    <3> QED BY <1>2, <3>1, <3>2 DEF Elements
  <2>2. s[1] \in Nat /\ s[2] \in Nat
    BY <1>2, ShapeFacts
  <2>3. ASSUME NEW x, x \in [1 .. 2 -> Int]
        PROVE  x = <<x[1], x[2]>>
    BY <2>3
  <2>4. 1 .. 2 = {1, 2}
    OBVIOUS
  <2>5. ASSUME NEW x, x \in Elements(s)
        PROVE  x \in [DOMAIN s -> Int] /\ \A d \in DOMAIN s : x[d] \in 0 .. s[d] - 1
    BY <2>1, <2>2, <2>4, <2>5
  <2>6. ASSUME NEW x, x \in [DOMAIN s -> Int], \A d \in DOMAIN s : x[d] \in 0 .. s[d] - 1
        PROVE  x \in Elements(s)
    <3>1. x = <<x[1], x[2]>> /\ x[1] \in 0 .. s[1] - 1 /\ x[2] \in 0 .. s[2] - 1
      BY <2>1, <2>3, <2>4, <2>6
    <3> QED BY <2>1, <3>1
  <2> QED BY <2>5, <2>6
<1> QED BY <1>1, <1>2, ShapeFacts

LEMMA AtMostOne ==
  ASSUME NEW S, IsFiniteSet(S)
  PROVE  /\ Cardinality(S) <= 0 => S = {}
         /\ Cardinality(S) <= 1 => \A x \in S, y \in S : x = y
<1>1. Cardinality(S) \in Nat /\ (Cardinality(S) = 0 <=> S = {})
  BY FS_CardinalityType, FS_EmptySet
<1>2. Cardinality(S) = 1 <=> \E x : S = {x}
  BY FS_Singleton
<1>3. Cardinality(S) <= 1 => Cardinality(S) = 0 \/ Cardinality(S) = 1
  BY <1>1
<1> QED BY <1>1, <1>2, <1>3

-----------------------------------------------------------------------------
(* A state of a tensor has its rank and its sizes, and at most one of its  *)
(* dimensions is a gather.                                                 *)

Formed(st, shape) ==
  /\ st = State(st.source, st.scalar, st.dims)
  /\ st.scalar \in Scalars \cup {Absent}
  /\ st.dims = [d \in DOMAIN shape |-> st.dims[d]]
  /\ \A d \in DOMAIN shape : OfSize(st.dims[d], shape[d])
  /\ \A d \in DOMAIN shape, e \in DOMAIN shape :
       IsTensor(st.dims[d].offset) /\ IsTensor(st.dims[e].offset) => d = e

LEMMA StateIs ==
  \A p, k, dims : /\ State(p, k, dims).scalar = k /\ State(p, k, dims).dims = dims
                  /\ State(p, k, dims).source = p /\ Ok(State(p, k, dims))
                  /\ \A new : [State(p, k, dims) EXCEPT !.dims = new] = State(p, k, new)
  BY DEF State, Ok

LEMMA NotFormed ==
  ~Ok(Failure) /\ ~Ok(Assertion) /\ Failure # Assertion /\ Failure.scalar = Absent /\ Assertion.scalar = Absent
  BY DEF Ok, Failure, Assertion

LEMMA Forms ==
  ASSUME NEW shape \in TensorShapes, NEW isPtr, NEW k \in Scalars \cup {Absent}, NEW dims,
         dims = [d \in DOMAIN shape |-> dims[d]], \A d \in DOMAIN shape : OfSize(dims[d], shape[d]),
         \A d \in DOMAIN shape, e \in DOMAIN shape :
           IsTensor(dims[d].offset) /\ IsTensor(dims[e].offset) => d = e
  PROVE  Formed(State(isPtr, k, dims), shape)
<1> DEFINE st == State(isPtr, k, dims)
<1>1. st.scalar = k /\ st.dims = dims /\ st.source = isPtr
  BY StateIs
<1> HIDE DEF st
<1>2. Formed(st, shape)
  BY <1>1 DEF Formed, st
<1> QED BY <1>2 DEF st

LEMMA StateFacts ==
  ASSUME NEW shape \in TensorShapes, NEW st, Formed(st, shape)
  PROVE  /\ Ok(st) /\ DOMAIN st.dims = DOMAIN shape /\ Rank(st) = Len(shape)
         /\ st.scalar = Absent \/ st.scalar \in Scalars
         /\ Present(st.scalar) <=> st.scalar \in Scalars
         /\ Unstructured(st) = {d \in DOMAIN shape : IsTensor(st.dims[d].offset)}
         /\ IsFiniteSet(Unstructured(st)) /\ Cardinality(Unstructured(st)) <= 1
         /\ \A d \in Unstructured(st) : Unstructured(st) = {d} /\ getNonStructuredDim(st) = d
         /\ HasModulo(st) <=> \E d \in DOMAIN shape : DimHasModulo(st.dims[d])
         /\ st # Failure /\ st # Assertion
<1>1. st = State(st.source, st.scalar, st.dims)
  BY DEF Formed
<1>2. Ok(st)
  <2> DEFINE k == st.scalar
             isPtr == st.source
             f == st.dims
  <2>1. st = State(isPtr, k, f)
    BY <1>1
  <2> HIDE DEF k, f, isPtr
  <2> QED BY <2>1, StateIs
<1>3. DOMAIN st.dims = DOMAIN shape /\ Rank(st) = Len(shape)
  <2>1. DOMAIN shape = 1 .. Len(shape) /\ Len(shape) \in Nat
    BY ShapeFacts
  <2> DEFINE S == {st.dims[d] : d \in DOMAIN shape}
             f == st.dims
  <2>2. f = [d \in DOMAIN shape |-> f[d]]
    BY DEF Formed
  <2>3. f \in [1 .. Len(shape) -> S]
    <3>1. \A d \in DOMAIN shape : f[d] \in S
      OBVIOUS
    <3> HIDE DEF S, f
    <3> QED BY <2>1, <2>2, <3>1
  <2> HIDE DEF S
  <2>4. Len(f) = Len(shape)
    BY <2>1, <2>3, OverDims
  <2> QED BY <2>1, <2>3, <2>4 DEF Rank
<1>4. Unstructured(st) = {d \in DOMAIN shape : IsTensor(st.dims[d].offset)}
  BY <1>3 DEF Unstructured
<1>5. \A d \in Unstructured(st), e \in Unstructured(st) : d = e
  BY <1>4 DEF Formed
<1>6. IsFiniteSet(Unstructured(st)) /\ Cardinality(Unstructured(st)) <= 1
  <2>1. CASE Unstructured(st) = {}
    BY <2>1, FS_EmptySet
  <2>2. CASE Unstructured(st) # {}
    <3>1. PICK d : Unstructured(st) = {d}
      BY <1>5, <2>2
    <3>2. IsFiniteSet(Unstructured(st)) /\ Cardinality(Unstructured(st)) = 1
      BY <3>1, FS_Singleton
    <3> QED BY <3>2
  <2> QED BY <2>1, <2>2
<1>7. ASSUME NEW d \in Unstructured(st) PROVE Unstructured(st) = {d} /\ getNonStructuredDim(st) = d
  <2>1. Unstructured(st) = {d}
    BY <1>5
  <2>2. getNonStructuredDim(st) \in Unstructured(st)
    BY DEF getNonStructuredDim
  <2> QED BY <2>1, <2>2
<1>8. HasModulo(st) <=> \E d \in DOMAIN shape : DimHasModulo(st.dims[d])
  BY <1>3 DEF HasModulo
<1>9. /\ st.scalar = Absent \/ st.scalar \in Scalars
      /\ Present(st.scalar) <=> st.scalar \in Scalars
  BY ScalarFacts DEF Formed
<1> QED BY <1>2, <1>3, <1>4, <1>6, <1>7, <1>8, <1>9, NotFormed

(* The modulos of a state are positive. *)
Positive(st) == \A d \in DOMAIN st.dims : DimHasModulo(st.dims[d]) => st.dims[d].shape.val > 0

LEMMA TermInt ==
  ASSUME NEW n, NEW dim, OfSize(dim, n), DimHasModulo(dim) => dim.shape.val > 0, NEW i \in 0 .. n - 1
  PROVE  Term(dim, i) \in Int
<1>1. dim.shape.val >= 0
  BY DimFacts
<1> QED BY <1>1, TermIs

LEMMA DecodedIs ==
  ASSUME NEW shape \in TensorShapes, NEW st, Formed(st, shape), Positive(st), NEW x \in Elements(shape)
  PROVE  /\ \A d \in DOMAIN shape : x[d] \in 0 .. shape[d] - 1 /\ Term(st.dims[d], x[d]) \in Int
         /\ Len(shape) = 1 => Decoded(st, x) = Term(st.dims[1], x[1])
         /\ Len(shape) = 2 => Decoded(st, x) = Term(st.dims[1], x[1]) + Term(st.dims[2], x[2])
<1> DEFINE seq == [d \in DOMAIN st.dims |-> Term(st.dims[d], x[d])]
<1>1. DOMAIN st.dims = DOMAIN shape /\ DOMAIN shape = 1 .. Len(shape) /\ Len(shape) \in {1, 2}
  BY StateFacts, ShapeFacts
<1>2. \A d \in DOMAIN shape : x[d] \in 0 .. shape[d] - 1 /\ Term(st.dims[d], x[d]) \in Int
  <2> SUFFICES ASSUME NEW d \in DOMAIN shape
               PROVE  x[d] \in 0 .. shape[d] - 1 /\ Term(st.dims[d], x[d]) \in Int
    OBVIOUS
  <2>1. OfSize(st.dims[d], shape[d]) /\ (DimHasModulo(st.dims[d]) => st.dims[d].shape.val > 0)
    BY <1>1 DEF Formed, Positive
  <2>2. x[d] \in 0 .. shape[d] - 1
    BY ElementsAre
  <2> QED BY <2>1, <2>2, TermInt
<1>3. seq \in [1 .. Len(shape) -> Int] /\ \A d \in DOMAIN shape : seq[d] = Term(st.dims[d], x[d])
  BY <1>1, <1>2
<1>4. Decoded(st, x) = Sum(seq)
  BY DEF Decoded
<1> HIDE DEF seq
<1>5. seq \in Seq(Int) /\ Len(seq) = Len(shape)
  BY <1>1, <1>3, OverDims
<1>6. Decoded(st, x) = IF Len(shape) = 1 THEN seq[1] ELSE seq[1] + seq[2]
  BY <1>1, <1>4, <1>5, SumIs
<1>7. 1 \in DOMAIN shape /\ (Len(shape) = 2 => 2 \in DOMAIN shape)
  BY <1>1
<1>8. seq[1] = Term(st.dims[1], x[1]) /\ (Len(shape) = 2 => seq[2] = Term(st.dims[2], x[2]))
  BY <1>3, <1>7
<1>9. CASE Len(shape) = 1
  <2>1. Decoded(st, x) = seq[1]
    BY <1>6, <1>9
  <2> QED BY <1>2, <1>8, <1>9, <2>1
<1>10. CASE Len(shape) = 2
  <2>1. Decoded(st, x) = seq[1] + seq[2]
    BY <1>6, <1>10
  <2> QED BY <1>2, <1>8, <1>10, <2>1
<1> QED BY <1>1, <1>9, <1>10

LEMMA DecodedInt ==
  ASSUME NEW shape \in TensorShapes, NEW st, Formed(st, shape), Positive(st), NEW x \in Elements(shape)
  PROVE  Decoded(st, x) \in Int
<1>1. Len(shape) \in {1, 2} /\ DOMAIN shape = 1 .. Len(shape)
  BY ShapeFacts
<1>2. 1 \in DOMAIN shape /\ (Len(shape) = 2 => 2 \in DOMAIN shape)
  BY <1>1
<1>3. CASE Len(shape) = 1
  <2>1. Decoded(st, x) = Term(st.dims[1], x[1])
    BY <1>3, DecodedIs
  <2>2. Term(st.dims[1], x[1]) \in Int
    BY <1>2, DecodedIs
  <2> QED BY <2>1, <2>2
<1>4. CASE Len(shape) = 2
  <2>1. Decoded(st, x) = Term(st.dims[1], x[1]) + Term(st.dims[2], x[2])
    BY <1>4, DecodedIs
  <2>2. Term(st.dims[1], x[1]) \in Int /\ Term(st.dims[2], x[2]) \in Int
    BY <1>2, <1>4, DecodedIs
  <2> QED BY <2>1, <2>2
<1> QED BY <1>1, <1>3, <1>4

(* Decoding is linear. *)
LEMMA DecodedSum ==
  ASSUME NEW shape \in TensorShapes, NEW l, NEW r, NEW c,
         Formed(l, shape), Formed(r, shape), Formed(c, shape), Positive(l), Positive(r), Positive(c),
         NEW x \in Elements(shape),
         \A d \in DOMAIN shape : Term(c.dims[d], x[d]) = Term(l.dims[d], x[d]) + Term(r.dims[d], x[d])
  PROVE  Decoded(c, x) = Decoded(l, x) + Decoded(r, x)
<1>1. Len(shape) \in {1, 2} /\ DOMAIN shape = 1 .. Len(shape)
  BY ShapeFacts
<1>2. CASE Len(shape) = 1
  BY <1>1, <1>2, DecodedIs
<1>3. CASE Len(shape) = 2
  <2>1. 1 \in DOMAIN shape /\ 2 \in DOMAIN shape
    BY <1>1, <1>3
  <2> DEFINE a == Term(l.dims[1], x[1])
             b == Term(l.dims[2], x[2])
             f == Term(r.dims[1], x[1])
             g == Term(r.dims[2], x[2])
  <2>2. a \in Int /\ b \in Int /\ f \in Int /\ g \in Int
    BY <2>1, DecodedIs
  <2>3. Decoded(l, x) = a + b /\ Decoded(r, x) = f + g /\ Decoded(c, x) = (a + f) + (b + g)
    BY <1>3, <2>1, DecodedIs
  <2> HIDE DEF a, b, f, g
  <2> QED BY <2>2, <2>3
<1> QED BY <1>1, <1>2, <1>3

Scales(c, l, k, x, shape) == \A d \in DOMAIN shape : Term(c.dims[d], x[d]) = Term(l.dims[d], x[d]) * k

LEMMA DecodedScaled ==
  ASSUME NEW shape \in TensorShapes, NEW l, NEW c, NEW k \in Int,
         Formed(l, shape), Formed(c, shape), Positive(l), Positive(c), NEW x \in Elements(shape),
         Scales(c, l, k, x, shape)
  PROVE  Decoded(c, x) = Decoded(l, x) * k
<1>1. Len(shape) \in {1, 2} /\ DOMAIN shape = 1 .. Len(shape)
  BY ShapeFacts
<1>2. CASE Len(shape) = 1
  BY <1>1, <1>2, DecodedIs DEF Scales
<1>3. CASE Len(shape) = 2
  <2>1. 1 \in DOMAIN shape /\ 2 \in DOMAIN shape
    BY <1>1, <1>3
  <2> DEFINE a == Term(l.dims[1], x[1])
             b == Term(l.dims[2], x[2])
  <2>2. a \in Int /\ b \in Int
    BY <2>1, DecodedIs
  <2>3. Decoded(l, x) = a + b /\ Decoded(c, x) = a * k + b * k
    BY <1>3, <2>1, DecodedIs DEF Scales
  <2> HIDE DEF a, b
  <2> QED BY <2>2, <2>3
<1> QED BY <1>1, <1>2, <1>3

LEMMA DecodedSame ==
  ASSUME NEW shape \in TensorShapes, NEW l, NEW c,
         Formed(l, shape), Formed(c, shape), Positive(l), Positive(c), NEW x \in Elements(shape),
         \A d \in DOMAIN shape : Term(c.dims[d], x[d]) = Term(l.dims[d], x[d])
  PROVE  Decoded(c, x) = Decoded(l, x)
<1>1. Len(shape) \in {1, 2} /\ DOMAIN shape = 1 .. Len(shape)
  BY ShapeFacts
<1>2. 1 \in DOMAIN shape /\ (Len(shape) = 2 => 2 \in DOMAIN shape)
  BY <1>1
<1>3. /\ Len(shape) = 1 => Decoded(l, x) = Term(l.dims[1], x[1])
      /\ Len(shape) = 2 => Decoded(l, x) = Term(l.dims[1], x[1]) + Term(l.dims[2], x[2])
  BY DecodedIs
<1>4. /\ Len(shape) = 1 => Decoded(c, x) = Term(c.dims[1], x[1])
      /\ Len(shape) = 2 => Decoded(c, x) = Term(c.dims[1], x[1]) + Term(c.dims[2], x[2])
  BY DecodedIs
<1> QED BY <1>1, <1>2, <1>3, <1>4

(* One dimension decodes the element, the others add nothing. *)
LEMMA DecodedOne ==
  ASSUME NEW shape \in TensorShapes, NEW st, Formed(st, shape), Positive(st), NEW x \in Elements(shape),
         NEW d \in DOMAIN shape, \A e \in DOMAIN shape : e # d => Term(st.dims[e], x[e]) = 0
  PROVE  Decoded(st, x) = Term(st.dims[d], x[d])
<1>1. Len(shape) \in {1, 2} /\ DOMAIN shape = 1 .. Len(shape)
  BY ShapeFacts
<1>2. CASE Len(shape) = 1
  BY <1>1, <1>2, DecodedIs
<1>3. CASE Len(shape) = 2
  <2>1. 1 \in DOMAIN shape /\ 2 \in DOMAIN shape /\ d \in {1, 2}
    BY <1>1, <1>3
  <2>2. Decoded(st, x) = Term(st.dims[1], x[1]) + Term(st.dims[2], x[2])
        /\ Term(st.dims[1], x[1]) \in Int /\ Term(st.dims[2], x[2]) \in Int
    BY <1>3, <2>1, DecodedIs
  <2>3. CASE d = 1
    BY <2>1, <2>2, <2>3
  <2>4. CASE d = 2
    BY <2>1, <2>2, <2>4
  <2> QED BY <2>1, <2>3, <2>4
<1> QED BY <1>1, <1>2, <1>3

-----------------------------------------------------------------------------
(* addState *)

(* No gather's stride is a constant zero. *)
Ready(st) == \A d \in Unstructured(st) : ~HasConstZero(st.dims[d].stride)

(* Nothing is added in a dimension with a modulo. *)
Adds(dim) == IsTensor(dim.offset) \/ ~HasConstZero(dim.offset) \/ dim.stride.val # 0

Unshifted(l, r) ==
  \A d \in DOMAIN l.dims :
    /\ DimHasModulo(l.dims[d]) /\ ~IsTensor(r.dims[d].offset) => ~Adds(r.dims[d])
    /\ DimHasModulo(r.dims[d]) /\ ~IsTensor(l.dims[d].offset) => ~Adds(l.dims[d])

(* No range is added to a gather. *)
Undropped(l, r) ==
  \A d \in Unstructured(l) \cup Unstructured(r) :
    /\ IsTensor(l.dims[d].offset) \/ HasConstZero(l.dims[d].stride)
    /\ IsTensor(r.dims[d].offset) \/ HasConstZero(r.dims[d].stride)

SumState(l, r, mode) ==
  LET lhs == IF HasModulo(r) THEN r ELSE l
      rhs == IF HasModulo(r) THEN l ELSE r
  IN State(l.source \/ r.source, AddScalar(l, r),
       [d \in DOMAIN l.dims |-> [AddDim(l.dims[d], r.dims[d], mode) EXCEPT !.shape = SumShape(lhs, rhs, d)]])

LEMMA AddResult ==
  ASSUME NEW shape \in TensorShapes, NEW l, NEW r,
         Formed(l, shape), Formed(r, shape), ~(l.source /\ r.source), NEW mode
  PROVE  LET c == addState(l, r, mode) IN
           /\ c \in {Failure, Assertion} \/ c = SumState(l, r, mode)
           /\ c = SumState(l, r, mode) =>
                /\ ~(HasModulo(l) /\ HasModulo(r))
                /\ \A d \in Unstructured(l), e \in Unstructured(r) : d = e
                /\ mode => \A d \in Unstructured(l) \cup Unstructured(r) : GatherAssert(l.dims[d], r.dims[d])
           /\ ~mode => c # Assertion
           /\ ~HasModulo(l) /\ ~HasModulo(r) /\ Ready(l) /\ Ready(r) => c # Assertion
           /\ IsStructured(l) /\ IsStructured(r) /\ ~HasModulo(l) /\ ~HasModulo(r) => c = SumState(l, r, mode)
<1> DEFINE c == addState(l, r, mode)
           s == SumState(l, r, mode)
           lhs == IF HasModulo(r) THEN r ELSE l
           rhs == IF HasModulo(r) THEN l ELSE r
           shifted == {d \in DOMAIN l.dims : Shifted(lhs, rhs, d)}
           gathers == Unstructured(l) \cup Unstructured(r)
           A == mode /\ gathers # {} => ~HasModulo(l) /\ ~HasModulo(r) /\ \A d \in gathers : GatherAssert(l.dims[d], r.dims[d])
           R == Refused(l, r)
<1>1. /\ Rank(l) = Len(shape) /\ Rank(r) = Len(shape) /\ Len(shape) \in {1, 2}
      /\ Cardinality(Unstructured(l)) <= 1 /\ Cardinality(Unstructured(r)) <= 1
      /\ DOMAIN l.dims = DOMAIN shape
  BY StateFacts, ShapeFacts
<1>2. AddAssert(l, r, mode) <=> A
  BY <1>1 DEF AddAssert
<1>3. R <=> \/ HasModulo(l) /\ HasModulo(r)
            \/ ~IsStructured(l) /\ ~IsStructured(r) /\ getNonStructuredDim(l) # getNonStructuredDim(r)
  BY <1>1 DEF Refused
<1>4. ~R => \A d \in Unstructured(l), e \in Unstructured(r) : d = e
  <2>1. \A d \in Unstructured(l) : getNonStructuredDim(l) = d
    BY StateFacts
  <2>2. \A e \in Unstructured(r) : getNonStructuredDim(r) = e
    BY StateFacts
  <2> HIDE DEF R
  <2> QED BY <1>3, <2>1, <2>2 DEF IsStructured
<1>5. Ok(s) /\ s # Failure /\ s # Assertion
  <2>1. Ok(s)
    BY DEF SumState, State, Ok
  <2> QED BY <2>1, NotFormed
<1>6. CASE ~A
  <2>1. c = Assertion
    BY <1>2, <1>6 DEF addState
  <2>2. mode /\ gathers # {}
    BY <1>6
  <2>3. ~(IsStructured(l) /\ IsStructured(r))
    BY <2>2 DEF IsStructured
  <2>4. ASSUME ~HasModulo(l), ~HasModulo(r), Ready(l), Ready(r), NEW d \in gathers
        PROVE  GatherAssert(l.dims[d], r.dims[d])
    <3>0. d \in DOMAIN shape
      BY StateFacts
    <3>1. /\ IsTensor(l.dims[d].offset) => ~HasConstZero(l.dims[d].stride)
          /\ IsTensor(r.dims[d].offset) => ~HasConstZero(r.dims[d].stride)
          /\ IsTensor(l.dims[d].offset) \/ IsTensor(r.dims[d].offset)
      BY <2>4, <3>0, StateFacts DEF Ready
    <3> QED BY <3>1, Zenon DEF GatherAssert
  <2>5. ~HasModulo(l) /\ ~HasModulo(r) /\ Ready(l) /\ Ready(r) => A
    BY <2>4
  <2> HIDE DEF c, s, A
  <2> QED BY <1>5, <1>6, <2>1, <2>2, <2>3, <2>5 DEF c, s
<1>7. CASE A /\ R
  <2>1. c = Failure
    BY <1>2, <1>7 DEF addState
  <2>2. ~(IsStructured(l) /\ IsStructured(r) /\ ~HasModulo(l) /\ ~HasModulo(r))
    BY <1>3, <1>7
  <2> HIDE DEF c, s, A, R
  <2> QED BY <1>5, <2>1, <2>2, NotFormed DEF c, s
<1>8. CASE A /\ ~R
  <2>1. c = IF shifted # {} /\ ~AllowedShift(lhs, rhs) THEN Failure ELSE s
    <3> HIDE DEF A, R
    <3>1. AddAssert(l, r, mode) /\ ~Refused(l, r)
      BY <1>2, <1>8 DEF R
    <3> QED BY <3>1, Zenon DEF addState, SumState
  <2>2. ~HasModulo(l) /\ ~HasModulo(r) => shifted = {}
    <3> HAVE ~HasModulo(l) /\ ~HasModulo(r)
    <3>1. lhs = l /\ \A d \in DOMAIN l.dims : ~DimHasModulo(l.dims[d])
      BY DEF HasModulo
    <3> HIDE DEF lhs, rhs
    <3> QED BY <3>1 DEF Shifted
  <2>3. mode => \A d \in gathers : GatherAssert(l.dims[d], r.dims[d])
    BY <1>8
  <2>4. c \in {Failure, s} /\ (~HasModulo(l) /\ ~HasModulo(r) => c = s)
    <3> HIDE DEF c, s, shifted, lhs, rhs
    <3> QED BY <2>1, <2>2
  <2>5. ~(HasModulo(l) /\ HasModulo(r))
    BY <1>3, <1>8
  <2> HIDE DEF c, s, A, R
  <2> QED BY <1>4, <1>5, <1>8, <2>3, <2>4, <2>5, NotFormed DEF c, s
<1> HIDE DEF A, R
<1> QED BY <1>6, <1>7, <1>8

LEMMA ScalarSum ==
  ASSUME NEW shape \in TensorShapes, NEW l, NEW r, Formed(l, shape), Formed(r, shape)
  PROVE  /\ AddScalar(l, r) = IF l.scalar \in Scalars /\ r.scalar \in Scalars
                                THEN Value(l.scalar.val + r.scalar.val) ELSE Absent
         /\ SumScalar(l, r, Times) = IF l.scalar \in Scalars /\ r.scalar \in Scalars
                                       THEN Value(l.scalar.val * r.scalar.val) ELSE Absent
<1>1. /\ Present(l.scalar) <=> l.scalar \in Scalars
      /\ Present(r.scalar) <=> r.scalar \in Scalars
      /\ Rank(l) # 0
  BY StateFacts, ShapeFacts
<1>2. CASE Present(l.scalar) /\ Present(r.scalar)
  <2>1. ~IsTensor(l.scalar) /\ ~IsTensor(r.scalar)
    BY <1>1, <1>2, ScalarFacts
  <2>2. /\ Emit(Plus, l.scalar, r.scalar) = Value(l.scalar.val + r.scalar.val)
        /\ Emit(Times, l.scalar, r.scalar) = Value(l.scalar.val * r.scalar.val)
    BY <2>1, Zenon DEF Emit, Plus, Times
  <2>3. /\ SumScalar(l, r, Plus) = Emit(Plus, l.scalar, r.scalar)
        /\ SumScalar(l, r, Times) = Emit(Times, l.scalar, r.scalar)
    BY <1>2, Zenon DEF SumScalar
  <2>4. AddScalar(l, r) = SumScalar(l, r, Plus)
    BY <1>1, Zenon DEF AddScalar
  <2> QED BY <1>1, <1>2, <2>2, <2>3, <2>4
<1>3. CASE ~(Present(l.scalar) /\ Present(r.scalar))
  <2>1. SumScalar(l, r, Plus) = Absent /\ SumScalar(l, r, Times) = Absent
    BY <1>3, Zenon DEF SumScalar
  <2>2. AddScalar(l, r) = SumScalar(l, r, Plus)
    BY <1>1, Zenon DEF AddScalar
  <2> QED BY <1>1, <1>3, <2>1, <2>2
<1> QED BY <1>2, <1>3

(* A dimension of the sum of two states. *)
SumModulo(l, r, d) ==
  SumShape(IF HasModulo(r) THEN r ELSE l, IF HasModulo(r) THEN l ELSE r, d)

LEMMA SumDims ==
  ASSUME NEW shape \in TensorShapes, NEW l, NEW r,
         Formed(l, shape), Formed(r, shape), NEW mode, NEW d \in DOMAIN shape
  PROVE  /\ SumState(l, r, mode).dims[d] = SummedDim(l.dims[d], r.dims[d], mode, SumModulo(l, r, d))
         /\ SumModulo(l, r, d) \in Numbers
         /\ DimSums(SumState(l, r, mode).dims[d], l.dims[d], r.dims[d], shape[d], SumModulo(l, r, d), mode)
         /\ Unshifted(l, r) \/ (~HasModulo(l) /\ ~HasModulo(r)) =>
              SumModulo(l, r, d) = IF IsTensor(l.dims[d].offset) \/ IsTensor(r.dims[d].offset) THEN Attr(0)
                                   ELSE IF HasModulo(r) THEN r.dims[d].shape ELSE l.dims[d].shape
<1> DEFINE lhs == IF HasModulo(r) THEN r ELSE l
           rhs == IF HasModulo(r) THEN l ELSE r
           m == SumModulo(l, r, d)
           c == SumState(l, r, mode).dims[d]
           tensor == IsTensor(l.dims[d].offset) \/ IsTensor(r.dims[d].offset)
<1>1. /\ DOMAIN l.dims = DOMAIN shape /\ DOMAIN r.dims = DOMAIN shape
      /\ OfSize(l.dims[d], shape[d]) /\ OfSize(r.dims[d], shape[d])
      /\ Rank(l) = Len(shape) /\ Rank(r) = Len(shape)
  BY StateFacts DEF Formed
<1>2. c = SummedDim(l.dims[d], r.dims[d], mode, m)
  <2> DEFINE f == [e \in DOMAIN l.dims |-> [AddDim(l.dims[e], r.dims[e], mode) EXCEPT !.shape = SumShape(lhs, rhs, e)]]
  <2>1. f[d] = SummedDim(l.dims[d], r.dims[d], mode, m)
    BY <1>1 DEF SummedDim, SumModulo
  <2>2. SumState(l, r, mode) = State(l.source \/ r.source, AddScalar(l, r), f)
    BY DEF SumState
  <2> HIDE DEF f
  <2>3. SumState(l, r, mode).dims = f
    BY <2>2, StateIs
  <2> QED BY <2>1, <2>3
<1>3. \A e \in DOMAIN shape : lhs.dims[e].shape \in Numbers
  BY DimFacts DEF Formed
<1>4. CASE AllowedShift(lhs, rhs)
  <2>1. m = lhs.dims[3 - d].shape /\ Rank(lhs) = 2 /\ Shifted(lhs, rhs, 1)
    BY <1>4, Zenon DEF SumModulo, SumShape, AllowedShift
  <2>2. 3 - d \in DOMAIN shape /\ 1 \in DOMAIN shape
    BY <1>1, <2>1, ShapeFacts
  <2>3. m \in Numbers
    BY <1>3, <2>1, <2>2
  <2>4. ~Unshifted(l, r)
    <3>1. /\ ~IsTensor(lhs.dims[1].offset) /\ ~IsTensor(rhs.dims[1].offset)
          /\ DimHasModulo(lhs.dims[1]) /\ ~HasConstZero(rhs.dims[1].offset)
      BY <2>1, Zenon DEF Shifted
    <3> QED BY <1>1, <2>2, <3>1 DEF Unshifted, Adds
  <2>5. HasModulo(l) \/ HasModulo(r)
    <3>1. DimHasModulo(lhs.dims[1])
      BY <2>1, Zenon DEF Shifted
    <3> QED BY <1>1, <2>2, <3>1 DEF HasModulo
  <2> HIDE DEF m, lhs, rhs
  <2>6. DimSums(c, l.dims[d], r.dims[d], shape[d], m, mode)
    BY <1>1, <1>2, <2>3, AddDimIs DEF c
  <2> QED BY <1>2, <2>3, <2>4, <2>5, <2>6 DEF c, m, lhs, rhs
<1>5. CASE ~AllowedShift(lhs, rhs)
  <2>1. m = IF IsTensor(lhs.dims[d].offset) \/ IsTensor(rhs.dims[d].offset) THEN Attr(0) ELSE lhs.dims[d].shape
    BY <1>5, Zenon DEF SumModulo, SumShape
  <2>2. m = IF tensor THEN Attr(0) ELSE lhs.dims[d].shape
    BY <2>1
  <2>3. m \in Numbers
    BY <1>3, <2>2, NumberFacts
  <2> HIDE DEF m, lhs, rhs
  <2>4. DimSums(c, l.dims[d], r.dims[d], shape[d], m, mode)
    BY <1>1, <1>2, <2>3, AddDimIs DEF c
  <2> QED BY <1>2, <2>2, <2>3, <2>4 DEF c, m, lhs, rhs
<1> QED BY <1>4, <1>5

-----------------------------------------------------------------------------
(* Sums with a modulo *)

LEMMA NoModulo ==
  ASSUME NEW shape \in TensorShapes, NEW l, NEW r, Formed(l, shape), NEW d \in DOMAIN shape,
         ~HasModulo(l), ~HasModulo(r)
  PROVE  SumModulo(l, r, d) = Attr(0)
<1>1. /\ OfSize(l.dims[d], shape[d]) /\ DOMAIN l.dims = DOMAIN shape /\ Rank(l) = Len(shape)
      /\ \A e \in DOMAIN shape : ~DimHasModulo(l.dims[e])
  BY StateFacts DEF Formed
<1>2. ~AllowedShift(l, r)
  <2>1. ~DimHasModulo(l.dims[1])
    BY <1>1, ShapeFacts
  <2> QED BY <2>1 DEF AllowedShift, Shifted
<1>3. l.dims[d].shape = Attr(0)
  BY <1>1, DimFacts
<1>4. SumModulo(l, r, d) = SumShape(l, r, d)
  BY Zenon DEF SumModulo
<1> QED BY <1>2, <1>3, <1>4, Zenon DEF SumShape

LEMMA SumFormed ==
  ASSUME NEW shape \in TensorShapes, NEW l, NEW r,
         Formed(l, shape), Formed(r, shape), NEW mode,
         \A d \in Unstructured(l), e \in Unstructured(r) : d = e
  PROVE  LET c == SumState(l, r, mode) IN
           /\ Formed(c, shape) /\ c.scalar = AddScalar(l, r)
           /\ c.source = (l.source \/ r.source)
           /\ Unstructured(c) = Unstructured(l) \cup Unstructured(r)
           /\ ~HasModulo(l) /\ ~HasModulo(r) => ~HasModulo(c)
<1> DEFINE c == SumState(l, r, mode)
           k == AddScalar(l, r)
           s == l.source \/ r.source
           dims == c.dims
<1>1. /\ DOMAIN l.dims = DOMAIN shape
      /\ Unstructured(l) = {d \in DOMAIN shape : IsTensor(l.dims[d].offset)}
      /\ Unstructured(r) = {d \in DOMAIN shape : IsTensor(r.dims[d].offset)}
      /\ \A d \in Unstructured(l), e \in Unstructured(l) : d = e
      /\ \A d \in Unstructured(r), e \in Unstructured(r) : d = e
  BY StateFacts
<1>2. c = State(s, k, dims) /\ c.source = s /\ c.scalar = k /\ dims = [d \in DOMAIN shape |-> dims[d]]
  <2> DEFINE lhs == IF HasModulo(r) THEN r ELSE l
             rhs == IF HasModulo(r) THEN l ELSE r
             f == [e \in DOMAIN l.dims |-> [AddDim(l.dims[e], r.dims[e], mode) EXCEPT !.shape = SumShape(lhs, rhs, e)]]
  <2>1. c = State(s, k, f)
    BY DEF SumState
  <2>2. f = [d \in DOMAIN shape |-> f[d]]
    BY <1>1
  <2> HIDE DEF c, k, f, s
  <2>3. c.dims = f /\ c.scalar = k /\ c.source = s
    BY <2>1, StateIs
  <2> QED BY <2>1, <2>2, <2>3
<1>3. k \in Scalars \cup {Absent}
  <2>1. l.scalar \in Scalars /\ r.scalar \in Scalars => l.scalar.val + r.scalar.val \in Int
    BY ScalarFacts
  <2> QED BY <2>1, ScalarSum, ScalarFacts
<1>4. ASSUME NEW d \in DOMAIN shape
      PROVE  /\ OfSize(dims[d], shape[d])
             /\ IsTensor(dims[d].offset) <=> IsTensor(l.dims[d].offset) \/ IsTensor(r.dims[d].offset)
             /\ ~HasModulo(l) /\ ~HasModulo(r) => ~DimHasModulo(dims[d])
  <2> DEFINE m == SumModulo(l, r, d)
             a == l.dims[d]
             b == r.dims[d]
  <2>1. /\ OfSize(dims[d], shape[d]) /\ dims[d].shape = m
        /\ ~HasModulo(l) /\ ~HasModulo(r) => m = Attr(0)
    <3>1. DimSums(dims[d], a, b, shape[d], m, mode)
      BY SumDims
    <3>2. ~HasModulo(l) /\ ~HasModulo(r) => m = Attr(0)
      BY NoModulo
    <3> HIDE DEF dims, m, a, b
    <3> QED BY <3>1, <3>2 DEF DimSums
  <2>2. OfSize(a, shape[d]) /\ OfSize(b, shape[d])
    BY DEF Formed
  <2>3. ~HasModulo(l) => a.shape = Attr(0)
    BY <2>2, StateFacts, DimFacts
  <2> HIDE DEF dims, m, a, b
  <2>4. IsTensor(dims[d].offset) <=> IsTensor(a.offset) \/ IsTensor(b.offset)
    <3>1. DimSums(dims[d], a, b, shape[d], m, mode)
      BY SumDims DEF dims, c, a, b, m
    <3> QED BY <3>1 DEF DimSums
  <2>5. ~HasModulo(l) /\ ~HasModulo(r) => ~DimHasModulo(dims[d])
    BY <2>1, <2>3, DimFacts
  <2> QED BY <2>1, <2>4, <2>5 DEF a, b
<1>5. ASSUME NEW d \in DOMAIN shape, NEW e \in DOMAIN shape, IsTensor(dims[d].offset), IsTensor(dims[e].offset)
      PROVE  d = e
  <2>1. d \in Unstructured(l) \cup Unstructured(r) /\ e \in Unstructured(l) \cup Unstructured(r)
    BY <1>1, <1>4, <1>5
  <2> QED BY <1>1, <2>1
<1> HIDE DEF c, k, s
<1>6. Formed(c, shape)
  <2> DEFINE f == dims
  <2>1. f = [d \in DOMAIN shape |-> f[d]] /\ c = State(s, k, f) /\ \A d \in DOMAIN shape : OfSize(f[d], shape[d])
    BY Zenon, <1>2, <1>4
  <2>2. \A d \in DOMAIN shape, e \in DOMAIN shape : IsTensor(f[d].offset) /\ IsTensor(f[e].offset) => d = e
    BY <1>5
  <2> HIDE DEF f, dims
  <2>3. Formed(State(s, k, f), shape)
    BY Zenon, <1>3, <2>1, <2>2, Forms
  <2> QED BY <2>1, <2>3
<1>7. Unstructured(c) = Unstructured(l) \cup Unstructured(r)
  BY <1>1, <1>4, <1>6, StateFacts
<1>8. ~HasModulo(l) /\ ~HasModulo(r) => ~HasModulo(c)
  BY <1>4, <1>6, StateFacts
<1> QED BY Zenon, <1>2, <1>6, <1>7, <1>8 DEF c, k, s

LEMMA SumTerms ==
  ASSUME NEW shape \in TensorShapes, NEW l, NEW r,
         Formed(l, shape), Formed(r, shape), NEW mode,
         Unshifted(l, r), Positive(l), Positive(r), ~(HasModulo(l) /\ HasModulo(r))
  PROVE  LET c == SumState(l, r, mode) IN
           /\ \A d \in DOMAIN shape : DimHasModulo(c.dims[d]) => c.dims[d].shape.val > 0
           /\ \A d \in DOMAIN shape : ~IsTensor(l.dims[d].offset) /\ ~IsTensor(r.dims[d].offset) =>
                \A i \in 0 .. shape[d] - 1 : Term(c.dims[d], i) = Term(l.dims[d], i) + Term(r.dims[d], i)
<1> SUFFICES ASSUME NEW d \in DOMAIN shape
             PROVE  LET c == SumState(l, r, mode) IN
                      /\ DimHasModulo(c.dims[d]) => c.dims[d].shape.val > 0
                      /\ ~IsTensor(l.dims[d].offset) /\ ~IsTensor(r.dims[d].offset) =>
                           \A i \in 0 .. shape[d] - 1 : Term(c.dims[d], i) = Term(l.dims[d], i) + Term(r.dims[d], i)
  BY Zenon
<1> DEFINE m == SumModulo(l, r, d)
           a == l.dims[d]
           b == r.dims[d]
           c == SumState(l, r, mode).dims[d]
           n == shape[d]
<1>1. /\ DimSums(c, a, b, n, m, mode)
      /\ m = IF IsTensor(a.offset) \/ IsTensor(b.offset) THEN Attr(0)
             ELSE IF HasModulo(r) THEN b.shape ELSE a.shape
  BY SumDims
<1>0. OfSize(c, n) /\ c.shape = m
  BY <1>1 DEF DimSums
<1>2. /\ OfSize(a, n) /\ OfSize(b, n) /\ DOMAIN l.dims = DOMAIN shape /\ DOMAIN r.dims = DOMAIN shape
  BY StateFacts DEF Formed
<1>3. /\ DimHasModulo(a) => a.shape.val > 0
      /\ DimHasModulo(b) => b.shape.val > 0
  BY <1>2 DEF Positive
<1>4. /\ DimHasModulo(a) /\ ~IsTensor(b.offset) => HasConstZero(b.offset) /\ b.stride.val = 0
      /\ DimHasModulo(b) /\ ~IsTensor(a.offset) => HasConstZero(a.offset) /\ a.stride.val = 0
  BY <1>2 DEF Unshifted, Adds
<1>6. /\ HasModulo(r) => ~DimHasModulo(a)
      /\ ~HasModulo(r) => ~DimHasModulo(b)
  BY StateFacts
<1>7. /\ ~DimHasModulo(a) <=> a.shape = Attr(0)
      /\ ~DimHasModulo(b) <=> b.shape = Attr(0)
      /\ ~DimHasModulo(c) <=> c.shape = Attr(0)
  BY <1>0, <1>2, DimFacts
<1> HIDE DEF m, a, b, c, n
<1>8. DimHasModulo(c) => c.shape.val > 0
  BY <1>0, <1>1, <1>3, <1>7
<1>9. ASSUME ~IsTensor(a.offset), ~IsTensor(b.offset), NEW i \in 0 .. n - 1
      PROVE  Term(c, i) = Term(a, i) + Term(b, i)
  <2>1. ~IsTensor(c.offset) /\ c.offset = AddOFRs(a.offset, b.offset) /\ c.stride = AddOFRs(a.stride, b.stride)
    BY <1>1, <1>9 DEF DimSums
  <2>2. /\ ~DimHasModulo(a) /\ ~DimHasModulo(b) /\ ~DimHasModulo(c) => Term(c, i) = Term(a, i) + Term(b, i)
        /\ a.shape.val > 0 /\ c.shape = a.shape /\ ~DimHasModulo(b) /\ HasConstZero(b.offset) /\ b.stride.val = 0
             => Term(c, i) = Term(a, i) + Term(b, i)
        /\ b.shape.val > 0 /\ c.shape = b.shape /\ ~DimHasModulo(a) /\ HasConstZero(a.offset) /\ a.stride.val = 0
             => Term(c, i) = Term(a, i) + Term(b, i)
    BY <1>0, <1>2, <1>9, <2>1, PlainSum
  <2>3. CASE HasModulo(r)
    <3>1. ~DimHasModulo(a) /\ c.shape = b.shape
      BY <1>0, <1>1, <1>6, <1>9, <2>3
    <3> QED BY <1>3, <1>4, <1>7, <1>9, <2>2, <3>1
  <2>4. CASE ~HasModulo(r)
    <3>1. ~DimHasModulo(b) /\ c.shape = a.shape
      BY <1>0, <1>1, <1>6, <1>9, <2>4
    <3> QED BY <1>3, <1>4, <1>7, <1>9, <2>2, <3>1
  <2> QED BY <2>3, <2>4
<1> QED BY <1>8, <1>9 DEF a, b, c, n

(* In the dimensions D, c says the sum of what l and r say.                *)
SumsIn(D, c, l, r, shape) ==
  \A d \in D : \A i \in 0 .. shape[d] - 1 : Term(c.dims[d], i) = Term(l.dims[d], i) + Term(r.dims[d], i)

(* The two modes of the analysis. *)
IsFirst(mode) == mode = FALSE

IsSecond(mode) == mode = TRUE

LEMMA SumGather ==
  ASSUME NEW shape \in TensorShapes, NEW l, NEW r,
         Formed(l, shape), Formed(r, shape), ~HasModulo(l), ~HasModulo(r), Undropped(l, r),
         \A d \in Unstructured(l) \cup Unstructured(r) : GatherAssert(l.dims[d], r.dims[d]), NEW mode, IsSecond(mode)
  PROVE  SumsIn(Unstructured(l) \cup Unstructured(r), SumState(l, r, mode), l, r, shape)
<1> SUFFICES ASSUME NEW d \in Unstructured(l) \cup Unstructured(r), NEW i \in 0 .. shape[d] - 1
             PROVE  Term(SumState(l, r, mode).dims[d], i) = Term(l.dims[d], i) + Term(r.dims[d], i)
  BY DEF SumsIn
<1> DEFINE m == SumModulo(l, r, d)
           a == l.dims[d]
           b == r.dims[d]
           c == SumState(l, r, mode).dims[d]
           n == shape[d]
<1>0. d \in DOMAIN shape /\ (IsTensor(a.offset) \/ IsTensor(b.offset))
  <2>1. /\ Unstructured(l) = {e \in DOMAIN shape : IsTensor(l.dims[e].offset)}
        /\ Unstructured(r) = {e \in DOMAIN shape : IsTensor(r.dims[e].offset)}
    BY StateFacts
  <2> QED BY <2>1
<1>1. OfSize(c, n) /\ c.offset = GatherDim(a, b).offset /\ c.stride = GatherDim(a, b).stride /\ IsTensor(c.offset)
  <2>3. DimSums(c, a, b, n, m, mode)
    BY <1>0, SumDims
  <2>4. mode = TRUE
    BY DEF IsSecond
  <2> HIDE DEF a, b, c, n, m
  <2> QED BY <1>0, <2>3, <2>4, Zenon DEF DimSums
<1>2. OfSize(a, n) /\ OfSize(b, n) /\ ~DimHasModulo(a) /\ ~DimHasModulo(b)
  <2>1. OfSize(a, n) /\ OfSize(b, n)
    BY <1>0 DEF Formed
  <2> QED BY <1>0, <2>1, StateFacts
<1>3. /\ GatherAssert(a, b)
      /\ IsTensor(a.offset) \/ HasConstZero(a.stride)
      /\ IsTensor(b.offset) \/ HasConstZero(b.stride)
  BY DEF Undropped
<1> HIDE DEF a, b, c, n, m
<1>5. i \in 0 .. n - 1
  BY DEF n
<1>6. Term(c, i) = At(c.offset, i) * c.stride.val
  BY <1>1, <1>5, TermIs
<1>7. At(GatherDim(a, b).offset, i) * GatherDim(a, b).stride.val = Term(a, i) + Term(b, i)
  BY <1>0, <1>2, <1>3, <1>5, GatherExact
<1>8. Term(c, i) = Term(a, i) + Term(b, i)
  BY <1>1, <1>6, <1>7
<1> QED BY <1>8 DEF a, b, c

-----------------------------------------------------------------------------
(* Sums, in both modes *)

LEMMA NoneHasModulo ==
  ASSUME NEW shape \in TensorShapes, NEW l, NEW r, Formed(l, shape), Formed(r, shape),
         ~HasModulo(l), ~HasModulo(r)
  PROVE  Positive(l) /\ Positive(r) /\ Unshifted(l, r)
<1>1. /\ DOMAIN l.dims = DOMAIN shape /\ DOMAIN r.dims = DOMAIN shape
      /\ \A d \in DOMAIN shape : ~DimHasModulo(l.dims[d]) /\ ~DimHasModulo(r.dims[d])
  BY StateFacts
<1> QED BY <1>1 DEF Positive, Unshifted

(* What the sum of two states says, where nothing is lost of either.       *)
LEMMA SumPositive ==
  ASSUME NEW shape \in TensorShapes, NEW l, NEW r,
         Formed(l, shape), Formed(r, shape), NEW mode,
         \A d \in Unstructured(l), e \in Unstructured(r) : d = e,
         Unshifted(l, r), Positive(l), Positive(r), ~(HasModulo(l) /\ HasModulo(r))
  PROVE  /\ Positive(SumState(l, r, mode))
         /\ SumsIn(DOMAIN shape \ (Unstructured(l) \cup Unstructured(r)), SumState(l, r, mode), l, r, shape)
<1> DEFINE c == SumState(l, r, mode)
<1>1. Formed(c, shape)
  BY SumFormed
<1>2. DOMAIN c.dims = DOMAIN shape
  BY <1>1, StateFacts
<1>3. /\ \A d \in DOMAIN shape : DimHasModulo(c.dims[d]) => c.dims[d].shape.val > 0
      /\ \A d \in DOMAIN shape : ~IsTensor(l.dims[d].offset) /\ ~IsTensor(r.dims[d].offset) =>
            \A i \in 0 .. shape[d] - 1 : Term(c.dims[d], i) = Term(l.dims[d], i) + Term(r.dims[d], i)
  BY SumTerms
<1>4. /\ Unstructured(l) = {d \in DOMAIN shape : IsTensor(l.dims[d].offset)}
      /\ Unstructured(r) = {d \in DOMAIN shape : IsTensor(r.dims[d].offset)}
  BY StateFacts
<1> HIDE DEF c
<1>5. Positive(c)
  BY <1>2, <1>3 DEF Positive
<1>6. ASSUME NEW d \in DOMAIN shape \ (Unstructured(l) \cup Unstructured(r)), NEW i \in 0 .. shape[d] - 1
      PROVE  Term(c.dims[d], i) = Term(l.dims[d], i) + Term(r.dims[d], i)
  BY <1>3, <1>4
<1> QED BY <1>5, <1>6 DEF c, SumsIn

LEMMA StructuredSum ==
  ASSUME NEW shape \in TensorShapes, NEW l, NEW r,
         Formed(l, shape), Formed(r, shape), NEW mode, IsStructured(l), IsStructured(r),
         Unshifted(l, r), Positive(l), Positive(r), ~(HasModulo(l) /\ HasModulo(r)), NEW x \in Elements(shape)
  PROVE  Decoded(SumState(l, r, mode), x) = Decoded(l, x) + Decoded(r, x)
<1> DEFINE c == SumState(l, r, mode)
<1>1. Unstructured(l) = {} /\ Unstructured(r) = {}
  BY DEF IsStructured
<1>2. Formed(c, shape)
  BY <1>1, SumFormed
<1>3. /\ Positive(c)
      /\ SumsIn(DOMAIN shape, c, l, r, shape)
  BY <1>1, SumPositive
<1>4. \A d \in DOMAIN shape : x[d] \in 0 .. shape[d] - 1 /\ x[d] \in Int
  BY ElementsAre
<1> HIDE DEF c
<1>5. \A d \in DOMAIN shape : Term(c.dims[d], x[d]) = Term(l.dims[d], x[d]) + Term(r.dims[d], x[d])
  BY <1>3, <1>4 DEF SumsIn
<1>7. Decoded(c, x) = Decoded(l, x) + Decoded(r, x)
  BY <1>2, <1>3, <1>5, DecodedSum
<1> QED BY <1>7 DEF c

LEMMA GatherSum ==
  ASSUME NEW shape \in TensorShapes, NEW l, NEW r,
         Formed(l, shape), Formed(r, shape), ~HasModulo(l), ~HasModulo(r), Undropped(l, r),
         \A d \in Unstructured(l), e \in Unstructured(r) : d = e,
         \A d \in Unstructured(l) \cup Unstructured(r) : GatherAssert(l.dims[d], r.dims[d]),
         NEW mode, IsSecond(mode), NEW x \in Elements(shape)
  PROVE  Decoded(SumState(l, r, mode), x) = Decoded(l, x) + Decoded(r, x)
<1> DEFINE c == SumState(l, r, mode)
<1>1. Formed(c, shape)
  BY SumFormed
<1>2. Positive(l) /\ Positive(r) /\ Unshifted(l, r)
  BY NoneHasModulo
<1>3. /\ Positive(c)
      /\ SumsIn(DOMAIN shape \ (Unstructured(l) \cup Unstructured(r)), c, l, r, shape)
  BY <1>2, SumPositive
<1>4. SumsIn(Unstructured(l) \cup Unstructured(r), c, l, r, shape)
  BY SumGather
<1>5. \A d \in DOMAIN shape : x[d] \in 0 .. shape[d] - 1 /\ x[d] \in Int
  BY ElementsAre
<1> HIDE DEF c
<1>6. ASSUME NEW d \in DOMAIN shape
      PROVE  Term(c.dims[d], x[d]) = Term(l.dims[d], x[d]) + Term(r.dims[d], x[d])
  <2>1. CASE d \in Unstructured(l) \cup Unstructured(r)
    BY <1>4, <1>5, <2>1 DEF SumsIn
  <2>2. CASE d \notin Unstructured(l) \cup Unstructured(r)
    BY <1>3, <1>5, <2>2 DEF SumsIn
  <2> QED BY <2>1, <2>2
<1>7. Decoded(c, x) = Decoded(l, x) + Decoded(r, x)
  BY <1>1, <1>2, <1>3, <1>6, DecodedSum
<1> QED BY <1>7 DEF c

-----------------------------------------------------------------------------
(* visitOperandSub's negated state *)

LEMMA NegatedIs ==
  ASSUME NEW shape \in TensorShapes, NEW r, Formed(r, shape)
  PROVE  /\ Formed(Negated(r), shape) /\ Negated(r).source = FALSE
         /\ Negated(r).scalar = IF r.scalar \in Scalars THEN Value(-r.scalar.val) ELSE Absent
         /\ Unstructured(Negated(r)) = Unstructured(r)
         /\ HasModulo(Negated(r)) <=> HasModulo(r)
         /\ \A d \in DOMAIN shape : Negated(r).dims[d] = NegatedDim(r.dims[d])
         /\ Ready(r) => Ready(Negated(r))
<1> DEFINE c == Negated(r)
           dims == [d \in DOMAIN shape |-> NegatedDim(r.dims[d])]
           k == IF r.scalar \in Scalars THEN Value(-r.scalar.val) ELSE Absent
<1>1. DOMAIN r.dims = DOMAIN shape /\ (Present(r.scalar) <=> r.scalar \in Scalars)
  BY StateFacts
<1>2. c = State(FALSE, k, dims)
  <2>1. [d \in DOMAIN r.dims |-> [r.dims[d] EXCEPT !.offset = SubOFRs(Attr(0), @), !.stride = SubOFRs(Attr(0), @)]] = dims
    BY <1>1 DEF NegatedDim
  <2>2. (IF Present(r.scalar) THEN Emit(Minus, Attr(0), r.scalar) ELSE Absent) = k
    <3>1. CASE r.scalar \in Scalars
      <4>1. ~IsTensor(Attr(0)) /\ ~IsTensor(r.scalar) /\ Attr(0).val = 0 /\ r.scalar.val \in Int
        BY <3>1, NumberFacts, ScalarFacts
      <4>2. Emit(Minus, Attr(0), r.scalar) = Value(0 - r.scalar.val)
        BY <4>1, Zenon DEF Emit, Minus
      <4>3. 0 - r.scalar.val = -r.scalar.val
        BY <4>1
      <4> QED BY <1>1, <3>1, <4>2, <4>3
    <3>2. CASE r.scalar \notin Scalars
      BY <1>1, <3>2
    <3> QED BY <3>1, <3>2
  <2> HIDE DEF dims, k
  <2> QED BY Zenon, <2>1, <2>2 DEF Negated
<1>3. c.scalar = k /\ c.dims = dims /\ c.source = FALSE
  <2> DEFINE p == FALSE
  <2>1. c = State(p, k, dims)
    BY <1>2
  <2> HIDE DEF c, k, dims, p
  <2>2. c.scalar = k /\ c.dims = dims /\ c.source = p
    BY <2>1, StateIs
  <2> QED BY <2>2 DEF p
<1>4. \A d \in DOMAIN shape : dims[d] = NegatedDim(r.dims[d])
  OBVIOUS
<1>5. k \in Scalars \cup {Absent}
  <2>1. r.scalar \in Scalars => -r.scalar.val \in Int
    BY ScalarFacts
  <2> QED BY <2>1, ScalarFacts
<1>6. dims = [d \in DOMAIN shape |-> dims[d]]
  OBVIOUS
<1> HIDE DEF c, k, dims
<1>7. ASSUME NEW d \in DOMAIN shape
      PROVE  /\ OfSize(dims[d], shape[d]) /\ dims[d].shape = r.dims[d].shape
             /\ IsTensor(dims[d].offset) <=> IsTensor(r.dims[d].offset)
             /\ HasConstZero(dims[d].stride) <=> HasConstZero(r.dims[d].stride)
             /\ DimHasModulo(dims[d]) <=> DimHasModulo(r.dims[d])
  <2>1. OfSize(r.dims[d], shape[d])
    BY DEF Formed
  <2>2. /\ OfSize(dims[d], shape[d]) /\ dims[d].shape = r.dims[d].shape
        /\ IsTensor(dims[d].offset) <=> IsTensor(r.dims[d].offset)
        /\ HasConstZero(dims[d].stride) <=> HasConstZero(r.dims[d].stride)
    BY <1>4, <2>1, NegatedDimIs
  <2> QED BY <2>2 DEF DimHasModulo
<1>8. \A d \in DOMAIN shape, e \in DOMAIN shape :
        IsTensor(dims[d].offset) /\ IsTensor(dims[e].offset) => d = e
  BY <1>7 DEF Formed
<1>9. Formed(State(FALSE, k, dims), shape)
  BY <1>5, <1>6, <1>7, <1>8, Forms
<1>10. Formed(c, shape)
  BY <1>2, <1>9
<1>11. /\ Unstructured(c) = {d \in DOMAIN shape : IsTensor(c.dims[d].offset)}
       /\ HasModulo(c) <=> \E d \in DOMAIN shape : DimHasModulo(c.dims[d])
  BY <1>10, StateFacts
<1>12. /\ Unstructured(r) = {d \in DOMAIN shape : IsTensor(r.dims[d].offset)}
       /\ HasModulo(r) <=> \E d \in DOMAIN shape : DimHasModulo(r.dims[d])
  BY StateFacts
<1>13. Unstructured(c) = Unstructured(r) /\ (HasModulo(c) <=> HasModulo(r))
  BY <1>3, <1>7, <1>11, <1>12
<1>14. Ready(r) => Ready(c)
  BY <1>3, <1>7, <1>12, <1>13 DEF Ready
<1> QED BY <1>3, <1>4, <1>10, <1>13, <1>14 DEF c, k

NegatesIn(D, c, r, shape) == \A d \in D : \A i \in 0 .. shape[d] - 1 : Term(c.dims[d], i) = -Term(r.dims[d], i)

LEMMA NegatedTerms ==
  ASSUME NEW shape \in TensorShapes, NEW r, Formed(r, shape), ~HasModulo(r)
  PROVE  /\ NegatesIn(DOMAIN shape \ Unstructured(r), Negated(r), r, shape)
         /\ IsStructured(r) => \A x \in Elements(shape) : Decoded(Negated(r), x) = -Decoded(r, x)
<1>1. /\ Formed(Negated(r), shape)
      /\ \A d \in DOMAIN shape : Negated(r).dims[d] = NegatedDim(r.dims[d])
      /\ ~HasModulo(Negated(r))
  BY NegatedIs
<1>2. ASSUME NEW d \in DOMAIN shape \ Unstructured(r), NEW i \in 0 .. shape[d] - 1
      PROVE  Term(Negated(r).dims[d], i) = -Term(r.dims[d], i)
  <2>1. OfSize(r.dims[d], shape[d])
    BY DEF Formed
  <2>2. ~IsTensor(r.dims[d].offset) /\ ~DimHasModulo(r.dims[d])
    BY StateFacts
  <2> DEFINE n == shape[d]
             dim == r.dims[d]
  <2>3. Term(NegatedDim(dim), i) = -Term(dim, i)
    <3>1. OfSize(dim, n) /\ i \in 0 .. n - 1 /\ ~IsTensor(dim.offset) /\ ~DimHasModulo(dim)
      BY <2>1, <2>2
    <3> HIDE DEF n, dim
    <3>2. ~IsTensor(dim.offset) /\ ~DimHasModulo(dim) => \A j \in 0 .. n - 1 : Term(NegatedDim(dim), j) = -Term(dim, j)
      BY <3>1, NegatedDimIs
    <3> QED BY <3>1, <3>2
  <2> QED BY <1>1, <2>3
<1>3. ASSUME IsStructured(r), NEW x \in Elements(shape)
      PROVE  Decoded(Negated(r), x) = -Decoded(r, x)
  <2>1. Positive(r) /\ Positive(Negated(r))
    BY <1>1, NoneHasModulo
  <2>2. \A d \in DOMAIN shape : x[d] \in 0 .. shape[d] - 1 /\ Term(r.dims[d], x[d]) \in Int
    BY <2>1, DecodedIs
  <2>3. ASSUME NEW d \in DOMAIN shape
        PROVE  Term(Negated(r).dims[d], x[d]) = Term(r.dims[d], x[d]) * (-1)
    <3>1. d \in DOMAIN shape \ Unstructured(r)
      BY <1>3 DEF IsStructured
    <3>2. Term(Negated(r).dims[d], x[d]) = -Term(r.dims[d], x[d])
      BY <1>2, <2>2, <3>1
    <3> DEFINE t == Term(r.dims[d], x[d])
    <3>3. t \in Int /\ Term(Negated(r).dims[d], x[d]) = -t
      BY <2>2, <3>2
    <3> HIDE DEF t
    <3>4. Term(Negated(r).dims[d], x[d]) = t * (-1)
      BY <3>3
    <3> QED BY <3>4 DEF t
  <2> DEFINE k == -1
  <2>4. k \in Int /\ Scales(Negated(r), r, k, x, shape)
    BY <2>3 DEF Scales
  <2> HIDE DEF k
  <2>5. Decoded(Negated(r), x) = Decoded(r, x) * k
    BY <1>1, <2>1, <2>4, DecodedScaled
  <2>6. Decoded(r, x) \in Int
    BY <2>1, DecodedInt
  <2> QED BY <2>5, <2>6 DEF k
<1> QED BY <1>2, <1>3 DEF NegatesIn

-----------------------------------------------------------------------------
(* mulState *)

Product(l, k, scalar, mode) == State(FALSE, scalar, [d \in DOMAIN l.dims |-> MulDim(l.dims[d], k, mode)])

IsProductOf(c, l, scalar, shape) ==
  /\ Formed(c, shape) /\ c.source = FALSE /\ c.scalar = scalar
  /\ Unstructured(c) = Unstructured(l) /\ (HasModulo(c) => HasModulo(l))

LEMMA ProductFormed ==
  ASSUME NEW shape \in TensorShapes, NEW l, Formed(l, shape), NEW k \in Scalars, NEW scalar \in Scalars \cup {Absent},
         NEW mode
  PROVE  /\ IsProductOf(Product(l, k, scalar, mode), l, scalar, shape)
         /\ \A d \in DOMAIN shape : DimScales(Product(l, k, scalar, mode).dims[d], l.dims[d], k, shape[d], mode)
         /\ Ready(l) /\ IsSecond(mode) => Ready(Product(l, k, scalar, mode))
<1> DEFINE c == Product(l, k, scalar, mode)
           dims == [d \in DOMAIN shape |-> MulDim(l.dims[d], k, mode)]
           p == FALSE
<1>1. DOMAIN l.dims = DOMAIN shape
  BY StateFacts
<1>2. c = State(p, scalar, dims)
  BY <1>1 DEF Product
<1>3. /\ dims = [d \in DOMAIN shape |-> dims[d]]
      /\ \A d \in DOMAIN shape : dims[d] = MulDim(l.dims[d], k, mode)
  OBVIOUS
<1> HIDE DEF c, dims, p
<1>4. c.scalar = scalar /\ c.dims = dims /\ c.source = p
  BY <1>2, StateIs
<1>5. ASSUME NEW d \in DOMAIN shape PROVE DimScales(dims[d], l.dims[d], k, shape[d], mode)
  <2>1. OfSize(l.dims[d], shape[d])
    BY DEF Formed
  <2>2. DimScales(MulDim(l.dims[d], k, mode), l.dims[d], k, shape[d], mode)
    BY <2>1, MulDimIs
  <2> QED BY <1>3, <2>2
<1>6. \A d \in DOMAIN shape : /\ OfSize(dims[d], shape[d])
                              /\ IsTensor(dims[d].offset) <=> IsTensor(l.dims[d].offset)
                              /\ mode /\ ~HasConstZero(l.dims[d].stride) => ~HasConstZero(dims[d].stride)
                              /\ DimHasModulo(dims[d]) => DimHasModulo(l.dims[d])
  BY <1>5 DEF DimScales
<1>7. \A d \in DOMAIN shape, e \in DOMAIN shape :
        IsTensor(dims[d].offset) /\ IsTensor(dims[e].offset) => d = e
  BY <1>6 DEF Formed
<1>8. Formed(c, shape)
  BY <1>2, <1>3, <1>6, <1>7, Forms
<1>9. /\ Unstructured(c) = {d \in DOMAIN shape : IsTensor(c.dims[d].offset)}
      /\ HasModulo(c) <=> \E d \in DOMAIN shape : DimHasModulo(c.dims[d])
  BY <1>8, StateFacts
<1>10. /\ Unstructured(l) = {d \in DOMAIN shape : IsTensor(l.dims[d].offset)}
       /\ HasModulo(l) <=> \E d \in DOMAIN shape : DimHasModulo(l.dims[d])
  BY StateFacts
<1>11. Unstructured(c) = Unstructured(l) /\ (HasModulo(c) => HasModulo(l))
  BY <1>4, <1>6, <1>9, <1>10
<1>12. Ready(l) /\ IsSecond(mode) => Ready(c)
  BY <1>4, <1>6, <1>10, <1>11 DEF Ready, IsSecond
<1>13. IsProductOf(c, l, scalar, shape)
  BY <1>4, <1>8, <1>11 DEF p, IsProductOf
<1> QED BY <1>4, <1>5, <1>12, <1>13 DEF c

ScalesIn(D, c, l, k, shape) == \A d \in D : \A i \in 0 .. shape[d] - 1 : Term(c.dims[d], i) = Term(l.dims[d], i) * k

(* What has a modulo is multiplied by a positive number. *)
Scalable(l, k) == HasModulo(l) => k.val > 0

LEMMA ProductTerms ==
  ASSUME NEW shape \in TensorShapes, NEW l, Formed(l, shape), NEW k \in Scalars, NEW scalar \in Scalars \cup {Absent},
         NEW mode, Positive(l), Scalable(l, k)
  PROVE  /\ Positive(Product(l, k, scalar, mode))
         /\ ScalesIn(DOMAIN shape \ Unstructured(l), Product(l, k, scalar, mode), l, k.val, shape)
         /\ IsSecond(mode) => ScalesIn(DOMAIN shape, Product(l, k, scalar, mode), l, k.val, shape)
<1> DEFINE c == Product(l, k, scalar, mode)
           n == k.val
<1>1. /\ Formed(c, shape) /\ n \in Int
      /\ \A d \in DOMAIN shape : DimScales(c.dims[d], l.dims[d], k, shape[d], mode)
  BY ProductFormed, ScalarFacts DEF IsProductOf
<1>2. DOMAIN c.dims = DOMAIN shape /\ DOMAIN l.dims = DOMAIN shape
  BY <1>1, StateFacts
<1>3. \A d \in DOMAIN shape : DimHasModulo(l.dims[d]) => l.dims[d].shape.val > 0 /\ n > 0
  BY <1>2, StateFacts DEF Positive, Scalable
<1> HIDE DEF c
<1>4. ASSUME NEW d \in DOMAIN shape, DimHasModulo(c.dims[d]) PROVE c.dims[d].shape.val > 0
  <2> DEFINE m == l.dims[d].shape.val
  <2>1. c.dims[d].shape.val = m * n /\ m > 0 /\ n > 0
    BY <1>1, <1>3, <1>4 DEF DimScales
  <2>2. m \in Int
    BY DimFacts DEF Formed
  <2> HIDE DEF m, n
  <2>3. m * n > 0
    BY <1>1, <2>1, <2>2
  <2> QED BY <2>1, <2>3
<1>5. ASSUME NEW d \in DOMAIN shape, ~IsTensor(l.dims[d].offset) \/ IsSecond(mode)
      PROVE  \A i \in 0 .. shape[d] - 1 : Term(c.dims[d], i) = Term(l.dims[d], i) * n
  BY <1>1, <1>3, <1>5 DEF DimScales, IsSecond
<1>6. Unstructured(l) = {d \in DOMAIN shape : IsTensor(l.dims[d].offset)}
  BY StateFacts
<1> HIDE DEF n
<1>7. Positive(c)
  BY <1>2, <1>4 DEF Positive
<1>8. ScalesIn(DOMAIN shape \ Unstructured(l), c, l, n, shape)
  BY <1>5, <1>6 DEF ScalesIn
<1>9. IsSecond(mode) => ScalesIn(DOMAIN shape, c, l, n, shape)
  BY <1>5 DEF ScalesIn
<1> QED BY <1>7, <1>8, <1>9 DEF c, n

LEMMA ProductDecodes ==
  ASSUME NEW shape \in TensorShapes, NEW l, Formed(l, shape), NEW k \in Scalars, NEW scalar \in Scalars \cup {Absent},
         NEW mode, Positive(l), Scalable(l, k), IsStructured(l) \/ IsSecond(mode), NEW x \in Elements(shape)
  PROVE  Decoded(Product(l, k, scalar, mode), x) = Decoded(l, x) * k.val
<1> DEFINE c == Product(l, k, scalar, mode)
           n == k.val
<1>1. Formed(c, shape) /\ n \in Int
  BY ProductFormed, ScalarFacts DEF IsProductOf
<1>2. Positive(c) /\ ScalesIn(DOMAIN shape, c, l, n, shape)
  <2>1. CASE IsStructured(l)
    <3>1. DOMAIN shape \ Unstructured(l) = DOMAIN shape
      BY <2>1 DEF IsStructured
    <3>2. Positive(c) /\ ScalesIn(DOMAIN shape \ Unstructured(l), c, l, n, shape)
      BY ProductTerms
    <3> QED BY <3>1, <3>2
  <2>2. CASE IsSecond(mode)
    BY <2>2, ProductTerms
  <2> QED BY <2>1, <2>2
<1>3. \A d \in DOMAIN shape : x[d] \in 0 .. shape[d] - 1
  BY ElementsAre
<1> HIDE DEF c, n
<1>4. Scales(c, l, n, x, shape)
  BY <1>2, <1>3 DEF ScalesIn, Scales
<1>5. Decoded(c, x) = Decoded(l, x) * n
  BY <1>1, <1>2, <1>4, DecodedScaled
<1> QED BY <1>5 DEF c, n

(* The factor that has the scalar and the other one. *)
Multiplied(l, r) == IF ~Present(r.scalar) /\ Present(l.scalar) THEN r ELSE l
Multiplier(l, r) == IF ~Present(r.scalar) /\ Present(l.scalar) THEN l ELSE r

ProductState(l, r, mode) == Product(Multiplied(l, r), Multiplier(l, r).scalar, SumScalar(l, r, Times), mode)

LEMMA MulResult ==
  ASSUME NEW shape \in TensorShapes, NEW l, NEW r, Formed(l, shape), Formed(r, shape), ~l.source, ~r.source, NEW mode
  PROVE  /\ mulState(l, r, mode) \in {Failure, Assertion} \/ mulState(l, r, mode) = ProductState(l, r, mode)
         /\ mulState(l, r, mode) = ProductState(l, r, mode) =>
              (l.scalar \in Scalars \/ r.scalar \in Scalars) /\ ~HasModulo(Multiplier(l, r))
         /\ IsFirst(mode) \/ ~HasModulo(Multiplied(l, r)) => mulState(l, r, mode) # Assertion
         /\ (l.scalar \in Scalars \/ r.scalar \in Scalars) /\ ~HasModulo(l) /\ ~HasModulo(r) =>
              mulState(l, r, mode) = ProductState(l, r, mode)
<1> DEFINE c == mulState(l, r, mode)
           s == ProductState(l, r, mode)
           lhs == Multiplied(l, r)
           rhs == Multiplier(l, r)
<1>1. /\ Rank(l) = Rank(r)
      /\ Present(l.scalar) <=> l.scalar \in Scalars
      /\ Present(r.scalar) <=> r.scalar \in Scalars
  BY StateFacts
<1>2. Ok(s) /\ s # Failure /\ s # Assertion
  <2>1. Ok(s)
    BY DEF ProductState, Product, State, Ok
  <2> QED BY <2>1, NotFormed
<1>3. s = State(FALSE, SumScalar(l, r, Times), [d \in DOMAIN lhs.dims |-> MulDim(lhs.dims[d], rhs.scalar, mode)])
  BY DEF ProductState, Product
<1>4. c = IF ~Present(l.scalar) /\ ~Present(r.scalar) THEN Failure
          ELSE IF HasModulo(rhs) THEN Failure
          ELSE IF mode /\ ~IsStructured(lhs) /\ HasModulo(lhs) THEN Assertion
          ELSE s
  <2> HIDE DEF s
  <2> QED BY <1>1, <1>3, Zenon DEF mulState, Multiplied, Multiplier
<1>5. ~HasModulo(l) /\ ~HasModulo(r) => ~HasModulo(lhs) /\ ~HasModulo(rhs)
  BY DEF Multiplied, Multiplier
<1> HIDE DEF c, s, lhs, rhs
<1>6. Failure # Assertion
  BY NotFormed
<1>7. CASE ~Present(l.scalar) /\ ~Present(r.scalar)
  BY <1>1, <1>2, <1>4, <1>6, <1>7 DEF c, s, lhs, rhs
<1>8. CASE (Present(l.scalar) \/ Present(r.scalar)) /\ HasModulo(rhs)
  <2>1. c = Failure
    BY <1>4, <1>8
  <2> QED BY <1>2, <1>5, <1>6, <1>8, <2>1 DEF c, s, lhs, rhs
<1>9. CASE (Present(l.scalar) \/ Present(r.scalar)) /\ ~HasModulo(rhs)
  <2>1. c = IF mode /\ ~IsStructured(lhs) /\ HasModulo(lhs) THEN Assertion ELSE s
    BY <1>4, <1>9
  <2>2. IsFirst(mode) \/ ~HasModulo(lhs) => c = s
    BY <2>1 DEF IsFirst
  <2>3. c \in {Assertion, s}
    BY <2>1
  <2> QED BY <1>1, <1>2, <1>5, <1>9, <2>2, <2>3 DEF c, s, lhs, rhs
<1> QED BY <1>7, <1>8, <1>9

-----------------------------------------------------------------------------
(* A tensor with one wide dimension, and an operation's result as the      *)
(* offset of that dimension.                                               *)

OneWide(shape, w) == w \in DOMAIN shape /\ shape[w] > 1 /\ \A e \in DOMAIN shape : e # w => shape[e] = 1

LEMMA WideIs ==
  ASSUME NEW shape \in TensorShapes
  PROVE  /\ \A w : OneWide(shape, w) => Wide(shape) = {w} /\ ~IsNotSingleDim(shape)
         /\ ~IsNotSingleDim(shape) => \E w : OneWide(shape, w)
<1>1. \A d \in DOMAIN shape : shape[d] \in Nat /\ shape[d] >= 1
  BY ShapeFacts
<1>2. ASSUME NEW w, OneWide(shape, w) PROVE Wide(shape) = {w} /\ ~IsNotSingleDim(shape)
  <2>1. Wide(shape) = {w}
    BY <1>2 DEF OneWide, Wide
  <2>2. Cardinality(Wide(shape)) = 1
    BY <2>1, FS_Singleton
  <2> QED BY <2>1, <2>2 DEF IsNotSingleDim
<1>3. ASSUME ~IsNotSingleDim(shape) PROVE \E w : OneWide(shape, w)
  <2>1. Cardinality(Wide(shape)) = 1
    BY <1>3 DEF IsNotSingleDim
  <2>2. IsFiniteSet(Wide(shape))
    <3>1. DOMAIN shape = 1 .. Len(shape) /\ Len(shape) \in Int /\ 1 \in Int
      BY ShapeFacts
    <3>2. IsFiniteSet(DOMAIN shape)
      BY <3>1, FS_Interval
    <3>3. Wide(shape) \subseteq DOMAIN shape
      BY DEF Wide
    <3> QED BY <3>2, <3>3, FS_Subset
  <2>3. PICK w : Wide(shape) = {w}
    BY <2>1, <2>2, FS_Singleton
  <2>4. OneWide(shape, w)
    <3>1. \A e \in DOMAIN shape : shape[e] > 1 <=> e = w
      BY <2>3 DEF Wide
    <3>2. w \in DOMAIN shape
      BY <2>3 DEF Wide
    <3> QED BY <1>1, <3>1, <3>2 DEF OneWide
  <2> QED BY <2>4
<1> QED BY <1>2, <1>3

LEMMA LineIs ==
  ASSUME NEW shape \in TensorShapes, NEW elem \in [Elements(shape) -> Int], NEW w, OneWide(shape, w)
  PROVE  /\ Line(shape, elem) \in Lines(shape[w])
         /\ \A x \in Elements(shape) : x[w] \in 0 .. shape[w] - 1 /\ At(Line(shape, elem), x[w]) = elem[x]
<1> DEFINE at(i) == [e \in DOMAIN shape |-> IF e = w THEN i ELSE 0]
           f == [i \in 0 .. shape[w] - 1 |-> elem[at(i)]]
<1>1. (CHOOSE d \in Wide(shape) : TRUE) = w
  <2>1. Wide(shape) = {w}
    BY WideIs
  <2> QED BY <2>1
<1>2. Line(shape, elem) = Tensor(f)
  BY <1>1 DEF Line
<1>3. /\ w \in DOMAIN shape /\ shape[w] \in Nat /\ \A e \in DOMAIN shape : e # w => shape[e] = 1
      /\ DOMAIN shape = 1 .. Len(shape) /\ \A d \in DOMAIN shape : shape[d] \in Nat
  BY ShapeFacts DEF OneWide
<1>4. ASSUME NEW i \in 0 .. shape[w] - 1 PROVE at(i) \in Elements(shape)
  <2>1. \A d \in DOMAIN shape : at(i)[d] \in 0 .. shape[d] - 1
    BY <1>3
  <2>2. at(i) \in [DOMAIN shape -> Int]
    BY <1>3
  <2> HIDE DEF at
  <2> QED BY <2>1, <2>2, ElementsAre
<1>5. ASSUME NEW x \in Elements(shape) PROVE x[w] \in 0 .. shape[w] - 1 /\ x = at(x[w])
  <2>1. x \in [DOMAIN shape -> Int] /\ \A d \in DOMAIN shape : x[d] \in 0 .. shape[d] - 1
    BY ElementsAre
  <2>2. \A e \in DOMAIN shape : x[e] = at(x[w])[e]
    BY <1>3, <2>1
  <2> QED BY <1>3, <2>1, <2>2
<1>6. f \in [0 .. shape[w] - 1 -> Int] /\ \A i \in 0 .. shape[w] - 1 : f[i] = elem[at(i)]
  BY <1>4
<1> HIDE DEF f, at
<1>7. Tensor(f) \in Lines(shape[w]) /\ Tensor(f).val = f
  BY <1>6, LineFacts
<1>8. \A i \in 0 .. shape[w] - 1 : At(Tensor(f), i) = f[i]
  BY <1>7, LineFacts
<1>9. ASSUME NEW x \in Elements(shape) PROVE x[w] \in 0 .. shape[w] - 1 /\ At(Tensor(f), x[w]) = elem[x]
  <2>1. x[w] \in 0 .. shape[w] - 1 /\ x = at(x[w])
    BY <1>5
  <2>2. At(Tensor(f), x[w]) = elem[at(x[w])]
    BY <1>6, <1>8, <2>1
  <2> QED BY <2>1, <2>2
<1> QED BY <1>2, <1>7, <1>9

-----------------------------------------------------------------------------
(* The state with the line of elem as the offset of dimension d. *)

Gathered(st, shape, elem, d) ==
  State(st.source, st.scalar,
    [e \in DOMAIN shape |-> IF e = d THEN DimOf(Line(shape, elem), shape[d], Attr(1), Attr(0)) ELSE st.dims[e]])

LEMMA GatherScatterIs ==
  ASSUME NEW shape \in TensorShapes, NEW st, Formed(st, shape), NEW elem, NEW d \in DOMAIN shape
  PROVE  /\ OneWide(shape, d) => rebuildAsGatherScatter(st, shape, elem, d) = Gathered(st, shape, elem, d)
         /\ ~OneWide(shape, d) => rebuildAsGatherScatter(st, shape, elem, d) = Failure
<1>1. /\ Rank(st) = Len(shape) /\ DOMAIN shape = 1 .. Len(shape) /\ \A e \in DOMAIN shape : shape[e] \in Nat
      /\ Len(shape) \in Nat
  BY StateFacts, ShapeFacts
<1>2. CASE ~OneWide(shape, d)
  <2>1. CASE IsNotSingleDim(shape)
    BY <1>2, <2>1 DEF rebuildAsGatherScatter
  <2>2. CASE ~IsNotSingleDim(shape)
    <3>1. PICK w : OneWide(shape, w)
      BY <2>2, WideIs
    <3>2. shape[d] <= 1
      BY <1>2, <3>1 DEF OneWide
    <3> QED BY <1>2, <3>2 DEF rebuildAsGatherScatter
  <2> QED BY <2>1, <2>2
<1>3. CASE OneWide(shape, d)
  <2> DEFINE p == st.source
             k == st.scalar
             f == st.dims
             g == [e \in DOMAIN shape |-> IF e = d THEN DimOf(Line(shape, elem), shape[d], Attr(1), Attr(0)) ELSE f[e]]
             line == Line(shape, elem)
             n == shape[d]
  <2>1. ~IsNotSingleDim(shape) /\ ~(d > Rank(st)) /\ ~(shape[d] <= 1)
    BY <1>1, <1>3, WideIs DEF OneWide
  <2>2. rebuildAsGatherScatter(st, shape, elem, d)
          = [st EXCEPT !.dims[d].offset = line, !.dims[d].stride = Attr(1), !.dims[d].shape = Attr(0)]
    BY <2>1 DEF rebuildAsGatherScatter
  <2>3. st = State(p, k, f) /\ f = [e \in DOMAIN shape |-> f[e]]
    BY DEF Formed
  <2>4. PICK o, s, m : f[d] = DimOf(o, n, s, m)
    BY DEF Formed, OfSize
  <2>5. Gathered(st, shape, elem, d) = State(p, k, g)
    BY DEF Gathered
  <2> DEFINE h == [f EXCEPT ![d] = DimOf(line, n, Attr(1), Attr(0))]
  <2>6. h = g
    BY <2>3
  <2>7. [st EXCEPT !.dims[d].offset = line, !.dims[d].stride = Attr(1), !.dims[d].shape = Attr(0)] = State(p, k, h)
    <3> DEFINE f1 == [f EXCEPT ![d] = DimOf(line, n, s, m)]
               f2 == [f EXCEPT ![d] = DimOf(line, n, Attr(1), m)]
    <3> HIDE DEF f, p, k, line, n
    <3>1. d \in DOMAIN f
      BY <2>3
    <3>2. [State(p, k, f) EXCEPT !.dims[d].offset = line] = State(p, k, f1)
      BY <2>4, <3>1 DEF State, DimOf
    <3>3. [State(p, k, f1) EXCEPT !.dims[d].stride = Attr(1)] = State(p, k, f2)
      BY <3>1 DEF State, DimOf
    <3>4. [State(p, k, f2) EXCEPT !.dims[d].shape = Attr(0)] = State(p, k, h)
      BY <3>1 DEF State, DimOf
    <3> HIDE DEF f1, f2, h
    <3> QED BY <2>3, <3>2, <3>3, <3>4
  <2> QED BY <1>3, <2>2, <2>5, <2>6, <2>7
<1> QED BY <1>2, <1>3

LEMMA GatheredFormed ==
  ASSUME NEW shape \in TensorShapes, NEW st, Formed(st, shape), NEW elem \in [Elements(shape) -> Int],
         NEW d, OneWide(shape, d)
  PROVE  /\ Formed(Gathered(st, shape, elem, d), shape)
         /\ Gathered(st, shape, elem, d).scalar = st.scalar /\ Gathered(st, shape, elem, d).source = st.source
         /\ Unstructured(Gathered(st, shape, elem, d)) = {d}
         /\ Unstructured(st) \subseteq {d}
         /\ \A e \in DOMAIN shape : e # d => Gathered(st, shape, elem, d).dims[e] = st.dims[e]
         /\ Gathered(st, shape, elem, d).dims[d] = DimOf(Line(shape, elem), shape[d], Attr(1), Attr(0))
         /\ ~DimHasModulo(Gathered(st, shape, elem, d).dims[d])
         /\ HasModulo(Gathered(st, shape, elem, d)) => HasModulo(st)
         /\ Positive(st) => Positive(Gathered(st, shape, elem, d))
         /\ Ready(Gathered(st, shape, elem, d))
<1> DEFINE c == Gathered(st, shape, elem, d)
           line == Line(shape, elem)
           new == DimOf(line, shape[d], Attr(1), Attr(0))
           f == [e \in DOMAIN shape |-> IF e = d THEN new ELSE st.dims[e]]
           k == st.scalar
           p == st.source
<1>1. c = State(p, k, f)
  BY DEF Gathered
<1>2. /\ DOMAIN st.dims = DOMAIN shape /\ k \in Scalars \cup {Absent} /\ \A e \in DOMAIN shape : OfSize(st.dims[e], shape[e])
  BY StateFacts DEF Formed
<1>3. d \in DOMAIN shape /\ shape[d] > 1 /\ \A e \in DOMAIN shape : e # d => shape[e] = 1
  BY DEF OneWide
<1>4. line \in Lines(shape[d]) /\ IsTensor(line) /\ line \in Offsets(shape[d])
  BY LineIs, LineFacts DEF Offsets
<1>5. OfSize(new, shape[d]) /\ new.offset = line /\ new.shape = Attr(0) /\ new.stride = Attr(1)
  <2>1. Attr(1) \in Numbers /\ Attr(0) \in Numbers /\ shape[d] # 1
    BY <1>3, NumberFacts
  <2> QED BY <1>4, <2>1, DimIs
<1>6. ~DimHasModulo(new) /\ IsTensor(new.offset) /\ ~HasConstZero(new.stride)
  <2>1. HasConstZero(Attr(1)) <=> 1 = 0
    BY NumberFacts
  <2> QED BY <1>4, <1>5, <2>1, DimFacts
<1> HIDE DEF new, line
<1>7. /\ f = [e \in DOMAIN shape |-> f[e]] /\ f[d] = new
      /\ \A e \in DOMAIN shape : e # d => f[e] = st.dims[e]
  BY <1>3
<1> HIDE DEF f, c, k, p
<1>8. c.scalar = k /\ c.dims = f /\ c.source = p
  BY <1>1, StateIs
<1>9. \A e \in DOMAIN shape : e # d => ~IsTensor(st.dims[e].offset)
  BY <1>2, <1>3 DEF OfSize
<1>10. \A e \in DOMAIN shape : OfSize(f[e], shape[e])
  BY <1>2, <1>5, <1>7
<1>11. \A e \in DOMAIN shape : IsTensor(f[e].offset) <=> e = d
  BY <1>6, <1>7, <1>9
<1>12. Formed(c, shape)
  <2>1. \A e \in DOMAIN shape, h \in DOMAIN shape : IsTensor(f[e].offset) /\ IsTensor(f[h].offset) => e = h
    BY <1>11
  <2> QED BY <1>1, <1>2, <1>7, <1>10, <2>1, Forms
<1>13. /\ Unstructured(c) = {e \in DOMAIN shape : IsTensor(c.dims[e].offset)}
       /\ HasModulo(c) <=> \E e \in DOMAIN shape : DimHasModulo(c.dims[e])
       /\ DOMAIN c.dims = DOMAIN shape
  BY <1>12, StateFacts
<1>14. /\ Unstructured(st) = {e \in DOMAIN shape : IsTensor(st.dims[e].offset)}
       /\ HasModulo(st) <=> \E e \in DOMAIN shape : DimHasModulo(st.dims[e])
  BY StateFacts
<1>15. Unstructured(c) = {d}
  BY <1>3, <1>8, <1>11, <1>13
<1>16. Unstructured(st) \subseteq {d}
  BY <1>9, <1>14
<1>17. HasModulo(c) => HasModulo(st)
  BY <1>6, <1>7, <1>8, <1>13, <1>14
<1>18. Positive(st) => Positive(c)
  BY <1>2, <1>6, <1>7, <1>8, <1>13 DEF Positive
<1>19. Ready(c)
  BY <1>6, <1>7, <1>8, <1>15 DEF Ready
<1> QED BY <1>6, <1>7, <1>8, <1>12, <1>15, <1>16, <1>17, <1>18, <1>19 DEF c, k, p, new, line

LEMMA GatheredDecodes ==
  ASSUME NEW shape \in TensorShapes, NEW st, Formed(st, shape), NEW elem \in [Elements(shape) -> Int],
         NEW d, OneWide(shape, d), Positive(st),
         \A e \in DOMAIN shape : e # d => Term(st.dims[e], 0) = 0, NEW x \in Elements(shape)
  PROVE  Decoded(Gathered(st, shape, elem, d), x) = elem[x]
<1> DEFINE c == Gathered(st, shape, elem, d)
           line == Line(shape, elem)
           n == shape[d]
           dim == c.dims[d]
<1>1. /\ Formed(c, shape) /\ Positive(c)
      /\ \A e \in DOMAIN shape : e # d => c.dims[e] = st.dims[e]
      /\ dim = DimOf(line, n, Attr(1), Attr(0))
  BY GatheredFormed
<1>2. line \in Lines(n) /\ x[d] \in 0 .. n - 1 /\ At(line, x[d]) = elem[x]
  BY LineIs
<1>3. d \in DOMAIN shape /\ \A e \in DOMAIN shape : e # d => shape[e] = 1
  BY DEF OneWide
<1>4. \A e \in DOMAIN shape : e # d => x[e] = 0
  <2>1. \A e \in DOMAIN shape : x[e] \in 0 .. shape[e] - 1
    BY ElementsAre
  <2> QED BY <1>3, <2>1
<1>5. elem[x] \in Int
  OBVIOUS
<1>6. OfSize(dim, n)
  BY <1>1, <1>3 DEF Formed
<1> HIDE DEF c, line, n
<1>7. Decoded(c, x) = Term(dim, x[d])
  <2>1. \A e \in DOMAIN shape : e # d => Term(c.dims[e], x[e]) = 0
    BY <1>1, <1>4
  <2> QED BY <1>1, <1>3, <2>1, DecodedOne
<1> HIDE DEF dim
<1>8. dim.offset = line /\ dim.stride = Attr(1) /\ IsTensor(dim.offset) /\ Attr(1).val = 1
  <2>1. IsTensor(line)
    BY <1>2, LineFacts
  <2> QED BY <1>1, <2>1, DimIs, NumberFacts
<1>9. Term(dim, x[d]) = At(line, x[d]) * 1
  BY <1>2, <1>6, <1>8, TermIs
<1>10. Decoded(c, x) = elem[x]
  BY <1>2, <1>5, <1>7, <1>9
<1> QED BY <1>10 DEF c

-----------------------------------------------------------------------------
(* rebuildAsUnsupportedOp: a line, and nothing in the other dimension.     *)

Zeros(shape) == State(FALSE, Absent, [d \in DOMAIN shape |-> DimOf(Attr(0), shape[d], Attr(0), Attr(0))])

LEMMA ZerosFormed ==
  ASSUME NEW shape \in TensorShapes
  PROVE  /\ Formed(Zeros(shape), shape) /\ Zeros(shape).source = FALSE /\ Zeros(shape).scalar = Absent
         /\ ~HasModulo(Zeros(shape)) /\ Unstructured(Zeros(shape)) = {}
         /\ \A d \in DOMAIN shape : Zeros(shape).dims[d] = DimOf(Attr(0), shape[d], Attr(0), Attr(0))
         /\ \A d \in DOMAIN shape : Term(Zeros(shape).dims[d], 0) = 0
<1> DEFINE c == Zeros(shape)
           f == [d \in DOMAIN shape |-> DimOf(Attr(0), shape[d], Attr(0), Attr(0))]
           p == FALSE
<1>1. c = State(p, Absent, f)
  BY DEF Zeros
<1>2. f = [d \in DOMAIN shape |-> f[d]] /\ \A d \in DOMAIN shape : f[d] = DimOf(Attr(0), shape[d], Attr(0), Attr(0))
  OBVIOUS
<1> HIDE DEF c, f, p
<1>3. c.scalar = Absent /\ c.dims = f /\ c.source = p
  BY <1>1, StateIs
<1>4. ASSUME NEW d \in DOMAIN shape
      PROVE  OfSize(f[d], shape[d]) /\ ~IsTensor(f[d].offset) /\ ~DimHasModulo(f[d]) /\ Term(f[d], 0) = 0
  <2> DEFINE n == shape[d]
             g == f[d]
  <2>1. g = DimOf(Attr(0), n, Attr(0), Attr(0)) /\ n \in Nat /\ n >= 1
    BY <1>2, ShapeFacts
  <2>2. Attr(0) \in Numbers /\ ~IsTensor(Attr(0)) /\ Attr(0).val = 0 /\ Attr(0) \in Offsets(n)
    BY NumberFacts DEF Offsets
  <2> HIDE DEF n, g
  <2>3. OfSize(g, n) /\ g.offset = Attr(0) /\ g.stride = Attr(0) /\ g.shape = Attr(0)
    BY <2>1, <2>2, DimIs
  <2>4. ~DimHasModulo(g) /\ 0 \in 0 .. n - 1 /\ At(g.offset, 0) = 0
    BY <2>1, <2>2, <2>3, DimFacts DEF At
  <2>5. Term(g, 0) = 0 + 0 * 0
    BY <2>2, <2>3, <2>4, TermIs
  <2>6. Term(g, 0) = 0
    BY <2>5
  <2> QED BY <2>2, <2>3, <2>4, <2>6 DEF n, g
<1>5. Formed(c, shape)
  <2>1. \A e \in DOMAIN shape, h \in DOMAIN shape : IsTensor(f[e].offset) /\ IsTensor(f[h].offset) => e = h
    BY <1>4
  <2>2. Absent \in Scalars \cup {Absent}
    OBVIOUS
  <2> QED BY <1>1, <1>2, <1>4, <2>1, <2>2, Forms
<1>6. /\ Unstructured(c) = {e \in DOMAIN shape : IsTensor(c.dims[e].offset)}
      /\ HasModulo(c) <=> \E e \in DOMAIN shape : DimHasModulo(c.dims[e])
  BY <1>5, StateFacts
<1>7. ~HasModulo(c) /\ Unstructured(c) = {}
  BY <1>3, <1>4, <1>6
<1> QED BY <1>2, <1>3, <1>4, <1>5, <1>7 DEF c, p

(* What the state of such an operation says. *)
IsGather(u, shape, elem, w) ==
  /\ OneWide(shape, w) /\ Formed(u, shape) /\ u.source = FALSE /\ u.scalar = Absent
  /\ ~HasModulo(u) /\ Ready(u) /\ Unstructured(u) = {w}
  /\ \A e \in DOMAIN shape : e # w => Term(u.dims[e], 0) = 0
  /\ \A x \in Elements(shape) : Decoded(u, x) = elem[x]

LEMMA UnsupportedIs ==
  ASSUME NEW shape \in TensorShapes, NEW elem \in [Elements(shape) -> Int]
  PROVE  /\ \A w : OneWide(shape, w) => IsGather(rebuildAsUnsupportedOp(FALSE, shape, elem), shape, elem, w)
         /\ ~(\E w : OneWide(shape, w)) => rebuildAsUnsupportedOp(FALSE, shape, elem) = Failure
<1>1. ASSUME ~(\E w : OneWide(shape, w)) PROVE rebuildAsUnsupportedOp(FALSE, shape, elem) = Failure
  <2>1. IsNotSingleDim(shape)
    BY <1>1, WideIs
  <2> QED BY <2>1 DEF rebuildAsUnsupportedOp
<1>2. ASSUME NEW w, OneWide(shape, w) PROVE IsGather(rebuildAsUnsupportedOp(FALSE, shape, elem), shape, elem, w)
  <2> DEFINE u == rebuildAsUnsupportedOp(FALSE, shape, elem)
             z == Zeros(shape)
             c == Gathered(z, shape, elem, w)
             line == Line(shape, elem)
  <2>1. /\ Formed(z, shape) /\ z.source = FALSE /\ z.scalar = Absent /\ ~HasModulo(z)
        /\ \A d \in DOMAIN shape : z.dims[d] = DimOf(Attr(0), shape[d], Attr(0), Attr(0))
        /\ \A d \in DOMAIN shape : Term(z.dims[d], 0) = 0
    BY ZerosFormed
  <2>2. u = c
    <3>1. ~IsNotSingleDim(shape)
      BY <1>2, WideIs
    <3>2. u = State(FALSE, Absent, [d \in DOMAIN shape |-> IF shape[d] = 1 THEN Dim(Attr(0), 1, Attr(0))
                                                           ELSE Dim(line, shape[d], Attr(1))])
      BY <3>1 DEF rebuildAsUnsupportedOp
    <3>3. c = State(FALSE, Absent, [e \in DOMAIN shape |-> IF e = w THEN DimOf(line, shape[w], Attr(1), Attr(0)) ELSE z.dims[e]])
      BY <2>1 DEF Gathered
    <3>4. ASSUME NEW d \in DOMAIN shape
          PROVE  (IF shape[d] = 1 THEN Dim(Attr(0), 1, Attr(0)) ELSE Dim(line, shape[d], Attr(1)))
                   = (IF d = w THEN DimOf(line, shape[w], Attr(1), Attr(0)) ELSE z.dims[d])
      <4> HIDE DEF line, z
      <4>1. Dim(Attr(0), 1, Attr(0)) = DimOf(Attr(0), 1, Attr(0), Attr(0)) /\ Dim(line, shape[d], Attr(1)) = DimOf(line, shape[d], Attr(1), Attr(0))
        BY DimIs
      <4>2. CASE d = w
        <5>1. ~(shape[d] = 1)
          BY <1>2, <4>2 DEF OneWide
        <5> QED BY <4>1, <4>2, <5>1
      <4>3. CASE d # w
        <5>1. shape[d] = 1
          BY <1>2, <4>3 DEF OneWide
        <5> QED BY <2>1, <4>1, <4>3, <5>1
      <4> QED BY <4>2, <4>3
    <3> HIDE DEF u, c, z, line
    <3> QED BY <3>2, <3>3, <3>4
  <2>3. Positive(z)
    BY <2>1, NoneHasModulo
  <2>4. /\ Formed(c, shape) /\ c.scalar = z.scalar /\ c.source = z.source /\ Unstructured(c) = {w} /\ Ready(c)
        /\ \A e \in DOMAIN shape : e # w => c.dims[e] = z.dims[e]
        /\ HasModulo(c) => HasModulo(z)
    BY <1>2, <2>1, GatheredFormed
  <2>5. ASSUME NEW x \in Elements(shape) PROVE Decoded(c, x) = elem[x]
    BY <1>2, <2>1, <2>3, GatheredDecodes
  <2> HIDE DEF u, c, z
  <2> QED BY <1>2, <2>1, <2>2, <2>4, <2>5 DEF IsGather, u
<1> QED BY <1>1, <1>2

-----------------------------------------------------------------------------
(* A state without its modulo, where the other operand is unstructured. *)

ClearedOf(c, st, other, shape) ==
  /\ Formed(c, shape) /\ c.scalar = st.scalar /\ c.source = st.source
  /\ HasModulo(c) => HasModulo(st)
  /\ Positive(st) => Positive(c)
  /\ \/ c = st
     \/ \E d : /\ OneWide(shape, d) /\ Unstructured(other) = {d} /\ Unstructured(c) = {d} /\ Unstructured(st) \subseteq {d}
               /\ HasModulo(st) /\ enableMakeGatherScatterTensorPtr
               /\ ~DimHasModulo(c.dims[d]) /\ \A e \in DOMAIN shape : e # d => c.dims[e] = st.dims[e]

LEMMA ClearedIs ==
  ASSUME NEW shape \in TensorShapes, NEW v, v.shape = shape, v.elem \in [Elements(shape) -> Int],
         NEW st, NEW other, Formed(st, shape), Formed(other, shape)
  PROVE  /\ Cleared(st, other, v) = Failure \/ ClearedOf(Cleared(st, other, v), st, other, shape)
         /\ IsStructured(other) \/ ~HasModulo(st) => Cleared(st, other, v) = st
<1> DEFINE c == Cleared(st, other, v)
           elem == v.elem
<1>1. ClearedOf(st, st, other, shape)
  BY DEF ClearedOf
<1>2. Ok(st) /\ Ok(other)
  BY StateFacts
<1>3. CASE IsStructured(other) \/ ~HasModulo(st)
  <2>1. c = st
    BY <1>3, Zenon DEF Cleared
  <2> QED BY <1>1, <2>1
<1>4. CASE ~(IsStructured(other) \/ ~HasModulo(st)) /\ ~enableMakeGatherScatterTensorPtr
  <2>1. c = Failure
    BY <1>2, <1>4, Zenon DEF Cleared
  <2> QED BY <1>4, <2>1
<1>5. CASE ~(IsStructured(other) \/ ~HasModulo(st)) /\ enableMakeGatherScatterTensorPtr
  <2> DEFINE d == getNonStructuredDim(other)
  <2>1. c = rebuildAsGatherScatter(st, shape, elem, d)
    BY <1>2, <1>5 DEF Cleared
  <2>2. PICK n : n \in Unstructured(other)
    BY <1>5 DEF IsStructured
  <2>3. Unstructured(other) = {n} /\ d = n /\ n \in DOMAIN shape
    BY <2>2, StateFacts
  <2>4. CASE ~OneWide(shape, n)
    <3>1. c = Failure
      BY <2>1, <2>3, <2>4, GatherScatterIs
    <3> QED BY <1>5, <3>1
  <2>5. CASE OneWide(shape, n)
    <3> DEFINE g == Gathered(st, shape, elem, n)
    <3>1. c = g
      BY <2>1, <2>3, <2>5, GatherScatterIs
    <3>2. elem \in [Elements(shape) -> Int]
      OBVIOUS
    <3> HIDE DEF elem
    <3>3. /\ Formed(g, shape) /\ g.scalar = st.scalar /\ g.source = st.source
          /\ Unstructured(g) = {n} /\ Unstructured(st) \subseteq {n}
          /\ \A e \in DOMAIN shape : e # n => g.dims[e] = st.dims[e]
          /\ ~DimHasModulo(g.dims[n])
          /\ HasModulo(g) => HasModulo(st)
          /\ Positive(st) => Positive(g)
      BY <2>5, <3>2, GatheredFormed
    <3> HIDE DEF c, g, d
    <3>4. ClearedOf(c, st, other, shape)
      BY <1>5, <2>3, <2>5, <3>1, <3>3 DEF ClearedOf
    <3> QED BY <1>5, <3>4 DEF c
  <2> QED BY <2>4, <2>5
<1> QED BY <1>3, <1>4, <1>5

(* The two operands of a sum or a product, one of them cleared at most. *)
ClearedPair(x, y, l, r, shape) ==
  /\ ClearedOf(x, l, r, shape) /\ ClearedOf(y, r, l, shape)
  /\ Unstructured(x) \cup Unstructured(y) = Unstructured(l) \cup Unstructured(r)

LEMMA PairCleared ==
  ASSUME NEW shape \in TensorShapes, NEW l, NEW r, NEW x, NEW y, Formed(l, shape), Formed(r, shape),
         ClearedOf(x, l, r, shape), ClearedOf(y, r, l, shape), ~IsStructured(l) /\ HasModulo(r) => x = l
  PROVE  ClearedPair(x, y, l, r, shape)
<1>1. CASE x = l /\ y = r
  BY <1>1 DEF ClearedPair
<1>2. CASE x = l /\ y # r
  <2>1. PICK d : Unstructured(l) = {d} /\ Unstructured(y) = {d} /\ Unstructured(r) \subseteq {d}
    BY <1>2 DEF ClearedOf
  <2> QED BY <1>2, <2>1 DEF ClearedPair
<1>3. CASE x # l
  <2>1. PICK d : Unstructured(r) = {d} /\ Unstructured(x) = {d} /\ Unstructured(l) \subseteq {d}
    BY <1>3 DEF ClearedOf
  <2>2. Unstructured(l) = {} \/ ~HasModulo(r)
    BY <1>3 DEF IsStructured
  <2>3. y = r
    BY <2>2 DEF ClearedOf
  <2> QED BY <2>1, <2>2, <2>3 DEF ClearedPair
<1> QED BY <1>1, <1>2, <1>3

-----------------------------------------------------------------------------
(* visitOperandAdd and visitOperandMul *)

(* What visitOperandAdd and visitOperandMul make of two states, where they *)
(* may clear the modulo of one of them first                               *)

FirstAdded(c, l, r, shape, mode) ==
  /\ c = Failure \/ \E x, y : ClearedPair(x, y, l, r, shape) /\ c = addState(x, y, mode)
  /\ ~HasModulo(l) /\ ~HasModulo(r) => c = addState(l, r, mode)

FirstMultiplied(c, l, r, shape, mode) ==
  /\ c = Failure \/ \E x, y : ClearedPair(x, y, l, r, shape) /\ c = mulState(x, y, mode)
  /\ ~HasModulo(l) /\ ~HasModulo(r) => c = mulState(l, r, mode)

LEMMA VisitAddIs ==
  ASSUME NEW shape \in TensorShapes, NEW a, a.shape = shape, a.elem \in [Elements(shape) -> Int],
         NEW b, b.shape = shape, b.elem \in [Elements(shape) -> Int],
         NEW l, NEW r, Formed(l, shape), Formed(r, shape), NEW mode
  PROVE  FirstAdded(VisitAdd(a, b, l, r, mode), l, r, shape, mode)
<1> SUFFICES /\ \/ VisitAdd(a, b, l, r, mode) = Failure
                \/ \E x, y : ClearedPair(x, y, l, r, shape) /\ VisitAdd(a, b, l, r, mode) = addState(x, y, mode)
             /\ ~HasModulo(l) /\ ~HasModulo(r) => VisitAdd(a, b, l, r, mode) = addState(l, r, mode)
  BY Zenon DEF FirstAdded
<1> DEFINE y == Cleared(r, l, b)
           x == IF Ok(l) /\ Ok(r) /\ ~IsStructured(l) /\ HasModulo(r) THEN l ELSE Cleared(l, r, a)
           c == VisitAdd(a, b, l, r, mode)
           one == (Rank(l) = 1 /\ HasModulo(l)) \/ (Rank(r) = 1 /\ HasModulo(r))
<1>1. Ok(l) /\ Ok(r)
  BY StateFacts
<1>2. c = IF one THEN Failure ELSE IF ~BothOk(x, y) THEN FirstNotOk(x, y) ELSE addState(x, y, mode)
  <2>1. BothOk(l, r)
    BY <1>1 DEF BothOk
  <2> QED BY <2>1, Zenon DEF VisitAdd
<1>3. /\ y = Failure \/ ClearedOf(y, r, l, shape)
      /\ ~HasModulo(r) => y = r
  BY ClearedIs
<1>4. /\ Cleared(l, r, a) = Failure \/ ClearedOf(Cleared(l, r, a), l, r, shape)
      /\ ~HasModulo(l) => Cleared(l, r, a) = l
  BY ClearedIs
<1>5. /\ x = Failure \/ ClearedOf(x, l, r, shape)
      /\ ~HasModulo(l) => x = l
      /\ ~IsStructured(l) /\ HasModulo(r) => x = l
  <2>1. ClearedOf(l, l, r, shape)
    BY DEF ClearedOf
  <2> QED BY <1>1, <1>4, <2>1
<1> HIDE DEF x, y, c
<1>6. /\ x = Failure => ~Ok(x)
      /\ y = Failure => ~Ok(y)
      /\ ClearedOf(x, l, r, shape) => Ok(x)
      /\ ClearedOf(y, r, l, shape) => Ok(y)
  BY StateFacts, NotFormed DEF ClearedOf
<1>7. CASE one
  BY <1>2, <1>7 DEF c, HasModulo
<1>8. CASE ~one /\ ~BothOk(x, y)
  <2>1. c = FirstNotOk(x, y)
    BY <1>2, <1>8
  <2>2. c = Failure
    BY <1>3, <1>5, <1>6, <1>8, <2>1 DEF FirstNotOk, BothOk
  <2>3. HasModulo(l) \/ HasModulo(r)
    BY <1>1, <1>3, <1>5, <1>8 DEF BothOk
  <2> QED BY <2>2, <2>3 DEF c
<1>9. CASE ~one /\ BothOk(x, y)
  <2>1. c = addState(x, y, mode)
    BY <1>2, <1>9
  <2>2. ClearedOf(x, l, r, shape) /\ ClearedOf(y, r, l, shape)
    BY <1>3, <1>5, <1>6, <1>9 DEF BothOk
  <2>3. ClearedPair(x, y, l, r, shape)
    BY <1>5, <2>2, PairCleared
  <2> QED BY <1>3, <1>5, <2>1, <2>3 DEF c
<1> QED BY <1>7, <1>8, <1>9

LEMMA VisitMulIs ==
  ASSUME NEW shape \in TensorShapes, NEW a, a.shape = shape, a.elem \in [Elements(shape) -> Int],
         NEW b, b.shape = shape, b.elem \in [Elements(shape) -> Int],
         NEW l, NEW r, Formed(l, shape), Formed(r, shape), NEW mode
  PROVE  FirstMultiplied(VisitMul(a, b, l, r, mode), l, r, shape, mode)
<1> SUFFICES /\ \/ VisitMul(a, b, l, r, mode) = Failure
                \/ \E x, y : ClearedPair(x, y, l, r, shape) /\ VisitMul(a, b, l, r, mode) = mulState(x, y, mode)
             /\ ~HasModulo(l) /\ ~HasModulo(r) => VisitMul(a, b, l, r, mode) = mulState(l, r, mode)
  BY Zenon DEF FirstMultiplied
<1> DEFINE y == Cleared(r, l, b)
           x == IF Ok(l) /\ Ok(r) /\ ~IsStructured(l) /\ HasModulo(r) THEN l ELSE Cleared(l, r, a)
           c == VisitMul(a, b, l, r, mode)
<1>1. Ok(l) /\ Ok(r)
  BY StateFacts
<1>2. c = IF ~BothOk(x, y) THEN FirstNotOk(x, y) ELSE mulState(x, y, mode)
  <2>1. BothOk(l, r)
    BY <1>1 DEF BothOk
  <2> QED BY <2>1, Zenon DEF VisitMul
<1>3. /\ y = Failure \/ ClearedOf(y, r, l, shape)
      /\ ~HasModulo(r) => y = r
  BY ClearedIs
<1>4. /\ Cleared(l, r, a) = Failure \/ ClearedOf(Cleared(l, r, a), l, r, shape)
      /\ ~HasModulo(l) => Cleared(l, r, a) = l
  BY ClearedIs
<1>5. /\ x = Failure \/ ClearedOf(x, l, r, shape)
      /\ ~HasModulo(l) => x = l
      /\ ~IsStructured(l) /\ HasModulo(r) => x = l
  <2>1. ClearedOf(l, l, r, shape)
    BY DEF ClearedOf
  <2> QED BY <1>1, <1>4, <2>1
<1> HIDE DEF x, y, c
<1>6. /\ x = Failure => ~Ok(x)
      /\ y = Failure => ~Ok(y)
      /\ ClearedOf(x, l, r, shape) => Ok(x)
      /\ ClearedOf(y, r, l, shape) => Ok(y)
  BY StateFacts, NotFormed DEF ClearedOf
<1>8. CASE ~BothOk(x, y)
  <2>1. c = FirstNotOk(x, y)
    BY <1>2, <1>8
  <2>2. c = Failure
    BY <1>3, <1>5, <1>6, <1>8, <2>1 DEF FirstNotOk, BothOk
  <2>3. HasModulo(l) \/ HasModulo(r)
    BY <1>1, <1>3, <1>5, <1>8 DEF BothOk
  <2> QED BY <2>2, <2>3 DEF c
<1>9. CASE BothOk(x, y)
  <2>1. c = mulState(x, y, mode)
    BY <1>2, <1>9
  <2>2. ClearedOf(x, l, r, shape) /\ ClearedOf(y, r, l, shape)
    BY <1>3, <1>5, <1>6, <1>9 DEF BothOk
  <2>3. ClearedPair(x, y, l, r, shape)
    BY <1>5, <2>2, PairCleared
  <2> QED BY <1>3, <1>5, <2>1, <2>3 DEF c
<1> QED BY <1>8, <1>9

-----------------------------------------------------------------------------
(* What a sum of two states has, in the first mode and in the second one. *)

ScalarOfSum(l, r) ==
  IF l.scalar \in Scalars /\ r.scalar \in Scalars THEN Value(l.scalar.val + r.scalar.val) ELSE Absent

IsSum(c, l, r, shape) ==
  /\ Formed(c, shape) /\ c.source = (l.source \/ r.source)
  /\ c.scalar = ScalarOfSum(l, r)
  /\ Unstructured(c) = Unstructured(l) \cup Unstructured(r)
  /\ ~HasModulo(l) /\ ~HasModulo(r) => ~HasModulo(c)

FirstSumIs(c, x, y, l, r, shape, mode) ==
  /\ IsSum(c, l, r, shape) /\ c = SumState(x, y, mode) /\ ~(HasModulo(x) /\ HasModulo(y))
  /\ \A d \in Unstructured(x), e \in Unstructured(y) : d = e

SecondSumIs(c, l, r, shape, mode) ==
  /\ IsSum(c, l, r, shape) /\ c = SumState(l, r, mode)
  /\ \A d \in Unstructured(l), e \in Unstructured(r) : d = e
  /\ \A d \in Unstructured(l) \cup Unstructured(r) : GatherAssert(l.dims[d], r.dims[d])

LEMMA FirstModeSum ==
  ASSUME NEW shape \in TensorShapes, NEW l, NEW r, NEW x, NEW y, Formed(l, shape), Formed(r, shape),
         ~(l.source /\ r.source), ClearedPair(x, y, l, r, shape), NEW mode, IsFirst(mode)
  PROVE  /\ \/ addState(x, y, mode) = Failure
            \/ FirstSumIs(addState(x, y, mode), x, y, l, r, shape, mode)
         /\ IsStructured(l) /\ IsStructured(r) /\ ~HasModulo(l) /\ ~HasModulo(r) => addState(x, y, mode) # Failure
<1> DEFINE c == addState(x, y, mode)
           s == SumState(x, y, mode)
<1>1. /\ Formed(x, shape) /\ Formed(y, shape) /\ x.source = l.source /\ y.source = r.source
      /\ x.scalar = l.scalar /\ y.scalar = r.scalar
      /\ HasModulo(x) => HasModulo(l)
      /\ HasModulo(y) => HasModulo(r)
      /\ Unstructured(x) \cup Unstructured(y) = Unstructured(l) \cup Unstructured(r)
  BY DEF ClearedPair, ClearedOf
<1>2. LET e == addState(x, y, mode) IN
      /\ e \in {Failure, Assertion} \/ e = SumState(x, y, mode)
      /\ e = SumState(x, y, mode) =>
           /\ ~(HasModulo(x) /\ HasModulo(y))
           /\ \A d \in Unstructured(x), h \in Unstructured(y) : d = h
      /\ ~mode => e # Assertion
      /\ IsStructured(x) /\ IsStructured(y) /\ ~HasModulo(x) /\ ~HasModulo(y) => e = SumState(x, y, mode)
  <2>1. ~(x.source /\ y.source)
    BY <1>1
  <2> QED BY <1>1, <2>1, AddResult
<1>3. c = Failure \/ c = s
  BY <1>2 DEF IsFirst
<1>4. ASSUME c = s PROVE IsSum(s, l, r, shape) /\ c # Failure
  <2>1. \A d \in Unstructured(x), e \in Unstructured(y) : d = e
    BY <1>2, <1>4
  <2>2. /\ Formed(s, shape) /\ s.scalar = AddScalar(x, y)
        /\ s.source = (x.source \/ y.source)
        /\ Unstructured(s) = Unstructured(x) \cup Unstructured(y)
        /\ ~HasModulo(x) /\ ~HasModulo(y) => ~HasModulo(s)
    BY <1>1, <2>1, SumFormed
  <2>3. AddScalar(x, y) = IF x.scalar \in Scalars /\ y.scalar \in Scalars
                            THEN Value(x.scalar.val + y.scalar.val) ELSE Absent
    BY <1>1, ScalarSum
  <2>4. AddScalar(x, y) = ScalarOfSum(l, r)
    BY <1>1, <2>3 DEF ScalarOfSum
  <2>5. s # Failure
    BY <2>2, StateFacts
  <2> HIDE DEF c, s
  <2> QED BY <1>1, <1>4, <2>2, <2>4, <2>5 DEF IsSum
<1>5. IsStructured(l) /\ IsStructured(r) /\ ~HasModulo(l) /\ ~HasModulo(r) => c = s
  <2>1. IsStructured(l) /\ IsStructured(r) => IsStructured(x) /\ IsStructured(y)
    BY <1>1 DEF IsStructured
  <2> QED BY <1>1, <1>2, <2>1
<1>6. c = s => /\ ~(HasModulo(x) /\ HasModulo(y))
               /\ \A d \in Unstructured(x), e \in Unstructured(y) : d = e
  BY <1>2
<1> HIDE DEF c, s
<1>7. CASE c = Failure
  BY <1>4, <1>5, <1>7 DEF c
<1>8. CASE c = s
  <2>1. FirstSumIs(c, x, y, l, r, shape, mode)
    BY <1>4, <1>6, <1>8 DEF s, FirstSumIs
  <2> QED BY <1>4, <1>8, <2>1 DEF c
<1> QED BY <1>3, <1>7, <1>8

LEMMA SecondModeSum ==
  ASSUME NEW shape \in TensorShapes, NEW l, NEW r, Formed(l, shape), Formed(r, shape),
         ~(l.source /\ r.source), ~HasModulo(l), ~HasModulo(r), NEW mode, IsSecond(mode)
  PROVE  /\ \/ addState(l, r, mode) \in {Failure, Assertion}
            \/ SecondSumIs(addState(l, r, mode), l, r, shape, mode)
         /\ Ready(l) /\ Ready(r) => addState(l, r, mode) # Assertion
<1> DEFINE c == addState(l, r, mode)
           s == SumState(l, r, mode)
<1>2. LET e == addState(l, r, mode) IN
      /\ e \in {Failure, Assertion} \/ e = SumState(l, r, mode)
      /\ e = SumState(l, r, mode) =>
           /\ \A d \in Unstructured(l), h \in Unstructured(r) : d = h
           /\ mode => \A d \in Unstructured(l) \cup Unstructured(r) : GatherAssert(l.dims[d], r.dims[d])
      /\ ~HasModulo(l) /\ ~HasModulo(r) /\ Ready(l) /\ Ready(r) => e # Assertion
  BY AddResult
<1>3. c \in {Failure, Assertion} \/ c = s
  BY <1>2
<1>4. ASSUME c = s PROVE IsSum(s, l, r, shape)
  <2>1. \A d \in Unstructured(l), e \in Unstructured(r) : d = e
    BY <1>2, <1>4
  <2>2. /\ Formed(s, shape) /\ s.scalar = AddScalar(l, r)
        /\ s.source = (l.source \/ r.source)
        /\ Unstructured(s) = Unstructured(l) \cup Unstructured(r)
        /\ ~HasModulo(l) /\ ~HasModulo(r) => ~HasModulo(s)
    BY <2>1, SumFormed
  <2>4. AddScalar(l, r) = ScalarOfSum(l, r)
    BY ScalarSum DEF ScalarOfSum
  <2> HIDE DEF c, s
  <2> QED BY <1>4, <2>2, <2>4 DEF IsSum
<1>6. /\ c = s => /\ \A d \in Unstructured(l), e \in Unstructured(r) : d = e
                  /\ \A d \in Unstructured(l) \cup Unstructured(r) : GatherAssert(l.dims[d], r.dims[d])
      /\ Ready(l) /\ Ready(r) => c # Assertion
  BY <1>2 DEF IsSecond
<1> HIDE DEF c, s
<1>7. CASE c \in {Failure, Assertion}
  BY <1>6, <1>7 DEF c
<1>8. CASE c = s
  <2>1. SecondSumIs(c, l, r, shape, mode)
    BY <1>4, <1>6, <1>8 DEF s, SecondSumIs
  <2> QED BY <1>6, <2>1 DEF c
<1> QED BY <1>3, <1>7, <1>8

-----------------------------------------------------------------------------
(* What the state of the first mode and that of the second one say of the  *)
(* elements of a tensor, and how the two states agree.                     *)

Uniform(st, shape, elem) == st.scalar \in Scalars => \A x \in Elements(shape) : elem[x] = st.scalar.val

Decodes(st, shape, elem) == \A x \in Elements(shape) : Decoded(st, x) = elem[x]

First(s, shape, elem) ==
  Formed(s, shape) /\ Uniform(s, shape, elem) /\ Positive(s) /\ (IsStructured(s) => Decodes(s, shape, elem))

Second(u, shape, elem) ==
  Formed(u, shape) /\ ~HasModulo(u) /\ Uniform(u, shape, elem) /\ Decodes(u, shape, elem)

TermsAgree(D, s, u, shape) == \A d \in D : \A i \in 0 .. shape[d] - 1 : Term(s.dims[d], i) = Term(u.dims[d], i)

Same(s, u, shape) ==
  /\ s.scalar = u.scalar
  /\ enableMakeGatherScatterTensorPtr =>
       /\ Unstructured(s) = Unstructured(u)
       /\ TermsAgree(DOMAIN shape \ Unstructured(s), s, u, shape)
       /\ IsStructured(s) => ~HasModulo(s)

SumsUp(ce, ae, be, shape) == \A x \in Elements(shape) : ce[x] = ae[x] + be[x]

LEMMA UniformSum ==
  ASSUME NEW shape \in TensorShapes, NEW l, NEW r, NEW c, NEW ae, NEW be, NEW ce, IsSum(c, l, r, shape),
         Uniform(l, shape, ae), Uniform(r, shape, be), SumsUp(ce, ae, be, shape)
  PROVE  Uniform(c, shape, ce)
<1> SUFFICES ASSUME c.scalar \in Scalars, NEW x \in Elements(shape) PROVE ce[x] = c.scalar.val
  BY DEF Uniform
<1>1. c.scalar = ScalarOfSum(l, r) /\ Absent \notin Scalars
  BY ScalarFacts DEF IsSum
<1>2. l.scalar \in Scalars /\ r.scalar \in Scalars
  BY <1>1 DEF ScalarOfSum
<1> DEFINE n == l.scalar.val + r.scalar.val
<1>3. c.scalar = Value(n) /\ n \in Int
  BY <1>1, <1>2, ScalarFacts DEF ScalarOfSum
<1>4. ae[x] = l.scalar.val /\ be[x] = r.scalar.val
  BY <1>2 DEF Uniform
<1>5. ce[x] = n
  BY <1>4 DEF SumsUp
<1> HIDE DEF n
<1> QED BY <1>3, <1>5, NumberFacts

LEMMA UnshiftedCleared ==
  ASSUME NEW shape \in TensorShapes, NEW l, NEW r, NEW x, NEW y, Formed(l, shape), Formed(r, shape),
         ClearedPair(x, y, l, r, shape), Unshifted(l, r)
  PROVE  /\ Unshifted(x, y)
         /\ \A d \in DOMAIN shape \ (Unstructured(x) \cup Unstructured(y)) : x.dims[d] = l.dims[d] /\ y.dims[d] = r.dims[d]
<1>1. Formed(x, shape) /\ Formed(y, shape)
  BY DEF ClearedPair, ClearedOf
<1>2. /\ DOMAIN l.dims = DOMAIN shape /\ DOMAIN r.dims = DOMAIN shape /\ DOMAIN x.dims = DOMAIN shape
      /\ Unstructured(x) = {d \in DOMAIN shape : IsTensor(x.dims[d].offset)}
      /\ Unstructured(y) = {d \in DOMAIN shape : IsTensor(y.dims[d].offset)}
  BY <1>1, StateFacts
<1>3. \A d \in DOMAIN shape :
        x.dims[d] = l.dims[d] \/ (IsTensor(x.dims[d].offset) /\ ~DimHasModulo(x.dims[d]))
  <2>1. x = l \/ \E d : Unstructured(x) = {d} /\ ~DimHasModulo(x.dims[d]) /\ \A e \in DOMAIN shape : e # d => x.dims[e] = l.dims[e]
    BY DEF ClearedPair, ClearedOf
  <2> QED BY <1>2, <2>1
<1>4. \A d \in DOMAIN shape :
        y.dims[d] = r.dims[d] \/ (IsTensor(y.dims[d].offset) /\ ~DimHasModulo(y.dims[d]))
  <2>1. y = r \/ \E d : Unstructured(y) = {d} /\ ~DimHasModulo(y.dims[d]) /\ \A e \in DOMAIN shape : e # d => y.dims[e] = r.dims[e]
    BY DEF ClearedPair, ClearedOf
  <2> QED BY <1>2, <2>1
<1>5. Unshifted(x, y)
  <2> SUFFICES ASSUME NEW d \in DOMAIN shape
               PROVE  /\ DimHasModulo(x.dims[d]) /\ ~IsTensor(y.dims[d].offset) => ~Adds(y.dims[d])
                      /\ DimHasModulo(y.dims[d]) /\ ~IsTensor(x.dims[d].offset) => ~Adds(x.dims[d])
    BY <1>2 DEF Unshifted
  <2>1. /\ DimHasModulo(l.dims[d]) /\ ~IsTensor(r.dims[d].offset) => ~Adds(r.dims[d])
        /\ DimHasModulo(r.dims[d]) /\ ~IsTensor(l.dims[d].offset) => ~Adds(l.dims[d])
    BY <1>2 DEF Unshifted
  <2>2. x.dims[d] = l.dims[d] \/ (IsTensor(x.dims[d].offset) /\ ~DimHasModulo(x.dims[d]))
    BY <1>3
  <2>3. y.dims[d] = r.dims[d] \/ (IsTensor(y.dims[d].offset) /\ ~DimHasModulo(y.dims[d]))
    BY <1>4
  <2> QED BY <2>1, <2>2, <2>3
<1>6. \A d \in DOMAIN shape \ (Unstructured(x) \cup Unstructured(y)) : x.dims[d] = l.dims[d] /\ y.dims[d] = r.dims[d]
  BY <1>2, <1>3, <1>4
<1> QED BY <1>5, <1>6

LEMMA FirstSum ==
  ASSUME NEW shape \in TensorShapes, NEW l, NEW r, NEW x, NEW y, NEW ae, NEW be, NEW ce,
         First(l, shape, ae), First(r, shape, be), SumsUp(ce, ae, be, shape),
         ~(l.source /\ r.source), ClearedPair(x, y, l, r, shape), Unshifted(l, r), NEW mode, IsFirst(mode),
         addState(x, y, mode) # Failure
  PROVE  /\ First(addState(x, y, mode), shape, ce)
         /\ IsSum(addState(x, y, mode), l, r, shape)
         /\ SumsIn(DOMAIN shape \ (Unstructured(l) \cup Unstructured(r)), addState(x, y, mode), l, r, shape)
<1> DEFINE c == addState(x, y, mode)
           D == DOMAIN shape \ (Unstructured(l) \cup Unstructured(r))
<1>1. Formed(l, shape) /\ Formed(r, shape) /\ Positive(l) /\ Positive(r)
  BY DEF First
<1>2. /\ IsSum(c, l, r, shape) /\ c = SumState(x, y, mode) /\ ~(HasModulo(x) /\ HasModulo(y))
      /\ \A d \in Unstructured(x), e \in Unstructured(y) : d = e
  <2>1. FirstSumIs(c, x, y, l, r, shape, mode)
    BY <1>1, FirstModeSum
  <2> QED BY <2>1 DEF FirstSumIs
<1>3. /\ Formed(x, shape) /\ Formed(y, shape) /\ Positive(x) /\ Positive(y)
      /\ Unstructured(x) \cup Unstructured(y) = Unstructured(l) \cup Unstructured(r)
  BY <1>1 DEF ClearedPair, ClearedOf
<1>4. /\ Unshifted(x, y)
      /\ \A d \in DOMAIN shape \ (Unstructured(x) \cup Unstructured(y)) : x.dims[d] = l.dims[d] /\ y.dims[d] = r.dims[d]
  BY <1>1, UnshiftedCleared
<1>5. Positive(SumState(x, y, mode)) /\ SumsIn(DOMAIN shape \ (Unstructured(x) \cup Unstructured(y)), SumState(x, y, mode), x, y, shape)
  BY <1>2, <1>3, <1>4, SumPositive
<1>6. SumsIn(D, c, l, r, shape)
  <2> HIDE DEF c
  <2>1. SumsIn(D, c, x, y, shape)
    BY <1>2, <1>3, <1>5
  <2> QED BY <1>3, <1>4, <2>1 DEF SumsIn
<1>7. Uniform(c, shape, ce)
  <2> HIDE DEF c
  <2> QED BY <1>2, UniformSum DEF First
<1>8. ASSUME IsStructured(c), NEW z \in Elements(shape) PROVE Decoded(c, z) = ce[z]
  <2>1. Unstructured(l) = {} /\ Unstructured(r) = {} /\ Unstructured(x) = {} /\ Unstructured(y) = {}
    BY <1>2, <1>3, <1>8 DEF IsSum, IsStructured
  <2>2. x = l /\ y = r
    BY <2>1 DEF ClearedPair, ClearedOf
  <2>3. Decoded(SumState(x, y, mode), z) = Decoded(x, z) + Decoded(y, z)
    BY <1>2, <1>3, <1>4, <2>1, StructuredSum DEF IsStructured
  <2>4. Decoded(l, z) = ae[z] /\ Decoded(r, z) = be[z]
    BY <2>1 DEF First, Decodes, IsStructured
  <2>5. ce[z] = ae[z] + be[z]
    BY DEF SumsUp
  <2> HIDE DEF c
  <2> QED BY <1>2, <2>2, <2>3, <2>4, <2>5
<1> HIDE DEF c, D
<1>9. Positive(c) /\ Formed(c, shape)
  BY <1>2, <1>5 DEF IsSum
<1>10. First(c, shape, ce)
  BY <1>7, <1>8, <1>9 DEF First, Decodes
<1> QED BY <1>2, <1>6, <1>10 DEF c, D

LEMMA SecondSum ==
  ASSUME NEW shape \in TensorShapes, NEW l, NEW r, NEW ae, NEW be, NEW ce,
         Second(l, shape, ae), Second(r, shape, be), SumsUp(ce, ae, be, shape),
         ~(l.source /\ r.source), Undropped(l, r), NEW mode, IsSecond(mode),
         addState(l, r, mode) \notin {Failure, Assertion}
  PROVE  /\ Second(addState(l, r, mode), shape, ce)
         /\ IsSum(addState(l, r, mode), l, r, shape)
         /\ SumsIn(DOMAIN shape \ (Unstructured(l) \cup Unstructured(r)), addState(l, r, mode), l, r, shape)
<1> DEFINE c == addState(l, r, mode)
           D == DOMAIN shape \ (Unstructured(l) \cup Unstructured(r))
<1>1. Formed(l, shape) /\ Formed(r, shape) /\ ~HasModulo(l) /\ ~HasModulo(r)
  BY DEF Second
<1>2. /\ IsSum(c, l, r, shape) /\ c = SumState(l, r, mode)
      /\ \A d \in Unstructured(l), e \in Unstructured(r) : d = e
  <2>1. SecondSumIs(c, l, r, shape, mode)
    BY <1>1, SecondModeSum
  <2> QED BY <2>1 DEF SecondSumIs
<1>3. \A d \in Unstructured(l) \cup Unstructured(r) : GatherAssert(l.dims[d], r.dims[d])
  <2>1. SecondSumIs(c, l, r, shape, mode)
    BY <1>1, SecondModeSum
  <2> QED BY <2>1 DEF SecondSumIs
<1>4. Positive(l) /\ Positive(r) /\ Unshifted(l, r)
  BY <1>1, NoneHasModulo
<1>5. SumsIn(D, SumState(l, r, mode), l, r, shape)
  BY <1>1, <1>2, <1>4, SumPositive
<1>6. ASSUME NEW z \in Elements(shape) PROVE Decoded(c, z) = ce[z]
  <2>1. Decoded(SumState(l, r, mode), z) = Decoded(l, z) + Decoded(r, z)
    BY <1>1, <1>2, <1>3, GatherSum
  <2>2. Decoded(l, z) = ae[z] /\ Decoded(r, z) = be[z]
    BY DEF Second, Decodes
  <2>3. ce[z] = ae[z] + be[z]
    BY DEF SumsUp
  <2> HIDE DEF c
  <2> QED BY <1>2, <2>1, <2>2, <2>3
<1> HIDE DEF c, D
<1>7. Uniform(c, shape, ce)
  BY <1>2, UniformSum DEF Second
<1>8. Formed(c, shape) /\ ~HasModulo(c)
  BY <1>1, <1>2 DEF IsSum
<1>9. Second(c, shape, ce)
  BY <1>6, <1>7, <1>8 DEF Second, Decodes
<1> QED BY <1>2, <1>5, <1>9 DEF c, D

LEMMA SameSum ==
  ASSUME NEW shape \in TensorShapes, NEW ls, NEW lu, NEW rs, NEW ru, NEW cs, NEW cu,
         Same(ls, lu, shape), Same(rs, ru, shape), IsSum(cs, ls, rs, shape), IsSum(cu, lu, ru, shape),
         SumsIn(DOMAIN shape \ (Unstructured(ls) \cup Unstructured(rs)), cs, ls, rs, shape),
         SumsIn(DOMAIN shape \ (Unstructured(lu) \cup Unstructured(ru)), cu, lu, ru, shape)
  PROVE  Same(cs, cu, shape)
<1>1. cs.scalar = cu.scalar
  BY DEF Same, IsSum, ScalarOfSum
<1>2. ASSUME enableMakeGatherScatterTensorPtr
      PROVE  /\ Unstructured(cs) = Unstructured(cu)
             /\ TermsAgree(DOMAIN shape \ Unstructured(cs), cs, cu, shape)
             /\ IsStructured(cs) => ~HasModulo(cs)
  <2>1. /\ Unstructured(ls) = Unstructured(lu) /\ Unstructured(rs) = Unstructured(ru)
        /\ TermsAgree(DOMAIN shape \ Unstructured(ls), ls, lu, shape)
        /\ TermsAgree(DOMAIN shape \ Unstructured(rs), rs, ru, shape)
    BY <1>2 DEF Same
  <2>2. /\ Unstructured(cs) = Unstructured(ls) \cup Unstructured(rs)
        /\ Unstructured(cu) = Unstructured(lu) \cup Unstructured(ru)
    BY DEF IsSum
  <2>3. TermsAgree(DOMAIN shape \ Unstructured(cs), cs, cu, shape)
    <3> SUFFICES ASSUME NEW d \in DOMAIN shape \ Unstructured(cs), NEW i \in 0 .. shape[d] - 1
                 PROVE  Term(cs.dims[d], i) = Term(cu.dims[d], i)
      BY DEF TermsAgree
    <3>1. /\ Term(cs.dims[d], i) = Term(ls.dims[d], i) + Term(rs.dims[d], i)
          /\ Term(cu.dims[d], i) = Term(lu.dims[d], i) + Term(ru.dims[d], i)
      BY <2>1, <2>2 DEF SumsIn
    <3>2. Term(ls.dims[d], i) = Term(lu.dims[d], i) /\ Term(rs.dims[d], i) = Term(ru.dims[d], i)
      BY <2>1, <2>2 DEF TermsAgree
    <3> QED BY <3>1, <3>2
  <2>4. IsStructured(cs) => ~HasModulo(cs)
    BY <1>2, <2>2 DEF Same, IsSum, IsStructured
  <2> QED BY <2>1, <2>2, <2>3, <2>4
<1> QED BY <1>1, <1>2 DEF Same

-----------------------------------------------------------------------------
(* The states of what is subtracted. *)

Opposite(ne, be, shape) == \A x \in Elements(shape) : ne[x] = -be[x]

LEMMA UniformNegated ==
  ASSUME NEW shape \in TensorShapes, NEW r, Formed(r, shape), NEW be, NEW ne,
         Uniform(r, shape, be), Opposite(ne, be, shape)
  PROVE  Uniform(Negated(r), shape, ne)
<1> SUFFICES ASSUME Negated(r).scalar \in Scalars, NEW x \in Elements(shape) PROVE ne[x] = Negated(r).scalar.val
  BY DEF Uniform
<1> DEFINE k == r.scalar
           n == -k.val
<1>1. /\ Negated(r).scalar = IF r.scalar \in Scalars THEN Value(-r.scalar.val) ELSE Absent
      /\ Absent \notin Scalars
  BY NegatedIs, ScalarFacts
<1>2. k \in Scalars /\ Negated(r).scalar = Value(n)
  BY <1>1
<1>3. n \in Int
  BY <1>2, ScalarFacts
<1>4. ne[x] = n
  BY <1>2 DEF Uniform, Opposite
<1> HIDE DEF n
<1> QED BY <1>2, <1>3, <1>4, NumberFacts

LEMMA FirstNegated ==
  ASSUME NEW shape \in TensorShapes, NEW r, NEW be, NEW ne, First(r, shape, be), ~HasModulo(r), Opposite(ne, be, shape)
  PROVE  First(Negated(r), shape, ne)
<1> DEFINE c == Negated(r)
<1>1. Formed(r, shape) /\ Uniform(r, shape, be)
  BY DEF First
<1>2. Formed(c, shape) /\ Unstructured(c) = Unstructured(r) /\ ~HasModulo(c)
  BY <1>1, NegatedIs
<1>3. Uniform(c, shape, ne)
  BY <1>1, UniformNegated
<1>4. IsStructured(r) => \A x \in Elements(shape) : Decoded(c, x) = -Decoded(r, x)
  BY <1>1, NegatedTerms
<1> HIDE DEF c
<1>5. Positive(c)
  BY <1>2, NoneHasModulo
<1>6. IsStructured(c) => Decodes(c, shape, ne)
  BY <1>2, <1>4 DEF First, Decodes, Opposite, IsStructured
<1> QED BY <1>2, <1>3, <1>5, <1>6 DEF First, c

LEMMA SecondNegated ==
  ASSUME NEW shape \in TensorShapes, NEW r, NEW be, NEW ne, Second(r, shape, be), IsStructured(r), Opposite(ne, be, shape)
  PROVE  Second(Negated(r), shape, ne)
<1> DEFINE c == Negated(r)
<1>1. Formed(r, shape) /\ Uniform(r, shape, be) /\ ~HasModulo(r)
  BY DEF Second
<1>2. Formed(c, shape) /\ ~HasModulo(c)
  BY <1>1, NegatedIs
<1>3. Uniform(c, shape, ne)
  BY <1>1, UniformNegated
<1>4. \A x \in Elements(shape) : Decoded(c, x) = -Decoded(r, x)
  BY <1>1, NegatedTerms
<1> HIDE DEF c
<1>6. Decodes(c, shape, ne)
  BY <1>4 DEF Second, Decodes, Opposite
<1> QED BY <1>2, <1>3, <1>6 DEF Second, c

LEMMA SameNegated ==
  ASSUME NEW shape \in TensorShapes, NEW s, NEW u, Formed(s, shape), Formed(u, shape),
         ~HasModulo(s), ~HasModulo(u), Same(s, u, shape)
  PROVE  Same(Negated(s), Negated(u), shape)
<1> DEFINE c == Negated(s)
           e == Negated(u)
<1>1. /\ c.scalar = IF s.scalar \in Scalars THEN Value(-s.scalar.val) ELSE Absent
      /\ Unstructured(c) = Unstructured(s) /\ ~HasModulo(c)
      /\ NegatesIn(DOMAIN shape \ Unstructured(s), c, s, shape)
  BY NegatedIs, NegatedTerms
<1>2. /\ e.scalar = IF u.scalar \in Scalars THEN Value(-u.scalar.val) ELSE Absent
      /\ Unstructured(e) = Unstructured(u)
      /\ NegatesIn(DOMAIN shape \ Unstructured(u), e, u, shape)
  BY NegatedIs, NegatedTerms
<1> HIDE DEF c, e
<1>3. c.scalar = e.scalar
  BY <1>1, <1>2 DEF Same
<1>4. ASSUME enableMakeGatherScatterTensorPtr
      PROVE  Unstructured(c) = Unstructured(e) /\ TermsAgree(DOMAIN shape \ Unstructured(c), c, e, shape)
  <2>1. Unstructured(s) = Unstructured(u) /\ TermsAgree(DOMAIN shape \ Unstructured(s), s, u, shape)
    BY <1>4 DEF Same
  <2>2. TermsAgree(DOMAIN shape \ Unstructured(c), c, e, shape)
    BY <1>1, <1>2, <2>1 DEF TermsAgree, NegatesIn
  <2> QED BY <1>1, <1>2, <2>1, <2>2
<1> QED BY <1>1, <1>3, <1>4 DEF Same, c, e

-----------------------------------------------------------------------------
(* The states of a product: h is multiplied by the scalar of m. *)

TimesUp(ce, ae, be, shape) == \A x \in Elements(shape) : ce[x] = ae[x] * be[x]

ScalarOfProduct(h, m) ==
  IF h.scalar \in Scalars /\ m.scalar \in Scalars THEN Value(h.scalar.val * m.scalar.val) ELSE Absent

LEMMA ScalarOfProductType ==
  ASSUME NEW h, NEW m
  PROVE  ScalarOfProduct(h, m) \in Scalars \cup {Absent}
<1>1. CASE h.scalar \in Scalars /\ m.scalar \in Scalars
  <2> DEFINE n == h.scalar.val * m.scalar.val
  <2>1. n \in Int
    BY <1>1, ScalarFacts
  <2>2. ScalarOfProduct(h, m) = Value(n)
    BY <1>1 DEF ScalarOfProduct
  <2> HIDE DEF n
  <2> QED BY <2>1, <2>2, ScalarFacts
<1>2. CASE ~(h.scalar \in Scalars /\ m.scalar \in Scalars)
  BY <1>2 DEF ScalarOfProduct
<1> QED BY <1>1, <1>2

LEMMA UniformProduct ==
  ASSUME NEW shape \in TensorShapes, NEW h, NEW m, NEW he, NEW me, NEW ce, NEW c,
         Uniform(h, shape, he), Uniform(m, shape, me), TimesUp(ce, he, me, shape), c.scalar = ScalarOfProduct(h, m)
  PROVE  Uniform(c, shape, ce)
<1> SUFFICES ASSUME c.scalar \in Scalars, NEW x \in Elements(shape) PROVE ce[x] = c.scalar.val
  BY DEF Uniform
<1>1. h.scalar \in Scalars /\ m.scalar \in Scalars
  BY ScalarFacts DEF ScalarOfProduct
<1> DEFINE n == h.scalar.val * m.scalar.val
<1>2. c.scalar = Value(n) /\ n \in Int
  BY <1>1, ScalarFacts DEF ScalarOfProduct
<1>3. ce[x] = n
  BY <1>1 DEF Uniform, TimesUp
<1> HIDE DEF n
<1> QED BY <1>2, <1>3, NumberFacts

LEMMA FirstProduct ==
  ASSUME NEW shape \in TensorShapes, NEW h, NEW m, NEW g, NEW he, NEW me, NEW ce,
         First(h, shape, he), Uniform(m, shape, me), m.scalar \in Scalars, TimesUp(ce, he, me, shape),
         ClearedOf(g, h, m, shape), Scalable(h, m.scalar), NEW mode
  PROVE  First(Product(g, m.scalar, ScalarOfProduct(h, m), mode), shape, ce)
<1> DEFINE k == m.scalar
           sc == ScalarOfProduct(h, m)
           c == Product(g, k, sc, mode)
<1>1. Formed(g, shape) /\ Positive(g) /\ Scalable(g, k) /\ (Unstructured(g) = {} => g = h)
  BY DEF ClearedOf, First, Scalable
<1>2. k \in Scalars /\ sc \in Scalars \cup {Absent} /\ k.val \in Int
  BY ScalarOfProductType, ScalarFacts
<1> HIDE DEF k, sc
<1>3. Formed(c, shape) /\ c.scalar = sc /\ Unstructured(c) = Unstructured(g)
  <2>1. IsProductOf(c, g, sc, shape)
    BY <1>1, <1>2, ProductFormed
  <2> HIDE DEF c
  <2> QED BY <1>1, <2>1 DEF IsProductOf
<1>4. Positive(c)
  BY <1>1, <1>2, ProductTerms
<1>5. Uniform(c, shape, ce)
  <2> HIDE DEF c
  <2> QED BY <1>3, UniformProduct DEF First, sc
<1>6. ASSUME IsStructured(c), NEW x \in Elements(shape) PROVE Decoded(c, x) = ce[x]
  <2>1. IsStructured(g) /\ g = h
    BY <1>1, <1>3, <1>6 DEF IsStructured
  <2>2. Decoded(c, x) = Decoded(g, x) * k.val
    BY <1>1, <1>2, <2>1, ProductDecodes
  <2>3. Decoded(h, x) = he[x]
    BY <2>1 DEF First, Decodes
  <2>4. ce[x] = he[x] * me[x] /\ me[x] = k.val
    BY DEF TimesUp, Uniform, k
  <2> HIDE DEF c
  <2> QED BY <2>1, <2>2, <2>3, <2>4
<1> HIDE DEF c
<1> QED BY <1>3, <1>4, <1>5, <1>6 DEF First, Decodes, c, k, sc

LEMMA SecondProduct ==
  ASSUME NEW shape \in TensorShapes, NEW h, NEW m, NEW he, NEW me, NEW ce,
         Second(h, shape, he), Uniform(m, shape, me), m.scalar \in Scalars, TimesUp(ce, he, me, shape),
         NEW mode, IsSecond(mode)
  PROVE  Second(Product(h, m.scalar, ScalarOfProduct(h, m), mode), shape, ce)
<1> DEFINE k == m.scalar
           sc == ScalarOfProduct(h, m)
           c == Product(h, k, sc, mode)
<1>1. Formed(h, shape) /\ ~HasModulo(h) /\ Positive(h) /\ Scalable(h, k)
  BY NoneHasModulo DEF Second, Scalable
<1>2. k \in Scalars /\ sc \in Scalars \cup {Absent} /\ k.val \in Int
  BY ScalarOfProductType, ScalarFacts
<1> HIDE DEF k, sc
<1>3. Formed(c, shape) /\ c.scalar = sc /\ ~HasModulo(c)
  <2>1. IsProductOf(c, h, sc, shape)
    BY <1>1, <1>2, ProductFormed
  <2> HIDE DEF c
  <2> QED BY <1>1, <2>1 DEF IsProductOf
<1>5. Uniform(c, shape, ce)
  <2> HIDE DEF c
  <2> QED BY <1>3, UniformProduct DEF Second, sc
<1>6. ASSUME NEW x \in Elements(shape) PROVE Decoded(c, x) = ce[x]
  <2>2. Decoded(c, x) = Decoded(h, x) * k.val
    BY <1>1, <1>2, ProductDecodes
  <2>3. Decoded(h, x) = he[x]
    BY DEF Second, Decodes
  <2>4. ce[x] = he[x] * me[x] /\ me[x] = k.val
    BY DEF TimesUp, Uniform, k
  <2> HIDE DEF c
  <2> QED BY <2>2, <2>3, <2>4
<1> HIDE DEF c
<1> QED BY <1>3, <1>5, <1>6 DEF Second, Decodes, c, k, sc

LEMMA SameProduct ==
  ASSUME NEW shape \in TensorShapes, NEW s, NEW u, NEW o, NEW g, NEW k \in Scalars, NEW sc \in Scalars \cup {Absent},
         Formed(s, shape), Formed(u, shape), Positive(s), ~HasModulo(u), Same(s, u, shape),
         ClearedOf(g, s, o, shape), Scalable(s, k), NEW first, NEW second
  PROVE  Same(Product(g, k, sc, first), Product(u, k, sc, second), shape)
<1> DEFINE c == Product(g, k, sc, first)
           e == Product(u, k, sc, second)
           n == k.val
<1>1. Formed(g, shape) /\ Positive(g) /\ (HasModulo(g) => HasModulo(s)) /\ Scalable(g, k)
  BY DEF ClearedOf, Scalable
<1>2. /\ c.scalar = sc /\ Unstructured(c) = Unstructured(g) /\ (HasModulo(c) => HasModulo(g))
      /\ ScalesIn(DOMAIN shape \ Unstructured(g), c, g, n, shape)
  <2>1. IsProductOf(c, g, sc, shape)
    BY <1>1, ProductFormed
  <2>2. c.scalar = sc /\ Unstructured(c) = Unstructured(g) /\ (HasModulo(c) => HasModulo(g))
    BY <2>1 DEF IsProductOf
  <2>3. ScalesIn(DOMAIN shape \ Unstructured(g), c, g, n, shape)
    BY <1>1, ProductTerms
  <2> QED BY <2>2, <2>3
<1>3. Positive(u) /\ Scalable(u, k)
  BY NoneHasModulo DEF Scalable
<1>4. /\ e.scalar = sc /\ Unstructured(e) = Unstructured(u)
      /\ ScalesIn(DOMAIN shape \ Unstructured(u), e, u, n, shape)
  <2>1. IsProductOf(e, u, sc, shape)
    BY ProductFormed
  <2>2. e.scalar = sc /\ Unstructured(e) = Unstructured(u)
    BY <2>1 DEF IsProductOf
  <2>3. ScalesIn(DOMAIN shape \ Unstructured(u), e, u, n, shape)
    BY <1>3, ProductTerms
  <2> QED BY <2>2, <2>3
<1> HIDE DEF c, e, n
<1>5. ASSUME enableMakeGatherScatterTensorPtr
      PROVE  /\ Unstructured(c) = Unstructured(e)
             /\ TermsAgree(DOMAIN shape \ Unstructured(c), c, e, shape)
             /\ IsStructured(c) => ~HasModulo(c)
  <2>1. /\ Unstructured(s) = Unstructured(u) /\ TermsAgree(DOMAIN shape \ Unstructured(s), s, u, shape)
        /\ Unstructured(s) = {} => ~HasModulo(s)
    BY <1>5 DEF Same, IsStructured
  <2>2. Unstructured(g) = Unstructured(s)
    BY <2>1 DEF ClearedOf
  <2>3. \A d \in DOMAIN shape \ Unstructured(g) : g.dims[d] = s.dims[d]
    BY <2>2 DEF ClearedOf
  <2>4. TermsAgree(DOMAIN shape \ Unstructured(c), c, e, shape)
    <3> SUFFICES ASSUME NEW d \in DOMAIN shape \ Unstructured(c), NEW i \in 0 .. shape[d] - 1
                 PROVE  Term(c.dims[d], i) = Term(e.dims[d], i)
      BY DEF TermsAgree
    <3>1. Term(c.dims[d], i) = Term(g.dims[d], i) * n /\ Term(e.dims[d], i) = Term(u.dims[d], i) * n
      BY <1>2, <1>4, <2>1, <2>2 DEF ScalesIn
    <3>2. g.dims[d] = s.dims[d] /\ Term(s.dims[d], i) = Term(u.dims[d], i)
      BY <1>2, <2>1, <2>2, <2>3 DEF TermsAgree
    <3> QED BY <3>1, <3>2
  <2>5. Unstructured(c) = {} => ~HasModulo(c)
    BY <1>1, <1>2, <2>1, <2>2
  <2> QED BY <1>2, <1>4, <2>1, <2>2, <2>4, <2>5 DEF IsStructured
<1> QED BY <1>2, <1>4, <1>5 DEF Same, c, e

-----------------------------------------------------------------------------
(* Products, in both modes *)

(* The product c of two states x and y, which were l and r before what has *)
(* a modulo was cleared.                                                   *)
MulOf(c, x, y, l, r, mode) ==
  \/ r.scalar \in Scalars /\ c = Product(x, r.scalar, ScalarOfProduct(l, r), mode)
  \/ r.scalar \notin Scalars /\ l.scalar \in Scalars /\ c = Product(y, l.scalar, ScalarOfProduct(r, l), mode)

LEMMA PairOfSame ==
  ASSUME NEW shape \in TensorShapes, NEW l, NEW r, Formed(l, shape), Formed(r, shape)
  PROVE  ClearedPair(l, r, l, r, shape)
BY DEF ClearedPair, ClearedOf

LEMMA MulCases ==
  ASSUME NEW shape \in TensorShapes, NEW l, NEW r, Formed(l, shape), Formed(r, shape), ~l.source, ~r.source,
         NEW x, NEW y, ClearedPair(x, y, l, r, shape), NEW mode
  PROVE  /\ mulState(x, y, mode) \in {Failure, Assertion} \/ MulOf(mulState(x, y, mode), x, y, l, r, mode)
         /\ IsFirst(mode) \/ (~HasModulo(l) /\ ~HasModulo(r)) => mulState(x, y, mode) # Assertion
         /\ (l.scalar \in Scalars \/ r.scalar \in Scalars) /\ ~HasModulo(l) /\ ~HasModulo(r)
              => MulOf(mulState(x, y, mode), x, y, l, r, mode)
<1> DEFINE c == mulState(x, y, mode)
           s == ProductState(x, y, mode)
<1>1. /\ Formed(x, shape) /\ Formed(y, shape) /\ ~x.source /\ ~y.source
      /\ x.scalar = l.scalar /\ y.scalar = r.scalar
      /\ HasModulo(x) => HasModulo(l)
      /\ HasModulo(y) => HasModulo(r)
  BY DEF ClearedPair, ClearedOf
<1>2. /\ c \in {Failure, Assertion} \/ c = s
      /\ c = s => l.scalar \in Scalars \/ r.scalar \in Scalars
      /\ IsFirst(mode) \/ ~HasModulo(Multiplied(x, y)) => c # Assertion
      /\ (l.scalar \in Scalars \/ r.scalar \in Scalars) /\ ~HasModulo(x) /\ ~HasModulo(y) => c = s
  <2>1. /\ c \in {Failure, Assertion} \/ c = s
        /\ c = s => (x.scalar \in Scalars \/ y.scalar \in Scalars) /\ ~HasModulo(Multiplier(x, y))
        /\ IsFirst(mode) \/ ~HasModulo(Multiplied(x, y)) => c # Assertion
        /\ (x.scalar \in Scalars \/ y.scalar \in Scalars) /\ ~HasModulo(x) /\ ~HasModulo(y) => c = s
    BY Zenon, <1>1, MulResult
  <2> HIDE DEF c, s
  <2> QED BY Zenon, <1>1, <2>1
<1>3. ~HasModulo(l) /\ ~HasModulo(r) => ~HasModulo(x) /\ ~HasModulo(y) /\ ~HasModulo(Multiplied(x, y))
  BY <1>1 DEF Multiplied
<1>4. ASSUME l.scalar \in Scalars \/ r.scalar \in Scalars PROVE MulOf(s, x, y, l, r, mode)
  <2>1. SumScalar(x, y, Times) = IF x.scalar \in Scalars /\ y.scalar \in Scalars
                                   THEN Value(x.scalar.val * y.scalar.val) ELSE Absent
    BY <1>1, ScalarSum
  <2>2. /\ Present(x.scalar) <=> l.scalar \in Scalars
        /\ Present(y.scalar) <=> r.scalar \in Scalars
    BY <1>1, StateFacts
  <2>3. CASE r.scalar \in Scalars
    <3>1. Multiplied(x, y) = x /\ Multiplier(x, y) = y
      BY <2>2, <2>3 DEF Multiplied, Multiplier
    <3>2. s = Product(x, r.scalar, SumScalar(x, y, Times), mode)
      BY <1>1, <3>1 DEF ProductState
    <3>3. SumScalar(x, y, Times) = ScalarOfProduct(l, r)
      BY <1>1, <2>1 DEF ScalarOfProduct
    <3> HIDE DEF s
    <3> QED BY <2>3, <3>2, <3>3 DEF MulOf
  <2>4. CASE r.scalar \notin Scalars
    <3>1. Multiplied(x, y) = y /\ Multiplier(x, y) = x
      BY <1>4, <2>2, <2>4 DEF Multiplied, Multiplier
    <3>2. s = Product(y, l.scalar, SumScalar(x, y, Times), mode)
      BY <1>1, <3>1 DEF ProductState
    <3>3. SumScalar(x, y, Times) = ScalarOfProduct(r, l)
      BY <1>1, <2>1, <2>4 DEF ScalarOfProduct
    <3> HIDE DEF s
    <3> QED BY <1>4, <2>4, <3>2, <3>3 DEF MulOf
  <2> QED BY <2>3, <2>4
<1> HIDE DEF s
<1> QED BY <1>2, <1>3, <1>4

IsMul(c, l, r, shape, mode) ==
  /\ Formed(c, shape) /\ c.source = FALSE
  /\ l.scalar \in Scalars \/ r.scalar \in Scalars
  /\ c.scalar = ScalarOfProduct(l, r)
  /\ IsStructured(l) /\ IsStructured(r) => IsStructured(c)
  /\ ~HasModulo(l) /\ ~HasModulo(r) => ~HasModulo(c)

LEMMA MulFormed ==
  ASSUME NEW shape \in TensorShapes, NEW l, NEW r, Formed(l, shape), Formed(r, shape), NEW x, NEW y,
         ClearedPair(x, y, l, r, shape), NEW mode, NEW c, MulOf(c, x, y, l, r, mode)
  PROVE  IsMul(c, l, r, shape, mode)
<1>1. /\ Formed(x, shape) /\ Formed(y, shape)
      /\ HasModulo(x) => HasModulo(l)
      /\ HasModulo(y) => HasModulo(r)
      /\ Unstructured(x) \cup Unstructured(y) = Unstructured(l) \cup Unstructured(r)
  BY DEF ClearedPair, ClearedOf
<1>2. CASE r.scalar \in Scalars /\ c = Product(x, r.scalar, ScalarOfProduct(l, r), mode)
  <2> DEFINE sc == ScalarOfProduct(l, r)
  <2>1. sc \in Scalars \cup {Absent}
    BY ScalarOfProductType
  <2> HIDE DEF sc
  <2>2. IsProductOf(Product(x, r.scalar, sc, mode), x, sc, shape)
    BY <1>1, <1>2, <2>1, ProductFormed
  <2>3. IsProductOf(c, x, sc, shape)
    BY <1>2, <2>2 DEF sc
  <2> QED BY <1>1, <1>2, <2>3 DEF IsProductOf, IsMul, sc, IsStructured
<1>3. CASE r.scalar \notin Scalars /\ l.scalar \in Scalars /\ c = Product(y, l.scalar, ScalarOfProduct(r, l), mode)
  <2> DEFINE sc == ScalarOfProduct(r, l)
  <2>1. sc \in Scalars \cup {Absent} /\ sc = ScalarOfProduct(l, r)
    BY <1>3, ScalarOfProductType DEF ScalarOfProduct
  <2> HIDE DEF sc
  <2>2. IsProductOf(Product(y, l.scalar, sc, mode), y, sc, shape)
    BY <1>1, <1>3, <2>1, ProductFormed
  <2>3. IsProductOf(c, y, sc, shape)
    BY <1>3, <2>2 DEF sc
  <2> QED BY <1>1, <1>3, <2>1, <2>3 DEF IsProductOf, IsMul, IsStructured
<1> QED BY <1>2, <1>3 DEF MulOf

LEMMA ReadyMul ==
  ASSUME NEW shape \in TensorShapes, NEW l, NEW r, Formed(l, shape), Formed(r, shape), Ready(l), Ready(r),
         NEW mode, IsSecond(mode), NEW c, MulOf(c, l, r, l, r, mode)
  PROVE  Ready(c)
<1>1. CASE r.scalar \in Scalars /\ c = Product(l, r.scalar, ScalarOfProduct(l, r), mode)
  <2> DEFINE sc == ScalarOfProduct(l, r)
  <2>1. sc \in Scalars \cup {Absent}
    BY ScalarOfProductType
  <2> HIDE DEF sc
  <2>2. Ready(Product(l, r.scalar, sc, mode))
    BY <1>1, <2>1, ProductFormed
  <2> QED BY <1>1, <2>2 DEF sc
<1>2. CASE r.scalar \notin Scalars /\ l.scalar \in Scalars /\ c = Product(r, l.scalar, ScalarOfProduct(r, l), mode)
  <2> DEFINE sc == ScalarOfProduct(r, l)
  <2>1. sc \in Scalars \cup {Absent}
    BY ScalarOfProductType
  <2> HIDE DEF sc
  <2>2. Ready(Product(r, l.scalar, sc, mode))
    BY <1>2, <2>1, ProductFormed
  <2> QED BY <1>2, <2>2 DEF sc
<1> QED BY <1>1, <1>2 DEF MulOf

(* No factor with a modulo is multiplied by what is not positive. *)
Unwrapped(l, r) ==
  /\ l.scalar \in Scalars => Scalable(r, l.scalar)
  /\ r.scalar \in Scalars => Scalable(l, r.scalar)

LEMMA TimesCommutes ==
  ASSUME NEW shape, NEW ae \in [Elements(shape) -> Int], NEW be \in [Elements(shape) -> Int], NEW ce,
         TimesUp(ce, ae, be, shape)
  PROVE  TimesUp(ce, be, ae, shape)
BY DEF TimesUp

LEMMA FirstMul ==
  ASSUME NEW shape \in TensorShapes, NEW l, NEW r, NEW x, NEW y, NEW ce,
         NEW ae \in [Elements(shape) -> Int], NEW be \in [Elements(shape) -> Int],
         First(l, shape, ae), First(r, shape, be), TimesUp(ce, ae, be, shape), Unwrapped(l, r),
         ClearedPair(x, y, l, r, shape), NEW mode, NEW c, MulOf(c, x, y, l, r, mode)
  PROVE  First(c, shape, ce)
<1>1. ClearedOf(x, l, r, shape) /\ ClearedOf(y, r, l, shape) /\ Uniform(l, shape, ae) /\ Uniform(r, shape, be)
  BY DEF ClearedPair, First
<1>2. TimesUp(ce, be, ae, shape)
  BY TimesCommutes
<1>3. CASE r.scalar \in Scalars /\ c = Product(x, r.scalar, ScalarOfProduct(l, r), mode)
  <2>1. First(Product(x, r.scalar, ScalarOfProduct(l, r), mode), shape, ce)
    BY <1>1, <1>3, FirstProduct DEF Unwrapped
  <2> QED BY <1>3, <2>1
<1>4. CASE r.scalar \notin Scalars /\ l.scalar \in Scalars /\ c = Product(y, l.scalar, ScalarOfProduct(r, l), mode)
  <2>1. First(Product(y, l.scalar, ScalarOfProduct(r, l), mode), shape, ce)
    BY <1>1, <1>2, <1>4, FirstProduct DEF Unwrapped
  <2> QED BY <1>4, <2>1
<1> QED BY <1>3, <1>4 DEF MulOf

LEMMA SecondMul ==
  ASSUME NEW shape \in TensorShapes, NEW l, NEW r, NEW ce,
         NEW ae \in [Elements(shape) -> Int], NEW be \in [Elements(shape) -> Int],
         Second(l, shape, ae), Second(r, shape, be), TimesUp(ce, ae, be, shape),
         NEW mode, IsSecond(mode), NEW c, MulOf(c, l, r, l, r, mode)
  PROVE  Second(c, shape, ce)
<1>1. Uniform(l, shape, ae) /\ Uniform(r, shape, be)
  BY DEF Second
<1>2. TimesUp(ce, be, ae, shape)
  BY TimesCommutes
<1>3. CASE r.scalar \in Scalars /\ c = Product(l, r.scalar, ScalarOfProduct(l, r), mode)
  <2>1. Second(Product(l, r.scalar, ScalarOfProduct(l, r), mode), shape, ce)
    BY <1>1, <1>3, SecondProduct
  <2> QED BY <1>3, <2>1
<1>4. CASE r.scalar \notin Scalars /\ l.scalar \in Scalars /\ c = Product(r, l.scalar, ScalarOfProduct(r, l), mode)
  <2>1. Second(Product(r, l.scalar, ScalarOfProduct(r, l), mode), shape, ce)
    BY <1>1, <1>2, <1>4, SecondProduct
  <2> QED BY <1>4, <2>1
<1> QED BY <1>3, <1>4 DEF MulOf

LEMMA SameMul ==
  ASSUME NEW shape \in TensorShapes, NEW ls, NEW lu, NEW rs, NEW ru, NEW x, NEW y,
         Formed(ls, shape), Formed(lu, shape), Formed(rs, shape), Formed(ru, shape),
         Positive(ls), Positive(rs), ~HasModulo(lu), ~HasModulo(ru),
         Same(ls, lu, shape), Same(rs, ru, shape), Unwrapped(ls, rs), ClearedPair(x, y, ls, rs, shape),
         NEW first, NEW second, NEW cs, NEW cu, MulOf(cs, x, y, ls, rs, first), MulOf(cu, lu, ru, lu, ru, second)
  PROVE  Same(cs, cu, shape)
<1>1. /\ ClearedOf(x, ls, rs, shape) /\ ClearedOf(y, rs, ls, shape)
      /\ ls.scalar = lu.scalar /\ rs.scalar = ru.scalar
  BY DEF ClearedPair, Same
<1>2. ScalarOfProduct(ls, rs) = ScalarOfProduct(lu, ru) /\ ScalarOfProduct(rs, ls) = ScalarOfProduct(ru, lu)
  BY <1>1 DEF ScalarOfProduct
<1>3. CASE rs.scalar \in Scalars
  <2> DEFINE k == rs.scalar
             sc == ScalarOfProduct(ls, rs)
  <2>1. k \in Scalars /\ sc \in Scalars \cup {Absent} /\ Scalable(ls, k)
    BY <1>3, ScalarOfProductType DEF Unwrapped
  <2>2. cs = Product(x, k, sc, first) /\ cu = Product(lu, k, sc, second)
    BY <1>1, <1>2, <1>3 DEF MulOf
  <2> HIDE DEF k, sc
  <2>3. Same(Product(x, k, sc, first), Product(lu, k, sc, second), shape)
    BY <1>1, <2>1, SameProduct
  <2> QED BY <2>2, <2>3
<1>4. CASE rs.scalar \notin Scalars
  <2> DEFINE k == ls.scalar
             sc == ScalarOfProduct(rs, ls)
  <2>2. k \in Scalars /\ cs = Product(y, k, sc, first) /\ cu = Product(ru, k, sc, second)
    BY <1>1, <1>2, <1>4 DEF MulOf
  <2>1. sc \in Scalars \cup {Absent} /\ Scalable(rs, k)
    BY <2>2, ScalarOfProductType DEF Unwrapped
  <2> HIDE DEF k, sc
  <2>3. Same(Product(y, k, sc, first), Product(ru, k, sc, second), shape)
    BY <1>1, <2>1, <2>2, SameProduct
  <2> QED BY <2>2, <2>3
<1> QED BY <1>3, <1>4

-----------------------------------------------------------------------------
(* visitOperandRem: the remainder is gathered, or it is the modulo of a    *)
(* dimension.                                                              *)

Wrapped(st, shape, d, n) ==
  State(st.source, st.scalar,
    [e \in DOMAIN shape |-> IF e = d THEN DimOf(st.dims[d].offset, shape[d], st.dims[d].stride, n) ELSE st.dims[e]])

RemGathers(c, l, shape, elem, d) ==
  OneWide(shape, d) /\ c = Gathered(l, shape, elem, d) /\ (enableMakeGatherScatterTensorPtr \/ ~IsStructured(l))

RemWraps(c, l, n, shape, d) ==
  /\ d \in DOMAIN shape /\ \A e \in DOMAIN shape : e # d => shape[e] = 1
  /\ n \in Scalars /\ IsStructured(l) /\ ~HasModulo(l)
  /\ ~enableMakeGatherScatterTensorPtr \/ ~OneWide(shape, d)
  /\ c = Wrapped(l, shape, d, n)

LEMMA WrappedIs ==
  ASSUME NEW shape \in TensorShapes, NEW st, Formed(st, shape), NEW d \in DOMAIN shape, NEW n
  PROVE  [st EXCEPT !.dims[d].shape = n] = Wrapped(st, shape, d, n)
<1> DEFINE p == st.source
           k == st.scalar
           f == st.dims
           m == shape[d]
           g == [e \in DOMAIN shape |-> IF e = d THEN DimOf(f[d].offset, m, f[d].stride, n) ELSE f[e]]
           h == [f EXCEPT ![d] = DimOf(f[d].offset, m, f[d].stride, n)]
<1>1. st = State(p, k, f) /\ f = [e \in DOMAIN shape |-> f[e]]
  BY DEF Formed
<1>2. PICK o, s, q : f[d] = DimOf(o, m, s, q)
  BY DEF Formed, OfSize
<1>3. f[d].offset = o /\ f[d].stride = s
  BY <1>2, DimIs
<1>4. h = g
  BY <1>1
<1>5. Wrapped(st, shape, d, n) = State(p, k, g)
  BY DEF Wrapped
<1>6. [st EXCEPT !.dims[d].shape = n] = State(p, k, h)
  <2> HIDE DEF f, p, k, m
  <2>1. d \in DOMAIN f
    BY <1>1
  <2>2. [State(p, k, f) EXCEPT !.dims[d].shape = n] = State(p, k, h)
    BY <1>2, <1>3, <2>1 DEF State, DimOf
  <2> QED BY <1>1, <2>2
<1> HIDE DEF g, h
<1> QED BY <1>4, <1>5, <1>6

LEMMA WithModuloIs ==
  ASSUME NEW shape \in TensorShapes, NEW l, Formed(l, shape), NEW elem, NEW d \in DOMAIN shape,
         \A e \in DOMAIN shape : e # d => shape[e] = 1, NEW n \in Scalars, IsStructured(l), ~HasModulo(l)
  PROVE  \/ RemGathers(WithModulo(l, shape, elem, d, n), l, shape, elem, d)
         \/ RemWraps(WithModulo(l, shape, elem, d, n), l, n, shape, d)
<1> DEFINE c == WithModulo(l, shape, elem, d, n)
           gather == rebuildAsGatherScatter(l, shape, elem, d)
<1>1. c = IF enableMakeGatherScatterTensorPtr /\ Ok(gather) THEN gather ELSE [l EXCEPT !.dims[d].shape = n]
  BY Zenon DEF WithModulo
<1>2. /\ OneWide(shape, d) => gather = Gathered(l, shape, elem, d) /\ Ok(gather)
      /\ ~OneWide(shape, d) => ~Ok(gather)
  <2>1. CASE OneWide(shape, d)
    <3>1. gather = Gathered(l, shape, elem, d)
      BY <2>1, GatherScatterIs
    <3>2. Ok(Gathered(l, shape, elem, d))
      BY StateIs DEF Gathered
    <3> QED BY <2>1, <3>1, <3>2
  <2>2. CASE ~OneWide(shape, d)
    <3>1. gather = Failure
      BY <2>2, GatherScatterIs
    <3> QED BY <2>2, <3>1, NotFormed
  <2> QED BY <2>1, <2>2
<1>3. [l EXCEPT !.dims[d].shape = n] = Wrapped(l, shape, d, n)
  BY WrappedIs
<1> HIDE DEF c, gather
<1>4. CASE enableMakeGatherScatterTensorPtr /\ OneWide(shape, d)
  <2>1. RemGathers(c, l, shape, elem, d)
    BY <1>1, <1>2, <1>4 DEF RemGathers
  <2> QED BY <2>1 DEF c
<1>5. CASE ~(enableMakeGatherScatterTensorPtr /\ OneWide(shape, d))
  <2>1. c = Wrapped(l, shape, d, n)
    BY <1>1, <1>2, <1>3, <1>5
  <2>2. RemWraps(c, l, n, shape, d)
    BY <1>5, <2>1 DEF RemWraps
  <2> QED BY <2>2 DEF c
<1> QED BY <1>4, <1>5

RemIs(c, l, n, shape, elem) ==
  \/ c = Failure
  \/ \E d : RemGathers(c, l, shape, elem, d)
  \/ \E d : RemWraps(c, l, n, shape, d)

LEMMA VisitRemIs ==
  ASSUME NEW shape \in TensorShapes, NEW l, NEW r, Formed(l, shape), Formed(r, shape), NEW elem
  PROVE  RemIs(VisitRem(l, r, shape, elem), l, r.scalar, shape, elem)
<1> DEFINE c == VisitRem(l, r, shape, elem)
           n == r.scalar
<1>1. BothOk(l, r) /\ Rank(l) = Len(shape) /\ (Present(n) <=> n \in Scalars)
  BY StateFacts DEF BothOk
<1>2. Len(shape) \in {1, 2} /\ DOMAIN shape = 1 .. Len(shape)
  BY ShapeFacts
<1>3. CASE ~Present(n)
  <2>1. c = Failure
    BY <1>1, <1>3 DEF VisitRem
  <2> QED BY <2>1 DEF RemIs
<1>4. CASE Present(n) /\ ~IsStructured(l)
  <2> DEFINE d == getNonStructuredDim(l)
  <2>1. c = rebuildAsGatherScatter(l, shape, elem, d)
    BY <1>1, <1>4, Zenon DEF VisitRem
  <2>2. d \in DOMAIN shape
    <3>1. PICK e : e \in Unstructured(l)
      BY <1>4 DEF IsStructured
    <3>2. e \in DOMAIN shape /\ d = e
      BY <3>1, StateFacts
    <3> QED BY <3>2
  <2> HIDE DEF d, c
  <2>3. c = Failure \/ RemGathers(c, l, shape, elem, d)
    BY <1>4, <2>1, <2>2, GatherScatterIs DEF RemGathers
  <2>4. RemIs(c, l, n, shape, elem)
    BY <2>3 DEF RemIs
  <2> QED BY <2>4 DEF c
<1>5. CASE Present(n) /\ IsStructured(l) /\ HasModulo(l)
  <2>1. c = IF Rank(l) = 1 /\ enableMakeGatherScatterTensorPtr
              THEN rebuildAsGatherScatter(l, shape, elem, 1) ELSE Failure
    BY <1>1, <1>5, Zenon DEF VisitRem
  <2>2. 1 \in DOMAIN shape
    BY <1>2
  <2>3. \/ rebuildAsGatherScatter(l, shape, elem, 1) = Failure
        \/ OneWide(shape, 1) /\ rebuildAsGatherScatter(l, shape, elem, 1) = Gathered(l, shape, elem, 1)
    BY <2>2, GatherScatterIs
  <2> HIDE DEF c
  <2>4. c = Failure \/ RemGathers(c, l, shape, elem, 1)
    BY <2>1, <2>3 DEF RemGathers
  <2>5. RemIs(c, l, n, shape, elem)
    BY <2>4 DEF RemIs
  <2> QED BY <2>5 DEF c
<1>6. CASE Present(n) /\ IsStructured(l) /\ ~HasModulo(l)
  <2>1. c = IF Rank(l) = 1 THEN WithModulo(l, shape, elem, 1, n)
            ELSE IF shape[1] = 1 THEN WithModulo(l, shape, elem, 2, n)
            ELSE IF shape[2] = 1 THEN WithModulo(l, shape, elem, 1, n)
            ELSE Failure
    BY <1>1, <1>6, Zenon DEF VisitRem
  <2>2. ASSUME NEW d \in DOMAIN shape, \A e \in DOMAIN shape : e # d => shape[e] = 1, c = WithModulo(l, shape, elem, d, n)
        PROVE  RemIs(c, l, n, shape, elem)
    <3>1. n \in Scalars
      BY <1>1, <1>6
    <3> DEFINE w == WithModulo(l, shape, elem, d, n)
    <3>2. RemGathers(w, l, shape, elem, d) \/ RemWraps(w, l, n, shape, d)
      BY <1>6, <2>2, <3>1, WithModuloIs
    <3> HIDE DEF w, c, n
    <3>3. RemIs(w, l, n, shape, elem)
      BY <3>2 DEF RemIs
    <3> QED BY <2>2, <3>3 DEF w
  <2>3. CASE Len(shape) = 1
    <3>1. 1 \in DOMAIN shape /\ \A e \in DOMAIN shape : e # 1 => shape[e] = 1
      BY <1>2, <2>3
    <3>2. c = WithModulo(l, shape, elem, 1, n)
      BY <1>1, <2>1, <2>3
    <3> QED BY <2>2, <3>1, <3>2
  <2>4. CASE Len(shape) = 2 /\ shape[1] = 1
    <3>1. 2 \in DOMAIN shape /\ \A e \in DOMAIN shape : e # 2 => shape[e] = 1
      BY <1>2, <2>4
    <3>2. c = WithModulo(l, shape, elem, 2, n)
      BY <1>1, <2>1, <2>4
    <3> QED BY <2>2, <3>1, <3>2
  <2>5. CASE Len(shape) = 2 /\ shape[1] # 1 /\ shape[2] = 1
    <3>1. 1 \in DOMAIN shape /\ \A e \in DOMAIN shape : e # 1 => shape[e] = 1
      BY <1>2, <2>5
    <3>2. c = WithModulo(l, shape, elem, 1, n)
      BY <1>1, <2>1, <2>5
    <3> QED BY <2>2, <3>1, <3>2
  <2>6. CASE Len(shape) = 2 /\ shape[1] # 1 /\ shape[2] # 1
    <3>1. c = Failure
      BY <1>1, <2>1, <2>6
    <3> QED BY <3>1 DEF RemIs
  <2> QED BY <1>2, <2>3, <2>4, <2>5, <2>6
<1> QED BY <1>3, <1>4, <1>5, <1>6

-----------------------------------------------------------------------------
(* What a remainder decodes to *)

LEMMA WrappedFormed ==
  ASSUME NEW shape \in TensorShapes, NEW l, Formed(l, shape), NEW n, NEW d, NEW c, RemWraps(c, l, n, shape, d)
  PROVE  /\ Formed(c, shape) /\ c.scalar = l.scalar /\ c.source = l.source /\ Unstructured(c) = {}
         /\ OfSize(c.dims[d], shape[d]) /\ ~IsTensor(c.dims[d].offset)
         /\ c.dims[d].offset = l.dims[d].offset /\ c.dims[d].stride = l.dims[d].stride /\ c.dims[d].shape = n
         /\ \A e \in DOMAIN shape : e # d => c.dims[e] = l.dims[e]
<1> DEFINE m == shape[d]
           o == l.dims[d].offset
           s == l.dims[d].stride
           new == DimOf(o, m, s, n)
           f == [e \in DOMAIN shape |-> IF e = d THEN new ELSE l.dims[e]]
           k == l.scalar
           p == l.source
<1>1. c = State(p, k, f) /\ d \in DOMAIN shape /\ n \in Numbers
  BY ScalarFacts DEF RemWraps, Wrapped
<1>2. \A e \in DOMAIN shape : OfSize(l.dims[e], shape[e]) /\ ~IsTensor(l.dims[e].offset)
  <2>1. Unstructured(l) = {e \in DOMAIN shape : IsTensor(l.dims[e].offset)} /\ Unstructured(l) = {}
    BY StateFacts DEF RemWraps, IsStructured
  <2> QED BY <2>1 DEF Formed
<1>3. OfSize(new, m) /\ new.offset = o /\ new.stride = s /\ new.shape = n
  <2>1. o \in Offsets(m) /\ s \in Numbers /\ (m = 1 => ~IsTensor(o) /\ s.val = 0)
    BY <1>1, <1>2 DEF OfSize
  <2> HIDE DEF o, m, s
  <2> QED BY <1>1, <2>1, DimIs
<1>4. k \in Scalars \cup {Absent}
  BY DEF Formed
<1>5. ~IsTensor(new.offset)
  BY <1>1, <1>2, <1>3
<1> HIDE DEF new, k, p
<1>6. /\ f = [e \in DOMAIN shape |-> f[e]] /\ f[d] = new
      /\ \A e \in DOMAIN shape : e # d => f[e] = l.dims[e]
  BY <1>1
<1> HIDE DEF f
<1>7. c.scalar = k /\ c.dims = f /\ c.source = p
  BY <1>1, StateIs
<1>8. \A e \in DOMAIN shape : OfSize(f[e], shape[e]) /\ ~IsTensor(f[e].offset)
  BY <1>2, <1>3, <1>5, <1>6
<1>9. Formed(c, shape)
  BY <1>1, <1>4, <1>6, <1>8, Forms
<1>10. Unstructured(c) = {}
  <2>1. Unstructured(c) = {e \in DOMAIN shape : IsTensor(c.dims[e].offset)}
    BY <1>9, StateFacts
  <2> QED BY <1>7, <1>8, <2>1
<1> QED BY <1>3, <1>5, <1>6, <1>7, <1>9, <1>10 DEF k, p

LEMMA RemFormed ==
  ASSUME NEW shape \in TensorShapes, NEW l, Formed(l, shape), NEW n, NEW elem \in [Elements(shape) -> Int],
         NEW c, RemIs(c, l, n, shape, elem), c # Failure
  PROVE  /\ Formed(c, shape) /\ c.source = l.source /\ c.scalar = l.scalar
         /\ enableMakeGatherScatterTensorPtr \/ ~IsStructured(l) \/ IsStructured(c)
<1>1. CASE \E d : RemGathers(c, l, shape, elem, d)
  <2>1. PICK d : RemGathers(c, l, shape, elem, d)
    BY <1>1
  <2> DEFINE g == Gathered(l, shape, elem, d)
  <2>2. OneWide(shape, d) /\ c = g /\ (enableMakeGatherScatterTensorPtr \/ ~IsStructured(l))
    BY <2>1 DEF RemGathers
  <2>3. Formed(g, shape) /\ g.scalar = l.scalar /\ g.source = l.source
    BY <2>2, GatheredFormed
  <2> HIDE DEF g
  <2> QED BY <2>2, <2>3
<1>2. CASE \E d : RemWraps(c, l, n, shape, d)
  <2>1. PICK d : RemWraps(c, l, n, shape, d)
    BY <1>2
  <2>2. Formed(c, shape) /\ c.scalar = l.scalar /\ c.source = l.source /\ Unstructured(c) = {}
    BY <2>1, WrappedFormed
  <2> QED BY <2>2 DEF IsStructured
<1> QED BY <1>1, <1>2 DEF RemIs

(* Nothing is left in the dimensions of one element. *)
NothingKept(l, shape) == \A e \in DOMAIN shape \ Wide(shape) : l.dims[e].offset.val = 0

LEMMA NothingElse ==
  ASSUME NEW shape \in TensorShapes, NEW l, Formed(l, shape), Positive(l), NothingKept(l, shape)
  PROVE  \A e \in DOMAIN shape : shape[e] = 1 => Term(l.dims[e], 0) = 0
<1> SUFFICES ASSUME NEW e \in DOMAIN shape, shape[e] = 1 PROVE Term(l.dims[e], 0) = 0
  OBVIOUS
<1> DEFINE dim == l.dims[e]
           m == dim.shape.val
<1>1. OfSize(dim, 1) /\ dim.offset.val = 0
  BY DEF NothingKept, Wide, Formed
<1>2. DimHasModulo(dim) => m > 0
  BY StateFacts DEF Positive
<1> HIDE DEF dim
<1>3. ~IsTensor(dim.offset) /\ dim.stride.val = 0 /\ m \in Int /\ dim.offset \in Numbers
  BY <1>1, DimFacts DEF OfSize
<1>4. At(dim.offset, 0) = 0 /\ 0 \in 0 .. 1 - 1
  BY <1>1, <1>3, NumberFacts
<1>5. m = 0 \/ m > 0
  BY <1>1, <1>2, DimFacts
<1>6. CASE m = 0
  <2>1. Term(dim, 0) = 0 + 0 * 0
    BY <1>1, <1>3, <1>4, <1>6, TermIs
  <2> QED BY <2>1 DEF dim
<1>7. CASE m > 0
  <2>1. Term(dim, 0) = RemSI(0 + 0 * 0, m)
    BY <1>1, <1>3, <1>4, <1>7, TermIs
  <2> HIDE DEF m
  <2>2. RemSI(0, m) = 0
    BY <1>3, <1>7 DEF RemSI
  <2>3. 0 + 0 * 0 = 0
    OBVIOUS
  <2> QED BY <2>1, <2>2, <2>3 DEF dim
<1> QED BY <1>5, <1>6, <1>7

RemOf(elem, ae, be, shape) ==
  \A x \in Elements(shape) : elem[x] = RemSI(ae[x], be[x]) /\ be[x] \in Int /\ be[x] > 0

LEMMA SomeElement ==
  ASSUME NEW shape \in TensorShapes
  PROVE  \E x : x \in Elements(shape)
<1> DEFINE x == [d \in DOMAIN shape |-> 0]
<1>1. x \in [DOMAIN shape -> Int] /\ \A d \in DOMAIN shape : x[d] \in 0 .. shape[d] - 1
  BY ShapeFacts
<1> HIDE DEF x
<1> QED BY <1>1, ElementsAre

LEMMA WrappedDecodes ==
  ASSUME NEW shape \in TensorShapes, NEW l, NEW ae, First(l, shape, ae), NEW k, NEW d, NEW c,
         RemWraps(c, l, k, shape, d), NothingKept(l, shape), k.val > 0, NEW x \in Elements(shape)
  PROVE  Positive(c) /\ Decoded(c, x) = RemSI(ae[x], k.val)
<1> DEFINE n == shape[d]
           new == c.dims[d]
           dim == l.dims[d]
           i == x[d]
           m == k.val
<1>1. Formed(l, shape) /\ Positive(l) /\ IsStructured(l) /\ ~HasModulo(l) /\ d \in DOMAIN shape /\ k \in Scalars
  BY DEF First, RemWraps
<1>2. /\ Formed(c, shape) /\ OfSize(new, n) /\ ~IsTensor(new.offset)
      /\ new.offset = dim.offset /\ new.stride = dim.stride /\ new.shape = k
      /\ \A e \in DOMAIN shape : e # d => c.dims[e] = l.dims[e]
  BY <1>1, WrappedFormed
<1>3. m \in Int /\ m > 0
  BY <1>1, ScalarFacts
<1>4. OfSize(dim, n) /\ ~IsTensor(dim.offset) /\ ~DimHasModulo(dim)
  BY <1>1, <1>2, StateFacts DEF Formed
<1>5. Positive(c)
  BY <1>1, <1>2, <1>3, StateFacts DEF Positive
<1>6. \A e \in DOMAIN shape : x[e] \in 0 .. shape[e] - 1
  BY ElementsAre
<1>7. \A e \in DOMAIN shape : e # d => Term(l.dims[e], x[e]) = 0 /\ Term(c.dims[e], x[e]) = 0
  <2>1. \A e \in DOMAIN shape : e # d => shape[e] = 1
    BY DEF RemWraps
  <2>2. \A e \in DOMAIN shape : e # d => x[e] = 0
    BY <1>6, <2>1
  <2>3. \A e \in DOMAIN shape : shape[e] = 1 => Term(l.dims[e], 0) = 0
    BY <1>1, NothingElse
  <2> QED BY <1>2, <2>1, <2>2, <2>3
<1>8. Decoded(l, x) = Term(dim, i)
  BY <1>1, <1>7, DecodedOne
<1>9. Decoded(c, x) = Term(new, i)
  BY <1>1, <1>2, <1>5, <1>7, DecodedOne
<1>10. i \in 0 .. n - 1
  BY <1>1, <1>6
<1>11. ae[x] = Decoded(l, x)
  BY <1>1 DEF First, Decodes
<1> HIDE DEF new, dim, n, i
<1> DEFINE a == At(dim.offset, i) + i * dim.stride.val
<1>12. Term(dim, i) = a
  BY <1>4, <1>10, TermIs, DimFacts
<1>13. Term(new, i) = RemSI(a, m)
  <2>1. new.shape.val = m /\ ~(m = 0)
    BY <1>2, <1>3
  <2>2. Term(new, i) = RemSI(At(new.offset, i) + i * new.stride.val, new.shape.val)
    BY <1>2, <1>10, <2>1, TermIs
  <2> QED BY <1>2, <2>1, <2>2
<1> HIDE DEF a
<1> QED BY <1>5, <1>8, <1>9, <1>11, <1>12, <1>13

LEMMA FirstRem ==
  ASSUME NEW shape \in TensorShapes, NEW l, NEW r, NEW ae, NEW be, NEW elem \in [Elements(shape) -> Int],
         First(l, shape, ae), Uniform(r, shape, be), l.scalar = Absent, RemOf(elem, ae, be, shape),
         NothingKept(l, shape), NEW c, RemIs(c, l, r.scalar, shape, elem), c # Failure
  PROVE  First(c, shape, elem)
<1>1. Formed(l, shape) /\ Positive(l)
  BY DEF First
<1>2. Formed(c, shape) /\ c.scalar = Absent
  BY <1>1, RemFormed
<1>3. Uniform(c, shape, elem)
  BY <1>2, ScalarFacts DEF Uniform
<1>4. CASE \E d : RemGathers(c, l, shape, elem, d)
  <2>1. PICK d : RemGathers(c, l, shape, elem, d)
    BY <1>4
  <2> DEFINE g == Gathered(l, shape, elem, d)
  <2>2. OneWide(shape, d) /\ c = g
    BY <2>1 DEF RemGathers
  <2>3. Unstructured(g) = {d} /\ Positive(g)
    BY <1>1, <2>2, GatheredFormed
  <2> HIDE DEF g
  <2>4. Positive(c) /\ ~IsStructured(c)
    BY <2>2, <2>3 DEF IsStructured
  <2> QED BY <1>2, <1>3, <2>4 DEF First
<1>5. CASE \E d : RemWraps(c, l, r.scalar, shape, d)
  <2> DEFINE k == r.scalar
  <2>1. PICK d : RemWraps(c, l, k, shape, d)
    BY <1>5
  <2>2. k \in Scalars
    BY <2>1 DEF RemWraps
  <2>3. \A x \in Elements(shape) : be[x] = k.val
    BY <2>2 DEF Uniform
  <2>4. k.val > 0
    BY <2>3, SomeElement DEF RemOf
  <2> HIDE DEF k
  <2>5. \A x \in Elements(shape) : Positive(c) /\ Decoded(c, x) = RemSI(ae[x], k.val)
    BY <2>1, <2>4, WrappedDecodes
  <2>6. Positive(c)
    BY <2>5, SomeElement
  <2>7. Decodes(c, shape, elem)
    BY <2>3, <2>5 DEF Decodes, RemOf
  <2> QED BY <1>2, <1>3, <2>6, <2>7 DEF First
<1> QED BY <1>4, <1>5 DEF RemIs

LEMMA SecondGather ==
  ASSUME NEW shape, NEW u, NEW elem, NEW w, IsGather(u, shape, elem, w)
  PROVE  Second(u, shape, elem)
BY ScalarFacts DEF IsGather, Second, Uniform, Decodes

LEMMA SameRem ==
  ASSUME NEW shape \in TensorShapes, NEW l, Formed(l, shape), Positive(l), NEW n, NEW elem \in [Elements(shape) -> Int],
         l.scalar = Absent, NothingKept(l, shape), NEW c, RemIs(c, l, n, shape, elem), c # Failure,
         NEW u, NEW w, IsGather(u, shape, elem, w)
  PROVE  Same(c, u, shape)
<1>1. c.scalar = u.scalar
  BY RemFormed DEF IsGather
<1>2. ASSUME enableMakeGatherScatterTensorPtr
      PROVE  \E d : RemGathers(c, l, shape, elem, d)
  <2>1. ~\E d : RemWraps(c, l, n, shape, d)
    <3> SUFFICES ASSUME NEW d, RemWraps(c, l, n, shape, d) PROVE FALSE
      OBVIOUS
    <3>1. d \in DOMAIN shape /\ (\A e \in DOMAIN shape : e # d => shape[e] = 1) /\ ~OneWide(shape, d)
      BY <1>2 DEF RemWraps
    <3>2. OneWide(shape, w)
      BY DEF IsGather
    <3> QED BY <3>1, <3>2 DEF OneWide
  <2> QED BY <2>1 DEF RemIs
<1>3. ASSUME NEW d, RemGathers(c, l, shape, elem, d)
      PROVE  Unstructured(c) = Unstructured(u) /\ TermsAgree(DOMAIN shape \ Unstructured(c), c, u, shape) /\ ~IsStructured(c)
  <2> DEFINE g == Gathered(l, shape, elem, d)
  <2>1. OneWide(shape, d) /\ c = g
    BY <1>3 DEF RemGathers
  <2>2. Unstructured(g) = {d} /\ \A e \in DOMAIN shape : e # d => g.dims[e] = l.dims[e]
    BY <2>1, GatheredFormed
  <2> HIDE DEF g
  <2>3. OneWide(shape, w) /\ Unstructured(u) = {w} /\ \A e \in DOMAIN shape : e # w => Term(u.dims[e], 0) = 0
    BY DEF IsGather
  <2>4. d = w
    BY <2>1, <2>3 DEF OneWide
  <2>5. \A e \in DOMAIN shape : e # d => shape[e] = 1
    BY <2>1 DEF OneWide
  <2>6. \A e \in DOMAIN shape : shape[e] = 1 => Term(l.dims[e], 0) = 0
    BY NothingElse
  <2>7. TermsAgree(DOMAIN shape \ {d}, c, u, shape)
    <3> SUFFICES ASSUME NEW e \in DOMAIN shape \ {d}, NEW i \in 0 .. shape[e] - 1
                 PROVE  Term(c.dims[e], i) = Term(u.dims[e], i)
      BY DEF TermsAgree
    <3>1. i = 0
      BY <2>5
    <3> QED BY <2>1, <2>2, <2>3, <2>4, <2>5, <2>6, <3>1
  <2> QED BY <2>1, <2>2, <2>3, <2>4, <2>7 DEF IsStructured
<1> QED BY <1>1, <1>2, <1>3 DEF Same

-----------------------------------------------------------------------------
(* The tensor t shows at x the element at[x] of the tensor s: tt.expand_dims *)
(* and tt.broadcast.                                                         *)

View(c, st, s, t, at) ==
  /\ Formed(c, t) /\ c.source = st.source /\ c.scalar = st.scalar
  /\ HasModulo(c) => HasModulo(st)
  /\ IsStructured(c) <=> IsStructured(st)
  /\ Ready(st) => Ready(c)
  /\ Positive(st) => Positive(c) /\ \A x \in Elements(t) : Decoded(c, x) = Decoded(st, at[x])

Moves(ce, ae, s, t, at) == at \in [Elements(t) -> Elements(s)] /\ \A x \in Elements(t) : ce[x] = ae[at[x]]

LEMMA UniformView ==
  ASSUME NEW s, NEW t, NEW st, NEW c, NEW at, NEW ae, NEW ce, c.scalar = st.scalar,
         Uniform(st, s, ae), Moves(ce, ae, s, t, at)
  PROVE  Uniform(c, t, ce)
BY DEF Uniform, Moves

LEMMA FirstView ==
  ASSUME NEW s, NEW t, NEW st, NEW c, NEW at, NEW ae, NEW ce, View(c, st, s, t, at), Moves(ce, ae, s, t, at),
         First(st, s, ae)
  PROVE  First(c, t, ce)
<1>1. Uniform(c, t, ce)
  BY UniformView DEF View, First
<1>2. IsStructured(c) => Decodes(c, t, ce)
  BY DEF View, First, Decodes, Moves
<1> QED BY <1>1, <1>2 DEF First, View

LEMMA SecondView ==
  ASSUME NEW s \in TensorShapes, NEW t, NEW st, NEW c, NEW at, NEW ae, NEW ce,
         View(c, st, s, t, at), Moves(ce, ae, s, t, at), Second(st, s, ae)
  PROVE  Second(c, t, ce)
<1>1. Uniform(c, t, ce)
  BY UniformView DEF View, Second
<1>2. Positive(st)
  BY NoneHasModulo DEF Second
<1>3. Decodes(c, t, ce)
  BY <1>2 DEF View, Second, Decodes, Moves
<1> QED BY <1>1, <1>3 DEF Second, View

-----------------------------------------------------------------------------
(* tt.expand_dims *)

ZeroDim == DimOf(Attr(0), 1, Attr(0), Attr(0))

LEMMA ZeroDimIs ==
  /\ OfSize(ZeroDim, 1) /\ ~IsTensor(ZeroDim.offset) /\ ~DimHasModulo(ZeroDim) /\ Term(ZeroDim, 0) = 0
  /\ Dim(Attr(0), 1, Attr(0)) = ZeroDim
<1>1. Attr(0) \in Numbers /\ ~IsTensor(Attr(0)) /\ Attr(0).val = 0 /\ Attr(0) \in Offsets(1) /\ At(Attr(0), 0) = 0
  BY NumberFacts DEF Offsets
<1>2. OfSize(ZeroDim, 1) /\ ZeroDim.offset = Attr(0) /\ ZeroDim.stride = Attr(0) /\ ZeroDim.shape = Attr(0)
  BY <1>1, DimIs DEF ZeroDim
<1>3. ~DimHasModulo(ZeroDim) /\ ZeroDim.shape.val = 0
  BY <1>2, DimFacts
<1>4. 0 \in 0 .. 1 - 1
  OBVIOUS
<1>5. Term(ZeroDim, 0) = 0 + 0 * 0
  BY <1>1, <1>2, <1>3, <1>4, TermIs
<1>6. Dim(Attr(0), 1, Attr(0)) = ZeroDim
  BY DimIs DEF ZeroDim
<1> QED BY <1>1, <1>2, <1>3, <1>5, <1>6

LEMMA Inserted ==
  ASSUME NEW S, NEW a \in S, NEW e \in S, NEW axis \in {1, 2}, NEW seq \in Seq(S), Len(seq) = 1, seq[1] = a
  PROVE  /\ InsertDim(seq, axis, e) \in Seq(S) /\ Len(InsertDim(seq, axis, e)) = 2
         /\ InsertDim(seq, axis, e)[axis] = e /\ InsertDim(seq, axis, e)[3 - axis] = a
<1>1. SubSeq(seq, 1, 1) = seq /\ SubSeq(seq, 2, 1) = <<>> /\ SubSeq(seq, 1, 0) = <<>>
  BY SubSeqFull, SubSeqEmpty
<1> DEFINE q == <<e>>
<1>2. q \in Seq(S) /\ Len(q) = 1 /\ q[1] = e
  OBVIOUS
<1> HIDE DEF q
<1>3. /\ seq \o q \in Seq(S) /\ Len(seq \o q) = 2 /\ (seq \o q)[1] = a /\ (seq \o q)[2] = e
      /\ q \o seq \in Seq(S) /\ Len(q \o seq) = 2 /\ (q \o seq)[1] = e /\ (q \o seq)[2] = a
  BY <1>2, ConcatProperties
<1>4. CASE axis = 1
  <2>1. InsertDim(seq, axis, e) = (SubSeq(seq, 1, 1 - 1) \o q) \o SubSeq(seq, 1, 1)
    BY <1>4, Zenon DEF InsertDim, q
  <2>2. 1 - 1 = 0 /\ <<>> \o q = q
    BY <1>2, ConcatEmptySeq
  <2>3. InsertDim(seq, axis, e) = q \o seq
    BY <1>1, <2>1, <2>2
  <2>4. axis = 1 /\ 3 - axis = 2
    BY <1>4
  <2> QED BY <1>3, <2>3, <2>4, Zenon
<1>5. CASE axis = 2
  <2>1. InsertDim(seq, axis, e) = (SubSeq(seq, 1, 2 - 1) \o q) \o SubSeq(seq, 2, 1)
    BY <1>5, Zenon DEF InsertDim, q
  <2>2. 2 - 1 = 1 /\ (seq \o q) \o <<>> = seq \o q
    BY <1>3, ConcatEmptySeq
  <2>3. InsertDim(seq, axis, e) = seq \o q
    BY <1>1, <2>1, <2>2
  <2>4. axis = 2 /\ 3 - axis = 1
    BY <1>5
  <2> QED BY <1>3, <2>3, <2>4, Zenon
<1> QED BY <1>4, <1>5

(* t is the shape s with a dimension of one element inserted. *)
Expands(s, t, axis) ==
  /\ s \in TensorShapes /\ t \in TensorShapes /\ Len(s) = 1 /\ axis \in {1, 2}
  /\ DOMAIN t = {axis, 3 - axis} /\ t[axis] = 1 /\ t[3 - axis] = s[1]

LEMMA ExpandsIs ==
  ASSUME NEW s \in TensorShapes, Len(s) = 1, NEW axis \in {1, 2}
  PROVE  Expands(s, InsertDim(s, axis, 1), axis)
<1> DEFINE t == InsertDim(s, axis, 1)
           S == Nat \ {0}
<1>1. s \in Seq(S) /\ s[1] \in S /\ 1 \in S
  BY ShapeFacts DEF TensorShapes
<1> HIDE DEF S
<1>2. t \in Seq(S) /\ Len(t) = 2 /\ t[axis] = 1 /\ t[3 - axis] = s[1]
  BY <1>1, Inserted
<1> HIDE DEF t
<1>3. t \in TensorShapes
  BY <1>2 DEF TensorShapes, S
<1>4. DOMAIN t = {axis, 3 - axis}
  BY <1>2, <1>3, ShapeFacts
<1> QED BY <1>2, <1>3, <1>4 DEF Expands, t

Expanded(st, t, axis) ==
  State(st.source, st.scalar, [d \in DOMAIN t |-> IF d = axis THEN ZeroDim ELSE st.dims[1]])

LEMMA ExpandIs ==
  ASSUME NEW s, NEW t, NEW axis, Expands(s, t, axis), NEW st, Formed(st, s)
  PROVE  ExpandState(st, axis) = Expanded(st, t, axis)
<1> DEFINE f == st.dims
           k == st.scalar
           p == st.source
           a == f[1]
           S == {a, ZeroDim}
           g == InsertDim(f, axis, ZeroDim)
           h == [d \in DOMAIN t |-> IF d = axis THEN ZeroDim ELSE a]
<1>1. /\ s \in TensorShapes /\ Len(s) = 1 /\ axis \in {1, 2} /\ DOMAIN t = {axis, 3 - axis}
      /\ DOMAIN s = 1 .. Len(s) /\ Ok(st) /\ Rank(st) = 1
  BY StateFacts, ShapeFacts DEF Expands
<1>2. st = State(p, k, f) /\ f = [d \in 1 .. 1 |-> f[d]]
  BY <1>1 DEF Formed
<1>3. f \in [1 .. 1 -> S]
  <2> HIDE DEF f
  <2> QED BY <1>2
<1> HIDE DEF S
<1>4. f \in Seq(S) /\ Len(f) = 1
  BY <1>3, OverDims
<1>5. a \in S /\ ZeroDim \in S
  BY DEF S
<1> HIDE DEF a
<1>6. g \in Seq(S) /\ Len(g) = 2 /\ g[axis] = ZeroDim /\ g[3 - axis] = a
  <2>1. f[1] = a
    BY DEF a
  <2> HIDE DEF f
  <2> QED BY <1>1, <1>4, <1>5, <2>1, Inserted
<1>7. ExpandState(st, axis) = [st EXCEPT !.dims = g]
  <2>1. ~(HasModulo(st) /\ Rank(st) >= 2)
    BY <1>1
  <2>2. ExpandState(st, axis) = [st EXCEPT !.dims = InsertDim(@, axis, Dim(Attr(0), 1, Attr(0)))]
    BY <1>1, <2>1 DEF ExpandState
  <2> QED BY <2>2, ZeroDimIs
<1> HIDE DEF f, k, p, g
<1>8. [st EXCEPT !.dims = g] = State(p, k, g)
  BY <1>2, StateIs
<1>9. g = h
  <2>1. DOMAIN g = 1 .. 2 /\ g = [d \in DOMAIN g |-> g[d]]
    BY <1>6
  <2>2. DOMAIN g = DOMAIN t
    BY <1>1, <2>1
  <2>3. \A d \in DOMAIN t : g[d] = IF d = axis THEN ZeroDim ELSE a
    BY <1>1, <1>6
  <2> QED BY <2>1, <2>2, <2>3
<1>10. Expanded(st, t, axis) = State(p, k, h)
  BY DEF Expanded, p, k, a, f
<1> QED BY <1>7, <1>8, <1>9, <1>10

ExpandAt(t, axis) == [x \in Elements(t) |-> <<x[3 - axis]>>]

LEMMA ExpandView ==
  ASSUME NEW s, NEW t, NEW axis, Expands(s, t, axis), NEW st, Formed(st, s)
  PROVE  /\ View(ExpandState(st, axis), st, s, t, ExpandAt(t, axis))
         /\ Unstructured(ExpandState(st, axis)) = IF IsStructured(st) THEN {} ELSE {3 - axis}
         /\ ExpandState(st, axis).dims[axis] = ZeroDim /\ ExpandState(st, axis).dims[3 - axis] = st.dims[1]
<1> DEFINE c == ExpandState(st, axis)
           f == [d \in DOMAIN t |-> IF d = axis THEN ZeroDim ELSE st.dims[1]]
           k == st.scalar
           p == st.source
           at == ExpandAt(t, axis)
<1>1. /\ s \in TensorShapes /\ t \in TensorShapes /\ Len(s) = 1 /\ axis \in {1, 2} /\ 3 - axis \in {1, 2} /\ axis # 3 - axis
      /\ DOMAIN t = {axis, 3 - axis} /\ t[axis] = 1 /\ t[3 - axis] = s[1] /\ DOMAIN s = 1 .. 1
  BY ShapeFacts DEF Expands
<1>2. c = State(p, k, f)
  BY ExpandIs DEF Expanded
<1>3. k \in Scalars \cup {Absent} /\ OfSize(st.dims[1], s[1]) /\ DOMAIN st.dims = 1 .. 1
  BY <1>1, StateFacts DEF Formed
<1>4. f = [d \in DOMAIN t |-> f[d]] /\ f[axis] = ZeroDim /\ f[3 - axis] = st.dims[1]
  BY <1>1
<1> HIDE DEF f, k, p, c
<1>5. c.scalar = k /\ c.dims = f /\ c.source = p
  BY <1>2, StateIs
<1>6. \A d \in DOMAIN t : OfSize(f[d], t[d]) /\ (IsTensor(f[d].offset) => d = 3 - axis)
  BY <1>1, <1>3, <1>4, ZeroDimIs
<1>7. Formed(c, t)
  BY <1>1, <1>2, <1>3, <1>4, <1>6, Forms
<1>8. /\ Unstructured(c) = {d \in DOMAIN t : IsTensor(c.dims[d].offset)} /\ DOMAIN c.dims = DOMAIN t
      /\ HasModulo(c) <=> \E d \in DOMAIN t : DimHasModulo(c.dims[d])
  BY <1>1, <1>7, StateFacts
<1>9. /\ Unstructured(st) = {d \in 1 .. 1 : IsTensor(st.dims[d].offset)}
      /\ HasModulo(st) <=> \E d \in 1 .. 1 : DimHasModulo(st.dims[d])
  BY <1>1, StateFacts
<1>10. Unstructured(c) = IF IsStructured(st) THEN {} ELSE {3 - axis}
  BY <1>1, <1>4, <1>5, <1>6, <1>8, <1>9 DEF IsStructured
<1>11. HasModulo(c) => HasModulo(st)
  BY <1>1, <1>4, <1>5, <1>8, <1>9, ZeroDimIs
<1>12. Ready(st) => Ready(c)
  <2>1. CASE IsStructured(st)
    BY <1>10, <2>1 DEF Ready
  <2>2. CASE ~IsStructured(st)
    <3>1. 1 \in Unstructured(st)
      BY <1>9, <2>2 DEF IsStructured
    <3> QED BY <1>4, <1>5, <1>10, <2>2, <3>1 DEF Ready
  <2> QED BY <2>1, <2>2
<1>13. Positive(st) => Positive(c)
  BY <1>1, <1>3, <1>4, <1>5, <1>8, ZeroDimIs DEF Positive
<1>14. ASSUME Positive(st), NEW x \in Elements(t) PROVE Decoded(c, x) = Decoded(st, at[x])
  <2> DEFINE y == <<x[3 - axis]>>
  <2>1. \A d \in DOMAIN t : x[d] \in 0 .. t[d] - 1
    BY <1>1, ElementsAre
  <2>2. x[axis] = 0 /\ x[3 - axis] \in 0 .. s[1] - 1
    BY <1>1, <2>1
  <2>3. y \in Elements(s) /\ y[1] = x[3 - axis] /\ at[x] = y
    <3>1. y \in [DOMAIN s -> Int] /\ y[1] = x[3 - axis]
      BY <1>1, <2>2
    <3>2. at[x] = y
      BY DEF ExpandAt
    <3> HIDE DEF y
    <3> QED BY <1>1, <2>2, <3>1, <3>2, ElementsAre
  <2> HIDE DEF y, at
  <2>4. Decoded(st, y) = Term(st.dims[1], y[1])
    BY <1>1, <1>14, <2>3, DecodedIs
  <2>5. \A e \in DOMAIN t : e # 3 - axis => Term(c.dims[e], x[e]) = 0
    BY <1>1, <1>4, <1>5, <2>2, ZeroDimIs
  <2>6. Decoded(c, x) = Term(c.dims[3 - axis], x[3 - axis])
    BY <1>1, <1>7, <1>13, <1>14, <2>5, DecodedOne
  <2> QED BY <1>4, <1>5, <2>3, <2>4, <2>6
<1>15. IsStructured(c) <=> IsStructured(st)
  BY <1>10 DEF IsStructured
<1> HIDE DEF at
<1>16. View(c, st, s, t, at)
  BY <1>5, <1>7, <1>11, <1>12, <1>13, <1>14, <1>15 DEF View, k, p
<1> QED BY <1>4, <1>5, <1>10, <1>16 DEF c, at

LEMMA ExpandSame ==
  ASSUME NEW s, NEW t, NEW axis, Expands(s, t, axis), NEW a, NEW b, Formed(a, s), Formed(b, s), Same(a, b, s)
  PROVE  Same(ExpandState(a, axis), ExpandState(b, axis), t)
<1> DEFINE c == ExpandState(a, axis)
           e == ExpandState(b, axis)
<1>1. /\ s \in TensorShapes /\ DOMAIN t = {axis, 3 - axis} /\ t[3 - axis] = s[1] /\ DOMAIN s = 1 .. Len(s) /\ Len(s) = 1
  BY ShapeFacts DEF Expands
<1>2. /\ c.scalar = a.scalar /\ (HasModulo(c) => HasModulo(a)) /\ (IsStructured(c) <=> IsStructured(a))
      /\ Unstructured(c) = IF IsStructured(a) THEN {} ELSE {3 - axis}
      /\ c.dims[axis] = ZeroDim /\ c.dims[3 - axis] = a.dims[1]
  BY ExpandView DEF View
<1>3. /\ e.scalar = b.scalar /\ (IsStructured(e) <=> IsStructured(b))
      /\ Unstructured(e) = IF IsStructured(b) THEN {} ELSE {3 - axis}
      /\ e.dims[axis] = ZeroDim /\ e.dims[3 - axis] = b.dims[1]
  BY ExpandView DEF View
<1> HIDE DEF c, e
<1>4. ASSUME enableMakeGatherScatterTensorPtr
      PROVE  /\ Unstructured(c) = Unstructured(e)
             /\ TermsAgree(DOMAIN t \ Unstructured(c), c, e, t)
             /\ IsStructured(c) => ~HasModulo(c)
  <2>1. /\ Unstructured(a) = Unstructured(b) /\ TermsAgree(DOMAIN s \ Unstructured(a), a, b, s)
        /\ IsStructured(a) => ~HasModulo(a)
    BY <1>4 DEF Same
  <2>2. TermsAgree(DOMAIN t \ Unstructured(c), c, e, t)
    <3> SUFFICES ASSUME NEW d \in DOMAIN t \ Unstructured(c), NEW i \in 0 .. t[d] - 1
                 PROVE  Term(c.dims[d], i) = Term(e.dims[d], i)
      BY DEF TermsAgree
    <3>1. CASE d = axis
      BY <1>2, <1>3, <3>1
    <3>2. CASE d = 3 - axis
      <4>1. Unstructured(a) = {} /\ 1 \in DOMAIN s
        BY <1>1, <1>2, <3>2 DEF IsStructured
      <4>2. Term(a.dims[1], i) = Term(b.dims[1], i)
        BY <1>1, <2>1, <3>2, <4>1 DEF TermsAgree
      <4> QED BY <1>2, <1>3, <3>2, <4>2
    <3> QED BY <1>1, <3>1, <3>2
  <2> QED BY <1>2, <1>3, <2>1, <2>2 DEF IsStructured
<1> QED BY <1>2, <1>3, <1>4 DEF Same, c, e

-----------------------------------------------------------------------------
(* tt.broadcast *)

Broadcastable(s, t) ==
  /\ s \in TensorShapes /\ t \in TensorShapes /\ Len(s) = Len(t)
  /\ \A d \in DOMAIN t : s[d] \in {1, t[d]}

Broadcasted(st, t) ==
  State(st.source, st.scalar,
    [d \in DOMAIN t |-> DimOf(st.dims[d].offset, t[d], st.dims[d].stride, st.dims[d].shape)])

LEMMA BroadcastIs ==
  ASSUME NEW s, NEW t, Broadcastable(s, t), NEW st, Formed(st, s)
  PROVE  BroadcastState(st, t) = Broadcasted(st, t)
<1> DEFINE f == st.dims
           k == st.scalar
           p == st.source
           g == [d \in DOMAIN f |-> [f[d] EXCEPT !.size = t[d]]]
           h == [d \in DOMAIN t |-> DimOf(f[d].offset, t[d], f[d].stride, f[d].shape)]
<1>1. s \in TensorShapes /\ t \in TensorShapes /\ DOMAIN s = DOMAIN t
  BY ShapeFacts DEF Broadcastable
<1>2. Ok(st) /\ st = State(p, k, f) /\ DOMAIN f = DOMAIN t
  BY <1>1, StateFacts DEF Formed
<1>3. ASSUME NEW d \in DOMAIN t
      PROVE  [f[d] EXCEPT !.size = t[d]] = DimOf(f[d].offset, t[d], f[d].stride, f[d].shape)
  <2> DEFINE o == f[d].offset
             z == f[d].stride
             m == f[d].shape
  <2>1. f[d] = DimOf(o, s[d], z, m)
    BY <1>1 DEF Formed, OfSize
  <2> HIDE DEF o, z, m, f
  <2>2. [DimOf(o, s[d], z, m) EXCEPT !.size = t[d]] = DimOf(o, t[d], z, m)
    BY DimIs
  <2> QED BY <2>1, <2>2 DEF o, z, m
<1>4. g = h
  <2> HIDE DEF f
  <2> QED BY <1>2, <1>3
<1>5. BroadcastState(st, t) = [st EXCEPT !.dims = g]
  BY <1>2 DEF BroadcastState
<1>6. Broadcasted(st, t) = State(p, k, h)
  BY DEF Broadcasted
<1> HIDE DEF f, g, h, p, k
<1>7. [st EXCEPT !.dims = g] = State(p, k, g)
  BY <1>2, StateIs
<1> QED BY <1>4, <1>5, <1>6, <1>7

BroadcastAt(s, t) == [x \in Elements(t) |-> [d \in DOMAIN t |-> IF s[d] = 1 THEN 0 ELSE x[d]]]

(* The index of the source along one dimension *)
SourceOf(n, i) == IF n = 1 THEN 0 ELSE i

LEMMA BroadcastDim ==
  ASSUME NEW n \in Nat, NEW m \in Nat, n >= 1, m >= 1, n \in {1, m}, NEW dim, OfSize(dim, n), NEW new,
         new = DimOf(dim.offset, m, dim.stride, dim.shape)
  PROVE  /\ OfSize(new, m) /\ new.offset = dim.offset /\ new.stride = dim.stride /\ new.shape = dim.shape
         /\ IsTensor(new.offset) <=> IsTensor(dim.offset)
         /\ DimHasModulo(new) <=> DimHasModulo(dim)
         /\ \A i \in 0 .. m - 1 : SourceOf(n, i) \in 0 .. n - 1 /\ Term(new, i) = Term(dim, SourceOf(n, i))
<1> DEFINE o == dim.offset
           z == dim.stride
           h == dim.shape
<1>1. o \in Offsets(n) /\ z \in Numbers /\ h \in Numbers /\ (n = 1 => ~IsTensor(o) /\ z.val = 0) /\ z.val \in Int /\ h.val \in Int
  BY DimFacts DEF OfSize
<1>2. CASE n = m
  <2>1. new = dim
    BY <1>2 DEF OfSize
  <2>2. \A i \in 0 .. m - 1 : SourceOf(n, i) = i
    BY <1>2 DEF SourceOf
  <2> QED BY <1>2, <2>1, <2>2
<1>3. CASE n = 1 /\ n # m
  <2>1. o \in Numbers /\ o \in Offsets(m) /\ ~IsTensor(o) /\ z.val = 0 /\ o.val \in Int
    BY <1>1, <1>3, OffsetFacts, NumberFacts DEF Offsets
  <2> HIDE DEF o, z, h
  <2>2. OfSize(new, m) /\ new.offset = o /\ new.stride = z /\ new.shape = h
    BY <1>1, <1>3, <2>1, DimIs DEF o, z, h
  <2>3. DimHasModulo(new) <=> DimHasModulo(dim)
    BY <2>2 DEF DimHasModulo, h
  <2>4. ASSUME NEW i \in 0 .. m - 1 PROVE SourceOf(n, i) = 0 /\ Term(new, i) = Term(dim, 0)
    <3>1. At(o, i) = o.val /\ At(o, 0) = o.val
      BY <2>1, NumberFacts
    <3>2. 0 \in 0 .. n - 1 /\ i \in Int /\ SourceOf(n, i) = 0
      BY <1>3 DEF SourceOf
    <3>3. o.val + i * z.val = o.val + 0 * z.val
      BY <2>1, <3>2
    <3>4. CASE h.val = 0
      <4>1. Term(new, i) = o.val + i * z.val
        BY <2>1, <2>2, <3>1, <3>4, TermIs
      <4>2. Term(dim, 0) = o.val + 0 * z.val
        BY <2>1, <3>1, <3>2, <3>4, TermIs DEF o, z, h
      <4> QED BY <3>2, <3>3, <4>1, <4>2
    <3>5. CASE h.val # 0
      <4>1. Term(new, i) = RemSI(o.val + i * z.val, h.val)
        BY <2>1, <2>2, <3>1, <3>5, TermIs
      <4>2. Term(dim, 0) = RemSI(o.val + 0 * z.val, h.val)
        BY <2>1, <3>1, <3>2, <3>5, TermIs DEF o, z, h
      <4> QED BY <3>2, <3>3, <4>1, <4>2
    <3> QED BY <3>4, <3>5
  <2>5. 0 \in 0 .. n - 1
    BY <1>3
  <2> QED BY <2>2, <2>3, <2>4, <2>5 DEF o, z, h
<1> QED BY <1>2, <1>3

LEMMA BroadcastView ==
  ASSUME NEW s, NEW t, Broadcastable(s, t), NEW st, Formed(st, s)
  PROVE  /\ View(BroadcastState(st, t), st, s, t, BroadcastAt(s, t))
         /\ Unstructured(BroadcastState(st, t)) = Unstructured(st)
         /\ \A d \in DOMAIN t : \A i \in 0 .. t[d] - 1 :
              /\ SourceOf(s[d], i) \in 0 .. s[d] - 1
              /\ Term(BroadcastState(st, t).dims[d], i) = Term(st.dims[d], SourceOf(s[d], i))
<1> DEFINE c == BroadcastState(st, t)
           f == [d \in DOMAIN t |-> DimOf(st.dims[d].offset, t[d], st.dims[d].stride, st.dims[d].shape)]
           k == st.scalar
           p == st.source
           at == BroadcastAt(s, t)
<1>1. /\ s \in TensorShapes /\ t \in TensorShapes /\ DOMAIN s = DOMAIN t
      /\ \A d \in DOMAIN t : s[d] \in Nat /\ t[d] \in Nat /\ s[d] >= 1 /\ t[d] >= 1 /\ s[d] \in {1, t[d]}
  BY ShapeFacts DEF Broadcastable
<1>2. c = State(p, k, f)
  BY BroadcastIs DEF Broadcasted
<1>3. k \in Scalars \cup {Absent} /\ DOMAIN st.dims = DOMAIN t /\ \A d \in DOMAIN t : OfSize(st.dims[d], s[d])
  BY <1>1, StateFacts DEF Formed
<1>4. ASSUME NEW d \in DOMAIN t
      PROVE  /\ OfSize(f[d], t[d]) /\ f[d].stride = st.dims[d].stride /\ f[d].shape = st.dims[d].shape
             /\ IsTensor(f[d].offset) <=> IsTensor(st.dims[d].offset)
             /\ DimHasModulo(f[d]) <=> DimHasModulo(st.dims[d])
             /\ \A i \in 0 .. t[d] - 1 : /\ SourceOf(s[d], i) \in 0 .. s[d] - 1
                                         /\ Term(f[d], i) = Term(st.dims[d], SourceOf(s[d], i))
  <2> DEFINE n == s[d]
             m == t[d]
             dim == st.dims[d]
             new == f[d]
  <2>1. /\ n \in Nat /\ m \in Nat /\ n >= 1 /\ m >= 1 /\ n \in {1, m} /\ OfSize(dim, n)
        /\ new = DimOf(dim.offset, m, dim.stride, dim.shape)
    BY <1>1, <1>3
  <2> HIDE DEF n, m, dim, new
  <2>2. /\ OfSize(new, m) /\ new.stride = dim.stride /\ new.shape = dim.shape
        /\ IsTensor(new.offset) <=> IsTensor(dim.offset)
        /\ DimHasModulo(new) <=> DimHasModulo(dim)
        /\ \A i \in 0 .. m - 1 : SourceOf(n, i) \in 0 .. n - 1 /\ Term(new, i) = Term(dim, SourceOf(n, i))
    BY <2>1, BroadcastDim
  <2> QED BY <2>2 DEF n, m, dim, new
<1>5. f = [d \in DOMAIN t |-> f[d]]
  OBVIOUS
<1> HIDE DEF f, k, p, c
<1>6. c.scalar = k /\ c.dims = f /\ c.source = p
  BY <1>2, StateIs
<1>7. \A d \in DOMAIN t, e \in DOMAIN t : IsTensor(f[d].offset) /\ IsTensor(f[e].offset) => d = e
  BY <1>1, <1>4 DEF Formed
<1>8. Formed(c, t)
  BY <1>1, <1>2, <1>3, <1>4, <1>5, <1>7, Forms
<1>9. /\ Unstructured(c) = {d \in DOMAIN t : IsTensor(c.dims[d].offset)} /\ DOMAIN c.dims = DOMAIN t
      /\ HasModulo(c) <=> \E d \in DOMAIN t : DimHasModulo(c.dims[d])
  BY <1>1, <1>8, StateFacts
<1>10. /\ Unstructured(st) = {d \in DOMAIN t : IsTensor(st.dims[d].offset)}
       /\ HasModulo(st) <=> \E d \in DOMAIN t : DimHasModulo(st.dims[d])
  BY <1>1, StateFacts
<1>11. Unstructured(c) = Unstructured(st) /\ (HasModulo(c) => HasModulo(st))
  BY <1>4, <1>6, <1>9, <1>10
<1>12. Ready(st) => Ready(c)
  BY <1>4, <1>6, <1>10, <1>11 DEF Ready
<1>13. Positive(st) => Positive(c)
  BY <1>3, <1>4, <1>6, <1>9 DEF Positive
<1>14. ASSUME Positive(st), NEW x \in Elements(t) PROVE Decoded(c, x) = Decoded(st, at[x])
  <2> DEFINE y == [d \in DOMAIN t |-> IF s[d] = 1 THEN 0 ELSE x[d]]
  <2>1. \A d \in DOMAIN t : x[d] \in 0 .. t[d] - 1 /\ x[d] \in Int
    BY <1>1, ElementsAre
  <2>2. /\ at[x] = y /\ y \in [DOMAIN s -> Int]
        /\ \A d \in DOMAIN t : y[d] = SourceOf(s[d], x[d])
    BY <1>1, <2>1 DEF BroadcastAt, SourceOf
  <2> HIDE DEF y, at
  <2>3. y \in Elements(s)
    BY <1>1, <1>4, <2>1, <2>2, ElementsAre
  <2>4. \A d \in DOMAIN t : Term(c.dims[d], x[d]) = Term(st.dims[d], y[d])
    BY <1>4, <1>6, <2>1, <2>2
  <2>5. Len(t) \in {1, 2} /\ Len(s) = Len(t) /\ DOMAIN t = 1 .. Len(t)
    BY <1>1, ShapeFacts DEF Broadcastable
  <2>6. CASE Len(t) = 1
    <3>1. Decoded(c, x) = Term(c.dims[1], x[1])
      BY <1>1, <1>8, <1>13, <1>14, <2>6, DecodedIs
    <3>2. Decoded(st, y) = Term(st.dims[1], y[1])
      BY <1>1, <1>14, <2>3, <2>5, <2>6, DecodedIs
    <3>3. 1 \in DOMAIN t
      BY <2>5, <2>6
    <3> QED BY <2>2, <2>4, <3>1, <3>2, <3>3
  <2>7. CASE Len(t) = 2
    <3>1. Decoded(c, x) = Term(c.dims[1], x[1]) + Term(c.dims[2], x[2])
      BY <1>1, <1>8, <1>13, <1>14, <2>7, DecodedIs
    <3>2. Decoded(st, y) = Term(st.dims[1], y[1]) + Term(st.dims[2], y[2])
      BY <1>1, <1>14, <2>3, <2>5, <2>7, DecodedIs
    <3>3. 1 \in DOMAIN t /\ 2 \in DOMAIN t
      BY <2>5, <2>7
    <3> QED BY <2>2, <2>4, <3>1, <3>2, <3>3
  <2> QED BY <2>5, <2>6, <2>7
<1>15. IsStructured(c) <=> IsStructured(st)
  BY <1>11 DEF IsStructured
<1> HIDE DEF at
<1>16. View(c, st, s, t, at)
  BY <1>6, <1>8, <1>11, <1>12, <1>13, <1>14, <1>15 DEF View, k, p
<1> QED BY <1>4, <1>6, <1>11, <1>16 DEF c, at

LEMMA BroadcastSame ==
  ASSUME NEW s, NEW t, Broadcastable(s, t), NEW a, NEW b, Formed(a, s), Formed(b, s), Same(a, b, s)
  PROVE  Same(BroadcastState(a, t), BroadcastState(b, t), t)
<1> DEFINE c == BroadcastState(a, t)
           e == BroadcastState(b, t)
<1>1. DOMAIN s = DOMAIN t
  BY ShapeFacts DEF Broadcastable
<1>2. /\ c.scalar = a.scalar /\ (HasModulo(c) => HasModulo(a)) /\ Unstructured(c) = Unstructured(a)
      /\ \A d \in DOMAIN t : \A i \in 0 .. t[d] - 1 :
           SourceOf(s[d], i) \in 0 .. s[d] - 1 /\ Term(c.dims[d], i) = Term(a.dims[d], SourceOf(s[d], i))
  BY BroadcastView DEF View
<1>3. /\ e.scalar = b.scalar /\ Unstructured(e) = Unstructured(b)
      /\ \A d \in DOMAIN t : \A i \in 0 .. t[d] - 1 : Term(e.dims[d], i) = Term(b.dims[d], SourceOf(s[d], i))
  BY BroadcastView DEF View
<1> HIDE DEF c, e
<1>4. ASSUME enableMakeGatherScatterTensorPtr
      PROVE  /\ Unstructured(c) = Unstructured(e)
             /\ TermsAgree(DOMAIN t \ Unstructured(c), c, e, t)
             /\ IsStructured(c) => ~HasModulo(c)
  <2>1. /\ Unstructured(a) = Unstructured(b) /\ TermsAgree(DOMAIN s \ Unstructured(a), a, b, s)
        /\ IsStructured(a) => ~HasModulo(a)
    BY <1>4 DEF Same
  <2>2. TermsAgree(DOMAIN t \ Unstructured(c), c, e, t)
    <3> SUFFICES ASSUME NEW d \in DOMAIN t \ Unstructured(c), NEW i \in 0 .. t[d] - 1
                 PROVE  Term(c.dims[d], i) = Term(e.dims[d], i)
      BY DEF TermsAgree
    <3>1. Term(a.dims[d], SourceOf(s[d], i)) = Term(b.dims[d], SourceOf(s[d], i))
      BY <1>1, <1>2, <2>1 DEF TermsAgree
    <3> QED BY <1>2, <1>3, <3>1
  <2> QED BY <1>2, <1>3, <2>1, <2>2 DEF IsStructured
<1> QED BY <1>2, <1>3, <1>4 DEF Same, c, e

-----------------------------------------------------------------------------
(* What rewriteAddptrOp emits *)

Merged(s, u, d, shape) ==
  State(s.source, s.scalar, [e \in DOMAIN shape |-> IF e = d THEN u.dims[d] ELSE s.dims[e]])

LEMMA MergedIs ==
  ASSUME NEW shape \in TensorShapes, NEW s, NEW u, Formed(s, shape), Formed(u, shape), NEW d,
         Unstructured(s) = {d}, Unstructured(u) = {d}
  PROVE  mergeUnstructuredState(s, u) = Merged(s, u, d, shape)
<1> DEFINE p == s.source
           k == s.scalar
           f == s.dims
           new == u.dims[d]
           n == shape[d]
           g == [e \in DOMAIN shape |-> IF e = d THEN new ELSE f[e]]
           h == [f EXCEPT ![d] = new]
<1>1. s = State(p, k, f) /\ f = [e \in DOMAIN shape |-> f[e]]
  BY DEF Formed
<1>2. d \in DOMAIN shape /\ getNonStructuredDim(s) = d /\ getNonStructuredDim(u) = d /\ Rank(s) = Rank(u)
  BY StateFacts
<1>3. mergeUnstructuredState(s, u)
        = [s EXCEPT !.dims[d].offset = new.offset, !.dims[d].stride = new.stride, !.dims[d].shape = new.shape]
  BY <1>2 DEF mergeUnstructuredState, IsStructured
<1>4. PICK o, t, q : f[d] = DimOf(o, n, t, q)
  BY <1>2 DEF Formed, OfSize
<1>5. new = DimOf(new.offset, n, new.stride, new.shape)
  BY <1>2 DEF Formed, OfSize
<1>6. h = g
  BY <1>1
<1>7. Merged(s, u, d, shape) = State(p, k, g)
  BY DEF Merged
<1>8. [s EXCEPT !.dims[d].offset = new.offset, !.dims[d].stride = new.stride, !.dims[d].shape = new.shape] = State(p, k, h)
  <2> DEFINE o1 == new.offset
             t1 == new.stride
             q1 == new.shape
             f1 == [f EXCEPT ![d] = DimOf(o1, n, t, q)]
             f2 == [f EXCEPT ![d] = DimOf(o1, n, t1, q)]
  <2>1. d \in DOMAIN f
    BY <1>1, <1>2
  <2> HIDE DEF f, p, k, n
  <2>2. [State(p, k, f) EXCEPT !.dims[d].offset = o1] = State(p, k, f1)
    BY <1>4, <2>1 DEF State, DimOf
  <2> HIDE DEF o1
  <2>3. [State(p, k, f1) EXCEPT !.dims[d].stride = t1] = State(p, k, f2)
    BY <2>1 DEF State, DimOf
  <2> HIDE DEF t1
  <2>4. [State(p, k, f2) EXCEPT !.dims[d].shape = q1] = State(p, k, [f EXCEPT ![d] = DimOf(o1, n, t1, q1)])
    BY <2>1 DEF State, DimOf
  <2> HIDE DEF f1, f2
  <2>5. h = [f EXCEPT ![d] = DimOf(o1, n, t1, q1)]
    BY <1>5 DEF o1, t1
  <2> HIDE DEF h
  <2>6. s = State(p, k, f)
    BY <1>1 DEF p, k, f
  <2>7. [s EXCEPT !.dims[d].offset = o1, !.dims[d].stride = t1, !.dims[d].shape = q1] = State(p, k, h)
    BY <2>2, <2>3, <2>4, <2>5, <2>6
  <2> QED BY <2>7 DEF h, f, p, k, o1, t1
<1> HIDE DEF g, h
<1> QED BY <1>3, <1>6, <1>7, <1>8

LEMMA MergedFormed ==
  ASSUME NEW shape \in TensorShapes, NEW s, NEW u, Formed(s, shape), Formed(u, shape), NEW d,
         Unstructured(s) = {d}, Unstructured(u) = {d}
  PROVE  LET c == Merged(s, u, d, shape) IN
           /\ Formed(c, shape) /\ c.source = s.source /\ c.scalar = s.scalar /\ Unstructured(c) = {d}
           /\ c.dims[d] = u.dims[d] /\ \A e \in DOMAIN shape : e # d => c.dims[e] = s.dims[e]
<1> DEFINE c == Merged(s, u, d, shape)
           f == [e \in DOMAIN shape |-> IF e = d THEN u.dims[d] ELSE s.dims[e]]
           k == s.scalar
           p == s.source
<1>1. c = State(p, k, f)
  BY DEF Merged
<1>2. /\ Unstructured(s) = {e \in DOMAIN shape : IsTensor(s.dims[e].offset)}
      /\ Unstructured(u) = {e \in DOMAIN shape : IsTensor(u.dims[e].offset)}
  BY StateFacts
<1>3. /\ k \in Scalars \cup {Absent} /\ \A e \in DOMAIN shape : OfSize(s.dims[e], shape[e]) /\ OfSize(u.dims[e], shape[e])
  BY DEF Formed
<1>4. d \in DOMAIN shape
  BY <1>2
<1>5. f = [e \in DOMAIN shape |-> f[e]] /\ f[d] = u.dims[d] /\ \A e \in DOMAIN shape : e # d => f[e] = s.dims[e]
  BY <1>4
<1> HIDE DEF f, c, k, p
<1>6. c.scalar = k /\ c.dims = f /\ c.source = p
  BY <1>1, StateIs
<1>7. \A e \in DOMAIN shape : OfSize(f[e], shape[e])
  BY <1>3, <1>5
<1>8. \A e \in DOMAIN shape : IsTensor(f[e].offset) <=> e = d
  BY <1>2, <1>5
<1>9. Formed(c, shape)
  <2>1. \A e \in DOMAIN shape, h \in DOMAIN shape : IsTensor(f[e].offset) /\ IsTensor(f[h].offset) => e = h
    BY <1>8
  <2> QED BY <1>1, <1>3, <1>5, <1>7, <2>1, Forms
<1>10. Unstructured(c) = {e \in DOMAIN shape : IsTensor(c.dims[e].offset)}
  BY <1>9, StateFacts
<1>11. Unstructured(c) = {d}
  BY <1>4, <1>6, <1>8, <1>10
<1> QED BY <1>5, <1>6, <1>9, <1>11 DEF c, k, p

MergeIs(c, s, u, shape) ==
  \E d : Unstructured(s) = {d} /\ Unstructured(u) = {d} /\ c = Merged(s, u, d, shape)

LEMMA MergedRight ==
  ASSUME NEW shape \in TensorShapes, NEW s, NEW u, NEW elem \in [Elements(shape) -> Int],
         First(s, shape, elem), Second(u, shape, elem), Same(s, u, shape),
         enableMakeGatherScatterTensorPtr, NEW c, MergeIs(c, s, u, shape)
  PROVE  First(c, shape, elem) /\ Same(c, u, shape) /\ Decodes(c, shape, elem)
<1>1. PICK d : Unstructured(s) = {d} /\ Unstructured(u) = {d} /\ c = Merged(s, u, d, shape)
  BY DEF MergeIs
<1>2. /\ Formed(s, shape) /\ Formed(u, shape) /\ Positive(s) /\ ~HasModulo(u)
      /\ Uniform(s, shape, elem) /\ Decodes(u, shape, elem)
  BY DEF First, Second
<1>3. /\ Formed(c, shape) /\ c.scalar = s.scalar /\ Unstructured(c) = {d}
      /\ c.dims[d] = u.dims[d] /\ \A e \in DOMAIN shape : e # d => c.dims[e] = s.dims[e]
  BY <1>1, <1>2, MergedFormed
<1>4. Positive(u)
  BY <1>2, NoneHasModulo
<1>5. d \in DOMAIN shape /\ DOMAIN c.dims = DOMAIN shape /\ DOMAIN s.dims = DOMAIN shape /\ DOMAIN u.dims = DOMAIN shape
  BY <1>1, <1>2, <1>3, StateFacts
<1>6. Positive(c)
  BY <1>2, <1>3, <1>4, <1>5 DEF Positive
<1>7. s.scalar = u.scalar /\ TermsAgree(DOMAIN shape \ {d}, s, u, shape)
  BY <1>1 DEF Same
<1>8. \A e \in DOMAIN shape : \A i \in 0 .. shape[e] - 1 : Term(c.dims[e], i) = Term(u.dims[e], i)
  BY <1>3, <1>7 DEF TermsAgree
<1>9. Decodes(c, shape, elem)
  <2> SUFFICES ASSUME NEW x \in Elements(shape) PROVE Decoded(c, x) = elem[x]
    BY DEF Decodes
  <2>1. \A e \in DOMAIN shape : x[e] \in 0 .. shape[e] - 1
    BY ElementsAre
  <2>2. \A e \in DOMAIN shape : Term(c.dims[e], x[e]) = Term(u.dims[e], x[e])
    BY <1>8, <2>1
  <2>3. Decoded(c, x) = Decoded(u, x)
    BY <1>2, <1>3, <1>4, <1>6, <2>2, DecodedSame
  <2> QED BY <1>2, <2>3 DEF Decodes
<1>10. Uniform(c, shape, elem)
  BY <1>2, <1>3 DEF Uniform
<1>11. First(c, shape, elem)
  BY <1>3, <1>6, <1>9, <1>10 DEF First
<1>12. Same(c, u, shape)
  BY <1>1, <1>3, <1>7, <1>8 DEF Same, TermsAgree, IsStructured
<1> QED BY <1>9, <1>11, <1>12

-----------------------------------------------------------------------------
StateRight(st, isPtr, shape) ==
  st \in {Failure, Assertion} \/ (Formed(st, shape) /\ st.source = isPtr)

LEMMA StateRightIs ==
  ASSUME NEW shape \in TensorShapes, NEW isPtr, NEW st, StateRight(st, isPtr, shape)
  PROVE  /\ Ok(st) => Formed(st, shape) /\ st.source = isPtr
         /\ ~Ok(st) => st = Failure \/ st = Assertion
         /\ Formed(st, shape) => Ok(st) /\ st # Failure /\ st # Assertion
BY StateFacts, NotFormed DEF StateRight

LEMMA RewriteIs ==
  ASSUME NEW shape \in TensorShapes, NEW s, NEW u, NEW isPtr, StateRight(s, isPtr, shape), StateRight(u, isPtr, shape)
  PROVE  /\ ~Ok(s) \/ IsStructured(s) => Rewrite(s, u) = s
         /\ Ok(s) /\ ~IsStructured(s) =>
              \/ Rewrite(s, u) = Failure
              \/ Rewrite(s, u) = u /\ ~Ok(u)
              \/ /\ enableMakeGatherScatterTensorPtr /\ Ok(u)
                 /\ MergeIs(Rewrite(s, u), s, u, shape)
<1>1. ~Ok(s) \/ IsStructured(s) => Rewrite(s, u) = s
  BY DEF Rewrite
<1>2. ASSUME Ok(s), ~IsStructured(s), enableMakeGatherScatterTensorPtr, Rank(s) # 1, Ok(u)
      PROVE  Rewrite(s, u) = Failure \/ MergeIs(Rewrite(s, u), s, u, shape)
  <2>1. Rewrite(s, u) = mergeUnstructuredState(s, u)
    BY <1>2 DEF Rewrite
  <2>2. Formed(s, shape) /\ Formed(u, shape)
    BY <1>2, StateRightIs
  <2>3. CASE IsStructured(u)
    BY <2>1, <2>3 DEF mergeUnstructuredState
  <2>4. CASE ~IsStructured(u)
    <3>1. PICK d, e : d \in Unstructured(s) /\ e \in Unstructured(u)
      BY <1>2, <2>4 DEF IsStructured
    <3>2. /\ Unstructured(s) = {d} /\ getNonStructuredDim(s) = d
          /\ Unstructured(u) = {e} /\ getNonStructuredDim(u) = e
      BY <2>2, <3>1, StateFacts
    <3>3. CASE d # e
      BY <2>1, <3>2, <3>3 DEF mergeUnstructuredState
    <3>4. CASE d = e
      BY <2>1, <2>2, <3>2, <3>4, MergedIs DEF MergeIs
    <3> QED BY <3>3, <3>4
  <2> QED BY <2>3, <2>4
<1>3. Ok(s) /\ ~IsStructured(s) /\ (~enableMakeGatherScatterTensorPtr \/ Rank(s) = 1) => Rewrite(s, u) = Failure
  BY DEF Rewrite
<1>4. Ok(s) /\ ~IsStructured(s) /\ enableMakeGatherScatterTensorPtr /\ Rank(s) # 1 /\ ~Ok(u) => Rewrite(s, u) = u
  BY DEF Rewrite
<1> QED BY <1>1, <1>2, <1>3, <1>4

-----------------------------------------------------------------------------
(* The operations without tensor operands *)

Plain(st, isPtr, shape, elem) ==
  /\ Formed(st, shape) /\ st.source = isPtr /\ IsStructured(st) /\ ~HasModulo(st)
  /\ Uniform(st, shape, elem) /\ Decodes(st, shape, elem)

Splatted(isPtr, k, a, shape) ==
  State(isPtr, k, [d \in DOMAIN shape |-> Dim(IF d = 1 THEN a ELSE Attr(0), shape[d], Attr(0))])

LEMMA SplattedPlain ==
  ASSUME NEW shape \in TensorShapes, NEW isPtr, NEW n \in Int, NEW a \in Numbers, a.val = n,
         NEW k \in Scalars \cup {Absent}, k \in Scalars => k.val = n
  PROVE  /\ Plain(Splatted(isPtr, k, a, shape), isPtr, shape, [x \in Elements(shape) |-> n])
         /\ Splatted(isPtr, k, a, shape).scalar = k
<1> DEFINE c == Splatted(isPtr, k, a, shape)
           f == [d \in DOMAIN shape |-> Dim(IF d = 1 THEN a ELSE Attr(0), shape[d], Attr(0))]
           elem == [x \in Elements(shape) |-> n]
<1>1. c = State(isPtr, k, f)
  BY DEF Splatted
<1>2. Attr(0) \in Numbers /\ Attr(0).val = 0
  BY NumberFacts
<1>3. \A d \in DOMAIN shape : f[d] = DimOf(IF d = 1 THEN a ELSE Attr(0), shape[d], Attr(0), Attr(0))
  BY DimIs
<1>4. f = [d \in DOMAIN shape |-> f[d]]
  OBVIOUS
<1> HIDE DEF f, c
<1>5. \A d \in DOMAIN shape : /\ OfSize(f[d], shape[d]) /\ f[d].offset = IF d = 1 THEN a ELSE Attr(0)
                              /\ f[d].stride = Attr(0) /\ f[d].shape = Attr(0)
  <2> SUFFICES ASSUME NEW d \in DOMAIN shape
               PROVE  /\ OfSize(f[d], shape[d]) /\ f[d].offset = IF d = 1 THEN a ELSE Attr(0)
                      /\ f[d].stride = Attr(0) /\ f[d].shape = Attr(0)
    OBVIOUS
  <2> DEFINE o == IF d = 1 THEN a ELSE Attr(0)
  <2>1. o \in Numbers /\ o \in Offsets(shape[d]) /\ ~IsTensor(o)
    BY <1>2, NumberFacts DEF Offsets
  <2> HIDE DEF o
  <2>2. OfSize(DimOf(o, shape[d], Attr(0), Attr(0)), shape[d])
    BY <1>2, <2>1, DimIs
  <2>3. f[d] = DimOf(o, shape[d], Attr(0), Attr(0))
    BY <1>3 DEF o
  <2>4. f[d].offset = o /\ f[d].stride = Attr(0) /\ f[d].shape = Attr(0)
    BY <2>3, DimIs
  <2> QED BY <2>2, <2>3, <2>4 DEF o
<1>6. \A d \in DOMAIN shape : /\ ~IsTensor(f[d].offset) /\ ~DimHasModulo(f[d])
                              /\ f[d].offset.val = IF d = 1 THEN n ELSE 0
  <2> SUFFICES ASSUME NEW d \in DOMAIN shape
               PROVE  /\ ~IsTensor(f[d].offset) /\ ~DimHasModulo(f[d])
                      /\ f[d].offset.val = IF d = 1 THEN n ELSE 0
    OBVIOUS
  <2>1. f[d].offset \in Numbers /\ ~IsTensor(f[d].offset) /\ f[d].offset.val = IF d = 1 THEN n ELSE 0
    BY <1>2, <1>5, NumberFacts
  <2>2. ~DimHasModulo(f[d])
    BY <1>5, DimFacts
  <2> QED BY <2>1, <2>2
<1>7. c.scalar = k /\ c.dims = f /\ c.source = isPtr
  BY <1>1, StateIs
<1>8. Formed(c, shape)
  BY <1>1, <1>4, <1>5, <1>6, Forms
<1>9. Unstructured(c) = {} /\ ~HasModulo(c)
  BY <1>6, <1>7, <1>8, StateFacts
<1>10. Uniform(c, shape, elem)
  BY <1>7 DEF Uniform
<1>11. Positive(c)
  BY <1>8, <1>9, NoneHasModulo
<1>12. Decodes(c, shape, elem)
  <2> SUFFICES ASSUME NEW x \in Elements(shape) PROVE Decoded(c, x) = n
    BY DEF Decodes
  <2>1. 1 \in DOMAIN shape /\ \A d \in DOMAIN shape : x[d] \in 0 .. shape[d] - 1
    BY ElementsAre, ShapeFacts
  <2>2. \A d \in DOMAIN shape : Term(f[d], x[d]) = IF d = 1 THEN n ELSE 0
    <3> SUFFICES ASSUME NEW d \in DOMAIN shape PROVE Term(f[d], x[d]) = IF d = 1 THEN n ELSE 0
      OBVIOUS
    <3>1. /\ OfSize(f[d], shape[d]) /\ ~IsTensor(f[d].offset) /\ f[d].shape.val = 0 /\ f[d].stride.val = 0
      BY <1>2, <1>5, <1>6
    <3>2. At(f[d].offset, x[d]) = IF d = 1 THEN n ELSE 0
      BY <1>6, <3>1 DEF At
    <3>3. x[d] \in 0 .. shape[d] - 1 /\ x[d] * 0 = 0
      BY <2>1, ShapeFacts
    <3>4. Term(f[d], x[d]) = At(f[d].offset, x[d]) + x[d] * f[d].stride.val
      BY <3>1, <3>3, TermIs
    <3> QED BY <3>1, <3>2, <3>3, <3>4
  <2>3. Decoded(c, x) = Term(c.dims[1], x[1])
    BY <1>7, <1>8, <1>11, <2>1, <2>2, DecodedOne
  <2> QED BY <1>7, <2>1, <2>2, <2>3
<1>13. IsStructured(c)
  BY <1>9 DEF IsStructured
<1> QED BY <1>7, <1>8, <1>9, <1>10, <1>12, <1>13 DEF Plain, c

ScalarOf(isPtr, n) == IF isPtr /\ n = 0 THEN Absent ELSE Value(n)

LEMMA ScalarStateIs ==
  ASSUME NEW isPtr \in BOOLEAN, NEW n \in Int
  PROVE  \E dims : ScalarState(isPtr, n) = State(isPtr, ScalarOf(isPtr, n), dims)
<1>1. CASE ~isPtr
  BY <1>1 DEF ScalarState, ScalarOf
<1>2. CASE isPtr /\ n = 0
  BY <1>2 DEF ScalarState, ScalarOf
<1>3. CASE isPtr /\ n # 0
  <2> DEFINE l == State(TRUE, Absent, <<>>)
             r == State(FALSE, Value(n), <<>>)
             nothing == [d \in DOMAIN l.dims |-> [AddDim(l.dims[d], r.dims[d], FALSE) EXCEPT !.shape = SumShape(l, r, d)]]
  <2>1. ScalarState(isPtr, n) = addState(l, r, FALSE)
    BY <1>3 DEF ScalarState
  <2>2. /\ l.dims = <<>> /\ r.dims = <<>> /\ l.source = TRUE /\ r.source = FALSE
        /\ l.scalar = Absent /\ r.scalar = Value(n)
    BY DEF State
  <2> HIDE DEF l, r
  <2>3. Rank(l) = 0 /\ Rank(r) = 0 /\ DOMAIN l.dims = {} /\ DOMAIN r.dims = {}
    BY <2>2 DEF Rank
  <2>4. Unstructured(l) = {} /\ Unstructured(r) = {} /\ ~HasModulo(l) /\ ~HasModulo(r)
    BY <2>3 DEF Unstructured, HasModulo
  <2>5. Cardinality({}) = 0
    BY FS_EmptySet
  <2>6. AddAssert(l, r, FALSE)
    BY <2>3, <2>4, <2>5 DEF AddAssert
  <2>7. ~Refused(l, r)
    BY <2>2, <2>4 DEF Refused, IsStructured
  <2>8. addState(l, r, FALSE) = State(TRUE, AddScalar(l, r), nothing)
    BY <2>2, <2>3, <2>4, <2>6, <2>7 DEF addState
  <2>9. AddScalar(l, r) = Value(n)
    BY <2>2, <2>3, ScalarFacts DEF AddScalar
  <2>10. addState(l, r, FALSE) = State(TRUE, Value(n), nothing)
    BY <2>8, <2>9
  <2> HIDE DEF nothing
  <2> QED BY <1>3, <2>1, <2>10 DEF ScalarOf
<1> QED BY <1>1, <1>2, <1>3

LEMMA SplatIs ==
  ASSUME NEW shape \in TensorShapes, NEW isPtr \in BOOLEAN, NEW n \in Int
  PROVE  LET src == ScalarState(isPtr, n) IN
           [src EXCEPT !.dims = SplatDims(src, shape)]
             = Splatted(isPtr, ScalarOf(isPtr, n), IF isPtr /\ n = 0 THEN Attr(0) ELSE Value(n), shape)
<1> DEFINE src == ScalarState(isPtr, n)
           k == ScalarOf(isPtr, n)
           a == IF isPtr /\ n = 0 THEN Attr(0) ELSE Value(n)
<1>1. PICK dims : src = State(isPtr, k, dims)
  BY ScalarStateIs
<1>2. src.scalar = k /\ [src EXCEPT !.dims = SplatDims(src, shape)] = State(isPtr, k, SplatDims(src, shape))
  BY <1>1, StateIs
<1>3. Present(k) <=> ~(isPtr /\ n = 0)
  BY ScalarFacts DEF ScalarOf
<1>4. \A d : (IF d = 1 /\ Present(k) THEN k ELSE Attr(0)) = (IF d = 1 THEN a ELSE Attr(0))
  BY <1>3 DEF ScalarOf
<1> HIDE DEF src, k, a
<1>5. SplatDims(src, shape) = [d \in DOMAIN shape |-> Dim(IF d = 1 THEN a ELSE Attr(0), shape[d], Attr(0))]
  BY <1>2, <1>4 DEF SplatDims
<1> QED BY <1>2, <1>5 DEF Splatted, src, k, a

LEMMA SplatPlain ==
  ASSUME NEW shape \in TensorShapes, NEW isPtr \in BOOLEAN, NEW n \in Int
  PROVE  LET src == ScalarState(isPtr, n)
             st == [src EXCEPT !.dims = SplatDims(src, shape)]
         IN /\ Plain(st, isPtr, shape, [x \in Elements(shape) |-> n])
            /\ ~isPtr => st.scalar \in Scalars
<1> DEFINE k == ScalarOf(isPtr, n)
           a == IF isPtr /\ n = 0 THEN Attr(0) ELSE Value(n)
<1>1. a \in Numbers /\ a.val = n
  BY NumberFacts
<1>2. k \in Scalars \cup {Absent} /\ (~isPtr => k \in Scalars)
  BY ScalarFacts DEF ScalarOf
<1>3. k \in Scalars => k.val = n
  BY ScalarFacts, NumberFacts DEF ScalarOf
<1> HIDE DEF k, a
<1>4. \A b \in Numbers, q \in Scalars \cup {Absent} :
        b.val = n /\ (q \in Scalars => q.val = n)
          => /\ Plain(Splatted(isPtr, q, b, shape), isPtr, shape, [x \in Elements(shape) |-> n])
             /\ Splatted(isPtr, q, b, shape).scalar = q
  BY SplattedPlain
<1>5. Plain(Splatted(isPtr, k, a, shape), isPtr, shape, [x \in Elements(shape) |-> n])
      /\ Splatted(isPtr, k, a, shape).scalar = k
  BY <1>1, <1>2, <1>3, <1>4
<1> QED BY <1>2, <1>5, SplatIs DEF k, a

LEMMA ConstSplatPlain ==
  ASSUME NEW shape \in TensorShapes, NEW n \in Int, n # 0
  PROVE  LET st == State(FALSE, Const(n),
                     [d \in DOMAIN shape |-> Dim(IF d = 1 THEN Const(n) ELSE Attr(0), shape[d], Attr(0))])
         IN Plain(st, FALSE, shape, [x \in Elements(shape) |-> n]) /\ st.scalar \in Scalars
<1>1. Const(n) \in Scalars /\ Const(n) \in Numbers /\ Const(n).val = n
  BY ScalarFacts, NumberFacts
<1>2. /\ Plain(Splatted(FALSE, Const(n), Const(n), shape), FALSE, shape, [x \in Elements(shape) |-> n])
      /\ Splatted(FALSE, Const(n), Const(n), shape).scalar = Const(n)
  BY <1>1, SplattedPlain
<1> QED BY <1>1, <1>2 DEF Splatted

LEMMA RangePlain ==
  ASSUME NEW start \in Int, NEW n \in Nat \ {0, 1}
  PROVE  /\ <<n>> \in TensorShapes
         /\ Plain(State(FALSE, Absent, <<Dim(Attr(start), n, Attr(1))>>), FALSE, <<n>>,
                  [x \in Elements(<<n>>) |-> start + x[1]])
<1> DEFINE dim == Dim(Attr(start), n, Attr(1))
           f == <<dim>>
           c == State(FALSE, Absent, f)
           elem == [x \in Elements(<<n>>) |-> start + x[1]]
           shape == <<n>>
<1>1. shape \in TensorShapes /\ DOMAIN shape = {1} /\ shape[1] = n
  BY DEF TensorShapes
<1>2. /\ Attr(start) \in Numbers /\ Attr(1) \in Numbers /\ Attr(0) \in Numbers /\ ~IsTensor(Attr(start))
      /\ Attr(start).val = start /\ Attr(1).val = 1 /\ Attr(0).val = 0 /\ \A i : At(Attr(start), i) = start
  BY NumberFacts
<1>3. /\ OfSize(dim, n) /\ dim.offset = Attr(start) /\ dim.stride = Attr(1) /\ dim.shape = Attr(0)
  <2>1. Attr(start) \in Offsets(n) /\ n # 1
    BY <1>2 DEF Offsets
  <2>2. dim = DimOf(Attr(start), n, Attr(1), Attr(0))
    BY DimIs
  <2> HIDE DEF dim
  <2> QED BY <1>2, <2>1, <2>2, DimIs
<1>4. ~DimHasModulo(dim) /\ ~IsTensor(dim.offset)
  BY <1>2, <1>3, DimFacts
<1> HIDE DEF dim
<1>5. f = [d \in DOMAIN shape |-> f[d]] /\ f[1] = dim
  BY <1>1
<1> HIDE DEF f, shape
<1>6. Formed(c, shape)
  <2>1. \A d \in DOMAIN shape : OfSize(f[d], shape[d]) /\ ~IsTensor(f[d].offset)
    BY <1>1, <1>3, <1>4, <1>5
  <2> QED BY <1>1, <1>5, <2>1, Forms
<1>7. c.scalar = Absent /\ c.dims = f /\ c.source = FALSE
  BY DEF State
<1> HIDE DEF c
<1>8. Unstructured(c) = {} /\ ~HasModulo(c)
  BY <1>1, <1>4, <1>5, <1>6, <1>7, StateFacts
<1>9. Positive(c)
  BY <1>1, <1>6, <1>8, NoneHasModulo
<1>10. Decodes(c, shape, elem)
  <2> SUFFICES ASSUME NEW x \in Elements(shape) PROVE Decoded(c, x) = elem[x]
    BY DEF Decodes
  <2>1. x[1] \in 0 .. n - 1
    BY <1>1, ElementsAre
  <2>2. Term(dim, x[1]) = start + x[1]
    <3>1. Term(dim, x[1]) = At(dim.offset, x[1]) + x[1] * dim.stride.val
      BY <1>2, <1>3, <1>4, <2>1, TermIs
    <3> QED BY <1>2, <1>3, <2>1, <3>1
  <2>3. Decoded(c, x) = Term(c.dims[1], x[1])
    BY <1>1, <1>6, <1>9, DecodedOne
  <2> QED BY <1>5, <1>7, <2>2, <2>3 DEF shape
<1>11. Uniform(c, shape, elem)
  BY <1>7, ScalarFacts DEF Uniform
<1> QED BY <1>1, <1>6, <1>7, <1>8, <1>10, <1>11 DEF Plain, IsStructured, c, f, dim, shape

-----------------------------------------------------------------------------
(* What holds of the two states of a value: of their form, of the asserts, *)
(* where the value is affine, and of what they decode to.                  *)

Pair(isPtr, shape, s, u) ==
  /\ StateRight(s, isPtr, shape) /\ StateRight(u, isPtr, shape) /\ s # Assertion
  /\ Ok(u) => ~HasModulo(u)
  /\ enableMakeGatherScatterTensorPtr \/ (Ok(s) => IsStructured(s))

Safe(u) == u # Assertion /\ (Ok(u) => Ready(u))

Simple(s) == Ok(s) /\ IsStructured(s) /\ ~HasModulo(s)

Exactly(shape, elem, s, u) ==
  /\ Ok(s) => First(s, shape, elem)
  /\ Ok(u) => Second(u, shape, elem)
  /\ Ok(s) /\ Ok(u) => Same(s, u, shape)

-----------------------------------------------------------------------------
(* A sum of two values, in both modes *)

SummedFirst(c, l, r, shape, mode) ==
  /\ ~BothOk(l, r) => c = FirstNotOk(l, r)
  /\ BothOk(l, r) => FirstAdded(c, l, r, shape, mode)

SummedSecond(c, l, r, mode) ==
  /\ ~BothOk(l, r) => c = FirstNotOk(l, r)
  /\ BothOk(l, r) => c = addState(l, r, mode)

LEMMA FirstAddedIs ==
  ASSUME NEW shape \in TensorShapes, NEW l, NEW r, Formed(l, shape), Formed(r, shape),
         ~(l.source /\ r.source), NEW mode, IsFirst(mode), NEW c, FirstAdded(c, l, r, shape, mode)
  PROVE  /\ c = Failure \/ IsSum(c, l, r, shape)
         /\ IsStructured(l) /\ IsStructured(r) /\ ~HasModulo(l) /\ ~HasModulo(r) => IsSum(c, l, r, shape)
<1>1. ASSUME NEW x, NEW y, ClearedPair(x, y, l, r, shape), c = addState(x, y, mode)
      PROVE  c = Failure \/ IsSum(c, l, r, shape)
  BY <1>1, FirstModeSum DEF FirstSumIs
<1>2. c = Failure \/ IsSum(c, l, r, shape)
  BY <1>1 DEF FirstAdded
<1>3. ASSUME IsStructured(l), IsStructured(r), ~HasModulo(l), ~HasModulo(r)
      PROVE  c # Failure
  <2>1. ClearedPair(l, r, l, r, shape) /\ c = addState(l, r, mode)
    BY <1>3, PairOfSame DEF FirstAdded
  <2> QED BY <1>3, <2>1, FirstModeSum
<1> QED BY <1>2, <1>3

LEMMA FirstAddedRight ==
  ASSUME NEW shape \in TensorShapes, NEW l, NEW r, NEW ae, NEW be, NEW ce,
         First(l, shape, ae), First(r, shape, be), SumsUp(ce, ae, be, shape), ~(l.source /\ r.source),
         Unshifted(l, r), NEW mode, IsFirst(mode), NEW c, FirstAdded(c, l, r, shape, mode), c # Failure
  PROVE  /\ First(c, shape, ce) /\ IsSum(c, l, r, shape)
         /\ SumsIn(DOMAIN shape \ (Unstructured(l) \cup Unstructured(r)), c, l, r, shape)
<1>1. PICK x, y : ClearedPair(x, y, l, r, shape) /\ c = addState(x, y, mode)
  BY DEF FirstAdded
<1> QED BY <1>1, FirstSum

LEMMA FirstOf ==
  ASSUME NEW l, NEW r, ~BothOk(l, r)
  PROVE  /\ ~Ok(FirstNotOk(l, r)) /\ FirstNotOk(l, r) \in {l, r}
BY DEF BothOk, FirstNotOk

LEMMA PairSum ==
  ASSUME NEW shape \in TensorShapes, NEW isPtr, NEW ls, NEW lu, NEW rs, NEW ru, NEW cs, NEW cu,
         Pair(isPtr, shape, ls, lu), Pair(FALSE, shape, rs, ru), NEW first, IsFirst(first), NEW second, IsSecond(second),
         SummedFirst(cs, ls, rs, shape, first), SummedSecond(cu, lu, ru, second), isPtr \in BOOLEAN
  PROVE  Pair(isPtr, shape, cs, cu)
<1> DEFINE First1 == StateRight(cs, isPtr, shape) /\ cs # Assertion
                       /\ (enableMakeGatherScatterTensorPtr \/ (Ok(cs) => IsStructured(cs)))
<1>2. First1
  <2>1. CASE ~BothOk(ls, rs)
    <3>1. ~Ok(cs) /\ cs \in {ls, rs}
      BY <2>1, FirstOf DEF SummedFirst
    <3>2. cs = Failure
      BY <3>1, StateRightIs DEF Pair
    <3> QED BY <3>2, NotFormed DEF StateRight
  <2>2. CASE BothOk(ls, rs)
    <3>1. /\ Formed(ls, shape) /\ Formed(rs, shape) /\ ls.source = isPtr /\ rs.source = FALSE /\ FirstAdded(cs, ls, rs, shape, first)
      BY <2>2, StateRightIs DEF Pair, BothOk, SummedFirst
    <3>2. cs = Failure \/ IsSum(cs, ls, rs, shape)
      BY <3>1, FirstAddedIs
    <3>3. CASE cs = Failure
      BY <3>3, NotFormed DEF StateRight
    <3>4. CASE IsSum(cs, ls, rs, shape)
      <4>1. Formed(cs, shape) /\ cs.source = isPtr /\ Unstructured(cs) = Unstructured(ls) \cup Unstructured(rs)
        BY <3>1, <3>4 DEF IsSum
      <4>2. cs # Assertion
        BY <4>1, StateFacts
      <4>3. enableMakeGatherScatterTensorPtr \/ IsStructured(cs)
        BY <2>2, <4>1 DEF Pair, BothOk, IsStructured
      <4> QED BY <4>1, <4>2, <4>3 DEF StateRight
    <3> QED BY <3>2, <3>3, <3>4
  <2> QED BY <2>1, <2>2
<1>3. StateRight(cu, isPtr, shape) /\ (Ok(cu) => ~HasModulo(cu))
  <2>1. CASE ~BothOk(lu, ru)
    <3>1. ~Ok(cu) /\ cu \in {lu, ru}
      BY <2>1, FirstOf DEF SummedSecond
    <3> QED BY <3>1, StateRightIs DEF Pair, StateRight
  <2>2. CASE BothOk(lu, ru)
    <3>1. /\ Formed(lu, shape) /\ Formed(ru, shape) /\ lu.source = isPtr /\ ru.source = FALSE /\ cu = addState(lu, ru, second)
          /\ ~HasModulo(lu) /\ ~HasModulo(ru)
      BY <2>2, StateRightIs DEF Pair, BothOk, SummedSecond
    <3>2. cu \in {Failure, Assertion} \/ IsSum(cu, lu, ru, shape)
      BY <3>1, SecondModeSum DEF SecondSumIs
    <3>3. CASE cu \in {Failure, Assertion}
      BY <3>3, NotFormed DEF StateRight
    <3>4. CASE IsSum(cu, lu, ru, shape)
      BY <3>1, <3>4 DEF IsSum, StateRight
    <3> QED BY <3>2, <3>3, <3>4
  <2> QED BY <2>1, <2>2
<1> QED BY <1>2, <1>3 DEF Pair

LEMMA SafeSum ==
  ASSUME NEW shape \in TensorShapes, NEW isPtr, NEW ls, NEW lu, NEW rs, NEW ru, NEW cu,
         Pair(isPtr, shape, ls, lu), Pair(FALSE, shape, rs, ru), NEW second, IsSecond(second),
         SummedSecond(cu, lu, ru, second), Safe(lu), Safe(ru), ~FactorsCancel(cu)
  PROVE  Safe(cu)
<1>1. Ok(cu) => Ready(cu)
  BY DEF FactorsCancel, Ready
<1>2. CASE ~BothOk(lu, ru)
  <2>1. cu \in {lu, ru}
    BY <1>2, FirstOf DEF SummedSecond
  <2> QED BY <1>1, <2>1 DEF Safe
<1>3. CASE BothOk(lu, ru)
  <2>1. /\ Formed(lu, shape) /\ Formed(ru, shape) /\ ru.source = FALSE /\ cu = addState(lu, ru, second)
        /\ ~HasModulo(lu) /\ ~HasModulo(ru) /\ Ready(lu) /\ Ready(ru)
    BY <1>3, StateRightIs DEF Pair, BothOk, SummedSecond, Safe
  <2>2. cu # Assertion
    BY <2>1, SecondModeSum
  <2> QED BY <1>1, <2>2 DEF Safe
<1> QED BY <1>2, <1>3

LEMMA SimpleSum ==
  ASSUME NEW shape \in TensorShapes, NEW isPtr, NEW ls, NEW lu, NEW rs, NEW ru, NEW cs,
         Pair(isPtr, shape, ls, lu), Pair(FALSE, shape, rs, ru), NEW first, IsFirst(first),
         SummedFirst(cs, ls, rs, shape, first), Simple(ls), Simple(rs)
  PROVE  Simple(cs) /\ (ls.scalar \in Scalars /\ rs.scalar \in Scalars => cs.scalar \in Scalars)
<1>1. /\ Formed(ls, shape) /\ Formed(rs, shape) /\ rs.source = FALSE /\ FirstAdded(cs, ls, rs, shape, first)
      /\ ~HasModulo(ls) /\ ~HasModulo(rs) /\ IsStructured(ls) /\ IsStructured(rs)
  BY StateRightIs DEF Pair, BothOk, SummedFirst, Simple
<1>2. IsSum(cs, ls, rs, shape)
  BY <1>1, FirstAddedIs
<1>3. Formed(cs, shape) /\ IsStructured(cs) /\ ~HasModulo(cs) /\ cs.scalar = ScalarOfSum(ls, rs)
  BY <1>1, <1>2 DEF IsSum, IsStructured
<1>4. ASSUME ls.scalar \in Scalars, rs.scalar \in Scalars PROVE cs.scalar \in Scalars
  <2>1. ls.scalar.val \in Int /\ rs.scalar.val \in Int /\ cs.scalar = Value(ls.scalar.val + rs.scalar.val)
    BY <1>3, <1>4, ScalarFacts DEF ScalarOfSum
  <2> QED BY <2>1, ScalarFacts
<1>5. Ok(cs)
  BY <1>3, StateFacts
<1> QED BY <1>3, <1>4, <1>5 DEF Simple

(* What is added to a dimension with a modulo, and a range to an           *)
(* unstructured offset, in each mode.                                      *)
Addable(ls, lu, rs, ru) ==
  /\ BothOk(ls, rs) => Unshifted(ls, rs)
  /\ BothOk(lu, ru) => Undropped(lu, ru)

LEMMA ExactSum ==
  ASSUME NEW shape \in TensorShapes, NEW isPtr, NEW ls, NEW lu, NEW rs, NEW ru, NEW cs, NEW cu,
         Pair(isPtr, shape, ls, lu), Pair(FALSE, shape, rs, ru), NEW first, IsFirst(first), NEW second, IsSecond(second),
         SummedFirst(cs, ls, rs, shape, first), SummedSecond(cu, lu, ru, second),
         Pair(isPtr, shape, cs, cu), NEW ae, NEW be, NEW ce, SumsUp(ce, ae, be, shape),
         Exactly(shape, ae, ls, lu), Exactly(shape, be, rs, ru),
         Addable(ls, lu, rs, ru)
  PROVE  Exactly(shape, ce, cs, cu)
<1>1. ASSUME Ok(cs)
      PROVE  /\ BothOk(ls, rs) /\ First(cs, shape, ce) /\ IsSum(cs, ls, rs, shape)
             /\ SumsIn(DOMAIN shape \ (Unstructured(ls) \cup Unstructured(rs)), cs, ls, rs, shape)
  <2>1. BothOk(ls, rs)
    BY <1>1, FirstOf DEF SummedFirst
  <2>2. /\ First(ls, shape, ae) /\ First(rs, shape, be) /\ FirstAdded(cs, ls, rs, shape, first) /\ Unshifted(ls, rs)
        /\ cs # Failure
    BY <1>1, <2>1, NotFormed DEF Exactly, BothOk, SummedFirst, Addable
  <2>3. rs.source = FALSE
    BY <2>1, StateRightIs DEF Pair, BothOk
  <2> QED BY <2>1, <2>2, <2>3, FirstAddedRight
<1>2. ASSUME Ok(cu)
      PROVE  /\ BothOk(lu, ru) /\ Second(cu, shape, ce) /\ IsSum(cu, lu, ru, shape)
             /\ SumsIn(DOMAIN shape \ (Unstructured(lu) \cup Unstructured(ru)), cu, lu, ru, shape)
  <2>1. BothOk(lu, ru)
    BY <1>2, FirstOf DEF SummedSecond
  <2>2. /\ Second(lu, shape, ae) /\ Second(ru, shape, be) /\ cu = addState(lu, ru, second) /\ Undropped(lu, ru)
        /\ cu \notin {Failure, Assertion}
    BY <1>2, <2>1, NotFormed DEF Exactly, BothOk, SummedSecond, Addable
  <2>3. ru.source = FALSE
    BY <2>1, StateRightIs DEF Pair, BothOk
  <2> QED BY <2>1, <2>2, <2>3, SecondSum
<1>3. ASSUME Ok(cs), Ok(cu)
      PROVE  Same(cs, cu, shape)
  <2>1. Same(ls, lu, shape) /\ Same(rs, ru, shape)
    BY <1>1, <1>2, <1>3 DEF Exactly, BothOk
  <2> QED BY <1>1, <1>2, <1>3, <2>1, SameSum
<1> QED BY <1>1, <1>2, <1>3 DEF Exactly

-----------------------------------------------------------------------------
(* The sums of arith.addi, arith.subi and tt.addptr *)

NegatedOf(st) == IF Ok(st) THEN Negated(st) ELSE st

LEMMA AddIsFirst ==
  ASSUME NEW shape \in TensorShapes, NEW a, a.shape = shape, a.elem \in [Elements(shape) -> Int],
         NEW b, b.shape = shape, b.elem \in [Elements(shape) -> Int],
         NEW l, NEW r, StateRight(l, FALSE, shape), StateRight(r, FALSE, shape), NEW mode
  PROVE  /\ SummedFirst(VisitAdd(a, b, l, r, mode), l, r, shape, mode)
         /\ (Ok(l) => ~HasModulo(l)) /\ (Ok(r) => ~HasModulo(r)) => SummedSecond(VisitAdd(a, b, l, r, mode), l, r, mode)
<1>1. CASE ~BothOk(l, r)
  <2>1. VisitAdd(a, b, l, r, mode) = FirstNotOk(l, r)
    BY <1>1, Zenon DEF VisitAdd
  <2> QED BY <1>1, <2>1 DEF SummedFirst, SummedSecond
<1>2. CASE BothOk(l, r)
  <2>1. Formed(l, shape) /\ Formed(r, shape)
    BY <1>2, StateRightIs DEF BothOk
  <2>2. FirstAdded(VisitAdd(a, b, l, r, mode), l, r, shape, mode)
    BY <2>1, VisitAddIs
  <2>3. ~HasModulo(l) /\ ~HasModulo(r) => VisitAdd(a, b, l, r, mode) = addState(l, r, mode)
    BY <2>2 DEF FirstAdded
  <2> QED BY <1>2, <2>2, <2>3 DEF SummedFirst, SummedSecond, BothOk
<1> QED BY <1>1, <1>2

LEMMA PlainlyAdded ==
  ASSUME NEW shape \in TensorShapes, NEW l, NEW r, NEW mode, BothOk(l, r) => Formed(l, shape) /\ Formed(r, shape),
         NEW c, SummedSecond(c, l, r, mode)
  PROVE  SummedFirst(c, l, r, shape, mode)
<1>1. CASE ~BothOk(l, r)
  BY <1>1 DEF SummedFirst, SummedSecond
<1>2. CASE BothOk(l, r)
  <2>1. c = addState(l, r, mode) /\ ClearedPair(l, r, l, r, shape)
    BY <1>2, PairOfSame DEF SummedSecond
  <2>2. FirstAdded(c, l, r, shape, mode)
    BY <2>1 DEF FirstAdded
  <2> QED BY <1>2, <2>2 DEF SummedFirst
<1> QED BY <1>1, <1>2

LEMMA NegatedOfIs ==
  ASSUME NEW shape \in TensorShapes, NEW st, StateRight(st, FALSE, shape)
  PROVE  /\ StateRight(NegatedOf(st), FALSE, shape)
         /\ Ok(NegatedOf(st)) <=> Ok(st)
         /\ ~Ok(st) => NegatedOf(st) = st
         /\ Ok(st) => NegatedOf(st) = Negated(st) /\ Formed(st, shape) /\ Formed(Negated(st), shape)
<1>1. CASE Ok(st)
  <2>1. Formed(st, shape)
    BY <1>1, StateRightIs
  <2>2. Formed(Negated(st), shape) /\ Negated(st).source = FALSE
    BY <2>1, NegatedIs
  <2>3. Ok(Negated(st))
    BY <2>2, StateFacts
  <2> QED BY <1>1, <2>1, <2>2, <2>3 DEF NegatedOf, StateRight
<1>2. CASE ~Ok(st)
  BY <1>2 DEF NegatedOf
<1> QED BY <1>1, <1>2

LEMMA SubIsSecond ==
  ASSUME NEW shape \in TensorShapes, NEW l, NEW r, StateRight(r, FALSE, shape), NEW mode
  PROVE  SummedSecond(VisitSub(l, r, mode), l, NegatedOf(r), mode)
<1>1. BothOk(l, r) <=> BothOk(l, NegatedOf(r))
  BY NegatedOfIs DEF BothOk
<1>2. CASE ~BothOk(l, r)
  <2>1. FirstNotOk(l, NegatedOf(r)) = FirstNotOk(l, r)
    BY <1>2, NegatedOfIs DEF FirstNotOk, BothOk
  <2> QED BY <1>1, <1>2, <2>1 DEF SummedSecond, VisitSub
<1>3. CASE BothOk(l, r)
  <2>1. NegatedOf(r) = Negated(r)
    BY <1>3, NegatedOfIs DEF BothOk
  <2> QED BY <1>1, <1>3, <2>1 DEF SummedSecond, VisitSub
<1> QED BY <1>2, <1>3

LEMMA AddptrIsSecond ==
  ASSUME NEW shape \in TensorShapes, NEW l, NEW r, StateRight(l, TRUE, shape), NEW mode
  PROVE  SummedSecond(VisitAddptr(l, r, mode), l, r, mode)
<1>1. Ok(l) => l.source
  BY StateRightIs
<1> QED BY <1>1 DEF SummedSecond, VisitAddptr, BothOk

-----------------------------------------------------------------------------
LEMMA PairNegated ==
  ASSUME NEW shape \in TensorShapes, NEW s, NEW u, Pair(FALSE, shape, s, u)
  PROVE  Pair(FALSE, shape, NegatedOf(s), NegatedOf(u))
<1>1. StateRight(NegatedOf(s), FALSE, shape) /\ StateRight(NegatedOf(u), FALSE, shape)
  BY NegatedOfIs DEF Pair
<1>2. NegatedOf(s) # Assertion
  <2>1. ~Ok(Assertion)
    BY NotFormed
  <2> QED BY <2>1, NegatedOfIs DEF Pair
<1>3. Ok(NegatedOf(u)) => ~HasModulo(NegatedOf(u))
  BY NegatedOfIs, NegatedIs DEF Pair
<1>4. enableMakeGatherScatterTensorPtr \/ (Ok(NegatedOf(s)) => IsStructured(NegatedOf(s)))
  BY NegatedOfIs, NegatedIs DEF Pair, IsStructured
<1> QED BY <1>1, <1>2, <1>3, <1>4 DEF Pair

LEMMA SafeNegated ==
  ASSUME NEW shape \in TensorShapes, NEW u, StateRight(u, FALSE, shape), Safe(u)
  PROVE  Safe(NegatedOf(u))
<1>1. ~Ok(Assertion)
  BY NotFormed
<1>2. CASE Ok(u)
  <2>1. NegatedOf(u) = Negated(u) /\ Formed(u, shape) /\ Formed(Negated(u), shape)
    BY <1>2, NegatedOfIs
  <2>2. Ready(Negated(u)) /\ Ok(Negated(u))
    BY <1>2, <2>1, NegatedIs, StateFacts DEF Safe
  <2> QED BY <1>1, <2>1, <2>2 DEF Safe
<1>3. CASE ~Ok(u)
  BY <1>3, NegatedOfIs DEF Safe
<1> QED BY <1>2, <1>3

LEMMA SimpleNegated ==
  ASSUME NEW shape \in TensorShapes, NEW s, StateRight(s, FALSE, shape), Simple(s)
  PROVE  Simple(NegatedOf(s)) /\ (s.scalar \in Scalars => NegatedOf(s).scalar \in Scalars)
<1>1. /\ Formed(s, shape) /\ NegatedOf(s) = Negated(s) /\ Formed(Negated(s), shape)
  BY NegatedOfIs DEF Simple
<1>2. /\ Negated(s).scalar = IF s.scalar \in Scalars THEN Value(-s.scalar.val) ELSE Absent
      /\ Unstructured(Negated(s)) = Unstructured(s) /\ (HasModulo(Negated(s)) <=> HasModulo(s))
  BY <1>1, NegatedIs
<1>3. ASSUME s.scalar \in Scalars PROVE Negated(s).scalar \in Scalars
  <2>1. s.scalar.val \in Int /\ -s.scalar.val \in Int
    BY <1>3, ScalarFacts
  <2> QED BY <1>2, <1>3, <2>1, ScalarFacts
<1>4. Ok(Negated(s))
  BY <1>1, StateFacts
<1> QED BY <1>1, <1>2, <1>3, <1>4 DEF Simple, IsStructured

LEMMA ExactNegated ==
  ASSUME NEW shape \in TensorShapes, NEW s, NEW u, Pair(FALSE, shape, s, u), NEW be, NEW ne,
         Exactly(shape, be, s, u), Opposite(ne, be, shape), Ok(s) => ~HasModulo(s), Ok(u) => IsStructured(u)
  PROVE  Exactly(shape, ne, NegatedOf(s), NegatedOf(u))
<1>1. ASSUME Ok(NegatedOf(s))
      PROVE  Ok(s) /\ NegatedOf(s) = Negated(s) /\ Formed(s, shape) /\ ~HasModulo(s) /\ First(Negated(s), shape, ne)
  <2>1. Ok(s) /\ NegatedOf(s) = Negated(s) /\ Formed(s, shape)
    BY <1>1, NegatedOfIs DEF Pair
  <2>2. First(s, shape, be) /\ ~HasModulo(s)
    BY <2>1 DEF Exactly
  <2> QED BY <2>1, <2>2, FirstNegated
<1>2. ASSUME Ok(NegatedOf(u))
      PROVE  Ok(u) /\ NegatedOf(u) = Negated(u) /\ Formed(u, shape) /\ ~HasModulo(u) /\ Second(Negated(u), shape, ne)
  <2>1. Ok(u) /\ NegatedOf(u) = Negated(u) /\ Formed(u, shape)
    BY <1>2, NegatedOfIs DEF Pair
  <2>2. Second(u, shape, be) /\ IsStructured(u) /\ ~HasModulo(u)
    BY <2>1 DEF Exactly, Pair
  <2> QED BY <2>1, <2>2, SecondNegated
<1>3. ASSUME Ok(NegatedOf(s)), Ok(NegatedOf(u))
      PROVE  Same(NegatedOf(s), NegatedOf(u), shape)
  <2>1. Same(s, u, shape)
    BY <1>1, <1>2, <1>3 DEF Exactly
  <2> QED BY <1>1, <1>2, <1>3, <2>1, SameNegated
<1> QED BY <1>1, <1>2, <1>3 DEF Exactly

-----------------------------------------------------------------------------
LEMMA UnshiftedIs ==
  ASSUME NEW a, NEW b, BothOk(a.s, b.s), ~WrapShifted(a, b)
  PROVE  Unshifted(a.s, b.s)
<1> SUFFICES ASSUME NEW d \in DOMAIN a.s.dims
             PROVE  /\ DimHasModulo(a.s.dims[d]) /\ ~IsTensor(b.s.dims[d].offset) => ~Adds(b.s.dims[d])
                    /\ DimHasModulo(b.s.dims[d]) /\ ~IsTensor(a.s.dims[d].offset) => ~Adds(a.s.dims[d])
  BY Zenon DEF Unshifted
<1>1. DimHasModulo(a.s.dims[d]) /\ ~IsTensor(b.s.dims[d].offset) => ~Adds(b.s.dims[d])
  <2>1. \A swap \in BOOLEAN : ~(/\ DimHasModulo((IF swap THEN b ELSE a).s.dims[d])
                                /\ ~IsTensor((IF swap THEN a ELSE b).s.dims[d].offset)
                                /\ ~HasConstZero((IF swap THEN a ELSE b).s.dims[d].offset)
                                     \/ (IF swap THEN a ELSE b).s.dims[d].stride.val # 0)
    BY Zenon DEF WrapShifted, BothOk
  <2>2. ~(/\ DimHasModulo(a.s.dims[d]) /\ ~IsTensor(b.s.dims[d].offset)
          /\ ~HasConstZero(b.s.dims[d].offset) \/ b.s.dims[d].stride.val # 0)
    BY <2>1
  <2>3. ~(/\ DimHasModulo(b.s.dims[d]) /\ ~IsTensor(a.s.dims[d].offset)
          /\ ~HasConstZero(a.s.dims[d].offset) \/ a.s.dims[d].stride.val # 0)
    BY <2>1
  <2> QED BY <2>2 DEF Adds
<1>2. DimHasModulo(b.s.dims[d]) /\ ~IsTensor(a.s.dims[d].offset) => ~Adds(a.s.dims[d])
  <2>1. \A swap \in BOOLEAN : ~(/\ DimHasModulo((IF swap THEN b ELSE a).s.dims[d])
                                /\ ~IsTensor((IF swap THEN a ELSE b).s.dims[d].offset)
                                /\ ~HasConstZero((IF swap THEN a ELSE b).s.dims[d].offset)
                                     \/ (IF swap THEN a ELSE b).s.dims[d].stride.val # 0)
    BY Zenon DEF WrapShifted, BothOk
  <2>2. ~(/\ DimHasModulo(b.s.dims[d]) /\ ~IsTensor(a.s.dims[d].offset)
          /\ ~HasConstZero(a.s.dims[d].offset) \/ a.s.dims[d].stride.val # 0)
    BY <2>1
  <2> QED BY <2>2 DEF Adds
<1> QED BY <1>1, <1>2

LEMMA UndroppedIs ==
  ASSUME NEW a, NEW b, BothOk(a.u, b.u), ~RangeDropped(a, b)
  PROVE  Undropped(a.u, b.u)
<1> SUFFICES ASSUME NEW d \in Unstructured(a.u) \cup Unstructured(b.u)
             PROVE  /\ IsTensor(a.u.dims[d].offset) \/ HasConstZero(a.u.dims[d].stride)
                    /\ IsTensor(b.u.dims[d].offset) \/ HasConstZero(b.u.dims[d].stride)
  BY Zenon DEF Undropped
<1>1. \A v \in {1, 2} : ~(/\ ~IsTensor((IF v = 1 THEN a ELSE b).u.dims[d].offset)
                          /\ ~HasConstZero((IF v = 1 THEN a ELSE b).u.dims[d].stride))
  BY Zenon DEF RangeDropped, BothOk
<1> QED BY <1>1

LEMMA UnshiftedNegated ==
  ASSUME NEW shape \in TensorShapes, NEW l, NEW r, Formed(l, shape), Formed(r, shape), ~HasModulo(r), Unshifted(l, r)
  PROVE  Unshifted(l, Negated(r))
<1>1. /\ DOMAIN l.dims = DOMAIN shape /\ Formed(Negated(r), shape)
      /\ \A d \in DOMAIN shape : Negated(r).dims[d] = NegatedDim(r.dims[d]) /\ OfSize(r.dims[d], shape[d])
  BY StateFacts, NegatedIs DEF Formed
<1>2. ~HasModulo(Negated(r))
  BY NegatedIs
<1>3. \A d \in DOMAIN shape : ~DimHasModulo(Negated(r).dims[d])
  BY <1>1, <1>2, StateFacts
<1> SUFFICES ASSUME NEW d \in DOMAIN shape, DimHasModulo(l.dims[d]), ~IsTensor(Negated(r).dims[d].offset)
             PROVE  ~Adds(Negated(r).dims[d])
  BY <1>1, <1>3 DEF Unshifted
<1> DEFINE dim == r.dims[d]
           new == NegatedDim(dim)
<1>6. OfSize(dim, shape[d]) /\ Negated(r).dims[d] = new
  BY <1>1
<1>7. /\ OfSize(new, shape[d]) /\ (IsTensor(new.offset) <=> IsTensor(dim.offset))
      /\ ~IsTensor(dim.offset) => (HasConstZero(new.offset) <=> HasConstZero(dim.offset))
      /\ dim.stride.val = 0 => new.stride.val = 0
  BY <1>6, NegatedDimIs
<1> HIDE DEF new
<1>4. ~IsTensor(dim.offset)
  BY <1>6, <1>7
<1>5. ~Adds(dim)
  BY <1>1, <1>4 DEF Unshifted
<1> QED BY <1>4, <1>5, <1>6, <1>7 DEF Adds

LEMMA UndroppedNegated ==
  ASSUME NEW shape \in TensorShapes, NEW l, NEW r, Formed(l, shape), Formed(r, shape), Undropped(l, r)
  PROVE  Undropped(l, Negated(r))
<1>1. /\ Unstructured(Negated(r)) = Unstructured(r)
      /\ \A d \in DOMAIN shape : Negated(r).dims[d] = NegatedDim(r.dims[d]) /\ OfSize(r.dims[d], shape[d])
  <2>1. \A d \in DOMAIN shape : OfSize(r.dims[d], shape[d])
    BY DEF Formed
  <2> QED BY <2>1, NegatedIs
<1>2. Unstructured(l) \subseteq DOMAIN shape /\ Unstructured(r) \subseteq DOMAIN shape
  BY StateFacts
<1> SUFFICES ASSUME NEW d \in Unstructured(l) \cup Unstructured(r)
             PROVE  /\ IsTensor(l.dims[d].offset) \/ HasConstZero(l.dims[d].stride)
                    /\ IsTensor(Negated(r).dims[d].offset) \/ HasConstZero(Negated(r).dims[d].stride)
  BY <1>1 DEF Undropped
<1>3. /\ IsTensor(l.dims[d].offset) \/ HasConstZero(l.dims[d].stride)
      /\ IsTensor(r.dims[d].offset) \/ HasConstZero(r.dims[d].stride)
  BY DEF Undropped
<1> DEFINE dim == r.dims[d]
           new == NegatedDim(dim)
<1>4. OfSize(dim, shape[d]) /\ Negated(r).dims[d] = new
  BY <1>1, <1>2
<1>5. /\ OfSize(new, shape[d]) /\ (IsTensor(new.offset) <=> IsTensor(dim.offset))
      /\ HasConstZero(new.stride) <=> HasConstZero(dim.stride)
  BY <1>4, NegatedDimIs
<1> HIDE DEF new
<1> QED BY <1>3, <1>4, <1>5

-----------------------------------------------------------------------------
(* A product of two values, in both modes *)

MultipliedFirst(c, l, r, shape, mode) ==
  /\ ~BothOk(l, r) => c = FirstNotOk(l, r)
  /\ BothOk(l, r) => FirstMultiplied(c, l, r, shape, mode)

MultipliedSecond(c, l, r, mode) ==
  /\ ~BothOk(l, r) => c = FirstNotOk(l, r)
  /\ BothOk(l, r) => c = mulState(l, r, mode)

LEMMA MulIsFirst ==
  ASSUME NEW shape \in TensorShapes, NEW a, a.shape = shape, a.elem \in [Elements(shape) -> Int],
         NEW b, b.shape = shape, b.elem \in [Elements(shape) -> Int],
         NEW l, NEW r, StateRight(l, FALSE, shape), StateRight(r, FALSE, shape), NEW mode
  PROVE  /\ MultipliedFirst(VisitMul(a, b, l, r, mode), l, r, shape, mode)
         /\ (Ok(l) => ~HasModulo(l)) /\ (Ok(r) => ~HasModulo(r))
              => MultipliedSecond(VisitMul(a, b, l, r, mode), l, r, mode)
<1>1. CASE ~BothOk(l, r)
  <2>1. VisitMul(a, b, l, r, mode) = FirstNotOk(l, r)
    BY <1>1, Zenon DEF VisitMul
  <2> QED BY <1>1, <2>1 DEF MultipliedFirst, MultipliedSecond
<1>2. CASE BothOk(l, r)
  <2>1. Formed(l, shape) /\ Formed(r, shape)
    BY <1>2, StateRightIs DEF BothOk
  <2>2. FirstMultiplied(VisitMul(a, b, l, r, mode), l, r, shape, mode)
    BY <2>1, VisitMulIs
  <2>3. ~HasModulo(l) /\ ~HasModulo(r) => VisitMul(a, b, l, r, mode) = mulState(l, r, mode)
    BY <2>2 DEF FirstMultiplied
  <2> QED BY <1>2, <2>2, <2>3 DEF MultipliedFirst, MultipliedSecond, BothOk
<1> QED BY <1>1, <1>2

LEMMA FirstMultipliedIs ==
  ASSUME NEW shape \in TensorShapes, NEW l, NEW r, Formed(l, shape), Formed(r, shape), ~l.source, ~r.source,
         NEW mode, IsFirst(mode), NEW c, FirstMultiplied(c, l, r, shape, mode)
  PROVE  /\ c = Failure \/ \E x, y : ClearedPair(x, y, l, r, shape) /\ MulOf(c, x, y, l, r, mode)
         /\ c = Failure \/ IsMul(c, l, r, shape, mode)
         /\ (l.scalar \in Scalars \/ r.scalar \in Scalars) /\ ~HasModulo(l) /\ ~HasModulo(r)
              => IsMul(c, l, r, shape, mode)
<1>1. ASSUME NEW x, NEW y, ClearedPair(x, y, l, r, shape), c = mulState(x, y, mode)
      PROVE  c = Failure \/ MulOf(c, x, y, l, r, mode)
  BY <1>1, MulCases
<1>2. c = Failure \/ \E x, y : ClearedPair(x, y, l, r, shape) /\ MulOf(c, x, y, l, r, mode)
  BY <1>1 DEF FirstMultiplied
<1>3. c = Failure \/ IsMul(c, l, r, shape, mode)
  BY <1>2, MulFormed
<1>4. ASSUME l.scalar \in Scalars \/ r.scalar \in Scalars, ~HasModulo(l), ~HasModulo(r)
      PROVE  IsMul(c, l, r, shape, mode)
  <2>1. ClearedPair(l, r, l, r, shape) /\ c = mulState(l, r, mode)
    BY <1>4, PairOfSame DEF FirstMultiplied
  <2>2. MulOf(c, l, r, l, r, mode)
    BY <1>4, <2>1, MulCases
  <2> QED BY <2>1, <2>2, MulFormed
<1> QED BY <1>2, <1>3, <1>4

LEMMA SecondMultipliedIs ==
  ASSUME NEW shape \in TensorShapes, NEW l, NEW r, Formed(l, shape), Formed(r, shape), ~l.source, ~r.source,
         ~HasModulo(l), ~HasModulo(r), NEW mode, IsSecond(mode), NEW c, c = mulState(l, r, mode)
  PROVE  /\ c # Assertion
         /\ c = Failure \/ (MulOf(c, l, r, l, r, mode) /\ IsMul(c, l, r, shape, mode))
<1>1. ClearedPair(l, r, l, r, shape)
  BY PairOfSame
<1>2. c # Assertion /\ (c \in {Failure, Assertion} \/ MulOf(c, l, r, l, r, mode))
  BY <1>1, MulCases
<1> QED BY <1>1, <1>2, MulFormed

LEMMA PairMul ==
  ASSUME NEW shape \in TensorShapes, NEW ls, NEW lu, NEW rs, NEW ru, NEW cs, NEW cu,
         Pair(FALSE, shape, ls, lu), Pair(FALSE, shape, rs, ru), NEW first, IsFirst(first), NEW second, IsSecond(second),
         MultipliedFirst(cs, ls, rs, shape, first), MultipliedSecond(cu, lu, ru, second)
  PROVE  Pair(FALSE, shape, cs, cu)
<1>1. StateRight(cs, FALSE, shape) /\ cs # Assertion /\ (enableMakeGatherScatterTensorPtr \/ (Ok(cs) => IsStructured(cs)))
  <2>1. CASE ~BothOk(ls, rs)
    <3>1. ~Ok(cs) /\ cs \in {ls, rs}
      BY <2>1, FirstOf DEF MultipliedFirst
    <3>2. cs = Failure
      BY <3>1, StateRightIs DEF Pair
    <3> QED BY <3>2, NotFormed DEF StateRight
  <2>2. CASE BothOk(ls, rs)
    <3>1. /\ Formed(ls, shape) /\ Formed(rs, shape) /\ ~ls.source /\ ~rs.source /\ FirstMultiplied(cs, ls, rs, shape, first)
      BY <2>2, StateRightIs DEF Pair, BothOk, MultipliedFirst
    <3>2. cs = Failure \/ IsMul(cs, ls, rs, shape, first)
      BY <3>1, FirstMultipliedIs
    <3>3. CASE cs = Failure
      BY <3>3, NotFormed DEF StateRight
    <3>4. CASE IsMul(cs, ls, rs, shape, first)
      <4>1. Formed(cs, shape) /\ cs.source = FALSE /\ (IsStructured(ls) /\ IsStructured(rs) => IsStructured(cs))
        BY <3>4 DEF IsMul
      <4>2. cs # Assertion
        BY <4>1, StateFacts
      <4>3. enableMakeGatherScatterTensorPtr \/ IsStructured(cs)
        BY <2>2, <4>1 DEF Pair, BothOk
      <4> QED BY <4>1, <4>2, <4>3 DEF StateRight
    <3> QED BY <3>2, <3>3, <3>4
  <2> QED BY <2>1, <2>2
<1>2. StateRight(cu, FALSE, shape) /\ (Ok(cu) => ~HasModulo(cu))
  <2>1. CASE ~BothOk(lu, ru)
    <3>1. ~Ok(cu) /\ cu \in {lu, ru}
      BY <2>1, FirstOf DEF MultipliedSecond
    <3> QED BY <3>1, StateRightIs DEF Pair, StateRight
  <2>2. CASE BothOk(lu, ru)
    <3>1. /\ Formed(lu, shape) /\ Formed(ru, shape) /\ ~lu.source /\ ~ru.source /\ cu = mulState(lu, ru, second)
          /\ ~HasModulo(lu) /\ ~HasModulo(ru)
      BY <2>2, StateRightIs DEF Pair, BothOk, MultipliedSecond
    <3>2. cu = Failure \/ IsMul(cu, lu, ru, shape, second)
      BY <3>1, SecondMultipliedIs
    <3>3. CASE cu = Failure
      BY <3>3, NotFormed DEF StateRight
    <3>4. CASE IsMul(cu, lu, ru, shape, second)
      BY <3>1, <3>4 DEF IsMul, StateRight
    <3> QED BY <3>2, <3>3, <3>4
  <2> QED BY <2>1, <2>2
<1> QED BY <1>1, <1>2 DEF Pair

LEMMA SafeMul ==
  ASSUME NEW shape \in TensorShapes, NEW ls, NEW lu, NEW rs, NEW ru, NEW cu,
         Pair(FALSE, shape, ls, lu), Pair(FALSE, shape, rs, ru), NEW second, IsSecond(second),
         MultipliedSecond(cu, lu, ru, second), Safe(lu), Safe(ru)
  PROVE  Safe(cu)
<1>1. CASE ~BothOk(lu, ru)
  <2>1. cu \in {lu, ru}
    BY <1>1, FirstOf DEF MultipliedSecond
  <2> QED BY <2>1 DEF Safe
<1>2. CASE BothOk(lu, ru)
  <2>1. /\ Formed(lu, shape) /\ Formed(ru, shape) /\ ~lu.source /\ ~ru.source /\ cu = mulState(lu, ru, second)
        /\ ~HasModulo(lu) /\ ~HasModulo(ru) /\ Ready(lu) /\ Ready(ru)
    BY <1>2, StateRightIs DEF Pair, BothOk, MultipliedSecond, Safe
  <2>2. cu # Assertion /\ (cu = Failure \/ MulOf(cu, lu, ru, lu, ru, second))
    BY <2>1, SecondMultipliedIs
  <2>3. MulOf(cu, lu, ru, lu, ru, second) => Ready(cu)
    BY <2>1, ReadyMul
  <2> QED BY <2>2, <2>3, NotFormed DEF Safe
<1> QED BY <1>1, <1>2

LEMMA SimpleMul ==
  ASSUME NEW shape \in TensorShapes, NEW ls, NEW lu, NEW rs, NEW ru, NEW cs,
         Pair(FALSE, shape, ls, lu), Pair(FALSE, shape, rs, ru), NEW first, IsFirst(first),
         MultipliedFirst(cs, ls, rs, shape, first), Simple(ls), Simple(rs),
         ls.scalar \in Scalars \/ rs.scalar \in Scalars
  PROVE  Simple(cs) /\ (ls.scalar \in Scalars /\ rs.scalar \in Scalars => cs.scalar \in Scalars)
<1>1. /\ Formed(ls, shape) /\ Formed(rs, shape) /\ ~ls.source /\ ~rs.source /\ FirstMultiplied(cs, ls, rs, shape, first)
      /\ ~HasModulo(ls) /\ ~HasModulo(rs) /\ IsStructured(ls) /\ IsStructured(rs)
  BY StateRightIs DEF Pair, BothOk, MultipliedFirst, Simple
<1>2. IsMul(cs, ls, rs, shape, first)
  BY <1>1, FirstMultipliedIs
<1>3. Formed(cs, shape) /\ IsStructured(cs) /\ ~HasModulo(cs) /\ cs.scalar = ScalarOfProduct(ls, rs)
  BY <1>1, <1>2 DEF IsMul
<1>4. ASSUME ls.scalar \in Scalars, rs.scalar \in Scalars PROVE cs.scalar \in Scalars
  <2>1. ls.scalar.val \in Int /\ rs.scalar.val \in Int /\ cs.scalar = Value(ls.scalar.val * rs.scalar.val)
    BY <1>3, <1>4, ScalarFacts DEF ScalarOfProduct
  <2>2. ls.scalar.val * rs.scalar.val \in Int
    BY <2>1
  <2> QED BY <2>1, <2>2, ScalarFacts
<1>5. Ok(cs)
  BY <1>3, StateFacts
<1> QED BY <1>3, <1>4, <1>5 DEF Simple

(* What has a modulo is multiplied by a positive number only. *)
Multipliable(ls, rs) == BothOk(ls, rs) => Unwrapped(ls, rs)

LEMMA ExactMul ==
  ASSUME NEW shape \in TensorShapes, NEW ls, NEW lu, NEW rs, NEW ru, NEW cs, NEW cu,
         Pair(FALSE, shape, ls, lu), Pair(FALSE, shape, rs, ru), NEW first, IsFirst(first), NEW second, IsSecond(second),
         MultipliedFirst(cs, ls, rs, shape, first), MultipliedSecond(cu, lu, ru, second),
         NEW ae \in [Elements(shape) -> Int], NEW be \in [Elements(shape) -> Int], NEW ce, TimesUp(ce, ae, be, shape),
         Exactly(shape, ae, ls, lu), Exactly(shape, be, rs, ru), Multipliable(ls, rs)
  PROVE  Exactly(shape, ce, cs, cu)
<1>1. ASSUME Ok(cs)
      PROVE  /\ BothOk(ls, rs) /\ First(ls, shape, ae) /\ First(rs, shape, be) /\ Unwrapped(ls, rs)
             /\ \E x, y : ClearedPair(x, y, ls, rs, shape) /\ MulOf(cs, x, y, ls, rs, first)
  <2>1. BothOk(ls, rs)
    BY <1>1, FirstOf DEF MultipliedFirst
  <2>2. First(ls, shape, ae) /\ First(rs, shape, be) /\ Unwrapped(ls, rs)
    BY <2>1 DEF Exactly, BothOk, Multipliable
  <2>3. /\ FirstMultiplied(cs, ls, rs, shape, first) /\ cs # Failure
        /\ Formed(ls, shape) /\ Formed(rs, shape) /\ ~ls.source /\ ~rs.source
    BY <1>1, <2>1, NotFormed, StateRightIs DEF Pair, BothOk, MultipliedFirst
  <2>4. \E x, y : ClearedPair(x, y, ls, rs, shape) /\ MulOf(cs, x, y, ls, rs, first)
    BY <2>3, FirstMultipliedIs
  <2> QED BY <2>1, <2>2, <2>4
<1>2. ASSUME Ok(cu)
      PROVE  BothOk(lu, ru) /\ Second(lu, shape, ae) /\ Second(ru, shape, be) /\ MulOf(cu, lu, ru, lu, ru, second)
  <2>1. BothOk(lu, ru)
    BY <1>2, FirstOf DEF MultipliedSecond
  <2>2. Second(lu, shape, ae) /\ Second(ru, shape, be)
    BY <2>1 DEF Exactly, BothOk, Multipliable
  <2>3. /\ cu = mulState(lu, ru, second) /\ cu # Failure /\ ~HasModulo(lu) /\ ~HasModulo(ru)
        /\ Formed(lu, shape) /\ Formed(ru, shape) /\ ~lu.source /\ ~ru.source
    BY <1>2, <2>1, NotFormed, StateRightIs DEF Pair, BothOk, MultipliedSecond
  <2>4. MulOf(cu, lu, ru, lu, ru, second)
    BY <2>3, SecondMultipliedIs
  <2> QED BY <2>1, <2>2, <2>4
<1>3. Ok(cs) => First(cs, shape, ce)
  BY <1>1, FirstMul
<1>4. Ok(cu) => Second(cu, shape, ce)
  BY <1>2, SecondMul
<1>5. ASSUME Ok(cs), Ok(cu)
      PROVE  Same(cs, cu, shape)
  <2>1. Same(ls, lu, shape) /\ Same(rs, ru, shape)
    BY <1>1, <1>2, <1>5 DEF Exactly, BothOk
  <2>2. PICK x, y : ClearedPair(x, y, ls, rs, shape) /\ MulOf(cs, x, y, ls, rs, first)
    BY <1>1, <1>5
  <2>3. /\ Formed(ls, shape) /\ Formed(rs, shape) /\ Positive(ls) /\ Positive(rs) /\ Unwrapped(ls, rs)
    BY <1>1, <1>5 DEF First
  <2>4. /\ Formed(lu, shape) /\ Formed(ru, shape) /\ ~HasModulo(lu) /\ ~HasModulo(ru)
    BY <1>2, <1>5 DEF Second
  <2> QED BY <1>2, <1>5, <2>1, <2>2, <2>3, <2>4, SameMul
<1> QED BY <1>3, <1>4, <1>5 DEF Exactly

LEMMA UnwrappedIs ==
  ASSUME NEW a, NEW b, BothOk(a.s, b.s), ~WrapScaled(a, b)
  PROVE  Unwrapped(a.s, b.s)
<1>1. \A swap \in BOOLEAN : ~(/\ HasModulo((IF swap THEN b ELSE a).s) /\ Present((IF swap THEN a ELSE b).s.scalar)
                              /\ (IF swap THEN a ELSE b).s.scalar.val <= 0)
  BY Zenon DEF WrapScaled, BothOk
<1>2. ~(HasModulo(b.s) /\ Present(a.s.scalar) /\ a.s.scalar.val <= 0)
  BY <1>1
<1>3. ~(HasModulo(a.s) /\ Present(b.s.scalar) /\ b.s.scalar.val <= 0)
  BY <1>1
<1>4. ASSUME a.s.scalar \in Scalars PROVE Scalable(b.s, a.s.scalar)
  <2>1. Present(a.s.scalar) /\ a.s.scalar.val \in Int
    BY <1>4, ScalarFacts
  <2> QED BY <1>2, <2>1 DEF Scalable
<1>5. ASSUME b.s.scalar \in Scalars PROVE Scalable(a.s, b.s.scalar)
  <2>1. Present(b.s.scalar) /\ b.s.scalar.val \in Int
    BY <1>5, ScalarFacts
  <2> QED BY <1>3, <2>1 DEF Scalable
<1> QED BY <1>4, <1>5 DEF Unwrapped

-----------------------------------------------------------------------------
(* A remainder, in both modes *)

LEMMA UnsupportedRight ==
  ASSUME NEW shape \in TensorShapes, NEW elem \in [Elements(shape) -> Int],
         NEW u, u = rebuildAsUnsupportedOp(FALSE, shape, elem)
  PROVE  /\ StateRight(u, FALSE, shape) /\ (Ok(u) => ~HasModulo(u)) /\ Safe(u) /\ u # Assertion
         /\ Ok(u) => \E w : IsGather(u, shape, elem, w)
<1>1. CASE \E w : OneWide(shape, w)
  <2>1. PICK w : IsGather(u, shape, elem, w)
    BY <1>1, UnsupportedIs
  <2>2. Formed(u, shape) /\ u.source = FALSE /\ ~HasModulo(u) /\ Ready(u)
    BY <2>1 DEF IsGather
  <2>3. u # Assertion
    BY <2>2, StateFacts
  <2> QED BY <2>1, <2>2, <2>3 DEF StateRight, Safe
<1>2. CASE ~(\E w : OneWide(shape, w))
  <2>1. u = Failure
    BY <1>2, UnsupportedIs
  <2> QED BY <2>1, NotFormed DEF StateRight, Safe
<1> QED BY <1>1, <1>2

LEMMA SecondIsFirst ==
  ASSUME NEW shape \in TensorShapes, NEW u, NEW elem, Second(u, shape, elem)
  PROVE  First(u, shape, elem) /\ Same(u, u, shape)
<1>1. Positive(u)
  BY NoneHasModulo DEF Second
<1>2. Same(u, u, shape)
  BY DEF Same, TermsAgree, Second
<1> QED BY <1>1, <1>2 DEF First, Second

LEMMA PairRem ==
  ASSUME NEW shape \in TensorShapes, NEW ls, NEW lu, NEW rs, NEW ru, NEW elem \in [Elements(shape) -> Int],
         Pair(FALSE, shape, ls, lu), Pair(FALSE, shape, rs, ru)
  PROVE  Pair(FALSE, shape, VisitRem(ls, rs, shape, elem), rebuildAsUnsupportedOp(FALSE, shape, elem))
<1> DEFINE cs == VisitRem(ls, rs, shape, elem)
           cu == rebuildAsUnsupportedOp(FALSE, shape, elem)
<1>1. StateRight(cs, FALSE, shape) /\ cs # Assertion /\ (enableMakeGatherScatterTensorPtr \/ (Ok(cs) => IsStructured(cs)))
  <2>1. CASE ~BothOk(ls, rs)
    <3>1. cs = FirstNotOk(rs, ls)
      BY <2>1, Zenon DEF VisitRem
    <3> HIDE DEF cs
    <3>2. ~Ok(cs) /\ cs \in {ls, rs}
      BY <2>1, <3>1 DEF FirstNotOk, BothOk
    <3>3. cs = Failure
      BY <3>2, StateRightIs DEF Pair
    <3> QED BY <3>3, NotFormed DEF StateRight
  <2>2. CASE BothOk(ls, rs)
    <3>1. Formed(ls, shape) /\ Formed(rs, shape) /\ ls.source = FALSE
      BY <2>2, StateRightIs DEF Pair, BothOk
    <3>2. RemIs(cs, ls, rs.scalar, shape, elem)
      BY <3>1, VisitRemIs
    <3> HIDE DEF cs
    <3>3. CASE cs = Failure
      BY <3>3, NotFormed DEF StateRight
    <3>4. CASE cs # Failure
      <4>1. Formed(cs, shape) /\ cs.source = FALSE /\ (enableMakeGatherScatterTensorPtr \/ ~IsStructured(ls) \/ IsStructured(cs))
        BY <3>1, <3>2, <3>4, RemFormed
      <4>2. cs # Assertion
        BY <4>1, StateFacts
      <4>3. enableMakeGatherScatterTensorPtr \/ IsStructured(cs)
        BY <2>2, <4>1 DEF Pair, BothOk
      <4> QED BY <4>1, <4>2, <4>3 DEF StateRight
    <3> QED BY <3>3, <3>4
  <2> QED BY <2>1, <2>2
<1>2. StateRight(cu, FALSE, shape) /\ (Ok(cu) => ~HasModulo(cu))
  BY UnsupportedRight
<1> HIDE DEF cs, cu
<1>3. Pair(FALSE, shape, cs, cu)
  BY <1>1, <1>2 DEF Pair
<1> QED BY <1>3 DEF cs, cu

LEMMA ExactRem ==
  ASSUME NEW shape \in TensorShapes, NEW ls, NEW lu, NEW rs, NEW ru, NEW elem \in [Elements(shape) -> Int],
         NEW ae, NEW be, RemOf(elem, ae, be, shape),
         Exactly(shape, ae, ls, lu), Exactly(shape, be, rs, ru), ~Present(ls.scalar), Ok(ls) => NothingKept(ls, shape)
  PROVE  Exactly(shape, elem, VisitRem(ls, rs, shape, elem), rebuildAsUnsupportedOp(FALSE, shape, elem))
<1> DEFINE cs == VisitRem(ls, rs, shape, elem)
           cu == rebuildAsUnsupportedOp(FALSE, shape, elem)
<1>1. ASSUME Ok(cs)
      PROVE  /\ First(ls, shape, ae) /\ First(rs, shape, be) /\ NothingKept(ls, shape) /\ ls.scalar = Absent
             /\ RemIs(cs, ls, rs.scalar, shape, elem) /\ cs # Failure
  <2>1. BothOk(ls, rs)
    <3>1. ~BothOk(ls, rs) => cs = FirstNotOk(rs, ls)
      BY Zenon DEF VisitRem
    <3> HIDE DEF cs
    <3> QED BY <1>1, <3>1 DEF FirstNotOk, BothOk
  <2>2. First(ls, shape, ae) /\ First(rs, shape, be) /\ NothingKept(ls, shape)
    BY <2>1 DEF Exactly, BothOk
  <2>3. Formed(ls, shape) /\ Formed(rs, shape)
    BY <2>2 DEF First
  <2>4. ls.scalar = Absent
    BY <2>3, StateFacts
  <2>5. RemIs(cs, ls, rs.scalar, shape, elem)
    BY <2>3, VisitRemIs
  <2> HIDE DEF cs
  <2> QED BY <1>1, <2>2, <2>4, <2>5, NotFormed
<1>2. ASSUME Ok(cu)
      PROVE  \E w : IsGather(cu, shape, elem, w)
  BY <1>2, UnsupportedRight
<1> HIDE DEF cs, cu
<1>3. Ok(cs) => First(cs, shape, elem)
  <2> SUFFICES ASSUME Ok(cs) PROVE First(cs, shape, elem)
    OBVIOUS
  <2>1. Uniform(rs, shape, be)
    BY <1>1 DEF First
  <2> QED BY <1>1, <2>1, FirstRem
<1>4. Ok(cu) => Second(cu, shape, elem)
  BY <1>2, SecondGather
<1>5. ASSUME Ok(cs), Ok(cu)
      PROVE  Same(cs, cu, shape)
  <2>1. PICK w : IsGather(cu, shape, elem, w)
    BY <1>2, <1>5
  <2>2. Formed(ls, shape) /\ Positive(ls)
    BY <1>1, <1>5 DEF First
  <2> QED BY <1>1, <1>5, <2>1, <2>2, SameRem
<1>6. Exactly(shape, elem, cs, cu)
  BY <1>3, <1>4, <1>5 DEF Exactly
<1> QED BY <1>6 DEF cs, cu

LEMMA NothingKeptIs ==
  ASSUME NEW a, Ok(a.s), ~OffsetKept(a)
  PROVE  NothingKept(a.s, a.shape)
BY DEF OffsetKept, NothingKept

-----------------------------------------------------------------------------
(* A view of a value: tt.expand_dims and tt.broadcast *)

Viewed(c, st, s, t, at) ==
  /\ ~Ok(st) => c = st
  /\ Ok(st) => View(c, st, s, t, at)

LEMMA ViewedState ==
  ASSUME NEW s \in TensorShapes, NEW t \in TensorShapes, NEW at, NEW isPtr, NEW st, StateRight(st, isPtr, s),
         NEW c, Viewed(c, st, s, t, at)
  PROVE  /\ StateRight(c, isPtr, t) /\ (Ok(c) <=> Ok(st))
         /\ Ok(st) => View(c, st, s, t, at) /\ Formed(st, s)
         /\ ~Ok(st) => c = st
<1>1. CASE Ok(st)
  <2>1. Formed(st, s) /\ st.source = isPtr /\ View(c, st, s, t, at)
    BY <1>1, StateRightIs DEF Viewed
  <2>2. Formed(c, t) /\ c.source = isPtr
    BY <2>1 DEF View
  <2>3. Ok(c)
    BY <2>2, StateFacts
  <2> QED BY <1>1, <2>1, <2>2, <2>3 DEF StateRight
<1>2. CASE ~Ok(st)
  BY <1>2, StateRightIs DEF StateRight, Viewed
<1> QED BY <1>1, <1>2

LEMMA PairView ==
  ASSUME NEW s \in TensorShapes, NEW t \in TensorShapes, NEW at, NEW isPtr, NEW a, NEW b, Pair(isPtr, s, a, b),
         NEW c, NEW d, Viewed(c, a, s, t, at), Viewed(d, b, s, t, at)
  PROVE  /\ Pair(isPtr, t, c, d)
         /\ Safe(b) => Safe(d)
         /\ Simple(a) => Simple(c) /\ c.scalar = a.scalar
<1>1. /\ StateRight(c, isPtr, t) /\ (Ok(c) <=> Ok(a)) /\ (Ok(a) => View(c, a, s, t, at)) /\ (~Ok(a) => c = a)
  BY ViewedState DEF Pair
<1>2. /\ StateRight(d, isPtr, t) /\ (Ok(d) <=> Ok(b)) /\ (Ok(b) => View(d, b, s, t, at)) /\ (~Ok(b) => d = b)
  BY ViewedState DEF Pair
<1>3. ~Ok(Assertion)
  BY NotFormed
<1>4. Pair(isPtr, t, c, d)
  BY <1>1, <1>2, <1>3 DEF Pair, View
<1>5. Safe(b) => Safe(d)
  BY <1>2, <1>3 DEF Safe, View
<1>6. Simple(a) => Simple(c) /\ c.scalar = a.scalar
  BY <1>1 DEF Simple, View
<1> QED BY <1>4, <1>5, <1>6

LEMMA ExactView ==
  ASSUME NEW s \in TensorShapes, NEW t \in TensorShapes, NEW at, NEW isPtr, NEW a, NEW b, Pair(isPtr, s, a, b),
         NEW c, NEW d, Viewed(c, a, s, t, at), Viewed(d, b, s, t, at),
         NEW ae, NEW ce, Moves(ce, ae, s, t, at), Exactly(s, ae, a, b),
         Ok(a) /\ Ok(b) /\ Same(a, b, s) => Same(c, d, t)
  PROVE  Exactly(t, ce, c, d)
<1>1. /\ (Ok(c) <=> Ok(a)) /\ (Ok(a) => View(c, a, s, t, at))
  BY ViewedState DEF Pair
<1>2. /\ (Ok(d) <=> Ok(b)) /\ (Ok(b) => View(d, b, s, t, at))
  BY ViewedState DEF Pair
<1>3. Ok(c) => First(c, t, ce)
  BY <1>1, FirstView DEF Exactly
<1>4. Ok(d) => Second(d, t, ce)
  BY <1>2, SecondView DEF Exactly
<1>5. Ok(c) /\ Ok(d) => Same(c, d, t)
  BY <1>1, <1>2 DEF Exactly
<1> QED BY <1>3, <1>4, <1>5 DEF Exactly

-----------------------------------------------------------------------------
(* What holds of a value of the kernel: the inductive invariant *)

Valued(isPtr, shape, elem, s, u, emitted, degree, patterns) ==
  [isPtr |-> isPtr, shape |-> shape, elem |-> elem, s |-> s, u |-> u,
   emitted |-> emitted, degree |-> degree, patterns |-> patterns]

LEMMA ValuedIs ==
  \A p, shape, elem, s, u, e, g, P :
    LET v == Valued(p, shape, elem, s, u, e, g, P) IN
      /\ v.isPtr = p /\ v.shape = shape /\ v.elem = elem /\ v.s = s /\ v.u = u
      /\ v.emitted = e /\ v.degree = g /\ v.patterns = P
BY DEF Valued

Updated(v, u, patterns) == [v EXCEPT !.u = u, !.patterns = patterns]

Emitting(v, u, emitted, patterns) == [v EXCEPT !.u = u, !.emitted = emitted, !.patterns = patterns]

LEMMA ResultsAre ==
  ASSUME NEW p, NEW shape, NEW elem, NEW st, NEW g, NEW u, NEW e, NEW P
  PROVE  /\ Updated(Result(p, shape, elem, st, g), u, P) = Valued(p, shape, elem, st, u, Failure, g, P)
         /\ Emitting(Result(p, shape, elem, st, g), u, e, P) = Valued(p, shape, elem, st, u, e, g, P)
<1> DEFINE none == {}
           fail == Failure
           v0 == Valued(p, shape, elem, st, st, fail, g, none)
           v1 == Valued(p, shape, elem, st, u, fail, g, none)
           v2 == Valued(p, shape, elem, st, u, e, g, none)
<1>1. Result(p, shape, elem, st, g) = v0
  BY DEF Result, Valued
<1> HIDE DEF none, fail
<1>2. [v0 EXCEPT !.u = u] = v1
  BY DEF Valued
<1>3. [v1 EXCEPT !.patterns = P] = Valued(p, shape, elem, st, u, fail, g, P)
  BY DEF Valued
<1>4. [v1 EXCEPT !.emitted = e] = v2
  BY DEF Valued
<1>5. [v2 EXCEPT !.patterns = P] = Valued(p, shape, elem, st, u, e, g, P)
  BY DEF Valued
<1> HIDE DEF v0, v1, v2
<1>6. [v0 EXCEPT !.u = u, !.patterns = P] = Valued(p, shape, elem, st, u, fail, g, P)
  BY <1>2, <1>3
<1>7. [v0 EXCEPT !.u = u, !.emitted = e, !.patterns = P] = Valued(p, shape, elem, st, u, e, g, P)
  BY <1>2, <1>4, <1>5
<1> DEFINE w == Result(p, shape, elem, st, g)
<1> HIDE DEF w
<1>8. w = v0
  BY <1>1 DEF w
<1>9. Updated(w, u, P) = Valued(p, shape, elem, st, u, fail, g, P)
  BY <1>6, <1>8, Zenon DEF Updated
<1>10. Emitting(w, u, e, P) = Valued(p, shape, elem, st, u, e, g, P)
  BY <1>7, <1>8, Zenon DEF Emitting
<1> QED BY <1>9, <1>10 DEF fail, w

LEMMA ResultIs ==
  ASSUME NEW p, NEW shape, NEW elem, NEW st, NEW g, NEW u, NEW P
  PROVE  Updated(Result(p, shape, elem, st, g), u, P) = Valued(p, shape, elem, st, u, Failure, g, P)
BY ResultsAre

LEMMA EmittingIs ==
  ASSUME NEW p, NEW shape, NEW elem, NEW st, NEW g, NEW u, NEW e, NEW P
  PROVE  Emitting(Result(p, shape, elem, st, g), u, e, P) = Valued(p, shape, elem, st, u, e, g, P)
BY ResultsAre

Changed(v, t, ce, c, d, none) == [v EXCEPT !.shape = t, !.elem = ce, !.s = c, !.u = d, !.emitted = none]

LEMMA ChangedIs ==
  ASSUME NEW p, NEW shape, NEW elem, NEW s, NEW u, NEW e, NEW g, NEW P, NEW t, NEW ce, NEW c, NEW d, NEW none
  PROVE  Changed(Valued(p, shape, elem, s, u, e, g, P), t, ce, c, d, none) = Valued(p, t, ce, c, d, none, g, P)
<1> DEFINE v0 == Valued(p, shape, elem, s, u, e, g, P)
           v1 == Valued(p, t, elem, s, u, e, g, P)
           v2 == Valued(p, t, ce, s, u, e, g, P)
           v3 == Valued(p, t, ce, c, u, e, g, P)
           v4 == Valued(p, t, ce, c, d, e, g, P)
<1>1. [v0 EXCEPT !.shape = t] = v1
  BY DEF Valued
<1>2. [v1 EXCEPT !.elem = ce] = v2
  BY DEF Valued
<1>3. [v2 EXCEPT !.s = c] = v3
  BY DEF Valued
<1>4. [v3 EXCEPT !.u = d] = v4
  BY DEF Valued
<1>5. [v4 EXCEPT !.emitted = none] = Valued(p, t, ce, c, d, none, g, P)
  BY DEF Valued
<1> HIDE DEF v0, v1, v2, v3, v4
<1>6. [v0 EXCEPT !.shape = t, !.elem = ce, !.s = c, !.u = d, !.emitted = none] = Valued(p, t, ce, c, d, none, g, P)
  BY <1>1, <1>2, <1>3, <1>4, <1>5
<1> QED BY <1>6 DEF v0, Changed

Kinds(isPtr, shape, elem, degree, patterns) ==
  /\ isPtr \in BOOLEAN /\ shape \in TensorShapes /\ elem \in [Elements(shape) -> Int]
  /\ degree \in 0 .. 2 /\ patterns \subseteq KnownPatterns

AssertsRight(u, e, patterns) == "factors cancel" \notin patterns => Safe(u) /\ e # Assertion

DegreeRight(isPtr, s, degree) ==
  degree <= 1 => Simple(s) /\ (degree = 0 /\ ~isPtr => s.scalar \in Scalars)

Clean(patterns) == patterns \subseteq {"factors cancel"}

CleanRight(shape, elem, s, u, e, patterns) ==
  Clean(patterns) => Exactly(shape, elem, s, u) /\ (Ok(e) => Decodes(e, shape, elem))

Right(v) ==
  /\ v = Valued(v.isPtr, v.shape, v.elem, v.s, v.u, v.emitted, v.degree, v.patterns)
  /\ Kinds(v.isPtr, v.shape, v.elem, v.degree, v.patterns)
  /\ Pair(v.isPtr, v.shape, v.s, v.u) /\ StateRight(v.emitted, v.isPtr, v.shape)
  /\ AssertsRight(v.u, v.emitted, v.patterns)
  /\ DegreeRight(v.isPtr, v.s, v.degree)
  /\ CleanRight(v.shape, v.elem, v.s, v.u, v.emitted, v.patterns)

LEMMA RightNew ==
  ASSUME NEW p, NEW shape, NEW elem, NEW s, NEW u, NEW e, NEW g, NEW P, Kinds(p, shape, elem, g, P),
         Pair(p, shape, s, u), StateRight(e, p, shape), AssertsRight(u, e, P), DegreeRight(p, s, g),
         CleanRight(shape, elem, s, u, e, P)
  PROVE  Right(Valued(p, shape, elem, s, u, e, g, P))
BY ValuedIs DEF Right

-----------------------------------------------------------------------------
(* The operations without tensor operands *)

LEMMA PlainIs ==
  ASSUME NEW shape \in TensorShapes, NEW isPtr, NEW elem, NEW st, Plain(st, isPtr, shape, elem)
  PROVE  Pair(isPtr, shape, st, st) /\ Safe(st) /\ Simple(st) /\ Exactly(shape, elem, st, st)
<1>1. /\ Formed(st, shape) /\ st.source = isPtr /\ IsStructured(st) /\ ~HasModulo(st)
      /\ Second(st, shape, elem)
  BY DEF Plain, Second
<1>2. First(st, shape, elem) /\ Same(st, st, shape)
  BY <1>1, SecondIsFirst
<1>3. Ok(st) /\ st # Assertion
  BY <1>1, StateFacts
<1>4. Ready(st)
  BY <1>1 DEF Ready, IsStructured
<1> QED BY <1>1, <1>2, <1>3, <1>4 DEF Pair, StateRight, Safe, Simple, Exactly

LEMMA PlainRight ==
  ASSUME NEW shape \in TensorShapes, NEW isPtr \in BOOLEAN, NEW elem \in [Elements(shape) -> Int], NEW st,
         Plain(st, isPtr, shape, elem), NEW degree \in {0, 1}, degree = 0 /\ ~isPtr => st.scalar \in Scalars
  PROVE  Right(Result(isPtr, shape, elem, st, degree))
<1>1. Pair(isPtr, shape, st, st) /\ Safe(st) /\ Simple(st) /\ Exactly(shape, elem, st, st)
  BY PlainIs
<1>2. Kinds(isPtr, shape, elem, degree, {}) /\ StateRight(Failure, isPtr, shape)
  BY DEF Kinds, StateRight
<1>3. AssertsRight(st, Failure, {}) /\ DegreeRight(isPtr, st, degree) /\ CleanRight(shape, elem, st, st, Failure, {})
  BY <1>1, NotFormed DEF AssertsRight, DegreeRight, CleanRight
<1>4. Right(Valued(isPtr, shape, elem, st, st, Failure, degree, {}))
  BY <1>1, <1>2, <1>3, RightNew
<1>5. Result(isPtr, shape, elem, st, degree) = Valued(isPtr, shape, elem, st, st, Failure, degree, {})
  BY DEF Result, Valued
<1> QED BY <1>4, <1>5, Zenon

LEMMA UnsupportedOpRight ==
  ASSUME NEW shape \in TensorShapes, NEW elem \in [Elements(shape) -> Int]
  PROVE  Right(Result(FALSE, shape, elem,
                      IF enableMakeGatherScatterTensorPtr THEN rebuildAsUnsupportedOp(FALSE, shape, elem) ELSE Failure, 2))
<1> DEFINE u == rebuildAsUnsupportedOp(FALSE, shape, elem)
           st == IF enableMakeGatherScatterTensorPtr THEN u ELSE Failure
<1>1. /\ StateRight(u, FALSE, shape) /\ (Ok(u) => ~HasModulo(u)) /\ Safe(u) /\ u # Assertion
      /\ Ok(u) => \E w : IsGather(u, shape, elem, w)
  BY UnsupportedRight
<1> HIDE DEF u
<1>2. Ok(u) => Second(u, shape, elem)
  BY <1>1, SecondGather
<1>3. Exactly(shape, elem, u, u)
  BY <1>2, SecondIsFirst DEF Exactly
<1>4. Pair(FALSE, shape, st, st)
  BY <1>1, NotFormed DEF Pair, StateRight
<1>5. Safe(st) /\ Exactly(shape, elem, st, st)
  BY <1>1, <1>3, NotFormed DEF Safe, Exactly
<1> HIDE DEF st
<1>6. Kinds(FALSE, shape, elem, 2, {}) /\ StateRight(Failure, FALSE, shape)
  BY DEF Kinds, StateRight
<1>7. AssertsRight(st, Failure, {}) /\ DegreeRight(FALSE, st, 2) /\ CleanRight(shape, elem, st, st, Failure, {})
  BY <1>5, NotFormed DEF AssertsRight, DegreeRight, CleanRight
<1>8. Right(Valued(FALSE, shape, elem, st, st, Failure, 2, {}))
  BY <1>4, <1>6, <1>7, RightNew
<1>9. Result(FALSE, shape, elem, st, 2) = Valued(FALSE, shape, elem, st, st, Failure, 2, {})
  BY DEF Result, Valued
<1>10. Right(Result(FALSE, shape, elem, st, 2))
  BY <1>8, <1>9, Zenon
<1> QED BY <1>10 DEF st, u

-----------------------------------------------------------------------------
(* The operations with one operand *)

LEMMA ViewRight ==
  ASSUME NEW v, Right(v), NEW t \in TensorShapes, NEW at, NEW ce \in [Elements(t) -> Int], NEW c, NEW d,
         Viewed(c, v.s, v.shape, t, at), Viewed(d, v.u, v.shape, t, at), Moves(ce, v.elem, v.shape, t, at),
         Ok(v.s) /\ Ok(v.u) /\ Same(v.s, v.u, v.shape) => Same(c, d, t)
  PROVE  Right([v EXCEPT !.shape = t, !.elem = ce, !.s = c, !.u = d, !.emitted = Failure])
<1> DEFINE new == [v EXCEPT !.shape = t, !.elem = ce, !.s = c, !.u = d, !.emitted = Failure]
           p == v.isPtr
           g == v.degree
           P == v.patterns
           fail == Failure
<1>1. /\ v = Valued(p, v.shape, v.elem, v.s, v.u, v.emitted, g, P)
      /\ Kinds(p, v.shape, v.elem, g, P) /\ Pair(p, v.shape, v.s, v.u)
      /\ AssertsRight(v.u, v.emitted, P) /\ DegreeRight(p, v.s, g)
      /\ CleanRight(v.shape, v.elem, v.s, v.u, v.emitted, P)
  BY DEF Right
<1>2. v.shape \in TensorShapes
  BY <1>1 DEF Kinds
<1>3. /\ Pair(p, t, c, d)
      /\ Safe(v.u) => Safe(d)
      /\ Simple(v.s) => Simple(c) /\ c.scalar = v.s.scalar
  BY <1>1, <1>2, PairView
<1>4. Exactly(v.shape, v.elem, v.s, v.u) => Exactly(t, ce, c, d)
  BY <1>1, <1>2, ExactView
<1>5. Kinds(p, t, ce, g, P) /\ StateRight(fail, p, t)
  BY <1>1 DEF Kinds, StateRight
<1>6. AssertsRight(d, fail, P) /\ DegreeRight(p, c, g) /\ CleanRight(t, ce, c, d, fail, P)
  BY Zenon, <1>1, <1>3, <1>4, NotFormed DEF AssertsRight, DegreeRight, CleanRight
<1> HIDE DEF fail, p, g, P
<1>7. Right(Valued(p, t, ce, c, d, fail, g, P))
  BY <1>3, <1>5, <1>6, RightNew
<1>8. Changed(v, t, ce, c, d, fail) = Valued(p, t, ce, c, d, fail, g, P)
  BY <1>1, ChangedIs
<1>9. Right(Changed(v, t, ce, c, d, fail))
  BY <1>7, <1>8, Zenon
<1> QED BY <1>9 DEF fail, Changed

-----------------------------------------------------------------------------
(* The operations with two operands *)

RightFacts(v, isPtr, shape) ==
  /\ v.isPtr = isPtr /\ v.shape = shape /\ shape \in TensorShapes
  /\ v.elem \in [Elements(shape) -> Int] /\ v.degree \in 0 .. 2 /\ v.patterns \subseteq KnownPatterns
  /\ Pair(isPtr, shape, v.s, v.u)
  /\ "factors cancel" \notin v.patterns => Safe(v.u)
  /\ v.degree <= 1 => Simple(v.s) /\ (v.degree = 0 /\ ~isPtr => v.s.scalar \in Scalars)
  /\ Clean(v.patterns) => Exactly(shape, v.elem, v.s, v.u)

LEMMA RightIs ==
  ASSUME NEW v, Right(v)
  PROVE  RightFacts(v, v.isPtr, v.shape)
BY Zenon DEF Right, Kinds, AssertsRight, DegreeRight, CleanRight, RightFacts

LEMMA PairStates ==
  ASSUME NEW isPtr, NEW shape, NEW s, NEW u, Pair(isPtr, shape, s, u)
  PROVE  StateRight(s, isPtr, shape) /\ StateRight(u, isPtr, shape) /\ (Ok(u) => ~HasModulo(u))
BY DEF Pair

New(a, b, new) == a.patterns \cup b.patterns \cup new

LEMMA ArithRight ==
  ASSUME NEW a, NEW b, NEW shape, RightFacts(a, FALSE, shape), RightFacts(b, FALSE, shape),
         NEW elem \in [Elements(shape) -> Int], NEW s, NEW u, Pair(FALSE, shape, s, u),
         NEW degree \in 0 .. 2, DegreeRight(FALSE, s, degree), NEW new \in SUBSET KnownPatterns,
         "factors cancel" \notin New(a, b, new) => Safe(u),
         Clean(New(a, b, new)) => Exactly(shape, elem, s, u)
  PROVE  Right([Result(FALSE, a.shape, elem, s, degree) EXCEPT !.u = u, !.patterns = a.patterns \cup b.patterns \cup new])
<1> DEFINE P == New(a, b, new)
           fail == Failure
<1>1. Kinds(FALSE, shape, elem, degree, P) /\ StateRight(fail, FALSE, shape)
  BY Zenon DEF Kinds, StateRight, RightFacts, New
<1>2. AssertsRight(u, fail, P) /\ CleanRight(shape, elem, s, u, fail, P)
  BY Zenon, NotFormed DEF AssertsRight, CleanRight
<1> HIDE DEF P, fail
<1>3. Right(Valued(FALSE, shape, elem, s, u, fail, degree, P))
  BY Zenon, <1>1, <1>2, RightNew
<1>4. Updated(Result(FALSE, shape, elem, s, degree), u, P) = Valued(FALSE, shape, elem, s, u, fail, degree, P)
  <2>1. \A p, e, P0 : Updated(Result(p, shape, e, s, degree), u, P0) = Valued(p, shape, e, s, u, Failure, degree, P0)
    BY Zenon, ResultIs
  <2> QED BY <2>1 DEF fail
<1>5. Right(Updated(Result(FALSE, shape, elem, s, degree), u, P))
  BY <1>3, <1>4, Zenon
<1>6. a.shape = shape
  BY Zenon DEF RightFacts
<1> QED BY <1>5, <1>6, Zenon DEF P, New, Updated

LEMMA IfIs ==
  ASSUME NEW c, NEW p
  PROVE  If(c, p) \subseteq {p} /\ (c => p \in If(c, p))
BY DEF If

LEMMA CleanIs ==
  ASSUME NEW a, NEW b, NEW new
  PROVE  /\ Clean(New(a, b, new)) => Clean(a.patterns) /\ Clean(b.patterns) /\ Clean(new)
         /\ "factors cancel" \notin New(a, b, new)
              => "factors cancel" \notin a.patterns /\ "factors cancel" \notin b.patterns /\ "factors cancel" \notin new
BY Zenon DEF Clean, New

LEMMA SumPatternsAre ==
  ASSUME NEW a, NEW b, NEW sum
  PROVE  /\ SumPatterns(a, b, sum) \in SUBSET KnownPatterns
         /\ Clean(SumPatterns(a, b, sum)) => ~RangeDropped(a, b) /\ ~WrapShifted(a, b)
         /\ "factors cancel" \notin SumPatterns(a, b, sum) => ~FactorsCancel(sum)
<1> DEFINE A == RangeDropped(a, b)
           B == WrapShifted(a, b)
           C == FactorsCancel(sum)
<1>1. SumPatterns(a, b, sum) = If(A, "range dropped") \cup If(B, "wrap shifted") \cup If(C, "factors cancel")
  BY DEF SumPatterns
<1> DEFINE S == SumPatterns(a, b, sum)
<1> HIDE DEF A, B, C, S
<1>2. S \subseteq {"range dropped", "wrap shifted", "factors cancel"}
  BY Zenon, <1>1, IfIs DEF S
<1>3. /\ A => "range dropped" \in S
      /\ B => "wrap shifted" \in S
      /\ C => "factors cancel" \in S
  BY Zenon, <1>1, IfIs DEF S
<1>4. S \in SUBSET KnownPatterns /\ (Clean(S) => "range dropped" \notin S /\ "wrap shifted" \notin S)
  BY Zenon, <1>2 DEF KnownPatterns, Clean
<1> QED BY Zenon, <1>3, <1>4 DEF A, B, C, S

LEMMA MaxOfIs ==
  ASSUME NEW m \in 0 .. 2, NEW n \in 0 .. 2
  PROVE  /\ MaxOf(m, n) \in 0 .. 2
         /\ MaxOf(m, n) <= 1 => m <= 1 /\ n <= 1
         /\ MaxOf(m, n) = 0 => m = 0 /\ n = 0
BY DEF MaxOf

LEMMA ElementwiseAre ==
  ASSUME NEW a, NEW b, NEW shape, a.shape = shape,
         a.elem \in [Elements(shape) -> Int], b.elem \in [Elements(shape) -> Int]
  PROVE  /\ Elementwise(Plus, a, b) \in [Elements(shape) -> Int]
         /\ SumsUp(Elementwise(Plus, a, b), a.elem, b.elem, shape)
         /\ Elementwise(Minus, a, b) \in [Elements(shape) -> Int]
         /\ \E ne : Opposite(ne, b.elem, shape) /\ SumsUp(Elementwise(Minus, a, b), a.elem, ne, shape)
         /\ Elementwise(Times, a, b) \in [Elements(shape) -> Int]
         /\ TimesUp(Elementwise(Times, a, b), a.elem, b.elem, shape)
         /\ Elementwise(LessThan, a, b) \in [Elements(shape) -> Int]
<1>1. Elementwise(Plus, a, b) = [x \in Elements(shape) |-> a.elem[x] + b.elem[x]]
  BY DEF Elementwise, Plus
<1>2. Elementwise(Minus, a, b) = [x \in Elements(shape) |-> a.elem[x] - b.elem[x]]
  BY DEF Elementwise, Minus
<1>3. Elementwise(Times, a, b) = [x \in Elements(shape) |-> a.elem[x] * b.elem[x]]
  BY DEF Elementwise, Times
<1>4. Elementwise(LessThan, a, b) = [x \in Elements(shape) |-> IF a.elem[x] < b.elem[x] THEN 1 ELSE 0]
  BY DEF Elementwise, LessThan
<1>5. \A x \in Elements(shape) : a.elem[x] \in Int /\ b.elem[x] \in Int
  OBVIOUS
<1>6. Elementwise(Plus, a, b) \in [Elements(shape) -> Int] /\ SumsUp(Elementwise(Plus, a, b), a.elem, b.elem, shape)
  BY <1>1, <1>5 DEF SumsUp
<1>7. Elementwise(Minus, a, b) \in [Elements(shape) -> Int]
  BY <1>2, <1>5
<1>8. \E ne : Opposite(ne, b.elem, shape) /\ SumsUp(Elementwise(Minus, a, b), a.elem, ne, shape)
  <2> DEFINE ne == [x \in Elements(shape) |-> -b.elem[x]]
  <2>1. Opposite(ne, b.elem, shape)
    BY DEF Opposite
  <2>2. SumsUp(Elementwise(Minus, a, b), a.elem, ne, shape)
    BY <1>2, <1>5 DEF SumsUp
  <2> QED BY <2>1, <2>2
<1>9. Elementwise(Times, a, b) \in [Elements(shape) -> Int] /\ TimesUp(Elementwise(Times, a, b), a.elem, b.elem, shape)
  <2>1. \A x \in Elements(shape) : a.elem[x] * b.elem[x] \in Int
    BY <1>5
  <2> QED BY <1>3, <2>1 DEF TimesUp
<1>10. Elementwise(LessThan, a, b) \in [Elements(shape) -> Int]
  BY <1>4
<1> QED BY <1>6, <1>7, <1>8, <1>9, <1>10

LEMMA RemElements ==
  ASSUME NEW a, NEW b, NEW shape, a.shape = shape,
         a.elem \in [Elements(shape) -> Int], b.elem \in [Elements(shape) -> Int],
         \A x \in Elements(shape) : b.elem[x] > 0
  PROVE  /\ Elementwise(RemSI, a, b) \in [Elements(shape) -> Int]
         /\ RemOf(Elementwise(RemSI, a, b), a.elem, b.elem, shape)
<1>1. Elementwise(RemSI, a, b) = [x \in Elements(shape) |-> RemSI(a.elem[x], b.elem[x])]
  BY DEF Elementwise
<1>2. \A x \in Elements(shape) : RemSI(a.elem[x], b.elem[x]) \in Int
  <2> SUFFICES ASSUME NEW x \in Elements(shape) PROVE RemSI(a.elem[x], b.elem[x]) \in Int
    OBVIOUS
  <2>1. a.elem[x] \in Int /\ b.elem[x] \in Int /\ b.elem[x] > 0
    OBVIOUS
  <2> DEFINE m == a.elem[x]
             n == b.elem[x]
  <2> HIDE DEF m, n
  <2>2. m \in Int /\ n \in Int /\ n > 0
    BY <2>1 DEF m, n
  <2>3. m % n \in Int /\ (-m) % n \in Int
    BY <2>2
  <2>4. RemSI(m, n) \in Int
    BY <2>2, <2>3 DEF RemSI
  <2> QED BY <2>4 DEF m, n
<1> QED BY <1>1, <1>2 DEF RemOf

-----------------------------------------------------------------------------
(* arith.addi *)

LEMMA IntFacts ==
  ASSUME NEW a, NEW b, Right(a), Right(b), IntOperands(a, b)
  PROVE  RightFacts(a, FALSE, a.shape) /\ RightFacts(b, FALSE, a.shape)
<1>1. RightFacts(a, a.isPtr, a.shape) /\ RightFacts(b, b.isPtr, b.shape)
  BY RightIs
<1>2. a.isPtr \in BOOLEAN /\ b.isPtr \in BOOLEAN
  BY DEF Right, Kinds
<1>3. a.isPtr = FALSE /\ b.isPtr = FALSE /\ b.shape = a.shape
  BY <1>2 DEF IntOperands, Operands
<1> QED BY <1>1, <1>3

(* The hypotheses of ExactSum. *)
Sums(shape, isPtr, ls, lu, rs, ru, cs, cu, first, second, ae, be, ce) ==
  /\ shape \in TensorShapes /\ IsFirst(first) /\ IsSecond(second)
  /\ Pair(isPtr, shape, ls, lu) /\ Pair(FALSE, shape, rs, ru) /\ Pair(isPtr, shape, cs, cu)
  /\ SummedFirst(cs, ls, rs, shape, first) /\ SummedSecond(cu, lu, ru, second)
  /\ SumsUp(ce, ae, be, shape) /\ Exactly(shape, ae, ls, lu) /\ Exactly(shape, be, rs, ru)
  /\ Addable(ls, lu, rs, ru)

LEMMA SumExact ==
  ASSUME NEW shape, NEW isPtr, NEW ls, NEW lu, NEW rs, NEW ru, NEW cs, NEW cu, NEW first, NEW second,
         NEW ae, NEW be, NEW ce, Sums(shape, isPtr, ls, lu, rs, ru, cs, cu, first, second, ae, be, ce)
  PROVE  Exactly(shape, ce, cs, cu)
BY ExactSum DEF Sums

LEMMA AddRight ==
  ASSUME NEW a, NEW b, Right(a), Right(b), Add(a, b)
  PROVE  \E v : Right(v) /\ Combine(v)
<1> DEFINE shape == a.shape
           first == FALSE
           second == TRUE
           s == VisitAdd(a, b, a.s, b.s, first)
           u == VisitAdd(a, b, a.u, b.u, second)
           elem == Elementwise(Plus, a, b)
           degree == MaxOf(a.degree, b.degree)
           new == SumPatterns(a, b, u)
           w == [Result(FALSE, a.shape, elem, s, degree) EXCEPT !.u = u, !.patterns = a.patterns \cup b.patterns \cup new]
<1>1. IntOperands(a, b) /\ Combine(w)
  BY DEF Add, Arith
<1>2. RightFacts(a, FALSE, shape) /\ RightFacts(b, FALSE, shape)
  BY <1>1, IntFacts
<1>3. /\ a.shape = shape /\ b.shape = shape /\ shape \in TensorShapes
      /\ a.elem \in [Elements(shape) -> Int] /\ b.elem \in [Elements(shape) -> Int]
      /\ Pair(FALSE, shape, a.s, a.u) /\ Pair(FALSE, shape, b.s, b.u)
  BY Zenon, <1>2 DEF RightFacts
<1>4. IsFirst(first) /\ IsSecond(second)
  BY DEF IsFirst, IsSecond
<1> HIDE DEF first, second, shape
<1>5. SummedFirst(s, a.s, b.s, shape, first)
  BY <1>3, PairStates, AddIsFirst
<1>6. SummedSecond(u, a.u, b.u, second)
  <2>1. /\ StateRight(a.u, FALSE, shape) /\ StateRight(b.u, FALSE, shape)
        /\ Ok(a.u) => ~HasModulo(a.u)
        /\ Ok(b.u) => ~HasModulo(b.u)
    BY <1>3, PairStates
  <2> QED BY <1>3, <2>1, AddIsFirst
<1> HIDE DEF s, u
<1>7. Pair(FALSE, shape, s, u)
  BY <1>3, <1>4, <1>5, <1>6, PairSum
<1>8. elem \in [Elements(shape) -> Int] /\ SumsUp(elem, a.elem, b.elem, shape)
  BY <1>3, ElementwiseAre
<1>9. degree \in 0 .. 2 /\ (degree <= 1 => a.degree <= 1 /\ b.degree <= 1) /\ (degree = 0 => a.degree = 0 /\ b.degree = 0)
  BY Zenon, <1>2, MaxOfIs DEF RightFacts
<1> HIDE DEF elem, degree
<1>10. DegreeRight(FALSE, s, degree)
  <2> SUFFICES ASSUME degree <= 1 PROVE Simple(s) /\ (degree = 0 => s.scalar \in Scalars)
    BY DEF DegreeRight
  <2>1. Simple(a.s) /\ Simple(b.s) /\ (degree = 0 => a.s.scalar \in Scalars /\ b.s.scalar \in Scalars)
    BY Zenon, <1>2, <1>9 DEF RightFacts
  <2> QED BY <1>3, <1>4, <1>5, <2>1, SimpleSum
<1>11. /\ new \in SUBSET KnownPatterns /\ (Clean(new) => ~RangeDropped(a, b) /\ ~WrapShifted(a, b))
       /\ "factors cancel" \notin new => ~FactorsCancel(u)
  BY Zenon, SumPatternsAre
<1> HIDE DEF new
<1>12. "factors cancel" \notin New(a, b, new) => Safe(u)
  <2> SUFFICES ASSUME "factors cancel" \notin New(a, b, new) PROVE Safe(u)
    BY Zenon
  <2>1. Safe(a.u) /\ Safe(b.u) /\ ~FactorsCancel(u)
    BY Zenon, <1>2, <1>11, CleanIs DEF RightFacts
  <2> QED BY Zenon, <1>3, <1>4, <1>6, <2>1, SafeSum
<1>13. Clean(New(a, b, new)) => Exactly(shape, elem, s, u)
  <2> SUFFICES ASSUME Clean(New(a, b, new)) PROVE Exactly(shape, elem, s, u)
    OBVIOUS
  <2>1. Exactly(shape, a.elem, a.s, a.u) /\ Exactly(shape, b.elem, b.s, b.u) /\ ~RangeDropped(a, b) /\ ~WrapShifted(a, b)
    BY Zenon, <1>2, <1>11, CleanIs DEF RightFacts
  <2>2. Addable(a.s, a.u, b.s, b.u)
    BY <2>1, UnshiftedIs, UndroppedIs DEF Addable
  <2>3. shape \in TensorShapes /\ Pair(FALSE, shape, a.s, a.u) /\ Pair(FALSE, shape, b.s, b.u)
    BY <1>3
  <2>4. SumsUp(elem, a.elem, b.elem, shape)
    BY <1>8
  <2> HIDE DEF w
  <2>5. Sums(shape, FALSE, a.s, a.u, b.s, b.u, s, u, first, second, a.elem, b.elem, elem)
    BY <2>3, <1>4, <1>5, <1>6, <1>7, <2>4, <2>1, <2>2 DEF Sums
  <2> QED BY <2>5, SumExact
<1>14. Right(w)
  BY Zenon, <1>2, <1>7, <1>8, <1>9, <1>10, <1>11, <1>12, <1>13, ArithRight
<1> QED BY <1>1, <1>14

-----------------------------------------------------------------------------
(* arith.subi and arith.muli *)

(* The remaining patterns an operation adds to. *)
SubPatterns(a, b, sum) ==
  SumPatterns(a, b, sum) \cup If(SignLost(b), "sign lost")
    \cup If(Ok(b.s) /\ HasModulo(b.s), "wrap shifted")

LEMMA SubPatternsAre ==
  ASSUME NEW a, NEW b, NEW sum
  PROVE  /\ SubPatterns(a, b, sum) \in SUBSET KnownPatterns
         /\ Clean(SubPatterns(a, b, sum)) =>
              /\ ~RangeDropped(a, b) /\ ~WrapShifted(a, b) /\ ~SignLost(b)
              /\ Ok(b.s) => ~HasModulo(b.s)
         /\ "factors cancel" \notin SubPatterns(a, b, sum) => ~FactorsCancel(sum)
<1>1. /\ If(SignLost(b), "sign lost") \subseteq {"sign lost"}
      /\ SignLost(b) => "sign lost" \in If(SignLost(b), "sign lost")
  BY Zenon, IfIs
<1> DEFINE wraps == Ok(b.s) /\ HasModulo(b.s)
           wrapped == If(wraps, "wrap shifted")
           signs == If(SignLost(b), "sign lost")
           sums == SumPatterns(a, b, sum)
<1>2. wrapped \subseteq {"wrap shifted"} /\ (wraps => "wrap shifted" \in wrapped)
  BY Zenon, IfIs
<1>3. /\ sums \in SUBSET KnownPatterns
      /\ Clean(sums) => ~RangeDropped(a, b) /\ ~WrapShifted(a, b)
      /\ "factors cancel" \notin sums => ~FactorsCancel(sum)
  BY Zenon, SumPatternsAre
<1>4. SubPatterns(a, b, sum) = sums \cup signs \cup wrapped
  BY DEF SubPatterns
<1>5. signs \subseteq {"sign lost"} /\ (SignLost(b) => "sign lost" \in signs)
  BY Zenon, <1>1
<1> HIDE DEF wrapped, signs, sums
<1>6. Clean(sums \cup signs \cup wrapped) => Clean(sums) /\ ~SignLost(b) /\ ~wraps
  BY Zenon, <1>2, <1>5 DEF Clean
<1>7. sums \cup signs \cup wrapped \in SUBSET KnownPatterns
  BY Zenon, <1>2, <1>3, <1>5 DEF KnownPatterns
<1> QED BY Zenon, <1>3, <1>4, <1>6, <1>7

LEMMA SubRight ==
  ASSUME NEW a, NEW b, Right(a), Right(b), Sub(a, b)
  PROVE  \E v : Right(v) /\ Combine(v)
<1> DEFINE shape == a.shape
           first == FALSE
           second == TRUE
           s == VisitSub(a.s, b.s, first)
           u == VisitSub(a.u, b.u, second)
           elem == Elementwise(Minus, a, b)
           degree == MaxOf(a.degree, b.degree)
           new == SubPatterns(a, b, u)
           rs == NegatedOf(b.s)
           ru == NegatedOf(b.u)
           w == [Result(FALSE, a.shape, elem, s, degree) EXCEPT !.u = u, !.patterns = a.patterns \cup b.patterns \cup new]
<1>1. IntOperands(a, b) /\ Combine(w)
  BY DEF Sub, Arith, SubPatterns
<1>2. RightFacts(a, FALSE, shape) /\ RightFacts(b, FALSE, shape)
  BY <1>1, IntFacts
<1>3. /\ a.shape = shape /\ b.shape = shape /\ shape \in TensorShapes
      /\ a.elem \in [Elements(shape) -> Int] /\ b.elem \in [Elements(shape) -> Int]
      /\ Pair(FALSE, shape, a.s, a.u) /\ Pair(FALSE, shape, b.s, b.u)
  BY Zenon, <1>2 DEF RightFacts
<1>4. IsFirst(first) /\ IsSecond(second)
  BY DEF IsFirst, IsSecond
<1> HIDE DEF first, second, shape, w
<1>5. /\ StateRight(a.s, FALSE, shape) /\ StateRight(b.s, FALSE, shape)
      /\ StateRight(a.u, FALSE, shape) /\ StateRight(b.u, FALSE, shape)
  BY <1>3, PairStates
<1>6. Pair(FALSE, shape, rs, ru)
  BY <1>3, PairNegated
<1>7. SummedSecond(s, a.s, rs, first)
  BY <1>3, <1>5, SubIsSecond
<1>8. SummedSecond(u, a.u, ru, second)
  BY <1>3, <1>5, SubIsSecond
<1>9. SummedFirst(s, a.s, rs, shape, first)
  <2>1. BothOk(a.s, rs) => Formed(a.s, shape) /\ Formed(rs, shape)
    BY <1>3, <1>5, NegatedOfIs, StateRightIs DEF BothOk
  <2> HIDE DEF s, rs
  <2> QED BY <1>3, <1>7, <2>1, PlainlyAdded
<1> HIDE DEF s, u, rs, ru
<1>10. Pair(FALSE, shape, s, u)
  BY <1>3, <1>4, <1>6, <1>8, <1>9, PairSum
<1>11. elem \in [Elements(shape) -> Int] /\ \E ne : Opposite(ne, b.elem, shape) /\ SumsUp(elem, a.elem, ne, shape)
  BY <1>3, ElementwiseAre
<1>12. degree \in 0 .. 2 /\ (degree <= 1 => a.degree <= 1 /\ b.degree <= 1) /\ (degree = 0 => a.degree = 0 /\ b.degree = 0)
  BY Zenon, <1>2, MaxOfIs DEF RightFacts
<1> HIDE DEF elem, degree
<1>13. DegreeRight(FALSE, s, degree)
  <2> SUFFICES ASSUME degree <= 1 PROVE Simple(s) /\ (degree = 0 => s.scalar \in Scalars)
    BY DEF DegreeRight
  <2>1. Simple(a.s) /\ Simple(b.s) /\ (degree = 0 => a.s.scalar \in Scalars /\ b.s.scalar \in Scalars)
    BY Zenon, <1>2, <1>12 DEF RightFacts
  <2>2. Simple(rs) /\ (b.s.scalar \in Scalars => rs.scalar \in Scalars)
    BY <1>3, <1>5, <2>1, SimpleNegated DEF rs
  <2> QED BY <1>3, <1>4, <1>6, <1>9, <2>1, <2>2, SimpleSum
<1>14. /\ new \in SUBSET KnownPatterns
       /\ Clean(new) => ~RangeDropped(a, b) /\ ~WrapShifted(a, b) /\ ~SignLost(b) /\ (Ok(b.s) => ~HasModulo(b.s))
       /\ "factors cancel" \notin new => ~FactorsCancel(u)
  BY Zenon, SubPatternsAre
<1> HIDE DEF new
<1>15. "factors cancel" \notin New(a, b, new) => Safe(u)
  <2> SUFFICES ASSUME "factors cancel" \notin New(a, b, new) PROVE Safe(u)
    BY Zenon
  <2>1. Safe(a.u) /\ Safe(b.u) /\ ~FactorsCancel(u)
    BY Zenon, <1>2, <1>14, CleanIs DEF RightFacts
  <2>2. Safe(ru)
    BY Zenon, <1>3, <1>5, <2>1, SafeNegated DEF ru
  <2> QED BY Zenon, <1>3, <1>4, <1>6, <1>8, <2>1, <2>2, SafeSum
<1>16. Clean(New(a, b, new)) => Exactly(shape, elem, s, u)
  <2> SUFFICES ASSUME Clean(New(a, b, new)) PROVE Exactly(shape, elem, s, u)
    OBVIOUS
  <2>1. Exactly(shape, a.elem, a.s, a.u) /\ Exactly(shape, b.elem, b.s, b.u) /\ Clean(new)
    BY Zenon, <1>2, CleanIs DEF RightFacts
  <2>2. /\ ~RangeDropped(a, b) /\ ~WrapShifted(a, b)
        /\ Ok(b.s) => ~HasModulo(b.s)
        /\ Ok(b.u) => IsStructured(b.u)
    BY Zenon, <1>14, <2>1 DEF SignLost
  <2>3. BothOk(a.s, rs) => Unshifted(a.s, rs)
    <3> SUFFICES ASSUME BothOk(a.s, rs) PROVE Unshifted(a.s, rs)
      OBVIOUS
    <3>1. /\ BothOk(a.s, b.s) /\ rs = Negated(b.s) /\ Formed(a.s, shape) /\ Formed(b.s, shape)
      BY <1>3, <1>5, NegatedOfIs, StateRightIs DEF BothOk, rs
    <3>2. Unshifted(a.s, b.s) /\ ~HasModulo(b.s)
      BY <2>2, <3>1, UnshiftedIs DEF BothOk
    <3> QED BY <1>3, <3>1, <3>2, UnshiftedNegated
  <2>4. BothOk(a.u, ru) => Undropped(a.u, ru)
    <3> SUFFICES ASSUME BothOk(a.u, ru) PROVE Undropped(a.u, ru)
      OBVIOUS
    <3>1. /\ BothOk(a.u, b.u) /\ ru = Negated(b.u) /\ Formed(a.u, shape) /\ Formed(b.u, shape)
      BY <1>3, <1>5, NegatedOfIs, StateRightIs DEF BothOk, ru
    <3>2. Undropped(a.u, b.u)
      BY <2>2, <3>1, UndroppedIs
    <3> QED BY <1>3, <3>1, <3>2, UndroppedNegated
  <2>5. PICK ne : Opposite(ne, b.elem, shape) /\ SumsUp(elem, a.elem, ne, shape)
    BY <1>11
  <2>6. Exactly(shape, ne, rs, ru)
    BY <1>3, <2>1, <2>2, <2>5, ExactNegated DEF rs, ru
  <2>7. Addable(a.s, a.u, rs, ru)
    BY <2>3, <2>4 DEF Addable
  <2>8. Sums(shape, FALSE, a.s, a.u, rs, ru, s, u, first, second, a.elem, ne, elem)
    BY <1>3, <1>4, <1>6, <1>8, <1>9, <1>10, <2>1, <2>5, <2>6, <2>7 DEF Sums
  <2> QED BY <2>8, SumExact
<1>17. Right(w)
  BY Zenon, <1>2, <1>10, <1>11, <1>12, <1>13, <1>14, <1>15, <1>16, ArithRight DEF w
<1> QED BY <1>1, <1>17

-----------------------------------------------------------------------------
(* The hypotheses of ExactMul. *)
Products(shape, ls, lu, rs, ru, cs, cu, first, second, ae, be, ce) ==
  /\ shape \in TensorShapes /\ IsFirst(first) /\ IsSecond(second)
  /\ Pair(FALSE, shape, ls, lu) /\ Pair(FALSE, shape, rs, ru)
  /\ MultipliedFirst(cs, ls, rs, shape, first) /\ MultipliedSecond(cu, lu, ru, second)
  /\ ae \in [Elements(shape) -> Int] /\ be \in [Elements(shape) -> Int]
  /\ TimesUp(ce, ae, be, shape) /\ Exactly(shape, ae, ls, lu) /\ Exactly(shape, be, rs, ru)
  /\ Multipliable(ls, rs)

LEMMA ProductExact ==
  ASSUME NEW shape, NEW ls, NEW lu, NEW rs, NEW ru, NEW cs, NEW cu, NEW first, NEW second,
         NEW ae, NEW be, NEW ce, Products(shape, ls, lu, rs, ru, cs, cu, first, second, ae, be, ce)
  PROVE  Exactly(shape, ce, cs, cu)
BY ExactMul DEF Products

LEMMA MulRight ==
  ASSUME NEW a, NEW b, Right(a), Right(b), Mul(a, b)
  PROVE  \E v : Right(v) /\ Combine(v)
<1> DEFINE shape == a.shape
           first == FALSE
           second == TRUE
           s == VisitMul(a, b, a.s, b.s, first)
           u == VisitMul(a, b, a.u, b.u, second)
           elem == Elementwise(Times, a, b)
           degree == IF a.degree = 0 \/ b.degree = 0 THEN MaxOf(a.degree, b.degree) ELSE 2
           new == If(WrapScaled(a, b), "wrap scaled")
           w == [Result(FALSE, a.shape, elem, s, degree) EXCEPT !.u = u, !.patterns = a.patterns \cup b.patterns \cup new]
<1>1. IntOperands(a, b) /\ Combine(w)
  BY DEF Mul, Arith
<1>2. RightFacts(a, FALSE, shape) /\ RightFacts(b, FALSE, shape)
  BY <1>1, IntFacts
<1>3. /\ a.shape = shape /\ b.shape = shape /\ shape \in TensorShapes
      /\ a.elem \in [Elements(shape) -> Int] /\ b.elem \in [Elements(shape) -> Int]
      /\ Pair(FALSE, shape, a.s, a.u) /\ Pair(FALSE, shape, b.s, b.u)
  BY Zenon, <1>2 DEF RightFacts
<1>4. IsFirst(first) /\ IsSecond(second)
  BY DEF IsFirst, IsSecond
<1> HIDE DEF first, second, shape, w
<1>5. MultipliedFirst(s, a.s, b.s, shape, first)
  BY <1>3, PairStates, MulIsFirst
<1>6. MultipliedSecond(u, a.u, b.u, second)
  <2>1. /\ StateRight(a.u, FALSE, shape) /\ StateRight(b.u, FALSE, shape)
        /\ Ok(a.u) => ~HasModulo(a.u)
        /\ Ok(b.u) => ~HasModulo(b.u)
    BY <1>3, PairStates
  <2> QED BY <1>3, <2>1, MulIsFirst
<1> HIDE DEF s, u
<1>7. Pair(FALSE, shape, s, u)
  BY <1>3, <1>4, <1>5, <1>6, PairMul
<1>8. elem \in [Elements(shape) -> Int] /\ TimesUp(elem, a.elem, b.elem, shape)
  BY <1>3, ElementwiseAre
<1>9. /\ degree \in 0 .. 2
      /\ degree <= 1 => a.degree <= 1 /\ b.degree <= 1 /\ (a.degree = 0 \/ b.degree = 0)
      /\ degree = 0 => a.degree = 0 /\ b.degree = 0
  <2>1. a.degree \in 0 .. 2 /\ b.degree \in 0 .. 2
    BY Zenon, <1>2 DEF RightFacts
  <2>2. CASE a.degree = 0 \/ b.degree = 0
    <3>1. degree = MaxOf(a.degree, b.degree)
      BY <2>2
    <3> HIDE DEF degree
    <3> QED BY <2>1, <2>2, <3>1, MaxOfIs
  <2>3. CASE ~(a.degree = 0 \/ b.degree = 0)
    <3>1. degree = 2
      BY <2>3
    <3> HIDE DEF degree
    <3> QED BY <3>1
  <2> QED BY <2>2, <2>3
<1> HIDE DEF elem, degree
<1>10. DegreeRight(FALSE, s, degree)
  <2> SUFFICES ASSUME degree <= 1 PROVE Simple(s) /\ (degree = 0 => s.scalar \in Scalars)
    BY DEF DegreeRight
  <2>1. /\ Simple(a.s) /\ Simple(b.s) /\ (degree = 0 => a.s.scalar \in Scalars /\ b.s.scalar \in Scalars)
        /\ a.s.scalar \in Scalars \/ b.s.scalar \in Scalars
    BY Zenon, <1>2, <1>9 DEF RightFacts
  <2> QED BY <1>3, <1>4, <1>5, <2>1, SimpleMul
<1>11. new \subseteq {"wrap scaled"} /\ (WrapScaled(a, b) => "wrap scaled" \in new)
  BY Zenon, IfIs
<1> HIDE DEF new
<1>12. new \in SUBSET KnownPatterns /\ (Clean(new) => ~WrapScaled(a, b))
  BY Zenon, <1>11 DEF KnownPatterns, Clean
<1>13. "factors cancel" \notin New(a, b, new) => Safe(u)
  <2> SUFFICES ASSUME "factors cancel" \notin New(a, b, new) PROVE Safe(u)
    BY Zenon
  <2>1. Safe(a.u) /\ Safe(b.u)
    BY Zenon, <1>2, CleanIs DEF RightFacts
  <2> QED BY Zenon, <1>3, <1>4, <1>6, <2>1, SafeMul
<1>14. Clean(New(a, b, new)) => Exactly(shape, elem, s, u)
  <2> SUFFICES ASSUME Clean(New(a, b, new)) PROVE Exactly(shape, elem, s, u)
    OBVIOUS
  <2>1. Exactly(shape, a.elem, a.s, a.u) /\ Exactly(shape, b.elem, b.s, b.u) /\ ~WrapScaled(a, b)
    BY Zenon, <1>2, <1>12, CleanIs DEF RightFacts
  <2>2. Multipliable(a.s, b.s)
    BY <2>1, UnwrappedIs DEF Multipliable
  <2>3. Products(shape, a.s, a.u, b.s, b.u, s, u, first, second, a.elem, b.elem, elem)
    BY <1>3, <1>4, <1>5, <1>6, <1>8, <2>1, <2>2 DEF Products
  <2> QED BY <2>3, ProductExact
<1>15. Right(w)
  BY Zenon, <1>2, <1>7, <1>8, <1>9, <1>10, <1>12, <1>13, <1>14, ArithRight DEF w
<1> QED BY <1>1, <1>15

-----------------------------------------------------------------------------
(* arith.remsi, arith.cmpi and rewriteAddptrOp *)

LEMMA RemRight ==
  ASSUME NEW a, NEW b, Right(a), Right(b), Rem(a, b)
  PROVE  \E v : Right(v) /\ Combine(v)
<1> DEFINE shape == a.shape
           elem == Elementwise(RemSI, a, b)
           s == VisitRem(a.s, b.s, a.shape, elem)
           u == rebuildAsUnsupportedOp(FALSE, a.shape, elem)
           new == If(ScalarStale(a), "scalar stale") \cup If(OffsetKept(a), "offset kept")
           w == [Result(FALSE, a.shape, elem, s, 2) EXCEPT !.u = u, !.patterns = a.patterns \cup b.patterns \cup new]
<1>1. IntOperands(a, b) /\ Combine(w) /\ \A x \in Elements(b.shape) : b.elem[x] > 0
  BY DEF Rem, Arith
<1>2. RightFacts(a, FALSE, shape) /\ RightFacts(b, FALSE, shape)
  BY <1>1, IntFacts
<1>3. /\ a.shape = shape /\ b.shape = shape /\ shape \in TensorShapes
      /\ a.elem \in [Elements(shape) -> Int] /\ b.elem \in [Elements(shape) -> Int]
      /\ Pair(FALSE, shape, a.s, a.u) /\ Pair(FALSE, shape, b.s, b.u)
  BY Zenon, <1>2 DEF RightFacts
<1>4. s = VisitRem(a.s, b.s, shape, elem) /\ u = rebuildAsUnsupportedOp(FALSE, shape, elem)
  OBVIOUS
<1>5. elem \in [Elements(shape) -> Int] /\ RemOf(elem, a.elem, b.elem, shape)
  <2>1. \A x \in Elements(shape) : b.elem[x] > 0
    BY <1>1, <1>3
  <2> HIDE DEF shape
  <2> QED BY <1>3, <2>1, RemElements
<1> HIDE DEF shape, w, elem, s, u
<1>6. Pair(FALSE, shape, s, u)
  BY <1>3, <1>4, <1>5, PairRem
<1>7. Safe(u)
  BY <1>3, <1>4, <1>5, UnsupportedRight
<1>8. DegreeRight(FALSE, s, 2)
  BY DEF DegreeRight
<1>9. new \in SUBSET KnownPatterns /\ (Clean(new) => ~ScalarStale(a) /\ ~OffsetKept(a))
  <2> DEFINE P == If(ScalarStale(a), "scalar stale")
             Q == If(OffsetKept(a), "offset kept")
  <2>1. P \subseteq {"scalar stale"} /\ (ScalarStale(a) => "scalar stale" \in P)
    BY Zenon, IfIs
  <2>2. Q \subseteq {"offset kept"} /\ (OffsetKept(a) => "offset kept" \in Q)
    BY Zenon, IfIs
  <2>3. new = P \cup Q
    OBVIOUS
  <2> HIDE DEF P, Q, new
  <2> QED BY Zenon, <2>1, <2>2, <2>3 DEF Clean, KnownPatterns
<1> HIDE DEF new
<1>10. Clean(New(a, b, new)) => Exactly(shape, elem, s, u)
  <2> SUFFICES ASSUME Clean(New(a, b, new)) PROVE Exactly(shape, elem, s, u)
    OBVIOUS
  <2>1. Exactly(shape, a.elem, a.s, a.u) /\ Exactly(shape, b.elem, b.s, b.u) /\ ~ScalarStale(a) /\ ~OffsetKept(a)
    BY Zenon, <1>2, <1>9, CleanIs DEF RightFacts
  <2>2. ~Present(a.s.scalar) /\ (Ok(a.s) => NothingKept(a.s, shape))
    BY <1>3, <2>1, NothingKeptIs DEF ScalarStale
  <2> QED BY <1>3, <1>4, <1>5, <2>1, <2>2, ExactRem
<1>11. 2 \in 0 .. 2
  OBVIOUS
<1>12. Right(w)
  BY Zenon, <1>2, <1>5, <1>6, <1>7, <1>8, <1>9, <1>10, <1>11, ArithRight DEF w
<1> QED BY <1>1, <1>12

LEMMA CmpRight ==
  ASSUME NEW a, NEW b, Right(a), Right(b), Cmp(a, b)
  PROVE  \E v : Right(v) /\ Combine(v)
<1> DEFINE shape == a.shape
           elem == Elementwise(LessThan, a, b)
           new == {"comparison"}
           w == [Result(FALSE, a.shape, elem, a.s, 2) EXCEPT !.u = a.u, !.patterns = a.patterns \cup b.patterns \cup new]
<1>1. IntOperands(a, b) /\ Combine(w)
  BY DEF Cmp, Arith
<1>2. RightFacts(a, FALSE, shape) /\ RightFacts(b, FALSE, shape)
  BY <1>1, IntFacts
<1> HIDE DEF shape
<1>3. /\ a.shape = shape /\ a.elem \in [Elements(shape) -> Int] /\ b.elem \in [Elements(shape) -> Int]
      /\ Pair(FALSE, shape, a.s, a.u)
  BY Zenon, <1>2 DEF RightFacts
<1>4. elem \in [Elements(shape) -> Int]
  BY <1>3, ElementwiseAre
<1> HIDE DEF elem, w
<1>5. DegreeRight(FALSE, a.s, 2) /\ 2 \in 0 .. 2
  BY DEF DegreeRight
<1>6. new \in SUBSET KnownPatterns /\ ~Clean(new)
  BY DEF KnownPatterns, Clean
<1> HIDE DEF new
<1>7. "factors cancel" \notin New(a, b, new) => Safe(a.u)
  BY Zenon, <1>2, CleanIs DEF RightFacts
<1>8. Clean(New(a, b, new)) => Exactly(shape, elem, a.s, a.u)
  BY Zenon, <1>6, CleanIs
<1>9. Right(w)
  BY Zenon, <1>2, <1>3, <1>4, <1>5, <1>6, <1>7, <1>8, ArithRight DEF w
<1> QED BY <1>1, <1>9

-----------------------------------------------------------------------------
(* What rewriteAddptrOp emits is one of the two states, or their merge.    *)
Rewritten(isPtr, shape, s, u, e, t) ==
  /\ Pair(isPtr, shape, t, u) /\ StateRight(e, isPtr, shape)
  /\ Safe(u) => e # Assertion
  /\ Simple(s) => t = s

LEMMA RewriteRight ==
  ASSUME NEW shape \in TensorShapes, NEW isPtr, NEW s, NEW u, Pair(isPtr, shape, s, u),
         NEW e, e = Rewrite(s, u), NEW t, t = IF Ok(e) THEN e ELSE s
  PROVE  Rewritten(isPtr, shape, s, u, e, t)
<1>1. /\ StateRight(s, isPtr, shape) /\ StateRight(u, isPtr, shape) /\ s # Assertion
      /\ Ok(u) => ~HasModulo(u)
      /\ enableMakeGatherScatterTensorPtr \/ (Ok(s) => IsStructured(s))
  BY DEF Pair
<1>2. /\ Ok(s) => Formed(s, shape) /\ s.source = isPtr
      /\ Ok(u) => Formed(u, shape) /\ u.source = isPtr
  BY <1>1, StateRightIs
<1>3. \/ e = s
      \/ e = Failure
      \/ e = u /\ ~Ok(u)
      \/ Ok(s) /\ Ok(u) /\ enableMakeGatherScatterTensorPtr /\ MergeIs(e, s, u, shape)
  BY <1>1, RewriteIs
<1>4. ~Ok(Failure)
  BY NotFormed
<1>5. CASE e = s \/ e = Failure \/ (e = u /\ ~Ok(u))
  <2>1. t = s /\ StateRight(e, isPtr, shape)
    BY <1>1, <1>4, <1>5 DEF StateRight
  <2>2. Safe(u) => e # Assertion
    BY <1>1, <1>5, NotFormed DEF Safe
  <2> QED BY <1>1, <2>1, <2>2 DEF Rewritten
<1>6. CASE Ok(s) /\ Ok(u) /\ enableMakeGatherScatterTensorPtr /\ MergeIs(e, s, u, shape)
  <2>1. PICK d : Unstructured(s) = {d} /\ Unstructured(u) = {d} /\ e = Merged(s, u, d, shape)
    BY <1>6 DEF MergeIs
  <2>2. Formed(e, shape) /\ e.source = isPtr
    BY <1>2, <1>6, <2>1, MergedFormed
  <2>3. StateRight(e, isPtr, shape) /\ Ok(e) /\ e # Assertion /\ t = e
    BY <2>2, StateRightIs DEF StateRight
  <2>4. ~Simple(s)
    BY <2>1 DEF Simple, IsStructured
  <2>5. Pair(isPtr, shape, t, u)
    BY <1>1, <1>6, <2>3 DEF Pair
  <2> QED BY <2>3, <2>4, <2>5 DEF Rewritten
<1> QED BY <1>3, <1>5, <1>6 DEF Rewritten

LEMMA RewriteExact ==
  ASSUME NEW shape \in TensorShapes, NEW isPtr, NEW s, NEW u, Pair(isPtr, shape, s, u),
         NEW elem \in [Elements(shape) -> Int], Exactly(shape, elem, s, u),
         NEW e, e = Rewrite(s, u), NEW t, t = IF Ok(e) THEN e ELSE s
  PROVE  Exactly(shape, elem, t, u) /\ (Ok(e) => Decodes(e, shape, elem))
<1>1. StateRight(s, isPtr, shape) /\ StateRight(u, isPtr, shape)
  BY DEF Pair
<1>2. /\ ~Ok(s) \/ IsStructured(s) => e = s
      /\ Ok(s) /\ ~IsStructured(s) =>
           \/ e = Failure
           \/ e = u /\ ~Ok(u)
           \/ enableMakeGatherScatterTensorPtr /\ Ok(u) /\ MergeIs(e, s, u, shape)
  BY <1>1, RewriteIs
<1>3. ~Ok(Failure)
  BY NotFormed
<1>4. CASE ~Ok(e)
  BY <1>4
<1>5. CASE Ok(e) /\ e = s
  <2>1. t = s /\ First(s, shape, elem)
    BY <1>5 DEF Exactly
  <2>2. CASE IsStructured(s)
    BY <1>5, <2>1, <2>2 DEF First
  <2>3. CASE ~IsStructured(s)
    <3>1. enableMakeGatherScatterTensorPtr /\ Ok(u) /\ MergeIs(e, s, u, shape)
      BY <1>2, <1>3, <1>5, <2>3
    <3>2. Second(u, shape, elem) /\ Same(s, u, shape)
      BY <1>5, <3>1 DEF Exactly
    <3> QED BY <1>5, <2>1, <3>1, <3>2, MergedRight
  <2> QED BY <2>2, <2>3
<1>6. CASE Ok(e) /\ e # s
  <2>1. Ok(s) /\ enableMakeGatherScatterTensorPtr /\ Ok(u) /\ MergeIs(e, s, u, shape)
    BY <1>2, <1>3, <1>6
  <2>2. First(s, shape, elem) /\ Second(u, shape, elem) /\ Same(s, u, shape)
    BY <2>1 DEF Exactly
  <2>3. First(e, shape, elem) /\ Same(e, u, shape) /\ Decodes(e, shape, elem)
    BY <2>1, <2>2, MergedRight
  <2>4. t = e
    BY <1>6
  <2> QED BY <2>2, <2>3, <2>4 DEF Exactly
<1> QED BY <1>4, <1>5, <1>6

-----------------------------------------------------------------------------
(* tt.addptr, tt.expand_dims and tt.broadcast *)

LEMMA AddPtrFacts ==
  ASSUME NEW a, NEW b, Right(a), Right(b), Operands(a, b), a.isPtr
  PROVE  RightFacts(a, TRUE, a.shape) /\ RightFacts(b, FALSE, a.shape)
<1>1. RightFacts(a, a.isPtr, a.shape) /\ RightFacts(b, b.isPtr, b.shape)
  BY RightIs
<1>2. a.isPtr \in BOOLEAN /\ b.isPtr \in BOOLEAN
  BY DEF Right, Kinds
<1>3. a.isPtr = TRUE /\ b.isPtr = FALSE /\ b.shape = a.shape
  BY <1>2 DEF Operands
<1> QED BY <1>1, <1>3

LEMMA AddPtrRight ==
  ASSUME NEW a, NEW b, Right(a), Right(b), AddPtr(a, b)
  PROVE  \E v : Right(v) /\ Combine(v)
<1> DEFINE shape == a.shape
           first == FALSE
           second == TRUE
           s == VisitAddptr(a.s, b.s, first)
           u == VisitAddptr(a.u, b.u, second)
           e == Rewrite(s, u)
           t == IF Ok(e) THEN e ELSE s
           elem == Elementwise(Plus, a, b)
           degree == MaxOf(a.degree, b.degree)
           new == SumPatterns(a, b, u)
           P == New(a, b, new)
           w == [Result(TRUE, a.shape, elem, t, degree)
                   EXCEPT !.u = u, !.emitted = e, !.patterns = a.patterns \cup b.patterns \cup new]
<1>1. Operands(a, b) /\ a.isPtr /\ Combine(w)
  BY DEF AddPtr
<1>2. RightFacts(a, TRUE, shape) /\ RightFacts(b, FALSE, shape)
  BY <1>1, AddPtrFacts
<1>3. /\ a.shape = shape /\ b.shape = shape /\ shape \in TensorShapes
      /\ a.elem \in [Elements(shape) -> Int] /\ b.elem \in [Elements(shape) -> Int]
      /\ Pair(TRUE, shape, a.s, a.u) /\ Pair(FALSE, shape, b.s, b.u)
  BY Zenon, <1>2 DEF RightFacts
<1>4. IsFirst(first) /\ IsSecond(second)
  BY DEF IsFirst, IsSecond
<1>5. Emitting(Result(TRUE, shape, elem, t, degree), u, e, P) = w
  BY Zenon DEF Emitting, New
<1> HIDE DEF first, second, shape, w, P
<1>6. /\ StateRight(a.s, TRUE, shape) /\ StateRight(b.s, FALSE, shape)
      /\ StateRight(a.u, TRUE, shape) /\ StateRight(b.u, FALSE, shape)
  BY <1>3, PairStates
<1>7. SummedSecond(s, a.s, b.s, first)
  BY <1>3, <1>6, AddptrIsSecond
<1>8. SummedSecond(u, a.u, b.u, second)
  BY <1>3, <1>6, AddptrIsSecond
<1>9. e = Rewrite(s, u) /\ t = IF Ok(e) THEN e ELSE s
  OBVIOUS
<1> HIDE DEF s, u, e, t
<1>10. SummedFirst(s, a.s, b.s, shape, first)
  <2>1. BothOk(a.s, b.s) => Formed(a.s, shape) /\ Formed(b.s, shape)
    BY <1>3, <1>6, StateRightIs DEF BothOk
  <2> QED BY <1>3, <1>7, <2>1, PlainlyAdded
<1>11. Pair(TRUE, shape, s, u)
  BY <1>3, <1>4, <1>8, <1>10, PairSum
<1>12. elem \in [Elements(shape) -> Int] /\ SumsUp(elem, a.elem, b.elem, shape)
  BY <1>3, ElementwiseAre
<1>13. degree \in 0 .. 2 /\ (degree <= 1 => a.degree <= 1 /\ b.degree <= 1)
  BY Zenon, <1>2, MaxOfIs DEF RightFacts
<1> HIDE DEF elem, degree
<1>14. /\ Pair(TRUE, shape, t, u) /\ StateRight(e, TRUE, shape)
       /\ Safe(u) => e # Assertion
       /\ Simple(s) => t = s
  <2>1. Rewritten(TRUE, shape, s, u, e, t)
    BY <1>3, <1>9, <1>11, RewriteRight
  <2> QED BY Zenon, <2>1 DEF Rewritten
<1>15. DegreeRight(TRUE, t, degree)
  <2> SUFFICES ASSUME degree <= 1 PROVE Simple(t)
    BY DEF DegreeRight
  <2>1. Simple(a.s) /\ Simple(b.s)
    BY Zenon, <1>2, <1>13 DEF RightFacts
  <2>2. Simple(s)
    BY <1>3, <1>4, <1>10, <2>1, SimpleSum
  <2> QED BY <1>14, <2>2
<1>16. /\ new \in SUBSET KnownPatterns /\ (Clean(new) => ~RangeDropped(a, b) /\ ~WrapShifted(a, b))
       /\ "factors cancel" \notin new => ~FactorsCancel(u)
  BY Zenon, SumPatternsAre
<1> HIDE DEF new
<1>17. AssertsRight(u, e, P)
  <2> SUFFICES ASSUME "factors cancel" \notin P PROVE Safe(u)
    BY Zenon, <1>14 DEF AssertsRight
  <2>1. Safe(a.u) /\ Safe(b.u) /\ ~FactorsCancel(u)
    BY Zenon, <1>2, <1>16, CleanIs DEF RightFacts, P
  <2> QED BY Zenon, <1>3, <1>4, <1>8, <2>1, SafeSum
<1>18. CleanRight(shape, elem, t, u, e, P)
  <2> SUFFICES ASSUME Clean(P) PROVE Exactly(shape, elem, t, u) /\ (Ok(e) => Decodes(e, shape, elem))
    BY DEF CleanRight
  <2>1. Exactly(shape, a.elem, a.s, a.u) /\ Exactly(shape, b.elem, b.s, b.u) /\ ~RangeDropped(a, b) /\ ~WrapShifted(a, b)
    BY Zenon, <1>2, <1>16, CleanIs DEF RightFacts, P
  <2>2. Addable(a.s, a.u, b.s, b.u)
    BY <2>1, UnshiftedIs, UndroppedIs DEF Addable
  <2>3. Sums(shape, TRUE, a.s, a.u, b.s, b.u, s, u, first, second, a.elem, b.elem, elem)
    BY <1>3, <1>4, <1>8, <1>10, <1>11, <1>12, <2>1, <2>2 DEF Sums
  <2>4. Exactly(shape, elem, s, u)
    BY <2>3, SumExact
  <2> QED BY <1>3, <1>9, <1>11, <1>12, <2>4, RewriteExact
<1>19. Kinds(TRUE, shape, elem, degree, P)
  BY Zenon, <1>2, <1>3, <1>12, <1>13, <1>16 DEF Kinds, RightFacts, P, New
<1>20. Right(Valued(TRUE, shape, elem, t, u, e, degree, P))
  BY Zenon, <1>14, <1>15, <1>17, <1>18, <1>19, RightNew
<1>21. Emitting(Result(TRUE, shape, elem, t, degree), u, e, P) = Valued(TRUE, shape, elem, t, u, e, degree, P)
  <2> DEFINE ptr == TRUE
  <2> HIDE DEF ptr
  <2>1. Emitting(Result(ptr, shape, elem, t, degree), u, e, P) = Valued(ptr, shape, elem, t, u, e, degree, P)
    BY EmittingIs
  <2> QED BY Zenon, <2>1 DEF ptr
<1>22. Right(w)
  BY <1>5, <1>20, <1>21, Zenon
<1> QED BY <1>1, <1>22

-----------------------------------------------------------------------------
LEMMA ViewedIs ==
  ASSUME NEW st, NEW c, NEW s, NEW t, NEW at, ~Ok(st) => c = st, Ok(st) => View(c, st, s, t, at)
  PROVE  Viewed(c, st, s, t, at)
BY DEF Viewed

LEMMA ExpandRight ==
  ASSUME NEW v, Right(v), Len(v.shape) = 1, NEW axis \in {1, 2}, NEW shape, shape = InsertDim(v.shape, axis, 1)
  PROVE  Right([v EXCEPT !.shape = shape,
                  !.elem = [x \in Elements(shape) |-> v.elem[<<x[3 - axis]>>]],
                  !.s = ExpandState(v.s, axis), !.u = ExpandState(v.u, axis),
                  !.emitted = Failure])
<1> DEFINE s == v.shape
           at == ExpandAt(shape, axis)
           ce == [x \in Elements(shape) |-> v.elem[<<x[3 - axis]>>]]
           c == ExpandState(v.s, axis)
           d == ExpandState(v.u, axis)
<1>1. /\ s \in TensorShapes /\ v.elem \in [Elements(s) -> Int] /\ Pair(v.isPtr, s, v.s, v.u)
  BY Zenon, RightIs DEF RightFacts
<1>2. Expands(s, shape, axis)
  BY <1>1, ExpandsIs
<1>3. /\ Ok(v.s) => Formed(v.s, s)
      /\ Ok(v.u) => Formed(v.u, s)
  BY <1>1, PairStates, StateRightIs
<1>4. shape \in TensorShapes /\ DOMAIN shape = {axis, 3 - axis} /\ Len(s) = 1 /\ shape[3 - axis] = s[1]
  BY <1>2 DEF Expands
<1>5. at \in [Elements(shape) -> Elements(s)]
  <2> SUFFICES ASSUME NEW x \in Elements(shape) PROVE <<x[3 - axis]>> \in Elements(s)
    BY DEF ExpandAt
  <2>1. x[3 - axis] \in 0 .. s[1] - 1
    BY <1>4, ElementsAre
  <2> QED BY <1>1, <1>4, <2>1 DEF Elements
<1>6. Moves(ce, v.elem, s, shape, at)
  BY <1>5 DEF Moves, ExpandAt
<1>7. ce \in [Elements(shape) -> Int]
  <2> SUFFICES ASSUME NEW x \in Elements(shape) PROVE v.elem[<<x[3 - axis]>>] \in Int
    OBVIOUS
  <2>1. at[x] \in Elements(s) /\ at[x] = <<x[3 - axis]>>
    BY <1>5 DEF ExpandAt
  <2> QED BY <1>1, <2>1
<1>8. Viewed(c, v.s, s, shape, at)
  <2>1. ~Ok(v.s) => c = v.s
    BY DEF ExpandState
  <2>2. Ok(v.s) => View(c, v.s, s, shape, at)
    BY <1>2, <1>3, ExpandView
  <2> QED BY <2>1, <2>2, ViewedIs
<1>9. Viewed(d, v.u, s, shape, at)
  <2>1. ~Ok(v.u) => d = v.u
    BY DEF ExpandState
  <2>2. Ok(v.u) => View(d, v.u, s, shape, at)
    BY <1>2, <1>3, ExpandView
  <2> QED BY <2>1, <2>2, ViewedIs
<1>10. Ok(v.s) /\ Ok(v.u) /\ Same(v.s, v.u, s) => Same(c, d, shape)
  BY <1>2, <1>3, ExpandSame
<1> HIDE DEF at, ce, c, d
<1>11. Right([v EXCEPT !.shape = shape, !.elem = ce, !.s = c, !.u = d, !.emitted = Failure])
  BY Zenon, <1>4, <1>6, <1>7, <1>8, <1>9, <1>10, ViewRight
<1> QED BY <1>11, Zenon DEF ce, c, d

LEMMA BroadcastRight ==
  ASSUME NEW v, Right(v), NEW shape \in TensorShapes, Len(v.shape) = Len(shape),
         \A d \in DOMAIN shape : v.shape[d] \in {1, shape[d]}
  PROVE  Right([v EXCEPT !.shape = shape,
                  !.elem = [x \in Elements(shape) |->
                              v.elem[[d \in DOMAIN shape |-> IF v.shape[d] = 1 THEN 0 ELSE x[d]]]],
                  !.s = BroadcastState(v.s, shape), !.u = BroadcastState(v.u, shape),
                  !.emitted = Failure])
<1> DEFINE s == v.shape
           at == BroadcastAt(s, shape)
           ce == [x \in Elements(shape) |->
                              v.elem[[d \in DOMAIN shape |-> IF v.shape[d] = 1 THEN 0 ELSE x[d]]]]
           c == BroadcastState(v.s, shape)
           d == BroadcastState(v.u, shape)
<1>1. /\ s \in TensorShapes /\ v.elem \in [Elements(s) -> Int] /\ Pair(v.isPtr, s, v.s, v.u)
  BY Zenon, RightIs DEF RightFacts
<1>2. Broadcastable(s, shape)
  BY <1>1 DEF Broadcastable
<1>3. /\ Ok(v.s) => Formed(v.s, s)
      /\ Ok(v.u) => Formed(v.u, s)
  BY <1>1, PairStates, StateRightIs
<1>4. DOMAIN s = DOMAIN shape /\ DOMAIN shape \in {{1}, {1, 2}} /\ Len(s) \in {1, 2} /\ DOMAIN s = 1 .. Len(s)
  BY <1>1, ShapeFacts
<1>5. \A x \in Elements(shape) : at[x] = [e \in DOMAIN shape |-> IF s[e] = 1 THEN 0 ELSE x[e]]
  BY DEF BroadcastAt
<1>6. at \in [Elements(shape) -> Elements(s)]
  <2> SUFFICES ASSUME NEW x \in Elements(shape) PROVE [e \in DOMAIN shape |-> IF s[e] = 1 THEN 0 ELSE x[e]] \in Elements(s)
    BY DEF BroadcastAt
  <2> DEFINE y == [e \in DOMAIN shape |-> IF s[e] = 1 THEN 0 ELSE x[e]]
  <2>1. \A e \in DOMAIN shape : x[e] \in 0 .. shape[e] - 1 /\ shape[e] \in Nat /\ s[e] \in Nat /\ s[e] >= 1
    BY <1>1, <1>4, ElementsAre, ShapeFacts
  <2>2. \A e \in DOMAIN shape : y[e] \in 0 .. s[e] - 1
    BY <2>1
  <2>3. CASE Len(s) = 1
    <3>1. y = <<y[1]>> /\ y[1] \in 0 .. s[1] - 1
      BY <1>4, <2>2, <2>3
    <3> HIDE DEF y
    <3>2. y \in Elements(s)
      BY <2>3, <3>1 DEF Elements
    <3> QED BY <3>2 DEF y
  <2>4. CASE Len(s) = 2
    <3>1. y = <<y[1], y[2]>> /\ y[1] \in 0 .. s[1] - 1 /\ y[2] \in 0 .. s[2] - 1
      BY <1>4, <2>2, <2>4
    <3> HIDE DEF y
    <3>2. y \in Elements(s)
      BY <2>4, <3>1 DEF Elements
    <3> QED BY <3>2 DEF y
  <2> QED BY <1>4, <2>3, <2>4
<1>7. Moves(ce, v.elem, s, shape, at)
  BY <1>5, <1>6 DEF Moves
<1>8. ce \in [Elements(shape) -> Int]
  <2> SUFFICES ASSUME NEW x \in Elements(shape)
               PROVE  v.elem[[e \in DOMAIN shape |-> IF s[e] = 1 THEN 0 ELSE x[e]]] \in Int
    OBVIOUS
  <2>1. at[x] \in Elements(s) /\ at[x] = [e \in DOMAIN shape |-> IF s[e] = 1 THEN 0 ELSE x[e]]
    BY <1>5, <1>6
  <2> QED BY <1>1, <2>1
<1>9. Viewed(c, v.s, s, shape, at)
  <2>1. ~Ok(v.s) => c = v.s
    BY DEF BroadcastState
  <2>2. Ok(v.s) => View(c, v.s, s, shape, at)
    BY <1>2, <1>3, BroadcastView
  <2> QED BY <2>1, <2>2, ViewedIs
<1>10. Viewed(d, v.u, s, shape, at)
  <2>1. ~Ok(v.u) => d = v.u
    BY DEF BroadcastState
  <2>2. Ok(v.u) => View(d, v.u, s, shape, at)
    BY <1>2, <1>3, BroadcastView
  <2> QED BY <2>1, <2>2, ViewedIs
<1>11. Ok(v.s) /\ Ok(v.u) /\ Same(v.s, v.u, s) => Same(c, d, shape)
  BY <1>2, <1>3, BroadcastSame
<1> HIDE DEF at, ce, c, d
<1>12. Right([v EXCEPT !.shape = shape, !.elem = ce, !.s = c, !.u = d, !.emitted = Failure])
  BY Zenon, <1>7, <1>8, <1>9, <1>10, <1>11, ViewRight
<1> QED BY <1>12, Zenon DEF ce, c, d

-----------------------------------------------------------------------------
(* The values not used yet *)

(* The inductive invariant: every value not used yet is right. *)
AllRight(seq) ==
  /\ seq \in Seq({seq[i] : i \in DOMAIN seq}) /\ Len(seq) <= MaxValues
  /\ \A i \in DOMAIN seq : Right(seq[i])

OperandsRight == ops \in 0 .. MaxOps /\ AllRight(operands)

LEMMA AllRightFacts ==
  ASSUME NEW seq, AllRight(seq)
  PROVE  /\ Len(seq) \in Nat /\ Len(seq) <= MaxValues /\ DOMAIN seq = 1 .. Len(seq)
         /\ \A i \in 1 .. Len(seq) : Right(seq[i])
         /\ seq # <<>> => Len(seq) >= 1 /\ Right(seq[Len(seq)])
  BY DEF AllRight

LEMMA AllRightIf ==
  ASSUME NEW seq, NEW n \in Nat, n <= MaxValues, DOMAIN seq = 1 .. n, seq = [i \in 1 .. n |-> seq[i]],
         \A i \in 1 .. n : Right(seq[i])
  PROVE  AllRight(seq)
<1> DEFINE S == {seq[i] : i \in DOMAIN seq}
<1>1. seq \in [1 .. n -> S]
  BY Zenon
<1> HIDE DEF S
<1>2. seq \in Seq(S) /\ Len(seq) = n
  BY <1>1
<1> QED BY <1>2 DEF AllRight, S

LEMMA AppendRight ==
  ASSUME NEW seq, AllRight(seq), Len(seq) < MaxValues, NEW w, Right(w)
  PROVE  AllRight(Append(seq, w))
<1> DEFINE n == Len(seq) + 1
           new == Append(seq, w)
           S == {seq[i] : i \in DOMAIN seq}
<1>1. /\ seq \in Seq(S) /\ Len(seq) \in Nat /\ n \in Nat /\ n <= MaxValues
      /\ \A i \in 1 .. Len(seq) : Right(seq[i])
  BY AllRightFacts, InputsAssumption DEF AllRight
<1> HIDE DEF S
<1>2. /\ DOMAIN new = 1 .. n /\ new = [i \in 1 .. n |-> new[i]]
      /\ \A i \in 1 .. n : new[i] = IF i = n THEN w ELSE seq[i]
  <2> DEFINE T == S \cup {w}
  <2>1. seq \in Seq(T) /\ w \in T /\ seq \in [1 .. Len(seq) -> T]
    BY <1>1
  <2> HIDE DEF T
  <2>2. new \in Seq(T) /\ Len(new) = n /\ new[n] = w /\ \A i \in 1 .. Len(seq) : new[i] = seq[i]
    BY <2>1, AppendProperties
  <2> HIDE DEF new
  <2>3. new \in [1 .. n -> T]
    BY <1>1, <2>2
  <2> QED BY <1>1, <2>2, <2>3
<1>3. \A i \in 1 .. n : Right(new[i])
  <2> SUFFICES ASSUME NEW i \in 1 .. n PROVE Right(new[i])
    OBVIOUS
  <2>1. i = n \/ i \in 1 .. Len(seq)
    BY <1>1
  <2> HIDE DEF n, new
  <2> QED BY <1>1, <1>2, <2>1
<1> HIDE DEF new, n
<1>4. AllRight(new)
  BY <1>1, <1>2, <1>3, AllRightIf
<1> QED BY <1>4 DEF new

LEMMA ReplaceRight ==
  ASSUME NEW seq, AllRight(seq), NEW w, Right(w)
  PROVE  AllRight([seq EXCEPT ![Len(seq)] = w])
<1> DEFINE n == Len(seq)
           new == [seq EXCEPT ![n] = w]
<1>1. n \in Nat /\ n <= MaxValues /\ DOMAIN seq = 1 .. n /\ \A i \in 1 .. n : Right(seq[i])
  BY AllRightFacts
<1> HIDE DEF n
<1>2. /\ DOMAIN new = 1 .. n /\ new = [i \in 1 .. n |-> new[i]]
      /\ \A i \in 1 .. n : new[i] = IF i = n THEN w ELSE seq[i]
  BY <1>1
<1> HIDE DEF new
<1>3. \A i \in 1 .. n : Right(new[i])
  BY <1>1, <1>2
<1>4. AllRight(new)
  BY <1>1, <1>2, <1>3, AllRightIf
<1> QED BY <1>4 DEF new, n

LEMMA CombineRight ==
  ASSUME NEW seq, AllRight(seq), Len(seq) >= 2, NEW w, Right(w)
  PROVE  AllRight(Append(SubSeq(seq, 1, Len(seq) - 2), w))
<1> DEFINE n == Len(seq) - 2
           old == SubSeq(seq, 1, n)
<1>1. n \in Nat /\ n < MaxValues /\ MaxValues \in Nat /\ \A i \in 1 .. Len(seq) : Right(seq[i])
  BY AllRightFacts, InputsAssumption
<1>2. /\ DOMAIN old = 1 .. n /\ old = [i \in 1 .. n |-> old[i]] /\ \A i \in 1 .. n : old[i] = seq[i]
      /\ Len(old) = n
  <2> DEFINE S == {seq[i] : i \in DOMAIN seq}
  <2>1. seq \in Seq(S) /\ n <= Len(seq)
    BY AllRightFacts DEF AllRight
  <2> HIDE DEF S, n
  <2> QED BY <1>1, <2>1
<1>3. AllRight(old)
  <2>1. \A i \in 1 .. n : Right(old[i])
    BY <1>1, <1>2, AllRightFacts
  <2>2. n <= MaxValues
    BY <1>1
  <2> HIDE DEF old, n
  <2> QED BY <1>1, <1>2, <2>1, <2>2, AllRightIf
<1> HIDE DEF old
<1>4. Len(old) < MaxValues
  BY <1>1, <1>2
<1>5. AllRight(Append(old, w))
  BY <1>3, <1>4, AppendRight
<1> QED BY <1>5 DEF old

-----------------------------------------------------------------------------
(* No operation changes the option of the pass, on which Right depends.    *)
LEMMA RightKept ==
  ASSUME enableMakeGatherScatterTensorPtr' = enableMakeGatherScatterTensorPtr,
         NEW seq, AllRight(seq), operands' = seq, ops' \in 0 .. MaxOps
  PROVE  OperandsRight'
<1>1. \A i \in DOMAIN operands' : Right(operands[i])'
  <2> SUFFICES ASSUME NEW i \in DOMAIN seq PROVE Right(operands[i])'
    OBVIOUS
  <2>1. Right(seq[i]) /\ operands'[i] = seq[i]
    BY DEF AllRight
  <2> DEFINE v == seq[i]
  <2>2. /\ (v = Valued(v.isPtr, v.shape, v.elem, v.s, v.u, v.emitted, v.degree, v.patterns))
        /\ Kinds(v.isPtr, v.shape, v.elem, v.degree, v.patterns)
        /\ StateRight(v.emitted, v.isPtr, v.shape)
        /\ AssertsRight(v.u, v.emitted, v.patterns)
        /\ DegreeRight(v.isPtr, v.s, v.degree)
    BY <2>1 DEF Right
  <2> QED BY <2>1, <2>2 DEF Right, Pair, CleanRight, Exactly, Same
<1> QED BY <1>1 DEF OperandsRight, AllRight

LEMMA PushKeeps ==
  ASSUME OperandsRight, Len(operands) < MaxValues, NEW w, Right(w), Push(w)
  PROVE  OperandsRight'
<1>1. AllRight(Append(operands, w)) /\ ops' \in 0 .. MaxOps
  BY AppendRight, InputsAssumption DEF OperandsRight, Push
<1> QED BY <1>1, RightKept DEF Push

LEMMA ReplaceKeeps ==
  ASSUME OperandsRight, NEW w, Right(w), Replace(w)
  PROVE  OperandsRight'
<1> DEFINE new == [operands EXCEPT ![Len(operands)] = w]
<1>1. operands' = new /\ ops' \in 0 .. MaxOps
      /\ enableMakeGatherScatterTensorPtr' = enableMakeGatherScatterTensorPtr
  BY InputsAssumption DEF OperandsRight, Replace
<1>2. AllRight(operands)
  BY DEF OperandsRight
<1>3. AllRight(new)
  BY <1>2, ReplaceRight, Zenon
<1> HIDE DEF new
<1> QED BY <1>1, <1>3, RightKept

LEMMA CombineKeeps ==
  ASSUME OperandsRight, Len(operands) >= 2, NEW w, Right(w), Combine(w)
  PROVE  OperandsRight'
<1>1. AllRight(Append(SubSeq(operands, 1, Len(operands) - 2), w)) /\ ops' \in 0 .. MaxOps
  BY CombineRight, InputsAssumption DEF OperandsRight, Combine
<1> QED BY <1>1, RightKept DEF Combine

-----------------------------------------------------------------------------
(* Every step *)

LEMMA ShapesAre == Shapes \subseteq TensorShapes
BY ShapesAssumption DEF TensorShapes

LEMMA LeafKeeps == OperandsRight /\ Leaf => OperandsRight'
<1> SUFFICES ASSUME OperandsRight, Leaf PROVE OperandsRight'
  OBVIOUS
<1>1. Len(operands) < MaxValues
  BY DEF Leaf
<1>2. ASSUME NEW start \in Starts, NEW n \in Extents, MakeRange(start, n) PROVE OperandsRight'
  <2> DEFINE shape == <<n>>
             elem == [x \in Elements(<<n>>) |-> start + x[1]]
             st == State(FALSE, Absent, <<Dim(Attr(start), n, Attr(1))>>)
             w == Result(FALSE, shape, elem, st, 1)
  <2>1. start \in Int /\ n \in Nat \ {0, 1}
    BY InputsAssumption
  <2>2. shape \in TensorShapes /\ Plain(st, FALSE, shape, elem)
    BY <2>1, RangePlain
  <2>3. elem \in [Elements(shape) -> Int]
    <3> SUFFICES ASSUME NEW x \in Elements(<<n>>) PROVE start + x[1] \in Int
      OBVIOUS
    <3>1. x \in [DOMAIN <<n>> -> Int] /\ 1 \in DOMAIN <<n>>
      BY <2>2, ElementsAre
    <3> QED BY <2>1, <3>1
  <2>4. Push(w)
    BY <1>2 DEF MakeRange
  <2> HIDE DEF shape, elem, st
  <2>5. Right(w)
    <3> DEFINE one == 1
    <3>1. one \in {0, 1} /\ (one = 0 /\ ~FALSE => st.scalar \in Scalars)
      OBVIOUS
    <3> HIDE DEF one
    <3>2. Right(Result(FALSE, shape, elem, st, one))
      BY <2>2, <2>3, <3>1, PlainRight
    <3> QED BY <3>2 DEF one
  <2> HIDE DEF w
  <2> QED BY <1>1, <2>4, <2>5, PushKeeps
<1>3. ASSUME NEW isPtr \in BOOLEAN, NEW n \in Arguments, NEW shape \in Shapes, Splat(isPtr, n, shape)
      PROVE  OperandsRight'
  <2> DEFINE src == ScalarState(isPtr, n)
             st == [src EXCEPT !.dims = SplatDims(src, shape)]
             elem == [x \in Elements(shape) |-> n]
             w == Result(isPtr, shape, elem, st, 0)
  <2>1. n \in Int /\ shape \in TensorShapes
    BY InputsAssumption, ShapesAre
  <2>2. Plain(st, isPtr, shape, elem) /\ (~isPtr => st.scalar \in Scalars)
    BY <2>1, SplatPlain
  <2>3. elem \in [Elements(shape) -> Int]
    BY <2>1
  <2>4. Push(w)
    BY <1>3 DEF Splat
  <2> HIDE DEF elem, st
  <2>5. Right(w)
    BY <2>1, <2>2, <2>3, PlainRight
  <2> HIDE DEF w
  <2> QED BY <1>1, <2>4, <2>5, PushKeeps
<1>4. ASSUME NEW n \in Constants, NEW shape \in Shapes, ConstSplat(n, shape)
      PROVE  OperandsRight'
  <2> DEFINE st == State(FALSE, Const(n),
                     [d \in DOMAIN shape |-> Dim(IF d = 1 THEN Const(n) ELSE Attr(0), shape[d], Attr(0))])
             elem == [x \in Elements(shape) |-> n]
             w == Result(FALSE, shape, elem, st, 0)
  <2>1. n \in Int /\ n # 0 /\ shape \in TensorShapes
    BY InputsAssumption, ShapesAre
  <2>2. Plain(st, FALSE, shape, elem) /\ st.scalar \in Scalars
    BY Zenon, <2>1, ConstSplatPlain
  <2>3. elem \in [Elements(shape) -> Int]
    BY <2>1
  <2>4. Push(w)
    BY <1>4 DEF ConstSplat
  <2> HIDE DEF elem, st
  <2>5. Right(w)
    BY <2>1, <2>2, <2>3, PlainRight
  <2> HIDE DEF w
  <2> QED BY <1>1, <2>4, <2>5, PushKeeps
<1>5. ASSUME NEW shape \in Shapes, UnsupportedOp(shape) PROVE OperandsRight'
  <2> DEFINE elem == [x \in Elements(shape) |-> Loaded(x)]
             st == IF enableMakeGatherScatterTensorPtr
                     THEN rebuildAsUnsupportedOp(FALSE, shape, elem) ELSE Failure
             w == Result(FALSE, shape, elem, st, 2)
  <2>1. shape \in TensorShapes
    BY ShapesAre
  <2>2. elem \in [Elements(shape) -> Int]
    <3> SUFFICES ASSUME NEW x \in Elements(shape) PROVE Loaded(x) \in Int
      OBVIOUS
    <3>1. /\ \A d \in DOMAIN shape : x[d] \in Int
          /\ Len(shape) \in {1, 2} /\ DOMAIN shape = 1 .. Len(shape) /\ x \in [DOMAIN shape -> Int]
      BY <2>1, ElementsAre, ShapeFacts
    <3>2. CASE Len(shape) = 1
      <4>1. Len(x) = 1 /\ x[1] \in Int
        BY <3>1, <3>2
      <4> QED BY <4>1 DEF Loaded
    <3>3. CASE Len(shape) = 2
      <4>1. Len(x) = 2 /\ x[1] \in Int /\ x[2] \in Int
        BY <3>1, <3>3
      <4> QED BY <4>1 DEF Loaded
    <3> QED BY <3>1, <3>2, <3>3
  <2>3. Push(w)
    BY <1>5 DEF UnsupportedOp
  <2> HIDE DEF elem
  <2>4. Right(w)
    BY <2>1, <2>2, UnsupportedOpRight
  <2> HIDE DEF w
  <2> QED BY <1>1, <2>3, <2>4, PushKeeps
<1> QED BY <1>2, <1>3, <1>4, <1>5 DEF Leaf

LEMMA UnaryKeeps == OperandsRight /\ Unary => OperandsRight'
<1> SUFFICES ASSUME OperandsRight, Unary PROVE OperandsRight'
  OBVIOUS
<1>1. Right(Last)
  BY AllRightFacts DEF OperandsRight, Last, Unary
<1> DEFINE v == Last
<1>2. ASSUME NEW axis \in {1, 2}, ExpandDims(axis) PROVE OperandsRight'
  <2> DEFINE shape == InsertDim(v.shape, axis, 1)
             w == [v EXCEPT !.shape = shape,
                     !.elem = [x \in Elements(shape) |-> v.elem[<<x[3 - axis]>>]],
                     !.s = ExpandState(v.s, axis), !.u = ExpandState(v.u, axis),
                     !.emitted = Failure]
  <2>1. Len(v.shape) = 1 /\ Replace(w)
    BY <1>2 DEF ExpandDims
  <2>2. Right(w)
    <3>1. shape = InsertDim(v.shape, axis, 1)
      OBVIOUS
    <3> HIDE DEF v, shape
    <3> QED BY Zenon, <1>1, <2>1, <3>1, ExpandRight DEF v
  <2> HIDE DEF w
  <2> QED BY <2>1, <2>2, ReplaceKeeps
<1>3. ASSUME NEW shape \in Shapes, Broadcast(shape) PROVE OperandsRight'
  <2> DEFINE w == [v EXCEPT !.shape = shape,
                     !.elem = [x \in Elements(shape) |->
                                 v.elem[[d \in DOMAIN shape |-> IF v.shape[d] = 1 THEN 0 ELSE x[d]]]],
                     !.s = BroadcastState(v.s, shape), !.u = BroadcastState(v.u, shape),
                     !.emitted = Failure]
  <2>1. Replace(w) /\ Len(v.shape) = Len(shape) /\ \A d \in DOMAIN shape : v.shape[d] \in {1, shape[d]}
    BY <1>3 DEF Broadcast
  <2>2. shape \in TensorShapes
    BY ShapesAre
  <2>3. Right(w)
    <3> HIDE DEF v
    <3> QED BY Zenon, <1>1, <2>1, <2>2, BroadcastRight DEF v
  <2> HIDE DEF w
  <2> QED BY <2>1, <2>3, ReplaceKeeps
<1> QED BY <1>2, <1>3 DEF Unary

LEMMA BinaryKeeps == OperandsRight /\ Binary => OperandsRight'
<1> SUFFICES ASSUME OperandsRight, Binary PROVE OperandsRight'
  OBVIOUS
<1>1. PICK i \in {0, 1} :
        LET a == operands[Len(operands) - i] b == operands[Len(operands) - 1 + i] IN
          Add(a, b) \/ Sub(a, b) \/ Mul(a, b) \/ Rem(a, b) \/ Cmp(a, b) \/ AddPtr(a, b)
  BY DEF Binary
<1> DEFINE a == operands[Len(operands) - i]
           b == operands[Len(operands) - 1 + i]
<1>2. Len(operands) >= 2 /\ Len(operands) \in Nat
  BY AllRightFacts DEF Binary, OperandsRight
<1>3. Right(a) /\ Right(b)
  <2>1. Len(operands) - i \in 1 .. Len(operands) /\ Len(operands) - 1 + i \in 1 .. Len(operands)
    BY <1>2
  <2> QED BY <2>1, AllRightFacts DEF OperandsRight
<1>4. Add(a, b) \/ Sub(a, b) \/ Mul(a, b) \/ Rem(a, b) \/ Cmp(a, b) \/ AddPtr(a, b)
  BY <1>1
<1> HIDE DEF a, b
<1>5. \E v : Right(v) /\ Combine(v)
  BY <1>3, <1>4, AddRight, SubRight, MulRight, RemRight, CmpRight, AddPtrRight
<1> QED BY <1>2, <1>5, CombineKeeps

LEMMA InitRight == Init => OperandsRight
<1> SUFFICES ASSUME Init PROVE OperandsRight
  OBVIOUS
<1> DEFINE none == <<>>
<1>1. DOMAIN none = 1 .. 0 /\ none = [i \in 1 .. 0 |-> none[i]] /\ \A i \in 1 .. 0 : Right(none[i])
  OBVIOUS
<1>2. 0 \in Nat /\ 0 <= MaxValues /\ ops \in 0 .. MaxOps /\ operands = none
  BY InputsAssumption DEF Init
<1> HIDE DEF none
<1>3. AllRight(none)
  BY <1>1, <1>2, AllRightIf
<1> QED BY <1>2, <1>3 DEF OperandsRight

LEMMA StutterKeeps == OperandsRight /\ UNCHANGED vars => OperandsRight'
<1> SUFFICES ASSUME OperandsRight, UNCHANGED vars PROVE OperandsRight'
  OBVIOUS
<1> DEFINE seq == operands
<1>1. /\ AllRight(seq) /\ operands' = seq /\ ops' \in 0 .. MaxOps
      /\ enableMakeGatherScatterTensorPtr' = enableMakeGatherScatterTensorPtr
  BY DEF OperandsRight, vars
<1> HIDE DEF seq
<1> QED BY <1>1, RightKept

(* The value of every operation of a kernel is right: its states have its  *)
(* shape, stop at no assert unless factors cancel, are structured if it is *)
(* affine, and decode it exactly unless it met one of the other patterns.  *)
THEOREM OperandsRightHolds == Spec => []OperandsRight
<1>1. OperandsRight /\ [Next]_vars => OperandsRight'
  BY LeafKeeps, UnaryKeeps, BinaryKeeps, StutterKeeps DEF Next
<1> QED BY InitRight, <1>1, PTL DEF Spec

-----------------------------------------------------------------------------
(* The properties *)

LEMMA Holds ==
  ASSUME OperandsRight, NEW i \in DOMAIN operands
  PROVE  Right(operands[i])
BY DEF OperandsRight, AllRight

(* What rewriteAddptrOp emits for a tt.addptr points, for every index,     *)
(* where the tt.addptr does, whatever the kernel computed its operands     *)
(* from, unless one of the patterns the README names was met.              *)
THEOREM AddressesExactHolds == Spec => []AddressesExact
<1>1. OperandsRight => AddressesExact
  <2> SUFFICES ASSUME OperandsRight, NEW i \in DOMAIN operands, Ok(operands[i].emitted),
                      operands[i].patterns \subseteq {"factors cancel"}
               PROVE  Describes(operands[i].emitted, operands[i])
    BY Zenon DEF AddressesExact, Exact
  <2> DEFINE v == operands[i]
  <2>1. CleanRight(v.shape, v.elem, v.s, v.u, v.emitted, v.patterns) /\ Clean(v.patterns)
    BY Zenon, Holds DEF Right, Clean
  <2> HIDE DEF v
  <2>2. Ok(v.emitted) => Decodes(v.emitted, v.shape, v.elem)
    BY Zenon, <2>1 DEF CleanRight
  <2> QED BY Zenon, <2>2 DEF v, Decodes, Describes
<1> QED BY OperandsRightHolds, <1>1, PTL

(* The scalar of the state of an operation is every element of its result, *)
(* which visitOperandMul and visitOperandRem rely on.                      *)
THEOREM ScalarIsUniformHolds == Spec => []ScalarIsUniform
<1>1. OperandsRight => ScalarIsUniform
  <2> SUFFICES ASSUME OperandsRight, NEW i \in DOMAIN operands, Ok(operands[i].s), Present(operands[i].s.scalar),
                      operands[i].patterns \subseteq {"factors cancel"}
               PROVE  \A x \in Elements(operands[i].shape) : operands[i].elem[x] = operands[i].s.scalar.val
    BY Zenon DEF ScalarIsUniform
  <2> DEFINE v == operands[i]
  <2>1. /\ CleanRight(v.shape, v.elem, v.s, v.u, v.emitted, v.patterns) /\ Clean(v.patterns)
        /\ v.shape \in TensorShapes /\ Ok(v.s) /\ Present(v.s.scalar)
    BY Zenon, Holds DEF Right, Clean, Kinds
  <2> HIDE DEF v
  <2>2. First(v.s, v.shape, v.elem)
    BY Zenon, <2>1 DEF CleanRight, Exactly
  <2>3. v.s.scalar \in Scalars
    BY Zenon, <2>1, <2>2, StateFacts DEF First
  <2> QED BY Zenon, <2>2, <2>3 DEF v, First, Uniform
<1> QED BY OperandsRightHolds, <1>1, PTL

(* What is affine in the index is decoded as a structured state, in        *)
(* whatever order the kernel computes it.                                  *)
THEOREM AffineStructuredHolds == Spec => []AffineStructured
<1>1. OperandsRight => AffineStructured
  <2> SUFFICES ASSUME OperandsRight, NEW i \in DOMAIN operands, operands[i].degree <= 1
               PROVE  Ok(operands[i].s) /\ IsStructured(operands[i].s)
    BY DEF AffineStructured
  <2>1. DegreeRight(operands[i].isPtr, operands[i].s, operands[i].degree)
    BY Holds DEF Right
  <2> QED BY <2>1 DEF DegreeRight, Simple
<1> QED BY OperandsRightHolds, <1>1, PTL

LEMMA StatesAreOK ==
  ASSUME NEW shape \in TensorShapes, NEW isPtr \in BOOLEAN, NEW st, StateRight(st, isPtr, shape)
  PROVE  StateOK(st, shape)
<1>1. CASE st \in {Failure, Assertion}
  <2>1. ~Ok(st)
    BY <1>1, NotFormed
  <2>2. st.outcome \in {"failed", "assert"} /\ st.source \in BOOLEAN
    <3>1. Failure.outcome = "failed" /\ Failure.source = FALSE
      BY DEF Failure
    <3>2. Assertion.outcome = "assert" /\ Assertion.source = FALSE
      BY DEF Failure, Assertion
    <3> QED BY <1>1, <3>1, <3>2
  <2> QED BY <2>1, <2>2 DEF StateOK
<1>2. CASE Formed(st, shape) /\ st.source = isPtr
  <2>1. st.outcome = "ok" /\ DOMAIN st.dims = DOMAIN shape
    BY <1>2, StateFacts DEF Ok
  <2>2. \A d \in DOMAIN shape :
          /\ st.dims[d].size = shape[d] /\ Present(st.dims[d].offset)
          /\ IsTensor(st.dims[d].offset) => DOMAIN st.dims[d].offset.val = 0 .. shape[d] - 1
          /\ ~IsTensor(st.dims[d].stride) /\ ~IsTensor(st.dims[d].shape)
    <3> SUFFICES ASSUME NEW d \in DOMAIN shape
                 PROVE  /\ st.dims[d].size = shape[d] /\ Present(st.dims[d].offset)
                        /\ IsTensor(st.dims[d].offset) => DOMAIN st.dims[d].offset.val = 0 .. shape[d] - 1
                        /\ ~IsTensor(st.dims[d].stride) /\ ~IsTensor(st.dims[d].shape)
      OBVIOUS
    <3> DEFINE dim == st.dims[d]
               n == shape[d]
    <3>1. OfSize(dim, n)
      BY <1>2 DEF Formed
    <3> HIDE DEF dim, n
    <3>2. /\ dim.size = n /\ Present(dim.offset) /\ ~IsTensor(dim.stride) /\ ~IsTensor(dim.shape)
          /\ IsTensor(dim.offset) => DOMAIN dim.offset.val = 0 .. n - 1
      BY <3>1, NumberFacts, LineFacts DEF OfSize, DimOf, Offsets
    <3> QED BY <3>2 DEF dim, n
  <2>3. [d \in DOMAIN st.dims |-> st.dims[d].size] = shape
    <3>1. shape = [d \in DOMAIN shape |-> shape[d]]
      BY DEF TensorShapes
    <3> QED BY <2>1, <2>2, <3>1
  <2> QED BY <1>2, <2>1, <2>2, <2>3 DEF StateOK
<1> QED BY <1>1, <1>2 DEF StateRight

(* No kernel stops the compiler at an assert of the analysis unless        *)
(* factors cancel, and its states have the rank and the sizes of their     *)
(* tensors.                                                                *)
THEOREM AssertsHoldHolds == Spec => []AssertsHold
<1>1. ASSUME OperandsRight, NEW i \in DOMAIN operands
      PROVE  LET v == operands[i] IN
               /\ v.patterns \subseteq KnownPatterns /\ v.degree \in 0 .. 2
               /\ DOMAIN v.elem = Elements(v.shape)
               /\ StateOK(v.s, v.shape) /\ StateOK(v.u, v.shape) /\ StateOK(v.emitted, v.shape)
               /\ v.s # Assertion /\ (v.emitted = Assertion => "factors cancel" \in v.patterns)
  <2> DEFINE v == operands[i]
  <2>1. Right(v)
    BY <1>1, Holds
  <2> HIDE DEF v
  <2>2. /\ v.isPtr \in BOOLEAN /\ v.shape \in TensorShapes /\ v.elem \in [Elements(v.shape) -> Int]
        /\ v.degree \in 0 .. 2 /\ v.patterns \subseteq KnownPatterns
        /\ StateRight(v.s, v.isPtr, v.shape) /\ StateRight(v.u, v.isPtr, v.shape)
        /\ StateRight(v.emitted, v.isPtr, v.shape)
        /\ v.s # Assertion /\ (v.emitted = Assertion => "factors cancel" \in v.patterns)
    BY Zenon, <2>1 DEF Right, Kinds, Pair, AssertsRight
  <2>3. StateOK(v.s, v.shape) /\ StateOK(v.u, v.shape) /\ StateOK(v.emitted, v.shape)
    BY Zenon, <2>2, StatesAreOK
  <2> QED BY Zenon, <2>2, <2>3 DEF v
<1>2. OperandsRight => ops \in 0 .. MaxOps /\ Len(operands) <= MaxValues
  BY AllRightFacts DEF OperandsRight
<1>3. OperandsRight => AssertsHold
  BY Zenon, <1>1, <1>2 DEF AssertsHold, TypeOK
<1> QED BY OperandsRightHolds, <1>3, PTL
=============================================================================
