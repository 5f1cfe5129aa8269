----------------------------- MODULE TensorOps -----------------------------
(***************************************************************************)
(* Tensors, and the operations of the linalg, tensor, vector and arith     *)
(* dialects that the lowerings of TritonArithToLinalg and ConvertScanOp    *)
(* emit.  These dialects are not part of the repository; what is here is   *)
(* what the lowerings rely on.                                             *)
(*                                                                         *)
(* A tensor is a shape, an element type and its elements by their index, a *)
(* sequence of coordinates from 0; a scalar has the empty shape.  A word   *)
(* ("int") has Width bits.  A float is a small integer, an infinity or a   *)
(* NaN; "f32" computes exactly, the narrow types overflow above Largest.   *)
(***************************************************************************)
EXTENDS Integers, Sequences, FiniteSets, SequencesExt, Bitwise

Width   == 2
Words   == 0 .. 2 ^ Width - 1
Largest == 2       \* of the narrow floats
Inf     == 100
NaN     == 1000
IsNaN(v) == v = NaN

Narrow == {"f16", "bf16"}
Floats == Narrow \cup {"f32"}

-----------------------------------------------------------------------------
(* Elements *)

Round(ty, v) ==
  CASE ty = "int" -> v % (2 ^ Width)
    [] ty = "bool" -> v % 2
    [] ty \in Narrow /\ v \notin {NaN, Inf, -Inf} /\ v > Largest -> Inf
    [] ty \in Narrow /\ v \notin {NaN, Inf, -Inf} /\ v < -Largest -> -Inf
    [] OTHER -> v

Signed(v) == IF v >= 2 ^ (Width - 1) THEN v - 2 ^ Width ELSE v

AddF(a, b) ==
  CASE IsNaN(a) \/ IsNaN(b) \/ (a = Inf /\ b = -Inf) \/ (a = -Inf /\ b = Inf) -> NaN
    [] a \in {Inf, -Inf} -> a
    [] b \in {Inf, -Inf} -> b
    [] OTHER -> a + b

MulF(a, b) ==
  CASE IsNaN(a) \/ IsNaN(b) -> NaN
    [] {a, b} \cap {Inf, -Inf} = {} -> a * b
    [] 0 \in {a, b} -> NaN
    [] OTHER -> IF (a > 0) = (b > 0) THEN Inf ELSE -Inf

Lesser(a, b)  == IF a < b THEN a ELSE b
Greater(a, b) == IF a < b THEN b ELSE a

(* maximumf gives a NaN for a NaN, maxnumf the other operand; an ordered   *)
(* comparison with a NaN is false.                                         *)
Arith(op, a, b) ==
  CASE op = "addi" -> a + b
    [] op = "muli" -> a * b
    [] op = "andi" -> a & b
    [] op = "ori" -> a | b
    [] op = "xori" -> a ^^ b
    [] op = "maxsi" -> IF Signed(a) < Signed(b) THEN b ELSE a
    [] op = "minsi" -> IF Signed(a) < Signed(b) THEN a ELSE b
    [] op \in {"maxui", "maxnumf", "maximumf"} /\ ~IsNaN(a) /\ ~IsNaN(b) -> Greater(a, b)
    [] op \in {"minui", "minnumf", "minimumf"} /\ ~IsNaN(a) /\ ~IsNaN(b) -> Lesser(a, b)
    [] op \in {"maximumf", "minimumf"} -> NaN
    [] op \in {"maxnumf", "minnumf"} -> IF IsNaN(a) THEN b ELSE a
    [] op = "addf" -> AddF(a, b)
    [] op = "mulf" -> MulF(a, b)

Compare(pred, a, b) ==
  CASE pred \in {"sgt", "sge", "slt", "sle"} ->
         (pred \in {"sgt", "sge"} /\ Signed(a) > Signed(b))
           \/ (pred \in {"slt", "sle"} /\ Signed(a) < Signed(b))
           \/ (pred \in {"sge", "sle"} /\ a = b)
    [] pred \in {"ogt", "oge", "olt", "ole", "oeq"} /\ (IsNaN(a) \/ IsNaN(b)) -> FALSE
    [] OTHER ->
         (pred \in {"ogt", "oge", "ugt"} /\ a > b) \/ (pred \in {"olt", "ole", "ult"} /\ a < b)
           \/ (pred \in {"oge", "ole", "oeq"} /\ a = b)

-----------------------------------------------------------------------------
(* Indices and shapes *)

Product(s) == FoldLeft(LAMBDA x, y : x * y, 1, s)

Idx(shape) == {ix \in [DOMAIN shape -> 0 .. 2] : \A d \in DOMAIN shape : ix[d] < shape[d]}

(* The place of an element, row by row, and the element of a place. *)
Linear(shape, ix) ==
  SumFunction([d \in DOMAIN shape |-> ix[d] * Product(SubSeq(shape, d + 1, Len(shape)))])

Delinear(shape, n) == CHOOSE ix \in Idx(shape) : Linear(shape, ix) = n

Tensor(shape, ty, at) == [shape |-> shape, ty |-> ty, at |-> at]

Scalar(ty, v) == Tensor(<<>>, ty, <<>> :> v)

Without(s, d) == SubSeq(s, 1, d - 1) \o SubSeq(s, d + 1, Len(s))

-----------------------------------------------------------------------------
(* linalg and tensor operations *)

Fill(shape, v) == Tensor(shape, v.ty, [ix \in Idx(shape) |-> v.at[<<>>]])

(* Dimension i of the result is dimension perm[i] of the source. *)
LinalgTranspose(t, perm) ==
  LET shape == [i \in DOMAIN perm |-> t.shape[perm[i]]]
  IN  Tensor(shape, t.ty,
        [ix \in Idx(shape) |->
           t.at[[d \in DOMAIN perm |-> ix[CHOOSE i \in DOMAIN perm : perm[i] = d]]]])

(* Dimension i of the smaller shape stands for the dimensions groups[i] of *)
(* the larger one, row by row.                                             *)
Grouped(groups, shape, ix) ==
  [i \in DOMAIN groups |->
     Linear([k \in DOMAIN groups[i] |-> shape[groups[i][k]]],
            [k \in DOMAIN groups[i] |-> ix[groups[i][k]]])]

ExpandShape(t, shape, groups) ==
  Tensor(shape, t.ty, [ix \in Idx(shape) |-> t.at[Grouped(groups, shape, ix)]])

CollapseShape(t, shape, groups) ==
  Tensor(shape, t.ty,
    [ix \in Idx(shape) |->
       t.at[CHOOSE jx \in Idx(t.shape) : Grouped(groups, t.shape, jx) = ix]])

TensorReshape(t, shape) ==
  Tensor(shape, t.ty, [ix \in Idx(shape) |-> t.at[Delinear(t.shape, Linear(shape, ix))]])

(* A slice may drop dimensions of size 1. *)
ExtractSlice(t, offsets, sizes, shape) ==
  Tensor(shape, t.ty,
    [ix \in Idx(shape) |->
       LET jx == Delinear(sizes, Linear(shape, ix))
       IN  t.at[[d \in DOMAIN jx |-> jx[d] + offsets[d]]]])

InsertSlice(t, into, offsets, sizes) ==
  [into EXCEPT !.at =
     [ix \in DOMAIN into.at |->
        IF \A d \in DOMAIN ix : ix[d] \in offsets[d] .. offsets[d] + sizes[d] - 1
          THEN t.at[Delinear(t.shape, Linear(sizes, [d \in DOMAIN ix |-> ix[d] - offsets[d]]))]
          ELSE into.at[ix]]]

Concat(s, t) ==
  LET n == s.shape[1]
      shape == [s.shape EXCEPT ![1] = n + t.shape[1]]
  IN  Tensor(shape, s.ty,
        [ix \in Idx(shape) |->
           IF ix[1] < n THEN s.at[ix] ELSE t.at[[ix EXCEPT ![1] = ix[1] - n]]])

(* linalg.generic with the maps of a broadcast. *)
Indexed(t, shape, map) ==
  Tensor(shape, t.ty,
    [ix \in Idx(shape) |->
       t.at[[d \in DOMAIN map |-> IF map[d] = 0 THEN 0 ELSE ix[map[d]]]]])

(* linalg.reduce of one dimension: the elements are combined with the      *)
(* initial ones in their order.                                            *)
Column(shape, d, ix) ==
  [k \in 1 .. shape[d] |-> SubSeq(ix, 1, d - 1) \o <<k - 1>> \o SubSeq(ix, d, Len(ix))]

ReduceColumns(Body(_, _), ats, shape, d, init) ==
  [ix \in Idx(Without(shape, d)) |->
     FoldLeft(LAMBDA acc, jx : Body([i \in DOMAIN ats |-> ats[i][jx]], acc),
              [i \in DOMAIN ats |-> init[i][ix]], Column(shape, d, ix))]
=============================================================================
