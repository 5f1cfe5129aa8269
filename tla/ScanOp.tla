------------------------------ MODULE ScanOp ------------------------------
(***************************************************************************)
(* ConvertScanOpPass.cpp: tt.scan over vectors.  The trailing dimension is *)
(* scanned by shuffles of doubling stride (lower1DInput), another one by   *)
(* accumulating sub-vectors (lowerLeadingDimension).                       *)
(*                                                                         *)
(* The operands of a scan are kept together: an element is the tuple of    *)
(* theirs.                                                                 *)
(***************************************************************************)
EXTENDS TensorOps

From(s, d) == SubSeq(s, d, Len(s))

(* Combine regions on words, x the first arguments: a sum; a sum with a    *)
(* value of the kernel; a recurrence, which does not commute.              *)
Scans == {"sum", "sum_with", "linear"}

ScanRegion(kind, x, y) ==
  CASE kind = "sum" -> <<Round("int", x[1] + y[1])>>
    [] kind = "sum_with" -> <<Round("int", x[1] + y[1] + 1)>>
    [] kind = "linear" -> <<Round("int", x[1] * y[1]), Round("int", x[2] * y[1] + y[2])>>

(* The elements of a sub-vector, all of the same leading coordinates. *)
SubVector(v, prefix, shape) == [ix \in Idx(shape) |-> v[prefix \o ix]]

(* Cloned on vectors, the region combines element by element. *)
accumulate(kind, inputs, acc) ==
  [ix \in DOMAIN inputs |-> ScanRegion(kind, acc[ix], inputs[ix])]

(* Element i takes the one a stride before it, in the direction of the     *)
(* scan; where there is none the shuffle takes element 0.                  *)
Bug_shuffleIndices(n, stride, reverse) ==
  [i \in 0 .. n - 1 |-> IF i >= stride THEN i - stride ELSE 0]

shuffleIndices(n, stride, reverse) ==
  [i \in 0 .. n - 1 |->
     IF reverse THEN (IF i + stride < n THEN i + stride ELSE 0)
     ELSE IF i >= stride THEN i - stride ELSE 0]

(* Those already computed are masked out. *)
maskVals(n, stride, reverse) ==
  [i \in 0 .. n - 1 |-> IF reverse THEN i < n - stride ELSE i >= stride]

RECURSIVE ShuffleSteps(_, _, _, _, _)
ShuffleSteps(kind, res, n, stride, reverse) ==
  IF stride >= n THEN res
  ELSE LET shuffled == [ix \in DOMAIN res |->
                          res[<<shuffleIndices(n, stride, reverse)[ix[1]]>>]]
           newRes == accumulate(kind, res, shuffled)
       IN  ShuffleSteps(kind,
             [ix \in DOMAIN res |->
                IF maskVals(n, stride, reverse)[ix[1]] THEN newRes[ix] ELSE res[ix]],
             n, 2 * stride, reverse)

lower1DInput(kind, v, n, reverse) == ShuffleSteps(kind, v, n, 1, reverse)

lowerTrailingDimension(kind, v, shape, reverse) ==
  LET n == shape[Len(shape)]
  IN  [ix \in Idx(shape) |->
         lower1DInput(kind, SubVector(v, Front(ix), <<n>>), n, reverse)[<<ix[Len(ix)]>>]]

(* The accumulator after sub-vector idx of the leading dimension. *)
RECURSIVE Accumulator(_, _, _, _, _)
Accumulator(kind, v, shape, idx, reverse) ==
  LET first == IF reverse THEN shape[1] - 1 ELSE 0
      prev  == IF reverse THEN idx + 1 ELSE idx - 1
      input == SubVector(v, <<idx>>, From(shape, 2))
  IN  IF idx = first THEN input
      ELSE accumulate(kind, input, Accumulator(kind, v, shape, prev, reverse))

lowerLeadingDimension(kind, v, shape, reverse) ==
  [ix \in Idx(shape) |-> Accumulator(kind, v, shape, ix[1], reverse)[SubSeq(ix, 2, Len(ix))]]

(* A dimension in the middle leads the sub-vectors of those before it. *)
lowerNonTrailingDimension(kind, v, shape, axis, reverse) ==
  IF axis = 1 THEN lowerLeadingDimension(kind, v, shape, reverse)
  ELSE [ix \in Idx(shape) |->
          lowerLeadingDimension(kind, SubVector(v, SubSeq(ix, 1, axis - 1), From(shape, axis)),
                                From(shape, axis), reverse)[From(ix, axis)]]

ScanOpConversion(kind, v, shape, axis, reverse) ==
  IF axis = Len(shape) THEN lowerTrailingDimension(kind, v, shape, reverse)
  ELSE lowerNonTrailingDimension(kind, v, shape, axis, reverse)

-----------------------------------------------------------------------------
(* tt.scan: an element is what combining those up to it gives, in order. *)

ScanSpec(kind, v, shape, axis, reverse) ==
  [ix \in Idx(shape) |->
     LET n == IF reverse THEN shape[axis] - ix[axis] ELSE ix[axis] + 1
         at == [k \in 1 .. n |->
                  v[[ix EXCEPT ![axis] = IF reverse THEN shape[axis] - k ELSE k - 1]]]
     IN  FoldLeft(LAMBDA x, y : ScanRegion(kind, x, y), at[1], SubSeq(at, 2, n))]
=============================================================================
