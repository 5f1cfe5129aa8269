----------------------------- MODULE PtrState ------------------------------
(***************************************************************************)
(* PtrState (AnalysisStructured/PtrAnalysis.h, PtrAnalysis.cpp): how the   *)
(* compiler describes the value of an integer or pointer tensor.  Element  *)
(* x of the tensor is the sum over the dimensions d of                     *)
(*    (offset[d] + x[d] * stride[d])     taken modulo shape[d] if not 0,   *)
(*    offset[d][x[d]] * stride[d]        where d is unstructured:          *)
(*                                       its offset is itself a tensor.    *)
(* The operations are those of the C++ struct, in the two modes of         *)
(* isAnalysisingUnstructured: the first only finds which dimension is      *)
(* unstructured, the second computes its offset and stride.                *)
(*                                                                         *)
(* The definitions named Bug_... are defective variants of the definition  *)
(* after them, for the run that shows a property fail with it.             *)
(***************************************************************************)
EXTENDS OpFoldResult, Sequences, FiniteSets, Functions

(* arith.remsi: the sign is the dividend's *)
RemSI(m, n) == IF m >= 0 THEN m % n ELSE -((-m) % n)

-----------------------------------------------------------------------------
Dim(offset, size, stride) ==
  [offset |-> offset, size |-> size, stride |-> stride, shape |-> Attr(0)]

State(source, scalar, dims) ==
  [outcome |-> "ok", source |-> source, scalar |-> scalar, dims |-> dims]

(* LogicalResult failure() *)
Failure == [outcome |-> "failed", source |-> FALSE, scalar |-> Absent, dims |-> <<>>]

(* an assert of the analysis does not hold *)
Assertion == [Failure EXCEPT !.outcome = "assert"]

Ok(st) == st.outcome = "ok"

Rank(st) == Len(st.dims)

Unstructured(st) == {d \in DOMAIN st.dims : IsTensor(st.dims[d].offset)}

IsStructured(st) == Unstructured(st) = {}

getNonStructuredDim(st) == CHOOSE d \in Unstructured(st) : TRUE

DimHasModulo(dim) == ~IsAttr(dim.shape) \/ dim.shape.val # 0

HasModulo(st) == \E d \in DOMAIN st.dims : DimHasModulo(st.dims[d])

(* The indices of a tensor; those here have at most two dimensions. *)
Elements(shape) ==
  CASE Len(shape) = 0 -> {<<>>}
    [] Len(shape) = 1 -> {<<i>> : i \in 0 .. shape[1] - 1}
    [] Len(shape) = 2 -> {<<i, j>> : i \in 0 .. shape[1] - 1, j \in 0 .. shape[2] - 1}

(* A tensor with one dimension larger than 1, and that dimension. *)
Wide(shape) == {d \in DOMAIN shape : shape[d] > 1}

IsNotSingleDim(shape) == Cardinality(Wide(shape)) # 1

(* The elements of such a tensor along that dimension. *)
Line(shape, elem) ==
  LET d == CHOOSE d \in Wide(shape) : TRUE IN
    Tensor([i \in 0 .. shape[d] - 1 |-> elem[[e \in DOMAIN shape |-> IF e = d THEN i ELSE 0]]])

(* The result of an operation the analysis does not know becomes the       *)
(* offset of its one wide dimension.                                       *)
rebuildAsUnsupportedOp(isPtr, shape, elem) ==
  IF IsNotSingleDim(shape) \/ isPtr THEN Failure
  ELSE State(FALSE, Absent,
         [d \in DOMAIN shape |-> IF shape[d] = 1
                                   THEN Dim(Attr(0), 1, Attr(0))
                                   ELSE Dim(Line(shape, elem), shape[d], Attr(1))])

(* A dimension's offset is replaced by the operation's result. *)
rebuildAsGatherScatter(st, shape, elem, d) ==
  IF IsNotSingleDim(shape) \/ d > Rank(st) THEN Failure
  ELSE IF shape[d] <= 1 THEN Failure
  ELSE [st EXCEPT !.dims[d].offset = Line(shape, elem),
                  !.dims[d].stride = Attr(1), !.dims[d].shape = Attr(0)]

-----------------------------------------------------------------------------
(* addState, one dimension *)

SumDim(l, r) ==
  Dim(AddOFRs(l.offset, r.offset), l.size, AddOFRs(l.stride, r.stride))

(* first mode: which offset it is does not matter *)
MarkedDim(l, r) ==
  Dim(IF IsTensor(l.offset) THEN l.offset ELSE r.offset, l.size, Attr(1))

NotInDim(dim) == HasConstZero(dim.stride) /\ HasConstZero(dim.offset)

FactorOf(dim) == IF HasConstZero(dim.stride) THEN Attr(1) ELSE dim.stride

(* Strides are not brought to 1 before the offsets are added. *)
Bug_GatherDim(l, r) ==
  IF NotInDim(l) THEN [l EXCEPT !.offset = r.offset, !.stride = r.stride]
  ELSE IF NotInDim(r) THEN l
  ELSE Dim(AddOFRs(l.offset, r.offset), l.size, FactorOf(l))

(* second mode: offset * stride on both sides, brought to one product *)
GatherDim(l, r) ==
  LET ls == FactorOf(l)
      rs == FactorOf(r)
      expand == ~SameOFR(l.offset, r.offset) /\ ~SameOFR(ls, rs)
  IN IF NotInDim(l) THEN Dim(r.offset, l.size, r.stride)
     ELSE IF NotInDim(r) THEN Dim(l.offset, l.size, l.stride)
     ELSE IF expand
       THEN Dim(AddOFRs(MulOFRs(l.offset, ls), MulOFRs(r.offset, rs)), l.size, Attr(1))
     ELSE IF SameOFR(ls, rs) THEN Dim(AddOFRs(l.offset, r.offset), l.size, ls)
     ELSE Dim(l.offset, l.size, AddOFRs(ls, rs))

(* "If lhs stride is zero, it must be structured and rhs unstructured" *)
GatherAssert(l, r) ==
  NotInDim(l) \/ NotInDim(r)
    \/ /\ HasConstZero(l.stride) => ~IsTensor(l.offset) /\ IsTensor(r.offset)
       /\ HasConstZero(r.stride) => ~IsTensor(r.offset) /\ IsTensor(l.offset)

AddDim(l, r, unstructuredMode) ==
  IF ~IsTensor(l.offset) /\ ~IsTensor(r.offset) THEN SumDim(l, r)
  ELSE IF unstructuredMode THEN GatherDim(l, r)
  ELSE MarkedDim(l, r)

(* A dimension with a modulo to which the other side adds an offset. *)
Shifted(l, r, d) ==
  /\ ~IsTensor(l.dims[d].offset) /\ ~IsTensor(r.dims[d].offset)
  /\ DimHasModulo(l.dims[d]) /\ ~HasConstZero(r.dims[d].offset)

(* "allowing adding pointer state with modulo in dim 0 to another pointer  *)
(* state with offset in dim 0"                                             *)
AllowedShift(l, r) == Rank(l) = 2 /\ Shifted(l, r, 1) /\ Present(r.scalar)

SumShape(l, r, d) ==
  IF AllowedShift(l, r) THEN l.dims[3 - d].shape
  ELSE IF IsTensor(l.dims[d].offset) \/ IsTensor(r.dims[d].offset) THEN Attr(0)
  ELSE l.dims[d].shape

SumScalar(l, r, Op(_, _)) ==
  IF Present(l.scalar) /\ Present(r.scalar) THEN Emit(Op, l.scalar, r.scalar)
  ELSE Absent

(* A uniform operand's scalar becomes the sum's. *)
Bug_AddScalar(l, r) ==
  IF Present(l.scalar) /\ Present(r.scalar) THEN SumScalar(l, r, Plus)
  ELSE IF Present(l.scalar) THEN l.scalar ELSE r.scalar

AddScalar(l, r) ==
  IF Rank(l) = 0 /\ ~(Present(l.scalar) /\ Present(r.scalar))
    THEN IF Present(l.scalar) THEN l.scalar ELSE r.scalar
    ELSE SumScalar(l, r, Plus)

(* The two sides are added without regard to their unstructured dimensions. *)
Bug_Refused(l, r) == (l.source /\ r.source) \/ (HasModulo(l) /\ HasModulo(r))

Refused(l, r) ==
  \/ l.source /\ r.source
  \/ ~IsStructured(l) /\ ~IsStructured(r)
       /\ getNonStructuredDim(l) # getNonStructuredDim(r)
  \/ HasModulo(l) /\ HasModulo(r)

AddAssert(l, r, unstructuredMode) ==
  /\ Rank(l) = Rank(r)
  /\ Cardinality(Unstructured(l)) <= 1 /\ Cardinality(Unstructured(r)) <= 1
  /\ unstructuredMode /\ (Unstructured(l) \cup Unstructured(r) # {})
       => /\ ~HasModulo(l) /\ ~HasModulo(r)
          /\ \A d \in Unstructured(l) \cup Unstructured(r) :
               GatherAssert(l.dims[d], r.dims[d])
  /\ (HasModulo(l) \/ HasModulo(r)) => Rank(l) <= 2

addState(l, r, unstructuredMode) ==
  IF ~AddAssert(l, r, unstructuredMode) THEN Assertion
  ELSE IF Refused(l, r) THEN Failure
  ELSE LET lhs == IF HasModulo(r) THEN r ELSE l
           rhs == IF HasModulo(r) THEN l ELSE r
           shifted == {d \in DOMAIN l.dims : Shifted(lhs, rhs, d)}
       IN IF shifted # {} /\ ~AllowedShift(lhs, rhs) THEN Failure
          ELSE State(l.source \/ r.source, AddScalar(l, r),
                 [d \in DOMAIN l.dims |->
                    [AddDim(l.dims[d], r.dims[d], unstructuredMode)
                       EXCEPT !.shape = SumShape(lhs, rhs, d)]])

(* visitOperandSub: 0 - state, dimension by dimension *)
Negated(st) ==
  State(FALSE,
        IF Present(st.scalar) THEN Emit(Minus, Attr(0), st.scalar) ELSE Absent,
        [d \in DOMAIN st.dims |->
           [st.dims[d] EXCEPT !.offset = SubOFRs(Attr(0), @),
                              !.stride = SubOFRs(Attr(0), @)]])

-----------------------------------------------------------------------------
MulDim(dim, k, unstructuredMode) ==
  IF ~IsTensor(dim.offset)
    THEN [dim EXCEPT !.offset = MulOFRs(@, k), !.stride = MulOFRs(@, k),
                     !.shape = MulOFRs(@, k)]
  ELSE IF unstructuredMode THEN [dim EXCEPT !.stride = MulOFRs(@, k), !.shape = Attr(0)]
  ELSE [dim EXCEPT !.shape = Attr(0)]

mulState(l, r, unstructuredMode) ==
  LET swap == ~Present(r.scalar) /\ Present(l.scalar)
      lhs == IF swap THEN r ELSE l
      rhs == IF swap THEN l ELSE r
  IN IF Rank(l) # Rank(r) THEN Assertion
     ELSE IF l.source /\ r.source THEN Failure
     ELSE IF ~Present(l.scalar) /\ ~Present(r.scalar) THEN Failure
     ELSE IF HasModulo(rhs) THEN Failure
     ELSE IF unstructuredMode /\ ~IsStructured(lhs) /\ HasModulo(lhs) THEN Assertion
     ELSE State(FALSE, SumScalar(l, r, Times),
            [d \in DOMAIN lhs.dims |-> MulDim(lhs.dims[d], rhs.scalar, unstructuredMode)])

(* The unstructured dimension is taken from the second mode's state. *)
mergeUnstructuredState(st, other) ==
  IF IsStructured(st) \/ IsStructured(other) THEN Failure
  ELSE IF getNonStructuredDim(st) # getNonStructuredDim(other) THEN Failure
  ELSE IF Rank(st) # Rank(other) THEN Failure
  ELSE LET d == getNonStructuredDim(st) IN
         [st EXCEPT !.dims[d].offset = other.dims[d].offset,
                    !.dims[d].stride = other.dims[d].stride,
                    !.dims[d].shape = other.dims[d].shape]

-----------------------------------------------------------------------------
SplatDims(st, shape) ==
  [d \in DOMAIN shape |->
     Dim(IF d = 1 /\ Present(st.scalar) THEN st.scalar ELSE Attr(0), shape[d], Attr(0))]

InsertDim(seq, axis, e) == SubSeq(seq, 1, axis - 1) \o <<e>> \o SubSeq(seq, axis, Len(seq))

ExpandState(st, axis) ==
  IF ~Ok(st) THEN st
  ELSE IF HasModulo(st) /\ Rank(st) >= 2 THEN Failure
  ELSE [st EXCEPT !.dims = InsertDim(@, axis, Dim(Attr(0), 1, Attr(0)))]

BroadcastState(st, shape) ==
  IF ~Ok(st) THEN st
  ELSE [st EXCEPT !.dims = [d \in DOMAIN @ |-> [@[d] EXCEPT !.size = shape[d]]]]

-----------------------------------------------------------------------------
(* What a state says of the element x. *)

Term(dim, i) ==
  IF IsTensor(dim.offset) THEN dim.offset.val[i] * dim.stride.val
  ELSE LET a == dim.offset.val + i * dim.stride.val
       IN IF dim.shape.val = 0 THEN a ELSE RemSI(a, dim.shape.val)

Sum(seq) == LET sum[n \in 0 .. Len(seq)] == IF n = 0 THEN 0 ELSE sum[n - 1] + seq[n]
            IN sum[Len(seq)]

Decoded(st, x) == Sum([d \in DOMAIN st.dims |-> Term(st.dims[d], x[d])])
=============================================================================
