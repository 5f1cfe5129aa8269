---------------------------- MODULE PtrAnalysis ----------------------------
(***************************************************************************)
(* PtrAnalysis (AnalysisStructured/PtrAnalysis.cpp) over the straight-line *)
(* pointer arithmetic of a kernel.  A step adds one operation of the       *)
(* kernel: it computes what the operation yields (the reference) and the   *)
(* state visitOperand... computes for it, in each mode of the analysis     *)
(* (s, u); for tt.addptr, what rewriteAddptrOp emits.                      *)
(*                                                                         *)
(* visitOperand walks the operands of an operation again at each use; what *)
(* it finds depends on the operands' states alone, so the states are kept  *)
(* beside the values, which are a stack: operands first.  A value used     *)
(* twice is computed twice.                                                *)
(*                                                                         *)
(* Integers are unbounded here.  The definitions named Bug_... are         *)
(* defective variants of the definition after them, for the run that shows *)
(* a property fail with it.                                                *)
(***************************************************************************)
EXTENDS PtrState

CONSTANTS
  Shapes,       \* shapes of the tensors of the kernel
  Starts,       \* starts of a tt.make_range
  Extents,      \* sizes of a tt.make_range
  Arguments,    \* values of scalar arguments
  Constants,    \* values of constant tensors
  MaxOps,       \* bound on the operations of the kernel
  MaxValues     \* and on the values not used yet

ASSUME ShapesAssumption ==
  \A shape \in Shapes : shape \in Seq(Nat \ {0}) /\ Len(shape) \in 1 .. 2

ASSUME InputsAssumption ==
  /\ Starts \subseteq Int
  /\ Extents \subseteq Nat \ {0, 1}      \* a range of one element is folded
  /\ Arguments \subseteq Int
  /\ Constants \subseteq Int \ {0, 1}    \* folded when added or multiplied
  /\ MaxOps \in Nat /\ MaxValues \in Nat

VARIABLES
  operands,    \* the values not used yet
  ops,
  enableMakeGatherScatterTensorPtr    \* the option of the pass, true by default

vars == <<operands, ops, enableMakeGatherScatterTensorPtr>>

(* A value of the kernel.  degree is 0 when it is the same for every       *)
(* index, 1 when it is affine in the index, 2 when it need not be;         *)
(* patterns are those of Patterns below it was computed with.              *)
Result(isPtr, shape, elem, st, degree) ==
  [isPtr |-> isPtr, shape |-> shape, elem |-> elem, s |-> st, u |-> st,
   emitted |-> Failure, degree |-> degree, patterns |-> {}]

Init == operands = <<>> /\ ops = 0 /\ enableMakeGatherScatterTensorPtr \in BOOLEAN

Push(v) ==
  /\ ops < MaxOps
  /\ operands' = Append(operands, v)
  /\ ops' = ops + 1
  /\ UNCHANGED enableMakeGatherScatterTensorPtr

(* An operation on the last value. *)
Replace(v) ==
  /\ ops < MaxOps
  /\ operands' = [operands EXCEPT ![Len(operands)] = v]
  /\ ops' = ops + 1
  /\ UNCHANGED enableMakeGatherScatterTensorPtr

(* An operation on the last two values. *)
Combine(v) ==
  /\ ops < MaxOps
  /\ operands' = Append(SubSeq(operands, 1, Len(operands) - 2), v)
  /\ ops' = ops + 1
  /\ UNCHANGED enableMakeGatherScatterTensorPtr

Last == operands[Len(operands)]

-----------------------------------------------------------------------------
(* Operations without tensor operands *)

MakeRange(start, n) ==
  LET st == State(FALSE, Absent, <<Dim(Attr(start), n, Attr(1))>>) IN
    Push(Result(FALSE, <<n>>, [x \in Elements(<<n>>) |-> start + x[1]], st, 1))

(* A scalar argument, a base pointer, and a scalar addptr of one. *)
ScalarState(isPtr, n) ==
  IF ~isPtr THEN State(FALSE, Value(n), <<>>)
  ELSE IF n = 0 THEN State(TRUE, Absent, <<>>)
  ELSE addState(State(TRUE, Absent, <<>>), State(FALSE, Value(n), <<>>), FALSE)

Splat(isPtr, n, shape) ==
  LET src == ScalarState(isPtr, n)
      st == [src EXCEPT !.dims = SplatDims(src, shape)]
  IN Push(Result(isPtr, shape, [x \in Elements(shape) |-> n], st, 0))

ConstSplat(n, shape) ==
  LET st == State(FALSE, Const(n),
              [d \in DOMAIN shape |-> Dim(IF d = 1 THEN Const(n) ELSE Attr(0), shape[d], Attr(0))])
  IN Push(Result(FALSE, shape, [x \in Elements(shape) |-> n], st, 0))

(* The elements of a loaded tensor: no affine function of the index. *)
Loaded(x) == IF Len(x) = 1 THEN (7 * x[1] + 5) % 11 ELSE (7 * x[1] + 4 * x[2] + 5) % 11

(* A load, a division, ...: the analysis does not look into it. *)
UnsupportedOp(shape) ==
  LET elem == [x \in Elements(shape) |-> Loaded(x)]
      st == IF enableMakeGatherScatterTensorPtr
              THEN rebuildAsUnsupportedOp(FALSE, shape, elem) ELSE Failure
  IN Push(Result(FALSE, shape, elem, st, 2))

-----------------------------------------------------------------------------
(* Operations with one operand *)

ExpandDims(axis) ==
  /\ Len(Last.shape) = 1
  /\ LET shape == InsertDim(Last.shape, axis, 1) IN
       Replace([Last EXCEPT !.shape = shape,
                  !.elem = [x \in Elements(shape) |-> Last.elem[<<x[3 - axis]>>]],
                  !.s = ExpandState(@, axis), !.u = ExpandState(@, axis),
                  !.emitted = Failure])

Broadcast(shape) ==
  /\ Len(Last.shape) = Len(shape) /\ Last.shape # shape
  /\ \A d \in DOMAIN shape : Last.shape[d] \in {1, shape[d]}
  /\ Replace([Last EXCEPT !.shape = shape,
                !.elem = [x \in Elements(shape) |->
                            Last.elem[[d \in DOMAIN shape |-> IF Last.shape[d] = 1 THEN 0 ELSE x[d]]]],
                !.s = BroadcastState(@, shape), !.u = BroadcastState(@, shape),
                !.emitted = Failure])

-----------------------------------------------------------------------------
(* Operations with two operands *)

(* "When one state hasModulo while other state is not structured. Need to  *)
(* clear the modulo and use the operand as offset directly."               *)
Cleared(st, other, v) ==
  IF Ok(st) /\ Ok(other) /\ ~IsStructured(other) /\ HasModulo(st)
    THEN IF enableMakeGatherScatterTensorPtr
           THEN rebuildAsGatherScatter(st, v.shape, v.elem, getNonStructuredDim(other))
           ELSE Failure
    ELSE st

FirstNotOk(l, r) == IF ~Ok(l) THEN l ELSE r

BothOk(l, r) == Ok(l) /\ Ok(r)

(* The check of rank 1 is made before the modulo is cleared, that of one    *)
(* operand at most, the right one first.                                   *)
VisitAdd(a, b, l, r, mode) ==
  LET cr == Cleared(r, l, b)
      cl == IF Ok(l) /\ Ok(r) /\ ~IsStructured(l) /\ HasModulo(r) THEN l ELSE Cleared(l, r, a)
  IN IF ~BothOk(l, r) THEN FirstNotOk(l, r)
     ELSE IF (Rank(l) = 1 /\ HasModulo(l)) \/ (Rank(r) = 1 /\ HasModulo(r)) THEN Failure
     ELSE IF ~BothOk(cl, cr) THEN FirstNotOk(cl, cr)
     ELSE addState(cl, cr, mode)

VisitSub(l, r, mode) ==
  IF ~BothOk(l, r) THEN FirstNotOk(l, r) ELSE addState(l, Negated(r), mode)

(* Only the right operand may be the uniform one. *)
Bug_VisitMul(a, b, l, r, mode) ==
  IF ~BothOk(l, r) \/ ~Present(r.scalar) THEN Failure ELSE mulState(l, r, mode)

VisitMul(a, b, l, r, mode) ==
  LET cr == Cleared(r, l, b)
      cl == IF Ok(l) /\ Ok(r) /\ ~IsStructured(l) /\ HasModulo(r) THEN l ELSE Cleared(l, r, a)
  IN IF ~BothOk(l, r) THEN FirstNotOk(l, r)
     ELSE IF ~BothOk(cl, cr) THEN FirstNotOk(cl, cr)
     ELSE mulState(cl, cr, mode)

(* The remainder becomes the modulo of a dimension, where it cannot become *)
(* an unstructured offset.                                                 *)
WithModulo(st, shape, elem, d, n) ==
  LET gather == rebuildAsGatherScatter(st, shape, elem, d) IN
    IF enableMakeGatherScatterTensorPtr /\ Ok(gather) THEN gather
    ELSE [st EXCEPT !.dims[d].shape = n]

VisitRem(l, r, shape, elem) ==
  IF ~BothOk(l, r) THEN FirstNotOk(r, l)
  ELSE IF ~Present(r.scalar) THEN Failure
  ELSE IF ~IsStructured(l)
    THEN rebuildAsGatherScatter(l, shape, elem, getNonStructuredDim(l))
  ELSE IF HasModulo(l)
    THEN IF Rank(l) = 1 /\ enableMakeGatherScatterTensorPtr
           THEN rebuildAsGatherScatter(l, shape, elem, 1) ELSE Failure
  ELSE IF Rank(l) = 1 THEN WithModulo(l, shape, elem, 1, r.scalar)
  ELSE IF shape[1] = 1 THEN WithModulo(l, shape, elem, 2, r.scalar)
  ELSE IF shape[2] = 1 THEN WithModulo(l, shape, elem, 1, r.scalar)
  ELSE Failure

Elementwise(Op(_, _), a, b) == [x \in Elements(a.shape) |-> Op(a.elem[x], b.elem[x])]

Operands(a, b) == a.shape = b.shape /\ ~b.isPtr

IntOperands(a, b) == Operands(a, b) /\ ~a.isPtr

Arith(a, b, elem, s, u, degree, new) ==
  Combine([Result(FALSE, a.shape, elem, s, degree)
             EXCEPT !.u = u, !.patterns = a.patterns \cup b.patterns \cup new])

-----------------------------------------------------------------------------
(* The patterns the analysis decodes wrongly, each shown by a run or named *)
(* in the README; what is decoded without them is decoded exactly.         *)

(* A range is added to an unstructured offset of its own dimension: the    *)
(* sum takes the range for a product of its offset and its stride.         *)
RangeDropped(a, b) ==
  Ok(a.u) /\ Ok(b.u)
    /\ \E d \in Unstructured(a.u) \cup Unstructured(b.u), v \in {1, 2} :
         LET dim == (IF v = 1 THEN a ELSE b).u.dims[d] IN
           ~IsTensor(dim.offset) /\ ~HasConstZero(dim.stride)

(* An unstructured offset is subtracted: its offset and its stride are     *)
(* both negated, and their product is not.                                 *)
SignLost(b) == Ok(b.u) /\ ~IsStructured(b.u)

(* A uniform tensor's remainder keeps the scalar it had before.            *)
ScalarStale(a) == Present(a.s.scalar)

(* A remainder takes the place of the offset of one dimension, and what it *)
(* was taken of has an offset in the other one: that is added to it again. *)
OffsetKept(a) ==
  Ok(a.s) /\ \E d \in DOMAIN a.shape \ Wide(a.shape) : a.s.dims[d].offset.val # 0

(* Anything but a constant zero is added in a dimension with a modulo: it  *)
(* is added before the remainder is taken, and where addState allows it    *)
(* (and warns) the modulos of the two dimensions change places as well.    *)
WrapShifted(a, b) ==
  Ok(a.s) /\ Ok(b.s) /\ \E d \in DOMAIN a.s.dims, swap \in BOOLEAN :
    LET wrapped == (IF swap THEN b ELSE a).s.dims[d]
        added == (IF swap THEN a ELSE b).s.dims[d]
    IN DimHasModulo(wrapped) /\ ~IsTensor(added.offset)
         /\ (~HasConstZero(added.offset) \/ added.stride.val # 0)

(* What has a modulo is multiplied by a number that is not positive: the   *)
(* modulo of the product is not either.                                    *)
WrapScaled(a, b) ==
  Ok(a.s) /\ Ok(b.s) /\ \E swap \in BOOLEAN :
    LET wrapped == (IF swap THEN b ELSE a).s
        scalar == (IF swap THEN a ELSE b).s.scalar
    IN HasModulo(wrapped) /\ Present(scalar) /\ scalar.val <= 0

(* The factors of an unstructured offset add up to the constant zero: the  *)
(* next sum takes it for a dimension that its operand is not in, and stops *)
(* at an assert.                                                           *)
FactorsCancel(st) == Ok(st) /\ \E d \in Unstructured(st) : HasConstZero(st.dims[d].stride)

If(condition, pattern) == IF condition THEN {pattern} ELSE {}

SumPatterns(a, b, sum) ==
  If(RangeDropped(a, b), "range dropped") \cup If(WrapShifted(a, b), "wrap shifted")
    \cup If(FactorsCancel(sum), "factors cancel")

-----------------------------------------------------------------------------
Add(a, b) ==
  /\ IntOperands(a, b)
  /\ LET u == VisitAdd(a, b, a.u, b.u, TRUE) IN
       Arith(a, b, Elementwise(Plus, a, b), VisitAdd(a, b, a.s, b.s, FALSE), u,
         MaxOf(a.degree, b.degree), SumPatterns(a, b, u))

Sub(a, b) ==
  /\ IntOperands(a, b)
  /\ LET u == VisitSub(a.u, b.u, TRUE) IN
       Arith(a, b, Elementwise(Minus, a, b), VisitSub(a.s, b.s, FALSE), u,
         MaxOf(a.degree, b.degree),
         SumPatterns(a, b, u) \cup If(SignLost(b), "sign lost")
           \cup If(Ok(b.s) /\ HasModulo(b.s), "wrap shifted"))

Mul(a, b) ==
  /\ IntOperands(a, b)
  /\ Arith(a, b, Elementwise(Times, a, b),
       VisitMul(a, b, a.s, b.s, FALSE), VisitMul(a, b, a.u, b.u, TRUE),
       IF a.degree = 0 \/ b.degree = 0 THEN MaxOf(a.degree, b.degree) ELSE 2,
       If(WrapScaled(a, b), "wrap scaled"))

Rem(a, b) ==
  /\ IntOperands(a, b) /\ \A x \in Elements(b.shape) : b.elem[x] > 0
  /\ LET elem == Elementwise(RemSI, a, b) IN
       Arith(a, b, elem, VisitRem(a.s, b.s, a.shape, elem),
         rebuildAsUnsupportedOp(FALSE, a.shape, elem), 2,
         If(ScalarStale(a), "scalar stale") \cup If(OffsetKept(a), "offset kept"))

LessThan(m, n) == IF m < n THEN 1 ELSE 0

(* arith.cmpi slt and the extension of its result: the left operand's state. *)
Cmp(a, b) ==
  /\ IntOperands(a, b)
  /\ Arith(a, b, Elementwise(LessThan, a, b), a.s, a.u, 2, {"comparison"})

(* rewriteAddptrOp on a tensor of pointers, the state s known *)
Rewrite(s, u) ==
  IF ~Ok(s) THEN s
  ELSE IF IsStructured(s) THEN s
  ELSE IF ~enableMakeGatherScatterTensorPtr \/ Rank(s) = 1 THEN Failure
  ELSE IF ~Ok(u) THEN u
  ELSE mergeUnstructuredState(s, u)

VisitAddptr(l, r, mode) ==
  IF ~BothOk(l, r) THEN FirstNotOk(l, r)
  ELSE IF ~l.source THEN Assertion ELSE addState(l, r, mode)

AddPtr(a, b) ==
  /\ Operands(a, b) /\ a.isPtr
  /\ LET s == VisitAddptr(a.s, b.s, FALSE)
         u == VisitAddptr(a.u, b.u, TRUE)
         emitted == Rewrite(s, u)
     IN Combine([Result(TRUE, a.shape, Elementwise(Plus, a, b),
                   IF Ok(emitted) THEN emitted ELSE s, MaxOf(a.degree, b.degree))
                   EXCEPT !.u = u, !.emitted = emitted,
                          !.patterns = a.patterns \cup b.patterns \cup SumPatterns(a, b, u)])

-----------------------------------------------------------------------------
Leaf ==
  /\ Len(operands) < MaxValues
  /\ \/ \E start \in Starts, n \in Extents : MakeRange(start, n)
     \/ \E isPtr \in BOOLEAN, n \in Arguments, shape \in Shapes : Splat(isPtr, n, shape)
     \/ \E n \in Constants, shape \in Shapes : ConstSplat(n, shape)
     \/ \E shape \in Shapes : UnsupportedOp(shape)

Unary ==
  /\ operands # <<>>
  /\ \/ \E axis \in {1, 2} : ExpandDims(axis)
     \/ \E shape \in Shapes : Broadcast(shape)

(* The last two values are the operands in either order. *)
Binary ==
  /\ Len(operands) >= 2
  /\ \E i \in {0, 1} :
       LET a == operands[Len(operands) - i] b == operands[Len(operands) - 1 + i] IN
         Add(a, b) \/ Sub(a, b) \/ Mul(a, b) \/ Rem(a, b) \/ Cmp(a, b) \/ AddPtr(a, b)

Next == Leaf \/ Unary \/ Binary

Spec == Init /\ [][Next]_vars

-----------------------------------------------------------------------------
Describes(st, v) == \A x \in Elements(v.shape) : Decoded(st, x) = v.elem[x]

KnownPatterns == {"range dropped", "sign lost", "scalar stale", "offset kept", "comparison",
                  "wrap shifted", "wrap scaled", "factors cancel"}

StateOK(st, shape) ==
  /\ st.outcome \in {"ok", "failed", "assert"} /\ st.source \in BOOLEAN
  /\ Ok(st) =>
       /\ [d \in DOMAIN st.dims |-> st.dims[d].size] = shape
       /\ \A d \in DOMAIN st.dims :
            /\ Present(st.dims[d].offset)
            /\ IsTensor(st.dims[d].offset) => DOMAIN st.dims[d].offset.val = 0 .. shape[d] - 1
            /\ ~IsTensor(st.dims[d].stride) /\ ~IsTensor(st.dims[d].shape)

(* The states of a value have its rank and its sizes, and an unstructured  *)
(* offset has the extent of its dimension.                                 *)
TypeOK ==
  /\ ops \in 0 .. MaxOps /\ Len(operands) <= MaxValues
  /\ \A i \in DOMAIN operands : LET v == operands[i] IN
       /\ v.patterns \subseteq KnownPatterns /\ v.degree \in 0 .. 2
       /\ DOMAIN v.elem = Elements(v.shape)
       /\ StateOK(v.s, v.shape) /\ StateOK(v.u, v.shape) /\ StateOK(v.emitted, v.shape)

Exact(patterns) ==
  \A i \in DOMAIN operands : LET v == operands[i] IN
    Ok(v.emitted) /\ v.patterns \subseteq patterns => Describes(v.emitted, v)

(* What rewriteAddptrOp emits points, for every index, where the tt.addptr *)
(* it replaces does: through any sequence of splats, ranges, broadcasts,   *)
(* sums, products and remainders, whichever dimension became unstructured  *)
(* on the way, as long as none of the patterns above was met but the last. *)
AddressesExact == Exact({"factors cancel"})

(* A range and an unstructured offset of one dimension are added exactly:  *)
(* "lhs_offset * stride + rhs_offset * stride, it is same as (lhs_offset + *)
(* rhs_offset) * stride"; an unstructured offset is subtracted exactly:    *)
(* "SubI(a,b) == AddI(a,-b)".                                              *)
GathersExact == Exact({"range dropped", "sign lost"})

(* visitOperandMul multiplies by a state's scalar and visitOperandRem      *)
(* divides by it, whatever else the state holds: a state with a scalar is  *)
(* that of a uniform tensor and its scalar is every element of it.         *)
ScalarIsUniform ==
  \A i \in DOMAIN operands : LET v == operands[i] IN
    Ok(v.s) /\ Present(v.s.scalar) /\ v.patterns \subseteq {"factors cancel"}
      => \A x \in Elements(v.shape) : v.elem[x] = v.s.scalar.val

(* Pointer arithmetic affine in the index (sums and differences of ranges, *)
(* uniform tensors and products of the two) is decoded as a structured     *)
(* state, whose tt.addptr becomes tts.make_tptr: the fast path is not lost *)
(* to the order the kernel's author wrote the operations in.               *)
AffineStructured ==
  \A i \in DOMAIN operands : LET v == operands[i] IN
    v.degree <= 1 => Ok(v.s) /\ IsStructured(v.s)

(* No kernel stops the compiler: the asserts of the analysis, which say    *)
(* what its callers have made sure of, hold in both modes unless factors   *)
(* cancel, and the states it leaves have the rank and the sizes of their   *)
(* tensors.                                                                *)
AssertsHold == TypeOK /\
  \A i \in DOMAIN operands : LET v == operands[i] IN
    v.s # Assertion /\ (v.emitted = Assertion => "factors cancel" \in v.patterns)
=============================================================================
