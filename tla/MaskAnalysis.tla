---------------------------- MODULE MaskAnalysis ----------------------------
(***************************************************************************)
(* MaskAnalysis over the integer and mask tensors of a kernel.  A step     *)
(* adds one operation of the kernel: it computes what the operation yields *)
(* (the reference) and the MaskState parse... computes for it.  Beside     *)
(* them it keeps the PtrState that PtrAnalysis has for an integer tensor:  *)
(* inside a loop, parseLoopIterArg takes its range from there.             *)
(*                                                                         *)
(* parse walks the operands of an operation again at each use; what it     *)
(* finds depends on the operands' states alone, so the states are kept     *)
(* beside the values.  At most three values are not used yet, a mask and   *)
(* the two sides of the next comparison, and each is used once.            *)
(*                                                                         *)
(* The definitions named Bug_... are defective variants of the definition  *)
(* after them, for the run that shows a property fail with it.             *)
(***************************************************************************)
EXTENDS PtrState, MaskState

CONSTANTS
  Shapes,       \* shapes of the tensors of the kernel
  Starts,       \* starts of a tt.make_range
  Extents,      \* sizes of a tt.make_range
  Scalars,      \* what is splat: constants and values known when it runs
  Steps,        \* what a loop adds to its argument
  Bound         \* bound on the absolute value of integers and offsets

ASSUME ShapesAssumption ==
  Shapes \subseteq Seq(Nat \ {0}) /\ \A shape \in Shapes : Len(shape) \in 1 .. 2

ASSUME InputsAssumption ==
  /\ Extents \subseteq Nat \ {0, 1}      \* a range of one element is folded
  /\ Starts \subseteq Nat /\ Steps \subseteq Int /\ Bound \in Nat
  /\ Scalars \subseteq [kind : {"constant", "value"}, val : Int]

VARIABLE operands    \* the values not used yet

(* A value of the kernel.  form is how it was made in "the general         *)
(* lifetime of this data structure": a range with scalars added, a uniform *)
(* tensor, a mask of comparisons of the two; other values are outside it.  *)
Result(isBool, shape, elem, st, ptr, form) ==
  [isBool |-> isBool, shape |-> shape, elem |-> elem, m |-> st, p |-> ptr,
   form |-> form, carried |-> FALSE, patterns |-> {}]

InBounds(v) ==
  IF v.isBool THEN TRUE
  ELSE /\ \A x \in DOMAIN v.elem : v.elem[x] \in -Bound .. Bound
       /\ \A d \in DOMAIN v.p.dims : v.p.dims[d].offset.val \in -Bound .. Bound

Init == operands = <<>>

Push(v) ==
  /\ InBounds(v)
  /\ operands' = Append(operands, v)

(* An operation on the last value. *)
Replace(v) ==
  /\ InBounds(v)
  /\ operands' = [operands EXCEPT ![Len(operands)] = v]

(* An operation on the last two values. *)
Combine(v) ==
  /\ InBounds(v)
  /\ operands' = Append(SubSeq(operands, 1, Len(operands) - 2), v)

Last == operands[Len(operands)]

If(condition, pattern) == IF condition THEN {pattern} ELSE {}

-----------------------------------------------------------------------------
(* The patterns decoded wrongly, named in the README; what is decoded      *)
(* without them is decoded exactly.                                        *)

(* A lower bound is taken to hold, an unsigned bound to be a signed one.   *)
BelowZero(a, b, pred) ==
  \/ pred = "sge" /\ \E x \in DOMAIN a.elem : a.elem[x] < 0
  \/ pred = "ult" /\ \E x \in DOMAIN a.elem : a.elem[x] < 0 \/ b.elem[x] < 0

(* The extent 0 of a dimension of size 1 is replaced by the size it is     *)
(* broadcast to, and no other dimension is empty.                          *)
ExtentLost(v, shape) ==
  /\ Parsed(v.m) /\ \E d \in DOMAIN shape : v.shape[d] < shape[d] /\ v.m.dims[d].val = 0
  /\ \A d \in DOMAIN shape : v.shape[d] = shape[d] => v.m.dims[d].val # 0

(* The offset the loop carries is that of dimension 0, and the range has   *)
(* one of its own in dimension 1.                                          *)
CarriedColumn(v) == Ok(v.p) /\ Rank(v.p) = 2 /\ v.p.dims[2].offset.val # 0

(* A uniform tensor the loop carries is taken for a range of as many       *)
(* elements as its value.                                                  *)
CarriedUniform(v) == Parsed(v.m) /\ isScalar(v.m)

(* The range is not the left operand, or both operands are ranges.         *)
RangeOnTheRight(b) == Parsed(b.m) /\ ~isScalar(b.m)

-----------------------------------------------------------------------------
(* Operations without tensor operands *)

MakeRange(start, n) ==
  Push(Result(FALSE, <<n>>, [x \in Elements(<<n>>) |-> start + x[1]], parseMakeRange(start, n),
              State(FALSE, Absent, <<Dim(Attr(start), n, Attr(1))>>), "range"))

(* tt.splat of an integer, or a constant tensor *)
Splat(scalar, shape) ==
  LET src == State(FALSE, scalar, <<>>) IN
    Push(Result(FALSE, shape, [x \in Elements(shape) |-> scalar.val], parseUniform(scalar, shape),
                [src EXCEPT !.dims = SplatDims(src, shape)], "uniform"))

SplatBool(b, shape) ==
  Push(Result(TRUE, shape, [x \in Elements(shape) |-> b], parseSplatBool(b, shape), Failure, "mask"))

-----------------------------------------------------------------------------
(* Operations with one operand *)

ExpandDims(axis) ==
  /\ Len(Last.shape) = 1
  /\ LET shape == InsertDim(Last.shape, axis, 1) IN
       Replace([Last EXCEPT !.shape = shape,
                  !.elem = [x \in Elements(shape) |-> Last.elem[<<x[3 - axis]>>]],
                  !.m = parseExpandDims(@, axis), !.p = ExpandState(@, axis)])

Broadcast(shape) ==
  /\ Len(Last.shape) = Len(shape) /\ Last.shape # shape
  /\ \A d \in DOMAIN shape : Last.shape[d] \in {1, shape[d]}
  /\ Replace([Last EXCEPT !.shape = shape,
                !.elem = [x \in Elements(shape) |->
                            Last.elem[[d \in DOMAIN shape |-> IF Last.shape[d] = 1 THEN 0 ELSE x[d]]]],
                !.m = parseBroadcast(@, Last.shape, shape), !.p = BroadcastState(@, shape),
                !.form = IF @ = "range" THEN "other" ELSE @,
                !.patterns = @ \cup If(Last.isBool /\ ExtentLost(Last, shape), "extent lost")])

(* The value becomes what a loop starts with; what follows is the tensor   *)
(* of the iteration before which the loop has added step to it.            *)
LoopIterArg(step, nested) ==
  /\ ~Last.isBool /\ Ok(Last.p)
  /\ LET offset == Value(Last.p.dims[1].offset.val + step)
         unknown == nested \/ Last.carried
     IN Replace([Last EXCEPT !.elem = [x \in DOMAIN @ |-> @[x] + step],
                   !.m = parseLoopIterArg(@, offset, unknown),
                   !.p = [@ EXCEPT !.dims[1].offset = offset, !.scalar = Absent],
                   !.form = IF @ = "range" /\ ~unknown THEN @ ELSE "other",
                   !.carried = TRUE,
                   !.patterns = @ \cup If(CarriedColumn(Last), "carried column")
                                  \cup If(CarriedUniform(Last), "carried uniform")])

-----------------------------------------------------------------------------
(* Operations with two operands *)

Binary(isBool, a, b, elem, st, ptr, form, new) ==
  Combine([Result(isBool, a.shape, elem, st, ptr, form)
             EXCEPT !.carried = a.carried \/ b.carried,
                    !.patterns = a.patterns \cup b.patterns \cup new])

PtrSum(a, b) == IF Ok(a.p) /\ Ok(b.p) THEN addState(a.p, b.p, FALSE) ELSE Failure

AddI(a, b) ==
  /\ ~a.isBool /\ ~b.isBool
  /\ Binary(FALSE, a, b, [x \in DOMAIN a.elem |-> a.elem[x] + b.elem[x]],
       parseAdd(a.m, b.m), PtrSum(a, b),
       IF {a.form, b.form} = {"range", "uniform"} THEN "range" ELSE "other", {})

AndI(a, b) ==
  /\ a.isBool /\ b.isBool
  /\ Binary(TRUE, a, b, [x \in DOMAIN a.elem |-> a.elem[x] /\ b.elem[x]],
       parseAnd(a.m, b.m), Failure,
       IF {a.form, b.form} = {"mask"} THEN "mask" ELSE "other", {})

(* Bitwise and, of elements 0 and 1: no range is left to compare. *)
AndIntegers(a, b) ==
  /\ ~a.isBool /\ ~b.isBool
  /\ \A x \in DOMAIN a.elem : a.elem[x] \in {0, 1} /\ b.elem[x] \in {0, 1}
  /\ Binary(FALSE, a, b, [x \in DOMAIN a.elem |-> a.elem[x] * b.elem[x]],
       parseAnd(a.m, b.m), Failure, "other", {"and of integers"})

Plain(a, b, pred) ==
  /\ a.form = "range" /\ b.form = "uniform"
  /\ pred \in {"slt", "ult"} \/ (pred = "sge" /\ b.m.scalar = Const(0))

CmpI(a, b, pred) ==
  /\ ~a.isBool /\ ~b.isBool
  /\ Binary(TRUE, a, b, [x \in DOMAIN a.elem |-> Holds(pred, a.elem[x], b.elem[x])],
       parseCmp(a.m, b.m, pred), Failure, IF Plain(a, b, pred) THEN "mask" ELSE "other",
       If(BelowZero(a, b, pred), "below zero")
         \cup If(RangeOnTheRight(b), "range on the right"))

-----------------------------------------------------------------------------
(* A third value is what the second one is compared with. *)
Leaf ==
  /\ Len(operands) < 3
  /\ \/ Len(operands) < 2 /\ \E start \in Starts, n \in Extents : MakeRange(start, n)
     \/ Len(operands) < 2 /\ \E b \in BOOLEAN, shape \in Shapes : SplatBool(b, shape)
     \/ \E scalar \in Scalars, shape \in Shapes : Splat(scalar, shape)

Unary ==
  /\ operands # <<>>
  /\ \/ \E axis \in {1, 2} : ExpandDims(axis)
     \/ \E shape \in Shapes : Broadcast(shape)
     \/ \E step \in Steps, nested \in BOOLEAN : LoopIterArg(step, nested)

(* The two values are the operands in either order. *)
Combining ==
  /\ Len(operands) >= 2
  /\ \E i \in {Len(operands), Len(operands) - 1} :
       LET a == operands[i] b == operands[2 * Len(operands) - 1 - i] IN
         /\ a.shape = b.shape
         /\ \/ AddI(a, b) \/ AndI(a, b) \/ AndIntegers(a, b)
            \/ \E pred \in Predicates : CmpI(a, b, pred)

Next == Leaf \/ Unary \/ Combining

Spec == Init /\ [][Next]_operands

-----------------------------------------------------------------------------
KnownPatterns == {"below zero", "extent lost", "carried column", "carried uniform",
                  "and of integers", "range on the right"}

(* The states of a value have its rank; a mask has no other field.         *)
TypeOK ==
  /\ Len(operands) <= 3
  /\ \A i \in DOMAIN operands : LET v == operands[i] IN
       /\ v.form \in {"range", "uniform", "mask", "other"} /\ v.patterns \subseteq KnownPatterns
       /\ DOMAIN v.elem = Elements(v.shape)
       /\ v.m.outcome \in {"ok", "failed", "crash"}
       /\ Parsed(v.m) /\ "and of integers" \notin v.patterns
            => Len(v.m.dims) = Len(v.shape) /\ (v.isBool => isMask(v.m))
       /\ ~v.isBool /\ Ok(v.p) => Rank(v.p) = Len(v.shape)

(* A mask that is decoded selects exactly the elements it is true for:     *)
(* through any sequence of ranges moved by scalars, expanded, compared,    *)
(* broadcast and anded, inside and outside a loop, as long as none of the  *)
(* patterns above was met.                                                 *)
SelectsExactly ==
  \A i \in DOMAIN operands : LET v == operands[i] IN
    v.isBool /\ Parsed(v.m) /\ v.patterns = {}
      => \A x \in Elements(v.shape) : Selects(v.m, x) <=> v.elem[x]

(* Even where it selects the wrong elements, a mask's box lies within the  *)
(* tile: the subviews and slices made of it (getSubview, getExtractSlice)  *)
(* are in bounds whatever the limits are.  A uniform tensor carried around *)
(* a loop is the exception.                                                *)
BoxInTile ==
  \A i \in DOMAIN operands : LET v == operands[i] IN
    v.isBool /\ Parsed(v.m) /\ v.patterns \cap {"carried uniform", "and of integers"} = {}
      => \A d \in DOMAIN v.shape : v.m.dims[d].val \in 0 .. v.shape[d]

(* A mask's box is the set of elements the mask is true for, and lies      *)
(* within the tile it is copied from and to.                               *)
BoxExact == SelectsExactly /\ BoxInTile

(* A mask made in the general lifetime is decoded, in whatever order its   *)
(* range was moved, expanded and carried around a loop, and its            *)
(* comparisons broadcast and anded: the load keeps its block copy.         *)
PlainDecoded ==
  \A i \in DOMAIN operands : LET v == operands[i] IN
    v.form # "other" => Parsed(v.m)

(* No kernel stops the compiler, or makes it use a bound that is not there:*)
(* "Unexpected case where no dimension has size larger than 1".  Integers  *)
(* anded, a range on the right and a uniform tensor carried around a loop  *)
(* are the exceptions.  What it decodes has a dimension for each one of    *)
(* the tensor.                                                             *)
AssertsHold == TypeOK /\
  \A i \in DOMAIN operands : LET v == operands[i] IN
    v.m.outcome = "crash"
      => v.patterns \cap {"and of integers", "range on the right", "carried uniform"} # {}
=============================================================================
