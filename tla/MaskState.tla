----------------------------- MODULE MaskState ------------------------------
(***************************************************************************)
(* MaskState (Analysis/MaskAnalysis.h, MaskAnalysis.cpp): how the compiler *)
(* describes the mask of a load or store, and the integers it is made of:  *)
(*   a range      start, start + 1, ... up to end, along one dimension     *)
(*   a scalar     the value of every element                               *)
(*   a mask       the box of the elements x with x[d] < dims[d]            *)
(* A state is a mask when it has neither start nor end nor scalar.         *)
(*                                                                         *)
(* The definitions named Bug_... are defective variants of the definition  *)
(* after them, for the run that shows a property fail with it.             *)
(***************************************************************************)
EXTENDS OpFoldResult, Sequences, FiniteSets

MaskOf(start, end, scalar, dims) ==
  [outcome |-> "ok", start |-> start, end |-> end, scalar |-> scalar, dims |-> dims]

(* failure() of a parse..., most with a diagnostic *)
Undecoded == [MaskOf(Absent, Absent, Absent, <<>>) EXCEPT !.outcome = "failed"]

(* An assert does not hold, or a field that is not there is used. *)
Crash == [Undecoded EXCEPT !.outcome = "crash"]

Parsed(st) == st.outcome = "ok"

isScalar(st) == Present(st.scalar)

isMask(st) == ~Present(st.start) /\ ~Present(st.end) /\ ~Present(st.scalar) /\ st.dims # <<>>

Attrs(shape) == [d \in DOMAIN shape |-> Attr(shape[d])]

-----------------------------------------------------------------------------
parseMakeRange(start, n) == MaskOf(Attr(start), Attr(start + n), Absent, <<Attr(n)>>)

(* parseConstant and parseSplat of an integer *)
parseUniform(scalar, shape) == MaskOf(Absent, Absent, scalar, Attrs(shape))

(* "Special handling for i1 (bool) splat": all or nothing *)
parseSplatBool(b, shape) ==
  MaskOf(Absent, Absent, Absent, [d \in DOMAIN shape |-> Value(IF b THEN shape[d] ELSE 0)])

parseExpandDims(st, axis) ==
  IF ~Parsed(st) THEN st
  ELSE IF axis > Len(st.dims) + 1 THEN Undecoded
  ELSE [st EXCEPT !.dims = SubSeq(@, 1, axis - 1) \o <<Attr(1)>> \o SubSeq(@, axis, Len(@))]

parseBroadcast(st, src, dst) ==
  IF ~Parsed(st) THEN st
  ELSE IF Len(st.dims) < Len(src) THEN Undecoded
  ELSE [st EXCEPT !.dims =
          [d \in DOMAIN @ |-> IF d \in DOMAIN src /\ src[d] < dst[d] THEN Attr(dst[d]) ELSE @[d]]]

FirstUnparsed(l, r) == IF ~Parsed(l) THEN l ELSE r

BothParsed(l, r) == Parsed(l) /\ Parsed(r)

-----------------------------------------------------------------------------
addStateScalar(st, k) ==
  IF ~Present(st.start) \/ ~Present(st.end) THEN Crash
  ELSE [st EXCEPT !.start = AddOFRs(@, k), !.end = AddOFRs(@, k)]

(* Only the right operand may be the scalar. *)
Bug_parseAdd(l, r) ==
  IF ~BothParsed(l, r) THEN FirstUnparsed(l, r)
  ELSE IF isScalar(l) = isScalar(r) THEN Undecoded
  ELSE addStateScalar(l, r.scalar)

parseAdd(l, r) ==
  IF ~BothParsed(l, r) THEN FirstUnparsed(l, r)
  ELSE IF isScalar(l) = isScalar(r) THEN Undecoded
  ELSE IF isScalar(l) THEN addStateScalar(r, l.scalar)
  ELSE addStateScalar(l, r.scalar)

minStateScalar(l, r) ==
  IF isScalar(l) /\ isScalar(r) THEN <<MinOFRs(l.dims[1], r.dims[1])>>
  ELSE IF isScalar(l) THEN [d \in DOMAIN r.dims |-> MinOFRs(l.dims[1], r.dims[d])]
  ELSE [d \in DOMAIN l.dims |-> MinOFRs(l.dims[d], r.dims[1])]

minStates(l, r) == [d \in DOMAIN l.dims |-> MinOFRs(l.dims[d], r.dims[d])]

parseAnd(l, r) ==
  IF ~BothParsed(l, r) THEN FirstUnparsed(l, r)
  ELSE IF isMask(l) /\ isMask(r)
    THEN IF Len(l.dims) = Len(r.dims)
           THEN MaskOf(Absent, Absent, Absent, minStates(l, r)) ELSE Undecoded
  ELSE IF isScalar(l) \/ isScalar(r)
    THEN MaskOf(Absent, Absent, Absent, minStateScalar(l, r))
  ELSE Undecoded

-----------------------------------------------------------------------------
Predicates == {"slt", "ult", "sge", "sle"}

(* arith.cmpi; a negative number is a large unsigned one *)
Holds(pred, m, n) ==
  CASE pred = "slt" -> m < n
    [] pred = "ult" -> IF (m < 0) = (n < 0) THEN m < n ELSE n < 0
    [] pred = "sge" -> m >= n
    [] pred = "sle" -> m <= n

(* Attributes are compared as signed numbers whatever the predicate. *)
compareOFRs(a, b, pred, yes, no) ==
  IF IsAttr(a) /\ IsAttr(b)
    THEN IF (IF pred = "sge" THEN a.val >= b.val ELSE a.val < b.val) THEN yes ELSE no
    ELSE Value(IF Holds(pred, a.val, b.val) THEN yes.val ELSE no.val)

(* The dimensions not known to be of size 1. *)
WideDims(st) == {d \in DOMAIN st.dims : st.dims[d] # Attr(1)}

ClampedDim(l, limit) == SubOFRs(MaxOFRs(MinOFRs(l.end, limit), l.start), l.start)

(* The dimension compared, 0 for none. *)
CmpDim(l, r) ==
  IF isScalar(l) /\ isScalar(r) THEN 1
  ELSE IF WideDims(l) = {} THEN 0
  ELSE CHOOSE d \in WideDims(l) : TRUE

(* Dimensions of size 1 count. *)
Bug_TooWide(l, r) == Len(l.dims) > (IF isScalar(l) /\ isScalar(r) THEN 0 ELSE 1)

(* "Unsupported cmpi with more than one dimension with size larger than 1":*)
(* between two scalars a dimension has been chosen before the first.       *)
TooWide(l, r) ==
  Cardinality(WideDims(l)) > (IF isScalar(l) /\ isScalar(r) THEN 0 ELSE 1)

CmpAsserts(l, r, pred) ==
  /\ CmpDim(l, r) # 0 \/ (~isScalar(l) /\ pred = "slt") \/ pred = "ult"
  /\ isScalar(l) => isScalar(r)
  /\ ~isScalar(l) /\ pred # "sge" => Present(l.start) /\ Present(l.end) /\ isScalar(r)

NewDim(l, r, pred) ==
  IF isScalar(l)
    THEN compareOFRs(l.scalar, r.scalar, pred, l.dims[CmpDim(l, r)], Attr(0))
  ELSE IF pred # "sge" THEN ClampedDim(l, r.scalar)
  ELSE l.dims[CmpDim(l, r)]

(* "sge against 0": the lower bound is taken to hold. *)
parseCmp(l, r, pred) ==
  IF pred = "sle" THEN Undecoded
  ELSE IF ~BothParsed(l, r) THEN FirstUnparsed(l, r)
  ELSE IF pred = "sge" /\ ~(isScalar(r) /\ HasConstZero(r.scalar)) THEN Undecoded
  ELSE IF TooWide(l, r) THEN Undecoded
  ELSE IF ~CmpAsserts(l, r, pred) THEN Crash
  ELSE MaskOf(Absent, Absent, Absent,
         [d \in DOMAIN l.dims |-> IF d = CmpDim(l, r) THEN NewDim(l, r, pred) ELSE l.dims[d]])

-----------------------------------------------------------------------------
(* The offset the loop carries is not that of this iteration. *)
Bug_parseLoopIterArg(init, offset, nested) ==
  IF nested \/ ~Parsed(init) \/ isScalar(init) THEN Undecoded ELSE init

(* The tensor of a loop's iteration: init is the state of the tensor the   *)
(* loop starts with, offset the loop's argument at argIndex + 1.           *)
parseLoopIterArg(init, offset, nested) ==
  LET start == IF isScalar(init) THEN Attr(0) ELSE init.start
      end == IF isScalar(init) THEN init.scalar ELSE init.end
  IN IF nested \/ ~Parsed(init) THEN Undecoded
     ELSE IF ~Present(start) \/ ~Present(end) THEN Crash
     ELSE MaskOf(offset, AddOFRs(offset, SubOFRs(end, start)), Absent, init.dims)

-----------------------------------------------------------------------------
(* What a mask says of the element x. *)
Selects(st, x) == \A d \in DOMAIN x : x[d] < st.dims[d].val
=============================================================================
