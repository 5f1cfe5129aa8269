---------------------------- MODULE ArithToLinalg ----------------------------
(***************************************************************************)
(* The tensor operations of a kernel as TritonArithToLinalg lowers them:   *)
(* shapes, elementwise arithmetic, tt.dot and the three lowerings of       *)
(* tt.reduce (ConversionPatterns.hpp), and tt.scan (ConvertScanOpPass).    *)
(*                                                                         *)
(* A step is one operation of a kernel, on values computed before it.  It  *)
(* appends what the lowered operation computes; last holds, element by     *)
(* element, what the operation means.  An operation that means one thing   *)
(* in one order of evaluation and another thing in another (a reduction of *)
(* narrow floats) allows each.  An operation the compiler stops at, by an  *)
(* assertion or an unreachable, leaves no value and goes into aborts.      *)
(*                                                                         *)
(* The definitions named Bug_... are defective variants of the definition  *)
(* after them, for the run that shows a property fail with it.             *)
(***************************************************************************)
EXTENDS ScanOp

CONSTANTS
  Inputs,   \* the tensors a kernel may be given
  MaxOps    \* bound on the values a kernel computes

ASSUME InputsAssumption ==
  \A t \in Inputs : DOMAIN t.at = Idx(t.shape) /\ t.ty \in Floats \cup {"int"}

VARIABLES
  vals,       \* the values of the kernel, each a tensor and what defines it
  last,       \* the last operation: its group, its results, what they may be
  splats,     \* invariantsMap of the scan conversion
  aborts

vars == <<vals, last, splats, aborts>>

Value(t, def) == [t |-> t, def |-> def]

Init ==
  /\ \E t \in Inputs : vals = <<Value(t, "arg")>>
  /\ last = [group |-> "none", low |-> <<>>, may |-> <<>>]
  /\ splats = {}
  /\ aborts = {}

-----------------------------------------------------------------------------
(* Shapes *)

(* The source dimension of each coordinate, 0 for the constant 0. *)
getBroadcastAffineMap(from, to) ==
  LET diff == Len(to) - Len(from)
  IN  [j \in DOMAIN from |-> IF from[j] = 1 THEN 0 ELSE j + diff]

(* foldFill2Generic: an operand that is a fill is read as its scalar. *)
FoldFill(v, shape, map) ==
  IF v.def \in {"splat", "dense"}
    THEN Fill(shape, Scalar(v.t.ty, v.t.at[[d \in DOMAIN v.t.shape |-> 0]]))
    ELSE Indexed(v.t, shape, map)

BroadcastConverter(v, shape) == FoldFill(v, shape, getBroadcastAffineMap(v.t.shape, shape))

(* The new dimension joins the group of the one it is put before, the last *)
(* one where it is put last.                                               *)
ExpandGroups(rank, axis) ==
  [i \in 1 .. rank |->
     CASE axis = i -> <<i, i + 1>>
       [] axis = rank + 1 /\ i = rank -> <<i, i + 1>>
       [] OTHER -> <<IF axis < i THEN i + 1 ELSE i>>]

ExpandDimsConverter(t, axis) ==
  ExpandShape(t, SubSeq(t.shape, 1, axis - 1) \o <<1>> \o From(t.shape, axis),
              ExpandGroups(Len(t.shape), axis))

(* Without an order the last two dimensions change places. *)
getTransposedValue(t, order) ==
  LET r == Len(t.shape)
  IN  LinalgTranspose(t,
        IF order # <<>> THEN order
        ELSE [i \in 1 .. r |-> CASE i = r -> r - 1 [] i = r - 1 -> r [] OTHER -> i])

MakeRangeConverter(start, end) ==
  Tensor(<<end - start>>, "i32", [ix \in Idx(<<end - start>>) |-> ix[1] + start])

SplatConverter(shape, v) == Fill(shape, v)

CatConverter(s, t) == Concat(s, t)

(* Both take the slices 0 and 1 of the last dimension. *)
LastSlice(shape, i) ==
  [offsets |-> [d \in DOMAIN shape |-> IF d = Len(shape) THEN i ELSE 0],
   sizes |-> [d \in DOMAIN shape |-> IF d = Len(shape) THEN 1 ELSE shape[d]]]

SplitConverter(t) ==
  [i \in 1 .. 2 |->
     LET s == LastSlice(t.shape, i - 1)
     IN  ExtractSlice(t, s.offsets, s.sizes, Front(t.shape))]

JoinConverter(s, t) ==
  LET shape == Append(s.shape, 2)
      empty == Tensor(shape, s.ty, [ix \in Idx(shape) |-> 0])
      Into(u, into, i) == LET l == LastSlice(shape, i)
                          IN  InsertSlice(u, into, l.offsets, l.sizes)
  IN  Into(t, Into(s, empty, 0), 1)

(* The dimensions of the larger shape that make each of the smaller one:   *)
(* as many as their product needs, and the ones of size 1 after them       *)
(* unless the next dimension of the smaller shape is 1.                    *)
RECURSIVE Reassociate(_, _, _, _)
Reassociate(expanded, collapsed, e, c) ==
  IF c > Len(collapsed) \/ e > Len(expanded) THEN <<>>
  ELSE LET Size(m) == Product(SubSeq(expanded, e, m))
           reached == {m \in e .. Len(expanded) : Size(m) >= collapsed[c]}
           m == IF reached = {} THEN Len(expanded) ELSE CHOOSE x \in reached : \A y \in reached : x <= y
           exact == Size(m) = collapsed[c]
           ones == {x \in m .. Len(expanded) : \A y \in m + 1 .. x : expanded[y] = 1}
           absorbed == IF c = Len(collapsed) \/ collapsed[c + 1] # 1
                         THEN CHOOSE x \in ones : \A y \in ones : y <= x ELSE m
           end == IF exact THEN absorbed ELSE m - 1
       IN  <<[k \in 1 .. end - e + 1 |-> e + k - 1]>>
             \o Reassociate(expanded, collapsed, end + 1, c + 1)

Bug_createReassociationMaps(expanded, collapsed) == [i \in DOMAIN collapsed |-> <<i>>]

createReassociationMaps(expanded, collapsed) ==
  IF collapsed = <<>> THEN <<>> ELSE Reassociate(expanded, collapsed, 1, 1)

Reassociated(expanded, collapsed) ==
  LET groups == createReassociationMaps(expanded, collapsed)
  IN  collapsed = <<>>
        \/ /\ Len(expanded) # Len(collapsed)
           /\ Len(groups) = Len(collapsed) /\ \A i \in DOMAIN groups : groups[i] # <<>>
           /\ FlattenSeq(groups) = [d \in DOMAIN expanded |-> d]

(* Groups of adjacent dimensions whose products are the smaller shape. *)
Groupings(large, small) ==
  {g \in {[i \in DOMAIN small |-> [k \in 1 .. cut[i + 1] - cut[i] |-> cut[i] + k]] :
            cut \in {c \in [1 .. Len(small) + 1 -> 0 .. Len(large)] :
                       /\ c[1] = 0 /\ c[Len(small) + 1] = Len(large)
                       /\ \A i \in DOMAIN small : c[i] < c[i + 1]}} :
     \A i \in DOMAIN small : Product([k \in DOMAIN g[i] |-> large[g[i][k]]]) = small[i]}

ReshapeConverter(t, shape) ==
  LET down == Groupings(t.shape, shape)
      up   == Groupings(shape, t.shape)
  IN  IF Len(shape) < Len(t.shape) /\ down # {}
        THEN CollapseShape(t, shape, CHOOSE g \in down : TRUE)
      ELSE IF Len(shape) > Len(t.shape) /\ up # {}
        THEN ExpandShape(t, shape, CHOOSE g \in up : TRUE)
      ELSE TensorReshape(t, shape)

-----------------------------------------------------------------------------
(* Elements *)

MulHiUIOpConverter(a, b) == (a * b) \div (2 ^ Width)

(* propagate: tt.clampf with PropagateNan::ALL. *)
Bug_ClampConverter(x, min, max, propagate) ==
  IF propagate THEN Arith("maximumf", Arith("minimumf", x, max), min)
  ELSE Arith("maxnumf", Arith("minnumf", x, max), min)

ClampConverter(x, min, max, propagate) ==
  IF propagate THEN Arith("minimumf", Arith("maximumf", x, min), max)
  ELSE Arith("minnumf", Arith("maxnumf", x, min), max)

(* A comparison whose one use is a select of its own operands. *)
MinMaxConverter(pred) ==
  CASE pred \in {"ogt", "oge"} -> "maximumf"
    [] pred \in {"olt", "ole"} -> "minimumf"
    [] pred = "sgt" -> "maxsi"
    [] pred = "ugt" -> "maxui"
    [] pred = "slt" -> "minsi"
    [] pred = "ult" -> "minui"
    [] OTHER -> "unreachable"

(* A splat or a dense constant of zeros. *)
isZeroTensor(v) == v.def \in {"splat", "dense"} /\ \A ix \in DOMAIN v.t.at : v.t.at[ix] = 0

Matmul(a, b, ix) ==
  FoldLeft(LAMBDA acc, k : AddF(acc, MulF(a.at[<<ix[1], k - 1>>], b.at[<<k - 1, ix[2]>>])),
           0, [k \in 1 .. a.shape[2] |-> k])

MatmulConverter(a, b, c) ==
  [ix \in DOMAIN c.t.at |->
     IF isZeroTensor(c) THEN Matmul(a, b, ix) ELSE AddF(c.t.at[ix], Matmul(a, b, ix))]

-----------------------------------------------------------------------------
(* tt.reduce of one operand by one arithmetic operation *)

(* "arith.andi" shares the identity of the product. *)
getRedBaseConstOp(op) ==
  CASE op \in {"addf", "addi", "maxui", "xori", "ori"} -> 0
    [] op \in {"mulf", "muli", "andi"} -> 1
    [] op \in {"maximumf", "maxnumf"} -> -Inf
    [] op \in {"minimumf", "minnumf"} -> Inf
    [] op = "minsi" -> 2 ^ (Width - 1) - 1
    [] op = "minui" -> 2 ^ Width - 1
    [] op = "maxsi" -> 2 ^ (Width - 1)

(* Asked of the type of the result, which is a float only where the source *)
(* has one dimension; keepFp16ReduceAccInLinalg: an f16 sum stays f16.     *)
requiresF32Conversion(rank, ty, op) ==
  rank = 1 /\ ty # "f16" /\ ty \in Narrow /\ op = "addf"

AxisFirst(t, axis) ==
  getTransposedValue(t, <<axis>> \o SelectSeq([d \in DOMAIN t.shape |-> d], LAMBDA d : d # axis))

ReduceConverter(t, axis, op) ==
  LET moved  == Len(t.shape) > 1 /\ axis # 1
      source == IF moved THEN AxisFirst(t, axis) ELSE t
      dim    == IF moved THEN 1 ELSE axis
      acc    == IF requiresF32Conversion(Len(t.shape), t.ty, op) THEN "f32" ELSE t.ty
      Body(in, out) == <<Round(acc, Arith(op, in[1], out[1]))>>
      init   == <<[ix \in Idx(Without(source.shape, dim)) |-> getRedBaseConstOp(op)]>>
      sums   == ReduceColumns(Body, <<source.at>>, source.shape, dim, init)
  IN  <<Tensor(Without(t.shape, axis), t.ty, [ix \in DOMAIN sums |-> Round(t.ty, sums[ix][1])])>>

(* A body that only returns, on one element. *)
convertToTensorExtract(t) == <<Scalar(t.ty, t.at[<<0>>])>>

-----------------------------------------------------------------------------
(* tt.reduce by a region: its arguments are two tuples *)

Best(pred, tie, x, y) ==
  IF Compare(pred, x[1], y[1]) \/ (tie /\ Compare("oeq", x[1], y[1]) /\ x[2] < y[2]) THEN x ELSE y

Regions == {"argmax", "argmin", "argmax_any", "argmin_any", "pair", "first"}

Region(kind, x, y) ==
  CASE kind = "argmax" -> Best("ogt", TRUE, x, y)
    [] kind = "argmin" -> Best("olt", TRUE, x, y)
    [] kind = "argmax_any" -> Best("ogt", FALSE, x, y)
    [] kind = "argmin_any" -> Best("olt", FALSE, x, y)
    [] kind = "pair" -> <<AddF(x[1], y[1]), x[2] + y[2]>>
    [] kind = "first" -> <<AddF(x[1], y[1]), x[2]>>

(* matchShouldUpdateValue: only the tie break to the left is matched. *)
MatchesArgMinMax(kind) == kind \in {"argmax", "argmin"}

getBaseReductionValue(kind) == IF kind = "argmax" THEN -Inf ELSE Inf

Results(ts, at, axis) ==
  [i \in DOMAIN ts |-> Tensor(Without(ts[i].shape, axis), ts[i].ty, [ix \in DOMAIN at |-> at[ix][i]])]

ArgMinMaxBaseConverter(ts, axis, kind) ==
  LET shape == ts[1].shape
      base  == <<getBaseReductionValue(kind), -1>>
      init  == [i \in 1 .. 2 |-> [ix \in Idx(Without(shape, axis)) |-> base[i]]]
      Body(in, out) == Region(kind, in, out)
  IN  Results(ts, ReduceColumns(Body, <<ts[1].at, ts[2].at>>, shape, axis, init), axis)

sliceFirst(t, d) ==
  LET sizes == [t.shape EXCEPT ![d] = 1]
  IN  ExtractSlice(t, [i \in DOMAIN t.shape |-> 0], sizes, sizes)

Bug_sliceRemaining(t, d) ==
  LET sizes == [t.shape EXCEPT ![d] = @ - 1]
  IN  ExtractSlice(t, [i \in DOMAIN t.shape |-> 0], sizes, sizes)

sliceRemaining(t, d) ==
  LET sizes == [t.shape EXCEPT ![d] = @ - 1]
  IN  ExtractSlice(t, [i \in DOMAIN t.shape |-> IF i = d THEN 1 ELSE 0], sizes, sizes)

(* The first slice along the axis is the initial value of the rest. *)
normalReduceConverter(ts, axis, kind) ==
  LET shape  == ts[1].shape
      result == Without(shape, axis)
      Collapse(t) == CollapseShape(t, result, createReassociationMaps(t.shape, result))
      inits  == [i \in DOMAIN ts |-> Collapse(sliceFirst(ts[i], axis)).at]
      rest   == [i \in DOMAIN ts |-> sliceRemaining(ts[i], axis)]
      Body(in, out) == Region(kind, in, out)
  IN  IF shape[axis] <= 1
        THEN [i \in DOMAIN ts |-> Collapse(ts[i])]
        ELSE Results(ts, ReduceColumns(Body, [i \in DOMAIN ts |-> rest[i].at],
                                       rest[1].shape, axis, inits), axis)

(* The patterns with a match; a region of one supported operation is taken *)
(* by ReduceConverter whatever its results are, and replaced by one value. *)
Lowered(ts, axis, kind) ==
  IF MatchesArgMinMax(kind) THEN ArgMinMaxBaseConverter(ts, axis, kind)
  ELSE normalReduceConverter(ts, axis, kind)

ReduceAborts(ts, axis, kind) ==
  LET shape == ts[1].shape
      first == [shape EXCEPT ![axis] = 1]
  IN  (IF kind = "first" THEN {"results of a one-operation region"} ELSE {})
        \cup (IF ~MatchesArgMinMax(kind) /\ ~Reassociated(first, Without(shape, axis))
                THEN {"reassociation"} ELSE {})

-----------------------------------------------------------------------------
(* What the operations mean *)

Exactly(shape, ty, at) == [shape |-> shape, ty |-> ty, at |-> [ix \in DOMAIN at |-> {at[ix]}]]

ColumnOf(at, shape, axis, ix) == [k \in 1 .. shape[axis] |-> at[Column(shape, axis, ix)[k]]]

(* Combined in any order. *)
AnyOrder(Comb(_, _), elems) ==
  {FoldLeft(Comb, elems[p[1]], [k \in 1 .. Len(elems) - 1 |-> elems[p[k + 1]]]) :
     p \in Permutations(DOMAIN elems)}

(* A sum of bf16 is rounded once where the tensor has one dimension, and   *)
(* at each addition where it has more.                                     *)
ReduceSpec(t, axis, op) ==
  LET Comb(x, y) == Round(t.ty, Arith(op, x, y))
      Sum(elems) == Round(t.ty, FoldLeft(AddF, 0, elems))
  IN  <<[shape |-> Without(t.shape, axis), ty |-> t.ty,
         at |-> [ix \in Idx(Without(t.shape, axis)) |->
                   LET c == ColumnOf(t.at, t.shape, axis, ix)
                   IN  IF t.ty = "bf16" /\ op = "addf" /\ Len(t.shape) = 1 THEN {Sum(c)}
                       ELSE AnyOrder(Comb, c)]]>>

RegionSpec(ts, axis, kind) ==
  LET shape == ts[1].shape
      Comb(x, y) == Region(kind, x, y)
      Tuples(ix) == [k \in 1 .. shape[axis] |->
                       [i \in DOMAIN ts |-> ColumnOf(ts[i].at, shape, axis, ix)[k]]]
  IN  [i \in DOMAIN ts |->
         [shape |-> Without(shape, axis), ty |-> ts[i].ty,
          at |-> [ix \in Idx(Without(shape, axis)) |->
                    {x[i] : x \in AnyOrder(Comb, Tuples(ix))}]]]

-----------------------------------------------------------------------------
(* Steps *)

Ops == Len(vals) - 1

HasNaN(t) == \E ix \in DOMAIN t.at : IsNaN(t.at[ix])

(* A kernel starts with one tensor; each step adds the results of one      *)
(* operation, group for the properties.                                    *)
Compute(group, def, low, may) ==
  /\ vals' = vals \o [i \in DOMAIN low |-> Value(low[i], def)]
  /\ last' = [group |-> group, low |-> low, may |-> may]
  /\ UNCHANGED <<splats, aborts>>

Abort(why) ==
  /\ aborts' = aborts \cup why
  /\ UNCHANGED <<vals, last, splats>>

Operands == {vals[i] : i \in DOMAIN vals}
Tensors  == {v \in Operands : v.t.shape # <<>>}

TransOp ==
  \E v \in Tensors : \E order \in Permutations(DOMAIN v.t.shape) :
    LET t == v.t
    IN  /\ Len(t.shape) > 1
        /\ Compute("structure", "other", <<getTransposedValue(t, order)>>,
             <<Exactly([d \in DOMAIN t.shape |-> t.shape[order[d]]], t.ty,
                 [ix \in Idx([d \in DOMAIN t.shape |-> t.shape[order[d]]]) |->
                    t.at[CHOOSE jx \in DOMAIN t.at : \A d \in DOMAIN jx : ix[d] = jx[order[d]]]])>>)

(* tt.broadcast keeps the rank. *)
BroadcastOp ==
  \E v \in Tensors : \E to \in [DOMAIN v.t.shape -> 1 .. 2] :
    LET t == v.t
    IN  /\ to # t.shape /\ \A d \in DOMAIN to : to[d] # t.shape[d] => t.shape[d] = 1
        /\ Compute("structure", "other", <<BroadcastConverter(v, to)>>,
             <<Exactly(to, t.ty, [ix \in Idx(to) |->
                 t.at[[d \in DOMAIN to |-> IF ix[d] < t.shape[d] THEN ix[d] ELSE 0]]])>>)

ExpandDimsOp ==
  \E v \in Tensors : \E axis \in 1 .. Len(v.t.shape) + 1 :
    LET t == v.t
        shape == SubSeq(t.shape, 1, axis - 1) \o <<1>> \o From(t.shape, axis)
    IN  /\ Len(t.shape) < 3
        /\ Compute("structure", "other", <<ExpandDimsConverter(t, axis)>>,
             <<Exactly(shape, t.ty, [ix \in Idx(shape) |-> t.at[Without(ix, axis)]])>>)

ReshapeOp ==
  \E v \in Tensors : \E shape \in {<<4>>, <<2, 2>>, <<1, 4>>, <<2, 1, 2>>, <<2, 1>>, <<1, 2, 1>>} :
    LET t == v.t
    IN  /\ Product(shape) = Product(t.shape) /\ shape # t.shape /\ 4 \notin {shape[d] : d \in DOMAIN shape}
        /\ Compute("structure", "other", <<ReshapeConverter(t, shape)>>,
             <<Exactly(shape, t.ty, [ix \in Idx(shape) |->
                 t.at[CHOOSE jx \in DOMAIN t.at : Linear(t.shape, jx) = Linear(shape, ix)]])>>)

JoinOp ==
  \E v, w \in Tensors :
    LET s == v.t  t == w.t
    IN  /\ s.shape = t.shape /\ s.ty = t.ty /\ Len(s.shape) < 3
        /\ Compute("structure", "other", <<JoinConverter(s, t)>>,
             <<Exactly(Append(s.shape, 2), s.ty, [ix \in Idx(Append(s.shape, 2)) |->
                 (IF ix[Len(ix)] = 0 THEN s ELSE t).at[Front(ix)]])>>)

SplitOp ==
  \E v \in Tensors :
    LET t == v.t
    IN  /\ Len(t.shape) > 1 /\ t.shape[Len(t.shape)] = 2
        /\ Compute("structure", "other", SplitConverter(t),
             [i \in 1 .. 2 |-> Exactly(Front(t.shape), t.ty,
                [ix \in Idx(Front(t.shape)) |-> t.at[Append(ix, i - 1)]])])

CatOp ==
  \E v, w \in Tensors :
    LET s == v.t  t == w.t
        shape == <<s.shape[1] + t.shape[1]>>
    IN  /\ Len(s.shape) = 1 /\ Len(t.shape) = 1 /\ s.ty = t.ty /\ shape[1] <= 3
        /\ Compute("structure", "other", <<CatConverter(s, t)>>,
             <<Exactly(shape, s.ty, [ix \in Idx(shape) |->
                 IF ix[1] < s.shape[1] THEN s.at[ix] ELSE t.at[<<ix[1] - s.shape[1]>>]])>>)

(* A tensor of one value: tt.splat, or a dense constant. *)
SplatOp ==
  \E shape \in {<<2>>, <<2, 2>>} : \E c \in {0, 1} : \E def \in {"splat", "dense"} :
    /\ def \notin {v.def : v \in Operands}
    /\ Compute("structure", def, <<SplatConverter(shape, Scalar("f32", c))>>,
         <<Exactly(shape, "f32", [ix \in Idx(shape) |-> c])>>)

MakeRangeOp ==
  \E start \in {0, 1} : \E n \in {2, 3} :
    /\ "range" \notin {v.def : v \in Operands}
    /\ Compute("structure", "range", <<MakeRangeConverter(start, start + n)>>,
         <<Exactly(<<n>>, "i32", [ix \in Idx(<<n>>) |-> start + ix[1]])>>)

DotOp ==
  \E u, v, w \in Tensors :
    LET a == u.t  b == v.t  c == w.t
    IN  /\ Len(a.shape) = 2 /\ Len(b.shape) = 2 /\ a.shape[2] = b.shape[1]
        /\ c.shape = <<a.shape[1], b.shape[2]>> /\ c.ty = "f32" /\ a.ty = b.ty /\ a.ty \in Floats
        /\ Compute("elements", "other", <<Tensor(c.shape, "f32", MatmulConverter(a, b, w))>>,
             <<Exactly(c.shape, "f32", [ix \in Idx(c.shape) |->
                 FoldLeft(LAMBDA acc, k : AddF(acc, MulF(a.at[<<ix[1], k - 1>>], b.at[<<k - 1, ix[2]>>])),
                          c.at[ix], [k \in 1 .. a.shape[2] |-> k])])>>)

Elementwise(group, t, low, spec) ==
  Compute(group, "other", <<Tensor(t.shape, t.ty, low)>>, <<Exactly(t.shape, t.ty, spec)>>)

MulhiUIOp ==
  \E v, w \in Tensors :
    LET s == v.t  t == w.t
    IN  /\ s.shape = t.shape /\ s.ty = "int" /\ t.ty = "int"
        /\ Elementwise("elements", s,
             [ix \in DOMAIN s.at |-> MulHiUIOpConverter(s.at[ix], t.at[ix])],
             [ix \in DOMAIN s.at |->
                CHOOSE high \in Words : s.at[ix] * t.at[ix] - high * (2 ^ Width) \in Words])

(* Triton: where x is a NaN, all propagate it, none takes the bound. *)
ClampFOp ==
  \E v \in Tensors : \E min, max \in {-1, 0, 1} : \E propagate \in BOOLEAN :
    LET t == v.t
    IN  /\ t.ty \in Floats
        /\ Elementwise("elements", t,
             [ix \in DOMAIN t.at |-> ClampConverter(t.at[ix], min, max, propagate)],
             [ix \in DOMAIN t.at |->
                CASE IsNaN(t.at[ix]) -> IF propagate THEN NaN ELSE Lesser(min, max)
                  [] OTHER -> Lesser(Greater(t.at[ix], min), max)])

(* A conversion to a narrow type may say how it rounds; only the default   *)
(* is lowered.                                                             *)
FpToFpOp ==
  \E v \in Tensors : \E ty \in Floats : \E rounding \in {"rtne", "rtz"} :
    LET t == v.t
    IN  /\ t.ty \in Floats /\ (ty = "f32") # (t.ty = "f32") /\ (rounding = "rtz" => ty \in Narrow)
        /\ IF rounding = "rtz" THEN Abort({"rounding towards zero"})
           ELSE Compute("elements", "other", <<Tensor(t.shape, ty, [ix \in DOMAIN t.at |-> Round(ty, t.at[ix])])>>,
                  <<Exactly(t.shape, ty, [ix \in DOMAIN t.at |->
                      IF ty \in Narrow /\ t.at[ix] \notin {NaN, -Inf} \cup -Largest .. Largest
                        THEN (IF t.at[ix] > 0 THEN Inf ELSE -Inf) ELSE t.at[ix]])>>)

(* where(v pred w, v, w) *)
FloatPredicates == {"ogt", "oge", "olt", "ole", "oeq"}
IntPredicates   == {"sgt", "sge", "slt", "sle", "ugt", "ult"}

WhereOp ==
  \E v, w \in Tensors : \E pred \in FloatPredicates \cup IntPredicates :
    LET s == v.t  t == w.t  op == MinMaxConverter(pred)
    IN  /\ s.shape = t.shape /\ s.ty = t.ty /\ s # t
        /\ pred \in (IF s.ty = "int" THEN IntPredicates ELSE FloatPredicates) /\ s.ty # "i32"
        /\ IF op = "unreachable" THEN Abort({"predicate"})
           ELSE Elementwise("minmax", s,
                  [ix \in DOMAIN s.at |-> Arith(op, s.at[ix], t.at[ix])],
                  [ix \in DOMAIN s.at |->
                     IF Compare(pred, s.at[ix], t.at[ix]) THEN s.at[ix] ELSE t.at[ix]])

RedOps(ty) ==
  IF ty = "int" THEN {"addi", "muli", "andi", "ori", "xori", "maxsi", "minsi", "maxui", "minui"}
  ELSE IF ty \in Floats THEN {"addf", "mulf", "maximumf", "maxnumf", "minimumf", "minnumf"} ELSE {}

ReduceOp ==
  \E v \in Tensors : \E axis \in DOMAIN v.t.shape : \E op \in RedOps(v.t.ty) :
    Compute(IF op = "andi" \/ (op \in {"maxnumf", "minnumf"} /\ HasNaN(v.t)) THEN "special" ELSE "reduce", "other",
            ReduceConverter(v.t, axis, op), ReduceSpec(v.t, axis, op))

UnsplatOp ==
  \E v \in Tensors :
    /\ v.t.shape = <<1>>
    /\ Compute("reduce", "other", convertToTensorExtract(v.t), <<Exactly(<<>>, v.t.ty, <<>> :> v.t.at[<<0>>])>>)

(* The reduction of floats with the indices beside them. *)
RegionReduceOp ==
  \E v \in Tensors : \E axis \in DOMAIN v.t.shape : \E kind \in Regions :
    LET t  == v.t
        ix == Tensor(t.shape, "i32", [i \in DOMAIN t.at |-> i[axis]])
        ts == <<t, ix>>
    IN  /\ t.ty = "f32"
        /\ IF ReduceAborts(ts, axis, kind) # {} THEN Abort(ReduceAborts(ts, axis, kind))
           ELSE Compute(IF \E i \in DOMAIN t.at : t.at[i] \in {Inf, -Inf, NaN} THEN "special" ELSE "reduce",
                        "other", Lowered(ts, axis, kind), RegionSpec(ts, axis, kind))

(* accumulate sees the shape of a vector of the trailing dimension, of a   *)
(* sub-vector otherwise; lookupMappedValue keeps the first splat of c.     *)
AccumulateShape(shape, axis) ==
  IF axis = Len(shape) THEN <<shape[axis]>> ELSE From(shape, axis + 1)

lookupMappedValue(shape) == IF splats = {} THEN {shape} ELSE splats

ScanOp ==
  \E v \in Tensors : \E axis \in DOMAIN v.t.shape : \E kind \in Scans : \E reverse \in BOOLEAN :
    LET t == v.t
        n == IF kind = "linear" THEN 2 ELSE 1
        in == [ix \in DOMAIN t.at |-> [i \in 1 .. n |-> IF i = 1 THEN t.at[ix] ELSE ix[axis] + 1]]
        out == ScanOpConversion(kind, in, t.shape, axis, reverse)
        spec == ScanSpec(kind, in, t.shape, axis, reverse)
        of == AccumulateShape(t.shape, axis)
        low == [i \in 1 .. n |-> Tensor(t.shape, "int", [ix \in DOMAIN out |-> out[ix][i]])]
    IN  /\ t.ty = "int"
        /\ splats' = IF kind = "sum_with" /\ t.shape[axis] > 1 THEN lookupMappedValue(of) ELSE splats
        /\ aborts' = IF kind = "sum_with" /\ t.shape[axis] > 1 /\ of \notin splats' THEN aborts \cup {"splat of another shape"} ELSE aborts
        /\ vals' = vals \o [i \in 1 .. n |-> Value(low[i], "other")]
        /\ last' = [group |-> "scan", low |-> low,
                    may |-> [i \in 1 .. n |-> Exactly(t.shape, "int", [ix \in DOMAIN spec |-> spec[ix][i]])]]

Next ==
  /\ Ops < MaxOps /\ aborts = {}
  /\ \/ TransOp \/ BroadcastOp \/ ExpandDimsOp \/ ReshapeOp \/ JoinOp \/ SplitOp \/ CatOp
     \/ SplatOp \/ MakeRangeOp
     \/ DotOp \/ MulhiUIOp \/ ClampFOp \/ FpToFpOp \/ WhereOp
     \/ ReduceOp \/ UnsplatOp \/ RegionReduceOp \/ ScanOp

Spec == Init /\ [][Next]_vars

-----------------------------------------------------------------------------
(* Properties *)

Allowed(low, may) ==
  /\ Len(low) = Len(may)
  /\ \A i \in DOMAIN low :
       /\ low[i].shape = may[i].shape /\ low[i].ty = may[i].ty
       /\ \A ix \in DOMAIN may[i].at : low[i].at[ix] \in may[i].at[ix]

(* Tensors that only move their elements, and the elementwise operations   *)
(* and tt.dot, compute what Triton says.  A select that became a minimum   *)
(* or a maximum is excepted where an operand is a NaN: the select takes    *)
(* its second operand, maximumf gives the NaN.                             *)
TensorsExact ==
  last.group \in {"structure", "elements", "minmax"} =>
    \/ Allowed(last.low, last.may)
    \/ last.group = "minmax" /\ \E i \in DOMAIN last.low : HasNaN(last.low[i])

(* A reduction is its elements combined in some order, through whichever   *)
(* of the patterns takes it, whatever the axis; a sum of bf16 is rounded   *)
(* once if its tensor has one dimension, else at each addition, as          *)
(* reducesum_512_256_bf16_axis1.mlir expects.  Excepted ("special") are    *)
(* the conjunction of words, whose initial value is 1, and comparisons     *)
(* with the infinities and NaNs, whose initial value is an infinity.       *)
ReducesExact == last.group = "reduce" => Allowed(last.low, last.may)

(* A scan is the elements up to each one combined in their order, in       *)
(* either direction and along any axis, of any number of operands.         *)
ScansExact == last.group = "scan" => Allowed(last.low, last.may)

(* The compiler stops at no operation, but for the patterns named here.    *)
Stops ==
  aborts \subseteq {"predicate", "rounding towards zero", "results of a one-operation region",
                    "splat of another shape"}
=============================================================================
