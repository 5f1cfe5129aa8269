------------------------------ MODULE XSMTTiles ------------------------------
(***************************************************************************)
(* Views of tiles and products of them: smt.view, smt.dot, smt.vmt4d and   *)
(* smt.alloc, from the calls of a kernel to loops over packed tensors.     *)
(*                                                                         *)
(* The front end (semantic.py, triton_shared.cc) emits the operations of   *)
(* a program's calls; StructuredToMemref and XSMTToLinalg rewrite them,    *)
(* each pass in a step; then the calls run one by one, as written on ref   *)
(* and spec, where every tensor is the matrix it stands for, and as        *)
(* lowered on mem and got.                                                 *)
(*                                                                         *)
(* The definitions named Bug_... are defective variants of the definition  *)
(* after them, for the run that shows a property fail with it.             *)
(***************************************************************************)
EXTENDS PackedTensors

CONSTANTS
  Bound,      \* rows and columns of the matrix in memory
  Programs    \* sequences of calls; a call names earlier ones by number

ASSUME BoundAssumption == Bound \in Seq(Nat \ {0}) /\ Len(Bound) = 2

VARIABLES
  program,
  kernel,     \* the operations the front end emitted
  vals,       \* the operation that is the value of each call
  code,       \* the operations as rewritten
  stage,
  stopped,    \* why the kernel does not compile
  mem, ref,   \* what cells hold, as lowered and as written
  got, spec,  \* the values of operations and of calls
  patterns    \* those of Patterns below the kernel has met

tileVars == <<program, kernel, vals, code, stage, stopped, mem, ref, got, spec, patterns>>

Matrix == {<<0, x>> : x \in Idx(Bound)}

Numbered == [a \in Matrix |-> Bound[2] * a[2][1] + a[2][2] + 1]

Junk == -1000

TilesInit ==
  /\ program \in Programs
  /\ kernel = <<>> /\ vals = <<>> /\ code = <<>>
  /\ stage = "front end" /\ stopped = {}
  /\ mem = Numbered /\ ref = Numbered
  /\ got = <<>> /\ spec = <<>> /\ patterns = {}

-----------------------------------------------------------------------------
(* The front end *)

Tile(dims) == SubSeq(dims, 3, 4)

ViewOp(op, c, base, tile) ==
  [op |-> op, base |-> base, off |-> c.off, const |-> c.const, shape |-> c.shape, tile |-> tile,
   type |-> IF op = "unpack" THEN c.shape ELSE CeilDivs(c.shape, tile) \o tile, ptr |-> kernel[base].ptr]

(* smt.view: which operation it is; none if it shows all of its base. *)
view(c) ==
  LET base   == vals[c.base]
      dims   == kernel[base].type
      isPtr  == kernel[base].ptr
  IN  CASE isPtr /\ (c.tile = <<0, 0>> \/ (Len(dims) = 4 /\ c.tile = Tile(dims))) ->
             <<ViewOp("subview", c, base, Tile(dims))>>
        [] isPtr -> <<ViewOp("subview_pack", c, base, c.tile)>>
        [] c.tile = <<1, 1>> -> <<ViewOp("unpack", c, base, <<1, 1>>)>>
        [] Len(dims) = 4 /\ c.tile = Tile(dims) /\ c.shape = Flat(dims) /\ c.const /\ c.off = <<0, 0>> -> <<>>
        [] Len(dims) = 4 -> <<ViewOp("repack", c, base, c.tile)>>
        [] OTHER -> <<ViewOp("pack", c, base, c.tile)>>

Value(op, type, ops) == [op |-> op, type |-> type, ptr |-> FALSE] @@ ops

Transposed(dims) == <<dims[2], dims[1], dims[4], dims[3]>>

KxN(a, b) == a[2] = b[1] /\ a[4] = b[3]
NxK(a, b) == a[2] = b[2] /\ a[4] = b[4]

(* A K x N operand is transposed; the first that fits is taken. *)
create_mmt4d(a, b) ==
  LET dims(v) == kernel[v].type
      mmt4d(bv, bdims) ==
        Value("mmt4d", <<dims(a)[1], bdims[1], dims(a)[3], bdims[3]>>, [a |-> a, b |-> bv])
  IN  IF KxN(dims(a), dims(b))
        THEN <<Value("trans", Transposed(dims(b)), [base |-> b]),
               mmt4d(Len(kernel) + 1, Transposed(dims(b)))>>
        ELSE <<mmt4d(b, dims(b))>>

Emitted(c) ==
  CASE c.call = "view" -> view(c)
    [] c.call = "dot" -> create_mmt4d(vals[c.a], vals[c.b])
    [] c.call = "vmt4d" ->
         <<Value("vmt4d", <<1, kernel[vals[c.b]].type[2]>>,
                 [a |-> vals[c.a], b |-> vals[c.b]] @@ (IF c.init = 0 THEN <<>> ELSE [init |-> vals[c.init]]))>>
    [] c.call = "load" -> <<Value("load", c.from.block, [from |-> c.from])>>
    [] c.call = "zeros" -> <<Value("fill", c.shape, <<>>)>>
    [] c.call = "trans" -> <<Value("trans", Transposed(kernel[vals[c.base]].type), [base |-> vals[c.base]])>>
    [] c.call = "add" -> <<Value("add", kernel[vals[c.lhs]].type, [lhs |-> vals[c.lhs], rhs |-> vals[c.rhs]])>>
    [] c.call = "store" -> <<Value("store", <<>>, [to |-> c.to, value |-> vals[c.value]])>>
    [] c.call = "alloc" -> <<[op |-> "alloc", type |-> c.shape, ptr |-> TRUE]>>
    [] c.call = "load at" -> <<Value("load at", kernel[vals[c.base]].type, [base |-> vals[c.base]])>>
    [] c.call = "store at" -> <<Value("store at", <<>>, [base |-> vals[c.base], value |-> vals[c.value]])>>

Unfit(c) ==
  c.call = "dot" /\ LET a == kernel[vals[c.a]].type
                        b == kernel[vals[c.b]].type IN ~KxN(a, b) /\ ~NxK(a, b)

FrontEnd ==
  /\ stage = "front end"
  /\ LET c == program[Len(vals) + 1]
         ops == Emitted(c)
     IN  IF Unfit(c)
           THEN /\ stopped' = {"packing shapes"} /\ stage' = "stopped"
                /\ UNCHANGED <<kernel, vals>>
           ELSE /\ kernel' = kernel \o ops
                /\ vals' = Append(vals, IF ops = <<>> THEN vals[c.base] ELSE Len(kernel'))
                /\ stage' = IF Len(vals') = Len(program) THEN "emitted" ELSE stage
                /\ UNCHANGED stopped
  /\ UNCHANGED <<program, code, mem, ref, got, spec, patterns>>

-----------------------------------------------------------------------------
(* The passes *)

Roles == {"base", "a", "b", "init", "lhs", "rhs", "value"}

Uses(c, i) == {u \in (DOMAIN c) \X Roles : u[2] \in DOMAIN c[u[1]] /\ c[u[1]][u[2]] = i}

Erased == [op |-> "erased"]

(* A load that only a view uses is done by the view, in its place. *)
Fuses(c, i) ==
  c[i].op = "pack" /\ c[c[i].base].op = "load" /\ Uses(c, c[i].base) = {<<i, "base">>}

FuseTTSLoadAndPackToDescriptorLoadView(c) ==
  [i \in DOMAIN c |->
     CASE Fuses(c, i) ->
            Value("descriptor_load_view", c[i].type,
                  [from |-> c[c[i].base].from, off |-> c[i].off, const |-> c[i].const,
                   shape |-> c[i].shape, tile |-> c[i].tile])
       [] \E j \in DOMAIN c : Fuses(c, j) /\ c[j].base = i -> Erased
       [] OTHER -> c[i]]

Divisible(o) == \A d \in 1 .. 2 : o.shape[d] % o.tile[d] = 0

(* A buffer of which only one packed view is used has the view's layout. *)
Folds(c, i) ==
  /\ c[i].op = "subview_pack" /\ c[c[i].base].op = "alloc"
  /\ Uses(c, c[i].base) = {<<i, "base">>}
  /\ c[i].const /\ c[i].off = <<0, 0>> /\ Divisible(c[i])

FoldAllocSubviewPackToAlloc(c) ==
  [i \in DOMAIN c |->
     CASE Folds(c, i) -> [op |-> "alloc", type |-> c[i].type, ptr |-> TRUE]
       [] \E j \in DOMAIN c : Folds(c, j) /\ c[j].base = i -> Erased
       [] OTHER -> c[i]]

(* An operand that is no longer there is a compiler error. *)
Dangling(c) == \E i \in DOMAIN c : c[i] = Erased /\ Uses(c, i) # {}

Pass(from, to, c, why) ==
  /\ stage = from
  /\ code' = c
  /\ stopped' = why /\ stage' = IF why = {} THEN to ELSE "stopped"
  /\ UNCHANGED <<program, kernel, vals, mem, ref, got, spec, patterns>>

StructuredToMemref ==
  LET c == FoldAllocSubviewPackToAlloc(FuseTTSLoadAndPackToDescriptorLoadView(kernel))
  IN  Pass("emitted", "memref", c,
           (IF Dangling(c) THEN {"dangling"} ELSE {})
             \cup {"not divisible" : i \in {j \in DOMAIN c : c[j].op = "subview_pack" /\ ~Divisible(c[j])}})

Transposes(c, i) == {j \in DOMAIN c : c[j].op = "trans" /\ c[j].base = i}

(* A transpose that is the only use of a view is done by it, where the     *)
(* view is; with any other use there is no pattern.                        *)
DescriptorLoadViewOpPattern(c) ==
  [i \in DOMAIN c |->
     CASE c[i].op = "trans" /\ c[c[i].base].op = "descriptor_load_view" -> [c[i] EXCEPT !.op = "replaced"]
       [] c[i].op = "descriptor_load_view" /\ Transposes(c, i) # {} ->
            [c[i] EXCEPT !.op = "transposed view", !.type = Transposed(@)]
       [] OTHER -> c[i]]

NoPattern(c) ==
  {i \in DOMAIN c : c[i].op = "descriptor_load_view" /\ Transposes(c, i) # {} /\ Cardinality(Uses(c, i)) > 1}

(* A sum of a product and of what the sum is written to, its first operand: *)
(* the product itself where it is both.                                    *)
findAccumulationGeneric(c, i) ==
  {j \in DOMAIN c : c[i].op = "mmt4d" /\ c[j].op = "add" /\ c[j].rhs = i}

(* One of the sums takes the product's place, and the product is erased    *)
(* whoever else uses it.                                                   *)
convertWithAccumulation(c) ==
  LET products == {i \in DOMAIN c : findAccumulationGeneric(c, i) # {}}
      sum(i)   == CHOOSE j \in findAccumulationGeneric(c, i) : TRUE
  IN  [i \in DOMAIN c |->
         CASE i \in products -> Erased
           [] c[i].op = "add" /\ c[i].rhs \in products /\ sum(c[i].rhs) = i ->
                Value("accumulate", c[i].type, [a |-> c[c[i].rhs].a, b |-> c[c[i].rhs].b, lhs |-> c[i].lhs])
           [] OTHER -> c[i]]

XSMTConversion ==
  LET c == convertWithAccumulation(DescriptorLoadViewOpPattern(code))
  IN  Pass("memref", "linalg", c,
           (IF NoPattern(code) # {} THEN {"no pattern"} ELSE {}) \cup (IF Dangling(c) THEN {"dangling"} ELSE {}))

Bug_IsUnpacked(c, i) == c[i].op = "store" /\ c[c[i].value].op = "unpack"

(* A store of a tensor that is unpacked whole. *)
IsUnpacked(c, i) ==
  c[i].op = "store" /\ c[c[i].value].op = "unpack" /\ c[c[i].value].const /\ c[c[i].value].off = <<0, 0>>

MaterializeUnpackIntoSubviewPattern(c) ==
  [i \in DOMAIN c |->
     IF IsUnpacked(c, i) THEN [c[i] EXCEPT !.op = "store unpacked", !.value = c[c[i].value].base] ELSE c[i]]

BufferizationCleanup == Pass("linalg", "running", MaterializeUnpackIntoSubviewPattern(code), {})

-----------------------------------------------------------------------------
(* The kernel as lowered *)

Within(x, dims) == \A d \in 1 .. 2 : x[d] < dims[d]

(* The sizes of a block pointer stop at its bound. *)
MemrefOf(p) ==
  SubView(Tensor(Bound, LAMBDA x : <<0, x>>), p.off,
          IF p.kind = "block" THEN [d \in 1 .. 2 |-> Lower(p.block[d], Bound[d] - p.off[d])] ELSE p.block)

(* What an access takes of it. *)
Extents(p) == IF p.kind = "block" THEN MemrefOf(p).dims ELSE p.dims

Read(m, a) == IF a \in DOMAIN m THEN m[a] ELSE Junk

Contents(m, t) == [dims |-> t.dims, at |-> [ix \in DOMAIN t.at |-> Read(m, t.at[ix])]]

Loaded(p, m) ==
  Tensor(p.block, LAMBDA x : IF Within(x, Extents(p)) THEN Read(m, MemrefOf(p).at[x]) ELSE p.other)

computeClampedSlice2D(o, dims) == [d \in 1 .. 2 |-> Lower(dims[d] - o.off[d], o.shape[d])]

pack2DToPackedTiles(t, tile) == LinalgPack(t, CeilDivs(t.dims, tile) \o tile, <<1, 2>>, <<1, 2>>)

PackOpPattern(o, base) ==
  LET slice == ExtractSlice(base, o.off, computeClampedSlice2D(o, base.dims))
  IN  IF slice = Undefined THEN Undefined ELSE Cast(pack2DToPackedTiles(slice, o.tile), o.type)

(* What is left of the base is compared as an unsigned number. *)
UnpackedSlice(o, base) ==
  LET flat == LinalgUnPack(base, Flat(base.dims))
      left(d) == flat.dims[d] - o.off[d]
  IN  ExtractSlice(flat, o.off, [d \in 1 .. 2 |-> IF left(d) < 0 THEN o.shape[d] ELSE Lower(o.shape[d], left(d))])

UnpackOpPattern(o, base) ==
  IF base = Undefined THEN Undefined ELSE Cast(UnpackedSlice(o, base), o.type)

RepackOpPattern(o, base) ==
  LET slice == IF base = Undefined THEN Undefined ELSE UnpackedSlice(o, base)
  IN  IF slice = Undefined THEN Undefined ELSE Cast(pack2DToPackedTiles(slice, o.tile), o.type)

(* Constants that were extended to 64 bits are folded by the driver before. *)
canElideDescriptorSubview(o) == o.const /\ o.off = <<0, 0>>

(* At constant offsets of zero a view is of the whole memref. *)
ViewedMemref(o) ==
  LET base  == MemrefOf(o.from)
      sizes == [d \in 1 .. 2 |-> Lower(base.dims[d] - o.off[d], o.shape[d])]
  IN  CASE canElideDescriptorSubview(o) -> base
        [] \E d \in 1 .. 2 : sizes[d] < 0 -> Undefined
        [] OTHER -> SubView(base, o.off, sizes)

Viewed(o, m) == IF ViewedMemref(o) = Undefined THEN Undefined ELSE Contents(m, ViewedMemref(o))

convertWithoutTranspose(o, m) ==
  LinalgPack(Viewed(o, m), CeilDivs(o.shape, o.tile) \o o.tile, <<1, 2>>, <<1, 2>>)

Bug_convertWithTranspose(o, m) ==
  LinalgPack(Viewed(o, m), Reverse(CeilDivs(o.shape, o.tile)) \o Reverse(o.tile), <<2, 1>>, <<1, 2>>)

convertWithTranspose(o, m) ==
  LinalgPack(Viewed(o, m), Reverse(CeilDivs(o.shape, o.tile)) \o Reverse(o.tile), <<2, 1>>, <<2, 1>>)

(* Offsets count tiles, and are rounded up to one. *)
SubviewOpPattern(o, base) ==
  SubView(base, CeilDivs(o.off, o.tile) \o <<0, 0>>, CeilDivs(o.shape, o.tile) \o o.tile)

SubviewPackOpPattern(o, base) == ExpandAndTranspose(SubView(base, o.off, o.shape), o.tile)

LowerXSMTVMT4D(o, g) ==
  Matmul(g[o.a], g[o.b], IF "init" \in DOMAIN o THEN g[o.init] ELSE Fill(o.type))

(* The value of an operation, given those of the ones before it. *)
Lowered(i, g, m) ==
  LET o == code[i] IN
  CASE o.op = "load" -> Loaded(o.from, m)
    [] o.op = "descriptor_load_view" -> convertWithoutTranspose(o, m)
    [] o.op = "transposed view" -> convertWithTranspose(o, m)
    [] o.op = "replaced" -> g[o.base]
    [] o.op = "pack" -> PackOpPattern(o, g[o.base])
    [] o.op = "unpack" -> UnpackOpPattern(o, g[o.base])
    [] o.op = "repack" -> RepackOpPattern(o, g[o.base])
    [] o.op = "trans" -> TransposeTiles(g[o.base])
    [] o.op = "mmt4d" -> Mmt4D(g[o.a], g[o.b], Fill(o.type))
    [] o.op = "accumulate" -> Mmt4D(g[o.a], g[o.b], g[o.lhs])
    [] o.op = "vmt4d" -> LowerXSMTVMT4D(o, g)
    [] o.op = "add" -> AddTensors(g[o.lhs], g[o.rhs])
    [] o.op = "fill" -> Fill(o.type)
    [] o.op = "alloc" -> Tensor(o.type, LAMBDA ix : <<i, ix>>)
    [] o.op = "subview" -> SubviewOpPattern(o, g[o.base])
    [] o.op = "subview_pack" -> SubviewPackOpPattern(o, g[o.base])
    [] o.op = "load at" -> Contents(m, g[o.base])
    [] o.op \in {"erased", "store", "store unpacked", "store at"} -> Undefined

(* What an operation writes, and to which cells. *)
Destination(i, g) ==
  LET o == code[i] IN
  CASE o.op = "store" -> SubView(MemrefOf(o.to), <<0, 0>>, Extents(o.to))
    [] o.op = "store unpacked" -> MemrefOf(o.to)
    [] o.op = "store at" -> g[o.base]
    [] OTHER -> Undefined

Source(i, g) ==
  LET o == code[i] IN
  IF o.op = "store unpacked" THEN LinalgUnPack(g[o.value], Destination(i, g).dims) ELSE g[o.value]

Write(m, to, value) ==
  [a \in Range(to.at) |-> LET ix == CHOOSE jx \in DOMAIN to.at : to.at[jx] = a
                          IN  IF ix \in DOMAIN value.at THEN value.at[ix] ELSE Junk] @@ m

-----------------------------------------------------------------------------
(* The kernel as written: all tensors and buffers are matrices. *)

MatrixDims(type) == IF Len(type) = 4 THEN Flat(type) ELSE type

Moved(x, off) == [d \in 1 .. 2 |-> x[d] + off[d]]

Shown(c, base, dims, outside) ==
  Tensor(dims, LAMBDA x : IF Within(x, c.shape) /\ Moved(x, c.off) \in DOMAIN base.at
                            THEN base.at[Moved(x, c.off)] ELSE outside)

TransposedMatrix(t) == Tensor(Reverse(t.dims), LAMBDA x : t.at[Reverse(x)])

Meaning(k) ==
  LET c == program[k]
      dims == MatrixDims(kernel[vals[k]].type)
  IN
  CASE c.call = "view" ->
         IF kernel[vals[k]].ptr THEN SubView(spec[c.base], c.off, dims) ELSE Shown(c, spec[c.base], dims, 0)
    [] c.call = "load" -> Loaded(c.from, ref)
    [] c.call = "zeros" -> Fill(dims)
    [] c.call = "dot" ->
         Matmul(spec[c.a],
                IF KxN(kernel[vals[c.a]].type, kernel[vals[c.b]].type) THEN spec[c.b] ELSE TransposedMatrix(spec[c.b]),
                Fill(dims))
    [] c.call = "vmt4d" -> Matmul(spec[c.a], spec[c.b], IF c.init = 0 THEN Fill(dims) ELSE spec[c.init])
    [] c.call = "trans" -> TransposedMatrix(spec[c.base])
    [] c.call = "add" -> AddTensors(spec[c.lhs], spec[c.rhs])
    [] c.call = "alloc" -> Tensor(dims, LAMBDA x : <<k, x>>)
    [] c.call = "load at" -> Contents(ref, spec[c.base])
    [] c.call \in {"store", "store at"} -> Undefined

Written(k) ==
  LET c == program[k] IN
  CASE c.call = "store" -> Write(ref, SubView(MemrefOf(c.to), <<0, 0>>, Extents(c.to)), spec[c.value])
    [] c.call = "store at" -> Write(ref, spec[c.base], spec[c.value])
    [] OTHER -> ref

-----------------------------------------------------------------------------
(* Patterns that are lowered to something else:                            *)
(*   short view    a view has more tiles than its base has rows or columns *)
(*                 for, or starts behind the end of what is loaded         *)
(*   elided        a view at constant zero offsets of a load that is       *)
(*                 larger: all of it is packed                             *)
(*   mask dropped  a view of a masked load reads what the mask excludes    *)
(*   overtaken     a store comes between a load and its view, which reads  *)
(*                 in its place                                            *)
(*   unaligned     a view of a packed buffer starts inside a tile          *)
(*   masked store  a tensor unpacked to be stored is stored without mask   *)
IsViewOfLoad(o) == o.op \in {"descriptor_load_view", "transposed view"}

ShortView(i) ==
  LET o == code[i] IN
  \/ /\ o.op \in {"pack", "unpack", "repack"}
     /\ LET dims == MatrixDims(kernel[o.base].type) IN
        \E d \in 1 .. 2 : CeilDiv(dims[d] - o.off[d], o.tile[d]) < CeilDiv(o.shape[d], o.tile[d])
  \/ IsViewOfLoad(o) /\ \E d \in 1 .. 2 : MemrefOf(o.from).dims[d] < o.off[d]

Elided(i) ==
  /\ IsViewOfLoad(code[i]) /\ canElideDescriptorSubview(code[i])
  /\ \E d \in 1 .. 2 : MemrefOf(code[i].from).dims[d] > code[i].shape[d]

Partial(p) == p.kind = "masked" /\ p.dims # p.block

MaskDropped(i) == IsViewOfLoad(code[i]) /\ Partial(code[i].from)

Overtaken(i, g) ==
  IsViewOfLoad(code[i]) /\
    \E j \in kernel[i].base .. i :
      Range(Destination(j, g).at) \cap Range(MemrefOf(code[i].from).at) # {}

Unaligned(i) == code[i].op = "subview" /\ \E d \in 1 .. 2 : code[i].off[d] % code[i].tile[d] # 0

MaskedStore(i) == code[i].op = "store unpacked" /\ Partial(code[i].to)

Patterns(i, g) ==
  {p \in {"short view", "elided", "mask dropped", "overtaken", "unaligned", "masked store"} :
     CASE p = "short view" -> ShortView(i)
       [] p = "elided" -> Elided(i)
       [] p = "mask dropped" -> MaskDropped(i)
       [] p = "overtaken" -> Overtaken(i, g)
       [] p = "unaligned" -> Unaligned(i)
       [] p = "masked store" -> MaskedStore(i)}

(* The operations of a call. *)
OpsOf(k) == {i \in DOMAIN code : i > Len(got) /\ i <= vals[k]}

Call ==
  /\ stage = "running" /\ Len(spec) < Len(program)
  /\ LET k == Len(spec) + 1
         g == FoldLeft(LAMBDA h, i : Append(h, Lowered(i, h, mem)), got, SetToSortSeq(OpsOf(k), <))
         writes == {i \in OpsOf(k) : code[i].op \in {"store", "store unpacked", "store at"}}
     IN  /\ got' = g
         /\ spec' = Append(spec, Meaning(k))
         /\ mem' = IF writes = {} THEN mem
                   ELSE Write(mem, Destination(vals[k], g), Source(vals[k], g))
         /\ ref' = Written(k)
         /\ patterns' = patterns \cup UNION {Patterns(i, g) : i \in OpsOf(k)}
  /\ UNCHANGED <<program, kernel, vals, code, stage, stopped>>

TilesNext == FrontEnd \/ StructuredToMemref \/ XSMTConversion \/ BufferizationCleanup \/ Call

-----------------------------------------------------------------------------
(* The value of a call, as the matrix it is. *)
SameMatrix(t, type, m) ==
  IF Len(type) = 4
    THEN t.dims = type /\ m.dims = Flat(type) /\ \A x \in DOMAIN m.at : t.at[InTile(type, x)] = m.at[x]
    ELSE t = m

(* A tensor is as its call says, whatever is fused, folded, transposed or  *)
(* accumulated on the way: views of loads and of views, products, sums,    *)
(* and what is read from buffers (XSMTToLinalg.cpp, StructuredToMemref).   *)
TilesExact ==
  patterns = {} =>
    \A k \in DOMAIN spec :
      LET i == vals[k] IN
      program[k].call \in {"store", "store at"} \/ kernel[i].ptr \/ code[i].op \in {"erased", "transposed view"}
        \/ SameMatrix(got[i], kernel[i].type, spec[k])

(* Memory is as the kernel's stores leave it, to the last row and column   *)
(* of a block that reaches past its bound (StoreConverter and              *)
(* MaterializeUnpackIntoSubviewPattern).                                   *)
StoresExact == patterns = {} => \A a \in Matrix : mem[a] = ref[a]
=============================================================================
