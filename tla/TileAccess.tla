----------------------------- MODULE TileAccess -----------------------------
(***************************************************************************)
(* The loads and stores of a kernel, from the pointers PtrAnalysis left to *)
(* accesses of memory: rewriteLoadOp and rewriteStoreOp choose a form,     *)
(* StructuredToMemref.cpp and UnstructuredToMemrefPass.cpp lower it.       *)
(*                                                                         *)
(* A step is one operation of the kernel.  It is performed twice: as the   *)
(* kernel says, on ref, and as it was lowered, on mem.  A load leaves a    *)
(* tensor, which a later store may write back; a tensor is either a buffer *)
(* of its own or a view of the memory, read when it is used.               *)
(*                                                                         *)
(* An address is a number, a pointer of the kernel a base and a PtrState;  *)
(* its block pointers are made and advanced here.  The kernel touches      *)
(* memory within its bounds and no element twice in a store.               *)
(*                                                                         *)
(* The definitions named Bug_... are defective variants of the definition  *)
(* after them, for the run that shows a property fail with it.             *)
(***************************************************************************)
EXTENDS PtrState

CONSTANTS
  Size,          \* cells of the memory
  Pointers,      \* its tensors of pointers, a sequence of [base, dims]
  Masks,         \* masks that are not decoded, each a set of elements
  Declarations,  \* the tt.make_tensor_ptr a kernel may hold
  Increments,    \* of tt.advance
  MaxAccesses,   \* bound on the loads and stores of a kernel
  MaxMoves       \* bound on its tt.advance

Cells == 0 .. Size - 1

ASSUME PointersAssumption ==
  \A i \in DOMAIN Pointers :
    Pointers[i].base \in Cells /\ Cardinality(Unstructured(Pointers[i])) <= 1

(* A tensor without elements is never declared: rewritePtr takes a first   *)
(* dimension of constant 0 for one without a bound.                        *)
ASSUME DeclarationsAssumption ==
  \A b \in Declarations :
    /\ b.base \in Cells
    /\ \A d \in DOMAIN b.sizes : b.bound[d] \in Nat \ {0} /\ b.sizes[d] \in Nat \ {0}

ASSUME BoundsAssumption == Size \in Nat /\ MaxAccesses \in Nat /\ MaxMoves \in Nat

VARIABLES
  mem,       \* the memory as lowered
  ref,       \* the memory as the kernel says
  tensor,    \* what the last load left
  decls,     \* the tt.make_tensor_ptr of the kernel, in program order
  blocks,    \* the block pointers made so far
  accesses,
  moves,
  stray,     \* cells the last operation touched, and the kernel did not
  patterns   \* those of Patterns below the kernel has met

vars == <<mem, ref, tensor, decls, blocks, accesses, moves, stray, patterns>>

(* Cells hold one more than their address at first. *)
Zero        == 0
Other       == 100    \* the other operand of a load, its padding
Constant    == 200    \* a splat that is stored
Unspecified == -1     \* the kernel does not say what it reads
Junk        == -2     \* a buffer nobody wrote

NoTensor == [form |-> "none", shape |-> <<>>, spec |-> <<>>, data |-> <<>>]

Init ==
  /\ mem = [a \in Cells |-> a + 1] /\ ref = mem
  /\ tensor = NoTensor
  /\ decls \in UNION {[1 .. n -> Declarations] : n \in 0 .. 2}
  /\ blocks = <<>> /\ accesses = 0 /\ moves = 0
  /\ stray = {}
  /\ patterns = {}

-----------------------------------------------------------------------------
(* Memrefs *)

Memref(offset, sizes, strides) == [offset |-> offset, sizes |-> sizes, strides |-> strides]

Locate(m, x) == m.offset + Sum([d \in DOMAIN x |-> x[d] * m.strides[d]])

Read(a) == IF a \in Cells THEN mem[a] ELSE Junk

(* x is an element of a memref, or below the extents of a mask. *)
Below(x, sizes) == \A d \in DOMAIN sizes : x[d] < sizes[d]

getSubview(m, dims) == [m EXCEPT !.sizes = dims]

SizesOf(p) == [d \in DOMAIN p.dims |-> p.dims[d].size]

(* "If there are dimensions with size 1 and stride 0, replace 0 stride     *)
(* with the product of sizes of all lower dimensions."                     *)
getMixedStridesForMemref(p) ==
  [d \in DOMAIN p.dims |->
     IF p.dims[d].size = 1 /\ IsAttr(p.dims[d].stride) /\ p.dims[d].stride.val = 0
       THEN FoldFunction(Times, 1, [e \in d + 1 .. Rank(p) |-> p.dims[e].size])
       ELSE p.dims[d].stride.val]

(* accumulateTargetOffset adds every dimension's offset, that of the       *)
(* gathered one times its stride.                                          *)
Bug_accumulateTargetOffset(p, offset) ==
  p.base + Sum([d \in DOMAIN p.dims |->
    IF IsTensor(p.dims[d].offset) THEN offset ELSE p.dims[d].offset.val])

accumulateTargetOffset(p, offset) ==
  p.base + Sum([d \in DOMAIN p.dims |->
    IF IsTensor(p.dims[d].offset) THEN offset * getMixedStridesForMemref(p)[d]
    ELSE p.dims[d].offset.val])

(* rewriteStructuredPtr; rewriteSplitPtr does the same, "Stopgap (Scheme   *)
(* A)": no modulo is left.                                                 *)
rewritePtr(p) == Memref(accumulateTargetOffset(p, 0), SizesOf(p), getMixedStridesForMemref(p))

(* One row of a gather or scatter, at the offset of its element i. *)
rewriteGatherScatterPtrElement(p, i, sizes) ==
  LET g == getNonStructuredDim(p) IN
    Memref(accumulateTargetOffset(p, p.dims[g].offset.val[i]), [sizes EXCEPT ![g] = 1],
           getMixedStridesForMemref(p))

rewriteBlockPtr(b) ==
  Memref(b.base + Sum(b.offsets),
         [d \in DOMAIN b.sizes |-> MinOf(b.sizes[d], b.bound[d] - b.emitted[d])], b.strides)

-----------------------------------------------------------------------------
(* What the kernel says *)

Address(p, x) == p.base + Decoded(p, x)

BlockAddress(b, x) == b.base + Sum([d \in DOMAIN x |-> (b.at[d] + x[d]) * b.strides[d]])

Inside(b, x, dims) == \A d \in dims : b.at[d] + x[d] \in 0 .. b.bound[d] - 1

Whole(p) == Elements(SizesOf(p))

Safe(p, elems) == \A x \in elems : Address(p, x) \in Cells

Injective(p, elems) == Cardinality({Address(p, x) : x \in elems}) = Cardinality(elems)

(* The boxes a mask is decoded to, and the masks parse failed on. *)
Boxes(p) == Elements([d \in DOMAIN p.dims |-> p.dims[d].size + 1])

UndecodedMasks(p) == {Whole(p)} \cup {elems \in Masks : elems \subseteq Whole(p)}

(* A pointer that has a tts.make_tptr or tts.make_gather_scatter_tptr. *)
Known(p) == IsStructured(p) \/ Rank(p) > 1

(* An index of some dimension reaches its modulo. *)
Wraps(p, elems) ==
  \E x \in elems, d \in DOMAIN p.dims :
    /\ DimHasModulo(p.dims[d])
    /\ p.dims[d].offset.val + x[d] * p.dims[d].stride.val \notin 0 .. p.dims[d].shape.val - 1

WrappedIf(p, elems) == IF Wraps(p, elems) THEN {"wrapped"} ELSE {}

-----------------------------------------------------------------------------
(* A load *)

Load(shape, spec, form, data, touched, allowed, pats) ==
  /\ accesses' = accesses + 1
  /\ tensor' = [form |-> form, shape |-> shape, spec |-> spec, data |-> data]
  /\ stray' = touched \ allowed
  /\ patterns' = patterns \cup pats
  /\ UNCHANGED <<mem, ref, decls, blocks, moves>>

(* "masked-out lanes read as zero when `other` is not provided" *)
SpecLoad(p, elems, other) ==
  [x \in Whole(p) |-> IF x \in elems THEN ref[Address(p, x)] ELSE other]

Addresses(p, elems) == {Address(p, x) : x \in elems}

Located(m) == {Locate(m, x) : x \in Elements(m.sizes)}

(* The buffer is filled when a dimension is short: the first only. *)
Bug_fillWithValue(shape, dims, other, x) == IF dims[1] < shape[1] THEN other ELSE Junk

fillWithValue(shape, dims, other, x) ==
  IF \E d \in DOMAIN shape : dims[d] < shape[d] THEN other ELSE Junk

(* memref.copy of a subview into the same part of a new buffer *)
Copied(m, fill(_), shape) ==
  [x \in Elements(shape) |-> IF Below(x, m.sizes) THEN Read(Locate(m, x)) ELSE fill(x)]

(* rewriteStructuredLoad without a boundary check: to_tensor of the        *)
(* pointer itself.                                                         *)
StructuredLoad(p) ==
  /\ IsStructured(p) /\ Rank(p) > 0 /\ Safe(p, Whole(p))
  /\ LET m == rewritePtr(p) IN
       Load(SizesOf(p), SpecLoad(p, Whole(p), Zero), "view",
            [x \in Whole(p) |-> Locate(m, x)],
            Located(m), Addresses(p, Whole(p)), WrappedIf(p, Whole(p)))

(* A load through a scalar pointer gets the mask [1]. *)
ScalarLoad(p) ==
  /\ Rank(p) = 0 /\ Safe(p, Whole(p))
  /\ LET m == rewritePtr(p) IN
       Load(<<>>, SpecLoad(p, Whole(p), Zero), "buffer",
            [x \in Whole(p) |-> Read(Locate(m, x))], Located(m), Addresses(p, Whole(p)), {})

rewriteMaskedLoad(p, dims, other) ==
  /\ IsStructured(p) /\ Rank(p) > 0 /\ Safe(p, Elements(dims))
  /\ LET m == getSubview(rewritePtr(p), dims)
         fill(x) == IF other = Zero THEN Zero ELSE fillWithValue(SizesOf(p), dims, other, x)
     IN Load(SizesOf(p), SpecLoad(p, Elements(dims), other), "buffer",
             Copied(m, fill, SizesOf(p)), Located(m), Addresses(p, Elements(dims)),
             WrappedIf(p, Elements(dims)))

(* The rows a gather or scatter visits: element i of dims, or all. *)
Rows(p, dims) ==
  LET g == getNonStructuredDim(p) IN
    [i \in 0 .. MinOf(p.dims[g].size, dims[g]) - 1 |-> rewriteGatherScatterPtrElement(p, i, dims)]

RowOf(p, x) == x[getNonStructuredDim(p)]

InRow(p, x) == [x EXCEPT ![getNonStructuredDim(p)] = 0]

RowCells(p, dims) == UNION {Located(Rows(p, dims)[i]) : i \in DOMAIN Rows(p, dims)}

InRows(p, dims, x) ==
  RowOf(p, x) \in DOMAIN Rows(p, dims) /\ Below(InRow(p, x), Rows(p, dims)[RowOf(p, x)].sizes)

(* No other: the buffer of a gather is not filled. *)
rewriteGather(p, dims, other) ==
  /\ ~IsStructured(p) /\ Known(p) /\ Safe(p, Elements(dims))
  /\ LET fill(x) == IF other = Zero THEN Junk ELSE fillWithValue(SizesOf(p), dims, other, x)
         data == [x \in Whole(p) |->
                    IF InRows(p, dims, x)
                      THEN Read(Locate(Rows(p, dims)[RowOf(p, x)], InRow(p, x))) ELSE fill(x)]
     IN Load(SizesOf(p), SpecLoad(p, Elements(dims), other), "buffer", data,
             RowCells(p, dims), Addresses(p, Elements(dims)),
             IF other = Zero /\ Elements(dims) # Whole(p) THEN {"gather hole"} ELSE {})

(* tts.gather (GatherConverter, ScalarLoadConverter): a pointer that was   *)
(* not analysed, or a mask that was not decoded.                           *)
GatherConverter(p, elems, masked, other) ==
  /\ masked \/ ~Known(p)
  /\ ~masked => elems = Whole(p) /\ other = Zero
  /\ Safe(p, elems)
  /\ Load(SizesOf(p), SpecLoad(p, elems, other), "buffer",
          [x \in Whole(p) |-> IF x \in elems THEN Read(Address(p, x)) ELSE other],
          Addresses(p, elems), Addresses(p, elems), {})

-----------------------------------------------------------------------------
(* A store *)

(* writes is a set of pairs, an address and a value. *)
Put(cells, writes) ==
  [a \in DOMAIN cells |->
     IF \E w \in writes : w[1] = a THEN (CHOOSE w \in writes : w[1] = a)[2] ELSE cells[a]]

(* What may be stored: the tensor, if it has the shape, or a constant. *)
Sources(shape) ==
  {"constant"} \cup (IF tensor.form # "none" /\ tensor.shape = shape THEN {"tensor"} ELSE {})

SpecOf(source, x) == IF source = "constant" THEN Constant ELSE tensor.spec[x]

(* The element x of the tensor, as it reads now. *)
ContentOf(x) == IF tensor.form = "view" THEN Read(tensor.data[x]) ELSE tensor.data[x]

ValueOf(source, x) == IF source = "constant" THEN Constant ELSE ContentOf(x)

CellsRead(source, elems) ==
  IF source = "tensor" /\ tensor.form = "view" THEN {tensor.data[x] : x \in elems} ELSE {}

(* The kernel stores elems at the addresses says(x), the lowered code      *)
(* written at does(x).                                                     *)
Store(source, elems, says(_), written, does(_), pats) ==
  LET writes == {<<does(x), ValueOf(source, x)>> : x \in written}
      specified == {<<says(x), SpecOf(source, x)>> : x \in elems}
  IN /\ accesses' = accesses + 1
     /\ ref' = Put(ref, specified)
     /\ mem' = Put(mem, writes)
     /\ stray' = ({w[1] : w \in writes} \cup CellsRead(source, written))
                   \ ({w[1] : w \in specified} \cup CellsRead(source, elems))
     /\ patterns' = patterns \cup pats
          \cup (IF \E a \in CellsRead("tensor", DOMAIN tensor.data) : a \in Cells /\ mem'[a] # mem[a]
                  THEN {"aliased"} ELSE {})
     /\ UNCHANGED <<tensor, decls, blocks, moves>>

(* The whole tile, or the box of the mask. *)
Bug_StoreConverter(p, dims, source) ==
  /\ IsStructured(p) /\ Safe(p, Elements(dims)) /\ Injective(p, Elements(dims))
  /\ LET does(x) == Locate(rewritePtr(p), x)
         says(x) == Address(p, x)
     IN Store(source, Elements(dims), says, Whole(p), does, WrappedIf(p, Elements(dims)))

(* dims is the whole tile when there is no mask; a scalar has none. *)
StoreConverter(p, dims, source) ==
  /\ IsStructured(p) /\ Safe(p, Elements(dims)) /\ Injective(p, Elements(dims))
  /\ LET m == getSubview(rewritePtr(p), dims)
         does(x) == Locate(m, x)
         says(x) == Address(p, x)
     IN Store(source, Elements(dims), says, Elements(m.sizes), does, WrappedIf(p, Elements(dims)))

rewriteScatter(p, dims, source) ==
  /\ ~IsStructured(p) /\ Known(p) /\ Safe(p, Elements(dims)) /\ Injective(p, Elements(dims))
  /\ LET does(x) == Locate(Rows(p, dims)[RowOf(p, x)], InRow(p, x))
         says(x) == Address(p, x)
     IN Store(source, Elements(dims), says, {x \in Whole(p) : InRows(p, dims, x)}, does, {})

(* tts.scatter (ScatterConverter, ScalarStoreConverter) *)
ScatterConverter(p, elems, masked, source) ==
  /\ masked \/ ~Known(p)
  /\ ~masked => elems = Whole(p)
  /\ Safe(p, elems) /\ Injective(p, elems)
  /\ LET says(x) == Address(p, x) IN Store(source, elems, says, elems, says, {})

-----------------------------------------------------------------------------
(* Block pointers *)

(* The offsets rewriteOp collected for a base: those of the last           *)
(* tt.make_tensor_ptr on it.                                               *)
OffsetMap(base) ==
  decls[CHOOSE i \in DOMAIN decls :
          /\ decls[i].base = base
          /\ \A j \in DOMAIN decls : decls[j].base = base => j <= i].offsets

(* rewriteMakeTensorPtrOp.  at is where the kernel's pointer is; offsets,  *)
(* origiOffsets are the state's, emitted the tts.make_tptr's.              *)
MakeTensorPtr ==
  /\ Len(blocks) < Len(decls)
  /\ LET b == decls[Len(blocks) + 1] IN
       blocks' = Append(blocks,
         [base |-> b.base, bound |-> b.bound, strides |-> b.strides, sizes |-> b.sizes,
          at |-> b.offsets, offsets |-> [d \in DOMAIN b.offsets |-> b.offsets[d] * b.strides[d]],
          origiOffsets |-> b.offsets, emitted |-> OffsetMap(b.base)])
  /\ UNCHANGED <<mem, ref, tensor, decls, accesses, moves, stray, patterns>>

rewriteAdvanceOp(b, inc) ==
  LET orig == [d \in DOMAIN inc |-> inc[d] + b.origiOffsets[d]] IN
    [b EXCEPT !.at = [d \in DOMAIN inc |-> @[d] + inc[d]],
              !.offsets = [d \in DOMAIN inc |-> inc[d] * b.strides[d] + @[d]],
              !.origiOffsets = orig, !.emitted = orig]

(* The kernel goes on with the advanced pointer. *)
Advance(i, inc) ==
  /\ moves < MaxMoves
  /\ DOMAIN inc = DOMAIN blocks[i].at
  /\ moves' = moves + 1
  /\ blocks' = [blocks EXCEPT ![i] = rewriteAdvanceOp(@, inc)]
  /\ UNCHANGED <<mem, ref, tensor, decls, accesses, stray, patterns>>

Checked(b, checks) == {x \in Elements(b.sizes) : Inside(b, x, checks)}

(* A dimension that is not checked is within bounds. *)
BlockSafe(b, checks) == \A x \in Checked(b, checks) : Inside(b, x, DOMAIN b.sizes)

BlockPatterns(b, checks) ==
  (IF b.emitted # b.origiOffsets THEN {"shared base"} ELSE {})
    \cup (IF \E d \in checks : b.at[d] < 0 THEN {"before the start"} ELSE {})
    \cup (IF \E d \in checks : b.at[d] > b.bound[d] THEN {"past the end"} ELSE {})

SpecBlock(b, checks, padding) ==
  [x \in Elements(b.sizes) |->
     IF x \in Checked(b, checks) THEN ref[BlockAddress(b, x)] ELSE padding]

BlockAddresses(b, checks) == {BlockAddress(b, x) : x \in Checked(b, checks)}

(* No check: to_tensor of the pointer, whatever its sizes are. *)
BlockLoad(b) ==
  /\ BlockSafe(b, {})
  /\ LET m == rewriteBlockPtr(b) IN
       Load(b.sizes, SpecBlock(b, {}, Zero), "view", [x \in Elements(b.sizes) |-> Locate(m, x)],
            Located(m), BlockAddresses(b, {}), BlockPatterns(b, {}))

(* rewriteStructuredLoad with a boundary check: the sizes of the pointer   *)
(* say what is copied; without a padding the rest is zero.                 *)
BoundaryLoad(b, checks, padding) ==
  /\ BlockSafe(b, checks)
  /\ LET m == rewriteBlockPtr(b)
         value == IF padding = Unspecified THEN Zero ELSE padding
         fill(x) == fillWithValue(b.sizes, m.sizes, value, x)
     IN Load(b.sizes, SpecBlock(b, checks, padding), "buffer", Copied(m, fill, b.sizes),
             Located(m), BlockAddresses(b, checks), BlockPatterns(b, checks))

(* With a check or without, the sizes of the pointer say what is written. *)
BlockStore(b, checks, source) ==
  /\ BlockSafe(b, checks)
  /\ Cardinality(BlockAddresses(b, checks)) = Cardinality(Checked(b, checks))
  /\ LET m == rewriteBlockPtr(b)
         does(x) == Locate(m, x)
         says(x) == BlockAddress(b, x)
     IN Store(source, Checked(b, checks), says, Elements(m.sizes), does, BlockPatterns(b, checks))

-----------------------------------------------------------------------------
LoadStep ==
  \E i \in DOMAIN Pointers :
    LET p == Pointers[i] IN
      \/ StructuredLoad(p) \/ ScalarLoad(p)
      \/ \E dims \in Boxes(p), other \in {Zero, Other} :
           rewriteMaskedLoad(p, dims, other) \/ rewriteGather(p, dims, other)
      \/ \E elems \in UndecodedMasks(p), masked \in BOOLEAN, other \in {Zero, Other} :
           GatherConverter(p, elems, masked, other)

StoreStep ==
  \E i \in DOMAIN Pointers :
    LET p == Pointers[i] IN
      \E source \in Sources(SizesOf(p)) :
        \/ \E dims \in Boxes(p) : StoreConverter(p, dims, source) \/ rewriteScatter(p, dims, source)
        \/ \E elems \in UndecodedMasks(p), masked \in BOOLEAN :
             ScatterConverter(p, elems, masked, source)

BlockStep ==
  \E i \in DOMAIN blocks :
    LET b == blocks[i] IN
      \/ BlockLoad(b)
      \/ \E checks \in (SUBSET DOMAIN b.sizes) \ {{}}, padding \in {Unspecified, Other} :
           BoundaryLoad(b, checks, padding)
      \/ \E checks \in SUBSET DOMAIN b.sizes, source \in Sources(b.sizes) :
           BlockStore(b, checks, source)

PointerStep ==
  \/ MakeTensorPtr
  \/ \E i \in DOMAIN blocks : \E inc \in Increments : Advance(i, inc)

Next == \/ accesses < MaxAccesses /\ (LoadStep \/ StoreStep \/ BlockStep)
        \/ PointerStep

Spec == Init /\ [][Next]_vars

-----------------------------------------------------------------------------
(* Patterns that are lowered wrongly, or left to chance:                   *)
(*   wrapped           a tile reaches its modulo; the memref goes on past  *)
(*   gather hole       a masked gather without other leaves its buffer     *)
(*                     unwritten, where other loads read zero              *)
(*   aliased           a store changes what a plain load left as a view    *)
(*   shared base       two tt.make_tensor_ptr on one base: the first gets  *)
(*                     the offsets of the second                           *)
(*   before the start  a lower bound is not checked                        *)
(*   past the end      the size of the memref is negative, undefined       *)
Patterns ==
  {"wrapped", "gather hole", "aliased", "shared base", "before the start", "past the end"}

Values == {Zero, Other, Constant, Unspecified, Junk} \cup {a + 1 : a \in Cells}

(* The memories hold what was put there at first, or by an operation; the  *)
(* tensor has an element for each index of its shape; the two descriptions *)
(* of where a block pointer is, in elements and in memory, agree.          *)
TypeOK ==
  /\ mem \in [Cells -> Values] /\ ref \in [Cells -> Values]
  /\ tensor.form \in {"none", "view", "buffer"}
  /\ tensor.form # "none" =>
       DOMAIN tensor.spec = Elements(tensor.shape) /\ DOMAIN tensor.data = Elements(tensor.shape)
  /\ Len(blocks) <= Len(decls)
  /\ \A i \in DOMAIN blocks : \A d \in DOMAIN blocks[i].at :
       blocks[i].offsets[d] = blocks[i].origiOffsets[d] * blocks[i].strides[d]
  /\ accesses \in 0 .. MaxAccesses /\ moves \in 0 .. MaxMoves
  /\ patterns \subseteq Patterns

Exact(value, spec) == spec = Unspecified \/ value = spec

ReadExact ==
  tensor.form # "none" => \A x \in DOMAIN tensor.spec : Exact(ContentOf(x), tensor.spec[x])

(* A tensor holds, when it is used, what the kernel loaded: through plain, *)
(* masked, gathered, scalar, bounded and element-wise loads, after any     *)
(* stores and advances (rewriteLoadOp, LoadConverter, GatherConverter).    *)
TensorExact == patterns = {} => ReadExact

(* The memory is what the kernel made of it (rewriteStoreOp,               *)
(* StoreConverter, ScatterConverter), and the offsets of a block pointer   *)
(* are those of the tile it was advanced to.                               *)
MemoryExact == TypeOK /\ (patterns = {} => \A a \in Cells : Exact(mem[a], ref[a]))

(* No operation touches a cell the kernel's masks and bounds keep it from: *)
(* what lies behind the last row, or another tensor's memory.              *)
NothingElseTouched == patterns = {} => stray = {}

=============================================================================
