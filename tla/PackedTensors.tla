---------------------------- MODULE PackedTensors ----------------------------
(***************************************************************************)
(* Matrices and matrices of tiles, and the operations of the linalg,       *)
(* tensor and memref dialects on them that the lowering of XSMT emits.     *)
(* These dialects are not part of the repository; what is here is what the *)
(* lowering relies on.                                                     *)
(*                                                                         *)
(* A tensor is its dimensions and its elements by their index from 0.  A   *)
(* matrix has two dimensions; one of tiles has four, the first two count   *)
(* the tiles.  An operation outside its domain leaves Undefined.  A memref *)
(* says which cell of memory each of its elements is.                      *)
(***************************************************************************)
EXTENDS Integers, Sequences, FiniteSets, SequencesExt

Undefined == [dims |-> <<>>, at |-> <<>>]

Idx(dims) ==
  IF \E d \in DOMAIN dims : dims[d] < 1 THEN {}
  ELSE {ix \in [DOMAIN dims -> 0 .. Max(Range(dims)) - 1] : \A d \in DOMAIN dims : ix[d] < dims[d]}

Tensor(dims, at(_)) == [dims |-> dims, at |-> [ix \in Idx(dims) |-> at(ix)]]

Lower(a, b) == IF a < b THEN a ELSE b

CeilDiv(a, b) == (a + b - 1) \div b

CeilDivs(dims, tile) == [d \in 1 .. 2 |-> CeilDiv(dims[d], tile[d])]

(* The elements of a matrix of tiles, as a matrix. *)
Flat(dims) == [d \in 1 .. 2 |-> dims[d] * dims[d + 2]]

InTile(dims, x) ==
  <<x[1] \div dims[3], x[2] \div dims[4], x[1] % dims[3], x[2] % dims[4]>>

(* linalg.unpack drops the elements beyond the extents asked for. *)
LinalgUnPack(t, dims) ==
  IF t = Undefined \/ \E d \in 1 .. 2 : dims[d] > Flat(t.dims)[d] THEN Undefined
  ELSE Tensor(dims, LAMBDA x : t.at[InTile(t.dims, x)])

(* linalg.pack, padded with zeros: dimension pos[k] of the matrix is the   *)
(* k-th of the tiles' counts and of their extents.                         *)
LinalgPack(m, dims, innerPos, outerPerm) ==
  LET Of(perm, d) == CHOOSE k \in 1 .. 2 : perm[k] = d
      Coordinate(ix, d) == ix[Of(outerPerm, d)] * dims[2 + Of(innerPos, d)] + ix[2 + Of(innerPos, d)]
  IN  IF m = Undefined \/ \E d \in 1 .. 2 : m.dims[d] > dims[Of(outerPerm, d)] * dims[2 + Of(innerPos, d)]
        THEN Undefined
        ELSE Tensor(dims, LAMBDA ix :
               LET x == <<Coordinate(ix, 1), Coordinate(ix, 2)>>
               IN  IF x \in DOMAIN m.at THEN m.at[x] ELSE 0)

ExtractSlice(t, offsets, sizes) ==
  IF t = Undefined \/ \E d \in 1 .. 2 : sizes[d] < 0 \/ offsets[d] + sizes[d] > t.dims[d]
    THEN Undefined
    ELSE Tensor(sizes, LAMBDA x : t.at[<<x[1] + offsets[1], x[2] + offsets[2]>>])

(* tensor.cast to a static type *)
Cast(t, dims) == IF t.dims = dims THEN t ELSE Undefined

(* linalg.transpose with the permutation 1, 0, 3, 2 *)
TransposeTiles(t) ==
  IF t = Undefined THEN Undefined
  ELSE Tensor(<<t.dims[2], t.dims[1], t.dims[4], t.dims[3]>>, LAMBDA ix : t.at[<<ix[2], ix[1], ix[4], ix[3]>>])

SumOver(n, term(_)) == FoldLeft(LAMBDA s, k : s + term(k), 0, [k \in 1 .. n |-> k - 1])

(* linalg.mmt4d: the second operand is that of the product, transposed. *)
Mmt4D(a, b, init) ==
  IF Undefined \in {a, b, init} THEN Undefined
  ELSE Tensor(init.dims, LAMBDA ix :
         init.at[ix] + SumOver(a.dims[2], LAMBDA k :
           SumOver(a.dims[4], LAMBDA kk :
             a.at[<<ix[1], k, ix[3], kk>>] * b.at[<<ix[2], k, ix[4], kk>>])))

Matmul(a, b, init) ==
  IF Undefined \in {a, b, init} THEN Undefined
  ELSE Tensor(init.dims, LAMBDA x :
         init.at[x] + SumOver(a.dims[2], LAMBDA k : a.at[<<x[1], k>>] * b.at[<<k, x[2]>>]))

Fill(dims) == Tensor(dims, LAMBDA ix : 0)

AddTensors(a, b) ==
  IF Undefined \in {a, b} THEN Undefined ELSE Tensor(a.dims, LAMBDA ix : a.at[ix] + b.at[ix])

-----------------------------------------------------------------------------
(* Memrefs *)

Nowhere == <<-1, <<>>>>

(* A part of a memref; an element beyond it has no cell. *)
SubView(m, offsets, sizes) ==
  Tensor(sizes, LAMBDA ix :
    LET jx == [d \in DOMAIN ix |-> ix[d] + offsets[d]]
    IN  IF jx \in DOMAIN m.at THEN m.at[jx] ELSE Nowhere)

(* memref.expand_shape of both dimensions and the transpose 0, 2, 1, 3 *)
ExpandAndTranspose(m, tile) ==
  Tensor(CeilDivs(m.dims, tile) \o tile,
         LAMBDA ix : m.at[<<ix[1] * tile[1] + ix[3], ix[2] * tile[2] + ix[4]>>])
=============================================================================
