---------------------------- MODULE MCTileAccess ----------------------------
(* TileAccess on a memory of eight cells. *)
EXTENDS TileAccess

Pointer(base, dims) == [base |-> base, dims |-> dims]

Wrapping(offset, size, stride, shape) == [Dim(offset, size, stride) EXCEPT !.shape = shape]

Index(i, j) == Tensor([k \in 0 .. 1 |-> IF k = 0 THEN i ELSE j])

MCPointers ==
  << Pointer(6, <<>>),
     Pointer(1, <<Dim(Value(1), 2, Attr(2))>>),
     Pointer(0, <<Dim(Index(7, 2), 2, Attr(1))>>),
     Pointer(0, <<Dim(Value(1), 2, Value(3)), Dim(Attr(0), 2, Attr(1))>>),
     Pointer(1, <<Dim(Attr(0), 2, Attr(2)), Dim(Attr(0), 2, Attr(3))>>),
     Pointer(2, <<Dim(Attr(1), 2, Attr(2)), Dim(Attr(0), 1, Attr(0))>>),
     Pointer(0, <<Dim(Value(4), 2, Value(0)), Dim(Attr(1), 2, Attr(1))>>),
     Pointer(0, <<Dim(Attr(0), 2, Value(4)), Wrapping(Attr(1), 2, Attr(1), Value(3))>>),
     Pointer(0, <<Dim(Attr(0), 2, Value(4)), Wrapping(Attr(2), 2, Attr(1), Value(3))>>),
     Pointer(1, <<Dim(Index(2, 0), 2, Value(2)), Dim(Attr(1), 2, Attr(1))>>),
     Pointer(0, <<Dim(Value(1), 2, Attr(4)), Dim(Index(2, 0), 2, Attr(1))>>) >>

MCMasks == {{}, {<<1>>}, {<<0, 1>>, <<1, 0>>}, {<<1, 0>>, <<1, 1>>}}

Declared(base, bound, strides, offsets) ==
  [base |-> base, bound |-> bound, strides |-> strides, offsets |-> offsets, sizes |-> <<2, 2>>]

MCDeclarations ==
  { Declared(0, <<3, 2>>, <<2, 1>>, <<0, 0>>),
    Declared(0, <<3, 2>>, <<2, 1>>, <<2, 0>>),
    Declared(2, <<1, 3>>, <<3, 1>>, <<0, 1>>) }

MCIncrements == {<<1, 0>>, <<0, 1>>, <<2, -1>>, <<-1, 0>>}

(* A kernel that met a pattern is not followed.  Making a pointer changes  *)
(* nothing else, so all are made first; two declared pointers are not      *)
(* moved; a kernel with block pointers has tiles of their shape only.      *)
Followed ==
  /\ patterns = {} /\ (Len(decls) = 2 => moves = 0)
  /\ accesses > 0 => Len(blocks) = Len(decls)
  /\ decls # <<>> /\ tensor.form # "none" => tensor.shape = <<2, 2>>
=============================================================================
