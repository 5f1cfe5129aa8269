--------------------------- MODULE MCXSMTToLinalg ---------------------------
(* Kernels of up to seven calls on a matrix of three rows and four columns. *)
EXTENDS XSMTToLinalg

Block(off, block) == [kind |-> "block", off |-> off, block |-> block, other |-> 0]
Masked(off, block, dims) == [kind |-> "masked", off |-> off, block |-> block, dims |-> dims, other |-> 100]

Load(p) == [call |-> "load", from |-> p]
Zeros(shape) == [call |-> "zeros", shape |-> shape]
View(base, off, const, shape, tile) ==
  [call |-> "view", base |-> base, off |-> off, const |-> const, shape |-> shape, tile |-> tile]
Whole(base, shape, tile) == View(base, <<0, 0>>, TRUE, shape, tile)
Unpack(base, shape) == Whole(base, shape, <<1, 1>>)
Dot(a, b) == [call |-> "dot", a |-> a, b |-> b]
Vmt4d(a, b, init) == [call |-> "vmt4d", a |-> a, b |-> b, init |-> init]
Trans(base) == [call |-> "trans", base |-> base]
Add(lhs, rhs) == [call |-> "add", lhs |-> lhs, rhs |-> rhs]
StoreTo(to, value) == [call |-> "store", to |-> to, value |-> value]
Alloc(shape) == [call |-> "alloc", shape |-> shape]
LoadAt(base) == [call |-> "load at", base |-> base]
StoreAt(base, value) == [call |-> "store at", base |-> base, value |-> value]

All == <<4, 4>>

MCBound == <<3, 4>>

Loads == {Block(<<0, 0>>, All), Block(<<2, 0>>, <<2, 4>>), Masked(<<0, 0>>, <<2, 4>>, <<2, 3>>)}

Offsets == {[off |-> <<0, 0>>, const |-> TRUE]} \cup [off : {<<0, 0>>, <<0, 2>>, <<2, 0>>, <<1, 1>>}, const : {FALSE}]

ViewsOf(base, shapes, tiles) ==
  {View(base, o.off, o.const, shape, tile) : o \in Offsets, shape \in shapes, tile \in tiles}

Viewed1 ==
  {<<Load(p), v>> \o w :
     p \in Loads, v \in ViewsOf(1, {<<2, 2>>, <<3, 4>>, <<2, 4>>}, {<<2, 2>>, <<1, 2>>}),
     w \in {<<x>> : x \in ViewsOf(2, {<<2, 2>>}, {<<1, 1>>, <<2, 2>>, <<2, 1>>})} \cup {<<Trans(2)>>, <<Trans(2), Trans(2)>>}}

Stored ==
  {<<Load(Block(<<0, 0>>, All)), Whole(1, All, <<2, 2>>), View(2, o.off, o.const, <<2, 4>>, <<1, 1>>), StoreTo(to, 3)>> :
     o \in Offsets, to \in {Block(<<2, 0>>, <<2, 4>>), Masked(<<1, 0>>, <<2, 4>>, <<2, 3>>)}}

Reordered ==
  {<<Load(Block(<<0, 0>>, <<2, 4>>)), Load(Block(<<1, 0>>, <<2, 4>>)), StoreTo(to, 2), Whole(1, <<2, 4>>, <<2, 2>>)>> :
     to \in {Block(<<0, 0>>, <<2, 4>>), Block(<<2, 0>>, <<2, 4>>)}}

Product(p, q, ta, tb) ==
  <<Load(p), Whole(1, p.block, ta), Load(q), Whole(3, q.block, tb), Dot(2, 4)>>

Products ==
  LET operands == Product(Block(<<0, 0>>, <<2, 4>>), Block(<<1, 0>>, <<2, 4>>), <<2, 2>>, <<1, 2>>)
  IN  {Product(Block(<<0, 0>>, <<4, 2>>), Block(<<1, 0>>, q), <<2, 1>>, tb) \o <<Unpack(5, <<4, q[2]>>), StoreTo(Block(<<0, 0>>, <<4, 2>>), 6)>> :
         q \in {<<2, 2>>}, tb \in {<<1, 2>>, <<2, 2>>}}
      \cup {operands \o <<Unpack(5, <<2, 2>>)>>, operands \o <<Dot(2, 4)>>, operands \o <<Trans(4)>>}

Sums ==
  LET operands == Product(Block(<<0, 0>>, <<2, 4>>), Block(<<1, 0>>, <<4, 2>>), <<2, 2>>, <<2, 2>>)
                    \o <<Load(Block(<<0, 1>>, <<2, 2>>)), Whole(6, <<2, 2>>, <<2, 2>>)>>
  IN  {operands \o w : w \in {<<Add(5, 7)>>, <<Add(7, 5)>>, <<Add(5, 5)>>, <<Add(7, 5), Unpack(5, <<2, 2>>)>>, <<Add(7, 5), Add(7, 5)>>,
                             <<Dot(2, 4), Add(5, 8)>>}}

Vectors ==
  {<<Load(Block(<<1, 0>>, <<1, 3>>)), Load(Block(<<0, 1>>, <<3, 2>>)), init, Vmt4d(1, 2, i)>> :
     i \in {0, 3}, init \in {Zeros(<<1, 2>>), Load(Block(<<2, 2>>, <<1, 2>>))}}

Buffers ==
  {<<Alloc(All), View(1, <<0, 0>>, const, All, tile), Load(Block(<<0, 0>>, All)), Whole(3, All, tile), StoreAt(2, 4)>> \o w :
     const \in BOOLEAN, tile \in {<<2, 2>>, <<1, 2>>, <<3, 2>>},
     w \in {<<LoadAt(2), Unpack(6, All)>>}
            \cup {<<v, LoadAt(6)>> : v \in ViewsOf(2, {<<2, 2>>}, {<<0, 0>>})}}

Filled == {<<Zeros(All), v, v2>> : v \in ViewsOf(1, {<<2, 2>>, <<3, 3>>}, {<<2, 2>>}), v2 \in ViewsOf(1, {<<2, 3>>}, {<<1, 2>>})}

TilePrograms ==
  Viewed1 \cup Stored \cup Reordered \cup Products \cup Sums \cup Vectors \cup Buffers \cup Filled

Op(op, ins) == [op |-> op, ins |-> ins]
Alloc1 == Op("alloc", <<>>)
For1(ins, end) == [op |-> "for", ins |-> ins, end |-> end]
If1(otherwise, end) == [op |-> "if", ins |-> <<>>, otherwise |-> otherwise, end |-> end]
Use1(v) == Op("use", <<v>>)
Yield1(ins) == Op("yield", ins)

R(i) == <<i, 1>>

BarrierKernels ==
  { <<Alloc1>>,
    <<Alloc1, For1(<<>>, 4), Use1(R(1)), Yield1(<<>>), Alloc1, Use1(R(5))>>,
    <<Alloc1, Alloc1, Op("select", <<R(1), R(2)>>), Use1(R(1)), Use1(R(3))>>,
    <<Alloc1, Alloc1, Op("from elements", <<R(1), R(2)>>), For1(<<>>, 7), Op("extract", <<R(3)>>), Use1(R(5)),
      Yield1(<<>>), Use1(R(2))>>,
    <<Alloc1, For1(<<R(1)>>, 4), Use1(<<2, -1>>), Yield1(<<<<2, -1>>>>), Use1(R(2))>>,
    <<Alloc1, For1(<<R(1)>>, 6), For1(<<<<2, -1>>>>, 5), Use1(<<3, -1>>), Yield1(<<<<3, -1>>>>), Yield1(<<R(3)>>), Use1(R(2))>>,
    <<Alloc1, If1(5, 6), Use1(R(1)), Yield1(<<>>), Use1(R(1)), Yield1(<<>>)>>,
    <<For1(<<>>, 7), If1(6, 6), Alloc1, Use1(R(3)), Yield1(<<>>), Yield1(<<>>), Yield1(<<>>)>>,
    <<If1(5, 7), Alloc1, Use1(R(2)), Yield1(<<R(2)>>), Alloc1, Use1(R(5)), Yield1(<<R(5)>>), Use1(R(1))>>,
    <<Alloc1, Alloc1, For1(<<R(1), R(2)>>, 5), Use1(<<3, -1>>), Yield1(<<<<3, -2>>, <<3, -1>>>>), Use1(<<3, 2>>), Use1(<<3, 1>>)>>,
    <<Alloc1, Alloc1, For1(<<R(1)>>, 6), Op("select", <<<<3, -1>>, R(1)>>), Use1(R(2)), Yield1(<<R(4)>>), Use1(R(3))>> }
=============================================================================
