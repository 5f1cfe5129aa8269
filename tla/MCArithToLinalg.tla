-------------------------- MODULE MCArithToLinalg --------------------------
(* ArithToLinalg on tensors of two to four elements. *)
EXTENDS ArithToLinalg

Filled(shape, ty, elems) ==
  {Tensor(shape, ty, at) : at \in [Idx(shape) -> elems]}

MCInputs ==
  Filled(<<3>>, "int", {0, 2, 3}) \cup Filled(<<2, 2>>, "int", {1, 3})
    \cup Filled(<<2, 1, 2>>, "int", {2, 3}) \cup Filled(<<1>>, "int", {2})
    \cup Filled(<<3>>, "f32", {-1, 1}) \cup Filled(<<2, 2>>, "f32", {-1, 2})
    \cup Filled(<<2>>, "f32", {-Inf, 1, NaN}) \cup Filled(<<2, 1, 1>>, "f32", {1, 2})
    \cup Filled(<<3>>, "bf16", {-2, 2}) \cup Filled(<<3>>, "f16", {-2, 2})
    \cup Filled(<<3, 1>>, "bf16", {-2, 2}) \cup Filled(<<1, 3>>, "bf16", {-2, 2})

MCWords == Filled(<<3>>, "int", {0, 2, 3})
=============================================================================
