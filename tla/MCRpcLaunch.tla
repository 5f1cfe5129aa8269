---------------------------- MODULE MCRpcLaunch ----------------------------
(***************************************************************************)
(* RpcLaunch on a small instance: two kernels of one name (two             *)
(* specialisations) and a second launcher of the first one; argument lists *)
(* with two storages, two views of one storage at different and at equal   *)
(* offsets, a constexpr among them, and a raw pointer with and without the *)
(* tensor it points into.                                                  *)
(***************************************************************************)
EXTENDS RpcLaunch, TLC

CONSTANTS first, second, again, s1, s2

(* The first and its second launcher are alike, whatever their order. *)
MCSymmetry == Permutations({first, again})

MCLaunchers == {first, second, again}

MCName == [l \in MCLaunchers |-> "kernel"]

MCBinary == [l \in MCLaunchers |-> IF l = second THEN 2 ELSE 1]

MCStorages == {s1, s2}

MCAddrs == 1 .. 3

Tensor(s, c) == [kind |-> "tensor", storage |-> s, cell |-> c]

Raw(s, c) == [kind |-> "raw", storage |-> s, cell |-> c]

Constexpr == [kind |-> "constexpr", storage |-> s1, cell |-> 0]

MCArgLists == {
  <<Tensor(s1, 0), Constexpr, Tensor(s2, 1)>>,
  <<Tensor(s1, 0), Tensor(s1, 1), Raw(s1, 0)>>,
  <<Tensor(s2, 1), Raw(s1, 0)>> }
=============================================================================
