-------------------------- MODULE MCProtonRuntime --------------------------
(***************************************************************************)
(* ProtonRuntime with two threads, which are interchangeable.              *)
(***************************************************************************)
EXTENDS ProtonRuntime, TLC

Symmetry == Permutations(Threads) \cup Permutations(Names)
=============================================================================
