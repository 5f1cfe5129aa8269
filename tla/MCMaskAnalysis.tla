--------------------------- MODULE MCMaskAnalysis ---------------------------
(* MaskAnalysis on vectors of one and two, columns, rows and 2 x 2. *)
EXTENDS MaskAnalysis

MCShapes == {<<1>>, <<2>>, <<2, 1>>, <<1, 2>>, <<2, 2>>}

MCScalars == {Const(0), Value(-1), Value(2)}

(* A value not decoded, or that may be decoded wrongly, is not used.  A    *)
(* third value is the limit the second one is compared with next to a mask.*)
Followed ==
  /\ \A i \in DOMAIN operands : Parsed(operands[i].m) /\ operands[i].patterns = {}
  /\ Len(operands) = 3 =>
       /\ operands[1].isBool /\ ~operands[2].isBool
       /\ operands[3].shape = operands[2].shape
=============================================================================
