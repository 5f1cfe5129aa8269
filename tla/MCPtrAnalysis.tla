--------------------------- MODULE MCPtrAnalysis ---------------------------
(* PtrAnalysis on small tensors: vectors of two, columns, rows, 2 x 2. *)
EXTENDS PtrAnalysis

MCShapes == {<<2>>, <<2, 1>>, <<1, 2>>, <<2, 2>>}

Rows == {<<1, 2>>}

MCConstants == {2, -1}

(* A value the analysis gave up, or may have decoded wrongly, is not used. *)
Followed == \A i \in DOMAIN operands : Ok(operands[i].s) /\ operands[i].patterns = {}

Analysed == \A i \in DOMAIN operands : Ok(operands[i].s)
=============================================================================
