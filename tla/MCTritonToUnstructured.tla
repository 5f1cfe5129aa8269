---------------------- MODULE MCTritonToUnstructured ----------------------
(* TritonToUnstructured on kernels with two arguments. *)
EXTENDS TritonToUnstructured

TwoArguments == <<1, 1>>

SecondAfterFirst == \A j \in Operations : Uses(j, 2) => \E i \in 1 .. j : Uses(i, 1)

AtMostOne(S) == \A i, j \in S : i = j

(* Any number of tt.addptr, of which one may be wide and one in an scf.if; *)
(* one select, one loop and one of the others; of the arguments, which are *)
(* alike, the first is used first.  The largest kernels only load.         *)
Various ==
  /\ AtMostOne({i \in Operations : Kind(i) = "addptr" /\ ops[i].width # DefaultBitWidth})
  /\ AtMostOne({i \in Operations : Kind(i) = "addptr" /\ ops[i].inIf})
  /\ AtMostOne({i \in Operations : Kind(i) = "for"})
  /\ AtMostOne({i \in Operations : Kind(i) = "select"})
  /\ AtMostOne({i \in Operations : Kind(i) \in {"splat", "bitcast", "inttoptr", "if"}})
  /\ SecondAfterFirst
  /\ Len(ops) = Len(Arguments) + MaxOps => \A i \in Operations : Kind(i) \in Users => Kind(i) = "load"
=============================================================================
