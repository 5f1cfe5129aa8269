---------------------------- MODULE OpFoldResult ----------------------------
(***************************************************************************)
(* OpFoldResult and the arithmetic of OpFoldResultUtils.cpp: a number the  *)
(* compiler knows (an attribute, an arith.constant) or an operation will   *)
(* yield when the kernel runs (a value, or a tensor of values).  The code  *)
(* folds and decides by the first two, so the kind is kept beside the      *)
(* number.  Numbers are unbounded.                                         *)
(***************************************************************************)
EXTENDS Integers

Attr(n)   == [kind |-> "attr", val |-> n]
Const(n)  == [kind |-> "constant", val |-> n]
Value(n)  == [kind |-> "value", val |-> n]
Tensor(f) == [kind |-> "tensor", val |-> f]
Absent    == [kind |-> "none", val |-> 0]

IsAttr(a) == a.kind = "attr"

IsTensor(a) == a.kind = "tensor"

IsConst(a) == a.kind \in {"attr", "constant"}

Present(a) == a.kind # "none"

HasConstZero(a) == IsConst(a) /\ a.val = 0

SameOFR(a, b) == a.kind = b.kind /\ a.val = b.val

At(a, i) == IF IsTensor(a) THEN a.val[i] ELSE a.val

(* An operation is emitted; a scalar operand of a tensor one is splat. *)
Emit(Op(_, _), a, b) ==
  IF IsTensor(a) \/ IsTensor(b)
    THEN Tensor([i \in DOMAIN (IF IsTensor(a) THEN a ELSE b).val
                   |-> Op(At(a, i), At(b, i))])
    ELSE Value(Op(a.val, b.val))

Plus(m, n)  == m + n
Minus(m, n) == m - n
Times(m, n) == m * n

AddOFRs(a, b) ==
  CASE IsAttr(a) /\ IsAttr(b) -> Attr(a.val + b.val)
    [] ~IsAttr(a) /\ IsAttr(b) /\ b.val = 0 -> a
    [] ~IsAttr(b) /\ IsAttr(a) /\ a.val = 0 -> b
    [] OTHER -> Emit(Plus, a, b)

SubOFRs(a, b) ==
  CASE IsAttr(a) /\ IsAttr(b) -> Attr(a.val - b.val)
    [] ~IsAttr(a) /\ IsAttr(b) /\ b.val = 0 -> a
    [] OTHER -> Emit(Minus, a, b)

MulOFRs(a, b) ==
  IF IsConst(a) /\ a.val = 0 THEN a
  ELSE IF IsConst(a) /\ a.val = 1 THEN b
  ELSE IF IsConst(b) /\ b.val = 0 THEN b
  ELSE IF IsConst(b) /\ b.val = 1 THEN a
  ELSE IF IsConst(a) /\ IsConst(b) THEN Attr(a.val * b.val)
  ELSE Emit(Times, a, b)

MinOf(m, n) == IF m < n THEN m ELSE n
MaxOf(m, n) == IF m > n THEN m ELSE n

(* minOFRs and maxOFRs fold attributes only. *)
MinOFRs(a, b) ==
  IF IsAttr(a) /\ IsAttr(b) THEN Attr(MinOf(a.val, b.val)) ELSE Emit(MinOf, a, b)

MaxOFRs(a, b) ==
  IF IsAttr(a) /\ IsAttr(b) THEN Attr(MaxOf(a.val, b.val)) ELSE Emit(MaxOf, a, b)
=============================================================================
