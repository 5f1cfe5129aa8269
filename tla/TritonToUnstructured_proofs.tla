--------------------- MODULE TritonToUnstructured_proofs ---------------------
(***************************************************************************)
(* What TLAPS proves about TritonToUnstructured, for kernels of every size *)
(* over every choice of arguments, widths, offsets and trip counts.        *)
(***************************************************************************)
EXTENDS TritonToUnstructured, FiniteSetTheorems, SequenceTheorems, NaturalsInduction,
        WellFoundedInduction, TLAPS

-----------------------------------------------------------------------------
(* Induction with a set in the place of a predicate *)

(* A set that has 0 and, with a number, the next one, has them all.        *)
LEMMA SetInduction ==
  ASSUME NEW S, 0 \in S, \A n \in Nat : n \in S => n + 1 \in S
  PROVE  Nat \subseteq S
<1> DEFINE T == Nat \ S
           R == OpToRel(<, Nat)
<1>1. SUFFICES ASSUME T # {} PROVE FALSE
  OBVIOUS
<1>2. IsWellFoundedOn(R, Nat)
  BY NatLessThanWellFounded
<1>3. \A m, n \in Nat : m < n => <<m, n>> \in R
  BY DEF OpToRel
<1> HIDE DEF R
<1>4. T \subseteq Nat
  OBVIOUS
<1> HIDE DEF T
<1>5. PICK x \in T : \A y \in T : ~ (<<y, x>> \in R)
  BY <1>1, <1>2, <1>4, WFMin
<1>6. x \in Nat /\ x # 0
  BY <1>4 DEF T
<1>7. x - 1 \in Nat /\ x - 1 < x /\ (x - 1) + 1 = x
  BY <1>6
<1>8. x - 1 \notin T
  BY <1>3, <1>5, <1>6, <1>7
<1> QED BY <1>6, <1>7, <1>8 DEF T


-----------------------------------------------------------------------------
(* Sequences used as work lists *)

LEMMA ElementsEmpty == Elements(<<>>) = {} /\ Distinct(<<>>)
  BY DEF Elements, Distinct

LEMMA ElementsAppend ==
  ASSUME NEW S, NEW s \in Seq(S), NEW x \in S
  PROVE  /\ Append(s, x) \in Seq(S) /\ Append(s, x) # <<>>
         /\ Elements(Append(s, x)) = Elements(s) \cup {x}
         /\ Distinct(s) /\ x \notin Elements(s) => Distinct(Append(s, x))
<1>1. /\ Append(s, x) \in Seq(S) /\ Append(s, x) # <<>>
      /\ Len(Append(s, x)) = Len(s) + 1 /\ Append(s, x)[Len(s) + 1] = x
      /\ \A i \in 1 .. Len(s) : Append(s, x)[i] = s[i]
      /\ Len(s) \in Nat /\ DOMAIN s = 1 .. Len(s)
      /\ DOMAIN Append(s, x) = 1 .. Len(Append(s, x))
  BY AppendProperties, LenProperties
<1>2. DOMAIN Append(s, x) = DOMAIN s \cup {Len(s) + 1}
  BY <1>1
<1>3. Elements(Append(s, x)) = Elements(s) \cup {x}
  BY <1>1, <1>2 DEF Elements
<1>4. ASSUME Distinct(s), x \notin Elements(s) PROVE Distinct(Append(s, x))
  BY <1>1, <1>2, <1>4 DEF Elements, Distinct
<1> QED BY <1>1, <1>3, <1>4

LEMMA ElementsTail ==
  ASSUME NEW S, NEW s \in Seq(S), s # <<>>
  PROVE  /\ Tail(s) \in Seq(S) /\ Head(s) \in S
         /\ Elements(s) = Elements(Tail(s)) \cup {Head(s)}
         /\ Distinct(s) => Distinct(Tail(s)) /\ Head(s) \notin Elements(Tail(s))
<1>1. /\ Tail(s) \in Seq(S) /\ Head(s) \in S /\ Head(s) = s[1]
      /\ Len(s) \in Nat \ {0} /\ Len(Tail(s)) = Len(s) - 1
      /\ DOMAIN s = 1 .. Len(s) /\ DOMAIN Tail(s) = 1 .. Len(s) - 1
      /\ \A i \in 1 .. Len(s) - 1 : Tail(s)[i] = s[i + 1]
  BY HeadTailProperties, LenProperties, EmptySeq
<1>2. ASSUME NEW i \in DOMAIN s, i # 1 PROVE s[i] \in Elements(Tail(s))
  <2>1. i - 1 \in DOMAIN Tail(s) /\ Tail(s)[i - 1] = s[i]
    BY <1>1, <1>2
  <2> QED BY <2>1 DEF Elements
<1>3. ASSUME NEW i \in DOMAIN Tail(s) PROVE Tail(s)[i] \in Elements(s)
  <2>1. i + 1 \in DOMAIN s /\ Tail(s)[i] = s[i + 1]
    BY <1>1
  <2> QED BY <2>1 DEF Elements
<1>4. Head(s) \in Elements(s)
  BY <1>1 DEF Elements
<1>5. Elements(s) = Elements(Tail(s)) \cup {Head(s)}
  <2>1. Elements(s) \subseteq Elements(Tail(s)) \cup {Head(s)}
    BY <1>1, <1>2 DEF Elements
  <2>2. Elements(Tail(s)) \subseteq Elements(s)
    BY <1>3 DEF Elements
  <2> QED BY <2>1, <2>2, <1>4
<1>6. ASSUME Distinct(s) PROVE Distinct(Tail(s)) /\ Head(s) \notin Elements(Tail(s))
  <2>1. \A i, j \in DOMAIN Tail(s) : Tail(s)[i] = Tail(s)[j] => i = j
    <3> SUFFICES ASSUME NEW i \in DOMAIN Tail(s), NEW j \in DOMAIN Tail(s), Tail(s)[i] = Tail(s)[j]
                 PROVE  i = j
      OBVIOUS
    <3>1. i + 1 \in DOMAIN s /\ j + 1 \in DOMAIN s /\ s[i + 1] = s[j + 1]
      BY <1>1
    <3>2. i + 1 = j + 1
      BY <3>1, <1>6 DEF Distinct
    <3> QED BY <3>2, <1>1
  <2>2. \A i \in DOMAIN Tail(s) : Tail(s)[i] # s[1]
    <3> SUFFICES ASSUME NEW i \in DOMAIN Tail(s), Tail(s)[i] = s[1] PROVE FALSE
      OBVIOUS
    <3>1. i + 1 \in DOMAIN s /\ 1 \in DOMAIN s /\ s[i + 1] = s[1]
      BY <1>1
    <3>2. i + 1 = 1
      BY <3>1, <1>6 DEF Distinct
    <3> QED BY <3>2, <1>1
  <2> QED BY <2>1, <2>2, <1>1 DEF Elements, Distinct
<1> QED BY <1>1, <1>5, <1>6

LEMMA ElementsIn == ASSUME NEW S, NEW s \in Seq(S) PROVE Elements(s) \subseteq S
  BY ElementOfSeq, LenProperties DEF Elements

(* The lists the walk starts from *)
LEMMA ElementsConcat ==
  ASSUME NEW S, NEW s \in Seq(S), NEW t \in Seq(S), Distinct(s), Distinct(t),
         Elements(s) \cap Elements(t) = {}
  PROVE  s \o t \in Seq(S) /\ Elements(s \o t) = Elements(s) \cup Elements(t) /\ Distinct(s \o t)
<1>1. /\ s \o t \in Seq(S) /\ Len(s) \in Nat /\ Len(t) \in Nat
      /\ DOMAIN s = 1 .. Len(s) /\ DOMAIN t = 1 .. Len(t)
      /\ DOMAIN (s \o t) = 1 .. Len(s) + Len(t)
      /\ \A i \in 1 .. Len(s) + Len(t) : (s \o t)[i] = IF i <= Len(s) THEN s[i] ELSE t[i - Len(s)]
  BY ConcatProperties, LenProperties
<1>2. ASSUME NEW i \in DOMAIN (s \o t)
      PROVE  \/ i \in DOMAIN s /\ (s \o t)[i] = s[i] /\ s[i] \in Elements(s)
             \/ i \notin DOMAIN s /\ i - Len(s) \in DOMAIN t /\ (s \o t)[i] = t[i - Len(s)]
                  /\ t[i - Len(s)] \in Elements(t)
  <2>1. CASE i <= Len(s)
    BY <2>1, <1>1 DEF Elements
  <2>2. CASE ~(i <= Len(s))
    <3>1. i - Len(s) \in DOMAIN t /\ i \notin DOMAIN s /\ (s \o t)[i] = t[i - Len(s)]
      BY <2>2, <1>1
    <3> QED BY <3>1 DEF Elements
  <2> QED BY <2>1, <2>2
<1>3. \A i \in DOMAIN s : i \in DOMAIN (s \o t) /\ (s \o t)[i] = s[i]
  BY <1>1
<1>4. \A i \in DOMAIN t : i + Len(s) \in DOMAIN (s \o t) /\ (s \o t)[i + Len(s)] = t[i]
  BY <1>1
<1>5. Elements(s \o t) = Elements(s) \cup Elements(t)
  <2>1. Elements(s \o t) \subseteq Elements(s) \cup Elements(t)
    BY <1>2 DEF Elements
  <2>2. Elements(s) \cup Elements(t) \subseteq Elements(s \o t)
    BY <1>3, <1>4 DEF Elements
  <2> QED BY <2>1, <2>2
<1>6. ASSUME NEW i \in DOMAIN (s \o t), NEW j \in DOMAIN (s \o t), (s \o t)[i] = (s \o t)[j]
      PROVE  i = j
  <2>1. CASE i \in DOMAIN s /\ j \in DOMAIN s
    BY <2>1, <1>2, <1>6 DEF Distinct
  <2>2. CASE i \notin DOMAIN s /\ j \notin DOMAIN s
    <3>1. i - Len(s) = j - Len(s)
      BY <2>2, <1>2, <1>6 DEF Distinct
    <3> QED BY <3>1, <1>1
  <2>3. CASE (i \in DOMAIN s) # (j \in DOMAIN s)
    BY <2>3, <1>2, <1>6
  <2> QED BY <2>1, <2>2, <2>3
<1> QED BY <1>1, <1>5, <1>6 DEF Distinct

-----------------------------------------------------------------------------
(* The kernel *)

(* An operation as it may be emitted. *)
Emittable(op) ==
  /\ op \in OperationType
  /\ DOMAIN op.args = IF op.op \in Roots THEN {} ELSE IF op.op \in Merges THEN {1, 2} ELSE {1}
  /\ op.op = "for" => OpenLoop = {}

LEMMA EmitKeeps ==
  ASSUME KernelInv, phase = "kernel", NEW op, Emittable(op), Emit(op)
  PROVE  KernelInv'
<1>a. Len(ops) \in Nat
  BY DEF KernelInv
<1> PICK n \in Nat : n = Len(ops)
  BY <1>a
<1>1. /\ ops' \in Seq(OperationType) /\ Len(ops') = n + 1 /\ n \in Nat
      /\ Operations = 1 .. n /\ Operations' = 1 .. n + 1
      /\ \A i \in 1 .. n : ops'[i] = ops[i]
      /\ ops'[n + 1] = op
  BY AppendProperties, LenProperties DEF KernelInv, Emit, Emittable, Operations
<1>2. /\ \A i \in 1 .. n : Kind(i)' = Kind(i)
      /\ Kind(n + 1)' = op.op /\ phase' = "kernel"
  BY <1>1 DEF Kind, Emit
<1>3. \A i \in Operations' : DOMAIN ops'[i].args = Arity(i)'
  <2> SUFFICES ASSUME NEW i \in 1 .. n + 1 PROVE DOMAIN ops'[i].args = Arity(i)'
    BY <1>1
  <2>1. CASE i \in 1 .. n
    BY <2>1, <1>1, <1>2 DEF KernelInv, Arity
  <2>2. CASE i = n + 1
    BY <2>2, <1>1, <1>2 DEF Emittable, Arity
  <2> QED BY <2>1, <2>2, <1>1
<1>4. /\ OpenLoop = {f \in 1 .. n : Kind(f) = "for" /\ \A j \in f .. n : Kind(j) # "yield"}
      /\ OpenLoop' = {f \in 1 .. n + 1 : Kind(f)' = "for" /\ \A j \in f .. n + 1 : Kind(j)' # "yield"}
  BY <1>1 DEF OpenLoop, LoopOf
<1>5. ASSUME NEW f \in 1 .. n + 1, NEW g \in 1 .. n + 1, Kind(f)' = "for", Kind(g)' = "for", f < g
      PROVE  \E y \in f .. g - 1 : Kind(y)' = "yield"
  <2>1. f \in 1 .. n /\ Kind(f) = "for"
    BY <1>1, <1>2, <1>5
  <2>2. CASE g \in 1 .. n
    <3>1. PICK y \in f .. g - 1 : Kind(y) = "yield"
      BY <2>1, <2>2, <1>1, <1>2, <1>5 DEF KernelInv
    <3>2. y \in 1 .. n
      BY <3>1, <1>1, <2>2
    <3> QED BY <3>1, <3>2, <1>2
  <2>3. CASE g = n + 1
    <3>1. f \notin OpenLoop
      BY <2>3, <1>2, <1>5 DEF Emittable
    <3>2. PICK y \in f .. n : Kind(y) = "yield"
      BY <3>1, <2>1, <1>4
    <3>3. y \in 1 .. n /\ y \in f .. g - 1
      BY <3>2, <1>1, <2>3
    <3> QED BY <3>2, <3>3, <1>2
  <2> QED BY <2>2, <2>3, <1>1
<1>6. ASSUME NEW f \in 1 .. n + 1, Kind(f)' = "for"
      PROVE  f \in OpenLoop' \/ \E y \in 1 .. n + 1 : Closes(y, f)'
  <2>1. CASE f = n + 1
    <3>1. \A j \in f .. n + 1 : Kind(j)' # "yield"
      BY <2>1, <1>1, <1>6
    <3> QED BY <3>1, <1>4, <1>6
  <2>2. CASE f \in 1 .. n /\ f \in OpenLoop
    <3>1. \A j \in f .. n : Kind(j)' # "yield"
      BY <2>2, <1>1, <1>2, <1>4
    <3>2. CASE op.op = "yield"
      <4>1. n + 1 > f /\ Kind(n + 1)' = "yield" /\ \A j \in f .. (n + 1) - 1 : Kind(j)' # "yield"
        BY <3>1, <3>2, <2>2, <1>1, <1>2
      <4>2. Closes(n + 1, f)'
        BY <4>1 DEF Closes
      <4> QED BY <4>2, <1>1
    <3>3. CASE op.op # "yield"
      <4>1. \A j \in f .. n + 1 : Kind(j)' # "yield"
        BY <3>1, <3>3, <1>1, <1>2
      <4> QED BY <4>1, <1>4, <1>6
    <3> QED BY <3>2, <3>3
  <2>3. CASE f \in 1 .. n /\ f \notin OpenLoop
    <3>1. PICK y \in 1 .. n : Closes(y, f)
      BY <2>3, <1>1, <1>2, <1>6 DEF KernelInv
    <3>2. \A j \in f .. y : j \in 1 .. n
      BY <2>3, <1>1
    <3>3. Closes(y, f)'
      BY <3>1, <3>2, <1>1, <1>2, <2>3 DEF Closes
    <3> QED BY <3>3, <1>1
  <2> QED BY <2>1, <2>2, <2>3, <1>1
<1> QED BY <1>1, <1>2, <1>3, <1>5, <1>6 DEF KernelInv

LEMMA KernelStep == KernelInv /\ [Next]_vars => KernelInv'
<1> SUFFICES ASSUME KernelInv, [Next]_vars PROVE KernelInv'
  OBVIOUS
<1> USE DEF Building, BuildingValue
<1>a. /\ ops \in Seq(OperationType) /\ Operations = 1 .. Len(ops) /\ Len(ops) \in Nat
      /\ \A p \in Operations : ops[p] \in OperationType /\ p \in Nat
      /\ DefaultBitWidth \in OffsetWidths \cup {DefaultBitWidth}
      /\ ElementSizes \subseteq Nat
  BY KernelAssumption, ElementOfSeq, LenProperties DEF KernelInv, Operations
<1>b. \A p, q \in Operations :
        /\ <<p>> \in Seq(Nat) /\ DOMAIN <<p>> = {1}
        /\ <<p, q>> \in Seq(Nat) /\ DOMAIN <<p, q>> = {1, 2}
  BY <1>a
<1>1. CASE Move
  <2> SUFFICES ASSUME NEW p \in Operations, NEW op, Emit(op), phase = "kernel",
                      op.op \in Moves, op.args = <<p>>, op \in OperationType
               PROVE  KernelInv'
    <3>1. PICK p \in Operations :
            LET like == OperationLike("", <<p>>, ops[p]) IN
              \/ \E w \in OffsetWidths, inIf \in {ops[p].inIf, TRUE} :
                   Emit([like EXCEPT !.op = "addptr", !.width = w, !.inIf = inIf])
              \/ Emit([like EXCEPT !.op = "splat", !.tensor = TRUE])
              \/ \E e \in ElementSizes : Emit([like EXCEPT !.op = "bitcast", !.elem = e])
      BY <1>1 DEF Move
    <3> DEFINE like == OperationLike("", <<p>>, ops[p])
    <3>2. /\ ops[p] \in OperationType /\ <<p>> \in Seq(Nat)
          /\ like = [op |-> "", args |-> <<p>>, elem |-> ops[p].elem, tensor |-> ops[p].tensor,
                     inIf |-> ops[p].inIf, width |-> DefaultBitWidth]
      BY <1>a, <1>b DEF OperationLike, Operation
    <3>3. phase = "kernel"
      BY <1>1 DEF Move
    <3> HIDE DEF like
    <3>4. ASSUME NEW w \in OffsetWidths, NEW inIf \in {ops[p].inIf, TRUE}
          PROVE  LET op == [like EXCEPT !.op = "addptr", !.width = w, !.inIf = inIf] IN
                   op.op \in Moves /\ op.args = <<p>> /\ op \in OperationType
      BY <3>2, <3>4 DEF OperationType, Moves, Values
    <3>5. LET op == [like EXCEPT !.op = "splat", !.tensor = TRUE] IN
            op.op \in Moves /\ op.args = <<p>> /\ op \in OperationType
      BY <3>2, <1>a DEF OperationType, Moves, Values
    <3>6. ASSUME NEW e \in ElementSizes
          PROVE  LET op == [like EXCEPT !.op = "bitcast", !.elem = e] IN
                   op.op \in Moves /\ op.args = <<p>> /\ op \in OperationType
      BY <3>2, <3>6, <1>a DEF OperationType, Moves, Values
    <3> QED BY <3>1, <3>3, <3>4, <3>5, <3>6 DEF like
  <2>1. Emittable(op)
    BY <1>b DEF Emittable, Moves, Roots, Merges
  <2> QED BY <2>1, EmitKeeps
<1>2. CASE Merge
  <2>1. PICK p \in Operations, q \in Operations, kind \in Merges :
          Emit([OperationLike(kind, <<p, q>>, ops[p]) EXCEPT !.inIf = kind = "select" /\ @])
    BY <1>2 DEF Merge
  <2> DEFINE op == [OperationLike(kind, <<p, q>>, ops[p]) EXCEPT !.inIf = kind = "select" /\ @]
  <2>2. /\ ops[p].elem \in Nat /\ ops[p].tensor \in BOOLEAN /\ ops[p].inIf \in BOOLEAN
        /\ <<p, q>> \in Seq(Nat) /\ (kind = "select" /\ ops[p].inIf) \in BOOLEAN
    BY <1>a, <1>b DEF OperationType
  <2>3. op = [op |-> kind, args |-> <<p, q>>, elem |-> ops[p].elem, tensor |-> ops[p].tensor,
              inIf |-> kind = "select" /\ ops[p].inIf, width |-> DefaultBitWidth]
    BY DEF OperationLike, Operation
  <2> HIDE DEF op
  <2>4. op \in OperationType /\ op.op = kind /\ op.args = <<p, q>>
    BY <2>2, <2>3, <1>a DEF OperationType, Values
  <2>5. Emittable(op)
    BY <2>4, <1>b DEF Emittable, Merges, Roots
  <2> QED BY <1>2, <2>1, <2>5, EmitKeeps DEF Merge, op
<1>3. CASE IntToPtr
  <2>1. PICK e \in ElementSizes : Emit(Operation("inttoptr", <<>>, e, FALSE, FALSE))
    BY <1>3 DEF IntToPtr
  <2>2. Emittable(Operation("inttoptr", <<>>, e, FALSE, FALSE))
    BY <1>a DEF Emittable, Operation, OperationType, Roots, Values
  <2> QED BY <1>3, <2>1, <2>2, EmitKeeps DEF IntToPtr
<1>4. ASSUME NEW p \in Operations, NEW kind \in Users \cup {"for", "yield"},
             Emit(OperationLike(kind, <<p>>, ops[p])), phase = "kernel", kind = "for" => OpenLoop = {}
      PROVE  KernelInv'
  <2>1. ops[p] \in OperationType /\ <<p>> \in Seq(Nat)
    BY <1>a, <1>b
  <2>2. kind \in Values \cup Users /\ kind \notin Roots \cup Merges
    BY DEF Users, ScalarUsers, Values, Roots, Merges
  <2>3. OperationLike(kind, <<p>>, ops[p]) \in OperationType
    BY <2>1, <2>2, <1>a DEF OperationLike, Operation, OperationType
  <2>4. Emittable(OperationLike(kind, <<p>>, ops[p]))
    BY <2>2, <2>3, <1>b, <1>4 DEF Emittable, OperationLike, Operation
  <2> QED BY <2>4, <1>4, EmitKeeps
<1>5. CASE For \/ Yield \/ User
  <2>1. phase = "kernel"
    BY <1>5 DEF For, Yield, User
  <2>2. \E p \in Operations, kind \in Users \cup {"for", "yield"} :
          Emit(OperationLike(kind, <<p>>, ops[p])) /\ (kind = "for" => OpenLoop = {})
    <3>1. CASE For
      BY <3>1 DEF For
    <3>2. CASE Yield
      <4>1. PICK p \in Operations : Emit(OperationLike("yield", <<p>>, ops[p]))
        BY <3>2 DEF Yield
      <4> QED BY <4>1
    <3>3. CASE User
      <4>1. PICK p \in Operations, kind \in Users : Emit(OperationLike(kind, <<p>>, ops[p]))
        BY <3>3 DEF User
      <4>2. kind # "for"
        BY DEF Users, ScalarUsers
      <4> QED BY <4>1, <4>2
    <3> QED BY <3>1, <3>2, <3>3, <1>5
  <2> QED BY <2>1, <2>2, <1>4
<1>6. ASSUME ops' = ops, phase' # "kernel" => phase # "kernel" \/ OpenLoop = {} PROVE KernelInv'
  <2> USE <1>6 DEF Operations, Arity, Kind, OpenLoop, LoopOf, Closes
  <2>1. Operations' = Operations /\ OpenLoop' = OpenLoop
    OBVIOUS
  <2>2. \A i \in Operations : DOMAIN ops'[i].args = Arity(i)'
    BY DEF KernelInv
  <2>3. \A f, g \in Operations :
          Kind(f)' = "for" /\ Kind(g)' = "for" /\ f < g => \E y \in f .. g - 1 : Kind(y)' = "yield"
    BY DEF KernelInv
  <2>4. \A f \in Operations :
          Kind(f)' = "for" => f \in OpenLoop' \/ \E y \in Operations : Closes(y, f)'
    BY DEF KernelInv
  <2>5. ops' \in Seq(OperationType) /\ (phase' # "kernel" => OpenLoop' = {})
    BY <2>1 DEF KernelInv
  <2> QED BY <2>1, <2>2, <2>3, <2>4, <2>5 DEF KernelInv
<1>7. CASE Start
  BY <1>7, <1>6 DEF Start
<1>8. CASE Visit
  <2>1. ops' = ops /\ phase = "walk"
    BY <1>8 DEF Visit, VisitPtrToInt, VisitMove, VisitUntouched, VisitTtsAccess, VisitUser, VisitFor,
                VisitYield, VisitSelect, VisitIf, VisitUnexpected, Fail, Skip, Defer, TakeUse
  <2> QED BY <2>1, <1>6
<1>9. CASE Pop \/ EndWalk \/ RewriteUser \/ Delete \/ EndRewrite \/ UNCHANGED vars
  <2>1. ops' = ops /\ (phase = "kernel" => phase' = "kernel")
    BY <1>9 DEF Pop, EndWalk, RewriteUser, Delete, EndRewrite, vars
  <2> QED BY <2>1, <1>6
<1> QED BY <1>1, <1>2, <1>3, <1>5, <1>7, <1>8, <1>9 DEF Next

LEMMA KernelInit == Init => KernelInv
<1> SUFFICES ASSUME Init PROVE KernelInv
  OBVIOUS
<1>1. /\ Len(Arguments) \in Nat /\ DOMAIN Arguments = 1 .. Len(Arguments)
      /\ \A i \in DOMAIN Arguments : Arguments[i] \in Nat
  BY KernelAssumption, ElementOfSeq, LenProperties
<1>2. /\ Operations = 1 .. Len(Arguments)
      /\ \A i \in Operations : ops[i] = Operation("arg", <<>>, Arguments[i], FALSE, FALSE)
  BY <1>1 DEF Init, Operations
<1>3. \A i \in Operations : ops[i] \in OperationType /\ ops[i].args = <<>> /\ Kind(i) = "arg"
  <2> SUFFICES ASSUME NEW i \in Operations
               PROVE  ops[i] \in OperationType /\ ops[i].args = <<>> /\ Kind(i) = "arg"
    OBVIOUS
  <2>1. ops[i] = [op |-> "arg", args |-> <<>>, elem |-> Arguments[i], tensor |-> FALSE,
                  inIf |-> FALSE, width |-> DefaultBitWidth]
    BY <1>2 DEF Operation
  <2>2. Arguments[i] \in Nat /\ "arg" \in Values /\ <<>> \in Seq(Nat)
    BY <1>1, <1>2 DEF Values, Roots
  <2> QED BY <2>1, <2>2 DEF OperationType, Kind
<1>4. ops \in Seq(OperationType)
  <2>1. ops = [i \in 1 .. Len(Arguments) |-> ops[i]]
    BY <1>1 DEF Init
  <2>2. \A i \in 1 .. Len(Arguments) : ops[i] \in OperationType
    BY <1>2, <1>3
  <2> QED BY <1>1, <2>1, <2>2
<1>5. \A i \in Operations : DOMAIN ops[i].args = Arity(i)
  BY <1>3 DEF Arity, Roots
<1>6. phase = "kernel"
  BY DEF Init
<1> QED BY <1>3, <1>4, <1>5, <1>6 DEF KernelInv

(* Once the kernel is built every scf.for has its result, of its own. *)
LEMMA LoopResult ==
  ASSUME KernelInv, phase # "kernel", NEW f \in Operations, Kind(f) = "for"
  PROVE  /\ YieldOf(f) \in Operations /\ Closes(YieldOf(f), f)
         /\ \A g \in Operations : Kind(g) = "for" /\ YieldOf(g) = YieldOf(f) => g = f
<1>a. Operations \subseteq Nat
  BY LenProperties DEF KernelInv, Operations
<1>1. ASSUME NEW g \in Operations, Kind(g) = "for"
      PROVE  YieldOf(g) \in Operations /\ Closes(YieldOf(g), g)
  <2>1. \E y \in Operations : Closes(y, g)
    BY <1>1 DEF KernelInv
  <2> QED BY <2>1 DEF YieldOf
<1>2. ASSUME NEW g \in Operations, NEW h \in Operations, Kind(g) = "for", Kind(h) = "for",
             YieldOf(g) = YieldOf(h), g < h
      PROVE  FALSE
  <2>1. PICK y \in g .. h - 1 : Kind(y) = "yield"
    BY <1>2 DEF KernelInv
  <2>2. /\ Closes(YieldOf(g), g) /\ Closes(YieldOf(h), h)
        /\ YieldOf(g) \in Nat
    BY <1>1, <1>2, <1>a
  <2>3. y \in g .. YieldOf(g) - 1
    BY <2>1, <2>2, <1>2, <1>a DEF Closes
  <2> QED BY <2>1, <2>2, <2>3 DEF Closes
<1>3. ASSUME NEW g \in Operations, Kind(g) = "for", YieldOf(g) = YieldOf(f) PROVE g = f
  <2>1. ~(g < f) /\ ~(f < g)
    BY <1>2, <1>3
  <2> QED BY <2>1, <1>a
<1> QED BY <1>1, <1>3

-----------------------------------------------------------------------------
(* A step of the walk takes one use, and does one of five things. *)

Taken(i, k) ==
  /\ phase = "walk" /\ <<i, k>> \in uses /\ uses' = uses \ {<<i, k>>}
  /\ UNCHANGED <<ops, val, erased>>

Stays(i) ==
  /\ \/ phase' = "failed"
     \/ phase' = "walk" /\ Kind(i) \notin Moves \cup {"for", "select"}
  /\ deferredRewrites' \subseteq deferredRewrites \cup {i}
  /\ UNCHANGED <<offsetMap, workList, retyped, ptrUsers, toDelete>>

Moved(i) ==
  /\ phase' = "walk" /\ Kind(i) \in Moves
  /\ offsetMap' = Insert(offsetMap, i, MovedOffset(i))
  /\ workList' = Append(workList, i) /\ toDelete' = Append(toDelete, i)
  /\ UNCHANGED <<retyped, deferredRewrites, ptrUsers>>

Noted(i) ==
  /\ phase' = "walk" /\ Kind(i) \in Users
  /\ ptrUsers' = Append(ptrUsers, i)
  /\ UNCHANGED <<offsetMap, workList, retyped, deferredRewrites, toDelete>>

Looped(i) ==
  /\ phase' = "walk" /\ Kind(i) = "for"
  /\ offsetMap' = Insert(Insert(offsetMap, i, offsetMap[val]), YieldOf(i), offsetMap[val])
  /\ workList' = Append(Append(workList, i), YieldOf(i))
  /\ retyped' = retyped \cup {i, YieldOf(i)}
  /\ UNCHANGED <<deferredRewrites, ptrUsers, toDelete>>

Selected(i) ==
  /\ phase' = "walk" /\ Kind(i) = "select"
  /\ offsetMap' = Insert(offsetMap, i, PtrOffset(i, DefaultBitWidth))
  /\ workList' = Append(workList, i)
  /\ UNCHANGED <<retyped, deferredRewrites, ptrUsers, toDelete>>

LEMMA VisitOutcome ==
  ASSUME WorkInv, Visit
  PROVE  \E i \in Operations, k \in {1, 2} :
           /\ Taken(i, k) /\ k \in DOMAIN ops[i].args /\ ops[i].args[k] = val /\ Tracked(val)
           /\ Stays(i) \/ Moved(i) \/ Noted(i) \/ Looped(i) \/ Selected(i)
<1>1. PICK use \in uses :
        \/ VisitPtrToInt(use[1]) \/ VisitMove(use[1]) \/ VisitUntouched(use[1])
        \/ VisitTtsAccess(use[1]) \/ VisitUser(use[1]) \/ VisitFor(use[1]) \/ VisitYield(use[1])
        \/ VisitSelect(use[1]) \/ VisitIf(use[1]) \/ VisitUnexpected(use[1])
  BY DEF Visit
<1> DEFINE i == use[1]
<1>2. use \in Operations \X {1, 2} /\ i \in Operations
  BY DEF WorkInv, UsesOf
<1> HIDE DEF i
<1>3. TakeUse(i) /\ erased' = erased
  BY <1>1 DEF i, VisitPtrToInt, VisitMove, VisitUntouched, VisitTtsAccess, VisitUser, VisitFor, VisitYield,
              VisitSelect, VisitIf, VisitUnexpected, Fail, Skip, Defer
<1>4. PICK k \in {1, 2} : <<i, k>> \in uses /\ uses' = uses \ {<<i, k>>}
  BY <1>3 DEF TakeUse
<1>5. Taken(i, k)
  BY <1>3, <1>4 DEF TakeUse, Taken
<1>6. k \in DOMAIN ops[i].args /\ ops[i].args[k] = val /\ Tracked(val)
  <2>1. <<i, k>> \in UsesOf(val)
    BY <1>4 DEF WorkInv
  <2> QED BY <1>4, <2>1 DEF WorkInv, UsesOf
<1>7. phase = "walk"
  BY <1>5 DEF Taken
<1>8. CASE VisitPtrToInt(i) \/ VisitUntouched(i) \/ VisitTtsAccess(i) \/ VisitYield(i) \/ VisitIf(i)
           \/ VisitUnexpected(i)
  <2>1. Kind(i) \notin Moves \cup {"for", "select"}
    BY <1>8 DEF VisitPtrToInt, VisitUntouched, VisitTtsAccess, VisitYield, VisitIf, VisitUnexpected, Moves
  <2>2. Fail(i) \/ Skip(i) \/ Defer(i)
    BY <1>8 DEF VisitPtrToInt, VisitUntouched, VisitTtsAccess, VisitYield, VisitIf, VisitUnexpected
  <2>3. Stays(i)
    BY <2>1, <2>2, <1>7 DEF Stays, Fail, Skip, Defer
  <2> QED BY <2>3, <1>2, <1>5, <1>6
<1>9. CASE VisitMove(i)
  <2>1. Fail(i) => Stays(i)
    BY DEF Stays, Fail
  <2>2. ~Fail(i) => Moved(i)
    BY <1>9, <1>7 DEF VisitMove, Moved
  <2> QED BY <2>1, <2>2, <1>2, <1>5, <1>6
<1>10. CASE VisitUser(i)
  <2>1. Kind(i) \in Users /\ Kind(i) \notin Moves \cup {"for", "select"}
    BY <1>10 DEF VisitUser, Users, ScalarUsers, Moves
  <2>2. Skip(i) => Stays(i)
    BY <2>1, <1>7 DEF Stays, Skip
  <2>3. ~Skip(i) => Noted(i)
    BY <1>10, <2>1, <1>7 DEF VisitUser, Noted
  <2> QED BY <2>2, <2>3, <1>2, <1>5, <1>6
<1>11. CASE VisitFor(i)
  <2>1. Looped(i)
    BY <1>11, <1>7 DEF VisitFor, Looped
  <2> QED BY <2>1, <1>2, <1>5, <1>6
<1>12. CASE VisitSelect(i)
  <2>1. Selected(i)
    BY <1>12, <1>7 DEF VisitSelect, Selected
  <2> QED BY <2>1, <1>2, <1>5, <1>6
<1> QED BY <1>1, <1>8, <1>9, <1>10, <1>11, <1>12 DEF i

(* The operations of a kind, in order, are each there once. *)
LEMMA InOrderOnce ==
  ASSUME KernelInv, NEW kind, NEW s \in InOrder(kind)
  PROVE  /\ s \in Seq(Operations) /\ Distinct(s)
         /\ Elements(s) = {i \in Operations : Kind(i) = kind}
<1> DEFINE S == {i \in Operations : Kind(i) = kind}
<1>1. Operations = 1 .. Len(ops) /\ Len(ops) \in Nat
  BY LenProperties DEF KernelInv, Operations
<1>2. IsFiniteSet(S)
  <2>1. S \subseteq 1 .. Len(ops) /\ IsFiniteSet(1 .. Len(ops))
    BY <1>1, FS_Interval
  <2> QED BY <2>1, FS_Subset
<1>3. Cardinality(S) \in Nat
  BY <1>2, FS_CardinalityType
<1>4. /\ s \in [1 .. Cardinality(S) -> S]
      /\ \A j, k \in DOMAIN s : j < k => s[j] < s[k]
  BY DEF InOrder
<1>5. s \in Seq(S)
  BY <1>3, <1>4
<1>6. \A j \in DOMAIN s : s[j] \in S /\ j \in Nat /\ s[j] \in Nat
  BY <1>1, <1>3, <1>4
<1>7. Distinct(s)
  <2> SUFFICES ASSUME NEW j \in DOMAIN s, NEW k \in DOMAIN s, s[j] = s[k] PROVE j = k
    BY DEF Distinct
  <2>1. ~(j < k) /\ ~(k < j)
    BY <1>4, <1>6
  <2> QED BY <2>1, <1>6
<1>8. s \in Seq(Operations)
  BY <1>5
<1>9. ASSUME NEW i \in S, i \notin Elements(s) PROVE FALSE
  <2>1. /\ IsFiniteSet(1 .. Cardinality(S)) /\ Cardinality(1 .. Cardinality(S)) = Cardinality(S)
        /\ IsFiniteSet(S \ {i}) /\ Cardinality(S \ {i}) = Cardinality(S) - 1
    <3> DEFINE n == Cardinality(S)
    <3>1. IsFiniteSet(1 .. n) /\ Cardinality(1 .. n) = n
      <4> HIDE DEF n
      <4>1. n \in Nat
        BY <1>3 DEF n
      <4> QED BY <4>1, FS_Interval
    <3>2. IsFiniteSet(S \ {i}) /\ Cardinality(S \ {i}) = Cardinality(S) - 1
      <4> HIDE DEF S
      <4> QED BY <1>2, FS_RemoveElement
    <3> QED BY <3>1, <3>2
  <2>2. s \in [1 .. Cardinality(S) -> S \ {i}]
    BY <1>4, <1>9 DEF Elements
  <2>3. \E j, k \in 1 .. Cardinality(S) : j # k /\ s[j] = s[k]
    <3> DEFINE D == 1 .. Cardinality(S)  T == S \ {i}
    <3>1. IsFiniteSet(D) /\ IsFiniteSet(T) /\ Cardinality(T) < Cardinality(D) /\ s \in [D -> T]
      BY <2>1, <2>2, <1>3
    <3> HIDE DEF D, T
    <3>2. \E j, k \in D : j # k /\ s[j] = s[k]
      BY <3>1, FS_PigeonHole
    <3> QED BY <3>2 DEF D
  <2> QED BY <2>3, <1>4, <1>7 DEF Distinct
<1> QED BY <1>6, <1>7, <1>8, <1>9 DEF Elements

LEMMA StartList ==
  ASSUME KernelInv, Start
  PROVE  /\ workList' \in Seq(Operations) /\ Distinct(workList')
         /\ Elements(workList') = {i \in Operations : Kind(i) \in Roots}
         /\ DOMAIN offsetMap' = {i \in Operations : Kind(i) \in Roots}
<1>1. PICK args \in InOrder("arg"), casts \in InOrder("inttoptr") : workList' = args \o casts
  BY DEF Start
<1>2. /\ args \in Seq(Operations) /\ casts \in Seq(Operations) /\ Distinct(args) /\ Distinct(casts)
      /\ Elements(args) = {i \in Operations : Kind(i) = "arg"}
      /\ Elements(casts) = {i \in Operations : Kind(i) = "inttoptr"}
  BY InOrderOnce
<1>3. Elements(args) \cap Elements(casts) = {}
  BY <1>2
<1>4. /\ workList' \in Seq(Operations) /\ Elements(workList') = Elements(args) \cup Elements(casts)
      /\ Distinct(workList')
  BY <1>1, <1>2, <1>3, ElementsConcat
<1>5. DOMAIN offsetMap' = {i \in Operations : Kind(i) \in Roots}
  BY DEF Start
<1> QED BY <1>2, <1>4, <1>5 DEF Roots

-----------------------------------------------------------------------------
(* What the walk keeps is of its kind. *)

LEMMA WorkBuild ==
  ASSUME KernelInv, WorkInv, phase = "kernel", NEW op, Emit(op)
  PROVE  WorkInv'
<1>1. Operations \subseteq Operations' /\ UNCHANGED <<phase, ir>>
  <2>1. \A s \in Seq(OperationType) : DOMAIN s \subseteq DOMAIN Append(s, op)
    OBVIOUS
  <2> QED BY <2>1 DEF Emit, Operations, KernelInv
<1>2. /\ offsetMap' = <<>> /\ workList' = <<>> /\ ptrUsers' = <<>> /\ toDelete' = <<>>
      /\ uses' = {} /\ phase' = "kernel" /\ deferredRewrites' = {} /\ retyped' = {}
      /\ erased' \subseteq Operations
  BY <1>1 DEF WorkInv, ir
<1>3. DOMAIN offsetMap' = {} /\ <<>> \in Seq(Operations')
  BY <1>2
<1> QED BY <1>1, <1>2, <1>3, ElementsEmpty DEF WorkInv

LEMMA WorkStart == ASSUME KernelInv, WorkInv, Start PROVE WorkInv'
<1>a. /\ ops' = ops /\ phase' = "walk" /\ phase = "kernel"
      /\ UNCHANGED <<val, uses, retyped, deferredRewrites, ptrUsers, toDelete, erased>>
  BY DEF Start
<1>b. Operations' = Operations /\ \A i : Kind(i)' = Kind(i)
  BY <1>a DEF Operations, Kind
<1>4. /\ workList' \in Seq(Operations)
      /\ Elements(workList') = {i \in Operations : Kind(i) \in Roots}
      /\ DOMAIN offsetMap' = {i \in Operations : Kind(i) \in Roots}
  BY StartList
<1>6. \A v \in DOMAIN offsetMap' : offsetMap'[v] = PtrOffset(v, DefaultBitWidth)
  BY DEF Start
<1>7. \A v \in DOMAIN offsetMap' :
        /\ Tracked(offsetMap[v].ptr)' /\ Kind(offsetMap[v].ptr)' \in Roots \cup {"select"}
        /\ offsetMap'[v].bitWidth \in OffsetWidths \cup {DefaultBitWidth}
  <2> SUFFICES ASSUME NEW v \in DOMAIN offsetMap'
               PROVE  /\ offsetMap'[v].ptr \in DOMAIN offsetMap'
                      /\ Kind(offsetMap'[v].ptr) \in Roots
                      /\ offsetMap'[v].bitWidth = DefaultBitWidth
    BY <1>a DEF Tracked, Kind
  <2>1. offsetMap'[v].ptr = v /\ offsetMap'[v].bitWidth = DefaultBitWidth
    BY <1>6 DEF PtrOffset
  <2> QED BY <2>1, <1>4
<1>8. \A v \in Elements(workList') : v \in DOMAIN offsetMap'
  BY <1>4
<1>9. DOMAIN offsetMap' \subseteq {i \in Operations' : Kind(i)' \in Values \ {"if"}}
  BY <1>4, <1>b DEF Roots, Values
<1>10. UsesOf(val)' = UsesOf(val)
  BY <1>a, <1>b DEF UsesOf
<1>11. /\ uses' \subseteq UsesOf(val)' /\ uses' = {}
       /\ ptrUsers' \in Seq(Operations') /\ toDelete' \in Seq(Operations')
       /\ Elements(ptrUsers') = {} /\ Elements(toDelete') = {}
       /\ deferredRewrites' \cup erased' \cup retyped' \subseteq Operations'
  BY <1>a, <1>b, <1>10, ElementsEmpty DEF WorkInv
<1> QED BY <1>a, <1>b, <1>4, <1>7, <1>8, <1>9, <1>11 DEF WorkInv, Tracked

(* The operations, and what is known of each, do not change after that. *)
LEMMA SameKernel ==
  ASSUME ops' = ops
  PROVE  /\ Operations' = Operations /\ \A i : Kind(i)' = Kind(i)
         /\ \A v : UsesOf(v)' = UsesOf(v)
         /\ \A f, y : Closes(y, f)' = Closes(y, f)
         /\ \A f : YieldOf(f)' = YieldOf(f)
  BY DEF Operations, Kind, UsesOf, Closes, YieldOf

LEMMA WorkInsert ==
  ASSUME WorkInv, ops' = ops, NEW v \in Operations, Kind(v) \in Values \ {"if"}, NEW info,
         NEW map, map = Insert(offsetMap, v, info),
         info.ptr \in DOMAIN offsetMap \cup {v}, Kind(info.ptr) \in Roots \cup {"select"},
         info.bitWidth \in OffsetWidths \cup {DefaultBitWidth}
  PROVE  /\ DOMAIN map = DOMAIN offsetMap \cup {v}
         /\ DOMAIN map \subseteq {i \in Operations : Kind(i) \in Values \ {"if"}}
         /\ \A u \in DOMAIN map :
              /\ map[u].ptr \in DOMAIN map /\ Kind(map[u].ptr) \in Roots \cup {"select"}
              /\ map[u].bitWidth \in OffsetWidths \cup {DefaultBitWidth}
<1>1. /\ DOMAIN map = DOMAIN offsetMap \cup {v}
      /\ \A u \in DOMAIN offsetMap : map[u] = offsetMap[u]
      /\ v \notin DOMAIN offsetMap => map[v] = info
  BY DEF Insert
<1>2. ASSUME NEW u \in DOMAIN map
      PROVE  /\ map[u].ptr \in DOMAIN map /\ Kind(map[u].ptr) \in Roots \cup {"select"}
             /\ map[u].bitWidth \in OffsetWidths \cup {DefaultBitWidth}
  <2>1. CASE u \in DOMAIN offsetMap
    BY <2>1, <1>1 DEF WorkInv, Tracked
  <2>2. CASE u \notin DOMAIN offsetMap
    BY <2>2, <1>1, <1>2
  <2> QED BY <2>1, <2>2
<1> QED BY <1>1, <1>2 DEF WorkInv

LEMMA WorkVisit == ASSUME KernelInv, WorkInv, Visit PROVE WorkInv'
<1>1. PICK i \in Operations, k \in {1, 2} :
        /\ Taken(i, k) /\ k \in DOMAIN ops[i].args /\ ops[i].args[k] = val /\ Tracked(val)
        /\ Stays(i) \/ Moved(i) \/ Noted(i) \/ Looped(i) \/ Selected(i)
  BY VisitOutcome
<1>a. phase = "walk" /\ ops' = ops /\ val' = val /\ erased' = erased /\ uses' \subseteq uses
  BY <1>1 DEF Taken
<1>b. Operations' = Operations /\ (\A j : Kind(j)' = Kind(j)) /\ UsesOf(val)' = UsesOf(val)
  BY <1>a DEF Operations, Kind, UsesOf
<1>c. /\ workList \in Seq(Operations) /\ ptrUsers \in Seq(Operations) /\ toDelete \in Seq(Operations)
      /\ deferredRewrites \cup erased \cup retyped \subseteq Operations
      /\ uses' \subseteq UsesOf(val)'
  BY <1>a, <1>b DEF WorkInv
<1>d. /\ offsetMap[val].ptr \in DOMAIN offsetMap /\ Kind(offsetMap[val].ptr) \in Roots \cup {"select"}
      /\ offsetMap[val].bitWidth \in OffsetWidths \cup {DefaultBitWidth}
  BY <1>1 DEF WorkInv, Tracked
<1>e. phase' \in {"walk", "failed"}
  BY <1>1 DEF Stays, Moved, Noted, Looped, Selected
<1> DEFINE MapOK(map) ==
             /\ DOMAIN map \subseteq {j \in Operations : Kind(j) \in Values \ {"if"}}
             /\ \A u \in DOMAIN map :
                  /\ map[u].ptr \in DOMAIN map /\ Kind(map[u].ptr) \in Roots \cup {"select"}
                  /\ map[u].bitWidth \in OffsetWidths \cup {DefaultBitWidth}
<1>2. ASSUME MapOK(offsetMap'), DOMAIN offsetMap \subseteq DOMAIN offsetMap',
             workList' \in Seq(Operations), ptrUsers' \in Seq(Operations), toDelete' \in Seq(Operations),
             Elements(workList') \subseteq Elements(workList) \cup DOMAIN offsetMap',
             \A v \in Elements(toDelete') \ Elements(toDelete) : v \in DOMAIN offsetMap' /\ Kind(v) \in Moves,
             \A v \in Elements(ptrUsers') \ Elements(ptrUsers) : Kind(v) \in Users,
             deferredRewrites' \cup retyped' \subseteq Operations
      PROVE  WorkInv'
  <2>1. \A v \in DOMAIN offsetMap' :
          /\ Tracked(offsetMap[v].ptr)' /\ Kind(offsetMap[v].ptr)' \in Roots \cup {"select"}
          /\ offsetMap'[v].bitWidth \in OffsetWidths \cup {DefaultBitWidth}
    BY <1>2, <1>a DEF Tracked, Kind
  <2>2. DOMAIN offsetMap' \subseteq {j \in Operations' : Kind(j)' \in Values \ {"if"}}
    BY <1>2, <1>b
  <2>3. \A v \in Elements(workList') : v \in DOMAIN offsetMap'
    BY <1>2 DEF WorkInv, Tracked
  <2>4. uses' # {} => val' \in DOMAIN offsetMap'
    BY <1>1, <1>2, <1>a DEF Tracked
  <2>5. \A v \in Elements(toDelete') : v \in DOMAIN offsetMap' /\ Kind(v)' \in Moves
    BY <1>2, <1>b DEF WorkInv, Tracked
  <2>6. \A v \in Elements(ptrUsers') : Kind(v)' \in Users
    BY <1>2, <1>b DEF WorkInv
  <2> QED BY <1>2, <1>a, <1>b, <1>c, <1>e, <2>1, <2>2, <2>3, <2>4, <2>5, <2>6 DEF WorkInv, Tracked
<1>m. MapOK(offsetMap)
  BY DEF WorkInv, Tracked
<1>3. CASE Stays(i)
  <2>1. deferredRewrites' \cup retyped' \subseteq Operations
    BY <1>3, <1>c DEF Stays
  <2> QED BY <2>1, <1>3, <1>c, <1>m, <1>2 DEF Stays
<1>4. CASE Moved(i)
  <2>1. /\ MovedOffset(i).ptr = offsetMap[val].ptr
        /\ MovedOffset(i).bitWidth \in OffsetWidths \cup {DefaultBitWidth}
    <3>1. ops[i].width \in OffsetWidths \cup {DefaultBitWidth}
      <4>1. ops \in Seq(OperationType) /\ i \in DOMAIN ops
        BY DEF KernelInv, Operations
      <4>2. ops[i] \in OperationType
        BY <4>1, ElementOfSeq, LenProperties
      <4> QED BY <4>2 DEF OperationType
    <3>2. WidthOf(i) \in OffsetWidths \cup {DefaultBitWidth}
      BY <3>1, <1>d DEF WidthOf, MaxOf
    <3> QED BY <3>2 DEF MovedOffset, PtrOffset
  <2>2. Kind(i) \in Values \ {"if"}
    BY <1>4 DEF Moved, Moves, Values
  <2>3. MapOK(offsetMap') /\ DOMAIN offsetMap' = DOMAIN offsetMap \cup {i}
    <3>1. offsetMap' = Insert(offsetMap, i, MovedOffset(i))
      BY <1>4 DEF Moved
    <3>2. MovedOffset(i).ptr \in DOMAIN offsetMap \cup {i} /\ Kind(MovedOffset(i).ptr) \in Roots \cup {"select"}
      BY <2>1, <1>d
    <3> HIDE DEF MapOK
    <3> QED BY <3>1, <3>2, <2>1, <2>2, <1>a, WorkInsert DEF MapOK
  <2>4. /\ workList' \in Seq(Operations) /\ Elements(workList') = Elements(workList) \cup {i}
        /\ toDelete' \in Seq(Operations) /\ Elements(toDelete') = Elements(toDelete) \cup {i}
    BY <1>4, <1>c, ElementsAppend DEF Moved
  <2>5. /\ ptrUsers' = ptrUsers /\ deferredRewrites' = deferredRewrites /\ retyped' = retyped
        /\ Kind(i) \in Moves
    BY <1>4 DEF Moved
  <2> HIDE DEF MapOK
  <2> QED BY <2>3, <2>4, <2>5, <1>c, <1>2
<1>5. CASE Noted(i)
  <2>1. ptrUsers' \in Seq(Operations) /\ Elements(ptrUsers') = Elements(ptrUsers) \cup {i} /\ Kind(i) \in Users
    BY <1>5, <1>c, ElementsAppend DEF Noted
  <2> HIDE DEF MapOK
  <2> QED BY <2>1, <1>5, <1>c, <1>m, <1>2 DEF Noted
<1>6. CASE Looped(i)
  <2> DEFINE y == YieldOf(i)
             mid == Insert(offsetMap, i, offsetMap[val])
  <2>1. y \in Operations /\ Kind(y) = "yield" /\ Kind(i) = "for"
    BY <1>6, <1>a, LoopResult DEF Looped, Closes
  <2>2. "for" \in Values \ {"if"} /\ "yield" \in Values \ {"if"}
    BY DEF Values
  <2> HIDE DEF y, MapOK
  <2>3. MapOK(mid) /\ DOMAIN mid = DOMAIN offsetMap \cup {i}
    <3> DEFINE info == offsetMap[val]
    <3>1. /\ Kind(i) \in Values \ {"if"} /\ i \in Operations /\ mid = Insert(offsetMap, i, info)
          /\ info.ptr \in DOMAIN offsetMap \cup {i} /\ Kind(info.ptr) \in Roots \cup {"select"}
          /\ info.bitWidth \in OffsetWidths \cup {DefaultBitWidth} /\ WorkInv /\ ops' = ops
      BY <2>1, <2>2, <1>a, <1>d
    <3> HIDE DEF mid, info
    <3> QED BY <3>1, WorkInsert DEF MapOK
  <2>4. offsetMap' = Insert(mid, y, offsetMap[val])
    BY <1>6 DEF Looped, y
  <2> HIDE DEF mid
  <2>5. DOMAIN offsetMap' = DOMAIN offsetMap \cup {i, y} /\ MapOK(offsetMap')
    <3>1. /\ DOMAIN offsetMap' = DOMAIN mid \cup {y}
          /\ \A u \in DOMAIN mid : offsetMap'[u] = mid[u]
          /\ y \notin DOMAIN mid => offsetMap'[y] = offsetMap[val]
      BY <2>4 DEF Insert
    <3>2. ASSUME NEW u \in DOMAIN offsetMap'
          PROVE  /\ offsetMap'[u].ptr \in DOMAIN offsetMap' /\ Kind(offsetMap'[u].ptr) \in Roots \cup {"select"}
                 /\ offsetMap'[u].bitWidth \in OffsetWidths \cup {DefaultBitWidth}
      <4>1. CASE u \in DOMAIN mid
        BY <4>1, <3>1, <2>3 DEF MapOK
      <4>2. CASE u \notin DOMAIN mid
        BY <4>2, <3>1, <3>2, <2>3, <1>d
      <4> QED BY <4>1, <4>2
    <3>3. DOMAIN offsetMap' \subseteq {j \in Operations : Kind(j) \in Values \ {"if"}}
      BY <3>1, <2>1, <2>2, <2>3 DEF MapOK
    <3> QED BY <3>1, <3>2, <3>3, <2>3 DEF MapOK
  <2>6. workList' \in Seq(Operations) /\ Elements(workList') = Elements(workList) \cup {i, y}
    <3>1. Append(workList, i) \in Seq(Operations) /\ Elements(Append(workList, i)) = Elements(workList) \cup {i}
      BY <1>c, ElementsAppend
    <3>2. workList' = Append(Append(workList, i), y)
      BY <1>6 DEF Looped, y
    <3>3. workList' \in Seq(Operations) /\ Elements(workList') = Elements(Append(workList, i)) \cup {y}
      <4> DEFINE s == Append(workList, i)
      <4>1. s \in Seq(Operations) /\ workList' = Append(s, y)
        BY <3>1, <3>2
      <4> HIDE DEF s
      <4>2. workList' \in Seq(Operations) /\ Elements(workList') = Elements(s) \cup {y}
        BY <2>1, <4>1, ElementsAppend
      <4> QED BY <4>2 DEF s
    <3> QED BY <3>1, <3>3
  <2>7. /\ ptrUsers' = ptrUsers /\ deferredRewrites' = deferredRewrites /\ toDelete' = toDelete
        /\ retyped' = retyped \cup {i, y}
    BY <1>6 DEF Looped, y
  <2> QED BY <2>1, <2>5, <2>6, <2>7, <1>c, <1>2
<1>7. CASE Selected(i)
  <2>1. /\ PtrOffset(i, DefaultBitWidth).ptr = i
        /\ PtrOffset(i, DefaultBitWidth).bitWidth \in OffsetWidths \cup {DefaultBitWidth}
        /\ Kind(i) = "select" /\ Kind(i) \in Values \ {"if"}
    BY <1>7 DEF Selected, PtrOffset, Values, Merges
  <2> HIDE DEF MapOK
  <2>2. MapOK(offsetMap') /\ DOMAIN offsetMap' = DOMAIN offsetMap \cup {i}
    <3> DEFINE info == PtrOffset(i, DefaultBitWidth)
    <3>1. offsetMap' = Insert(offsetMap, i, info)
      BY <1>7 DEF Selected
    <3>2. info.ptr \in DOMAIN offsetMap \cup {i} /\ Kind(info.ptr) \in Roots \cup {"select"}
      BY <2>1
    <3> HIDE DEF info
    <3>3. info.bitWidth \in OffsetWidths \cup {DefaultBitWidth}
      BY <2>1 DEF info
    <3> QED BY <3>1, <3>2, <3>3, <2>1, <1>a, WorkInsert DEF MapOK
  <2>3. workList' \in Seq(Operations) /\ Elements(workList') = Elements(workList) \cup {i}
    BY <1>7, <1>c, ElementsAppend DEF Selected
  <2> QED BY <2>2, <2>3, <1>7, <1>c, <1>2 DEF Selected
<1> QED BY <1>1, <1>3, <1>4, <1>5, <1>6, <1>7

LEMMA WorkStep == KernelInv /\ WorkInv /\ [Next]_vars => WorkInv'
<1> SUFFICES ASSUME KernelInv, WorkInv, [Next]_vars PROVE WorkInv'
  OBVIOUS
<1>1. CASE Move \/ Merge \/ IntToPtr \/ For \/ Yield \/ User
  <2>1. phase = "kernel"
    BY <1>1 DEF Move, Merge, IntToPtr, For, Yield, User, BuildingValue, Building
  <2>2. \E op : Emit(op)
    BY <1>1 DEF Move, Merge, IntToPtr, For, Yield, User
  <2> QED BY <2>1, <2>2, WorkBuild
<1>2. CASE Start
  BY <1>2, WorkStart
<1>3. CASE Visit
  BY <1>3, WorkVisit
<1>a. /\ workList \in Seq(Operations) /\ ptrUsers \in Seq(Operations) /\ toDelete \in Seq(Operations)
  BY DEF WorkInv
<1>4. CASE Pop
  <2>a. /\ ops' = ops /\ phase = "walk" /\ workList # <<>>
        /\ val' = Head(workList) /\ workList' = Tail(workList) /\ uses' = UsesOf(val')
        /\ UNCHANGED <<phase, offsetMap, retyped, deferredRewrites, ptrUsers, toDelete, erased>>
    BY <1>4 DEF Pop
  <2>1. Operations' = Operations /\ (\A i : Kind(i)' = Kind(i)) /\ UsesOf(val)' = UsesOf(val')
    BY <2>a DEF Operations, Kind, UsesOf
  <2>2. /\ workList' \in Seq(Operations) /\ Elements(workList) = Elements(workList') \cup {val'}
    BY <2>a, <1>a, ElementsTail
  <2>3. \A v \in DOMAIN offsetMap' :
          /\ Tracked(offsetMap[v].ptr)' /\ Kind(offsetMap[v].ptr)' \in Roots \cup {"select"}
          /\ offsetMap'[v].bitWidth \in OffsetWidths \cup {DefaultBitWidth}
    BY <2>a DEF WorkInv, Tracked, Kind
  <2> QED BY <2>a, <2>1, <2>2, <2>3 DEF WorkInv, Tracked
<1>5. ASSUME UNCHANGED <<ops, offsetMap, workList, val, uses, retyped, deferredRewrites>>,
             phase' \in {"kernel", "walk", "rewrite", "done", "failed", "undefined"},
             phase' = "kernel" => UNCHANGED <<phase, ptrUsers, toDelete>>,
             ptrUsers' \in Seq(Operations), toDelete' \in Seq(Operations),
             Elements(ptrUsers') \subseteq Elements(ptrUsers),
             Elements(toDelete') \subseteq Elements(toDelete), erased' \subseteq Operations
      PROVE  WorkInv'
  <2>1. Operations' = Operations /\ (\A i : Kind(i)' = Kind(i)) /\ UsesOf(val)' = UsesOf(val)
    BY <1>5 DEF Operations, Kind, UsesOf
  <2>2. \A v \in DOMAIN offsetMap' :
          /\ Tracked(offsetMap[v].ptr)' /\ Kind(offsetMap[v].ptr)' \in Roots \cup {"select"}
          /\ offsetMap'[v].bitWidth \in OffsetWidths \cup {DefaultBitWidth}
    BY <1>5 DEF WorkInv, Tracked, Kind
  <2> QED BY <1>5, <2>1, <2>2 DEF WorkInv, Tracked
<1>b. erased \subseteq Operations /\ phase \in {"kernel", "walk", "rewrite", "done", "failed", "undefined"}
  BY DEF WorkInv
<1>6. CASE EndWalk \/ EndRewrite \/ UNCHANGED vars
  BY <1>6, <1>5, <1>a, <1>b DEF EndWalk, EndRewrite, vars, ir
<1>7. CASE RewriteUser
  <2>1. /\ ptrUsers' \in Seq(Operations) /\ Head(ptrUsers) \in Operations
        /\ Elements(ptrUsers') \subseteq Elements(ptrUsers)
    BY <1>7, <1>a, ElementsTail DEF RewriteUser
  <2>2. phase' \in {"undefined", "failed", "rewrite"} /\ erased' \subseteq erased \cup {Head(ptrUsers)}
    BY <1>7 DEF RewriteUser
  <2> QED BY <1>7, <2>1, <2>2, <1>5, <1>a, <1>b DEF RewriteUser
<1>8. CASE Delete
  <2>1. /\ toDelete' \in Seq(Operations) /\ Head(toDelete) \in Operations
        /\ Elements(toDelete') \subseteq Elements(toDelete)
    BY <1>8, <1>a, ElementsTail DEF Delete
  <2>2. phase' \in {"undefined", "rewrite"} /\ erased' = erased \cup {Head(toDelete)}
    BY <1>8 DEF Delete
  <2> QED BY <1>8, <2>1, <2>2, <1>5, <1>a, <1>b DEF Delete
<1> QED BY <1>1, <1>2, <1>3, <1>4, <1>6, <1>7, <1>8 DEF Next

-----------------------------------------------------------------------------
(* What is erased, and when. *)

LEMMA ErasedStep == KernelInv /\ WorkInv /\ ErasedInv /\ [Next]_vars => ErasedInv'
<1> SUFFICES ASSUME KernelInv, WorkInv, ErasedInv, [Next]_vars PROVE ErasedInv'
  OBVIOUS
<1> USE DEF ErasedInv
<1>1. CASE Move \/ Merge \/ IntToPtr \/ For \/ Yield \/ User
  <2>1. phase = "kernel" /\ phase' = "kernel" /\ erased' = erased
    BY <1>1 DEF Move, Merge, IntToPtr, For, Yield, User, BuildingValue, Building, Emit, ir
  <2> QED BY <2>1
<1>2. CASE Start \/ Pop
  BY <1>2 DEF Start, Pop
<1>3. CASE Visit
  <2>1. phase = "walk" /\ erased' = erased
    BY <1>3, VisitOutcome DEF Taken
  <2> QED BY <2>1
<1>4. CASE EndWalk \/ EndRewrite \/ Delete
  <2>1. phase \in {"walk", "rewrite"} /\ phase' \in {"rewrite", "done", "undefined"}
    BY <1>4 DEF EndWalk, EndRewrite, Delete
  <2>2. phase' = "rewrite" /\ ptrUsers' # <<>> => phase = "walk" /\ erased' = erased
    BY <1>4 DEF EndWalk, EndRewrite, Delete, ir
  <2> QED BY <2>1, <2>2
<1>5. CASE RewriteUser
  <2>1. Kind(Head(ptrUsers)) \in Users
    BY <1>5, ElementsTail DEF RewriteUser, WorkInv
  <2>2. \A i : Kind(i)' = Kind(i)
    BY <1>5 DEF RewriteUser, Kind
  <2>3. \A i \in erased : Kind(i) \notin Moves
    BY <1>5 DEF RewriteUser
  <2>4. /\ erased' \subseteq erased \cup {Head(ptrUsers)}
        /\ phase' \in {"undefined", "failed", "rewrite"}
    BY <1>5 DEF RewriteUser
  <2> QED BY <2>1, <2>2, <2>3, <2>4 DEF Users, ScalarUsers, Moves
<1>6. CASE UNCHANGED vars
  BY <1>6 DEF vars, ir, Kind
<1> QED BY <1>1, <1>2, <1>3, <1>4, <1>5, <1>6 DEF Next

-----------------------------------------------------------------------------
(* Once *)

(* A use that is still to come finds its operation as the walk found it.   *)
LEMMA NewUse ==
  ASSUME KernelInv, WorkInv, OnceInv, ~TwiceReached,
         NEW i \in Operations, NEW k \in DOMAIN ops[i].args, <<i, k>> \in uses, Kind(i) # "yield"
  PROVE  ~Handled(i)
<1> SUFFICES ASSUME Handled(i) PROVE FALSE
  OBVIOUS
<1>1. k \in Arity(i) /\ Kind(i) \notin Roots
  BY DEF KernelInv, Arity
<1>2. PICK l \in DOMAIN ops[i].args : Past(i, l)
  BY <1>1 DEF OnceInv
<1>3. l # k /\ Tracked(ops[i].args[l]) /\ Tracked(ops[i].args[k])
  BY <1>2 DEF Past, WorkInv, UsesOf
<1>4. Kind(i) \in Merges /\ DOMAIN ops[i].args = {1, 2} /\ l \in Arity(i)
  BY <1>1, <1>3 DEF KernelInv, Arity
<1>5. Kind(i) # "if"
  BY DEF Handled, WorkInv, Tracked, Users, ScalarUsers
<1>6. \A j \in {1, 2} : Tracked(ops[i].args[j])
  BY <1>1, <1>3, <1>4, <1>5 DEF Arity
<1> QED BY <1>4, <1>5, <1>6 DEF TwiceReached, Merges

(* What is behind the walk stays behind it, as what it queues is new to it. *)
LEMMA PastStays ==
  ASSUME ops' = ops, DOMAIN offsetMap \subseteq DOMAIN offsetMap', uses' \subseteq uses,
         \A v \in Elements(workList') \ Elements(workList) : ~Tracked(v),
         NEW i, NEW k, Past(i, k)
  PROVE  Past(i, k)'
  BY DEF Past, Tracked

LEMMA OnceVisit ==
  ASSUME KernelInv, WorkInv, ErasedInv, ~TwiceReached, OnceInv, Visit
  PROVE  OnceInv'
<1>1. PICK i \in Operations, k \in {1, 2} :
        /\ Taken(i, k) /\ k \in DOMAIN ops[i].args /\ ops[i].args[k] = val /\ Tracked(val)
        /\ Stays(i) \/ Moved(i) \/ Noted(i) \/ Looped(i) \/ Selected(i)
  BY VisitOutcome
<1>a. /\ phase = "walk" /\ ops' = ops /\ val' = val /\ erased' = {} /\ <<i, k>> \in uses
      /\ uses' = uses \ {<<i, k>>}
  BY <1>1 DEF Taken, ErasedInv
<1>b. /\ Operations' = Operations /\ \A j : Kind(j)' = Kind(j)
      /\ \A f : YieldOf(f)' = YieldOf(f)
  BY <1>a, SameKernel
<1>c. /\ workList \in Seq(Operations) /\ ptrUsers \in Seq(Operations) /\ toDelete \in Seq(Operations)
      /\ \A v \in Elements(workList) \cup Elements(toDelete) : Tracked(v)
  BY DEF WorkInv
<1>d. val \notin Elements(workList)
  BY <1>a DEF OnceInv
<1>e. phase' \in {"walk", "failed"}
  BY <1>1 DEF Stays, Moved, Noted, Looped, Selected
<1>f. Kind(i) # "yield" => ~Handled(i)
  BY <1>1, <1>a, NewUse
<1>g. Kind(i) = "for" => YieldOf(i) \in Operations /\ Kind(YieldOf(i)) = "yield"
  BY <1>a, LoopResult DEF Closes
(* The step handles at most i, and the result of the loop i.               *)
<1>2. ASSUME NEW new, new \in SUBSET Operations,
             \A v \in new : /\ ~Tracked(v)
                             /\ \/ v = i /\ Kind(i) # "yield"
                                \/ v = YieldOf(i) /\ Kind(i) = "for" /\ i \in new,
             DOMAIN offsetMap' = DOMAIN offsetMap \cup new,
             Elements(workList') = Elements(workList) \cup new, Distinct(workList'),
             Elements(ptrUsers') \subseteq Elements(ptrUsers) \cup {i}, Distinct(ptrUsers'),
             Distinct(toDelete')
      PROVE  OnceInv'
  <2>1. val \notin Elements(workList') /\ val \in DOMAIN offsetMap'
    BY <1>1, <1>2, <1>d DEF Tracked
  <2>2. \A j, l : Past(j, l) => Past(j, l)'
    <3>1. /\ DOMAIN offsetMap \subseteq DOMAIN offsetMap' /\ uses' \subseteq uses
          /\ \A v \in Elements(workList') \ Elements(workList) : ~Tracked(v)
      BY <1>2, <1>a
    <3> QED BY <3>1, <1>a, PastStays
  <2>3. Past(i, k)'
    BY <2>1, <1>1, <1>a DEF Past, Tracked
  <2>4. ASSUME NEW j \in Operations, Handled(j)', Kind(j) \notin Roots \cup {"yield"}
        PROVE  \E l \in DOMAIN ops[j].args : Past(j, l)'
    <3>1. CASE Handled(j)
      BY <3>1, <2>2, <2>4 DEF OnceInv
    <3>2. CASE ~Handled(j)
      <4>1. j = i \/ j \in new
        BY <3>2, <2>4, <1>2 DEF Handled, Tracked
      <4>2. j = i
        BY <4>1, <1>2, <1>g, <2>4
      <4> QED BY <4>2, <2>3, <1>1
    <3> QED BY <3>1, <3>2
  <2>5. ASSUME NEW j \in Operations, Tracked(j)', Kind(j) = "yield"
        PROVE  \E f \in Operations : Kind(f) = "for" /\ Tracked(f)' /\ YieldOf(f) = j
    <3>1. CASE Tracked(j)
      <4>1. PICK f \in Operations : Kind(f) = "for" /\ Tracked(f) /\ YieldOf(f) = j
        BY <3>1, <2>5 DEF OnceInv
      <4>2. Tracked(f)'
        BY <4>1, <1>2 DEF Tracked
      <4> QED BY <4>1, <4>2
    <3>2. CASE ~Tracked(j)
      <4>1. j \in new
        BY <3>2, <2>5, <1>2 DEF Tracked
      <4>2. j = YieldOf(i) /\ Kind(i) = "for" /\ i \in new
        BY <4>1, <2>5, <1>2
      <4>3. Tracked(i)'
        BY <4>2, <1>2 DEF Tracked
      <4> QED BY <4>2, <4>3
    <3> QED BY <3>1, <3>2
  <2>6. \A j \in Operations' :
          /\ Handled(j)' /\ Kind(j)' \notin Roots \cup {"yield"} => \E l \in DOMAIN ops'[j].args : Past(j, l)'
          /\ Tracked(j)' /\ Kind(j)' = "yield" =>
               \E f \in Operations' : Kind(f)' = "for" /\ Tracked(f)' /\ YieldOf(f)' = j
    BY <2>4, <2>5, <1>a, <1>b
  <2>7. uses' # {} => val' \notin Elements(workList')
    BY <2>1, <1>a
  <2>8. phase' # "undefined"
    BY <1>e
  <2> QED BY <2>6, <2>7, <2>8, <1>2, <1>a DEF OnceInv
<1>h. Distinct(workList) /\ Distinct(ptrUsers) /\ Distinct(toDelete)
  BY DEF OnceInv
<1>3. CASE Stays(i)
  <2> DEFINE none == {}
  <2>1. /\ none \in SUBSET Operations /\ \A v : v \notin none
        /\ DOMAIN offsetMap' = DOMAIN offsetMap \cup none
        /\ Elements(workList') = Elements(workList) \cup none
        /\ workList' = workList /\ ptrUsers' = ptrUsers /\ toDelete' = toDelete
    BY <1>3 DEF Stays
  <2> HIDE DEF none
  <2>2. OnceInv'
    BY <2>1, <1>h, <1>2
  <2> QED BY <2>2
<1>4. CASE Noted(i)
  <2>1. i \notin Elements(ptrUsers)
    BY <1>4, <1>f DEF Noted, Users, ScalarUsers, Handled
  <2>2. Elements(ptrUsers') = Elements(ptrUsers) \cup {i} /\ Distinct(ptrUsers')
    BY <2>1, <1>4, <1>c, <1>h, ElementsAppend DEF Noted
  <2> QED BY <2>2, <1>4, <1>h, <1>2 DEF Noted
<1>5. ASSUME Kind(i) \in Moves \cup {"for", "select"}
      PROVE  ~Tracked(i) /\ i \notin Elements(workList) /\ i \notin Elements(toDelete)
             /\ Kind(i) # "yield"
  BY <1>5, <1>f, <1>c DEF Moves, Handled
<1>6. CASE Moved(i)
  <2>1. Elements(workList') = Elements(workList) \cup {i} /\ Distinct(workList')
    BY <1>5, <1>6, <1>c, <1>h, ElementsAppend DEF Moved
  <2>2. Distinct(toDelete')
    BY <1>5, <1>6, <1>c, <1>h, ElementsAppend DEF Moved
  <2>3. DOMAIN offsetMap' = DOMAIN offsetMap \cup {i}
    BY <1>6 DEF Moved, Insert
  <2>4. ptrUsers' = ptrUsers /\ Kind(i) \in Moves
    BY <1>6 DEF Moved
  <2> QED BY <2>1, <2>2, <2>3, <2>4, <1>5, <1>h, <1>2
<1>7. CASE Selected(i)
  <2>1. Elements(workList') = Elements(workList) \cup {i} /\ Distinct(workList')
    BY <1>5, <1>7, <1>c, <1>h, ElementsAppend DEF Selected
  <2>2. DOMAIN offsetMap' = DOMAIN offsetMap \cup {i}
    BY <1>7 DEF Selected, Insert
  <2>3. ptrUsers' = ptrUsers /\ toDelete' = toDelete /\ Kind(i) = "select"
    BY <1>7 DEF Selected
  <2> QED BY <2>1, <2>2, <2>3, <1>5, <1>h, <1>2
<1>8. CASE Looped(i)
  <2> DEFINE y == YieldOf(i)
  <2>1. Kind(i) = "for" /\ ptrUsers' = ptrUsers /\ toDelete' = toDelete
        /\ offsetMap' = Insert(Insert(offsetMap, i, offsetMap[val]), y, offsetMap[val])
        /\ workList' = Append(Append(workList, i), y)
    BY <1>8 DEF Looped
  <2>2. ~Tracked(y) /\ y # i /\ y \in Operations
    <3>1. \A f \in Operations : Kind(f) = "for" /\ YieldOf(f) = y => f = i
      BY <2>1, <1>a, LoopResult
    <3> QED BY <2>1, <3>1, <1>5, <1>g DEF OnceInv
  <2> HIDE DEF y
  <2>3. Elements(workList') = Elements(workList) \cup {i, y} /\ Distinct(workList')
    <3> DEFINE s == Append(workList, i)
    <3>1. s \in Seq(Operations) /\ Elements(s) = Elements(workList) \cup {i} /\ Distinct(s)
      BY <2>1, <1>5, <1>c, <1>h, ElementsAppend
    <3>2. workList' = Append(s, y)
      BY <2>1
    <3>3. y \notin Elements(s)
      BY <2>2, <3>1, <1>c
    <3> HIDE DEF s
    <3>4. Elements(workList') = Elements(s) \cup {y} /\ Distinct(workList')
      BY <2>2, <3>1, <3>2, <3>3, ElementsAppend
    <3> QED BY <3>1, <3>4
  <2>4. DOMAIN offsetMap' = DOMAIN offsetMap \cup {i, y}
    BY <2>1 DEF Insert
  <2> QED BY <2>1, <2>2, <2>3, <2>4, <1>5, <1>h, <1>2 DEF y
<1> QED BY <1>1, <1>3, <1>4, <1>6, <1>7, <1>8

LEMMA OnceStep ==
  /\ KernelInv /\ WorkInv /\ ErasedInv /\ (~TwiceReached => OnceInv) /\ [Next]_vars
  => (~TwiceReached' => OnceInv')
<1> SUFFICES ASSUME KernelInv, WorkInv, ErasedInv, ~TwiceReached => OnceInv, [Next]_vars, ~TwiceReached'
             PROVE  OnceInv'
  OBVIOUS
<1>1. ASSUME workList' = <<>>, ptrUsers' = <<>>, toDelete' = <<>>, uses' = {}, phase' # "undefined",
             offsetMap' = <<>>
      PROVE  OnceInv'
  <2>1. \A i : ~Tracked(i)' /\ ~Handled(i)'
    BY <1>1, ElementsEmpty DEF Tracked, Handled
  <2> QED BY <2>1, <1>1, ElementsEmpty DEF OnceInv
<1>2. CASE Move \/ Merge \/ IntToPtr \/ For \/ Yield \/ User
  <2>1. phase = "kernel" /\ phase' = "kernel" /\ UNCHANGED ir
    BY <1>2 DEF Move, Merge, IntToPtr, For, Yield, User, BuildingValue, Building, Emit
  <2> QED BY <2>1, <1>1 DEF WorkInv, ir
<1>3. CASE Start
  <2>1. /\ ops' = ops /\ phase' = "walk" /\ uses' = {} /\ ptrUsers' = <<>> /\ toDelete' = <<>>
    BY <1>3 DEF Start, WorkInv
  <2>2. Distinct(workList') /\ DOMAIN offsetMap' = {i \in Operations : Kind(i) \in Roots}
    BY <1>3, StartList
  <2>3. Operations' = Operations /\ \A i : Kind(i)' = Kind(i)
    BY <2>1, SameKernel
  <2>4. \A i : Handled(i)' => Kind(i) \in Roots
    BY <2>1, <2>2, ElementsEmpty DEF Handled, Tracked
  <2>5. \A i : Tracked(i)' => Kind(i) # "yield"
    BY <2>2 DEF Tracked, Roots
  <2> QED BY <2>1, <2>2, <2>3, <2>4, <2>5, ElementsEmpty DEF OnceInv
(* From here on the kernel is there, and what was reached stays so.        *)
<1>4. ASSUME ops' = ops, DOMAIN offsetMap \subseteq DOMAIN offsetMap' PROVE ~TwiceReached /\ OnceInv
  <2>1. Operations' = Operations /\ \A i : Kind(i)' = Kind(i)
    BY <1>4, SameKernel
  <2>2. \A v : Tracked(v) => Tracked(v)'
    BY <1>4 DEF Tracked
  <2>3. TwiceReached => TwiceReached'
    BY <2>1, <2>2, <1>4 DEF TwiceReached
  <2> QED BY <2>3
<1>5. CASE Visit
  <2>1. PICK i \in Operations, k \in {1, 2} :
          Taken(i, k) /\ (Stays(i) \/ Moved(i) \/ Noted(i) \/ Looped(i) \/ Selected(i))
    BY <1>5, VisitOutcome
  <2>2. \A map, v, info : DOMAIN map \subseteq DOMAIN Insert(map, v, info)
    BY DEF Insert
  <2>3. DOMAIN offsetMap \subseteq DOMAIN offsetMap'
    <3>1. CASE Looped(i)
      <4> DEFINE mid == Insert(offsetMap, i, offsetMap[val])
      <4>1. offsetMap' = Insert(mid, YieldOf(i), offsetMap[val]) /\ DOMAIN offsetMap \subseteq DOMAIN mid
        BY <3>1, <2>2 DEF Looped
      <4> HIDE DEF mid
      <4>2. DOMAIN mid \subseteq DOMAIN offsetMap'
        BY <4>1, <2>2
      <4> QED BY <4>1, <4>2
    <3>2. CASE Stays(i) \/ Moved(i) \/ Noted(i) \/ Selected(i)
      BY <3>2, <2>2 DEF Stays, Moved, Noted, Selected
    <3> QED BY <3>1, <3>2, <2>1
  <2>4. ops' = ops
    BY <2>1 DEF Taken
  <2>5. ~TwiceReached /\ OnceInv
    BY <2>3, <2>4, <1>4
  <2> QED BY <2>5, <1>5, OnceVisit
<1>a. /\ workList \in Seq(Operations) /\ ptrUsers \in Seq(Operations) /\ toDelete \in Seq(Operations)
  BY DEF WorkInv
<1>6. ASSUME ops' = ops, offsetMap' = offsetMap, OnceInv,
             Distinct(workList'), Distinct(ptrUsers'), Distinct(toDelete'),
             uses' # {} => val' \notin Elements(workList'),
             \A i, k : Past(i, k) => Past(i, k)',
             Elements(ptrUsers') \subseteq Elements(ptrUsers),
             (Elements(ptrUsers') \cup Elements(toDelete')) \cap erased' = {},
             phase' = "undefined" => \E i \in Operations : Kind(i) = "tptr_static"
      PROVE  OnceInv'
  <2>1. Operations' = Operations /\ (\A i : Kind(i)' = Kind(i)) /\ \A f : YieldOf(f)' = YieldOf(f)
    BY <1>6, SameKernel
  <2>2. \A v : Tracked(v)' = Tracked(v) /\ (Handled(v)' => Handled(v))
    BY <1>6 DEF Tracked, Handled
  <2>3. \A i \in Operations' :
          /\ Handled(i)' /\ Kind(i)' \notin Roots \cup {"yield"} => \E k \in DOMAIN ops'[i].args : Past(i, k)'
          /\ Tracked(i)' /\ Kind(i)' = "yield" =>
               \E f \in Operations' : Kind(f)' = "for" /\ Tracked(f)' /\ YieldOf(f)' = i
    BY <2>1, <2>2, <1>6 DEF OnceInv
  <2> QED BY <2>1, <2>3, <1>6 DEF OnceInv
<1>7. CASE Pop
  <2>1. /\ ops' = ops /\ offsetMap' = offsetMap /\ workList # <<>> /\ uses = {} /\ phase' = "walk"
        /\ val' = Head(workList) /\ workList' = Tail(workList) /\ uses' = UsesOf(val')
        /\ ptrUsers' = ptrUsers /\ toDelete' = toDelete /\ erased' = erased
    BY <1>7 DEF Pop
  <2>2. OnceInv
    BY <2>1, <1>4
  <2>3. /\ Elements(workList) = Elements(workList') \cup {val'}
        /\ Distinct(workList') /\ val' \notin Elements(workList')
    BY <2>1, <2>2, <1>a, ElementsTail DEF OnceInv
  <2>4. ASSUME NEW i, NEW k, Past(i, k) PROVE Past(i, k)'
    <3>1. ops[i].args[k] # val' /\ ops[i].args[k] \notin Elements(workList')
      BY <2>3, <2>4 DEF Past
    <3>2. <<i, k>> \notin uses'
      BY <3>1, <2>1 DEF UsesOf
    <3> QED BY <3>1, <3>2, <2>1, <2>4 DEF Past, Tracked
  <2> QED BY <2>1, <2>2, <2>3, <2>4, <1>6 DEF OnceInv
<1>8. ASSUME UNCHANGED <<ops, offsetMap, workList, val, uses>>
      PROVE  OnceInv /\ \A i, k : Past(i, k) => Past(i, k)'
  BY <1>8, <1>4 DEF Past, Tracked
<1>9. CASE EndWalk \/ EndRewrite \/ UNCHANGED vars
  <2>1. /\ UNCHANGED <<ops, offsetMap, workList, val, uses, ptrUsers, toDelete, erased>>
        /\ phase' = "undefined" => phase = "undefined"
    BY <1>9 DEF EndWalk, EndRewrite, vars, ir
  <2> QED BY <2>1, <1>8, <1>6 DEF OnceInv
<1>10. CASE RewriteUser
  <2> DEFINE i == Head(ptrUsers)
  <2>1. /\ UNCHANGED <<ops, offsetMap, workList, val, uses, toDelete>> /\ ptrUsers # <<>>
        /\ ptrUsers' = Tail(ptrUsers) /\ erased' \subseteq erased \cup {i}
        /\ phase' = "undefined" => i \in erased \/ Kind(i) = "tptr_static"
    BY <1>10 DEF RewriteUser
  <2>2. OnceInv
    BY <2>1, <1>8
  <2>3. /\ Elements(ptrUsers) = Elements(ptrUsers') \cup {i} /\ i \in Operations
        /\ Distinct(ptrUsers') /\ i \notin Elements(ptrUsers')
    BY <2>1, <2>2, <1>a, ElementsTail DEF OnceInv
  <2>4. i \notin Elements(toDelete) /\ i \notin erased
    <3>1. Kind(i) \in Users
      BY <2>3 DEF WorkInv
    <3> QED BY <3>1, <2>2, <2>3 DEF WorkInv, OnceInv, Users, ScalarUsers, Moves
  <2> HIDE DEF i
  <2>5. (Elements(ptrUsers') \cup Elements(toDelete')) \cap erased' = {}
    BY <2>1, <2>2, <2>3, <2>4 DEF OnceInv
  <2>6. phase' = "undefined" => \E j \in Operations : Kind(j) = "tptr_static"
    BY <2>1, <2>3, <2>4
  <2>7. Distinct(workList') /\ Distinct(toDelete') /\ (uses' # {} => val' \notin Elements(workList'))
    BY <2>1, <2>2 DEF OnceInv
  <2>8. \A j, k : Past(j, k) => Past(j, k)'
    BY <2>1, <1>8
  <2>9. ops' = ops /\ offsetMap' = offsetMap /\ Elements(ptrUsers') \subseteq Elements(ptrUsers)
    BY <2>1, <2>3
  <2> QED BY <2>2, <2>3, <2>5, <2>6, <2>7, <2>8, <2>9, <1>6
<1>11. CASE Delete
  <2> DEFINE i == Head(toDelete)
  <2>1. /\ UNCHANGED <<ops, offsetMap, workList, val, uses, ptrUsers>> /\ toDelete # <<>> /\ ptrUsers = <<>>
        /\ toDelete' = Tail(toDelete) /\ erased' = erased \cup {i} /\ phase = "rewrite"
        /\ phase' = "undefined" => i \in erased
    BY <1>11 DEF Delete
  <2>2. OnceInv
    BY <2>1, <1>8
  <2>3. /\ Elements(toDelete) = Elements(toDelete') \cup {i}
        /\ Distinct(toDelete') /\ i \notin Elements(toDelete')
    BY <2>1, <2>2, <1>a, ElementsTail DEF OnceInv
  <2>4. i \notin erased
    BY <2>2, <2>3 DEF OnceInv
  <2> HIDE DEF i
  <2>5. (Elements(ptrUsers') \cup Elements(toDelete')) \cap erased' = {}
    BY <2>1, <2>2, <2>3, ElementsEmpty DEF OnceInv
  <2>6. phase' # "undefined"
    BY <2>1, <2>4
  <2>7. Distinct(workList') /\ Distinct(ptrUsers') /\ (uses' # {} => val' \notin Elements(workList'))
    BY <2>1, <2>2 DEF OnceInv
  <2>8. \A j, k : Past(j, k) => Past(j, k)'
    BY <2>1, <1>8
  <2>9. ops' = ops /\ offsetMap' = offsetMap /\ ptrUsers' = ptrUsers
    BY <2>1
  <2> QED BY <2>2, <2>3, <2>5, <2>6, <2>7, <2>8, <2>9, <1>6
<1> QED BY <1>2, <1>3, <1>5, <1>7, <1>9, <1>10, <1>11 DEF Next

-----------------------------------------------------------------------------
(* Reached *)

LEMMA ReachVisit ==
  ASSUME KernelInv, WorkInv, ErasedInv, ReachInv, Visit
  PROVE  ReachInv'
<1>1. PICK i \in Operations, k \in {1, 2} :
        /\ Taken(i, k) /\ k \in DOMAIN ops[i].args /\ ops[i].args[k] = val /\ Tracked(val)
        /\ Stays(i) \/ Moved(i) \/ Noted(i) \/ Looped(i) \/ Selected(i)
  BY VisitOutcome
<1>a. /\ phase = "walk" /\ ops' = ops /\ erased' = erased
      /\ uses' = uses \ {<<i, k>>}
  BY <1>1 DEF Taken
<1>b. /\ Operations' = Operations /\ \A j : Kind(j)' = Kind(j)
      /\ \A f : YieldOf(f)' = YieldOf(f)
  BY <1>a, SameKernel
<1>c. /\ workList \in Seq(Operations) /\ toDelete \in Seq(Operations)
  BY DEF WorkInv
<1>2. CASE phase' = "failed"
  BY <1>2 DEF ReachInv
<1>g. Kind(i) = "for" => YieldOf(i) \in Operations /\ Kind(YieldOf(i)) = "yield"
  BY <1>a, LoopResult DEF Closes
<1>3. ASSUME phase' = "walk", NEW new,
             DOMAIN offsetMap' = DOMAIN offsetMap \cup new, Elements(workList') = Elements(workList) \cup new,
             Kind(i) \in Moves \cup {"for", "select"} => i \in new,
             Kind(i) = "for" => YieldOf(i) \in new,
             \A v \in new : v = i \/ Kind(v) = "yield",
             Elements(toDelete) \subseteq Elements(toDelete'), Kind(i) \in Moves => i \in Elements(toDelete')
      PROVE  ReachInv'
  <2>1. ASSUME NEW j \in Operations
        PROVE  /\ Kind(j) \in Roots => j \in DOMAIN offsetMap'
               /\ Kind(j) \in Moves \cup {"for", "select"} => \A l \in DOMAIN ops[j].args :
                    ops[j].args[l] \in DOMAIN offsetMap' =>
                      j \in DOMAIN offsetMap' \/ ops[j].args[l] \in Elements(workList') \/ <<j, l>> \in uses'
               /\ Kind(j) = "for" /\ j \in DOMAIN offsetMap' => YieldOf(j) \in DOMAIN offsetMap'
               /\ Kind(j) \in Moves /\ j \in DOMAIN offsetMap' => j \in Elements(toDelete') \cup erased
    <3>1. Kind(j) \in Roots => j \in DOMAIN offsetMap'
      BY <1>a, <1>3 DEF ReachInv, Tracked
    <3>2. ASSUME Kind(j) \in Moves \cup {"for", "select"}, NEW l \in DOMAIN ops[j].args,
                 ops[j].args[l] \in DOMAIN offsetMap', ops[j].args[l] \notin Elements(workList'),
                 <<j, l>> \notin uses'
          PROVE  j \in DOMAIN offsetMap'
      <4>1. ops[j].args[l] \in DOMAIN offsetMap /\ ops[j].args[l] \notin Elements(workList)
        BY <3>2, <1>3
      <4>2. CASE j = i
        BY <4>2, <3>2, <1>3
      <4>3. CASE j # i
        BY <4>1, <4>3, <3>2, <1>3, <1>a DEF ReachInv, Tracked
      <4> QED BY <4>2, <4>3
    <3>3. ASSUME Kind(j) = "for", j \in DOMAIN offsetMap' PROVE YieldOf(j) \in DOMAIN offsetMap'
      <4>1. CASE j \in DOMAIN offsetMap
        BY <4>1, <3>3, <1>3, <1>a DEF ReachInv, Tracked
      <4>2. CASE j \notin DOMAIN offsetMap
        BY <4>2, <3>3, <1>3
      <4> QED BY <4>1, <4>2
    <3>4. ASSUME Kind(j) \in Moves, j \in DOMAIN offsetMap' PROVE j \in Elements(toDelete') \cup erased
      <4>1. CASE j \in DOMAIN offsetMap
        BY <4>1, <3>4, <1>3, <1>a DEF ReachInv, Tracked
      <4>2. CASE j \notin DOMAIN offsetMap
        BY <4>2, <3>4, <1>3 DEF Moves
      <4> QED BY <4>1, <4>2
    <3> QED BY <3>1, <3>2, <3>3, <3>4
  <2> QED BY <2>1, <1>3, <1>a, <1>b DEF ReachInv, Tracked
<1>4. CASE phase' # "failed" /\ (Stays(i) \/ Noted(i))
  <2> DEFINE none == {}
  <2>1. /\ \A v : v \notin none
        /\ DOMAIN offsetMap' = DOMAIN offsetMap \cup none
        /\ Elements(workList') = Elements(workList) \cup none
        /\ toDelete' = toDelete /\ Kind(i) \notin Moves \cup {"for", "select"} /\ phase' = "walk"
    BY <1>4 DEF Stays, Noted, Users, ScalarUsers, Moves
  <2> HIDE DEF none
  <2>2. ReachInv'
    BY <2>1, <1>3
  <2> QED BY <2>2
<1>5. CASE Moved(i)
  <2>1. /\ Elements(workList') = Elements(workList) \cup {i} /\ Elements(toDelete') = Elements(toDelete) \cup {i}
        /\ DOMAIN offsetMap' = DOMAIN offsetMap \cup {i} /\ phase' = "walk" /\ Kind(i) # "for"
    BY <1>5, <1>c, ElementsAppend DEF Moved, Insert, Moves
  <2> DEFINE new == {i}
  <2>2. i \in new /\ (\A v \in new : v = i) /\ Kind(i) \in Moves /\ i \in Elements(toDelete')
    BY <2>1, <1>5 DEF Moved
  <2> HIDE DEF new
  <2>3. DOMAIN offsetMap' = DOMAIN offsetMap \cup new /\ Elements(workList') = Elements(workList) \cup new
        /\ Elements(toDelete) \subseteq Elements(toDelete')
    BY <2>1 DEF new
  <2> QED BY <2>1, <2>2, <2>3, <1>3
<1>6. CASE Selected(i)
  <2>1. /\ Elements(workList') = Elements(workList) \cup {i} /\ toDelete' = toDelete
        /\ DOMAIN offsetMap' = DOMAIN offsetMap \cup {i} /\ phase' = "walk" /\ Kind(i) = "select"
    BY <1>6, <1>c, ElementsAppend DEF Selected, Insert
  <2> DEFINE new == {i}
  <2>2. i \in new /\ (\A v \in new : v = i) /\ Kind(i) \notin Moves /\ Kind(i) # "for"
    BY <2>1 DEF Moves
  <2> HIDE DEF new
  <2>3. DOMAIN offsetMap' = DOMAIN offsetMap \cup new /\ Elements(workList') = Elements(workList) \cup new
        /\ Elements(toDelete) \subseteq Elements(toDelete')
    BY <2>1 DEF new
  <2> QED BY <2>1, <2>2, <2>3, <1>3
<1>7. CASE Looped(i)
  <2> DEFINE y == YieldOf(i)
  <2>1. Kind(i) = "for" /\ toDelete' = toDelete /\ phase' = "walk"
        /\ offsetMap' = Insert(Insert(offsetMap, i, offsetMap[val]), y, offsetMap[val])
        /\ workList' = Append(Append(workList, i), y)
    BY <1>7 DEF Looped
  <2>2. y \in Operations /\ Kind(y) = "yield"
    BY <2>1, <1>g
  <2>3. Elements(workList') = Elements(workList) \cup {i, y}
    <3> HIDE DEF y
    <3> DEFINE s == Append(workList, i)
    <3>1. s \in Seq(Operations) /\ Elements(s) = Elements(workList) \cup {i}
      BY <1>c, ElementsAppend
    <3>2. workList' = Append(s, y)
      BY <2>1
    <3> HIDE DEF s
    <3>3. Elements(workList') = Elements(s) \cup {y}
      BY <2>2, <3>1, <3>2, ElementsAppend
    <3> QED BY <3>1, <3>3
  <2>4. DOMAIN offsetMap' = DOMAIN offsetMap \cup {i, y}
    BY <2>1 DEF Insert
  <2> DEFINE new == {i, y}
  <2>5. /\ i \in new /\ y \in new /\ (\A v \in new : v = i \/ Kind(v) = "yield")
        /\ Kind(i) \notin Moves
    BY <2>1, <2>2 DEF Moves
  <2>6. DOMAIN offsetMap' = DOMAIN offsetMap \cup new /\ Elements(workList') = Elements(workList) \cup new
        /\ Elements(toDelete) \subseteq Elements(toDelete')
    BY <2>1, <2>3, <2>4
  <2> HIDE DEF new
  <2> QED BY <2>1, <2>5, <2>6, <1>3
<1> QED BY <1>1, <1>2, <1>4, <1>5, <1>6, <1>7

LEMMA ReachStep == KernelInv /\ WorkInv /\ ErasedInv /\ ReachInv /\ [Next]_vars => ReachInv'
<1> SUFFICES ASSUME KernelInv, WorkInv, ErasedInv, ReachInv, [Next]_vars,
                    phase' \in {"walk", "rewrite", "done"}
             PROVE  ReachInv'
  BY DEF ReachInv
<1>a. /\ workList \in Seq(Operations) /\ toDelete \in Seq(Operations)
      /\ uses \subseteq UsesOf(val)
  BY DEF WorkInv
<1>1. CASE Move \/ Merge \/ IntToPtr \/ For \/ Yield \/ User
  BY <1>1 DEF Move, Merge, IntToPtr, For, Yield, User, BuildingValue, Building, Emit
<1>2. CASE Visit
  BY <1>2, ReachVisit
<1>3. ASSUME ops' = ops,
             \A i \in Operations :
               /\ Kind(i) \in Roots => Tracked(i)'
               /\ Kind(i) \in Moves \cup {"for", "select"} => \A k \in DOMAIN ops[i].args :
                    Tracked(ops[i].args[k])' =>
                      Tracked(i)' \/ ops[i].args[k] \in Elements(workList') \/ <<i, k>> \in uses'
               /\ Kind(i) = "for" /\ Tracked(i)' => Tracked(YieldOf(i))'
               /\ Kind(i) \in Moves /\ Tracked(i)' => i \in Elements(toDelete') \cup erased',
             phase' # "walk" => workList' = <<>> /\ uses' = {},
             phase' = "done" => toDelete' = <<>>
      PROVE  ReachInv'
  <2>1. Operations' = Operations /\ (\A i : Kind(i)' = Kind(i)) /\ \A f : YieldOf(f)' = YieldOf(f)
    BY <1>3, SameKernel
  <2> QED BY <1>3, <2>1 DEF ReachInv, Tracked
<1>4. CASE Start
  <2>1. ops' = ops /\ phase' = "walk"
    BY <1>4 DEF Start
  <2>2. /\ Elements(workList') = {i \in Operations : Kind(i) \in Roots}
        /\ DOMAIN offsetMap' = {i \in Operations : Kind(i) \in Roots}
    BY <1>4, StartList
  <2>3. \A v : Tracked(v)' <=> v \in Elements(workList')
    BY <2>2 DEF Tracked
  <2>4. \A i : Tracked(i)' => Kind(i) \notin Moves \cup {"for", "select"}
    BY <2>2 DEF Tracked, Roots, Moves
  <2> QED BY <2>1, <2>2, <2>3, <2>4, <1>3
<1>5. CASE Pop
  <2>1. /\ ops' = ops /\ offsetMap' = offsetMap /\ workList # <<>> /\ uses = {} /\ phase = "walk"
        /\ phase' = "walk"
        /\ val' = Head(workList) /\ workList' = Tail(workList) /\ uses' = UsesOf(val')
        /\ toDelete' = toDelete /\ erased' = erased
    BY <1>5 DEF Pop
  <2>2. Elements(workList) = Elements(workList') \cup {val'}
    BY <2>1, <1>a, ElementsTail
  <2>3. \A v : Tracked(v)' = Tracked(v)
    BY <2>1 DEF Tracked
  <2>4. ASSUME NEW i \in Operations, NEW k \in DOMAIN ops[i].args, ops[i].args[k] = val'
        PROVE  <<i, k>> \in uses'
    <3>1. k \in {1, 2}
      BY <2>4 DEF KernelInv, Arity
    <3> QED BY <3>1, <2>1, <2>4 DEF UsesOf
  <2>5. \A i \in Operations :
          /\ Kind(i) \in Roots => Tracked(i)'
          /\ Kind(i) \in Moves \cup {"for", "select"} => \A k \in DOMAIN ops[i].args :
               Tracked(ops[i].args[k])' =>
                 Tracked(i)' \/ ops[i].args[k] \in Elements(workList') \/ <<i, k>> \in uses'
          /\ Kind(i) = "for" /\ Tracked(i)' => Tracked(YieldOf(i))'
          /\ Kind(i) \in Moves /\ Tracked(i)' => i \in Elements(toDelete') \cup erased'
    <3>1. \A i : YieldOf(i)' = YieldOf(i)
      BY <2>1, SameKernel
    <3> QED BY <3>1, <2>1, <2>2, <2>3, <2>4 DEF ReachInv
  <2> QED BY <2>1, <2>5, <1>3
<1>6. ASSUME UNCHANGED <<ops, offsetMap, workList, uses>>, phase \in {"walk", "rewrite", "done"},
             Elements(toDelete) \cup erased \subseteq Elements(toDelete') \cup erased',
             phase' # "walk" => workList = <<>> /\ uses = {},
             phase' = "done" => toDelete' = <<>>
      PROVE  ReachInv'
  <2>1. \A v : Tracked(v)' = Tracked(v)
    BY <1>6 DEF Tracked
  <2>2. \A i : YieldOf(i)' = YieldOf(i)
    BY <1>6, SameKernel
  <2>3. \A i \in Operations :
          /\ Kind(i) \in Roots => Tracked(i)'
          /\ Kind(i) \in Moves \cup {"for", "select"} => \A k \in DOMAIN ops[i].args :
               Tracked(ops[i].args[k])' =>
                 Tracked(i)' \/ ops[i].args[k] \in Elements(workList') \/ <<i, k>> \in uses'
          /\ Kind(i) = "for" /\ Tracked(i)' => Tracked(YieldOf(i))'
          /\ Kind(i) \in Moves /\ Tracked(i)' => i \in Elements(toDelete') \cup erased'
    BY <1>6, <2>1, <2>2 DEF ReachInv
  <2> QED BY <1>6, <2>3, <1>3
<1>7. CASE EndWalk \/ EndRewrite \/ UNCHANGED vars
  BY <1>7, <1>6 DEF EndWalk, EndRewrite, vars, ir, ReachInv
<1>8. CASE RewriteUser
  <2>1. /\ UNCHANGED <<ops, offsetMap, workList, uses, toDelete>> /\ phase = "rewrite" /\ phase' # "done"
        /\ erased \subseteq erased'
    BY <1>8 DEF RewriteUser
  <2> QED BY <2>1, <1>6 DEF ReachInv
<1>9. CASE Delete
  <2>1. /\ UNCHANGED <<ops, offsetMap, workList, uses>> /\ phase = "rewrite" /\ phase' # "done"
        /\ toDelete # <<>> /\ toDelete' = Tail(toDelete) /\ erased' = erased \cup {Head(toDelete)}
    BY <1>9 DEF Delete
  <2>2. Elements(toDelete) = Elements(toDelete') \cup {Head(toDelete)}
    BY <2>1, <1>a, ElementsTail
  <2>3. Elements(toDelete) \cup erased \subseteq Elements(toDelete') \cup erased'
    BY <2>1, <2>2
  <2> QED BY <2>1, <2>3, <1>6 DEF ReachInv
<1> QED BY <1>1, <1>2, <1>4, <1>5, <1>7, <1>8, <1>9 DEF Next

-----------------------------------------------------------------------------
(* The theorems *)

LEMMA PassInit == Init => KernelInv /\ WorkInv /\ ErasedInv /\ OnceInv /\ ReachInv
<1> SUFFICES ASSUME Init PROVE KernelInv /\ WorkInv /\ ErasedInv /\ OnceInv /\ ReachInv
  OBVIOUS
<1>1. /\ phase = "kernel" /\ offsetMap = <<>> /\ workList = <<>> /\ uses = {} /\ retyped = {}
      /\ deferredRewrites = {} /\ ptrUsers = <<>> /\ toDelete = <<>> /\ erased = {}
  BY DEF Init
<1>2. DOMAIN offsetMap = {} /\ <<>> \in Seq(Operations) /\ \A v : ~Tracked(v) /\ ~Handled(v)
  BY <1>1, ElementsEmpty DEF Tracked, Handled
<1>3. WorkInv
  BY <1>1, <1>2, ElementsEmpty DEF WorkInv
<1>4. OnceInv
  BY <1>1, <1>2, ElementsEmpty DEF OnceInv
<1>5. ErasedInv /\ ReachInv
  BY <1>1 DEF ErasedInv, ReachInv
<1> QED BY <1>3, <1>4, <1>5, KernelInit

LEMMA PassInvariant ==
  Spec => [](KernelInv /\ WorkInv /\ ErasedInv /\ (~TwiceReached => OnceInv) /\ ReachInv)
<1> DEFINE IInv == KernelInv /\ WorkInv /\ ErasedInv /\ (~TwiceReached => OnceInv) /\ ReachInv
<1>1. Init => IInv
  BY PassInit
<1>2. IInv /\ [Next]_vars => IInv'
  BY KernelStep, WorkStep, ErasedStep, OnceStep, ReachStep
<1> QED BY <1>1, <1>2, PTL DEF Spec

LEMMA TypesKept == KernelInv /\ WorkInv => TypeOK
<1> SUFFICES ASSUME KernelInv, WorkInv PROVE TypeOK
  OBVIOUS
<1>1. Operations = 1 .. Len(ops)
  BY LenProperties DEF KernelInv, Operations
<1>2. ASSUME NEW i \in Operations PROVE Kind(i) \in Values \cup Users
  <2>1. ops[i] \in OperationType
    BY <1>1, ElementOfSeq DEF KernelInv
  <2> QED BY <2>1 DEF OperationType, Kind
<1>3. \A s : \A j \in DOMAIN s : s[j] \in Elements(s)
  BY DEF Elements
<1> QED BY <1>1, <1>2, <1>3 DEF WorkInv, TypeOK

(* Every operation is queued, rewritten and erased once, in every kernel   *)
(* without a select that is reached from both of its pointers.             *)
THEOREM HandledOnceHolds == Spec => []HandledOnce
<1>1. KernelInv /\ WorkInv /\ (~TwiceReached => OnceInv) => HandledOnce
  BY TypesKept DEF OnceInv, HandledOnce
<1> QED BY <1>1, PassInvariant, PTL

(* When the pass succeeds, no tt.addptr, tt.splat or tt.bitcast is left of *)
(* those that a pointer reaches other than through an scf.if.              *)
THEOREM EliminatedHolds == Spec => []Eliminated
<1>1. ASSUME WorkInv, ReachInv, phase = "done", NEW i \in Reached, Kind(i) \in Moves PROVE i \in erased
  <2> DEFINE R == DOMAIN offsetMap
  <2>1. /\ workList = <<>> /\ uses = {} /\ toDelete = <<>>
    BY <1>1 DEF ReachInv
  <2>2. Elements(workList) = {} /\ Elements(toDelete) = {}
    BY <2>1, ElementsEmpty
  <2>3. R \in SUBSET Operations
    BY <1>1 DEF WorkInv
  <2>4. ClosedUnderUses(R)
    BY <1>1, <2>1, <2>2 DEF ReachInv, Tracked, ClosedUnderUses
  <2>5. i \in R /\ i \in Operations
    BY <2>3, <2>4 DEF Reached
  <2> QED BY <2>2, <2>5, <1>1 DEF ReachInv, Tracked
<1>2. WorkInv /\ ReachInv => Eliminated
  BY <1>1 DEF Eliminated
<1> QED BY <1>2, PassInvariant, PTL

(* A pass that gives up before it has entered a loop leaves a kernel that  *)
(* verifies: no operand and no result has changed its type.                *)
THEOREM FailureKeepsKernelHolds == Spec => []FailureKeepsKernel
<1>1. ASSUME KernelInv, ErasedInv, phase = "failed", retyped = {} PROVE Verifies
  <2>1. \A v : TypeOf(v) = 0
    BY <1>1 DEF ErasedInv, TypeOf
  <2>2. ASSUME NEW i \in Operations
        PROVE  LET types == {TypeOf(ops[i].args[k]) : k \in DOMAIN ops[i].args} IN
                 /\ types \subseteq {0}
                 /\ Kind(i) \in {"for", "yield"} => types = {TypeOf(i)}
    <3>1. Kind(i) \in {"for", "yield"} => DOMAIN ops[i].args = {1}
      BY <1>1 DEF KernelInv, Arity, Roots, Merges
    <3> QED BY <2>1, <3>1
  <2> QED BY <2>2 DEF Verifies
<1>2. KernelInv /\ ErasedInv => FailureKeepsKernel
  BY <1>1 DEF FailureKeepsKernel
<1> QED BY <1>2, PassInvariant, PTL

-----------------------------------------------------------------------------
(* Where operands stand *)

(* The operations keep their loops as the kernel grows. *)
LEMMA GrownKernel ==
  ASSUME KernelInv, NEW op, ops' = Append(ops, op), NEW n, n = Len(ops)
  PROVE  /\ Operations' = Operations \cup {n + 1} /\ Operations = 1 .. n /\ n \in Nat
         /\ ops'[n + 1] = op /\ Kind(n + 1)' = op.op
         /\ \A i \in Operations : ops'[i] = ops[i] /\ Kind(i)' = Kind(i) /\ LoopOf(i)' = LoopOf(i)
         /\ \A i, f \in Operations : Closes(i, f)' = Closes(i, f)
<1>1. /\ Operations = 1 .. n /\ n \in Nat
      /\ Operations' = 1 .. n + 1 /\ ops'[n + 1] = op
      /\ \A i \in Operations : ops'[i] = ops[i]
  BY AppendProperties, LenProperties DEF KernelInv, Operations
<1>2. Kind(n + 1)' = op.op /\ \A i \in Operations : Kind(i)' = Kind(i)
  BY <1>1 DEF Kind
<1>3. ASSUME NEW i \in Operations PROVE LoopOf(i)' = LoopOf(i)
  <2>1. 1 .. i \subseteq Operations /\ \A f \in 1 .. i : f .. i \subseteq Operations
    BY <1>1
  <2> QED BY <1>2, <2>1 DEF LoopOf
<1>4. ASSUME NEW i \in Operations, NEW f \in Operations PROVE Closes(i, f)' = Closes(i, f)
  <2>1. f .. i - 1 \subseteq Operations
    BY <1>1
  <2> QED BY <1>2, <2>1 DEF Closes
<1>5. Operations' = Operations \cup {n + 1}
  BY <1>1
<1> HIDE DEF Operations
<1> QED BY <1>1, <1>2, <1>3, <1>4, <1>5

(* An operation as it may be emitted, with its operands. *)
WellPlaced(op) ==
  /\ \A a \in Elements(op.args) :
       /\ a \in Operations /\ Kind(a) \in Values /\ LoopOf(a) \subseteq OpenLoop
       /\ op.op # "bitcast" => op.elem = ops[a].elem
  /\ op.op = "yield" => \E f \in OpenLoop : op.elem = ops[f].elem

(* A well placed operation can be appended.                                *)
LEMMA EmitPlaces ==
  ASSUME KernelInv, OperandInv, NEW op, WellPlaced(op), Emit(op)
  PROVE  OperandInv'
<1>a. Len(ops) = Len(ops)
  OBVIOUS
<1> PICK n : n = Len(ops)
  BY <1>a
<1>1. /\ Operations' = Operations \cup {n + 1} /\ Operations = 1 .. n
      /\ n \in Nat
      /\ ops'[n + 1] = op /\ Kind(n + 1)' = op.op
      /\ \A i \in Operations : ops'[i] = ops[i] /\ Kind(i)' = Kind(i) /\ LoopOf(i)' = LoopOf(i)
      /\ \A i, f \in Operations : Closes(i, f)' = Closes(i, f)
  BY GrownKernel DEF Emit
<1>o. OpenLoop = {f \in 1 .. n : Kind(f) = "for" /\ \A j \in f .. n : Kind(j) # "yield"}
  BY DEF OpenLoop, LoopOf
<1>2. ASSUME NEW i \in Operations, NEW a \in Elements(ops'[i].args)
      PROVE  /\ a \in 1 .. i - 1 /\ Kind(a)' \in Values
             /\ IF Kind(i)' = "yield" THEN \A f \in LoopOf(a)' : Closes(i, f)'
                ELSE LoopOf(a)' \subseteq LoopOf(i)'
             /\ Kind(i)' # "bitcast" => ops'[i].elem = ops'[a].elem
  <2>1. /\ a \in 1 .. i - 1 /\ Kind(a) \in Values
        /\ IF Kind(i) = "yield" THEN \A f \in LoopOf(a) : Closes(i, f)
           ELSE LoopOf(a) \subseteq LoopOf(i)
        /\ Kind(i) # "bitcast" => ops[i].elem = ops[a].elem
    BY <1>1, <1>2 DEF OperandInv
  <2>2. a \in Operations /\ \A f \in LoopOf(a) : f \in Operations
    BY <1>1, <2>1 DEF LoopOf
  <2> QED BY <1>1, <2>1, <2>2
<1>3. ASSUME NEW a \in Elements(op.args)
      PROVE  /\ a \in 1 .. n /\ Kind(a)' \in Values
             /\ IF op.op = "yield" THEN \A f \in LoopOf(a)' : Closes(n + 1, f)'
                ELSE LoopOf(a)' \subseteq LoopOf(n + 1)'
             /\ op.op # "bitcast" => op.elem = ops'[a].elem
  <2>1. /\ a \in 1 .. n /\ Kind(a) \in Values /\ LoopOf(a) \subseteq OpenLoop
        /\ op.op # "bitcast" => op.elem = ops[a].elem
    BY <1>1, <1>3 DEF WellPlaced
  <2>2. a \in Operations /\ LoopOf(a)' = LoopOf(a) /\ Kind(a)' = Kind(a) /\ ops'[a] = ops[a]
    BY <1>1, <2>1
  <2>3. ASSUME op.op = "yield", NEW f \in OpenLoop PROVE Closes(n + 1, f)'
    <3>1. f \in 1 .. n /\ \A j \in f .. n : Kind(j)' # "yield"
      BY <1>o, <1>1
    <3>2. n + 1 > f /\ \A j \in f .. (n + 1) - 1 : Kind(j)' # "yield"
      BY <3>1, <1>1
    <3> QED BY <3>2, <2>3, <1>1 DEF Closes
  <2>4. ASSUME op.op # "yield", NEW f \in OpenLoop PROVE f \in LoopOf(n + 1)'
    <3>1. f \in 1 .. n /\ Kind(f)' = "for" /\ \A j \in f .. n : Kind(j)' # "yield"
      BY <1>o, <1>1
    <3>2. f \in 1 .. n + 1 /\ \A j \in f .. n + 1 : Kind(j)' # "yield"
      BY <3>1, <2>4, <1>1
    <3>3. LoopOf(n + 1)' = {g \in 1 .. n + 1 : Kind(g)' = "for" /\ \A j \in g .. n + 1 : Kind(j)' # "yield"}
      BY DEF LoopOf
    <3> QED BY <3>1, <3>2, <3>3
  <2> QED BY <2>1, <2>2, <2>3, <2>4
<1>4. ASSUME NEW i \in Operations', NEW f \in Operations', Kind(f)' = "for", Closes(i, f)'
      PROVE  ops'[i].elem = ops'[f].elem
  <2>0. i > f /\ Kind(i)' = "yield" /\ \A j \in f .. i - 1 : Kind(j)' # "yield"
    BY <1>4 DEF Closes
  <2>1. f \in Operations
    BY <2>0, <1>1
  <2>2. CASE i \in Operations
    BY <2>1, <2>2, <1>1, <1>4 DEF OperandInv
  <2>3. CASE i = n + 1
    <3>1. PICK g \in OpenLoop : op.elem = ops[g].elem
      BY <2>3, <2>0, <1>1 DEF WellPlaced
    <3>2. f \in OpenLoop
      <4>1. \A j \in f .. n : Kind(j) # "yield"
        BY <2>0, <2>1, <2>3, <1>1
      <4> QED BY <4>1, <2>1, <1>1, <1>4, <1>o
    <3>3. f = g
      <4>1. /\ f \in 1 .. n /\ g \in 1 .. n /\ Kind(f) = "for" /\ Kind(g) = "for"
            /\ \A j \in f .. n : Kind(j) # "yield"
            /\ \A j \in g .. n : Kind(j) # "yield"
        BY <3>1, <3>2, <1>o
      <4>2. /\ f < g => \E y \in f .. g - 1 : Kind(y) = "yield"
            /\ g < f => \E y \in g .. f - 1 : Kind(y) = "yield"
        BY <4>1, <1>1 DEF KernelInv
      <4> QED BY <4>1, <4>2, <1>1
    <3> QED BY <3>1, <3>3, <2>1, <2>3, <1>1
  <2> QED BY <2>2, <2>3, <1>1
<1>5. n + 1 \in Nat /\ (n + 1) - 1 = n
  BY <1>1
<1>6. ASSUME NEW i \in Operations', NEW a \in Elements(ops'[i].args)
      PROVE  /\ a \in 1 .. i - 1 /\ Kind(a)' \in Values
             /\ IF Kind(i)' = "yield" THEN \A f \in LoopOf(a)' : Closes(i, f)'
                ELSE LoopOf(a)' \subseteq LoopOf(i)'
             /\ Kind(i)' # "bitcast" => ops'[i].elem = ops'[a].elem
  <2>1. CASE i \in Operations
    BY <2>1, <1>2, <1>6
  <2>2. CASE i = n + 1
    BY <2>2, <1>1, <1>3, <1>5, <1>6
  <2> QED BY <2>1, <2>2, <1>1
<1> QED BY <1>4, <1>6 DEF OperandInv

(* Operand lists have one element or two.                                  *)
LEMMA OneOrTwo ==
  /\ \A p : Elements(<<p>>) = {p}
  /\ \A p, q : Elements(<<p, q>>) = {p, q}
<1>1. ASSUME NEW p, NEW q PROVE Elements(<<p, q>>) = {p, q}
  <2>1. DOMAIN <<p, q>> = {1, 2} /\ <<p, q>>[1] = p /\ <<p, q>>[2] = q
    OBVIOUS
  <2> QED BY <2>1 DEF Elements
<1>2. ASSUME NEW p PROVE Elements(<<p>>) = {p}
  <2>1. DOMAIN <<p>> = {1} /\ <<p>>[1] = p
    OBVIOUS
  <2> QED BY <2>1 DEF Elements
<1> QED BY <1>1, <1>2

(* Every step keeps the operands in their places.                          *)
LEMMA OperandStep == KernelInv /\ OperandInv /\ [Next]_vars => OperandInv'
<1> SUFFICES ASSUME KernelInv, OperandInv, [Next]_vars PROVE OperandInv'
  OBVIOUS
<1>a. \A p \in Operations : ops[p] \in OperationType
  BY ElementOfSeq, LenProperties DEF KernelInv, Operations
<1>b. ASSUME NEW p \in Operations, Visible(p), NEW op, Emit(op), op.args = <<p>>,
             op.op \notin {"bitcast", "yield"} => op.elem = ops[p].elem,
             op.op = "yield" => op.elem = ops[p].elem /\ \E f \in OpenLoop : op.elem = ops[f].elem
      PROVE  OperandInv'
  <2>1. Elements(op.args) = {p}
    BY <1>b, OneOrTwo
  <2>2. WellPlaced(op)
    BY <1>b, <2>1 DEF WellPlaced, Visible
  <2> QED BY <1>b, <2>2, EmitPlaces
<1>c. ASSUME NEW p \in Operations, NEW kind
      PROVE  /\ OperationLike(kind, <<p>>, ops[p]).op = kind
             /\ OperationLike(kind, <<p>>, ops[p]).args = <<p>>
             /\ OperationLike(kind, <<p>>, ops[p]).elem = ops[p].elem
  BY DEF OperationLike, Operation
<1>1. CASE Move
  <2>1. PICK p \in Operations :
          /\ Visible(p)
          /\ LET like == OperationLike("", <<p>>, ops[p]) IN
               \/ \E w \in OffsetWidths, inIf \in {ops[p].inIf, TRUE} :
                    Emit([like EXCEPT !.op = "addptr", !.width = w, !.inIf = inIf])
               \/ Emit([like EXCEPT !.op = "splat", !.tensor = TRUE])
               \/ \E e \in ElementSizes : Emit([like EXCEPT !.op = "bitcast", !.elem = e])
    BY <1>1 DEF Move
  <2> DEFINE like == OperationLike("", <<p>>, ops[p])
  <2>2. like = [op |-> "", args |-> <<p>>, elem |-> ops[p].elem, tensor |-> ops[p].tensor,
                inIf |-> ops[p].inIf, width |-> DefaultBitWidth]
    BY DEF OperationLike, Operation
  <2> HIDE DEF like
  <2>3. CASE \E w \in OffsetWidths, inIf \in {ops[p].inIf, TRUE} :
               Emit([like EXCEPT !.op = "addptr", !.width = w, !.inIf = inIf])
    <3>1. PICK w \in OffsetWidths, inIf \in {ops[p].inIf, TRUE} :
            Emit([like EXCEPT !.op = "addptr", !.width = w, !.inIf = inIf])
      BY <2>3
    <3> DEFINE op == [like EXCEPT !.op = "addptr", !.width = w, !.inIf = inIf]
    <3>2. op.op = "addptr" /\ op.args = <<p>> /\ op.elem = ops[p].elem
      BY <2>2
    <3> HIDE DEF op
    <3> QED BY <2>1, <3>1, <3>2, <1>b DEF op
  <2>4. CASE Emit([like EXCEPT !.op = "splat", !.tensor = TRUE])
    <3> DEFINE op == [like EXCEPT !.op = "splat", !.tensor = TRUE]
    <3>2. op.op = "splat" /\ op.args = <<p>> /\ op.elem = ops[p].elem
      BY <2>2
    <3> HIDE DEF op
    <3> QED BY <2>1, <2>4, <3>2, <1>b DEF op
  <2>5. CASE \E e \in ElementSizes : Emit([like EXCEPT !.op = "bitcast", !.elem = e])
    <3>1. PICK e \in ElementSizes : Emit([like EXCEPT !.op = "bitcast", !.elem = e])
      BY <2>5
    <3> DEFINE op == [like EXCEPT !.op = "bitcast", !.elem = e]
    <3>2. op.op = "bitcast" /\ op.args = <<p>>
      BY <2>2
    <3> HIDE DEF op
    <3> QED BY <2>1, <3>1, <3>2, <1>b DEF op
  <2> QED BY <2>1, <2>3, <2>4, <2>5 DEF like
<1>2. CASE Merge
  <2>1. PICK p \in Operations, q \in Operations, kind \in Merges :
          /\ Visible(p) /\ Visible(q) /\ SameType(p, q)
          /\ Emit([OperationLike(kind, <<p, q>>, ops[p]) EXCEPT !.inIf = kind = "select" /\ @])
    BY <1>2 DEF Merge
  <2> DEFINE op == [OperationLike(kind, <<p, q>>, ops[p]) EXCEPT !.inIf = kind = "select" /\ @]
  <2>2. op.op = kind /\ op.args = <<p, q>> /\ op.elem = ops[p].elem
    BY DEF OperationLike, Operation
  <2> HIDE DEF op
  <2>3. kind # "yield" /\ Elements(op.args) = {p, q}
    BY <2>2, OneOrTwo DEF Merges
  <2>4. WellPlaced(op)
    BY <2>1, <2>2, <2>3 DEF WellPlaced, Visible, SameType
  <2> QED BY <2>1, <2>4, EmitPlaces DEF op
<1>3. CASE IntToPtr
  <2>1. PICK e \in ElementSizes : Emit(Operation("inttoptr", <<>>, e, FALSE, FALSE))
    BY <1>3 DEF IntToPtr
  <2> DEFINE op == Operation("inttoptr", <<>>, e, FALSE, FALSE)
  <2>2. op.op = "inttoptr" /\ Elements(op.args) = {}
    BY ElementsEmpty DEF Operation
  <2> HIDE DEF op
  <2>3. WellPlaced(op)
    BY <2>2 DEF WellPlaced
  <2> QED BY <2>1, <2>3, EmitPlaces DEF op
<1>4. CASE For
  <2>1. PICK p \in Operations : Visible(p) /\ Emit(OperationLike("for", <<p>>, ops[p]))
    BY <1>4 DEF For
  <2> QED BY <2>1, <1>b, <1>c
<1>5. CASE Yield
  <2>1. PICK f \in OpenLoop, p \in Operations :
          Visible(p) /\ SameType(p, f) /\ Emit(OperationLike("yield", <<p>>, ops[p]))
    BY <1>5 DEF Yield
  <2> PICK op : op = OperationLike("yield", <<p>>, ops[p])
    OBVIOUS
  <2>2. op.op = "yield" /\ op.args = <<p>> /\ op.elem = ops[p].elem
    BY <1>c
  <2>3. Emit(op) /\ op.elem = ops[f].elem
    BY <2>1, <2>2 DEF SameType
  <2> QED BY <2>1, <2>2, <2>3, <1>b
<1>6. CASE User
  <2>1. PICK p \in Operations, kind \in Users : Visible(p) /\ Emit(OperationLike(kind, <<p>>, ops[p]))
    BY <1>6 DEF User
  <2>2. kind # "yield"
    BY DEF Users, ScalarUsers
  <2> QED BY <2>1, <2>2, <1>b, <1>c
<1>7. ASSUME ops' = ops PROVE OperandInv'
  <2>1. /\ Operations' = Operations /\ \A i : Kind(i)' = Kind(i)
        /\ \A f, y : Closes(y, f)' = Closes(y, f)
    BY <1>7, SameKernel
  <2>2. \A i : LoopOf(i)' = LoopOf(i)
    BY <2>1 DEF LoopOf
  <2> QED BY <1>7, <2>1, <2>2 DEF OperandInv
<1>8. CASE Visit
  <2>1. ops' = ops
    BY <1>8 DEF Visit, VisitPtrToInt, VisitMove, VisitUntouched, VisitTtsAccess, VisitUser, VisitFor,
                VisitYield, VisitSelect, VisitIf, VisitUnexpected, Fail, Skip, Defer, TakeUse
  <2> QED BY <2>1, <1>7
<1>9. CASE Start \/ Pop \/ EndWalk \/ RewriteUser \/ Delete \/ EndRewrite \/ UNCHANGED vars
  <2>1. ops' = ops
    BY <1>9 DEF Start, Pop, EndWalk, RewriteUser, Delete, EndRewrite, vars
  <2> QED BY <2>1, <1>7
<1> QED BY <1>1, <1>2, <1>3, <1>4, <1>5, <1>6, <1>8, <1>9 DEF Next

LEMMA OperandInit == Init => OperandInv
<1> SUFFICES ASSUME Init PROVE OperandInv
  OBVIOUS
<1>1. \A i \in Operations : ops[i].args = <<>> /\ Kind(i) = "arg"
  BY DEF Init, Operations, Operation, Kind
<1>2. \A i \in Operations : Elements(ops[i].args) = {}
  BY <1>1, ElementsEmpty
<1> QED BY <1>1, <1>2 DEF OperandInv, Closes

-----------------------------------------------------------------------------
(* What offsetMap says of each value *)

(* What an scf.for is given is outside the loop. *)
LEMMA OutsideLoop ==
  ASSUME KernelInv, NEW f \in Operations, Kind(f) = "for"
  PROVE  /\ LoopOf(f) = {f}
         /\ OperandInv => \A a \in Elements(ops[f].args) : LoopOf(a) = {}
<1>a. Operations = 1 .. Len(ops) /\ Len(ops) \in Nat
  BY LenProperties DEF KernelInv, Operations
<1>1. ASSUME NEW g \in LoopOf(f), g # f PROVE FALSE
  <2>1. g \in Operations /\ g < f /\ Kind(g) = "for" /\ \A j \in g .. f : Kind(j) # "yield"
    BY <1>1, <1>a DEF LoopOf
  <2>2. PICK y \in g .. f - 1 : Kind(y) = "yield"
    BY <2>1 DEF KernelInv
  <2> QED BY <2>1, <2>2, <1>a
<1>2. f \in LoopOf(f)
  BY <1>a DEF LoopOf
<1>3. ASSUME OperandInv, NEW a \in Elements(ops[f].args), NEW g \in LoopOf(a) PROVE FALSE
  <2>1. a \in 1 .. f - 1 /\ LoopOf(a) \subseteq LoopOf(f)
    BY <1>3 DEF OperandInv
  <2>2. g \in 1 .. a
    BY <1>3 DEF LoopOf
  <2> QED BY <2>1, <2>2, <1>1, <1>a
<1> QED BY <1>1, <1>2, <1>3

(* A new entry of offsetMap leaves what the others say true.               *)
LEMMA FollowedStays ==
  ASSUME ops' = ops, retyped \subseteq retyped', DOMAIN offsetMap \subseteq DOMAIN offsetMap',
         \A v \in DOMAIN offsetMap : offsetMap'[v] = offsetMap[v],
         NEW v \in DOMAIN offsetMap, Followed(v)
  PROVE  Followed(v)'
<1>1. /\ \A i : Kind(i)' = Kind(i) /\ LoopOf(i)' = LoopOf(i) /\ YieldOf(i)' = YieldOf(i)
      /\ \A i : Tracked(i) => Tracked(i)' /\ offsetMap'[i] = offsetMap[i]
  <2>1. \A i : Kind(i)' = Kind(i) /\ YieldOf(i)' = YieldOf(i)
    BY SameKernel
  <2>2. \A i : LoopOf(i)' = LoopOf(i)
    BY <2>1 DEF LoopOf
  <2> QED BY <2>1, <2>2 DEF Tracked
<1>2. offsetMap'[v] = offsetMap[v]
  OBVIOUS
<1> QED BY <1>1, <1>2 DEF Followed, PtrOffset, MaxOf

(* What is inserted for a value that was not there is followed. *)
LEMMA MapVisit ==
  ASSUME KernelInv, WorkInv, OperandInv, MapInv, Visit PROVE MapInv'
<1>a. PICK i \in Operations, k \in {1, 2} :
        /\ Taken(i, k) /\ k \in DOMAIN ops[i].args /\ ops[i].args[k] = val /\ Tracked(val)
        /\ Stays(i) \/ Moved(i) \/ Noted(i) \/ Looped(i) \/ Selected(i)
  BY VisitOutcome
<1>b. ops' = ops /\ erased' = erased /\ phase = "walk"
  BY <1>a DEF Taken
<1>c. /\ Operations' = Operations
      /\ \A j : Kind(j)' = Kind(j) /\ LoopOf(j)' = LoopOf(j) /\ YieldOf(j)' = YieldOf(j)
  <2>1. Operations' = Operations /\ \A j : Kind(j)' = Kind(j) /\ YieldOf(j)' = YieldOf(j)
    BY <1>b, SameKernel
  <2>2. \A j : LoopOf(j)' = LoopOf(j)
    BY <2>1 DEF LoopOf
  <2> QED BY <2>1, <2>2
<1>d. val \in Elements(ops[i].args) /\ DOMAIN ops[i].args = Arity(i)
  BY <1>a DEF Elements, KernelInv
<1> PICK u, b : u = val /\ b = offsetMap[u].ptr
  OBVIOUS
<1>e. /\ u \in DOMAIN offsetMap /\ LoopOf(b) \subseteq LoopOf(u) /\ u \in Elements(ops[i].args)
      /\ Kind(i) \in Moves \cup {"for"} => u = ops[i].args[1]
  <2>1. Followed(u) /\ u \in DOMAIN offsetMap
    BY <1>a DEF MapInv, Tracked
  <2>2. Kind(i) \in Moves \cup {"for"} => k = 1
    BY <1>a, <1>d DEF Arity, Moves, Roots, Merges
  <2> QED BY <1>a, <1>d, <2>1, <2>2 DEF Followed
<1>1. ASSUME retyped \subseteq retyped', retyped' \subseteq DOMAIN offsetMap',
             DOMAIN offsetMap \subseteq DOMAIN offsetMap',
             \A v \in DOMAIN offsetMap : offsetMap'[v] = offsetMap[v],
             \A v \in DOMAIN offsetMap' \ DOMAIN offsetMap : Followed(v)'
      PROVE  MapInv'
  <2>1. \A v \in DOMAIN offsetMap : Followed(v)'
    BY <1>1, <1>b, FollowedStays DEF MapInv
  <2>2. \A j \in erased' : Kind(j)' = "load" \/ (Kind(j)' \in Moves /\ Tracked(j)')
    BY <1>1, <1>b, <1>c DEF MapInv, Tracked
  <2> QED BY <1>1, <2>1, <2>2 DEF MapInv
<1>2. CASE Stays(i) \/ Noted(i)
  <2>1. offsetMap' = offsetMap /\ retyped' = retyped
    BY <1>2 DEF Stays, Noted
  <2> QED BY <2>1, <1>1 DEF MapInv
<1>3. CASE Selected(i)
  <2>1. /\ offsetMap' = Insert(offsetMap, i, PtrOffset(i, DefaultBitWidth))
        /\ retyped' = retyped /\ Kind(i) = "select"
    BY <1>3 DEF Selected
  <2>2. /\ DOMAIN offsetMap' = DOMAIN offsetMap \cup {i}
        /\ \A v \in DOMAIN offsetMap : offsetMap'[v] = offsetMap[v]
        /\ i \notin DOMAIN offsetMap => offsetMap'[i] = PtrOffset(i, DefaultBitWidth)
    BY <2>1 DEF Insert
  <2>3. ASSUME i \notin DOMAIN offsetMap PROVE Followed(i)'
    <3>1. offsetMap'[i] = PtrOffset(i, DefaultBitWidth) /\ offsetMap'[i].ptr = i
      BY <2>2, <2>3 DEF PtrOffset
    <3> QED BY <3>1, <2>1, <1>c DEF Followed, Moves, PtrOffset
  <2> QED BY <2>1, <2>2, <2>3, <1>1 DEF MapInv
<1>4. CASE Moved(i)
  <2> PICK w : w = WidthOf(i)
    OBVIOUS
  <2>1. offsetMap' = Insert(offsetMap, i, PtrOffset(b, w)) /\ retyped' = retyped /\ Kind(i) \in Moves
    BY <1>4 DEF Moved, MovedOffset
  <2>2. /\ DOMAIN offsetMap' = DOMAIN offsetMap \cup {i}
        /\ \A v \in DOMAIN offsetMap : offsetMap'[v] = offsetMap[v]
        /\ i \notin DOMAIN offsetMap => offsetMap'[i] = PtrOffset(b, w)
    BY <2>1 DEF Insert
  <2>3. ASSUME i \notin DOMAIN offsetMap PROVE Followed(i)'
    <3>1. offsetMap'[i] = PtrOffset(b, w) /\ offsetMap'[i].ptr = b
      BY <2>2, <2>3 DEF PtrOffset
    <3>2. /\ Tracked(u)' /\ offsetMap'[u] = offsetMap[u] /\ ops'[i].args[1] = u /\ Kind(i)' \in Moves
      BY <1>b, <1>c, <1>e, <2>1, <2>2 DEF Tracked
    <3>3. Kind(i)' \notin Roots \cup {"select", "for", "yield"}
      BY <2>1, <1>c DEF Moves, Roots
    <3>4. w = IF Kind(i)' = "addptr" THEN MaxOf(offsetMap'[u].bitWidth, ops'[i].width)
              ELSE offsetMap'[u].bitWidth
      BY <3>2, <1>b, <1>c DEF WidthOf
    <3>5. LoopOf(b)' \subseteq LoopOf(i)'
      <4>1. LoopOf(u) \subseteq LoopOf(i)
        BY <1>e, <2>1 DEF OperandInv, Moves
      <4> QED BY <4>1, <1>c, <1>e
    <3>6. offsetMap'[u].ptr = b
      BY <3>2
    <3> QED BY <3>1, <3>2, <3>3, <3>4, <3>5, <3>6 DEF Followed, MaxOf
  <2> QED BY <2>1, <2>2, <2>3, <1>1 DEF MapInv
<1>5. CASE Looped(i)
  <2> PICK y, info : y = YieldOf(i) /\ info = offsetMap[u]
    OBVIOUS
  <2>1. /\ offsetMap' = Insert(Insert(offsetMap, i, info), y, info)
        /\ retyped' = retyped \cup {i, y} /\ Kind(i) = "for"
    BY <1>5 DEF Looped
  <2>2. /\ y \in Operations /\ Kind(y) = "yield"
        /\ \A g \in Operations : Kind(g) = "for" /\ YieldOf(g) = y => g = i
    BY <2>1, <1>b, LoopResult DEF Closes
  <2>3. /\ DOMAIN offsetMap' = DOMAIN offsetMap \cup {i, y}
        /\ \A v \in DOMAIN offsetMap : offsetMap'[v] = offsetMap[v]
        /\ i \notin DOMAIN offsetMap => offsetMap'[i] = info
        /\ y \notin DOMAIN offsetMap => offsetMap'[y] = info
    BY <2>1, <2>2 DEF Insert
  <2>4. i \in DOMAIN offsetMap <=> y \in DOMAIN offsetMap
    <3>1. i \in DOMAIN offsetMap => y \in DOMAIN offsetMap
      BY <2>1 DEF MapInv, Followed, Tracked
    <3>2. ASSUME y \in DOMAIN offsetMap PROVE i \in DOMAIN offsetMap
      <4>1. PICK f \in DOMAIN offsetMap : Kind(f) = "for" /\ YieldOf(f) = y
        BY <2>2, <3>2 DEF MapInv, Followed
      <4>2. f = i
        BY <4>1, <2>2 DEF WorkInv
      <4> QED BY <4>1, <4>2
    <3> QED BY <3>1, <3>2
  <2>5. LoopOf(b)' = {}
    <3>1. LoopOf(u) = {}
      BY <1>e, <2>1, OutsideLoop
    <3> QED BY <3>1, <1>c, <1>e
  <2>6. /\ Tracked(u)' /\ offsetMap'[u] = info /\ ops'[i].args[1] = u /\ info.ptr = b
        /\ Tracked(i)' /\ Tracked(y)' /\ {i, y} \subseteq retyped'
    BY <1>b, <1>e, <2>1, <2>3 DEF Tracked
  <2>7. YieldOf(i)' = y /\ Kind(i)' = "for" /\ Kind(y)' = "yield"
    BY <2>1, <2>2, <1>c
  <2>8. ASSUME i \notin DOMAIN offsetMap PROVE Followed(i)' /\ Followed(y)'
    <3>1. offsetMap'[i] = info /\ offsetMap'[y] = info
      BY <2>3, <2>4, <2>8
    <3>2. Followed(i)'
      BY <3>1, <2>5, <2>6, <2>7 DEF Followed, Roots, Moves
    <3>3. Followed(y)'
      BY <3>1, <2>5, <2>6, <2>7 DEF Followed, Roots, Moves, Tracked
    <3> QED BY <3>2, <3>3
  <2> QED BY <2>1, <2>3, <2>4, <2>8, <1>1 DEF MapInv
<1> QED BY <1>a, <1>2, <1>3, <1>4, <1>5

(* Every step keeps offsetMap true to the operations.                      *)
LEMMA MapStep == KernelInv /\ WorkInv /\ OperandInv /\ ErasedInv /\ MapInv /\ [Next]_vars => MapInv'
<1> SUFFICES ASSUME KernelInv, WorkInv, OperandInv, ErasedInv, MapInv, [Next]_vars PROVE MapInv'
  OBVIOUS
<1>1. CASE Move \/ Merge \/ IntToPtr \/ For \/ Yield \/ User
  <2>1. phase = "kernel" /\ ir' = ir
    BY <1>1 DEF Move, Merge, IntToPtr, For, Yield, User, BuildingValue, Building, Emit
  <2>2. offsetMap' = <<>> /\ retyped' = {} /\ erased' = {}
    BY <2>1 DEF ir, WorkInv, ErasedInv
  <2>3. DOMAIN offsetMap' = {}
    BY <2>2
  <2> QED BY <2>2, <2>3 DEF MapInv
<1>2. CASE Visit
  BY <1>2, MapVisit
<1>3. CASE Start
  <2>1. /\ ops' = ops /\ retyped' = {} /\ erased' = {}
        /\ offsetMap' = [i \in {i \in Operations : Kind(i) \in Roots} |-> PtrOffset(i, DefaultBitWidth)]
    BY <1>3 DEF Start, WorkInv, ErasedInv
  <2>2. ASSUME NEW v \in DOMAIN offsetMap' PROVE Followed(v)'
    <3>1. offsetMap'[v] = PtrOffset(v, DefaultBitWidth) /\ Kind(v) \in Roots
      BY <2>1
    <3>2. Kind(v)' \in Roots /\ Kind(v)' \notin Moves \cup {"for", "yield"} /\ offsetMap'[v].ptr = v
      BY <2>1, <3>1, SameKernel DEF Roots, Moves, PtrOffset
    <3> QED BY <3>1, <3>2 DEF Followed, PtrOffset
  <2> QED BY <2>1, <2>2 DEF MapInv
<1>4. ASSUME UNCHANGED <<ops, offsetMap, retyped>>,
             \A i \in erased' \ erased : Kind(i) = "load" \/ (Kind(i) \in Moves /\ Tracked(i))
      PROVE  MapInv'
  <2>1. \A v \in DOMAIN offsetMap' : Followed(v)'
    BY <1>4, FollowedStays DEF MapInv
  <2>2. \A i \in erased' : Kind(i)' = "load" \/ (Kind(i)' \in Moves /\ Tracked(i)')
    BY <1>4, SameKernel DEF MapInv, Tracked
  <2> QED BY <1>4, <2>1, <2>2 DEF MapInv
<1>5. CASE Pop \/ EndWalk \/ EndRewrite \/ UNCHANGED vars
  BY <1>5, <1>4 DEF Pop, EndWalk, EndRewrite, vars, ir
<1>6. CASE RewriteUser
  BY <1>6, <1>4 DEF RewriteUser
<1>7. CASE Delete
  <2>1. Head(toDelete) \in Elements(toDelete)
    BY <1>7, ElementsTail DEF Delete, WorkInv
  <2> QED BY <2>1, <1>7, <1>4 DEF Delete, WorkInv
<1> QED BY <1>1, <1>2, <1>3, <1>5, <1>6, <1>7 DEF Next

LEMMA MapInit == Init => MapInv
<1> SUFFICES ASSUME Init PROVE MapInv
  OBVIOUS
<1>1. offsetMap = <<>> /\ retyped = {} /\ erased = {}
  BY DEF Init
<1>2. DOMAIN offsetMap = {}
  BY <1>1
<1> QED BY <1>1, <1>2 DEF MapInv

-----------------------------------------------------------------------------
(* The offset type *)

(* The recursion has a solution, and it is positive.                       *)
LEMMA PowerPositive == \A n \in Nat : Power(n) \in Nat \ {0}
<1> SUFFICES ASSUME NEW n \in Nat PROVE Power(n) \in Nat \ {0}
  OBVIOUS
<1> DEFINE Is(g) == g = [i \in 0 .. n |-> IF i = 0 THEN 1 ELSE 2 * g[i - 1]]
           Upto(g, m) == /\ g \in [0 .. n -> Int]
                         /\ \A i \in 0 .. n : i <= m => g[i] = IF i = 0 THEN 1 ELSE 2 * g[i - 1]
           S == {m \in Nat : \E g : Upto(g, m)}
<1>1. 0 \in S
  <2> DEFINE g == [i \in 0 .. n |-> 1]
  <2>1. Upto(g, 0)
    OBVIOUS
  <2> HIDE DEF g, Upto
  <2> QED BY <2>1
<1>2. ASSUME NEW m \in Nat, m \in S PROVE m + 1 \in S
  <2>1. PICK g \in [0 .. n -> Int] : \A i \in 0 .. n : i <= m => g[i] = IF i = 0 THEN 1 ELSE 2 * g[i - 1]
    BY <1>2
  <2> DEFINE h == [i \in 0 .. n |-> IF i = m + 1 THEN 2 * g[m] ELSE g[i]]
  <2>2. h \in [0 .. n -> Int]
    <3>1. ASSUME NEW i \in 0 .. n PROVE h[i] \in Int
      <4>1. i = m + 1 => m \in 0 .. n
        OBVIOUS
      <4> QED BY <4>1
    <3> QED BY <3>1
  <2>3. ASSUME NEW i \in 0 .. n, i <= m + 1 PROVE h[i] = IF i = 0 THEN 1 ELSE 2 * h[i - 1]
    <3>1. CASE i <= m
      <4>1. h[i] = g[i] /\ (i # 0 => i - 1 \in 0 .. n /\ h[i - 1] = g[i - 1])
        BY <3>1
      <4> QED BY <3>1, <4>1, <2>1
    <3>2. CASE i = m + 1
      <4>1. i # 0 /\ i - 1 = m /\ m \in 0 .. n /\ m # m + 1
        BY <3>2
      <4>2. h[m] = g[m]
        BY <4>1
      <4>3. h[i] = 2 * g[m]
        BY <3>2
      <4> HIDE DEF h
      <4>4. h[i - 1] = g[m] /\ ~(i = 0)
        BY <4>1, <4>2, Zenon
      <4> QED BY <4>3, <4>4, Zenon
    <3> QED BY <3>1, <3>2, <2>3
  <2>4. Upto(h, m + 1)
    <3> HIDE DEF h
    <3> QED BY <2>2, <2>3
  <2> HIDE DEF h, Upto
  <2> QED BY <2>4
<1>3. \E g : Is(g)
  <2>1. n \in S
    <3> HIDE DEF S
    <3> QED BY <1>1, <1>2, SetInduction
  <2>2. PICK g \in [0 .. n -> Int] : \A i \in 0 .. n : i <= n => g[i] = IF i = 0 THEN 1 ELSE 2 * g[i - 1]
    BY <2>1
  <2>3. g = [i \in 0 .. n |-> g[i]]
    OBVIOUS
  <2>4. \A i \in 0 .. n : g[i] = IF i = 0 THEN 1 ELSE 2 * g[i - 1]
    BY <2>2
  <2>5. Is(g)
    BY <2>3, <2>4
  <2> HIDE DEF Is
  <2> QED BY <2>5
<1> DEFINE p == CHOOSE g : Is(g)
<1>4. Is(p)
  <2> HIDE DEF Is
  <2> QED BY <1>3
<1>5. Power(n) = p[n]
  BY DEF Power
<1> HIDE DEF p
<1>6. \A i \in 0 .. n : p[i] = IF i = 0 THEN 1 ELSE 2 * p[i - 1]
  BY <1>4, Zenon
<1> HIDE DEF Is
<1> DEFINE T == {m \in Nat : m <= n => p[m] \in Nat \ {0}}
<1>7. 0 \in T
  BY <1>6
<1>8. ASSUME NEW m \in Nat, m \in T PROVE m + 1 \in T
  <2> SUFFICES ASSUME m + 1 <= n PROVE p[m + 1] \in Nat \ {0}
    OBVIOUS
  <2>1. m + 1 \in 0 .. n /\ m + 1 # 0 /\ (m + 1) - 1 = m /\ p[m] \in Nat \ {0}
    BY <1>8
  <2>2. p[m + 1] = 2 * p[m]
    BY <2>1, <1>6
  <2> QED BY <2>1, <2>2
<1>9. n \in T
  <2> HIDE DEF T
  <2> QED BY <1>7, <1>8, SetInduction
<1> QED BY <1>5, <1>9

(* Sign extension changes nothing that is in range. *)
LEMMA WrapInRange ==
  ASSUME NEW w \in Nat \ {0}
  PROVE  /\ \A n \in Int : Wrap(w, n) \in Int
         /\ \A n \in SignedRange(w) : n \in Int /\ Wrap(w, n) = n
         /\ 0 \in SignedRange(w)
<1> DEFINE h == Power(w - 1)
<1>1. h \in Nat \ {0}
  BY PowerPositive
<1> HIDE DEF h
<1>2. \A n \in Int : Wrap(w, n) = ((n + h) % (2 * h)) - h
  BY DEF Wrap, h
<1>3. SignedRange(w) = -h .. h - 1
  BY DEF SignedRange, h
<1>4. ASSUME NEW n \in Int PROVE ((n + h) % (2 * h)) - h \in Int
  <2>1. 2 * h \in Nat \ {0} /\ n + h \in Int
    BY <1>1
  <2>2. (n + h) % (2 * h) \in Int
    BY <2>1
  <2> QED BY <1>1, <2>2
<1>5. ASSUME NEW n \in -h .. h - 1 PROVE ((n + h) % (2 * h)) - h = n
  <2> DEFINE m == n + h  d == 2 * h
  <2>1. m \in 0 .. d - 1 /\ d \in Nat \ {0}
    BY <1>1, <1>5
  <2> HIDE DEF m, d
  <2>2. \A x \in Nat, y \in Nat \ {0} : x < y => x % y = x
    OBVIOUS
  <2>3. m \in Nat /\ m < d
    BY <2>1
  <2>4. m % d = m
    BY <2>1, <2>2, <2>3
  <2> USE DEF m, d
  <2> QED BY <1>1, <2>4
<1>6. ASSUME NEW n \in SignedRange(w) PROVE n \in Int /\ Wrap(w, n) = n
  <2>1. n \in -h .. h - 1
    BY <1>3, <1>6
  <2>2. n \in Int
    BY <1>1, <2>1
  <2>3. ((n + h) % (2 * h)) - h = n
    BY <1>5, <2>1
  <2> QED BY <1>2, <2>2, <2>3
<1>7. 0 \in SignedRange(w)
  BY <1>1, <1>3
<1> QED BY <1>2, <1>4, <1>6, <1>7

-----------------------------------------------------------------------------
(* The order in which values get their meaning *)

(* A complete kernel, as the pass has it. *)
Complete == KernelInv /\ WorkInv /\ OperandInv /\ MapInv /\ phase # "kernel"

(* The one operand of an operation, or the one the condition takes. *)
LEMMA FirstOperand ==
  ASSUME KernelInv, OperandInv, NEW i \in Operations, Kind(i) \notin Roots,
         NEW j, j = 1 \/ (j = 2 /\ Kind(i) \in Merges)
  PROVE  /\ ops[i].args[j] \in Elements(ops[i].args)
         /\ ops[i].args[j] \in Operations /\ ops[i].args[j] < i /\ Kind(ops[i].args[j]) \in Values
<1>1. j \in DOMAIN ops[i].args
  BY DEF KernelInv, Arity
<1>2. ops[i].args[j] \in Elements(ops[i].args)
  BY <1>1 DEF Elements
<1>3. ops[i].args[j] \in 1 .. i - 1 /\ Kind(ops[i].args[j]) \in Values
  BY <1>2 DEF OperandInv
<1>4. Operations = 1 .. Len(ops) /\ Len(ops) \in Nat
  BY LenProperties DEF KernelInv, Operations
<1> QED BY <1>2, <1>3, <1>4

(* A value is in one loop at most, and its result is outside.              *)
LEMMA OneLoop ==
  ASSUME KernelInv, NEW v \in Operations
  PROVE  /\ \A f \in LoopOf(v) : f \in Operations /\ f <= v /\ Kind(f) = "for" /\ LoopOf(v) = {f}
         /\ Kind(v) = "yield" => LoopOf(v) = {}
         /\ \A f, g \in Operations :
              Kind(f) = "for" /\ Kind(g) = "for" /\ Closes(v, f) /\ Closes(v, g) => f = g
<1>a. Operations = 1 .. Len(ops) /\ Len(ops) \in Nat
  BY LenProperties DEF KernelInv, Operations
<1>1. ASSUME NEW f \in Operations, NEW g \in Operations, Kind(f) = "for", Kind(g) = "for", f < g
      PROVE  \E y \in f .. g - 1 : Kind(y) = "yield"
  BY <1>1 DEF KernelInv
<1>2. ASSUME NEW f \in LoopOf(v)
      PROVE  f \in Operations /\ f <= v /\ Kind(f) = "for" /\ \A j \in f .. v : Kind(j) # "yield"
  BY <1>a DEF LoopOf
<1>3. ASSUME NEW f \in LoopOf(v), NEW g \in LoopOf(v) PROVE f = g
  <2>1. ~(f < g) /\ ~(g < f)
    BY <1>1, <1>2, <1>a
  <2> QED BY <1>2, <2>1, <1>a
<1>4. ASSUME NEW f \in Operations, NEW g \in Operations, Kind(f) = "for", Kind(g) = "for",
             Closes(v, f), Closes(v, g)
      PROVE  f = g
  <2>1. ~(f < g) /\ ~(g < f)
    BY <1>1, <1>4, <1>a DEF Closes
  <2> QED BY <2>1, <1>a
<1>5. ASSUME Kind(v) = "yield", NEW f \in LoopOf(v) PROVE FALSE
  BY <1>2, <1>5, <1>a
<1> QED BY <1>2, <1>3, <1>4, <1>5

(* A point comes after those of the operations before its loop, and in a   *)
(* loop after those of the iterations before its own.                      *)
Anchor(v) == IF LoopOf(v) = {} THEN v ELSE CHOOSE f \in Operations : LoopOf(v) = {f}

Place(v, k) == IF LoopOf(v) = {} THEN 0 ELSE k * (Len(ops) + 1) + v

Span == Trip * (Len(ops) + 1)

Rank(v, k) == Anchor(v) * Span + Place(v, k)

(* Of two products with the same factor, the one that starts earlier ends  *)
(* earlier.                                                                *)
LEMMA Products == \A a, b, w \in Nat : a < b => a * w + w <= b * w
<1> SUFFICES ASSUME NEW a \in Nat, NEW b \in Nat, NEW w \in Nat, a < b PROVE a * w + w <= b * w
  OBVIOUS
<1>1. PICK d \in Nat : b = a + 1 + d
  <2>1. b - a - 1 \in Nat /\ b = a + 1 + (b - a - 1)
    OBVIOUS
  <2> QED BY <2>1
<1>2. b * w = a * w + w + d * w
  BY <1>1
<1>3. d * w \in Nat
  OBVIOUS
<1> QED BY <1>2, <1>3

(* Ranks are numbers below a bound, and grow along a loop.                 *)
LEMMA RankOrder ==
  ASSUME KernelInv, NEW v \in Operations, NEW k \in 0 .. Trip - 1
  PROVE  /\ Anchor(v) \in Operations /\ Rank(v, k) \in Nat /\ Rank(v, k) < (Len(ops) + 1) * Span
         /\ \A u \in Operations, j \in 0 .. Trip - 1 :
              Anchor(u) < Anchor(v) \/ (Anchor(u) = Anchor(v) /\ Place(u, j) < Place(v, k))
                => Rank(u, j) < Rank(v, k)
<1>a. Operations = 1 .. Len(ops) /\ Len(ops) \in Nat
  BY LenProperties DEF KernelInv, Operations
<1> PICK n \in Nat : n = Len(ops)
  BY <1>a
<1>b. Span = Trip * (n + 1) /\ Span \in Nat /\ Trip \in Nat \ {0}
  BY KernelAssumption DEF Span
<1>1. ASSUME NEW u \in Operations, NEW j \in 0 .. Trip - 1
      PROVE  Anchor(u) \in Operations /\ Place(u, j) \in Nat /\ Place(u, j) < Span
  <2>1. CASE LoopOf(u) = {}
    <3>1. 0 * (n + 1) + (n + 1) <= Trip * (n + 1) /\ 0 * (n + 1) = 0
      BY <1>b, Products
    <3>2. Span > 0
      BY <3>1, <1>b
    <3>3. Anchor(u) = u /\ Place(u, j) = 0
      BY <2>1 DEF Anchor, Place
    <3> QED BY <3>2, <3>3, <1>b
  <2>2. CASE LoopOf(u) # {}
    <3>1. \E f \in Operations : LoopOf(u) = {f}
      BY <2>2, OneLoop
    <3>2. Anchor(u) \in Operations
      BY <2>2, <3>1 DEF Anchor
    <3>3. j * (n + 1) + (n + 1) <= Trip * (n + 1)
      BY <1>b, Products
    <3>4. j * (n + 1) \in Nat /\ u \in 1 .. n
      BY <1>a, <1>b
    <3>5. Place(u, j) = j * (n + 1) + u
      BY <2>2 DEF Place
    <3> DEFINE x == j * (n + 1)
    <3>6. x \in Nat /\ x + (n + 1) <= Span /\ Place(u, j) = x + u
      BY <3>3, <3>4, <3>5, <1>b
    <3> HIDE DEF x
    <3>7. Place(u, j) \in Nat /\ Place(u, j) < Span
      BY <3>4, <3>6, <1>b
    <3> QED BY <3>2, <3>7
  <2> QED BY <2>1, <2>2
<1>2. Anchor(v) \in Operations /\ Place(v, k) \in Nat /\ Place(v, k) < Span
  BY <1>1
<1>3. Anchor(v) * Span \in Nat /\ Anchor(v) \in Nat /\ Anchor(v) < n + 1
  BY <1>2, <1>a, <1>b
<1>4. Anchor(v) * Span + Span <= (n + 1) * Span
  <2>1. Anchor(v) \in Nat /\ n + 1 \in Nat /\ Span \in Nat /\ Anchor(v) < n + 1
    BY <1>3, <1>b
  <2> QED BY <2>1, Products, Zenon
<1>5. (n + 1) * Span \in Nat
  BY <1>b
<1>6. Rank(v, k) = Anchor(v) * Span + Place(v, k)
  BY DEF Rank
<1>7. ASSUME NEW u \in Operations, NEW j \in 0 .. Trip - 1,
             Anchor(u) < Anchor(v) \/ (Anchor(u) = Anchor(v) /\ Place(u, j) < Place(v, k))
      PROVE  Rank(u, j) < Rank(v, k)
  <2>1. Anchor(u) \in Nat /\ Place(u, j) \in Nat /\ Place(u, j) < Span
    BY <1>1, <1>a
  <2>2. Rank(u, j) = Anchor(u) * Span + Place(u, j) /\ Anchor(u) * Span \in Nat
    BY <2>1, <1>b DEF Rank
  <2>3. CASE Anchor(u) < Anchor(v)
    <3>1. Anchor(u) * Span + Span <= Anchor(v) * Span
      BY <2>1, <2>3, <1>3, <1>b, Products
    <3> DEFINE x == Anchor(u) * Span  y == Anchor(v) * Span
    <3>2. x \in Nat /\ y \in Nat /\ x + Span <= y /\ Rank(u, j) = x + Place(u, j) /\ Rank(v, k) = y + Place(v, k)
      BY <3>1, <2>2, <1>3, <1>6
    <3> HIDE DEF x, y
    <3> QED BY <3>2, <2>1, <1>2, <1>b
  <2>4. CASE Anchor(u) = Anchor(v) /\ Place(u, j) < Place(v, k)
    <3> DEFINE x == Anchor(v) * Span
    <3>1. x \in Nat /\ Rank(u, j) = x + Place(u, j) /\ Rank(v, k) = x + Place(v, k)
      BY <2>2, <2>4, <1>3, <1>6
    <3> HIDE DEF x
    <3> QED BY <3>1, <2>1, <2>4, <1>2
  <2> QED BY <2>3, <2>4, <1>7
<1>8. Rank(v, k) \in Nat /\ Rank(v, k) < (n + 1) * Span
  <2> DEFINE x == Anchor(v) * Span  z == (n + 1) * Span
  <2>1. x \in Nat /\ z \in Nat /\ x + Span <= z /\ Rank(v, k) = x + Place(v, k)
    BY <1>3, <1>4, <1>5, <1>6
  <2> HIDE DEF x
  <2>2. Rank(v, k) \in Nat /\ Rank(v, k) < z
    <3> HIDE DEF z
    <3> QED BY <2>1, <1>2, <1>b
  <2> QED BY <2>2
<1> QED BY <1>2, <1>7, <1>8

(* What a point takes its meaning from comes before it. *)
LEMMA FromBefore ==
  ASSUME Complete, NEW v \in Operations, Kind(v) \notin Roots, NEW k \in 0 .. Trip - 1, NEW c \in BOOLEAN
  PROVE  \E u \in Operations, j \in 0 .. Trip - 1 :
           From(v, k, c) = <<u, j, c>> /\ Kind(u) \in Values /\ Rank(u, j) < Rank(v, k)
<1>a. Operations = 1 .. Len(ops) /\ Len(ops) \in Nat /\ Trip \in Nat \ {0}
  BY KernelAssumption, LenProperties DEF Complete, KernelInv, Operations
<1> PICK n \in Nat : n = Len(ops)
  BY <1>a
<1>b. \A u \in Operations, f \in Operations : LoopOf(u) = {f} => Anchor(u) = f
  BY DEF Anchor
<1>c. \A u \in Operations : LoopOf(u) = {} => Anchor(u) = u
  BY DEF Anchor
<1>d. KernelInv /\ OperandInv
  BY DEF Complete
<1>e. \A u \in Operations, j \in 0 .. Trip - 1 :
        Anchor(u) < Anchor(v) \/ (Anchor(u) = Anchor(v) /\ Place(u, j) < Place(v, k))
          => Rank(u, j) < Rank(v, k)
  BY <1>d, RankOrder
<1>1. CASE Kind(v) = "for" /\ k > 0
  <2> PICK y : y = YieldOf(v)
    OBVIOUS
  <2>1. y \in Operations /\ Closes(y, v) /\ Kind(y) = "yield"
    BY <1>1, LoopResult DEF Complete, Closes
  <2> PICK u : u = ops[y].args[1]
    OBVIOUS
  <2>2. u \in Elements(ops[y].args) /\ u \in Operations /\ u < y /\ Kind(u) \in Values
    BY <2>1, <1>d, FirstOperand DEF Roots
  <2>3. From(v, k, c) = <<u, k - 1, c>> /\ k - 1 \in 0 .. Trip - 1
    BY <1>1, <1>a DEF From
  <2>4. LoopOf(v) = {v} /\ Anchor(v) = v /\ Place(v, k) = k * (n + 1) + v
    BY <1>1, <1>b, <1>d, OutsideLoop DEF Place
  <2>5. CASE LoopOf(u) = {}
    <3>1. u < v
      <4>1. SUFFICES ASSUME v <= u PROVE FALSE
        BY <1>a, <2>2
      <4>2. v \in LoopOf(u)
        BY <4>1, <2>1, <2>2, <1>1, <1>a DEF LoopOf, Closes
      <4> QED BY <4>2, <2>5
    <3>2. Anchor(u) < Anchor(v)
      BY <3>1, <2>2, <2>4, <2>5, <1>c
    <3>3. Rank(u, k - 1) < Rank(v, k)
      BY <3>2, <2>2, <2>3, <1>e
    <3> QED BY <3>3, <2>2, <2>3
  <2>6. CASE LoopOf(u) # {}
    <3>1. PICK f \in Operations : Kind(f) = "for" /\ LoopOf(u) = {f}
      BY <2>2, <2>6, <1>d, OneLoop
    <3>2. Closes(y, f)
      BY <3>1, <2>1, <2>2, <1>d DEF OperandInv
    <3>3. f = v
      BY <3>1, <3>2, <2>1, <1>1, <1>d, OneLoop
    <3>4. Place(u, k - 1) = (k - 1) * (n + 1) + u
      BY <3>1 DEF Place
    <3>5. (k - 1) * (n + 1) + (n + 1) <= k * (n + 1)
      BY <1>1, <2>3, <1>a, Products
    <3>6. (k - 1) * (n + 1) \in Nat /\ k * (n + 1) \in Nat /\ u \in 1 .. n /\ v \in Nat
      BY <2>2, <2>3, <1>1, <1>a
    <3>7. Place(u, k - 1) < Place(v, k)
      BY <3>4, <3>5, <3>6, <2>4
    <3>8. Anchor(u) = Anchor(v)
      BY <3>1, <3>3, <2>2, <2>4, <1>b
    <3>9. Rank(u, k - 1) < Rank(v, k)
      BY <3>7, <3>8, <2>2, <2>3, <1>e
    <3> QED BY <3>9, <2>2, <2>3
  <2> QED BY <2>5, <2>6
<1>2. CASE ~(Kind(v) = "for" /\ k > 0)
  <2> PICK s : s = IF Kind(v) \in Merges /\ ~c THEN 2 ELSE 1
    OBVIOUS
  <2> PICK u, j : u = ops[v].args[s] /\ j = IF Kind(v) = "yield" THEN Trip - 1 ELSE k
    OBVIOUS
  <2>1. From(v, k, c) = <<u, j, c>> /\ j \in 0 .. Trip - 1
    <3>1. From(v, k, c) = <<ops[v].args[IF Kind(v) \in Merges /\ ~c THEN 2 ELSE 1],
                            IF Kind(v) = "yield" THEN Trip - 1 ELSE k, c>>
      BY <1>2, Zenon DEF From
    <3>2. j \in 0 .. Trip - 1
      BY <1>a
    <3> QED BY <3>1, <3>2, Zenon
  <2>2. u \in Elements(ops[v].args) /\ u \in Operations /\ u < v /\ Kind(u) \in Values
    BY <1>d, FirstOperand
  <2>3. CASE LoopOf(v) = {}
    <3>1. Anchor(v) = v
      BY <2>3, <1>c
    <3>2. CASE LoopOf(u) = {}
      <4>1. Anchor(u) < Anchor(v)
        BY <3>1, <3>2, <2>2, <1>c
      <4> QED BY <4>1, <2>1, <2>2, <1>e
    <3>3. CASE LoopOf(u) # {}
      <4>1. PICK f \in Operations : LoopOf(u) = {f} /\ f <= u
        BY <2>2, <3>3, <1>d, OneLoop
      <4>2. Anchor(u) = f /\ f < v
        BY <4>1, <2>2, <1>a, <1>b
      <4> QED BY <4>2, <3>1, <2>1, <2>2, <1>e
    <3> QED BY <3>2, <3>3
  <2>4. CASE LoopOf(v) # {}
    <3>1. PICK f \in Operations : LoopOf(v) = {f} /\ f <= v /\ Kind(v) # "yield"
      BY <2>4, <1>d, OneLoop
    <3>2. LoopOf(u) \subseteq {f} /\ j = k /\ Anchor(v) = f
      BY <3>1, <2>2, <1>b, <1>d DEF OperandInv
    <3>3. CASE LoopOf(u) = {f}
      <4>1. Place(u, k) = k * (n + 1) + u /\ Place(v, k) = k * (n + 1) + v
        BY <3>1, <3>3 DEF Place
      <4>2. k * (n + 1) \in Nat /\ u \in Nat /\ v \in Nat
        BY <2>2, <1>a
      <4>3. Place(u, k) < Place(v, k)
        BY <4>1, <4>2, <2>2
      <4> QED BY <4>3, <3>2, <3>3, <2>1, <2>2, <1>b, <1>e
    <3>4. CASE LoopOf(u) = {}
      <4>1. u < f
        <5>1. SUFFICES ASSUME f <= u PROVE FALSE
          BY <1>a, <2>2
        <5>2. f \in LoopOf(v)
          BY <3>1
        <5>3. f \in 1 .. u /\ Kind(f) = "for" /\ \A i \in f .. u : Kind(i) # "yield"
          BY <5>1, <5>2, <2>2, <1>a DEF LoopOf
        <5> QED BY <5>3, <3>4 DEF LoopOf
      <4> QED BY <4>1, <3>2, <3>4, <2>1, <2>2, <1>c, <1>e
    <3> QED BY <3>2, <3>3, <3>4
  <2> QED BY <2>3, <2>4
<1> QED BY <1>1, <1>2

-----------------------------------------------------------------------------
(* The meaning of a kernel exists *)

(* Whatever is inherited from the point a value takes its meaning from is  *)
(* true of them all.                                                       *)
LEMMA PointInduction ==
  ASSUME Complete, NEW S,
         ASSUME NEW v \in Operations, NEW k \in 0 .. Trip - 1, NEW c \in BOOLEAN,
                Kind(v) \in Roots \/ From(v, k, c) \in S
         PROVE  <<v, k, c>> \in S
  PROVE  \A v \in Operations, k \in 0 .. Trip - 1, c \in BOOLEAN : <<v, k, c>> \in S
<1> DEFINE T == {n \in Nat : \A v \in Operations, k \in 0 .. Trip - 1, c \in BOOLEAN :
                               Rank(v, k) < n => <<v, k, c>> \in S}
<1>a. \A v \in Operations, k \in 0 .. Trip - 1 : Rank(v, k) \in Nat
  BY RankOrder DEF Complete
<1>1. 0 \in T
  BY <1>a
<1>2. ASSUME NEW n \in Nat, n \in T PROVE n + 1 \in T
  <2> SUFFICES ASSUME NEW v \in Operations, NEW k \in 0 .. Trip - 1, NEW c \in BOOLEAN,
                      Rank(v, k) < n + 1
               PROVE  <<v, k, c>> \in S
    OBVIOUS
  <2>1. Kind(v) \in Roots \/ From(v, k, c) \in S
    <3> SUFFICES ASSUME Kind(v) \notin Roots PROVE From(v, k, c) \in S
      OBVIOUS
    <3>1. PICK u \in Operations, j \in 0 .. Trip - 1 : From(v, k, c) = <<u, j, c>> /\ Rank(u, j) < Rank(v, k)
      BY FromBefore
    <3>2. Rank(u, j) < n
      BY <3>1, <1>a
    <3> QED BY <3>1, <3>2, <1>2
  <2> QED BY <2>1
<1>3. Nat \subseteq T
  <2> HIDE DEF T
  <2> QED BY <1>1, <1>2, SetInduction
<1> TAKE v \in Operations, k \in 0 .. Trip - 1, c \in BOOLEAN
<1>4. Rank(v, k) + 1 \in T /\ Rank(v, k) < Rank(v, k) + 1
  BY <1>3, <1>a
<1> QED BY <1>4

(* The recursion has a solution, so that Meaning is one. *)
LEMMA MeaningDef ==
  ASSUME Complete
  PROVE  \A v \in Operations, k \in 0 .. Trip - 1, c \in BOOLEAN :
           Meaning[<<v, k, c>>] = IF Kind(v) \in Roots THEN PointerTo(v, 0)
                                  ELSE Made(v, k, Meaning[From(v, k, c)])
<1> DEFINE Step(g, v, k, c) == IF Kind(v) \in Roots THEN PointerTo(v, 0) ELSE Made(v, k, g[From(v, k, c)])
           Is(g) == g = [p \in Points |-> IF Kind(p[1]) \in Roots THEN PointerTo(p[1], 0)
                                          ELSE Made(p[1], p[2], g[From(p[1], p[2], p[3])])]
           Upto(g, n) == \A v \in Operations, k \in 0 .. Trip - 1, c \in BOOLEAN :
                           Rank(v, k) < n => g[<<v, k, c>>] = Step(g, v, k, c)
           T == {n \in Nat : \E g : Upto(g, n)}
<1>a. \A v \in Operations, k \in 0 .. Trip - 1 :
        Rank(v, k) \in Nat /\ Rank(v, k) < (Len(ops) + 1) * Span
  BY RankOrder DEF Complete
<1>b. \A v \in Operations, k \in 0 .. Trip - 1, c \in BOOLEAN :
        <<v, k, c>> \in Points /\ <<v, k, c>>[1] = v /\ <<v, k, c>>[2] = k /\ <<v, k, c>>[3] = c
  BY DEF Points
<1>1. 0 \in T
  <2>1. Upto(<<>>, 0)
    BY <1>a
  <2> HIDE DEF Upto
  <2> QED BY <2>1
<1>2. ASSUME NEW n \in Nat, n \in T PROVE n + 1 \in T
  <2>1. PICK g : Upto(g, n)
    BY <1>2
  <2> DEFINE h == [p \in Points |-> IF Rank(p[1], p[2]) < n THEN g[p] ELSE Step(g, p[1], p[2], p[3])]
  <2>2. \A v \in Operations, k \in 0 .. Trip - 1, c \in BOOLEAN :
          h[<<v, k, c>>] = IF Rank(v, k) < n THEN g[<<v, k, c>>] ELSE Step(g, v, k, c)
    <3> HIDE DEF Step
    <3> QED BY <1>b
  <2> HIDE DEF h
  <2>3. ASSUME NEW v \in Operations, NEW k \in 0 .. Trip - 1, NEW c \in BOOLEAN, Rank(v, k) < n + 1
        PROVE  h[<<v, k, c>>] = Step(h, v, k, c)
    <3>1. h[<<v, k, c>>] = Step(g, v, k, c)
      BY <2>1, <2>2, Zenon
    <3>2. Kind(v) \notin Roots => h[From(v, k, c)] = g[From(v, k, c)]
      <4> SUFFICES ASSUME Kind(v) \notin Roots PROVE h[From(v, k, c)] = g[From(v, k, c)]
        OBVIOUS
      <4>1. PICK u \in Operations, j \in 0 .. Trip - 1 :
              From(v, k, c) = <<u, j, c>> /\ Rank(u, j) < Rank(v, k)
        BY FromBefore
      <4>2. Rank(u, j) < n
        BY <4>1, <2>3, <1>a
      <4> QED BY <4>1, <4>2, <2>2
    <3> QED BY <3>1, <3>2, Zenon
  <2>4. Upto(h, n + 1)
    BY <2>3
  <2> HIDE DEF Upto
  <2> QED BY <2>4
<1>3. \E g : Is(g)
  <2>1. (Len(ops) + 1) * Span \in Nat
    <3>1. Len(ops) \in Nat /\ Trip \in Nat
      BY KernelAssumption, LenProperties DEF Complete, KernelInv
    <3> QED BY <3>1 DEF Span
  <2>2. (Len(ops) + 1) * Span \in T
    <3> HIDE DEF T
    <3> QED BY <2>1, <1>1, <1>2, SetInduction
  <2>3. PICK g : Upto(g, (Len(ops) + 1) * Span)
    BY <2>2
  <2> DEFINE h == [p \in Points |-> Step(g, p[1], p[2], p[3])]
  <2>4. \A v \in Operations, k \in 0 .. Trip - 1, c \in BOOLEAN : h[<<v, k, c>>] = g[<<v, k, c>>]
    <3> TAKE v \in Operations, k \in 0 .. Trip - 1, c \in BOOLEAN
    <3>1. g[<<v, k, c>>] = Step(g, v, k, c)
      BY <2>3, <1>a
    <3>2. h[<<v, k, c>>] = Step(g, v, k, c)
      <4> HIDE DEF Step
      <4> QED BY <1>b
    <3> QED BY <3>1, <3>2
  <2> HIDE DEF h
  <2>5. ASSUME NEW p \in Points PROVE Step(g, p[1], p[2], p[3]) = Step(h, p[1], p[2], p[3])
    <3>1. p[1] \in Operations /\ p[2] \in 0 .. Trip - 1 /\ p[3] \in BOOLEAN
      BY DEF Points
    <3>2. Kind(p[1]) \notin Roots => h[From(p[1], p[2], p[3])] = g[From(p[1], p[2], p[3])]
      BY <3>1, <2>4, FromBefore
    <3> QED BY <3>2
  <2>6. h = [p \in Points |-> Step(h, p[1], p[2], p[3])]
    <3>1. h = [p \in Points |-> Step(g, p[1], p[2], p[3])]
      BY DEF h
    <3> HIDE DEF Step
    <3> QED BY <3>1, <2>5
  <2>7. Is(h)
    BY <2>6
  <2> HIDE DEF Is
  <2> QED BY <2>7
<1>4. Is(Meaning)
  <2>1. Meaning = CHOOSE g : Is(g)
    BY DEF Meaning
  <2> HIDE DEF Is
  <2> QED BY <2>1, <1>3
<1> TAKE v \in Operations, k \in 0 .. Trip - 1, c \in BOOLEAN
<1>5. \A p \in Points : Meaning[p] = IF Kind(p[1]) \in Roots THEN PointerTo(p[1], 0)
                                     ELSE Made(p[1], p[2], Meaning[From(p[1], p[2], p[3])])
  BY <1>4, Zenon
<1> QED BY <1>5, <1>b

-----------------------------------------------------------------------------
(* Pointers and what the operations make of them *)

LEMMA PtrOffsetFields ==
  \A r, ptr, w : r = PtrOffset(ptr, w) => r.ptr = ptr /\ r.bitWidth = w
  BY DEF PtrOffset

PointerType == [root : Operations, byte : Int, off : Int, width : Nat \ {0}, clean : BOOLEAN]

(* What the invariants say of one operation.                               *)
LEMMA OperationFacts ==
  ASSUME Complete, NEW i \in Operations
  PROVE  /\ ops[i].elem \in Nat /\ ops[i].width \in Nat \ {0} /\ Kind(i) \in Values \cup Users
         /\ Tracked(i) => /\ offsetMap[i].bitWidth \in Nat \ {0} /\ Tracked(offsetMap[i].ptr)
                          /\ offsetMap[i].ptr \in Operations /\ Followed(i) /\ Kind(i) # "if"
<1>1. ops[i] \in OperationType
  BY ElementOfSeq, LenProperties DEF Complete, KernelInv, Operations
<1>2. ops[i].elem \in Nat /\ ops[i].width \in Nat \ {0} /\ Kind(i) \in Values \cup Users
  BY <1>1, WidthsAssumption DEF OperationType, Kind
<1>3. ASSUME Tracked(i)
      PROVE  /\ offsetMap[i].bitWidth \in Nat \ {0} /\ Tracked(offsetMap[i].ptr)
             /\ offsetMap[i].ptr \in Operations /\ Followed(i) /\ Kind(i) # "if"
  <2>1. i \in DOMAIN offsetMap
    BY <1>3 DEF Tracked
  <2>2. /\ Tracked(offsetMap[i].ptr) /\ offsetMap[i].bitWidth \in OffsetWidths \cup {DefaultBitWidth}
        /\ DOMAIN offsetMap \subseteq {j \in Operations : Kind(j) \in Values \ {"if"}}
    BY <2>1 DEF Complete, WorkInv
  <2>3. Followed(i)
    BY <2>1 DEF Complete, MapInv
  <2> QED BY <2>1, <2>2, <2>3, WidthsAssumption DEF Tracked
<1> QED BY <1>2, <1>3

LEMMA PointerToType ==
  \A v \in Operations, b \in Int :
    /\ PointerTo(v, b) \in PointerType
    /\ PointerTo(v, b).off = 0 /\ PointerTo(v, b).width = DefaultBitWidth
  BY WidthsAssumption DEF PointerTo, PointerType

(* The fields of a pointer moved by a tt.addptr. *)
LEMMA AddedFields ==
  ASSUME Complete, NEW i \in Operations, NEW p \in PointerType
  PROVE  /\ Added(i, p) \in PointerType
         /\ Added(i, p).root = p.root /\ Added(i, p).byte = p.byte + Offset * ops[i].elem
         /\ Added(i, p).width = MaxOf(p.width, ops[i].width)
         /\ Added(i, p).clean => p.clean /\ p.off + Offset \in SignedRange(Added(i, p).width)
         /\ Tracked(i) => Added(i, p).off = Wrap(offsetMap[i].bitWidth, p.off + Offset)
<1> DEFINE w == MaxOf(p.width, ops[i].width)
           n == p.off + Offset
           o == IF Tracked(i) THEN Wrap(offsetMap[i].bitWidth, n) ELSE n
           c == p.clean /\ n \in SignedRange(w)
           q == Added(i, p)
<1>1. /\ p.root \in Operations /\ p.byte \in Int /\ p.off \in Int /\ p.width \in Nat \ {0} /\ p.clean \in BOOLEAN
      /\ p = [root |-> p.root, byte |-> p.byte, off |-> p.off, width |-> p.width, clean |-> p.clean]
  BY DEF PointerType
<1>2. q = [p EXCEPT !.byte = p.byte + Offset * ops[i].elem, !.width = w, !.off = o, !.clean = c]
  BY DEF Added
<1>3. w \in Nat \ {0} /\ n \in Int /\ p.byte + Offset * ops[i].elem \in Int
  BY <1>1, OperationFacts, WidthsAssumption DEF MaxOf
<1>4. o \in Int
  BY <1>3, OperationFacts, WrapInRange
<1>5. c \in BOOLEAN
  BY <1>1
<1> HIDE DEF w, n, o, c, q
<1>6. q = [root |-> p.root, byte |-> p.byte + Offset * ops[i].elem, off |-> o, width |-> w, clean |-> c]
  BY <1>1, <1>2
<1>7. q.root = p.root /\ q.byte = p.byte + Offset * ops[i].elem /\ q.off = o /\ q.width = w /\ q.clean = c
  BY <1>6
<1>8. q \in PointerType
  BY <1>1, <1>3, <1>4, <1>5, <1>6 DEF PointerType
<1> QED BY <1>7, <1>8 DEF q, w, n, o, c

(* The others only add a condition. *)
Kept(q, p) ==
  /\ q \in PointerType
  /\ q.root = p.root /\ q.byte = p.byte /\ q.off = p.off /\ q.width = p.width
  /\ q.clean => p.clean

(* A condition changes no field but clean.                                 *)
LEMMA CleanFields ==
  ASSUME NEW p \in PointerType, NEW c \in BOOLEAN, NEW q, q = [p EXCEPT !.clean = @ /\ c]
  PROVE  Kept(q, p) /\ (q.clean => c)
<1> PICK d : d = (p.clean /\ c)
  OBVIOUS
<1>1. /\ p.root \in Operations /\ p.byte \in Int /\ p.off \in Int /\ p.width \in Nat \ {0} /\ p.clean \in BOOLEAN
      /\ p = [root |-> p.root, byte |-> p.byte, off |-> p.off, width |-> p.width, clean |-> p.clean]
  BY DEF PointerType
<1>2. d \in BOOLEAN
  BY <1>1
<1>3. q = [root |-> p.root, byte |-> p.byte, off |-> p.off, width |-> p.width, clean |-> d]
  BY <1>1
<1>4. q \in PointerType
  BY <1>1, <1>2, <1>3 DEF PointerType
<1>5. q.root = p.root /\ q.byte = p.byte /\ q.off = p.off /\ q.width = p.width /\ q.clean = d
  BY <1>3
<1> QED BY <1>4, <1>5 DEF Kept

LEMMA RecastFields ==
  ASSUME NEW p \in PointerType, NEW i
  PROVE  /\ Kept(Recast(i, p), p)
         /\ Recast(i, p).clean => p.off = 0 \/ ops[i].elem = ops[ops[i].args[1]].elem
<1> PICK c : c = (p.off = 0 \/ ops[i].elem = ops[ops[i].args[1]].elem)
  OBVIOUS
<1>1. c \in BOOLEAN
  OBVIOUS
<1>2. Recast(i, p) = [p EXCEPT !.clean = @ /\ c]
  BY DEF Recast
<1> QED BY <1>1, <1>2, CleanFields

LEMMA YieldedFields ==
  ASSUME NEW p \in PointerType, NEW i
  PROVE  /\ Kept(Yielded(i, p), p)
         /\ Yielded(i, p).clean => BaseOf(ops[i].args[1]) = BaseOf(i)
<1> PICK c : c = (BaseOf(ops[i].args[1]) = BaseOf(i))
  OBVIOUS
<1>1. c \in BOOLEAN
  OBVIOUS
<1>2. Yielded(i, p) = [p EXCEPT !.clean = @ /\ c]
  BY DEF Yielded
<1> QED BY <1>1, <1>2, CleanFields

(* What each kind of operation makes of its operand. *)
LEMMA MadeBy ==
  ASSUME NEW v, NEW k \in Nat, NEW p
  PROVE  /\ Kind(v) \in Merges => Made(v, k, p) = PointerTo(p.root, p.byte)
         /\ Kind(v) = "addptr" => Made(v, k, p) = Added(v, p)
         /\ Kind(v) = "bitcast" => Made(v, k, p) = Recast(v, p)
         /\ Kind(v) = "yield" => Made(v, k, p) = Yielded(v, p)
         /\ Kind(v) = "for" /\ k > 0 => Made(v, k, p) = Yielded(YieldOf(v), p)
         /\ Kind(v) \notin Merges \cup {"addptr", "bitcast", "yield", "for"} => Made(v, k, p) = p
         /\ Kind(v) = "for" /\ k = 0 => Made(v, k, p) = p
<1>1. Kind(v) \in Merges => Made(v, k, p) = PointerTo(p.root, p.byte)
  BY DEF Made, Merges
<1>2. Kind(v) = "addptr" => Made(v, k, p) = Added(v, p)
  BY DEF Made, Merges
<1>3. Kind(v) = "bitcast" => Made(v, k, p) = Recast(v, p)
  BY DEF Made, Merges
<1>4. Kind(v) = "yield" => Made(v, k, p) = Yielded(v, p)
  BY DEF Made, Merges
<1>5. Kind(v) = "for" /\ k > 0 => Made(v, k, p) = Yielded(YieldOf(v), p)
  BY DEF Made, Merges
<1>6. Kind(v) \notin Merges \cup {"addptr", "bitcast", "yield", "for"} => Made(v, k, p) = p
  BY DEF Made, Merges
<1>7. Kind(v) = "for" /\ k = 0 => Made(v, k, p) = p
  BY DEF Made, Merges
<1> QED BY <1>1, <1>2, <1>3, <1>4, <1>5, <1>6, <1>7

(* The meaning of a value is a pointer.                                    *)
LEMMA MeaningType ==
  ASSUME Complete
  PROVE  \A v \in Operations, k \in 0 .. Trip - 1, c \in BOOLEAN : Meaning[<<v, k, c>>] \in PointerType
<1> DEFINE S == {p \in Points : Meaning[p] \in PointerType}
<1>1. ASSUME NEW v \in Operations, NEW k \in 0 .. Trip - 1, NEW c \in BOOLEAN,
             Kind(v) \in Roots \/ From(v, k, c) \in S
      PROVE  <<v, k, c>> \in S
  <2>1. <<v, k, c>> \in Points /\ k \in Nat
    BY DEF Points
  <2>2. CASE Kind(v) \in Roots
    <3>1. Meaning[<<v, k, c>>] = PointerTo(v, 0)
      BY <2>2, MeaningDef
    <3> QED BY <3>1, <2>1, PointerToType
  <2>3. CASE Kind(v) \notin Roots
    <3> PICK q : q = Meaning[From(v, k, c)]
      OBVIOUS
    <3>1. q \in PointerType /\ Meaning[<<v, k, c>>] = Made(v, k, q)
      BY <1>1, <2>3, MeaningDef
    <3>2. q.root \in Operations /\ q.byte \in Int
      BY <3>1 DEF PointerType
    <3>3. Made(v, k, q) \in {PointerTo(q.root, q.byte), Added(v, q), Recast(v, q), Yielded(v, q),
                               Yielded(YieldOf(v), q), q}
      <4>1. k > 0 \/ k = 0
        BY <2>1
      <4>2. \/ Kind(v) \in Merges \/ Kind(v) = "addptr" \/ Kind(v) = "bitcast" \/ Kind(v) = "yield"
            \/ (Kind(v) = "for" /\ k > 0) \/ (Kind(v) = "for" /\ k = 0)
            \/ Kind(v) \notin Merges \cup {"addptr", "bitcast", "yield", "for"}
        BY <4>1
      <4>3. /\ Kind(v) \in Merges => Made(v, k, q) = PointerTo(q.root, q.byte)
            /\ Kind(v) = "addptr" => Made(v, k, q) = Added(v, q)
            /\ Kind(v) = "bitcast" => Made(v, k, q) = Recast(v, q)
            /\ Kind(v) = "yield" => Made(v, k, q) = Yielded(v, q)
            /\ Kind(v) = "for" /\ k > 0 => Made(v, k, q) = Yielded(YieldOf(v), q)
            /\ Kind(v) \notin Merges \cup {"addptr", "bitcast", "yield", "for"} => Made(v, k, q) = q
            /\ Kind(v) = "for" /\ k = 0 => Made(v, k, q) = q
        BY <2>1, MadeBy
      <4> QED BY <4>2, <4>3, Zenon
    <3>4. /\ PointerTo(q.root, q.byte) \in PointerType /\ Added(v, q) \in PointerType
          /\ Recast(v, q) \in PointerType /\ Yielded(v, q) \in PointerType
          /\ Yielded(YieldOf(v), q) \in PointerType
      BY <3>1, <3>2, PointerToType, AddedFields, RecastFields, YieldedFields DEF Kept
    <3>5. Made(v, k, q) \in PointerType
      BY <3>1, <3>3, <3>4
    <3> QED BY <3>1, <3>5, <2>1
  <2> QED BY <2>2, <2>3
<1>2. \A v \in Operations, k \in 0 .. Trip - 1, c \in BOOLEAN : <<v, k, c>> \in S
  <2> HIDE DEF S
  <2> QED BY <1>1, PointInduction
<1> QED BY <1>2

-----------------------------------------------------------------------------
(* Loops *)

(* A value outside the loops means the same in all their iterations. *)
LEMMA OutsideSame ==
  ASSUME Complete, NEW c \in BOOLEAN
  PROVE  \A v \in Operations, k \in 0 .. Trip - 1 :
           LoopOf(v) = {} => Meaning[<<v, k, c>>] = Meaning[<<v, 0, c>>]
<1>a. Operations = 1 .. Len(ops) /\ Len(ops) \in Nat /\ 0 \in 0 .. Trip - 1
  BY KernelAssumption, LenProperties DEF Complete, KernelInv, Operations
<1>b. KernelInv /\ OperandInv
  BY DEF Complete
<1> DEFINE Same(v) == \A k \in 0 .. Trip - 1 : LoopOf(v) = {} => Meaning[<<v, k, c>>] = Meaning[<<v, 0, c>>]
           S == {n \in Nat : \A v \in Operations : v <= n => Same(v)}
<1>1. 0 \in S
  BY <1>a
<1>2. ASSUME NEW n \in Nat, n \in S PROVE n + 1 \in S
  <2> SUFFICES ASSUME NEW v \in Operations, v <= n + 1, NEW k \in 0 .. Trip - 1, LoopOf(v) = {}
               PROVE  Meaning[<<v, k, c>>] = Meaning[<<v, 0, c>>]
    OBVIOUS
  <2>1. \A j \in 0 .. Trip - 1 : Meaning[<<v, j, c>>] = IF Kind(v) \in Roots THEN PointerTo(v, 0)
                                                       ELSE Made(v, j, Meaning[From(v, j, c)])
    BY MeaningDef
  <2>2. CASE Kind(v) \in Roots
    BY <2>1, <2>2, <1>a
  <2>3. CASE Kind(v) \notin Roots
    <3>1. Kind(v) # "for"
      BY <1>b, OutsideLoop
    <3>2. \A j, p : Made(v, j, p) = Made(v, 0, p)
      BY <3>1 DEF Made, Merges
    <3> PICK s : s = IF Kind(v) \in Merges /\ ~c THEN 2 ELSE 1
      OBVIOUS
    <3> PICK u : u = ops[v].args[s]
      OBVIOUS
    <3>3. \A j : From(v, j, c) = <<u, IF Kind(v) = "yield" THEN Trip - 1 ELSE j, c>>
      BY <3>1, Zenon DEF From
    <3>4. Meaning[From(v, k, c)] = Meaning[From(v, 0, c)]
      <4>1. CASE Kind(v) = "yield"
        BY <3>3, <4>1
      <4>2. CASE Kind(v) # "yield"
        <5>1. u \in Elements(ops[v].args) /\ u \in Operations /\ u < v
          BY <2>3, <1>b, FirstOperand
        <5>2. LoopOf(u) = {}
          BY <5>1, <4>2, <1>b DEF OperandInv
        <5>3. u <= n
          BY <5>1, <1>a
        <5>4. Meaning[<<u, k, c>>] = Meaning[<<u, 0, c>>]
          BY <5>1, <5>2, <5>3, <1>2
        <5> QED BY <5>4, <3>3, <4>2
      <4> QED BY <4>1, <4>2
    <3> QED BY <2>1, <2>3, <3>2, <3>4, <1>a
  <2> QED BY <2>2, <2>3
<1>3. Nat \subseteq S
  <2> HIDE DEF S
  <2> QED BY <1>1, <1>2, SetInduction
<1> QED BY <1>3, <1>a

(* In a kernel that verifies, what a loop is given back has an offset of   *)
(* the type of the loop's.                                                 *)
LEMMA LoopVerified ==
  ASSUME Complete, Verifies, NEW f \in Operations, Kind(f) = "for", Tracked(f),
         NEW y, y = YieldOf(f), NEW u, u = ops[y].args[1]
  PROVE  /\ y \in Operations /\ Kind(y) = "yield" /\ u \in Operations
         /\ Tracked(y) /\ offsetMap[y] = offsetMap[f] /\ LoopOf(offsetMap[f].ptr) = {}
         /\ Tracked(u) /\ offsetMap[u].bitWidth = offsetMap[f].bitWidth
         /\ ops[u].elem = ops[f].elem /\ ops[y].elem = ops[f].elem
<1>a. KernelInv /\ OperandInv /\ MapInv
  BY DEF Complete
<1>1. /\ y \in Operations /\ Closes(y, f) /\ Kind(y) = "yield"
      /\ \A g \in Operations : Kind(g) = "for" /\ YieldOf(g) = y => g = f
  BY LoopResult DEF Complete, Closes
<1>2. /\ u \in Elements(ops[y].args) /\ u \in Operations /\ DOMAIN ops[y].args = {1}
  BY <1>1, <1>a, FirstOperand DEF Roots, KernelInv, Arity, Merges
<1>3. Tracked(y) /\ {f, y} \subseteq retyped
  BY OperationFacts DEF Followed
<1>4. offsetMap[y] = offsetMap[f]
  <2>1. PICK g \in DOMAIN offsetMap : Kind(g) = "for" /\ YieldOf(g) = y /\ offsetMap[y] = offsetMap[g]
    BY <1>1, <1>3, OperationFacts DEF Followed
  <2>2. g = f
    BY <2>1, <1>1 DEF Complete, WorkInv
  <2> QED BY <2>1, <2>2
<1>5. LoopOf(offsetMap[f].ptr) = {}
  <2>1. LoopOf(offsetMap[y].ptr) \subseteq LoopOf(y)
    BY <1>1, <1>3, OperationFacts DEF Followed
  <2> QED BY <2>1, <1>1, <1>4, <1>a, OneLoop
<1>6. TypeOf(u) = TypeOf(y)
  <2>1. y \notin erased
    BY <1>1, <1>a DEF MapInv, Moves
  <2>2. {TypeOf(ops[y].args[k]) : k \in DOMAIN ops[y].args} = {TypeOf(y)}
    BY <1>1, <2>1 DEF Verifies
  <2> QED BY <2>2, <1>2
<1>7. TypeOf(y) = offsetMap[f].bitWidth /\ TypeOf(y) # 0
  BY <1>3, <1>4, OperationFacts DEF TypeOf
<1>8. Tracked(u) /\ TypeOf(u) = offsetMap[u].bitWidth
  <2>1. u \in retyped \/ (Kind(u) \in Moves /\ u \in erased)
    BY <1>6, <1>7 DEF TypeOf
  <2>2. Tracked(u)
    BY <2>1, <1>a DEF MapInv, Tracked, Moves
  <2> QED BY <2>1, <2>2 DEF TypeOf
<1>9. ops[u].elem = ops[f].elem /\ ops[y].elem = ops[f].elem
  BY <1>1, <1>2, <1>a DEF OperandInv
<1> QED BY <1>1, <1>2, <1>3, <1>4, <1>5, <1>6, <1>7, <1>8, <1>9

-----------------------------------------------------------------------------
(* The offset of every value leads from its base to where it points *)

(* The offset gathered for a value leads from its base to where it points, *)
(* and has the width it was computed with.                                 *)
Leads(q, b, v) ==
  /\ q.width = offsetMap[v].bitWidth
  /\ q.clean => q.root = b.root /\ q.byte = b.byte + ops[v].elem * q.off

Exact(v, k, c) == Leads(Meaning[<<v, k, c>>], Meaning[<<offsetMap[v].ptr, k, c>>], v)

(* Roots and selects are their own bases.                                  *)
LEMMA LeadsBase ==
  ASSUME Complete, NEW v \in Operations, Tracked(v), Kind(v) \in Roots \cup {"select"},
         NEW k \in 0 .. Trip - 1, NEW c \in BOOLEAN
  PROVE  Exact(v, k, c)
<1> PICK q : q = Meaning[<<v, k, c>>]
  OBVIOUS
<1>1. offsetMap[v].ptr = v /\ offsetMap[v].bitWidth = DefaultBitWidth
  <2>1. Followed(v)
    BY OperationFacts
  <2>2. offsetMap[v] = PtrOffset(v, DefaultBitWidth)
    BY <2>1 DEF Followed
  <2> QED BY <2>2, PtrOffsetFields
<1>2. q \in PointerType
  BY MeaningType
<1>3. q.off = 0 /\ q.width = DefaultBitWidth
  <2>1. CASE Kind(v) \in Roots
    <3>1. q = PointerTo(v, 0)
      BY <2>1, MeaningDef
    <3> QED BY <3>1, PointerToType
  <2>2. CASE Kind(v) = "select"
    <3> PICK p : p = Meaning[From(v, k, c)]
      OBVIOUS
    <3>1. q = Made(v, k, p) /\ Kind(v) \in Merges
      BY <2>2, MeaningDef DEF Roots, Merges
    <3>2. q = PointerTo(p.root, p.byte)
      BY <3>1, MadeBy
    <3> QED BY <3>2 DEF PointerTo
  <2> QED BY <2>1, <2>2
<1>4. ops[v].elem * 0 = 0 /\ q.byte + 0 = q.byte
  BY <1>2, OperationFacts DEF PointerType
<1>5. Leads(q, q, v)
  BY <1>1, <1>3, <1>4 DEF Leads
<1> QED BY <1>1, <1>5 DEF Exact

(* From an operand to what is made of it. *)
LEMMA LeadsAdded ==
  ASSUME Complete, NEW v \in Operations, Tracked(v), NEW u \in Operations, Tracked(u),
         NEW p \in PointerType, NEW b \in PointerType, Leads(p, b, u),
         offsetMap[v].bitWidth = MaxOf(offsetMap[u].bitWidth, ops[v].width), ops[v].elem = ops[u].elem
  PROVE  Leads(Added(v, p), b, v)
<1> PICK q : q = Added(v, p)
  OBVIOUS
<1>1. /\ q \in PointerType
      /\ q.root = p.root /\ q.byte = p.byte + Offset * ops[v].elem
      /\ q.width = MaxOf(p.width, ops[v].width)
      /\ q.clean => p.clean /\ p.off + Offset \in SignedRange(q.width)
      /\ q.off = Wrap(offsetMap[v].bitWidth, p.off + Offset)
  BY AddedFields
<1>2. q.width = offsetMap[v].bitWidth /\ q.width \in Nat \ {0}
  BY <1>1, OperationFacts DEF Leads
<1>3. ASSUME q.clean PROVE q.root = b.root /\ q.byte = b.byte + ops[v].elem * q.off
  <2>1. p.root = b.root /\ p.byte = b.byte + ops[v].elem * p.off
    BY <1>1, <1>3 DEF Leads
  <2>2. q.off = p.off + Offset
    BY <1>1, <1>2, <1>3, WrapInRange
  <2>3. /\ b.byte \in Int /\ p.off \in Int /\ Offset \in Int /\ ops[v].elem \in Int
    BY OperationFacts, WidthsAssumption DEF PointerType
  <2>4. \A x, e, m, n \in Int : (x + e * m) + n * e = x + e * (m + n)
    OBVIOUS
  <2>5. q.byte = (b.byte + ops[v].elem * p.off) + Offset * ops[v].elem
    BY <1>1, <2>1
  <2> QED BY <1>1, <2>1, <2>2, <2>3, <2>4, <2>5
<1> QED BY <1>2, <1>3 DEF Leads

(* An operand whose element changes leads on if it has no offset.          *)
LEMMA LeadsKept ==
  ASSUME Complete, NEW v \in Operations, NEW u \in Operations,
         NEW p \in PointerType, NEW b \in PointerType, Leads(p, b, u),
         offsetMap[v].bitWidth = offsetMap[u].bitWidth,
         NEW q \in PointerType, q.root = p.root, q.byte = p.byte, q.off = p.off, q.width = p.width,
         q.clean => p.clean /\ (p.off = 0 \/ ops[v].elem = ops[u].elem)
  PROVE  Leads(q, b, v)
<1>1. ASSUME q.clean PROVE ops[v].elem * q.off = ops[u].elem * p.off
  <2>1. ops[v].elem \in Nat /\ ops[u].elem \in Nat
    BY OperationFacts
  <2>2. CASE p.off = 0
    BY <2>1, <2>2
  <2>3. CASE ops[v].elem = ops[u].elem
    BY <2>3
  <2> QED BY <1>1, <2>2, <2>3
<1> QED BY <1>1 DEF Leads

(* The operations that move a pointer.                                     *)
LEMMA LeadsMove ==
  ASSUME Complete, NEW v \in Operations, Tracked(v), Kind(v) \in Moves,
         NEW k \in 0 .. Trip - 1, NEW c \in BOOLEAN, NEW u, u = ops[v].args[1], Exact(u, k, c)
  PROVE  Exact(v, k, c)
<1>a. u \in Operations /\ Tracked(u) /\ (Kind(v) # "bitcast" => ops[v].elem = ops[u].elem)
  <2>1. Kind(v) \notin Roots
    BY DEF Moves, Roots
  <2>2. u \in Elements(ops[v].args) /\ u \in Operations
    BY <2>1, FirstOperand DEF Complete
  <2> QED BY <2>2, OperationFacts DEF Complete, OperandInv, Followed
<1> PICK o : o = offsetMap[v].ptr
  OBVIOUS
<1> PICK p, b, q : p = Meaning[<<u, k, c>>] /\ b = Meaning[<<o, k, c>>] /\ q = Meaning[<<v, k, c>>]
  OBVIOUS
<1> PICK w : w = IF Kind(v) = "addptr" THEN MaxOf(offsetMap[u].bitWidth, ops[v].width)
                 ELSE offsetMap[u].bitWidth
  OBVIOUS
<1>1. offsetMap[u].ptr = o /\ offsetMap[v].bitWidth = w
  <2>1. Followed(v)
    BY OperationFacts
  <2>2. offsetMap[v] = PtrOffset(offsetMap[u].ptr, w)
    BY <2>1, Zenon DEF Followed
  <2>3. offsetMap[v].ptr = offsetMap[u].ptr /\ offsetMap[v].bitWidth = w
    <3> PICK r, ptr : r = offsetMap[v] /\ ptr = offsetMap[u].ptr
      OBVIOUS
    <3>1. r = PtrOffset(ptr, w)
      BY <2>2, Zenon
    <3>2. r.ptr = ptr /\ r.bitWidth = w
      BY <3>1 DEF PtrOffset
    <3> QED BY <3>2
  <2> QED BY <2>3
<1>2. o \in Operations /\ p \in PointerType /\ b \in PointerType /\ q \in PointerType /\ Leads(p, b, u)
  <2>1. o \in Operations
    BY OperationFacts
  <2> QED BY <2>1, <1>a, <1>1, MeaningType DEF Exact
<1>3. q = Made(v, k, p)
  <2>1. From(v, k, c) = <<u, k, c>>
    BY DEF From, Moves, Merges
  <2> QED BY <2>1, MeaningDef DEF Moves, Roots
<1>4. CASE Kind(v) = "addptr"
  <2>1. q = Added(v, p)
    BY <1>3, <1>4, MadeBy
  <2>2. Leads(q, b, v)
    BY <2>1, <1>a, <1>1, <1>2, <1>4, LeadsAdded
  <2> QED BY <2>2 DEF Exact
<1>5. CASE Kind(v) = "bitcast"
  <2>1. q = Recast(v, p)
    BY <1>3, <1>5, MadeBy
  <2>2. /\ q.root = p.root /\ q.byte = p.byte /\ q.off = p.off /\ q.width = p.width
        /\ q.clean => p.clean /\ (p.off = 0 \/ ops[v].elem = ops[u].elem)
    <3>1. /\ Kept(Recast(v, p), p)
          /\ Recast(v, p).clean => p.off = 0 \/ ops[v].elem = ops[ops[v].args[1]].elem
      BY <1>2, RecastFields
    <3>2. Kept(q, p) /\ (q.clean => p.off = 0 \/ ops[v].elem = ops[u].elem)
      BY <2>1, <3>1
    <3> QED BY <3>2 DEF Kept
  <2>3. Leads(q, b, v)
    BY <2>2, <1>a, <1>1, <1>2, <1>5, LeadsKept
  <2> QED BY <2>3 DEF Exact
<1>6. CASE Kind(v) = "splat"
  <2>1. q = p
    BY <1>3, <1>6, MadeBy DEF Merges
  <2>2. Leads(q, b, v)
    BY <2>1, <1>a, <1>1, <1>2, <1>6, LeadsKept
  <2> QED BY <2>2 DEF Exact
<1> QED BY <1>4, <1>5, <1>6 DEF Moves

(* A loop and its result: the base is the one the loop began with, and     *)
(* outside it.                                                             *)
LEMMA LeadsLoop ==
  ASSUME Complete, Verifies, NEW f \in Operations, Kind(f) = "for", Tracked(f),
         NEW k \in 0 .. Trip - 1, NEW j \in 0 .. Trip - 1, NEW c \in BOOLEAN,
         NEW y, y = YieldOf(f), NEW u, u = ops[y].args[1], Exact(u, j, c),
         NEW v \in {f, y}, Meaning[<<v, k, c>>] = Yielded(y, Meaning[<<u, j, c>>])
  PROVE  Exact(v, k, c)
<1>a. /\ y \in Operations /\ Kind(y) = "yield" /\ u \in Operations
      /\ Tracked(y) /\ offsetMap[y] = offsetMap[f] /\ LoopOf(offsetMap[f].ptr) = {}
      /\ Tracked(u) /\ offsetMap[u].bitWidth = offsetMap[f].bitWidth
      /\ ops[u].elem = ops[f].elem /\ ops[y].elem = ops[f].elem
  BY LoopVerified
<1> PICK o, r : o = offsetMap[f].ptr /\ r = offsetMap[u].ptr
  OBVIOUS
<1> PICK p, b, q : p = Meaning[<<u, j, c>>] /\ b = Meaning[<<o, k, c>>] /\ q = Meaning[<<v, k, c>>]
  OBVIOUS
<1>1. /\ v \in Operations /\ o \in Operations /\ r \in Operations
      /\ offsetMap[v] = offsetMap[f] /\ ops[v].elem = ops[u].elem
  BY <1>a, OperationFacts
<1>2. p \in PointerType /\ b \in PointerType /\ q \in PointerType
  BY <1>1, <1>a, MeaningType
<1>3. q = Yielded(y, p)
  OBVIOUS
<1>4. /\ q.root = p.root /\ q.byte = p.byte /\ q.off = p.off /\ q.width = p.width
      /\ q.clean => p.clean /\ BaseOf(u) = BaseOf(y)
  <2>1. Kept(Yielded(y, p), p) /\ (Yielded(y, p).clean => BaseOf(ops[y].args[1]) = BaseOf(y))
    BY <1>2, YieldedFields
  <2>2. Kept(q, p) /\ (q.clean => BaseOf(u) = BaseOf(y))
    BY <2>1, <1>3
  <2> QED BY <2>2 DEF Kept
<1>5. q.width = offsetMap[v].bitWidth
  BY <1>4, <1>a, <1>1 DEF Exact, Leads
<1>6. ASSUME q.clean PROVE q.root = b.root /\ q.byte = b.byte + ops[v].elem * q.off
  <2>1. r = o
    BY <1>4, <1>6, <1>a DEF BaseOf
  <2>2. Meaning[<<r, j, c>>] = b
    <3>1. 0 \in 0 .. Trip - 1
      BY KernelAssumption
    <3>2. Meaning[<<o, j, c>>] = Meaning[<<o, 0, c>>] /\ Meaning[<<o, k, c>>] = Meaning[<<o, 0, c>>]
      BY <3>1, <1>1, <1>a, OutsideSame
    <3> QED BY <2>1, <3>2
  <2>3. Leads(p, b, u)
    BY <2>2 DEF Exact
  <2> QED BY <2>3, <1>1, <1>4, <1>6 DEF Leads
<1>7. Leads(q, b, v)
  BY <1>5, <1>6 DEF Leads
<1> QED BY <1>1, <1>7 DEF Exact

(* All together, by induction on the order.                                *)
LEMMA AllExact ==
  ASSUME Complete, Verifies
  PROVE  \A v \in Operations, k \in 0 .. Trip - 1, c \in BOOLEAN : Tracked(v) => Exact(v, k, c)
<1> DEFINE S == {p \in Points : Tracked(p[1]) => Exact(p[1], p[2], p[3])}
<1>a. \A v \in Operations, k \in 0 .. Trip - 1, c \in BOOLEAN :
        /\ <<v, k, c>> \in Points
        /\ <<v, k, c>> \in S <=> (Tracked(v) => Exact(v, k, c))
  BY DEF Points
<1>b. \A u, j, c : <<u, j, c>> \in S => (Tracked(u) => Exact(u, j, c)) /\ j \in 0 .. Trip - 1
  BY DEF Points
<1> HIDE DEF S
<1>1. ASSUME NEW v \in Operations, NEW k \in 0 .. Trip - 1, NEW c \in BOOLEAN,
             Kind(v) \in Roots \/ From(v, k, c) \in S
      PROVE  <<v, k, c>> \in S
  <2> SUFFICES ASSUME Tracked(v) PROVE Exact(v, k, c)
    BY <1>a
  <2>1. Kind(v) \in Roots \cup Moves \cup {"select", "for", "yield"}
    <3>1. v \in DOMAIN offsetMap
      BY DEF Tracked
    <3>2. Kind(v) \in Values \ {"if"}
      BY <3>1 DEF Complete, WorkInv
    <3> QED BY <3>2 DEF Values, Merges
  <2>2. CASE Kind(v) \in Roots \cup {"select"}
    BY <2>2, LeadsBase
  <2>3. CASE Kind(v) \in Moves
    <3> PICK u : u = ops[v].args[1]
      OBVIOUS
    <3>1. From(v, k, c) = <<u, k, c>> /\ Kind(v) \notin Roots
      BY <2>3 DEF From, Moves, Merges, Roots
    <3>2. Tracked(u)
      BY <2>3, OperationFacts DEF Followed
    <3>3. Exact(u, k, c)
      BY <3>1, <3>2, <1>1, <1>b
    <3> QED BY <3>3, <2>3, LeadsMove
  <2>4. CASE Kind(v) = "for" /\ k > 0
    <3> PICK y : y = YieldOf(v)
      OBVIOUS
    <3> PICK u : u = ops[y].args[1]
      OBVIOUS
    <3>1. From(v, k, c) = <<u, k - 1, c>> /\ Kind(v) \notin Roots
      BY <2>4 DEF From, Roots
    <3>2. Tracked(u)
      BY <2>4, LoopVerified
    <3>3. Exact(u, k - 1, c) /\ k - 1 \in 0 .. Trip - 1
      BY <3>1, <3>2, <1>1, <1>b
    <3>4. Meaning[<<v, k, c>>] = Yielded(y, Meaning[<<u, k - 1, c>>])
      BY <2>4, <3>1, MeaningDef, MadeBy
    <3> QED BY <3>3, <3>4, <2>4, LeadsLoop
  <2>5. CASE Kind(v) = "for" /\ ~(k > 0)
    <3> PICK u : u = ops[v].args[1]
      OBVIOUS
    <3>1. From(v, k, c) = <<u, k, c>> /\ Kind(v) \notin Roots /\ k = 0
      BY <2>5 DEF From, Roots, Merges
    <3>2. Tracked(u) /\ offsetMap[v] = offsetMap[u]
      BY <2>5, OperationFacts DEF Followed
    <3>3. Exact(u, k, c)
      BY <3>1, <3>2, <1>1, <1>b
    <3>4. Meaning[<<v, k, c>>] = Meaning[<<u, k, c>>]
      BY <2>5, <3>1, MeaningDef, MadeBy
    <3>5. ops[v].elem = ops[u].elem
      <4>1. u \in Elements(ops[v].args)
        BY <3>1, FirstOperand DEF Complete
      <4> QED BY <4>1, <2>5 DEF Complete, OperandInv
    <3> QED BY <3>2, <3>3, <3>4, <3>5 DEF Exact, Leads
  <2>6. CASE Kind(v) = "yield"
    <3>1. PICK f \in Operations : Kind(f) = "for" /\ Tracked(f) /\ v = YieldOf(f)
      BY <2>6, OperationFacts DEF Followed, Tracked, Complete, WorkInv
    <3> PICK u : u = ops[v].args[1]
      OBVIOUS
    <3>2. From(v, k, c) = <<u, Trip - 1, c>> /\ Kind(v) \notin Roots
      BY <2>6 DEF From, Roots, Merges
    <3>3. Tracked(u)
      BY <3>1, LoopVerified
    <3>4. Exact(u, Trip - 1, c) /\ Trip - 1 \in 0 .. Trip - 1
      BY <3>2, <3>3, <1>1, <1>b
    <3>5. Meaning[<<v, k, c>>] = Yielded(v, Meaning[<<u, Trip - 1, c>>])
      BY <2>6, <3>2, MeaningDef, MadeBy
    <3> QED BY <3>1, <3>4, <3>5, LeadsLoop
  <2> QED BY <2>1, <2>2, <2>3, <2>4, <2>5, <2>6
<1>2. \A v \in Operations, k \in 0 .. Trip - 1, c \in BOOLEAN : <<v, k, c>> \in S
  BY <1>1, PointInduction
<1> QED BY <1>a, <1>2

-----------------------------------------------------------------------------
(* Addresses *)

LEMMA CompleteInvariant == Spec => [](KernelInv /\ WorkInv /\ ErasedInv /\ OperandInv /\ MapInv)
<1> DEFINE Inv == KernelInv /\ WorkInv /\ ErasedInv /\ OperandInv /\ MapInv
<1>1. Init => Inv
  BY PassInit, OperandInit, MapInit
<1>2. Inv /\ [Next]_vars => Inv'
  BY KernelStep, WorkStep, ErasedStep, OperandStep, MapStep
<1> QED BY <1>1, <1>2, PTL DEF Spec

(* What a user makes of the base and the offset of its pointer. *)
LEMMA UserExact ==
  ASSUME Complete, NEW i \in Operations, Kind(i) \in Users, NEW v \in Operations, ops[v].elem = ops[i].elem,
         NEW m \in PointerType, NEW b \in PointerType, Leads(m, b, v), m.clean, BlockExact(i, m),
         Untouched(i)
  PROVE  AddressAfter(i, m, b) = AddressBefore(i, m)
<1> PICK e : e = ops[i].elem
  OBVIOUS
<1>1. /\ m.byte \in Int /\ m.off \in Int /\ b.byte \in Int /\ e \in Int
      /\ Stride \in Int /\ DefaultBitWidth \in Nat \ {0}
  BY OperationFacts, WidthsAssumption DEF PointerType
<1>2. m.root = b.root /\ m.byte = b.byte + e * m.off
  BY DEF Leads
<1>3. CASE Kind(i) = "block"
  <2> PICK w : w = Wrap(DefaultBitWidth, m.off)
    OBVIOUS
  <2>1. (m.off = 0 /\ w = 0) \/ (Stride = 1 /\ w = m.off)
    <3>1. m.off = 0 \/ (Stride = 1 /\ m.off \in SignedRange(DefaultBitWidth))
      BY <1>3 DEF BlockExact
    <3>2. m.off \in SignedRange(DefaultBitWidth)
      BY <3>1, <1>1, WrapInRange
    <3>3. w = m.off
      BY <3>2, <1>1, WrapInRange
    <3> QED BY <3>1, <3>3
  <2>2. \A x, y \in Int : x * y = y * x /\ x * (y + 1) = x * y + x /\ x * 0 = 0 /\ x * 1 = x
    OBVIOUS
  <2>3. e * ((w + 1) * Stride) = e * m.off + Stride * e
    <3>1. CASE m.off = 0 /\ w = 0
      <4>1. (w + 1) * Stride = Stride
        BY <3>1, <1>1
      <4>2. e * m.off = 0 /\ e * Stride = Stride * e /\ Stride * e \in Int
        BY <3>1, <2>2, <1>1
      <4> QED BY <4>1, <4>2
    <3>2. CASE Stride = 1 /\ w = m.off
      <4>1. (w + 1) * Stride = m.off + 1 /\ Stride * e = e
        BY <3>2, <2>2, <1>1
      <4>2. e * (m.off + 1) = e * m.off + e
        BY <2>2, <1>1
      <4> QED BY <4>1, <4>2
    <3> QED BY <2>1, <3>1, <3>2
  <2>4. b.byte + e * ((w + 1) * Stride) = m.byte + Stride * e
    <3>1. e * m.off \in Int /\ Stride * e \in Int
      BY <1>1
    <3> QED BY <3>1, <2>3, <1>1, <1>2
  <2>5. AddressAfter(i, m, b) = [root |-> b.root, byte |-> b.byte + e * ((w + 1) * Stride)]
    BY <1>3 DEF AddressAfter
  <2>6. AddressBefore(i, m) = [root |-> m.root, byte |-> m.byte + Stride * e]
    BY <1>3 DEF AddressBefore, BlockStride
  <2> QED BY <2>4, <2>5, <2>6, <1>2
<1>4. CASE Kind(i) = "tptr"
  <2>1. \A x, y, s \in Int : x + s * (y + 1) = (x + s * y) + 1 * s
    OBVIOUS
  <2>2. b.byte + e * (m.off + 1) = m.byte + 1 * e
    BY <2>1, <1>1, <1>2
  <2>3. AddressAfter(i, m, b) = [root |-> b.root, byte |-> b.byte + e * (m.off + 1)]
    BY <1>4 DEF AddressAfter
  <2>4. AddressBefore(i, m) = [root |-> m.root, byte |-> m.byte + 1 * e]
    BY <1>4 DEF AddressBefore, BlockStride
  <2> QED BY <2>2, <2>3, <2>4, <1>2
<1>5. CASE Kind(i) \notin {"block", "tptr"}
  <2>1. AddressAfter(i, m, b) = [root |-> b.root, byte |-> b.byte + e * m.off]
    BY <1>5 DEF AddressAfter
  <2>2. AddressBefore(i, m) = [root |-> m.root, byte |-> m.byte + 0]
    BY <1>5 DEF AddressBefore
  <2> QED BY <2>1, <2>2, <1>1, <1>2
<1> QED BY <1>3, <1>4, <1>5

(* When the pass succeeds and its result verifies, every user of a pointer *)
(* addresses what it did, in every iteration and on both sides of every    *)
(* branch, but for the exceptions of clean and BlockExact and the regions  *)
(* that were handed an offset.                                             *)
THEOREM AddressesExactHolds == Spec => []AddressesExact
<1>1. ASSUME Complete, Verifies,
             NEW i \in Operations, NEW k \in 0 .. Trip - 1, NEW c \in BOOLEAN, NEW v, v = ops[i].args[1],
             Kind(i) \in Users, Tracked(v), NEW m, m = Meaning[<<v, k, c>>], m.clean, BlockExact(i, m),
             Untouched(i)
      PROVE  AddressAfter(i, m, Meaning[<<offsetMap[v].ptr, k, c>>]) = AddressBefore(i, m)
  <2> PICK b : b = Meaning[<<offsetMap[v].ptr, k, c>>]
    OBVIOUS
  <2>1. Kind(i) \notin Roots /\ Kind(i) \notin {"bitcast"}
    BY <1>1 DEF Users, ScalarUsers, Roots
  <2>2. v \in Elements(ops[i].args) /\ v \in Operations
    BY <1>1, <2>1, FirstOperand DEF Complete
  <2>3. ops[v].elem = ops[i].elem
    BY <1>1, <2>1, <2>2 DEF Complete, OperandInv
  <2>4. m \in PointerType /\ b \in PointerType
    BY <1>1, <2>2, MeaningType, OperationFacts
  <2>5. Leads(m, b, v)
    BY <1>1, <2>2, AllExact DEF Exact
  <2> QED BY <1>1, <2>2, <2>3, <2>4, <2>5, UserExact
<1>2. KernelInv /\ WorkInv /\ OperandInv /\ MapInv => AddressesExact
  <2>1. ASSUME KernelInv, WorkInv, OperandInv, MapInv, phase = "done" PROVE Complete
    BY <2>1 DEF Complete
  <2> QED BY <2>1, <1>1 DEF AddressesExact
<1> QED BY <1>2, CompleteInvariant, PTL

=============================================================================
