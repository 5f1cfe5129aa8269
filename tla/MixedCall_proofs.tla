-------------------------- MODULE MixedCall_proofs --------------------------
(***************************************************************************)
(* What TLAPS proves about MixedCall, for every set of kernels and every   *)
(* number of compiles.                                                     *)
(***************************************************************************)
EXTENDS MixedCall, SequenceTheorems, FiniteSetTheorems, NaturalsInduction, WellFoundedInduction, TLAPS

-----------------------------------------------------------------------------
(* Induction with a set in the place of a predicate, and what it gives for *)
(* FlattenSeq                                                              *)

(* A set that has 0 and, with a number, the next one, has them all.        *)
LEMMA SetInduction ==
  ASSUME NEW S, 0 \in S, \A n \in Nat : n \in S => n + 1 \in S
  PROVE  Nat \subseteq S
<1> DEFINE T == Nat \ S
           R == OpToRel(<, Nat)
<1>1. SUFFICES ASSUME T # {} PROVE FALSE
  OBVIOUS
<1>2. IsWellFoundedOn(R, Nat)
  BY NatLessThanWellFounded
<1>3. \A m, n \in Nat : m < n => <<m, n>> \in R
  BY DEF OpToRel
<1> HIDE DEF R
<1>4. T \subseteq Nat
  OBVIOUS
<1> HIDE DEF T
<1>5. PICK x \in T : \A y \in T : ~ (<<y, x>> \in R)
  BY <1>1, <1>2, <1>4, WFMin
<1>6. x \in Nat /\ x # 0
  BY <1>4 DEF T
<1>7. x - 1 \in Nat /\ x - 1 < x /\ (x - 1) + 1 = x
  BY <1>6
<1>8. x - 1 \notin T
  BY <1>3, <1>5, <1>6, <1>7
<1> QED BY <1>6, <1>7, <1>8 DEF T

(* The recursive function FlattenSeq is defined with exists.               *)
LEMMA FlattenSeqDef ==
  ASSUME NEW seqs, NEW n \in Nat \ {0}, Len(seqs) = n
  PROVE  \E f : /\ \A i \in 1 .. n : f[i] = IF i = 1 THEN seqs[i] ELSE f[i - 1] \o seqs[i]
                /\ FlattenSeq(seqs) = f[n]
<1> DEFINE Is(g, m) == g = [i \in 1 .. m |-> IF i = 1 THEN seqs[i] ELSE g[i - 1] \o seqs[i]]
           S == {m \in Nat : \E g : Is(g, m)}
<1>1. 0 \in S
  <2> DEFINE g == [i \in 1 .. 0 |-> IF i = 1 THEN seqs[i] ELSE seqs[i]]
  <2>1. Is(g, 0)
    OBVIOUS
  <2> QED BY <2>1
<1>2. ASSUME NEW m \in Nat, m \in S PROVE m + 1 \in S
  <2>1. PICK g : Is(g, m)
    BY <1>2
  <2> DEFINE h == [i \in 1 .. m + 1 |->
                    IF i <= m THEN g[i] ELSE IF i = 1 THEN seqs[i] ELSE g[m] \o seqs[i]]
  <2>2. ASSUME NEW i \in 1 .. m + 1
        PROVE  h[i] = IF i = 1 THEN seqs[i] ELSE h[i - 1] \o seqs[i]
    <3>1. CASE i <= m
      <4>1. h[i] = g[i] /\ (i # 1 => i - 1 \in 1 .. m + 1 /\ h[i - 1] = g[i - 1])
        BY <3>1
      <4>2. i \in 1 .. m
        BY <3>1
      <4>3. \A j \in 1 .. m : g[j] = IF j = 1 THEN seqs[j] ELSE g[j - 1] \o seqs[j]
        BY <2>1, Zenon
      <4>4. g[i] = IF i = 1 THEN seqs[i] ELSE g[i - 1] \o seqs[i]
        BY <4>2, <4>3
      <4> QED BY <4>1, <4>4
    <3>2. CASE i = m + 1
      <4>1. i # 1 => i - 1 = m /\ m \in 1 .. m + 1 /\ h[m] = g[m]
        BY <3>2
      <4> QED BY <3>2, <4>1
    <3> QED BY <3>1, <3>2
  <2>3. Is(h, m + 1)
    BY <2>2
  <2> HIDE DEF Is, h
  <2>4. m + 1 \in Nat
    OBVIOUS
  <2> QED BY <2>3, <2>4
<1>3. n \in S
  <2> HIDE DEF S
  <2> QED BY <1>1, <1>2, SetInduction
<1> DEFINE flatten == CHOOSE f : Is(f, n)
<1>4. Is(flatten, n)
  BY <1>3
<1>5. FlattenSeq(seqs) = flatten[n]
  BY DEF FlattenSeq
<1>6. \A i \in 1 .. n : flatten[i] = IF i = 1 THEN seqs[i] ELSE flatten[i - 1] \o seqs[i]
  BY <1>4, Zenon
<1> QED BY <1>5, <1>6


(* What the counters and the pending siblings are. *)
Counted ==
  /\ llvm_funcs \in Seq(Siblings) /\ kernel \in Kernels /\ next \in Nat \ {0}
  /\ own \in Nat /\ raised \in Nat /\ poisoned \in Nat /\ dirty \in BOOLEAN

IInv == Counted /\ LeftByARaise

(* The statements of a kernel, and those that are calls. *)
LEMMA StatementAt ==
  ASSUME NEW k \in Kernels, NEW i \in 1 .. Len(Body[k])
  PROVE  /\ Body[k][i].op \in {"call", "other", "invalid"}
         /\ Body[k][i].op = "call" =>
              /\ Body[k][i].sibling \in Siblings /\ Body[k][i].block \in {"entry", "loop"}
              /\ Body[k][i].inputs \in Seq(Inputs)
<1>1. Body[k][i] \in Statements
  BY KernelAssumption, ElementOfSeq
<1> QED BY <1>1 DEF Statements

(* A call that is visited calls a sibling. *)
LEMMA VisitedCall ==
  ASSUME Counted, Visiting("call") PROVE Statement.sibling \in Siblings
<1>1. next \in 1 .. Len(Body[kernel]) /\ Body[kernel][next].op = "call"
  BY DEF Visiting, Counted
<1> QED BY <1>1, StatementAt DEF Counted, Statement

(* Recording a sibling adds one to what is pending and to what is own. *)
LEMMA RecordedCounts ==
  ASSUME IInv, Visiting("call"), RecordSibling
  PROVE  /\ llvm_funcs' \in Seq(Siblings) /\ own' \in Nat
         /\ Len(llvm_funcs') = Len(llvm_funcs) + 1 /\ own' = own + 1
         /\ llvm_funcs' # <<>>
<1>1. Statement.sibling \in Siblings
  BY VisitedCall DEF IInv
<1>2. llvm_funcs \in Seq(Siblings) /\ own \in Nat
  BY DEF IInv, Counted
<1>3. llvm_funcs' = Append(llvm_funcs, Statement.sibling) /\ own' = own + 1
  BY DEF RecordSibling
<1>4. /\ llvm_funcs' \in Seq(Siblings) /\ llvm_funcs' # <<>>
      /\ Len(llvm_funcs') = Len(llvm_funcs) + 1
  BY <1>1, <1>2, <1>3, AppendProperties
<1> QED BY <1>2, <1>3, <1>4

(* A raise leaves the process dirty, and may be paid for once. *)
LEMMA RaiseKeeps ==
  ASSUME IInv, VisitFails,
         llvm_funcs' \in Seq(Siblings), own' \in Nat
  PROVE  IInv'
<1>1. /\ pc' = "idle" /\ dirty' = TRUE /\ raised' = raised + 1
      /\ kernel' = kernel /\ next' = next /\ poisoned' = poisoned
  BY DEF VisitFails, Fail
<1>2. poisoned <= raised
  BY DEF IInv, Counted, LeftByARaise
<1>3. Counted'
  BY <1>1 DEF IInv, Counted
<1>4. LeftByARaise'
  BY <1>1, <1>2 DEF IInv, Counted, LeftByARaise
<1> QED BY <1>3, <1>4 DEF IInv

(* One raise while a kernel is visited spoils at most one later compile.   *)
LEMMA Inductive == Spec => []IInv
<1>1. Init => IInv
  <2>1. Init => Counted
    <3> SUFFICES ASSUME Init PROVE Counted
      OBVIOUS
    <3>1. llvm_funcs \in Seq(Siblings)
      BY EmptySeq DEF Init
    <3>2. dirty \in BOOLEAN
      BY DEF Init
    <3>3. own \in Nat /\ raised \in Nat /\ poisoned \in Nat /\ next \in Nat \ {0}
      BY DEF Init
    <3> QED BY <3>1, <3>2, <3>3 DEF Init, Counted
  <2>2. Init => LeftByARaise
    BY DEF Init, LeftByARaise
  <2> QED BY <2>1, <2>2 DEF IInv
<1>2. IInv /\ [Next]_vars => IInv'
  <2> SUFFICES ASSUME IInv, [Next]_vars PROVE IInv'
    OBVIOUS
  <2>a. Counted /\ LeftByARaise
    BY DEF IInv
  <2>b. llvm_funcs \in Seq(Siblings) /\ Len(llvm_funcs) \in Nat /\ own \in Nat
    BY <2>a, LenProperties DEF Counted
  <2>1. CASE \E k \in Kernels : Compile(k)
    <3>1. PICK k \in Kernels : Compile(k)
      BY <2>1
    <3>2. /\ pc = "idle" /\ pc' = "visit" /\ kernel' = k /\ next' = 1 /\ own' = 0
          /\ UNCHANGED <<llvm_funcs, dirty, raised, poisoned>>
      BY <3>1 DEF Compile, pending
    <3>3. Counted'
      BY <3>2, <2>a DEF Counted
    <3>4. ~dirty => llvm_funcs = <<>>
      BY <3>2, <2>a DEF LeftByARaise
    <3>5. LeftByARaise'
      BY <3>2, <3>4, <2>a, <2>b DEF LeftByARaise
    <3> QED BY <3>3, <3>5 DEF IInv
  <2>2. CASE VisitOther
    BY <2>2, <2>a DEF VisitOther, Emit, pending, history, IInv, Counted, LeftByARaise
  <2>3. CASE VisitInvalid
    BY <2>3, <2>b, RaiseKeeps DEF VisitInvalid, pending
  <2>4. CASE CallArity
    BY <2>4, <2>b, RaiseKeeps DEF CallArity, pending
  <2>5. CASE CallInput
    BY <2>5, RecordedCounts, RaiseKeeps DEF CallInput
  <2>6. CASE Call
    <3>1. /\ llvm_funcs' \in Seq(Siblings) /\ own' \in Nat
          /\ Len(llvm_funcs') = Len(llvm_funcs) + 1 /\ own' = own + 1
      BY <2>6, RecordedCounts DEF Call
    <3>2. /\ pc = "visit" /\ next' = next + 1
          /\ UNCHANGED <<pc, kernel, dirty, raised, poisoned>>
      BY <2>6 DEF Call, Emit, Visiting
    <3>3. Counted'
      BY <3>1, <3>2, <2>a DEF Counted
    <3>4. Len(llvm_funcs) >= own /\ (~dirty => Len(llvm_funcs) = own)
      <4>1. Len(<<>>) = 0
        OBVIOUS
      <4> QED BY <4>1, <3>2, <2>a, <2>b DEF LeftByARaise
    <3>5. LeftByARaise'
      BY <3>1, <3>2, <3>4, <2>a, <2>b DEF LeftByARaise
    <3> QED BY <3>3, <3>5 DEF IInv
  <2>7. CASE PassesFail
    BY <2>7, <2>b, RaiseKeeps DEF PassesFail, pending
  <2>8. CASE MakeTtir
    <3>1. /\ pc = "visit" /\ pc' = "lower" /\ llvm_funcs' = <<>> /\ dirty' = FALSE
          /\ poisoned' = IF Len(llvm_funcs) > own THEN poisoned + 1 ELSE poisoned
          /\ UNCHANGED <<kernel, next, own, raised>>
      BY <2>8 DEF MakeTtir, AtTtir, TakePending
    <3>2. Len(llvm_funcs) > own => dirty
      <4>1. Len(<<>>) = 0
        OBVIOUS
      <4> QED BY <4>1, <3>1, <2>a, <2>b DEF LeftByARaise
    <3>3. poisoned' \in Nat /\ poisoned' <= raised
      BY <3>1, <3>2, <2>a DEF Counted, LeftByARaise
    <3>4. Counted'
      BY <3>1, <3>3, <2>a, EmptySeq DEF Counted
    <3>5. LeftByARaise'
      BY <3>1, <3>3, <3>4 DEF LeftByARaise, Counted
    <3> QED BY <3>4, <3>5 DEF IInv
  <2>9. CASE Lower
    <3>1. /\ pc' = "idle"
          /\ UNCHANGED <<llvm_funcs, kernel, next, own, raised, poisoned, dirty>>
          /\ pc = "lower"
      BY <2>9 DEF Lower, pending, history
    <3> QED BY <3>1, <2>a DEF IInv, Counted, LeftByARaise
  <2>10. CASE LowerFails
    <3>1. /\ pc' = "idle"
          /\ UNCHANGED <<llvm_funcs, kernel, next, own, raised, poisoned, dirty>>
          /\ pc = "lower"
      BY <2>10 DEF LowerFails, Fail, pending
    <3> QED BY <3>1, <2>a DEF IInv, Counted, LeftByARaise
  <2>11. CASE UNCHANGED vars
    BY <2>11, <2>a DEF vars, pending, history, IInv, Counted, LeftByARaise
  <2> QED
    BY <2>1, <2>2, <2>3, <2>4, <2>5, <2>6, <2>7, <2>8, <2>9, <2>10, <2>11 DEF Next
<1> QED BY <1>1, <1>2, PTL DEF Spec

(* However many compiles raise in a process, each spoils at most one of    *)
(* those after it (PoisonedOncePerRaise): take_pending_* empty the process *)
(* for the next one.                                                       *)
THEOREM PoisonedOncePerRaiseHolds == Spec => []PoisonedOncePerRaise
<1>1. IInv => PoisonedOncePerRaise
  BY DEF IInv, Counted, LeftByARaise, PoisonedOncePerRaise
<1> QED BY <1>1, Inductive, PTL

-----------------------------------------------------------------------------
(* CompiledAsWritten.  First the lowered parameters: the one at            *)
(* LLStart(kinds, pos) is the rank or the value of parameter pos, and the  *)
(* one after a rank its descriptor.                                        *)

EntryOps == [is : {"ctx", "rank", "desc", "value"}, of : Nat]

(* The flags of the first parameters that are TRUE, counted. *)
Counts(F, W) == F[0] = 0 /\ \A n \in Nat : F[n + 1] = F[n] + W[n]

Width(kinds, W) == \A n \in Nat : W[n] = IF kinds[n + 1] THEN 1 ELSE 0

LEMMA PointersCounted ==
  ASSUME NEW kinds
  PROVE  \E F \in [Nat -> Nat], W \in [Nat -> {0, 1}] :
           /\ \A n \in Nat : F[n] = Cardinality({i \in 1 .. n : kinds[i]})
           /\ Counts(F, W) /\ Width(kinds, W)
<1> DEFINE A(n) == {i \in 1 .. n : kinds[i]}
           F == [n \in Nat |-> Cardinality(A(n))]
           W == [n \in Nat |-> IF kinds[n + 1] THEN 1 ELSE 0]
<1>1. ASSUME NEW n \in Nat PROVE IsFiniteSet(A(n)) /\ Cardinality(A(n)) \in Nat
  <2>1. IsFiniteSet(1 .. n) /\ A(n) \subseteq 1 .. n
    BY FS_Interval
  <2> HIDE DEF A
  <2> QED BY <2>1, FS_Subset, FS_CardinalityType
<1>2. A(0) = {}
  OBVIOUS
<1>3. ASSUME NEW n \in Nat
      PROVE  Cardinality(A(n + 1)) = Cardinality(A(n)) + W[n]
  <2>1. n + 1 \notin A(n)
    OBVIOUS
  <2>2. CASE kinds[n + 1]
    <3>1. A(n + 1) = A(n) \cup {n + 1}
      BY <2>2
    <3>2. W[n] = 1
      BY <2>2
    <3> HIDE DEF A, W
    <3>3. Cardinality(A(n + 1)) = Cardinality(A(n)) + 1
      BY <3>1, <2>1, <1>1, FS_AddElement
    <3> QED BY <3>2, <3>3
  <2>3. CASE ~kinds[n + 1]
    <3>1. A(n + 1) = A(n)
      BY <2>3
    <3>2. W[n] = 0
      BY <2>3
    <3> HIDE DEF A, W
    <3> QED BY <3>1, <3>2, <1>1
  <2> QED BY <2>2, <2>3
<1>4. Cardinality(A(0)) = 0
  BY <1>2, FS_EmptySet
<1> HIDE DEF A
<1>5. F \in [Nat -> Nat] /\ \A n \in Nat : F[n] = Cardinality(A(n))
  BY <1>1
<1>6. W \in [Nat -> {0, 1}] /\ Width(kinds, W)
  BY DEF Width
<1> HIDE DEF F, W
<1>7. Counts(F, W)
  BY <1>3, <1>4, <1>5 DEF Counts
<1> QED BY <1>5, <1>6, <1>7 DEF A

(* The pieces that the parameters are lowered to, and where each stands.   *)
Rank(p)  == [is |-> "rank", of |-> p]
Desc(p)  == [is |-> "desc", of |-> p]
Value(p) == [is |-> "value", of |-> p]

Pieces(kinds) ==
  [i \in DOMAIN kinds |-> IF kinds[i] THEN <<Rank(i - 1), Desc(i - 1)>> ELSE <<Value(i - 1)>>]

EntrySeqs == Seq(EntryOps)

Placed(s, at, p, width) ==
  /\ at \in 1 .. Len(s) /\ (width # 1 => s[at] = Value(p))
  /\ width = 1 => at + 1 \in 1 .. Len(s) /\ s[at] = Rank(p) /\ s[at + 1] = Desc(p)

LEMMA Joined ==
  ASSUME NEW s \in EntrySeqs, NEW q \in EntrySeqs
  PROVE  /\ s \o q \in EntrySeqs /\ Len(s) \in Nat /\ Len(q) \in Nat /\ Len(s \o q) = Len(s) + Len(q)
         /\ \A i \in 1 .. Len(s) : (s \o q)[i] = s[i]
         /\ \A i \in 1 .. Len(q) : (s \o q)[Len(s) + i] = q[i]
  BY ConcatProperties, LenProperties DEF EntrySeqs

(* What a place has it keeps when the sequence grows, and the piece that   *)
(* is added is placed after what there was.                                *)
LEMMA StillPlaced ==
  ASSUME NEW s \in EntrySeqs, NEW q \in EntrySeqs, NEW at \in Nat, NEW p, NEW width,
         Placed(s, at, p, width)
  PROVE  Placed(s \o q, at, p, width)
<1> DEFINE t == s \o q
<1>1. /\ Len(s) \in Nat /\ Len(q) \in Nat /\ Len(t) = Len(s) + Len(q)
      /\ \A i \in 1 .. Len(s) : t[i] = s[i]
  BY Joined
<1> HIDE DEF t
<1>2. \A i \in 1 .. Len(s) : i \in 1 .. Len(t) /\ t[i] = s[i]
  BY <1>1
<1>3. Placed(t, at, p, width)
  BY <1>2, Zenon DEF Placed
<1> QED BY <1>3 DEF t

LEMMA NewlyPlaced ==
  ASSUME NEW s \in EntrySeqs, NEW q \in EntrySeqs, NEW p, NEW width,
         width # 1 => Len(q) = 1 /\ q[1] = Value(p),
         width = 1 => Len(q) = 2 /\ q[1] = Rank(p) /\ q[2] = Desc(p)
  PROVE  Placed(s \o q, Len(s) + 1, p, width)
<1> DEFINE at == Len(s) + 1
           t == s \o q
<1>1. /\ Len(s) \in Nat /\ Len(q) \in Nat /\ Len(t) = Len(s) + Len(q)
      /\ \A i \in 1 .. Len(q) : t[Len(s) + i] = q[i]
  BY Joined
<1> HIDE DEF t
<1>2. CASE width # 1
  <2>1. Len(q) = 1 /\ 1 \in 1 .. Len(q)
    BY <1>2
  <2>2. at \in 1 .. Len(t) /\ t[at] = q[1]
    BY <1>1, <2>1
  <2> QED BY <1>2, <2>2 DEF Placed, t
<1>3. CASE width = 1
  <2>1. Len(q) = 2 /\ 1 \in 1 .. Len(q) /\ 2 \in 1 .. Len(q)
    BY <1>3
  <2>2. at \in 1 .. Len(t) /\ t[at] = q[1]
    BY <1>1, <2>1
  <2>3. at + 1 \in 1 .. Len(t) /\ at + 1 = Len(s) + 2
    BY <1>1, <2>1
  <2>4. t[at + 1] = q[2]
    BY <1>1, <2>1, <2>3
  <2> QED BY <1>3, <2>2, <2>3, <2>4 DEF Placed, t
<1> QED BY <1>2, <1>3

LEMMA PiecesPlaced ==
  ASSUME NEW kinds, Len(kinds) \in Nat, DOMAIN kinds = 1 .. Len(kinds),
         NEW F \in [Nat -> Nat], NEW W \in [Nat -> {0, 1}],
         Counts(F, W), Width(kinds, W)
  PROVE  /\ FlattenSeq(Pieces(kinds)) \in EntrySeqs
         /\ Len(FlattenSeq(Pieces(kinds))) = Len(kinds) + F[Len(kinds)]
         /\ \A p \in 0 .. Len(kinds) - 1 :
              Placed(FlattenSeq(Pieces(kinds)), p + F[p] + 1, p, W[p])
<1> DEFINE N == Len(kinds)
           ss == Pieces(kinds)
<1>1. N \in Nat /\ DOMAIN kinds = 1 .. N
  OBVIOUS
<1>2. DOMAIN ss = 1 .. N /\ Len(ss) = N
  BY <1>1 DEF Pieces
<1>3. ASSUME NEW m \in Nat, m + 1 \in 1 .. N
      PROVE  /\ ss[m + 1] \in EntrySeqs
             /\ W[m] # 1 => W[m] = 0 /\ Len(ss[m + 1]) = 1 /\ ss[m + 1][1] = Value(m)
             /\ W[m] = 1 => Len(ss[m + 1]) = 2 /\ ss[m + 1][1] = Rank(m) /\ ss[m + 1][2] = Desc(m)
  <2>1. (m + 1) - 1 = m
    OBVIOUS
  <2>2. ss[m + 1] = IF kinds[m + 1] THEN <<Rank(m), Desc(m)>> ELSE <<Value(m)>>
    BY <1>1, <1>3, <2>1 DEF Pieces
  <2>3. Rank(m) \in EntryOps /\ Desc(m) \in EntryOps /\ Value(m) \in EntryOps
    BY DEF EntryOps, Rank, Desc, Value
  <2>4. CASE kinds[m + 1]
    <3>1. W[m] = 1
      BY <2>4 DEF Width
    <3>2. ss[m + 1] = <<Rank(m), Desc(m)>>
      BY <2>2, <2>4, Zenon
    <3>3. ss[m + 1] \in EntrySeqs
      BY <3>2, <2>3 DEF EntrySeqs
    <3> QED BY <3>1, <3>2, <3>3
  <2>5. CASE ~kinds[m + 1]
    <3>1. W[m] = 0
      BY <2>5 DEF Width
    <3>2. ss[m + 1] = <<Value(m)>>
      BY <2>2, <2>5, Zenon
    <3>3. ss[m + 1] \in EntrySeqs
      BY <3>2, <2>3 DEF EntrySeqs
    <3> QED BY <3>1, <3>2, <3>3
  <2> QED BY <2>4, <2>5
<1>4. CASE N = 0
  <2>1. FlattenSeq(ss) = ss
    BY <1>2, <1>4 DEF FlattenSeq
  <2>2. ss = <<>>
    BY <1>1, <1>4 DEF Pieces
  <2>3. <<>> \in EntrySeqs /\ Len(<<>>) = 0
    BY DEF EntrySeqs
  <2>4. FlattenSeq(ss) = <<>> /\ F[N] = 0 /\ 0 .. N - 1 = {}
    BY <2>1, <2>2, <1>4 DEF Counts
  <2> QED BY <2>3, <2>4, <1>4
<1>5. CASE N # 0
  <2> HIDE DEF ss, N
  <2>1. N \in Nat \ {0}
    BY <1>1, <1>5
  <2>2. PICK f : /\ \A i \in 1 .. N : f[i] = IF i = 1 THEN ss[i] ELSE f[i - 1] \o ss[i]
                 /\ FlattenSeq(ss) = f[N]
    BY <2>1, <1>2, FlattenSeqDef, Zenon
  <2> DEFINE Good(s, m) == /\ s \in EntrySeqs /\ Len(s) = m + F[m]
                           /\ \A p \in 0 .. m - 1 : Placed(s, p + F[p] + 1, p, W[p])
             S == {m \in Nat : m \in 1 .. N => Good(f[m], m)}
  <2>3. 0 \in S
    OBVIOUS
  <2>4. ASSUME NEW m \in Nat, NEW s, Good(s, m), m + 1 \in 1 .. N
        PROVE  Good(s \o ss[m + 1], m + 1)
    <3> DEFINE q == ss[m + 1]
    <3>1. s \in EntrySeqs /\ q \in EntrySeqs /\ Len(s) = m + F[m]
      BY <1>3, <2>4
    <3>2. Len(q) = 1 + W[m]
      <4>1. W[m] \in {0, 1}
        OBVIOUS
      <4>2. CASE W[m] = 1
        <5>1. Len(q) = 2
          BY <4>2, <1>3, <2>4, Zenon
        <5> QED BY <4>2, <5>1
      <4>3. CASE W[m] # 1
        <5>1. Len(q) = 1
          BY <4>3, <1>3, <2>4, Zenon
        <5> QED BY <4>1, <4>3, <5>1
      <4> QED BY <4>2, <4>3
    <3>3. F[m] \in Nat /\ W[m] \in {0, 1} /\ F[m + 1] = F[m] + W[m]
      BY DEF Counts
    <3>4. Placed(s \o q, Len(s) + 1, m, W[m])
      BY <1>3, <2>4, <3>1, NewlyPlaced
    <3>5. Len(s) + 1 = m + F[m] + 1
      BY <3>1
    <3> HIDE DEF q
    <3>6. s \o q \in EntrySeqs /\ Len(s \o q) = Len(s) + Len(q)
      BY <3>1, Joined
    <3>7. Len(s \o q) = m + 1 + F[m + 1]
      <4> DEFINE l == Len(s)  w == W[m]  x == F[m]  y == F[m + 1]
      <4>1. /\ l = m + x /\ Len(q) = 1 + w /\ x \in Nat /\ w \in Nat /\ y = x + w
            /\ Len(s \o q) = l + Len(q)
        BY <3>1, <3>2, <3>3, <3>6
      <4> HIDE DEF l, w, x, y
      <4>2. Len(s \o q) = m + 1 + y
        BY <4>1
      <4> QED BY <4>2 DEF y
    <3>8. ASSUME NEW p \in 0 .. m PROVE Placed(s \o q, p + F[p] + 1, p, W[p])
      <4>1. CASE p # m
        <5>1. p \in 0 .. m - 1
          BY <4>1
        <5>2. Placed(s, p + F[p] + 1, p, W[p])
          BY <5>1, <2>4
        <5>a. p \in Nat
          BY <5>1
        <5>b. F[p] \in Nat
          BY <5>a
        <5> DEFINE x == F[p]
        <5>c. x \in Nat
          BY <5>b
        <5> HIDE DEF x, Good
        <5>3. p + x + 1 \in Nat
          BY <5>a, <5>c
        <5> QED BY <5>2, <5>3, <3>1, StillPlaced DEF x
      <4>2. CASE p = m
        BY <4>2, <3>4, <3>5
      <4> QED BY <4>1, <4>2
    <3>9. 0 .. (m + 1) - 1 = 0 .. m
      OBVIOUS
    <3> QED BY <3>6, <3>7, <3>8, <3>9 DEF q
  <2>5. ASSUME NEW m \in Nat, m \in S PROVE m + 1 \in S
    <3>1. SUFFICES ASSUME m + 1 \in 1 .. N PROVE Good(f[m + 1], m + 1)
      OBVIOUS
    <3>2. CASE m = 0
      <4>1. Good(<<>>, 0)
        BY DEF EntrySeqs, Counts
      <4>2. Good(<<>> \o ss[1], 1)
        <5>1. 0 \in Nat /\ 0 + 1 = 1 /\ 0 + 1 \in 1 .. N
          BY <3>1, <3>2
        <5> HIDE DEF Good
        <5> QED BY <5>1, <4>1, <2>4
      <4>3. f[1] = ss[1] /\ <<>> \o ss[1] = ss[1]
        <5>1. f[1] = ss[1]
          BY <2>2, <3>1, <3>2
        <5>2. ss[0 + 1] \in EntrySeqs
          BY <1>3, <3>1, <3>2
        <5> QED BY <5>1, <5>2 DEF EntrySeqs
      <4>4. Good(f[1], 1) /\ m + 1 = 1
        BY <4>2, <4>3, <3>2
      <4> HIDE DEF Good
      <4> QED BY <4>4
    <3>3. CASE m # 0
      <4>1. m \in 1 .. N /\ m + 1 # 1 /\ (m + 1) - 1 = m
        BY <3>1, <3>3, <2>1
      <4>2. f[m + 1] = f[m] \o ss[m + 1]
        BY <4>1, <3>1, <2>2
      <4>3. Good(f[m], m)
        BY <4>1, <2>5
      <4> HIDE DEF Good
      <4> QED BY <4>2, <4>3, <3>1, <2>4
    <3> QED BY <3>2, <3>3
  <2>6. N \in S
    <3> HIDE DEF S
    <3> QED BY <1>1, <2>3, <2>5, SetInduction
  <2>7. Good(f[N], N)
    BY <2>6, <2>1
  <2> QED BY <2>7, <2>2 DEF ss, N
<1> QED BY <1>4, <1>5

(* The value a bridge passes is the parameter of that position, or the     *)
(* bridge is refused.                                                      *)
LEMMA BridgedParameter ==
  ASSUME kernel \in Kernels, NEW arg, arg.pos \in Nat, Bridgeable(IsPtr[kernel], arg)
  PROVE  EntryArgs[LLIndex(IsPtr[kernel], arg) + 1].of = arg.pos
<1> DEFINE kinds == IsPtr[kernel]
           flat == FlattenSeq(Pieces(kinds))
           p == arg.pos
           N == Len(kinds)
           k == LLIndex(kinds, arg)
           one == <<[is |-> "ctx", of |-> 0]>>
<1>1. Len(kinds) \in Nat /\ DOMAIN kinds = 1 .. Len(kinds)
  <2>1. kinds \in Seq(BOOLEAN)
    BY KernelAssumption
  <2> QED BY <2>1, LenProperties
<1>2. EntryArgs = one \o flat
  BY DEF EntryArgs, Pieces, Rank, Desc, Value
<1>3. one \in EntrySeqs /\ Len(one) = 1
  BY DEF EntrySeqs, EntryOps
<1>4. p \in Nat /\ N \in Nat /\ p < N
  BY <1>1 DEF Bridgeable
<1>5. PICK F \in [Nat -> Nat], W \in [Nat -> {0, 1}] :
        /\ \A n \in Nat : F[n] = Cardinality({i \in 1 .. n : kinds[i]})
        /\ Counts(F, W) /\ Width(kinds, W)
  BY PointersCounted
<1>6. LLStart(kinds, p) = 1 + p + F[p]
  BY <1>4, <1>5 DEF LLStart, Ctx
<1>7. /\ flat \in EntrySeqs /\ Len(flat) = N + F[N]
      /\ \A q \in 0 .. N - 1 : Placed(flat, q + F[q] + 1, q, W[q])
  BY <1>1, <1>5, PiecesPlaced
<1>8. k = 1 + p + F[p] + (IF arg.kind = "ptr" THEN 1 ELSE 0)
  BY <1>6 DEF LLIndex
<1>9. /\ k < Len(EntryArgs) /\ EntryArgs[k + 1].is = IF arg.kind = "ptr" THEN "desc" ELSE "value"
  BY DEF Bridgeable
<1>10. F[p] \in Nat /\ F[N] \in Nat /\ W[p] \in {0, 1} /\ F[p + 1] = F[p] + W[p]
  BY <1>4, <1>5 DEF Counts
<1> HIDE DEF flat, kinds, p, N, k, one
<1>11. /\ Len(flat) \in Nat /\ Len(EntryArgs) = 1 + Len(flat)
       /\ \A i \in 1 .. Len(flat) : EntryArgs[1 + i] = flat[i]
  <2>1. /\ Len(flat) \in Nat /\ Len(one \o flat) = Len(one) + Len(flat)
        /\ \A i \in 1 .. Len(flat) : (one \o flat)[Len(one) + i] = flat[i]
    BY <1>3, <1>7, Joined
  <2> QED BY <2>1, <1>2, <1>3
<1>12. k \in 1 .. Len(flat) /\ k \in Nat
  <2> DEFINE x == F[p]  l == Len(EntryArgs)
             w == IF arg.kind = "ptr" THEN 1 ELSE 0
  <2>1. /\ x \in Nat /\ w \in {0, 1} /\ k = 1 + p + x + w /\ k < l /\ l = 1 + Len(flat)
    BY <1>8, <1>9, <1>10, <1>11
  <2> HIDE DEF x, w, l
  <2>2. p \in Nat /\ Len(flat) \in Nat
    BY <1>4, <1>11
  <2>3. k \in Nat /\ k >= 1
    <3>1. x \in Nat /\ p \in Nat /\ k = 1 + p + x + w
      BY <2>1, <2>2
    <3>2. CASE w = 0
      BY <3>1, <3>2
    <3>3. CASE w = 1
      BY <3>1, <3>3
    <3> QED BY <2>1, <3>2, <3>3
  <2>4. k < 1 + Len(flat)
    BY <2>1
  <2> QED BY <2>2, <2>3, <2>4
<1>13. EntryArgs[k + 1] = flat[k]
  <2>1. k + 1 = 1 + k
    BY <1>12
  <2> QED BY <2>1, <1>11, <1>12
<1>14. Placed(flat, p + F[p] + 1, p, W[p])
  BY <1>4, <1>7
<1>15. Rank(p).of = p /\ Desc(p).of = p /\ Value(p).of = p
  BY DEF Rank, Desc, Value
<1>16. flat[k].of = p
  <2>1. CASE arg.kind # "ptr"
    <3>1. k = p + F[p] + 1
      BY <1>4, <1>8, <1>10, <2>1
    <3> QED BY <3>1, <1>14, <1>15 DEF Placed
  <2>2. CASE arg.kind = "ptr" /\ W[p] = 1
    <3>1. k = p + F[p] + 1 + 1
      BY <1>4, <1>8, <1>10, <2>2
    <3> QED BY <3>1, <2>2, <1>14, <1>15 DEF Placed
  <2>3. CASE arg.kind = "ptr" /\ W[p] # 1
    <3>1. k = (p + 1) + F[p + 1] + 1 /\ F[p + 1] = F[p]
      BY <1>4, <1>8, <1>10, <2>3
    <3>2. p + 1 # N
      BY <3>1, <1>4, <1>7, <1>10, <1>12
    <3>3. p + 1 \in 0 .. N - 1
      BY <3>2, <1>4
    <3>4. Placed(flat, k, p + 1, W[p + 1])
      BY <3>1, <3>3, <1>7
    <3>5. flat[k] \in {Rank(p + 1), Value(p + 1)}
      BY <3>4 DEF Placed
    <3>6. flat[k].is # "desc"
      BY <3>5 DEF Rank, Value
    <3> QED BY <3>6, <1>9, <1>13, <2>3
  <2> QED BY <2>1, <2>2, <2>3
<1>17. EntryArgs[k + 1].of = p
  BY <1>13, <1>16
<1> QED BY <1>17 DEF k, p, kinds

-----------------------------------------------------------------------------
(* What a clean compile has recorded after its first n statements.         *)

HostOps == [op : {"other", "anchor"}, index : Nat]

Own(i)    == [op |-> "other", index |-> i]
Anchor(j) == [op |-> "anchor", index |-> j - 1]

CallStatements == [op : {"call"}, sibling : Siblings, block : {"entry", "loop"}, inputs : Seq(Inputs)]

CallSpec(st) ==
  [callee |-> st.sibling,
   arg_bridge |-> [i \in DOMAIN st.inputs |->
                     [pos |-> st.inputs[i].index, kind |-> Params[st.sibling][i]]]]

CallSpecs == {CallSpec(st) : st \in {s \in CallStatements : Len(s.inputs) = Len(Params[s.sibling])}}

Emitted(k, i, h, funcs, calls) ==
  IF Body[k][i].op = "call"
    THEN \E j \in 1 .. Len(calls) : /\ h[i] = Anchor(j)
                                    /\ calls[j] = CallSpec(Body[k][i])
                                    /\ funcs[j] = Body[k][i].sibling
    ELSE h[i] = Own(i)

CalledBy(k, n, f) == \E i \in 1 .. n : Body[k][i].op = "call" /\ f = Body[k][i].sibling

Recorded(k, n, h, funcs, calls, kinds) ==
  /\ n \in 0 .. Len(Body[k]) /\ h \in Seq(HostOps) /\ Len(h) = n
  /\ funcs \in Seq(Siblings) /\ calls \in Seq(CallSpecs) /\ Len(calls) = Len(funcs)
  /\ \A i \in 1 .. n : Emitted(k, i, h, funcs, calls)
  /\ \A j \in 1 .. Len(funcs) : CalledBy(k, n, funcs[j])
  /\ calls = <<>> => kinds = <<>>
  /\ calls # <<>> /\ LaunchInputsOnly(k) => kinds = IsPtr[k]

LEMMA BodyLength == ASSUME NEW k \in Kernels PROVE Len(Body[k]) \in Nat
  BY KernelAssumption, LenProperties

LEMMA RecordedNothing == ASSUME NEW k \in Kernels PROVE Recorded(k, 0, <<>>, <<>>, <<>>, <<>>)
  BY BodyLength DEF Recorded

LEMMA RecordedOther ==
  ASSUME NEW k \in Kernels, NEW n, NEW h, NEW funcs, NEW calls, NEW kinds,
         Recorded(k, n, h, funcs, calls, kinds), n + 1 <= Len(Body[k]), Body[k][n + 1].op = "other"
  PROVE  Recorded(k, n + 1, Append(h, Own(n + 1)), funcs, calls, kinds)
<1> DEFINE g == Append(h, Own(n + 1))
<1>1. n \in Nat /\ n + 1 \in 0 .. Len(Body[k]) /\ h \in Seq(HostOps) /\ Len(h) = n
  BY BodyLength DEF Recorded
<1>2. Own(n + 1) \in HostOps
  BY <1>1 DEF Own, HostOps
<1>3. g \in Seq(HostOps) /\ Len(g) = n + 1 /\ g[n + 1] = Own(n + 1) /\ \A i \in 1 .. n : g[i] = h[i]
  BY <1>1, <1>2, AppendProperties
<1> HIDE DEF g
<1>4. ASSUME NEW i \in 1 .. n + 1 PROVE Emitted(k, i, g, funcs, calls)
  <2>1. CASE i = n + 1
    BY <2>1, <1>3 DEF Emitted
  <2>2. CASE i # n + 1
    <3>1. i \in 1 .. n
      BY <2>2, <1>1
    <3>2. Emitted(k, i, h, funcs, calls) /\ g[i] = h[i]
      BY <3>1, <1>3 DEF Recorded
    <3> QED BY <3>2 DEF Emitted
  <2> QED BY <2>1, <2>2
<1>5. \A f : CalledBy(k, n, f) => CalledBy(k, n + 1, f)
  <2>1. 1 .. n \subseteq 1 .. n + 1
    BY <1>1
  <2> QED BY <2>1, Zenon DEF CalledBy
<1> QED BY <1>1, <1>3, <1>4, <1>5, Zenon DEF Recorded, g

LEMMA RecordedCall ==
  ASSUME NEW k \in Kernels, NEW n, NEW h, NEW funcs, NEW calls, NEW kinds, NEW new,
         Recorded(k, n, h, funcs, calls, kinds), n + 1 <= Len(Body[k]),
         NEW st, st = Body[k][n + 1], st.op = "call",
         Len(st.inputs) = Len(Params[st.sibling]),
         LaunchInputsOnly(k) => new = IsPtr[k]
  PROVE  Recorded(k, n + 1, Append(h, Anchor(Len(calls) + 1)), Append(funcs, st.sibling),
                  Append(calls, CallSpec(st)), new)
<1> DEFINE g == Append(h, Anchor(Len(calls) + 1))
           fs == Append(funcs, st.sibling)
           cs == Append(calls, CallSpec(st))
           l == Len(calls)
<1>1. /\ n \in Nat /\ n + 1 \in 0 .. Len(Body[k]) /\ n + 1 \in 1 .. Len(Body[k])
      /\ h \in Seq(HostOps) /\ Len(h) = n
      /\ funcs \in Seq(Siblings) /\ calls \in Seq(CallSpecs) /\ Len(funcs) = l /\ l \in Nat
  BY BodyLength, LenProperties DEF Recorded
<1>2. Anchor(l + 1) \in HostOps
  BY <1>1 DEF Anchor, HostOps
<1>3. st \in CallStatements
  <2>1. st \in Statements
    BY <1>1, KernelAssumption, ElementOfSeq
  <2> QED BY <2>1 DEF Statements, CallStatements
<1>4. st.sibling \in Siblings /\ CallSpec(st) \in CallSpecs
  BY <1>3 DEF CallStatements, CallSpecs
<1>5. g \in Seq(HostOps) /\ Len(g) = n + 1 /\ g[n + 1] = Anchor(l + 1) /\ \A i \in 1 .. n : g[i] = h[i]
  BY <1>1, <1>2, AppendProperties
<1>6. /\ fs \in Seq(Siblings) /\ Len(fs) = l + 1 /\ fs[l + 1] = st.sibling
      /\ \A j \in 1 .. l : fs[j] = funcs[j]
  BY <1>1, <1>4, AppendProperties
<1>7. /\ cs \in Seq(CallSpecs) /\ Len(cs) = l + 1 /\ cs[l + 1] = CallSpec(st)
      /\ \A j \in 1 .. l : cs[j] = calls[j]
  BY <1>1, <1>4, AppendProperties
<1> HIDE DEF g, fs, cs
<1>8. l + 1 \in 1 .. l + 1 /\ 1 .. l \subseteq 1 .. l + 1 /\ n + 1 \in 1 .. n + 1 /\ 1 .. n \subseteq 1 .. n + 1
  BY <1>1
<1>9. /\ \A i \in 1 .. n + 1 : i = n + 1 \/ i \in 1 .. n
      /\ \A j \in 1 .. l + 1 : j = l + 1 \/ j \in 1 .. l
  <2>1. n \in Nat /\ l \in Nat
    BY <1>1
  <2> HIDE DEF l
  <2> QED BY <2>1
<1>10. ASSUME NEW i \in 1 .. n + 1 PROVE Emitted(k, i, g, fs, cs)
  <2>1. CASE i = n + 1
    BY <2>1, <1>5, <1>6, <1>7, <1>8, Zenon DEF Emitted
  <2>2. CASE i \in 1 .. n
    <3>1. Emitted(k, i, h, funcs, calls) /\ g[i] = h[i]
      BY <2>2, <1>5 DEF Recorded
    <3> QED BY <3>1, <1>6, <1>7, <1>8, Zenon DEF Emitted
  <2> QED BY <2>1, <2>2, <1>9
<1>11. ASSUME NEW j \in 1 .. l + 1 PROVE CalledBy(k, n + 1, fs[j])
  <2>1. CASE j = l + 1
    BY <2>1, <1>6, <1>8, Zenon DEF CalledBy
  <2>2. CASE j \in 1 .. l
    <3>1. CalledBy(k, n, funcs[j]) /\ fs[j] = funcs[j]
      BY <2>2, <1>1, <1>6, Zenon DEF Recorded
    <3> QED BY <3>1, <1>8, Zenon DEF CalledBy
  <2> QED BY <2>1, <2>2, <1>9
<1>12. cs # <<>>
  <2>1. Len(<<>>) = 0
    OBVIOUS
  <2> QED BY <2>1, <1>1, <1>7
<1>13. Recorded(k, n + 1, g, fs, cs, new)
  BY <1>1, <1>5, <1>6, <1>7, <1>10, <1>11, <1>12 DEF Recorded
<1> QED BY <1>13 DEF g, fs, cs, l

(* What a recorded host is lowered to.                                     *)
LEMMA LoweredAsWritten ==
  ASSUME kernel \in Kernels, LaunchInputsOnly(kernel), Mixed => Injectable,
         Recorded(kernel, Len(Body[kernel]), host, metadata.funcs, metadata.calls, metadata.kinds)
  PROVE  /\ (IF Mixed THEN Injected ELSE host) = Written(kernel)
         /\ {metadata.funcs[i] : i \in DOMAIN metadata.funcs}
              = {Body[kernel][i].sibling : i \in Calls(kernel)}
<1> DEFINE N == Len(Body[kernel])
           funcs == metadata.funcs
           calls == metadata.calls
<1>1. N \in Nat /\ DOMAIN Body[kernel] = 1 .. N
  BY KernelAssumption, LenProperties
<1>2. /\ host \in Seq(HostOps) /\ Len(host) = N /\ DOMAIN host = 1 .. N
      /\ host = [i \in 1 .. N |-> host[i]]
  BY LenProperties DEF Recorded
<1>3. /\ funcs \in Seq(Siblings) /\ calls \in Seq(CallSpecs) /\ Len(calls) = Len(funcs) /\ Len(calls) \in Nat
      /\ DOMAIN funcs = 1 .. Len(calls) /\ DOMAIN calls = 1 .. Len(calls)
  BY LenProperties DEF Recorded
<1>4. /\ \A i \in 1 .. N : Emitted(kernel, i, host, funcs, calls)
      /\ \A j \in 1 .. Len(calls) : CalledBy(kernel, N, funcs[j])
  BY <1>3 DEF Recorded
<1>5. calls # <<>> => metadata.kinds = IsPtr[kernel]
  BY DEF Recorded
<1>6. \A i : i \in Calls(kernel) <=> i \in 1 .. N /\ Body[kernel][i].op = "call"
  BY <1>1 DEF Calls
<1> HIDE DEF N, funcs, calls
<1>7. {funcs[i] : i \in DOMAIN funcs} = {Body[kernel][i].sibling : i \in Calls(kernel)}
  <2>1. ASSUME NEW j \in DOMAIN funcs PROVE \E i \in Calls(kernel) : funcs[j] = Body[kernel][i].sibling
    BY <1>3, <1>4, <1>6, <2>1 DEF CalledBy
  <2>2. ASSUME NEW i \in Calls(kernel) PROVE \E j \in DOMAIN funcs : funcs[j] = Body[kernel][i].sibling
    BY <1>3, <1>4, <1>6, <2>2 DEF Emitted
  <2> QED BY <2>1, <2>2
<1>8. Written(kernel) = [i \in 1 .. N |-> Written(kernel)[i]]
  BY <1>1 DEF Written
<1>9. ASSUME NEW i \in 1 .. N, Body[kernel][i].op # "call"
      PROVE  host[i] = Own(i) /\ Written(kernel)[i] = host[i]
  <2>1. host[i] = Own(i)
    BY <1>4, <1>9 DEF Emitted
  <2> QED BY <2>1, <1>1, <1>9 DEF Own, Written, Calls
<1>10. CASE calls = <<>>
  <2>1. Len(calls) = 0
    BY <1>10
  <2>2. \A i \in 1 .. N : Body[kernel][i].op # "call"
    BY <1>3, <1>4, <2>1 DEF Emitted
  <2>3. host = Written(kernel)
    BY <1>2, <1>8, <1>9, <2>2
  <2>4. Injected = host
    <3>1. DOMAIN calls = {} /\ ~\E n \in DOMAIN calls : Anchored(n - 1)
      BY <1>3, <2>1
    <3>2. Injected = host \o [n \in DOMAIN calls |-> Bridge(metadata.kinds, calls[n])]
      BY <3>1, Zenon DEF Injected, calls
    <3>3. [n \in DOMAIN calls |-> Bridge(metadata.kinds, calls[n])] = <<>>
      BY <3>1
    <3>4. host \in Seq(HostOps)
      BY <1>2
    <3>5. host \o <<>> = host
      BY <3>4
    <3> QED BY <3>2, <3>3, <3>5
  <2> QED BY <2>3, <2>4, <1>7 DEF funcs
<1>11. CASE calls # <<>>
  <2>1. Mixed
    BY <1>11 DEF Mixed, NotMixed, calls
  <2>2. metadata.kinds = IsPtr[kernel]
    BY <1>5, <1>11
  <2>3. ASSUME NEW i \in 1 .. N, Body[kernel][i].op = "call"
        PROVE  \E j \in 1 .. Len(calls) :
                 /\ host[i] = Anchor(j) /\ Anchored(j - 1)
                 /\ Bridge(metadata.kinds, calls[j]) = Written(kernel)[i]
    <3> DEFINE st == Body[kernel][i]
    <3>1. PICK j \in 1 .. Len(calls) : host[i] = Anchor(j) /\ calls[j] = CallSpec(st)
      BY <1>4, <2>3 DEF Emitted
    <3>2. Anchored(j - 1)
      BY <1>2, <3>1 DEF Anchored, Anchor
    <3>3. j \in Bridged
      BY <1>3, <3>1, <3>2 DEF Bridged, calls
    <3>4. st \in CallStatements
      <4>1. st \in Statements
        BY KernelAssumption, ElementOfSeq DEF N
      <4> QED BY <4>1, <2>3 DEF Statements, CallStatements
    <3>5. ASSUME NEW x \in DOMAIN st.inputs
          PROVE  EntryArgs[LLIndex(metadata.kinds, calls[j].arg_bridge[x]) + 1].of = st.inputs[x].index
      <4> DEFINE arg == calls[j].arg_bridge[x]
      <4>1. arg.pos = st.inputs[x].index
        BY <3>1 DEF CallSpec
      <4>2. st.inputs \in Seq(Inputs)
        BY <3>4 DEF CallStatements
      <4>3. st.inputs[x] \in Inputs
        BY <4>2
      <4>4. arg.pos \in Nat
        BY <4>1, <4>3 DEF Inputs
      <4>5. x \in DOMAIN calls[j].arg_bridge
        BY <3>1 DEF CallSpec
      <4>6. Bridgeable(IsPtr[kernel], arg)
        BY <2>1, <2>2, <3>3, <4>5, Zenon DEF Injectable, calls
      <4> HIDE DEF arg
      <4>7. EntryArgs[LLIndex(IsPtr[kernel], arg) + 1].of = arg.pos
        BY <4>4, <4>6, BridgedParameter
      <4> QED BY <4>1, <4>7, <2>2 DEF arg
    <3> DEFINE operand(x) == EntryArgs[LLIndex(metadata.kinds, calls[j].arg_bridge[x]) + 1].of
    <3>6. DOMAIN calls[j].arg_bridge = DOMAIN st.inputs /\ calls[j].callee = st.sibling
      BY <3>1 DEF CallSpec
    <3>7. Bridge(metadata.kinds, calls[j])
            = [op |-> "bridge", callee |-> st.sibling, operands |-> [x \in DOMAIN st.inputs |-> operand(x)]]
      BY <3>6, Zenon DEF Bridge
    <3>8. Written(kernel)[i]
            = [op |-> "bridge", callee |-> st.sibling,
               operands |-> [x \in DOMAIN st.inputs |-> st.inputs[x].index]]
      BY <1>1, <1>6, <2>3, Zenon DEF Written
    <3>9. [x \in DOMAIN st.inputs |-> operand(x)] = [x \in DOMAIN st.inputs |-> st.inputs[x].index]
      BY <3>5
    <3> HIDE DEF operand, st
    <3> QED BY <3>1, <3>2, <3>7, <3>8, <3>9
  <2>4. \E n \in DOMAIN calls : Anchored(n - 1)
    <3>1. 1 \in 1 .. Len(calls)
      BY <1>3, <1>11, EmptySeq
    <3>2. PICK i \in 1 .. N : Body[kernel][i].op = "call"
      BY <3>1, <1>4 DEF CalledBy
    <3> QED BY <2>3, <3>2, <1>3
  <2>5. Injected = [i \in 1 .. N |-> IF host[i].op = "anchor"
                                      THEN Bridge(metadata.kinds, calls[host[i].index + 1])
                                      ELSE host[i]]
    BY <2>4, <1>2, Zenon DEF Injected, calls
  <2>6. ASSUME NEW i \in 1 .. N PROVE Injected[i] = Written(kernel)[i]
    <3>1. CASE Body[kernel][i].op # "call"
      <4>1. host[i] = Own(i) /\ Written(kernel)[i] = host[i]
        BY <1>9, <3>1
      <4>2. host[i].op # "anchor"
        BY <4>1 DEF Own
      <4> QED BY <2>5, <4>1, <4>2
    <3>2. CASE Body[kernel][i].op = "call"
      <4>1. PICK j \in 1 .. Len(calls) :
              host[i] = Anchor(j) /\ Bridge(metadata.kinds, calls[j]) = Written(kernel)[i]
        BY <2>3, <3>2
      <4>2. host[i].op = "anchor" /\ host[i].index + 1 = j
        BY <4>1, <1>3 DEF Anchor
      <4> QED BY <2>5, <4>1, <4>2
    <3> QED BY <3>1, <3>2
  <2>7. Injected = Written(kernel)
    BY <2>5, <2>6, <1>8
  <2> QED BY <2>1, <2>7, <1>7 DEF funcs
<1> QED BY <1>10, <1>11

-----------------------------------------------------------------------------
(* The invariant: a clean visit has recorded what is behind it, and what   *)
(* make_ttir took of a clean visit is all of the kernel.                   *)

AsWritten ==
  /\ binary = Written(kernel)
  /\ {metadata.funcs[i] : i \in DOMAIN metadata.funcs} = {Body[kernel][i].sibling : i \in Calls(kernel)}

Types ==
  /\ kernel \in Kernels /\ llvm_calls \in Seq(CallSpecs) /\ host_arg_kinds \in Seq(BOOLEAN)
  /\ pc \in {"idle", "visit", "lower"} /\ next \in 1 .. Len(Body[kernel]) + 1
  /\ host \in Seq(HostOps) /\ Len(host) = next - 1
  /\ outcome \in {"none", "ok", "raised"} /\ dirty \in BOOLEAN /\ exposed \in BOOLEAN

CleanInv ==
  /\ pc # "idle" => outcome = "none"
  /\ pc = "visit" => exposed = dirty
  /\ pc # "visit" /\ ~dirty => llvm_funcs = <<>> /\ llvm_calls = <<>> /\ host_arg_kinds = <<>>
  /\ pc = "visit" /\ ~dirty =>
       Recorded(kernel, next - 1, host, llvm_funcs, llvm_calls, host_arg_kinds)
  /\ pc = "lower" /\ ~exposed =>
       Recorded(kernel, Len(Body[kernel]), host, metadata.funcs, metadata.calls, metadata.kinds)
  /\ pc = "idle" /\ outcome = "ok" /\ ~exposed /\ LaunchInputsOnly(kernel) => AsWritten

WInv == Types /\ CleanInv

(* A call that is visited has a specification, whose block's kinds are     *)
(* flags, those of the host's parameters when the kernel is well formed.   *)
LEMMA CallVisited ==
  ASSUME Types, Visiting("call"), ArityOK
  PROVE  /\ Statement \in CallStatements /\ CallSpec(Statement) \in CallSpecs
         /\ BlockKinds \in Seq(BOOLEAN)
<1>1. kernel \in Kernels /\ next \in 1 .. Len(Body[kernel]) /\ Statement.op = "call"
  BY BodyLength DEF Visiting, Types, Statement
<1>2. Statement \in Statements
  BY <1>1, KernelAssumption, ElementOfSeq DEF Statement
<1>3. Statement \in CallStatements
  BY <1>1, <1>2 DEF Statements, CallStatements
<1> QED BY <1>1, <1>3, KernelAssumption DEF CallSpecs, ArityOK, BlockKinds

(* A raise, and what it leaves recorded. *)
LEMMA RaiseTypes ==
  ASSUME WInv, VisitFails, llvm_calls' \in Seq(CallSpecs), host_arg_kinds' \in Seq(BOOLEAN)
  PROVE  WInv'
<1>1. /\ pc' = "idle" /\ outcome' = "raised" /\ dirty' = TRUE
      /\ UNCHANGED <<kernel, next, host, exposed>>
  BY DEF VisitFails, Fail
<1>2. Types'
  BY <1>1 DEF WInv, Types
<1>3. CleanInv'
  BY <1>1 DEF CleanInv
<1> QED BY <1>2, <1>3 DEF WInv

LEMMA CallKeeps ==
  ASSUME WInv, Call PROVE WInv'
<1>1. /\ Visiting("call") /\ ArityOK /\ pc = "visit"
      /\ \A i \in DOMAIN Statement.inputs : BlockArg(Statement.inputs[i])
      /\ llvm_funcs' = Append(llvm_funcs, Statement.sibling) /\ host_arg_kinds' = BlockKinds
      /\ llvm_calls' = Append(llvm_calls, CallSpec(Statement))
      /\ host' = Append(host, [op |-> "anchor", index |-> Len(llvm_calls)]) /\ next' = next + 1
      /\ UNCHANGED <<pc, kernel, outcome, dirty, exposed>>
  BY DEF Call, Visiting, RecordSibling, Emit, CallSpec
<1>2. /\ Statement \in CallStatements /\ CallSpec(Statement) \in CallSpecs
      /\ BlockKinds \in Seq(BOOLEAN)
  BY <1>1, CallVisited DEF WInv
<1>3. /\ kernel \in Kernels /\ llvm_calls \in Seq(CallSpecs) /\ Len(llvm_calls) \in Nat
      /\ Len(Body[kernel]) \in Nat /\ next \in Nat /\ next \in 1 .. Len(Body[kernel])
      /\ host \in Seq(HostOps) /\ Len(host) = next - 1
  BY <1>1, BodyLength, LenProperties DEF WInv, Types, Visiting
<1>4. /\ next' \in 1 .. Len(Body[kernel]) + 1 /\ next' - 1 = next /\ (next - 1) + 1 = next
      /\ Len(llvm_calls) = (Len(llvm_calls) + 1) - 1
  BY <1>1, <1>3
<1>5. host' = Append(host, Anchor(Len(llvm_calls) + 1))
  BY <1>1, <1>4 DEF Anchor
<1>6. Anchor(Len(llvm_calls) + 1) \in HostOps
  BY <1>3 DEF Anchor, HostOps
<1>7. host' \in Seq(HostOps) /\ Len(host') = Len(host) + 1 /\ llvm_calls' \in Seq(CallSpecs)
  BY <1>1, <1>2, <1>3, <1>5, <1>6, AppendProperties
<1>8. Len(host') = next' - 1
  BY <1>1, <1>3, <1>7
<1>9. Types'
  BY <1>1, <1>2, <1>3, <1>4, <1>7, <1>8 DEF WInv, Types
<1>10. LaunchInputsOnly(kernel) => BlockKinds = IsPtr[kernel]
  <2>1. SUFFICES ASSUME LaunchInputsOnly(kernel) PROVE Statement.block = "entry"
    BY DEF BlockKinds
  <2>2. next \in Calls(kernel)
    BY <1>1, <1>3, KernelAssumption DEF Calls, Visiting
  <2>3. /\ \A j \in DOMAIN Statement.inputs : Statement.inputs[j].of = "host"
        /\ Statement.inputs = <<>> => Statement.block = "entry"
    BY <2>1, <2>2 DEF LaunchInputsOnly, Statement
  <2>4. CASE Statement.inputs # <<>>
    <3>1. Statement.inputs \in Seq(Inputs)
      BY <1>2 DEF CallStatements
    <3>2. 1 \in DOMAIN Statement.inputs
      BY <3>1, <2>4, EmptySeq, LenProperties
    <3>3. Statement.inputs[1].of = "host" /\ BlockArg(Statement.inputs[1])
      BY <3>2, <2>3, <1>1
    <3> QED BY <3>3 DEF BlockArg
  <2> QED BY <2>3, <2>4
<1>11. ~dirty => Recorded(kernel, next, host', llvm_funcs', llvm_calls', host_arg_kinds')
  <2>1. SUFFICES ASSUME ~dirty
                 PROVE  Recorded(kernel, next, host', llvm_funcs', llvm_calls', host_arg_kinds')
    OBVIOUS
  <2>2. Recorded(kernel, next - 1, host, llvm_funcs, llvm_calls, host_arg_kinds)
    BY <2>1, <1>1 DEF WInv, CleanInv
  <2>3. /\ (next - 1) + 1 <= Len(Body[kernel]) /\ Statement = Body[kernel][(next - 1) + 1]
        /\ Statement.op = "call" /\ Len(Statement.inputs) = Len(Params[Statement.sibling])
    BY <1>1, <1>3, <1>4 DEF Statement, Visiting, ArityOK
  <2>4. Recorded(kernel, (next - 1) + 1, Append(host, Anchor(Len(llvm_calls) + 1)),
                 Append(llvm_funcs, Statement.sibling), Append(llvm_calls, CallSpec(Statement)), BlockKinds)
    BY <1>3, <1>10, <2>2, <2>3, RecordedCall
  <2> QED BY <2>4, <1>1, <1>4, <1>5
<1>12. CleanInv'
  BY <1>1, <1>4, <1>11 DEF WInv, CleanInv
<1> QED BY <1>9, <1>12 DEF WInv

LEMMA OtherKeeps ==
  ASSUME WInv, VisitOther PROVE WInv'
<1>1. /\ Visiting("other") /\ pc = "visit"
      /\ host' = Append(host, Own(next)) /\ next' = next + 1
      /\ UNCHANGED <<llvm_funcs, llvm_calls, host_arg_kinds, pc, kernel, outcome, dirty, exposed>>
  BY DEF VisitOther, Visiting, Emit, Own, pending
<1>2. /\ kernel \in Kernels /\ Len(Body[kernel]) \in Nat /\ next \in Nat /\ next \in 1 .. Len(Body[kernel])
      /\ host \in Seq(HostOps) /\ Len(host) = next - 1
  BY <1>1, BodyLength DEF WInv, Types, Visiting
<1>3. next' \in 1 .. Len(Body[kernel]) + 1 /\ next' - 1 = next /\ (next - 1) + 1 = next
  BY <1>1, <1>2
<1>4. Own(next) \in HostOps
  BY <1>2 DEF Own, HostOps
<1>5. host' \in Seq(HostOps) /\ Len(host') = next' - 1
  BY <1>1, <1>2, <1>4, AppendProperties
<1>6. Types'
  BY <1>1, <1>2, <1>3, <1>5 DEF WInv, Types
<1>7. ~dirty => Recorded(kernel, next, host', llvm_funcs, llvm_calls, host_arg_kinds)
  <2>1. SUFFICES ASSUME ~dirty
                 PROVE  Recorded(kernel, next, host', llvm_funcs, llvm_calls, host_arg_kinds)
    OBVIOUS
  <2>2. Recorded(kernel, next - 1, host, llvm_funcs, llvm_calls, host_arg_kinds)
    BY <2>1, <1>1 DEF WInv, CleanInv
  <2>3. (next - 1) + 1 <= Len(Body[kernel]) /\ Body[kernel][(next - 1) + 1].op = "other"
    BY <1>1, <1>2, <1>3 DEF Visiting
  <2>4. Recorded(kernel, (next - 1) + 1, Append(host, Own((next - 1) + 1)),
                 llvm_funcs, llvm_calls, host_arg_kinds)
    BY <1>2, <2>2, <2>3, RecordedOther
  <2> QED BY <2>4, <1>1, <1>3
<1>8. CleanInv'
  BY <1>1, <1>3, <1>7 DEF WInv, CleanInv
<1> QED BY <1>6, <1>8 DEF WInv

LEMMA TtirKeeps ==
  ASSUME WInv, MakeTtir PROVE WInv'
<1>1. /\ pc = "visit" /\ next > Len(Body[kernel]) /\ pc' = "lower" /\ dirty' = FALSE
      /\ llvm_funcs' = <<>> /\ llvm_calls' = <<>> /\ host_arg_kinds' = <<>>
      /\ metadata' = IF llvm_funcs # <<>> /\ llvm_calls # <<>>
                       THEN [funcs |-> llvm_funcs, calls |-> llvm_calls, kinds |-> host_arg_kinds]
                       ELSE NotMixed
      /\ UNCHANGED <<kernel, next, host, outcome, exposed>>
  BY DEF MakeTtir, AtTtir, TakePending
<1>2. Types'
  BY <1>1, EmptySeq DEF WInv, Types
<1>3. ASSUME ~exposed
      PROVE  Recorded(kernel, Len(Body[kernel]), host, metadata'.funcs, metadata'.calls, metadata'.kinds)
  <2>1. Recorded(kernel, next - 1, host, llvm_funcs, llvm_calls, host_arg_kinds)
    BY <1>1, <1>3 DEF WInv, CleanInv
  <2>2. next - 1 = Len(Body[kernel])
    BY <1>1, BodyLength DEF WInv, Types
  <2>3. llvm_calls = <<>> <=> llvm_funcs = <<>>
    <3>1. llvm_calls \in Seq(CallSpecs) /\ llvm_funcs \in Seq(Siblings) /\ Len(llvm_calls) = Len(llvm_funcs)
      BY <2>1 DEF Recorded
    <3> QED BY <3>1, EmptySeq
  <2>4. llvm_calls = <<>> => host_arg_kinds = <<>>
    BY <2>1 DEF Recorded
  <2>5. metadata'.funcs = llvm_funcs /\ metadata'.calls = llvm_calls /\ metadata'.kinds = host_arg_kinds
    BY <1>1, <2>3, <2>4 DEF NotMixed
  <2> QED BY <2>1, <2>2, <2>5
<1>4. CleanInv'
  BY <1>1, <1>3 DEF WInv, CleanInv
<1> QED BY <1>2, <1>4 DEF WInv

LEMMA CompileKeeps ==
  ASSUME WInv, NEW k \in Kernels, Compile(k) PROVE WInv'
<1>1. /\ pc = "idle" /\ pc' = "visit" /\ kernel' = k /\ next' = 1 /\ host' = <<>>
      /\ outcome' = "none" /\ exposed' = dirty
      /\ UNCHANGED <<llvm_funcs, llvm_calls, host_arg_kinds, dirty>>
  BY DEF Compile, pending
<1>2. Types'
  <2>1. next' \in 1 .. Len(Body[k]) + 1 /\ host' \in Seq(HostOps) /\ Len(host') = next' - 1
    BY <1>1, BodyLength
  <2> QED BY <1>1, <2>1 DEF WInv, Types
<1>3. ~dirty => Recorded(k, next' - 1, host', llvm_funcs, llvm_calls, host_arg_kinds)
  <2>1. next' - 1 = 0
    BY <1>1
  <2> QED BY <1>1, <2>1, RecordedNothing DEF WInv, CleanInv
<1>4. CleanInv'
  BY <1>1, <1>3 DEF CleanInv
<1> QED BY <1>2, <1>4 DEF WInv

LEMMA LowerKeeps ==
  ASSUME WInv, Lower PROVE WInv'
<1>1. /\ pc = "lower" /\ (Mixed => Injectable) /\ pc' = "idle" /\ outcome' = "ok"
      /\ binary' = IF Mixed THEN Injected ELSE host
      /\ UNCHANGED <<llvm_funcs, llvm_calls, host_arg_kinds, kernel, next, host, metadata, dirty, exposed>>
  BY DEF Lower, pending
<1>2. Types'
  BY <1>1 DEF WInv, Types
<1>3. ASSUME ~exposed, LaunchInputsOnly(kernel) PROVE AsWritten'
  <2>1. Recorded(kernel, Len(Body[kernel]), host, metadata.funcs, metadata.calls, metadata.kinds)
    BY <1>1, <1>3 DEF WInv, CleanInv
  <2>2. /\ binary' = Written(kernel)
        /\ {metadata.funcs[i] : i \in DOMAIN metadata.funcs}
             = {Body[kernel][i].sibling : i \in Calls(kernel)}
    BY <1>1, <1>3, <2>1, LoweredAsWritten DEF WInv, Types
  <2>3. Written(kernel)' = Written(kernel) /\ Calls(kernel)' = Calls(kernel)
    BY <1>1 DEF Written, Calls
  <2> QED BY <1>1, <2>2, <2>3 DEF AsWritten
<1>4. LaunchInputsOnly(kernel)' <=> LaunchInputsOnly(kernel)
  BY <1>1 DEF LaunchInputsOnly, Calls
<1>5. CleanInv'
  BY <1>1, <1>3, <1>4 DEF WInv, CleanInv
<1> QED BY <1>2, <1>5 DEF WInv

LEMMA StillKeeps ==
  ASSUME WInv, UNCHANGED <<llvm_funcs, llvm_calls, host_arg_kinds, kernel, next, host, metadata, dirty, exposed>>,
         \/ pc' = "idle" /\ outcome' = "raised" /\ pc # "visit"
         \/ UNCHANGED <<pc, outcome, binary>>
  PROVE  WInv'
<1>1. Types'
  BY DEF WInv, Types
<1>2. CASE pc' = "idle" /\ outcome' = "raised" /\ pc # "visit"
  <2>1. CleanInv'
    BY <1>2 DEF WInv, CleanInv
  <2> QED BY <2>1, <1>1 DEF WInv
<1>3. CASE UNCHANGED <<pc, outcome, binary>>
  <2>1. CleanInv' <=> CleanInv
    BY <1>3 DEF CleanInv, Recorded, Emitted, CalledBy, AsWritten, Written, LaunchInputsOnly, Calls
  <2> QED BY <2>1, <1>1 DEF WInv
<1> QED BY <1>2, <1>3

LEMMA WrittenInductive == Spec => []WInv
<1>1. Init => WInv
  <2> SUFFICES ASSUME Init PROVE WInv
    OBVIOUS
  <2>1. kernel \in Kernels /\ Len(Body[kernel]) \in Nat
    BY BodyLength DEF Init
  <2>2. <<>> \in Seq(CallSpecs) /\ <<>> \in Seq(BOOLEAN) /\ <<>> \in Seq(HostOps) /\ Len(<<>>) = 1 - 1
    BY EmptySeq
  <2>3. 1 \in 1 .. Len(Body[kernel]) + 1
    BY <2>1
  <2>4. Types
    BY <2>1, <2>2, <2>3 DEF Init, Types
  <2>5. CleanInv
    BY DEF Init, CleanInv
  <2> QED BY <2>4, <2>5 DEF WInv
<1>2. WInv /\ [Next]_vars => WInv'
  <2> SUFFICES ASSUME WInv, [Next]_vars PROVE WInv'
    OBVIOUS
  <2>a. llvm_calls \in Seq(CallSpecs) /\ host_arg_kinds \in Seq(BOOLEAN)
    BY DEF WInv, Types
  <2>1. CASE \E k \in Kernels : Compile(k)
    BY <2>1, CompileKeeps
  <2>2. CASE VisitOther
    BY <2>2, OtherKeeps
  <2>3. CASE VisitInvalid \/ CallArity \/ PassesFail
    BY <2>3, <2>a, RaiseTypes DEF VisitInvalid, CallArity, PassesFail, pending
  <2>4. CASE CallInput
    <3>1. Visiting("call") /\ ArityOK /\ VisitFails /\ host_arg_kinds' = BlockKinds /\ llvm_calls' = llvm_calls
      BY <2>4 DEF CallInput, RecordSibling
    <3>2. host_arg_kinds' \in Seq(BOOLEAN)
      BY <3>1, CallVisited DEF WInv
    <3> QED BY <3>1, <3>2, <2>a, RaiseTypes
  <2>5. CASE Call
    BY <2>5, CallKeeps
  <2>6. CASE MakeTtir
    BY <2>6, TtirKeeps
  <2>7. CASE Lower
    BY <2>7, LowerKeeps
  <2>8. CASE LowerFails
    BY <2>8, StillKeeps DEF LowerFails, Fail, pending
  <2>9. CASE UNCHANGED vars
    BY <2>9, StillKeeps DEF vars, pending
  <2> QED BY <2>1, <2>2, <2>3, <2>4, <2>5, <2>6, <2>7, <2>8, <2>9 DEF Next
<1> QED BY <1>1, <1>2, PTL DEF Spec

(* A kernel that compiles in a clean process runs its statements in the    *)
(* order they are written, each call with the sibling and the parameters   *)
(* it names: for any kernels, any number of parameters and pointers among  *)
(* them, and any number of compiles that fail in between.                  *)
THEOREM CompiledAsWrittenHolds == Spec => []CompiledAsWritten
<1>1. IInv /\ WInv => TypeOK
  <2> SUFFICES ASSUME IInv, WInv PROVE TypeOK
    OBVIOUS
  <2>1. ASSUME NEW i \in DOMAIN llvm_calls
        PROVE  /\ llvm_calls[i].callee \in Siblings
               /\ [j \in DOMAIN llvm_calls[i].arg_bridge |-> llvm_calls[i].arg_bridge[j].kind]
                    = Params[llvm_calls[i].callee]
    <3>1. llvm_calls[i] \in CallSpecs
      BY DEF WInv, Types
    <3>2. PICK st \in CallStatements :
            llvm_calls[i] = CallSpec(st) /\ Len(st.inputs) = Len(Params[st.sibling])
      BY <3>1 DEF CallSpecs
    <3>3. st.sibling \in Siblings /\ st.inputs \in Seq(Inputs)
      BY DEF CallStatements
    <3>4. Params[st.sibling] \in Seq({"ptr", "scalar"})
      BY <3>3, KernelAssumption
    <3>5. DOMAIN st.inputs = DOMAIN Params[st.sibling]
      BY <3>2, <3>3, <3>4, LenProperties
    <3>6. /\ llvm_calls[i].callee = st.sibling
          /\ DOMAIN llvm_calls[i].arg_bridge = DOMAIN st.inputs
          /\ \A j \in DOMAIN st.inputs : llvm_calls[i].arg_bridge[j].kind = Params[st.sibling][j]
      BY <3>2 DEF CallSpec
    <3>7. Params[st.sibling] = [j \in DOMAIN Params[st.sibling] |-> Params[st.sibling][j]]
      BY <3>4
    <3> QED BY <3>3, <3>5, <3>6, <3>7
  <2> QED BY <2>1 DEF TypeOK, IInv, Counted, WInv, Types
<1>2. WInv => (outcome = "ok" /\ ~exposed /\ LaunchInputsOnly(kernel) => AsWritten)
  BY DEF WInv, CleanInv, Types
<1>3. IInv /\ WInv => CompiledAsWritten
  BY <1>1, <1>2 DEF CompiledAsWritten, AsWritten
<1> QED BY <1>3, Inductive, WrittenInductive, PTL
=============================================================================
