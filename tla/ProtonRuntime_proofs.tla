------------------------ MODULE ProtonRuntime_proofs ------------------------
(***************************************************************************)
(* What TLAPS proves about ProtonRuntime, for any threads, names, depth of *)
(* nesting and number of readings and resets.                              *)
(***************************************************************************)
EXTENDS ProtonRuntime, FiniteSetTheorems, SequenceTheorems, NaturalsInduction,
        WellFoundedInduction, TLAPS

-----------------------------------------------------------------------------
(* Induction with a set in the place of a predicate, over the numbers and  *)
(* over the subsets of a finite set, and what it gives for the recursive   *)
(* functions of the community modules that the model uses.                 *)

(* A set that has 0 and, with a number, the next one, has them all.        *)
LEMMA SetInduction ==
  ASSUME NEW S, 0 \in S, \A n \in Nat : n \in S => n + 1 \in S
  PROVE  Nat \subseteq S
<1> DEFINE T == Nat \ S
           R == OpToRel(<, Nat)
<1>1. SUFFICES ASSUME T # {} PROVE FALSE
  OBVIOUS
<1>2. IsWellFoundedOn(R, Nat)
  BY NatLessThanWellFounded
<1>3. \A m, n \in Nat : m < n => <<m, n>> \in R
  BY DEF OpToRel
<1> HIDE DEF R
<1>4. T \subseteq Nat
  OBVIOUS
<1> HIDE DEF T
<1>5. PICK x \in T : \A y \in T : ~ (<<y, x>> \in R)
  BY <1>1, <1>2, <1>4, WFMin
<1>6. x \in Nat /\ x # 0
  BY <1>4 DEF T
<1>7. x - 1 \in Nat /\ x - 1 < x /\ (x - 1) + 1 = x
  BY <1>6
<1>8. x - 1 \notin T
  BY <1>3, <1>5, <1>6, <1>7
<1> QED BY <1>6, <1>7, <1>8 DEF T

(* A recursive function over the subsets of a finite set that takes away   *)
(* one element at a time, the one that c chooses, exists.                  *)
Recurses(g, S, Y, base, op, c) ==
  /\ g \in [SUBSET S -> Y]
  /\ \A s \in SUBSET S : g[s] = IF s = {} THEN base ELSE op[<<c[s], g[s \ {c[s]}]>>]

LEMMA SetRecursion ==
  ASSUME NEW S, IsFiniteSet(S), NEW Y, NEW base \in Y,
         NEW op, \A x \in S, y \in Y : op[<<x, y>>] \in Y,
         NEW c, \A s \in SUBSET S : s # {} => c[s] \in s
  PROVE  \E g : Recurses(g, S, Y, base, op, c)
<1> DEFINE Step(g, s) == IF s = {} THEN base ELSE op[<<c[s], g[s \ {c[s]}]>>]
           Upto(g, k) == \A s \in SUBSET S : Cardinality(s) <= k => g[s] = Step(g, s)
           K == {k \in Nat : \E g \in [SUBSET S -> Y] : Upto(g, k)}
<1>a. \A s \in SUBSET S : IsFiniteSet(s) /\ Cardinality(s) \in Nat /\ (Cardinality(s) = 0 <=> s = {})
  BY FS_Subset, FS_CardinalityType, FS_EmptySet
<1>b. \A s \in SUBSET S : s # {} =>
        /\ c[s] \in S /\ s \ {c[s]} \in SUBSET S
        /\ Cardinality(s \ {c[s]}) = Cardinality(s) - 1
  BY <1>a, FS_RemoveElement
<1>c. ASSUME NEW g \in [SUBSET S -> Y], NEW s \in SUBSET S PROVE Step(g, s) \in Y
  BY <1>b
<1>1. 0 \in K
  <2> DEFINE g == [s \in SUBSET S |-> base]
  <2>1. g \in [SUBSET S -> Y] /\ Upto(g, 0)
    BY <1>a
  <2> HIDE DEF g, Upto
  <2> QED BY <2>1
<1>2. ASSUME NEW k \in Nat, k \in K PROVE k + 1 \in K
  <2>1. PICK g \in [SUBSET S -> Y] : Upto(g, k)
    BY <1>2
  <2> DEFINE h == [s \in SUBSET S |-> IF Cardinality(s) <= k THEN g[s] ELSE Step(g, s)]
  <2>2. h \in [SUBSET S -> Y]
    <3> HIDE DEF Step
    <3> QED BY <1>c
  <2>3. ASSUME NEW s \in SUBSET S, Cardinality(s) <= k + 1 PROVE h[s] = Step(h, s)
    <3>1. h[s] = Step(g, s)
      <4> HIDE DEF Step
      <4> QED BY <2>1
    <3>2. s # {} => h[s \ {c[s]}] = g[s \ {c[s]}]
      <4> HIDE DEF Step
      <4> QED BY <1>a, <1>b, <2>3
    <3> HIDE DEF h
    <3> QED BY <3>1, <3>2
  <2> HIDE DEF h
  <2>4. Upto(h, k + 1)
    BY <2>3
  <2> HIDE DEF Upto
  <2> QED BY <2>2, <2>4
<1>3. Cardinality(S) \in K
  <2> HIDE DEF K
  <2>1. Cardinality(S) \in Nat
    BY FS_CardinalityType
  <2>2. Nat \subseteq K
    BY <1>1, <1>2, SetInduction
  <2> QED BY <2>1, <2>2
<1>4. PICK g \in [SUBSET S -> Y] : Upto(g, Cardinality(S))
  BY <1>3
<1>5. \A s \in SUBSET S : Cardinality(s) <= Cardinality(S)
  BY FS_Subset
<1>6. \A s \in SUBSET S : g[s] = Step(g, s)
  BY <1>4, <1>5
<1> QED BY <1>6 DEF Recurses

(* A set of subsets that has every subset all of whose parts with one      *)
(* element less it has, has them all.                                      *)
LEMMA SubsetInduction ==
  ASSUME NEW S, IsFiniteSet(S), NEW T,
         \A s \in SUBSET S : (\A e \in s : s \ {e} \in T) => s \in T
  PROVE  SUBSET S \subseteq T
<1> DEFINE K == {k \in Nat : \A s \in SUBSET S : Cardinality(s) < k => s \in T}
<1>a. \A s \in SUBSET S : IsFiniteSet(s) /\ Cardinality(s) \in Nat
  BY FS_Subset, FS_CardinalityType
<1>1. 0 \in K
  BY <1>a
<1>2. ASSUME NEW k \in Nat, k \in K PROVE k + 1 \in K
  <2>1. ASSUME NEW s \in SUBSET S, Cardinality(s) < k + 1 PROVE s \in T
    <3>1. ASSUME NEW e \in s PROVE s \ {e} \in T
      <4>1. s \ {e} \in SUBSET S /\ Cardinality(s \ {e}) = Cardinality(s) - 1
        BY <1>a, FS_RemoveElement
      <4> QED BY <4>1, <1>a, <1>2, <2>1
    <3> QED BY <3>1
  <2> QED BY <2>1
<1>3. Nat \subseteq K
  <2> HIDE DEF K
  <2> QED BY <1>1, <1>2, SetInduction
<1>4. ASSUME NEW s \in SUBSET S PROVE s \in T
  <2>1. Cardinality(s) + 1 \in K /\ Cardinality(s) < Cardinality(s) + 1
    BY <1>3, <1>a
  <2> QED BY <2>1
<1> QED BY <1>4

(* The greatest number of a set up to n.                                   *)
LEMMA MaxIn ==
  \A n \in Nat : \A s \in SUBSET (1 .. n) : s # {} => Max(s) \in s /\ \A y \in s : Max(s) >= y
<1> DEFINE K == {n \in Nat : \A s \in SUBSET (1 .. n) : s # {} => \E x \in s : \A y \in s : x >= y}
<1>1. 0 \in K
  <2>1. 1 .. 0 = {}
    OBVIOUS
  <2>2. \A s \in SUBSET (1 .. 0) : s = {}
    BY <2>1
  <2> QED BY <2>2
<1>2. ASSUME NEW n \in Nat, n \in K PROVE n + 1 \in K
  <2>1. ASSUME NEW s \in SUBSET (1 .. n + 1), s # {} PROVE \E x \in s : \A y \in s : x >= y
    <3>1. CASE n + 1 \in s
      BY <3>1
    <3>2. CASE n + 1 \notin s
      <4>1. s \in SUBSET (1 .. n)
        BY <3>2
      <4> QED BY <4>1, <1>2, <2>1
    <3> QED BY <3>1, <3>2
  <2> QED BY <2>1
<1>3. Nat \subseteq K
  <2> HIDE DEF K
  <2> QED BY <1>1, <1>2, SetInduction
<1>4. \A n \in Nat : \A s \in SUBSET (1 .. n) : s # {} => \E x \in s : \A y \in s : x >= y
  BY <1>3
<1> QED BY <1>4 DEF Max


CountersType == cycle \in Nat \ {0} /\ resets \in 0 .. MaxResets

RecordsType == records \in Seq(Record) /\ active_scopes \in [Threads -> [Names -> Nat]]

CallingType == calling \in [Threads -> Reading \cup {NoCall}]

OpenType == open \in [Threads -> Seq(OpenScope)]

LEMMA TypeParts == TypeOK <=> /\ CountersType /\ RecordsType /\ CallingType /\ OpenType
                              /\ ended \subseteq Record
  BY DEF TypeOK, CountersType, RecordsType, CallingType, OpenType

(* Of a call that is being made: *)
LEMMA CallRead ==
  ASSUME CallingType, NEW t \in Threads, calling[t].op \in {"start", "end"}
  PROVE  calling[t].name \in Names /\ calling[t].cycle \in Nat \ {0}
<1>1. calling[t] \in Reading
  BY DEF CallingType, NoCall
<1> QED BY <1>1 DEF Reading

(* Marking the open scopes keeps what they are. *)
LEMMA ForgottenType ==
  ASSUME NEW s \in Seq(OpenScope)
  PROVE  /\ Forgotten(s) \in Seq(OpenScope) /\ Len(Forgotten(s)) = Len(s)
         /\ \A i \in 1 .. Len(s) : /\ Forgotten(s)[i].name = s[i].name
                                   /\ Forgotten(s)[i].shadowed = s[i].shadowed
                                   /\ Forgotten(s)[i].lost = TRUE
<1>1. s \in [1 .. Len(s) -> OpenScope] /\ Len(s) \in Nat
  BY LenProperties
<1>2. Forgotten(s) = [i \in 1 .. Len(s) |-> [s[i] EXCEPT !.lost = TRUE]]
  BY <1>1 DEF Forgotten
<1>3. \A i \in 1 .. Len(s) : [s[i] EXCEPT !.lost = TRUE] \in OpenScope
  BY <1>1 DEF OpenScope
<1>4. Forgotten(s) \in [1 .. Len(s) -> OpenScope]
  BY <1>2, <1>3
<1>5. Forgotten(s) \in Seq(OpenScope) /\ Len(Forgotten(s)) = Len(s)
  BY <1>1, <1>4
<1>6. ASSUME NEW i \in 1 .. Len(s)
      PROVE  /\ Forgotten(s)[i].name = s[i].name
             /\ Forgotten(s)[i].shadowed = s[i].shadowed
             /\ Forgotten(s)[i].lost = TRUE
  <2>1. s[i] \in OpenScope /\ Forgotten(s)[i] = [s[i] EXCEPT !.lost = TRUE]
    BY <1>1, <1>2
  <2> QED BY <2>1 DEF OpenScope
<1> QED BY <1>5, <1>6

LEMMA ShadowType ==
  ASSUME NEW s \in Seq(OpenScope), NEW n \in Names
  PROVE  /\ Shadow(s, n) \in Seq(OpenScope) /\ Len(Shadow(s, n)) = Len(s)
         /\ \A i \in 1 .. Len(s) : /\ Shadow(s, n)[i].name = s[i].name
                                   /\ Shadow(s, n)[i].start = s[i].start
                                   /\ Shadow(s, n)[i].lost = s[i].lost
                                   /\ Shadow(s, n)[i].shadowed = IF s[i].name = n THEN TRUE ELSE s[i].shadowed
<1>1. s \in [1 .. Len(s) -> OpenScope] /\ Len(s) \in Nat
  BY LenProperties
<1>2. Shadow(s, n) = [i \in 1 .. Len(s) |->
                        [s[i] EXCEPT !.shadowed = s[i].shadowed \/ s[i].name = n]]
  BY <1>1 DEF Shadow
<1>3. ASSUME NEW i \in 1 .. Len(s)
      PROVE  /\ Shadow(s, n)[i] \in OpenScope
             /\ Shadow(s, n)[i].name = s[i].name
             /\ Shadow(s, n)[i].start = s[i].start
             /\ Shadow(s, n)[i].lost = s[i].lost
             /\ Shadow(s, n)[i].shadowed = IF s[i].name = n THEN TRUE ELSE s[i].shadowed
  <2>1. /\ s[i] \in OpenScope
        /\ Shadow(s, n)[i] = [s[i] EXCEPT !.shadowed = s[i].shadowed \/ s[i].name = n]
    BY <1>1, <1>2
  <2> DEFINE v == IF s[i].name = n THEN TRUE ELSE s[i].shadowed
  <2>2. v = (s[i].shadowed \/ s[i].name = n)
    BY <2>1 DEF OpenScope
  <2>3. v \in BOOLEAN
    BY <2>1 DEF OpenScope
  <2>4. Shadow(s, n)[i] = [s[i] EXCEPT !.shadowed = v]
    BY <2>1, <2>2
  <2> HIDE DEF v
  <2>5. /\ Shadow(s, n)[i] \in OpenScope
        /\ Shadow(s, n)[i].name = s[i].name
        /\ Shadow(s, n)[i].start = s[i].start
        /\ Shadow(s, n)[i].lost = s[i].lost
        /\ Shadow(s, n)[i].shadowed = v
    BY <2>1, <2>3, <2>4 DEF OpenScope
  <2> QED BY <2>5 DEF v
<1>4. Shadow(s, n) \in [1 .. Len(s) -> OpenScope]
  BY <1>2, <1>3
<1>5. Shadow(s, n) \in Seq(OpenScope) /\ Len(Shadow(s, n)) = Len(s)
  BY <1>1, <1>4
<1> QED BY <1>3, <1>5

-----------------------------------------------------------------------------
LEMMA InitType == Init => TypeOK
<1> SUFFICES ASSUME Init PROVE TypeOK
  OBVIOUS
<1>1. CountersType
  BY ProtonAssumption DEF Init, CountersType
<1>2. RecordsType
  BY EmptySeq DEF Init, RecordsType
<1>3. CallingType
  BY DEF Init, CallingType
<1>4. OpenType
  <2>1. <<>> \in Seq(OpenScope)
    BY EmptySeq
  <2> QED BY <2>1 DEF Init, OpenType
<1>5. ended \subseteq Record
  BY DEF Init
<1> QED BY <1>1, <1>2, <1>3, <1>4, <1>5, TypeParts

(* What a start does, in the words of the steps below. *)
LEMMA StartStep ==
  ASSUME TypeOK, NEW t \in Threads, RecordStart(t)
  PROVE  LET n == calling[t].name
             c == calling[t].cycle
             new == [name |-> n, start |-> c, shadowed |-> FALSE, lost |-> FALSE]
         IN  /\ n \in Names /\ c \in Nat \ {0}
             /\ Scope(t, n, c, 0) \in Record /\ new \in OpenScope
             /\ records' = Append(records, Scope(t, n, c, 0))
             /\ records' \in Seq(Record) /\ Len(records') = Len(records) + 1
             /\ Len(records) \in Nat
             /\ \A i \in 1 .. Len(records) : records'[i] = records[i]
             /\ records'[Len(records) + 1] = Scope(t, n, c, 0)
             /\ active_scopes' = [active_scopes EXCEPT ![t][n] = Len(records) + 1]
             /\ open' = [open EXCEPT ![t] = Append(Shadow(open[t], n), new)]
             /\ open'[t] = Append(Shadow(open[t], n), new)
             /\ open'[t] \in Seq(OpenScope) /\ Len(open'[t]) = Len(open[t]) + 1
             /\ Len(open[t]) \in Nat
             /\ \A i \in 1 .. Len(open[t]) : open'[t][i] = Shadow(open[t], n)[i]
             /\ open'[t][Len(open[t]) + 1] = new
<1> DEFINE n == calling[t].name
           c == calling[t].cycle
           new == [name |-> n, start |-> c, shadowed |-> FALSE, lost |-> FALSE]
<1>t. RecordsType /\ CallingType /\ OpenType
  BY TypeParts
<1>1. n \in Names /\ c \in Nat \ {0}
  BY <1>t, CallRead DEF RecordStart
<1>2. Scope(t, n, c, 0) \in Record /\ new \in OpenScope
  BY <1>1 DEF Scope, Record, OpenScope
<1>3. /\ records' = Append(records, Scope(t, n, c, 0))
      /\ active_scopes' = [active_scopes EXCEPT ![t][n] = Len(records) + 1]
      /\ open' = [open EXCEPT ![t] = Append(Shadow(open[t], n), new)]
  BY DEF RecordStart
<1>4. records \in Seq(Record) /\ open[t] \in Seq(OpenScope) /\ Len(records) \in Nat
  BY <1>t, LenProperties DEF RecordsType, OpenType
<1>5. /\ Shadow(open[t], n) \in Seq(OpenScope) /\ Len(Shadow(open[t], n)) = Len(open[t])
      /\ Len(open[t]) \in Nat
  BY <1>1, <1>4, ShadowType, LenProperties
<1>6. open'[t] = Append(Shadow(open[t], n), new)
  BY <1>3, <1>t DEF OpenType
<1> HIDE DEF n, c, new
<1>7. /\ records' \in Seq(Record) /\ Len(records') = Len(records) + 1
      /\ \A i \in 1 .. Len(records) : records'[i] = records[i]
      /\ records'[Len(records) + 1] = Scope(t, n, c, 0)
  BY <1>2, <1>3, <1>4, AppendProperties
<1>8. /\ open'[t] \in Seq(OpenScope) /\ Len(open'[t]) = Len(open[t]) + 1
      /\ \A i \in 1 .. Len(open[t]) : open'[t][i] = Shadow(open[t], n)[i]
      /\ open'[t][Len(open[t]) + 1] = new
  BY <1>2, <1>5, <1>6, AppendProperties
<1> QED BY <1>1, <1>2, <1>3, <1>4, <1>5, <1>6, <1>7, <1>8 DEF n, c, new

(* What an end does, given that it ends the innermost scope. *)
LEMMA EndStep ==
  ASSUME TypeOK, NEW t \in Threads, RecordEnd(t), EndsInnermost(t)
  PROVE  LET n == calling[t].name
             c == calling[t].cycle
             d == Len(open[t])
         IN  /\ n \in Names /\ c \in Nat \ {0} /\ d \in Nat \ {0}
             /\ open[t] \in Seq(OpenScope) /\ open[t][d] \in OpenScope
             /\ open[t][d].name = n
             /\ open' = [open EXCEPT ![t] = SubSeq(open[t], 1, d - 1)]
             /\ open'[t] = SubSeq(open[t], 1, d - 1)
             /\ open'[t] \in Seq(OpenScope) /\ Len(open'[t]) = d - 1
             /\ \A i \in 1 .. d - 1 : open'[t][i] = open[t][i]
             /\ active_scopes' = [active_scopes EXCEPT ![t][n] = 0]
<1> DEFINE n == calling[t].name
           c == calling[t].cycle
           d == Len(open[t])
<1>t. RecordsType /\ CallingType /\ OpenType
  BY TypeParts
<1>1. n \in Names /\ c \in Nat \ {0} /\ calling[t].op = "end"
  BY <1>t, CallRead DEF RecordEnd
<1>2. /\ open' = [open EXCEPT ![t] = SubSeq(open[t], 1, d - 1)]
      /\ active_scopes' = [active_scopes EXCEPT ![t][n] = 0]
  BY DEF RecordEnd
<1>3. open[t] \in Seq(OpenScope) /\ open[t] # <<>> /\ n = open[t][d].name
  BY <1>t, <1>1 DEF OpenType, EndsInnermost
<1>4. d \in Nat \ {0}
  BY <1>3, EmptySeq
<1>5. open'[t] = SubSeq(open[t], 1, d - 1)
  BY <1>2, <1>t DEF OpenType
<1>6. \A i \in 1 .. d - 1 : open[t][i] \in OpenScope
  BY <1>3, <1>4, ElementOfSeq
<1>7. /\ open'[t] \in Seq(OpenScope) /\ Len(open'[t]) = d - 1
      /\ \A i \in 1 .. d - 1 : open'[t][i] = open[t][i]
  <2> DEFINE s == open[t]
  <2>1. s \in Seq(OpenScope) /\ d = Len(s)
    BY <1>3
  <2> HIDE DEF s
  <2>2. \A i \in 1 .. d - 1 : s[i] \in OpenScope
    BY <2>1, <1>4, ElementOfSeq
  <2> DEFINE e == d - 1
  <2>3. 1 \in Int /\ e \in Int /\ e \in Nat
    BY <1>4
  <2> HIDE DEF e
  <2>4. /\ SubSeq(s, 1, e) \in Seq(OpenScope)
        /\ Len(SubSeq(s, 1, e)) = IF 1 <= e THEN e - 1 + 1 ELSE 0
        /\ \A i \in 1 .. e - 1 + 1 : SubSeq(s, 1, e)[i] = s[1 + i - 1]
    <3>1. \A i \in 1 .. e : s[i] \in OpenScope
      BY <2>2 DEF e
    <3> QED BY <3>1, <2>3, SubSeqProperties
  <2>5. Len(SubSeq(s, 1, e)) = e /\ \A i \in 1 .. e : SubSeq(s, 1, e)[i] = s[i]
    BY <2>3, <2>4
  <2> QED BY <2>4, <2>5, <1>5 DEF s, e
<1>8. open[t][d] \in OpenScope
  BY <1>3, <1>4, ElementOfSeq
<1> QED BY <1>1, <1>2, <1>3, <1>4, <1>5, <1>7, <1>8

(* What it does to the records: it completes the one of the scope, or none. *)
LEMMA EndRecords ==
  ASSUME TypeOK, IndexValid, NEW t \in Threads, RecordEnd(t), EndsInnermost(t)
  PROVE  LET n == calling[t].name
             c == calling[t].cycle
             i == active_scopes[t][n]
         IN  /\ i \in Nat /\ records \in Seq(Record) /\ Len(records) \in Nat
             /\ i = 0 => records' = records
             /\ i # 0 => /\ i \in 1 .. Len(records)
                         /\ records' \in Seq(Record) /\ Len(records') = Len(records)
                         /\ \A j \in 1 .. Len(records) : j # i => records'[j] = records[j]
                         /\ records'[i] = Scope(t, n, records[i].start, c)
<1> DEFINE n == calling[t].name
           c == calling[t].cycle
           i == active_scopes[t][n]
<1>t. RecordsType
  BY TypeParts
<1>1. n \in Names /\ c \in Nat \ {0}
  BY EndStep
<1>2. i \in Nat /\ records \in Seq(Record) /\ Len(records) \in Nat
  BY <1>1, <1>t, LenProperties DEF RecordsType
<1>3. records' = IF i = 0 THEN records ELSE [records EXCEPT ![i].end = c]
  BY DEF RecordEnd, Found
<1>4. ASSUME i # 0
      PROVE  /\ i \in 1 .. Len(records) /\ records[i] \in Record
             /\ records[i].thread = t /\ records[i].name = n
  <2>1. i \in DOMAIN records /\ records[i].thread = t /\ records[i].name = n
    BY <1>4, <1>1 DEF IndexValid
  <2>2. i \in 1 .. Len(records)
    BY <2>1, <1>2, LenProperties
  <2> QED BY <2>1, <2>2, <1>2, ElementOfSeq
<1> HIDE DEF n, c, i
<1>5. ASSUME i # 0
      PROVE  /\ records' \in Seq(Record) /\ Len(records') = Len(records)
             /\ \A j \in 1 .. Len(records) : j # i => records'[j] = records[j]
             /\ records'[i] = Scope(t, n, records[i].start, c)
  <2> DEFINE r == [records[i] EXCEPT !.end = c]
  <2>1. r = Scope(t, n, records[i].start, c) /\ r \in Record
    BY <1>5, <1>4, <1>1 DEF Scope, Record
  <2>2. records' = [records EXCEPT ![i] = r]
    BY <1>3, <1>5
  <2> HIDE DEF r
  <2>3. /\ [records EXCEPT ![i] = r] \in Seq(Record)
        /\ Len([records EXCEPT ![i] = r]) = Len(records)
        /\ \A j \in 1 .. Len(records) :
             [records EXCEPT ![i] = r][j] = IF j = i THEN r ELSE records[j]
    BY <1>2, <1>4, <1>5, <2>1, ExceptSeq
  <2> QED BY <2>1, <2>2, <2>3, <1>4, <1>5
<1> QED BY <1>2, <1>3, <1>4, <1>5 DEF n, c, i

-----------------------------------------------------------------------------
IInv == TypeOK /\ IndexValid /\ StackInv /\ ProfileExact

LEMMA StartKeeps == ASSUME IInv, NEW t \in Threads, RecordStart(t) PROVE IInv'
<1> DEFINE n == calling[t].name
           c == calling[t].cycle
           new == [name |-> n, start |-> c, shadowed |-> FALSE, lost |-> FALSE]
           k == Len(records) + 1
           d == Len(open[t])
<1>t. TypeOK /\ IndexValid /\ StackInv /\ ProfileExact /\ CountersType /\ RecordsType
      /\ CallingType /\ OpenType /\ ended \subseteq Record
  BY TypeParts DEF IInv
<1>1. /\ n \in Names /\ c \in Nat \ {0} /\ k \in Nat \ {0} /\ d \in Nat /\ Len(records) \in Nat
      /\ Scope(t, n, c, 0) \in Record
      /\ records' \in Seq(Record) /\ Len(records') = k
      /\ \A i \in 1 .. Len(records) : records'[i] = records[i]
      /\ records'[k] = Scope(t, n, c, 0)
      /\ active_scopes' = [active_scopes EXCEPT ![t][n] = k]
      /\ open' = [open EXCEPT ![t] = open'[t]]
      /\ open'[t] \in Seq(OpenScope) /\ Len(open'[t]) = d + 1
      /\ \A i \in 1 .. d : open'[t][i] = Shadow(open[t], n)[i]
      /\ open'[t][d + 1] = new
  BY <1>t, StartStep
<1>2. calling' = [calling EXCEPT ![t] = NoCall] /\ UNCHANGED <<cycle, resets, ended>>
  BY DEF RecordStart
<1>3. \A i \in 1 .. d : /\ open'[t][i].name = open[t][i].name
                        /\ open'[t][i].start = open[t][i].start
                        /\ open'[t][i].lost = open[t][i].lost
                        /\ open'[t][i].shadowed = IF open[t][i].name = n THEN TRUE
                                                   ELSE open[t][i].shadowed
  <2>1. open[t] \in Seq(OpenScope)
    BY <1>t DEF OpenType
  <2>2. n \in Names
    BY <1>1
  <2> HIDE DEF n, c, k
  <2> SUFFICES ASSUME NEW i \in 1 .. d
               PROVE  /\ open'[t][i].name = open[t][i].name
                      /\ open'[t][i].start = open[t][i].start
                      /\ open'[t][i].lost = open[t][i].lost
                      /\ open'[t][i].shadowed = IF open[t][i].name = n THEN TRUE
                                                ELSE open[t][i].shadowed
    OBVIOUS
  <2>3. open'[t][i] = Shadow(open[t], n)[i]
    BY <1>1 DEF n
  <2>4. /\ Shadow(open[t], n)[i].name = open[t][i].name
        /\ Shadow(open[t], n)[i].start = open[t][i].start
        /\ Shadow(open[t], n)[i].lost = open[t][i].lost
        /\ Shadow(open[t], n)[i].shadowed = IF open[t][i].name = n THEN TRUE
                                            ELSE open[t][i].shadowed
    BY <2>1, <2>2, ShadowType DEF d
  <2> QED BY <2>3, <2>4
<1>4. /\ active_scopes'[t][n] = k
      /\ \A u \in Threads, m \in Names :
           (u # t \/ m # n) => active_scopes'[u][m] = active_scopes[u][m]
      /\ active_scopes' \in [Threads -> [Names -> Nat]]
  BY <1>1, <1>t DEF RecordsType
<1>5. \A u \in Threads : u # t => open'[u] = open[u] /\ calling'[u] = calling[u]
  BY <1>1, <1>2, <1>t DEF OpenType, CallingType
<1>6. calling'[t] = NoCall
  BY <1>2, <1>t DEF CallingType
<1>7. DOMAIN records = 1 .. Len(records) /\ DOMAIN records' = 1 .. k
      /\ DOMAIN open[t] = 1 .. d /\ DOMAIN open'[t] = 1 .. d + 1
  <2>1. records \in Seq(Record) /\ open[t] \in Seq(OpenScope)
    BY <1>t DEF RecordsType, OpenType
  <2> QED BY <2>1, <1>1, LenProperties
<1> HIDE DEF n, c, k, d
<1>8. TypeOK'
  <2>1. CountersType' /\ (ended \subseteq Record)'
    BY <1>2, <1>t DEF CountersType
  <2>2. RecordsType'
    BY <1>1, <1>4 DEF RecordsType
  <2>3. CallingType'
    BY <1>2, <1>t DEF CallingType
  <2>4. OpenType'
    BY <1>1, <1>t DEF OpenType
  <2> QED BY <2>1, <2>2, <2>3, <2>4 DEF TypeOK, CountersType, RecordsType, CallingType, OpenType
<1>9. IndexValid'
  <2> SUFFICES ASSUME NEW u \in Threads, NEW m \in Names, active_scopes'[u][m] # 0
               PROVE  LET i == active_scopes'[u][m] IN
                        /\ i \in DOMAIN records'
                        /\ records'[i].thread = u /\ records'[i].name = m /\ records'[i].end = 0
    BY DEF IndexValid
  <2>1. CASE u = t /\ m = n
    BY <2>1, <1>1, <1>4, <1>7 DEF Scope, k
  <2>2. CASE u # t \/ m # n
    BY <2>2, <1>t, <1>1, <1>4, <1>7 DEF IndexValid, k
  <2> QED BY <2>1, <2>2
<1>10. ASSUME NEW u \in Threads
       PROVE  EndsInnermost(u)' /\ OneLive(u)' /\ LiveIsActive(u)' /\ ActiveIsLive(u)'
  <2>0. EndsInnermost(u) /\ OneLive(u) /\ LiveIsActive(u) /\ ActiveIsLive(u)
    BY <1>t DEF StackInv
  <2>1. CASE u # t
    <3>1. /\ open'[u] = open[u] /\ calling'[u] = calling[u]
          /\ \A m \in Names : active_scopes'[u][m] = active_scopes[u][m]
      BY <2>1, <1>4, <1>5
    <3>2. EndsInnermost(u)' /\ OneLive(u)'
      BY <2>0, <3>1 DEF EndsInnermost, OneLive
    <3>3. ActiveIsLive(u)'
      BY <2>0, <3>1 DEF ActiveIsLive, Live
    <3>4. LiveIsActive(u)'
      <4> SUFFICES ASSUME NEW p \in DOMAIN open[u], Live(open[u][p])
                   PROVE  LET i == active_scopes'[u][open[u][p].name] IN
                            i # 0 /\ records'[i].start = open[u][p].start
        BY <3>1 DEF LiveIsActive, Live
      <4>1. open[u][p].name \in Names
        <5>1. open[u] \in Seq(OpenScope) /\ open[u][p] \in OpenScope
          BY <1>t, ElementOfSeq, LenProperties DEF OpenType
        <5> QED BY <5>1 DEF OpenScope
      <4> DEFINE i == active_scopes[u][open[u][p].name]
      <4>2. i # 0 /\ records[i].start = open[u][p].start
        BY <2>0 DEF LiveIsActive
      <4>3. i \in 1 .. Len(records)
        BY <4>1, <4>2, <1>t, <1>7 DEF IndexValid
      <4> QED BY <4>1, <4>2, <4>3, <3>1, <1>1
    <3> QED BY <3>2, <3>3, <3>4
  <2>2. CASE u = t
    <3>1. EndsInnermost(t)'
      BY <1>6 DEF EndsInnermost, NoCall
    <3>2. OneLive(t)'
      <4> SUFFICES ASSUME NEW p \in 1 .. d + 1, NEW q \in 1 .. d + 1,
                          p < q, open'[t][p].name = open'[t][q].name
                   PROVE  open'[t][p].shadowed
        BY <1>7 DEF OneLive
      <4>1. p \in 1 .. d
        BY <1>1
      <4>2. CASE q \in 1 .. d
        BY <4>1, <4>2, <2>0, <2>2, <1>3, <1>7 DEF OneLive
      <4>3. CASE q = d + 1
        <5>1. open[t][p].name = n
          <6>1. open'[t][q].name = n
            BY <4>3, <1>1
          <6>2. open'[t][p].name = open[t][p].name
            BY <4>1, <1>3
          <6> QED BY <6>1, <6>2
        <5> QED BY <5>1, <4>1, <1>3
      <4> QED BY <4>2, <4>3, <1>1
    <3>3. LiveIsActive(t)'
      <4> SUFFICES ASSUME NEW p \in 1 .. d + 1, Live(open'[t][p])
                   PROVE  LET i == active_scopes'[t][open'[t][p].name] IN
                            i # 0 /\ records'[i].start = open'[t][p].start
        BY <1>7 DEF LiveIsActive, Live
      <4>1. CASE p = d + 1
        BY <4>1, <1>1, <1>4 DEF Scope, k
      <4>2. CASE p \in 1 .. d
        <5>1. /\ open[t][p].name # n /\ Live(open[t][p])
              /\ open'[t][p].name = open[t][p].name /\ open'[t][p].start = open[t][p].start
          BY <4>2, <1>3 DEF Live
        <5>2. open[t][p].name \in Names
          <6>1. open[t] \in Seq(OpenScope) /\ open[t][p] \in OpenScope
            BY <4>2, <1>t, ElementOfSeq DEF OpenType, d
          <6> QED BY <6>1 DEF OpenScope
        <5> DEFINE i == active_scopes[t][open[t][p].name]
        <5>3. i # 0 /\ records[i].start = open[t][p].start
          BY <5>1, <4>2, <2>0, <2>2, <1>7 DEF LiveIsActive
        <5>4. i \in 1 .. Len(records)
          BY <5>2, <5>3, <1>t, <1>7 DEF IndexValid
        <5>5. records'[i].start = records[i].start
          BY <1>1, <5>4
        <5>6. active_scopes'[t][open'[t][p].name] = i
          <6>1. active_scopes'[t][open[t][p].name] = active_scopes[t][open[t][p].name]
            BY <1>4, <5>1, <5>2
          <6> QED BY <5>1, <6>1
        <5> HIDE DEF i
        <5> QED BY <5>1, <5>3, <5>5, <5>6
      <4> QED BY <4>1, <4>2, <1>1
    <3>4. ActiveIsLive(t)'
      <4> SUFFICES ASSUME NEW m \in Names, active_scopes'[t][m] # 0
                   PROVE  \E p \in 1 .. d + 1 : open'[t][p].name = m /\ Live(open'[t][p])
        BY <1>7 DEF ActiveIsLive, Live
      <4>1. CASE m = n
        BY <4>1, <1>1 DEF Live
      <4>2. CASE m # n
        <5>1. PICK p \in 1 .. d : open[t][p].name = m /\ Live(open[t][p])
          <6>1. active_scopes[t][m] # 0 /\ ActiveIsLive(t)
            BY <4>2, <2>0, <2>2, <1>4
          <6> QED BY <6>1, <1>7 DEF ActiveIsLive
        <5>2. open'[t][p].name = m /\ Live(open'[t][p])
          BY <5>1, <4>2, <1>3 DEF Live
        <5> QED BY <5>2, <1>1
      <4> QED BY <4>1, <4>2
    <3> QED BY <2>2, <3>1, <3>2, <3>3, <3>4
  <2> QED BY <2>1, <2>2
<1>11. ProfileExact'
  <2>1. {records'[i] : i \in Completed'} = {records[i] : i \in Completed}
    <3>1. Completed' = Completed
      BY <1>1, <1>7 DEF Completed, Scope, k
    <3>2. \A i \in Completed : records'[i] = records[i]
      BY <1>1, <1>7 DEF Completed
    <3> QED BY <3>1, <3>2
  <2> QED BY <2>1, <1>2, <1>t DEF ProfileExact
<1> QED BY <1>8, <1>9, <1>10, <1>11 DEF IInv, StackInv

(* The record of a live scope is there, and is its own. *)
LEMMA LiveRecord ==
  ASSUME TypeOK, IndexValid, NEW t \in Threads, LiveIsActive(t),
         NEW p \in 1 .. Len(open[t]), Live(open[t][p])
  PROVE  LET i == active_scopes[t][open[t][p].name] IN
           /\ i # 0 /\ i \in 1 .. Len(records) /\ records[i].start = open[t][p].start
           /\ open[t][p].name \in Names
<1> DEFINE i == active_scopes[t][open[t][p].name]
<1>t. RecordsType /\ OpenType
  BY TypeParts
<1>1. open[t] \in Seq(OpenScope) /\ DOMAIN open[t] = 1 .. Len(open[t])
  BY <1>t, LenProperties DEF OpenType
<1>2. open[t][p].name \in Names
  <2>1. open[t][p] \in OpenScope
    BY <1>1, ElementOfSeq
  <2> QED BY <2>1 DEF OpenScope
<1>3. i # 0 /\ records[i].start = open[t][p].start
  BY <1>1 DEF LiveIsActive
<1>4. i \in DOMAIN records
  BY <1>2, <1>3 DEF IndexValid
<1>5. DOMAIN records = 1 .. Len(records)
  BY <1>t, LenProperties DEF RecordsType
<1> QED BY <1>2, <1>3, <1>4, <1>5

(* The scope an end closes is live exactly if it is found. *)
LEMMA EndFinds ==
  ASSUME IInv, NEW t \in Threads, RecordEnd(t)
  PROVE  LET n == calling[t].name
             d == Len(open[t])
             i == active_scopes[t][n]
         IN  /\ i # 0 <=> Live(open[t][d])
             /\ i # 0 => records[i].start = open[t][d].start
             /\ \A p \in 1 .. d - 1 : Live(open[t][p]) => open[t][p].name # n
<1> DEFINE n == calling[t].name
           d == Len(open[t])
           i == active_scopes[t][n]
<1>t. TypeOK /\ IndexValid /\ EndsInnermost(t) /\ OneLive(t) /\ LiveIsActive(t) /\ ActiveIsLive(t)
  BY DEF IInv, StackInv
<1>1. /\ n \in Names /\ d \in Nat \ {0} /\ open[t] \in Seq(OpenScope)
      /\ open[t][d] \in OpenScope /\ open[t][d].name = n
  BY <1>t, EndStep
<1>2. DOMAIN open[t] = 1 .. d /\ d \in 1 .. d
  BY <1>1, LenProperties
<1>3. \A p \in 1 .. d - 1 : open[t][p].name = n => open[t][p].shadowed
  BY <1>1, <1>2, <1>t DEF OneLive
<1>4. Live(open[t][d]) => i # 0 /\ records[i].start = open[t][d].start
  BY <1>1, <1>2, <1>t DEF LiveIsActive
<1>5. ASSUME i # 0 PROVE Live(open[t][d])
  <2>1. PICK p \in 1 .. d : open[t][p].name = n /\ Live(open[t][p])
    BY <1>5, <1>1, <1>2, <1>t DEF ActiveIsLive
  <2>2. p = d
    BY <2>1, <1>1, <1>3 DEF Live
  <2> QED BY <2>1, <2>2
<1> QED BY <1>3, <1>4, <1>5 DEF Live

LEMMA EndKeeps == ASSUME IInv, NEW t \in Threads, RecordEnd(t) PROVE IInv'
<1> DEFINE n == calling[t].name
           c == calling[t].cycle
           d == Len(open[t])
           i == active_scopes[t][n]
<1>t. TypeOK /\ IndexValid /\ StackInv /\ ProfileExact /\ CountersType /\ RecordsType
      /\ CallingType /\ OpenType /\ ended \subseteq Record
  BY TypeParts DEF IInv
<1>s. EndsInnermost(t) /\ OneLive(t) /\ LiveIsActive(t) /\ ActiveIsLive(t)
  BY <1>t DEF StackInv
<1>1. /\ n \in Names /\ c \in Nat \ {0} /\ d \in Nat \ {0}
      /\ open[t] \in Seq(OpenScope) /\ open[t][d] \in OpenScope /\ open[t][d].name = n
      /\ open' = [open EXCEPT ![t] = open'[t]]
      /\ open'[t] \in Seq(OpenScope) /\ Len(open'[t]) = d - 1
      /\ \A p \in 1 .. d - 1 : open'[t][p] = open[t][p]
      /\ active_scopes' = [active_scopes EXCEPT ![t][n] = 0]
  BY <1>t, <1>s, EndStep
<1>2. /\ i \in Nat /\ records \in Seq(Record) /\ Len(records) \in Nat
      /\ i = 0 => records' = records
      /\ i # 0 => /\ i \in 1 .. Len(records)
                  /\ records' \in Seq(Record) /\ Len(records') = Len(records)
                  /\ \A j \in 1 .. Len(records) : j # i => records'[j] = records[j]
                  /\ records'[i] = Scope(t, n, records[i].start, c)
  BY <1>t, <1>s, EndRecords
<1>3. /\ i # 0 <=> Live(open[t][d])
      /\ i # 0 => records[i].start = open[t][d].start
      /\ \A p \in 1 .. d - 1 : Live(open[t][p]) => open[t][p].name # n
  BY EndFinds
<1>4. /\ calling' = [calling EXCEPT ![t] = NoCall] /\ UNCHANGED <<cycle, resets>>
      /\ ended' = IF Live(open[t][d]) THEN ended \cup {Scope(t, n, open[t][d].start, c)} ELSE ended
  BY DEF RecordEnd, Live
<1>5. /\ active_scopes'[t][n] = 0
      /\ \A u \in Threads, m \in Names :
           (u # t \/ m # n) => active_scopes'[u][m] = active_scopes[u][m]
      /\ active_scopes' \in [Threads -> [Names -> Nat]]
  BY <1>1, <1>t DEF RecordsType
<1>6. /\ calling'[t] = NoCall
      /\ \A u \in Threads : u # t => open'[u] = open[u] /\ calling'[u] = calling[u]
  BY <1>1, <1>4, <1>t DEF OpenType, CallingType
<1>7. /\ DOMAIN records = 1 .. Len(records) /\ DOMAIN records' = 1 .. Len(records)
      /\ DOMAIN open[t] = 1 .. d /\ DOMAIN open'[t] = 1 .. d - 1
  BY <1>1, <1>2, LenProperties
<1> HIDE DEF n, c, d, i
(* Only the record of this scope changes, and it is no other's. *)
<1>8. ASSUME NEW u \in Threads, NEW m \in Names, active_scopes'[u][m] # 0
      PROVE  /\ active_scopes'[u][m] = active_scopes[u][m] /\ active_scopes[u][m] # 0
             /\ active_scopes[u][m] \in 1 .. Len(records)
             /\ records'[active_scopes[u][m]] = records[active_scopes[u][m]]
             /\ u # t \/ m # n
  <2>1. u # t \/ m # n
    BY <1>8, <1>5
  <2> DEFINE j == active_scopes[u][m]
  <2>2. active_scopes'[u][m] = j /\ j # 0
    BY <2>1, <1>5, <1>8
  <2>3. j \in 1 .. Len(records) /\ records[j].thread = u /\ records[j].name = m
    BY <2>2, <1>t, <1>7 DEF IndexValid
  <2>4. i # 0 => records[i].thread = t /\ records[i].name = n
    BY <1>t, <1>1 DEF IndexValid, i
  <2>5. i = 0 \/ j # i
    BY <2>1, <2>3, <2>4
  <2>6. records'[j] = records[j]
    BY <2>3, <2>5, <1>2
  <2> QED BY <2>1, <2>2, <2>3, <2>6
<1>9. TypeOK'
  <2>1. CountersType'
    BY <1>4, <1>t DEF CountersType
  <2>2. RecordsType'
    BY <1>2, <1>5 DEF RecordsType
  <2>3. CallingType'
    BY <1>4, <1>t DEF CallingType
  <2>4. OpenType'
    BY <1>1, <1>t DEF OpenType
  <2>5. (ended \subseteq Record)'
    <3>1. Scope(t, n, open[t][d].start, c) \in Record
      BY <1>1 DEF Scope, Record, OpenScope
    <3> QED BY <3>1, <1>4, <1>t
  <2> QED BY <2>1, <2>2, <2>3, <2>4, <2>5
       DEF TypeOK, CountersType, RecordsType, CallingType, OpenType
<1>10. IndexValid'
  <2> SUFFICES ASSUME NEW u \in Threads, NEW m \in Names, active_scopes'[u][m] # 0
               PROVE  LET j == active_scopes'[u][m] IN
                        /\ j \in DOMAIN records'
                        /\ records'[j].thread = u /\ records'[j].name = m /\ records'[j].end = 0
    BY DEF IndexValid
  <2> QED BY <1>8, <1>7, <1>t DEF IndexValid
<1>11. ASSUME NEW u \in Threads
       PROVE  EndsInnermost(u)' /\ OneLive(u)' /\ LiveIsActive(u)' /\ ActiveIsLive(u)'
  <2>0. EndsInnermost(u) /\ OneLive(u) /\ LiveIsActive(u) /\ ActiveIsLive(u)
    BY <1>t DEF StackInv
  <2>1. CASE u # t
    <3>1. /\ open'[u] = open[u] /\ calling'[u] = calling[u]
          /\ \A m \in Names : active_scopes'[u][m] = active_scopes[u][m]
      BY <2>1, <1>5, <1>6
    <3>2. EndsInnermost(u)' /\ OneLive(u)'
      BY <2>0, <3>1 DEF EndsInnermost, OneLive
    <3>3. ActiveIsLive(u)'
      BY <2>0, <3>1 DEF ActiveIsLive, Live
    <3>4. LiveIsActive(u)'
      <4> SUFFICES ASSUME NEW p \in DOMAIN open[u], Live(open[u][p])
                   PROVE  LET j == active_scopes'[u][open[u][p].name] IN
                            j # 0 /\ records'[j].start = open[u][p].start
        BY <3>1 DEF LiveIsActive, Live
      <4>1. p \in 1 .. Len(open[u])
        BY <1>t, LenProperties DEF OpenType
      <4>2. /\ active_scopes[u][open[u][p].name] # 0 /\ open[u][p].name \in Names
            /\ records[active_scopes[u][open[u][p].name]].start = open[u][p].start
        BY <4>1, <2>0, <1>t, LiveRecord
      <4> QED BY <4>2, <3>1, <1>8
    <3> QED BY <3>2, <3>3, <3>4
  <2>2. CASE u = t
    <3>1. EndsInnermost(t)'
      BY <1>6 DEF EndsInnermost, NoCall
    <3>2. OneLive(t)'
      <4> SUFFICES ASSUME NEW p \in 1 .. d - 1, NEW q \in 1 .. d - 1,
                          p < q, open'[t][p].name = open'[t][q].name
                   PROVE  open'[t][p].shadowed
        BY <1>7 DEF OneLive
      <4>0. p \in 1 .. d /\ q \in 1 .. d
        <5>1. d \in Nat \ {0}
          BY <1>1
        <5> QED BY <5>1
      <4>1. p \in DOMAIN open[t] /\ q \in DOMAIN open[t]
        BY <4>0, <1>7
      <4>2. open'[t][p] = open[t][p] /\ open'[t][q] = open[t][q]
        BY <1>1
      <4> QED BY <4>1, <4>2, <1>s DEF OneLive
    <3>3. LiveIsActive(t)'
      <4> SUFFICES ASSUME NEW p \in 1 .. d - 1, Live(open'[t][p])
                   PROVE  LET j == active_scopes'[t][open'[t][p].name] IN
                            j # 0 /\ records'[j].start = open'[t][p].start
        BY <1>7 DEF LiveIsActive, Live
      <4>1. open'[t][p] = open[t][p] /\ p \in 1 .. Len(open[t])
        BY <1>1 DEF d
      <4>2. Live(open[t][p]) /\ open[t][p].name # n
        BY <4>1, <1>3
      <4>3. /\ active_scopes[t][open[t][p].name] # 0 /\ open[t][p].name \in Names
            /\ records[active_scopes[t][open[t][p].name]].start = open[t][p].start
        BY <4>1, <4>2, <1>s, <1>t, LiveRecord
      <4>4. active_scopes'[t][open[t][p].name] = active_scopes[t][open[t][p].name]
        BY <4>2, <4>3, <1>5
      <4> QED BY <4>1, <4>3, <4>4, <1>8
    <3>4. ActiveIsLive(t)'
      <4> SUFFICES ASSUME NEW m \in Names, active_scopes'[t][m] # 0
                   PROVE  \E p \in 1 .. d - 1 : open'[t][p].name = m /\ Live(open'[t][p])
        BY <1>7 DEF ActiveIsLive, Live
      <4>1. m # n /\ active_scopes[t][m] # 0
        BY <1>8
      <4>2. PICK p \in 1 .. d : open[t][p].name = m /\ Live(open[t][p])
        BY <4>1, <1>s, <1>7 DEF ActiveIsLive
      <4>3. p \in 1 .. d - 1
        BY <4>1, <4>2, <1>1
      <4> QED BY <4>2, <4>3, <1>1
    <3> QED BY <2>2, <3>1, <3>2, <3>3, <3>4
  <2> QED BY <2>1, <2>2
<1>12. ProfileExact'
  <2>1. CASE i = 0
    BY <2>1, <1>2, <1>3, <1>4, <1>t DEF ProfileExact, Completed
  <2>2. CASE i # 0
    <3>1. /\ i \in 1 .. Len(records) /\ records[i].end = 0
          /\ records'[i] = Scope(t, n, open[t][d].start, c)
      BY <2>2, <1>1, <1>2, <1>3, <1>t DEF IndexValid, i
    <3>2. i \notin Completed /\ Completed' = Completed \cup {i}
      BY <3>1, <2>2, <1>1, <1>2, <1>7 DEF Completed, Scope
    <3>3. \A j \in Completed : records'[j] = records[j]
      BY <3>2, <2>2, <1>2, <1>7 DEF Completed
    <3>4. {records'[j] : j \in Completed'}
            = {records[j] : j \in Completed} \cup {Scope(t, n, open[t][d].start, c)}
      BY <3>1, <3>2, <3>3
    <3> QED BY <3>4, <2>2, <1>3, <1>4, <1>t DEF ProfileExact
  <2> QED BY <2>1, <2>2
<1> QED BY <1>9, <1>10, <1>11, <1>12 DEF IInv, StackInv

-----------------------------------------------------------------------------
(* Neither the records nor the open scopes change when a thread reads the  *)
(* counter; the end it is about to record is of the innermost scope.       *)
LEMMA ReadKeeps ==
  ASSUME IInv, NEW t \in Threads, NEW op \in {"start", "end"}, NEW name \in Names,
         ReadCycle(t, op, name),
         op = "end" => open[t] # <<>> /\ name = open[t][Len(open[t])].name
  PROVE  IInv'
<1>t. TypeOK /\ IndexValid /\ StackInv /\ ProfileExact /\ CountersType /\ RecordsType
      /\ CallingType /\ OpenType /\ ended \subseteq Record
  BY TypeParts DEF IInv
<1>1. /\ calling' = [calling EXCEPT ![t] = [op |-> op, name |-> name, cycle |-> cycle]]
      /\ cycle' = cycle + 1
      /\ UNCHANGED <<records, active_scopes, resets, open, ended>>
  BY DEF ReadCycle
<1>2. /\ calling'[t] = [op |-> op, name |-> name, cycle |-> cycle]
      /\ \A u \in Threads : u # t => calling'[u] = calling[u]
  BY <1>1, <1>t DEF CallingType
<1>3. TypeOK'
  <2>1. CountersType'
    BY <1>1, <1>t DEF CountersType
  <2>2. [op |-> op, name |-> name, cycle |-> cycle] \in Reading
    BY <1>t DEF Reading, CountersType
  <2>3. CallingType'
    BY <2>2, <1>1, <1>t DEF CallingType
  <2>4. RecordsType' /\ OpenType' /\ (ended \subseteq Record)'
    BY <1>1, <1>t DEF RecordsType, OpenType
  <2> QED BY <2>1, <2>3, <2>4
       DEF TypeOK, CountersType, RecordsType, CallingType, OpenType
<1>4. IndexValid' /\ ProfileExact'
  BY <1>1, <1>t DEF IndexValid, ProfileExact, Completed
<1>5. ASSUME NEW u \in Threads
      PROVE  EndsInnermost(u)' /\ OneLive(u)' /\ LiveIsActive(u)' /\ ActiveIsLive(u)'
  <2>1. EndsInnermost(u) /\ OneLive(u) /\ LiveIsActive(u) /\ ActiveIsLive(u)
    BY <1>t DEF StackInv
  <2>2. OneLive(u)' /\ LiveIsActive(u)' /\ ActiveIsLive(u)'
    BY <1>1, <2>1 DEF OneLive, LiveIsActive, ActiveIsLive, Live
  <2>3. EndsInnermost(u)'
    <3>1. CASE u = t
      BY <3>1, <1>1, <1>2 DEF EndsInnermost
    <3>2. CASE u # t
      BY <3>2, <2>1, <1>1, <1>2 DEF EndsInnermost
    <3> QED BY <3>1, <3>2
  <2> QED BY <2>2, <2>3
<1> QED BY <1>3, <1>4, <1>5 DEF IInv, StackInv

LEMMA EnterKeeps ==
  ASSUME IInv, NEW t \in Threads, NEW name \in Names, EnterScope(t, name) PROVE IInv'
<1>1. ReadCycle(t, "start", name)
  BY DEF EnterScope
<1> QED BY <1>1, ReadKeeps

LEMMA ExitKeeps == ASSUME IInv, NEW t \in Threads, ExitScope(t) PROVE IInv'
<1> DEFINE name == open[t][Len(open[t])].name
<1>1. open[t] # <<>> /\ ReadCycle(t, "end", name)
  BY DEF ExitScope
<1>2. open[t] \in Seq(OpenScope)
  BY TypeParts DEF IInv, OpenType
<1>3. Len(open[t]) \in Nat \ {0}
  BY <1>1, <1>2, EmptySeq
<1>4. open[t][Len(open[t])] \in OpenScope
  BY <1>2, <1>3, ElementOfSeq
<1>5. name \in Names
  BY <1>4 DEF OpenScope
<1> QED BY <1>1, <1>5, ReadKeeps

(* After a reset no scope is live and no index is kept. *)
LEMMA ResetKeeps == ASSUME IInv, Reset PROVE IInv'
<1>t. TypeOK /\ IndexValid /\ StackInv /\ ProfileExact /\ CountersType /\ RecordsType
      /\ CallingType /\ OpenType
  BY TypeParts DEF IInv
<1>1. /\ records' = <<>> /\ ended' = {}
      /\ active_scopes' = [t \in Threads |-> [n \in Names |-> 0]]
      /\ open' = [t \in Threads |-> Forgotten(open[t])]
      /\ UNCHANGED <<cycle, calling>>
      /\ resets < MaxResets /\ resets' = resets + 1
  BY DEF Reset
<1>2. ASSUME NEW t \in Threads
      PROVE  /\ open[t] \in Seq(OpenScope) /\ open'[t] \in Seq(OpenScope)
             /\ Len(open'[t]) = Len(open[t]) /\ Len(open[t]) \in Nat
             /\ DOMAIN open[t] = 1 .. Len(open[t]) /\ DOMAIN open'[t] = 1 .. Len(open[t])
             /\ \A i \in 1 .. Len(open[t]) : /\ open'[t][i].name = open[t][i].name
                                            /\ open'[t][i].shadowed = open[t][i].shadowed
                                            /\ open'[t][i].lost = TRUE
  <2>1. open[t] \in Seq(OpenScope) /\ open'[t] = Forgotten(open[t])
    BY <1>1, <1>t DEF OpenType
  <2>2. /\ open'[t] \in Seq(OpenScope) /\ Len(open'[t]) = Len(open[t])
        /\ \A i \in 1 .. Len(open[t]) : /\ open'[t][i].name = open[t][i].name
                                       /\ open'[t][i].shadowed = open[t][i].shadowed
                                       /\ open'[t][i].lost = TRUE
    <3> DEFINE s == open[t]
               f == open'[t]
    <3>1. s \in Seq(OpenScope) /\ f = Forgotten(s)
      BY <2>1
    <3> HIDE DEF s, f
    <3>2. /\ f \in Seq(OpenScope) /\ Len(f) = Len(s)
          /\ \A i \in 1 .. Len(s) : /\ f[i].name = s[i].name
                                    /\ f[i].shadowed = s[i].shadowed
                                    /\ f[i].lost = TRUE
      BY <3>1, ForgottenType
    <3> QED BY <3>2 DEF s, f
  <2>3. /\ DOMAIN open[t] = 1 .. Len(open[t]) /\ DOMAIN open'[t] = 1 .. Len(open'[t])
        /\ Len(open[t]) \in Nat
    BY <2>1, <2>2, LenProperties
  <2> QED BY <2>1, <2>2, <2>3
<1>3. TypeOK'
  <2>1. CountersType'
    BY <1>1, <1>t, ProtonAssumption DEF CountersType
  <2>2. RecordsType'
    BY <1>1, EmptySeq DEF RecordsType
  <2>3. CallingType'
    BY <1>1, <1>t DEF CallingType
  <2>4. OpenType'
    BY <1>1, <1>2 DEF OpenType
  <2>5. (ended \subseteq Record)'
    BY <1>1
  <2> QED BY <2>1, <2>2, <2>3, <2>4, <2>5
       DEF TypeOK, CountersType, RecordsType, CallingType, OpenType
<1>4. IndexValid'
  BY <1>1 DEF IndexValid
<1>5. ProfileExact'
  BY <1>1 DEF ProfileExact, Completed
<1>6. ASSUME NEW u \in Threads
      PROVE  EndsInnermost(u)' /\ OneLive(u)' /\ LiveIsActive(u)' /\ ActiveIsLive(u)'
  <2>0. EndsInnermost(u) /\ OneLive(u)
    BY <1>t DEF StackInv
  <2>1. EndsInnermost(u)'
    <3> SUFFICES ASSUME calling[u].op = "end"
                 PROVE  open'[u] # <<>> /\ calling[u].name = open'[u][Len(open'[u])].name
      BY <1>1 DEF EndsInnermost
    <3>1. open[u] # <<>> /\ calling[u].name = open[u][Len(open[u])].name
      BY <2>0 DEF EndsInnermost
    <3>2. Len(open[u]) \in Nat \ {0} /\ Len(open'[u]) = Len(open[u])
      BY <3>1, <1>2, EmptySeq
    <3>3. open'[u][Len(open[u])].name = open[u][Len(open[u])].name
      <4>1. Len(open[u]) \in 1 .. Len(open[u])
        BY <3>2
      <4> QED BY <4>1, <1>2
    <3>4. open'[u] # <<>>
      <4>1. Len(open'[u]) # 0
        BY <3>2
      <4> QED BY <4>1, EmptySeq
    <3> QED BY <3>1, <3>2, <3>3, <3>4
  <2>2. OneLive(u)'
    BY <2>0, <1>2 DEF OneLive
  <2>3. LiveIsActive(u)'
    BY <1>2 DEF LiveIsActive, Live
  <2>4. ActiveIsLive(u)'
    BY <1>1 DEF ActiveIsLive
  <2> QED BY <2>1, <2>2, <2>3, <2>4
<1> QED BY <1>3, <1>4, <1>5, <1>6 DEF IInv, StackInv

LEMMA UnchangedKeeps ==
  ASSUME IInv, UNCHANGED <<records, active_scopes, cycle, resets, calling, open, ended>>
  PROVE  IInv'
<1>1. /\ records' = records /\ active_scopes' = active_scopes /\ cycle' = cycle
      /\ resets' = resets /\ calling' = calling /\ open' = open /\ ended' = ended
  OBVIOUS
<1>2. TypeOK'
  BY <1>1 DEF IInv, TypeOK
<1>3. IndexValid' /\ ProfileExact'
  BY <1>1 DEF IInv, IndexValid, ProfileExact, Completed
<1>4. StackInv'
  BY <1>1 DEF IInv, StackInv, EndsInnermost, OneLive, LiveIsActive, ActiveIsLive, Live
<1> QED BY <1>2, <1>3, <1>4 DEF IInv

LEMMA InitInv == Init => IInv
<1> SUFFICES ASSUME Init PROVE IInv
  OBVIOUS
<1>1. IndexValid /\ ProfileExact
  BY DEF Init, IndexValid, ProfileExact, Completed
<1>2. StackInv
  <2>1. \A t \in Threads : calling[t] = NoCall /\ open[t] = <<>>
    BY DEF Init
  <2>2. \A t \in Threads : EndsInnermost(t)
    BY <2>1 DEF EndsInnermost, NoCall
  <2>3. \A t \in Threads : OneLive(t) /\ LiveIsActive(t)
    BY <2>1 DEF OneLive, LiveIsActive
  <2>4. \A t \in Threads : ActiveIsLive(t)
    BY DEF Init, ActiveIsLive
  <2> QED BY <2>2, <2>3, <2>4 DEF StackInv
<1> QED BY <1>1, <1>2, InitType DEF IInv

LEMMA Inductive == Spec => []IInv
<1>1. IInv /\ [Next]_vars => IInv'
  <2> SUFFICES ASSUME IInv, [Next]_vars PROVE IInv'
    OBVIOUS
  <2>1. ASSUME NEW t \in Threads, NEW name \in Names, EnterScope(t, name) PROVE IInv'
    BY <2>1, EnterKeeps
  <2>2. ASSUME NEW t \in Threads, ExitScope(t) PROVE IInv'
    BY <2>2, ExitKeeps
  <2>3. ASSUME NEW t \in Threads, RecordStart(t) PROVE IInv'
    BY <2>3, StartKeeps
  <2>4. ASSUME NEW t \in Threads, RecordEnd(t) PROVE IInv'
    BY <2>4, EndKeeps
  <2>5. CASE Reset
    BY <2>5, ResetKeeps
  <2>6. CASE Dump
    BY <2>6, UnchangedKeeps DEF Dump
  <2>7. CASE UNCHANGED vars
    BY <2>7, UnchangedKeeps DEF vars
  <2> QED BY <2>1, <2>2, <2>3, <2>4, <2>5, <2>6, <2>7 DEF Next
<1> QED BY InitInv, <1>1, PTL DEF Spec

(* The variables hold values of their kind. *)
THEOREM TypeCorrect == Spec => []TypeOK
<1>1. IInv => TypeOK
  BY DEF IInv
<1> QED BY <1>1, Inductive, PTL

(* No index leads out of the records or to another scope's record, however *)
(* the threads' scopes and the host's resets interleave.                   *)
THEOREM IndexValidHolds == Spec => []IndexValid
<1>1. IInv => IndexValid
  BY DEF IInv
<1> QED BY <1>1, Inductive, PTL

(* The completed records are the scopes closed since the last reset, but   *)
(* for the shadowed and the lost ones.                                     *)
THEOREM ProfileExactHolds == Spec => []ProfileExact
<1>1. IInv => ProfileExact
  BY DEF IInv
<1> QED BY <1>1, Inductive, PTL

-----------------------------------------------------------------------------
(* What a dump adds up *)

Duration(e) == e.end - e.start

TotalOf(S) == MapThenSumSet(LAMBDA e : e.end - e.start, S)

(* A sum over a set is the same whichever element is added last.           *)
LEMMA SumOfSet ==
  ASSUME NEW S, IsFiniteSet(S), \A e \in S : Duration(e) \in Int
  PROVE  \E f : /\ f[{}] = 0
                /\ \A s \in SUBSET S : f[s] \in Int /\ \A e \in s : f[s] = Duration(e) + f[s \ {e}]
                /\ TotalOf(S) = f[S]
<1> DEFINE c == [s \in SUBSET S |-> CHOOSE e \in s : TRUE]
           op == [p \in S \X Int |-> Duration(p[1]) + p[2]]
           Is(g) == g = [s \in SUBSET S |->
                          IF s = {} THEN 0
                          ELSE ((CHOOSE e \in s : TRUE).end - (CHOOSE e \in s : TRUE).start)
                                 + g[s \ {CHOOSE e \in s : TRUE}]]
<1>1. \E g : Is(g)
  <2>1. 0 \in Int /\ \A x \in S, y \in Int : op[<<x, y>>] \in Int
    OBVIOUS
  <2>2. \A s \in SUBSET S : s # {} => c[s] \in s
    OBVIOUS
  <2>3. \A x \in S, y \in Int : op[<<x, y>>] = Duration(x) + y
    OBVIOUS
  <2>4. \A s \in SUBSET S : c[s] = CHOOSE e \in s : TRUE
    OBVIOUS
  <2> HIDE DEF op, c
  <2>5. PICK g : Recurses(g, S, Int, 0, op, c)
    BY <2>1, <2>2, SetRecursion, Zenon
  <2>6. ASSUME NEW s \in SUBSET S
        PROVE  g[s] = IF s = {} THEN 0 ELSE Duration(c[s]) + g[s \ {c[s]}]
    <3>1. s # {} => c[s] \in S /\ s \ {c[s]} \in SUBSET S
      BY <2>2
    <3>2. s # {} => g[s \ {c[s]}] \in Int
      BY <3>1, <2>5 DEF Recurses
    <3>3. s # {} => op[<<c[s], g[s \ {c[s]}]>>] = Duration(c[s]) + g[s \ {c[s]}]
      BY <2>3, <3>1, <3>2
    <3>4. g[s] = IF s = {} THEN 0 ELSE op[<<c[s], g[s \ {c[s]}]>>]
      BY <2>5 DEF Recurses
    <3> QED BY <3>3, <3>4, Zenon
  <2>7. g = [s \in SUBSET S |-> IF s = {} THEN 0 ELSE Duration(c[s]) + g[s \ {c[s]}]]
    BY <2>5, <2>6 DEF Recurses
  <2>8. Is(g)
    BY <2>4, <2>7 DEF Duration
  <2> HIDE DEF Is
  <2> QED BY <2>8
<1> DEFINE f == CHOOSE g : Is(g)
<1>2. Is(f)
  <2> HIDE DEF Is
  <2> QED BY <1>1
<1>3. TotalOf(S) = f[S]
  BY DEF TotalOf, MapThenSumSet, MapThenFoldSet
<1> HIDE DEF f
<1>4. \A s \in SUBSET S : s # {} => c[s] \in s
  OBVIOUS
<1>5. \A s \in SUBSET S : f[s] = IF s = {} THEN 0 ELSE Duration(c[s]) + f[s \ {c[s]}]
  BY <1>2 DEF Duration
<1> HIDE DEF c, Is
<1>6. f[{}] = 0
  BY <1>5
<1>7. \A s \in SUBSET S : f[s] \in Int
  <2> DEFINE T == {s \in SUBSET S : f[s] \in Int}
  <2>1. ASSUME NEW s \in SUBSET S, \A e \in s : s \ {e} \in T PROVE s \in T
    <3>1. CASE s = {}
      BY <3>1, <1>6
    <3>2. CASE s # {}
      <4>1. c[s] \in s /\ s \ {c[s]} \in T /\ f[s] = Duration(c[s]) + f[s \ {c[s]}]
        BY <3>2, <2>1, <1>4, <1>5
      <4> QED BY <4>1
    <3> QED BY <3>1, <3>2
  <2>2. SUBSET S \subseteq T
    <3> HIDE DEF T
    <3> QED BY <2>1, SubsetInduction
  <2> QED BY <2>2
<1>8. \A s \in SUBSET S : \A e \in s : f[s] = Duration(e) + f[s \ {e}]
  <2> DEFINE T == {s \in SUBSET S : \A e \in s : f[s] = Duration(e) + f[s \ {e}]}
  <2>1. ASSUME NEW s \in SUBSET S, \A e \in s : s \ {e} \in T PROVE s \in T
    <3> SUFFICES ASSUME NEW e \in s PROVE f[s] = Duration(e) + f[s \ {e}]
      OBVIOUS
    <3> PICK x : x = c[s]
      OBVIOUS
    <3>1. x \in s /\ f[s] = Duration(x) + f[s \ {x}]
      BY <1>4, <1>5
    <3>2. CASE e = x
      BY <3>1, <3>2
    <3>3. CASE e # x
      <4>1. e \in s \ {x} /\ x \in s \ {e} /\ (s \ {x}) \ {e} = (s \ {e}) \ {x}
        BY <3>1, <3>3
      <4>2. f[s \ {x}] = Duration(e) + f[(s \ {x}) \ {e}]
        BY <4>1, <3>1, <2>1
      <4>3. f[s \ {e}] = Duration(x) + f[(s \ {x}) \ {e}]
        BY <4>1, <3>1, <2>1
      <4>4. Duration(e) \in Int /\ Duration(x) \in Int /\ f[(s \ {x}) \ {e}] \in Int
        BY <3>1, <1>7
      <4> QED BY <3>1, <4>2, <4>3, <4>4
    <3> QED BY <3>2, <3>3
  <2>2. SUBSET S \subseteq T
    <3> HIDE DEF T
    <3> QED BY <2>1, SubsetInduction
  <2> QED BY <2>2
<1> QED BY <1>3, <1>6, <1>7, <1>8

(* What a dump makes of the records up to one, and of the next.            *)
Tallies == [Names -> [count : Nat, total : Int]]

Tally(times, r) ==
  IF r.end = 0 THEN times
  ELSE [times EXCEPT ![r.name] = [count |-> @.count + 1, total |-> @.total + r.end - r.start]]

(* What one record adds, to the times of its own name only.                *)
LEMMA TallyType ==
  ASSUME NEW r \in Record
  PROVE  /\ NoTimes \in Tallies /\ \A n \in Names : NoTimes[n] = [count |-> 0, total |-> 0]
         /\ \A times \in Tallies :
              /\ Tally(times, r) \in Tallies
              /\ \A n \in Names : Tally(times, r)[n] =
                   IF r.end = 0 \/ r.name # n THEN times[n]
                   ELSE [count |-> times[n].count + 1, total |-> times[n].total + Duration(r)]
<1>1. r.name \in Names /\ r.start \in Nat /\ r.end \in Nat
  BY DEF Record
<1>2. NoTimes \in Tallies /\ \A n \in Names : NoTimes[n] = [count |-> 0, total |-> 0]
  BY DEF NoTimes, Tallies
<1>3. ASSUME NEW times \in Tallies
      PROVE  /\ Tally(times, r) \in Tallies
             /\ \A n \in Names : Tally(times, r)[n] =
                  IF r.end = 0 \/ r.name # n THEN times[n]
                  ELSE [count |-> times[n].count + 1, total |-> times[n].total + Duration(r)]
  <2>1. \A n \in Names : times[n].count \in Nat /\ times[n].total \in Int
    BY DEF Tallies
  <2> DEFINE y(n) == [count |-> times[n].count + 1, total |-> times[n].total + Duration(r)]
             z == [n \in Names |-> IF n = r.name THEN y(n) ELSE times[n]]
  <2>2. Tally(times, r) = IF r.end = 0 THEN times ELSE z
    BY <1>1 DEF Tally, Tallies, Duration
  <2>3. \A n \in Names : y(n) \in [count : Nat, total : Int]
    BY <1>1, <2>1 DEF Duration
  <2> HIDE DEF y
  <2>4. z \in Tallies
    BY <2>3 DEF Tallies
  <2>5. \A n \in Names : z[n] = IF n = r.name THEN y(n) ELSE times[n]
    OBVIOUS
  <2> HIDE DEF z
  <2>6. \A n \in Names : y(n) = [count |-> times[n].count + 1, total |-> times[n].total + Duration(r)]
    BY DEF y
  <2> QED BY <2>2, <2>4, <2>5, <2>6
<1> QED BY <1>2, <1>3

(* The dump goes over the records from the first to the last.              *)
LEMMA TimesSteps ==
  ASSUME records \in Seq(Record)
  PROVE  \E g : /\ \A k \in 0 .. Len(records) : g[k] \in Tallies
                /\ g[0] = NoTimes /\ Times = g[Len(records)]
                /\ \A k \in 1 .. Len(records) : g[k] = Tally(g[k - 1], records[k])
<1>a. Len(records) \in Nat /\ DOMAIN records = 1 .. Len(records)
  BY LenProperties
<1> PICK n \in Nat : n = Len(records)
  BY <1>a
<1> DEFINE S == 1 .. n
           c == [s \in SUBSET S |-> Max(s)]
           op == [p \in S \X Tallies |-> Tally(p[2], records[p[1]])]
           Is(g) == g = [s \in SUBSET S |-> IF s = {} THEN NoTimes
                                            ELSE Tally(g[s \ {Max(s)}], records[Max(s)])]
<1>b. IsFiniteSet(S)
  BY FS_Interval
<1>c. \A k \in S : records[k] \in Record
  BY <1>a, ElementOfSeq
<1>d. \A s \in SUBSET S : s # {} => Max(s) \in s /\ \A y \in s : Max(s) >= y
  BY MaxIn
<1>e. NoTimes \in Tallies
  BY DEF NoTimes, Tallies
<1>1. PICK h : Recurses(h, S, Tallies, NoTimes, op, c)
  <2>1. \A x \in S, y \in Tallies : op[<<x, y>>] \in Tallies
    <3> SUFFICES ASSUME NEW x \in S, NEW y \in Tallies PROVE op[<<x, y>>] \in Tallies
      OBVIOUS
    <3>1. Tally(y, records[x]) \in Tallies
      BY <1>c, TallyType
    <3> QED BY <3>1
  <2>2. \A s \in SUBSET S : s # {} => c[s] \in s
    BY <1>d
  <2> HIDE DEF op, c, S
  <2> QED BY <2>1, <2>2, <1>b, <1>e, SetRecursion, Zenon
<1>2. Is(h)
  <2>1. \A s \in SUBSET S : c[s] = Max(s)
    OBVIOUS
  <2>2. \A x \in S, y \in Tallies : op[<<x, y>>] = Tally(y, records[x])
    OBVIOUS
  <2> HIDE DEF op, c
  <2>3. ASSUME NEW s \in SUBSET S
        PROVE  h[s] = IF s = {} THEN NoTimes ELSE Tally(h[s \ {Max(s)}], records[Max(s)])
    <3>1. s # {} => Max(s) \in S /\ s \ {Max(s)} \in SUBSET S
      BY <1>d
    <3>2. s # {} => h[s \ {Max(s)}] \in Tallies
      BY <3>1, <1>1 DEF Recurses
    <3>3. s # {} => op[<<Max(s), h[s \ {Max(s)}]>>] = Tally(h[s \ {Max(s)}], records[Max(s)])
      BY <2>2, <3>1, <3>2
    <3>4. h[s] = IF s = {} THEN NoTimes ELSE op[<<Max(s), h[s \ {Max(s)}]>>]
      BY <1>1, <2>1 DEF Recurses
    <3> QED BY <3>3, <3>4, Zenon
  <2> QED BY <1>1, <2>3 DEF Recurses
<1> DEFINE m == CHOOSE g : Is(g)
<1>3. Is(m)
  <2> HIDE DEF Is
  <2> QED BY <1>2
<1>4. Times = m[S]
  BY <1>a DEF Times, FoldLeft, MapThenFoldSet, Tally
<1> HIDE DEF m
<1>5. \A s \in SUBSET S : m[s] = IF s = {} THEN NoTimes ELSE Tally(m[s \ {Max(s)}], records[Max(s)])
  BY <1>3, Zenon
<1> HIDE DEF Is, op, c
<1> DEFINE g == [k \in 0 .. n |-> m[1 .. k]]
<1>6. g[0] = NoTimes
  <2>1. g[0] = m[1 .. 0] /\ 1 .. 0 = {}
    OBVIOUS
  <2> QED BY <2>1, <1>5
<1>7. ASSUME NEW k \in 1 .. n PROVE g[k] = Tally(g[k - 1], records[k])
  <2>1. 1 .. k \in SUBSET S /\ 1 .. k # {} /\ k \in 1 .. k /\ k - 1 \in 0 .. n
    OBVIOUS
  <2>2. Max(1 .. k) = k
    <3>1. Max(1 .. k) \in 1 .. k /\ Max(1 .. k) >= k
      BY <2>1, <1>d
    <3> QED BY <3>1
  <2>3. (1 .. k) \ {k} = 1 .. (k - 1)
    OBVIOUS
  <2>4. m[1 .. k] = Tally(m[1 .. (k - 1)], records[k])
    BY <2>1, <2>2, <2>3, <1>5
  <2>5. g[k] = m[1 .. k] /\ g[k - 1] = m[1 .. (k - 1)]
    BY <2>1
  <2> QED BY <2>4, <2>5
<1>8. Times = g[n]
  BY <1>4
<1> HIDE DEF g
<1>9. \A k \in 0 .. n : g[k] \in Tallies
  <2> DEFINE K == {k \in Nat : k <= n => g[k] \in Tallies}
  <2>1. 0 \in K
    BY <1>6, <1>e
  <2>2. ASSUME NEW k \in Nat, k \in K PROVE k + 1 \in K
    <3> SUFFICES ASSUME k + 1 <= n PROVE g[k + 1] \in Tallies
      OBVIOUS
    <3>1. k + 1 \in 1 .. n /\ (k + 1) - 1 = k /\ g[k] \in Tallies
      BY <2>2
    <3>2. g[k + 1] = Tally(g[k], records[k + 1])
      BY <3>1, <1>7
    <3>3. records[k + 1] \in Record
      BY <3>1, <1>c
    <3> QED BY <3>1, <3>2, <3>3, TallyType
  <2>3. Nat \subseteq K
    <3> HIDE DEF K
    <3> QED BY <2>1, <2>2, SetInduction
  <2> QED BY <2>3
<1> QED BY <1>6, <1>7, <1>8, <1>9

(* A dump of records no two of which are the same reports their number and *)
(* the sum of their durations.                                             *)
LEMMA TimesAddUp ==
  ASSUME records \in Seq(Record), \A i, j \in DOMAIN records : records[i] = records[j] => i = j,
         NEW name \in Names
  PROVE  LET E == {e \in {records[i] : i \in Completed} : e.name = name} IN
           Times[name] = [count |-> Cardinality(E), total |-> TotalOf(E)]
<1> PICK n \in Nat : n = Len(records) /\ DOMAIN records = 1 .. n
  BY LenProperties
<1> DEFINE Counted == {i \in Completed : records[i].name = name}
           Upto(k) == {records[i] : i \in {j \in Counted : j <= k}}
           E == {e \in {records[i] : i \in Completed} : e.name = name}
<1>a. \A k \in 1 .. n : records[k] \in Record /\ Duration(records[k]) \in Int
  <2>1. \A k \in 1 .. n : records[k] \in Record
    BY ElementOfSeq
  <2> QED BY <2>1 DEF Record, Duration
<1>b. Upto(n) = E /\ Upto(0) = {} /\ \A k \in 0 .. n : Upto(k) \subseteq E
  BY DEF Completed
<1>c. IsFiniteSet(E)
  <2>1. IsFiniteSet(1 .. n)
    BY FS_Interval
  <2>2. IsFiniteSet({records[i] : i \in 1 .. n})
    <3> DEFINE T == {records[i] : i \in 1 .. n}  h == [i \in 1 .. n |-> records[i]]
    <3>1. h \in Surjection(1 .. n, T)
      BY DEF Surjection
    <3> HIDE DEF T, h
    <3>2. IsFiniteSet(T)
      BY <2>1, <3>1, FS_Surjection
    <3> QED BY <3>2 DEF T
  <2>3. E \subseteq {records[i] : i \in 1 .. n}
    BY DEF Completed
  <2> QED BY <2>2, <2>3, FS_Subset
<1>d. \A e \in E : Duration(e) \in Int
  BY <1>a DEF Completed
<1>e. ASSUME NEW k \in 1 .. n
      PROVE  IF records[k].end = 0 \/ records[k].name # name THEN Upto(k) = Upto(k - 1)
             ELSE /\ Upto(k) = Upto(k - 1) \cup {records[k]} /\ records[k] \notin Upto(k - 1)
                  /\ Upto(k) \ {records[k]} = Upto(k - 1)
  <2>1. \A j \in 1 .. n : j <= k <=> j <= k - 1 \/ j = k
    OBVIOUS
  <2>2. k \in Counted <=> ~(records[k].end = 0 \/ records[k].name # name)
    BY DEF Completed
  <2>3. Counted \subseteq 1 .. n
    BY DEF Completed
  <2> HIDE DEF Counted
  <2>4. records[k] \notin Upto(k - 1)
    <3>1. ASSUME NEW j \in Counted, j <= k - 1 PROVE records[j] # records[k]
      BY <2>3, <3>1
    <3> QED BY <3>1
  <2>5. CASE k \in Counted
    <3>1. Upto(k) = Upto(k - 1) \cup {records[k]}
      BY <2>1, <2>3, <2>5
    <3> QED BY <2>2, <2>4, <2>5, <3>1
  <2>6. CASE k \notin Counted
    BY <2>1, <2>2, <2>3, <2>6
  <2> QED BY <2>5, <2>6
<1> PICK f : /\ f[{}] = 0
             /\ \A s \in SUBSET E : f[s] \in Int /\ \A e \in s : f[s] = Duration(e) + f[s \ {e}]
             /\ TotalOf(E) = f[E]
  <2> HIDE DEF E
  <2> QED BY <1>c, <1>d, SumOfSet
<1> PICK g : /\ \A k \in 0 .. n : g[k] \in Tallies
             /\ g[0] = NoTimes /\ Times = g[n]
             /\ \A k \in 1 .. n : g[k] = Tally(g[k - 1], records[k])
  BY TimesSteps
<1> DEFINE K == {k \in Nat : k <= n => g[k][name] = [count |-> Cardinality(Upto(k)), total |-> f[Upto(k)]]}
<1> HIDE DEF Upto, E
<1>f. \A k \in 0 .. n : IsFiniteSet(Upto(k)) /\ Cardinality(Upto(k)) \in Nat /\ f[Upto(k)] \in Int
  BY <1>b, <1>c, FS_Subset, FS_CardinalityType
<1>1. 0 \in K
  <2>1. NoTimes[name] = [count |-> 0, total |-> 0]
    BY DEF NoTimes
  <2>2. Cardinality({}) = 0
    BY FS_EmptySet
  <2> QED BY <2>1, <2>2, <1>b
<1>2. ASSUME NEW k \in Nat, k \in K PROVE k + 1 \in K
  <2> SUFFICES ASSUME k + 1 <= n
               PROVE  g[k + 1][name] = [count |-> Cardinality(Upto(k + 1)), total |-> f[Upto(k + 1)]]
    OBVIOUS
  <2> PICK r : r = records[k + 1]
    OBVIOUS
  <2>1. k + 1 \in 1 .. n /\ (k + 1) - 1 = k /\ k \in 0 .. n /\ k + 1 \in 0 .. n
    OBVIOUS
  <2>2. r \in Record /\ Duration(r) \in Int
    BY <2>1, <1>a
  <2>3. g[k] \in Tallies /\ g[k + 1] = Tally(g[k], r)
    BY <2>1
  <2>4. g[k][name] = [count |-> Cardinality(Upto(k)), total |-> f[Upto(k)]]
    BY <1>2, <2>1
  <2>5. g[k + 1][name] = IF r.end = 0 \/ r.name # name THEN g[k][name]
                         ELSE [count |-> g[k][name].count + 1, total |-> g[k][name].total + Duration(r)]
    BY <2>2, <2>3, TallyType
  <2>6. CASE r.end = 0 \/ r.name # name
    BY <2>1, <2>4, <2>5, <2>6, <1>e
  <2>7. CASE ~(r.end = 0 \/ r.name # name)
    <3>1. /\ Upto(k + 1) = Upto(k) \cup {r} /\ r \notin Upto(k) /\ Upto(k + 1) \ {r} = Upto(k)
      BY <2>1, <2>7, <1>e
    <3>2. Cardinality(Upto(k + 1)) = Cardinality(Upto(k)) + 1
      BY <3>1, <2>1, <1>f, FS_AddElement
    <3>3. f[Upto(k + 1)] = Duration(r) + f[Upto(k)]
      <4>1. r \in Upto(k + 1) /\ Upto(k + 1) \in SUBSET E
        BY <3>1, <2>1, <1>b
      <4>2. f[Upto(k + 1)] = Duration(r) + f[Upto(k + 1) \ {r}]
        BY <4>1
      <4> QED BY <4>2, <3>1
    <3>4. f[Upto(k)] + Duration(r) = f[Upto(k + 1)]
      BY <3>3, <2>1, <2>2, <1>f
    <3> QED BY <2>4, <2>5, <2>7, <3>2, <3>4
  <2> QED BY <2>6, <2>7
<1>3. n \in K
  <2> HIDE DEF K
  <2> QED BY <1>1, <1>2, SetInduction
<1>4. Times[name] = [count |-> Cardinality(E), total |-> f[E]]
  BY <1>3, <1>b
<1> QED BY <1>4 DEF E

(* No two scopes start with the same reading of the counter: initially,   *)
(* and after each step.                                                    *)
LEMMA FreshInit == Init => FreshInv
<1> SUFFICES ASSUME Init PROVE FreshInv
  OBVIOUS
<1>1. records = <<>> /\ DOMAIN records = {}
  BY DEF Init
<1>2. Starting = {}
  BY DEF Init, Starting, NoCall
<1> QED BY <1>1, <1>2 DEF FreshInv

LEMMA FreshStep == TypeOK /\ FreshInv /\ [Next]_vars => FreshInv'
<1> SUFFICES ASSUME TypeOK, FreshInv, [Next]_vars PROVE FreshInv'
  OBVIOUS
<1>a. /\ cycle \in Nat \ {0} /\ DOMAIN records = 1 .. Len(records) /\ Len(records) \in Nat
      /\ DOMAIN calling = Threads /\ \A t \in Starting : calling[t].cycle \in Nat
      /\ \A i \in DOMAIN records : records[i] \in Record /\ records[i].start \in Nat
  <2>1. \A i \in DOMAIN records : records[i] \in Record
    BY ElementOfSeq, LenProperties DEF TypeOK
  <2>2. \A t \in Starting : calling[t].cycle \in Nat
    BY DEF TypeOK, Starting, Reading, NoCall
  <2> QED BY <2>1, <2>2, LenProperties DEF TypeOK, Record
<1>1. ASSUME NEW t \in Threads, NEW op, NEW name, ReadCycle(t, op, name) PROVE FreshInv'
  <2>1. records' = records /\ cycle' = cycle + 1
    BY <1>1 DEF ReadCycle
  <2>2. \A u \in Threads : calling'[u] = IF u = t THEN [op |-> op, name |-> name, cycle |-> cycle] ELSE calling[u]
    BY <1>1, <1>a DEF ReadCycle
  <2>3. ASSUME NEW u \in Starting'
        PROVE  (u = t /\ calling'[u].cycle = cycle) \/ (u \in Starting /\ u # t /\ calling'[u].cycle = calling[u].cycle)
    BY <2>2 DEF Starting
  <2> QED BY <2>1, <2>3, <1>a DEF FreshInv
<1>2. ASSUME NEW t \in Threads, RecordStart(t) PROVE FreshInv'
  <2> PICK n \in Nat : n = Len(records)
    BY <1>a
  <2> PICK r : r = Scope(t, calling[t].name, calling[t].cycle, 0)
    OBVIOUS
  <2>1. t \in Starting /\ r.start = calling[t].cycle
    BY <1>2 DEF RecordStart, Starting, Scope
  <2>2. records' = Append(records, r) /\ cycle' = cycle
    BY <1>2 DEF RecordStart
  <2>3. /\ DOMAIN records' = 1 .. n + 1 /\ DOMAIN records = 1 .. n
        /\ records'[n + 1] = r /\ \A i \in 1 .. n : records'[i] = records[i]
    BY <2>2, <1>a, AppendProperties DEF TypeOK
  <2>4. \A u \in Starting' : u \in Starting /\ u # t /\ calling'[u] = calling[u]
    BY <1>2, <1>a DEF RecordStart, Starting, NoCall
  <2>5. \A i \in 1 .. n + 1 : i \in 1 .. n \/ i = n + 1
    OBVIOUS
  <2>6. \A i \in DOMAIN records' : records'[i].start < cycle'
    BY <2>1, <2>2, <2>3, <2>5 DEF FreshInv
  <2>7. \A i, j \in DOMAIN records' : records'[i].start = records'[j].start => i = j
    BY <2>1, <2>3, <2>5 DEF FreshInv
  <2>8. ASSUME NEW u \in Starting'
        PROVE  /\ calling'[u].cycle < cycle'
               /\ \A i \in DOMAIN records' : records'[i].start # calling'[u].cycle
               /\ \A w \in Starting' : calling'[u].cycle = calling'[w].cycle => u = w
    BY <2>1, <2>2, <2>3, <2>4, <2>5 DEF FreshInv
  <2> QED BY <2>6, <2>7, <2>8 DEF FreshInv
<1>3. ASSUME NEW t \in Threads, RecordEnd(t) PROVE FreshInv'
  <2>1. /\ DOMAIN records' = DOMAIN records /\ cycle' = cycle
        /\ \A i \in DOMAIN records : records'[i].start = records[i].start
    <3> PICK x : x = Found(t, calling[t].name)
      OBVIOUS
    <3>1. records' = records \/ records' = [records EXCEPT ![x].end = calling[t].cycle]
      BY <1>3 DEF RecordEnd
    <3>2. ASSUME NEW i \in DOMAIN records, records' = [records EXCEPT ![x].end = calling[t].cycle]
          PROVE  records'[i].start = records[i].start
      <4>1. records[i] \in Record
        BY <1>a
      <4> QED BY <3>2, <4>1 DEF Record
    <3> QED BY <1>3, <3>1, <3>2 DEF RecordEnd
  <2>2. \A u \in Starting' : u \in Starting /\ calling'[u] = calling[u]
    BY <1>3, <1>a DEF RecordEnd, Starting, NoCall
  <2> QED BY <2>1, <2>2 DEF FreshInv
<1>4. CASE Reset
  <2>1. records' = <<>> /\ DOMAIN records' = {} /\ cycle' = cycle /\ calling' = calling
    BY <1>4 DEF Reset
  <2> QED BY <2>1 DEF FreshInv, Starting
<1>5. CASE Dump \/ UNCHANGED vars
  <2>1. records' = records /\ cycle' = cycle /\ calling' = calling
    BY <1>5 DEF Dump, vars
  <2> QED BY <2>1 DEF FreshInv, Starting
<1> QED BY <1>1, <1>2, <1>3, <1>4, <1>5 DEF Next, EnterScope, ExitScope

(* A dump reports of each name the number of the scopes closed since the   *)
(* last reset and the cycles spent in them.                                *)
THEOREM DumpAddsUpHolds == Spec => DumpAddsUp
<1> DEFINE Reported(n) == LET scopes == {e \in ended : e.name = n} IN
                            [count |-> Cardinality(scopes), total |-> TotalOf(scopes)]
<1>1. ASSUME IInv, FreshInv, [Next]_vars, report' # report, NEW n \in Names
      PROVE  report'[n] = Reported(n)
  <2>1. report' = Times
    BY <1>1 DEF Next, EnterScope, ExitScope, ReadCycle, RecordStart, RecordEnd, Reset, Dump, vars
  <2>2. records \in Seq(Record) /\ {records[i] : i \in Completed} = ended
    BY <1>1 DEF IInv, TypeOK, ProfileExact
  <2>3. \A i, j \in DOMAIN records : records[i] = records[j] => i = j
    BY <1>1 DEF FreshInv
  <2> QED BY <2>1, <2>2, <2>3, TimesAddUp
<1>2. IInv /\ FreshInv /\ [Next]_vars =>
        [report' # report =>
           \A n \in Names :
             LET scopes == {e \in ended : e.name = n} IN
               report'[n] = [count |-> Cardinality(scopes),
                             total |-> MapThenSumSet(LAMBDA e : e.end - e.start, scopes)]]_vars
  BY <1>1 DEF TotalOf, MapThenSumSet, MapThenFoldSet
<1>3. Spec => [](IInv /\ FreshInv)
  <2>1. IInv => TypeOK
    BY DEF IInv
  <2> QED BY <2>1, Inductive, FreshInit, FreshStep, PTL DEF Spec
<1> QED BY <1>2, <1>3, PTL DEF Spec, DumpAddsUp
=============================================================================
