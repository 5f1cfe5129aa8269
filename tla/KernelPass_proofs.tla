------------------------- MODULE KernelPass_proofs -------------------------
(***************************************************************************)
(* What TLAPS proves about KernelPass, for every grid, every set of texts, *)
(* every length a name keeps and kernels of every number of operations.    *)
(***************************************************************************)
EXTENDS KernelPass, SequenceTheorems, TLAPS

-----------------------------------------------------------------------------
(* The arguments of functions *)

(* The last arguments of a function are the grid. *)
HasGrid(args) == \E n \in 0 .. 2 : args = Own(n) \o Grid

FramesInv ==
  /\ frames \in Seq(Seq(Nat)) /\ Len(frames) >= 1
  /\ \A i \in 1 .. Len(frames) : HasGrid(frames[i])

LEMMA OwnIs ==
  ASSUME NEW n \in Nat
  PROVE  Own(n) \in Seq(Nat) /\ Len(Own(n)) = n
<1>1. Own(n) \in [1 .. n -> Nat]
  BY DEF Own
<1> QED BY <1>1, IsASeq, LenProperties

LEMMA GridIs == Grid \in Seq(Nat) /\ Len(Grid) = 3
  BY KernelPassAssumption

LEMMA GridArgs ==
  ASSUME NEW args, HasGrid(args)
  PROVE  /\ args \in Seq(Nat) /\ Len(args) \in Nat /\ Len(args) >= 3
         /\ \A axis \in 0 .. 2 : args[Len(args) - 3 + axis + 1] = Grid[axis + 1]
         /\ SubSeq(args, Len(args) - 2, Len(args)) = Grid
<1>1. PICK n \in 0 .. 2 : args = Own(n) \o Grid
  BY DEF HasGrid
<1> DEFINE own == Own(n)
<1>2. own \in Seq(Nat) /\ Len(own) = n /\ n \in Nat
  BY <1>1, OwnIs
<1>3. args = own \o Grid
  BY <1>1
<1> HIDE DEF own
<1>4. /\ args \in Seq(Nat) /\ Len(args) = n + 3
      /\ \A i \in 1 .. n + 3 : args[i] = IF i <= n THEN own[i] ELSE Grid[i - n]
  <2>1. /\ own \o Grid \in Seq(Nat) /\ Len(own \o Grid) = Len(own) + Len(Grid)
        /\ \A i \in 1 .. Len(own) + Len(Grid) :
             (own \o Grid)[i] = IF i <= Len(own) THEN own[i] ELSE Grid[i - Len(own)]
    BY <1>2, GridIs, ConcatProperties
  <2> QED BY <1>2, <1>3, <2>1, GridIs
<1>5. ASSUME NEW axis \in 0 .. 2 PROVE args[Len(args) - 3 + axis + 1] = Grid[axis + 1]
  <2>1. Len(args) - 3 + axis + 1 = n + axis + 1 /\ n + axis + 1 \in 1 .. n + 3
        /\ ~(n + axis + 1 <= n) /\ (n + axis + 1) - n = axis + 1
    BY <1>2, <1>4
  <2> QED BY <1>4, <2>1
<1>6. SubSeq(args, Len(args) - 2, Len(args)) = Grid
  <2> DEFINE sub == SubSeq(args, Len(args) - 2, Len(args))
  <2>1. /\ sub \in Seq(Nat) /\ Len(sub) = 3
        /\ \A i \in 1 .. 3 : sub[i] = args[Len(args) - 2 + i - 1]
    <3> DEFINE m == n + 1
               l == n + 3
    <3>1. m \in 1 .. l + 1 /\ l \in m - 1 .. Len(args) /\ l - m + 1 = 3 /\ m <= l
          /\ sub = SubSeq(args, m, l) /\ Len(args) - 2 = m
      BY <1>2, <1>4
    <3> HIDE DEF m, l, sub
    <3>2. /\ sub \in Seq(Nat) /\ Len(sub) = 3
          /\ \A i \in 1 .. 3 : sub[i] = args[m + i - 1]
      BY <1>4, <3>1, SubSeqProperties
    <3> QED BY <3>1, <3>2
  <2>2. \A i \in 1 .. 3 : args[Len(args) - 2 + i - 1] = Grid[i]
    <3> SUFFICES ASSUME NEW i \in 1 .. 3 PROVE args[Len(args) - 2 + i - 1] = Grid[i]
      OBVIOUS
    <3>1. i - 1 \in 0 .. 2 /\ Len(args) - 3 + (i - 1) + 1 = Len(args) - 2 + i - 1 /\ (i - 1) + 1 = i
      BY <1>2, <1>4
    <3>2. args[Len(args) - 3 + (i - 1) + 1] = Grid[(i - 1) + 1]
      BY <1>5, <3>1
    <3> QED BY <3>1, <3>2
  <2> HIDE DEF sub
  <2>3. Len(sub) = Len(Grid) /\ \A i \in 1 .. Len(sub) : sub[i] = Grid[i]
    BY <2>1, <2>2, GridIs
  <2>4. sub = Grid
    BY <2>1, <2>3, GridIs, SeqEqual
  <2> QED BY <2>4 DEF sub
<1> QED BY <1>2, <1>4, <1>5, <1>6

LEMMA CallerGrid ==
  ASSUME FramesInv
  PROVE  HasGrid(Args) /\ Len(frames) \in 1 .. Len(frames)
<1>1. Len(frames) \in Nat
  BY LenProperties DEF FramesInv
<1> QED BY <1>1 DEF FramesInv, Args

(* A function called has the grid of its caller (CallConverter). *)
LEMMA CalleeGrid ==
  ASSUME FramesInv, NEW n \in 0 .. 2
  PROVE  HasGrid(CallConverter(Own(n), Args, addProgramInfo(n)))
<1> DEFINE args == Args
<1>1. Len(args) \in Nat /\ SubSeq(args, Len(args) - 2, Len(args)) = Grid
  BY CallerGrid, GridArgs
<1>2. Len(Own(n)) = n
  BY OwnIs
<1> HIDE DEF args
<1>3. Len(args) - (addProgramInfo(n) - Len(Own(n))) + 1 = Len(args) - 2
  BY <1>1, <1>2 DEF addProgramInfo, TRITON_PROGRAM_INFO_ARG_COUNT
<1>4. CallConverter(Own(n), args, addProgramInfo(n)) = Own(n) \o Grid
  BY <1>1, <1>3 DEF CallConverter
<1> QED BY <1>4 DEF HasGrid, args

(* The conversion of a call of an overload. *)
Converts(f, o, tensor) ==
  LET c == [args |-> o.args, lib |-> o.lib, name |-> o.name, result |-> o.result, tensor |-> tensor]
      lowered == ~CastsScalar(c) /\ Patterns(c) # {}
  IN  /\ last' = [kind |-> "extern", f |-> f, call |-> c, lowered |-> lowered,
                  ops |-> IF lowered THEN {LoweredOp(c, p) : p \in Patterns(c)} ELSE {}]
      /\ failed' = IF lowered THEN failed
                   ELSE failed \cup {<<IF CastsScalar(c) THEN "cast" ELSE "no pattern", c>>}
      /\ UNCHANGED <<frames, globals, decls, asked>>

LEMMA ExternShares ==
  ASSUME Extern
  PROVE  UNCHANGED <<frames, globals, decls, asked>>
<1>1. \E f \in CpuFunctions \cup NvFunctions :
      \E o \in (IF f \in CpuFunctions THEN overloads(f) ELSE {}) \cup (IF f \in NvFunctions THEN nvOverloads(f) ELSE {}) :
      \E tensor \in BOOLEAN : Converts(f, o, tensor)
  BY Zenon DEF Extern, Converts
<1>2. ASSUME NEW f, NEW o, NEW tensor, Converts(f, o, tensor)
      PROVE  UNCHANGED <<frames, globals, decls, asked>>
  BY <1>2, Zenon DEF Converts
<1> QED BY <1>1, <1>2, Zenon

LEMMA FramesStep ==
  ASSUME FramesInv, Next
  PROVE  FramesInv'
<1>1. frames \in Seq(Seq(Nat)) /\ Len(frames) \in Nat /\ Len(frames) >= 1
  BY LenProperties DEF FramesInv
<1>2. CASE Call
  <2>1. PICK n \in 0 .. 2 : frames' = Append(frames, CallConverter(Own(n), Args, addProgramInfo(n)))
    BY <1>2 DEF Call
  <2> DEFINE new == CallConverter(Own(n), Args, addProgramInfo(n))
  <2>2. HasGrid(new) /\ new \in Seq(Nat)
    BY CalleeGrid, GridArgs
  <2>3. frames' = Append(frames, new)
    BY <2>1
  <2> HIDE DEF new
  <2>4. /\ frames' \in Seq(Seq(Nat)) /\ Len(frames') = Len(frames) + 1
        /\ \A i \in 1 .. Len(frames) : frames'[i] = frames[i]
        /\ frames'[Len(frames) + 1] = new
    BY <1>1, <2>2, <2>3, AppendProperties
  <2>5. ASSUME NEW i \in 1 .. Len(frames') PROVE HasGrid(frames'[i])
    <3>1. CASE i = Len(frames) + 1
      BY <2>2, <2>4, <3>1
    <3>2. CASE i # Len(frames) + 1
      <4>1. i \in 1 .. Len(frames)
        BY <1>1, <2>4, <3>2
      <4> QED BY <2>4, <4>1 DEF FramesInv
    <3> QED BY <3>1, <3>2
  <2>6. Len(frames') >= 1
    BY <1>1, <2>4
  <2> QED BY <2>4, <2>5, <2>6 DEF FramesInv
<1>3. CASE Return
  <2> DEFINE l == Len(frames) - 1
  <2>1. l \in Nat /\ l >= 1 /\ frames' = SubSeq(frames, 1, l)
    BY <1>1, <1>3 DEF Return
  <2>2. l \in 1 - 1 .. Len(frames) /\ 1 \in 1 .. Len(frames) + 1 /\ l - 1 + 1 = l /\ 1 <= l
    BY <1>1, <2>1
  <2> HIDE DEF l
  <2>3. /\ frames' \in Seq(Seq(Nat)) /\ Len(frames') = l
        /\ \A i \in 1 .. l : frames'[i] = frames[1 + i - 1]
    BY <1>1, <2>1, <2>2, SubSeqProperties
  <2>4. \A i \in 1 .. l : frames'[i] = frames[i] /\ i \in 1 .. Len(frames)
    BY <1>1, <2>1, <2>2, <2>3
  <2>5. \A i \in 1 .. Len(frames') : HasGrid(frames'[i])
    BY <2>3, <2>4 DEF FramesInv
  <2> QED BY <2>1, <2>3, <2>5 DEF FramesInv
<1>4. CASE NumPrograms \/ PrintText \/ PrintScalar \/ PrintTensor \/ AssertConverter \/ Extern
  <2>1. frames' = frames
    <3>1. NumPrograms \/ Extern => frames' = frames
      BY ExternShares DEF NumPrograms
    <3>2. ASSUME NEW prefix, NEW ty, NEW hex, NEW signed, NEW v, createPrintfCall(prefix, ty, hex, signed, v)
          PROVE  frames' = frames
      BY <3>2, Zenon DEF createPrintfCall
    <3>5. PrintText \/ PrintScalar => frames' = frames
      BY <3>2, Zenon DEF PrintText, PrintScalar
    <3>3. PrintTensor => frames' = frames
      BY DEF PrintTensor, createTensorPrintCall
    <3>4. AssertConverter => frames' = frames
      BY DEF AssertConverter
    <3> QED BY <1>4, <3>1, <3>3, <3>4, <3>5
  <2> QED BY <2>1 DEF FramesInv
<1> QED BY <1>2, <1>3, <1>4 DEF Next

-----------------------------------------------------------------------------
(* The strings of the module *)

(* A string was asked for under its name, and a file's name is no other's. *)
GlobalsInv == \A n \in DOMAIN globals : <<n, globals[n]>> \in asked

FilesInv == \A a \in asked : a[1][1] = "assert_file_" => a[2] = File

NameOf(pair) == GlobalName(pair[1], pair[2])

FirstOf(pairs, n) ==
  CHOOSE i \in DOMAIN pairs :
    NameOf(pairs[i]) = n /\ \A j \in 1 .. i - 1 : NameOf(pairs[j]) # n

LEMMA FirstIs ==
  ASSUME NEW pairs, DOMAIN pairs \in {1 .. 1, 1 .. 3}, NEW k \in DOMAIN pairs
  PROVE  FirstOf(pairs, NameOf(pairs[k])) \in DOMAIN pairs
         /\ NameOf(pairs[FirstOf(pairs, NameOf(pairs[k]))]) = NameOf(pairs[k])
<1> DEFINE n == NameOf(pairs[k])
           Is(i) == NameOf(pairs[i]) = n /\ \A j \in 1 .. i - 1 : NameOf(pairs[j]) # n
<1>1. \E i \in DOMAIN pairs : Is(i)
  <2>1. Is(k) \/ \E j \in 1 .. k - 1 : NameOf(pairs[j]) = n
    OBVIOUS
  <2>2. k \in 1 .. 3 /\ \A j \in 1 .. k - 1 : j \in DOMAIN pairs
    OBVIOUS
  <2>3. CASE k = 1
    BY <2>3
  <2>4. CASE k = 2
    <3>1. 1 .. k - 1 = {1} /\ 1 .. 1 - 1 = {} /\ 1 \in DOMAIN pairs
      BY <2>2, <2>4
    <3> QED BY <3>1, <2>1
  <2>5. CASE k = 3
    <3>1. 1 .. k - 1 = {1, 2} /\ 1 .. 1 - 1 = {} /\ 1 .. 2 - 1 = {1} /\ 1 \in DOMAIN pairs /\ 2 \in DOMAIN pairs
      BY <2>2, <2>5
    <3> QED BY <3>1, <2>1
  <2> QED BY <2>2, <2>3, <2>4, <2>5
<1>2. FirstOf(pairs, n) = CHOOSE i \in DOMAIN pairs : Is(i)
  BY DEF FirstOf
<1> HIDE DEF Is
<1>3. FirstOf(pairs, n) \in DOMAIN pairs /\ Is(FirstOf(pairs, n))
  BY <1>1, <1>2, Zenon
<1> QED BY <1>3 DEF Is

(* What a step that asks for strings does. *)
Asks(pairs) ==
  /\ asked' = asked \cup {<<NameOf(pairs[i]), pairs[i][2]>> : i \in DOMAIN pairs}
  /\ DOMAIN globals' = DOMAIN globals \cup {NameOf(pairs[i]) : i \in DOMAIN pairs}
  /\ \A n \in DOMAIN globals' :
       globals'[n] = IF n \in DOMAIN globals THEN globals[n] ELSE pairs[FirstOf(pairs, n)][2]

LEMMA AsksIs ==
  ASSUME NEW pairs, createStringConstants(pairs)
  PROVE  Asks(pairs)
<1>1. globals' = [n \in DOMAIN globals \cup {NameOf(pairs[i]) : i \in DOMAIN pairs} |->
                    IF n \in DOMAIN globals THEN globals[n] ELSE pairs[FirstOf(pairs, n)][2]]
  BY DEF createStringConstants, NameOf, FirstOf
<1>2. asked' = asked \cup {<<NameOf(pairs[i]), pairs[i][2]>> : i \in DOMAIN pairs}
  BY DEF createStringConstants, NameOf
<1>3. \A n \in DOMAIN globals \cup {NameOf(pairs[i]) : i \in DOMAIN pairs} :
        globals'[n] = IF n \in DOMAIN globals THEN globals[n] ELSE pairs[FirstOf(pairs, n)][2]
  BY <1>1
<1>4. DOMAIN globals' = DOMAIN globals \cup {NameOf(pairs[i]) : i \in DOMAIN pairs}
  BY <1>1
<1> HIDE DEF NameOf
<1> QED BY <1>2, <1>3, <1>4 DEF Asks

LEMMA GlobalsStep ==
  ASSUME NEW pairs, DOMAIN pairs \in {1 .. 1, 1 .. 3}, createStringConstants(pairs), GlobalsInv
  PROVE  GlobalsInv'
<1>1. Asks(pairs)
  BY AsksIs
<1> SUFFICES ASSUME NEW n \in DOMAIN globals' PROVE <<n, globals'[n]>> \in asked'
  BY DEF GlobalsInv
<1>2. CASE n \in DOMAIN globals
  BY <1>1, <1>2 DEF Asks, GlobalsInv
<1>3. CASE n \notin DOMAIN globals
  <2>1. PICK k \in DOMAIN pairs : n = NameOf(pairs[k])
    BY <1>1, <1>3 DEF Asks
  <2>2. FirstOf(pairs, n) \in DOMAIN pairs /\ NameOf(pairs[FirstOf(pairs, n)]) = n
    BY <2>1, FirstIs
  <2>3. globals'[n] = pairs[FirstOf(pairs, n)][2]
    BY <1>1, <1>3 DEF Asks
  <2> QED BY <1>1, <2>2, <2>3 DEF Asks
<1> QED BY <1>2, <1>3

(* A string is the text asked for, unless another was under its name. *)
LEMMA StoredText ==
  ASSUME NEW pairs, DOMAIN pairs \in {1 .. 1, 1 .. 3}, createStringConstants(pairs), GlobalsInv,
         NEW k \in DOMAIN pairs, ~Shared(NameOf(pairs[k]))'
  PROVE  globals'[NameOf(pairs[k])] = pairs[k][2]
<1> DEFINE n == NameOf(pairs[k])
<1>1. Asks(pairs) /\ GlobalsInv'
  BY AsksIs, GlobalsStep
<1>2. n \in DOMAIN globals' /\ <<n, pairs[k][2]>> \in asked'
  BY <1>1 DEF Asks
<1>3. <<n, globals'[n]>> \in asked'
  BY <1>1, <1>2 DEF GlobalsInv
<1>4. \A a, b \in asked' : ~(a[1] = n /\ b[1] = n /\ a[2] # b[2])
  BY DEF Shared, n
<1> HIDE DEF n
<1> QED BY <1>2, <1>3, <1>4 DEF n

-----------------------------------------------------------------------------
(* device_print *)

(* The number printed (getFormatSubstr, printfPromoteValue). *)
LEMMA PrintedValue ==
  ASSUME NEW ty \in {"i8", "i32", "i64", "f32"}, NEW hex \in BOOLEAN, NEW signed \in BOOLEAN,
         NEW v \in Values(ty), signed \/ ty # "f32"
  PROVE  \/ hex /\ (ty = "f32" \/ (ty = "i8" /\ signed /\ v >= 2))
         \/ Printf(getFormatSubstr(ty, hex, signed), printfPromoteValue(ty, v, signed))
              = IF ty = "f32" \/ hex \/ ~signed THEN v ELSE SignedAt(v, BitWidth(ty))
<1> DEFINE spec == getFormatSubstr(ty, hex, signed)
           passed == printfPromoteValue(ty, v, signed)
<1>1. CASE ty = "f32"
  <2>1. CASE hex
    BY <1>1, <2>1
  <2>2. CASE ~hex
    <3>1. spec = "%f" /\ passed = [bits |-> Double, v |-> v]
      BY <1>1, <2>2 DEF getFormatSubstr, printfPromoteValue
    <3> HIDE DEF spec, passed
    <3>2. spec = "%f" /\ passed.bits = Double /\ passed.v = v
      BY <3>1
    <3>3. Printf(spec, passed) = v
      BY <3>2, Zenon DEF Printf
    <3> QED BY <1>1, <3>3 DEF spec, passed
  <2> QED BY <2>1, <2>2
<1>2. CASE ty = "i8"
  <2>1. BitWidth(ty) = 2 /\ v = 3
    BY <1>2 DEF Values, BitWidth, Words
  <2>2. passed = [bits |-> 3, v |-> IF signed THEN WordOf(SignedAt(v, 2), 3) ELSE v]
    BY <1>2, Zenon DEF printfPromoteValue
  <2>3. SignedAt(v, 2) = -1 /\ SignedAt(7, 3) = -1 /\ WordOf(SignedAt(v, 2), 3) = 7
    <3>1. Words(2) = 4 /\ Words(3) = 8
      BY DEF Words
    <3>2. SignedAt(v, 2) = -1 /\ SignedAt(7, 3) = -1
      BY <2>1, <3>1 DEF SignedAt
    <3> QED BY <3>1, <3>2 DEF WordOf
  <2>4. passed.bits = 3 /\ (signed => passed.v = 7) /\ (~signed => passed.v = 3)
    <3>1. passed.bits = 3 /\ passed.v = IF signed THEN WordOf(SignedAt(v, 2), 3) ELSE v
      BY <2>2
    <3> HIDE DEF passed
    <3> QED BY <2>1, <2>3, <3>1
  <2>5. /\ hex => spec = "%x"
        /\ ~hex /\ signed => spec = "%i"
        /\ ~hex /\ ~signed => spec = "%u"
    BY <1>2, <2>1 DEF getFormatSubstr
  <2> HIDE DEF spec, passed
  <2>6. CASE hex /\ signed
    BY <1>2, <2>1, <2>6
  <2>7. CASE ~signed
    <3>1. Printf(spec, passed) = v
      BY <2>1, <2>4, <2>5, <2>7 DEF Printf
    <3> QED BY <2>7, <3>1 DEF spec, passed
  <2>8. CASE ~hex /\ signed
    <3>1. Printf(spec, passed) = SignedAt(7, 3)
      BY <2>4, <2>5, <2>8 DEF Printf
    <3>2. Printf(spec, passed) = SignedAt(v, BitWidth(ty))
      BY <2>1, <2>3, <3>1
    <3> QED BY <1>2, <2>8, <3>2 DEF spec, passed
  <2> QED BY <2>6, <2>7, <2>8
<1>3. CASE ty = "i32"
  <2>1. BitWidth(ty) = 3
    BY <1>3 DEF BitWidth
  <2>2. passed = [bits |-> BitWidth(ty), v |-> v]
    BY <1>3, Zenon DEF printfPromoteValue
  <2>3. /\ hex => spec = "%x"
        /\ ~hex /\ signed => spec = "%i"
        /\ ~hex /\ ~signed => spec = "%u"
    BY <1>3, <2>1 DEF getFormatSubstr
  <2>4. passed.bits = 3 /\ passed.v = v
    BY <2>1, <2>2
  <2> HIDE DEF spec, passed
  <2>5. CASE hex \/ ~signed
    <3>1. Printf(spec, passed) = v
      BY <2>3, <2>4, <2>5 DEF Printf
    <3> QED BY <2>5, <3>1 DEF spec, passed
  <2>6. CASE ~hex /\ signed
    <3>1. Printf(spec, passed) = SignedAt(v, BitWidth(ty))
      BY <2>1, <2>3, <2>4, <2>6 DEF Printf
    <3> QED BY <1>3, <2>6, <3>1 DEF spec, passed
  <2> QED BY <2>5, <2>6
<1>4. CASE ty = "i64"
  <2>1. BitWidth(ty) = 4
    BY <1>4 DEF BitWidth
  <2>2. passed = [bits |-> BitWidth(ty), v |-> v]
    BY <1>4, Zenon DEF printfPromoteValue
  <2>3. /\ hex => spec = "%llx"
        /\ ~hex /\ signed => spec = "%lli"
        /\ ~hex /\ ~signed => spec = "%llu"
    <3>1. hex => spec = "%llx"
      <4>1. BitWidth(ty) > 3
        BY <2>1
      <4> QED BY <4>1, Zenon DEF getFormatSubstr
    <3>2. ~hex => spec = IF signed THEN "%lli" ELSE "%llu"
      BY <1>4 DEF getFormatSubstr
    <3> QED BY <3>1, <3>2
  <2>4. passed.bits = 4 /\ passed.v = v
    BY <2>1, <2>2
  <2> HIDE DEF spec, passed
  <2>5. CASE hex \/ ~signed
    <3>1. Printf(spec, passed) = v
      BY <2>3, <2>4, <2>5 DEF Printf
    <3> QED BY <2>5, <3>1 DEF spec, passed
  <2>6. CASE ~hex /\ signed
    <3>1. Printf(spec, passed) = SignedAt(v, BitWidth(ty))
      BY <2>1, <2>3, <2>4, <2>6 DEF Printf
    <3> QED BY <1>4, <2>6, <3>1 DEF spec, passed
  <2> QED BY <2>5, <2>6
<1> HIDE DEF spec, passed
<1> QED BY <1>1, <1>2, <1>3, <1>4

LEMMA AppendFront ==
  ASSUME NEW S, NEW s \in Seq(S), NEW e \in S
  PROVE  /\ SubSeq(Append(s, e), 1, Len(Append(s, e)) - 1) = s
         /\ Append(s, e)[Len(Append(s, e))] = e
<1> DEFINE t == Append(s, e)
<1>1. /\ t \in Seq(S) /\ Len(t) = Len(s) + 1 /\ t[Len(s) + 1] = e
      /\ \A i \in 1 .. Len(s) : t[i] = s[i]
  BY AppendProperties
<1>2. Len(s) \in Nat
  OBVIOUS
<1> HIDE DEF t
<1> DEFINE l == Len(t) - 1
           sub == SubSeq(t, 1, l)
<1>3. l = Len(s) /\ 1 \in 1 .. Len(t) + 1 /\ l \in 1 - 1 .. Len(t)
      /\ (IF 1 <= l THEN l - 1 + 1 ELSE 0) = Len(s) /\ l - 1 + 1 = Len(s)
  BY <1>1, <1>2
<1> HIDE DEF l
<1>4. /\ sub \in Seq(S) /\ Len(sub) = Len(s)
      /\ \A i \in 1 .. Len(s) : sub[i] = t[1 + i - 1]
  BY <1>1, <1>3, SubSeqProperties
<1>5. \A i \in 1 .. Len(s) : sub[i] = s[i]
  <2>1. \A i \in 1 .. Len(s) : 1 + i - 1 = i
    OBVIOUS
  <2> QED BY <1>1, <1>4, <2>1
<1> HIDE DEF sub
<1>6. sub = s
  BY <1>4, <1>5, SeqEqual
<1> QED BY <1>1, <1>2, <1>6 DEF sub, l, t

-----------------------------------------------------------------------------
(* What the last operation read and showed *)

(* The types of a print: none where it has no operand. *)
Printable == {"i8", "i32", "i64", "f32", "ptr", "none"}

LEMMA PrintfShows ==
  ASSUME GlobalsInv, NEW prefix \in Prefixes, NEW ty \in Printable, NEW hex \in BOOLEAN, NEW signed \in BOOLEAN,
         signed \/ ty # "f32", ty = "none" => ~signed,
         NEW v \in Values(ty), createPrintfCall(prefix, ty, hex, signed, v)
  PROVE  GlobalsInv' /\ PrintedExact' /\ last'.kind = "print"
<1> DEFINE spec == IF ty = "none" THEN Nothing ELSE getFormatSubstr(ty, hex, signed)
           fmt == Append(prefix, spec)
           pairs == <<<<"printf_fmt_", fmt>>>>
           stored == Stored("printf_fmt_", fmt)
           text == SubSeq(stored, 1, Len(stored) - 1)
           front == PrintfText(text)
           tail == stored[Len(stored)]
           value == IF tail = Nothing THEN 0 ELSE Printf(tail, printfPromoteValue(ty, v, signed))
           shown == IF "%" \in Range(text) THEN Garbage ELSE value
           name == GlobalName("printf_fmt_", fmt)
<1>2. createStringConstants(pairs)
  BY DEF createPrintfCall
<1>3. /\ last'.kind = "print" /\ last'.ty = ty /\ last'.hex = hex /\ last'.signed = signed /\ last'.v = v
      /\ last'.text = prefix /\ last'.name = name /\ last'.prefix = front /\ last'.shown = shown
  <2>1. last' = [kind |-> "print", ty |-> ty, hex |-> hex, signed |-> signed, v |-> v,
                 text |-> prefix, name |-> name, prefix |-> front, shown |-> shown]
    BY Zenon DEF createPrintfCall
  <2> HIDE DEF name, front, shown
  <2> QED BY <2>1
<1>4. prefix \in Seq(STRING \cup {spec}) /\ spec \in STRING \cup {spec}
  <2> HIDE DEF spec
  <2>1. Seq(STRING) \subseteq Seq(STRING \cup {spec})
    <3>1. STRING \subseteq STRING \cup {spec}
      OBVIOUS
    <3> QED BY <3>1, SeqMonotonic
  <2> QED BY <2>1, KernelPassAssumption
<1>5. DOMAIN pairs = 1 .. 1 /\ pairs[1] = <<"printf_fmt_", fmt>> /\ NameOf(pairs[1]) = name /\ pairs[1][2] = fmt
  BY DEF NameOf
<1>6. GlobalsInv'
  <2> HIDE DEF pairs
  <2> QED BY <1>2, <1>5, GlobalsStep
<1>7. ~Shared(name)' => stored = fmt
  <2> HIDE DEF pairs, fmt, name
  <2>1. 1 \in DOMAIN pairs
    BY <1>5
  <2>2. ~Shared(name)' => globals'[name] = fmt
    BY <1>2, <1>5, <2>1, StoredText
  <2> QED BY <2>2 DEF Stored, name
<1> HIDE DEF name, spec
<1>8. ~Shared(name)' => text = prefix /\ tail = spec
  BY <1>4, <1>7, AppendFront
<1> HIDE DEF stored, text, tail, fmt
<1>9. ~Shared(name)' /\ "%" \notin Range(prefix) => front = prefix /\ shown = value /\ tail = spec
  BY <1>8 DEF PrintfText
<1> HIDE DEF front, shown
<1>10. ~Shared(name)' /\ "%" \notin Range(prefix) /\ ty # "ptr" =>
        \/ hex /\ (ty = "f32" \/ (ty = "i8" /\ signed /\ v >= 2))
        \/ shown = IF ty = "f32" \/ hex \/ ~signed THEN v ELSE SignedAt(v, BitWidth(ty))
  <2> SUFFICES ASSUME ~Shared(name)', "%" \notin Range(prefix), ty # "ptr"
               PROVE  \/ hex /\ (ty = "f32" \/ (ty = "i8" /\ signed /\ v >= 2))
                      \/ shown = IF ty = "f32" \/ hex \/ ~signed THEN v ELSE SignedAt(v, BitWidth(ty))
    OBVIOUS
  <2>1. shown = value /\ tail = spec
    BY <1>9
  <2>2. CASE ty = "none"
    <3>1. v = 0 /\ ~signed /\ tail = Nothing
      BY <2>1, <2>2 DEF Values, spec
    <3>2. shown = v
      BY <2>1, <3>1
    <3> QED BY <3>1, <3>2
  <2>3. CASE ty # "none"
    <3>1. tail = getFormatSubstr(ty, hex, signed)
      BY <2>1, <2>3 DEF spec
    <3>2. tail # Nothing
      BY <3>1 DEF getFormatSubstr, Nothing
    <3>3. shown = Printf(getFormatSubstr(ty, hex, signed), printfPromoteValue(ty, v, signed))
      BY <2>1, <3>1, <3>2
    <3>4. ty \in {"i8", "i32", "i64", "f32"}
      BY <2>3 DEF Printable
    <3> HIDE DEF value
    <3> QED BY <3>3, <3>4, PrintedValue
  <2> QED BY <2>2, <2>3
<1> HIDE DEF value
<1>11. PrintedExact'
  BY <1>3, <1>9, <1>10 DEF PrintedExact
<1> QED BY <1>3, <1>6, <1>11

(* The text and the type of a print without operand, or of a number. *)
LEMMA PrintIs ==
  ASSUME PrintText \/ PrintScalar
  PROVE  \E prefix \in Prefixes, ty \in Printable, hex \in BOOLEAN, signed \in BOOLEAN :
           /\ signed \/ ty # "f32"
           /\ ty = "none" => ~signed
           /\ \E v \in Values(ty) : createPrintfCall(prefix, ty, hex, signed, v)
<1>1. CASE PrintText
  <2>1. PICK prefix \in Prefixes : createPrintfCall(prefix, "none", FALSE, FALSE, 0)
    BY <1>1 DEF PrintText
  <2>2. 0 \in Values("none")
    BY DEF Values
  <2>3. "none" \in Printable /\ "none" # "f32" /\ FALSE \in BOOLEAN
    BY DEF Printable
  <2> QED BY <2>1, <2>2, <2>3, Zenon
<1>2. CASE PrintScalar
  <2>1. PICK prefix \in Prefixes, ty \in {"i8", "i32", "i64", "f32", "ptr"}, hex \in BOOLEAN, signed \in BOOLEAN :
          /\ signed \/ ty # "f32"
          /\ \E v \in Values(ty) : createPrintfCall(prefix, ty, hex, signed, v)
    BY <1>2, Zenon DEF PrintScalar
  <2>2. ty \in Printable /\ ty # "none"
    BY DEF Printable
  <2> QED BY <2>1, <2>2, Zenon
<1> QED BY <1>1, <1>2

LEMMA PrintScalarShows ==
  ASSUME GlobalsInv, PrintText \/ PrintScalar
  PROVE  GlobalsInv' /\ PrintedExact' /\ last'.kind = "print"
<1>1. PICK prefix \in Prefixes, ty \in Printable, hex \in BOOLEAN, signed \in BOOLEAN :
        /\ signed \/ ty # "f32"
        /\ ty = "none" => ~signed
        /\ \E v \in Values(ty) : createPrintfCall(prefix, ty, hex, signed, v)
  BY PrintIs, Zenon
<1>2. PICK v \in Values(ty) : createPrintfCall(prefix, ty, hex, signed, v)
  BY <1>1
<1> QED BY <1>1, <1>2, PrintfShows

LEMMA PrintTensorShows ==
  ASSUME GlobalsInv, PrintTensor
  PROVE  GlobalsInv' /\ PrintedExact' /\ last'.kind = "print tensor"
<1>1. PICK prefix \in Prefixes, ty \in {"i8", "i32", "f32", "ptr"} : createTensorPrintCall(prefix, ty)
  BY Zenon DEF PrintTensor
<1> DEFINE pairs == <<<<"print_pfx_", prefix>>>>
           name == GlobalName("print_pfx_", prefix)
<1>2. createStringConstants(pairs)
  BY <1>1 DEF createTensorPrintCall
<1>3. /\ last'.kind = "print tensor" /\ last'.text = prefix /\ last'.name = name
      /\ last'.prefix = Stored("print_pfx_", prefix)
  <2> HIDE DEF name
  <2> QED BY <1>1 DEF createTensorPrintCall, name
<1>4. DOMAIN pairs = 1 .. 1 /\ NameOf(pairs[1]) = name /\ pairs[1][2] = prefix
  BY DEF NameOf
<1>5. 1 \in DOMAIN pairs
  BY <1>4
<1> HIDE DEF pairs
<1>6. GlobalsInv'
  BY <1>2, <1>4, GlobalsStep
<1>7. ~Shared(name)' => Stored("print_pfx_", prefix) = prefix
  <2>1. ~Shared(NameOf(pairs[1]))' => globals'[NameOf(pairs[1])] = pairs[1][2]
    BY <1>2, <1>4, <1>5, StoredText
  <2> QED BY <1>4, <2>1 DEF Stored
<1> HIDE DEF name
<1>8. PrintedExact'
  BY <1>3, <1>7 DEF PrintedExact
<1> QED BY <1>3, <1>6, <1>8

LEMMA FilesStep ==
  ASSUME NEW pairs, createStringConstants(pairs), FilesInv,
         \A i \in DOMAIN pairs : pairs[i][1] = "assert_file_" => pairs[i][2] = File
  PROVE  FilesInv'
<1>1. Asks(pairs)
  BY AsksIs
<1> SUFFICES ASSUME NEW a \in asked', a[1][1] = "assert_file_" PROVE a[2] = File
  BY DEF FilesInv, File
<1>2. CASE a \in asked
  BY <1>2 DEF FilesInv
<1>3. CASE a \notin asked
  <2>1. PICK i \in DOMAIN pairs : a = <<NameOf(pairs[i]), pairs[i][2]>>
    BY <1>1, <1>3 DEF Asks
  <2>2. NameOf(pairs[i])[1] = pairs[i][1]
    BY DEF NameOf, GlobalName
  <2> HIDE DEF NameOf
  <2> QED BY <2>1, <2>2
<1> QED BY <1>2, <1>3

LEMMA AssertShows ==
  ASSUME GlobalsInv, FilesInv, AssertConverter
  PROVE  GlobalsInv' /\ FilesInv' /\ PrintedExact' /\ last'.kind = "assert"
<1>1. PICK message \in Prefixes, cond \in [1 .. 2 -> BOOLEAN] :
        /\ createStringConstants(assertStrings(message))
        /\ last' = [kind |-> "assert", cond |-> cond, passes |-> \A i \in 1 .. 2 : cond[i],
                    text |-> message, name |-> GlobalName("assert_msg_", message),
                    prefix |-> Stored("assert_msg_", message), shownFile |-> Stored("assert_file_", File)]
  BY Zenon DEF AssertConverter
<1> DEFINE pairs == assertStrings(message)
           name == GlobalName("assert_msg_", message)
           file == GlobalName("assert_file_", File)
           passes == \A i \in 1 .. 2 : cond[i]
<1>2. /\ DOMAIN pairs = 1 .. 3
      /\ pairs[1] = <<"assert_msg_", message>> /\ pairs[2] = <<"assert_file_", File>>
      /\ pairs[3] = <<"assert_func_", <<"unknown">>>>
  BY DEF assertStrings
<1>3. /\ NameOf(pairs[1]) = name /\ pairs[1][2] = message
      /\ NameOf(pairs[2]) = file
  BY <1>2 DEF NameOf
<1>4. \A i \in DOMAIN pairs : pairs[i][1] = "assert_file_" => pairs[i][2] = File
  <2>1. \A i \in 1 .. 3 : i = 1 \/ i = 2 \/ i = 3
    OBVIOUS
  <2> HIDE DEF pairs
  <2> QED BY <1>2, <2>1
<1>5. /\ last'.kind = "assert" /\ last'.cond = cond /\ last'.passes = passes /\ last'.text = message
      /\ last'.name = name /\ last'.prefix = Stored("assert_msg_", message)
      /\ last'.shownFile = Stored("assert_file_", File)
  <2> HIDE DEF passes, name
  <2> QED BY <1>1 DEF passes, name
<1>6. createStringConstants(pairs) /\ DOMAIN pairs \in {1 .. 1, 1 .. 3} /\ 1 \in DOMAIN pairs /\ 2 \in DOMAIN pairs
  BY <1>1, <1>2
<1> HIDE DEF pairs
<1>7. GlobalsInv' /\ FilesInv'
  BY <1>4, <1>6, GlobalsStep, FilesStep
<1>8. ~Shared(name)' => Stored("assert_msg_", message) = message
  <2>1. ~Shared(NameOf(pairs[1]))' => globals'[NameOf(pairs[1])] = pairs[1][2]
    BY <1>6, StoredText
  <2> QED BY <1>3, <2>1 DEF Stored
<1>9. Stored("assert_file_", File) = File
  <2>1. file \in DOMAIN globals'
    <3>1. Asks(pairs)
      BY <1>6, AsksIs
    <3> QED BY <1>3, <1>6, <3>1 DEF Asks
  <2>2. <<file, globals'[file]>> \in asked'
    BY <1>7, <2>1 DEF GlobalsInv
  <2>3. file[1] = "assert_file_"
    BY DEF GlobalName
  <2> HIDE DEF file
  <2>4. \A a \in asked' : a[1][1] = "assert_file_" => a[2] = File
    BY <1>7 DEF FilesInv, File
  <2>5. globals'[file] = File
    BY <2>2, <2>3, <2>4
  <2> QED BY <2>5 DEF Stored, file
<1>10. passes <=> FALSE \notin Range(cond)
  <2>1. DOMAIN cond = 1 .. 2 /\ \A i \in 1 .. 2 : cond[i] \in BOOLEAN
    OBVIOUS
  <2> QED BY <2>1, Zenon DEF Range
<1> HIDE DEF name, passes
<1>11. PrintedExact'
  <2>1. (last'.passes <=> FALSE \notin Range(last'.cond))
    BY <1>5, <1>10, Zenon
  <2> QED BY <1>5, <1>8, <1>9, <2>1 DEF PrintedExact, File
<1> QED BY <1>5, <1>7, <1>11

-----------------------------------------------------------------------------
(* The declarations of the module *)

TypeOf == [printf |-> "variadic", spine_assert |-> "fixed"]

(* All but the function that prints tensors have one type. *)
DeclsInv == \A n \in DOMAIN decls : n \in {"printf", "spine_assert"} => decls[n] = TypeOf[n]

Clash == <<"declared with another type", "spine_print_unranked_memref">>

LEMMA DeclStep ==
  ASSUME DeclsInv, failed = {}, NEW type, NEW name \in {"printf", "spine_assert", "spine_print_unranked_memref"},
         NEW wrong, name \in {"printf", "spine_assert"} => type = TypeOf[name], getOrAddDecl(name, type, wrong)
  PROVE  DeclsInv' /\ failed' \subseteq wrong \cup {Clash}
<1>1. failed' \subseteq wrong \cup {Clash}
  <2>1. failed' = failed \cup wrong \cup
                    (IF name \in DOMAIN decls /\ decls[name] # type
                       THEN {<<"declared with another type", name>>} ELSE {})
    BY DEF getOrAddDecl
  <2>2. name \in {"printf", "spine_assert"} /\ name \in DOMAIN decls => decls[name] = type
    BY DEF DeclsInv
  <2> QED BY <2>1, <2>2 DEF Clash
<1>2. DeclsInv'
  <2>1. CASE name \in DOMAIN decls
    BY <2>1 DEF getOrAddDecl, DeclsInv, TypeOf
  <2>2. CASE name \notin DOMAIN decls
    <3>1. decls' = [n \in DOMAIN decls \cup {name} |-> IF n = name THEN type ELSE decls[n]]
      BY <2>2 DEF getOrAddDecl
    <3>2. DOMAIN decls' = DOMAIN decls \cup {name}
          /\ \A n \in DOMAIN decls' : decls'[n] = IF n = name THEN type ELSE decls[n]
      BY <3>1
    <3> SUFFICES ASSUME NEW n \in DOMAIN decls', n \in {"printf", "spine_assert"}
                 PROVE  decls'[n] = TypeOf[n]
      BY DEF DeclsInv, TypeOf
    <3> QED BY <3>2 DEF DeclsInv
  <2> QED BY <2>1, <2>2
<1> QED BY <1>1, <1>2

-----------------------------------------------------------------------------
(* The calls of the mathematical library *)

(* What an overload of a function may be. *)
Single(o, lib, names, types) ==
  o.lib = lib /\ o.name \in names /\ Len(o.args) = 1 /\ o.args[1] = o.result /\ o.result \in types

Double2(o, lib, names, types) ==
  /\ o.lib = lib /\ o.name \in names /\ Len(o.args) = 2
  /\ o.args[1] = o.result /\ o.args[2] = o.result /\ o.result \in types

IsClass(o) == o.lib = "math" /\ o.name \in {"isfinite", "isnan", "isinf"} /\ o.args[1] \in FloatTypes

Sorted(o) ==
  \/ Single(o, "linalg", {"abs"}, IntTypes)
  \/ Single(o, "linalg", LinalgUnary, FloatTypes)
  \/ Single(o, "math", Trigonometric \cup Transcendental, FloatTypes)
  \/ Double2(o, "linalg", {"powf"}, FloatTypes)
  \/ o.lib = "linalg" /\ o.name = "powf" /\ o.args = <<"f32", "i32">> /\ o.result = "f32"
  \/ Double2(o, "math", {"atan2"}, FloatTypes)
  \/ Single(o, "math", {"ffs"}, IntTypes)
  \/ Double2(o, "linalg", Divisions, {"f32", "f64"})
  \/ Single(o, "linalg", {"rint"}, {"f32", "f64"})
  \/ IsClass(o)

NvSorted(o) ==
  /\ o.lib \in {"nv_f32", "nv_f64"}
  /\ IF o.name \in {"atan2", "pow"} THEN Len(o.args) = 2 ELSE Len(o.args) = 1

LEMMA UnaryIs ==
  ASSUME NEW lib, NEW name, NEW types, NEW o \in Unary(lib, name, types), NEW names, name \in names
  PROVE  Single(o, lib, names, types)
<1>1. PICK t \in types : o = [args |-> <<t>>, lib |-> lib, name |-> name, result |-> t]
  BY DEF Unary, Overload
<1> QED BY <1>1 DEF Single

LEMMA BinaryIs ==
  ASSUME NEW lib, NEW name, NEW types, NEW o \in Binary(lib, name, types), NEW names, name \in names
  PROVE  Double2(o, lib, names, types)
<1>1. PICK t \in types : o = [args |-> <<t, t>>, lib |-> lib, name |-> name, result |-> t]
  BY DEF Binary, Overload
<1> QED BY <1>1 DEF Double2

LEMMA ClassIs ==
  ASSUME NEW f \in Classes, NEW o \in classOverloads(f)
  PROVE  IsClass(o)
<1>1. \E name \in {"isfinite", "isnan", "isinf"}, some \in SUBSET FloatTypes : o \in Class(name, some)
  BY DEF classOverloads, Classes, FloatTypes
<1>2. PICK name \in {"isfinite", "isnan", "isinf"}, t \in FloatTypes :
        o = [args |-> <<t>>, lib |-> "math", name |-> name, result |-> "i32"]
  BY <1>1 DEF Class, Overload
<1> QED BY <1>2 DEF IsClass

LEMMA SortedIs ==
  ASSUME NEW f \in CpuFunctions, NEW o \in overloads(f)
  PROVE  Sorted(o)
<1>1. CASE f = "abs"
  <2>1. overloads(f) = Unary("linalg", f, FloatTypes \cup IntTypes)
    BY <1>1 DEF overloads, LinalgUnary, Trigonometric, Transcendental, Divisions, Classes
  <2>2. Single(o, "linalg", {"abs"}, FloatTypes \cup IntTypes)
    BY <1>1, <2>1, UnaryIs
  <2> QED BY <2>2 DEF Single, Sorted, LinalgUnary
<1>2. CASE f \in LinalgUnary \ {"abs"}
  <2>1. overloads(f) = Unary("linalg", f, FloatTypes)
    BY <1>2 DEF overloads, LinalgUnary, Trigonometric, Transcendental, Divisions, Classes
  <2>2. Single(o, "linalg", LinalgUnary, FloatTypes)
    BY <1>2, <2>1, UnaryIs
  <2> QED BY <2>2 DEF Sorted
<1>3. CASE f \in Trigonometric \cup Transcendental
  <2>1. overloads(f) = Unary("math", f, FloatTypes)
    BY <1>3 DEF overloads, LinalgUnary, Trigonometric, Transcendental, Divisions, Classes
  <2>2. Single(o, "math", Trigonometric \cup Transcendental, FloatTypes)
    BY <1>3, <2>1, UnaryIs
  <2> QED BY <2>2 DEF Sorted
<1>4. CASE f = "pow"
  <2>1. overloads(f) = Binary("linalg", "powf", FloatTypes) \cup {Overload(<<"f32", "i32">>, "linalg", "powf", "f32")}
    BY <1>4 DEF overloads, LinalgUnary, Trigonometric, Transcendental, Divisions, Classes
  <2>2. CASE o \in Binary("linalg", "powf", FloatTypes)
    <3>1. Double2(o, "linalg", {"powf"}, FloatTypes)
      BY <2>2, BinaryIs
    <3> QED BY <3>1 DEF Sorted
  <2>3. CASE o = Overload(<<"f32", "i32">>, "linalg", "powf", "f32")
    BY <2>3 DEF Overload, Sorted
  <2> QED BY <2>1, <2>2, <2>3
<1>5. CASE f = "atan2"
  <2>1. overloads(f) = Binary("math", f, FloatTypes)
    BY <1>5 DEF overloads, LinalgUnary, Trigonometric, Transcendental, Divisions, Classes
  <2>2. Double2(o, "math", {"atan2"}, FloatTypes)
    BY <1>5, <2>1, BinaryIs
  <2> QED BY <2>2 DEF Sorted
<1>6. CASE f = "ffs"
  <2>1. overloads(f) = Unary("math", f, IntTypes)
    BY <1>6 DEF overloads, LinalgUnary, Trigonometric, Transcendental, Divisions, Classes
  <2>2. Single(o, "math", {"ffs"}, IntTypes)
    BY <1>6, <2>1, UnaryIs
  <2> QED BY <2>2 DEF Sorted
<1>7. CASE f \in Divisions
  <2>1. overloads(f) = Binary("linalg", f, {"f32", "f64"})
    BY <1>7 DEF overloads, LinalgUnary, Trigonometric, Transcendental, Divisions, Classes
  <2>2. Double2(o, "linalg", Divisions, {"f32", "f64"})
    BY <1>7, <2>1, BinaryIs
  <2> QED BY <2>2 DEF Sorted
<1>8. CASE f = "rint"
  <2>1. overloads(f) = Unary("linalg", f, {"f32", "f64"})
    BY <1>8 DEF overloads, LinalgUnary, Trigonometric, Transcendental, Divisions, Classes
  <2>2. Single(o, "linalg", {"rint"}, {"f32", "f64"})
    BY <1>8, <2>1, UnaryIs
  <2> QED BY <2>2 DEF Sorted
<1>9. CASE f \in Classes
  <2>1. overloads(f) = classOverloads(f)
    BY <1>9 DEF overloads, LinalgUnary, Trigonometric, Transcendental, Divisions, Classes
  <2>2. IsClass(o)
    BY <1>9, <2>1, ClassIs
  <2> QED BY <2>2 DEF Sorted
<1> QED BY <1>1, <1>2, <1>3, <1>4, <1>5, <1>6, <1>7, <1>8, <1>9 DEF CpuFunctions

LEMMA NvSortedIs ==
  ASSUME NEW f \in NvFunctions, NEW o \in nvOverloads(f)
  PROVE  NvSorted(o)
<1>1. PICK t \in DOMAIN NvLib : o = Overload(IF f \in {"atan2", "pow"} THEN <<t, t>> ELSE <<t>>, NvLib[t], f, t)
  BY DEF nvOverloads
<1>2. NvLib[t] \in {"nv_f32", "nv_f64"}
  BY DEF NvLib
<1> QED BY <1>1, <1>2 DEF Overload, NvSorted

(* The calls that are not lowered. *)
Excepted(c) ==
  \/ ~c.tensor /\ c.name \notin DOMAIN opMap /\ c.lib \in {"math", "linalg"}
  \/ c.name = "abs" /\ c.result \in IntTypes
  \/ c.lib = "nv_f64" /\ c.name \in {"tanh", "atanh"}

Lowered(c) == ~CastsScalar(c) /\ Patterns(c) # {}

Table == {"exp", "log", "abs", "ceil", "floor", "round", "rsqrt", "sqrt", "tanh", "erf", "powf"}

LEMMA TableIs == DOMAIN opMap = Table
  BY DEF opMap, Table

LEMMA SomePattern ==
  ASSUME NEW c
  PROVE  /\ ConvertExternElementwise(c) => Patterns(c) # {}
         /\ ConvertExternSpecialMath(c) => Patterns(c) # {}
         /\ ConvertExternGeluNone(c) => Patterns(c) # {}
         /\ ConvertExternGeluTanh(c) => Patterns(c) # {}
         /\ ConvertExternSilu(c) => Patterns(c) # {}
         /\ ExternElementwiseBinaryOpConverter(c) => Patterns(c) # {}
         /\ ExternElementwiseUnaryOpConverter(c) => Patterns(c) # {}
<1>1. ConvertExternElementwise(c) => "elementwise" \in Patterns(c)
  BY DEF Patterns
<1>2. ConvertExternSpecialMath(c) => "special" \in Patterns(c)
  BY DEF Patterns
<1>3. ConvertExternGeluNone(c) => "gelu_none" \in Patterns(c)
  BY DEF Patterns
<1>4. ConvertExternGeluTanh(c) => "gelu_tanh" \in Patterns(c)
  BY DEF Patterns
<1>5. ConvertExternSilu(c) => "silu" \in Patterns(c)
  BY DEF Patterns
<1>6. ExternElementwiseBinaryOpConverter(c) => "binary" \in Patterns(c)
  BY DEF Patterns
<1>7. ExternElementwiseUnaryOpConverter(c) => "unary" \in Patterns(c)
  BY DEF Patterns
<1> HIDE DEF Patterns
<1> QED BY <1>1, <1>2, <1>3, <1>4, <1>5, <1>6, <1>7

(* Only gelu and silu cast. *)
LEMMA CastIs ==
  ASSUME NEW c, CastsScalar(c)
  PROVE  ~c.tensor /\ c.lib = "linalg" /\ c.name \in {"gelu_none", "gelu_tanh", "silu"}
<1>1. ~c.tensor /\ \E p \in {"gelu_none", "gelu_tanh", "silu"} : p \in Patterns(c)
  BY DEF CastsScalar
<1>2. /\ "gelu_none" \in Patterns(c) => ConvertExternGeluNone(c)
      /\ "gelu_tanh" \in Patterns(c) => ConvertExternGeluTanh(c)
      /\ "silu" \in Patterns(c) => ConvertExternSilu(c)
  BY DEF Patterns
<1>3. ConvertExternGeluNone(c) \/ ConvertExternGeluTanh(c) \/ ConvertExternSilu(c)
  <2> HIDE DEF Patterns
  <2> QED BY <1>1, <1>2
<1> QED BY <1>1, <1>3 DEF ConvertExternGeluNone, ConvertExternGeluTanh, ConvertExternSilu, GeluOrSilu

(* Every overload of libdevice.py is lowered, or is one of the excepted. *)
LEMMA CpuLowered ==
  ASSUME NEW c, c.tensor \in BOOLEAN, Sorted(c)
  PROVE  Lowered(c) \/ Excepted(c)
<1> SUFFICES ASSUME ~Excepted(c) PROVE Lowered(c)
  OBVIOUS
<1>1. c.lib \in {"math", "linalg"}
  BY DEF Sorted, Single, Double2, IsClass
<1>2. c.tensor \/ c.name \in Table
  BY <1>1, TableIs DEF Excepted
<1>3. ~CastsScalar(c)
  BY <1>2, CastIs DEF Table
<1>4. CASE Single(c, "linalg", {"abs"}, IntTypes)
  BY <1>4 DEF Single, Excepted
<1>5. CASE Single(c, "linalg", LinalgUnary, FloatTypes)
  <2>1. CASE c.name \in Table
    <3>1. ConvertExternElementwise(c)
      BY <1>5, <2>1, TableIs DEF Single, ConvertExternElementwise
    <3> QED BY <1>3, <3>1, SomePattern DEF Lowered
  <2>2. CASE c.name \notin Table
    <3>1. ConvertExternGeluNone(c) \/ ConvertExternGeluTanh(c) \/ ConvertExternSilu(c)
      BY <1>5, <2>2 DEF Single, LinalgUnary, Table, ConvertExternGeluNone, ConvertExternGeluTanh, ConvertExternSilu, GeluOrSilu
    <3> QED BY <1>3, <3>1, SomePattern DEF Lowered
  <2> QED BY <2>1, <2>2
<1>6. CASE Double2(c, "linalg", {"powf"}, FloatTypes)
           \/ (c.lib = "linalg" /\ c.name = "powf" /\ c.args = <<"f32", "i32">> /\ c.result = "f32")
  <2>1. ConvertExternElementwise(c)
    <3>1. c.lib = "linalg" /\ c.name = "powf" /\ c.result \in FloatTypes
      BY <1>6 DEF Double2, FloatTypes
    <3>2. c.name \in DOMAIN opMap
      BY <3>1, TableIs DEF Table
    <3>3. \A i \in DOMAIN c.args : c.args[i] = c.result \/ (i = 2 /\ c.args[i] = "i32")
      BY <1>6 DEF Double2
    <3> QED BY <3>1, <3>2, <3>3 DEF ConvertExternElementwise
  <2> QED BY <1>3, <2>1, SomePattern DEF Lowered
<1>7. CASE \/ Single(c, "math", Trigonometric \cup Transcendental, FloatTypes)
           \/ Double2(c, "math", {"atan2"}, FloatTypes)
           \/ Single(c, "math", {"ffs"}, IntTypes)
           \/ Double2(c, "linalg", Divisions, {"f32", "f64"})
           \/ Single(c, "linalg", {"rint"}, {"f32", "f64"})
           \/ IsClass(c)
  <2>1. c.tensor
    BY <1>2, <1>7 DEF Single, Double2, IsClass, Table, Trigonometric, Transcendental, Divisions
  <2>2. CASE Single(c, "math", Trigonometric \cup Transcendental, FloatTypes)
    BY <1>3, <2>1, <2>2, SomePattern
       DEF Single, Trigonometric, Transcendental, ConvertExternSpecialMath, isUnaryMathSymbol, Lowered
  <2>3. CASE Double2(c, "math", {"atan2"}, FloatTypes)
    BY <1>3, <2>1, <2>3, SomePattern
       DEF Double2, ConvertExternSpecialMath, validateBinaryFloatOp, validateDivLikeOp, Lowered
  <2>4. CASE Single(c, "math", {"ffs"}, IntTypes)
    BY <1>3, <2>1, <2>4, SomePattern DEF Single, ConvertExternSpecialMath, Lowered
  <2>5. CASE Double2(c, "linalg", Divisions, {"f32", "f64"})
    BY <1>3, <2>1, <2>5, SomePattern
       DEF Double2, Divisions, FloatTypes, ConvertExternSpecialMath, isDivLike, validateBinaryFloatOp, validateDivLikeOp, Lowered
  <2>6. CASE Single(c, "linalg", {"rint"}, {"f32", "f64"})
    BY <1>3, <2>1, <2>6, SomePattern DEF Single, FloatTypes, ConvertExternSpecialMath, isUnaryMathSymbol, Lowered
  <2>7. CASE IsClass(c)
    BY <1>3, <2>1, <2>7, SomePattern DEF IsClass, IsFinite, ConvertExternSpecialMath, Lowered
  <2> QED BY <1>7, <2>2, <2>3, <2>4, <2>5, <2>6, <2>7
<1> QED BY <1>4, <1>5, <1>6, <1>7 DEF Sorted

LEMMA NvLowered ==
  ASSUME NEW c, NvSorted(c)
  PROVE  Lowered(c) \/ Excepted(c)
<1>1. ~CastsScalar(c)
  BY CastIs DEF NvSorted
<1>2. CASE c.name \in {"atan2", "pow"}
  <2>1. ExternElementwiseBinaryOpConverter(c)
    BY <1>2 DEF NvSorted, ExternElementwiseBinaryOpConverter
  <2> QED BY <1>1, <2>1, SomePattern DEF Lowered
<1>3. CASE c.name \notin {"atan2", "pow"}
  <2>1. ExternElementwiseUnaryOpConverter(c) \/ Excepted(c)
    BY <1>3 DEF NvSorted, ExternElementwiseUnaryOpConverter, Excepted
  <2> QED BY <1>1, <2>1, SomePattern DEF Lowered
<1> QED BY <1>2, <1>3

-----------------------------------------------------------------------------
(* Every step *)

LEMMA ExternCompiles ==
  ASSUME failed = {}, Extern
  PROVE  Compiles' /\ last'.kind = "extern"
<1>0. PICK f \in CpuFunctions \cup NvFunctions :
      \E o \in (IF f \in CpuFunctions THEN overloads(f) ELSE {}) \cup (IF f \in NvFunctions THEN nvOverloads(f) ELSE {}) :
      \E tensor \in BOOLEAN : Converts(f, o, tensor)
  BY Zenon DEF Extern, Converts
<1>1. PICK o \in (IF f \in CpuFunctions THEN overloads(f) ELSE {}) \cup (IF f \in NvFunctions THEN nvOverloads(f) ELSE {}),
           tensor \in BOOLEAN : Converts(f, o, tensor)
  BY <1>0, Zenon
<1> DEFINE c == [args |-> o.args, lib |-> o.lib, name |-> o.name, result |-> o.result, tensor |-> tensor]
           ran == IF Lowered(c) THEN {LoweredOp(c, p) : p \in Patterns(c)} ELSE {}
           why == IF CastsScalar(c) THEN "cast" ELSE "no pattern"
<1>2. /\ last' = [kind |-> "extern", f |-> f, call |-> c, lowered |-> Lowered(c), ops |-> ran]
      /\ failed' = IF Lowered(c) THEN failed ELSE failed \cup {<<why, c>>}
  BY <1>1, Zenon DEF Converts, Lowered
<1>3. Sorted(o) \/ NvSorted(o)
  BY SortedIs, NvSortedIs
<1>4. /\ c.args = o.args /\ c.lib = o.lib /\ c.name = o.name /\ c.result = o.result /\ c.tensor = tensor
  OBVIOUS
<1> HIDE DEF c
<1>5. Sorted(c) \/ NvSorted(c)
  <2>1. Sorted(o) => Sorted(c)
    BY <1>4 DEF Sorted, Single, Double2, IsClass
  <2>2. NvSorted(o) => NvSorted(c)
    BY <1>4 DEF NvSorted
  <2> QED BY <1>3, <2>1, <2>2
<1>6. Lowered(c) \/ Excepted(c)
  BY <1>4, <1>5, CpuLowered, NvLowered
<1>7. why \in {"cast", "no pattern"}
  OBVIOUS
<1>8. last'.kind = "extern"
  <2> HIDE DEF ran
  <2> QED BY <1>2
<1> HIDE DEF why
<1>9. \A new \in failed' : new[1] \in {"cast", "no pattern"} /\ Excepted(new[2])
  <2>1. CASE Lowered(c)
    BY <1>2, <2>1
  <2>2. CASE ~Lowered(c)
    <3>1. Excepted(c) /\ \A new \in failed' : new[1] = why /\ new[2] = c
      BY <1>2, <1>6, <2>2
    <3> QED BY <1>7, <3>1
  <2> QED BY <2>1, <2>2
<1>10. Compiles'
  BY <1>9, Zenon DEF Compiles, Excepted
<1> QED BY <1>8, <1>10

IInv == FramesInv /\ GlobalsInv /\ FilesInv /\ DeclsInv /\ NumProgramsExact /\ PrintedExact /\ Compiles

LEMMA ClashCompiles ==
  ASSUME NEW wrong, \A why \in wrong : why[1] = "pointer", failed' \subseteq wrong \cup {Clash}
  PROVE  Compiles'
<1>1. \A why \in failed' : why = Clash \/ why[1] = "pointer"
  OBVIOUS
<1> QED BY <1>1 DEF Compiles, Clash

LEMMA Invariance ==
  ASSUME IInv, [Next]_vars
  PROVE  IInv'
<1>1. CASE UNCHANGED vars
  <2>1. frames' = frames /\ globals' = globals /\ decls' = decls /\ asked' = asked /\ last' = last /\ failed' = failed
    BY <1>1 DEF vars
  <2>2. FramesInv' /\ GlobalsInv' /\ FilesInv' /\ DeclsInv'
    BY <2>1 DEF IInv, FramesInv, GlobalsInv, FilesInv, DeclsInv
  <2>3. NumProgramsExact' /\ Compiles'
    BY <2>1 DEF IInv, NumProgramsExact, Compiles
  <2>4. PrintedExact'
    BY <2>1, Zenon DEF IInv, PrintedExact, Shared
  <2> QED BY <2>2, <2>3, <2>4 DEF IInv
<1> SUFFICES ASSUME Next PROVE IInv'
  BY <1>1
<1>2. FramesInv' /\ failed = {}
  BY FramesStep DEF IInv, Next
<1>3. CASE Call \/ Return
  <2>1. last'.kind \in {"call", "return"} /\ UNCHANGED <<globals, decls, asked, failed>>
    BY <1>3 DEF Call, Return
  <2>2. NumProgramsExact' /\ PrintedExact'
    BY <2>1 DEF NumProgramsExact, PrintedExact
  <2> QED BY <1>2, <2>1, <2>2 DEF IInv, GlobalsInv, FilesInv, DeclsInv, Compiles
<1>4. CASE NumPrograms
  <2>1. PICK axis \in 0 .. 2 :
          last' = [kind |-> "num_programs", axis |-> axis, value |-> GetNumProgramsConverter(Args, axis)]
    BY <1>4 DEF NumPrograms
  <2>2. GetNumProgramsConverter(Args, axis) = Grid[axis + 1]
    BY CallerGrid, GridArgs DEF IInv, GetNumProgramsConverter
  <2>3. NumProgramsExact' /\ PrintedExact'
    BY <2>1, <2>2 DEF NumProgramsExact, PrintedExact
  <2>4. UNCHANGED <<globals, decls, asked, failed>>
    BY <1>4 DEF NumPrograms
  <2> QED BY <1>2, <2>3, <2>4 DEF IInv, GlobalsInv, FilesInv, DeclsInv, Compiles
<1>5. CASE PrintText \/ PrintScalar
  <2>1. GlobalsInv' /\ PrintedExact' /\ last'.kind = "print"
    BY <1>5, PrintScalarShows DEF IInv
  <2>2. PICK prefix \in Prefixes, ty \in Printable, hex \in BOOLEAN, signed \in BOOLEAN :
          \E v \in Values(ty) : createPrintfCall(prefix, ty, hex, signed, v)
    BY <1>5, PrintIs, Zenon
  <2> DEFINE fmt == Append(prefix, IF ty = "none" THEN Nothing ELSE getFormatSubstr(ty, hex, signed))
             pairs == <<<<"printf_fmt_", fmt>>>>
             wrong == IF ty = "ptr" THEN {<<"pointer", IF hex THEN "width" ELSE "operand">>} ELSE {}
  <2>3. createStringConstants(pairs) /\ getOrAddDecl("printf", "variadic", wrong)
    BY <2>2 DEF createPrintfCall
  <2>4. FilesInv'
    <3>1. \A i \in DOMAIN pairs : pairs[i][1] # "assert_file_"
      <4> HIDE DEF fmt
      <4> QED OBVIOUS
    <3> HIDE DEF pairs
    <3> QED BY <2>3, <3>1, FilesStep DEF IInv
  <2>5. DeclsInv' /\ Compiles'
    <3>1. \A why \in wrong : why[1] = "pointer"
      OBVIOUS
    <3> HIDE DEF wrong
    <3>2. DeclsInv' /\ failed' \subseteq wrong \cup {Clash}
      BY <1>2, <2>3, DeclStep DEF IInv, TypeOf
    <3> QED BY <3>1, <3>2, ClashCompiles
  <2>6. NumProgramsExact'
    BY <2>1 DEF NumProgramsExact
  <2> QED BY <1>2, <2>1, <2>4, <2>5, <2>6 DEF IInv
<1>6. CASE PrintTensor
  <2>1. GlobalsInv' /\ PrintedExact' /\ last'.kind = "print tensor"
    BY <1>6, PrintTensorShows DEF IInv
  <2>2. PICK prefix \in Prefixes, ty \in {"i8", "i32", "f32", "ptr"} : createTensorPrintCall(prefix, ty)
    BY <1>6, Zenon DEF PrintTensor
  <2> DEFINE elem == IF ty = "ptr" THEN "i64" ELSE ty
             pairs == <<<<"print_pfx_", prefix>>>>
             wrong == IF ty = "ptr" THEN {<<"pointer", "buffer">>} ELSE {}
  <2>3. createStringConstants(pairs) /\ getOrAddDecl("spine_print_unranked_memref", elem, wrong)
    BY <2>2 DEF createTensorPrintCall
  <2>4. FilesInv'
    <3>1. \A i \in DOMAIN pairs : pairs[i][1] # "assert_file_"
      OBVIOUS
    <3> HIDE DEF pairs
    <3> QED BY <2>3, <3>1, FilesStep DEF IInv
  <2>5. DeclsInv' /\ Compiles'
    <3>1. \A why \in wrong : why[1] = "pointer"
      OBVIOUS
    <3> HIDE DEF elem, wrong
    <3>2. DeclsInv' /\ failed' \subseteq wrong \cup {Clash}
      BY <1>2, <2>3, DeclStep DEF IInv
    <3> QED BY <3>1, <3>2, ClashCompiles
  <2>6. NumProgramsExact'
    BY <2>1 DEF NumProgramsExact
  <2> QED BY <1>2, <2>1, <2>4, <2>5, <2>6 DEF IInv
<1>7. CASE AssertConverter
  <2>1. GlobalsInv' /\ FilesInv' /\ PrintedExact' /\ last'.kind = "assert"
    BY <1>7, AssertShows DEF IInv
  <2>2. getOrAddDecl("spine_assert", "fixed", {})
    BY <1>7 DEF AssertConverter
  <2>3. DeclsInv' /\ Compiles'
    <3> DEFINE wrong == {}
    <3>1. \A why \in wrong : why[1] = "pointer"
      OBVIOUS
    <3>2. getOrAddDecl("spine_assert", "fixed", wrong)
      BY <2>2
    <3> HIDE DEF wrong
    <3>3. DeclsInv' /\ failed' \subseteq wrong \cup {Clash}
      BY <1>2, <3>2, DeclStep DEF IInv, TypeOf
    <3> QED BY <3>1, <3>3, ClashCompiles
  <2>4. NumProgramsExact'
    BY <2>1 DEF NumProgramsExact
  <2> QED BY <1>2, <2>1, <2>3, <2>4 DEF IInv
<1>8. CASE Extern
  <2>1. Compiles' /\ last'.kind = "extern"
    BY <1>2, <1>8, ExternCompiles
  <2>2. UNCHANGED <<globals, decls, asked>>
    BY <1>8, ExternShares
  <2>3. NumProgramsExact' /\ PrintedExact'
    BY <2>1 DEF NumProgramsExact, PrintedExact
  <2> QED BY <1>2, <2>1, <2>2, <2>3 DEF IInv, GlobalsInv, FilesInv, DeclsInv
<1> QED BY <1>3, <1>4, <1>5, <1>6, <1>7, <1>8 DEF Next

LEMMA Initially ==
  ASSUME Init
  PROVE  IInv
<1>1. PICK n \in 0 .. 1 : frames = <<Own(n) \o Grid>>
  BY DEF Init
<1>2. FramesInv
  <2> DEFINE args == Own(n) \o Grid
  <2>1. n \in 0 .. 2 /\ args \in Seq(Nat)
    <3>1. n \in Nat /\ n \in 0 .. 2
      OBVIOUS
    <3>2. Own(n) \in Seq(Nat)
      BY <3>1, OwnIs
    <3> QED BY <3>1, <3>2, GridIs, ConcatProperties
  <2>2. HasGrid(args)
    BY <2>1 DEF HasGrid
  <2> HIDE DEF args
  <2>3. frames = <<args>>
    BY <1>1 DEF args
  <2> QED BY <2>1, <2>2, <2>3 DEF FramesInv
<1>3. last.kind = "none" /\ globals = <<>> /\ decls = <<>> /\ asked = {} /\ failed = {}
  BY DEF Init
<1>4. GlobalsInv /\ FilesInv /\ DeclsInv
  BY <1>3 DEF GlobalsInv, FilesInv, DeclsInv
<1>5. NumProgramsExact /\ PrintedExact /\ Compiles
  BY <1>3 DEF NumProgramsExact, PrintedExact, Compiles
<1> QED BY <1>2, <1>4, <1>5 DEF IInv

LEMMA Invariant == Spec => []IInv
<1>1. Init => IInv
  BY Initially
<1>2. IInv /\ [Next]_vars => IInv'
  BY Invariance
<1> QED BY <1>1, <1>2, PTL DEF Spec

(* A function reads the launch's grid, however deep the calls and however  *)
(* many the arguments (addProgramInfo, CallConverter): every function on   *)
(* the stack has the grid as its last arguments.                           *)
THEOREM NumProgramsExactHolds == Spec => []NumProgramsExact
<1>1. IInv => NumProgramsExact
  BY DEF IInv
<1> QED BY <1>1, Invariant, PTL

(* device_print and device_assert show the text, the value, the message    *)
(* and the file given, whatever the texts and the length a name keeps, but *)
(* for a print's text with a % (PrintfText): a string is one that was      *)
(* asked for under its name, and no other family of strings has the name   *)
(* of a file (createStringConstants).                                      *)
THEOREM PrintedExactHolds == Spec => []PrintedExact
<1>1. IInv => PrintedExact
  BY DEF IInv
<1> QED BY <1>1, Invariant, PTL

(* A kernel compiles but for the reasons listed, printed pointers among    *)
(* them: printf and spine_assert are always declared alike (getOrAddDecl), *)
(* and every overload of libdevice.py and of CUDA's library, of tensors    *)
(* and of scalars, has a pattern that lowers it or is excepted.            *)
THEOREM CompilesHolds == Spec => []Compiles
<1>1. IInv => Compiles
  BY DEF IInv
<1> QED BY <1>1, Invariant, PTL
=============================================================================
