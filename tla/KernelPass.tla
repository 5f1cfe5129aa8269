----------------------------- MODULE KernelPass -----------------------------
(***************************************************************************)
(* What the TritonArithToLinalg pass does beside tensors: the arguments    *)
(* added to every function for the size of the grid, the calls of the      *)
(* mathematical library, device_print and device_assert, and the strings   *)
(* and declarations these share, by name, in the module.                   *)
(*                                                                         *)
(* A step converts one operation and runs what it became.  frames holds    *)
(* the arguments of the function being run below those of its callers.     *)
(* globals and decls are symbols of the module; asked holds the strings    *)
(* asked for under each name.  last is the operation as written and as it  *)
(* ran; failed holds why the kernel does not compile.                      *)
(***************************************************************************)
EXTENDS Libdevice, Functions

CONSTANTS
  Grid,        \* the size of the launch's grid in its three dimensions
  Prefixes,    \* texts: sequences of characters
  NameMax,     \* characters of a text that a name keeps (64 with its family)
  MaxOps       \* bound on the operations of a kernel

ASSUME KernelPassAssumption ==
  /\ Grid \in Seq(Nat) /\ Len(Grid) = 3
  /\ Prefixes \subseteq Seq(STRING)
  /\ NameMax \in Nat \ {0} /\ MaxOps \in Nat

VARIABLES frames, globals, decls, asked, last, failed, ops

vars == <<frames, globals, decls, asked, last, failed, ops>>

(* An argument of the function's own is 0. *)
Own(n) == [i \in 1 .. n |-> 0]

(* addProgramInfo; the launcher passes the grid. *)
Init ==
  /\ \E n \in 0 .. 1 : frames = <<Own(n) \o Grid>>
  /\ globals = <<>> /\ decls = <<>> /\ asked = {}
  /\ last = [kind |-> "none"]
  /\ failed = {} /\ ops = 0

Args == frames[Len(frames)]

-----------------------------------------------------------------------------
(* Functions *)

TRITON_PROGRAM_INFO_ARG_COUNT == 3

addProgramInfo(inputs) == inputs + TRITON_PROGRAM_INFO_ARG_COUNT

Bug_CallConverter(args, parent, argsNeed) ==
  args \o SubSeq(parent, 1, argsNeed - Len(args))

(* The arguments missing are the last ones of the caller. *)
CallConverter(args, parent, argsNeed) ==
  args \o SubSeq(parent, Len(parent) - (argsNeed - Len(args)) + 1, Len(parent))

Call ==
  /\ Len(frames) < 3
  /\ \E n \in 0 .. 2 :
       frames' = Append(frames, CallConverter(Own(n), Args, addProgramInfo(n)))
  /\ last' = [kind |-> "call"]
  /\ UNCHANGED <<globals, decls, asked, failed>>

Return ==
  /\ Len(frames) > 1
  /\ frames' = SubSeq(frames, 1, Len(frames) - 1)
  /\ last' = [kind |-> "return"]
  /\ UNCHANGED <<globals, decls, asked, failed>>

GetNumProgramsConverter(args, axis) == args[Len(args) - 3 + axis + 1]

NumPrograms ==
  \E axis \in 0 .. 2 :
    /\ last' = [kind |-> "num_programs", axis |-> axis, value |-> GetNumProgramsConverter(Args, axis)]
    /\ UNCHANGED <<frames, globals, decls, asked, failed>>

-----------------------------------------------------------------------------
(* Strings of the module *)

Plain(c) == IF c \in {" ", "-", "%"} THEN "_" ELSE c

GlobalName(family, text) ==
  LET n == IF Len(text) < NameMax THEN Len(text) ELSE NameMax
  IN  <<family, [i \in 1 .. n |-> Plain(text[i])]>>

(* The strings, in their order; one whose name is taken is not made. *)
createStringConstants(pairs) ==
  LET names == {GlobalName(pairs[i][1], pairs[i][2]) : i \in DOMAIN pairs}
      First(n) == pairs[CHOOSE i \in DOMAIN pairs :
                          /\ GlobalName(pairs[i][1], pairs[i][2]) = n
                          /\ \A j \in 1 .. i - 1 : GlobalName(pairs[j][1], pairs[j][2]) # n][2]
  IN  /\ globals' = [n \in DOMAIN globals \cup names |->
                       IF n \in DOMAIN globals THEN globals[n] ELSE First(n)]
      /\ asked' = asked \cup {<<GlobalName(pairs[i][1], pairs[i][2]), pairs[i][2]>> : i \in DOMAIN pairs}

Stored(family, text) == globals'[GlobalName(family, text)]

(* wrong: why the call itself does not compile. *)
getOrAddDecl(name, type, wrong) ==
  /\ decls' = IF name \in DOMAIN decls THEN decls
              ELSE [n \in DOMAIN decls \cup {name} |-> IF n = name THEN type ELSE decls[n]]
  /\ failed' = failed \cup wrong \cup
               (IF name \in DOMAIN decls /\ decls[name] # type
                  THEN {<<"declared with another type", name>>} ELSE {})

-----------------------------------------------------------------------------
(* device_print.  An i8 has 2 bits here, an i32 has 3, an i64 and a         *)
(* pointer have 4; the type of a print without operand is "none".          *)

BitWidth(ty) == CASE ty = "i8" -> 2 [] ty \in {"i64", "ptr"} -> 4 [] OTHER -> 3

Double  == 0
Garbage == 1000

(* How many words of 2, 3 or 4 bits there are. *)
Words(bits) == CASE bits = 2 -> 4 [] bits = 3 -> 8 [] OTHER -> 16

SignedAt(v, bits) == IF 2 * v >= Words(bits) THEN v - Words(bits) ELSE v

WordOf(v, bits) == IF v < 0 THEN v + Words(bits) ELSE v

getFormatSubstr(ty, hex, signed) ==
  IF hex THEN IF BitWidth(ty) > 3 THEN "%llx" ELSE "%x"
  ELSE CASE ty = "f32" -> "%f"
         [] ty = "i64" -> IF signed THEN "%lli" ELSE "%llu"
         [] ty = "ptr" -> "%d"
         [] OTHER -> IF signed THEN "%i" ELSE "%u"

Bug_printfPromoteValue(ty, v, signed) ==
  IF ty = "f32" THEN [bits |-> Double, v |-> v] ELSE [bits |-> BitWidth(ty), v |-> v]

(* What is passed: a word of a number of bits, or a double. *)
printfPromoteValue(ty, v, signed) ==
  CASE ty = "f32" -> [bits |-> Double, v |-> v]
    [] ty = "i8" -> [bits |-> 3, v |-> IF signed THEN WordOf(SignedAt(v, 2), 3) ELSE v]
    [] OTHER -> [bits |-> BitWidth(ty), v |-> v]

(* printf: what is not of the size the format says is read as garbage. *)
Printf(spec, passed) ==
  IF passed.bits # (CASE spec = "%f" -> Double [] spec \in {"%lli", "%llu", "%llx"} -> 4 [] OTHER -> 3)
    THEN Garbage
  ELSE IF spec \in {"%i", "%lli"} THEN SignedAt(passed.v, passed.bits) ELSE passed.v

(* A % in the text before it is a directive of its own: it and what comes  *)
(* behind it are not shown as they are, and it may take what is passed.    *)
PrintfText(text) == IF "%" \in Range(text) THEN <<Garbage>> ELSE text

(* The largest word, -1 where it has a sign. *)
Values(ty) == CASE ty = "f32" -> {-1} [] ty = "none" -> {0} [] OTHER -> {Words(BitWidth(ty)) - 1}

Nothing == "nothing"

(* The text is part of the format, as it is, and what follows it is the    *)
(* directive of the value, or nothing.  A pointer has no width to be       *)
(* printed in base sixteen, and may not be an operand of the call.         *)
createPrintfCall(prefix, ty, hex, signed, v) ==
  LET fmt    == Append(prefix, IF ty = "none" THEN Nothing ELSE getFormatSubstr(ty, hex, signed))
      stored == Stored("printf_fmt_", fmt)
      text   == SubSeq(stored, 1, Len(stored) - 1)
  IN  /\ createStringConstants(<<<<"printf_fmt_", fmt>>>>)
      /\ getOrAddDecl("printf", "variadic", IF ty = "ptr" THEN {<<"pointer", IF hex THEN "width" ELSE "operand">>} ELSE {})
      /\ last' = [kind |-> "print", ty |-> ty, hex |-> hex, signed |-> signed, v |-> v,
                  text |-> prefix, name |-> GlobalName("printf_fmt_", fmt), prefix |-> PrintfText(text),
                  shown |-> IF "%" \in Range(text) THEN Garbage
                            ELSE IF stored[Len(stored)] = Nothing THEN 0
                            ELSE Printf(stored[Len(stored)], printfPromoteValue(ty, v, signed))]
      /\ UNCHANGED frames

PrintText ==
  \E prefix \in Prefixes : createPrintfCall(prefix, "none", FALSE, FALSE, 0)

PrintScalar ==
  \E prefix \in Prefixes, ty \in {"i8", "i32", "i64", "f32", "ptr"}, hex \in BOOLEAN, signed \in BOOLEAN :
    /\ signed \/ ty # "f32"
    /\ \E v \in Values(ty) : createPrintfCall(prefix, ty, hex, signed, v)

(* The runtime is told the width, the kind and the sign of the elements;   *)
(* it is declared for the element type first printed.  A tensor of         *)
(* pointers is taken for a buffer of i64, which it cannot become.          *)
createTensorPrintCall(prefix, ty) ==
  LET elem == IF ty = "ptr" THEN "i64" ELSE ty
  IN  /\ createStringConstants(<<<<"print_pfx_", prefix>>>>)
      /\ getOrAddDecl("spine_print_unranked_memref", elem, IF ty = "ptr" THEN {<<"pointer", "buffer">>} ELSE {})
      /\ last' = [kind |-> "print tensor", ty |-> ty, text |-> prefix,
                  name |-> GlobalName("print_pfx_", prefix), prefix |-> Stored("print_pfx_", prefix),
                  bitWidth |-> BitWidth(elem), isInteger |-> elem # "f32"]
      /\ UNCHANGED frames

PrintTensor ==
  \E prefix \in Prefixes, ty \in {"i8", "i32", "f32", "ptr"} : createTensorPrintCall(prefix, ty)

File == <<"f">>

(* device_assert: the condition is reduced to a bit; message, file and     *)
(* function are strings, the function always unknown.                      *)
assertStrings(message) ==
  <<<<"assert_msg_", message>>, <<"assert_file_", File>>, <<"assert_func_", <<"unknown">>>>>>

AssertConverter ==
  \E message \in Prefixes, cond \in [1 .. 2 -> BOOLEAN] :
    /\ createStringConstants(assertStrings(message))
    /\ getOrAddDecl("spine_assert", "fixed", {})
    /\ last' = [kind |-> "assert", cond |-> cond, passes |-> \A i \in 1 .. 2 : cond[i],
                text |-> message, name |-> GlobalName("assert_msg_", message),
                prefix |-> Stored("assert_msg_", message), shownFile |-> Stored("assert_file_", File)]
    /\ UNCHANGED frames

-----------------------------------------------------------------------------
(* Calls of the mathematical library: the call stays where no pattern      *)
(* takes it, and the kernel does not compile.  It shares nothing with the  *)
(* other operations, so it is followed as a kernel's first one only.       *)

Extern ==
  /\ ops = 0
  /\ \E f \in CpuFunctions \cup NvFunctions :
     \E o \in (IF f \in CpuFunctions THEN overloads(f) ELSE {}) \cup (IF f \in NvFunctions THEN nvOverloads(f) ELSE {}) :
      \E tensor \in BOOLEAN :
        LET c == [args |-> o.args, lib |-> o.lib, name |-> o.name, result |-> o.result, tensor |-> tensor]
            lowered == ~CastsScalar(c) /\ Patterns(c) # {}
        IN  /\ last' = [kind |-> "extern", f |-> f, call |-> c, lowered |-> lowered,
                        ops |-> IF lowered THEN {LoweredOp(c, p) : p \in Patterns(c)} ELSE {}]
            /\ failed' = IF lowered THEN failed
                         ELSE failed \cup {<<IF CastsScalar(c) THEN "cast" ELSE "no pattern", c>>}
            /\ UNCHANGED <<frames, globals, decls, asked>>

Next ==
  /\ ops < MaxOps /\ failed = {}
  /\ ops' = ops + 1
  /\ \/ Call \/ Return \/ NumPrograms \/ PrintText \/ PrintScalar \/ PrintTensor \/ AssertConverter \/ Extern

Spec == Init /\ [][Next]_vars

-----------------------------------------------------------------------------
(* Properties *)

(* However deep the calls and however many arguments the functions have,   *)
(* a function reads the launch's grid.                                     *)
NumProgramsExact == last.kind = "num_programs" => last.value = Grid[last.axis + 1]

(* Two texts asked for under one name. *)
Shared(name) == \E a, b \in asked : a[1] = name /\ b[1] = name /\ a[2] # b[2]

(* A print shows its text and its value, with the sign and base asked for, *)
(* and an assertion its message and its file, unless another text took     *)
(* their name.  Excepted are texts printf finds a directive in (a %), of   *)
(* prints of scalars and of prints without operand, numbers in base        *)
(* sixteen that are floats, or negative and shorter than a C int, and      *)
(* pointers, whose prints do not compile.                                  *)
PrintedExact ==
  /\ last.kind \in {"print", "print tensor", "assert"} /\ ~Shared(last.name) =>
       last.prefix = last.text \/ (last.kind = "print" /\ "%" \in Range(last.text))
  /\ last.kind = "print" /\ ~Shared(last.name) /\ "%" \notin Range(last.text) /\ last.ty # "ptr" =>
       \/ last.hex /\ (last.ty = "f32" \/ (last.ty = "i8" /\ last.signed /\ last.v >= 2))
       \/ last.shown = IF last.ty = "f32" \/ last.hex \/ ~last.signed THEN last.v
                       ELSE SignedAt(last.v, BitWidth(last.ty))
  /\ last.kind = "assert" => last.shownFile = File /\ (last.passes <=> FALSE \notin Range(last.cond))

(* A library call that is lowered is lowered by one pattern, to operations *)
(* that compute the function.  Excepted are the divisions with a rounding  *)
(* mode: they round the quotient to an integer.                            *)
FunctionsExact ==
  last.kind = "extern" /\ last.lowered =>
    /\ Cardinality(last.ops) = 1
    /\ last.f \in {"div_rz", "div_rd", "div_ru"} \/ \A op \in last.ops : Means(op, last.f)

(* A kernel compiles, but for these: calls of the library on scalars other *)
(* than those of ConvertExternElementwise, the absolute value of integers, *)
(* the double tanh and atanh of CUDA's library, pointers printed, alone or *)
(* in a tensor, and tensors of two element types printed by one kernel.    *)
Compiles ==
  \A why \in failed :
    \/ why = <<"declared with another type", "spine_print_unranked_memref">>
    \/ why[1] = "pointer"
    \/ /\ why[1] \in {"cast", "no pattern"}
       /\ \/ ~why[2].tensor /\ why[2].name \notin DOMAIN opMap /\ why[2].lib \in {"math", "linalg"}
          \/ why[2].name = "abs" /\ why[2].result \in IntTypes
          \/ why[2].lib = "nv_f64" /\ why[2].name \in {"tanh", "atanh"}
=============================================================================
