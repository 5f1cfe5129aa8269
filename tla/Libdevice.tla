----------------------------- MODULE Libdevice -----------------------------
(***************************************************************************)
(* The mathematical functions a kernel may call, language/cpu/libdevice.py *)
(* and CUDA's libdevice, and the patterns of ConversionPatterns.hpp that   *)
(* lower their symbols to operations of the math dialect.                  *)
(*                                                                         *)
(* A symbol is a pair of a library and a name.  A function on which the    *)
(* lowerings could differ from what is asked (rounding, division, classes  *)
(* of floats, bits) is computed on small numbers; of the others only the   *)
(* name matters.  A number stands for its half: 3 is 1.5.                  *)
(***************************************************************************)
EXTENDS Integers, Sequences, FiniteSets

Inf     == 100
NaN     == 1000
Numbers == {-Inf, -5, -3, -2, -1, 0, 1, 2, 3, 4, Inf, NaN}
Finite(x) == x \notin {-Inf, Inf, NaN}

FloatTypes == {"f16", "f32", "f64"}
IntTypes   == {"i32", "i64"}

-----------------------------------------------------------------------------
(* What libdevice.py offers: argument types, symbol, type of the result *)

Overload(args, lib, name, result) == [args |-> args, lib |-> lib, name |-> name, result |-> result]

Unary(lib, name, types)  == {Overload(<<t>>, lib, name, t) : t \in types}
Binary(lib, name, types) == {Overload(<<t, t>>, lib, name, t) : t \in types}
Class(name, types)       == {Overload(<<t>>, "math", name, "i32") : t \in types}

LinalgUnary ==
  {"abs", "ceil", "exp", "floor", "log", "round", "rsqrt", "sqrt", "tanh", "erf",
   "gelu_tanh", "gelu_none", "silu"}
Trigonometric == {"cos", "sin", "acos", "acosh", "asin", "asinh", "atan", "atanh"}
Transcendental == {"cbrt", "cosh", "exp2", "expm1", "log2", "log10", "log1p", "sinh", "tan", "trunc"}
Divisions == {"div_rn", "div_rz", "div_rd", "div_ru", "fmod"}
Classes == {"finitef", "isinf", "isnan", "isfinited"}

classOverloads(f) ==
  CASE f = "finitef" -> Class("isfinite", {"f32"})
    [] f = "isfinited" -> Class("isfinite", {"f64"})
    [] OTHER -> Class(f, FloatTypes)

overloads(f) ==
  CASE f = "abs" -> Unary("linalg", f, FloatTypes \cup IntTypes)
    [] f \in LinalgUnary \ {"abs"} -> Unary("linalg", f, FloatTypes)
    [] f \in Trigonometric \cup Transcendental -> Unary("math", f, FloatTypes)
    [] f = "pow" -> Binary("linalg", "powf", FloatTypes)
                      \cup {Overload(<<"f32", "i32">>, "linalg", "powf", "f32")}
    [] f = "atan2" -> Binary("math", f, FloatTypes)
    [] f = "ffs" -> Unary("math", f, IntTypes)
    [] f \in Divisions -> Binary("linalg", f, {"f32", "f64"})
    [] f = "rint" -> Unary("linalg", f, {"f32", "f64"})
    [] f \in Classes -> classOverloads(f)

CpuFunctions ==
  LinalgUnary \cup Trigonometric \cup Transcendental \cup Divisions \cup Classes
    \cup {"pow", "atan2", "ffs", "rint"}

(* CUDA's functions: one symbol for single, one for double precision. *)
NvFunctions ==
  {"fabs", "sin", "cos", "tan", "asin", "acos", "atan", "sinh", "cosh", "tanh", "acosh", "asinh",
   "atanh", "log", "log10", "log1p", "exp", "exp2", "erf", "sqrt", "rsqrt", "ceil", "floor",
   "trunc", "atan2", "pow"}

NvLib == [f32 |-> "nv_f32", f64 |-> "nv_f64"]

nvOverloads(f) ==
  {Overload(IF f \in {"atan2", "pow"} THEN <<t, t>> ELSE <<t>>, NvLib[t], f, t) : t \in DOMAIN NvLib}

-----------------------------------------------------------------------------
(* The patterns.  A call is an overload with the kinds of its arguments:   *)
(* tensors or scalars, all alike.                                          *)

(* The operation each symbol of ConvertExternElementwise becomes. *)
opMap ==
  [name \in {"exp", "log", "abs", "ceil", "floor", "round", "rsqrt", "sqrt", "tanh", "erf", "powf"} |->
     CASE name = "abs" -> "absf" [] OTHER -> name]

(* erf is missing from the table, and the types are not looked at. *)
Bug_ConvertExternElementwise(c) == c.lib = "linalg" /\ c.name \in DOMAIN opMap \ {"erf"}

ConvertExternElementwise(c) ==
  /\ c.lib = "linalg" /\ c.name \in DOMAIN opMap
  /\ c.result \in FloatTypes
  /\ \A i \in DOMAIN c.args : c.args[i] = c.result \/ (i = 2 /\ c.args[i] = "i32")

isUnaryMathSymbol(lib, name) ==
  \/ lib = "math" /\ name \in {"acos", "asin", "atan", "acosh", "asinh", "atanh", "cbrt", "cosh", "exp2",
                               "expm1", "log2", "log10", "log1p", "sinh", "tan"}
  \/ lib = "linalg" /\ name = "rint"

Bug_buildUnaryMathOp(name) == IF name = "rint" THEN "round" ELSE name

buildUnaryMathOp(name) == IF name = "rint" THEN "roundeven" ELSE name

isDivLike(c) == c.lib = "linalg" /\ c.name \in {"div_rn", "div_rz", "div_rd", "div_ru"}

buildFloatDivOp(name) ==
  CASE name = "div_rn" -> "divf"
    [] name = "div_rz" -> "divf, trunc"
    [] name = "div_rd" -> "divf, floor"
    [] name = "div_ru" -> "divf, ceil"

validateDivLikeOp(c) == Len(c.args) = 2 /\ c.args[1] = c.args[2] /\ c.args[1] = c.result

validateBinaryFloatOp(c) == validateDivLikeOp(c) /\ c.result \in FloatTypes

IsFinite(c) == <<c.lib, c.name>> \in {<<"math", "isfinite">>, <<"linalg", "isfinited">>}

ConvertExternSpecialMath(c) ==
  /\ c.tensor
  /\ \/ isDivLike(c) /\ validateDivLikeOp(c)
     \/ <<c.lib, c.name>> \in {<<"math", "atan2">>, <<"linalg", "fmod">>} /\ validateBinaryFloatOp(c)
     \/ c.lib = "math" /\ c.name = "ffs" /\ c.args[1] \in IntTypes /\ c.result = c.args[1]
     \/ /\ c.args[1] \in FloatTypes /\ c.result = c.args[1]
        /\ isUnaryMathSymbol(c.lib, c.name) \/ (c.lib = "math" /\ c.name \in {"cos", "sin", "trunc"})
     \/ c.args[1] \in FloatTypes /\ ((c.lib = "math" /\ c.name \in {"isnan", "isinf"}) \/ IsFinite(c))

specialMathOp(c) ==
  CASE isDivLike(c) -> buildFloatDivOp(c.name)
    [] isUnaryMathSymbol(c.lib, c.name) -> buildUnaryMathOp(c.name)
    [] c.name = "fmod" -> "remf"
    [] c.name = "isinf" -> "absf, cmpf oeq inf"
    [] IsFinite(c) -> "isfinite"
    [] c.name = "ffs" -> "cttz, addi 1, select 0"
    [] OTHER -> c.name

GeluOrSilu(c, name) == c.lib = "linalg" /\ c.name = name /\ c.args[1] = c.result

ConvertExternGeluNone(c) == GeluOrSilu(c, "gelu_none") /\ c.result \in FloatTypes
ConvertExternGeluTanh(c) == GeluOrSilu(c, "gelu_tanh") /\ c.result \in FloatTypes
ConvertExternSilu(c)     == GeluOrSilu(c, "silu")

ExternElementwiseBinaryOpConverter(c) ==
  Len(c.args) = 2 /\ c.lib \in {"nv_f32", "nv_f64"} /\ c.name \in {"atan2", "pow"}

(* The double tanh and atanh are missing: the single ones are there twice. *)
ExternElementwiseUnaryOpConverter(c) ==
  /\ Len(c.args) = 1 /\ c.lib \in {"nv_f32", "nv_f64"}
  /\ ~(c.lib = "nv_f64" /\ c.name \in {"tanh", "atanh"})

Patterns(c) ==
  {p \in {"elementwise", "special", "gelu_none", "gelu_tanh", "silu", "binary", "unary"} :
     CASE p = "elementwise" -> ConvertExternElementwise(c)
       [] p = "special" -> ConvertExternSpecialMath(c)
       [] p = "gelu_none" -> ConvertExternGeluNone(c)
       [] p = "gelu_tanh" -> ConvertExternGeluTanh(c)
       [] p = "silu" -> ConvertExternSilu(c)
       [] p = "binary" -> ExternElementwiseBinaryOpConverter(c)
       [] p = "unary" -> ExternElementwiseUnaryOpConverter(c)}

(* gelu and silu cast their type to a ranked tensor without asking. *)
CastsScalar(c) == ~c.tensor /\ Patterns(c) \cap {"gelu_none", "gelu_tanh", "silu"} # {}

LoweredOp(c, p) ==
  CASE p = "elementwise" -> opMap[c.name]
    [] p = "special" -> specialMathOp(c)
    [] p \in {"gelu_none", "gelu_tanh", "silu"} -> c.name
    [] OTHER -> CASE c.name = "fabs" -> "absf" [] c.name = "pow" -> "powf" [] OTHER -> c.name

-----------------------------------------------------------------------------
(* Operations of the math and arith dialects on numbers *)

Halves(x) == x % 2 # 0
Up(x)     == IF Halves(x) THEN x + 1 ELSE x
Down(x)   == IF Halves(x) THEN x - 1 ELSE x
Away(x)   == IF x >= 0 THEN Up(x) ELSE Down(x)
Zeroward(x) == IF x >= 0 THEN Down(x) ELSE Up(x)
Even(x)   == IF ~Halves(x) THEN x ELSE IF (x + 1) % 4 = 0 THEN x + 1 ELSE x - 1

Truth(b) == IF b THEN 1 ELSE 0

(* The lowest bit set, from 1. *)
LowestBit(x) == CHOOSE k \in 1 .. 4 : x % 2 ^ (k - 1) = 0 /\ x % 2 ^ k # 0

Computed == {"ceil", "floor", "round", "roundeven", "trunc", "absf", "isnan", "isinf",
             "absf, cmpf oeq inf", "isfinite", "cttz, addi 1, select 0"}

Rounded(op, x) ==
  CASE op = "ceil" -> Up(x)
    [] op = "floor" -> Down(x)
    [] op = "round" -> Away(x)
    [] op = "roundeven" -> Even(x)
    [] op = "trunc" -> Zeroward(x)

OpValue(op, x) ==
  CASE op = "cttz, addi 1, select 0" -> IF x = 0 THEN 0 ELSE LowestBit(x)
    [] op = "isnan" -> Truth(x = NaN)
    [] op = "absf, cmpf oeq inf" -> Truth(x \in {Inf, -Inf})
    [] op = "isfinite" -> Truth(Finite(x))
    [] op = "absf" -> IF x < 0 THEN -x ELSE x
    [] OTHER -> IF Finite(x) THEN Rounded(op, x) ELSE x

(* Products, sums and quotients at 0, 1, the infinities and NaN; 1 stands  *)
(* for any positive number.                                                *)
Sgn(a) == IF a > 0 THEN 1 ELSE IF a < 0 THEN -1 ELSE 0
Infinite(a) == a \in {Inf, -Inf}

MulL(a, b) ==
  IF NaN \in {a, b} \/ (0 \in {a, b} /\ (Infinite(a) \/ Infinite(b))) THEN NaN
  ELSE Sgn(a) * Sgn(b) * (IF Infinite(a) \/ Infinite(b) THEN Inf ELSE 1)

AddL(a, b) ==
  IF NaN \in {a, b} \/ (Infinite(a) /\ b = -a) THEN NaN
  ELSE IF Infinite(a) THEN a ELSE IF Infinite(b) THEN b ELSE Sgn(a + b)

DivL(a, b) ==
  IF NaN \in {a, b} \/ (Infinite(a) /\ Infinite(b)) THEN NaN
  ELSE IF Infinite(b) THEN 0 ELSE MulL(a, b)

SignL(a) == IF a = NaN THEN NaN ELSE Sgn(a)      \* tanh and erf at the limits
ExpL(a)  == IF a = -Inf THEN 0 ELSE IF Finite(a) THEN 1 ELSE a

(* The lowered expressions: 0.5 x (1 + erf(c x)), with tanh(c x (1 + d x^2))*)
(* for erf, and x / (exp(0 - x) + 1).                                      *)
geluNone(x) == MulL(MulL(1, x), AddL(SignL(MulL(x, 1)), 1))
geluTanh(x) == MulL(MulL(1, x), AddL(SignL(MulL(1, MulL(x, AddL(MulL(1, MulL(x, x)), 1)))), 1))
silu(x)     == DivL(x, AddL(ExpL(IF x = NaN THEN NaN ELSE -x), 1))

Limits == {0, Inf, NaN}

LimitValue(op, x) ==
  CASE op = "gelu_none" -> geluNone(x) [] op = "gelu_tanh" -> geluTanh(x) [] op = "silu" -> silu(x)

-----------------------------------------------------------------------------
(* What the functions mean *)

Nearest(x) == {y \in -8 .. 8 : y % 2 = 0 /\ y - x \in {-1, 0, 1}}

FiniteValue(f, x) ==
  CASE f = "ceil" -> CHOOSE y \in Nearest(x) : y >= x /\ y - x < 2
    [] f = "floor" -> CHOOSE y \in Nearest(x) : y <= x /\ x - y < 2
    [] f = "trunc" -> CHOOSE y \in Nearest(x) : \A z \in Nearest(x) : y * y <= z * z
    [] f = "round" -> CHOOSE y \in Nearest(x) : \A z \in Nearest(x) : y * y >= z * z
    [] f = "rint" -> IF x % 2 = 0 THEN x ELSE CHOOSE y \in Nearest(x) : y % 4 = 0

FnValue(f, x) ==
  CASE f = "ffs" -> IF x = 0 THEN 0
                    ELSE CHOOSE k \in 1 .. 4 : \E odd \in {1, 3, 5} : x = odd * 2 ^ (k - 1)
    [] f = "isnan" -> IF x = NaN THEN 1 ELSE 0
    [] f = "isinf" -> IF x = Inf \/ x = -Inf THEN 1 ELSE 0
    [] f \in {"finitef", "isfinited"} -> IF x \in {Inf, -Inf, NaN} THEN 0 ELSE 1
    [] f \in {"abs", "fabs"} -> IF x < 0 THEN -x ELSE x
    [] OTHER -> IF Finite(x) THEN FiniteValue(f, x) ELSE x

Bits == {0, 1, 2, 3, 4, 5}

(* The name of the operation for a function that is not computed. *)
Name(f) == CASE f = "pow" -> "powf" [] f = "fmod" -> "remf" [] f = "div_rn" -> "divf" [] OTHER -> f

(* gelu and silu follow their argument at 0, the infinity and NaN; at the  *)
(* negative infinity they have no value here.                              *)
Means(op, f) ==
  IF op \in {"gelu_none", "gelu_tanh", "silu"}
    THEN op = f /\ \A x \in Limits : LimitValue(op, x) = x
  ELSE IF op \in Computed
    THEN \A x \in IF f = "ffs" THEN Bits ELSE Numbers : OpValue(op, x) = FnValue(f, x)
    ELSE op = Name(f)
=============================================================================
