----------------------- MODULE TritonToUnstructured -----------------------
(***************************************************************************)
(* TritonToUnstructuredPass::processUnstructuredPtrs: every pointer that   *)
(* the structured passes left is split into a base pointer and an integer  *)
(* offset.  A work list follows the uses of the pointer arguments; the     *)
(* operations that move a pointer get an offset in offsetMap and are       *)
(* erased at the end, loads and stores become gathers and scatters.        *)
(*                                                                         *)
(* A kernel is a sequence of operations, built first; the value of         *)
(* operation i is i.  A loop is the pair of its "for", whose value is the  *)
(* iteration argument, and its "yield", whose value is the loop's result;  *)
(* loops are not nested.  Pointers are followed at run time as well, in    *)
(* bytes, with every condition true or every condition false.              *)
(*                                                                         *)
(* The definitions named Bug_... are defective variants of the definition  *)
(* after them, for the run that shows a property fail with it.             *)
(***************************************************************************)
EXTENDS Integers, Sequences, FiniteSets

CONSTANTS
  Arguments,        \* element sizes of the pointer arguments, a sequence
  ElementSizes,     \* element sizes a bitcast may choose
  DefaultBitWidth,  \* offset-bit-width of the pass, and of a block pointer's offsets
  OffsetWidths,     \* bit widths of the offset of a tt.addptr
  Offset,           \* the offset of a tt.addptr
  Stride,           \* the stride of a tt.make_tensor_ptr
  Trip,             \* iterations of a loop
  MaxOps, MaxUsers  \* bounds on the kernel: its operations, and those that yield no pointer

ASSUME WidthsAssumption ==
  /\ DefaultBitWidth \in Nat \ {0} /\ OffsetWidths \subseteq Nat \ {0}
  /\ Offset \in Int /\ Stride \in Int

ASSUME KernelAssumption ==
  /\ Arguments \in Seq(Nat \ {0}) /\ ElementSizes \subseteq Nat \ {0}
  /\ Trip \in Nat \ {0} /\ MaxOps \in Nat /\ MaxUsers \in Nat

VARIABLES
  ops, phase,
  offsetMap, workList,
  val, uses,            \* the value last taken from the work list, its uses to come
  retyped,              \* values whose type was set to an integer type
  deferredRewrites,     \* operations whose pointer operand is to be materialized
  ptrUsers, toDelete, erased

ir == <<offsetMap, workList, val, uses, retyped, deferredRewrites, ptrUsers, toDelete, erased>>
vars == <<ops, phase, ir>>

-----------------------------------------------------------------------------
(* The kernel *)
Moves == {"addptr", "splat", "bitcast"}
Roots == {"arg", "inttoptr"}
Merges == {"select", "if"}
Values == Moves \cup Roots \cup Merges \cup {"for", "yield"}

(* load stands for tt.load and tt.store; the fill value of load_other is   *)
(* not a scalar.  tts_load stands for tts.load and tts.store; block is     *)
(* tt.make_tensor_ptr; tptr and tptr_static are tts.make_tptr with dynamic *)
(* and with constant offsets; dsl_region is tle.dsl_region, gather_tptr    *)
(* tts.make_gather_scatter_tptr; unexpected stands for tt.cat and the rest.*)
ScalarUsers == {"tts_load", "block", "tptr", "tptr_static", "dsl_region", "gather_tptr"}
Users == ScalarUsers \cup {"load", "load_other", "ptrtoint", "unexpected"}

(* inIf: in a branch of an scf.if; width is that of a tt.addptr's offset.  *)
Operation(kind, args, elem, tensor, inIf) ==
  [op |-> kind, args |-> args, elem |-> elem, tensor |-> tensor, inIf |-> inIf,
   width |-> DefaultBitWidth]

OperationLike(kind, args, p) == Operation(kind, args, p.elem, p.tensor, p.inIf)

Operations == DOMAIN ops

Kind(i) == ops[i].op

LoopOf(i) ==
  {f \in 1 .. i : Kind(f) = "for" /\ \A j \in f .. i : Kind(j) # "yield"}

Closes(y, f) == y > f /\ Kind(y) = "yield" /\ \A j \in f .. y - 1 : Kind(j) # "yield"

YieldOf(f) == CHOOSE y \in Operations : Closes(y, f)

OpenLoop == LoopOf(Len(ops))

Visible(i) == Kind(i) \in Values /\ LoopOf(i) \subseteq OpenLoop

Uses(i, v) == \E k \in DOMAIN ops[i].args : ops[i].args[k] = v

Unused ==
  {v \in Operations : Kind(v) \in {"inttoptr", "addptr", "splat", "bitcast", "select", "if"}
                        /\ \A i \in v + 1 .. Len(ops) : ~Uses(i, v)}

(* The kernel can still be completed: the values not used yet be used, a   *)
(* loop closed, and a pointer accessed.                                    *)
Completable ==
  LET spare == Len(Arguments) + MaxOps - Len(ops)
      unused == Cardinality(Unused)
      open == Cardinality(OpenLoop)
      users == Cardinality({i \in Operations : Kind(i) \in Users})
  IN /\ users <= MaxUsers /\ unused <= spare
     /\ (IF users = 0 THEN open < spare ELSE open <= spare)
     /\ users = MaxUsers => unused <= open

Building == phase = "kernel" /\ Len(ops) < Len(Arguments) + MaxOps

Emit(op) ==
  /\ ops' = Append(ops, op)
  /\ Completable'
  /\ UNCHANGED <<phase, ir>>

(* The operations without a result come last in the kernel or in the loop. *)
BuildingValue ==
  Building /\ Kind(Len(ops)) \notin Users /\ Len(ops) + 1 < Len(Arguments) + MaxOps

Move ==
  BuildingValue /\ \E p \in Operations : Visible(p) /\ LET like == OperationLike("", <<p>>, ops[p]) IN
    \/ \E w \in OffsetWidths, inIf \in {ops[p].inIf, TRUE} :
         Emit([like EXCEPT !.op = "addptr", !.width = w, !.inIf = inIf])
    \/ ~ops[p].tensor /\ Emit([like EXCEPT !.op = "splat", !.tensor = TRUE])
    \/ \E e \in ElementSizes : e # ops[p].elem /\ Emit([like EXCEPT !.op = "bitcast", !.elem = e])

SameType(p, q) == ops[p].elem = ops[q].elem /\ ops[p].tensor = ops[q].tensor

Merge ==
  BuildingValue /\ \E p, q \in Operations, kind \in Merges :
    /\ p # q /\ Visible(p) /\ Visible(q) /\ SameType(p, q)
    /\ kind = "select" => ops[p].inIf = ops[q].inIf
    /\ Emit([OperationLike(kind, <<p, q>>, ops[p]) EXCEPT !.inIf = kind = "select" /\ @])

IntToPtr ==
  BuildingValue /\ \E e \in ElementSizes : Emit(Operation("inttoptr", <<>>, e, FALSE, FALSE))

For ==
  /\ BuildingValue /\ OpenLoop = {}
  /\ \E p \in Operations : Visible(p) /\ Emit(OperationLike("for", <<p>>, ops[p]))

Yield ==
  Building /\ \E f \in OpenLoop, p \in Operations :
    /\ Visible(p) /\ SameType(p, f)
    /\ {i \in Unused : i > f} \subseteq {p}
    /\ Emit(OperationLike("yield", <<p>>, ops[p]))

User ==
  Building /\ \E p \in Operations, kind \in Users :
    /\ Visible(p) /\ (kind \in ScalarUsers => ~ops[p].tensor)
    /\ Emit(OperationLike(kind, <<p>>, ops[p]))

Init ==
  /\ ops = [i \in DOMAIN Arguments |-> Operation("arg", <<>>, Arguments[i], FALSE, FALSE)]
  /\ phase = "kernel"
  /\ offsetMap = <<>> /\ workList = <<>> /\ val = 0 /\ uses = {}
  /\ retyped = {} /\ deferredRewrites = {} /\ ptrUsers = <<>> /\ toDelete = <<>> /\ erased = {}

-----------------------------------------------------------------------------
(* The work list.  The offset of a value is zero, that of its operand, or  *)
(* a sum computed beside it; offsetMap holds its base and its width.       *)
PtrOffset(ptr, bitWidth) == [ptr |-> ptr, bitWidth |-> bitWidth]

Tracked(v) == v \in DOMAIN offsetMap

MaxOf(a, b) == IF a >= b THEN a ELSE b

(* DenseMap::insert leaves an entry that is there as it is. *)
Insert(map, v, info) ==
  IF v \in DOMAIN map THEN map ELSE [u \in DOMAIN map \cup {v} |-> IF u = v THEN info ELSE map[u]]

(* The operations of one kind, in the order they stand in. *)
InOrder(kind) ==
  LET S == {i \in Operations : Kind(i) = kind} IN
    {s \in [1 .. Cardinality(S) -> S] : \A j, k \in DOMAIN s : j < k => s[j] < s[k]}

(* The canonicalizer ran before the pass: no pointer is computed in vain.  *)
Start ==
  /\ phase = "kernel" /\ OpenLoop = {} /\ Unused = {}
  /\ \E i \in Operations : Kind(i) \in Users
  /\ phase' = "walk"
  /\ \E args \in InOrder("arg"), casts \in InOrder("inttoptr") : workList' = args \o casts
  /\ offsetMap' = [i \in {i \in Operations : Kind(i) \in Roots} |-> PtrOffset(i, DefaultBitWidth)]
  /\ UNCHANGED <<ops, val, uses, retyped, deferredRewrites, ptrUsers, toDelete, erased>>

UsesOf(v) ==
  {use \in Operations \X {1, 2} :
     LET args == ops[use[1]].args IN use[2] \in DOMAIN args /\ args[use[2]] = v}

Pop ==
  /\ phase = "walk" /\ uses = {} /\ workList # <<>>
  /\ val' = Head(workList) /\ workList' = Tail(workList)
  /\ uses' = UsesOf(val')
  /\ UNCHANGED <<ops, phase, offsetMap, retyped, deferredRewrites, ptrUsers, toDelete, erased>>

(* Taking a use of val, in whatever order the use list has them. *)
TakeUse(i) ==
  /\ phase = "walk"
  /\ \E k \in {1, 2} : <<i, k>> \in uses /\ uses' = uses \ {<<i, k>>}
  /\ UNCHANGED <<ops, val>>

Fail(i) ==
  /\ TakeUse(i) /\ phase' = "failed"
  /\ UNCHANGED <<offsetMap, workList, retyped, deferredRewrites, ptrUsers, toDelete, erased>>

Skip(i) ==
  /\ TakeUse(i)
  /\ UNCHANGED <<phase, offsetMap, workList, retyped, deferredRewrites, ptrUsers, toDelete, erased>>

Defer(i) ==
  /\ TakeUse(i)
  /\ deferredRewrites' = deferredRewrites \cup {i}
  /\ UNCHANGED <<phase, offsetMap, workList, retyped, ptrUsers, toDelete, erased>>

VisitPtrToInt(i) ==
  /\ Kind(i) = "ptrtoint"
  /\ IF ops[i].tensor THEN Fail(i) ELSE Defer(i)

VisitTtsAccess(i) == Kind(i) = "tts_load" /\ Defer(i)

(* an addptr in one branch of an scf.if, off a pointer computed before *)
Bails(i) == ops[i].inIf /\ Kind(val) # "arg"

Bug_WidthOf(i) == offsetMap[val].bitWidth

WidthOf(i) ==
  IF Kind(i) = "addptr" THEN MaxOf(offsetMap[val].bitWidth, ops[i].width) ELSE offsetMap[val].bitWidth

MovedOffset(i) == PtrOffset(offsetMap[val].ptr, WidthOf(i))

Bug_VisitMove(i) ==
  /\ Kind(i) \in Moves
  /\ IF Kind(i) = "addptr" /\ Bails(i) THEN Fail(i)
     ELSE /\ TakeUse(i)
          /\ offsetMap' = Insert(offsetMap, i, MovedOffset(i))
          /\ workList' = Append(workList, i)
          /\ toDelete' = Append(toDelete, i)
          /\ erased' = erased \cup {i}
          /\ UNCHANGED <<phase, retyped, deferredRewrites, ptrUsers>>

VisitMove(i) ==
  /\ Kind(i) \in Moves
  /\ IF Kind(i) = "addptr" /\ Bails(i) THEN Fail(i)
     ELSE /\ TakeUse(i)
          /\ offsetMap' = Insert(offsetMap, i, MovedOffset(i))
          /\ workList' = Append(workList, i)
          /\ toDelete' = Append(toDelete, i)
          /\ UNCHANGED <<phase, retyped, deferredRewrites, ptrUsers, erased>>

VisitUntouched(i) == Kind(i) \in {"dsl_region", "gather_tptr"} /\ Skip(i)

VisitUser(i) ==
  /\ Kind(i) \in {"load", "load_other", "block", "tptr", "tptr_static"}
  /\ IF Kind(i) \in {"tptr", "tptr_static"} /\ Kind(val) = "arg" THEN Skip(i)
     ELSE /\ TakeUse(i)
          /\ ptrUsers' = Append(ptrUsers, i)
          /\ UNCHANGED <<phase, offsetMap, workList, retyped, deferredRewrites, toDelete, erased>>

(* The iteration argument and the result take the type of the initial      *)
(* value's offset, and are their own offset.                               *)
Bug_VisitFor(i) ==
  /\ Kind(i) = "for" /\ TakeUse(i)
  /\ offsetMap' = Insert(Insert(offsetMap, i, offsetMap[val]), YieldOf(i), offsetMap[val])
  /\ workList' = Append(workList, i)
  /\ retyped' = retyped \cup {i, YieldOf(i)}
  /\ UNCHANGED <<phase, deferredRewrites, ptrUsers, toDelete, erased>>

VisitFor(i) ==
  /\ Kind(i) = "for" /\ TakeUse(i)
  /\ offsetMap' = Insert(Insert(offsetMap, i, offsetMap[val]), YieldOf(i), offsetMap[val])
  /\ workList' = Append(Append(workList, i), YieldOf(i))
  /\ retyped' = retyped \cup {i, YieldOf(i)}
  /\ UNCHANGED <<phase, deferredRewrites, ptrUsers, toDelete, erased>>

Bug_VisitYield(i) ==
  /\ Kind(i) = "yield" /\ TakeUse(i)
  /\ offsetMap' = Insert(offsetMap, i, offsetMap[val])
  /\ workList' = Append(workList, i)
  /\ UNCHANGED <<phase, retyped, deferredRewrites, ptrUsers, toDelete, erased>>

VisitYield(i) == Kind(i) = "yield" /\ Skip(i)

(* The result is a new base. *)
VisitSelect(i) ==
  /\ Kind(i) = "select" /\ TakeUse(i)
  /\ offsetMap' = Insert(offsetMap, i, PtrOffset(i, DefaultBitWidth))
  /\ workList' = Append(workList, i)
  /\ UNCHANGED <<phase, retyped, deferredRewrites, ptrUsers, toDelete, erased>>

(* A pointer yielded by an scf.if is used by the scf.yield of a branch. *)
VisitIf(i) == Kind(i) = "if" /\ Skip(i)

VisitUnexpected(i) == Kind(i) = "unexpected" /\ Fail(i)

Visit ==
  \E use \in uses : LET i == use[1] IN
    \/ VisitPtrToInt(i) \/ VisitMove(i) \/ VisitUntouched(i) \/ VisitTtsAccess(i) \/ VisitUser(i)
    \/ VisitFor(i) \/ VisitYield(i) \/ VisitSelect(i) \/ VisitIf(i) \/ VisitUnexpected(i)

-----------------------------------------------------------------------------
(* The rewriting.  An operation taken twice has been freed: what happens   *)
(* then is undefined, as it is when a tts.make_tptr without dynamic        *)
(* offsets is given to getOffsetsMutable()[0].                             *)
EndWalk ==
  /\ phase = "walk" /\ uses = {} /\ workList = <<>>
  /\ phase' = "rewrite"
  /\ UNCHANGED <<ops, ir>>

RewriteUser ==
  /\ phase = "rewrite" /\ ptrUsers # <<>>
  /\ LET i == Head(ptrUsers) IN
       /\ phase' = CASE i \in erased \/ Kind(i) = "tptr_static" -> "undefined"
                     [] Kind(i) = "load_other" -> "failed"
                     [] OTHER -> phase
       /\ erased' = IF Kind(i) = "load" THEN erased \cup {i} ELSE erased
  /\ ptrUsers' = Tail(ptrUsers)
  /\ UNCHANGED <<ops, offsetMap, workList, val, uses, retyped, deferredRewrites, toDelete>>

Delete ==
  /\ phase = "rewrite" /\ ptrUsers = <<>> /\ toDelete # <<>>
  /\ phase' = IF Head(toDelete) \in erased THEN "undefined" ELSE phase
  /\ erased' = erased \cup {Head(toDelete)}
  /\ toDelete' = Tail(toDelete)
  /\ UNCHANGED <<ops, offsetMap, workList, val, uses, retyped, deferredRewrites, ptrUsers>>

EndRewrite ==
  /\ phase = "rewrite" /\ ptrUsers = <<>> /\ toDelete = <<>>
  /\ phase' = "done"
  /\ UNCHANGED <<ops, ir>>

Next ==
  \/ Move \/ Merge \/ IntToPtr \/ For \/ Yield \/ User
  \/ Start \/ Pop \/ Visit \/ EndWalk \/ RewriteUser \/ Delete \/ EndRewrite

Spec == Init /\ [][Next]_vars

-----------------------------------------------------------------------------
(* What a kernel means.  At(v, k, c) describes value v in iteration k of   *)
(* its loop when every condition is c: the root and the byte it points to, *)
(* and, after the pass, its offset in elements from its base.  clean: no   *)
(* offset on the way overflowed the widest type it was given; no bitcast   *)
(* changed the element of a pointer with an offset; and a loop was not     *)
(* given back a pointer with another base.  The pass is wrong about those. *)
Power(n) == LET p[i \in 0 .. n] == IF i = 0 THEN 1 ELSE 2 * p[i - 1] IN p[n]

SignedRange(w) == -Power(w - 1) .. Power(w - 1) - 1

Wrap(w, n) == ((n + Power(w - 1)) % (2 * Power(w - 1))) - Power(w - 1)

BaseOf(v) == IF Tracked(v) THEN offsetMap[v].ptr ELSE v

Points == Operations \X (0 .. Trip - 1) \X BOOLEAN

(* The point a value takes its meaning from, and what it makes of that. *)
From(v, k, c) ==
  IF Kind(v) = "for" /\ k > 0 THEN <<ops[YieldOf(v)].args[1], k - 1, c>>
  ELSE <<ops[v].args[IF Kind(v) \in Merges /\ ~c THEN 2 ELSE 1],
         IF Kind(v) = "yield" THEN Trip - 1 ELSE k, c>>

PointerTo(root, byte) ==
  [root |-> root, byte |-> byte, off |-> 0, width |-> DefaultBitWidth, clean |-> TRUE]

Added(i, p) ==
  LET w == MaxOf(p.width, ops[i].width) n == p.off + Offset IN
    [p EXCEPT !.byte = @ + Offset * ops[i].elem, !.width = w,
              !.off = IF Tracked(i) THEN Wrap(offsetMap[i].bitWidth, n) ELSE n,
              !.clean = @ /\ n \in SignedRange(w)]

Recast(i, p) == [p EXCEPT !.clean = @ /\ (p.off = 0 \/ ops[i].elem = ops[ops[i].args[1]].elem)]

Yielded(y, p) == [p EXCEPT !.clean = @ /\ BaseOf(ops[y].args[1]) = BaseOf(y)]

Made(v, k, p) ==
  CASE Kind(v) \in Merges -> PointerTo(p.root, p.byte)
    [] Kind(v) = "addptr" -> Added(v, p)
    [] Kind(v) = "bitcast" -> Recast(v, p)
    [] Kind(v) = "yield" -> Yielded(v, p)
    [] Kind(v) = "for" /\ k > 0 -> Yielded(YieldOf(v), p)
    [] OTHER -> p

Meaning ==
  LET m[p \in Points] ==
        IF Kind(p[1]) \in Roots THEN PointerTo(p[1], 0) ELSE Made(p[1], p[2], m[From(p[1], p[2], p[3])])
  IN m

(* The types after the pass, 0 for a pointer: an erased operation was      *)
(* replaced by its offset, in the operands it left behind too.             *)
TypeOf(v) ==
  IF v \in retyped \/ (Kind(v) \in Moves /\ v \in erased) THEN offsetMap[v].bitWidth ELSE 0

Rewritten(i) == Kind(i) \in {"block", "tptr"} /\ Tracked(ops[i].args[1])

Materialized(i) == i \in deferredRewrites /\ phase = "done"

(* What the verifier accepts; tle.dsl_region takes operands of any type.   *)
Verifies ==
  \A i \in Operations \ erased : LET types == {TypeOf(ops[i].args[k]) : k \in DOMAIN ops[i].args} IN
    IF Kind(i) \in {"for", "yield"} THEN types = {TypeOf(i)}
    ELSE types \subseteq {0} \/ Rewritten(i) \/ Materialized(i) \/ Kind(i) = "dsl_region"

(* Where a user of a pointer points, before and after the pass.  A block   *)
(* pointer has an offset of its own, one here, in units of its stride.     *)
BlockStride(i) == IF Kind(i) = "block" THEN Stride ELSE 1

AddressBefore(i, m) ==
  [root |-> m.root,
   byte |-> m.byte + (IF Kind(i) \in {"block", "tptr"} THEN BlockStride(i) * ops[i].elem ELSE 0)]

Untouched(i) == Kind(i) = "dsl_region" => TypeOf(ops[i].args[1]) = 0

(* A region that was handed an offset for its pointer knows no root. *)
AddressAfter(i, m, base) ==
  IF ~Untouched(i) THEN [root |-> 0, byte |-> m.off]
  ELSE [root |-> base.root,
        byte |-> base.byte + ops[i].elem *
          (CASE Kind(i) = "block" -> (Wrap(DefaultBitWidth, m.off) + 1) * Stride
             [] Kind(i) = "tptr" -> m.off + 1
             [] OTHER -> m.off)]

(* A tt.make_tensor_ptr multiplies the offset by its stride, and keeps its *)
(* low bits.                                                               *)
BlockExact(i, m) ==
  Kind(i) = "block" => m.off = 0 \/ (Stride = 1 /\ m.off \in SignedRange(DefaultBitWidth))

-----------------------------------------------------------------------------
TypeOK ==
  /\ phase \in {"kernel", "walk", "rewrite", "done", "failed", "undefined"}
  /\ Operations = 1 .. Len(ops) /\ \A i \in Operations : Kind(i) \in Values \cup Users
  /\ DOMAIN offsetMap \subseteq {i \in Operations : Kind(i) \in Values \ {"if"}}
  /\ \A v \in DOMAIN offsetMap :
       /\ Kind(offsetMap[v].ptr) \in Roots \cup {"select"} /\ Tracked(offsetMap[v].ptr)
       /\ offsetMap[v].bitWidth \in OffsetWidths \cup {DefaultBitWidth}
  /\ \A j \in DOMAIN workList : Tracked(workList[j])
  /\ uses # {} => Tracked(val)
  /\ \A j \in DOMAIN toDelete : Tracked(toDelete[j]) /\ Kind(toDelete[j]) \in Moves
  /\ deferredRewrites \cup erased \cup retyped \subseteq Operations

(* When the pass succeeds and its result verifies, every load, store, cast *)
(* to an integer, block pointer and region addresses what it did, in every *)
(* iteration and on both sides of every branch, whatever base and width    *)
(* its offset was gathered with: the exceptions are those of clean and     *)
(* BlockExact, and regions that were handed an offset for their pointer.   *)
AddressesExact ==
  phase = "done" /\ Verifies =>
    \A i \in Operations, k \in 0 .. Trip - 1, c \in BOOLEAN :
      LET v == ops[i].args[1] m == Meaning[<<v, k, c>>] IN
        Kind(i) \in Users /\ Tracked(v) /\ m.clean /\ BlockExact(i, m) /\ Untouched(i)
          => AddressAfter(i, m, Meaning[<<offsetMap[v].ptr, k, c>>]) = AddressBefore(i, m)

(* A select reached from both of its pointers is queued twice. *)
TwiceReached == \E i \in Operations : Kind(i) = "select" /\ \A k \in {1, 2} : Tracked(ops[i].args[k])

Distinct(seq) == \A j, k \in DOMAIN seq : seq[j] = seq[k] => j = k

(* Every operation is queued, rewritten and erased once: the walk follows  *)
(* a pointer out of a loop by the result of the scf.for alone, however the *)
(* pointer got there, and whatever is queued or has an offset was reached. *)
(* Selects are the exception to the first.                                 *)
HandledOnce ==
  /\ TypeOK
  /\ ~TwiceReached =>
    /\ Distinct(workList) /\ Distinct(ptrUsers) /\ Distinct(toDelete)
    /\ phase = "undefined" => \E i \in Operations : Kind(i) = "tptr_static"

(* What a pointer reaches other than through an scf.if: the least set that *)
(* is closed under the moves, the selects and the loops.                   *)
ClosedUnderUses(R) ==
  \A i \in Operations :
    /\ Kind(i) \in Roots => i \in R
    /\ Kind(i) \in Moves \cup {"for", "select"} /\ (\E k \in DOMAIN ops[i].args : ops[i].args[k] \in R)
         => i \in R
    /\ Kind(i) = "for" /\ i \in R => YieldOf(i) \in R

Reached == {v \in Operations : \A R \in SUBSET Operations : ClosedUnderUses(R) => v \in R}

(* "All pointer-producing ops will be eliminated": when the pass succeeds  *)
(* no tt.addptr, tt.splat or tt.bitcast is left of those that a pointer    *)
(* reaches other than through an scf.if.                                   *)
Eliminated ==
  phase = "done" => \A i \in Reached : Kind(i) \in Moves => i \in erased

(* A pass that gives up leaves a kernel that verifies, since runOnOperation*)
(* only warns and the pipeline goes on: the walk changes no operation it   *)
(* visits, but for the types of a loop.                                    *)
FailureKeepsKernel == phase = "failed" /\ retyped = {} => Verifies

-----------------------------------------------------------------------------
(* The inductive invariants.  KernelInv and WorkInv give TypeOK; with      *)
(* OnceInv they give HandledOnce, with ReachInv Eliminated, with ErasedInv *)
(* FailureKeepsKernel, and with OperandInv and MapInv AddressesExact       *)
(* (TritonToUnstructured_proofs).                                          *)

OperationType ==
  [op : Values \cup Users, args : Seq(Nat), elem : Nat, tensor : BOOLEAN, inIf : BOOLEAN,
   width : OffsetWidths \cup {DefaultBitWidth}]

Arity(i) == IF Kind(i) \in Roots THEN {} ELSE IF Kind(i) \in Merges THEN {1, 2} ELSE {1}

(* Between two loops there is the yield of the first, and the last of them *)
(* is the one that may be open.                                            *)
KernelInv ==
  /\ ops \in Seq(OperationType)
  /\ \A i \in Operations : DOMAIN ops[i].args = Arity(i)
  /\ \A f, g \in Operations :
       Kind(f) = "for" /\ Kind(g) = "for" /\ f < g => \E y \in f .. g - 1 : Kind(y) = "yield"
  /\ \A f \in Operations : Kind(f) = "for" => f \in OpenLoop \/ \E y \in Operations : Closes(y, f)
  /\ phase # "kernel" => OpenLoop = {}

Elements(s) == {s[j] : j \in DOMAIN s}

WorkInv ==
  /\ phase \in {"kernel", "walk", "rewrite", "done", "failed", "undefined"}
  /\ workList \in Seq(Operations) /\ ptrUsers \in Seq(Operations) /\ toDelete \in Seq(Operations)
  /\ uses \subseteq UsesOf(val)
  /\ DOMAIN offsetMap \subseteq {i \in Operations : Kind(i) \in Values \ {"if"}}
  /\ \A v \in DOMAIN offsetMap :
       /\ Tracked(offsetMap[v].ptr) /\ Kind(offsetMap[v].ptr) \in Roots \cup {"select"}
       /\ offsetMap[v].bitWidth \in OffsetWidths \cup {DefaultBitWidth}
  /\ \A v \in Elements(workList) : Tracked(v)
  /\ uses # {} => Tracked(val)
  /\ \A v \in Elements(toDelete) : Tracked(v) /\ Kind(v) \in Moves
  /\ \A i \in Elements(ptrUsers) : Kind(i) \in Users
  /\ deferredRewrites \cup erased \cup retyped \subseteq Operations
  /\ phase = "kernel" =>
       /\ offsetMap = <<>> /\ workList = <<>> /\ ptrUsers = <<>> /\ toDelete = <<>>
       /\ uses = {} /\ deferredRewrites = {} /\ retyped = {}

(* Use k of operation i is behind the walk. *)
Past(i, k) ==
  /\ Tracked(ops[i].args[k]) /\ ops[i].args[k] \notin Elements(workList)
  /\ <<i, k>> \notin uses

Handled(i) == Tracked(i) \/ i \in Elements(ptrUsers)

(* What was queued or noted was so by a use that is behind the walk, a     *)
(* loop's result by its scf.for: a use still to come finds its operation   *)
(* untouched.                                                              *)
OnceInv ==
  /\ Distinct(workList) /\ Distinct(ptrUsers) /\ Distinct(toDelete)
  /\ uses # {} => val \notin Elements(workList)
  /\ \A i \in Operations :
       /\ Handled(i) /\ Kind(i) \notin Roots \cup {"yield"} => \E k \in DOMAIN ops[i].args : Past(i, k)
       /\ Tracked(i) /\ Kind(i) = "yield" =>
            \E f \in Operations : Kind(f) = "for" /\ Tracked(f) /\ YieldOf(f) = i
  /\ (Elements(ptrUsers) \cup Elements(toDelete)) \cap erased = {}
  /\ phase = "undefined" => \E i \in Operations : Kind(i) = "tptr_static"

(* What was reached is queued, or its uses are still to come, or they were *)
(* followed; and what moves a pointer is noted for the end.                *)
ReachInv ==
  phase \in {"walk", "rewrite", "done"} =>
    /\ \A i \in Operations :
         /\ Kind(i) \in Roots => Tracked(i)
         /\ Kind(i) \in Moves \cup {"for", "select"} => \A k \in DOMAIN ops[i].args :
              Tracked(ops[i].args[k]) =>
                Tracked(i) \/ ops[i].args[k] \in Elements(workList) \/ <<i, k>> \in uses
         /\ Kind(i) = "for" /\ Tracked(i) => Tracked(YieldOf(i))
         /\ Kind(i) \in Moves /\ Tracked(i) => i \in Elements(toDelete) \cup erased
    /\ phase # "walk" => workList = <<>> /\ uses = {}
    /\ phase = "done" => toDelete = <<>>

(* Nothing is erased during the walk, and no operation that moves a        *)
(* pointer before the users are rewritten.                                 *)
ErasedInv ==
  /\ phase \in {"kernel", "walk"} => erased = {}
  /\ phase = "failed" \/ (phase = "rewrite" /\ ptrUsers # <<>>)
       => \A i \in erased : Kind(i) \notin Moves

(* An operand is there before its use, in no loop that its use is not in.  *)
OperandInv ==
  \A i \in Operations :
    /\ \A a \in Elements(ops[i].args) :
         /\ a \in 1 .. i - 1 /\ Kind(a) \in Values
         /\ IF Kind(i) = "yield" THEN \A f \in LoopOf(a) : Closes(i, f) ELSE LoopOf(a) \subseteq LoopOf(i)
         /\ Kind(i) # "bitcast" => ops[i].elem = ops[a].elem
    /\ \A f \in Operations : Kind(f) = "for" /\ Closes(i, f) => ops[i].elem = ops[f].elem

(* The offset of a value is the one its kind makes of its operand's; its   *)
(* base is outside the loops that the value is outside of.                 *)
Followed(v) == LET a == ops[v].args[1] IN
  /\ LoopOf(offsetMap[v].ptr) \subseteq LoopOf(v)
  /\ Kind(v) \in Roots \cup {"select"} => offsetMap[v] = PtrOffset(v, DefaultBitWidth)
  /\ Kind(v) \in Moves => Tracked(a) /\ offsetMap[v] =
       PtrOffset(offsetMap[a].ptr, IF Kind(v) = "addptr" THEN MaxOf(offsetMap[a].bitWidth, ops[v].width)
                                   ELSE offsetMap[a].bitWidth)
  /\ Kind(v) = "for" => /\ Tracked(a) /\ offsetMap[v] = offsetMap[a]
                        /\ Tracked(YieldOf(v)) /\ {v, YieldOf(v)} \subseteq retyped
  /\ Kind(v) = "yield" => \E f \in DOMAIN offsetMap :
       Kind(f) = "for" /\ YieldOf(f) = v /\ offsetMap[v] = offsetMap[f]

MapInv ==
  /\ \A v \in DOMAIN offsetMap : Followed(v)
  /\ retyped \subseteq DOMAIN offsetMap
  /\ \A i \in erased : Kind(i) = "load" \/ (Kind(i) \in Moves /\ Tracked(i))

=============================================================================
