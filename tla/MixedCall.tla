----------------------------- MODULE MixedCall -----------------------------
(***************************************************************************)
(* Kernels in mixed mode: a @triton.jit host that calls LLVM-direct        *)
(* siblings.  smt_rvisa.call() (language/smt_rvisa/call_registry.py) runs  *)
(* while the host's body is visited and leaves what the later stages need  *)
(* in a process-global dictionary; make_ttir (backend/compiler.py) takes   *)
(* it; inject_mixed_llvm_llmlir (mixed_bridge.py) grafts the siblings and  *)
(* the calls into the lowered host.  A compile may raise at any point, and *)
(* nothing clears the dictionary then.  Triton's visitor, its passes and   *)
(* spine-opt are external.  The Bug_... definitions are defective          *)
(* variants, as in RpcClient.                                              *)
(***************************************************************************)
EXTENDS Naturals, Sequences, SequencesExt, FiniteSets

CONSTANTS
  Kernels,
  IsPtr,         \* IsPtr[k]: the host's launch parameters, TRUE for a pointer
  LoopIsPtr,     \* LoopIsPtr[k]: the arguments of its loop's block
  Body,          \* Body[k]: its statements
  Siblings,
  Params,        \* Params[s]: the sibling's parameters, "ptr" or "scalar"
  MaxCompiles    \* bound on the compiles of the process

(* A statement is a call of a sibling in the host's entry block or in a    *)
(* loop, with launch parameters, loop arguments or computed values; any    *)
(* other operation; or one that does not compile.                          *)
Inputs == [of : {"host", "loop"}, index : Nat] \cup {[of |-> "computed", index |-> 0]}

Statements ==
  [op : {"call"}, sibling : Siblings, block : {"entry", "loop"}, inputs : Seq(Inputs)]
    \cup [op : {"other", "invalid"}]

ASSUME KernelAssumption ==
  /\ \A k \in Kernels : /\ IsPtr[k] \in Seq(BOOLEAN) /\ LoopIsPtr[k] \in Seq(BOOLEAN)
                         /\ Body[k] \in Seq(Statements)
  /\ \A s \in Siblings : Params[s] \in Seq({"ptr", "scalar"})

VARIABLES
  llvm_funcs, llvm_calls, host_arg_kinds,   \* _PENDING_LLVM_DIRECT_MODULE
  pc, kernel, next,                         \* the compile, and its next statement
  host,                                     \* the operations emitted so far
  metadata,                                 \* what make_ttir took
  outcome, binary,
  compiles,
  own,          \* siblings this compile has recorded
  dirty,        \* a visit raised after the last make_ttir
  exposed,      \* the compile began in a dirty process
  raised,       \* compiles that raised while the host was visited
  poisoned      \* compiles that took what another had left

pending == <<llvm_funcs, llvm_calls, host_arg_kinds>>
history == <<compiles, own, raised, poisoned>>
vars == <<pending, pc, kernel, next, host, metadata, outcome, binary, dirty, exposed,
          history>>

NotMixed == [funcs |-> <<>>, calls |-> <<>>, kinds |-> <<>>]

Init ==
  /\ llvm_funcs = <<>> /\ llvm_calls = <<>> /\ host_arg_kinds = <<>>
  /\ pc = "idle" /\ kernel \in Kernels /\ next = 1 /\ host = <<>>
  /\ metadata = NotMixed /\ outcome = "none" /\ binary = <<>>
  /\ compiles = 0 /\ own = 0 /\ dirty = FALSE /\ exposed = FALSE /\ raised = 0 /\ poisoned = 0

-----------------------------------------------------------------------------
(* make_ir: the visit of the host's body *)

Compile(k) ==
  /\ pc = "idle" /\ compiles < MaxCompiles
  /\ pc' = "visit" /\ kernel' = k /\ next' = 1 /\ host' = <<>>
  /\ metadata' = NotMixed /\ outcome' = "none" /\ binary' = <<>>
  /\ compiles' = compiles + 1
  /\ exposed' = dirty /\ own' = 0
  /\ UNCHANGED <<pending, dirty, raised, poisoned>>

Visiting(op) == pc = "visit" /\ next <= Len(Body[kernel]) /\ Body[kernel][next].op = op

Emit(op) == host' = Append(host, op) /\ next' = next + 1

Fail ==
  /\ pc' = "idle" /\ outcome' = "raised"
  /\ UNCHANGED <<kernel, next, host, metadata, binary, exposed, compiles, poisoned>>

(* What was recorded stays. *)
VisitFails == Fail /\ dirty' = TRUE /\ raised' = raised + 1

VisitOther ==
  /\ Visiting("other")
  /\ Emit([op |-> "other", index |-> next])
  /\ UNCHANGED <<pending, pc, kernel, metadata, outcome, binary, dirty, exposed, history>>

VisitInvalid == Visiting("invalid") /\ VisitFails /\ UNCHANGED <<pending, own>>

Statement == Body[kernel][next]

ArityOK == Len(Statement.inputs) = Len(Params[Statement.sibling])

(* The block the builder stands in: the loop's inside a loop. *)
BlockKinds == IF Statement.block = "entry" THEN IsPtr[kernel] ELSE LoopIsPtr[kernel]

(* argid_to_pos: only an argument of that block has a position. *)
BlockArg(input) ==
  /\ input.of = IF Statement.block = "entry" THEN "host" ELSE "loop"
  /\ input.index < Len(BlockKinds)

CallArity ==
  /\ Visiting("call") /\ ~ArityOK
  /\ VisitFails
  /\ UNCHANGED <<pending, own>>

RecordSibling ==
  /\ llvm_funcs' = Append(llvm_funcs, Statement.sibling)
  /\ host_arg_kinds' = BlockKinds
  /\ own' = own + 1

(* An input that has no position is found after the sibling was recorded. *)
CallInput ==
  /\ Visiting("call") /\ ArityOK
  /\ \E i \in DOMAIN Statement.inputs : ~BlockArg(Statement.inputs[i])
  /\ RecordSibling
  /\ VisitFails
  /\ UNCHANGED llvm_calls

Call ==
  /\ Visiting("call") /\ ArityOK
  /\ \A i \in DOMAIN Statement.inputs : BlockArg(Statement.inputs[i])
  /\ RecordSibling
  /\ llvm_calls' = Append(llvm_calls,
       [callee |-> Statement.sibling,
        arg_bridge |-> [i \in DOMAIN Statement.inputs |->
          [pos |-> Statement.inputs[i].index, kind |-> Params[Statement.sibling][i]]]])
  /\ Emit([op |-> "anchor", index |-> Len(llvm_calls)])
  /\ UNCHANGED <<pc, kernel, metadata, outcome, binary, dirty, exposed, compiles, raised, poisoned>>

-----------------------------------------------------------------------------
(* make_ttir *)

AtTtir == pc = "visit" /\ next > Len(Body[kernel])

(* Triton's passes run before anything is taken. *)
PassesFail == AtTtir /\ VisitFails /\ UNCHANGED <<pending, own>>

(* What is taken is read and left for the next compile. *)
Bug_TakePending == UNCHANGED pending

TakePending == llvm_funcs' = <<>> /\ llvm_calls' = <<>> /\ host_arg_kinds' = <<>>

MakeTtir ==
  /\ AtTtir
  /\ TakePending
  /\ metadata' = IF llvm_funcs # <<>> /\ llvm_calls # <<>>
                   THEN [funcs |-> llvm_funcs, calls |-> llvm_calls, kinds |-> host_arg_kinds]
                   ELSE NotMixed
  /\ poisoned' = IF Len(llvm_funcs) > own THEN poisoned + 1 ELSE poisoned
  /\ dirty' = FALSE
  /\ pc' = "lower"
  /\ UNCHANGED <<kernel, next, host, outcome, binary, exposed, compiles, own, raised>>

-----------------------------------------------------------------------------
(* The lowered host, and what is grafted into it *)

(* spine-opt adds a context and splits a memref in its rank and descriptor. *)
EntryArgs ==
  <<[is |-> "ctx", of |-> 0]>> \o
  FlattenSeq([i \in DOMAIN IsPtr[kernel] |->
    IF IsPtr[kernel][i] THEN <<[is |-> "rank", of |-> i - 1], [is |-> "desc", of |-> i - 1]>>
                        ELSE <<[is |-> "value", of |-> i - 1]>>])

Ctx == 1

(* _ttir_pos_to_ll_argidx, shifted by _CTX; positions start at 0. *)
LLStart(kinds, pos) == Ctx + pos + Cardinality({i \in 1 .. pos : kinds[i]})

LLIndex(kinds, arg) == LLStart(kinds, arg.pos) + (IF arg.kind = "ptr" THEN 1 ELSE 0)

(* ll_start[pos], entry_args[...], and then the verifier: a load needs a   *)
(* pointer, sext a value narrower than i64.                                *)
Bridgeable(kinds, arg) ==
  /\ arg.pos < Len(kinds)
  /\ LLIndex(kinds, arg) < Len(EntryArgs)
  /\ EntryArgs[LLIndex(kinds, arg) + 1].is = IF arg.kind = "ptr" THEN "desc" ELSE "value"

Bridge(kinds, spec) ==
  [op |-> "bridge", callee |-> spec.callee,
   operands |-> [i \in DOMAIN spec.arg_bridge |->
                   EntryArgs[LLIndex(kinds, spec.arg_bridge[i]) + 1].of]]

Anchored(n) == \E i \in DOMAIN host : host[i] = [op |-> "anchor", index |-> n]

(* The calls a bridge is built for: those with an anchor; all if none has. *)
Bridged ==
  LET with == {n \in 1 .. Len(metadata.calls) : Anchored(n - 1)}
  IN  IF with = {} THEN DOMAIN metadata.calls ELSE with

Injectable ==
  /\ \A n \in Bridged : \A i \in DOMAIN metadata.calls[n].arg_bridge :
       Bridgeable(metadata.kinds, metadata.calls[n].arg_bridge[i])
  /\ \A i, j \in DOMAIN metadata.funcs : metadata.funcs[i] = metadata.funcs[j] => i = j

(* Every bridge goes before the return, whatever anchors there are. *)
Bug_Injected ==
  SelectSeq(host, LAMBDA o : o.op # "anchor")
    \o [n \in DOMAIN metadata.calls |-> Bridge(metadata.kinds, metadata.calls[n])]

(* An anchor is replaced where it stands; without any, the bridges go      *)
(* before the return.                                                      *)
Injected ==
  IF \E n \in DOMAIN metadata.calls : Anchored(n - 1)
    THEN [i \in DOMAIN host |->
            IF host[i].op = "anchor"
              THEN Bridge(metadata.kinds, metadata.calls[host[i].index + 1])
              ELSE host[i]]
    ELSE host \o [n \in DOMAIN metadata.calls |-> Bridge(metadata.kinds, metadata.calls[n])]

Mixed == metadata # NotMixed

Lower ==
  /\ pc = "lower" /\ (Mixed => Injectable)
  /\ pc' = "idle" /\ outcome' = "ok"
  /\ binary' = IF Mixed THEN Injected ELSE host
  /\ UNCHANGED <<pending, kernel, next, host, metadata, dirty, exposed, history>>

(* The bridge is refused, or a later stage fails. *)
LowerFails == pc = "lower" /\ Fail /\ UNCHANGED <<pending, dirty, own, raised>>

Next ==
  \/ \E k \in Kernels : Compile(k)
  \/ VisitOther \/ VisitInvalid \/ CallArity \/ CallInput \/ Call
  \/ PassesFail \/ MakeTtir \/ Lower \/ LowerFails

Spec == Init /\ [][Next]_vars

-----------------------------------------------------------------------------
Calls(k) == {i \in DOMAIN Body[k] : Body[k][i].op = "call"}

(* The variables hold values of their kind; what is pending is recorded    *)
(* for siblings, with bridges of their parameters.                         *)
TypeOK ==
  /\ llvm_funcs \in Seq(Siblings) /\ host_arg_kinds \in Seq(BOOLEAN)
  /\ \A i \in DOMAIN llvm_calls :
       /\ llvm_calls[i].callee \in Siblings
       /\ [j \in DOMAIN llvm_calls[i].arg_bridge |-> llvm_calls[i].arg_bridge[j].kind]
            = Params[llvm_calls[i].callee]
  /\ pc \in {"idle", "visit", "lower"} /\ kernel \in Kernels
  /\ next \in 1 .. Len(Body[kernel]) + 1 /\ Len(host) = next - 1
  /\ outcome \in {"none", "ok", "raised"}
  /\ dirty \in BOOLEAN /\ exposed \in BOOLEAN

(* The inputs a host may pass: "the host's own launch parameters".  A call  *)
(* in a loop is refused when it passes one; one that passes nothing is not, *)
(* and leaves the kinds of the loop's arguments for those of the host.      *)
LaunchInputsOnly(k) ==
  \A i \in Calls(k) :
    /\ \A j \in DOMAIN Body[k][i].inputs : Body[k][i].inputs[j].of = "host"
    /\ Body[k][i].inputs = <<>> => Body[k][i].block = "entry"

Written(k) ==
  [i \in DOMAIN Body[k] |->
    IF i \in Calls(k)
      THEN [op |-> "bridge", callee |-> Body[k][i].sibling,
            operands |-> [j \in DOMAIN Body[k][i].inputs |-> Body[k][i].inputs[j].index]]
      ELSE [op |-> "other", index |-> i]]

(* A kernel that compiles, in a process no failed compile left dirty, runs *)
(* its statements in the order they are written, each call on the sibling  *)
(* and the launch parameters it names ("so the bridge lands in source      *)
(* order", call_registry.py:180), with the siblings it calls and no other. *)
(* While it is visited the host has an anchor or a statement for each      *)
(* statement behind, and each bridge the kinds its callee takes.           *)
CompiledAsWritten ==
  /\ TypeOK
  /\ outcome = "ok" /\ ~exposed /\ LaunchInputsOnly(kernel) =>
    /\ binary = Written(kernel)
    /\ {metadata.funcs[i] : i \in DOMAIN metadata.funcs}
         = {Body[kernel][i].sibling : i \in Calls(kernel)}

(* A compile that raises while the host is visited spoils at most one      *)
(* compile after it: make_ttir takes everything that is pending, its own   *)
(* and what was left.                                                      *)
PoisonedOncePerRaise == poisoned <= raised

(* What makes PoisonedOncePerRaise inductive: more is pending than the      *)
(* compile under way recorded only if a visit raised since the last        *)
(* make_ttir, and that raise has not yet been paid for.                    *)
LeftByARaise ==
  /\ pc = "visit" => Len(llvm_funcs) >= own
  /\ ~dirty => llvm_funcs = <<>> \/ (pc = "visit" /\ Len(llvm_funcs) = own)
  /\ poisoned + (IF dirty THEN 1 ELSE 0) <= raised
=============================================================================
