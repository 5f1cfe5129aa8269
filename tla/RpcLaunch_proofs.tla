-------------------------- MODULE RpcLaunch_proofs --------------------------
(***************************************************************************)
(* What TLAPS proves about RpcLaunch, for all launchers, argument lists    *)
(* and numbers of launches, faults and restarts.                           *)
(***************************************************************************)
EXTENDS RpcLaunch, FiniteSetTheorems, SequenceTheorems, TLAPS

-----------------------------------------------------------------------------
(* The buffers a call writes to or frees. *)
Mentioned(op) ==
  IF op.type \in {"write", "free"} THEN {op.addr}
  ELSE IF op.type = "exec" THEN {op.ptrs[i][1] : i \in DOMAIN op.ptrs} \ {None}
  ELSE {}

OpTypes == {"load", "alloc", "write", "exec", "read", "free"}

(* A live buffer holds a storage. *)
GoodMemory(m) == DOMAIN m = Addrs /\ \A a \in Addrs : m[a] # Free => DOMAIN m[a] = Cells

HostInv == DOMAIN host = Storages /\ \A s \in Storages : DOMAIN host[s] = Cells

(* The calls given up are about different buffers, that stay allocated and *)
(* so are given to no other launch: one call of a launch is given up.      *)
LateInv ==
  /\ \A op \in late :
       /\ op.type \in OpTypes
       /\ op.type = "write" => DOMAIN op.data = Cells
       /\ Mentioned(op) \subseteq Allocated
       /\ Mentioned(op) \cap Owned = {}
  /\ \A op1, op2 \in late : op1 # op2 => Mentioned(op1) \cap Mentioned(op2) = {}

LocalTypes ==
  /\ pc \in {"idle", "load", "args", "alloc", "write", "exec", "read", "free"}
  /\ pc \notin {"idle", "load"} => args \in ArgLists
  /\ arg_idx \in Nat \ {0}
  /\ storage_remote \in [Storages -> Addrs \cup {None}]
  /\ rpc_args \in Seq((Addrs \cup {None}) \X Cells)
  /\ remote_addrs \in Seq([addr : Addrs, storage : Storages])

Buffers == {remote_addrs[i].addr : i \in DOMAIN remote_addrs}

(* What a launch refers to are its own buffers, each once in remote_addrs. *)
LocalInv ==
  /\ pc \in {"idle", "load"} =>
       storage_remote = [s \in Storages |-> None] /\ rpc_args = <<>> /\ remote_addrs = <<>>
  /\ \A i \in DOMAIN rpc_args : rpc_args[i][1] \in Owned \cup {None}
  /\ Buffers \subseteq Owned
  /\ \A i, j \in DOMAIN remote_addrs : i # j => remote_addrs[i].addr # remote_addrs[j].addr
  /\ pc \in {"alloc", "write"} => arg_idx <= Len(PtrArgs(args))
  /\ pc = "alloc" => storage_remote[Arg.storage] = None
  /\ pc = "write" => storage_remote[Arg.storage] \in Addrs \ Buffers
  /\ pc \in {"read", "free"} => remote_addrs # <<>>

(* They are allocated until they are freed, if the server still lives. *)
LiveInv ==
  ~stale => /\ pc \in {"args", "alloc", "write", "exec"} => Owned \subseteq Allocated
            /\ Buffers \subseteq Allocated

IInv == GoodMemory(memory) /\ HostInv /\ LateInv /\ LocalTypes /\ LocalInv /\ LiveInv

-----------------------------------------------------------------------------
(* What the server does *)

LEMMA Full == ASSUME NEW f, DOMAIN f = Cells PROVE f # Free
<1>1. DOMAIN Free = {}
  BY DEF Free
<1> QED BY <1>1, LaunchAssumption

(* A kernel keeps every buffer, and what is not allocated. *)
LEMMA RunKeeps ==
  ASSUME NEW m, GoodMemory(m), NEW ptrs, NEW amount
  PROVE  /\ GoodMemory(Run(m, ptrs, amount))
         /\ \A a \in Addrs : m[a] # Free <=> Run(m, ptrs, amount)[a] # Free
<1> DEFINE r == Run(m, ptrs, amount)
<1>1. DOMAIN r = Addrs /\ \A a \in Addrs : DOMAIN r[a] = DOMAIN m[a]
  BY DEF Run, GoodMemory
<1>2. \A a \in Addrs : m[a] # Free => DOMAIN r[a] = Cells /\ r[a] # Free
  BY <1>1, Full DEF GoodMemory
<1>3. ASSUME NEW a \in Addrs, m[a] = Free PROVE r[a] = Free
  <2>1. r[a] = [c \in DOMAIN m[a] |->
                  m[a][c] + amount * Cardinality({i \in DOMAIN ptrs : ptrs[i] = <<a, c>>})]
    BY DEF Run, GoodMemory
  <2>2. DOMAIN m[a] = {}
    BY <1>3 DEF Free
  <2> QED BY <2>1, <2>2 DEF Free
<1> QED BY <1>1, <1>2, <1>3 DEF GoodMemory

LEMMA OfLoad ==
  ASSUME NEW op, op.type = "load", NEW e \in Effects(op)
  PROVE  e = Served(memory, Append(kernels, op.binary), TRUE, Len(kernels) + 1)
<1>1. Effects(op) = {Served(memory, Append(kernels, op.binary), TRUE, Len(kernels) + 1)}
  BY Zenon DEF Effects
<1> QED BY <1>1

LEMMA OfAlloc ==
  ASSUME NEW op, op.type = "alloc", NEW e \in Effects(op)
  PROVE  \/ e = Refused
         \/ \E a \in Addrs \ Allocated :
              e = Served([memory EXCEPT ![a] = [c \in Cells |-> -1]], kernels, TRUE, a)
<1>1. Effects(op) = IF Allocated = Addrs THEN {Refused}
                    ELSE {Served([memory EXCEPT ![a] = [c \in Cells |-> -1]], kernels, TRUE, a)
                          : a \in Addrs \ Allocated}
  BY Zenon DEF Effects
<1>2. CASE Allocated = Addrs
  BY <1>1, <1>2
<1>3. CASE Allocated # Addrs
  <2>1. e \in {Served([memory EXCEPT ![a] = [c \in Cells |-> -1]], kernels, TRUE, a) : a \in Addrs \ Allocated}
    BY <1>1, <1>3
  <2> QED BY <2>1, Zenon
<1> QED BY <1>2, <1>3

LEMMA OfWrite ==
  ASSUME NEW op, op.type = "write", NEW e \in Effects(op)
  PROVE  \/ e = Refused
         \/ /\ op.addr \in Allocated
            /\ e = Served([memory EXCEPT ![op.addr] = op.data], kernels, TRUE, None)
<1>1. Effects(op) = {IF op.addr \in Allocated
                       THEN Served([memory EXCEPT ![op.addr] = op.data], kernels, TRUE, None) ELSE Refused}
  BY Zenon DEF Effects
<1> QED BY <1>1, Zenon

LEMMA OfExec ==
  ASSUME NEW op, op.type = "exec", NEW e \in Effects(op)
  PROVE  \/ e = Refused
         \/ /\ op.handle \in DOMAIN kernels /\ \A i \in DOMAIN op.ptrs : op.ptrs[i][1] \in Allocated
            /\ e = Served(Run(memory, op.ptrs, kernels[op.handle]), kernels, TRUE, None)
<1>1. Effects(op) = {IF op.handle \in DOMAIN kernels /\ \A i \in DOMAIN op.ptrs : op.ptrs[i][1] \in Allocated
                       THEN Served(Run(memory, op.ptrs, kernels[op.handle]), kernels, TRUE, None) ELSE Refused}
  BY Zenon DEF Effects
<1> QED BY <1>1, Zenon

LEMMA OfRead ==
  ASSUME NEW op, op.type = "read", NEW e \in Effects(op)
  PROVE  \/ e = Refused
         \/ op.addr \in Allocated /\ e = Served(memory, kernels, TRUE, memory[op.addr])
<1>1. Effects(op) =
        {IF op.addr \in Allocated THEN Served(memory, kernels, TRUE, memory[op.addr]) ELSE Refused}
  BY Zenon DEF Effects
<1> QED BY <1>1, Zenon

LEMMA OfFree ==
  ASSUME NEW op, op.type = "free", NEW e \in Effects(op)
  PROVE  e = Served([memory EXCEPT ![op.addr] = Free], kernels, TRUE, None)
<1>1. Effects(op) = {Served([memory EXCEPT ![op.addr] = Free], kernels, TRUE, None)}
  BY Zenon DEF Effects
<1> QED BY <1>1

(* A call keeps every buffer but the one it frees, gives out a buffer that *)
(* was not allocated, and reads a storage.                                 *)
LEMMA EffectsKeep ==
  ASSUME GoodMemory(memory), NEW op, op.type \in OpTypes, op.type = "write" => DOMAIN op.data = Cells,
         NEW e \in Effects(op)
  PROVE  /\ GoodMemory(e.memory)
         /\ \A a \in Allocated : e.memory[a] # Free \/ (op.type = "free" /\ a = op.addr)
         /\ op.type = "alloc" /\ e.ok => e.value \in Addrs \ Allocated /\ e.memory[e.value] # Free
         /\ op.type = "read" /\ e.ok => DOMAIN e.value = Cells
<1>1. GoodMemory(memory)
  OBVIOUS
<1>2. CASE op.type = "load"
  BY <1>1, <1>2, OfLoad DEF Served, Allocated
<1>3. CASE op.type = "alloc"
  <2>1. CASE e = Refused
    BY <1>1, <1>3, <2>1 DEF Served, Refused, Allocated
  <2>2. ASSUME NEW a \in Addrs \ Allocated,
               e = Served([memory EXCEPT ![a] = [c \in Cells |-> -1]], kernels, TRUE, a)
        PROVE  /\ GoodMemory(e.memory) /\ \A b \in Allocated : e.memory[b] # Free
               /\ e.value \in Addrs \ Allocated /\ e.memory[e.value] # Free
    <3>1. DOMAIN [c \in Cells |-> -1] = Cells /\ [c \in Cells |-> -1] # Free
      BY Full
    <3> QED BY <1>1, <2>2, <3>1 DEF Served, GoodMemory, Allocated
  <2> QED BY <1>3, <2>1, <2>2, OfAlloc
<1>4. CASE op.type = "write"
  <2>1. op.data # Free
    BY <1>4, Full
  <2> QED BY <1>1, <1>4, <2>1, OfWrite DEF Served, Refused, GoodMemory, Allocated
<1>5. CASE op.type = "exec"
  <2>1. \/ e = Refused
        \/ e = Served(Run(memory, op.ptrs, kernels[op.handle]), kernels, TRUE, None)
    BY <1>5, OfExec, Zenon
  <2> QED BY <1>1, <1>5, <2>1, RunKeeps DEF Served, Refused, Allocated
<1>6. CASE op.type = "read"
  BY <1>1, <1>6, OfRead DEF Served, Refused, GoodMemory, Allocated
<1>7. CASE op.type = "free"
  <2>1. DOMAIN Free = {}
    BY DEF Free
  <2> QED BY <1>1, <1>7, <2>1, OfFree DEF Served, GoodMemory, Allocated
<1> QED BY <1>2, <1>3, <1>4, <1>5, <1>6, <1>7 DEF OpTypes

(* Its effect on the server. *)
LEMMA Adopted ==
  ASSUME GoodMemory(memory), NEW op, op.type \in OpTypes, op.type = "write" => DOMAIN op.data = Cells,
         NEW e \in Effects(op), Adopt(e)
  PROVE  /\ GoodMemory(memory')
         /\ \A a \in Allocated : a \in Allocated' \/ (op.type = "free" /\ a = op.addr)
<1>1. memory' = e.memory
  BY DEF Adopt
<1> QED BY <1>1, EffectsKeep DEF Allocated

-----------------------------------------------------------------------------
(* What the launch asks for *)

LEMMA ArgType ==
  ASSUME LocalTypes, pc \notin {"idle", "load"}, arg_idx <= Len(PtrArgs(args))
  PROVE  Arg.storage \in Storages /\ Arg.cell \in Cells
<1> DEFINE A == [kind : {"tensor", "raw"}, storage : Storages, cell : Cells]
<1>1. PtrArgs(args) \in Seq(A)
  BY LaunchAssumption DEF LocalTypes
<1>2. arg_idx \in 1 .. Len(PtrArgs(args))
  BY <1>1, LenProperties DEF LocalTypes
<1>3. PtrArgs(args)[arg_idx] \in A
  BY <1>1, <1>2, ElementOfSeq
<1> QED BY <1>3 DEF Arg

LEMMA HeadBuffer ==
  ASSUME LocalTypes, remote_addrs # <<>>
  PROVE  /\ Head(remote_addrs) \in [addr : Addrs, storage : Storages]
         /\ Head(remote_addrs).addr \in Buffers
         /\ Head(remote_addrs) = remote_addrs[1] /\ 1 \in DOMAIN remote_addrs
<1> DEFINE R == [addr : Addrs, storage : Storages]
<1>1. remote_addrs \in Seq(R)
  BY DEF LocalTypes
<1>2. Head(remote_addrs) \in R /\ Tail(remote_addrs) \in Seq(R)
  BY <1>1, HeadTailProperties
<1>3. Len(remote_addrs) \in Nat /\ Len(remote_addrs) # 0 /\ DOMAIN remote_addrs = 1 .. Len(remote_addrs)
  BY <1>1, LenProperties, EmptySeq
<1>4. 1 \in DOMAIN remote_addrs
  BY <1>3
<1>5. Head(remote_addrs) = remote_addrs[1]
  BY <1>1
<1> QED BY <1>2, <1>4, <1>5 DEF Buffers

LEMMA OpOf ==
  /\ pc = "load" => Op.type = "load"
  /\ pc = "alloc" => Op.type = "alloc"
  /\ pc = "write" => Op.type = "write" /\ Op.addr = storage_remote[Arg.storage] /\ Op.data = host[Arg.storage]
  /\ pc = "exec" => Op.type = "exec" /\ Op.ptrs = rpc_args
  /\ pc = "read" => Op.type = "read"
  /\ pc = "free" => Op.type = "free" /\ Op.addr = Head(remote_addrs).addr
<1>1. pc = "load" => Op = [type |-> "load", binary |-> Binary[launcher]]
  BY Zenon DEF Op
<1>2. pc = "alloc" => Op = [type |-> "alloc"]
  BY Zenon DEF Op
<1>3. pc = "write" => Op = [type |-> "write", addr |-> storage_remote[Arg.storage], data |-> host[Arg.storage]]
  BY Zenon DEF Op
<1>4. pc = "exec" =>
        Op = [type |-> "exec", handle |-> kernel_handle[launcher].handle, ptrs |-> rpc_args]
  BY Zenon DEF Op
<1>5. pc = "read" => Op = [type |-> "read", addr |-> Head(remote_addrs).addr]
  BY Zenon DEF Op
<1>6. pc = "free" => Op = [type |-> "free", addr |-> Head(remote_addrs).addr]
  BY Zenon DEF Op
<1> QED BY <1>1, <1>2, <1>3, <1>4, <1>5, <1>6

(* A call of the launch writes to and frees buffers of its own. *)
LEMMA OpInv ==
  ASSUME IInv, Calling
  PROVE  /\ Op.type \in OpTypes
         /\ Op.type = "write" => DOMAIN Op.data = Cells
         /\ Mentioned(Op) \subseteq Owned
         /\ ~stale => Mentioned(Op) \subseteq Allocated
<1>1. LocalTypes /\ LocalInv /\ LiveInv /\ HostInv
  BY DEF IInv
<1>2. CASE pc \in {"load", "alloc", "read"}
  BY <1>2, OpOf DEF OpTypes, Mentioned
<1>3. CASE pc = "write"
  <2>1. Arg.storage \in Storages /\ storage_remote[Arg.storage] \in Addrs
    BY <1>1, <1>3, ArgType DEF LocalInv
  <2>2. storage_remote[Arg.storage] \in Owned
    BY <2>1, LaunchAssumption DEF Owned, None
  <2>3. Op.type = "write" /\ Op.addr = storage_remote[Arg.storage] /\ Op.data = host[Arg.storage]
    BY <1>3, OpOf
  <2> QED BY <1>1, <1>3, <2>1, <2>2, <2>3 DEF OpTypes, Mentioned, HostInv, LiveInv
<1>4. CASE pc = "exec"
  <2>1. Op.type = "exec" /\ Op.ptrs = rpc_args
    BY <1>4, OpOf
  <2>2. Mentioned(Op) \subseteq Owned
    BY <2>1, <1>1 DEF Mentioned, LocalInv
  <2> QED BY <1>1, <1>4, <2>1, <2>2 DEF OpTypes, LiveInv
<1>5. CASE pc = "free"
  <2>1. Op.type = "free" /\ Op.addr = Head(remote_addrs).addr
    BY <1>5, OpOf
  <2>2. Head(remote_addrs).addr \in Buffers
    BY <1>1, <1>5, HeadBuffer DEF LocalInv
  <2> QED BY <1>1, <2>1, <2>2 DEF OpTypes, Mentioned, LocalInv, LiveInv
<1> QED BY <1>2, <1>3, <1>4, <1>5 DEF Calling

(* Calls given up stay away from what the launch takes and frees. *)
LEMMA LateKept ==
  ASSUME LateInv, late' \subseteq late,
         \A a \in Allocated : a \in Allocated' \/ a \in Owned,
         \A a \in Owned' : a \in Owned \/ a \notin Allocated
  PROVE  LateInv'
<1>1. \A op \in late : Mentioned(op) \subseteq Allocated' /\ Mentioned(op) \cap Owned' = {}
  BY DEF LateInv
<1> QED BY <1>1 DEF LateInv

LEMMA NoLocals ==
  ASSUME storage_remote = [s \in Storages |-> None]
  PROVE  Owned = {}
  BY DEF Owned

(* When __call__ raises its buffers are forgotten, and one call may be     *)
(* given up.                                                               *)
LEMMA Aborted ==
  ASSUME IInv, Calling, Abort, GoodMemory(memory'),
         \/ late' \subseteq late /\ \A a \in Allocated : a \in Allocated' \/ a \in Owned
         \/ late' = late \cup {Op} /\ memory' = memory /\ ~stale
  PROVE  IInv'
<1>1. /\ pc' = "idle" /\ DropLocals /\ host' = host /\ args' = args
      /\ UNCHANGED kernel_handle
  BY DEF Abort, callVars, launcherVars
<1>2. /\ storage_remote' = [s \in Storages |-> None] /\ arg_idx' = 1
      /\ rpc_args' = <<>> /\ remote_addrs' = <<>>
  BY <1>1 DEF DropLocals
<1>3. Owned' = {}
  BY <1>2 DEF Owned
<1>4. LocalTypes'
  BY <1>1, <1>2, EmptySeq DEF LocalTypes
<1>5. DOMAIN <<>> = {}
  OBVIOUS
<1>6. LocalInv' /\ LiveInv'
  BY <1>1, <1>2, <1>5 DEF LocalInv, LiveInv, Buffers
<1>7. LateInv'
  <2>1. CASE late' \subseteq late /\ \A a \in Allocated : a \in Allocated' \/ a \in Owned
    BY <2>1, <1>3, LateKept DEF IInv
  <2>2. CASE late' = late \cup {Op} /\ memory' = memory /\ ~stale
    <3>1. Allocated' = Allocated
      BY <2>2 DEF Allocated
    <3>2. /\ Op.type \in OpTypes /\ (Op.type = "write" => DOMAIN Op.data = Cells)
          /\ Mentioned(Op) \subseteq Owned /\ Mentioned(Op) \subseteq Allocated
      BY <2>2, OpInv
    <3>3. \A op \in late : Mentioned(op) \cap Mentioned(Op) = {}
      BY <3>2 DEF IInv, LateInv
    <3> DEFINE new == Op
    <3>4. late' = late \cup {new}
      BY <2>2
    <3>5. /\ new.type \in OpTypes /\ (new.type = "write" => DOMAIN new.data = Cells)
          /\ Mentioned(new) \subseteq Allocated' 
          /\ \A op \in late : Mentioned(op) \cap Mentioned(new) = {}
      BY <3>1, <3>2, <3>3
    <3> HIDE DEF new
    <3>6. LateInv
      BY DEF IInv
    <3> QED BY <1>3, <3>1, <3>4, <3>5, <3>6 DEF LateInv
  <2> QED BY <2>1, <2>2
<1>8. HostInv'
  BY <1>1 DEF IInv, HostInv
<1> QED BY <1>4, <1>6, <1>7, <1>8 DEF IInv

-----------------------------------------------------------------------------
(* The steps of __call__ *)

(* A step that leaves the server alone, and no call. *)
Locally == UNCHANGED <<host, memory, late, stale>>

LEMMA LocalStep ==
  ASSUME IInv, Locally, Owned' \subseteq Owned, LocalTypes', LocalInv',
         Buffers' \subseteq Buffers,
         pc' \in {"args", "alloc", "write", "exec"} => pc \in {"idle", "args"} \/ Owned \subseteq Allocated
  PROVE  IInv'
<1>1. Allocated' = Allocated /\ Owned' \subseteq Owned
  BY DEF Locally, Allocated
<1>2. LateInv'
  BY <1>1, LateKept DEF IInv, Locally
<1>3. pc = "idle" => Owned = {}
  BY NoLocals DEF IInv, LocalInv
<1>4. LiveInv'
  BY <1>1, <1>3 DEF IInv, LiveInv, Locally
<1> QED BY <1>2, <1>4 DEF IInv, Locally, HostInv

LEMMA TensorArgStep == ASSUME IInv, TensorArg PROVE IInv'
<1>1. /\ pc = "args" /\ arg_idx <= Len(PtrArgs(args)) /\ Locally
      /\ args' = args /\ storage_remote' = storage_remote /\ remote_addrs' = remote_addrs
  BY DEF TensorArg, Locally, callVars, serverVars
<1>2. LocalTypes /\ LocalInv
  BY DEF IInv
<1>3. Arg.storage \in Storages /\ Arg.cell \in Cells
  BY <1>1, <1>2, ArgType
<1>4. Owned' = Owned /\ Buffers' = Buffers
  BY <1>1 DEF Owned, Buffers
<1>5. CASE storage_remote[Arg.storage] = None
  <2>1. pc' = "alloc" /\ arg_idx' = arg_idx /\ rpc_args' = rpc_args
    BY <1>5 DEF TensorArg
  <2>2. Arg' = Arg
    BY <1>1, <2>1 DEF Arg
  <2>3. LocalTypes'
    BY <1>1, <1>2, <2>1 DEF LocalTypes
  <2>4. LocalInv'
    BY <1>1, <1>2, <1>4, <1>5, <2>1, <2>2 DEF LocalInv
  <2> QED BY <1>1, <1>4, <2>3, <2>4, LocalStep
<1>6. CASE storage_remote[Arg.storage] # None
  <2>1. pc' = pc /\ arg_idx' = arg_idx + 1 /\ rpc_args' = Append(rpc_args, TensorPtr(Arg))
    BY <1>6 DEF TensorArg, NextArg
  <2>2. TensorPtr(Arg) \in (Addrs \cup {None}) \X Cells /\ TensorPtr(Arg)[1] \in Owned
    BY <1>2, <1>3, <1>6 DEF TensorPtr, LocalTypes, Owned
  <2>3. LocalTypes'
    BY <1>1, <1>2, <2>1, <2>2, AppendProperties DEF LocalTypes
  <2>4. \A i \in DOMAIN rpc_args' : rpc_args'[i][1] \in Owned \cup {None}
    BY <1>2, <2>1, <2>2, AppendProperties, LenProperties DEF LocalTypes, LocalInv
  <2>5. LocalInv'
    BY <1>1, <1>2, <1>4, <2>1, <2>4 DEF LocalInv
  <2> QED BY <1>1, <1>4, <2>3, <2>5, LocalStep
<1> QED BY <1>5, <1>6

LEMMA RawArgStep == ASSUME IInv, RawArg PROVE IInv'
<1>1. /\ pc = "args" /\ arg_idx <= Len(PtrArgs(args)) /\ Locally /\ pc' = pc
      /\ args' = args /\ storage_remote' = storage_remote /\ remote_addrs' = remote_addrs
  BY DEF RawArg, Locally, callVars, serverVars
<1>2. LocalTypes /\ LocalInv
  BY DEF IInv
<1>3. Arg.storage \in Storages /\ Arg.cell \in Cells
  BY <1>1, <1>2, ArgType
<1>4. Owned' = Owned /\ Buffers' = Buffers
  BY <1>1 DEF Owned, Buffers
<1> DEFINE ptr == IF Place(Arg) \in remote_tensor_map THEN TensorPtr(Arg) ELSE <<None, Arg.cell>>
<1>5. arg_idx' = arg_idx + 1 /\ rpc_args' = Append(rpc_args, ptr)
  BY DEF RawArg, NextArg
<1>6. ptr \in (Addrs \cup {None}) \X Cells /\ ptr[1] \in Owned \cup {None}
  BY <1>2, <1>3 DEF TensorPtr, LocalTypes, Owned
<1> HIDE DEF ptr
<1>7. LocalTypes'
  BY <1>1, <1>2, <1>5, <1>6, AppendProperties DEF LocalTypes
<1>8. \A i \in DOMAIN rpc_args' : rpc_args'[i][1] \in Owned \cup {None}
  BY <1>2, <1>5, <1>6, AppendProperties, LenProperties DEF LocalTypes, LocalInv
<1>9. LocalInv'
  BY <1>1, <1>2, <1>4, <1>5, <1>8 DEF LocalInv
<1> QED BY <1>1, <1>4, <1>7, <1>9, LocalStep

LEMMA ArgsDoneStep == ASSUME IInv, ArgsDone PROVE IInv'
<1>1. /\ pc = "args" /\ pc' = "exec" /\ Locally /\ args' = args /\ UNCHANGED localVars
  BY DEF ArgsDone, Locally, callVars, serverVars
<1>2. Owned' = Owned /\ Buffers' = Buffers
  BY <1>1 DEF Owned, Buffers, localVars
<1>3. LocalTypes' /\ LocalInv'
  BY <1>1, <1>2 DEF IInv, LocalTypes, LocalInv, localVars
<1> QED BY <1>1, <1>2, <1>3, LocalStep

LEMMA LoadBinaryStep == ASSUME IInv, NEW l \in Launchers, LoadBinary(l) PROVE IInv'
<1>1. /\ pc = "idle" /\ pc' \in {"idle", "load"} /\ Locally /\ args' = args /\ UNCHANGED localVars
  BY DEF LoadBinary, Locally, serverVars
<1>2. Owned' = Owned /\ Buffers' = Buffers
  BY <1>1 DEF Owned, Buffers, localVars
<1>3. LocalTypes' /\ LocalInv'
  BY <1>1, <1>2 DEF IInv, LocalTypes, LocalInv, localVars
<1> QED BY <1>1, <1>2, <1>3, LocalStep

LEMMA BeginStep == ASSUME IInv, NEW l \in Launchers, NEW list \in ArgLists, Begin(l, list) PROVE IInv'
<1>1. /\ pc = "idle" /\ pc' = "args" /\ Locally /\ args' = list /\ UNCHANGED localVars
  BY DEF Begin, Locally, serverVars
<1>2. Owned' = Owned /\ Buffers' = Buffers
  BY <1>1 DEF Owned, Buffers, localVars
<1>3. LocalTypes' /\ LocalInv'
  BY <1>1, <1>2 DEF IInv, LocalTypes, LocalInv, localVars
<1> QED BY <1>1, <1>2, <1>3, LocalStep

-----------------------------------------------------------------------------
(* The steps in which a call returns *)

LEMMA Answered ==
  ASSUME IInv, Calling, NEW e \in Answers, Receive(e)
  PROVE  /\ ~stale /\ late' = late /\ stale' = stale
         /\ e \in Effects(Op) /\ e.ok /\ Adopt(e) /\ memory' = e.memory
         /\ GoodMemory(memory')
         /\ \A a \in Allocated : a \in Allocated' \/ (Op.type = "free" /\ a = Op.addr)
<1>1. ~stale /\ e \in Effects(Op) /\ e.ok
  BY DEF Answers
<1>2. Adopt(e) /\ late' = late /\ stale' = stale
  BY DEF Receive
<1>3. Op.type \in OpTypes /\ (Op.type = "write" => DOMAIN Op.data = Cells) /\ GoodMemory(memory)
  BY OpInv DEF IInv
<1>4. /\ GoodMemory(memory')
      /\ \A a \in Allocated : a \in Allocated' \/ (Op.type = "free" /\ a = Op.addr)
  BY <1>1, <1>2, <1>3, Adopted
<1> QED BY <1>1, <1>2, <1>4 DEF Adopt

LEMMA LoadReturnsStep == ASSUME IInv, LoadReturns PROVE IInv'
<1>1. PICK e \in Answers :
        /\ Receive(e) /\ pc = "load" /\ pc' = "idle"
        /\ UNCHANGED <<host, callVars, localVars>>
  BY DEF LoadReturns
<1>2. /\ late' = late /\ GoodMemory(memory')
      /\ \A a \in Allocated : a \in Allocated'
  BY <1>1, Answered, OpOf DEF Calling
<1>3. Owned' = Owned /\ Buffers' = Buffers /\ args' = args
  BY <1>1 DEF Owned, Buffers, localVars, callVars
<1>4. LateInv'
  BY <1>2, <1>3, LateKept DEF IInv
<1>5. LocalTypes' /\ LocalInv'
  BY <1>1, <1>3 DEF IInv, LocalTypes, LocalInv, localVars
<1>6. Buffers = {}
  BY <1>1 DEF IInv, LocalInv, Buffers
<1> QED BY <1>1, <1>2, <1>3, <1>4, <1>5, <1>6 DEF IInv, HostInv, LiveInv

LEMMA AllocReturnsStep == ASSUME IInv, AllocReturns PROVE IInv'
<1>1. PICK e \in Answers :
        /\ Receive(e) /\ pc = "alloc" /\ pc' = "write"
        /\ storage_remote' = [storage_remote EXCEPT ![Arg.storage] = e.value]
        /\ UNCHANGED <<host, callVars, arg_idx, rpc_args, remote_addrs>>
  BY DEF AllocReturns
<1>2. /\ ~stale /\ late' = late /\ stale' = stale /\ GoodMemory(memory')
      /\ e \in Effects(Op) /\ e.ok /\ memory' = e.memory /\ Op.type = "alloc"
      /\ \A a \in Allocated : a \in Allocated'
  BY <1>1, Answered, OpOf DEF Calling
<1>3. e.value \in Addrs \ Allocated /\ e.value \in Allocated'
  <2>1. e.value \in Addrs \ Allocated /\ e.memory[e.value] # Free
    BY <1>2, EffectsKeep DEF IInv, OpTypes
  <2> QED BY <1>2, <2>1 DEF Allocated
<1>4. args' = args /\ LocalTypes /\ LocalInv /\ LiveInv
  BY <1>1 DEF callVars, IInv
<1>5. Arg.storage \in Storages /\ Arg' = Arg /\ storage_remote[Arg.storage] = None
  BY <1>1, <1>4, ArgType DEF LocalInv, Arg
<1>6. storage_remote'[Arg.storage] = e.value /\ \A s \in Storages : s # Arg.storage => storage_remote'[s] = storage_remote[s]
  BY <1>1, <1>4, <1>5 DEF LocalTypes
<1>7. Owned' = Owned \cup {e.value}
  BY <1>3, <1>5, <1>6, LaunchAssumption DEF Owned, None
<1>8. Buffers' = Buffers
  BY <1>1 DEF Buffers
<1>9. LateInv'
  BY <1>2, <1>3, <1>7, LateKept DEF IInv
<1>10. LocalTypes'
  BY <1>1, <1>3, <1>4 DEF LocalTypes
<1>11. Buffers \subseteq Allocated
  BY <1>2, <1>4 DEF LiveInv
<1>12. LocalInv'
  BY <1>1, <1>3, <1>4, <1>5, <1>6, <1>7, <1>8, <1>11 DEF LocalInv
<1>13. LiveInv'
  BY <1>1, <1>2, <1>3, <1>4, <1>7, <1>8, <1>11 DEF LiveInv
<1> QED BY <1>1, <1>2, <1>9, <1>10, <1>12, <1>13 DEF IInv, HostInv

LEMMA WriteReturnsStep == ASSUME IInv, WriteReturns PROVE IInv'
<1> DEFINE new == [addr |-> storage_remote[Arg.storage], storage |-> Arg.storage]
<1>1. PICK e \in Answers :
        /\ Receive(e) /\ pc = "write" /\ pc' = "args"
        /\ remote_addrs' = Append(remote_addrs, new)
        /\ UNCHANGED <<host, callVars, arg_idx, storage_remote, rpc_args>>
  BY DEF WriteReturns
<1>2. /\ ~stale /\ late' = late /\ stale' = stale /\ GoodMemory(memory')
      /\ \A a \in Allocated : a \in Allocated'
  BY <1>1, Answered, OpOf DEF Calling
<1>3. args' = args /\ LocalTypes /\ LocalInv /\ LiveInv
  BY <1>1 DEF callVars, IInv
<1>4. new \in [addr : Addrs, storage : Storages] /\ new.addr \in Owned /\ new.addr \notin Buffers
  BY <1>1, <1>3, ArgType, LaunchAssumption DEF LocalInv, Owned, None
<1> HIDE DEF new
<1>5. Owned' = Owned
  BY <1>1 DEF Owned
<1>6. LocalTypes'
  BY <1>1, <1>3, <1>4, AppendProperties DEF LocalTypes
<1>7. /\ DOMAIN remote_addrs = 1 .. Len(remote_addrs) /\ Len(remote_addrs) \in Nat
      /\ DOMAIN remote_addrs' = 1 .. Len(remote_addrs) + 1
      /\ remote_addrs'[Len(remote_addrs) + 1] = new
      /\ \A i \in 1 .. Len(remote_addrs) : remote_addrs'[i] = remote_addrs[i]
  BY <1>1, <1>3, <1>4, AppendProperties, LenProperties DEF LocalTypes
<1>8. Buffers' = Buffers \cup {new.addr}
  BY <1>7 DEF Buffers
<1>9. \A i, j \in DOMAIN remote_addrs' : i # j => remote_addrs'[i].addr # remote_addrs'[j].addr
  <2>1. \A i \in 1 .. Len(remote_addrs) : remote_addrs[i].addr \in Buffers
    BY <1>7 DEF Buffers
  <2> QED BY <1>3, <1>4, <1>7, <2>1 DEF LocalInv
<1>10. LocalInv'
  BY <1>1, <1>3, <1>4, <1>5, <1>8, <1>9 DEF LocalInv
<1>11. LateInv'
  BY <1>2, <1>5, LateKept DEF IInv
<1>12. LiveInv'
  BY <1>1, <1>2, <1>3, <1>4, <1>5, <1>8 DEF LiveInv
<1> QED BY <1>1, <1>2, <1>6, <1>10, <1>11, <1>12 DEF IInv, HostInv

(* Reading back goes on with buffers that are still allocated. *)
LEMMA ReadbackStep ==
  ASSUME IInv, NEW rest \in Seq([addr : Addrs, storage : Storages]), Readback(rest),
         pc \in {"exec", "free"}, args' = args, GoodMemory(memory'), HostInv', late' = late,
         stale' = stale, ~stale,
         \A a \in Allocated : a \in Allocated' \/ a \in Owned,
         \A i \in DOMAIN rest : rest[i].addr \in Owned /\ rest[i].addr \in Allocated',
         \A i, j \in DOMAIN rest : i # j => rest[i].addr # rest[j].addr
  PROVE  IInv'
<1>1. LocalTypes /\ LocalInv /\ LateInv
  BY DEF IInv
<1>2. CASE rest = <<>>
  <2>1. pc' = "idle" /\ DropLocals
    BY <1>2 DEF Readback
  <2>2. /\ storage_remote' = [s \in Storages |-> None] /\ arg_idx' = 1
        /\ rpc_args' = <<>> /\ remote_addrs' = <<>>
    BY <2>1 DEF DropLocals
  <2>3. Owned' = {} /\ Buffers' = {}
    BY <2>2 DEF Owned, Buffers
  <2>4. LateInv'
    BY <1>1, <2>3, LateKept
  <2>5. LocalTypes'
    BY <1>1, <2>1, <2>2, EmptySeq DEF LocalTypes
  <2>6. LocalInv' /\ LiveInv'
    BY <2>1, <2>2, <2>3 DEF LocalInv, LiveInv
  <2> QED BY <2>4, <2>5, <2>6 DEF IInv
<1>3. CASE rest # <<>>
  <2>1. pc' = "read" /\ remote_addrs' = rest /\ UNCHANGED <<arg_idx, storage_remote, rpc_args>>
    BY <1>3 DEF Readback
  <2>2. Owned' = Owned
    BY <2>1 DEF Owned
  <2>3. Buffers' \subseteq Owned /\ Buffers' \subseteq Allocated'
    BY <2>1 DEF Buffers
  <2>4. LateInv'
    BY <1>1, <2>2, LateKept
  <2>5. LocalTypes'
    BY <1>1, <2>1 DEF LocalTypes
  <2>6. LocalInv'
    BY <1>1, <1>3, <2>1, <2>2, <2>3 DEF LocalInv
  <2>7. LiveInv'
    BY <2>1, <2>3 DEF LiveInv
  <2> QED BY <2>4, <2>5, <2>6, <2>7 DEF IInv
<1> QED BY <1>2, <1>3

LEMMA ExecReturnsStep == ASSUME IInv, ExecReturns PROVE IInv'
<1>1. PICK e \in Answers :
        Receive(e) /\ pc = "exec" /\ Readback(remote_addrs) /\ UNCHANGED <<host, callVars>>
  BY DEF ExecReturns
<1>2. /\ ~stale /\ late' = late /\ stale' = stale /\ GoodMemory(memory')
      /\ \A a \in Allocated : a \in Allocated'
  BY <1>1, Answered, OpOf DEF Calling
<1>3. LocalTypes /\ LocalInv /\ LiveInv /\ HostInv' /\ args' = args
  BY <1>1 DEF IInv, HostInv, callVars
<1>4. \A i \in DOMAIN remote_addrs : remote_addrs[i].addr \in Owned /\ remote_addrs[i].addr \in Allocated'
  <2>1. Buffers \subseteq Owned /\ Buffers \subseteq Allocated
    BY <1>2, <1>3 DEF LocalInv, LiveInv
  <2> QED BY <1>2, <2>1 DEF Buffers
<1>5. \A i, j \in DOMAIN remote_addrs : i # j => remote_addrs[i].addr # remote_addrs[j].addr
  BY <1>3 DEF LocalInv
<1>6. remote_addrs \in Seq([addr : Addrs, storage : Storages])
  BY <1>3 DEF LocalTypes
<1> QED BY <1>1, <1>2, <1>3, <1>4, <1>5, <1>6, ReadbackStep

LEMMA ReadReturnsStep == ASSUME IInv, ReadReturns PROVE IInv'
<1>1. PICK e \in Answers :
        /\ Receive(e) /\ pc = "read" /\ pc' = "free"
        /\ host' = [host EXCEPT ![Head(remote_addrs).storage] = e.value]
        /\ UNCHANGED <<callVars, localVars>>
  BY DEF ReadReturns
<1>2. /\ ~stale /\ late' = late /\ stale' = stale /\ GoodMemory(memory')
      /\ e \in Effects(Op) /\ e.ok /\ Op.type = "read"
      /\ \A a \in Allocated : a \in Allocated'
  BY <1>1, Answered, OpOf DEF Calling
<1>3. DOMAIN e.value = Cells
  BY <1>2, EffectsKeep DEF IInv, OpTypes
<1>4. HostInv'
  BY <1>1, <1>3 DEF IInv, HostInv
<1>5. Owned' = Owned /\ Buffers' = Buffers /\ args' = args
  BY <1>1 DEF Owned, Buffers, localVars, callVars
<1>6. LateInv'
  BY <1>2, <1>5, LateKept DEF IInv
<1>7. LocalTypes' /\ LocalInv'
  BY <1>1, <1>5 DEF IInv, LocalTypes, LocalInv, localVars
<1>8. LiveInv'
  BY <1>1, <1>2, <1>5 DEF IInv, LiveInv
<1> QED BY <1>2, <1>4, <1>6, <1>7, <1>8 DEF IInv

LEMMA FreeReturnsStep == ASSUME IInv, FreeReturns PROVE IInv'
<1> DEFINE R == [addr : Addrs, storage : Storages]
<1>1. PICK e \in Answers :
        Receive(e) /\ pc = "free" /\ Readback(Tail(remote_addrs)) /\ UNCHANGED <<host, callVars>>
  BY DEF FreeReturns
<1>2. /\ ~stale /\ late' = late /\ stale' = stale /\ GoodMemory(memory')
      /\ \A a \in Allocated : a \in Allocated' \/ a = Head(remote_addrs).addr
  BY <1>1, Answered, OpOf DEF Calling
<1>3. LocalTypes /\ LocalInv /\ LiveInv /\ HostInv' /\ args' = args /\ remote_addrs # <<>>
  BY <1>1 DEF IInv, HostInv, callVars, LocalInv
<1>4. remote_addrs \in Seq(R)
  BY <1>3 DEF LocalTypes
<1>5. Head(remote_addrs).addr \in Owned /\ Head(remote_addrs) = remote_addrs[1] /\ 1 \in DOMAIN remote_addrs
  BY <1>3, HeadBuffer DEF LocalInv
<1>6. /\ Tail(remote_addrs) \in Seq(R) /\ DOMAIN Tail(remote_addrs) = 1 .. Len(remote_addrs) - 1
      /\ DOMAIN remote_addrs = 1 .. Len(remote_addrs) /\ Len(remote_addrs) \in Nat
      /\ \A i \in 1 .. Len(remote_addrs) - 1 : Tail(remote_addrs)[i] = remote_addrs[i + 1]
  BY <1>3, <1>4, HeadTailProperties, LenProperties, EmptySeq
<1>7. \A i \in DOMAIN Tail(remote_addrs) :
        Tail(remote_addrs)[i].addr \in Owned /\ Tail(remote_addrs)[i].addr \in Allocated'
  <2>1. Buffers \subseteq Owned /\ Buffers \subseteq Allocated
    BY <1>2, <1>3 DEF LocalInv, LiveInv
  <2>2. ASSUME NEW i \in DOMAIN Tail(remote_addrs)
        PROVE  Tail(remote_addrs)[i].addr \in Owned /\ Tail(remote_addrs)[i].addr \in Allocated'
    <3>1. i + 1 \in DOMAIN remote_addrs /\ i + 1 # 1 /\ Tail(remote_addrs)[i] = remote_addrs[i + 1]
      BY <1>6
    <3>2. remote_addrs[i + 1].addr \in Buffers /\ remote_addrs[i + 1].addr # Head(remote_addrs).addr
      BY <1>3, <1>5, <3>1 DEF LocalInv, Buffers
    <3> QED BY <1>2, <2>1, <3>1, <3>2
  <2> QED BY <2>2
<1>8. \A i, j \in DOMAIN Tail(remote_addrs) : i # j => Tail(remote_addrs)[i].addr # Tail(remote_addrs)[j].addr
  BY <1>3, <1>6 DEF LocalInv
<1> QED BY <1>1, <1>2, <1>3, <1>5, <1>6, <1>7, <1>8, ReadbackStep

-----------------------------------------------------------------------------
(* The steps in which a call raises, and those of the server *)

LEMMA CallRefusedStep == ASSUME IInv, CallRefused PROVE IInv'
  BY Aborted DEF CallRefused, serverVars, Allocated, IInv

LEMMA StaleConnectionStep == ASSUME IInv, StaleConnection PROVE IInv'
  BY Aborted DEF StaleConnection, serverVars, Allocated, IInv

LEMMA CallFailsStep == ASSUME IInv, CallFails PROVE IInv'
<1>1. Calling /\ ~stale /\ Abort
  BY DEF CallFails
<1>2. CASE UNCHANGED <<serverVars, late>>
  BY <1>1, <1>2, Aborted DEF serverVars, Allocated, IInv
<1>3. CASE (\E e \in Effects(Op) : Adopt(e)) /\ UNCHANGED late
  <2>1. PICK e \in Effects(Op) : Adopt(e)
    BY <1>3
  <2>2. Op.type \in OpTypes /\ (Op.type = "write" => DOMAIN Op.data = Cells) /\ Mentioned(Op) \subseteq Owned
    BY <1>1, OpInv
  <2>3. /\ GoodMemory(memory')
        /\ \A a \in Allocated : a \in Allocated' \/ (Op.type = "free" /\ a = Op.addr)
    BY <2>1, <2>2, Adopted DEF IInv
  <2>4. \A a \in Allocated : a \in Allocated' \/ a \in Owned
    BY <2>2, <2>3 DEF Mentioned
  <2> QED BY <1>1, <1>3, <2>3, <2>4, Aborted
<1>4. CASE late' = late \cup {Op} /\ UNCHANGED serverVars
  BY <1>1, <1>4, Aborted DEF serverVars, IInv
<1> QED BY <1>2, <1>3, <1>4 DEF CallFails

LEMMA PerformLateStep == ASSUME IInv, NEW op \in late, PerformLate(op) PROVE IInv'
<1>1. /\ late' = late \ {op} /\ UNCHANGED <<host, pc, args, localVars, stale>>
  BY DEF PerformLate, callVars
<1>2. PICK e \in Effects(op) : Adopt(e)
  BY DEF PerformLate
<1>3. /\ op.type \in OpTypes /\ (op.type = "write" => DOMAIN op.data = Cells)
      /\ Mentioned(op) \cap Owned = {}
      /\ \A other \in late' : Mentioned(op) \cap Mentioned(other) = {}
  BY <1>1 DEF IInv, LateInv
<1>4. /\ GoodMemory(memory')
      /\ \A a \in Allocated : a \in Allocated' \/ a \in Mentioned(op)
  BY <1>2, <1>3, Adopted DEF IInv, Mentioned
<1>5. Owned' = Owned /\ Buffers' = Buffers
  BY <1>1 DEF Owned, Buffers, localVars
<1>6. LateInv'
  <2>1. \A other \in late' : Mentioned(other) \subseteq Allocated'
    BY <1>1, <1>3, <1>4 DEF IInv, LateInv
  <2> QED BY <1>1, <1>5, <2>1 DEF IInv, LateInv
<1>7. LocalTypes' /\ LocalInv'
  <2>1. Arg' = Arg
    BY <1>1 DEF Arg, localVars
  <2> QED BY <1>1, <1>5, <2>1 DEF IInv, LocalTypes, LocalInv, localVars
<1>8. LiveInv'
  <2>1. \A a \in Owned \cap Allocated : a \in Allocated'
    BY <1>3, <1>4
  <2> QED BY <1>1, <1>5, <2>1 DEF IInv, LiveInv, LocalInv
<1> QED BY <1>1, <1>4, <1>6, <1>7, <1>8 DEF IInv, HostInv

LEMMA RestartStep == ASSUME IInv, Restart PROVE IInv'
<1>1. /\ memory' = [a \in Addrs |-> Free] /\ late' = {} /\ stale' = TRUE
      /\ UNCHANGED <<host, pc, args, localVars>>
  BY DEF Restart, callVars
<1>2. GoodMemory(memory')
  BY <1>1 DEF GoodMemory
<1>3. LateInv' /\ LiveInv'
  BY <1>1 DEF LateInv, LiveInv
<1>4. Owned' = Owned /\ Buffers' = Buffers /\ Arg' = Arg
  BY <1>1 DEF Owned, Buffers, Arg, localVars
<1>5. LocalTypes' /\ LocalInv'
  BY <1>1, <1>4 DEF IInv, LocalTypes, LocalInv, localVars
<1> QED BY <1>1, <1>2, <1>3, <1>5 DEF IInv, HostInv

LEMMA StutterStep == ASSUME IInv, UNCHANGED vars PROVE IInv'
<1>1. UNCHANGED <<host, pc, args, localVars, memory, late, stale>>
  BY DEF vars, callVars, serverVars
<1>2. Owned' = Owned /\ Buffers' = Buffers /\ Arg' = Arg /\ Allocated' = Allocated
  BY <1>1 DEF Owned, Buffers, Arg, Allocated, localVars
<1>3. LocalTypes' /\ LocalInv'
  BY <1>1, <1>2 DEF IInv, LocalTypes, LocalInv, localVars
<1>4. LateInv' /\ LiveInv'
  BY <1>1, <1>2 DEF IInv, LateInv, LiveInv
<1> QED BY <1>1, <1>3, <1>4 DEF IInv, HostInv

-----------------------------------------------------------------------------
LEMMA Initially == Init => IInv
<1> SUFFICES ASSUME Init PROVE IInv
  OBVIOUS
<1>1. GoodMemory(memory) /\ Allocated = {}
  BY DEF Init, GoodMemory, Allocated
<1>2. HostInv
  BY DEF Init, HostInv
<1>3. Owned = {} /\ Buffers = {}
  BY DEF Init, Owned, Buffers
<1>4. LocalTypes
  BY EmptySeq DEF Init, LocalTypes
<1>5. LocalInv /\ LateInv /\ LiveInv
  BY <1>3 DEF Init, LocalInv, LateInv, LiveInv
<1> QED BY <1>1, <1>2, <1>4, <1>5 DEF IInv

LEMMA Inductive == Spec => []IInv
<1>1. IInv /\ [Next]_vars => IInv'
  <2> SUFFICES ASSUME IInv, [Next]_vars PROVE IInv'
    OBVIOUS
  <2>1. CASE \E l \in Launchers : LoadBinary(l)
    BY <2>1, LoadBinaryStep
  <2>2. CASE \E l \in Launchers, list \in ArgLists : Begin(l, list)
    BY <2>2, BeginStep
  <2>3. CASE Program
    BY <2>3, LoadReturnsStep, TensorArgStep, AllocReturnsStep, WriteReturnsStep, RawArgStep,
       ArgsDoneStep, ExecReturnsStep, ReadReturnsStep, FreeReturnsStep, CallRefusedStep,
       StaleConnectionStep, CallFailsStep DEF Program
  <2>4. CASE \E op \in late : PerformLate(op)
    BY <2>4, PerformLateStep
  <2>5. CASE Restart
    BY <2>5, RestartStep
  <2>6. CASE UNCHANGED vars
    BY <2>6, StutterStep
  <2> QED BY <2>1, <2>2, <2>3, <2>4, <2>5, <2>6 DEF Next
<1> QED BY <1>1, Initially, PTL DEF Spec

(* A call the launcher gave up on can be performed at any later time: it   *)
(* never touches a buffer of the launch under way (LateHarmless), since    *)
(* what an exception in RPCLauncher.__call__ leaves allocated is not given *)
(* out again, and of each launch only one call can be given up.            *)
THEOREM LateHarmlessHolds == Spec => []LateHarmless
<1>1. IInv => LateHarmless
  <2> SUFFICES ASSUME IInv, NEW op \in late
               PROVE  /\ op.type \in {"write", "free"} => op.addr \notin Owned
                      /\ op.type = "exec" => \A i \in DOMAIN op.ptrs : op.ptrs[i][1] \notin Owned
    BY DEF LateHarmless
  <2>1. Mentioned(op) \cap Owned = {} /\ None \notin Owned
    BY DEF IInv, LateInv, Owned
  <2> QED BY <2>1 DEF Mentioned
<1> QED BY <1>1, Inductive, PTL

-----------------------------------------------------------------------------
(* The contents of storages and buffers: a launch that returns has the effect *)
(* of the kernel, and what stays allocated is left by launches that raise.     *)

Numbers == [Cells -> Int]

(* What a call given up may still bring to the server. *)
OpValues(op) ==
  /\ op.type = "load" => op.binary \in Nat
  /\ op.type = "write" => op.data \in Numbers
  /\ op.type = "exec" => op.ptrs \in Seq((Addrs \cup {None}) \X Cells)

ValueTypes ==
  /\ \A a \in Allocated : memory[a] \in Numbers
  /\ {host, before, wanted} \subseteq [Storages -> Numbers]
  /\ kernels \in Seq(Nat)
  /\ \A op \in late : OpValues(op)

LoadedIs(handle, l) == handle \in DOMAIN kernels /\ kernels[handle] = Binary[l]

Handles == [handle : Nat, life : Nat]

(* A handle of the server's present life is that of the launcher's code,   *)
(* whichever launcher had it loaded.                                       *)
HandleInv ==
  /\ life \in Nat \ {0} /\ (pc # "idle" => launcher \in Launchers)
  /\ kernel_handle \in [Launchers -> Handles]
  /\ kernel_cache \in [{CacheKey(l) : l \in Launchers} -> Handles]
  /\ \A l \in Launchers :
       /\ kernel_handle[l].life <= life
       /\ kernel_handle[l].life = life => LoadedIs(kernel_handle[l].handle, l)
       /\ kernel_cache[CacheKey(l)].life <= life
       /\ kernel_cache[CacheKey(l)].life = life => LoadedIs(kernel_cache[CacheKey(l)].handle, l)

Sending == pc \in {"args", "alloc", "write", "exec"}

Reading == pc \in {"read", "free"}

Places == [i \in DOMAIN PtrArgs(args) |-> Place(PtrArgs(args)[i])]

(* Until the kernel has run the host's storages are as they were; from     *)
(* then on each is, or will be.                                            *)
CallInv ==
  /\ Sending \/ Reading =>
       /\ outcome = "none"
       /\ wanted = Run(before, Places, Binary[launcher])
       /\ handleCurrent /\ ~stale => kernel_handle[launcher].life = life
  /\ Sending => host = before
  /\ handleCurrent => \A s \in Storages : host[s] \in {before[s], wanted[s]}
  /\ outcome = "ok" /\ handleCurrent => host = wanted

(* Each storage has a buffer of its own, with its contents. *)
UploadInv ==
  /\ \A s, t \in Storages : storage_remote[s] = storage_remote[t] /\ storage_remote[s] # None => s = t
  /\ \A i \in DOMAIN remote_addrs : remote_addrs[i].addr = storage_remote[remote_addrs[i].storage]
  /\ Sending => \A s \in Storages :
       storage_remote[s] # None /\ ~(pc = "write" /\ s = Arg.storage) =>
         /\ \E i \in DOMAIN remote_addrs : remote_addrs[i].storage = s
         /\ ~stale => memory[storage_remote[s]] = host[s]
  /\ \A p \in remote_tensor_map : p[1] \in Storages /\ storage_remote[p[1]] # None

(* Each pointer is translated to its place in a buffer, or to none. *)
Translated(i) ==
  LET a == PtrArgs(args)[i]
  IN  storage_remote[a.storage] # None /\ rpc_args[i] = <<storage_remote[a.storage], a.cell>>

ArgsInv ==
  /\ ~Sending /\ ~Reading => arg_idx = 1
  /\ Sending =>
       /\ Len(rpc_args) = arg_idx - 1 /\ arg_idx <= Len(PtrArgs(args)) + 1
       /\ pc = "exec" => arg_idx = Len(PtrArgs(args)) + 1
       /\ \A i \in DOMAIN rpc_args : rpc_args[i][1] = None \/ Translated(i)

(* What is yet to be read back is in the buffers that are left. *)
ReadInv ==
  Reading /\ handleCurrent =>
    /\ ~stale => \A i \in DOMAIN remote_addrs : memory[remote_addrs[i].addr] = wanted[remote_addrs[i].storage]
    /\ \A s \in Storages :
         host[s] = wanted[s] \/ \E i \in DOMAIN remote_addrs : (pc = "read" \/ i # 1) /\ remote_addrs[i].storage = s

VInv == ValueTypes /\ HandleInv /\ CallInv /\ UploadInv /\ ArgsInv /\ ReadInv

-----------------------------------------------------------------------------
(* What a kernel adds *)

Ptrs == (Addrs \cup {None}) \X Cells

LEMMA CountType ==
  ASSUME NEW S, NEW ptrs \in Seq(S), NEW p
  PROVE  Cardinality({i \in DOMAIN ptrs : ptrs[i] = p}) \in Nat
<1>1. DOMAIN ptrs = 1 .. Len(ptrs) /\ Len(ptrs) \in Int
  BY LenProperties
<1>2. IsFiniteSet(DOMAIN ptrs)
  BY <1>1, FS_Interval
<1>3. IsFiniteSet({i \in DOMAIN ptrs : ptrs[i] = p})
  BY <1>2, FS_Subset
<1> QED BY <1>3, FS_CardinalityType

LEMMA SumType == ASSUME NEW a \in Int, NEW b \in Nat, NEW c \in Nat PROVE a + b * c \in Int
  OBVIOUS

LEMMA NothingAdded == ASSUME NEW a \in Int, NEW b \in Nat PROVE a + b * 0 = a
  OBVIOUS

LEMMA RunType ==
  ASSUME NEW m, NEW S, NEW ptrs \in Seq(S), NEW amount \in Nat,
         NEW a \in DOMAIN m, m[a] \in Numbers
  PROVE  Run(m, ptrs, amount)[a] \in Numbers
<1> DEFINE Count(c) == Cardinality({i \in DOMAIN ptrs : ptrs[i] = <<a, c>>})
<1>1. Run(m, ptrs, amount)[a] = [c \in Cells |-> m[a][c] + amount * Count(c)]
  BY DEF Run, Numbers
<1>2. \A c \in Cells : m[a][c] \in Int /\ Count(c) \in Nat
  BY CountType DEF Numbers
<1> HIDE DEF Count
<1>3. \A c \in Cells : m[a][c] + amount * Count(c) \in Int
  BY <1>2, SumType
<1> QED BY <1>1, <1>3 DEF Numbers

LEMMA RunFree ==
  ASSUME NEW m, NEW ptrs, NEW amount, NEW a \in DOMAIN m, m[a] = Free
  PROVE  Run(m, ptrs, amount)[a] = Free
<1>1. Run(m, ptrs, amount)[a] =
        [c \in DOMAIN m[a] |-> m[a][c] + amount * Cardinality({i \in DOMAIN ptrs : ptrs[i] = <<a, c>>})]
  BY DEF Run
<1>2. DOMAIN m[a] = {}
  BY DEF Free
<1> QED BY <1>1, <1>2 DEF Free

(* A kernel without a pointer into a buffer leaves it as it is. *)
LEMMA RunApart ==
  ASSUME NEW m, NEW ptrs, NEW amount \in Nat,
         NEW a \in DOMAIN m, m[a] \in Numbers, \A i \in DOMAIN ptrs : \A c \in Cells : ptrs[i] # <<a, c>>
  PROVE  Run(m, ptrs, amount)[a] = m[a]
<1> DEFINE Count(c) == Cardinality({i \in DOMAIN ptrs : ptrs[i] = <<a, c>>})
<1>1. Run(m, ptrs, amount)[a] = [c \in Cells |-> m[a][c] + amount * Count(c)]
  BY DEF Run, Numbers
<1>2. \A c \in Cells : {i \in DOMAIN ptrs : ptrs[i] = <<a, c>>} = {}
  OBVIOUS
<1>3. \A c \in Cells : m[a][c] \in Int /\ Count(c) = 0
  BY <1>2, FS_EmptySet DEF Numbers
<1> HIDE DEF Count
<1>4. \A c \in Cells : m[a][c] + amount * Count(c) = m[a][c]
  BY <1>3, NothingAdded
<1>5. Run(m, ptrs, amount)[a] = [c \in Cells |-> m[a][c]]
  BY <1>1, <1>4
<1> QED BY <1>5 DEF Numbers

-----------------------------------------------------------------------------
(* What a call does to contents and kernels *)

NumberMemory(m) == \A a \in Addrs : m[a] # Free => m[a] \in Numbers

(* What was loaded stays loaded under its handle. *)
Extends(ks) == ks \in Seq(Nat) /\ \A h \in DOMAIN kernels : h \in DOMAIN ks /\ ks[h] = kernels[h]

LEMMA EffectValues ==
  ASSUME GoodMemory(memory), ValueTypes, NEW op, op.type \in OpTypes, OpValues(op), NEW e \in Effects(op)
  PROVE  /\ NumberMemory(e.memory) /\ Extends(e.kernels)
         /\ \A a \in Allocated \ Mentioned(op) : e.memory[a] = memory[a]
         /\ op.type = "load" => /\ e.value \in Nat /\ e.value \in DOMAIN e.kernels
                                /\ e.kernels[e.value] = op.binary
         /\ op.type = "write" /\ e.ok => op.addr \in Addrs /\ e.memory[op.addr] = op.data
         /\ op.type = "read" /\ e.ok => op.addr \in Allocated /\ e.value = memory[op.addr]
         /\ op.type = "exec" /\ e.ok =>
              /\ op.handle \in DOMAIN kernels /\ \A i \in DOMAIN op.ptrs : op.ptrs[i][1] \in Allocated
              /\ e.memory = Run(memory, op.ptrs, kernels[op.handle])
<1>1. /\ DOMAIN memory = Addrs /\ kernels \in Seq(Nat)
      /\ \A a \in Addrs : memory[a] # Free => memory[a] \in Numbers
  BY DEF GoodMemory, ValueTypes, Allocated
<1>2. NumberMemory(memory) /\ Extends(kernels)
  BY <1>1 DEF NumberMemory, Extends
<1>3. CASE op.type = "load"
  <2>1. e = Served(memory, Append(kernels, op.binary), TRUE, Len(kernels) + 1)
    BY <1>3, OfLoad
  <2>2. op.binary \in Nat
    BY <1>3 DEF OpValues
  <2>3. /\ Append(kernels, op.binary) \in Seq(Nat) /\ Len(kernels) \in Nat
        /\ DOMAIN Append(kernels, op.binary) = 1 .. Len(kernels) + 1 /\ DOMAIN kernels = 1 .. Len(kernels)
        /\ Append(kernels, op.binary)[Len(kernels) + 1] = op.binary
        /\ \A h \in 1 .. Len(kernels) : Append(kernels, op.binary)[h] = kernels[h]
    BY <1>1, <2>2, AppendProperties, LenProperties
  <2>4. Extends(Append(kernels, op.binary))
    BY <2>3 DEF Extends
  <2> QED BY <1>2, <1>3, <2>1, <2>3, <2>4 DEF Served
<1>4. CASE op.type = "alloc"
  <2>1. CASE e = Refused
    BY <1>2, <1>4, <2>1 DEF Served, Refused
  <2>2. ASSUME NEW a \in Addrs \ Allocated,
               e = Served([memory EXCEPT ![a] = [c \in Cells |-> -1]], kernels, TRUE, a)
        PROVE  /\ NumberMemory(e.memory) /\ Extends(e.kernels)
               /\ \A b \in Allocated : e.memory[b] = memory[b]
    <3>1. [c \in Cells |-> -1] \in Numbers
      BY DEF Numbers
    <3> QED BY <1>1, <1>2, <2>2, <3>1 DEF Served, NumberMemory, Allocated
  <2> QED BY <1>4, <2>1, <2>2, OfAlloc
<1>5. CASE op.type = "write"
  <2>1. op.data \in Numbers /\ Mentioned(op) = {op.addr}
    BY <1>5 DEF OpValues, Mentioned
  <2>2. \/ e = Refused
        \/ /\ op.addr \in Allocated
           /\ e = Served([memory EXCEPT ![op.addr] = op.data], kernels, TRUE, None)
    BY <1>5, OfWrite
  <2> QED BY <1>1, <1>2, <1>5, <2>1, <2>2 DEF Served, Refused, NumberMemory, Allocated
<1>6. CASE op.type = "exec"
  <2>1. op.ptrs \in Seq(Ptrs) /\ Mentioned(op) = {op.ptrs[i][1] : i \in DOMAIN op.ptrs} \ {None}
    BY <1>6 DEF OpValues, Mentioned, Ptrs
  <2>2. \/ e = Refused
        \/ /\ op.handle \in DOMAIN kernels /\ \A i \in DOMAIN op.ptrs : op.ptrs[i][1] \in Allocated
           /\ e = Served(Run(memory, op.ptrs, kernels[op.handle]), kernels, TRUE, None)
    BY <1>6, OfExec, Zenon
  <2>3. CASE e = Refused
    BY <1>2, <1>6, <2>3 DEF Served, Refused
  <2>4. CASE /\ op.handle \in DOMAIN kernels /\ \A i \in DOMAIN op.ptrs : op.ptrs[i][1] \in Allocated
             /\ e = Served(Run(memory, op.ptrs, kernels[op.handle]), kernels, TRUE, None)
    <3>1. kernels[op.handle] \in Nat
      BY <1>1, <2>4, ElementOfSeq, LenProperties
    <3> DEFINE r == Run(memory, op.ptrs, kernels[op.handle])
    <3>2. ASSUME NEW a \in Addrs, r[a] # Free PROVE r[a] \in Numbers
      <4>1. CASE memory[a] # Free
        BY <1>1, <2>1, <3>1, <4>1, RunType
      <4>2. CASE memory[a] = Free
        BY <1>1, <3>2, <4>2, RunFree
      <4> QED BY <4>1, <4>2
    <3>3. ASSUME NEW a \in Allocated \ Mentioned(op) PROVE r[a] = memory[a]
      <4>1. a \in DOMAIN memory /\ memory[a] \in Numbers /\ a # None
        BY <1>1, LaunchAssumption DEF Allocated, None
      <4>2. \A i \in DOMAIN op.ptrs : \A c \in Cells : op.ptrs[i] # <<a, c>>
        BY <2>1, <3>3, <4>1
      <4> QED BY <3>1, <4>1, <4>2, RunApart
    <3>4. e.memory = r /\ e.kernels = kernels
      BY <2>4 DEF Served
    <3> QED BY <1>2, <1>6, <2>4, <3>2, <3>3, <3>4 DEF NumberMemory
  <2> QED BY <2>2, <2>3, <2>4
<1>7. CASE op.type = "read"
  <2>1. \/ e = Refused
        \/ op.addr \in Allocated /\ e = Served(memory, kernels, TRUE, memory[op.addr])
    BY <1>7, OfRead
  <2> QED BY <1>2, <1>7, <2>1 DEF Served, Refused
<1>8. CASE op.type = "free"
  <2>1. e = Served([memory EXCEPT ![op.addr] = Free], kernels, TRUE, None) /\ Mentioned(op) = {op.addr}
    BY <1>8, OfFree DEF Mentioned
  <2> QED BY <1>1, <1>2, <1>8, <2>1 DEF Served, NumberMemory, Allocated
<1> QED BY <1>3, <1>4, <1>5, <1>6, <1>7, <1>8 DEF OpTypes

(* The call of the launch is one of those. *)
LEMMA OpIsValue ==
  ASSUME IInv, VInv, Calling
  PROVE  OpValues(Op)
<1>1. LocalTypes /\ LocalInv /\ HandleInv /\ ValueTypes
  BY DEF IInv, VInv
<1>2. CASE pc = "load"
  <2>1. Op = [type |-> "load", binary |-> Binary[launcher]]
    BY <1>2, Zenon DEF Op
  <2>2. Binary[launcher] \in Nat
    BY <1>1, <1>2, LaunchAssumption DEF HandleInv
  <2> QED BY <2>1, <2>2 DEF OpValues
<1>3. CASE pc = "write"
  <2>1. Op.type = "write" /\ Op.data = host[Arg.storage] /\ Arg.storage \in Storages
    BY <1>1, <1>3, OpOf, ArgType DEF LocalInv
  <2> QED BY <1>1, <2>1 DEF OpValues, ValueTypes
<1>4. CASE pc = "exec"
  BY <1>1, <1>4, OpOf DEF OpValues, LocalTypes
<1>5. CASE pc \in {"alloc", "read", "free"}
  BY <1>5, OpOf DEF OpValues
<1> QED BY <1>2, <1>3, <1>4, <1>5 DEF Calling

-----------------------------------------------------------------------------
(* The steps of __call__ *)

Aside == UNCHANGED <<launcherVars, host, callVars, outcome, serverVars, late, stale>>

LEMMA AsideKeeps ==
  ASSUME ValueTypes, HandleInv, CallInv, pc = "args", Sending', Aside
  PROVE  ValueTypes' /\ HandleInv' /\ CallInv' /\ ReadInv'
<1>1. /\ UNCHANGED <<kernel_handle, kernel_cache, host, launcher, args, before, wanted, handleCurrent,
                     outcome, memory, kernels, life, late, stale>>
  BY DEF Aside, launcherVars, callVars, serverVars
<1>2. ~Reading'
  BY DEF Reading, Sending
<1>3. ValueTypes'
  BY <1>1 DEF ValueTypes, Allocated, OpValues
<1>4. HandleInv'
  BY <1>1 DEF HandleInv, LoadedIs
<1>5. CallInv'
  <2>1. Places' = Places /\ Sending
    BY <1>1 DEF Places, Sending
  <2> QED BY <1>1, <1>2, <2>1 DEF CallInv
<1> QED BY <1>2, <1>3, <1>4, <1>5 DEF ReadInv

(* Another argument has been translated. *)
LEMMA ArgAdded ==
  ASSUME LocalTypes, ArgsInv, pc = "args", pc' = pc, arg_idx <= Len(PtrArgs(args)),
         UNCHANGED <<args, storage_remote>>, NEW ptr,
         arg_idx' = arg_idx + 1, rpc_args' = Append(rpc_args, ptr),
         \/ ptr[1] = None
         \/ storage_remote[Arg.storage] # None /\ ptr = <<storage_remote[Arg.storage], Arg.cell>>
  PROVE  ArgsInv'
<1> DEFINE S == ((Addrs \cup {None}) \X Cells) \cup {ptr}
<1>1. rpc_args \in Seq(S) /\ arg_idx \in Nat \ {0} /\ args \in ArgLists
  BY DEF LocalTypes
<1>2. Len(PtrArgs(args)) \in Nat
  BY <1>1, LenProperties, LaunchAssumption
<1>3. Len(rpc_args) = arg_idx - 1
  BY DEF ArgsInv, Sending
<1>4. /\ Len(rpc_args') = arg_idx /\ DOMAIN rpc_args' = 1 .. arg_idx
      /\ rpc_args'[arg_idx] = ptr /\ DOMAIN rpc_args = 1 .. arg_idx - 1
      /\ \A i \in DOMAIN rpc_args : rpc_args'[i] = rpc_args[i]
  BY <1>1, <1>3, AppendProperties, LenProperties
<1>5. ASSUME NEW i \in DOMAIN rpc_args' PROVE rpc_args'[i][1] = None \/ Translated(i)'
  <2>1. CASE i = arg_idx
    BY <1>4, <2>1 DEF Translated, Arg
  <2>2. CASE i # arg_idx
    <3>1. i \in DOMAIN rpc_args
      BY <1>1, <1>4, <2>2
    <3>2. rpc_args[i][1] = None \/ Translated(i)
      BY <3>1 DEF ArgsInv, Sending
    <3> QED BY <1>4, <3>1, <3>2 DEF Translated
  <2> QED BY <2>1, <2>2
<1> QED BY <1>1, <1>2, <1>3, <1>4, <1>5 DEF ArgsInv, Sending, Reading

LEMMA TensorArgValues == ASSUME IInv, VInv, TensorArg PROVE VInv'
<1>1. /\ pc = "args" /\ arg_idx <= Len(PtrArgs(args)) /\ Aside
      /\ UNCHANGED <<args, storage_remote, remote_addrs, host, memory, stale>>
  BY DEF TensorArg, Aside, callVars, serverVars
<1>2. LocalTypes /\ UploadInv /\ ArgsInv /\ Sending
  BY <1>1 DEF IInv, VInv, Sending
<1>3. Arg.storage \in Storages
  BY <1>1, <1>2, ArgType
<1>4. CASE storage_remote[Arg.storage] = None
  <2>1. pc' = "alloc" /\ UNCHANGED <<arg_idx, rpc_args, remote_tensor_map>>
    BY <1>4 DEF TensorArg
  <2>2. Sending' /\ UploadInv' /\ ArgsInv'
    BY <1>1, <1>2, <2>1 DEF Sending, Reading, UploadInv, ArgsInv, Translated
  <2> QED BY <1>1, <2>2, AsideKeeps DEF VInv
<1>5. CASE storage_remote[Arg.storage] # None
  <2>1. /\ pc' = pc /\ arg_idx' = arg_idx + 1 /\ rpc_args' = Append(rpc_args, TensorPtr(Arg))
        /\ remote_tensor_map' = remote_tensor_map \cup {Place(Arg)}
    BY <1>5 DEF TensorArg, NextArg
  <2>2. Place(Arg)[1] = Arg.storage
    BY DEF Place
  <2>3. Sending' /\ UploadInv'
    BY <1>1, <1>2, <1>3, <1>5, <2>1, <2>2 DEF Sending, UploadInv
  <2>4. ArgsInv'
    BY <1>1, <1>2, <1>5, <2>1, ArgAdded DEF TensorPtr
  <2> QED BY <1>1, <2>3, <2>4, AsideKeeps DEF VInv
<1> QED BY <1>4, <1>5

LEMMA RawArgValues == ASSUME IInv, VInv, RawArg PROVE VInv'
<1>1. /\ pc = "args" /\ arg_idx <= Len(PtrArgs(args)) /\ pc' = pc /\ Aside
      /\ UNCHANGED <<args, storage_remote, remote_addrs, remote_tensor_map, host, memory, stale>>
  BY DEF RawArg, Aside, callVars, serverVars
<1>2. LocalTypes /\ UploadInv /\ ArgsInv /\ Sending
  BY <1>1 DEF IInv, VInv, Sending
<1> DEFINE ptr == IF Place(Arg) \in remote_tensor_map THEN TensorPtr(Arg) ELSE <<None, Arg.cell>>
<1>3. arg_idx' = arg_idx + 1 /\ rpc_args' = Append(rpc_args, ptr)
  BY DEF RawArg, NextArg
<1>4. \/ ptr[1] = None
      \/ storage_remote[Arg.storage] # None /\ ptr = <<storage_remote[Arg.storage], Arg.cell>>
  <2>1. Place(Arg)[1] = Arg.storage
    BY DEF Place
  <2> QED BY <1>2, <2>1 DEF UploadInv, TensorPtr
<1> HIDE DEF ptr
<1>5. ArgsInv'
  BY <1>1, <1>2, <1>3, <1>4, ArgAdded
<1>6. Sending' /\ UploadInv'
  BY <1>1, <1>2 DEF Sending, UploadInv
<1> QED BY <1>1, <1>5, <1>6, AsideKeeps DEF VInv

LEMMA ArgsDoneValues == ASSUME IInv, VInv, ArgsDone PROVE VInv'
<1>1. /\ pc = "args" /\ arg_idx > Len(PtrArgs(args)) /\ pc' = "exec" /\ Aside
      /\ UNCHANGED <<args, localVars, host, memory, stale>>
  BY DEF ArgsDone, Aside, callVars, serverVars
<1>2. LocalTypes /\ UploadInv /\ ArgsInv /\ Sending /\ Sending'
  BY <1>1 DEF IInv, VInv, Sending
<1>3. UploadInv'
  BY <1>1, <1>2 DEF UploadInv, localVars
<1>4. PtrArgs(args) \in Seq([kind : {"tensor", "raw"}, storage : Storages, cell : Cells])
  BY <1>1, <1>2, LaunchAssumption DEF LocalTypes
<1>5. Len(PtrArgs(args)) \in Nat /\ arg_idx \in Nat
  BY <1>2, <1>4, LenProperties DEF LocalTypes
<1>6. ArgsInv'
  BY <1>1, <1>2, <1>5 DEF ArgsInv, Translated, localVars
<1> QED BY <1>1, <1>2, <1>3, <1>6, AsideKeeps DEF VInv

LEMMA LoadBinaryValues == ASSUME IInv, VInv, NEW l \in Launchers, LoadBinary(l) PROVE VInv'
<1>1. /\ pc = "idle" /\ pc' \in {"idle", "load"} /\ launcher' = l /\ outcome' = "none"
      /\ UNCHANGED <<kernel_cache, host, before, wanted, handleCurrent, arg_idx, storage_remote,
                     remote_tensor_map, remote_addrs, memory, kernels, life, late, stale>>
      /\ \/ kernel_handle' = kernel_handle
         \/ kernel_handle' = [kernel_handle EXCEPT ![l] = kernel_cache[CacheKey(l)]]
  BY DEF LoadBinary, localVars, serverVars
<1>2. /\ ~Sending /\ ~Reading /\ ~Sending' /\ ~Reading'
  BY <1>1 DEF Sending, Reading
<1>3. ValueTypes' /\ CallInv'
  BY <1>1, <1>2 DEF VInv, ValueTypes, CallInv, Allocated, OpValues
<1>4. HandleInv'
  <2>1. HandleInv
    BY DEF VInv
  <2>2. kernel_cache[CacheKey(l)] \in Handles
    BY <2>1 DEF HandleInv
  <2>3. kernel_handle' \in [Launchers -> Handles]
    BY <1>1, <2>1, <2>2 DEF HandleInv
  <2>4. ASSUME NEW k \in Launchers
        PROVE  kernel_handle'[k] \in {kernel_handle[k], kernel_cache[CacheKey(l)]}
               /\ (kernel_handle'[k] # kernel_handle[k] => k = l)
    BY <1>1, <2>1 DEF HandleInv
  <2> QED BY <1>1, <2>1, <2>3, <2>4 DEF HandleInv, LoadedIs
<1>5. UploadInv' /\ ArgsInv' /\ ReadInv'
  BY <1>1, <1>2 DEF VInv, UploadInv, ArgsInv, ReadInv
<1> QED BY <1>3, <1>4, <1>5 DEF VInv

LEMMA BeginValues ==
  ASSUME IInv, VInv, NEW l \in Launchers, NEW list \in ArgLists, Begin(l, list) PROVE VInv'
<1>1. /\ pc = "idle" /\ pc' = "args" /\ launcher' = l /\ args' = list /\ outcome' = "none"
      /\ before' = host /\ handleCurrent' = (kernel_handle[l].life = life)
      /\ wanted' = Run(host, [i \in DOMAIN PtrArgs(list) |-> Place(PtrArgs(list)[i])], Binary[l])
      /\ UNCHANGED <<kernel_handle, kernel_cache, host, arg_idx, storage_remote, rpc_args,
                     remote_tensor_map, remote_addrs, memory, kernels, life, late, stale>>
  BY DEF Begin, launcherVars, localVars, serverVars
<1>2. /\ ~Sending /\ ~Reading /\ Sending' /\ ~Reading'
  BY <1>1 DEF Sending, Reading
<1> DEFINE A == [kind : {"tensor", "raw"}, storage : Storages, cell : Cells]
           places == [i \in DOMAIN PtrArgs(list) |-> Place(PtrArgs(list)[i])]
<1>3. /\ PtrArgs(list) \in Seq(A) /\ Binary[l] \in Nat
  BY LaunchAssumption
<1>4. places \in Seq(Storages \X Cells)
  <2>1. \A i \in DOMAIN PtrArgs(list) : PtrArgs(list)[i] \in A
    BY <1>3, ElementOfSeq, LenProperties
  <2>2. \A i \in DOMAIN PtrArgs(list) : Place(PtrArgs(list)[i]) \in Storages \X Cells
    BY <2>1 DEF Place
  <2>3. Len(PtrArgs(list)) \in Nat /\ DOMAIN PtrArgs(list) = 1 .. Len(PtrArgs(list))
    BY <1>3, LenProperties
  <2>4. places \in [1 .. Len(PtrArgs(list)) -> Storages \X Cells]
    BY <2>2, <2>3
  <2> QED BY <2>3, <2>4, SeqDef
<1>5. wanted' \in [Storages -> Numbers]
  <2>1. host \in [Storages -> Numbers]
    BY DEF VInv, ValueTypes
  <2>2. \A s \in Storages : Run(host, places, Binary[l])[s] \in Numbers
    BY <1>3, <1>4, <2>1, RunType
  <2>3. Run(host, places, Binary[l]) = [s \in Storages |-> Run(host, places, Binary[l])[s]]
    BY <2>1 DEF Run
  <2> HIDE DEF places
  <2> QED BY <1>1, <2>2, <2>3 DEF places
<1>6. ValueTypes'
  BY <1>1, <1>5 DEF VInv, ValueTypes, Allocated, OpValues
<1>7. HandleInv'
  BY <1>1 DEF VInv, HandleInv, LoadedIs
<1>8. CallInv'
  <2>1. Places' = places
    BY <1>1 DEF Places
  <2> HIDE DEF places
  <2>2. wanted' = Run(before', Places', Binary[launcher'])
    BY <1>1, <2>1 DEF places
  <2> QED BY <1>1, <1>2, <2>2 DEF CallInv
<1>9. storage_remote = [s \in Storages |-> None] /\ rpc_args = <<>> /\ arg_idx = 1
  BY <1>1, <1>2 DEF IInv, LocalInv, VInv, ArgsInv
<1>10. UploadInv'
  BY <1>1, <1>2, <1>9 DEF VInv, UploadInv
<1>11. ArgsInv'
  <2>1. Len(PtrArgs(list)) \in Nat
    BY <1>3, LenProperties
  <2>2. DOMAIN <<>> = {} /\ Len(<<>>) = 0
    OBVIOUS
  <2> QED BY <1>1, <1>2, <1>9, <2>1, <2>2 DEF ArgsInv
<1>12. ReadInv'
  BY <1>2 DEF ReadInv
<1> QED BY <1>6, <1>7, <1>8, <1>10, <1>11, <1>12 DEF VInv

(* What the server makes of a call: contents and kernels stay sound. *)
LEMMA ServerValues ==
  ASSUME GoodMemory(memory), ValueTypes, NEW op, op.type \in OpTypes, OpValues(op),
         NEW e \in Effects(op), Adopt(e)
  PROVE  /\ \A a \in Allocated' : memory'[a] \in Numbers
         /\ Extends(kernels') /\ life' = life
         /\ \A a \in Allocated \ Mentioned(op) : memory'[a] = memory[a]
<1>1. memory' = e.memory /\ kernels' = e.kernels /\ life' = life
  BY DEF Adopt
<1> QED BY <1>1, EffectValues DEF NumberMemory, Allocated

LEMMA HandlesStay ==
  ASSUME HandleInv, Extends(kernels'), UNCHANGED <<life, launcher, kernel_handle, kernel_cache>>,
         pc' # "idle" => pc # "idle"
  PROVE  HandleInv'
<1>1. \A h, l : LoadedIs(h, l) => LoadedIs(h, l)'
  BY DEF LoadedIs, Extends
<1> QED BY <1>1 DEF HandleInv

(* An exception leaves the storages as they are and forgets the rest. *)
LEMMA AbortValues ==
  ASSUME IInv, VInv, Calling, Abort, Extends(kernels'), life' = life,
         \A a \in Allocated' : memory'[a] \in Numbers,
         late' \subseteq late \cup {Op}
  PROVE  VInv'
<1>1. /\ pc' = "idle" /\ outcome' = "raised" /\ DropLocals
      /\ UNCHANGED <<kernel_handle, kernel_cache, host, launcher, before, wanted, handleCurrent>>
  BY DEF Abort, launcherVars, callVars
<1>2. ~Sending' /\ ~Reading'
  BY <1>1 DEF Sending, Reading
<1>3. OpValues(Op)
  BY OpIsValue
<1>4. ValueTypes'
  <2> DEFINE new == Op
  <2>1. late' \subseteq late \cup {new} /\ OpValues(new)
    BY <1>3
  <2> HIDE DEF new
  <2>2. \A op \in late' : OpValues(op)
    BY <2>1 DEF VInv, ValueTypes
  <2>3. \A op : OpValues(op)' = OpValues(op)
    BY DEF OpValues
  <2> QED BY <1>1, <2>2 DEF VInv, ValueTypes, Extends, OpValues
<1>5. HandleInv'
  BY <1>1, HandlesStay DEF VInv
<1>6. CallInv' /\ ReadInv'
  BY <1>1, <1>2 DEF VInv, CallInv, ReadInv
<1>7. UploadInv' /\ ArgsInv'
  BY <1>1, <1>2 DEF DropLocals, UploadInv, ArgsInv
<1> QED BY <1>4, <1>5, <1>6, <1>7 DEF VInv

LEMMA KernelsStay == ASSUME ValueTypes, kernels' = kernels PROVE Extends(kernels')
  BY DEF ValueTypes, Extends

LEMMA CallRefusedValues == ASSUME IInv, VInv, CallRefused PROVE VInv'
  BY AbortValues, KernelsStay DEF CallRefused, serverVars, VInv, ValueTypes, Allocated

LEMMA StaleConnectionValues == ASSUME IInv, VInv, StaleConnection PROVE VInv'
  BY AbortValues, KernelsStay DEF StaleConnection, serverVars, VInv, ValueTypes, Allocated

LEMMA CallFailsValues == ASSUME IInv, VInv, CallFails PROVE VInv'
<1>1. Calling /\ Abort /\ ValueTypes
  BY DEF CallFails, VInv
<1>2. CASE UNCHANGED serverVars /\ late' \subseteq late \cup {Op}
  BY <1>1, <1>2, AbortValues, KernelsStay DEF serverVars, ValueTypes, Allocated
<1>3. CASE (\E e \in Effects(Op) : Adopt(e)) /\ UNCHANGED late
  <2>1. Op.type \in OpTypes /\ OpValues(Op)
    BY <1>1, OpInv, OpIsValue
  <2> QED BY <1>1, <1>3, <2>1, ServerValues, AbortValues DEF IInv
<1> QED BY <1>2, <1>3 DEF CallFails

-----------------------------------------------------------------------------
(* The steps in which a call returns *)

LEMMA AnsweredValues ==
  ASSUME IInv, VInv, Calling, NEW e \in Answers, Receive(e)
  PROVE  /\ ~stale /\ UNCHANGED <<late, stale, life>>
         /\ e \in Effects(Op) /\ e.ok /\ memory' = e.memory /\ kernels' = e.kernels
         /\ Op.type \in OpTypes /\ OpValues(Op)
         /\ \A a \in Allocated' : memory'[a] \in Numbers
         /\ Extends(kernels')
         /\ \A a \in Allocated \ Mentioned(Op) : memory'[a] = memory[a]
<1>1. /\ ~stale /\ UNCHANGED <<late, stale, life>> /\ e \in Effects(Op) /\ e.ok /\ Adopt(e)
      /\ memory' = e.memory /\ kernels' = e.kernels
  BY Answered DEF Receive, Adopt
<1>2. Op.type \in OpTypes /\ OpValues(Op)
  BY OpInv, OpIsValue
<1>3. /\ \A a \in Allocated' : memory'[a] \in Numbers
      /\ Extends(kernels')
      /\ \A a \in Allocated \ Mentioned(Op) : memory'[a] = memory[a]
  BY <1>1, <1>2, ServerValues DEF IInv, VInv
<1> QED BY <1>1, <1>2, <1>3

LEMMA LateValues ==
  ASSUME ValueTypes, late' \subseteq late PROVE \A op \in late' : OpValues(op)'
  BY DEF ValueTypes, OpValues

LEMMA LoadReturnsValues == ASSUME IInv, VInv, LoadReturns PROVE VInv'
<1>1. PICK e \in Answers :
        /\ Receive(e) /\ pc = "load" /\ pc' = "idle"
        /\ kernel_handle' = [kernel_handle EXCEPT ![launcher] = [handle |-> e.value, life |-> life]]
        /\ kernel_cache' = [kernel_cache EXCEPT ![CacheKey(launcher)] = [handle |-> e.value, life |-> life]]
        /\ UNCHANGED <<host, callVars, localVars, outcome>>
  BY DEF LoadReturns
<1>2. /\ UNCHANGED <<late, stale, life>> /\ e \in Effects(Op) /\ e.ok /\ kernels' = e.kernels
      /\ Op.type \in OpTypes /\ OpValues(Op)
      /\ \A a \in Allocated' : memory'[a] \in Numbers
      /\ Extends(kernels')
  BY <1>1, AnsweredValues DEF Calling
<1>3. Op = [type |-> "load", binary |-> Binary[launcher]]
  BY <1>1, Zenon DEF Op
<1>4. e.value \in Nat /\ e.value \in DOMAIN kernels' /\ kernels'[e.value] = Binary[launcher]
  BY <1>2, <1>3, EffectValues DEF IInv, VInv
<1>5. ~Sending /\ ~Reading /\ ~Sending' /\ ~Reading'
  BY <1>1 DEF Sending, Reading
<1>6. ValueTypes'
  BY <1>1, <1>2, LateValues DEF VInv, ValueTypes, Extends, callVars
<1>7. CallInv' /\ UploadInv' /\ ArgsInv' /\ ReadInv'
  BY <1>1, <1>5 DEF VInv, CallInv, UploadInv, ArgsInv, ReadInv, callVars, localVars
<1>8. HandleInv'
  <2> DEFINE kernel == [handle |-> e.value, life |-> life]
  <2>1. HandleInv /\ launcher \in Launchers /\ life' = life /\ launcher' = launcher
    BY <1>1, <1>2 DEF VInv, HandleInv, callVars
  <2>2. kernel \in Handles /\ kernel.handle = e.value /\ kernel.life = life
    BY <1>4, <2>1 DEF HandleInv, Handles
  <2> HIDE DEF kernel
  <2>3. /\ kernel_handle' = [kernel_handle EXCEPT ![launcher] = kernel]
        /\ kernel_cache' = [kernel_cache EXCEPT ![CacheKey(launcher)] = kernel]
    BY <1>1 DEF kernel
  <2> DEFINE After(h, l) == h \in DOMAIN kernels' /\ kernels'[h] = Binary[l]
  <2>4. \A h, l : LoadedIs(h, l) => After(h, l)
    BY <1>2 DEF LoadedIs, Extends
  <2>5. \A l : CacheKey(l) = CacheKey(launcher) => After(e.value, l)
    BY <1>4 DEF CacheKey
  <2> HIDE DEF After
  <2>6. ASSUME NEW l \in Launchers
        PROVE  /\ kernel_handle'[l] = IF l = launcher THEN kernel ELSE kernel_handle[l]
               /\ kernel_cache'[CacheKey(l)] =
                    IF CacheKey(l) = CacheKey(launcher) THEN kernel ELSE kernel_cache[CacheKey(l)]
    BY <2>1, <2>3 DEF HandleInv
  <2>7. ASSUME NEW l \in Launchers
        PROVE  /\ kernel_handle'[l].life <= life
               /\ kernel_handle'[l].life = life => After(kernel_handle'[l].handle, l)
    <3>1. CASE l = launcher
      BY <2>1, <2>2, <2>5, <2>6, <3>1 DEF HandleInv
    <3>2. CASE l # launcher
      BY <2>1, <2>4, <2>6, <3>2 DEF HandleInv
    <3> QED BY <3>1, <3>2
  <2>8. ASSUME NEW l \in Launchers
        PROVE  /\ kernel_cache'[CacheKey(l)].life <= life
               /\ kernel_cache'[CacheKey(l)].life = life => After(kernel_cache'[CacheKey(l)].handle, l)
    <3>1. CASE CacheKey(l) = CacheKey(launcher)
      BY <2>1, <2>2, <2>5, <2>6, <3>1 DEF HandleInv
    <3>2. CASE CacheKey(l) # CacheKey(launcher)
      BY <2>1, <2>4, <2>6, <3>2 DEF HandleInv
    <3> QED BY <3>1, <3>2
  <2>9. /\ kernel_handle' \in [Launchers -> Handles]
        /\ kernel_cache' \in [{CacheKey(l) : l \in Launchers} -> Handles]
    BY <2>1, <2>2, <2>3 DEF HandleInv
  <2> QED BY <1>1, <2>1, <2>7, <2>8, <2>9 DEF HandleInv, LoadedIs, After
<1> QED BY <1>6, <1>7, <1>8 DEF VInv

LEMMA BufferType ==
  ASSUME LocalTypes, NEW i \in DOMAIN remote_addrs
  PROVE  remote_addrs[i] \in [addr : Addrs, storage : Storages]
<1> DEFINE R == [addr : Addrs, storage : Storages]
<1>1. remote_addrs \in Seq(R)
  BY DEF LocalTypes
<1>2. i \in 1 .. Len(remote_addrs)
  BY <1>1, LenProperties
<1> QED BY <1>1, <1>2, ElementOfSeq

LEMMA AllocReturnsValues == ASSUME IInv, VInv, AllocReturns PROVE VInv'
<1>1. PICK e \in Answers :
        /\ Receive(e) /\ pc = "alloc" /\ pc' = "write"
        /\ storage_remote' = [storage_remote EXCEPT ![Arg.storage] = e.value]
        /\ UNCHANGED <<launcherVars, host, callVars, arg_idx, remote_tensor_map, rpc_args,
                       remote_addrs, outcome>>
  BY DEF AllocReturns
<1>2. /\ ~stale /\ UNCHANGED <<late, stale, life>> /\ e \in Effects(Op) /\ e.ok
      /\ Op.type \in OpTypes /\ OpValues(Op)
      /\ \A a \in Allocated' : memory'[a] \in Numbers
      /\ Extends(kernels')
      /\ \A a \in Allocated \ Mentioned(Op) : memory'[a] = memory[a]
  BY <1>1, AnsweredValues DEF Calling
<1>3. /\ UNCHANGED <<kernel_handle, kernel_cache, launcher, args, before, wanted, handleCurrent, arg_idx>>
      /\ Sending /\ Sending' /\ ~Reading'
  BY <1>1 DEF launcherVars, callVars, Sending, Reading
<1>4. LocalTypes /\ LocalInv /\ UploadInv /\ ArgsInv /\ Owned \subseteq Allocated
  BY <1>1, <1>2 DEF IInv, VInv, LiveInv
<1>5. Op.type = "alloc" /\ e.value \in Addrs \ Allocated
  BY <1>1, <1>2, OpOf, EffectsKeep DEF IInv
<1>6. Arg.storage \in Storages /\ Arg' = Arg /\ storage_remote[Arg.storage] = None
  BY <1>1, <1>3, <1>4, ArgType DEF Arg, LocalInv
<1>7. e.value # None /\ \A s \in Storages : storage_remote[s] # e.value
  BY <1>4, <1>5, LaunchAssumption DEF Owned, None
<1>8. \A s \in Storages : storage_remote'[s] = IF s = Arg.storage THEN e.value ELSE storage_remote[s]
  BY <1>1, <1>4 DEF LocalTypes
<1>9. \A s \in Storages : storage_remote[s] # None => memory'[storage_remote[s]] = memory[storage_remote[s]]
  BY <1>2, <1>4, <1>5 DEF Owned, Mentioned
<1>10. ValueTypes' /\ HandleInv'
  BY <1>1, <1>2, <1>3, LateValues, HandlesStay DEF VInv, ValueTypes, Extends
<1>11. CallInv' /\ ReadInv'
  <2>1. Places' = Places
    BY <1>3 DEF Places
  <2> QED BY <1>1, <1>2, <1>3, <2>1 DEF VInv, CallInv, ReadInv
<1>12. UploadInv'
  <2>1. \A s, t \in Storages : storage_remote'[s] = storage_remote'[t] /\ storage_remote'[s] # None => s = t
    BY <1>4, <1>7, <1>8 DEF UploadInv
  <2>2. ASSUME NEW i \in DOMAIN remote_addrs
        PROVE  remote_addrs[i].addr = storage_remote'[remote_addrs[i].storage]
    <3>1. remote_addrs[i] \in [addr : Addrs, storage : Storages]
      BY <1>4, BufferType
    <3>2. remote_addrs[i].addr = storage_remote[remote_addrs[i].storage] /\ remote_addrs[i].addr # None
      BY <1>4, <3>1, LaunchAssumption DEF UploadInv, None
    <3> QED BY <1>6, <1>8, <3>1, <3>2
  <2>3. \A p \in remote_tensor_map : p[1] \in Storages /\ storage_remote'[p[1]] # None
    BY <1>4, <1>6, <1>8 DEF UploadInv
  <2>4. ASSUME NEW s \in Storages, storage_remote'[s] # None, s # Arg.storage
        PROVE  /\ \E i \in DOMAIN remote_addrs : remote_addrs[i].storage = s
               /\ memory'[storage_remote'[s]] = host[s]
    <3>1. storage_remote'[s] = storage_remote[s]
      BY <1>8, <2>4
    <3> QED BY <1>1, <1>2, <1>3, <1>4, <1>9, <2>4, <3>1 DEF UploadInv
  <2> QED BY <1>1, <1>6, <2>1, <2>2, <2>3, <2>4 DEF UploadInv
<1>13. ArgsInv'
  <2> DEFINE A == [kind : {"tensor", "raw"}, storage : Storages, cell : Cells]
  <2>1. PtrArgs(args) \in Seq(A) /\ rpc_args \in Seq((Addrs \cup {None}) \X Cells) /\ arg_idx \in Nat
    BY <1>1, <1>4, LaunchAssumption DEF LocalTypes
  <2>2. Len(PtrArgs(args)) \in Nat /\ DOMAIN PtrArgs(args) = 1 .. Len(PtrArgs(args))
        /\ DOMAIN rpc_args = 1 .. Len(rpc_args)
    BY <2>1, LenProperties
  <2>3. Len(rpc_args) = arg_idx - 1 /\ arg_idx <= Len(PtrArgs(args)) + 1
    BY <1>3, <1>4 DEF ArgsInv
  <2>4. ASSUME NEW i \in DOMAIN rpc_args PROVE rpc_args[i][1] = None \/ Translated(i)'
    <3>1. i \in DOMAIN PtrArgs(args)
      BY <2>1, <2>2, <2>3
    <3>2. PtrArgs(args)[i] \in A
      BY <2>1, <2>2, <3>1, ElementOfSeq
    <3>3. rpc_args[i][1] = None \/ Translated(i)
      BY <1>3, <1>4 DEF ArgsInv
    <3> QED BY <1>1, <1>3, <1>6, <1>8, <3>2, <3>3 DEF Translated
  <2> QED BY <1>1, <1>3, <2>3, <2>4 DEF ArgsInv
<1> QED BY <1>10, <1>11, <1>12, <1>13 DEF VInv

LEMMA WriteReturnsValues == ASSUME IInv, VInv, WriteReturns PROVE VInv'
<1> DEFINE R == [addr : Addrs, storage : Storages]
<1> DEFINE new == [addr |-> storage_remote[Arg.storage], storage |-> Arg.storage]
<1>1. PICK e \in Answers :
        /\ Receive(e) /\ pc = "write" /\ pc' = "args"
        /\ remote_addrs' = Append(remote_addrs, new)
        /\ UNCHANGED <<launcherVars, host, callVars, arg_idx, storage_remote, remote_tensor_map,
                       rpc_args, outcome>>
  BY DEF WriteReturns
<1>2. /\ ~stale /\ UNCHANGED <<late, stale, life>> /\ e \in Effects(Op) /\ e.ok /\ memory' = e.memory
      /\ Op.type \in OpTypes /\ OpValues(Op)
      /\ \A a \in Allocated' : memory'[a] \in Numbers
      /\ Extends(kernels')
      /\ \A a \in Allocated \ Mentioned(Op) : memory'[a] = memory[a]
  BY <1>1, AnsweredValues DEF Calling
<1>3. /\ UNCHANGED <<kernel_handle, kernel_cache, launcher, args, before, wanted, handleCurrent, arg_idx>>
      /\ Sending /\ Sending' /\ ~Reading'
  BY <1>1 DEF launcherVars, callVars, Sending, Reading
<1>4. LocalTypes /\ LocalInv /\ UploadInv /\ ArgsInv /\ Owned \subseteq Allocated
  BY <1>1, <1>2 DEF IInv, VInv, LiveInv
<1>5. Op.type = "write" /\ Op.addr = storage_remote[Arg.storage] /\ Op.data = host[Arg.storage]
  BY <1>1, OpOf
<1>6. Arg.storage \in Storages /\ Arg' = Arg /\ storage_remote[Arg.storage] \in Addrs
  BY <1>1, <1>3, <1>4, ArgType DEF Arg, LocalInv
<1>7. memory'[storage_remote[Arg.storage]] = host[Arg.storage]
  BY <1>2, <1>5, EffectValues DEF IInv, VInv
<1>8. ASSUME NEW s \in Storages, storage_remote[s] # None, s # Arg.storage
      PROVE  memory'[storage_remote[s]] = memory[storage_remote[s]]
  <2>1. storage_remote[s] # storage_remote[Arg.storage]
    BY <1>4, <1>6, <1>8 DEF UploadInv
  <2> QED BY <1>2, <1>4, <1>5, <1>8, <2>1 DEF Owned, Mentioned
<1>9. ValueTypes' /\ HandleInv'
  BY <1>1, <1>2, <1>3, LateValues, HandlesStay DEF VInv, ValueTypes, Extends
<1>10. CallInv' /\ ReadInv'
  <2>1. Places' = Places
    BY <1>3 DEF Places
  <2> QED BY <1>1, <1>2, <1>3, <2>1 DEF VInv, CallInv, ReadInv
<1>11. ArgsInv'
  BY <1>1, <1>3, <1>4 DEF ArgsInv, Translated
<1>12. remote_addrs \in Seq(R) /\ new \in R
  BY <1>4, <1>6 DEF LocalTypes
<1>13. /\ DOMAIN remote_addrs = 1 .. Len(remote_addrs) /\ Len(remote_addrs) \in Nat
       /\ DOMAIN remote_addrs' = 1 .. Len(remote_addrs) + 1
       /\ remote_addrs'[Len(remote_addrs) + 1] = new
       /\ \A i \in 1 .. Len(remote_addrs) : remote_addrs'[i] = remote_addrs[i]
  BY <1>1, <1>12, AppendProperties, LenProperties
<1>14. UploadInv'
  <2>1. \A i \in DOMAIN remote_addrs' : remote_addrs'[i].addr = storage_remote[remote_addrs'[i].storage]
    BY <1>4, <1>13 DEF UploadInv
  <2>2. ASSUME NEW s \in Storages, storage_remote[s] # None
        PROVE  /\ \E i \in DOMAIN remote_addrs' : remote_addrs'[i].storage = s
               /\ memory'[storage_remote[s]] = host[s]
    <3>1. CASE s = Arg.storage
      <4>1. Len(remote_addrs) + 1 \in DOMAIN remote_addrs' /\ new.storage = s
        BY <1>13, <3>1
      <4> QED BY <1>7, <1>13, <3>1, <4>1
    <3>2. CASE s # Arg.storage
      <4>1. /\ \E i \in DOMAIN remote_addrs : remote_addrs[i].storage = s
            /\ memory[storage_remote[s]] = host[s]
        BY <1>2, <1>3, <1>4, <2>2, <3>2 DEF UploadInv
      <4>2. PICK i \in DOMAIN remote_addrs : remote_addrs[i].storage = s
        BY <4>1
      <4>3. i \in DOMAIN remote_addrs' /\ remote_addrs'[i] = remote_addrs[i]
        BY <1>13
      <4> QED BY <1>8, <2>2, <3>2, <4>1, <4>2, <4>3
    <3> QED BY <3>1, <3>2
  <2> QED BY <1>1, <1>4, <2>1, <2>2 DEF UploadInv
<1> QED BY <1>9, <1>10, <1>11, <1>14 DEF VInv

(* From where the kernel has run, storage after storage becomes what it    *)
(* should be.                                                              *)
LEMMA ReadbackValues ==
  ASSUME IInv, VInv, NEW rest, Readback(rest), pc \in {"exec", "free"},
         UNCHANGED <<launcherVars, host, callVars, late, stale, life>>, ~stale,
         Extends(kernels'), \A a \in Allocated' : memory'[a] \in Numbers,
         \A i \in DOMAIN rest : rest[i].addr = storage_remote[rest[i].storage],
         handleCurrent => \A i \in DOMAIN rest : memory'[rest[i].addr] = wanted[rest[i].storage],
         handleCurrent => \A s \in Storages :
           host[s] = wanted[s] \/ \E i \in DOMAIN rest : rest[i].storage = s
  PROVE  VInv'
<1>1. /\ UNCHANGED <<kernel_handle, kernel_cache, launcher, args, before, wanted, handleCurrent>>
      /\ Sending \/ Reading
  BY DEF launcherVars, callVars, Sending, Reading
<1>2. ValueTypes' /\ HandleInv'
  BY <1>1, LateValues, HandlesStay DEF VInv, ValueTypes, Extends
<1>3. CASE rest = <<>>
  <2>1. /\ pc' = "idle" /\ outcome' = "ok" /\ DropLocals /\ ~Sending' /\ ~Reading'
    BY <1>3 DEF Readback, Sending, Reading
  <2>2. handleCurrent => host = wanted
    <3>1. host \in [Storages -> Numbers] /\ wanted \in [Storages -> Numbers]
      BY DEF VInv, ValueTypes
    <3>2. handleCurrent => \A s \in Storages : host[s] = wanted[s]
      BY <1>3
    <3> QED BY <3>1, <3>2
  <2>3. CallInv'
    BY <1>1, <2>1, <2>2 DEF VInv, CallInv
  <2>4. UploadInv' /\ ArgsInv' /\ ReadInv'
    BY <2>1 DEF DropLocals, UploadInv, ArgsInv, ReadInv
  <2> QED BY <1>2, <2>3, <2>4 DEF VInv
<1>4. CASE rest # <<>>
  <2>1. /\ pc' = "read" /\ remote_addrs' = rest /\ ~Sending' /\ Reading'
        /\ UNCHANGED <<arg_idx, storage_remote, remote_tensor_map, rpc_args, outcome>>
    BY <1>4 DEF Readback, Sending, Reading
  <2>2. Places' = Places
    BY <1>1 DEF Places
  <2>3. CallInv'
    BY <1>1, <2>1, <2>2 DEF VInv, CallInv
  <2>4. UploadInv' /\ ArgsInv'
    BY <1>1, <2>1 DEF VInv, UploadInv, ArgsInv
  <2>5. ReadInv'
    BY <1>1, <2>1 DEF ReadInv
  <2> QED BY <1>2, <2>3, <2>4, <2>5 DEF VInv
<1> QED BY <1>3, <1>4

(* The kernel does to the buffers what it would do to the storages: each   *)
(* of its pointers is into the buffer of its argument's storage.           *)
LEMMA ExecReturnsValues == ASSUME IInv, VInv, ExecReturns PROVE VInv'
<1>1. PICK e \in Answers :
        Receive(e) /\ pc = "exec" /\ Readback(remote_addrs) /\ UNCHANGED <<launcherVars, host, callVars>>
  BY DEF ExecReturns
<1>2. /\ ~stale /\ UNCHANGED <<late, stale, life>> /\ e \in Effects(Op) /\ e.ok /\ memory' = e.memory
      /\ Op.type \in OpTypes /\ OpValues(Op)
      /\ \A a \in Allocated' : memory'[a] \in Numbers
      /\ Extends(kernels')
  BY <1>1, AnsweredValues DEF Calling
<1>3. Op = [type |-> "exec", handle |-> kernel_handle[launcher].handle, ptrs |-> rpc_args]
  BY <1>1, Zenon DEF Op
<1>4. /\ kernel_handle[launcher].handle \in DOMAIN kernels
      /\ \A i \in DOMAIN rpc_args : rpc_args[i][1] \in Allocated
      /\ memory' = Run(memory, rpc_args, kernels[kernel_handle[launcher].handle])
  BY <1>2, <1>3, EffectValues DEF IInv, VInv
<1>5. LocalTypes /\ LocalInv /\ UploadInv /\ ArgsInv /\ CallInv /\ Owned \subseteq Allocated /\ Sending
  BY <1>1, <1>2 DEF IInv, VInv, LiveInv, Sending
<1> DEFINE A == [kind : {"tensor", "raw"}, storage : Storages, cell : Cells]
<1>6. PtrArgs(args) \in Seq(A)
  BY <1>1, <1>5, LaunchAssumption DEF LocalTypes
<1>7. DOMAIN rpc_args = DOMAIN PtrArgs(args) /\ DOMAIN PtrArgs(args) = 1 .. Len(PtrArgs(args))
  <2>1. /\ DOMAIN rpc_args = 1 .. Len(rpc_args) /\ DOMAIN PtrArgs(args) = 1 .. Len(PtrArgs(args))
        /\ Len(PtrArgs(args)) \in Nat
    BY <1>5, <1>6, LenProperties DEF LocalTypes
  <2>2. Len(rpc_args) = arg_idx - 1 /\ arg_idx = Len(PtrArgs(args)) + 1
    BY <1>1, <1>5 DEF ArgsInv
  <2> QED BY <2>1, <2>2
<1>8. \A i \in DOMAIN rpc_args : Translated(i)
  <2>1. \A i \in DOMAIN rpc_args : rpc_args[i][1] # None
    BY <1>4, LaunchAssumption DEF Allocated, None
  <2> QED BY <1>5, <2>1 DEF ArgsInv
<1>9. \A i \in DOMAIN PtrArgs(args) : PtrArgs(args)[i].storage \in Storages /\ PtrArgs(args)[i].cell \in Cells
  <2>1. \A i \in DOMAIN PtrArgs(args) : PtrArgs(args)[i] \in A
    BY <1>6, <1>7, ElementOfSeq
  <2> QED BY <2>1
<1>10. /\ DOMAIN memory = Addrs /\ \A a \in Allocated : memory[a] \in Numbers
       /\ host \in [Storages -> Numbers] /\ wanted \in [Storages -> Numbers] /\ before = host
       /\ wanted = Run(host, Places, Binary[launcher]) /\ DOMAIN Places = DOMAIN rpc_args
       /\ Binary[launcher] \in Nat
  BY <1>1, <1>5, <1>7, LaunchAssumption DEF IInv, VInv, GoodMemory, ValueTypes, CallInv, HandleInv, Places
<1>11. ASSUME handleCurrent
       PROVE  kernels[kernel_handle[launcher].handle] = Binary[launcher]
  <2>1. kernel_handle[launcher].life = life /\ launcher \in Launchers
    BY <1>1, <1>2, <1>5, <1>11 DEF CallInv, VInv, HandleInv
  <2> QED BY <2>1 DEF VInv, HandleInv, LoadedIs
<1>12. ASSUME handleCurrent, NEW s \in Storages, storage_remote[s] # None
       PROVE  memory'[storage_remote[s]] = wanted[s]
  <2>1. storage_remote[s] \in Allocated /\ storage_remote[s] \in DOMAIN memory
    BY <1>5, <1>12 DEF Owned, Allocated, IInv, GoodMemory
  <2>2. memory[storage_remote[s]] = host[s]
    BY <1>1, <1>2, <1>5, <1>12 DEF UploadInv
  <2>3. ASSUME NEW i \in DOMAIN rpc_args, NEW c \in Cells
        PROVE  rpc_args[i] = <<storage_remote[s], c>> <=> Places[i] = <<s, c>>
    <3> DEFINE a == PtrArgs(args)[i]
    <3>1. a.storage \in Storages /\ storage_remote[a.storage] # None
          /\ rpc_args[i] = <<storage_remote[a.storage], a.cell>> /\ Places[i] = <<a.storage, a.cell>>
      BY <1>7, <1>8, <1>9 DEF Translated, Places, Place
    <3>2. storage_remote[a.storage] = storage_remote[s] <=> a.storage = s
      BY <1>5, <3>1 DEF UploadInv
    <3> HIDE DEF a
    <3> QED BY <3>1, <3>2
  <2>4. Run(memory, rpc_args, Binary[launcher])[storage_remote[s]] = Run(host, Places, Binary[launcher])[s]
    <3> DEFINE a == storage_remote[s]
    <3> DEFINE Count(c) == Cardinality({i \in DOMAIN rpc_args : rpc_args[i] = <<a, c>>})
    <3> DEFINE CountAt(c) == Cardinality({i \in DOMAIN Places : Places[i] = <<s, c>>})
    <3>1. Run(memory, rpc_args, Binary[launcher])[a] =
            [c \in Cells |-> memory[a][c] + Binary[launcher] * Count(c)]
      <4>1. a \in DOMAIN memory /\ memory[a] \in Numbers
        BY <1>10, <2>1
      <4> HIDE DEF a
      <4> QED BY <4>1 DEF Run, Numbers
    <3>2. Run(host, Places, Binary[launcher])[s] =
            [c \in Cells |-> host[s][c] + Binary[launcher] * CountAt(c)]
      <4>1. s \in DOMAIN host /\ host[s] \in Numbers
        BY <1>10
      <4> QED BY <4>1 DEF Run, Numbers
    <3>3. \A c \in Cells : Count(c) = CountAt(c)
      <4>1. ASSUME NEW c \in Cells
            PROVE  {i \in DOMAIN rpc_args : rpc_args[i] = <<a, c>>} = {i \in DOMAIN Places : Places[i] = <<s, c>>}
        BY <1>10, <2>3
      <4> QED BY <4>1
    <3> HIDE DEF Count, CountAt
    <3> QED BY <2>2, <3>1, <3>2, <3>3
  <2> QED BY <1>4, <1>10, <1>11, <1>12, <2>4
<1>13. ASSUME NEW s \in Storages, storage_remote[s] = None
       PROVE  wanted[s] = host[s]
  <2>1. ASSUME NEW i \in DOMAIN Places, NEW c \in Cells PROVE Places[i] # <<s, c>>
    BY <1>7, <1>8, <1>10, <1>13, <2>1 DEF Translated, Places, Place
  <2>2. s \in DOMAIN host /\ host[s] \in Numbers
    BY <1>10
  <2> QED BY <1>10, <2>1, <2>2, RunApart
<1>14. \A i \in DOMAIN remote_addrs : remote_addrs[i].addr = storage_remote[remote_addrs[i].storage]
  BY <1>5 DEF UploadInv
<1>15. ASSUME handleCurrent, NEW i \in DOMAIN remote_addrs
       PROVE  memory'[remote_addrs[i].addr] = wanted[remote_addrs[i].storage]
  <2>1. remote_addrs[i].storage \in Storages /\ remote_addrs[i].addr # None
    BY <1>5, BufferType, LaunchAssumption DEF None
  <2> QED BY <1>12, <1>14, <1>15, <2>1
<1>16. ASSUME NEW s \in Storages
       PROVE  host[s] = wanted[s] \/ \E i \in DOMAIN remote_addrs : remote_addrs[i].storage = s
  BY <1>1, <1>5, <1>13 DEF UploadInv
<1> QED BY <1>1, <1>2, <1>14, <1>15, <1>16, ReadbackValues

LEMMA ReadReturnsValues == ASSUME IInv, VInv, ReadReturns PROVE VInv'
<1> DEFINE read == Head(remote_addrs).storage
<1>1. PICK e \in Answers :
        /\ Receive(e) /\ pc = "read" /\ pc' = "free" /\ host' = [host EXCEPT ![read] = e.value]
        /\ UNCHANGED <<launcherVars, callVars, localVars, outcome>>
  BY DEF ReadReturns
<1>2. /\ ~stale /\ UNCHANGED <<late, stale, life>> /\ e \in Effects(Op) /\ e.ok /\ memory' = e.memory
      /\ Op.type \in OpTypes /\ OpValues(Op)
      /\ \A a \in Allocated' : memory'[a] \in Numbers
      /\ Extends(kernels')
      /\ \A a \in Allocated \ Mentioned(Op) : memory'[a] = memory[a]
  BY <1>1, AnsweredValues DEF Calling
<1>3. /\ UNCHANGED <<kernel_handle, kernel_cache, launcher, args, before, wanted, handleCurrent,
                     arg_idx, storage_remote, remote_tensor_map, rpc_args, remote_addrs, outcome>>
      /\ Reading /\ Reading' /\ ~Sending' /\ ~Sending
  BY <1>1 DEF launcherVars, callVars, localVars, Sending, Reading
<1>4. LocalTypes /\ LocalInv /\ LiveInv /\ remote_addrs # <<>>
  BY <1>1 DEF IInv, LocalInv
<1>5. /\ Head(remote_addrs) = remote_addrs[1] /\ 1 \in DOMAIN remote_addrs
      /\ read \in Storages
  BY <1>4, HeadBuffer
<1>6. Op = [type |-> "read", addr |-> Head(remote_addrs).addr]
  BY <1>1, Zenon DEF Op
<1>7. Head(remote_addrs).addr \in Allocated /\ e.value = memory[Head(remote_addrs).addr]
  BY <1>2, <1>6, EffectValues DEF IInv, VInv
<1>8. e.value \in Numbers
  BY <1>7 DEF VInv, ValueTypes
<1>9. handleCurrent => e.value = wanted[read]
  BY <1>2, <1>3, <1>5, <1>7 DEF VInv, ReadInv
<1>10. host \in [Storages -> Numbers]
  BY DEF VInv, ValueTypes
<1>11. \A s \in Storages : host'[s] = IF s = read THEN e.value ELSE host[s]
  BY <1>1, <1>10
<1>12. ValueTypes' /\ HandleInv'
  <2>1. host' \in [Storages -> Numbers]
    BY <1>1, <1>8, <1>10
  <2> QED BY <1>1, <1>2, <1>3, <2>1, LateValues, HandlesStay DEF VInv, ValueTypes, Extends
<1>13. CallInv'
  <2>1. Places' = Places
    BY <1>3 DEF Places
  <2> QED BY <1>2, <1>3, <1>9, <1>11, <2>1 DEF VInv, CallInv
<1>14. UploadInv' /\ ArgsInv'
  BY <1>3 DEF VInv, UploadInv, ArgsInv
<1>15. ReadInv'
  <2>1. \A i \in DOMAIN remote_addrs : memory'[remote_addrs[i].addr] = memory[remote_addrs[i].addr]
    <3>1. Buffers \subseteq Allocated /\ Mentioned(Op) = {}
      BY <1>2, <1>4, <1>6 DEF LiveInv, Mentioned
    <3> QED BY <1>2, <3>1 DEF Buffers
  <2>2. ASSUME handleCurrent, NEW s \in Storages
        PROVE  host'[s] = wanted[s] \/ \E i \in DOMAIN remote_addrs : i # 1 /\ remote_addrs[i].storage = s
    <3>1. host[s] = wanted[s] \/ \E i \in DOMAIN remote_addrs : remote_addrs[i].storage = s
      BY <1>3, <2>2 DEF VInv, ReadInv
    <3> QED BY <1>5, <1>9, <1>11, <2>2, <3>1
  <2>3. handleCurrent /\ ~stale =>
          \A i \in DOMAIN remote_addrs : memory'[remote_addrs[i].addr] = wanted[remote_addrs[i].storage]
    BY <1>3, <2>1 DEF VInv, ReadInv
  <2> QED BY <1>2, <1>3, <2>2, <2>3 DEF ReadInv
<1> QED BY <1>12, <1>13, <1>14, <1>15 DEF VInv

LEMMA FreeReturnsValues == ASSUME IInv, VInv, FreeReturns PROVE VInv'
<1> DEFINE R == [addr : Addrs, storage : Storages]
<1> DEFINE rest == Tail(remote_addrs)
<1>1. PICK e \in Answers :
        Receive(e) /\ pc = "free" /\ Readback(rest) /\ UNCHANGED <<launcherVars, host, callVars>>
  BY DEF FreeReturns
<1>2. /\ ~stale /\ UNCHANGED <<late, stale, life>>
      /\ \A a \in Allocated' : memory'[a] \in Numbers
      /\ Extends(kernels')
      /\ \A a \in Allocated \ Mentioned(Op) : memory'[a] = memory[a]
  BY <1>1, AnsweredValues DEF Calling
<1>3. LocalTypes /\ LocalInv /\ LiveInv /\ remote_addrs # <<>> /\ UploadInv /\ ReadInv
      /\ Reading /\ pc # "read"
  BY <1>1 DEF IInv, LocalInv, VInv, Reading
<1>4. remote_addrs \in Seq(R)
  BY <1>3 DEF LocalTypes
<1>5. /\ rest \in Seq(R) /\ DOMAIN rest = 1 .. Len(remote_addrs) - 1
      /\ DOMAIN remote_addrs = 1 .. Len(remote_addrs) /\ Len(remote_addrs) \in Nat
      /\ \A i \in 1 .. Len(remote_addrs) - 1 : rest[i] = remote_addrs[i + 1]
  BY <1>3, <1>4, HeadTailProperties, LenProperties, EmptySeq
<1>6. Head(remote_addrs) = remote_addrs[1] /\ 1 \in DOMAIN remote_addrs /\ Buffers \subseteq Allocated
  BY <1>2, <1>3, HeadBuffer DEF LiveInv
<1>7. Mentioned(Op) = {remote_addrs[1].addr}
  BY <1>1, <1>6, OpOf DEF Mentioned
<1> HIDE DEF rest
<1>8. \A i \in DOMAIN rest : i + 1 \in DOMAIN remote_addrs /\ i + 1 # 1 /\ rest[i] = remote_addrs[i + 1]
  BY <1>5
<1>9. \A i \in DOMAIN rest : rest[i].addr = storage_remote[rest[i].storage]
  BY <1>3, <1>8 DEF UploadInv
<1>10. \A j \in DOMAIN remote_addrs : j # 1 => memory'[remote_addrs[j].addr] = memory[remote_addrs[j].addr]
  <2>1. \A j \in DOMAIN remote_addrs : j # 1 => remote_addrs[j].addr # remote_addrs[1].addr
    BY <1>3, <1>6 DEF LocalInv
  <2> QED BY <1>2, <1>6, <1>7, <2>1 DEF Buffers
<1>11. handleCurrent => \A i \in DOMAIN rest : memory'[rest[i].addr] = wanted[rest[i].storage]
  BY <1>2, <1>3, <1>8, <1>10 DEF ReadInv
<1>12. ASSUME handleCurrent, NEW s \in Storages
       PROVE  host[s] = wanted[s] \/ \E i \in DOMAIN rest : rest[i].storage = s
  <2>1. host[s] = wanted[s] \/ \E j \in DOMAIN remote_addrs : j # 1 /\ remote_addrs[j].storage = s
    BY <1>3, <1>12 DEF ReadInv
  <2>2. ASSUME NEW j \in DOMAIN remote_addrs, j # 1
        PROVE  j - 1 \in DOMAIN rest /\ rest[j - 1] = remote_addrs[j]
    BY <1>5, <2>2
  <2> QED BY <2>1, <2>2
<1> QED BY <1>1, <1>2, <1>9, <1>11, <1>12, ReadbackValues

-----------------------------------------------------------------------------
(* The steps of the server *)

LEMMA PerformLateValues == ASSUME IInv, VInv, NEW op \in late, PerformLate(op) PROVE VInv'
<1>1. /\ late' \subseteq late
      /\ UNCHANGED <<kernel_handle, kernel_cache, host, pc, launcher, args, before, wanted, handleCurrent,
                     arg_idx, storage_remote, remote_tensor_map, rpc_args, remote_addrs, outcome, stale>>
  BY DEF PerformLate, launcherVars, callVars, localVars
<1>2. PICK e \in Effects(op) : Adopt(e)
  BY DEF PerformLate
<1>3. /\ op.type \in OpTypes /\ OpValues(op) /\ Mentioned(op) \cap Owned = {}
      /\ GoodMemory(memory) /\ ValueTypes
  BY DEF IInv, LateInv, VInv, ValueTypes
<1>4. /\ \A a \in Allocated' : memory'[a] \in Numbers
      /\ Extends(kernels') /\ life' = life
      /\ \A a \in Allocated \ Mentioned(op) : memory'[a] = memory[a]
  BY <1>2, <1>3, ServerValues
<1>5. /\ Sending' = Sending /\ Reading' = Reading /\ Arg' = Arg /\ Places' = Places
  BY <1>1 DEF Sending, Reading, Arg, Places
<1>6. ValueTypes' /\ HandleInv'
  BY <1>1, <1>4, LateValues, HandlesStay DEF VInv, ValueTypes, Extends
<1>7. CallInv' /\ ArgsInv'
  BY <1>1, <1>4, <1>5 DEF VInv, CallInv, ArgsInv, Translated
<1>8. \A a \in Allocated \cap Owned : memory'[a] = memory[a]
  BY <1>3, <1>4
<1>9. UploadInv'
  <2>1. ASSUME Sending, ~stale, NEW s \in Storages, storage_remote[s] # None
        PROVE  memory'[storage_remote[s]] = memory[storage_remote[s]]
    <3>1. Owned \subseteq Allocated
      BY <2>1 DEF IInv, LiveInv, Sending
    <3> QED BY <1>8, <2>1, <3>1 DEF Owned
  <2> QED BY <1>1, <1>5, <2>1 DEF VInv, UploadInv
<1>10. ReadInv'
  <2>1. ~stale => \A i \in DOMAIN remote_addrs : memory'[remote_addrs[i].addr] = memory[remote_addrs[i].addr]
    <3>1. Buffers \subseteq Owned /\ (~stale => Buffers \subseteq Allocated)
      BY DEF IInv, LocalInv, LiveInv
    <3> QED BY <1>8, <3>1 DEF Buffers
  <2> QED BY <1>1, <1>5, <2>1 DEF VInv, ReadInv
<1> QED BY <1>6, <1>7, <1>9, <1>10 DEF VInv

LEMMA RestartValues == ASSUME IInv, VInv, Restart PROVE VInv'
<1>1. /\ memory' = [a \in Addrs |-> Free] /\ kernels' = <<>> /\ life' = life + 1
      /\ late' = {} /\ stale' = TRUE
      /\ UNCHANGED <<kernel_handle, kernel_cache, host, pc, launcher, args, before, wanted, handleCurrent,
                     arg_idx, storage_remote, remote_tensor_map, rpc_args, remote_addrs, outcome>>
  BY DEF Restart, launcherVars, callVars, localVars
<1>2. /\ Sending' = Sending /\ Reading' = Reading /\ Arg' = Arg /\ Places' = Places
  BY <1>1 DEF Sending, Reading, Arg, Places
<1>3. ValueTypes'
  <2>1. Allocated' = {}
    BY <1>1 DEF Allocated
  <2> QED BY <1>1, <2>1, EmptySeq DEF VInv, ValueTypes
<1>4. HandleInv'
  <2>1. HandleInv /\ life \in Nat \ {0}
    BY DEF VInv, HandleInv
  <2>2. ASSUME NEW l \in Launchers
        PROVE  /\ kernel_handle[l].life <= life + 1 /\ kernel_handle[l].life # life + 1
               /\ kernel_cache[CacheKey(l)].life <= life + 1 /\ kernel_cache[CacheKey(l)].life # life + 1
    <3>1. kernel_handle[l].life <= life /\ kernel_cache[CacheKey(l)].life <= life
      BY <2>1 DEF HandleInv
    <3>2. kernel_handle[l].life \in Nat /\ kernel_cache[CacheKey(l)].life \in Nat
      BY <2>1 DEF HandleInv, Handles
    <3> QED BY <2>1, <3>1, <3>2
  <2> QED BY <1>1, <2>1, <2>2 DEF HandleInv
<1>5. CallInv' /\ ArgsInv' /\ UploadInv' /\ ReadInv'
  BY <1>1, <1>2 DEF VInv, CallInv, ArgsInv, Translated, UploadInv, ReadInv
<1> QED BY <1>3, <1>4, <1>5 DEF VInv

LEMMA StutterValues == ASSUME IInv, VInv, UNCHANGED vars PROVE VInv'
<1>1. UNCHANGED <<kernel_handle, kernel_cache, host, pc, launcher, args, before, wanted, handleCurrent,
                  arg_idx, storage_remote, remote_tensor_map, rpc_args, remote_addrs, outcome,
                  memory, kernels, life, late, stale>>
  BY DEF vars, launcherVars, callVars, localVars, serverVars
<1>2. /\ Sending' = Sending /\ Reading' = Reading /\ Arg' = Arg /\ Places' = Places
      /\ Allocated' = Allocated
  BY <1>1 DEF Sending, Reading, Arg, Places, Allocated
<1>3. ValueTypes' /\ HandleInv'
  BY <1>1, <1>2 DEF VInv, ValueTypes, OpValues, HandleInv, LoadedIs
<1>4. CallInv' /\ ArgsInv'
  BY <1>1, <1>2 DEF VInv, CallInv, ArgsInv, Translated
<1>5. UploadInv' /\ ReadInv'
  BY <1>1, <1>2 DEF VInv, UploadInv, ReadInv
<1> QED BY <1>3, <1>4, <1>5 DEF VInv

-----------------------------------------------------------------------------
LEMMA InitialValues == Init => VInv
<1> SUFFICES ASSUME Init PROVE VInv
  OBVIOUS
<1>1. ~Sending /\ ~Reading
  BY DEF Init, Sending, Reading
<1>2. ValueTypes
  <2>1. Allocated = {} /\ host \in [Storages -> Numbers]
    BY DEF Init, Allocated, Numbers
  <2> QED BY <2>1, EmptySeq DEF Init, ValueTypes
<1>3. HandleInv
  <2>1. NoKernel \in Handles /\ NoKernel.life = 0
    BY DEF NoKernel, Handles, None
  <2>2. /\ kernel_handle = [l \in Launchers |-> NoKernel] /\ life = 1 /\ pc = "idle"
        /\ kernel_cache = [k \in {CacheKey(l) : l \in Launchers} |-> NoKernel]
    BY DEF Init
  <2>3. \A l \in Launchers : kernel_handle[l] = NoKernel /\ kernel_cache[CacheKey(l)] = NoKernel
    BY <2>2
  <2> QED BY <2>1, <2>2, <2>3 DEF HandleInv
<1>4. CallInv /\ ReadInv
  BY <1>1 DEF Init, CallInv, ReadInv
<1>5. UploadInv /\ ArgsInv
  BY <1>1 DEF Init, UploadInv, ArgsInv
<1> QED BY <1>2, <1>3, <1>4, <1>5 DEF VInv

LEMMA ValuesInductive == Spec => []VInv
<1>1. IInv /\ VInv /\ [Next]_vars => VInv'
  <2> SUFFICES ASSUME IInv, VInv, [Next]_vars PROVE VInv'
    OBVIOUS
  <2>1. CASE \E l \in Launchers : LoadBinary(l)
    BY <2>1, LoadBinaryValues
  <2>2. CASE \E l \in Launchers, list \in ArgLists : Begin(l, list)
    BY <2>2, BeginValues
  <2>3. CASE Program
    BY <2>3, LoadReturnsValues, TensorArgValues, AllocReturnsValues, WriteReturnsValues, RawArgValues,
       ArgsDoneValues, ExecReturnsValues, ReadReturnsValues, FreeReturnsValues, CallRefusedValues,
       StaleConnectionValues, CallFailsValues DEF Program
  <2>4. CASE \E op \in late : PerformLate(op)
    BY <2>4, PerformLateValues
  <2>5. CASE Restart
    BY <2>5, RestartValues
  <2>6. CASE UNCHANGED vars
    BY <2>6, StutterValues
  <2> QED BY <2>1, <2>2, <2>3, <2>4, <2>5, <2>6 DEF Next
<1> QED BY <1>1, Inductive, InitialValues, PTL DEF Spec

(* A launch (RPCLauncher.__call__) that returns has done to the host's     *)
(* storages what its kernel would have done to them in place, through all  *)
(* the aliases among its arguments, whatever calls of earlier launches the *)
(* server performs meanwhile: for all kernels, argument lists and storages.*)
THEOREM LaunchCorrectHolds == Spec => []LaunchCorrect
<1>1. VInv => LaunchCorrect
  BY DEF VInv, CallInv, LaunchCorrect
<1> QED BY <1>1, ValuesInductive, PTL

(* While a launch runs, and after any of its calls has raised, each host   *)
(* storage is as it was before the launch or as the launch should leave    *)
(* it, and never holds part of either or another launch's buffer.          *)
THEOREM OldOrNewHolds == Spec => []OldOrNew
<1>1. VInv => OldOrNew
  BY DEF VInv, CallInv, OldOrNew
<1> QED BY <1>1, ValuesInductive, PTL

-----------------------------------------------------------------------------
(* What is left allocated.  The buffers a launch still has to free, the    *)
(* one it is uploading to among them, are not lost yet; a call that        *)
(* allocates can be performed after the launch gave it up.                 *)

Held == Buffers \cup (IF pc = "write" THEN {storage_remote[Arg.storage]} ELSE {})

LateAlloc == [type |-> "alloc"]

Lost == Cardinality(Allocated \ Held) + (IF LateAlloc \in late THEN 1 ELSE 0)

Limit == aborts * Cardinality(Storages)

OtherTypes ==
  /\ launcher \in Launchers /\ args \in ArgLists \cup {<<>>}
  /\ outcome \in {"none", "ok", "raised"} /\ stale \in BOOLEAN /\ faults \in 0 .. MaxFaults

LeakInv ==
  /\ aborts \in Nat /\ IsFiniteSet(Allocated)
  /\ \A op \in late : op.type = "alloc" => op = LateAlloc
  /\ Lost <= Limit

LEMMA LimitGrows ==
  ASSUME aborts \in Nat
  PROVE  /\ Cardinality(Storages) \in Nat /\ Limit \in Nat
         /\ (aborts + 1) * Cardinality(Storages) = Limit + Cardinality(Storages)
<1>1. Cardinality(Storages) \in Nat
  BY LaunchAssumption, FS_CardinalityType
<1>2. \A a, c \in Nat : a * c \in Nat /\ (a + 1) * c = a * c + c
  OBVIOUS
<1> QED BY <1>1, <1>2 DEF Limit

(* What holds of a set and of any set it is contained in. *)
LEMMA FewerLost ==
  ASSUME NEW S, IsFiniteSet(S), NEW T, T \subseteq S
  PROVE  /\ IsFiniteSet(T) /\ Cardinality(T) \in Nat /\ Cardinality(S) \in Nat
         /\ Cardinality(T) <= Cardinality(S)
  BY FS_Subset, FS_CardinalityType

(* A call gives out a buffer if it allocates, and none otherwise. *)
LEMMA GivenOut ==
  ASSUME GoodMemory(memory), NEW op, op.type \in OpTypes, op.type = "write" => DOMAIN op.data = Cells,
         NEW e \in Effects(op), Adopt(e)
  PROVE  \/ Allocated' \subseteq Allocated
         \/ op.type = "alloc" /\ \E a \in Addrs \ Allocated : Allocated' = Allocated \cup {a} /\ e.value = a
<1>1. memory' = e.memory
  BY DEF Adopt
<1>2. CASE e = Refused
  BY <1>1, <1>2 DEF Refused, Served, Allocated
<1>3. CASE op.type = "load"
  BY <1>1, <1>3, OfLoad DEF Served, Allocated
<1>4. CASE op.type = "alloc" /\ e # Refused
  <2>1. PICK a \in Addrs \ Allocated :
          e = Served([memory EXCEPT ![a] = [c \in Cells |-> -1]], kernels, TRUE, a)
    BY <1>4, OfAlloc
  <2>2. memory' = [memory EXCEPT ![a] = [c \in Cells |-> -1]] /\ e.value = a
    BY <1>1, <2>1 DEF Served
  <2>3. [c \in Cells |-> -1] # Free
    BY Full
  <2>4. Allocated' = Allocated \cup {a}
    BY <2>2, <2>3 DEF GoodMemory, Allocated
  <2> QED BY <1>4, <2>2, <2>4
<1>5. CASE op.type = "write" /\ e # Refused
  <2>1. op.addr \in Allocated /\ e = Served([memory EXCEPT ![op.addr] = op.data], kernels, TRUE, None)
    BY <1>5, OfWrite
  <2>2. memory' = [memory EXCEPT ![op.addr] = op.data]
    BY <1>1, <2>1 DEF Served
  <2> QED BY <2>1, <2>2 DEF GoodMemory, Allocated
<1>6. CASE op.type = "exec" /\ e # Refused
  <2>1. memory' = Run(memory, op.ptrs, kernels[op.handle])
    BY <1>1, <1>6, OfExec DEF Served
  <2>2. \A a \in Addrs : memory[a] # Free <=> memory'[a] # Free
    BY <2>1, RunKeeps
  <2> QED BY <2>2 DEF Allocated
<1>7. CASE op.type = "read" /\ e # Refused
  BY <1>1, <1>7, OfRead DEF Served, Allocated
<1>8. CASE op.type = "free"
  <2>1. memory' = [memory EXCEPT ![op.addr] = Free]
    BY <1>1, <1>8, OfFree DEF Served
  <2> QED BY <2>1 DEF GoodMemory, Allocated
<1> QED BY <1>2, <1>3, <1>4, <1>5, <1>6, <1>7, <1>8 DEF OpTypes

(* A step loses nothing that keeps hold of what stays allocated. *)
LEMMA NothingLost ==
  ASSUME IInv, LeakInv, aborts' = aborts, late' \subseteq late,
         Allocated' \ Held' \subseteq Allocated \ Held, IsFiniteSet(Allocated')
  PROVE  LeakInv'
<1>1. /\ Cardinality(Allocated \ Held) \in Nat /\ Cardinality(Allocated' \ Held') \in Nat
      /\ Cardinality(Allocated' \ Held') <= Cardinality(Allocated \ Held)
  <2>1. IsFiniteSet(Allocated \ Held)
    BY FS_Subset DEF LeakInv
  <2> QED BY <2>1, FewerLost
<1>2. Limit' = Limit /\ Limit \in Nat
  BY LimitGrows DEF LeakInv, Limit
<1>3. LateAlloc' = LateAlloc
  BY DEF LateAlloc
<1>4. LateAlloc \in late' => LateAlloc \in late
  OBVIOUS
<1>5. Lost' <= Lost /\ Lost \in Nat /\ Lost' \in Nat
  BY <1>1, <1>3, <1>4 DEF Lost
<1> QED BY <1>2, <1>3, <1>5 DEF LeakInv

(* A launch holds at most one buffer per storage, and one less before it   *)
(* is given the next.                                                      *)
LEMMA HeldBound ==
  ASSUME IInv, pc # "idle"
  PROVE  /\ Held \subseteq Owned /\ IsFiniteSet(Held) /\ Cardinality(Held) \in Nat
         /\ Cardinality(Held) <= Cardinality(Storages)
         /\ pc = "alloc" => Cardinality(Held) + 1 <= Cardinality(Storages)
<1> DEFINE U == {s \in Storages : storage_remote[s] # None}
           f == [s \in U |-> storage_remote[s]]
<1>1. LocalTypes /\ LocalInv /\ IsFiniteSet(Storages)
  BY LaunchAssumption DEF IInv
<1>2. pc = "write" => storage_remote[Arg.storage] \in Owned
  BY <1>1, ArgType, LaunchAssumption DEF LocalInv, Owned, None
<1>3. Held \subseteq Owned
  BY <1>1, <1>2 DEF Held, LocalInv
<1>4. f \in Surjection(U, Owned)
  BY DEF Surjection, Owned
<1>5. IsFiniteSet(U) /\ Cardinality(U) \in Nat /\ Cardinality(U) <= Cardinality(Storages)
  BY <1>1, FewerLost
<1>6. IsFiniteSet(Owned) /\ Cardinality(Owned) <= Cardinality(U)
  <2> HIDE DEF U, f
  <2> QED BY <1>4, <1>5, FS_Surjection
<1>7. IsFiniteSet(Held) /\ Cardinality(Held) \in Nat /\ Cardinality(Owned) \in Nat
      /\ Cardinality(Held) <= Cardinality(Owned)
  BY <1>3, <1>6, FewerLost
<1>8. Cardinality(Storages) \in Nat
  BY <1>1, FS_CardinalityType
<1>9. ASSUME pc = "alloc" PROVE Cardinality(U) + 1 <= Cardinality(Storages)
  <2>1. Arg.storage \in Storages /\ Arg.storage \notin U
    BY <1>1, <1>9, ArgType DEF LocalInv
  <2> DEFINE V == Storages \ {Arg.storage}
  <2>2. IsFiniteSet(V) /\ Cardinality(V) = Cardinality(Storages) - 1
    BY <1>1, <2>1, FS_RemoveElement
  <2>3. U \subseteq V
    BY <2>1
  <2> HIDE DEF U, V
  <2>4. Cardinality(U) <= Cardinality(V)
    BY <2>2, <2>3, FewerLost
  <2> QED BY <2>2, <2>4, <1>5, <1>8
<1> HIDE DEF U, f
<1> QED BY <1>3, <1>5, <1>6, <1>7, <1>8, <1>9

(* What a launch held when it raised is lost, and a call given up may lose *)
(* one more.                                                               *)
LEMMA AbortLoses ==
  ASSUME IInv, LeakInv, Calling, Abort,
         \/ late' = late /\ Allocated' \subseteq Allocated
         \/ late' = late /\ pc = "alloc" /\ \E a : Allocated' = Allocated \cup {a}
         \/ late' = late \cup {Op} /\ Allocated' = Allocated
  PROVE  LeakInv'
<1>1. /\ pc' = "idle" /\ remote_addrs' = <<>>
      /\ aborts' = IF pc = "load" THEN aborts ELSE aborts + 1
  BY DEF Abort, DropLocals
<1>2. Held' = {}
  BY <1>1 DEF Held, Buffers
<1>3. /\ pc # "idle" /\ IsFiniteSet(Allocated) /\ aborts \in Nat /\ Lost <= Limit
  BY DEF Calling, LeakInv
<1>4. /\ Op.type = "alloc" => Op = LateAlloc /\ pc = "alloc"
      /\ Op.type # "alloc" => Op # LateAlloc
  <2>1. pc = "alloc" => Op = LateAlloc
    BY Zenon DEF Op, LateAlloc
  <2> QED BY <2>1, OpOf DEF Calling, LateAlloc
<1>5. IsFiniteSet(Allocated') /\ Cardinality(Allocated') \in Nat /\ Cardinality(Allocated) \in Nat
      /\ Cardinality(Allocated') <= Cardinality(Allocated) + (IF pc = "alloc" /\ late' = late THEN 1 ELSE 0)
  <2>1. CASE Allocated' \subseteq Allocated
    BY <2>1, <1>3, FewerLost
  <2>2. CASE late' = late /\ pc = "alloc" /\ \E a : Allocated' = Allocated \cup {a}
    <3>1. PICK a : Allocated' = Allocated \cup {a}
      BY <2>2
    <3>2. Cardinality(Allocated) \in Nat
      BY <1>3, FS_CardinalityType
    <3> QED BY <2>2, <3>1, <3>2, <1>3, FS_AddElement
  <2> QED BY <2>1, <2>2
<1>6. \A op \in late' : op.type = "alloc" => op = LateAlloc'
  BY <1>4 DEF LeakInv, LateAlloc
<1>7. CASE pc = "load"
  <2>1. Held = {}
    BY <1>7 DEF Held, Buffers, IInv, LocalInv
  <2>2. Op.type # "alloc" /\ Allocated' \subseteq Allocated
    BY <1>4, <1>7
  <2>3. Cardinality(Allocated') <= Cardinality(Allocated)
    BY <2>2, <1>3, FewerLost
  <2>4. LateAlloc \in late' <=> LateAlloc \in late
    BY <1>4, <2>2
  <2>5. Allocated \ Held = Allocated /\ Allocated' \ Held' = Allocated' /\ LateAlloc' = LateAlloc
    BY <1>2, <2>1 DEF LateAlloc
  <2>6. Lost' <= Lost /\ Limit' = Limit /\ aborts' = aborts /\ Lost \in Nat /\ Lost' \in Nat
    <3>1. Lost = Cardinality(Allocated) + (IF LateAlloc \in late THEN 1 ELSE 0)
      BY <2>5 DEF Lost
    <3>2. Lost' = Cardinality(Allocated') + (IF LateAlloc \in late THEN 1 ELSE 0)
      BY <2>4, <2>5 DEF Lost
    <3>3. Lost' <= Lost /\ Lost \in Nat /\ Lost' \in Nat
      BY <2>3, <3>1, <3>2, <1>5
    <3> QED BY <3>3, <1>1, <1>7 DEF Limit
  <2> QED BY <2>6, <1>3, <1>5, <1>6, LimitGrows DEF LeakInv
<1>8. CASE pc # "load"
  <2>1. /\ IsFiniteSet(Held) /\ Cardinality(Held) \in Nat /\ Cardinality(Held) <= Cardinality(Storages)
        /\ pc = "alloc" => Cardinality(Held) + 1 <= Cardinality(Storages)
    BY <1>3, HeldBound
  <2>2. /\ IsFiniteSet(Allocated \ Held) /\ Cardinality(Allocated \ Held) \in Nat
        /\ Cardinality(Allocated) <= Cardinality(Allocated \ Held) + Cardinality(Held)
    <3>1. IsFiniteSet(Allocated \ Held) /\ Cardinality(Allocated \ Held) \in Nat
      BY <1>3, FewerLost
    <3> DEFINE A == Allocated \ Held  B == Held
    <3>2. IsFiniteSet(A) /\ IsFiniteSet(B) /\ A \cap B = {} /\ Allocated \subseteq A \cup B
      BY <3>1, <2>1
    <3> HIDE DEF A, B
    <3>3. /\ IsFiniteSet(A \cup B)
          /\ Cardinality(A \cup B) = Cardinality(A) + Cardinality(B) - Cardinality(A \cap B)
      BY <3>2, FS_Union
    <3>4. Cardinality(A \cap B) = 0
      BY <3>2, FS_EmptySet
    <3>5. Cardinality(Allocated) <= Cardinality(A \cup B)
      BY <3>2, <3>3, FewerLost
    <3>6. Cardinality(A) \in Nat /\ Cardinality(B) \in Nat
      BY <3>2, FS_CardinalityType
    <3>7. Cardinality(Allocated) <= Cardinality(A) + Cardinality(B)
      BY <3>3, <3>4, <3>5, <3>6
    <3> QED BY <3>1, <3>7 DEF A, B
  <2>3. /\ Allocated' \ Held' = Allocated' /\ LateAlloc' = LateAlloc
        /\ LateAlloc \in late' => LateAlloc \in late \/ (pc = "alloc" /\ late' # late)
    BY <1>2, <1>4 DEF LateAlloc
  <2>4. Lost' <= Lost + Cardinality(Storages) /\ Lost \in Nat /\ Lost' \in Nat
    <3>1. Cardinality(Storages) \in Nat
      BY <1>3, LimitGrows
    <3> DEFINE n == Cardinality(Allocated \ Held)  h == Cardinality(Held)  m == Cardinality(Allocated')
               c == Cardinality(Storages)
               w == IF LateAlloc \in late THEN 1 ELSE 0
               v == IF LateAlloc \in late' THEN 1 ELSE 0
               x == IF pc = "alloc" /\ late' = late THEN 1 ELSE 0
               y == IF pc = "alloc" /\ late' # late THEN 1 ELSE 0
    <3>2. n \in Nat /\ h \in Nat /\ m \in Nat /\ c \in Nat /\ w \in Nat /\ v \in Nat
      BY <2>1, <2>2, <1>5, <3>1
    <3>3. x \in {0, 1} /\ y \in {0, 1} /\ m <= n + h + x
      <4>1. m <= Cardinality(Allocated) + x /\ Cardinality(Allocated) \in Nat
        BY <1>5
      <4>2. Cardinality(Allocated) <= n + h
        BY <2>2
      <4> HIDE DEF m, n, h
      <4> QED BY <4>1, <4>2, <3>2
    <3>4. h + x + y <= c
      <4>1. CASE pc = "alloc"
        <5>1. h + 1 <= c /\ x + y = 1
          BY <4>1, <2>1
        <5> HIDE DEF h, c, x, y
        <5> QED BY <5>1, <3>2, <3>3
      <4>2. CASE pc # "alloc"
        BY <4>2, <2>1, <3>1
      <4> QED BY <4>1, <4>2
    <3>5. v <= w + y
      BY <2>3
    <3>6. Lost = n + w /\ Lost' = m + v
      BY <2>3 DEF Lost
    <3> HIDE DEF n, h, m, c, w, v, x, y
    <3>7. Lost' <= Lost + c /\ Lost \in Nat /\ Lost' \in Nat
      BY <3>2, <3>3, <3>4, <3>5, <3>6
    <3> QED BY <3>7 DEF c
  <2>5. Limit' = Limit + Cardinality(Storages) /\ aborts' \in Nat
        /\ Limit \in Nat /\ Cardinality(Storages) \in Nat
    BY <1>1, <1>3, <1>8, LimitGrows DEF Limit
  <2>6. Lost' <= Limit'
    BY <2>4, <2>5, <1>3
  <2> QED BY <2>5, <2>6, <1>5, <1>6 DEF LeakInv
<1> QED BY <1>7, <1>8

LEMMA AnsweredLeak ==
  ASSUME IInv, Calling, NEW e \in Answers, Receive(e)
  PROVE  /\ late' = late /\ aborts' = aborts
         /\ \/ Op.type # "alloc" /\ Allocated' \subseteq Allocated
            \/ Op.type = "alloc" /\ Allocated' = Allocated \cup {e.value}
         /\ Op.type = "free" => Op.addr \notin Allocated'
<1>1. Op.type \in OpTypes /\ (Op.type = "write" => DOMAIN Op.data = Cells) /\ GoodMemory(memory)
  BY OpInv DEF IInv
<1>2. e \in Effects(Op) /\ Adopt(e) /\ late' = late /\ aborts' = aborts /\ e.ok /\ memory' = e.memory
  BY Answered DEF Receive
<1>3. \/ Allocated' \subseteq Allocated
      \/ Op.type = "alloc" /\ \E a \in Addrs \ Allocated : Allocated' = Allocated \cup {a} /\ e.value = a
  BY <1>1, <1>2, GivenOut
<1>4. ASSUME Op.type = "alloc" PROVE Allocated' = Allocated \cup {e.value}
  <2>1. e.value \in Addrs \ Allocated /\ e.value \in Allocated'
    BY <1>1, <1>2, <1>4, EffectsKeep DEF Allocated
  <2>2. ~(Allocated' \subseteq Allocated)
    BY <2>1
  <2> QED BY <1>3, <2>2
<1>5. ASSUME Op.type = "free" PROVE Op.addr \notin Allocated'
  <2>1. memory' = [memory EXCEPT ![Op.addr] = Free]
    BY <1>2, <1>5, OfFree DEF Served
  <2> QED BY <2>1, <1>1 DEF GoodMemory, Allocated
<1> QED BY <1>2, <1>3, <1>4, <1>5

LEMMA LeakReturns ==
  ASSUME IInv, LeakInv, LoadReturns \/ AllocReturns \/ WriteReturns \/ ExecReturns \/ ReadReturns \/ FreeReturns
  PROVE  LeakInv'
<1>1. IsFiniteSet(Allocated) /\ LocalInv /\ LocalTypes
  BY DEF LeakInv, IInv
<1>2. CASE LoadReturns
  <2>1. PICK e \in Answers : Receive(e) /\ pc = "load" /\ pc' = "idle" /\ remote_addrs' = remote_addrs
    BY <1>2 DEF LoadReturns, localVars
  <2>2. late' = late /\ aborts' = aborts /\ Allocated' \subseteq Allocated
    BY <2>1, AnsweredLeak, OpOf DEF Calling
  <2>3. Held' = Held
    BY <2>1 DEF Held, Buffers
  <2> QED BY <2>2, <2>3, <1>1, FewerLost, NothingLost
<1>3. CASE AllocReturns
  <2>1. PICK e \in Answers :
          /\ Receive(e) /\ pc = "alloc" /\ pc' = "write" /\ UNCHANGED <<args, arg_idx, remote_addrs>>
          /\ storage_remote' = [storage_remote EXCEPT ![Arg.storage] = e.value]
    BY <1>3 DEF AllocReturns, callVars
  <2>2. late' = late /\ aborts' = aborts /\ Allocated' = Allocated \cup {e.value}
    BY <2>1, AnsweredLeak, OpOf DEF Calling
  <2>3. Arg' = Arg /\ Arg.storage \in Storages
    BY <2>1, <1>1, ArgType DEF Arg, LocalInv
  <2>4. Held' = Held \cup {e.value}
    BY <2>1, <2>3, <1>1 DEF Held, Buffers, LocalTypes
  <2>5. IsFiniteSet(Allocated') /\ Allocated' \ Held' \subseteq Allocated \ Held
    BY <2>2, <2>4, <1>1, FS_AddElement
  <2> QED BY <2>2, <2>5, NothingLost
<1>4. CASE WriteReturns
  <2> DEFINE new == [addr |-> storage_remote[Arg.storage], storage |-> Arg.storage]
  <2>1. PICK e \in Answers :
          /\ Receive(e) /\ pc = "write" /\ pc' = "args" /\ remote_addrs' = Append(remote_addrs, new)
    BY <1>4 DEF WriteReturns
  <2>2. late' = late /\ aborts' = aborts /\ Allocated' \subseteq Allocated
    BY <2>1, AnsweredLeak, OpOf DEF Calling
  <2>3. new \in [addr : Addrs, storage : Storages]
    BY <2>1, <1>1, ArgType DEF LocalInv
  <2>4. new.addr = storage_remote[Arg.storage]
    OBVIOUS
  <2> HIDE DEF new
  <2>5. /\ DOMAIN remote_addrs = 1 .. Len(remote_addrs) /\ Len(remote_addrs) \in Nat
        /\ DOMAIN remote_addrs' = 1 .. Len(remote_addrs) + 1
        /\ remote_addrs'[Len(remote_addrs) + 1] = new
        /\ \A i \in 1 .. Len(remote_addrs) : remote_addrs'[i] = remote_addrs[i]
    BY <2>1, <2>3, <1>1, AppendProperties, LenProperties DEF LocalTypes
  <2>6. Buffers' = Buffers \cup {new.addr}
    BY <2>5 DEF Buffers
  <2>7. Held' = Held
    BY <2>1, <2>4, <2>6 DEF Held
  <2> QED BY <2>2, <2>7, <1>1, FewerLost, NothingLost
<1>5. ASSUME NEW rest, Readback(rest), pc \in {"exec", "free"}, late' = late, aborts' = aborts,
             Allocated' \subseteq Allocated,
             \A a \in Allocated' \cap Buffers : \E i \in DOMAIN rest : rest[i].addr = a
      PROVE  LeakInv'
  <2>1. Held = Buffers /\ pc' # "write" /\ remote_addrs' = rest
    BY <1>5 DEF Held, Readback, DropLocals
  <2>2. Held' = {rest[i].addr : i \in DOMAIN rest}
    BY <2>1 DEF Held, Buffers
  <2>3. Allocated' \ Held' \subseteq Allocated \ Held
    BY <2>1, <2>2, <1>5
  <2> QED BY <2>3, <1>1, <1>5, FewerLost, NothingLost
<1>6. CASE ExecReturns
  <2>1. PICK e \in Answers : Receive(e) /\ pc = "exec" /\ Readback(remote_addrs)
    BY <1>6 DEF ExecReturns
  <2>2. late' = late /\ aborts' = aborts /\ Allocated' \subseteq Allocated
    BY <2>1, AnsweredLeak, OpOf DEF Calling
  <2> QED BY <2>1, <2>2, <1>5 DEF Buffers
<1>7. CASE ReadReturns
  <2>1. PICK e \in Answers : Receive(e) /\ pc = "read" /\ pc' = "free" /\ remote_addrs' = remote_addrs
    BY <1>7 DEF ReadReturns, localVars
  <2>2. late' = late /\ aborts' = aborts /\ Allocated' \subseteq Allocated
    BY <2>1, AnsweredLeak, OpOf DEF Calling
  <2>3. Held' = Held
    BY <2>1 DEF Held, Buffers
  <2> QED BY <2>2, <2>3, <1>1, FewerLost, NothingLost
<1>8. CASE FreeReturns
  <2> DEFINE R == [addr : Addrs, storage : Storages]
  <2>1. PICK e \in Answers : Receive(e) /\ pc = "free" /\ Readback(Tail(remote_addrs))
    BY <1>8 DEF FreeReturns
  <2>2. /\ late' = late /\ aborts' = aborts /\ Allocated' \subseteq Allocated
        /\ Head(remote_addrs).addr \notin Allocated'
    BY <2>1, AnsweredLeak, OpOf DEF Calling
  <2>3. remote_addrs \in Seq(R) /\ remote_addrs # <<>>
    BY <2>1, <1>1 DEF LocalTypes, LocalInv
  <2>4. /\ DOMAIN Tail(remote_addrs) = 1 .. Len(remote_addrs) - 1
        /\ DOMAIN remote_addrs = 1 .. Len(remote_addrs) /\ Len(remote_addrs) \in Nat
        /\ \A i \in 1 .. Len(remote_addrs) - 1 : Tail(remote_addrs)[i] = remote_addrs[i + 1]
        /\ Head(remote_addrs) = remote_addrs[1]
    BY <2>3, HeadTailProperties, LenProperties, EmptySeq
  <2>5. ASSUME NEW a \in Allocated' \cap Buffers
        PROVE  \E i \in DOMAIN Tail(remote_addrs) : Tail(remote_addrs)[i].addr = a
    <3>1. PICK i \in DOMAIN remote_addrs : remote_addrs[i].addr = a
      BY DEF Buffers
    <3>2. i # 1
      BY <2>2, <2>4, <3>1
    <3>3. i - 1 \in DOMAIN Tail(remote_addrs) /\ Tail(remote_addrs)[i - 1] = remote_addrs[i]
      BY <2>4, <3>2
    <3> QED BY <3>1, <3>3
  <2> QED BY <2>1, <2>2, <2>5, <1>5
<1> QED BY <1>2, <1>3, <1>4, <1>6, <1>7, <1>8

LEMMA LeakAborts == ASSUME IInv, LeakInv, CallRefused \/ StaleConnection \/ CallFails PROVE LeakInv'
<1>1. Calling /\ Abort
  BY DEF CallRefused, StaleConnection, CallFails
<1>2. CASE UNCHANGED <<memory, late>>
  BY <1>1, <1>2, AbortLoses DEF Allocated
<1>3. CASE (\E e \in Effects(Op) : Adopt(e)) /\ UNCHANGED late
  <2>1. PICK e \in Effects(Op) : Adopt(e)
    BY <1>3
  <2>2. Op.type \in OpTypes /\ (Op.type = "write" => DOMAIN Op.data = Cells) /\ GoodMemory(memory)
    BY <1>1, OpInv DEF IInv
  <2>3. \/ Allocated' \subseteq Allocated
        \/ Op.type = "alloc" /\ \E a : Allocated' = Allocated \cup {a}
    BY <2>1, <2>2, GivenOut
  <2>4. Op.type = "alloc" => pc = "alloc"
    BY <1>1, OpOf DEF Calling
  <2> QED BY <1>1, <1>3, <2>3, <2>4, AbortLoses
<1>4. CASE late' = late \cup {Op} /\ memory' = memory
  BY <1>1, <1>4, AbortLoses DEF Allocated
<1> QED BY <1>2, <1>3, <1>4 DEF CallRefused, StaleConnection, CallFails, serverVars

LEMMA LeakLate == ASSUME IInv, LeakInv, NEW op \in late, PerformLate(op) PROVE LeakInv'
<1>1. /\ late' = late \ {op} /\ aborts' = aborts /\ UNCHANGED <<pc, args, arg_idx, storage_remote, remote_addrs>>
  BY DEF PerformLate, callVars, localVars
<1>2. PICK e \in Effects(op) : Adopt(e)
  BY DEF PerformLate
<1>3. Held' = Held
  BY <1>1 DEF Held, Buffers, Arg
<1>4. \/ Allocated' \subseteq Allocated
      \/ op.type = "alloc" /\ \E a : Allocated' = Allocated \cup {a}
  <2>1. op.type \in OpTypes /\ (op.type = "write" => DOMAIN op.data = Cells) /\ GoodMemory(memory)
    BY DEF IInv, LateInv
  <2> QED BY <1>2, <2>1, GivenOut
<1>a. IsFiniteSet(Allocated)
  BY DEF LeakInv
<1>5. CASE Allocated' \subseteq Allocated
  BY <1>1, <1>3, <1>5, <1>a, FewerLost, NothingLost
<1>6. CASE op.type = "alloc" /\ \E a : Allocated' = Allocated \cup {a}
  <2>1. PICK a : Allocated' = Allocated \cup {a}
    BY <1>6
  <2>2. op = LateAlloc /\ LateAlloc' = LateAlloc
    BY <1>6 DEF LeakInv, LateAlloc
  <2>3. LateAlloc \in late /\ LateAlloc' \notin late'
    BY <1>1, <2>2
  <2>4. IsFiniteSet(Allocated')
    BY <2>1, <1>a, FS_AddElement
  <2>5. /\ Cardinality(Allocated \ Held) \in Nat /\ Cardinality(Allocated' \ Held') \in Nat
        /\ Cardinality(Allocated' \ Held') <= Cardinality(Allocated \ Held) + 1
    <3> DEFINE A == Allocated \ Held
    <3>1. IsFiniteSet(A) /\ Cardinality(A) \in Nat
      BY <1>a, FewerLost
    <3>2. Allocated' \ Held' \subseteq A \cup {a}
      BY <2>1, <1>3
    <3> HIDE DEF A
    <3>a. /\ IsFiniteSet(A \cup {a})
          /\ \/ Cardinality(A \cup {a}) = Cardinality(A)
             \/ Cardinality(A \cup {a}) = Cardinality(A) + 1
      BY <3>1, FS_AddElement, Zenon
    <3>3. IsFiniteSet(A \cup {a}) /\ Cardinality(A \cup {a}) \in Nat /\ Cardinality(A \cup {a}) <= Cardinality(A) + 1
      BY <3>1, <3>a
    <3>4. /\ Cardinality(Allocated' \ Held') \in Nat
          /\ Cardinality(Allocated' \ Held') <= Cardinality(A \cup {a})
      BY <3>2, <3>3, FewerLost
    <3>5. Cardinality(Allocated' \ Held') <= Cardinality(A) + 1
      BY <3>1, <3>3, <3>4
    <3> QED BY <3>1, <3>4, <3>5 DEF A
  <2>6. Lost = Cardinality(Allocated \ Held) + 1 /\ Lost' = Cardinality(Allocated' \ Held') + 0
    BY <2>3 DEF Lost
  <2>7. Limit' = Limit /\ Limit \in Nat
    BY <1>1, LimitGrows DEF LeakInv, Limit
  <2>8. Lost' <= Limit'
    <3> DEFINE m == Cardinality(Allocated \ Held)  n == Cardinality(Allocated' \ Held')
    <3>1. m \in Nat /\ n \in Nat /\ n <= m + 1 /\ Lost = m + 1 /\ Lost' = n + 0 /\ Lost <= Limit
      BY <2>5, <2>6 DEF LeakInv
    <3> HIDE DEF m, n
    <3> QED BY <3>1, <2>7
  <2> QED BY <2>2, <2>4, <2>8, <1>1 DEF LeakInv
<1> QED BY <1>4, <1>5, <1>6

LEMMA LeakRestart == ASSUME IInv, LeakInv, Restart PROVE LeakInv'
<1>1. /\ memory' = [a \in Addrs |-> Free] /\ late' = {} /\ aborts' = aborts
  BY DEF Restart
<1>2. Allocated' = {}
  BY <1>1 DEF Allocated
<1>3. IsFiniteSet(Allocated') /\ Allocated' \ Held' = {}
  BY <1>2, FS_EmptySet
<1> QED BY <1>1, <1>3, NothingLost

LEMMA LeakLocal ==
  ASSUME IInv, LeakInv, UNCHANGED <<memory, late, aborts, remote_addrs>>,
         \/ pc # "write" /\ pc' # "write"
         \/ UNCHANGED <<pc, args, arg_idx, storage_remote>>
  PROVE  LeakInv'
<1>1. Allocated' = Allocated /\ Held' = Held
  BY DEF Allocated, Held, Buffers, Arg
<1>2. IsFiniteSet(Allocated')
  BY <1>1 DEF LeakInv
<1> QED BY <1>1, <1>2, NothingLost

LEMMA LeakStep == IInv /\ LeakInv /\ [Next]_vars => LeakInv'
<1> SUFFICES ASSUME IInv, LeakInv, [Next]_vars PROVE LeakInv'
  OBVIOUS
<1> USE DEF localVars, callVars, serverVars, launcherVars
<1>1. CASE \E l \in Launchers : LoadBinary(l)
  BY <1>1, LeakLocal DEF LoadBinary
<1>2. CASE \E l \in Launchers, list \in ArgLists : Begin(l, list)
  BY <1>2, LeakLocal DEF Begin
<1>3. CASE TensorArg \/ RawArg \/ ArgsDone
  BY <1>3, LeakLocal DEF TensorArg, RawArg, ArgsDone
<1>4. CASE LoadReturns \/ AllocReturns \/ WriteReturns \/ ExecReturns \/ ReadReturns \/ FreeReturns
  BY <1>4, LeakReturns
<1>5. CASE CallRefused \/ StaleConnection \/ CallFails
  BY <1>5, LeakAborts
<1>6. CASE \E op \in late : PerformLate(op)
  BY <1>6, LeakLate
<1>7. CASE Restart
  BY <1>7, LeakRestart
<1>8. CASE UNCHANGED vars
  BY <1>8, LeakLocal DEF vars
<1> QED BY <1>1, <1>2, <1>3, <1>4, <1>5, <1>6, <1>7, <1>8 DEF Next, Program

LEMMA OtherTypesStep == OtherTypes /\ [Next]_vars => OtherTypes'
<1> SUFFICES ASSUME OtherTypes, [Next]_vars PROVE OtherTypes'
  OBVIOUS
<1> USE LaunchAssumption DEF OtherTypes, callVars, launcherVars, localVars, serverVars
<1>1. CASE \E l \in Launchers : LoadBinary(l)
  BY <1>1 DEF LoadBinary
<1>2. CASE \E l \in Launchers, list \in ArgLists : Begin(l, list)
  BY <1>2 DEF Begin
<1>3. CASE TensorArg \/ RawArg \/ ArgsDone
  BY <1>3 DEF TensorArg, RawArg, ArgsDone
<1>4. CASE LoadReturns \/ AllocReturns \/ WriteReturns \/ ReadReturns
  BY <1>4 DEF LoadReturns, AllocReturns, WriteReturns, ReadReturns, Receive
<1>5. CASE ExecReturns \/ FreeReturns
  BY <1>5 DEF ExecReturns, FreeReturns, Receive, Readback
<1>6. CASE CallRefused \/ StaleConnection
  BY <1>6 DEF CallRefused, StaleConnection, Abort
<1>7. CASE CallFails
  <2>1. faults < MaxFaults /\ faults' = faults + 1
    BY <1>7 DEF CallFails
  <2> QED BY <2>1, <1>7 DEF CallFails, Abort
<1>8. CASE (\E op \in late : PerformLate(op)) \/ Restart \/ UNCHANGED vars
  BY <1>8 DEF PerformLate, Restart, vars
<1> QED BY <1>1, <1>2, <1>3, <1>4, <1>5, <1>6, <1>7, <1>8 DEF Next, Program

LEMMA InitialLeak == Init => LeakInv /\ OtherTypes
<1> SUFFICES ASSUME Init PROVE LeakInv /\ OtherTypes
  OBVIOUS
<1>1. Allocated = {} /\ late = {} /\ aborts = 0
  BY DEF Init, Allocated
<1>2. IsFiniteSet(Allocated) /\ Cardinality(Allocated \ Held) = 0
  BY <1>1, FS_EmptySet
<1>3. Lost = 0
  BY <1>1, <1>2 DEF Lost
<1>4. LeakInv
  BY <1>1, <1>2, <1>3, LimitGrows DEF LeakInv
<1>5. 0 \in 0 .. MaxFaults
  BY LaunchAssumption
<1>6. OtherTypes
  BY <1>5 DEF Init, OtherTypes
<1> QED BY <1>4, <1>6

(* What stays allocated beyond the buffers of the launch under way was     *)
(* left behind by launches that raised, each at most a buffer per storage, *)
(* a call it gave up and the server performs later included.               *)
THEOREM LeaksOnlyByAbortsHolds == Spec => []LeaksOnlyByAborts
<1>1. OtherTypes /\ IInv /\ VInv => TypeOK
  BY DEF TypeOK, OtherTypes, IInv, LocalTypes, VInv, ValueTypes, HandleInv, Handles, Contents, Numbers
<1>2. ASSUME IInv, LeakInv PROVE Cardinality(Allocated \ Owned) <= aborts * Cardinality(Storages)
  <2>1. Held \subseteq Owned
    <3>1. CASE pc = "idle"
      BY <3>1, <1>2 DEF Held, Buffers, IInv, LocalInv
    <3>2. CASE pc # "idle"
      BY <3>2, <1>2, HeldBound
    <3> QED BY <3>1, <3>2
  <2>2. /\ Cardinality(Allocated \ Owned) \in Nat /\ Cardinality(Allocated \ Held) \in Nat
        /\ Cardinality(Allocated \ Owned) <= Cardinality(Allocated \ Held)
    <3> DEFINE A == Allocated \ Held  B == Allocated \ Owned
    <3>1. IsFiniteSet(A) /\ B \subseteq A
      BY <2>1, <1>2, FewerLost DEF LeakInv
    <3> HIDE DEF A, B
    <3>2. Cardinality(B) \in Nat /\ Cardinality(A) \in Nat /\ Cardinality(B) <= Cardinality(A)
      BY <3>1, FewerLost
    <3> QED BY <3>2 DEF A, B
  <2>3. /\ Lost = Cardinality(Allocated \ Held) + (IF LateAlloc \in late THEN 1 ELSE 0)
        /\ Lost <= Limit /\ Limit \in Nat
    BY <1>2, LimitGrows DEF Lost, LeakInv
  <2>4. Cardinality(Allocated \ Owned) <= Limit
    <3> DEFINE m == Cardinality(Allocated \ Held)  n == Cardinality(Allocated \ Owned)
               one == IF LateAlloc \in late THEN 1 ELSE 0
    <3>1. one \in {0, 1} /\ m \in Nat /\ n \in Nat /\ n <= m /\ Lost = m + one
      BY <2>2, <2>3
    <3> HIDE DEF m, n, one
    <3>2. n <= Limit
      BY <3>1, <2>3
    <3> QED BY <3>2 DEF n
  <2> QED BY <2>4 DEF Limit
<1>3. IInv /\ VInv /\ OtherTypes /\ LeakInv => LeaksOnlyByAborts
  BY <1>1, <1>2 DEF LeaksOnlyByAborts
<1>4. Spec => [](LeakInv /\ OtherTypes)
  <2>1. IInv /\ LeakInv /\ OtherTypes /\ [Next]_vars => (LeakInv /\ OtherTypes)'
    BY LeakStep, OtherTypesStep
  <2> QED BY <2>1, InitialLeak, Inductive, PTL DEF Spec
<1> QED BY <1>3, <1>4, Inductive, ValuesInductive, PTL
=============================================================================
