----------------------------- MODULE RpcLaunch -----------------------------
(***************************************************************************)
(* RPCLauncher (backend/driver.py): running a kernel on a remote device as *)
(* a sequence of client calls.  A launch uploads every host storage its    *)
(* arguments use, executes the kernel by its server-side handle, reads the *)
(* storages back and frees them.  A call behaves as RpcCall says (what     *)
(* RpcClient implements): it returns after the server performed it, or it  *)
(* raises and the server performed it, will perform it later, or never     *)
(* does.  An exception leaves __call__ at once: nothing is undone.         *)
(* The Bug_... definitions are defective variants, as in RpcClient.        *)
(***************************************************************************)
EXTENDS Integers, Sequences, FiniteSets

CONSTANTS
  Launchers,    \* the RPCLauncher objects: one per compiled kernel
  Name,         \* Name[l]: the name of its kernel
  Binary,       \* Binary[l]: its code, as what it adds through each pointer
  Storages,     \* the host storages behind the tensors
  Cells,        \* the elements of a storage
  Addrs,        \* the server's buffers
  ArgLists,     \* the argument lists launches are made with
  MaxLaunches, MaxFaults, MaxRestarts

(* Constexpr and value-specialized arguments are skipped. *)
PtrArgs(list) == SelectSeq(list, LAMBDA a : a.kind # "constexpr")

ASSUME LaunchAssumption ==
  /\ \A l \in Launchers : Binary[l] \in Nat \ {0}
  /\ \A list \in ArgLists :
       PtrArgs(list) \in Seq([kind : {"tensor", "raw"}, storage : Storages, cell : Cells])
  /\ Cells # {} /\ Addrs \subseteq Nat \ {0} /\ IsFiniteSet(Storages)
  /\ MaxFaults \in Nat

None == 0

(* A handle, with the life of the server it was given in. *)
NoKernel == [handle |-> None, life |-> 0]

(* The binary is left out of the key. *)
Bug_CacheKey(l) == Name[l]

CacheKey(l) == <<Name[l], Binary[l]>>

VARIABLES
  \* the process
  kernel_handle,   \* of each launcher, NoKernel before rpc_load_binary
  kernel_cache,    \* _kernel_cache, by CacheKey
  host,            \* the contents of the host storages
  \* __call__
  pc, launcher, args, arg_idx,
  storage_remote,  \* storage -> buffer
  remote_tensor_map, rpc_args, remote_addrs,
  launches, outcome,
  before, wanted,  \* host when the launch began, and what it should become
  handleCurrent,   \* its kernel was loaded in the present life of the server
  \* the server
  memory, kernels, life,
  late,            \* calls given up that the server may still perform
  stale,           \* the connection is to an earlier life of the server
  faults,
  aborts           \* launches that raised

launcherVars == <<kernel_handle, kernel_cache>>
callVars == <<launcher, args, launches, before, wanted, handleCurrent>>
localVars == <<arg_idx, storage_remote, remote_tensor_map, rpc_args, remote_addrs>>
serverVars == <<memory, kernels, life>>
vars == <<launcherVars, host, pc, callVars, localVars, outcome, serverVars, late, stale,
          faults, aborts>>

Free == [c \in {} |-> 0]      \* a buffer that is not allocated

(* A kernel adds Binary[l] through every pointer: both what it reads and   *)
(* how its pointers alias show in what it leaves.                          *)
Run(mem, ptrs, amount) ==
  [b \in DOMAIN mem |-> [c \in DOMAIN mem[b] |->
     mem[b][c] + amount * Cardinality({i \in DOMAIN ptrs : ptrs[i] = <<b, c>>})]]

Place(a) == <<a.storage, a.cell>>

Init ==
  /\ kernel_handle = [l \in Launchers |-> NoKernel]
  /\ kernel_cache = [k \in {CacheKey(l) : l \in Launchers} |-> NoKernel]
  /\ host = [s \in Storages |-> [c \in Cells |-> 0]]
  /\ pc = "idle" /\ launcher \in Launchers /\ args = <<>> /\ launches = 0
  /\ before = host /\ wanted = host /\ handleCurrent = TRUE
  /\ arg_idx = 1 /\ storage_remote = [s \in Storages |-> None]
  /\ remote_tensor_map = {} /\ rpc_args = <<>> /\ remote_addrs = <<>>
  /\ outcome = "none"
  /\ memory = [a \in Addrs |-> Free] /\ kernels = <<>> /\ life = 1
  /\ late = {} /\ stale = FALSE /\ faults = 0 /\ aborts = 0

-----------------------------------------------------------------------------
(* What the server does with a call: the server it leaves, and the answer. *)

Served(mem, ks, ok, value) == [memory |-> mem, kernels |-> ks, ok |-> ok, value |-> value]

Refused == Served(memory, kernels, FALSE, None)

Allocated == {a \in Addrs : memory[a] # Free}

Effects(op) ==
  CASE op.type = "load" ->
         {Served(memory, Append(kernels, op.binary), TRUE, Len(kernels) + 1)}
    [] op.type = "alloc" ->
         IF Allocated = Addrs THEN {Refused}
         ELSE {Served([memory EXCEPT ![a] = [c \in Cells |-> -1]], kernels, TRUE, a)
               : a \in Addrs \ Allocated}
    [] op.type = "write" ->
         {IF op.addr \in Allocated
            THEN Served([memory EXCEPT ![op.addr] = op.data], kernels, TRUE, None)
            ELSE Refused}
    [] op.type = "exec" ->
         {IF /\ op.handle \in DOMAIN kernels
             /\ \A i \in DOMAIN op.ptrs : op.ptrs[i][1] \in Allocated
            THEN Served(Run(memory, op.ptrs, kernels[op.handle]), kernels, TRUE, None)
            ELSE Refused}
    [] op.type = "read" ->
         {IF op.addr \in Allocated
            THEN Served(memory, kernels, TRUE, memory[op.addr])
            ELSE Refused}
    [] op.type = "free" ->
         {Served([memory EXCEPT ![op.addr] = Free], kernels, TRUE, None)}

Adopt(e) == memory' = e.memory /\ kernels' = e.kernels /\ UNCHANGED life

(* The call the program is at, by the line it stands on. *)
Arg == PtrArgs(args)[arg_idx]

Op ==
  CASE pc = "load"  -> [type |-> "load", binary |-> Binary[launcher]]
    [] pc = "alloc" -> [type |-> "alloc"]
    [] pc = "write" -> [type |-> "write", addr |-> storage_remote[Arg.storage],
                        data |-> host[Arg.storage]]
    [] pc = "exec"  -> [type |-> "exec", handle |-> kernel_handle[launcher].handle, ptrs |-> rpc_args]
    [] pc = "read"  -> [type |-> "read", addr |-> Head(remote_addrs).addr]
    [] pc = "free"  -> [type |-> "free", addr |-> Head(remote_addrs).addr]

Calling == pc \in {"load", "alloc", "write", "exec", "read", "free"}

(* A call that returns; one the server refuses raises (CallRefused). *)
Answers == IF stale THEN {} ELSE {e \in Effects(Op) : e.ok}

Receive(e) == Adopt(e) /\ UNCHANGED <<late, stale, faults, aborts>>

-----------------------------------------------------------------------------
(* load_kernel_binary, called by rpc_load_binary once per launcher *)

LoadBinary(l) ==
  /\ pc = "idle" /\ kernel_handle[l] = NoKernel
  /\ launcher' = l
  /\ IF kernel_cache[CacheKey(l)] # NoKernel
       THEN /\ kernel_handle' = [kernel_handle EXCEPT ![l] = kernel_cache[CacheKey(l)]]
            /\ UNCHANGED pc
       ELSE pc' = "load" /\ UNCHANGED kernel_handle
  /\ outcome' = "none"
  /\ UNCHANGED <<kernel_cache, host, args, launches, before, wanted, handleCurrent,
                 localVars, serverVars, late, stale, faults, aborts>>

LoadReturns ==
  /\ pc = "load"
  /\ \E e \in Answers :
       /\ Receive(e)
       /\ LET kernel == [handle |-> e.value, life |-> life] IN
            /\ kernel_handle' = [kernel_handle EXCEPT ![launcher] = kernel]
            /\ kernel_cache' = [kernel_cache EXCEPT ![CacheKey(launcher)] = kernel]
       /\ pc' = "idle"
       /\ UNCHANGED <<host, callVars, localVars, outcome>>

-----------------------------------------------------------------------------
(* __call__ *)

Begin(l, list) ==
  /\ pc = "idle" /\ kernel_handle[l] # NoKernel /\ launches < MaxLaunches
  /\ launcher' = l /\ args' = list /\ launches' = launches + 1
  /\ outcome' = "none"
  /\ before' = host
  /\ handleCurrent' = (kernel_handle[l].life = life)
  /\ wanted' = Run(host, [i \in DOMAIN PtrArgs(list) |-> Place(PtrArgs(list)[i])], Binary[l])
  /\ pc' = "args"
  /\ UNCHANGED <<launcherVars, host, localVars, serverVars, late, stale, faults, aborts>>

NextArg(ptr) == arg_idx' = arg_idx + 1 /\ rpc_args' = Append(rpc_args, ptr)

(* The offset of a view in its storage is lost. *)
Bug_TensorPtr(a) == <<storage_remote[a.storage], 0>>

TensorPtr(a) == <<storage_remote[a.storage], a.cell>>

(* A tensor whose storage was not met before is uploaded first; one whose  *)
(* storage was shares its buffer, at its own offset.                       *)
TensorArg ==
  /\ pc = "args" /\ arg_idx <= Len(PtrArgs(args)) /\ Arg.kind = "tensor"
  /\ IF storage_remote[Arg.storage] = None
       THEN pc' = "alloc" /\ UNCHANGED <<arg_idx, rpc_args, remote_tensor_map>>
       ELSE /\ NextArg(TensorPtr(Arg))
            /\ remote_tensor_map' = remote_tensor_map \cup {Place(Arg)}
            /\ UNCHANGED pc
  /\ UNCHANGED <<launcherVars, host, callVars, storage_remote, remote_addrs, outcome,
                 serverVars, late, stale, faults, aborts>>

AllocReturns ==
  /\ pc = "alloc"
  /\ \E e \in Answers :
       /\ Receive(e)
       /\ storage_remote' = [storage_remote EXCEPT ![Arg.storage] = e.value]
       /\ pc' = "write"
       /\ UNCHANGED <<launcherVars, host, callVars, arg_idx, remote_tensor_map, rpc_args,
                      remote_addrs, outcome>>

WriteReturns ==
  /\ pc = "write"
  /\ \E e \in Answers :
       /\ Receive(e)
       /\ remote_addrs' = Append(remote_addrs,
            [addr |-> storage_remote[Arg.storage], storage |-> Arg.storage])
       /\ pc' = "args"
       /\ UNCHANGED <<launcherVars, host, callVars, arg_idx, storage_remote, remote_tensor_map,
                      rpc_args, outcome>>

(* A pointer passed as an integer is translated if a tensor before it has  *)
(* the same data_ptr; any other is passed on as it is, a host address.     *)
RawArg ==
  /\ pc = "args" /\ arg_idx <= Len(PtrArgs(args)) /\ Arg.kind = "raw"
  /\ NextArg(IF Place(Arg) \in remote_tensor_map THEN TensorPtr(Arg) ELSE <<None, Arg.cell>>)
  /\ UNCHANGED <<launcherVars, host, pc, callVars, storage_remote, remote_tensor_map,
                 remote_addrs, outcome, serverVars, late, stale, faults, aborts>>

ArgsDone ==
  /\ pc = "args" /\ arg_idx > Len(PtrArgs(args))
  /\ pc' = "exec"
  /\ UNCHANGED <<launcherVars, host, callVars, localVars, outcome, serverVars, late, stale,
                 faults, aborts>>

(* Leaving __call__ forgets its locals. *)
DropLocals ==
  /\ arg_idx' = 1 /\ storage_remote' = [s \in Storages |-> None]
  /\ remote_tensor_map' = {} /\ rpc_args' = <<>> /\ remote_addrs' = <<>>

(* The next buffer is read back, or __call__ returns. *)
Readback(rest) ==
  IF rest = <<>>
    THEN pc' = "idle" /\ outcome' = "ok" /\ DropLocals
    ELSE /\ pc' = "read" /\ remote_addrs' = rest
         /\ UNCHANGED <<arg_idx, storage_remote, remote_tensor_map, rpc_args, outcome>>

ExecReturns ==
  /\ pc = "exec"
  /\ \E e \in Answers :
       /\ Receive(e)
       /\ Readback(remote_addrs)
       /\ UNCHANGED <<launcherVars, host, callVars>>

(* A buffer that was read back is not freed. *)
Bug_ReadReturns ==
  /\ pc = "read"
  /\ \E e \in Answers :
       /\ Receive(e)
       /\ host' = [host EXCEPT ![Head(remote_addrs).storage] = e.value]
       /\ Readback(Tail(remote_addrs))
       /\ UNCHANGED <<launcherVars, callVars>>

(* memmove into the storage the buffer was uploaded from.  The server      *)
(* answers a read with the whole buffer: the length is not checked.        *)
ReadReturns ==
  /\ pc = "read"
  /\ \E e \in Answers :
       /\ Receive(e)
       /\ host' = [host EXCEPT ![Head(remote_addrs).storage] = e.value]
       /\ pc' = "free"
       /\ UNCHANGED <<launcherVars, callVars, localVars, outcome>>

FreeReturns ==
  /\ pc = "free"
  /\ \E e \in Answers :
       /\ Receive(e)
       /\ Readback(Tail(remote_addrs))
       /\ UNCHANGED <<launcherVars, host, callVars>>

-----------------------------------------------------------------------------
(* A call raises, and with it __call__ or load_kernel_binary *)

Abort ==
  /\ pc' = "idle" /\ outcome' = "raised"
  /\ aborts' = IF pc = "load" THEN aborts ELSE aborts + 1
  /\ DropLocals
  /\ UNCHANGED <<launcherVars, host, callVars>>

CallRefused ==
  /\ Calling /\ ~stale
  /\ \E e \in Effects(Op) : ~e.ok
  /\ Abort
  /\ UNCHANGED <<serverVars, late, stale, faults>>

(* The first call on a connection to a server that is gone raises; the     *)
(* client then connects anew.                                              *)
StaleConnection ==
  /\ Calling /\ stale
  /\ stale' = FALSE
  /\ Abort
  /\ UNCHANGED <<serverVars, late, faults>>

(* A call that failed is made again. *)
Bug_CallFails ==
  /\ Calling /\ ~stale /\ faults < MaxFaults
  /\ faults' = faults + 1
  /\ \/ UNCHANGED <<serverVars, late>>
     \/ (\E e \in Effects(Op) : Adopt(e)) /\ UNCHANGED late
     \/ late' = late \cup {Op} /\ UNCHANGED serverVars
  /\ UNCHANGED <<launcherVars, host, pc, callVars, localVars, outcome, stale, aborts>>

(* A timeout, a cut connection or an interrupt. *)
CallFails ==
  /\ Calling /\ ~stale /\ faults < MaxFaults
  /\ faults' = faults + 1
  /\ \/ UNCHANGED <<serverVars, late>>                         \* never performed
     \/ (\E e \in Effects(Op) : Adopt(e)) /\ UNCHANGED late    \* performed
     \/ late' = late \cup {Op} /\ UNCHANGED serverVars         \* not yet performed
  /\ Abort
  /\ UNCHANGED stale

PerformLate(op) ==
  /\ late' = late \ {op}
  /\ \E e \in Effects(op) : Adopt(e)
  /\ UNCHANGED <<launcherVars, host, pc, callVars, localVars, outcome, stale, faults,
                 aborts>>

Restart ==
  /\ life <= MaxRestarts
  /\ memory' = [a \in Addrs |-> Free] /\ kernels' = <<>> /\ life' = life + 1
  /\ late' = {} /\ stale' = TRUE
  /\ UNCHANGED <<launcherVars, host, pc, callVars, localVars, outcome, faults, aborts>>

-----------------------------------------------------------------------------
Program ==
  \/ LoadReturns
  \/ TensorArg \/ AllocReturns \/ WriteReturns \/ RawArg \/ ArgsDone
  \/ ExecReturns \/ ReadReturns \/ FreeReturns
  \/ CallRefused \/ StaleConnection \/ CallFails

Next ==
  \/ \E l \in Launchers : LoadBinary(l)
  \/ \E l \in Launchers, list \in ArgLists : Begin(l, list)
  \/ Program
  \/ \E op \in late : PerformLate(op)
  \/ Restart

Spec == Init /\ [][Next]_vars

-----------------------------------------------------------------------------
(* The buffers the launch under way works with. *)
Owned == {storage_remote[s] : s \in Storages} \ {None}

Contents == [Cells -> Int]

(* The variables hold values of their kind; a live buffer holds a storage. *)
TypeOK ==
  /\ kernel_handle \in [Launchers -> [handle : Nat, life : Nat]]
  /\ host \in [Storages -> Contents]
  /\ pc \in {"idle", "load", "args", "alloc", "write", "exec", "read", "free"}
  /\ launcher \in Launchers /\ args \in ArgLists \cup {<<>>}
  /\ storage_remote \in [Storages -> Addrs \cup {None}]
  /\ \A a \in Allocated : memory[a] \in Contents
  /\ outcome \in {"none", "ok", "raised"}
  /\ stale \in BOOLEAN /\ faults \in 0 .. MaxFaults

(* A launch that returns has done to the host's storages what the kernel   *)
(* would have done to them in place, through every alias among its         *)
(* arguments, and to nothing else ("Upload each storage once and read it   *)
(* back once", driver.py:484-488).  A handle of an earlier life of the     *)
(* server is excepted: _kernel_cache is never renewed, and the server may  *)
(* have given that handle to another kernel.                               *)
LaunchCorrect == outcome = "ok" /\ handleCurrent => host = wanted

(* At any moment, and whatever raised, a storage holds what it held before *)
(* the launch or what the launch should leave in it, never a mixture or    *)
(* what another launch's buffer held.                                      *)
OldOrNew ==
  handleCurrent => \A s \in Storages : host[s] \in {before[s], wanted[s]}

(* A call that was given up can be performed at any later time: it never   *)
(* touches a buffer of the launch under way.                               *)
LateHarmless ==
  \A op \in late :
    /\ op.type \in {"write", "free"} => op.addr \notin Owned
    /\ op.type = "exec" => \A i \in DOMAIN op.ptrs : op.ptrs[i][1] \notin Owned

(* Every buffer of a launch that returns is freed: what stays allocated is  *)
(* what launches that raised left behind, at most their storages' buffers. *)
(* The map of a launch holds addresses of the device.                      *)
LeaksOnlyByAborts == TypeOK /\ Cardinality(Allocated \ Owned) <= aborts * Cardinality(Storages)
=============================================================================
