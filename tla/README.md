# A verification of spine-triton

spine-triton compiles Triton kernels to RISC-V: a fork of triton-shared that
lowers Triton IR to linalg and memrefs (C++, MLIR), a Python driver that strings
the compiler's stages together, two launchers that run the result (in the
process, or over TCP on a device), and front ends for the vendor's own
operations.  This directory holds TLA+ models of the parts of it in which
something is kept from one step to the next, the TLC runs that check them on
small instances, and proofs, checked by TLAPS, of what holds on all.

Paths below are relative to the repository.  `PROJECT.json` gives the lines
each definition stands for (`map`), the runs, the hazards and the findings.

    tlc -workers 2 -config MCRpcClient.cfg MCRpcClient     # a run
    tlapm RpcClient_proofs.tla                             # a proof

1. [The system](#1-the-system)
2. [The models](#2-the-models)
3. [The runs](#3-the-runs)
4. [The proofs](#4-the-proofs)
5. [Where code and comments disagree](#5-where-code-and-comments-disagree)
6. [What is not modelled](#6-what-is-not-modelled)
7. [Plan](#7-plan)

## 1. The system

### How the parts interact

    kernel source -- language/ (front ends; smt_rvisa: call registry) --> Triton IR
      backend/compiler.py make_ttir: takes the pending siblings and calls
      backend/compiler.py _ttir_to_linalgdir: runs the C++ passes of lib/
         ConvertScanOp, LoopPtrCarryToOffset, TritonToStructured (PtrAnalysis,
         MaskAnalysis), CSE and canonicalize, TritonToUnstructured,
         TritonArithToLinalg, StructuredToMemref, UnstructuredToMemref,
         TritonPtrToMemref, TritonToPtr, the casts' clean-ups
      mixed_bridge.py: grafts the siblings into the lowered host
      spine-opt, LLVM (outside the repository) --> object code
    object code -- backend/driver.py CPULauncher --> a call in this process
                \- backend/driver.py RPCLauncher -- backend/rpc_client.py --> a device
    while it runs: CpuProtonRuntime.cpp collects the scopes' cycles

Three kinds of interaction carry the hard behaviour.  The *passes* talk through
the IR: one leaves attributes and operations, the next finds them, and a pass
that gives up warns and lets the pipeline go on.  The *compile* talks to the
front end through process-global state (the pending module), and a compile may
raise between the two.  The *remote launcher* talks to a server it does not
control, over a stream that may be cut anywhere, and keeps handles and buffers
there between calls.

### Components

For each: its state, its operations, what is hard in it, what makes it correct.

**RPC client** (`backend/rpc_client.py`, 214 lines).  State: `sock`, `_broken`,
`seq_id`.  Operations: ping, load, unload, exec, alloc, write, read, free; each
is `_ensure_connected`, `_send`, `_recv`.  Hard: timeouts, cuts at any byte, a
server that dies and comes back, an interrupt inside a blocking receive, the
late answer of a call that was given up.  Correct when an answer is returned to
the call it answers, an answered call leaves the stream in sync, one fault does
not cascade, every call ends, no call is performed twice.
Modelled: `RpcCall`, `RpcClient`.

**Remote launcher** (`backend/driver.py` 417-571).  State: `_kernel_cache`, each
launcher's handle; during a launch the storages' buffers.  Operations: load a
binary; launch (upload each storage once, execute, read back, free).  Hard: an
exception between any two calls undoes nothing; views share a storage; calls
performed late.  Correct when a launch that returns did what running in place
would have done, one that raises leaves no mixture, and buffers leak by aborts
only.  Modelled: `RpcLaunch`; it uses calls as `RpcCall` specifies them.

**Mixed-mode calls** (`language/smt_rvisa/call_registry.py`,
`mixed_bridge.py`; `backend/compiler.py` 65-87, 405-472).  State:
`_PENDING_LLVM_DIRECT_MODULE`, the anchors in the host.  Operations: `call()`,
the three takes in `make_ttir`, the injection.  Hard: a compile that raises
leaves its calls to the next one; bridges are matched to anchors by position.
Correct when a compiled kernel runs its statements in source order on the
siblings and parameters it names.  Modelled: `MixedCall`.

**CPU profiler runtime** (`backend/include/ExecutionEngine/CpuProtonRuntime.cpp`).
State: `records_`, `active_scopes_`.  Operations: record a start or an end,
reset, dump.  Hard: threads interleave, a reset or a dump comes while scopes are
open, scopes of one name nest.  Correct when indices stay valid and the profile
is exactly the scopes closed.  Modelled: `ProtonRuntime`.

**Pointer analysis** (`lib/AnalysisStructured/PtrAnalysis.cpp`, 2599 lines).
State: `PtrState` of every value (source, per-dimension offset, size, stride and
modulo, scalar), `knownPtrs`, `ptrMap`.  Operations: `visitOperand...` on every
arithmetic operation, `rewriteAddptrOp`, and the rewrites of loops, block
pointers, loads and stores.  Hard: two modes, dimensions that become
unstructured, modulos, scalars carried through broadcasts, in any order the
kernel's author chose.  Correct when what is emitted addresses what the kernel
did.  Modelled in part: `PtrState`, `PtrAnalysis` (straight-line arithmetic),
`TileAccess` (block pointers, `tt.advance`, the forms of loads and stores).

**Triton-to-structured pass** (`TritonToStructuredPass.cpp`).  Splits
loop-carried pointers into tuples and runs the analysis.  Correct when every
iteration addresses what it did.  Planned.

**Triton-to-unstructured pass** (`TritonToUnstructuredPass.cpp`, 738 lines).
State: `offsetMap`, the work list, `ptrUsers`, `deferredRewrites`, `toDelete`.
Operations: visit a use (fourteen kinds), rewrite a user, delete.  Hard: uses in
any order, values reached twice, loops whose argument types change in place,
widths of offsets along a chain, a failure halfway.  Correct when addresses are
kept, each operation is handled once, no pointer arithmetic is left, and a
failed pass leaves a kernel that verifies.  Modelled: `TritonToUnstructured`.

**Mask analysis** (`lib/Analysis/MaskAnalysis.cpp`, 671 lines).  State: per value
a start, an end, per-dimension extents, a scalar.  Operations: parse constants,
comparisons, conjunctions, ranges, broadcasts, expansions, indices a loop
carries.  Hard: empty and clamped intervals, negative numbers, dimensions of
size 1, a range rebuilt from what another analysis left in the loop.  Correct
when the box it returns is the mask, and lies in the tile.  Modelled:
`MaskState`, `MaskAnalysis`.

**Accesses to memref** (`StructuredToMemref.cpp`, `UnstructuredToMemrefPass.cpp`,
`TritonPtrToMemrefPass.cpp`).  Stateless rewrites of a kernel that is all state:
which cells a load or a store touches, whether a tensor is a buffer or a view
of the memory, what a buffer holds where a mask is false.  Hard: masks and bounds
shorter than the tile, gathered rows, block pointers advanced out of the tensor,
tiles that reach their modulo, a store between a load and its use.  Correct when
every tensor holds what the kernel loaded, the memory is what the kernel made of
it, and nothing outside its masks and bounds is touched.  Modelled:
`TileAccess`.

**Arithmetic to linalg** (`ConversionPatterns.hpp`, 4018 lines, and the pass
around it).  State: nothing between two tensor operations; in the module, the
grid's arguments of every function, the global strings and the declarations,
shared by name.  Operations: some forty rewrite patterns.  Hard: which of several
patterns takes a reduction and from which initial value, axes that are moved
first, reassociations of shapes, ties and NaNs, the sign and width of what is
printed, symbols no pattern takes.  Correct when each lowered operation computes
what the Triton operation means, each function reads the launch's grid, each
print shows what it was given.  Modelled: `TensorOps`, `ArithToLinalg`,
`Libdevice`, `KernelPass`; with them the front end of the mathematical library
(`language/cpu/libdevice.py`) and the printing of the *device print* support.

**Experimental pipeline** (`TritonToLinalgExperimental/`).  `ConvertScanOp`
turns scans into shuffles of doubling stride or loops over sub-vectors:
`ScanOp`.  `LoopPtrCarryToOffset` turns loop-carried pointers into offsets; the
others clean up casts.  Correct when each keeps the values of the loop.

**XSMT lowering** (`XSMTToLinalg.cpp`, 1804 lines, with `semantic.py`, the
builders of `triton_shared.cc` and the patterns of `StructuredToMemref.cpp` for
its operations).  State: the operations of a kernel between three passes, and
the memory views share with stores.  Operations: `smt.view` of tensors, tiles
and buffers, `smt.dot`, `smt.vmt4d`, `smt.alloc`; barriers.  Hard: a view that is
fused into its load moves the load to another place, one that is a transpose
changes the layout of whoever else uses it, a buffer takes the layout of its
only view, a sum becomes the accumulator of a product; a release must come after
the last use in a structure of nested regions under every alias, and not twice
though the pass runs twice.  Correct when every tile holds the elements of the
matrix it is a view of, memory is what the kernel's stores make it, and each
barrier is released once, after its last use.  Modelled: `XSMTTiles`,
`XSMTBarriers`, `XSMTToLinalg`.

**TLE lowering, dialects, other language front ends, smt_rvisa code
generator, older pointer analysis, use analysis, profiler front end, sanitizer
support, native launcher and driver, compiler driver**: see section 6 and the
notes in `PROJECT.json`.

### The hazards

`PROJECT.json` lists them, each at its line, with the properties that would
catch it going wrong or the reason that none does.  In short: answers and
buffers that outlive the call they belonged to (RPC), state of a failed compile
taken by the next (mixed mode), a reset between a scope's two ends (profiler),
two modes of one analysis and states that meet in any order (pointer analysis),
bounds outside the tile and ranges rebuilt inside a loop (mask analysis),
tiles at their modulo, at the bounds of the tensor or viewed while written
(accesses), an initial value that is not the operation's identity, a pattern
that takes an operation it does not compute, a string that takes another's name
(arithmetic), and work-list entries queued twice or types changed before a failure
(unstructured pass).

## 2. The models

Conventions.  A module declares its bounds as CONSTANTS with named assumptions;
an action is one operation, handler or step of the code, with its early returns
as disjuncts or actions of their own; names are the source's.  Definitions named
`Bug_X` are defective variants of the `X` that follows them: no specification
uses them, they show that a property fails when the code has that bug.

| module | models | composes with |
|---|---|---|
| `RpcCall` | abstract: what one call promises | |
| `RpcClient` | client, connection, server, faults | implements `RpcCall` |
| `RpcLaunch` | launches made of calls | calls behave as `RpcCall` says |
| `MixedCall` | compiles of mixed-mode kernels in one process | |
| `ProtonRuntime` | threads, scopes, resets, dumps | |
| `OpFoldResult` | numbers known to the compiler, or only at run time | |
| `PtrState` | a state of the analysis, its operations, its meaning | extends `OpFoldResult` |
| `PtrAnalysis` | the visits over a kernel built operation by operation | extends `PtrState` |
| `MaskState` | a mask's state and the operations on it | extends `OpFoldResult` |
| `MaskAnalysis` | the parse of a mask built operation by operation | extends `MaskState`, `PtrState` |
| `TileAccess` | loads, stores, block pointers, on memory | extends `PtrState`; pointers as `PtrAnalysis` leaves them, masks as `MaskAnalysis` does |
| `TritonToUnstructured` | the pass on a kernel built operation by operation | |
| `TensorOps` | tensors, and what linalg, tensor and arith operations compute (external) | |
| `ScanOp` | the two lowerings of `tt.scan`, and what a scan is | extends `TensorOps` |
| `ArithToLinalg` | kernels of tensor operations: shapes, elements, dot, reductions, scans | extends `ScanOp` |
| `Libdevice` | the mathematical functions on offer and the patterns that lower them | |
| `PackedTensors` | matrices of tiles, and what linalg, tensor and memref operations do to them (external) | |
| `XSMTTiles` | views of tiles, products, buffers: front end, three passes, the run | extends `PackedTensors` |
| `XSMTBarriers` | barriers in loops and branches: the pass that releases them, the run | |
| `XSMTToLinalg` | a kernel of one or the other | extends `XSMTTiles`, `XSMTBarriers` |
| `KernelPass` | functions and the grid, prints and assertions, library calls, the module's symbols | extends `Libdevice` |

### RpcCall and RpcClient

`RpcCall` is the contract: calls one after the other; the server performs each
at most once; a call returns (it was performed), is refused (it never will be)
or raises (nothing is known, it may still be performed later).

That the second implements the first is `CallSpec`: `AbstractCall == INSTANCE
RpcCall WITH ...` maps the present call, the results and what was performed, and
the run checks its `Spec`.

`RpcClient` has the socket as the code sees it (`sock`: none, created but not
connected, open; `broken`; `seq_id`), the call as a program counter through
`_ensure_connected`, `_send` and the two reads of `_recv`, the connection as
a queue of requests, a queue of answers and a flag for a stream that starts in
the middle of an answer, and the server: up or down, the requests of connections
it has lost (`orphans`), what it performed.  An answer is a header and a payload,
because an interrupt between the two is what desynchronises the stream.  The
server (external) answers the requests of a connection in order, may be slow,
may crash and come back, may refuse a connection though it is up; the network may
cut; `KeyboardInterrupt` may leave `connect`, `sendall` or a blocking receive.  Each of these last
spends one of `MaxFaults`; timeouts are free.  After an interrupted `sendall` the
server may be left in the middle of a request and take what follows for the rest
of it: the model's server then understands nothing more on that connection, and
may perform the torn request.

*Fairness.*  `WF_vars(ClientStep)`: the client's thread, when it can take a
step, takes one.  A blocking step can always be taken because
`sock.settimeout` (rpc_client.py:56) makes it time out; nothing is assumed of
the server or the network.  `Terminates` needs no more.

### RpcLaunch

A launch is `TensorArg`/`AllocReturns`/`WriteReturns` per argument (with the raw
pointers and the constexprs between them), `ExecReturns`, a read and a free per
storage.  Each call can return, be refused, fail (never performed, performed, or
performed later: the operation goes to `late`) or meet the connection of a
server that restarted.  An exception leaves `__call__` at once.  A kernel adds a
number through every pointer, so that what was read, which code ran and how
pointers alias all show in what it leaves.  The server is external: it answers a
read with the whole buffer, which `read_memory` and the launcher take as it is,
whatever its length (rpc_client.py:213-214, driver.py:570-571).  `handleCurrent` marks the one case
the properties except: `_kernel_cache` is never renewed, and a handle of a
server's earlier life may denote another kernel in its present one.

### MixedCall

A kernel is a sequence of statements (calls of siblings with launch parameters,
loop arguments or computed values; other operations; one that does not
compile).  `Compile` visits it statement by statement, `MakeTtir` takes what is
pending, `Lower` injects the bridges at the anchors.  Every stage may raise.
`dirty`, `exposed`, `raised` and `poisoned` only observe: that a visit raised
since the last take, that the present compile began after it, how many raised
and how many took what was not theirs.

### ProtonRuntime

The generated code reads the cycle counter and *then* calls `proton_record`,
which takes the mutex: two actions, between which other threads, resets and dumps
run.  `open` (a thread's scopes, with whether one was shadowed by an inner scope
of its name or lost at a reset) and `ended` are what should be recorded;
`records` and `active_scopes` are what the code keeps.

### PtrState and PtrAnalysis

A state has per dimension an offset, a size, a stride and a modulo, where an
unstructured dimension has a tensor for an offset; `Decoded` is the address a
state stands for at an index, composed as `accumulateTargetOffset` and the
gather lowering compose it.  `PtrAnalysis` builds a kernel one operation at a
time (constants, arguments, ranges, splats, expansions, broadcasts, casts, sums,
differences, products, remainders, comparisons, loads, `tt.addptr`); each step
computes the tensor the operation yields and, in both modes of the analysis, the
state the visitor computes, early failures and asserts included.  The values not
yet used are a stack, operands before the operation, and each is used once: the
visitor's result depends on the states of the operands alone, so a kernel is an
expression tree, and every tree is built this way.

Eight patterns are wrong in the code, each marked on the values computed with it
and, but for the last, excluded by name from `AddressesExact`: *range dropped*,
*sign lost* (section 5); *offset kept* (the remainder of `s + range` keeps `s` as the
offset of the other dimension, so `s` is added twice);
*scalar stale* (a scalar that survives an operation
that changed the offsets), *comparison* (a comparison is decoded as its left
operand), *wrap shifted* (an offset added to a dimension with a modulo, about
which the code warns; the addition also exchanges the modulos of the two
dimensions), *wrap scaled* (what has a modulo is multiplied by a number that is
not positive, and then so is its modulo), *factors cancel* (the strides of an
unstructured dimension add up to a constant zero: still exact, but the next sum
stops at an assert, section 5; `AssertsHold` excepts it).  Integers are
unbounded, and the casts between widths are the identity, as in the analysis,
which folds them.

### MaskState and MaskAnalysis

A `MaskState` is a range (`start`, `end`), a scalar, or a mask: the box of the
elements whose index is below `dims` in every dimension.  `MaskAnalysis` builds
a kernel's masks like `PtrAnalysis` builds its addresses, an operation at a
time, beside the tensor each yields; three values may be in use, a mask and the
two sides of the next comparison.  `OpFoldResult` keeps apart what the compiler
knows, because the code decides by it: a dimension of size 1 is found by its
attribute, and a comparison between attributes is folded.  `LoopIterArg` is
where two analyses meet: inside a loop the range's start is whatever offset
`PtrAnalysis` put beside the carried tensor, so each integer tensor also has its
`PtrState`.

`form` says whether a value was made as the header's "general lifetime of this
data structure" describes it; `PlainDecoded` is about those.  Six patterns are
wrong or stop the compiler, each marked and excluded by name: *below zero* (a
lower bound is taken to hold, an unsigned bound to be a signed one), *extent
lost* (the extent 0 of a dimension of size 1 is replaced when it is broadcast),
*carried column* (the offset the loop carries is that of dimension 0, the range
is in dimension 1), *carried uniform* (a uniform tensor the loop carries is taken
for a range as long as its value), *and of integers* (bitwise and is parsed as a
conjunction of masks), *range on the right* (an assert).  Two uniform tensors
compared are never decoded when one has a dimension larger than 1, although the
header's case 1 allows it: `TooWide` has a dimension before it looks for one.

### TileAccess

A kernel runs one access at a time on a memory of cells, twice: as it says
(`ref`) and as it is lowered (`mem`).  What the earlier stages leave is the input:
a pointer is a base and a `PtrState` (its address at an index is `Decoded`, which
`AddressesExact` of `PtrAnalysis` is about), a decoded mask is any box in the
tile (`BoxExact`, `BoxInTile` of `MaskAnalysis`), any other mask any set of
elements.  `rewriteLoadOp` and `rewriteStoreOp` choose the form, as in the code:
no pointer of the analysis or no decoded mask means element by element
(`GatherConverter`, `ScatterConverter`); otherwise a gather of rows, a masked
copy, or the memref itself.  `MakeTensorPtr` and `Advance` keep the three
descriptions of a block pointer the code keeps (`offsets` in memory,
`origiOffsets` in elements, and those emitted, `emitted`, which decide the size of
the memref), beside where the kernel's pointer is (`at`).  A tensor is a view
when the load was plain: `bufferization.to_tensor` of the pointer, read when it is
stored.

The kernel stays within its tensors: accesses outside the memory, and stores of
two elements to one cell, are undefined in Triton too.  Six patterns are wrong
or left to chance, each named in `Patterns`, marked when an access meets it, and
excluded from the properties: *wrapped* (section 5), *gather hole* (a
masked gather without `other` does not fill its buffer, where the masked load
does), *aliased* (a store changes a view, which is marked `restrict`; whether the
bufferization outside the repository copies it first is not known), *shared
base* (`offsetMap` keeps the offsets of the last `tt.make_tensor_ptr` on a
base), *before the start* (no lower bound is checked), *past the end* (a
negative size).  TLC finds a violation when any of the first five is no longer
excluded.

### TritonToUnstructured

A kernel is built first (`Move`: addptr, splat, bitcast; `Merge`: select, if;
`IntToPtr`; `For`/`Yield`; `User`: load, store, casts, block pointers, and those
the pass leaves or rejects).  The pass then seeds the work list with the
arguments, pops a value and visits its uses *in any order* (MLIR's use list
depends on how the kernel was built), rewrites the users in the order they were
met and deletes in the order of `toDelete`.  `phase` is where it is: `failed`
when the code returns failure, `undefined` when it uses an erased operation or
an empty range.  `Meaning` follows pointers at run time, in bytes, iteration by
iteration, with every condition true or every condition false; `AddressBefore`
and `AddressAfter` say where each user points.

Exceptions, each named in the module: an offset that overflows the widest type
of its chain, a bitcast that changes the element of a pointer that has an offset,
a loop given back a pointer with another base (`clean`); a `tt.make_tensor_ptr`
whose element offset would be multiplied by its stride (`BlockExact`); kernels
that no longer verify afterwards (`Verifies`: a loop over a root pointer, a
wider offset yielded, a select or branch operand that is a `tt.addptr`, a
`tts.make_gather_scatter_tptr` on one), which stop the compiler loudly;
`tts.make_tptr` without dynamic offsets, which the code dereferences.  Two
kinds of kernel go wrong (section 5): a select of two tracked pointers
(`TwiceReached`), and a `tle.dsl_region` whose operand is erased (`Untouched`):
the region takes operands of any type, so that it verifies with the integer
offset it is handed for its pointer.

### ArithToLinalg, with TensorOps and ScanOp

A kernel starts with a tensor and grows an operation at a time; a step appends
what the lowered operation computes (`last.low`) and keeps beside it, for every
element, the values the Triton operation may have (`last.may`).  The two differ
wherever the lowering takes a way of its own: a transpose before a reduction
along another axis, the initial value of a reduction, the first slice as the
initial value of a region's reduction, reassociated shapes, slices inserted into
an empty tensor, an `arith` operation in place of a comparison and a select, the
doubling shuffles of a scan.  Words have two bits, floats are small integers,
infinities and NaN; narrow floats overflow above 2, so that the type a sum is
accumulated in shows: f32 for a bf16 tensor of one dimension, and bf16, rounded
at each addition, for one of more, since `requiresF32Conversion` is asked of the
type of the result (`ConversionPatterns.hpp:1713`; the lit test
`reducesum_512_256_bf16_axis1.mlir` expects it).  A reduction that Triton may compute in any order may have
any of the results.

Exceptions, each named in the properties: a comparison and a select of its own
operands that becomes a minimum or maximum, when an operand is a NaN; a reduction
by bitwise and (its initial value is 1: section 5), by `maxnumf` or `minnumf` with a NaN, and by
comparison among infinities and NaNs (the initial value is an infinity).  Four
things stop the compiler and are expected to (`Stops`): a predicate of a
comparison `MinMaxConverter` has no case for, a conversion to a narrow float
that asks for rounding towards zero (an assert of `FpToFpOp`), a one-operation
region with several results, and a value of the kernel in a scan's region that was made a vector of
one shape and is used in another (`invariantsMap`).

### KernelPass, with Libdevice

`frames` are the arguments of the functions being run: the pass appends the
grid's three to each, and a call passes on the last ones of its caller.
`globals` and `decls` are the module's strings and declarations, made once per
name: a name keeps the first characters of a text and replaces some, so that two
texts may share one (`Shared`), and a function keeps the type of its first
declaration.  A call of the mathematical library is a symbol, types, and whether
its operands are tensors; `Patterns` are those that would take it and
`LoweredOp` what it becomes, `Means` what the function is, on numbers in halves
with the infinities and NaN.

A print of a scalar, or of a text alone, is a call of `printf` whose format holds
the text as it is, so a `%` in it is a directive; the text of a tensor's print
and of an assertion is an argument, and shown as it is.

Exceptions: the divisions with a rounding mode round the quotient to an integer;
numbers in base sixteen that are floats or negative and shorter than an int;
texts that share a name, and texts with a `%` (both in section 5).  Not compiled, and named in `Compiles`: library calls on
scalars other than those of `ConvertExternElementwise`, the absolute value of
integers, the double `tanh` and `atanh` of CUDA's library, pointers that are
printed (alone, an operand that `printf`'s call cannot have, or without a width
for base sixteen; in a tensor, a `bufferization.to_buffer` to another element
type), and tensors of two element types printed by one kernel (the runtime's
function is declared for the first).  `gelu` and `silu` are compared at 0, infinity and NaN; at minus infinity
they have no value to compare with, and the lowered expressions give NaN.

### XSMTToLinalg, with XSMTTiles, XSMTBarriers and PackedTensors

`program` is a sequence of calls; `FrontEnd` emits the operations of one call a
step (`view` chooses among five, `create_mmt4d` may put a transpose before the
product), a step is a pass over all of them (`StructuredToMemref`: views fused
into loads, buffers given the layout of their view; `XSMTConversion`: transposes
done by views, sums accumulated; `BufferizationCleanup`: a tensor unpacked into
the memref it is stored to), and then `Call` runs one call after the other,
twice: as written on matrices (`spec`, `ref`), as lowered on matrices of tiles
(`got`, `mem`).  A kernel that does not compile stops, for a reason
(`stopped`); one is *dangling*: a product merged into a sum is erased whoever
else uses it, another view or sum, or the sum itself where it is both operands
(`a @ b + a @ b`).  Whether an offset of a view is a constant zero is asked
after the greedy driver folded the constants extended to 64 bits.

Exceptions, `Patterns`: *short view* (a view has more tiles than its base has
rows or columns for), *elided* (a view at constant zero offsets packs all of a
load that is larger), *mask dropped* (a view of a masked load reads what the mask
excludes), *overtaken* (a store comes between a load and its view, which reads
where the load was not), *unaligned* (a view of a packed buffer that starts inside a tile
is rounded up to the next), *masked store* (an unpacked tensor is stored without
the mask).  TLC finds a violation when any one of them is no longer excluded.

`ops` is a kernel with barriers: an operation with a body is followed by its
body.  The pass visits the allocations in any order, twice
(`mbarrier` operations are lowered by the same pattern set in both runs of
XSMTToLinalg), and puts each release behind the last user of any alias, in the
block of the allocation; the run then takes every branch and every number of
iterations.  Exception, `PassedOn`: a barrier that a region yields into a result
the closure does not follow (an `scf.if`, whose users are not the operation but
its yields; a loop that yields it into another of its places).

## 3. The runs

| run | config | properties | shows | distinct states |
| --- | --- | --- | --- | ---: |
| rpc_client | `MCRpcClient.cfg` | `ReplyMatches`, `ReturnedInSync`, `RaisesBounded`, `Terminates`, `CallSpec` | Through timeouts, cuts, crashes, restarts, and interrupts in connect, send and receive, the client never returns another call's answer, leaves nothing in the stream of an answered call, loses at most two calls per fault, ends every call, and implements the at-most-once call of RpcCall. | 38060 |
| rpc_launch | `MCRpcLaunch.cfg` | `LaunchCorrect`, `OldOrNew`, `LateHarmless`, `LeaksOnlyByAborts` | A remote launch that returns has the effect of running the kernel in place, through every alias of a storage; one that raises leaves every storage old or new; calls performed late touch no live buffer; only raising launches leak buffers. | 3298193 |
| mixed_call | `MCMixedCall.cfg` | `CompiledAsWritten`, `PoisonedOncePerRaise` | In a process no failed compile left dirty, a mixed kernel that compiles runs its statements in source order with the siblings and launch parameters it names; a compile that raises spoils at most one later compile. | 13483 |
| proton | `MCProtonRuntime.cfg` | `IndexValid`, `ProfileExact`, `DumpAddsUp` | Whatever the interleaving of the threads' scopes with the host's resets and dumps: no index leads out of the records or to another scope's record, the completed records are exactly the scopes closed since the reset, and a dump adds up to them. | 171839 |
| ptr_analysis | `MCPtrAnalysis.cfg` | `AddressesExact`, `ScalarIsUniform`, `AffineStructured`, `AssertsHold` | Every kernel of up to nine operations on small tensors, with and without gather pointers: what the analysis emits addresses what the tt.addptr did, affine arithmetic is always decoded as structured, a state's scalar is its uniform value, and no assert of the analysis fails unless factors cancel. | 914946 |
| mask_analysis | `MCMaskAnalysis.cfg` | `BoxExact`, `PlainDecoded`, `AssertsHold` | Every mask of comparisons of up to three tensors at a time, inside and outside a loop: what is decoded selects exactly the elements the mask is true for, never one outside the tile, every mask in the form the analysis is for is decoded, and no assert fails. | 302279 |
| tile_access | `MCTileAccess.cfg` | `TensorExact`, `MemoryExact`, `NothingElseTouched` | Every kernel of two accesses through structured, split, gathered, scalar and block pointers, plain, masked, bounded or element by element, with advances between them: but for the listed patterns, tensors and memory are what the kernel says, and nothing outside its masks and bounds is read or written. | 143509 |
| unstructured | `MCTritonToUnstructured.cfg` | `AddressesExact`, `HandledOnce`, `Eliminated`, `FailureKeepsKernel` | Every kernel of up to five operations on two pointer arguments, with a select, a loop, a branch, casts, regions and every kind of user, in every order of the uses: what the pass leaves addresses what the kernel did unless a region was handed an offset, each operation is queued and erased once unless a select has two tracked pointers, no pointer arithmetic is left, and a pass that gives up leaves a kernel that verifies unless it changed the types of a loop. | 1191658 |
| tensor_kernel | `MCArithToLinalg.cfg` | `TensorsExact`, `ReducesExact`, `ScansExact`, `Stops` | Every kernel of two tensor operations on small tensors of words and floats, infinities and NaNs among them: reshapes, elementwise arithmetic, dot, the lowerings of reduce along each axis and both directions of scan compute what the operations mean, and the compiler stops in the listed ways only. | 171608 |
| kernel_pass | `MCKernelPass.cfg` | `NumProgramsExact`, `PrintedExact`, `FunctionsExact`, `Compiles` | Kernels of three operations that call functions, the mathematical library, device_print and device_assert: every function reads the launch's grid, prints show what they were given but for a % in the text and texts of one name, library calls compute their function, and what does not compile is on a list. | 336854 |
| xsmt | `MCXSMTToLinalg.cfg` | `TilesExact`, `StoresExact`, `ReleasesExact` | Views, products, sums, buffers and stores of tiles mean what the kernel's matrices say, but for the listed patterns, and barriers are released once and after their last use, however branches and loops go. | 16848 |

Runs that end in the violation they are for:

| run | config | property | shows |
| --- | --- | --- | --- |
| ptr_gathers | `PtrGathers.cfg` | `GathersExact` | A range added to a loaded index of the same dimension is lost from the address, and a loaded index that is subtracted is added. |

Why the bounds are enough, and what was made sure to happen inside them:

- `MCRpcClient`: a fault hits one call, what it leaves behind can hit the next;
  a cascade would need a third, and the fourth shows recovery.  Two faults are
  what it takes to combine an interrupt with a crash, or a crash with another
  while the server starts.
- `MCRpcLaunch`: two launchers whose kernels have one name and different code,
  and a third sharing the first's cache entry; argument lists with two storages,
  two views of one, a constexpr between them, a raw pointer with and without its
  tensor.  Three buffers for launches that use two: the launch after an abort
  that leaked two runs out of them.  The two launchers of one kernel are symmetric.
- `MCMixedCall`: eight kernels, one for each way a call can be right or wrong
  (one in a loop that passes nothing among them);
  four compiles: one that raises, one that takes what it left, two after.
- `MCProtonRuntime`: six cycles open and close three scopes: two nested in one
  thread and one in the other, or one cut by the reset and two after it.
  Threads and names are symmetric (no property names one).
- `MCPtrAnalysis`: tensors of 2, 2x1, 1x2 and 2x2, so that every broadcast and
  expansion exists; nine operations reach a gather in two dimensions whose
  unstructured dimension has a stride, and one whose factors cancel.  At most two
  values wait to be used (`MaxValues`): one operand of each operation is a chain;
  the theorems are about every tree.  A start of 1, an argument of 3, and the
  constants 2 and -1 keep apart all products and sums that must differ; the zeros of
  expanded and splat dimensions exercise the folds.  The constraint stops a kernel whose state is already failed or
  already has a known pattern.
- `MCMaskAnalysis`: vectors of one and two, columns, rows and 2 x 2; ranges that
  start at 0 and at 1; limits -1, 0 and 2 below, at, inside and above them, one
  of them a constant and the others known at run time; a loop that leaves its
  index or moves it past the range.  The constraint stops at a value that is not
  decoded or has a known pattern.
- `MCTileAccess`: two accesses, so that a load is followed by the store of what
  it left, or a store by a load of what it wrote; an advance before or between
  them (from offsets that are zero and not), or two pointers declared.  Eleven pointers on eight cells: ranks 0 to 2, offsets
  and strides known and unknown, a dimension of size 1 with stride 0, rows that
  overlap or leave gaps, a modulo reached and not reached, a gather along each
  dimension with strides other than 1; tensors of 3 x 2 and 1 x 3 for tiles of
  2 x 2, so that an advance leaves a whole tile, a part in either dimension, or
  nothing.
- `MCTritonToUnstructured`: five operations and one user on two pointers: a loop
  (two operations) with a moving access, its result used after it, offsets of
  widths 4 and 6 bits (the default is 4, so an offset of 2 wraps after four
  additions around a loop), selects, branches, casts to other elements, regions, each kind of
  user; the constraint removes kernels that repeat a rare operation or only
  exchange the arguments.  Both sides of each condition and both iterations are
  compared.  All exceptions above and all phases are reached.

- `MCArithToLinalg`: two operations, so that each lowering meets what another
  left (a fill, a transposed or sliced tensor, a split pair); shapes of one to
  three dimensions of sizes 1 to 3, so that every axis is first, middle and last;
  2 and 3 elements along the reduced axis; words with either sign, floats that
  overflow, infinities, NaNs, ties.
- `MCKernelPass`: a grid of three different sizes; texts of which two share a name
  by a replaced character and two formats by being cut; three operations: two
  texts under one name and the print that shows the wrong one, or two calls and
  the read of the grid below them; a library call, which shares nothing with the
  other operations, as the first one only; a text with a `%`, a print of no
  value, pointers alone and in tensors.
- `MCXSMTToLinalg`: a matrix of three rows and four columns, so that blocks of
  four reach past it and tiles of two leave a rest in one direction; views at
  constant and other offsets, before, on and across the edges of tiles, of loads,
  of views, of filled tensors and of buffers; products with the second operand
  either way around and with either tile; up to nine calls.  Barriers: eleven
  kernels with two levels of loops and branches, the aliases of each forwarding
  operation; three iterations, so that two nested loops both come around.

Deadlock is not checked where the system may stop: calls, launches and compiles
are bounded, a kernel is a finite program.  Every property of a passing run is
shown to fail with a defective variant of a modelled definition
(`PROJECT.json`, `mutants`).

## 4. The proofs

| theorem | states | establishes |
| --- | --- | --- |
| `RpcClient_proofs!TypeCorrect` |  | The type invariant, for any number of calls and faults. |
| `RpcClient_proofs!ReplyMatchesHolds` | `ReplyMatches` | A call never returns another call's answer: seq_id tells the calls of a connection apart, and a new connection starts with an empty stream. |
| `RpcClient_proofs!ReturnedInSyncHolds` | `ReturnedInSync` | A connection kept after an answered call, an error of the server's included, has nothing left in its stream: requests keep their order, so the answer to the latest one is the last. |
| `RpcClient_proofs!ImplementsRpcCall` | `CallSpec` | Every behaviour of the client and the server is one of the at-most-once, one-at-a-time call: each step of RpcClient maps to a step of RpcCall or a stutter. |
| `MixedCall_proofs!PoisonedOncePerRaiseHolds` | `PoisonedOncePerRaise` | For any kernels and any number of compiles: what a compile that raises leaves pending is taken by at most one later compile. |
| `ProtonRuntime_proofs!TypeCorrect` |  | The type invariant, for any threads, names and depth of nesting. |
| `ProtonRuntime_proofs!IndexValidHolds` | `IndexValid` | No index kept in active_scopes_ leads out of records_ or to another scope's record. |
| `ProtonRuntime_proofs!ProfileExactHolds` | `ProfileExact` | The completed records are exactly the scopes closed since the last reset that were neither shadowed nor open at a reset. |
| `RpcLaunch_proofs!LateHarmlessHolds` | `LateHarmless` | A call a launch gave up on, performed at any later time, touches no buffer of the launch under way: what an exception leaves allocated is not given out again, and of each launch one call is given up. |
| `RpcLaunch_proofs!LaunchCorrectHolds` | `LaunchCorrect` | A launch that returns, with a handle of the server's present life, has done to the host's storages what its kernel would have done to them in place, through every alias among its arguments, whatever calls of earlier launches the server performs meanwhile. |
| `RpcLaunch_proofs!OldOrNewHolds` | `OldOrNew` | While a launch runs and after any of its calls has raised, each host storage is as before the launch or as the launch should leave it. |
| `MaskAnalysis_proofs!ComparisonExact` |  | Of a range of any size above one, wherever it starts and wherever the limit lies, known to the compiler or not, a comparison's mask selects the elements it holds for, and its box lies in the tile. |
| `MaskAnalysis_proofs!ConjunctionExact` |  | The conjunction of two boxes of equal rank, whatever the rank, selects the elements both select. |
| `MaskAnalysis_proofs!TileMaskExact` |  | The mask of a two-dimensional tile, from its ranges to the conjunction, selects the tile's elements within the matrix, for all offsets, tile sizes and matrix sizes. |
| `RpcClient_proofs!RaisesBoundedHolds` | `RaisesBounded` | One fault costs at most the call it hits and the next one, for any number of calls and faults: a connection that a call left unusable, or with something unread in it, is gone before a third. |
| `TritonToUnstructured_proofs!HandledOnceHolds` | `HandledOnce` | The walk queues, rewrites and erases every operation once, in kernels of every size and in every order of the uses, but for selects reached from both of their pointers. |
| `TritonToUnstructured_proofs!EliminatedHolds` | `Eliminated` | When the pass succeeds every tt.addptr, tt.splat and tt.bitcast that a pointer reaches other than through an scf.if was erased, in kernels of every size. |
| `TritonToUnstructured_proofs!FailureKeepsKernelHolds` | `FailureKeepsKernel` | A pass that gives up before it has entered a loop leaves a kernel that verifies, in kernels of every size. |
| `RpcLaunch_proofs!LeaksOnlyByAbortsHolds` | `LeaksOnlyByAborts` | What stays allocated beyond the buffers of the launch under way was left behind by launches that raised, at most a buffer per storage each, an allocation the server performs after its caller gave up included. |
| `MixedCall_proofs!CompiledAsWrittenHolds` | `CompiledAsWritten` | A compile that begins in a process no earlier visit left dirty, and whose calls pass only the host's own launch parameters, either raises or produces a binary that holds the siblings it calls and no other, and performs its calls and its other operations in the order of the program, each call on the parameters the program passes. |
| `MaskAnalysis_proofs!BoxExactHolds` | `BoxExact` | For shapes, starts, extents and numbers of every size, and along every sequence of operations: the mask the analysis returns selects exactly the elements at which the program's mask is true, its box lies in the tile, unless the mask met one of the listed patterns. |
| `MaskAnalysis_proofs!PlainDecodedHolds` | `PlainDecoded` | A mask built only from ranges, splats, comparisons of a range with a number and conjunctions, expanded and broadcast where at most one dimension is wide, is always decoded, of every size. |
| `MaskAnalysis_proofs!AssertsHoldHolds` | `AssertsHold` | No operand outside the listed patterns brings the analysis to an assertion that fails, for shapes and numbers of every size. |
| `KernelPass_proofs!NumProgramsExactHolds` | `NumProgramsExact` | For every grid and kernels of every number of operations: however deep the calls and however many arguments the functions have, a function that asks for the number of programs reads the launch's grid. |
| `KernelPass_proofs!PrintedExactHolds` | `PrintedExact` | For every set of texts and every length names are cut to: prints and assertions show the text, value, message and file they were given, unless two texts share a name, or a print of a scalar or of nothing else has a text with a %, which printf reads as a directive. |
| `KernelPass_proofs!CompilesHolds` | `Compiles` | A kernel of any sequence of calls, prints, assertions and library functions compiles, but for the listed ones: printed pointers, tensors of two element types, and the library functions no pattern takes. |
| `TritonToUnstructured_proofs!AddressesExactHolds` | `AddressesExact` | For kernels of every size, every trip count, offset, stride and width: when the pass succeeds and its result verifies, every user of a pointer addresses what it did, in every iteration and on both sides of every branch, but for offsets that overflow their widest type, casts of pointers with an offset, loops given back another base, strides of block pointers, and regions handed an offset for their pointer. |
| `ProtonRuntime_proofs!DumpAddsUpHolds` | `DumpAddsUp` | What a dump reports of a name is the number and the total length of the scopes of that name closed since the last reset, for any threads, names, depth of nesting and order in which the closed scopes were recorded. |
| `PtrAnalysis_proofs!OperandsRightHolds` |  | The inductive invariant: for every expression tree over tensors of one and two dimensions of any size, the two states of each value have the right forms, agree where the merge of them needs it, and decode the value unless a listed pattern was met. |
| `PtrAnalysis_proofs!AddressesExactHolds` | `AddressesExact` | What rewriteAddptrOp emits points, for every index, where the tt.addptr it replaces does, in every kernel that met none of the patterns but *factors cancel*. |
| `PtrAnalysis_proofs!ScalarIsUniformHolds` | `ScalarIsUniform` | A state with a scalar is that of a uniform tensor, whose every element is the scalar. |
| `PtrAnalysis_proofs!AffineStructuredHolds` | `AffineStructured` | Pointer arithmetic that is affine in the index is always decoded as a structured state, in whatever order it is written. |
| `PtrAnalysis_proofs!AssertsHoldHolds` | `AssertsHold` | The asserts of addState, mulState and their callers hold in both modes unless factors cancel, and the states left have the types and sizes of their tensors. |

**RpcClient.**  From `BoundsAssumption` (the bounds are naturals) only.
`ReplyMatches` is not inductive: nothing in it says that an answer in the stream
with the expected number belongs to the present call.  `SeqInv` does:
numbers only grow within a connection, so only the answer to the latest request
carries the latest number, and while a payload is read its header was that
call's.  `ReturnedInSync` needs `OrderInv` besides: requests are answered in the
order of their numbers, so behind the answer to the latest one nothing waits.
`TypeOK` is left to its theorem, no run repeats it.  `RaisesBounded` is an
account: `Debt` counts the calls that raised, and one more when the socket is
such that the next call on it will raise (`Owed`: a `connect` failed, the
connection is gone, or something is left on it), and no step makes it more than
twice the faults (`RaiseInv`).  Refinement needs two more invariants: `PhaseInv` (a
call is in progress exactly when the client is not idle, and calls to come have
no result), and `PendingInv` (a call waits in one place at most, the
connection's queue or the orphans; only before it is performed; and an answer
tells the truth about what was performed).  With them every step of the client
or the server maps to a step of `RpcCall` or leaves its variables alone.

**RpcLaunch.**  From `LaunchAssumption`: binaries add a positive number, pointer
arguments lie in storages, storages are not empty, a device address is not null.
`LateHarmless` rests on three facts that hold together (`IInv`): the calls given
up are about different buffers (`LateInv`: of each launch only one call is given
up, since the first exception leaves `__call__`); those buffers stay allocated,
so they are given to no other launch; and a launch refers to buffers of its own
only, each once in `remote_addrs` (`LocalInv`), allocated while the server lives
(`LiveInv`).  `LaunchCorrect` and `OldOrNew` need the contents as well (`VInv`):
a handle of the server's present life is that of the launcher's code, also when
it comes from `_kernel_cache` under another launcher's key (`HandleInv`); until
the kernel has run, the host's storages are as they were and each uploaded one
equals its buffer, which no other storage shares (`UploadInv`); each pointer has
been translated to its place in that buffer or to none (`ArgsInv`), so that
running the kernel on the buffers adds to each cell what running it in place
would (a count of pointers, equal set by set); then each storage already is, or
is in a buffer not yet read, what it should be (`ReadInv`).  What a late call
does is harmless to all of it by `LateInv`.  `LeaksOnlyByAborts` is again an
account (`LeakInv`): the live buffers that the launch under way does not refer
to, and an allocation that was given up and may still be performed, are at most
one per storage and launch that raised.

**MixedCall.**  From `KernelAssumption`.  `LeftByARaise`: more is pending than the
compile under way recorded only if a visit raised since the last take, and that
raise has not been paid for by a poisoned compile.  `CompiledAsWritten` follows
one compile in a clean process (`CleanInv`): after `next - 1` statements the
host's anchors, the siblings pending and their parameters are those of the first
`next - 1` statements in their order (`Recorded`), so the bridge that the
injection puts at an anchor, which it finds by a position in the concatenated
parameters, gets the parameters of that call.  Concatenations are `FlattenSeq`;
what it yields is proved by induction over the calls (`PiecesPlaced`).  The proof
found the exception `LaunchInputsOnly`, which no run had met (section 5).

**ProtonRuntime.**  From `ProtonAssumption`.  `StackInv`: for every thread the end
about to be recorded is the innermost scope's; of a name at most one open scope
is live, neither shadowed nor lost; live scopes are exactly what
`active_scopes` leads to.  `FreshInv`: no two scopes start with the same reading
of the counter, among the records and the calls that have read it and not yet
recorded (the counter moves between two readings: the model's assumption).  So no
two records are equal, and the code's loop over the records adds up what
`DumpAddsUp` sums over a set (`TimesAddUp`, by induction over the records;
`SumOfSet`: the sum does not depend on the order).

**TritonToUnstructured.**  From `WidthsAssumption` and `KernelAssumption`, for
kernels of every size and uses visited in any order.  `KernelInv`: loops follow
one another and each is closed when the pass starts.  `WorkInv`: types, and
whatever is queued has an offset.  `OnceInv`: what was queued, or noted to be
rewritten or erased, was so by a use that is behind the walk, so that a use still
to come finds its operation untouched; this gives `HandledOnce`.  `ReachInv`: what
a value with an offset is used by has one, or the value is queued, or the use is
to come; when nothing is left, the operations with an offset are closed under
uses and contain what is reached, which gives `Eliminated`.  `ErasedInv`: nothing
is erased during the walk, which gives `FailureKeepsKernel`.

`AddressesExact` is a property of the state the pass ends in, about a recursive
function.  `Rank` orders the points of a run of the kernel (a value, an iteration,
the side of the branches): a point comes after the point it takes its meaning
from (`FromBefore`), so that the recursion has a solution (`MeaningDef`) and what
is inherited along it is true everywhere (`PointInduction`).  Two more invariants
say what the pass left: `OperandInv`, that an operand is computed before its use, in
no loop that its use is not in, and has the type of the result but for a bitcast;
`MapInv`, that each entry of `offsetMap` is the one the operation's kind makes of
its operand's, and that the base of a value is outside the loops the value is
outside of.  Then the offset of a value leads from its base to where the value
points, and has the width it was computed with, one kind of operation at a time
(`Leads`, `LeadsAdded`, `LeadsMove`, `LeadsLoop`, `AllExact`).  A loop is the one
place where the result must verify: the offset given back has the type of the
loop's only then (`LoopVerified`), and the base it leads from, being outside the
loop, is where it was an iteration before (`OutsideSame`).

**MaskAnalysis.**  From `ShapesAssumption` and
`InputsAssumption`; three theorems of the runs, and before
them what one mask goes through (`ComparisonExact`, `ConjunctionExact`,
`TileMaskExact`, which assume numbers and tiles only).  The inductive invariant is
`OperandsRight`: every value not used yet is of its types (`Typed`), has a state
of the shape of its tensor (`Shaped`) whose box lies in the tile and whose range
is as long as a wide dimension (`Within`), says what the tensor's elements are
unless it has met a listed pattern (`Exact`), and, if it is an integer, has a
pointer state whose offsets add up to its first element (`PtrRight`, for the
index a loop carries).  There is one lemma per parse operation, over all shapes of
one and two dimensions, extents and numbers; a number known to the compiler and
one known at run time give the same value (`AddType`, `SubType`, `MinMaxType`),
but decide differently which patterns are met, so each lemma follows both.

**PtrAnalysis.**  From `ShapesAssumption` (one or two dimensions of positive
size) and `InputsAssumption` (ranges of more than one element, constants other
than 0 and 1: the others are folded before); the four properties of the run, for
every shape and every expression tree.  `OperandsRight` says of every value not
used yet that it is `Right`, which has four parts.  `Pair`: the forms of the two
states, whatever was met on the way; in each at most one dimension is
unstructured, the second state has no modulo, the first stopped at no assert and
is structured if gathers are switched off.  `Safe`: in the second state no unstructured dimension has a constant
zero for a stride, unless factors cancelled, so that the asserts of `addState`
hold.  `Simple`: the first state of an affine value is structured and has
no modulo.  `Exactly`:
unless one of the other patterns was met, the states decode the value.  This last part
is where `AddressesExact` is not inductive.  The first mode's state, once
unstructured, decodes to nothing (the offset of its unstructured dimension only
marks it), yet what `rewriteAddptrOp` emits is that state with one dimension of
the second mode's put in; so the two must be unstructured in the same dimension
and have the same terms in all others (`Same`), through each operation.  Nor can
the second state be taken for the first where that is structured: it says the
same in other numbers.  The lemmas go up from numbers (remainders, and
`OpFoldResult`s known and unknown) to dimensions, states, the pair of states of
a value, and the stack.  The proof showed that two patterns were missing, *wrap
scaled* and *factors cancel*, which the run had not met.

**KernelPass.**  From `KernelPassAssumption`: a grid of three numbers, texts that
are sequences.  The invariant has five parts: every function on the stack ends
in the grid (`FramesInv`, through `CallConverter`); a string of the module was
asked for under its name (`GlobalsInv`, through `createStringConstants`, which
keeps the first of those a step asks for); a file's name is no other family's
(`FilesInv`); `printf` and `spine_assert` are always declared alike (`DeclsInv`);
and what did not compile so far is on the list.  For a library call, `SortedIs` sorts the
overloads of `libdevice.py` into ten families by their types, and `CpuLowered`
finds the pattern of each.  `FunctionsExact` has no constant in it: TLC
enumerates every call there is, which leaves nothing to prove.

**Induction.**  The library's induction theorems take an operator, which none of
the installed provers can instantiate; `SetInduction` takes a set, which they
can build.  It follows from the well-foundedness of the naturals, and is what
the recursive functions of the community modules are unfolded with.  It is proved
in each module that needs it, and so are `SubsetInduction`, the same for the
subsets of a finite set, and `SetRecursion`: a function that takes one element at
a time out of a set exists, which the folds over sets need before anything can be
said of what they return.

Only model-checked: liveness (`Terminates`); `FunctionsExact`, see above; the
accesses, the tensor kernels and XSMT.
The type of `TileAccess`, which has no proof, is a conjunct of its property
`MemoryExact`: a state outside it means a step that was not thought of, never a
fault of the code by itself.  `TensorOps` uses `Bitwise` and
recursive operators, so nothing is proved in the modules above it.

## 5. Where code and comments disagree

Found while modelling, the violation a run of its own ends with
(`PROJECT.json`, `findings`):

- `AnalysisStructured/PtrAnalysis.cpp:303` and `:731`: a range added to a loaded index of
  its dimension is lost, and a loaded index that is subtracted is added
  (`GathersExact`).

More the models contain, named there as exceptions, which no run states as a
property of its own.  Where a property excepts one, TLC finds the property
violated without the exception (but for *factors cancel*, where the constraint of
`MCPtrAnalysis` stops before the assert):

- `_ensure_connected` promises to rebuild a connection "if it was never opened"
  (`rpc_client.py:76`), but a socket whose `connect()` failed is taken for one, and
  one more call fails on it (`ConnectFails`, and `RaisesBounded` allows two calls
  per fault for it).
- "The host entry block is identical across all _sr_call sites in one kernel, so
  overwrite freely" (`call_registry.py:145`), but the block of a call inside a loop
  is the loop's body: a call there that passes no parameters overwrites
  `host_arg_kinds` with the kinds of the loop's arguments, and the launch
  parameters of the other calls are looked up in those (`LaunchInputsOnly`, which
  `CompiledAsWritten` excepts; the kernel `ticking` of `MCMixedCall`).  Found by
  the proof, not by a run.
- `take_pending_llvm_calls` promises an "Empty list if the just-compiled kernel
  had no mixed llvm-direct calls" (`call_registry.py:73`), but what a failed compile
  left pending is taken by the next kernel whichever it is
  (`PoisonedOncePerRaise` bounds the damage).
- "If lhs stride is zero, it must be structured" (`PtrAnalysis.cpp:254-258`), but a
  sum of two gathers of one tensor keeps the tensor for its offset and adds the
  strides: when these cancel, as in `x * (-1) * 2 + x + x`, the sum is
  unstructured with a stride of constant zero, and adding another tensor stops
  at the assert (without asserts the stride counts as 1, and the address is
  wrong; pattern *factors cancel*).  Found by the proof.
- "tle.dsl_region carries its !tt.ptr operands untouched" and "This pass must not
  rewrite them into offsets" (`TritonToUnstructuredPass.cpp:579-583`): the walk
  skips the region, but the operation its operand comes from is replaced by its
  integer offset in all of its uses at the end (line 710), and the region has no
  verifier that would refuse it (`Untouched`, which `AddressesExact` excepts).
- A select of two pointers is rewritten to "a new base pointer with offset 0 so
  that downstream addptr ops accumulate offsets relative to whichever pointer is
  selected" (`TritonToUnstructuredPass.cpp:559-561`), but it is queued once for each
  of the two (line 570), and its users are rewritten and erased twice
  (`TwiceReached`, which `HandledOnce` excepts).
- The shape of a `tts.make_tptr` without order "signifies the boundary by which
  addresses wraps around" (`TritonStructuredDialect.td:44-45`), but since "Scheme A"
  the shape is not looked at, and a tile that reaches its modulo is loaded from
  the addresses after it (`StructuredToMemref.cpp:567`; pattern *wrapped*).
- The pass matches reductions "so that we know how to initialize the initial
  reduce values correctly" (`TritonArithToLinalg.cpp:100-102`), but one by bitwise
  and starts from 1 and keeps the last bit of its words only
  (`ConversionPatterns.hpp:1606`; group "special").
- `createStringConstant` is to "Build unique global name"
  (`ConversionPatterns.hpp:3809`), but a name is a cut and cleaned text, and a
  second text with that name prints the first (`Shared`).
- `Format: "(%i, %i, %i) prefix: <value>\n"` (`ConversionPatterns.hpp:3937`), but the
  prefix becomes part of `printf`'s format as it is, and a `%` in it starts a
  directive; a tensor's prefix is passed as a string.
- `smt.dot` is `a @ b + c` (`XSMTOps.td:334`), but the lowering ignores a third
  operand and starts from zeros.
- A view is emitted whatever its base is short of: `test_smt.py` `test_mmt4d`
  views blocks of K = 512 of a tensor with K = 256 (pattern *short view*).

## 6. What is not modelled

- *XSMT*: the third operand of `smt.dot`, destination operands of views,
  `ForToForall` (values carried by `smt.parallel`), threads and records, element
  types, unpacking to four dimensions, copies of several allocations, and
  `MBarrierLoopCheck`, which reports an error and lets the compile go on.  All of
  TLE: its front end and lowering hand tiles to a runtime that is not here.
- *Text*: the smt_rvisa code generator and the launcher's generated C++ print
  programs; their correctness is that of the text.
- *Stateless builders and wrappers*: the language front ends but those named
  above, dialects, the profiler front end, sanitizer attributes, debug
  locations, the runtime's printing of tensors.
- *Superseded code*: `lib/Analysis/PtrAnalysis.cpp`, `UseAnalysis.cpp` and the
  older triton-to-linalg pass, which the production pipeline does not run.
- *External programs*: spine-opt, LLVM, the RPC server, Triton's visitor.  What
  the models say of them is what the code in `src/` relies on.
- *Of the modelled components*: `get_client`'s singleton, `last_instance` and the
  environment variables; LLVM text of siblings, calls in inlined callees; the
  JSON and the dump at exit; scalar masks; loop-carried
  states of the pointer analysis; gathers whose offsets are remainders
  (`hasWraparoundGatherOffset`), the copies of wraparound segments (no longer
  reached), conversions of the element type, paddings that are not a number
  (zero in the code); nested loops and the clean-up passes after the
  unstructured pass; the patterns of `ConversionPatterns.hpp` that only the older
  pipeline registers (loads, stores, loops, cumulative sums), tensors of
  pointers.
- *Planned*: everything marked so in section 1.

## 7. Plan

Most important first: what can silently produce wrong results.

| step | module | what | abstract or reference definition | bounds |
|---|---|---|---|---|
| done | `RpcCall`, `RpcClient`, `RpcLaunch` | remote execution | `RpcCall` | above |
| done | `MixedCall`, `ProtonRuntime` | state across compiles and threads | | above |
| done | `PtrState`, `PtrAnalysis`, `TritonToUnstructured` | addresses | the addresses of the kernel | above |
| done | `MaskState`, `MaskAnalysis` | the box of a mask | the mask, element by element | above |
| done | `TileAccess` | block pointers, loads and stores as memory accesses | the kernel on a memory of its own | above |
| done | `TensorOps`, `ScanOp`, `ArithToLinalg` | shapes, reductions, scans | the Triton operation, element by element | above |
| done | `Libdevice`, `KernelPass` | functions, prints, library calls | the function; the text | above |
| done | `XSMTTiles`, `XSMTBarriers` | views, products, barriers | the matrix of each tile; the run of each kernel | above |
| next | `LoopPtr` | loop-carried pointers: `LoopPtrCarryToOffset`, the tuples of `TritonToStructuredPass`, `rewriteForOp`, advances in a loop | the pointer of each iteration | two iterations, one nested loop |
| then | `NativeLaunch` | the singletons and the compile cache under two threads | each thread launches what it compiled | two threads, two kernels |

`LoopPtr` drives `PtrAnalysis` around a loop and `TileAccess` in one.

Theorems to come: `ReleasesExact` of `XSMTBarriers` (the last user of the closure
is behind every use); `MemoryExact` of `TileAccess`, on top of `AddressesExact`.
