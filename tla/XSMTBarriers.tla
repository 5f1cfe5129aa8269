----------------------------- MODULE XSMTBarriers -----------------------------
(***************************************************************************)
(* The release of barriers: a kernel allocates them (smt.mbarrier) and     *)
(* waits on them; InsertMBarrierReleasePattern releases each after the     *)
(* last use it finds.  XSMTToLinalg runs twice on a kernel.                *)
(*                                                                         *)
(* A kernel is a sequence of operations, those of a region after the one   *)
(* that has it and up to its end.  The value <<i, k>> is the k-th result   *)
(* of operation i, <<i, -k>> the argument of its body.                     *)
(***************************************************************************)
EXTENDS Integers, Sequences, FiniteSets, SequencesExt

CONSTANTS
  Kernels,
  MaxTrips    \* iterations of a run, of all its loops

ASSUME MaxTripsAssumption == MaxTrips \in Nat

VARIABLES
  ops,        \* the kernel
  releases,   \* [barrier, at, before]: where its release was put
  pass, todo, \* the run of the pass, and the allocations it has not visited
  pc, env,    \* the run: the operation, and what values are
  trips,
  live,       \* barriers by number: allocated and not released
  failures

barrierVars == <<ops, releases, pass, todo, pc, env, trips, live, failures>>

AllocsOf(k) == {i \in DOMAIN k : k[i].op = "alloc"}

BarriersInit ==
  /\ ops \in Kernels
  /\ releases = <<>> /\ pass = 1 /\ todo = AllocsOf(ops)
  /\ pc = 1 /\ env = <<>> /\ trips = 0 /\ live = <<>> /\ failures = {}

-----------------------------------------------------------------------------
(* The pass *)

HasBody(i) == ops[i].op \in {"for", "if"}

Around(j) == {i \in DOMAIN ops : HasBody(i) /\ i < j /\ j <= ops[i].end}

InnerMost(j) == Max(Around(j))

InElse(i, j) == ops[i].op = "if" /\ j >= ops[i].otherwise

BlockOf(j) ==
  IF Around(j) = {} THEN <<0>> ELSE <<InnerMost(j), InElse(InnerMost(j), j)>>

findAncestorOpInBlock(block, j) == {i \in Around(j) \cup {j} : BlockOf(i) = block}

Users(v) == {j \in DOMAIN ops : v \in Range(ops[j].ins)}

(* The values through which an operation hands a value on.  A yield is     *)
(* none of them, though the code for scf.if looks for one.                 *)
isBarrierForwardingOp(j, v) ==
  CASE ops[j].op \in {"select", "from elements", "extract"} -> {<<j, 1>>}
    [] ops[j].op = "for" -> UNION {{<<j, -k>>, <<j, k>>} : k \in {n \in DOMAIN ops[j].ins : ops[j].ins[n] = v}}
    [] OTHER -> {}

collectAliasClosure(root) ==
  FoldLeft(LAMBDA aliases, n : aliases \cup UNION {UNION {isBarrierForwardingOp(j, v) : j \in Users(v)} : v \in aliases},
           {root}, ops)

Bug_hasExistingRelease(root) == FALSE

hasExistingRelease(root) == \E n \in DOMAIN releases : releases[n].barrier = root

findLastUser(i) ==
  Max({i} \cup UNION {findAncestorOpInBlock(BlockOf(i), j) : j \in UNION {Users(v) : v \in collectAliasClosure(<<i, 1>>)}})

insertRelease(i, lastUser) ==
  releases' = Append(releases, [barrier |-> <<i, 1>>, at |-> lastUser, before |-> ops[lastUser].op = "yield"])

InsertMBarrierRelease(i) ==
  /\ i \in todo
  /\ todo' = todo \ {i}
  /\ IF hasExistingRelease(<<i, 1>>) THEN UNCHANGED releases ELSE insertRelease(i, findLastUser(i))
  /\ UNCHANGED <<ops, pass, pc, env, trips, live, failures>>

PassDone ==
  /\ pass < 3 /\ todo = {}
  /\ pass' = pass + 1
  /\ todo' = IF pass = 1 THEN AllocsOf(ops) ELSE {}
  /\ UNCHANGED <<ops, releases, pc, env, trips, live, failures>>

-----------------------------------------------------------------------------
(* The run *)

ReleasesAt(i, before) == SelectSeq(releases, LAMBDA r : r.at = i /\ r.before = before)

(* What is live and what has failed after releases. *)
AfterReleases(seq, e, l, f) ==
  FoldLeft(LAMBDA s, r :
             IF s.live[e[r.barrier]] THEN [s EXCEPT !.live = [@ EXCEPT ![e[r.barrier]] = FALSE]]
             ELSE [s EXCEPT !.failures = @ \cup {"released twice"}],
           [live |-> l, failures |-> f], seq)

(* Operation i is done: its releases, and on to the next. *)
Completes(i, e, l, f, next) ==
  LET s == AfterReleases(ReleasesAt(i, FALSE), e, l, f)
  IN  /\ env' = e /\ live' = s.live /\ failures' = s.failures
      /\ pc' = next

Operands(i) == [k \in DOMAIN ops[i].ins |-> env[ops[i].ins[k]]]

At(op) == pass = 3 /\ pc \in DOMAIN ops /\ ops[pc].op = op

Binds(v, x) == (v :> x) @@ env

MBarrierAlloc ==
  /\ At("alloc")
  /\ Completes(pc, Binds(<<pc, 1>>, Len(live) + 1), Append(live, TRUE), failures, pc + 1)
  /\ UNCHANGED <<ops, releases, pass, todo, trips>>

Use ==
  /\ At("use")
  /\ Completes(pc, env, live,
               failures \cup {"used after its release" : b \in {x \in Range(Operands(pc)) : ~live[x]}}, pc + 1)
  /\ UNCHANGED <<ops, releases, pass, todo, trips>>

Forward ==
  /\ \/ At("select") /\ \E b \in Range(Operands(pc)) : Completes(pc, Binds(<<pc, 1>>, b), live, failures, pc + 1)
     \/ At("from elements") /\ Completes(pc, Binds(<<pc, 1>>, Operands(pc)), live, failures, pc + 1)
     \/ /\ At("extract")
        /\ \E b \in Range(Operands(pc)[1]) : Completes(pc, Binds(<<pc, 1>>, b), live, failures, pc + 1)
  /\ UNCHANGED <<ops, releases, pass, todo, trips>>

Results(i, sign, values) == [v \in {<<i, sign * k>> : k \in DOMAIN values} |-> values[sign * v[2]]] @@ env

For ==
  /\ At("for")
  /\ \/ /\ trips < MaxTrips /\ trips' = trips + 1
        /\ env' = Results(pc, -1, Operands(pc)) /\ pc' = pc + 1
        /\ UNCHANGED <<live, failures>>
     \/ /\ Completes(pc, Results(pc, 1, Operands(pc)), live, failures, ops[pc].end + 1)
        /\ UNCHANGED trips
  /\ UNCHANGED <<ops, releases, pass, todo>>

If ==
  /\ At("if")
  /\ pc' \in {pc + 1, ops[pc].otherwise}
  /\ UNCHANGED <<ops, releases, pass, todo, env, trips, live, failures>>

(* The end of a region: around again, or on behind its operation. *)
Yield ==
  /\ At("yield")
  /\ LET i == InnerMost(pc)
         s == AfterReleases(ReleasesAt(pc, TRUE), env, live, failures)
     IN  \/ /\ ops[i].op = "for" /\ trips < MaxTrips /\ trips' = trips + 1
            /\ env' = Results(i, -1, Operands(pc)) /\ pc' = i + 1
            /\ live' = s.live /\ failures' = s.failures
         \/ /\ Completes(i, Results(i, 1, Operands(pc)), s.live, s.failures, ops[i].end + 1)
            /\ UNCHANGED trips
  /\ UNCHANGED <<ops, releases, pass, todo>>

BarriersNext ==
  (\E i \in todo : InsertMBarrierRelease(i)) \/ PassDone
    \/ MBarrierAlloc \/ Use \/ Forward \/ For \/ If \/ Yield

-----------------------------------------------------------------------------
(* A region hands a barrier to a result that the closure does not reach:   *)
(* an scf.if, or a loop in another place than it came by.                  *)
PassedOn ==
  \E j \in {n \in DOMAIN ops : ops[n].op = "yield"}, i \in AllocsOf(ops) :
    \E k \in DOMAIN ops[j].ins :
      ops[j].ins[k] \in collectAliasClosure(<<i, 1>>) /\ <<InnerMost(j), k>> \notin collectAliasClosure(<<i, 1>>)

(* Whichever way a kernel's branches and loops go, and by whatever name it *)
(* uses a barrier, each is released once, after its last use               *)
(* (InsertMBarrierReleasePattern, run twice).                              *)
ReleasesExact ==
  ~PassedOn => failures = {} /\ (pc > Len(ops) => \A b \in DOMAIN live : ~live[b])
=============================================================================
