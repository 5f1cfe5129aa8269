--------------------------- MODULE ProtonRuntime ---------------------------
(***************************************************************************)
(* CpuProtonProfiler (backend/include/ExecutionEngine/                     *)
(* CpuProtonRuntime.cpp): the threads of a kernel open and close scopes;   *)
(* each reads the cycle counter and then calls proton_record, which takes  *)
(* the mutex.  The host resets and dumps the profile at any time, also     *)
(* while scopes are open.  That a thread closes its scopes innermost first *)
(* is the generated code's doing and is external.  The Bug_... definitions *)
(* are defective variants, as in RpcClient.                                *)
(***************************************************************************)
EXTENDS Integers, Sequences, SequencesExt, FiniteSets, FiniteSetsExt

CONSTANTS
  Threads, Names,
  MaxDepth,     \* bound on a thread's open scopes
  MaxCycle,     \* bound on the readings of the cycle counter
  MaxResets     \* bound on the resets

ASSUME ProtonAssumption == MaxDepth \in Nat /\ MaxCycle \in Nat /\ MaxResets \in Nat

VARIABLES
  records,         \* records_
  active_scopes,   \* thread, name -> index in records_, 0 when there is none
  cycle, resets,
  calling,         \* the proton_record a thread is about to make
  open,            \* a thread's open scopes, innermost last
  ended,           \* the scopes closed since the last reset
  report           \* what the last dump reported of each name

vars == <<records, active_scopes, cycle, resets, calling, open, ended, report>>

NoCall == [op |-> "none", name |-> "none", cycle |-> 0]

NoTimes == [n \in Names |-> [count |-> 0, total |-> 0]]

Scope(t, name, start, end) == [thread |-> t, name |-> name, start |-> start, end |-> end]

Init ==
  /\ records = <<>>
  /\ active_scopes = [t \in Threads |-> [n \in Names |-> 0]]
  /\ cycle = 1 /\ resets = 0
  /\ calling = [t \in Threads |-> NoCall]
  /\ open = [t \in Threads |-> <<>>]
  /\ ended = {} /\ report = NoTimes

-----------------------------------------------------------------------------
(* The generated code: rdtime, then the call *)

ReadCycle(t, op, name) ==
  /\ calling[t] = NoCall /\ cycle <= MaxCycle
  /\ calling' = [calling EXCEPT ![t] = [op |-> op, name |-> name, cycle |-> cycle]]
  /\ cycle' = cycle + 1
  /\ UNCHANGED <<records, active_scopes, resets, open, ended, report>>

EnterScope(t, name) == Len(open[t]) < MaxDepth /\ ReadCycle(t, "start", name)

ExitScope(t) == open[t] # <<>> /\ ReadCycle(t, "end", open[t][Len(open[t])].name)

(* A scope in which one of the same name was opened is shadowed. *)
Shadow(scopes, name) ==
  [i \in DOMAIN scopes |->
    [scopes[i] EXCEPT !.shadowed = scopes[i].shadowed \/ scopes[i].name = name]]

(* proton_record(name, cycle, 1) *)
RecordStart(t) ==
  /\ calling[t].op = "start"
  /\ LET name == calling[t].name IN
       /\ records' = Append(records, Scope(t, name, calling[t].cycle, 0))
       /\ active_scopes' = [active_scopes EXCEPT ![t][name] = Len(records) + 1]
       /\ open' = [open EXCEPT ![t] = Append(Shadow(open[t], name),
            [name |-> name, start |-> calling[t].cycle, shadowed |-> FALSE, lost |-> FALSE])]
  /\ calling' = [calling EXCEPT ![t] = NoCall]
  /\ UNCHANGED <<cycle, resets, ended, report>>

(* The scope is looked up by its name alone: any thread's. *)
Bug_Found(t, name) ==
  LET holders == {u \in Threads : active_scopes[u][name] # 0}
  IN  IF holders = {} THEN 0 ELSE active_scopes[CHOOSE u \in holders : TRUE][name]

Found(t, name) == active_scopes[t][name]

(* proton_record(name, cycle, 0): an end without a start is ignored. *)
RecordEnd(t) ==
  /\ calling[t].op = "end"
  /\ LET name == calling[t].name
         top  == open[t][Len(open[t])]
     IN  /\ records' = IF Found(t, name) = 0 THEN records
                       ELSE [records EXCEPT ![Found(t, name)].end = calling[t].cycle]
         /\ active_scopes' = [active_scopes EXCEPT ![t][name] = 0]
         /\ ended' = IF top.lost \/ top.shadowed THEN ended
                     ELSE ended \cup {Scope(t, name, top.start, calling[t].cycle)}
  /\ open' = [open EXCEPT ![t] = SubSeq(open[t], 1, Len(open[t]) - 1)]
  /\ calling' = [calling EXCEPT ![t] = NoCall]
  /\ UNCHANGED <<cycle, resets, report>>

-----------------------------------------------------------------------------
(* The host *)

(* Not of the code: the scopes open at a reset are remembered to be lost. *)
Forgotten(scopes) == [i \in DOMAIN scopes |-> [scopes[i] EXCEPT !.lost = TRUE]]

(* active_scopes_ is not cleared. *)
Bug_Reset ==
  /\ resets < MaxResets /\ resets' = resets + 1
  /\ records' = <<>> /\ ended' = {}
  /\ open' = [t \in Threads |-> Forgotten(open[t])]
  /\ UNCHANGED <<active_scopes, cycle, calling, report>>

(* proton_reset *)
Reset ==
  /\ resets < MaxResets /\ resets' = resets + 1
  /\ records' = <<>>
  /\ active_scopes' = [t \in Threads |-> [n \in Names |-> 0]]
  /\ ended' = {}
  /\ open' = [t \in Threads |-> Forgotten(open[t])]
  /\ UNCHANGED <<cycle, calling, report>>

(* Also a record whose end is missing is counted. *)
Bug_Times ==
  FoldLeft(LAMBDA times, r :
      [times EXCEPT ![r.name] = [count |-> @.count + 1, total |-> @.total + r.end - r.start]],
    NoTimes, records)

(* scope_durations, scope_stats: the completed records, by name. *)
Times ==
  FoldLeft(LAMBDA times, r :
      IF r.end = 0 THEN times
      ELSE [times EXCEPT ![r.name] = [count |-> @.count + 1, total |-> @.total + r.end - r.start]],
    NoTimes, records)

(* proton_dump *)
Dump ==
  /\ report' = Times
  /\ UNCHANGED <<records, active_scopes, cycle, resets, calling, open, ended>>

Next ==
  \/ \E t \in Threads :
       \/ \E name \in Names : EnterScope(t, name)
       \/ ExitScope(t) \/ RecordStart(t) \/ RecordEnd(t)
  \/ Reset \/ Dump

Spec == Init /\ [][Next]_vars

-----------------------------------------------------------------------------
OpenScope == [name : Names, start : Nat \ {0}, shadowed : BOOLEAN, lost : BOOLEAN]

Record == [thread : Threads, name : Names, start : Nat \ {0}, end : Nat]

Reading == [op : {"start", "end"}, name : Names, cycle : Nat \ {0}]

(* The variables hold values of their kind: proved, and what the other     *)
(* proofs start from.                                                      *)
TypeOK ==
  /\ records \in Seq(Record)
  /\ active_scopes \in [Threads -> [Names -> Nat]]
  /\ cycle \in Nat \ {0} /\ resets \in 0 .. MaxResets
  /\ calling \in [Threads -> Reading \cup {NoCall}]
  /\ open \in [Threads -> Seq(OpenScope)]
  /\ ended \subseteq Record

(* An index kept in active_scopes_ is one of records_, and names the       *)
(* record of that thread's scope, not yet ended: records_[idx] is never    *)
(* out of range and an end never overwrites another scope's, whatever is   *)
(* reset in between.                                                       *)
IndexValid ==
  \A t \in Threads, n \in Names :
    LET i == active_scopes[t][n] IN
      i # 0 => /\ i \in DOMAIN records
               /\ records[i].thread = t /\ records[i].name = n /\ records[i].end = 0

Completed == {i \in DOMAIN records : records[i].end # 0}

(* The completed records are exactly the scopes closed since the last      *)
(* reset, each with its own start and end, except those in which a scope   *)
(* of the same name was opened and those that were open at the reset       *)
(* ("track profiling records per-thread to correctly pair start/end        *)
(* events", CpuProtonRuntime.cpp:5-7).                                     *)
ProfileExact == {records[i] : i \in Completed} = ended

(* What makes ProfileExact inductive.  An end is called for the innermost  *)
(* open scope; a scope is to be recorded when it is neither shadowed nor   *)
(* lost; there is at most one such of a name, and it is the one            *)
(* active_scopes leads to.                                                 *)
Live(scope) == ~scope.shadowed /\ ~scope.lost

EndsInnermost(t) ==
  calling[t].op = "end" => open[t] # <<>> /\ calling[t].name = open[t][Len(open[t])].name

OneLive(t) ==
  \A p, q \in DOMAIN open[t] :
    p < q /\ open[t][p].name = open[t][q].name => open[t][p].shadowed

LiveIsActive(t) ==
  \A p \in DOMAIN open[t] : Live(open[t][p]) =>
    LET i == active_scopes[t][open[t][p].name] IN
      i # 0 /\ records[i].start = open[t][p].start

ActiveIsLive(t) ==
  \A n \in Names : active_scopes[t][n] # 0 =>
    \E p \in DOMAIN open[t] : open[t][p].name = n /\ Live(open[t][p])

StackInv ==
  \A t \in Threads : EndsInnermost(t) /\ OneLive(t) /\ LiveIsActive(t) /\ ActiveIsLive(t)

(* What makes DumpAddsUp true: no two scopes start with the same reading   *)
(* of the counter, so that no two records are the same, and a sum over the *)
(* records is one over the scopes.                                         *)
Starting == {t \in Threads : calling[t].op = "start"}

FreshInv ==
  /\ \A i \in DOMAIN records : records[i].start < cycle
  /\ \A i, j \in DOMAIN records : records[i].start = records[j].start => i = j
  /\ \A t \in Starting :
       /\ calling[t].cycle < cycle
       /\ \A i \in DOMAIN records : records[i].start # calling[t].cycle
       /\ \A u \in Starting : calling[t].cycle = calling[u].cycle => t = u

(* A dump reports of each name the scopes closed since the last reset and  *)
(* the cycles spent in them, also those of other threads and of equal      *)
(* length, and nothing of a scope that is open.                            *)
DumpAddsUp ==
  [][report' # report =>
       \A n \in Names :
         LET scopes == {e \in ended : e.name = n} IN
           report'[n] = [count |-> Cardinality(scopes),
                         total |-> MapThenSumSet(LAMBDA e : e.end - e.start, scopes)]]_vars
=============================================================================
