----------------------------- MODULE RpcClient -----------------------------
(***************************************************************************)
(* SpineTritonRPCClient (backend/rpc_client.py): one blocking client, one  *)
(* TCP connection at a time, and the server at the other end.  Each call   *)
(* (ping, load_kernel, ..., read_memory) is _ensure_connected, _send,      *)
(* _recv; it is numbered so that an answer can be told from another call's *)
(* answer.  The server is external: it answers the requests of a           *)
(* connection in order and echoes their seq_id.  It may be slow, crash and *)
(* start again; the network may cut the connection; KeyboardInterrupt may  *)
(* take the caller out of connect(), sendall() or a blocking _recv.        *)
(*                                                                         *)
(* Nothing in the specification uses the definitions named Bug_...: each   *)
(* is a defective variant of the definition after it, for the run that     *)
(* shows a property of this module to fail with it (PROJECT.json).         *)
(***************************************************************************)
EXTENDS Naturals, Sequences, FiniteSets

CONSTANTS
  MaxCalls,    \* bound on the calls made
  MaxFaults    \* bound on the cuts, crashes and interrupts injected

ASSUME BoundsAssumption == MaxCalls \in Nat /\ MaxFaults \in Nat

Calls == 1 .. MaxCalls

VARIABLES
  \* the client object
  sock,        \* "none", "opening" (created, connect() not done), "open"
  broken,      \* _broken
  seq_id,
  \* the call being made
  pc, call, result,
  from,        \* whose answer a call returned: 0 when it returned none
  hdr,         \* the header _recv has read, while it reads the payload
  \* the connection
  linked,      \* the peer still holds the other end of sock
  out,         \* requests sent and not yet served
  in,          \* answers sent and not yet read
  unread,      \* the stream starts in the middle of an answer
  \* the server
  up, orphans, performed,
  faults

clientVars == <<sock, broken, seq_id>>
streamVars == <<linked, out, in, unread>>
callVars   == <<pc, call, result, from, hdr>>
serverVars == <<up, orphans, performed>>
vars == <<clientVars, streamVars, callVars, serverVars, faults>>

Request == [seq : Nat, call : Calls]

Answer == [seq : Nat, call : Calls, kind : {"ok", "error"}, body : BOOLEAN]

NoAnswer == [seq |-> 0, call |-> 0, kind |-> "none", body |-> FALSE]

Items(s) == {s[i] : i \in 1 .. Len(s)}

CallsIn(s) == {m.call : m \in Items(s)}

Init ==
  /\ sock = "none" /\ broken = FALSE /\ seq_id = 0
  /\ pc = "idle" /\ call = 0 /\ hdr = NoAnswer
  /\ result = [c \in Calls |-> "none"]
  /\ from = [c \in Calls |-> 0]
  /\ linked = FALSE /\ out = <<>> /\ in = <<>> /\ unread = FALSE
  /\ up \in BOOLEAN /\ orphans = {} /\ performed = {}
  /\ faults = 0

-----------------------------------------------------------------------------
(* Operations on the connection *)

(* Closing a socket drops what was not read; the server may already have   *)
(* received what was sent, and may still work on it.                       *)
CloseStream ==
  /\ linked' = FALSE /\ out' = <<>> /\ in' = <<>> /\ unread' = FALSE
  /\ orphans' = orphans \cup CallsIn(out)
  /\ UNCHANGED <<up, performed>>

(* The desync is raised, and the connection left as it is. *)
Bug_MarkBroken ==
  UNCHANGED <<sock, broken, linked, out, in, unread, orphans, up, performed>>

MarkBroken == sock' = "none" /\ broken' = TRUE /\ CloseStream

EndCall(r, who) ==
  /\ pc' = "idle"
  /\ result' = [result EXCEPT ![call] = r]
  /\ from' = [from EXCEPT ![call] = who]
  /\ hdr' = NoAnswer
  /\ UNCHANGED call

Raise == EndCall("raised", 0)

Answered(a) == EndCall(a.kind, a.call)

(* A failure the environment caused now, and not one already counted when  *)
(* the connection was cut or refused.                                      *)
CountFault(isNew) == faults' = IF isNew THEN faults + 1 ELSE faults

NeedsConnection == sock = "none" \/ broken

(* The caller makes a call; _ensure_connected looks at the connection. *)
Begin ==
  /\ pc = "idle" /\ call < MaxCalls
  /\ call' = call + 1
  /\ pc' = IF NeedsConnection THEN "connect" ELSE "send"
  /\ UNCHANGED <<clientVars, streamVars, serverVars, result, from, hdr, faults>>

ConnectOk ==
  /\ pc = "connect" /\ up
  /\ sock' = "open" /\ seq_id' = 0 /\ broken' = FALSE
  /\ linked' = TRUE /\ out' = <<>> /\ in' = <<>> /\ unread' = FALSE
  /\ orphans' = orphans \cup CallsIn(out)
  /\ pc' = "send"
  /\ UNCHANGED <<call, result, from, hdr, up, performed, faults>>

(* The socket object exists before connect() is tried, and stays.  A server *)
(* that is up may be out of reach, or too slow to accept.                  *)
ConnectFails ==
  /\ pc = "connect"
  /\ sock' = "opening"
  /\ CloseStream
  /\ Raise
  /\ CountFault(TRUE)
  /\ UNCHANGED <<broken, seq_id>>

(* A write to a connection the peer has left may still succeed. *)
SendOk ==
  /\ pc = "send" /\ sock = "open"
  /\ seq_id' = seq_id + 1
  /\ out' = IF linked THEN Append(out, [seq |-> seq_id', call |-> call]) ELSE out
  /\ pc' = "recv"
  /\ UNCHANGED <<sock, broken, linked, in, unread, call, result, from, hdr,
                 serverVars, faults>>

(* OSError: not connected, connection gone, or timeout while writing. *)
SendFails ==
  /\ pc = "send"
  /\ seq_id' = seq_id + 1
  /\ MarkBroken
  /\ Raise
  /\ CountFault(linked)

(* Only the magic is checked. *)
Bug_Desynced == unread

(* Bad magic, or the answer to another request. *)
Desynced == unread \/ (in # <<>> /\ Head(in).seq # seq_id)

RecvDesync ==
  /\ pc = "recv" /\ Desynced
  /\ MarkBroken
  /\ Raise
  /\ UNCHANGED <<seq_id, faults>>

(* The server's error is raised before its text is read. *)
Bug_RecvHeader ==
  /\ pc = "recv" /\ in # <<>> /\ ~Desynced
  /\ in' = Tail(in) /\ unread' = (Head(in).body /\ Head(in).kind = "error")
  /\ IF Head(in).body /\ Head(in).kind = "ok"
       THEN pc' = "body" /\ hdr' = Head(in) /\ UNCHANGED <<call, result, from>>
       ELSE Answered(Head(in))
  /\ UNCHANGED <<clientVars, linked, out, serverVars, faults>>

RecvHeader ==
  /\ pc = "recv" /\ in # <<>> /\ ~Desynced
  /\ in' = Tail(in)
  /\ IF Head(in).body
       THEN pc' = "body" /\ hdr' = Head(in) /\ UNCHANGED <<call, result, from>>
       ELSE Answered(Head(in))
  /\ UNCHANGED <<clientVars, linked, out, unread, serverVars, faults>>

RecvBody ==
  /\ pc = "body"
  /\ Answered(hdr)
  /\ UNCHANGED <<clientVars, streamVars, serverVars, faults>>

(* The socket has no timeout: only a closed connection ends the wait. *)
Bug_RecvWaits ==
  /\ ~linked
  /\ \/ pc = "recv" /\ in = <<>> /\ ~unread
     \/ pc = "body"
  /\ MarkBroken
  /\ Raise
  /\ UNCHANGED <<seq_id, faults>>

(* A call that got no answer is sent again on a new connection. *)
Bug_RecvRetries ==
  /\ pc = "recv" /\ in = <<>> /\ ~unread
  /\ MarkBroken
  /\ pc' = "connect"
  /\ CountFault(linked)
  /\ UNCHANGED <<seq_id, call, result, from, hdr>>

(* The timeout expires or the peer has closed, before the answer came. *)
RecvFails ==
  /\ \/ pc = "recv" /\ in = <<>> /\ ~unread
     \/ pc = "body"
  /\ MarkBroken
  /\ Raise
  /\ CountFault(linked)
  /\ UNCHANGED seq_id

(* KeyboardInterrupt is neither OSError nor RuntimeError: whatever it finds *)
(* the client in lets it pass, and the connection keeps what was sent on   *)
(* it.  In connect() there is no socket yet, one that is not connected, or *)
(* one that is, with the old seq_id and _broken.                           *)
InterruptConnect ==
  /\ pc = "connect"
  /\ \/ sock' \in {"none", "opening"} /\ CloseStream
     \/ /\ up /\ sock' = "open"
        /\ linked' = TRUE /\ out' = <<>> /\ in' = <<>> /\ unread' = FALSE
        /\ orphans' = orphans \cup CallsIn(out)
        /\ UNCHANGED <<up, performed>>
  /\ UNCHANGED <<broken, seq_id>>

(* In sendall() the request is not sent, or sent whole, or in part.  A     *)
(* server that is left in the middle of a request takes what follows for   *)
(* the rest of it: nothing sent later on the connection is understood, and *)
(* the torn request may still be performed.                                *)
InterruptSend ==
  /\ pc = "send"
  /\ seq_id' = seq_id + 1
  /\ \/ UNCHANGED <<streamVars, orphans>>
     \/ /\ linked
        /\ out' = Append(out, [seq |-> seq_id', call |-> call])
        /\ UNCHANGED <<linked, in, unread, orphans>>
     \/ /\ linked' = FALSE /\ out' = <<>>
        /\ orphans' \in {orphans \cup CallsIn(out), orphans \cup CallsIn(out) \cup {call}}
        /\ UNCHANGED <<in, unread>>
  /\ UNCHANGED <<sock, broken, up, performed>>

InterruptRecv ==
  /\ pc \in {"recv", "body"}
  /\ \/ /\ unread' = (unread \/ pc = "body")
        /\ UNCHANGED in
     \/ /\ pc = "recv" /\ in # <<>>     \* in the middle of the header
        /\ in' = Tail(in) /\ unread' = TRUE
  /\ UNCHANGED <<clientVars, linked, out, serverVars>>

Interrupt ==
  /\ faults < MaxFaults
  /\ InterruptConnect \/ InterruptSend \/ InterruptRecv
  /\ Raise
  /\ CountFault(TRUE)

Disconnect ==
  /\ pc = "idle" /\ sock # "none"
  /\ sock' = "none"
  /\ CloseStream
  /\ UNCHANGED <<broken, seq_id, callVars, faults>>

-----------------------------------------------------------------------------
(* The server and the network *)

Serve(kind, body) ==
  /\ up /\ linked /\ out # <<>>
  /\ LET r == Head(out) IN
       /\ in' = Append(in, [seq |-> r.seq, call |-> r.call,
                            kind |-> kind, body |-> body])
       /\ performed' = IF kind = "ok" THEN performed \cup {r.call} ELSE performed
  /\ out' = Tail(out)
  /\ UNCHANGED <<clientVars, linked, unread, callVars, up, orphans, faults>>

(* A request of a connection the client has given up is performed late. *)
ServeOrphan(c) ==
  /\ up /\ c \in orphans
  /\ orphans' = orphans \ {c}
  /\ performed' = performed \cup {c}
  /\ UNCHANGED <<clientVars, streamVars, callVars, up, faults>>

(* Both ends lose the connection; answers on their way may be lost. *)
Cut ==
  /\ linked /\ faults < MaxFaults
  /\ linked' = FALSE /\ out' = <<>>
  /\ in' \in {in, <<>>}
  /\ orphans' = orphans \cup CallsIn(out)
  /\ CountFault(TRUE)
  /\ UNCHANGED <<clientVars, unread, callVars, up, performed>>

ServerCrash ==
  /\ up /\ faults < MaxFaults
  /\ up' = FALSE /\ linked' = FALSE /\ out' = <<>> /\ orphans' = {}
  /\ in' \in {in, <<>>}
  /\ CountFault(TRUE)
  /\ UNCHANGED <<clientVars, unread, callVars, performed>>

ServerStart ==
  /\ ~up
  /\ up' = TRUE
  /\ UNCHANGED <<clientVars, streamVars, callVars, orphans, performed, faults>>

-----------------------------------------------------------------------------
ClientStep ==
  \/ ConnectOk \/ ConnectFails
  \/ SendOk \/ SendFails
  \/ RecvDesync \/ RecvHeader \/ RecvBody \/ RecvFails

Environment ==
  \/ \E kind \in {"ok", "error"}, body \in BOOLEAN : Serve(kind, body)
  \/ \E c \in orphans : ServeOrphan(c)
  \/ Cut \/ ServerCrash \/ ServerStart

Next == Begin \/ ClientStep \/ Interrupt \/ Disconnect \/ Environment

(* The client runs on, and every blocking step of it ends because          *)
(* sock.settimeout(timeout) bounds it.  Nothing is asked of the server.    *)
Fairness == WF_vars(ClientStep)

Spec == Init /\ [][Next]_vars /\ Fairness

-----------------------------------------------------------------------------
ConnectionTypeOK ==
  /\ sock \in {"none", "opening", "open"} /\ broken \in BOOLEAN
  /\ seq_id \in Nat
  /\ linked \in BOOLEAN /\ unread \in BOOLEAN

CallTypeOK ==
  /\ pc \in {"idle", "connect", "send", "recv", "body"}
  /\ call \in 0 .. MaxCalls
  /\ result \in [Calls -> {"none", "ok", "error", "raised"}]
  /\ from \in [Calls -> 0 .. MaxCalls]
  /\ hdr \in Answer \cup {NoAnswer}

StreamTypeOK == out \in Seq(Request) /\ in \in Seq(Answer)

ServerTypeOK ==
  /\ up \in BOOLEAN /\ orphans \subseteq Calls /\ performed \subseteq Calls
  /\ faults \in Nat

(* The variables hold values of the kind the client and the wire use. *)
TypeOK == ConnectionTypeOK /\ CallTypeOK /\ StreamTypeOK /\ ServerTypeOK

(* A call that returns, or raises the server's error, does so on its own   *)
(* answer: never on one left over from a call that was given up, whatever  *)
(* was interrupted, cut or timed out before (the seq_id check of _recv and *)
(* the fresh stream of connect()).                                         *)
ReplyMatches ==
  \A c \in Calls : result[c] \in {"ok", "error"} => from[c] = c

(* After an answered call the stream a later call would reuse is empty:    *)
(* nothing is unread and nothing is still to be answered, an error of the  *)
(* server's included ("a server-side MSG_ERROR is a well-framed, in-sync   *)
(* response; the connection stays healthy", rpc_client.py:113-114).        *)
ReturnedInSync ==
  pc = "idle" /\ call > 0 /\ sock = "open" /\ result[call] \in {"ok", "error"}
    => out = <<>> /\ in = <<>> /\ ~unread

(* the calls that failed without an answer *)
Raised == {c \in Calls : result[c] = "raised"}

(* One fault costs at most the call it hits and the next one: a broken     *)
(* connection is rebuilt and never "cascades into bad-magic/seq-mismatch   *)
(* on every later op" (rpc_client.py:47-50).                               *)
RaisesBounded == Cardinality(Raised) <= 2 * faults

(* Every call ends, even if the server never answers again: the socket's   *)
(* timeout bounds each blocking step.                                      *)
Terminates == \A c \in Calls : call = c ~> result[c] # "none"

(* The client implements the abstract one-at-a-time, at-most-once call:    *)
(* no call is performed twice over any number of reconnections, one that   *)
(* returned was performed, one that was refused is never performed.        *)
AbstractCall == INSTANCE RpcCall WITH call <- call, result <- result, performed <- performed

CallSpec == AbstractCall!Spec

-----------------------------------------------------------------------------
(* The inductive invariants: SeqInv gives ReplyMatches, with OrderInv it   *)
(* gives ReturnedInSync, with RaiseInv as well RaisesBounded; PhaseInv and *)
(* PendingInv give CallSpec (RpcClient_proofs).                            *)

(* seq_id grows with every request of a connection: only the answer to the *)
(* request just sent can carry the latest one.                             *)
SeqInv ==
  /\ \A m \in Items(out) \cup Items(in) :
       m.seq <= seq_id /\ (pc = "recv" /\ m.seq = seq_id => m.call = call)
  /\ pc = "body" => hdr.call = call

(* Requests are answered in the order they were sent: behind the answer to *)
(* the latest one there is nothing.                                        *)
Ordered(s) == \A i, j \in 1 .. Len(s) : i < j => s[i].seq < s[j].seq

NothingLeft == out = <<>> /\ in = <<>> /\ ~unread

OrderInv ==
  /\ Ordered(out) /\ Ordered(in)
  /\ \A a \in Items(in), r \in Items(out) : a.seq < r.seq
  /\ pc = "body" => NothingLeft

(* A socket is there to be used from _send on.  A raise is owed when what  *)
(* a fault left behind will end the next call: a socket that never         *)
(* connected, a connection that is gone, or something in its stream that   *)
(* is not for the present request.                                         *)
SocketInv ==
  /\ pc = "send" => sock # "none"
  /\ pc \in {"recv", "body"} => sock = "open"

Leftover(m) == pc = "recv" => m.seq # seq_id

Owed ==
  \/ sock = "opening"
  \/ sock = "open" /\ (~linked \/ unread \/ \E m \in Items(out) \cup Items(in) : Leftover(m))

Debt == Cardinality(Raised) + (IF Owed THEN 1 ELSE 0)

RaiseInv == SocketInv /\ Debt <= 2 * faults

PhaseInv ==
  /\ pc = "idle" <=> ~AbstractCall!InProgress
  /\ \A c \in Calls : c > call => result[c] = "none"

(* A call is served from one place at most, and before it is performed. *)
Waiting == CallsIn(out) \cup orphans

Distinct(s) == \A i, j \in 1 .. Len(s) : s[i].call = s[j].call => i = j

TellsTruth(a) ==
  /\ a.call <= call
  /\ a.kind = "ok" => a.call \in performed
  /\ a.kind = "error" => a.call \notin performed \cup Waiting

PendingInv ==
  /\ Distinct(out) /\ CallsIn(out) \cap orphans = {}
  /\ \A c \in Waiting :
       c <= call /\ c \notin performed /\ result[c] \in {"none", "raised"}
  /\ \A c \in performed : c <= call
  /\ pc \in {"connect", "send"} => call \notin Waiting \cup performed \cup CallsIn(in)
  /\ \A a \in Items(in) : TellsTruth(a)
  /\ pc = "body" => TellsTruth(hdr)
=============================================================================
