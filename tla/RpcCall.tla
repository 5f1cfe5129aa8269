------------------------------ MODULE RpcCall ------------------------------
(***************************************************************************)
(* What one SpineTritonRPCClient promises to the code that calls it: calls *)
(* are made one after the other (the operations of the client block), the  *)
(* server performs each call at most once, and a call ends in one of three *)
(* ways: it returns the server's answer (the call was performed), it       *)
(* raises the server's refusal (it was not and never will be), or it       *)
(* raises because of the connection.  Nothing is known in the last case:   *)
(* the server may have performed the call, may perform it later, or never. *)
(***************************************************************************)
EXTENDS Naturals

CONSTANT MaxCalls     \* how many calls the caller makes

Calls == 1 .. MaxCalls

Results == {"none", "ok", "error", "raised"}

VARIABLES
  call,       \* the number of the latest call, 0 before the first
  result,     \* how each call ended; "none" while it has not
  performed   \* the calls the server has performed

callVars == <<call, result, performed>>

InProgress == call > 0 /\ result[call] = "none"

Init ==
  /\ call = 0
  /\ result = [c \in Calls |-> "none"]
  /\ performed = {}

(* The caller makes its next call. *)
Begin ==
  /\ ~InProgress
  /\ call < MaxCalls
  /\ call' = call + 1
  /\ UNCHANGED <<result, performed>>

(* The server performs a call that waits for it or that was given up. *)
Perform(c) ==
  /\ c <= call
  /\ c \notin performed
  /\ result[c] \in {"none", "raised"}
  /\ performed' = performed \cup {c}
  /\ UNCHANGED <<call, result>>

End(r) ==
  /\ InProgress
  /\ result' = [result EXCEPT ![call] = r]
  /\ UNCHANGED <<call, performed>>

Return == call \in performed /\ End("ok")

Refuse == call \notin performed /\ End("error")

Raise == End("raised")

Next == Begin \/ (\E c \in Calls : Perform(c)) \/ Return \/ Refuse \/ Raise

Spec == Init /\ [][Next]_callVars
=============================================================================
