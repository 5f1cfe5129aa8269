-------------------------- MODULE RpcClient_proofs --------------------------
(***************************************************************************)
(* What TLAPS proves about RpcClient, for every number of calls and faults.*)
(***************************************************************************)
EXTENDS RpcClient, FiniteSetTheorems, SequenceTheorems, TLAPS

-----------------------------------------------------------------------------
(* While a call is being made its number is a call's. *)
Numbered == pc # "idle" => call > 0

(* A payload is read only after its header. *)
HeaderKept == pc = "body" => hdr \in Answer

TypeInv == TypeOK /\ Numbered /\ HeaderKept

(* The items of a stream are the values sent through it, *)
LEMMA ItemsType == ASSUME NEW S, NEW s \in Seq(S) PROVE Items(s) \subseteq S
  BY ElementOfSeq DEF Items

LEMMA ItemsEmpty == Items(<<>>) = {} /\ CallsIn(<<>>) = {}
  BY DEF Items, CallsIn

(* what is sent is added to them, *)
LEMMA ItemsAppend ==
  ASSUME NEW S, NEW s \in Seq(S), NEW x \in S
  PROVE  Items(Append(s, x)) = Items(s) \cup {x}
<1>1. /\ Len(Append(s, x)) = Len(s) + 1 /\ Append(s, x)[Len(s) + 1] = x
      /\ \A i \in 1 .. Len(s) : Append(s, x)[i] = s[i]
      /\ Len(s) \in Nat
  BY AppendProperties
<1> QED BY <1>1 DEF Items

(* and what is read was one of them. *)
LEMMA ItemsTail ==
  ASSUME NEW S, NEW s \in Seq(S), s # <<>>
  PROVE  Items(s) = Items(Tail(s)) \cup {Head(s)}
<1>1. /\ Len(Tail(s)) = Len(s) - 1 /\ Len(s) \in Nat /\ Len(s) > 0 /\ Head(s) = s[1]
      /\ \A i \in 1 .. Len(Tail(s)) : Tail(s)[i] = s[i + 1]
  BY HeadTailProperties, EmptySeq
<1>2. ASSUME NEW i \in 1 .. Len(s), i # 1 PROVE s[i] \in Items(Tail(s))
  <2>1. i - 1 \in 1 .. Len(Tail(s)) /\ Tail(s)[i - 1] = s[i]
    BY <1>1, <1>2
  <2> QED BY <2>1 DEF Items
<1>3. ASSUME NEW i \in 1 .. Len(Tail(s)) PROVE Tail(s)[i] \in Items(s)
  <2>1. i + 1 \in 1 .. Len(s) /\ Tail(s)[i] = s[i + 1]
    BY <1>1
  <2> QED BY <2>1 DEF Items
<1>4. Head(s) \in Items(s)
  BY <1>1 DEF Items
<1>5. Items(s) \subseteq Items(Tail(s)) \cup {Head(s)}
  BY <1>1, <1>2 DEF Items
<1>6. Items(Tail(s)) \subseteq Items(s)
  BY <1>3 DEF Items
<1> QED BY <1>4, <1>5, <1>6

(* The calls waiting in a stream are calls. *)
LEMMA CallsInType ==
  ASSUME NEW s \in Seq(Request)
  PROVE  CallsIn(s) \subseteq Calls
  BY ItemsType DEF CallsIn, Request

(* Ending a call keeps the types of what describes it. *)
LEMMA EndCallType ==
  ASSUME CallTypeOK, NEW r \in {"ok", "error", "raised"}, NEW who \in 0 .. MaxCalls,
         EndCall(r, who)
  PROVE  CallTypeOK' /\ Numbered' /\ HeaderKept'
  BY DEF EndCall, CallTypeOK, Numbered, HeaderKept

LEMMA RaiseType == ASSUME CallTypeOK, Raise PROVE CallTypeOK' /\ Numbered' /\ HeaderKept'
<1>1. 0 \in 0 .. MaxCalls
  BY BoundsAssumption
<1> QED BY <1>1, EndCallType DEF Raise

LEMMA AnsweredType ==
  ASSUME CallTypeOK, NEW a \in Answer, Answered(a) PROVE CallTypeOK' /\ Numbered' /\ HeaderKept'
<1>1. a.call \in 0 .. MaxCalls /\ a.kind \in {"ok", "error", "raised"}
  BY DEF Answer, Calls
<1> QED BY <1>1, EndCallType DEF Answered

LEMMA CloseStreamType ==
  ASSUME StreamTypeOK, ServerTypeOK, CloseStream
  PROVE  /\ StreamTypeOK'
         /\ linked' \in BOOLEAN /\ unread' \in BOOLEAN
         /\ up' \in BOOLEAN /\ orphans' \subseteq Calls /\ performed' \subseteq Calls
<1>1. out' \in Seq(Request) /\ in' \in Seq(Answer)
  BY DEF CloseStream
<1>2. CallsIn(out) \subseteq Calls
  BY CallsInType DEF StreamTypeOK
<1>3. linked' \in BOOLEAN /\ unread' \in BOOLEAN
  BY DEF CloseStream
<1>4. up' \in BOOLEAN /\ orphans' \subseteq Calls /\ performed' \subseteq Calls
  BY <1>2 DEF CloseStream, ServerTypeOK
<1> QED BY <1>1, <1>3, <1>4 DEF StreamTypeOK

LEMMA CountFaultType ==
  ASSUME faults \in Nat, NEW b \in BOOLEAN, CountFault(b) PROVE faults' \in Nat
  BY DEF CountFault

-----------------------------------------------------------------------------
(* The type invariant, with what makes it inductive. *)
LEMMA TypeInvariant == Spec => []TypeInv
<1>a. MaxCalls \in Nat
  BY BoundsAssumption
<1>1. Init => TypeInv
  <2> SUFFICES ASSUME Init PROVE TypeOK /\ Numbered /\ HeaderKept
    BY DEF TypeInv
  <2>1. StreamTypeOK
    BY DEF Init, StreamTypeOK
  <2>2. ConnectionTypeOK /\ ServerTypeOK
    BY DEF Init, ConnectionTypeOK, ServerTypeOK
  <2>3. CallTypeOK
    BY <1>a DEF Init, CallTypeOK
  <2> QED BY <2>1, <2>2, <2>3 DEF TypeOK, Init, Numbered, HeaderKept
<1>2. TypeInv /\ [Next]_vars => TypeInv'
  <2> SUFFICES ASSUME TypeInv, [Next]_vars PROVE TypeInv'
    OBVIOUS
  <2>a. ConnectionTypeOK /\ CallTypeOK /\ StreamTypeOK /\ ServerTypeOK /\ Numbered
        /\ HeaderKept
    BY DEF TypeOK, TypeInv
  <2>b. orphans \cup CallsIn(out) \subseteq Calls
    BY <2>a, CallsInType DEF StreamTypeOK, ServerTypeOK
  <2>c. linked \in BOOLEAN /\ faults \in Nat /\ TRUE \in BOOLEAN
    BY <2>a DEF ConnectionTypeOK, ServerTypeOK
  <2>1. CASE Begin
    <3>1. StreamTypeOK'
      BY <2>1, <2>a, <2>b DEF Begin, clientVars, streamVars, serverVars, StreamTypeOK
    <3>2. ConnectionTypeOK'
      BY <2>1, <2>a DEF Begin, clientVars, streamVars, serverVars, ConnectionTypeOK
    <3>3. CallTypeOK' /\ Numbered' /\ HeaderKept'
      BY <2>1, <1>a, <2>a DEF Begin, clientVars, streamVars, serverVars, CallTypeOK, Numbered, HeaderKept
    <3>4. ServerTypeOK'
      BY <2>1, <2>a, <2>b DEF Begin, clientVars, streamVars, serverVars, ServerTypeOK
    <3> QED BY <3>1, <3>2, <3>3, <3>4 DEF TypeOK, TypeInv
  <2>2. CASE ConnectOk
    <3>1. StreamTypeOK'
      BY <2>2, <2>a, <2>b DEF ConnectOk, StreamTypeOK
    <3>2. ConnectionTypeOK'
      BY <2>2, <2>a DEF ConnectOk, ConnectionTypeOK
    <3>3. CallTypeOK' /\ Numbered' /\ HeaderKept'
      BY <2>2, <1>a, <2>a DEF ConnectOk, CallTypeOK, Numbered, HeaderKept
    <3>4. ServerTypeOK'
      BY <2>2, <2>a, <2>b DEF ConnectOk, ServerTypeOK
    <3> QED BY <3>1, <3>2, <3>3, <3>4 DEF TypeOK, TypeInv
  <2>3. CASE ConnectFails
    <3>a. StreamTypeOK' /\ linked' \in BOOLEAN /\ unread' \in BOOLEAN
          /\ up' \in BOOLEAN /\ orphans' \subseteq Calls /\ performed' \subseteq Calls
      BY <2>3, <2>a, CloseStreamType DEF ConnectFails
    <3>1. StreamTypeOK'
      BY <3>a
    <3>2. ConnectionTypeOK'
      BY <2>3, <2>a, <3>a DEF ConnectFails, ConnectionTypeOK
    <3>3. CallTypeOK' /\ Numbered' /\ HeaderKept'
      BY <2>3, <2>a, RaiseType DEF ConnectFails
    <3>e. faults' \in Nat
      BY <2>3, <2>c, CountFaultType DEF ConnectFails
    <3>4. ServerTypeOK'
      BY <3>a, <3>e DEF ServerTypeOK
    <3> QED BY <3>1, <3>2, <3>3, <3>4 DEF TypeOK, TypeInv
  <2>4. CASE SendOk
    <3>a. [seq |-> seq_id', call |-> call] \in Request
      BY <2>4, <2>a DEF SendOk, serverVars, ConnectionTypeOK, CallTypeOK, Request, Calls, Numbered
    <3>1. StreamTypeOK'
      BY <2>4, <2>a, <3>a DEF SendOk, serverVars, StreamTypeOK
    <3>2. ConnectionTypeOK'
      BY <2>4, <2>a DEF SendOk, serverVars, ConnectionTypeOK
    <3>3. CallTypeOK' /\ Numbered' /\ HeaderKept'
      BY <2>4, <1>a, <2>a DEF SendOk, serverVars, CallTypeOK, Numbered, HeaderKept
    <3>4. ServerTypeOK'
      BY <2>4, <2>a, <2>b DEF SendOk, serverVars, ServerTypeOK
    <3> QED BY <3>1, <3>2, <3>3, <3>4 DEF TypeOK, TypeInv
  <2>5. CASE SendFails
    <3>a. StreamTypeOK' /\ linked' \in BOOLEAN /\ unread' \in BOOLEAN
          /\ up' \in BOOLEAN /\ orphans' \subseteq Calls /\ performed' \subseteq Calls
      BY <2>5, <2>a, CloseStreamType DEF SendFails, MarkBroken
    <3>1. StreamTypeOK'
      BY <3>a
    <3>2. ConnectionTypeOK'
      BY <2>5, <2>a, <3>a DEF SendFails, MarkBroken, ConnectionTypeOK
    <3>3. CallTypeOK' /\ Numbered' /\ HeaderKept'
      BY <2>5, <2>a, RaiseType DEF SendFails, MarkBroken
    <3>e. faults' \in Nat
      BY <2>5, <2>c, CountFaultType DEF SendFails, MarkBroken
    <3>4. ServerTypeOK'
      BY <3>a, <3>e DEF ServerTypeOK
    <3> QED BY <3>1, <3>2, <3>3, <3>4 DEF TypeOK, TypeInv
  <2>6. CASE RecvDesync
    <3>a. StreamTypeOK' /\ linked' \in BOOLEAN /\ unread' \in BOOLEAN
          /\ up' \in BOOLEAN /\ orphans' \subseteq Calls /\ performed' \subseteq Calls
      BY <2>6, <2>a, CloseStreamType DEF RecvDesync, MarkBroken
    <3>1. StreamTypeOK'
      BY <3>a
    <3>2. ConnectionTypeOK'
      BY <2>6, <2>a, <3>a DEF RecvDesync, MarkBroken, ConnectionTypeOK
    <3>3. CallTypeOK' /\ Numbered' /\ HeaderKept'
      BY <2>6, <2>a, RaiseType DEF RecvDesync, MarkBroken
    <3>e. faults' \in Nat
      BY <2>6, <2>c, CountFaultType DEF RecvDesync, MarkBroken
    <3>4. ServerTypeOK'
      BY <3>a, <3>e DEF ServerTypeOK
    <3> QED BY <3>1, <3>2, <3>3, <3>4 DEF TypeOK, TypeInv
  <2>7. CASE RecvHeader
    <3>a. in # <<>> => Head(in) \in Answer /\ Tail(in) \in Seq(Answer)
      BY <2>a, HeadTailProperties DEF StreamTypeOK
    <3>1. StreamTypeOK'
      BY <2>7, <2>a, <3>a DEF RecvHeader, clientVars, serverVars, StreamTypeOK
    <3>2. ConnectionTypeOK'
      BY <2>7, <2>a DEF RecvHeader, clientVars, serverVars, ConnectionTypeOK
    <3>3. CallTypeOK' /\ Numbered' /\ HeaderKept'
      <4>1. CASE Head(in).body
        BY <2>7, <2>a, <3>a, <4>1 DEF RecvHeader, clientVars, serverVars, CallTypeOK, Numbered, HeaderKept
      <4>2. CASE ~Head(in).body
        BY <2>7, <2>a, <3>a, <4>2, AnsweredType DEF RecvHeader, clientVars, serverVars
      <4> QED BY <4>1, <4>2
    <3>4. ServerTypeOK'
      BY <2>7, <2>a, <2>b DEF RecvHeader, clientVars, serverVars, ServerTypeOK
    <3> QED BY <3>1, <3>2, <3>3, <3>4 DEF TypeOK, TypeInv
  <2>8. CASE RecvBody
    <3>1. StreamTypeOK'
      BY <2>8, <2>a, <2>b DEF RecvBody, clientVars, streamVars, serverVars, StreamTypeOK
    <3>2. ConnectionTypeOK'
      BY <2>8, <2>a DEF RecvBody, clientVars, streamVars, serverVars, ConnectionTypeOK
    <3>3. CallTypeOK' /\ Numbered' /\ HeaderKept'
      <4>1. hdr \in Answer
        BY <2>8, <2>a DEF RecvBody, clientVars, streamVars, serverVars, CallTypeOK, HeaderKept, TypeInv
      <4> QED BY <2>8, <2>a, <4>1, AnsweredType DEF RecvBody, clientVars, streamVars, serverVars
    <3>4. ServerTypeOK'
      BY <2>8, <2>a, <2>b DEF RecvBody, clientVars, streamVars, serverVars, ServerTypeOK
    <3> QED BY <3>1, <3>2, <3>3, <3>4 DEF TypeOK, TypeInv
  <2>9. CASE RecvFails
    <3>a. StreamTypeOK' /\ linked' \in BOOLEAN /\ unread' \in BOOLEAN
          /\ up' \in BOOLEAN /\ orphans' \subseteq Calls /\ performed' \subseteq Calls
      BY <2>9, <2>a, CloseStreamType DEF RecvFails, MarkBroken
    <3>1. StreamTypeOK'
      BY <3>a
    <3>2. ConnectionTypeOK'
      BY <2>9, <2>a, <3>a DEF RecvFails, MarkBroken, ConnectionTypeOK
    <3>3. CallTypeOK' /\ Numbered' /\ HeaderKept'
      BY <2>9, <2>a, RaiseType DEF RecvFails, MarkBroken
    <3>e. faults' \in Nat
      BY <2>9, <2>c, CountFaultType DEF RecvFails, MarkBroken
    <3>4. ServerTypeOK'
      BY <3>a, <3>e DEF ServerTypeOK
    <3> QED BY <3>1, <3>2, <3>3, <3>4 DEF TypeOK, TypeInv
  <2>10. CASE Interrupt
    <3>1. CallTypeOK' /\ Numbered' /\ HeaderKept'
      BY <2>10, <2>a, RaiseType DEF Interrupt
    <3>2. faults' \in Nat
      BY <2>10, <2>c, CountFaultType DEF Interrupt
    <3>3. CASE InterruptConnect
      <4>1. CASE CloseStream /\ sock' \in {"none", "opening"}
        <5>1. StreamTypeOK' /\ linked' \in BOOLEAN /\ unread' \in BOOLEAN
              /\ up' \in BOOLEAN /\ orphans' \subseteq Calls /\ performed' \subseteq Calls
          BY <4>1, <2>a, CloseStreamType
        <5>2. ConnectionTypeOK'
          BY <3>3, <4>1, <5>1, <2>a DEF InterruptConnect, ConnectionTypeOK
        <5> QED BY <3>1, <3>2, <5>1, <5>2 DEF TypeInv, TypeOK, ServerTypeOK
      <4>2. CASE ~(CloseStream /\ sock' \in {"none", "opening"})
        <5>1. /\ sock' = "open" /\ linked' = TRUE /\ out' = <<>> /\ in' = <<>> /\ unread' = FALSE
              /\ orphans' = orphans \cup CallsIn(out) /\ UNCHANGED <<up, performed, broken, seq_id>>
          BY <3>3, <4>2 DEF InterruptConnect
        <5>2. StreamTypeOK'
          BY <5>1 DEF StreamTypeOK
        <5>3. ConnectionTypeOK'
          BY <5>1, <2>a DEF ConnectionTypeOK
        <5>4. ServerTypeOK'
          BY <5>1, <3>2, <2>a, <2>b DEF ServerTypeOK
        <5> QED BY <3>1, <5>2, <5>3, <5>4 DEF TypeInv, TypeOK
      <4> QED BY <4>1, <4>2
    <3>4. CASE InterruptSend
      <4> DEFINE r == [seq |-> seq_id', call |-> call]
      <4>1. call \in Calls /\ r \in Request
        BY <3>4, <2>a DEF InterruptSend, ConnectionTypeOK, CallTypeOK, Request, Calls, Numbered
      <4>2. Append(out, r) \in Seq(Request) /\ <<>> \in Seq(Request)
        BY <4>1, <2>a DEF StreamTypeOK
      <4>3. /\ out' = out \/ out' = Append(out, r) \/ out' = <<>>
            /\ in' = in
        BY <3>4 DEF InterruptSend, streamVars
      <4>4. StreamTypeOK'
        BY <4>2, <4>3, <2>a DEF StreamTypeOK
      <4>5. ConnectionTypeOK'
        <5>1. UNCHANGED <<sock, broken, unread>> /\ seq_id' = seq_id + 1
              /\ (linked' = linked \/ linked' = FALSE)
          BY <3>4 DEF InterruptSend, streamVars
        <5>2. seq_id + 1 \in Nat
          BY <2>a DEF ConnectionTypeOK
        <5>3. linked' \in BOOLEAN
          BY <5>1, <2>c, Zenon
        <5> QED BY <5>1, <5>2, <5>3, <2>a DEF ConnectionTypeOK
      <4>6. orphans' \subseteq Calls
        BY <3>4, <4>1, <2>a, <2>b DEF InterruptSend, ServerTypeOK
      <4>7. ServerTypeOK'
        BY <3>4, <3>2, <4>6, <2>a DEF InterruptSend, ServerTypeOK
      <4> QED BY <3>1, <4>4, <4>5, <4>7 DEF TypeInv, TypeOK
    <3>5. CASE InterruptRecv
      <4>1. in # <<>> => Head(in) \in Answer /\ Tail(in) \in Seq(Answer)
        BY <2>a, HeadTailProperties DEF StreamTypeOK
      <4>2. StreamTypeOK'
        BY <3>5, <2>a, <4>1 DEF InterruptRecv, StreamTypeOK
      <4>3. ConnectionTypeOK'
        BY <3>5, <2>a DEF InterruptRecv, clientVars, ConnectionTypeOK
      <4>4. ServerTypeOK'
        BY <3>5, <3>2, <2>a DEF InterruptRecv, serverVars, ServerTypeOK
      <4> QED BY <3>1, <4>2, <4>3, <4>4 DEF TypeInv, TypeOK
    <3> QED BY <2>10, <3>3, <3>4, <3>5 DEF Interrupt
  <2>11. CASE Disconnect
    <3>a. StreamTypeOK' /\ linked' \in BOOLEAN /\ unread' \in BOOLEAN
          /\ up' \in BOOLEAN /\ orphans' \subseteq Calls /\ performed' \subseteq Calls
      BY <2>11, <2>a, CloseStreamType DEF Disconnect, callVars
    <3>1. StreamTypeOK'
      BY <3>a
    <3>2. ConnectionTypeOK'
      BY <2>11, <2>a, <3>a DEF Disconnect, callVars, ConnectionTypeOK
    <3>3. CallTypeOK' /\ Numbered' /\ HeaderKept'
      BY <2>11, <2>a DEF Disconnect, callVars, CallTypeOK, Numbered, HeaderKept
    <3>e. faults' \in Nat
      BY <2>11, <2>c DEF Disconnect, callVars
    <3>4. ServerTypeOK'
      BY <3>a, <3>e DEF ServerTypeOK
    <3> QED BY <3>1, <3>2, <3>3, <3>4 DEF TypeOK, TypeInv
  <2>12. ASSUME NEW kind \in {"ok", "error"}, NEW body \in BOOLEAN, Serve(kind, body)
         PROVE  TypeInv'
    <3> DEFINE a == [seq |-> Head(out).seq, call |-> Head(out).call,
                     kind |-> kind, body |-> body]
    <3>a. Head(out) \in Request /\ Tail(out) \in Seq(Request)
      BY <2>12, <2>a, HeadTailProperties DEF Serve, StreamTypeOK
    <3>1. a \in Answer /\ Head(out).call \in Calls
      BY <3>a DEF Request, Answer
    <3>2. StreamTypeOK'
      BY <2>12, <2>a, <3>a, <3>1 DEF Serve, StreamTypeOK
    <3>3. ServerTypeOK'
      BY <2>12, <2>a, <3>1 DEF Serve, ServerTypeOK
    <3>4. ConnectionTypeOK' /\ CallTypeOK' /\ Numbered' /\ HeaderKept'
      BY <2>12, <2>a DEF Serve, ConnectionTypeOK, CallTypeOK, Numbered, HeaderKept, clientVars, callVars
    <3> QED BY <3>2, <3>3, <3>4 DEF TypeOK, TypeInv
  <2>13. ASSUME NEW c \in orphans, ServeOrphan(c) PROVE TypeInv'
    <3>1. StreamTypeOK'
      BY <2>13, <2>a DEF ServeOrphan, streamVars, StreamTypeOK
    <3>2. ConnectionTypeOK' /\ CallTypeOK' /\ Numbered' /\ HeaderKept'
      BY <2>13, <2>a DEF ServeOrphan, clientVars, streamVars, callVars, ConnectionTypeOK,
                         CallTypeOK, Numbered, HeaderKept
    <3>3. ServerTypeOK'
      BY <2>13, <2>a, <2>b DEF ServeOrphan, ServerTypeOK
    <3> QED BY <3>1, <3>2, <3>3 DEF TypeOK, TypeInv
  <2>14. CASE Cut
    <3>1. StreamTypeOK'
      <4>1. out' \in Seq(Request)
        BY <2>14, <2>a DEF Cut, clientVars, callVars, StreamTypeOK
      <4>2. in' = in \/ in' = <<>>
        BY <2>14 DEF Cut, clientVars, callVars
      <4>3. in \in Seq(Answer) /\ <<>> \in Seq(Answer)
        BY <2>a DEF StreamTypeOK
      <4>4. in' \in Seq(Answer)
        BY <4>2, <4>3
      <4> QED BY <4>1, <4>4 DEF StreamTypeOK
    <3>2. ConnectionTypeOK'
      BY <2>14, <2>a DEF Cut, clientVars, callVars, ConnectionTypeOK
    <3>3. CallTypeOK' /\ Numbered' /\ HeaderKept'
      BY <2>14, <2>a DEF Cut, clientVars, callVars, CallTypeOK, Numbered, HeaderKept
    <3>e. faults' \in Nat
      BY <2>14, <2>c, CountFaultType DEF Cut, clientVars, callVars
    <3>f. orphans' \subseteq Calls
      BY <2>14, <2>a, <2>b DEF Cut, clientVars, callVars, ServerTypeOK
    <3>4. ServerTypeOK'
      BY <2>14, <2>a, <3>e, <3>f DEF Cut, clientVars, callVars, ServerTypeOK
    <3> QED BY <3>1, <3>2, <3>3, <3>4 DEF TypeOK, TypeInv
  <2>15. CASE ServerCrash
    <3>1. StreamTypeOK'
      <4>1. out' \in Seq(Request)
        BY <2>15, <2>a DEF ServerCrash, clientVars, callVars, StreamTypeOK
      <4>2. in' = in \/ in' = <<>>
        BY <2>15 DEF ServerCrash, clientVars, callVars
      <4>3. in \in Seq(Answer) /\ <<>> \in Seq(Answer)
        BY <2>a DEF StreamTypeOK
      <4>4. in' \in Seq(Answer)
        BY <4>2, <4>3
      <4> QED BY <4>1, <4>4 DEF StreamTypeOK
    <3>2. ConnectionTypeOK'
      BY <2>15, <2>a DEF ServerCrash, clientVars, callVars, ConnectionTypeOK
    <3>3. CallTypeOK' /\ Numbered' /\ HeaderKept'
      BY <2>15, <2>a DEF ServerCrash, clientVars, callVars, CallTypeOK, Numbered, HeaderKept
    <3>e. faults' \in Nat
      BY <2>15, <2>c, CountFaultType DEF ServerCrash, clientVars, callVars
    <3>f. orphans' \subseteq Calls
      BY <2>15, <2>a, <2>b DEF ServerCrash, clientVars, callVars, ServerTypeOK
    <3>4. ServerTypeOK'
      BY <2>15, <2>a, <3>e, <3>f DEF ServerCrash, clientVars, callVars, ServerTypeOK
    <3> QED BY <3>1, <3>2, <3>3, <3>4 DEF TypeOK, TypeInv
  <2>16. CASE ServerStart
    <3>1. StreamTypeOK'
      <4>1. out' \in Seq(Request)
        BY <2>16, <2>a DEF ServerStart, clientVars, streamVars, callVars, StreamTypeOK
      <4>2. in' = in \/ in' = <<>>
        BY <2>16 DEF ServerStart, clientVars, streamVars, callVars
      <4>3. in \in Seq(Answer) /\ <<>> \in Seq(Answer)
        BY <2>a DEF StreamTypeOK
      <4>4. in' \in Seq(Answer)
        BY <4>2, <4>3
      <4> QED BY <4>1, <4>4 DEF StreamTypeOK
    <3>2. ConnectionTypeOK'
      BY <2>16, <2>a DEF ServerStart, clientVars, streamVars, callVars, ConnectionTypeOK
    <3>3. CallTypeOK' /\ Numbered' /\ HeaderKept'
      BY <2>16, <2>a DEF ServerStart, clientVars, streamVars, callVars, CallTypeOK, Numbered, HeaderKept
    <3>e. faults' \in Nat
      BY <2>16, <2>c, CountFaultType DEF ServerStart, clientVars, streamVars, callVars
    <3>f. orphans' \subseteq Calls
      BY <2>16, <2>a, <2>b DEF ServerStart, clientVars, streamVars, callVars, ServerTypeOK
    <3>4. ServerTypeOK'
      BY <2>16, <2>a, <3>e, <3>f DEF ServerStart, clientVars, streamVars, callVars, ServerTypeOK
    <3> QED BY <3>1, <3>2, <3>3, <3>4 DEF TypeOK, TypeInv
  <2>17. CASE UNCHANGED vars
    <3>1. StreamTypeOK'
      BY <2>17, <2>a DEF vars, streamVars, StreamTypeOK
    <3>2. ConnectionTypeOK' /\ CallTypeOK' /\ ServerTypeOK' /\ Numbered' /\ HeaderKept'
      BY <2>17, <2>a DEF vars, clientVars, streamVars, callVars, serverVars,
                         ConnectionTypeOK, CallTypeOK, ServerTypeOK, Numbered, HeaderKept
    <3> QED BY <3>1, <3>2 DEF TypeOK, TypeInv
  <2> QED
    BY <2>1, <2>2, <2>3, <2>4, <2>5, <2>6, <2>7, <2>8, <2>9, <2>10, <2>11, <2>12, <2>13,
       <2>14, <2>15, <2>16, <2>17 DEF Next, ClientStep, Environment
<1>3. QED BY <1>1, <1>2, PTL DEF Spec

(* The variables of RpcClient always hold values of their kind. *)
THEOREM TypeCorrect == Spec => []TypeOK
<1>1. TypeInv => TypeOK
  BY DEF TypeInv
<1>2. QED BY <1>1, TypeInvariant, PTL

-----------------------------------------------------------------------------
(* The requests and answers on their way have sequence numbers. *)
LEMMA StreamSeqs ==
  ASSUME out \in Seq(Request), in \in Seq(Answer)
  PROVE  \A m \in Items(out) \cup Items(in) : m.seq \in Nat
<1>1. Items(out) \subseteq Request /\ Items(in) \subseteq Answer
  BY ItemsType
<1>2. (\A m \in Request : m.seq \in Nat) /\ (\A m \in Answer : m.seq \in Nat)
  BY DEF Request, Answer
<1> QED BY <1>1, <1>2

(* An answer that is returned is the answer to the call that returns it. *)
(* The seq_id of the answers on the stream tells whose they are. *)
LEMMA SeqStep == TypeInv /\ SeqInv /\ [Next]_vars => SeqInv'
<1> SUFFICES ASSUME TypeInv, SeqInv, [Next]_vars PROVE SeqInv'
  OBVIOUS
<1>a. /\ seq_id \in Nat /\ call \in Nat /\ linked \in BOOLEAN
      /\ out \in Seq(Request) /\ in \in Seq(Answer)
  BY BoundsAssumption DEF TypeInv, TypeOK, ConnectionTypeOK, CallTypeOK, StreamTypeOK
<1>1. \A m \in Items(out) \cup Items(in) : m.seq \in Nat
  BY <1>a, StreamSeqs
<1>2. /\ in # <<>> => Items(in) = Items(Tail(in)) \cup {Head(in)}
      /\ out # <<>> => Items(out) = Items(Tail(out)) \cup {Head(out)}
  BY <1>a, ItemsTail
<1> DEFINE Ok(m) == m.seq <= seq_id /\ (pc = "recv" /\ m.seq = seq_id => m.call = call)
           Closed == out' = <<>> /\ in' = <<>> /\ pc' # "body"
<1>3. Closed => SeqInv'
  BY ItemsEmpty DEF SeqInv
<1>4. CASE Begin
  BY <1>4, <1>a DEF Begin, SeqInv, streamVars, clientVars
<1>5. CASE ConnectOk
  BY <1>5, <1>3 DEF ConnectOk
<1>6. CASE SendOk
  <2> DEFINE r == [seq |-> seq_id + 1, call |-> call]
  <2>1. r \in Request
    BY <1>6, <1>a DEF SendOk, Request, Calls, TypeInv, TypeOK, CallTypeOK, Numbered
  <2>2. Items(out') \subseteq Items(out) \cup {r}
    BY <1>6, <1>a, <2>1, ItemsAppend DEF SendOk
  <2>3. ASSUME NEW m \in Items(out') \cup Items(in') PROVE Ok(m)'
    <3>1. CASE m = r
      BY <3>1, <1>6, <1>a DEF SendOk
    <3>2. CASE m \in Items(out) \cup Items(in)
      BY <3>2, <1>6, <1>a, <1>1 DEF SendOk, SeqInv
    <3> QED BY <2>2, <2>3, <3>1, <3>2, <1>6 DEF SendOk
  <2>4. pc' # "body"
    BY <1>6 DEF SendOk
  <2> QED BY <2>3, <2>4 DEF SeqInv
<1>7. CASE ConnectFails \/ SendFails \/ RecvDesync \/ RecvFails \/ Disconnect
  BY <1>7, <1>3 DEF ConnectFails, SendFails, RecvDesync, RecvFails, Disconnect, MarkBroken,
                    CloseStream, Raise, EndCall, callVars
<1>8. CASE RecvHeader
  <2>1. Items(in') \subseteq Items(in) /\ out' = out /\ seq_id' = seq_id /\ call' = call
        /\ pc' # "recv"
    BY <1>8, <1>2 DEF RecvHeader, Answered, EndCall, clientVars
  <2>2. pc' = "body" => hdr'.call = call'
    BY <1>8, <1>2 DEF RecvHeader, Answered, EndCall, Desynced, SeqInv
  <2> QED BY <2>1, <2>2 DEF SeqInv
<1>9. CASE RecvBody
  BY <1>9 DEF RecvBody, Answered, EndCall, SeqInv, clientVars, streamVars
<1>10. CASE Interrupt
  <2>1. pc' = "idle" /\ call' = call
    BY <1>10 DEF Interrupt, Raise, EndCall
  <2>2. CASE InterruptConnect
    BY <2>1, <2>2, <1>3 DEF InterruptConnect, CloseStream
  <2>3. CASE InterruptSend
    <3> DEFINE r == [seq |-> seq_id + 1, call |-> call]
    <3>1. r \in Request
      BY <2>3, <1>a DEF InterruptSend, Request, Calls, TypeInv, TypeOK, CallTypeOK, Numbered
    <3>2. Items(out') \subseteq Items(out) \cup {r} /\ in' = in /\ seq_id' = seq_id + 1
      <4>1. Items(Append(out, r)) = Items(out) \cup {r}
        BY <3>1, <1>a, ItemsAppend
      <4>2. (out' = out \/ out' = Append(out, r) \/ out' = <<>>) /\ in' = in /\ seq_id' = seq_id + 1
        BY <2>3 DEF InterruptSend, streamVars
      <4> HIDE DEF r
      <4> QED BY <4>1, <4>2, ItemsEmpty
    <3>3. ASSUME NEW m \in Items(out') \cup Items(in') PROVE m.seq <= seq_id'
      <4>1. CASE m = r
        BY <4>1, <3>2, <1>a
      <4>2. CASE m \in Items(out) \cup Items(in)
        BY <4>2, <3>2, <1>a, <1>1 DEF SeqInv
      <4> QED BY <3>2, <3>3, <4>1, <4>2
    <3> QED BY <2>1, <3>3 DEF SeqInv
  <2>4. CASE InterruptRecv
    <3>1. Items(in') \subseteq Items(in)
      BY <2>4, <1>2 DEF InterruptRecv
    <3> QED BY <2>1, <2>4, <3>1 DEF InterruptRecv, SeqInv, clientVars
  <2> QED BY <1>10, <2>2, <2>3, <2>4 DEF Interrupt
<1>11. ASSUME NEW kind \in {"ok", "error"}, NEW body \in BOOLEAN, Serve(kind, body)
       PROVE  SeqInv'
  <2> DEFINE r == Head(out)
             a == [seq |-> r.seq, call |-> r.call, kind |-> kind, body |-> body]
  <2>1. r \in Items(out) /\ Items(out') \subseteq Items(out)
    BY <1>11, <1>2 DEF Serve
  <2>2. r \in Request
    BY <1>a, <2>1, ItemsType
  <2>2a. a \in Answer
    BY <2>2 DEF Answer, Request
  <2>3. Items(in') = Items(in) \cup {a}
    BY <1>11, <1>a, <2>2a, ItemsAppend DEF Serve
  <2>4. Ok(a)
    BY <2>1 DEF SeqInv
  <2> QED BY <1>11, <2>1, <2>3, <2>4 DEF Serve, SeqInv, clientVars, callVars
<1>12. ASSUME NEW c \in orphans, ServeOrphan(c) PROVE SeqInv'
  BY <1>12 DEF ServeOrphan, SeqInv, clientVars, callVars, streamVars
<1>13. CASE Cut \/ ServerCrash
  <2>1. Items(out') \subseteq Items(out) /\ Items(in') \subseteq Items(in)
    BY <1>13, ItemsEmpty DEF Cut, ServerCrash
  <2> QED BY <1>13, <2>1 DEF Cut, ServerCrash, SeqInv, clientVars, callVars
<1>14. CASE ServerStart
  BY <1>14 DEF ServerStart, SeqInv, clientVars, callVars, streamVars
<1>15. CASE UNCHANGED vars
  BY <1>15 DEF vars, SeqInv, clientVars, callVars, streamVars
<1> QED
  BY <1>4, <1>5, <1>6, <1>7, <1>8, <1>9, <1>10, <1>11, <1>12, <1>13, <1>14, <1>15
     DEF Next, ClientStep, Environment

(* Only an answer carrying the current call's seq_id ends a call by "ok" or *)
(* "error".                                                                *)
LEMMA ReplyStep == TypeInv /\ SeqInv /\ ReplyMatches /\ [Next]_vars => ReplyMatches'
<1> SUFFICES ASSUME TypeInv, SeqInv, ReplyMatches, [Next]_vars PROVE ReplyMatches'
  OBVIOUS
<1>a. /\ in \in Seq(Answer)
      /\ pc = "body" => hdr \in Answer
      /\ result \in [Calls -> {"none", "ok", "error", "raised"}]
      /\ from \in [Calls -> 0 .. MaxCalls]
  BY DEF TypeInv, TypeOK, CallTypeOK, StreamTypeOK, HeaderKept
<1>1. ASSUME Raise PROVE ReplyMatches'
  BY <1>a, <1>1 DEF Raise, EndCall, ReplyMatches
<1>2. ASSUME NEW a \in Answer, a.call = call, Answered(a) PROVE ReplyMatches'
  BY <1>a, <1>2 DEF Answered, EndCall, ReplyMatches
<1>3. ASSUME UNCHANGED <<result, from>> PROVE ReplyMatches'
  BY <1>3 DEF ReplyMatches
<1>4. CASE RecvHeader
  <2>1. Head(in) \in Items(in) /\ Head(in) \in Answer
    BY <1>4, <1>a, ItemsTail, ItemsType DEF RecvHeader
  <2>2. Head(in).call = call
    BY <1>4, <2>1 DEF RecvHeader, Desynced, SeqInv
  <2> QED BY <1>4, <1>2, <1>3, <2>1, <2>2 DEF RecvHeader
<1>5. CASE RecvBody
  BY <1>5, <1>a, <1>2 DEF RecvBody, SeqInv
<1>6. CASE ConnectFails \/ SendFails \/ RecvDesync \/ RecvFails \/ Interrupt
  BY <1>6, <1>1 DEF ConnectFails, SendFails, RecvDesync, RecvFails, Interrupt
<1>7. CASE Begin \/ ConnectOk \/ SendOk \/ Disconnect \/ Cut \/ ServerCrash \/ ServerStart
           \/ UNCHANGED vars
  BY <1>7, <1>3 DEF Begin, ConnectOk, SendOk, Disconnect, Cut, ServerCrash, ServerStart,
                    callVars, vars
<1>8. ASSUME NEW kind \in {"ok", "error"}, NEW body \in BOOLEAN, Serve(kind, body)
      PROVE  ReplyMatches'
  BY <1>8, <1>3 DEF Serve, callVars
<1>9. ASSUME NEW c \in orphans, ServeOrphan(c) PROVE ReplyMatches'
  BY <1>9, <1>3 DEF ServeOrphan, callVars
<1> QED BY <1>4, <1>5, <1>6, <1>7, <1>8, <1>9 DEF Next, ClientStep, Environment

(* A call never returns, and never raises as the server's refusal, on the  *)
(* answer to another call.                                                 *)
THEOREM ReplyMatchesHolds == Spec => []ReplyMatches
<1>1. Init => SeqInv /\ ReplyMatches
  BY ItemsEmpty DEF Init, SeqInv, ReplyMatches
<1>2. QED BY <1>1, TypeInvariant, SeqStep, ReplyStep, PTL DEF Spec

-----------------------------------------------------------------------------
(* What an answered call leaves in its stream. *)

LEMMA ItemsNone == ASSUME NEW S, NEW s \in Seq(S), Items(s) = {} PROVE s = <<>>
  BY ItemsTail

LEMMA OrderedEmpty == Ordered(<<>>)
  BY DEF Ordered

LEMMA OrderedAppend ==
  ASSUME NEW S, NEW s \in Seq(S), NEW x \in S, Ordered(s), \A m \in Items(s) : m.seq < x.seq
  PROVE  Ordered(Append(s, x))
<1>1. /\ Len(Append(s, x)) = Len(s) + 1 /\ Append(s, x)[Len(s) + 1] = x /\ Len(s) \in Nat
      /\ \A i \in 1 .. Len(s) : Append(s, x)[i] = s[i]
  BY AppendProperties
<1>2. ASSUME NEW i \in 1 .. Len(s) + 1, NEW j \in 1 .. Len(s) + 1, i < j
      PROVE  Append(s, x)[i].seq < Append(s, x)[j].seq
  <2>1. i \in 1 .. Len(s)
    BY <1>1, <1>2
  <2>2. CASE j \in 1 .. Len(s)
    BY <2>1, <2>2, <1>1, <1>2 DEF Ordered
  <2>3. CASE j = Len(s) + 1
    <3>1. s[i] \in Items(s)
      BY <2>1 DEF Items
    <3> QED BY <3>1, <2>1, <2>3, <1>1
  <2> QED BY <2>2, <2>3, <1>1
<1> QED BY <1>1, <1>2 DEF Ordered

LEMMA OrderedTail ==
  ASSUME NEW S, NEW s \in Seq(S), s # <<>>, Ordered(s)
  PROVE  Ordered(Tail(s)) /\ \A m \in Items(Tail(s)) : Head(s).seq < m.seq
<1>1. /\ Len(Tail(s)) = Len(s) - 1 /\ Len(s) \in Nat /\ Len(s) > 0 /\ Head(s) = s[1]
      /\ \A i \in 1 .. Len(Tail(s)) : Tail(s)[i] = s[i + 1]
  BY HeadTailProperties, EmptySeq
<1>2. ASSUME NEW i \in 1 .. Len(Tail(s)) PROVE Head(s).seq < Tail(s)[i].seq
  BY <1>1, <1>2 DEF Ordered
<1>3. ASSUME NEW i \in 1 .. Len(Tail(s)), NEW j \in 1 .. Len(Tail(s)), i < j
      PROVE  Tail(s)[i].seq < Tail(s)[j].seq
  BY <1>1, <1>3 DEF Ordered
<1> QED BY <1>2, <1>3 DEF Ordered, Items

(* Behind the answer to the latest request nothing waits. *)
LEMMA LatestIsLast ==
  ASSUME TypeInv, SeqInv, OrderInv, RecvHeader PROVE NothingLeft'
<1>a. /\ seq_id \in Nat /\ out \in Seq(Request) /\ in \in Seq(Answer) /\ in # <<>>
  BY DEF TypeInv, TypeOK, ConnectionTypeOK, StreamTypeOK, RecvHeader
<1>1. Head(in).seq = seq_id /\ ~unread /\ in' = Tail(in) /\ out' = out /\ unread' = unread
  BY DEF RecvHeader, Desynced
<1>2. Items(in) = Items(Tail(in)) \cup {Head(in)} /\ Tail(in) \in Seq(Answer)
  BY <1>a, ItemsTail, HeadTailProperties
<1>3. \A m \in Items(out) \cup Items(in) : m.seq \in Nat /\ m.seq <= seq_id
  BY <1>a, ItemsType DEF SeqInv, Request, Answer
<1>4. \A m \in Items(Tail(in)) : Head(in).seq < m.seq
  BY <1>a, OrderedTail DEF OrderInv
<1>5. Items(Tail(in)) = {}
  BY <1>a, <1>1, <1>2, <1>3, <1>4
<1>6. Items(out) = {}
  BY <1>a, <1>1, <1>2, <1>3 DEF OrderInv
<1>7. Tail(in) = <<>> /\ out = <<>>
  BY <1>a, <1>2, <1>5, <1>6, ItemsNone
<1> QED BY <1>1, <1>7 DEF NothingLeft

(* The requests of a connection, answered or not, keep their order. *)
LEMMA OrderStep == TypeInv /\ SeqInv /\ OrderInv /\ [Next]_vars => OrderInv'
<1> SUFFICES ASSUME TypeInv, SeqInv, OrderInv, [Next]_vars PROVE OrderInv'
  OBVIOUS
<1>a. /\ seq_id \in Nat /\ call \in Nat
      /\ out \in Seq(Request) /\ in \in Seq(Answer)
  BY BoundsAssumption DEF TypeInv, TypeOK, ConnectionTypeOK, CallTypeOK, StreamTypeOK
<1>1. \A m \in Items(out) \cup Items(in) : m.seq \in Nat /\ m.seq <= seq_id
  BY <1>a, StreamSeqs DEF SeqInv
<1>2. /\ in # <<>> => /\ Items(in) = Items(Tail(in)) \cup {Head(in)}
                      /\ Ordered(Tail(in))
      /\ out # <<>> => /\ Items(out) = Items(Tail(out)) \cup {Head(out)}
                       /\ Ordered(Tail(out))
                       /\ \A m \in Items(Tail(out)) : Head(out).seq < m.seq
  BY <1>a, ItemsTail, OrderedTail DEF OrderInv
<1>3. ASSUME out' = <<>>, in' = <<>>, pc' # "body" PROVE OrderInv'
  BY <1>3, ItemsEmpty, OrderedEmpty DEF OrderInv
<1>4. ASSUME UNCHANGED <<out, in, unread>>, pc' = "body" => pc = "body" PROVE OrderInv'
  BY <1>4 DEF OrderInv, NothingLeft
<1>5. CASE Begin \/ RecvBody \/ ServerStart \/ UNCHANGED vars
  BY <1>5, <1>4 DEF Begin, RecvBody, Answered, EndCall, ServerStart, vars, streamVars, callVars
<1>6. CASE ConnectOk \/ ConnectFails \/ SendFails \/ RecvDesync \/ RecvFails \/ Disconnect
  BY <1>6, <1>3 DEF ConnectOk, ConnectFails, SendFails, RecvDesync, RecvFails, Disconnect,
                    MarkBroken, CloseStream, Raise, EndCall, callVars
<1>7. CASE SendOk
  <2> DEFINE r == [seq |-> seq_id + 1, call |-> call]
  <2>1. r \in Request
    BY <1>7, <1>a DEF SendOk, Request, Calls, TypeInv, TypeOK, CallTypeOK, Numbered
  <2>2. \A m \in Items(out) \cup Items(in) : m.seq < r.seq
    BY <1>a, <1>1
  <2>3. Ordered(Append(out, r)) /\ Items(Append(out, r)) = Items(out) \cup {r}
    BY <1>a, <2>1, <2>2, OrderedAppend, ItemsAppend DEF OrderInv
  <2>4. (out' = out \/ out' = Append(out, r)) /\ in' = in /\ pc' # "body"
    BY <1>7 DEF SendOk
  <2> HIDE DEF r
  <2> QED BY <2>2, <2>3, <2>4 DEF OrderInv
<1>8. CASE RecvHeader
  BY <1>8, LatestIsLast, OrderedEmpty, ItemsEmpty DEF OrderInv, NothingLeft
<1>9. CASE Interrupt
  <2>1. pc' # "body"
    BY <1>9 DEF Interrupt, Raise, EndCall
  <2>2. CASE InterruptConnect
    BY <2>1, <2>2, <1>3 DEF InterruptConnect, CloseStream
  <2>3. CASE InterruptSend
    <3> DEFINE r == [seq |-> seq_id + 1, call |-> call]
    <3>1. r \in Request
      BY <2>3, <1>a DEF InterruptSend, Request, Calls, TypeInv, TypeOK, CallTypeOK, Numbered
    <3>2. \A m \in Items(out) \cup Items(in) : m.seq < r.seq
      BY <1>a, <1>1
    <3>3. Ordered(Append(out, r)) /\ Items(Append(out, r)) = Items(out) \cup {r}
      BY <1>a, <3>1, <3>2, OrderedAppend, ItemsAppend DEF OrderInv
    <3>4. (out' = out \/ out' = Append(out, r) \/ out' = <<>>) /\ in' = in
      BY <2>3 DEF InterruptSend, streamVars
    <3> HIDE DEF r
    <3> QED BY <2>1, <3>2, <3>3, <3>4, OrderedEmpty, ItemsEmpty DEF OrderInv
  <2>4. CASE InterruptRecv
    <3>1. Items(in') \subseteq Items(in) /\ Ordered(in)' /\ out' = out
      BY <2>4, <1>2 DEF InterruptRecv, OrderInv
    <3> QED BY <2>1, <3>1 DEF OrderInv
  <2> QED BY <1>9, <2>2, <2>3, <2>4 DEF Interrupt
<1>10. ASSUME NEW kind \in {"ok", "error"}, NEW body \in BOOLEAN, Serve(kind, body)
       PROVE  OrderInv'
  <2> DEFINE r == Head(out)
             a == [seq |-> r.seq, call |-> r.call, kind |-> kind, body |-> body]
  <2>1. /\ out # <<>> /\ out' = Tail(out) /\ in' = Append(in, a) /\ pc' = pc /\ unread' = unread
    BY <1>10 DEF Serve, callVars
  <2>2. r \in Items(out) /\ r \in Request
    BY <2>1, <1>2, <1>a, ItemsType
  <2>3. a \in Answer /\ a.seq = r.seq
    BY <2>2 DEF Answer, Request
  <2>4. \A m \in Items(in) : m.seq < a.seq
    BY <2>2, <2>3 DEF OrderInv
  <2>5. pc' # "body"
    BY <2>1 DEF OrderInv, NothingLeft
  <2> HIDE DEF a
  <2>6. Ordered(in)' /\ Items(in') = Items(in) \cup {a}
    BY <1>a, <2>1, <2>3, <2>4, OrderedAppend, ItemsAppend DEF OrderInv
  <2>7. \A m \in Items(Tail(out)) : a.seq < m.seq
    BY <1>2, <2>1, <2>3
  <2> QED BY <1>2, <2>1, <2>5, <2>6, <2>7 DEF OrderInv
<1>11. ASSUME NEW c \in orphans, ServeOrphan(c) PROVE OrderInv'
  BY <1>11, <1>4 DEF ServeOrphan, streamVars, callVars
<1>12. CASE Cut \/ ServerCrash
  <2>1. /\ out' = <<>> /\ in' \in {in, <<>>} /\ pc' = pc /\ unread' = unread
    BY <1>12 DEF Cut, ServerCrash, callVars
  <2>2. Ordered(in)' /\ Ordered(out)' /\ Items(out') = {}
    BY <2>1, OrderedEmpty, ItemsEmpty DEF OrderInv
  <2> QED BY <2>1, <2>2 DEF OrderInv, NothingLeft
<1> QED
  BY <1>5, <1>6, <1>7, <1>8, <1>9, <1>10, <1>11, <1>12 DEF Next, ClientStep, Environment

(* Between two calls an answered one has left nothing, and nothing arrives.*)
LEMMA SyncStep == TypeInv /\ SeqInv /\ OrderInv /\ ReturnedInSync /\ [Next]_vars => ReturnedInSync'
<1> SUFFICES ASSUME TypeInv, SeqInv, OrderInv, ReturnedInSync, [Next]_vars PROVE ReturnedInSync'
  OBVIOUS
<1>a. /\ result \in [Calls -> {"none", "ok", "error", "raised"}]
      /\ pc # "idle" => call \in Calls
  BY BoundsAssumption DEF TypeInv, TypeOK, CallTypeOK, Numbered, Calls
<1>1. ASSUME NothingLeft' PROVE ReturnedInSync'
  BY <1>1 DEF NothingLeft, ReturnedInSync
<1>2. ASSUME Raise, pc # "idle" PROVE ReturnedInSync'
  <2>1. result'[call'] = "raised"
    BY <1>a, <1>2 DEF Raise, EndCall
  <2> QED BY <2>1 DEF ReturnedInSync
<1>3. CASE Begin \/ ConnectOk \/ SendOk
  BY <1>3 DEF Begin, ConnectOk, SendOk, ReturnedInSync
<1>4. CASE ConnectFails \/ SendFails \/ RecvDesync \/ RecvFails \/ Interrupt
  BY <1>4, <1>2 DEF ConnectFails, SendFails, RecvDesync, RecvFails, Interrupt,
                    InterruptConnect, InterruptSend, InterruptRecv
<1>5. CASE RecvHeader
  BY <1>5, <1>1, LatestIsLast
<1>6. CASE RecvBody
  BY <1>6, <1>1 DEF RecvBody, OrderInv, NothingLeft, streamVars
<1>7. CASE Disconnect
  BY <1>7 DEF Disconnect, ReturnedInSync
<1>8. ASSUME NEW kind \in {"ok", "error"}, NEW body \in BOOLEAN, Serve(kind, body)
      PROVE  ReturnedInSync'
  BY <1>8 DEF Serve, ReturnedInSync, clientVars, callVars
<1>9. CASE Cut \/ ServerCrash
  BY <1>9 DEF Cut, ServerCrash, ReturnedInSync, clientVars, callVars
<1>10. ASSUME NEW c \in orphans, ServeOrphan(c) PROVE ReturnedInSync'
  BY <1>10 DEF ServeOrphan, ReturnedInSync, clientVars, callVars, streamVars
<1>11. CASE ServerStart \/ UNCHANGED vars
  BY <1>11 DEF ServerStart, vars, ReturnedInSync, clientVars, callVars, streamVars
<1> QED
  BY <1>3, <1>4, <1>5, <1>6, <1>7, <1>8, <1>9, <1>10, <1>11 DEF Next, ClientStep, Environment

(* A connection whose call returned, or was refused by the server, is in   *)
(* step: nothing is left on it for the next call to read.                  *)
THEOREM ReturnedInSyncHolds == Spec => []ReturnedInSync
<1>1. Init => SeqInv /\ OrderInv /\ ReturnedInSync
  BY ItemsEmpty, OrderedEmpty DEF Init, SeqInv, OrderInv, ReturnedInSync
<1>2. QED BY <1>1, TypeInvariant, SeqStep, OrderStep, SyncStep, PTL DEF Spec

-----------------------------------------------------------------------------
(* How many calls the faults can cost. *)

LEMMA RaisedCount ==
  /\ IsFiniteSet(Raised) /\ Cardinality(Raised) \in Nat
  /\ Cardinality(Raised') \in Nat
<1>1. IsFiniteSet(1 .. MaxCalls)
  BY FS_Interval, BoundsAssumption
<1>2. Raised \subseteq 1 .. MaxCalls /\ Raised' \subseteq 1 .. MaxCalls
  BY DEF Raised, Calls
<1> QED BY <1>1, <1>2, FS_Subset, FS_CardinalityType

(* The debt of a state: the raises made, and the one owed. *)
LEMMA DebtValue ==
  /\ (Owed => Debt = Cardinality(Raised) + 1) /\ (~Owed => Debt = Cardinality(Raised) + 0)
  /\ (Owed' => Debt' = Cardinality(Raised') + 1) /\ (~Owed' => Debt' = Cardinality(Raised') + 0)
  BY Zenon DEF Debt

(* A call that raises is one more, a call that ends otherwise is none. *)
LEMMA EndCounts ==
  ASSUME TypeInv, NEW r, NEW who, EndCall(r, who)
  PROVE  /\ Cardinality(Raised') <= Cardinality(Raised) + 1
         /\ r # "raised" => Cardinality(Raised') <= Cardinality(Raised)
<1>1. /\ result \in [Calls -> {"none", "ok", "error", "raised"}]
      /\ result' = [result EXCEPT ![call] = r]
  BY DEF TypeInv, TypeOK, CallTypeOK, EndCall
<1>2. Raised' \subseteq Raised \cup {call} /\ (r # "raised" => Raised' \subseteq Raised)
  BY <1>1 DEF Raised
<1>3. /\ IsFiniteSet(Raised) /\ IsFiniteSet(Raised \cup {call}) /\ Cardinality(Raised) \in Nat
      /\ Cardinality(Raised \cup {call}) \in {Cardinality(Raised), Cardinality(Raised) + 1}
  BY RaisedCount, FS_AddElement
<1>4. Cardinality(Raised') <= Cardinality(Raised \cup {call}) /\ Cardinality(Raised') \in Nat
  BY <1>2, <1>3, FS_Subset, FS_CardinalityType
<1>5. r # "raised" => Cardinality(Raised') <= Cardinality(Raised)
  BY <1>2, <1>3, FS_Subset
<1> QED BY <1>3, <1>4, <1>5

(* From send to the answer there is a socket. *)
LEMMA SocketStep == TypeInv /\ SocketInv /\ [Next]_vars => SocketInv'
<1> SUFFICES ASSUME TypeInv, SocketInv, [Next]_vars PROVE SocketInv'
  OBVIOUS
<1>1. CASE Begin
  BY <1>1 DEF Begin, NeedsConnection, SocketInv, clientVars
<1>2. CASE ConnectOk \/ SendOk
  BY <1>2 DEF ConnectOk, SendOk, SocketInv
<1>3. CASE ConnectFails \/ SendFails \/ RecvDesync \/ RecvBody \/ RecvFails \/ Interrupt
           \/ Disconnect
  BY <1>3 DEF ConnectFails, SendFails, RecvDesync, RecvBody, Answered, RecvFails, Interrupt,
              Disconnect, Raise, EndCall, SocketInv, callVars
<1>4. CASE RecvHeader
  BY <1>4 DEF RecvHeader, Answered, EndCall, SocketInv, clientVars
<1>5. ASSUME NEW kind \in {"ok", "error"}, NEW body \in BOOLEAN, Serve(kind, body)
      PROVE  SocketInv'
  BY <1>5 DEF Serve, SocketInv, clientVars, callVars
<1>6. ASSUME NEW c \in orphans, ServeOrphan(c) PROVE SocketInv'
  BY <1>6 DEF ServeOrphan, SocketInv, clientVars, callVars
<1>7. CASE Cut \/ ServerCrash \/ ServerStart \/ UNCHANGED vars
  BY <1>7 DEF Cut, ServerCrash, ServerStart, vars, SocketInv, clientVars, callVars
<1> QED BY <1>1, <1>2, <1>3, <1>4, <1>5, <1>6, <1>7 DEF Next, ClientStep, Environment

(* Every raise is paid for by a fault, or was owed by one. *)
LEMMA RaiseStep ==
  TypeInv /\ SeqInv /\ OrderInv /\ RaiseInv /\ [Next]_vars => RaiseInv'
<1> SUFFICES ASSUME TypeInv, SeqInv, OrderInv, RaiseInv, [Next]_vars PROVE Debt' <= 2 * faults'
  BY SocketStep DEF RaiseInv
<1> DEFINE n == Cardinality(Raised)
<1>a. /\ seq_id \in Nat /\ faults \in Nat /\ linked \in BOOLEAN
      /\ out \in Seq(Request) /\ in \in Seq(Answer)
      /\ SocketInv
  BY DEF TypeInv, TypeOK, ConnectionTypeOK, ServerTypeOK, StreamTypeOK, RaiseInv
<1>b. \A m \in Items(out) \cup Items(in) : m.seq \in Nat /\ m.seq <= seq_id
  BY <1>a, StreamSeqs DEF SeqInv
<1>c. n \in Nat /\ n' \in Nat
  BY RaisedCount
<1>d. /\ (Owed => Debt = n + 1) /\ (~Owed => Debt = n + 0)
      /\ (Owed' => Debt' = n' + 1) /\ (~Owed' => Debt' = n' + 0)
  BY DebtValue
<1>e. Debt <= 2 * faults /\ faults \in Nat
  BY <1>a DEF RaiseInv
<1> HIDE DEF n
<1>1. ASSUME n' <= n, Owed' => Owed, faults' = faults PROVE Debt' <= 2 * faults'
  <2>1. \/ Debt' = n' + 1 /\ Debt = n + 1
        \/ Debt' = n' + 0 /\ (Debt = n + 0 \/ Debt = n + 1)
    BY <1>1, <1>d, Zenon
  <2>2. n' <= n /\ faults' = faults
    BY <1>1
  <2> QED BY <2>1, <2>2, <1>c, <1>e
<1>2. ASSUME n' <= n + 1, faults' = faults + 1 PROVE Debt' <= 2 * faults'
  <2>1. (Debt' = n' + 1 \/ Debt' = n' + 0) /\ (Debt = n + 0 \/ Debt = n + 1)
    BY <1>d, Zenon
  <2> QED BY <2>1, <1>2, <1>c, <1>e
<1>3. ASSUME n' <= n + 1, ~Owed', Owed, faults' = faults PROVE Debt' <= 2 * faults'
  <2>1. Debt = n + 1 /\ Debt' = n' + 0
    BY <1>3, <1>d, Zenon
  <2>2. n' <= n + 1 /\ faults' = faults
    BY <1>3
  <2> DEFINE limit == 2 * faults
  <2>3. n + 1 <= limit /\ limit \in Int
    BY <2>1, <1>e
  <2> HIDE DEF limit
  <2>4. n' <= limit
    BY <2>2, <2>3, <1>c
  <2>5. n' + 0 <= limit
    BY <2>4, <1>c
  <2> QED BY <2>1, <2>2, <2>5 DEF limit
<1>4. Raise => n' <= n + 1
  BY EndCounts DEF Raise, n
<1>5. UNCHANGED result => n' <= n
  BY <1>c DEF n, Raised
<1>6. MarkBroken => ~Owed'
  BY DEF MarkBroken, Owed
<1>7. CASE Begin
  <2>1. Owed' => Owed
    BY <1>7 DEF Begin, Owed, Leftover, clientVars, streamVars
  <2> QED BY <2>1, <1>7, <1>1, <1>5 DEF Begin
<1>8. CASE ConnectOk
  <2>1. ~Owed'
    BY <1>8, ItemsEmpty DEF ConnectOk, Owed
  <2> QED BY <2>1, <1>8, <1>1, <1>5 DEF ConnectOk
<1>9. CASE ConnectFails \/ Interrupt
  BY <1>9, <1>2, <1>4 DEF ConnectFails, Interrupt, CountFault
<1>10. CASE SendOk
  <2>1. Owed' => Owed
    <3> SUFFICES ASSUME Owed', ~Owed PROVE FALSE
      OBVIOUS
    <3> DEFINE r == [seq |-> seq_id + 1, call |-> call]
    <3>1. /\ sock = "open" /\ linked /\ ~unread /\ Items(out) = {} /\ Items(in) = {}
          /\ out' = Append(out, r) /\ in' = in /\ pc' = "recv" /\ seq_id' = seq_id + 1
          /\ UNCHANGED <<sock, linked, unread>>
      BY <1>10 DEF SendOk, Owed, Leftover
    <3>2. r \in Request
      BY <1>10, <1>a DEF SendOk, Request, Calls, TypeInv, TypeOK, CallTypeOK, Numbered
    <3>3. Items(out') = {r}
      BY <3>1, <3>2, <1>a, ItemsAppend
    <3> QED BY <3>1, <3>3 DEF Owed, Leftover
  <2> QED BY <2>1, <1>10, <1>1, <1>5 DEF SendOk
<1>11. CASE SendFails
  <2>1. linked => faults' = faults + 1
    BY <1>11 DEF SendFails, CountFault
  <2>2. ~linked => Owed /\ faults' = faults
    BY <1>11, <1>a DEF SendFails, CountFault, SocketInv, Owed, TypeInv, TypeOK, ConnectionTypeOK
  <2> QED BY <2>1, <2>2, <1>11, <1>2, <1>3, <1>4, <1>6 DEF SendFails
<1>12. CASE RecvDesync
  <2>1. Owed
    <3>1. sock = "open" /\ pc = "recv"
      BY <1>12, <1>a DEF RecvDesync, SocketInv
    <3>2. in # <<>> => Head(in) \in Items(in)
      BY <1>a, ItemsTail
    <3> QED BY <1>12, <3>1, <3>2 DEF RecvDesync, Desynced, Owed, Leftover
  <2> QED BY <2>1, <1>12, <1>3, <1>4, <1>6 DEF RecvDesync
<1>13. CASE RecvHeader
  <2>1. Owed' => Owed
    <3>1. NothingLeft' /\ sock = "open" /\ UNCHANGED <<sock, linked>>
      BY <1>13, <1>a, LatestIsLast DEF RecvHeader, SocketInv, clientVars
    <3> QED BY <3>1, ItemsEmpty DEF NothingLeft, Owed
  <2>2. n' <= n
    <3>1. Head(in) \in Answer
      BY <1>13, <1>a, HeadTailProperties DEF RecvHeader
    <3>2. Head(in).kind # "raised"
      BY <3>1 DEF Answer
    <3> QED BY <3>2, <1>13, <1>5, EndCounts DEF RecvHeader, Answered, n
  <2> QED BY <2>1, <2>2, <1>13, <1>1 DEF RecvHeader
<1>14. CASE RecvBody
  <2>1. Owed' => Owed
    <3>1. NothingLeft /\ sock = "open" /\ UNCHANGED <<sock, linked, in, out, unread>>
      BY <1>14, <1>a DEF RecvBody, SocketInv, OrderInv, clientVars, streamVars
    <3> QED BY <3>1, ItemsEmpty DEF NothingLeft, Owed
  <2>2. n' <= n
    <3>1. hdr.kind # "raised"
      BY <1>14 DEF RecvBody, TypeInv, HeaderKept, Answer
    <3> QED BY <3>1, <1>14, EndCounts DEF RecvBody, Answered, n
  <2> QED BY <2>1, <2>2, <1>14, <1>1 DEF RecvBody
<1>15. CASE RecvFails
  <2>1. linked => faults' = faults + 1
    BY <1>15 DEF RecvFails, CountFault
  <2>2. ~linked => Owed /\ faults' = faults
    BY <1>15, <1>a DEF RecvFails, CountFault, SocketInv, Owed
  <2> QED BY <2>1, <2>2, <1>15, <1>2, <1>3, <1>4, <1>6 DEF RecvFails
<1>16. CASE Disconnect
  <2>1. ~Owed' /\ UNCHANGED <<result, faults>>
    BY <1>16 DEF Disconnect, Owed, callVars
  <2> QED BY <2>1, <1>1, <1>5
<1>17. ASSUME NEW kind \in {"ok", "error"}, NEW body \in BOOLEAN, Serve(kind, body)
       PROVE  Debt' <= 2 * faults'
  <2> DEFINE r == Head(out)
             a == [seq |-> r.seq, call |-> r.call, kind |-> kind, body |-> body]
  <2>1. /\ out # <<>> /\ out' = Tail(out) /\ in' = Append(in, a)
        /\ UNCHANGED <<sock, linked, unread, seq_id, pc, result, faults>>
    BY <1>17 DEF Serve, clientVars, callVars
  <2>2. r \in Items(out) /\ Items(out') \subseteq Items(out) /\ r \in Request
    BY <2>1, <1>a, ItemsTail, ItemsType
  <2>3. a \in Answer /\ a.seq = r.seq
    BY <2>2 DEF Answer, Request
  <2> HIDE DEF a
  <2>4. Items(in') = Items(in) \cup {a}
    BY <2>1, <2>3, <1>a, ItemsAppend
  <2>5. Owed' => Owed
    <3>1. \A m \in Items(out') \cup Items(in') :
            \E k \in Items(out) \cup Items(in) : k.seq = m.seq
      BY <2>2, <2>3, <2>4
    <3> QED BY <2>1, <3>1 DEF Owed, Leftover
  <2> QED BY <2>1, <2>5, <1>1, <1>5
<1>18. CASE Cut \/ ServerCrash
  <2>1. faults' = faults + 1 /\ UNCHANGED result
    BY <1>18 DEF Cut, ServerCrash, CountFault, callVars
  <2>2. n' <= n + 1
    BY <2>1, <1>5, <1>c
  <2> QED BY <2>1, <2>2, <1>2
<1>19. ASSUME UNCHANGED <<clientVars, streamVars, callVars, faults>> PROVE Debt' <= 2 * faults'
  <2>1. (Owed' => Owed) /\ UNCHANGED <<result, faults>>
    BY <1>19 DEF Owed, Leftover, clientVars, streamVars, callVars
  <2> QED BY <2>1, <1>1, <1>5
<1>20. ASSUME NEW c \in orphans, ServeOrphan(c) PROVE Debt' <= 2 * faults'
  BY <1>20, <1>19 DEF ServeOrphan
<1>21. CASE ServerStart \/ UNCHANGED vars
  BY <1>21, <1>19 DEF ServerStart, vars
<1> QED
  BY <1>7, <1>8, <1>9, <1>10, <1>11, <1>12, <1>13, <1>14, <1>15, <1>16, <1>17, <1>18, <1>20,
     <1>21 DEF Next, ClientStep, Environment

(* A fault costs at most the call it hits and the next one. *)
THEOREM RaisesBoundedHolds == Spec => []RaisesBounded
<1>1. Init => SeqInv /\ OrderInv /\ RaiseInv
  <2> SUFFICES ASSUME Init PROVE SeqInv /\ OrderInv /\ RaiseInv
    OBVIOUS
  <2>1. SeqInv /\ OrderInv /\ SocketInv
    BY ItemsEmpty, OrderedEmpty DEF Init, SeqInv, OrderInv, SocketInv
  <2>2. Raised = {} /\ ~Owed /\ faults = 0
    BY DEF Init, Raised, Owed
  <2>3. Cardinality(Raised) = 0
    BY <2>2, FS_EmptySet
  <2> QED BY <2>1, <2>2, <2>3 DEF RaiseInv, Debt
<1>2. TypeInv /\ RaiseInv => RaisesBounded
  BY RaisedCount DEF RaiseInv, Debt, RaisesBounded, TypeInv, TypeOK, ServerTypeOK
<1>3. QED BY <1>1, <1>2, TypeInvariant, SeqStep, OrderStep, RaiseStep, PTL DEF Spec

-----------------------------------------------------------------------------
(* The client implements RpcCall. *)

LEMMA DistinctTail ==
  ASSUME NEW s \in Seq(Request), s # <<>>, Distinct(s)
  PROVE  Distinct(Tail(s)) /\ Head(s).call \notin CallsIn(Tail(s))
<1>1. /\ Len(Tail(s)) = Len(s) - 1 /\ Len(s) \in Nat /\ Len(s) > 0 /\ Head(s) = s[1]
      /\ \A i \in 1 .. Len(Tail(s)) : Tail(s)[i] = s[i + 1]
  BY HeadTailProperties, EmptySeq
<1>2. ASSUME NEW i \in 1 .. Len(Tail(s)) PROVE Tail(s)[i].call # Head(s).call
  BY <1>1, <1>2 DEF Distinct
<1>3. ASSUME NEW i \in 1 .. Len(Tail(s)), NEW j \in 1 .. Len(Tail(s)),
             Tail(s)[i].call = Tail(s)[j].call
      PROVE  i = j
  BY <1>1, <1>3 DEF Distinct
<1> QED BY <1>2, <1>3 DEF Distinct, CallsIn, Items

LEMMA DistinctAppend ==
  ASSUME NEW s \in Seq(Request), NEW r \in Request, Distinct(s), r.call \notin CallsIn(s)
  PROVE  Distinct(Append(s, r))
<1>1. /\ Len(Append(s, r)) = Len(s) + 1 /\ Append(s, r)[Len(s) + 1] = r /\ Len(s) \in Nat
      /\ \A i \in 1 .. Len(s) : Append(s, r)[i] = s[i]
  BY AppendProperties
<1>2. \A i \in 1 .. Len(s) : s[i].call # r.call
  BY DEF CallsIn, Items
<1>3. \A i \in 1 .. Len(s) + 1 : i = Len(s) + 1 \/ i \in 1 .. Len(s)
  BY <1>1
<1>4. ASSUME NEW i \in 1 .. Len(s) + 1, NEW j \in 1 .. Len(s) + 1,
             Append(s, r)[i].call = Append(s, r)[j].call
      PROVE  i = j
  <2>1. CASE i \in 1 .. Len(s) /\ j \in 1 .. Len(s)
    BY <2>1, <1>1, <1>4 DEF Distinct
  <2>2. CASE i = Len(s) + 1 /\ j \in 1 .. Len(s)
    BY <2>2, <1>1, <1>2, <1>4
  <2>3. CASE i \in 1 .. Len(s) /\ j = Len(s) + 1
    BY <2>3, <1>1, <1>2, <1>4
  <2> QED BY <1>3, <2>1, <2>2, <2>3
<1> QED BY <1>1, <1>4 DEF Distinct

(* A call is in progress from Begin to EndCall. *)
LEMMA PhaseStep == TypeInv /\ PhaseInv /\ [Next]_vars => PhaseInv'
<1> SUFFICES ASSUME TypeInv, PhaseInv, [Next]_vars PROVE PhaseInv'
  OBVIOUS
<1> USE DEF AbstractCall!InProgress
<1>a. /\ call \in 0 .. MaxCalls /\ MaxCalls \in Nat
      /\ pc # "idle" => call \in Calls
      /\ result \in [Calls -> {"none", "ok", "error", "raised"}]
      /\ in # <<>> => Head(in) \in Answer
      /\ pc = "body" => hdr \in Answer
  BY BoundsAssumption, HeadTailProperties
     DEF TypeInv, TypeOK, CallTypeOK, StreamTypeOK, Numbered, HeaderKept, Calls
<1>1. ASSUME NEW r \in {"ok", "error", "raised"}, NEW who, EndCall(r, who), pc # "idle"
      PROVE  PhaseInv'
  BY <1>a, <1>1 DEF EndCall, PhaseInv, Calls
<1>2. ASSUME UNCHANGED <<call, result>>, pc = "idle" <=> pc' = "idle" PROVE PhaseInv'
  BY <1>2 DEF PhaseInv
<1>3. CASE Begin
  BY <1>3, <1>a DEF Begin, PhaseInv, Calls
<1>4. CASE ConnectFails \/ SendFails \/ RecvDesync \/ RecvFails \/ Interrupt
  BY <1>4, <1>1 DEF ConnectFails, SendFails, RecvDesync, RecvFails, Interrupt,
                    InterruptConnect, InterruptSend, InterruptRecv, Raise
<1>5. CASE RecvHeader
  <2>1. Head(in).kind \in {"ok", "error", "raised"}
    BY <1>5, <1>a DEF RecvHeader, Answer
  <2> QED BY <1>5, <2>1, <1>1, <1>2 DEF RecvHeader, Answered
<1>6. CASE RecvBody
  <2>1. hdr.kind \in {"ok", "error", "raised"}
    BY <1>6, <1>a DEF RecvBody, Answer
  <2> QED BY <1>6, <2>1, <1>1 DEF RecvBody, Answered
<1>7. CASE ConnectOk \/ SendOk \/ Disconnect \/ Cut \/ ServerCrash \/ ServerStart
           \/ UNCHANGED vars
  BY <1>7, <1>2 DEF ConnectOk, SendOk, Disconnect, Cut, ServerCrash, ServerStart, callVars, vars
<1>8. ASSUME NEW kind \in {"ok", "error"}, NEW body \in BOOLEAN, Serve(kind, body)
      PROVE  PhaseInv'
  BY <1>8, <1>2 DEF Serve, callVars
<1>9. ASSUME NEW c \in orphans, ServeOrphan(c) PROVE PhaseInv'
  BY <1>9, <1>2 DEF ServeOrphan, callVars
<1> QED BY <1>3, <1>4, <1>5, <1>6, <1>7, <1>8, <1>9 DEF Next, ClientStep, Environment

(* PendingInv survives whatever only takes requests and answers away. *)
LEMMA PendingKept ==
  ASSUME PendingInv, performed' = performed, call' = call,
         Waiting' \subseteq Waiting, Items(in') \subseteq Items(in),
         Distinct(out)', (CallsIn(out) \cap orphans = {})',
         \A c \in Waiting' : result'[c] \in {"none", "raised"},
         pc' \in {"connect", "send"} => pc \in {"connect", "send"},
         pc' = "body" => TellsTruth(hdr)'
  PROVE  PendingInv'
<1>1. ASSUME NEW a, TellsTruth(a) PROVE TellsTruth(a)'
  BY <1>1 DEF TellsTruth
<1>2. CallsIn(in') \subseteq CallsIn(in)
  BY DEF CallsIn
<1>3. pc' \in {"connect", "send"} => call' \notin Waiting' \cup performed' \cup CallsIn(in')
  BY <1>2 DEF PendingInv
<1>4. \A a \in Items(in') : TellsTruth(a)'
  BY <1>1 DEF PendingInv
<1>5. /\ \A c \in Waiting' : c <= call' /\ c \notin performed'
      /\ \A c \in performed' : c <= call'
  BY DEF PendingInv
<1> QED BY <1>3, <1>4, <1>5 DEF PendingInv

(* Giving up a connection leaves its requests waiting at the server. *)
LEMMA CloseKept ==
  ASSUME TypeInv, PendingInv, CloseStream, pc' = "idle", call' = call,
         result' = result \/ result' = [result EXCEPT ![call] = "raised"]
  PROVE  PendingInv'
<1>1. Waiting' = Waiting /\ Items(in') = {} /\ performed' = performed
  BY ItemsEmpty DEF CloseStream, Waiting
<1>2. Distinct(out)' /\ (CallsIn(out) \cap orphans = {})'
  BY ItemsEmpty DEF CloseStream, Distinct
<1>3. \A c \in Waiting' : result'[c] \in {"none", "raised"}
  <2>1. Waiting \subseteq Calls /\ result \in [Calls -> {"none", "ok", "error", "raised"}]
    BY CallsInType DEF Waiting, TypeInv, TypeOK, StreamTypeOK, ServerTypeOK, CallTypeOK
  <2> QED BY <1>1, <2>1 DEF PendingInv
<1> QED BY <1>1, <1>2, <1>3, PendingKept

(* Every request waits in one place until it is performed once. *)
LEMMA PendingStep ==
  TypeInv /\ SeqInv /\ PhaseInv /\ PendingInv /\ [Next]_vars => PendingInv'
<1> SUFFICES ASSUME TypeInv, SeqInv, PhaseInv, PendingInv, [Next]_vars PROVE PendingInv'
  OBVIOUS
<1>a. /\ call \in 0 .. MaxCalls /\ MaxCalls \in Nat
      /\ pc # "idle" => call \in Calls
      /\ result \in [Calls -> {"none", "ok", "error", "raised"}]
      /\ out \in Seq(Request) /\ in \in Seq(Answer)
      /\ pc = "body" => hdr \in Answer
      /\ linked \in BOOLEAN /\ seq_id \in Nat
      /\ orphans \subseteq Calls
  BY BoundsAssumption
     DEF TypeInv, TypeOK, CallTypeOK, StreamTypeOK, ServerTypeOK, ConnectionTypeOK,
         Numbered, HeaderKept, Calls
<1>b. Waiting \subseteq Calls
  BY <1>a, CallsInType DEF Waiting
<1>1. /\ in # <<>> => Items(in) = Items(Tail(in)) \cup {Head(in)}
      /\ out # <<>> => Items(out) = Items(Tail(out)) \cup {Head(out)}
  BY <1>a, ItemsTail
<1>2. \A c \in Waiting : result[c] \in {"none", "raised"}
  BY DEF PendingInv
<1>3. ASSUME NEW a \in Answer, TellsTruth(a), a.call = call, Answered(a), Waiting' = Waiting
      PROVE  \A c \in Waiting' : result'[c] \in {"none", "raised"}
  <2>1. call \notin Waiting
    <3>1. a.kind = "ok" \/ a.kind = "error"
      BY <1>3 DEF Answer
    <3> QED BY <3>1, <1>3 DEF TellsTruth, PendingInv
  <2> QED BY <1>a, <1>b, <1>2, <1>3, <2>1 DEF Answered, EndCall
<1>4. CASE Begin
  <2>1. /\ UNCHANGED <<out, in, orphans, performed, result>> /\ call' = call + 1 /\ pc' # "body"
        /\ Waiting' = Waiting
    BY <1>4 DEF Begin, streamVars, serverVars, Waiting
  <2>2. ASSUME NEW c \in Waiting \cup performed \cup CallsIn(in) PROVE c \in Nat /\ c <= call
    <3>1. CASE c \in Waiting \cup performed
      BY <3>1, <1>b DEF PendingInv, TypeInv, TypeOK, ServerTypeOK, Calls
    <3>2. CASE c \in CallsIn(in)
      <4>1. PICK a \in Items(in) : c = a.call
        BY <3>2 DEF CallsIn
      <4>2. a \in Answer
        BY <1>a, <4>1, ItemsType
      <4> QED BY <4>1, <4>2 DEF PendingInv, TellsTruth, Answer, Calls
    <3> QED BY <2>2, <3>1, <3>2
  <2>3. call' \notin Waiting \cup performed \cup CallsIn(in)
    BY <2>1, <2>2, <1>a
  <2>4. \A a \in Items(in) : TellsTruth(a)'
    <3> SUFFICES ASSUME NEW a \in Items(in) PROVE TellsTruth(a)'
      OBVIOUS
    <3>1. TellsTruth(a) /\ a.call \in Nat
      BY <2>2 DEF PendingInv, CallsIn
    <3> QED BY <3>1, <2>1, <1>a DEF TellsTruth
  <2>5. \A c \in Waiting \cup performed : c <= call'
    BY <2>1, <2>2, <1>a
  <2> QED BY <2>1, <2>3, <2>4, <2>5 DEF PendingInv
<1>5. CASE ConnectOk
  <2>1. /\ Waiting' = Waiting /\ Items(in') = {} /\ CallsIn(out') = {} /\ Distinct(out)'
    BY <1>5, ItemsEmpty DEF ConnectOk, Waiting, Distinct
  <2> QED BY <1>5, <1>2, <2>1, PendingKept DEF ConnectOk
<1>6. CASE SendOk
  <2> DEFINE r == [seq |-> seq_id + 1, call |-> call]
  <2>1. r \in Request /\ r.call = call
    BY <1>6, <1>a DEF SendOk, Request
  <2>2. /\ call \notin Waiting \cup performed \cup CallsIn(in) /\ result[call] = "none"
        /\ CallsIn(out) \cap orphans = {} /\ Distinct(out)
    BY <1>6, <1>a DEF SendOk, PendingInv, PhaseInv, AbstractCall!InProgress
  <2>3. \/ out' = out
        \/ out' = Append(out, r)
    BY <1>6 DEF SendOk
  <2>4. /\ UNCHANGED <<in, orphans, performed, result, call>> /\ pc' = "recv"
    BY <1>6 DEF SendOk, serverVars
  <2>5. CallsIn(out') \subseteq CallsIn(out) \cup {call}
    <3>1. Items(out') \subseteq Items(out) \cup {r}
      <4>1. Items(Append(out, r)) = Items(out) \cup {r}
        BY <2>1, <1>a, ItemsAppend
      <4> HIDE DEF r
      <4> QED BY <4>1, <2>3
    <3> QED BY <3>1, <2>1 DEF CallsIn
  <2>6. Waiting' \subseteq Waiting \cup {call}
    BY <2>4, <2>5 DEF Waiting
  <2>7. Distinct(out)' /\ (CallsIn(out) \cap orphans = {})'
    <3>1. call \notin CallsIn(out) /\ call \notin orphans
      BY <2>2 DEF Waiting
    <3>2. Distinct(out)'
      BY <3>1, <2>1, <2>2, <2>3, <1>a, DistinctAppend
    <3> QED BY <3>1, <3>2, <2>2, <2>4, <2>5
  <2>8. \A c \in Waiting' : c <= call' /\ c \notin performed' /\ result'[c] \in {"none", "raised"}
    BY <2>2, <2>4, <2>6, <1>a DEF PendingInv
  <2>9. \A a \in Items(in) : TellsTruth(a)'
    <3> SUFFICES ASSUME NEW a \in Items(in) PROVE TellsTruth(a)'
      OBVIOUS
    <3>1. TellsTruth(a) /\ a.call # call
      BY <2>2 DEF PendingInv, CallsIn
    <3> QED BY <3>1, <2>4, <2>6 DEF TellsTruth
  <2> QED BY <2>4, <2>7, <2>8, <2>9 DEF PendingInv
<1>7. CASE ConnectFails \/ SendFails \/ RecvDesync \/ RecvFails \/ Disconnect
  BY <1>7, CloseKept DEF ConnectFails, SendFails, RecvDesync, RecvFails, Disconnect, MarkBroken,
                         Raise, EndCall, callVars
<1>8. CASE RecvHeader
  <2> DEFINE a == Head(in)
  <2>1. a \in Answer /\ TellsTruth(a) /\ a.call = call
    <3>1. a \in Items(in)
      BY <1>8, <1>1 DEF RecvHeader
    <3>2. a \in Answer
      BY <3>1, <1>a, ItemsType
    <3> QED BY <1>8, <3>1, <3>2 DEF RecvHeader, Desynced, SeqInv, PendingInv
  <2>2. /\ UNCHANGED <<out, orphans, performed, call>> /\ Waiting' = Waiting
        /\ Items(in') \subseteq Items(in) /\ pc' \notin {"connect", "send"}
    BY <1>8, <1>1 DEF RecvHeader, serverVars, Answered, EndCall, Waiting
  <2>3. Distinct(out)' /\ (CallsIn(out) \cap orphans = {})'
    BY <2>2 DEF PendingInv, Distinct
  <2>5. CASE a.body
    <3>1. pc' = "body" /\ hdr' = a /\ result' = result
      BY <1>8, <2>5 DEF RecvHeader
    <3>2. TellsTruth(hdr)'
      BY <3>1, <2>1, <2>2 DEF TellsTruth
    <3> QED BY <2>2, <2>3, <3>1, <3>2, <1>2, PendingKept
  <2>6. CASE ~a.body
    <3>1. Answered(a) /\ pc' = "idle"
      BY <1>8, <2>6 DEF RecvHeader, Answered, EndCall
    <3>2. \A c \in Waiting' : result'[c] \in {"none", "raised"}
      BY <3>1, <2>1, <2>2, <1>3
    <3> QED BY <2>2, <2>3, <3>1, <3>2, PendingKept
  <2> QED BY <2>5, <2>6
<1>9. CASE RecvBody
  <2>1. hdr \in Answer /\ TellsTruth(hdr) /\ hdr.call = call
    BY <1>9, <1>a DEF RecvBody, SeqInv, PendingInv
  <2>2. /\ UNCHANGED <<out, in, orphans, performed, call>> /\ Waiting' = Waiting /\ pc' = "idle"
        /\ Answered(hdr)
    BY <1>9 DEF RecvBody, Answered, EndCall, streamVars, serverVars, Waiting
  <2>3. Distinct(out)' /\ (CallsIn(out) \cap orphans = {})'
    BY <2>2 DEF PendingInv, Distinct
  <2>4. \A c \in Waiting' : result'[c] \in {"none", "raised"}
    BY <2>1, <2>2, <1>3
  <2> QED BY <2>2, <2>3, <2>4, PendingKept
<1>10. CASE Interrupt
  <2>1. pc' = "idle" /\ call' = call /\ result' = [result EXCEPT ![call] = "raised"]
    BY <1>10 DEF Interrupt, Raise, EndCall
  <2>2. \A c \in Calls : result'[c] \in {result[c], "raised"}
    BY <2>1, <1>a
  <2>3. CASE InterruptConnect
    <3>1. CASE CloseStream
      BY <2>1, <3>1, CloseKept
    <3>2. CASE ~CloseStream
      <4>1. /\ Waiting' = Waiting /\ Items(in') = {} /\ CallsIn(out') = {} /\ Distinct(out)'
            /\ performed' = performed
        BY <2>3, <3>2, ItemsEmpty DEF InterruptConnect, Waiting, Distinct
      <4>2. \A c \in Waiting' : result'[c] \in {"none", "raised"}
        BY <4>1, <2>2, <1>b, <1>2
      <4> QED BY <2>1, <4>1, <4>2, PendingKept
    <3> QED BY <3>1, <3>2
  <2>4. CASE InterruptSend
    <3> DEFINE r == [seq |-> seq_id + 1, call |-> call]
    <3>1. r \in Request /\ r.call = call
      BY <2>4, <1>a DEF InterruptSend, Request
    <3>2. /\ call \notin Waiting \cup performed \cup CallsIn(in) /\ call \in Calls
          /\ CallsIn(out) \cap orphans = {} /\ Distinct(out)
      BY <2>4, <1>a DEF InterruptSend, PendingInv
    <3>3. UNCHANGED <<in, performed>>
      BY <2>4 DEF InterruptSend, streamVars
    <3>4. Waiting' \subseteq Waiting \cup {call} /\ Distinct(out)' /\ (CallsIn(out) \cap orphans = {})'
      <4>1. CASE UNCHANGED <<streamVars, orphans>>
        BY <4>1, <3>2 DEF streamVars, Waiting, Distinct
      <4>2. CASE out' = Append(out, r) /\ orphans' = orphans
        <5>1. Items(Append(out, r)) = Items(out) \cup {r}
          BY <3>1, <1>a, ItemsAppend
        <5> HIDE DEF r
        <5>2. CallsIn(out') = CallsIn(out) \cup {call}
          BY <4>2, <5>1, <3>1 DEF CallsIn
        <5>3. Distinct(out)'
          BY <4>2, <3>1, <3>2, <1>a, DistinctAppend DEF Waiting
        <5> QED BY <4>2, <5>2, <5>3, <3>2 DEF Waiting
      <4>3. CASE out' = <<>> /\ orphans' \subseteq Waiting \cup {call}
        BY <4>3, ItemsEmpty DEF Waiting, Distinct
      <4>4. \/ UNCHANGED <<streamVars, orphans>>
            \/ out' = Append(out, r) /\ orphans' = orphans
            \/ out' = <<>> /\ orphans' \subseteq Waiting \cup {call}
        BY <2>4 DEF InterruptSend, Waiting
      <4> QED BY <4>1, <4>2, <4>3, <4>4
    <3>5. \A c \in Waiting' : c <= call' /\ c \notin performed' /\ result'[c] \in {"none", "raised"}
      <4> SUFFICES ASSUME NEW c \in Waiting'
                   PROVE  c <= call' /\ c \notin performed' /\ result'[c] \in {"none", "raised"}
        OBVIOUS
      <4>1. CASE c = call
        BY <4>1, <2>1, <3>2, <3>3, <1>a
      <4>2. CASE c \in Waiting
        BY <4>2, <2>1, <2>2, <3>3, <1>b DEF PendingInv
      <4> QED BY <4>1, <4>2, <3>4
    <3>6. \A a \in Items(in') : TellsTruth(a)'
      <4> SUFFICES ASSUME NEW a \in Items(in) PROVE TellsTruth(a)'
        BY <3>3
      <4>1. TellsTruth(a) /\ a.call # call
        BY <3>2 DEF PendingInv, CallsIn
      <4> QED BY <4>1, <2>1, <3>3, <3>4 DEF TellsTruth
    <3>7. \A c \in performed' : c <= call'
      BY <2>1, <3>3 DEF PendingInv
    <3> QED BY <2>1, <3>4, <3>5, <3>6, <3>7 DEF PendingInv
  <2>5. CASE InterruptRecv
    <3>1. Items(in') \subseteq Items(in) /\ UNCHANGED <<out, orphans, performed>> /\ Waiting' = Waiting
      BY <2>5, <1>1 DEF InterruptRecv, serverVars, Waiting
    <3>2. Distinct(out)' /\ (CallsIn(out) \cap orphans = {})'
      BY <3>1 DEF PendingInv, Distinct
    <3>3. \A c \in Waiting' : result'[c] \in {"none", "raised"}
      BY <3>1, <2>2, <1>b, <1>2
    <3> QED BY <2>1, <3>1, <3>2, <3>3, PendingKept
  <2> QED BY <1>10, <2>3, <2>4, <2>5 DEF Interrupt
<1>11. ASSUME NEW kind \in {"ok", "error"}, NEW body \in BOOLEAN, Serve(kind, body)
       PROVE  PendingInv'
  <2> DEFINE r == Head(out)
             a == [seq |-> r.seq, call |-> r.call, kind |-> kind, body |-> body]
  <2>a. out # <<>>
    BY <1>11 DEF Serve
  <2>1. r \in Items(out) /\ r \in Request
    BY <2>a, <1>a, <1>1, ItemsType
  <2>2. a \in Answer /\ a.call = r.call /\ a.kind = kind
    BY <2>1 DEF Answer, Request
  <2>3. Items(in') = Items(in) \cup {a}
    BY <1>11, <1>a, <2>2, ItemsAppend DEF Serve
  <2>4. /\ out' = Tail(out) /\ UNCHANGED <<orphans, result, call, pc, hdr>>
        /\ performed' = IF kind = "ok" THEN performed \cup {r.call} ELSE performed
    BY <1>11 DEF Serve, callVars
  <2>5. Distinct(out)' /\ r.call \notin CallsIn(out')
    BY <2>4, <2>a, <1>a, DistinctTail DEF PendingInv
  <2>6. CallsIn(out') \subseteq CallsIn(out) /\ r.call \in CallsIn(out)
    BY <2>a, <2>1, <2>4, <1>1 DEF CallsIn
  <2>7. (CallsIn(out) \cap orphans = {})'
    BY <2>4, <2>6 DEF PendingInv
  <2>8. Waiting' \subseteq Waiting \ {r.call} /\ r.call \in Waiting
    BY <2>4, <2>5, <2>6 DEF Waiting, PendingInv
  <2>9. r.call <= call /\ r.call \notin performed
    BY <2>8 DEF PendingInv
  <2>10. \A c \in Waiting' : c <= call' /\ c \notin performed' /\ result'[c] \in {"none", "raised"}
    BY <2>4, <2>8 DEF PendingInv
  <2>11. \A c \in performed' : c <= call'
    BY <2>4, <2>9 DEF PendingInv
  <2>12. pc' \in {"connect", "send"} => call' \notin Waiting' \cup performed' \cup CallsIn(in')
    <3> SUFFICES ASSUME pc \in {"connect", "send"}
                 PROVE  call \notin Waiting' \cup performed' \cup CallsIn(in')
      BY <2>4
    <3>1. call \notin Waiting \cup performed \cup CallsIn(in)
      BY DEF PendingInv
    <3>2. call # r.call
      BY <3>1, <2>8
    <3>3. CallsIn(in') = CallsIn(in) \cup {r.call}
      BY <2>2, <2>3 DEF CallsIn
    <3> QED BY <3>1, <3>2, <3>3, <2>4, <2>8
  <2>13. ASSUME NEW b, TellsTruth(b) PROVE TellsTruth(b)'
    BY <2>4, <2>8, <2>13 DEF TellsTruth
  <2>14. ASSUME NEW b, b = a PROVE TellsTruth(b)'
    <3>1. b.call = r.call /\ b.kind = kind
      BY <2>2, <2>14
    <3>2. b.call <= call' /\ (b.kind = "ok" => b.call \in performed')
      BY <3>1, <2>4, <2>9
    <3>3. b.kind = "error" => b.call \notin performed' \cup Waiting'
      BY <3>1, <2>4, <2>8, <2>9
    <3> QED BY <3>2, <3>3 DEF TellsTruth
  <2>15. \A b \in Items(in') : TellsTruth(b)'
    <3> SUFFICES ASSUME NEW b \in Items(in') PROVE TellsTruth(b)'
      OBVIOUS
    <3>1. CASE b \in Items(in)
      BY <3>1, <2>13 DEF PendingInv
    <3>2. CASE b = a
      BY <3>2, <2>14
    <3> QED BY <3>1, <3>2, <2>3
  <2>16. pc' = "body" => TellsTruth(hdr)'
    <3> SUFFICES ASSUME pc = "body" PROVE TellsTruth(hdr)'
      BY <2>4
    <3>1. TellsTruth(hdr)
      BY DEF PendingInv
    <3> QED BY <3>1, <2>4, <2>8 DEF TellsTruth
  <2> QED BY <2>5, <2>7, <2>10, <2>11, <2>12, <2>15, <2>16 DEF PendingInv
<1>12. ASSUME NEW c \in orphans, ServeOrphan(c) PROVE PendingInv'
  <2>1. /\ orphans' = orphans \ {c} /\ performed' = performed \cup {c}
        /\ UNCHANGED <<out, in, result, call, pc, hdr>>
    BY <1>12 DEF ServeOrphan, streamVars, callVars
  <2>2. c \in Waiting /\ c \notin CallsIn(out) /\ c <= call
    BY <1>12 DEF Waiting, PendingInv
  <2>3. Waiting' = Waiting \ {c}
    BY <2>1, <2>2 DEF Waiting
  <2>4. ASSUME NEW b, TellsTruth(b) PROVE TellsTruth(b)'
    BY <2>1, <2>2, <2>3, <2>4 DEF TellsTruth
  <2>5. pc' = "body" => TellsTruth(hdr)'
    <3> SUFFICES ASSUME pc = "body" PROVE TellsTruth(hdr)'
      BY <2>1
    <3>1. TellsTruth(hdr)
      BY DEF PendingInv
    <3> QED BY <3>1, <2>1, <2>2, <2>3 DEF TellsTruth
  <2>6. Distinct(out)' /\ (CallsIn(out) \cap orphans = {})'
    BY <2>1 DEF PendingInv, Distinct
  <2>7. /\ \A d \in Waiting' : d <= call' /\ d \notin performed' /\ result'[d] \in {"none", "raised"}
        /\ \A d \in performed' : d <= call'
        /\ pc' \in {"connect", "send"} => call' \notin Waiting' \cup performed' \cup CallsIn(in')
    BY <2>1, <2>2, <2>3 DEF PendingInv
  <2>8. \A b \in Items(in') : TellsTruth(b)'
    BY <2>1, <2>4 DEF PendingInv
  <2> QED BY <2>5, <2>6, <2>7, <2>8 DEF PendingInv
<1>13. CASE Cut \/ ServerCrash
  <2>1. /\ UNCHANGED <<performed, call, result, pc, hdr>> /\ out' = <<>>
        /\ Waiting' \subseteq Waiting /\ Items(in') \subseteq Items(in)
    BY <1>13, ItemsEmpty DEF Cut, ServerCrash, callVars, Waiting
  <2>2. Distinct(out)' /\ (CallsIn(out) \cap orphans = {})'
    BY <2>1, ItemsEmpty DEF Distinct
  <2>3. pc' = "body" => TellsTruth(hdr)'
    BY <2>1 DEF PendingInv, TellsTruth
  <2> QED BY <2>1, <2>2, <2>3, <1>2, PendingKept
<1>14. CASE ServerStart \/ UNCHANGED vars
  <2>1. UNCHANGED <<performed, call, result, pc, hdr, out, in, orphans>> /\ Waiting' = Waiting
    BY <1>14 DEF ServerStart, vars, streamVars, callVars, serverVars, Waiting
  <2>2. Distinct(out)' /\ (CallsIn(out) \cap orphans = {})'
    BY <2>1 DEF PendingInv, Distinct
  <2>3. pc' = "body" => TellsTruth(hdr)'
    BY <2>1 DEF PendingInv, TellsTruth
  <2> QED BY <2>1, <2>2, <2>3, <1>2, PendingKept
<1> QED
  BY <1>4, <1>5, <1>6, <1>7, <1>8, <1>9, <1>10, <1>11, <1>12, <1>13, <1>14
     DEF Next, ClientStep, Environment

(* Every step of the client, the server and the network is a step of       *)
(* RpcCall or leaves the calls as they were.                               *)
LEMMA CallStep ==
  TypeInv /\ SeqInv /\ PhaseInv /\ PendingInv /\ [Next]_vars
    => [AbstractCall!Next]_(AbstractCall!callVars)
<1> SUFFICES ASSUME TypeInv, SeqInv, PhaseInv, PendingInv, [Next]_vars
             PROVE  AbstractCall!Next \/ UNCHANGED <<call, result, performed>>
  BY DEF AbstractCall!callVars
<1> USE DEF AbstractCall!Next
<1>a. /\ call \in 0 .. MaxCalls /\ MaxCalls \in Nat
      /\ out \in Seq(Request) /\ in \in Seq(Answer)
      /\ pc = "body" => hdr \in Answer
      /\ pc # "idle" => AbstractCall!InProgress
  BY BoundsAssumption
     DEF TypeInv, TypeOK, CallTypeOK, StreamTypeOK, HeaderKept, PhaseInv
<1>1. ASSUME Raise, performed' = performed, pc # "idle" PROVE AbstractCall!Raise
  BY <1>a, <1>1 DEF Raise, EndCall, AbstractCall!Raise, AbstractCall!End
<1>2. ASSUME NEW a \in Answer, TellsTruth(a), a.call = call, Answered(a), pc # "idle",
             performed' = performed
      PROVE  AbstractCall!Return \/ AbstractCall!Refuse
  <2>1. a.kind = "ok" \/ a.kind = "error"
    BY <1>2 DEF Answer
  <2> QED BY <1>a, <1>2, <2>1 DEF TellsTruth, Answered, EndCall, AbstractCall!Return,
                              AbstractCall!Refuse, AbstractCall!End
<1>3. ASSUME NEW c \in Waiting, performed' = performed \cup {c}, UNCHANGED <<call, result>>
      PROVE  \E d \in AbstractCall!Calls : AbstractCall!Perform(d)
  <2>1. c \in Calls /\ c <= call /\ c \notin performed /\ result[c] \in {"none", "raised"}
    BY <1>a, CallsInType
       DEF Waiting, PendingInv, TypeInv, TypeOK, ServerTypeOK
  <2>2. c \in AbstractCall!Calls /\ AbstractCall!Perform(c)
    BY <1>3, <2>1 DEF AbstractCall!Perform, AbstractCall!Calls, Calls
  <2> QED BY <2>2
<1>4. CASE Begin
  BY <1>4 DEF Begin, AbstractCall!Begin, PhaseInv, serverVars
<1>5. CASE ConnectFails \/ SendFails \/ RecvDesync \/ RecvFails \/ Interrupt
  BY <1>5, <1>1 DEF ConnectFails, SendFails, RecvDesync, RecvFails, Interrupt,
                    InterruptConnect, InterruptSend, InterruptRecv, MarkBroken, CloseStream,
                    serverVars
<1>6. CASE RecvHeader
  <2> DEFINE a == Head(in)
  <2>1. a \in Items(in)
    BY <1>6, <1>a, ItemsTail DEF RecvHeader
  <2>2. a \in Answer /\ TellsTruth(a) /\ a.call = call
    <3>1. a \in Answer
      BY <2>1, <1>a, ItemsType
    <3> QED BY <1>6, <2>1, <3>1 DEF RecvHeader, Desynced, SeqInv, PendingInv
  <2>3. performed' = performed /\ pc # "idle"
    BY <1>6 DEF RecvHeader, serverVars
  <2>4. UNCHANGED <<call, result>> \/ Answered(a)
    BY <1>6 DEF RecvHeader
  <2> QED BY <1>2, <2>2, <2>3, <2>4
<1>7. CASE RecvBody
  <2>1. hdr \in Answer /\ TellsTruth(hdr) /\ hdr.call = call
    BY <1>7, <1>a DEF RecvBody, SeqInv, PendingInv
  <2> QED BY <1>7, <1>2, <2>1 DEF RecvBody, serverVars
<1>8. ASSUME NEW kind \in {"ok", "error"}, NEW body \in BOOLEAN, Serve(kind, body)
      PROVE  AbstractCall!Next \/ UNCHANGED <<call, result, performed>>
  <2>1. Head(out).call \in Waiting
    BY <1>8, <1>a, ItemsTail DEF Serve, Waiting, CallsIn
  <2>2. performed' = performed \/ performed' = performed \cup {Head(out).call}
    BY <1>8 DEF Serve
  <2>3. UNCHANGED <<call, result>>
    BY <1>8 DEF Serve, callVars
  <2> QED BY <1>3, <2>1, <2>2, <2>3
<1>9. ASSUME NEW c \in orphans, ServeOrphan(c) PROVE AbstractCall!Next
  BY <1>9, <1>3 DEF ServeOrphan, callVars, Waiting
<1>10. CASE ConnectOk \/ SendOk \/ Disconnect \/ Cut \/ ServerCrash \/ ServerStart
            \/ UNCHANGED vars
  BY <1>10 DEF ConnectOk, SendOk, Disconnect, Cut, ServerCrash, ServerStart, CloseStream,
               callVars, serverVars, vars
<1> QED
  BY <1>4, <1>5, <1>6, <1>7, <1>8, <1>9, <1>10 DEF Next, ClientStep, Environment

(* SpineTritonRPCClient implements one call at a time, each performed at   *)
(* most once: returned calls were performed, refused ones never are.       *)
THEOREM ImplementsRpcCall == Spec => CallSpec
<1>1. Init => SeqInv /\ PhaseInv /\ PendingInv /\ AbstractCall!Init
  <2> SUFFICES ASSUME Init PROVE SeqInv /\ PhaseInv /\ PendingInv /\ AbstractCall!Init
    OBVIOUS
  <2>1. Items(in) = {} /\ Items(out) = {} /\ Waiting = {} /\ Distinct(out)
    BY ItemsEmpty DEF Init, Waiting, Distinct
  <2>2. SeqInv /\ PendingInv
    BY <2>1 DEF Init, SeqInv, PendingInv, Waiting, CallsIn
  <2>3. PhaseInv /\ AbstractCall!Init
    BY DEF Init, PhaseInv, AbstractCall!InProgress, AbstractCall!Init, AbstractCall!Calls, Calls
  <2> QED BY <2>2, <2>3
<1>2. QED
  BY <1>1, TypeInvariant, SeqStep, PhaseStep, PendingStep, CallStep, PTL
     DEF Spec, CallSpec, AbstractCall!Spec
=============================================================================
