---------------------------- MODULE StoresProofs ----------------------------
(***************************************************************************)
(* Theorems about the stores, for any number of clients, processes and     *)
(* calls and any mix of operations. Five invariants, each on tables of its *)
(* own; a step on another table is quiet: it only moves on calls that an   *)
(* invariant does not speak of. Last, the bounds of the type invariant.    *)
(***************************************************************************)
EXTENDS Database, SequenceTheorems, FiniteSetTheorems, TLAPS

Choice == [row : Nat, asOf : Nat]
Arg == Session \cup RunCopy \cup Choice \cup Nat
PC == {"queued", "counted", "done"}
Result == {"none", "ok", "conflict", "error"}
Calls == [client : Client, op : Ops, pc : PC, result : Result, arg : Arg]

ArgTyped(op, arg) ==
  /\ op = "update" => arg \in Session
  /\ op = "update_run" => arg \in RunCopy
  /\ op = "decide" => arg \in Choice
  /\ op \notin {"update", "update_run", "decide"} => arg \in Nat

CallsTyped ==
  calls \in Seq(Calls) /\ \A i \in DOMAIN calls : ArgTyped(calls[i].op, calls[i].arg)

(* What a step that does no op leaves of the calls of op.                  *)
Quiet(op) ==
  /\ DOMAIN calls \subseteq DOMAIN calls'
  /\ \A j \in DOMAIN calls :
       /\ calls'[j].op = calls[j].op /\ calls'[j].arg = calls[j].arg
       /\ calls[j].op = op /\ calls'[j].result = "ok" => calls[j].result = "ok"
  /\ \A j \in DOMAIN calls' \ DOMAIN calls : calls'[j].op # op

(* A connection is held by the call that is between two statements, and by *)
(* no other of its process.                                                *)
LockInv ==
  /\ lock \in [Process -> Nat]
  /\ \A i \in DOMAIN calls : calls[i].pc = "counted" => calls[i].op = "create" /\ lock[Conn(i)] = i

(* A step in which nobody comes to be between two statements.              *)
Releases ==
  /\ lock' \in [Process -> Nat]
  /\ DOMAIN calls \subseteq DOMAIN calls'
  /\ \A j \in DOMAIN calls :
       /\ calls'[j].op = calls[j].op /\ calls'[j].client = calls[j].client
       /\ calls'[j].pc = "counted" => calls[j].pc = "counted" /\ lock'[Conn(j)] = lock[Conn(j)]
  /\ \A j \in DOMAIN calls' \ DOMAIN calls : calls'[j].pc # "counted"

-----------------------------------------------------------------------------
(* Calls.                                                                  *)

LEMMA CallTyped ==
  ASSUME CallsTyped, NEW i \in DOMAIN calls
  PROVE  /\ i \in 1..Len(calls) /\ i \in Nat /\ calls[i] \in Calls
         /\ DOMAIN calls = 1..Len(calls) /\ Len(calls) \in Nat
         /\ Owner(i) \in Client /\ Conn(i) \in Process
<1>1. calls \in Seq(Calls)
  BY DEF CallsTyped
<1>2. DOMAIN calls = 1..Len(calls) /\ Len(calls) \in Nat
  BY <1>1, LenProperties
<1>3. calls[i] \in Calls
  BY <1>1, <1>2, ElementOfSeq
<1> QED BY <1>2, <1>3, InteractAssumption DEF Calls, Owner, Conn

LEMMA SendAdds ==
  ASSUME CallsTyped, NEW c \in Client, NEW op \in Ops, NEW arg \in Arg,
         ArgTyped(op, arg), Send(c, op, arg)
  PROVE  /\ CallsTyped'
         /\ Len(calls) \in Nat /\ DOMAIN calls = 1..Len(calls)
         /\ DOMAIN calls' = 1..(Len(calls) + 1)
         /\ \A j \in DOMAIN calls : calls'[j] = calls[j]
         /\ calls'[Len(calls) + 1] = [client |-> c, op |-> op, pc |-> "queued", result |-> "none", arg |-> arg]
         /\ lock' = lock
<1> DEFINE call == [client |-> c, op |-> op, pc |-> "queued", result |-> "none", arg |-> arg]
<1>1. call \in Calls
  BY DEF Calls, PC, Result
<1>2. calls' = Append(calls, call) /\ lock' = lock
  BY DEF Send
<1>3. ArgTyped(call.op, call.arg)
  OBVIOUS
<1> HIDE DEF call
<1>4. /\ calls' \in Seq(Calls) /\ Len(calls') = Len(calls) + 1
      /\ \A j \in 1..Len(calls) : calls'[j] = calls[j]
      /\ calls'[Len(calls) + 1] = call
  BY <1>1, <1>2, AppendProperties DEF CallsTyped
<1>5. Len(calls) \in Nat /\ DOMAIN calls = 1..Len(calls) /\ DOMAIN calls' = 1..(Len(calls) + 1)
  BY <1>4, LenProperties DEF CallsTyped
<1>6. ASSUME NEW j \in DOMAIN calls' PROVE ArgTyped(calls'[j].op, calls'[j].arg)
  <2>1. CASE j = Len(calls) + 1
    BY <1>3, <1>4, <2>1
  <2>2. CASE j \in DOMAIN calls
    BY <1>4, <1>5, <2>2 DEF CallsTyped
  <2> QED BY <1>5, <2>1, <2>2
<1> QED BY <1>2, <1>4, <1>5, <1>6 DEF CallsTyped, call

LEMMA SendQuiet ==
  ASSUME CallsTyped, NEW c \in Client, NEW op \in Ops, NEW arg \in Arg,
         ArgTyped(op, arg), Send(c, op, arg), NEW other, other # op
  PROVE  CallsTyped' /\ Quiet(other)
<1> DEFINE n == Len(calls) + 1
           call == [client |-> c, op |-> op, pc |-> "queued", result |-> "none", arg |-> arg]
<1>1. /\ CallsTyped' /\ Len(calls) \in Nat /\ lock' = lock
      /\ DOMAIN calls = 1..Len(calls) /\ DOMAIN calls' = 1..n
      /\ \A j \in DOMAIN calls : calls'[j] = calls[j]
      /\ calls'[n] = call
  BY SendAdds, Zenon
<1>2. call.op = op /\ call.pc # "counted"
  OBVIOUS
<1>3. DOMAIN calls \subseteq DOMAIN calls' /\ DOMAIN calls' \ DOMAIN calls = {n}
  BY <1>1
<1> HIDE DEF n, call
<1> QED BY <1>1, <1>2, <1>3, Zenon DEF Quiet

LEMMA SendReleases ==
  ASSUME CallsTyped, LockInv, NEW c \in Client, NEW op \in Ops, NEW arg \in Arg,
         ArgTyped(op, arg), Send(c, op, arg)
  PROVE  Releases
<1> DEFINE n == Len(calls) + 1
           call == [client |-> c, op |-> op, pc |-> "queued", result |-> "none", arg |-> arg]
<1>1. /\ CallsTyped' /\ Len(calls) \in Nat /\ lock' = lock
      /\ DOMAIN calls = 1..Len(calls) /\ DOMAIN calls' = 1..n
      /\ \A j \in DOMAIN calls : calls'[j] = calls[j]
      /\ calls'[n] = call
  BY SendAdds, Zenon
<1>2. call.op = op /\ call.pc # "counted"
  OBVIOUS
<1>3. DOMAIN calls \subseteq DOMAIN calls' /\ DOMAIN calls' \ DOMAIN calls = {n}
  BY <1>1
<1> HIDE DEF n, call
<1> QED BY <1>1, <1>2, <1>3, Zenon DEF Releases, LockInv

(* A change of one call that keeps its client, operation and argument.     *)
Moves(i, pc, result) == calls' = [calls EXCEPT ![i].pc = pc, ![i].result = result]

LEMMA Progress ==
  ASSUME CallsTyped, NEW i \in DOMAIN calls, NEW pc \in PC, NEW result \in Result,
         Moves(i, pc, result)
  PROVE  /\ CallsTyped' /\ DOMAIN calls' = DOMAIN calls
         /\ \A j \in DOMAIN calls :
              /\ calls'[j].client = calls[j].client /\ calls'[j].op = calls[j].op
              /\ calls'[j].arg = calls[j].arg
              /\ j # i => calls'[j] = calls[j]
         /\ calls'[i].pc = pc /\ calls'[i].result = result
<1> DEFINE e == [[calls[i] EXCEPT !.pc = pc] EXCEPT !.result = result]
<1>1. i \in 1..Len(calls) /\ DOMAIN calls = 1..Len(calls) /\ calls[i] \in Calls
  BY CallTyped
<1>2. /\ e \in Calls /\ e.client = calls[i].client /\ e.op = calls[i].op /\ e.arg = calls[i].arg
      /\ e.pc = pc /\ e.result = result
  BY <1>1 DEF Calls
<1>3. calls' = [calls EXCEPT ![i] = e]
  BY <1>1, LenProperties DEF CallsTyped, Moves
<1>4. /\ calls' \in Seq(Calls) /\ Len(calls') = Len(calls)
      /\ \A j \in 1..Len(calls) : calls'[j] = IF j = i THEN e ELSE calls[j]
  <2>1. calls \in Seq(Calls)
    BY DEF CallsTyped
  <2> HIDE DEF e
  <2>2. /\ [calls EXCEPT ![i] = e] \in Seq(Calls)
        /\ Len([calls EXCEPT ![i] = e]) = Len(calls)
        /\ \A j \in 1..Len(calls) : [calls EXCEPT ![i] = e][j] = IF j = i THEN e ELSE calls[j]
    BY <1>1, <1>2, <2>1, ExceptSeq
  <2> QED BY <1>3, <2>2
<1>5. DOMAIN calls' = DOMAIN calls
  BY <1>1, <1>4, LenProperties
<1> HIDE DEF e
<1>6. \A j \in DOMAIN calls :
        /\ calls'[j].client = calls[j].client /\ calls'[j].op = calls[j].op
        /\ calls'[j].arg = calls[j].arg
        /\ j # i => calls'[j] = calls[j]
  BY <1>1, <1>2, <1>4
<1>7. \A j \in DOMAIN calls' : ArgTyped(calls'[j].op, calls'[j].arg)
  BY <1>5, <1>6 DEF CallsTyped
<1>8. CallsTyped'
  BY <1>4, <1>7 DEF CallsTyped
<1>9. calls'[i].pc = pc /\ calls'[i].result = result
  BY <1>1, <1>2, <1>4
<1> QED BY <1>5, <1>6, <1>8, <1>9, Zenon

LEMMA EndProgress ==
  ASSUME CallsTyped, NEW i \in DOMAIN calls, NEW result \in Result, End(i, result)
  PROVE  /\ CallsTyped' /\ DOMAIN calls' = DOMAIN calls
         /\ \A j \in DOMAIN calls :
              /\ calls'[j].client = calls[j].client /\ calls'[j].op = calls[j].op
              /\ calls'[j].arg = calls[j].arg
              /\ j # i => calls'[j] = calls[j]
         /\ calls'[i].pc = "done" /\ calls'[i].result = result
<1>1. Moves(i, "done", result) /\ "done" \in PC
  BY DEF End, PC, Moves
<1> QED BY <1>1, Progress, Zenon

LEMMA EndQuiet ==
  ASSUME CallsTyped, NEW i \in DOMAIN calls, NEW result \in Result, End(i, result),
         NEW op, calls[i].op # op \/ result # "ok"
  PROVE  CallsTyped' /\ Quiet(op)
BY EndProgress DEF Quiet

LEMMA EndReleases ==
  ASSUME CallsTyped, LockInv, NEW i \in DOMAIN calls, NEW result \in Result, End(i, result),
         lock' = lock
  PROVE  Releases
BY EndProgress DEF Releases, LockInv

LEMMA StillQuiet ==
  ASSUME UNCHANGED calls, NEW op
  PROVE  Quiet(op) /\ (CallsTyped => CallsTyped')
BY DEF Quiet, CallsTyped

-----------------------------------------------------------------------------
(* Types, as far as the arguments of calls need them.                      *)

IsReader(r) ==
  /\ r = [offset |-> r.offset, got |-> r.got, due |-> r.due, done |-> r.done]
  /\ r.offset \in Nat

SessionTyped == session \in Session /\ copy \in [Client -> Session]
RunTyped == runs \in Seq([state : RunState, by : Nat]) /\ runCopy \in [Client -> RunCopy]
MessageTyped ==
  /\ messages \in Seq(Nat) /\ composed \in Seq([at : Nat, after : SUBSET Nat])
  /\ draft \in [Client -> Nat]
Approval == [action : Arg, status : {"pending", "decided"}]
ApprovalTyped ==
  /\ approvals \in Seq(Approval)
  /\ held \in [Client -> Choice] /\ decisions \in Seq(Choice)
PageTyped ==
  /\ updated \in Seq(Nat)
  /\ DOMAIN reading = Client /\ \A c \in Client : IsReader(reading[c])

Typed ==
  /\ CallsTyped /\ LockInv /\ now \in Nat
  /\ SessionTyped /\ RunTyped /\ MessageTyped /\ ApprovalTyped /\ PageTyped

-----------------------------------------------------------------------------
(* What the steps on each table are to the others.                         *)

NumberOps == Ops \ {"update", "update_run", "decide"}

LEMMA NumberSent ==
  ASSUME Typed, NEW c \in Client, NEW op \in NumberOps, NEW n \in Nat, Send(c, op, n)
  PROVE  CallsTyped' /\ Releases /\ Quiet("update") /\ Quiet("decide")
<1>1. n \in Arg /\ op \in Ops /\ "update" # op /\ "decide" # op /\ ArgTyped(op, n)
  BY DEF Arg, ArgTyped, NumberOps
<1>2. CallsTyped' /\ Quiet("update") /\ Quiet("decide")
  BY <1>1, SendQuiet DEF Typed
<1> QED BY <1>1, <1>2, SendReleases DEF Typed

LEMMA SessionStepShape ==
  ASSUME Typed, SessionStep
  PROVE  CallsTyped' /\ Releases /\ Quiet("decide") /\ SessionTyped'
<1> USE DEF Typed
<1>1. ASSUME NEW c \in Client, CallGet(c)
      PROVE  CallsTyped' /\ Releases /\ Quiet("decide") /\ SessionTyped'
  <2>0. "get" \in Ops /\ "decide" # "get"
    BY DEF Ops
  <2>1. Send(c, "get", 0) /\ 0 \in Arg /\ ArgTyped("get", 0) /\ UNCHANGED <<session, copy>>
    BY <1>1 DEF CallGet, sessionVars, Arg, ArgTyped
  <2>2. CallsTyped' /\ Quiet("decide")
    BY <2>0, <2>1, SendQuiet, Zenon
  <2>3. Releases
    BY <2>0, <2>1, SendReleases, Zenon
  <2> QED BY <2>1, <2>2, <2>3 DEF SessionTyped
<1>2. ASSUME NEW c \in Client, CallUpdate(c)
      PROVE  CallsTyped' /\ Releases /\ Quiet("decide") /\ SessionTyped'
  <2>0. "update" \in Ops /\ "decide" # "update"
    BY DEF Ops
  <2>1. copy' \in [Client -> Session] /\ session' = session
    BY <1>2 DEF CallUpdate, SessionTyped, Session
  <2>2. copy'[c] \in Arg /\ ArgTyped("update", copy'[c]) /\ Send(c, "update", copy'[c])
    BY <1>2, <2>1 DEF CallUpdate, Arg, ArgTyped
  <2>3. CallsTyped' /\ Quiet("decide")
    BY <2>0, <2>2, SendQuiet, Zenon
  <2>4. Releases
    BY <2>0, <2>2, SendReleases, Zenon
  <2> QED BY <2>1, <2>3, <2>4 DEF SessionTyped
<1>3. ASSUME NEW i \in DOMAIN calls, Get(i) \/ Update(i)
      PROVE  CallsTyped' /\ Releases /\ Quiet("decide") /\ SessionTyped'
  <2>1. PICK r \in Result : End(i, r) /\ lock' = lock /\ calls[i].op # "decide"
    BY <1>3 DEF Get, Update, May, Result
  <2>2. CallsTyped' /\ Quiet("decide")
    BY <2>1, EndQuiet
  <2>3. Releases
    BY <2>1, EndReleases
  <2>4. SessionTyped'
    <3>1. CASE Get(i)
      BY <3>1 DEF Get, SessionTyped
    <3>2. CASE Update(i)
      <4>1. calls[i].arg \in Session
        BY <3>2 DEF Update, May, CallsTyped, ArgTyped
      <4> QED BY <3>2, <4>1 DEF Update, Written, SessionTyped, Session
    <3> QED BY <1>3, <3>1, <3>2
  <2> QED BY <2>2, <2>3, <2>4
<1> QED BY <1>1, <1>2, <1>3 DEF SessionStep

LEMMA MessageStepShape ==
  ASSUME Typed, MessageStep
  PROVE  CallsTyped' /\ Releases /\ Quiet("update") /\ Quiet("decide") /\ MessageTyped'
<1> USE DEF Typed
<1>1. "append" \in NumberOps /\ "messages" \in NumberOps /\ 0 \in Nat
  BY DEF NumberOps, Ops
<1>2. ASSUME NEW c \in Client, CallAppend(c)
      PROVE  CallsTyped' /\ Releases /\ Quiet("update") /\ Quiet("decide") /\ MessageTyped'
  <2>1. CASE UNCHANGED messageVars /\ Send(c, "append", draft[c])
    <3>1. draft[c] \in Nat /\ MessageTyped'
      BY <2>1 DEF MessageTyped, messageVars
    <3> QED BY <1>1, <2>1, <3>1, NumberSent, Zenon
  <2>2. CASE /\ composed' = Append(composed, [at |-> now, after |-> Range(messages)])
             /\ draft' = [draft EXCEPT ![c] = Len(composed')]
             /\ Send(c, "append", draft'[c])
             /\ UNCHANGED <<messages, shown>>
    <3> DEFINE m == [at |-> now, after |-> Range(messages)]
    <3>1. m \in [at : Nat, after : SUBSET Nat]
      <4>1. DOMAIN messages = 1..Len(messages) /\ messages \in [1..Len(messages) -> Nat]
        BY LenProperties DEF MessageTyped
      <4>2. Range(messages) \subseteq Nat
        BY <4>1 DEF Range
      <4> QED BY <4>2
    <3> HIDE DEF m
    <3>2. composed' \in Seq([at : Nat, after : SUBSET Nat]) /\ Len(composed') \in Nat
      <4>1. composed' = Append(composed, m)
        BY <2>2 DEF m
      <4>2. composed' \in Seq([at : Nat, after : SUBSET Nat])
        BY <3>1, <4>1, AppendProperties DEF MessageTyped
      <4> QED BY <4>2, LenProperties
    <3>3. draft' \in [Client -> Nat] /\ draft'[c] \in Nat
      BY <2>2, <3>2 DEF MessageTyped
    <3>4. MessageTyped'
      BY <2>2, <3>2, <3>3 DEF MessageTyped
    <3> QED BY <1>1, <2>2, <3>3, <3>4, NumberSent, Zenon
  <2> QED BY <1>2, <2>1, <2>2 DEF CallAppend
<1>3. ASSUME NEW c \in Client, CallMessages(c)
      PROVE  CallsTyped' /\ Releases /\ Quiet("update") /\ Quiet("decide") /\ MessageTyped'
  <2>1. Send(c, "messages", 0) /\ MessageTyped'
    BY <1>3 DEF CallMessages, messageVars, MessageTyped
  <2> QED BY <1>1, <2>1, NumberSent, Zenon
<1>4. ASSUME NEW i \in DOMAIN calls, AppendMessage(i) \/ ListMessages(i)
      PROVE  CallsTyped' /\ Releases /\ Quiet("update") /\ Quiet("decide") /\ MessageTyped'
  <2>1. PICK r \in Result :
          End(i, r) /\ lock' = lock /\ calls[i].op # "update" /\ calls[i].op # "decide"
    BY <1>4 DEF AppendMessage, ListMessages, May, Result
  <2>2. CallsTyped' /\ Quiet("update") /\ Quiet("decide")
    BY <2>1, EndQuiet
  <2>3. Releases
    BY <2>1, EndReleases
  <2>4. MessageTyped'
    <3>1. CASE UNCHANGED messages
      BY <1>4, <3>1 DEF AppendMessage, ListMessages, MessageTyped
    <3>2. CASE AppendMessage(i) /\ messages' = Append(messages, calls[i].arg)
      <4>1. calls[i].arg \in Nat
        BY <3>2 DEF AppendMessage, May, CallsTyped, ArgTyped
      <4>2. messages' \in Seq(Nat)
        BY <3>2, <4>1, AppendProperties DEF MessageTyped
      <4> QED BY <3>2, <4>2 DEF AppendMessage, MessageTyped
    <3> QED BY <1>4, <3>1, <3>2 DEF AppendMessage, ListMessages
  <2> QED BY <2>2, <2>3, <2>4
<1> QED BY <1>2, <1>3, <1>4 DEF MessageStep

LEMMA ApprovalStepShape ==
  ASSUME Typed, ApprovalStep
  PROVE  CallsTyped' /\ Releases /\ Quiet("update") /\ ApprovalTyped'
<1> USE DEF Typed
<1>0. {"propose", "request", "pending"} \subseteq NumberOps /\ 0 \in Nat
  BY DEF NumberOps, Ops
<1>1. ASSUME NEW c \in Client, CallPropose(c) \/ CallPending(c) \/ CallRequest(c)
      PROVE  CallsTyped' /\ Releases /\ Quiet("update") /\ ApprovalTyped'
  <2>1. ApprovalTyped'
    BY <1>1 DEF CallPropose, CallPending, CallRequest, approvalVars, ApprovalTyped
  <2>2. \E op \in NumberOps, n \in Nat : Send(c, op, n)
    <3>1. CASE CallPropose(c) \/ CallPending(c)
      BY <1>0, <3>1 DEF CallPropose, CallPending
    <3>2. CASE CallRequest(c)
      <4>1. PICK a \in DOMAIN calls : Send(c, "request", a)
        BY <3>2 DEF CallRequest
      <4> QED BY <1>0, <4>1, CallTyped
    <3> QED BY <1>1, <3>1, <3>2
  <2> QED BY <2>1, <2>2, NumberSent
<1>2. ASSUME NEW c \in Client, CallDecide(c)
      PROVE  CallsTyped' /\ Releases /\ Quiet("update") /\ ApprovalTyped'
  <2>0. "decide" \in Ops /\ "update" # "decide"
    BY DEF Ops
  <2>1. Send(c, "decide", held[c]) /\ held[c] \in Arg /\ ArgTyped("decide", held[c])
    BY <1>2 DEF CallDecide, ApprovalTyped, Arg, ArgTyped
  <2>2. CallsTyped' /\ Quiet("update")
    BY <2>0, <2>1, SendQuiet, Zenon
  <2>3. Releases
    BY <2>0, <2>1, SendReleases, Zenon
  <2> QED BY <1>2, <2>2, <2>3 DEF CallDecide, approvalVars, ApprovalTyped
<1>3. ASSUME NEW i \in DOMAIN calls, Propose(i) \/ Request(i) \/ ListPending(i) \/ Decide(i)
      PROVE  CallsTyped' /\ Releases /\ Quiet("update") /\ ApprovalTyped'
  <2>1. PICK result \in Result : End(i, result) /\ lock' = lock /\ calls[i].op # "update"
    BY <1>3 DEF Propose, Request, ListPending, Decide, May, Result
  <2>2. CallsTyped' /\ Quiet("update")
    BY <2>1, EndQuiet
  <2>3. Releases
    BY <2>1, EndReleases
  <2>4. ApprovalTyped'
    <3>1. CASE UNCHANGED <<approvals, held, decisions>>
      BY <3>1 DEF ApprovalTyped
    <3>2. CASE Decide(i)
      <4>1. calls[i].arg \in Choice
        BY <3>2 DEF Decide, May, CallsTyped, ArgTyped
      <4>2. decisions' \in Seq(Choice)
        BY <3>2, <4>1, AppendProperties DEF Decide, ApprovalTyped
      <4>3. approvals' \in Seq(Approval)
        <5> DEFINE k == calls[i].arg.row
                   e == [approvals[k] EXCEPT !.status = "decided"]
        <5>1. approvals' = [approvals EXCEPT ![k] = e]
          BY <3>2 DEF Decide
        <5>2. PICK n \in Nat : approvals \in [1..n -> Approval]
          BY SeqDef DEF ApprovalTyped
        <5>3. k \in 1..n => e \in Approval
          BY <5>2 DEF Approval
        <5> HIDE DEF e, k
        <5>4. approvals' \in [1..n -> Approval]
          BY <5>1, <5>2, <5>3
        <5> QED BY <5>4, SeqDef
      <4> QED BY <3>2, <4>2, <4>3 DEF Decide, ApprovalTyped
    <3>3. ASSUME NEW r \in Pending, ListPending(i),
                 held' = [held EXCEPT ![Owner(i)] = [row |-> r, asOf |-> Len(decisions)]]
          PROVE  ApprovalTyped'
      <4>1. [row |-> r, asOf |-> Len(decisions)] \in Choice
        <5>1. r \in Nat
          BY LenProperties DEF Pending, ApprovalTyped
        <5>2. Len(decisions) \in Nat
          BY LenProperties DEF ApprovalTyped
        <5> QED BY <5>1, <5>2 DEF Choice
      <4> QED BY <3>3, <4>1 DEF ListPending, ApprovalTyped
    <3>4. CASE approvals' = Append(approvals, [action |-> calls[i].arg, status |-> "pending"])
               /\ UNCHANGED <<held, decisions>>
      <4>1. calls[i] \in Calls
        BY CallTyped
      <4>2. [action |-> calls[i].arg, status |-> "pending"] \in Approval
        BY <4>1 DEF Calls, Approval
      <4> QED BY <3>4, <4>2, AppendProperties DEF ApprovalTyped
    <3> QED BY <1>3, <3>1, <3>2, <3>3, <3>4 DEF Propose, Request, ListPending
  <2> QED BY <2>2, <2>3, <2>4
<1> QED BY <1>1, <1>2, <1>3 DEF ApprovalStep

LEMMA PageStepShape ==
  ASSUME Typed, PageStep
  PROVE  CallsTyped' /\ Releases /\ Quiet("update") /\ Quiet("decide") /\ PageTyped'
<1> USE DEF Typed
<1>0. {"open", "touch", "page"} \subseteq NumberOps
  BY DEF NumberOps, Ops
<1>1. ASSUME NEW c \in Client, CallOpen(c) \/ CallTouch(c) \/ CallPage(c)
      PROVE  CallsTyped' /\ Releases /\ Quiet("update") /\ Quiet("decide") /\ PageTyped'
  <2>1. PageTyped'
    BY <1>1 DEF CallOpen, CallTouch, CallPage, pageVars, PageTyped
  <2>2. \E op \in NumberOps, n \in Nat : Send(c, op, n)
    <3>1. CASE CallOpen(c)
      BY <1>0, <3>1 DEF CallOpen
    <3>2. CASE CallTouch(c)
      <4>1. PICK r \in DOMAIN updated : Send(c, "touch", r)
        BY <3>2 DEF CallTouch
      <4>2. r \in Nat
        BY LenProperties DEF PageTyped
      <4> QED BY <1>0, <4>1, <4>2
    <3>3. CASE CallPage(c)
      BY <1>0, <3>3 DEF CallPage, PageTyped, IsReader
    <3> QED BY <1>1, <3>1, <3>2, <3>3
  <2> QED BY <2>1, <2>2, NumberSent
<1>2. ASSUME NEW i \in DOMAIN calls, Open(i) \/ Touch(i) \/ ListSessions(i)
      PROVE  CallsTyped' /\ Releases /\ Quiet("update") /\ Quiet("decide") /\ PageTyped'
  <2>1. PICK r \in Result :
          End(i, r) /\ lock' = lock /\ calls[i].op # "update" /\ calls[i].op # "decide"
    BY <1>2 DEF Open, Touch, ListSessions, May, Result
  <2>2. CallsTyped' /\ Quiet("update") /\ Quiet("decide")
    BY <2>1, EndQuiet
  <2>3. Releases
    BY <2>1, EndReleases
  <2>4. calls[i].arg \in Nat
    BY <1>2 DEF Open, Touch, ListSessions, May, CallsTyped, ArgTyped
  <2>5. PageTyped'
    <3>1. CASE Open(i)
      <4>1. updated' \in Seq(Nat)
        BY <2>4, <3>1, AppendProperties DEF Open, PageTyped
      <4> QED BY <3>1, <4>1 DEF Open, PageTyped
    <3>2. CASE Touch(i)
      <4> DEFINE n == calls[i].arg
      <4>1. updated' \in Seq(Nat)
        <5>1. updated' = [updated EXCEPT ![n] = now] /\ updated \in Seq(Nat) /\ now \in Nat
          BY <3>2 DEF Touch, PageTyped
        <5>2. CASE n \in 1..Len(updated)
          BY <5>1, <5>2, ExceptSeq
        <5>3. CASE n \notin 1..Len(updated)
          <6>1. DOMAIN updated = 1..Len(updated) /\ updated \in [1..Len(updated) -> Nat]
            BY <5>1, LenProperties
          <6>2. updated' = updated
            BY <5>1, <5>3, <6>1
          <6> QED BY <5>1, <6>2
        <5> QED BY <5>2, <5>3
      <4>2. ASSUME NEW c \in Client PROVE IsReader(reading'[c])
        <5>1. /\ reading[c] = [offset |-> reading[c].offset, got |-> reading[c].got,
                               due |-> reading[c].due, done |-> reading[c].done]
              /\ reading[c].offset \in Nat
          BY DEF PageTyped, IsReader
        <5>2. reading'[c] = [reading[c] EXCEPT !.due = @ \ {n}]
          BY <3>2 DEF Touch
        <5>3. reading'[c] = [offset |-> reading[c].offset, got |-> reading[c].got,
                             due |-> reading[c].due \ {n}, done |-> reading[c].done]
          BY <5>1, <5>2, SMT
        <5> QED BY <5>1, <5>3 DEF IsReader
      <4> QED BY <3>2, <4>1, <4>2 DEF Touch, PageTyped
    <3>3. CASE ListSessions(i)
      <4>1. UNCHANGED reading \/ \E g, d, e :
               reading' = [reading EXCEPT ![Owner(i)] =
                 [offset |-> calls[i].arg + PageSize, got |-> g, due |-> d, done |-> e]]
        BY <3>3, Zenon DEF ListSessions
      <4>2. calls[i].arg + PageSize \in Nat
        BY <2>4, RecordsAssumption
      <4>3. DOMAIN reading' = Client /\ \A c \in Client : IsReader(reading'[c])
        BY <4>1, <4>2 DEF PageTyped, IsReader
      <4> QED BY <3>3, <4>3 DEF ListSessions, PageTyped
    <3> QED BY <1>2, <3>1, <3>2, <3>3
  <2> QED BY <2>2, <2>3, <2>5
<1> QED BY <1>1, <1>2 DEF PageStep

LEMMA ReleasesKeeps ==
  ASSUME CallsTyped, CallsTyped', LockInv, Releases
  PROVE  LockInv'
<1>1. ASSUME NEW i \in DOMAIN calls', calls'[i].pc = "counted"
      PROVE  calls'[i].op = "create" /\ lock'[Conn(i)'] = i
  <2>1. i \in DOMAIN calls
    BY <1>1 DEF Releases
  <2>2. Conn(i)' = Conn(i)
    BY <2>1 DEF Releases, Conn, Owner
  <2> QED BY <1>1, <2>1, <2>2 DEF Releases, LockInv
<1> QED BY <1>1 DEF Releases, LockInv

LEMMA RunTypes ==
  ASSUME Typed, NEW r \in DOMAIN runs
  PROVE  /\ runs[r] \in [state : RunState, by : Nat] /\ r \in Nat
         /\ DOMAIN runs = 1..Len(runs) /\ Len(runs) \in Nat
<1>1. runs \in Seq([state : RunState, by : Nat])
  BY DEF Typed, RunTyped
<1> DEFINE RunRow == [state : RunState, by : Nat]
<1> HIDE DEF RunRow
<1>2. runs \in Seq(RunRow)
  BY <1>1 DEF RunRow
<1>3. DOMAIN runs = 1..Len(runs) /\ Len(runs) \in Nat
  BY <1>2, LenProperties
<1>4. runs[r] \in RunRow
  BY <1>2, <1>3, ElementOfSeq
<1> QED BY <1>3, <1>4 DEF RunRow

(* What a step of the runs does to the table: at most one row is added,    *)
(* and the makers of the others stay.                                      *)
LEMMA InsertRuns ==
  ASSUME Typed, NEW i \in DOMAIN calls, Insert(i)
  PROVE  /\ calls[i].op = "create" /\ lock[Conn(i)] = i
         /\ RunTyped' /\ Len(runs) \in Nat
         /\ DOMAIN runs = 1..Len(runs) /\ DOMAIN runs' = 1..(Len(runs) + 1)
         /\ runs'[Len(runs) + 1] = [state |-> "active", by |-> i]
         /\ \A r \in DOMAIN runs : runs'[r] = runs[r]
<1> DEFINE row == [state |-> "active", by |-> i]
<1> USE DEF Typed
<1>1. calls[i].op = "create" /\ lock[Conn(i)] = i
  BY DEF Insert, LockInv
<1>2. row \in [state : RunState, by : Nat]
  BY CallTyped DEF RunState
<1>3. runs' = Append(runs, row) /\ runs \in Seq([state : RunState, by : Nat])
  BY DEF Insert, RunTyped
<1> HIDE DEF row
<1>4. /\ runs' \in Seq([state : RunState, by : Nat]) /\ Len(runs') = Len(runs) + 1
      /\ \A r \in 1..Len(runs) : runs'[r] = runs[r]
      /\ runs'[Len(runs) + 1] = row
  BY <1>2, <1>3, AppendProperties
<1>5. Len(runs) \in Nat /\ DOMAIN runs = 1..Len(runs) /\ DOMAIN runs' = 1..(Len(runs) + 1)
  BY <1>3, <1>4, LenProperties
<1>6. runCopy' \in [Client -> RunCopy]
  <2>1. [run |-> Len(runs'), state |-> "active"] \in RunCopy
    BY <1>4, <1>5 DEF RunCopy, RunState
  <2> QED BY <2>1 DEF Insert, RunTyped
<1> QED BY <1>1, <1>4, <1>5, <1>6 DEF RunTyped, row

LEMMA UpdateRunRuns ==
  ASSUME Typed, NEW i \in DOMAIN calls, UpdateRun(i)
  PROVE  /\ RunTyped' /\ DOMAIN runs' = DOMAIN runs
         /\ \A r \in DOMAIN runs :
              /\ runs'[r].by = runs[r].by
              /\ r # calls[i].arg.run => runs'[r] = runs[r]
         /\ \A r \in DOMAIN runs :
              runs'[r].state = "active" /\ r \notin revived' => runs[r].state = "active"
         /\ revived \subseteq revived'
<1> DEFINE k == calls[i].arg.run
           st == calls[i].arg.state
           RunRow == [state : RunState, by : Nat]
<1> USE DEF Typed
<1>1. calls[i].arg \in RunCopy
  BY DEF UpdateRun, May, CallsTyped, ArgTyped
<1>2. runs \in Seq(RunRow) /\ runs' = [runs EXCEPT ![k].state = st] /\ st \in RunState
  BY <1>1 DEF UpdateRun, RunTyped, RunCopy
<1>3. DOMAIN runs = 1..Len(runs) /\ Len(runs) \in Nat
  BY <1>2, LenProperties
<1>4. /\ runs' \in Seq(RunRow) /\ DOMAIN runs' = DOMAIN runs
      /\ \A r \in DOMAIN runs : runs'[r].by = runs[r].by /\ (r # k => runs'[r] = runs[r])
  <2>1. CASE k \in 1..Len(runs)
    <3> DEFINE e == [runs[k] EXCEPT !.state = st]
    <3>1. runs[k] \in RunRow
      BY <1>2, <2>1, ElementOfSeq
    <3>2. e \in RunRow /\ e.by = runs[k].by
      BY <1>2, <3>1
    <3>3. runs' = [runs EXCEPT ![k] = e]
      BY <1>2
    <3> HIDE DEF e, k, st, RunRow
    <3>4. /\ runs' \in Seq(RunRow) /\ Len(runs') = Len(runs)
          /\ \A r \in 1..Len(runs) : runs'[r] = IF r = k THEN e ELSE runs[r]
      BY <1>2, <2>1, <3>2, <3>3, ExceptSeq
    <3>5. DOMAIN runs' = 1..Len(runs)
      BY <3>4, LenProperties
    <3> QED BY <1>3, <3>2, <3>4, <3>5
  <2>2. CASE k \notin 1..Len(runs)
    <3>1. runs \in [1..Len(runs) -> RunRow]
      BY <1>2, LenProperties
    <3>2. runs' = runs
      BY <1>2, <1>3, <2>2, <3>1
    <3> QED BY <1>2, <3>2
  <2> QED BY <2>1, <2>2
<1>5. runCopy' \in [Client -> RunCopy]
  BY DEF UpdateRun, RunTyped
<1>6. revived \subseteq revived'
  BY DEF UpdateRun
<1>7. ASSUME NEW r \in DOMAIN runs, runs'[r].state = "active", r \notin revived'
      PROVE  runs[r].state = "active"
  <2>1. CASE r # k
    BY <1>4, <1>7, <2>1
  <2>2. CASE r = k
    <3>1. runs[r].state \in RunState
      BY RunTypes
    <3>2. runs[k].state = "ended" /\ runs'[k].state = "active" => k \in revived'
      BY DEF UpdateRun
    <3> QED BY <1>7, <2>2, <3>1, <3>2 DEF RunState
  <2> QED BY <2>1, <2>2
<1> QED BY <1>2, <1>4, <1>5, <1>6, <1>7 DEF RunTyped

LEMMA CountShape ==
  ASSUME Typed, NEW i \in DOMAIN calls, Count(i)
  PROVE  CallsTyped' /\ LockInv' /\ RunTyped' /\ Quiet("update") /\ Quiet("decide")
<1> USE DEF Typed
<1>1. calls[i].op # "update" /\ calls[i].op # "decide" /\ calls[i].op = "create" /\ lock[Conn(i)] = 0
  BY DEF Count, May
<1>2. RunTyped'
  BY DEF Count, runVars, RunTyped
<1>3. CASE ~MayCreate
  <2>1. End(i, "conflict") /\ lock' = lock /\ "conflict" \in Result
    BY <1>3 DEF Count, Result
  <2>2. CallsTyped' /\ Quiet("update") /\ Quiet("decide") /\ Releases
    BY <1>1, <2>1, EndQuiet, EndReleases
  <2> QED BY <1>2, <2>2, ReleasesKeeps
<1>4. CASE MayCreate
  <2>1. calls[i] \in Calls /\ i \in Nat \ {0} /\ Conn(i) \in Process
    BY CallTyped
  <2>2. Moves(i, "counted", calls[i].result) /\ "counted" \in PC /\ calls[i].result \in Result
    BY <1>4, <2>1 DEF Count, Moves, PC, Calls, CallsTyped
  <2>3. /\ CallsTyped' /\ DOMAIN calls' = DOMAIN calls
        /\ \A j \in DOMAIN calls :
              /\ calls'[j].client = calls[j].client /\ calls'[j].op = calls[j].op
              /\ calls'[j].arg = calls[j].arg
              /\ j # i => calls'[j] = calls[j]
        /\ calls'[i].pc = "counted" /\ calls'[i].result = calls[i].result
    BY <2>2, Progress
  <2>4. Quiet("update") /\ Quiet("decide")
    BY <1>1, <2>3 DEF Quiet
  <2>5. lock' = [lock EXCEPT ![Conn(i)] = i]
    BY <1>4 DEF Count
  <2>6. ASSUME NEW j \in DOMAIN calls, calls'[j].pc = "counted"
        PROVE  calls'[j].op = "create" /\ lock'[Conn(j)'] = j
    <3>1. Conn(j)' = Conn(j) /\ Conn(j) \in Process /\ j \in Nat \ {0}
      BY <2>3, CallTyped DEF Conn, Owner
    <3>2. CASE j = i
      BY <1>1, <2>3, <2>5, <3>1, <3>2 DEF LockInv
    <3>3. CASE j # i
      BY <1>1, <2>3, <2>5, <2>6, <3>1, <3>3 DEF LockInv
    <3> QED BY <3>2, <3>3
  <2>7. lock' \in [Process -> Nat]
    BY <2>1, <2>5 DEF LockInv
  <2> QED BY <1>2, <2>3, <2>4, <2>6, <2>7 DEF LockInv
<1> QED BY <1>3, <1>4

(* How a step moves the runs: only Count leaves a call between statements. *)
RunsMoved ==
  \/ Releases /\ UNCHANGED <<runs, revived>>
  \/ Releases /\ \E i \in DOMAIN calls : Insert(i) \/ UpdateRun(i)
  \/ \E i \in DOMAIN calls : Count(i)

LEMMA RunStepShape ==
  ASSUME Typed, RunStep
  PROVE  CallsTyped' /\ LockInv' /\ RunTyped' /\ Quiet("update") /\ Quiet("decide") /\ RunsMoved
<1> USE DEF Typed
<1>0. {"create", "get_run", "get_active"} \subseteq NumberOps /\ 0 \in Nat
  BY DEF NumberOps, Ops
<1>1. ASSUME NEW c \in Client, CallCreate(c) \/ \E op \in RunReads : CallGetRun(c, op)
      PROVE  CallsTyped' /\ LockInv' /\ RunTyped' /\ Quiet("update") /\ Quiet("decide") /\ RunsMoved
  <2>1. RunTyped'
    BY <1>1 DEF CallCreate, CallGetRun, runVars, RunTyped
  <2>2. \E op \in NumberOps : Send(c, op, 0)
    BY <1>0, <1>1 DEF CallCreate, CallGetRun, RunReads
  <2>3. CallsTyped' /\ Releases /\ Quiet("update") /\ Quiet("decide")
    BY <1>0, <2>2, NumberSent
  <2>4. UNCHANGED <<runs, revived>>
    BY <1>1 DEF CallCreate, CallGetRun, runVars
  <2> QED BY <2>1, <2>3, <2>4, ReleasesKeeps DEF RunsMoved
<1>2. ASSUME NEW c \in Client, CallUpdateRun(c)
      PROVE  CallsTyped' /\ LockInv' /\ RunTyped' /\ Quiet("update") /\ Quiet("decide") /\ RunsMoved
  <2>0. "update_run" \in Ops /\ "update" # "update_run" /\ "decide" # "update_run"
    BY DEF Ops
  <2>1. runCopy' \in [Client -> RunCopy]
    BY <1>2 DEF CallUpdateRun, RunTyped, RunCopy
  <2>2. Send(c, "update_run", runCopy'[c]) /\ runCopy'[c] \in Arg /\ ArgTyped("update_run", runCopy'[c])
    BY <1>2, <2>1 DEF CallUpdateRun, Arg, ArgTyped
  <2>3. CallsTyped' /\ Quiet("update")
    BY <2>0, <2>2, SendQuiet, Zenon
  <2>4. Quiet("decide")
    BY <2>0, <2>2, SendQuiet, Zenon
  <2>5. Releases
    BY <2>0, <2>2, SendReleases, Zenon
  <2> QED BY <1>2, <2>1, <2>3, <2>4, <2>5, ReleasesKeeps DEF CallUpdateRun, RunTyped, RunsMoved
<1>3. ASSUME NEW i \in DOMAIN calls, Insert(i)
      PROVE  CallsTyped' /\ LockInv' /\ RunTyped' /\ Quiet("update") /\ Quiet("decide") /\ RunsMoved
  <2>1. End(i, "ok") /\ "ok" \in Result /\ lock' = [lock EXCEPT ![Conn(i)] = 0]
    BY <1>3 DEF Insert, Result
  <2>2. calls[i].op = "create" /\ lock[Conn(i)] = i /\ RunTyped'
    BY <1>3, InsertRuns
  <2>3. CallsTyped' /\ Quiet("update") /\ Quiet("decide")
    BY <2>1, <2>2, EndQuiet
  <2>4. Releases
    <3>1. /\ DOMAIN calls' = DOMAIN calls /\ calls'[i].pc = "done"
          /\ \A j \in DOMAIN calls :
               /\ calls'[j].client = calls[j].client /\ calls'[j].op = calls[j].op
               /\ j # i => calls'[j] = calls[j]
      BY <2>1, EndProgress
    <3>2. lock' \in [Process -> Nat]
      BY <2>1, CallTyped DEF LockInv
    <3>3. ASSUME NEW j \in DOMAIN calls, calls'[j].pc = "counted"
          PROVE  calls[j].pc = "counted" /\ lock'[Conn(j)] = lock[Conn(j)]
      <4>1. j # i /\ calls[j].pc = "counted" /\ lock[Conn(j)] = j
        BY <3>1, <3>3 DEF LockInv
      <4>2. Conn(j) # Conn(i)
        BY <2>2, <4>1
      <4> QED BY <2>1, <4>1, <4>2, CallTyped DEF LockInv
    <3> QED BY <3>1, <3>2, <3>3 DEF Releases
  <2> QED BY <1>3, <2>2, <2>3, <2>4, ReleasesKeeps DEF RunsMoved
<1>4. ASSUME NEW i \in DOMAIN calls, UpdateRun(i) \/ \E op \in RunReads : GetRun(i, op)
      PROVE  CallsTyped' /\ LockInv' /\ RunTyped' /\ Quiet("update") /\ Quiet("decide") /\ RunsMoved
  <2>1. End(i, "ok") /\ "ok" \in Result /\ lock' = lock /\ calls[i].op # "update" /\ calls[i].op # "decide"
    BY <1>4 DEF UpdateRun, GetRun, May, RunReads, Result
  <2>2. CallsTyped' /\ Quiet("update") /\ Quiet("decide")
    BY <2>1, EndQuiet
  <2>3. Releases /\ LockInv'
    BY <2>1, <2>2, EndReleases, ReleasesKeeps
  <2>4. RunTyped'
    <3>1. CASE UpdateRun(i)
      BY <3>1, UpdateRunRuns
    <3>2. ASSUME NEW op \in RunReads, GetRun(i, op) PROVE RunTyped'
      <4>1. runs' = runs
        BY <3>2 DEF GetRun
      <4>2. \A r \in Shows(op) : [run |-> r, state |-> runs[r].state] \in RunCopy
        BY RunTypes DEF Shows, Active, RunCopy
      <4>3. runCopy' \in [Client -> RunCopy]
        BY <3>2, <4>2 DEF GetRun, RunTyped
      <4> QED BY <4>1, <4>3 DEF RunTyped
    <3> QED BY <1>4, <3>1, <3>2
  <2>5. UpdateRun(i) \/ UNCHANGED <<runs, revived>>
    BY <1>4 DEF GetRun
  <2> QED BY <2>2, <2>3, <2>4, <2>5 DEF RunsMoved
<1>5. ASSUME NEW i \in DOMAIN calls, Count(i)
      PROVE  CallsTyped' /\ LockInv' /\ RunTyped' /\ Quiet("update") /\ Quiet("decide") /\ RunsMoved
  BY <1>5, CountShape DEF RunsMoved
<1> QED BY <1>1, <1>2, <1>3, <1>4, <1>5 DEF RunStep

(* A caller that gives up, a statement that fails, the clock.              *)
LEMMA OtherSteps ==
  ASSUME Typed,
         \/ UNCHANGED <<calls, lock>>
         \/ \E i \in DOMAIN calls : Fail(i)
  PROVE  CallsTyped' /\ Releases /\ Quiet("update") /\ Quiet("decide")
<1> USE DEF Typed
<1>1. CASE UNCHANGED <<calls, lock>>
  BY <1>1, StillQuiet DEF Releases, LockInv
<1>2. ASSUME NEW i \in DOMAIN calls, Fail(i)
      PROVE  CallsTyped' /\ Releases /\ Quiet("update") /\ Quiet("decide")
  <2>1. End(i, "error") /\ "error" \in Result /\ "error" # "ok"
    BY <1>2 DEF Fail, Result
  <2>2. CallsTyped' /\ Quiet("update") /\ Quiet("decide")
    BY <2>1, EndQuiet
  <2>3. CASE lock' = lock
    BY <2>1, <2>2, <2>3, EndReleases
  <2>4. CASE calls[i].pc = "counted" /\ lock' = [lock EXCEPT ![Conn(i)] = 0]
    <3>1. /\ DOMAIN calls' = DOMAIN calls /\ calls'[i].pc = "done"
          /\ \A j \in DOMAIN calls :
               /\ calls'[j].client = calls[j].client /\ calls'[j].op = calls[j].op
               /\ j # i => calls'[j] = calls[j]
      BY <2>1, EndProgress
    <3>2. lock' \in [Process -> Nat]
      BY <2>4, CallTyped DEF LockInv
    <3>3. ASSUME NEW j \in DOMAIN calls, calls'[j].pc = "counted"
          PROVE  calls[j].pc = "counted" /\ lock'[Conn(j)] = lock[Conn(j)]
      <4>1. j # i /\ calls[j].pc = "counted" /\ lock[Conn(j)] = j
        BY <3>1, <3>3 DEF LockInv
      <4>2. Conn(j) # Conn(i)
        BY <2>4, <4>1 DEF LockInv
      <4> QED BY <2>4, <4>1, <4>2, CallTyped DEF LockInv
    <3>4. Releases
      BY <3>1, <3>2, <3>3 DEF Releases
    <3> QED BY <2>2, <3>4
  <2> QED BY <1>2, <2>3, <2>4, <2>2 DEF Fail
<1> QED BY <1>1, <1>2

LEMMA InitTyped == Init => Typed
<1> SUFFICES ASSUME Init PROVE Typed
  OBVIOUS
<1> USE DEF Init
<1>1. CallsTyped /\ LockInv
  BY EmptySeq DEF InteractInit, CallsTyped, LockInv
<1>2. SessionTyped /\ RunTyped
  BY EmptySeq DEF StoresInit, SessionTyped, RunTyped, Session, RunCopy, RunState
<1>3. now \in Nat /\ MessageTyped /\ ApprovalTyped
  <2>1. <<[action |-> 0, status |-> "pending"]>> \in Seq(Approval)
    BY DEF Approval, Arg
  <2> QED BY <2>1, EmptySeq DEF RecordsInit, MessageTyped, ApprovalTyped, Choice, NoCopy
<1>4. PageTyped
  BY DEF RecordsInit, PageTyped, IsReader
<1> QED BY <1>1, <1>2, <1>3, <1>4 DEF Typed

LEMMA NextTyped == Typed /\ [Next]_vars => Typed'
<1> SUFFICES ASSUME Typed, [Next]_vars PROVE Typed'
  OBVIOUS
<1> DEFINE Rest == /\ now' \in Nat /\ SessionTyped' /\ RunTyped' /\ MessageTyped'
                   /\ ApprovalTyped' /\ PageTyped'
<1> USE DEF Typed, vars, interactVars, storeVars, recordVars, sessionVars, runVars,
            messageVars, approvalVars, pageVars
<1>1. CASE SessionStep /\ UNCHANGED <<now, runVars, recordVars>>
  BY <1>1, SessionStepShape, ReleasesKeeps DEF RunTyped, MessageTyped, ApprovalTyped, PageTyped
<1>2. CASE RunStep /\ UNCHANGED <<now, sessionVars, recordVars>>
  BY <1>2, RunStepShape DEF SessionTyped, MessageTyped, ApprovalTyped, PageTyped
<1>3. CASE MessageStep /\ UNCHANGED <<now, storeVars, approvalVars, pageVars>>
  BY <1>3, MessageStepShape, ReleasesKeeps DEF SessionTyped, RunTyped, ApprovalTyped, PageTyped
<1>4. CASE ApprovalStep /\ UNCHANGED <<now, storeVars, messageVars, pageVars>>
  BY <1>4, ApprovalStepShape, ReleasesKeeps DEF SessionTyped, RunTyped, MessageTyped, PageTyped
<1>5. CASE PageStep /\ UNCHANGED <<now, storeVars, messageVars, approvalVars>>
  BY <1>5, PageStepShape, ReleasesKeeps DEF SessionTyped, RunTyped, MessageTyped, ApprovalTyped
<1>6. ASSUME now' \in Nat, UNCHANGED <<storeVars, recordVars>>,
             UNCHANGED <<calls, lock>> \/ \E i \in DOMAIN calls : Fail(i)
      PROVE  Typed'
  BY <1>6, OtherSteps, ReleasesKeeps
     DEF SessionTyped, RunTyped, MessageTyped, ApprovalTyped, PageTyped
<1>7. CASE Tick /\ UNCHANGED <<storeVars, recordVars>>
  BY <1>6, <1>7 DEF Tick
<1>8. CASE /\ (\E c \in Client : GiveUp(c)) \/ (\E i \in DOMAIN calls : Fail(i))
           /\ UNCHANGED <<now, storeVars, recordVars>>
  <2>1. UNCHANGED <<calls, lock>> \/ \E i \in DOMAIN calls : Fail(i)
    BY <1>8 DEF GiveUp
  <2> QED BY <1>6, <1>8, <2>1
<1>9. CASE UNCHANGED vars
  BY <1>6, <1>9
<1> QED BY <1>1, <1>2, <1>3, <1>4, <1>5, <1>7, <1>8, <1>9 DEF Next

-----------------------------------------------------------------------------
(* The session. A copy is at most as new as the row, and one of the same   *)
(* version has all the row says.                                           *)

Behind(copied, row) ==
  /\ copied.version <= row.version
  /\ copied.version = row.version => row.edits \subseteq copied.edits

SessionInv ==
  /\ NoLostUpdate /\ OneUpdatePerVersion
  /\ \A c \in Client : Behind(copy[c], session)
  /\ \A i \in DOMAIN calls : calls[i].op = "update" =>
       /\ Behind(calls[i].arg, session)
       /\ calls[i].result = "ok" => calls[i].arg.version < session.version

LEMMA QuietSession ==
  ASSUME SessionInv, Quiet("update"), UNCHANGED <<session, copy, accepted>>
  PROVE  SessionInv'
<1>1. \A i \in DOMAIN calls' : calls'[i].op = "update" =>
        /\ i \in DOMAIN calls /\ calls[i].op = "update" /\ calls'[i].arg = calls[i].arg
        /\ calls'[i].result = "ok" => calls[i].result = "ok"
  BY DEF Quiet
<1>2. OneUpdatePerVersion'
  BY <1>1 DEF SessionInv, OneUpdatePerVersion
<1>3. NoLostUpdate' /\ \A c \in Client : Behind(copy[c], session)'
  BY DEF SessionInv, NoLostUpdate, Behind
<1>4. \A i \in DOMAIN calls' : calls'[i].op = "update" =>
        /\ Behind(calls[i].arg, session)' 
        /\ calls'[i].result = "ok" => calls'[i].arg.version < session'.version
  BY <1>1 DEF SessionInv, Behind
<1> QED BY <1>1, <1>2, <1>3, <1>4 DEF SessionInv, Behind

LEMMA WriteSession ==
  ASSUME Typed, SessionInv, NEW i \in DOMAIN calls, Update(i), Fresh(i),
         session' = Written(i), accepted' = accepted \cup calls[i].arg.edits, End(i, "ok")
  PROVE  SessionInv'
<1>1. calls[i].op = "update" /\ calls[i].arg \in Session /\ session \in Session
  BY DEF Typed, CallsTyped, ArgTyped, SessionTyped, Update, May
<1>2. /\ session'.version = session.version + 1 /\ session.version \in Nat
      /\ session'.edits = calls[i].arg.edits /\ session.edits \subseteq calls[i].arg.edits
  BY <1>1 DEF Written, Fresh, SessionInv, Behind, Session
<1>3. "ok" \in Result
  BY DEF Result
<1>4. /\ DOMAIN calls' = DOMAIN calls
      /\ \A j \in DOMAIN calls :
           /\ calls'[j].op = calls[j].op /\ calls'[j].arg = calls[j].arg
           /\ j # i => calls'[j] = calls[j]
  BY <1>3, EndProgress DEF Typed
<1>5. \A j \in DOMAIN calls : calls[j].op = "update" => calls[j].arg.version \in Nat
  BY DEF Typed, CallsTyped, ArgTyped, Session
<1>6. \A c \in Client : copy[c].version \in Nat /\ copy'[c] = copy[c]
  BY DEF Typed, SessionTyped, Session, Update
<1>7. NoLostUpdate'
  BY <1>2 DEF SessionInv, NoLostUpdate
<1>8. \A c \in Client : Behind(copy[c], session)'
  BY <1>2, <1>6 DEF SessionInv, Behind
<1>9. \A j \in DOMAIN calls' : calls'[j].op = "update" =>
        calls'[j].arg.version <= session.version
  BY <1>4 DEF SessionInv, Behind
<1>10. OneUpdatePerVersion'
  BY <1>1, <1>2, <1>4, <1>5 DEF SessionInv, OneUpdatePerVersion, Fresh
<1> QED BY <1>2, <1>4, <1>5, <1>7, <1>8, <1>9, <1>10 DEF SessionInv, Behind

LEMMA SessionStepInv ==
  ASSUME Typed, SessionInv, SessionStep
  PROVE  SessionInv'
<1>1. ASSUME NEW c \in Client, CallGet(c) PROVE SessionInv'
  <2>1. "get" \in Ops /\ "update" # "get"
    BY DEF Ops
  <2>2. Send(c, "get", 0) /\ 0 \in Arg /\ ArgTyped("get", 0)
    BY <1>1 DEF CallGet, Arg, ArgTyped
  <2>3. Quiet("update")
    BY <2>1, <2>2, SendQuiet, Zenon DEF Typed
  <2> QED BY <1>1, <2>3, QuietSession DEF CallGet, sessionVars
<1>2. ASSUME NEW c \in Client, CallUpdate(c) PROVE SessionInv'
  <2> DEFINE n == Len(calls) + 1
             call == [client |-> c, op |-> "update", pc |-> "queued", result |-> "none", arg |-> copy'[c]]
  <2>1. copy' \in [Client -> Session] /\ session' = session /\ accepted' = accepted
    BY <1>2 DEF CallUpdate, Typed, SessionTyped, Session
  <2>2. \A d \in Client : Behind(copy'[d], session)
    <3>1. \A d \in Client : copy[d].edits \subseteq copy'[d].edits /\ copy'[d].version = copy[d].version
      BY <1>2 DEF CallUpdate, Typed, SessionTyped, Session
    <3> QED BY <3>1 DEF SessionInv, Behind
  <2>3. "update" \in Ops /\ copy'[c] \in Arg /\ ArgTyped("update", copy'[c]) /\ Send(c, "update", copy'[c])
    BY <1>2, <2>1 DEF CallUpdate, Arg, ArgTyped, Ops
  <2>4. /\ Len(calls) \in Nat /\ DOMAIN calls = 1..Len(calls) /\ DOMAIN calls' = 1..n
        /\ \A j \in DOMAIN calls : calls'[j] = calls[j]
        /\ calls'[n] = call
    BY <2>3, SendAdds, Zenon DEF Typed
  <2>5. call.result # "ok" /\ call.arg = copy'[c]
    OBVIOUS
  <2>6. DOMAIN calls' = DOMAIN calls \cup {n}
    BY <2>4
  <2> HIDE DEF n, call
  <2>7. \A j \in DOMAIN calls' : calls'[j].op = "update" =>
          /\ Behind(calls'[j].arg, session)
          /\ calls'[j].result = "ok" => calls'[j].arg.version < session.version
    BY <2>2, <2>4, <2>5, <2>6 DEF SessionInv
  <2>8. OneUpdatePerVersion'
    <3>1. \A j \in DOMAIN calls' :
            calls'[j].result = "ok" => j \in DOMAIN calls /\ calls'[j] = calls[j]
      BY <2>4, <2>5, <2>6
    <3> QED BY <3>1 DEF SessionInv, OneUpdatePerVersion
  <2> QED BY <2>1, <2>2, <2>7, <2>8 DEF SessionInv, NoLostUpdate, Behind
<1>3. ASSUME NEW i \in DOMAIN calls, Get(i) PROVE SessionInv'
  <2>1. End(i, "ok") /\ "ok" \in Result /\ calls[i].op # "update"
    BY <1>3 DEF Get, May, Result
  <2>2. Quiet("update")
    BY <2>1, EndQuiet DEF Typed
  <2>3. \A c \in Client : Behind(copy'[c], session)
    <3>1. session.edits \subseteq session.edits /\ session.version <= session.version
      BY DEF Typed, SessionTyped, Session
    <3>2. \A c \in Client : copy'[c] = copy[c] \/ copy'[c] = session
      BY <1>3 DEF Get, Typed, SessionTyped
    <3> QED BY <3>1, <3>2 DEF SessionInv, Behind
  <2>4. UNCHANGED <<session, accepted>>
    BY <1>3 DEF Get
  <2>5. \A j \in DOMAIN calls' : calls'[j].op = "update" =>
          /\ j \in DOMAIN calls /\ calls[j].op = "update" /\ calls'[j].arg = calls[j].arg
          /\ calls'[j].result = "ok" => calls[j].result = "ok"
    BY <2>2 DEF Quiet
  <2>6. OneUpdatePerVersion'
    BY <2>5 DEF SessionInv, OneUpdatePerVersion
  <2> QED BY <2>3, <2>4, <2>5, <2>6 DEF SessionInv, NoLostUpdate, Behind
<1>4. ASSUME NEW i \in DOMAIN calls, Update(i) PROVE SessionInv'
  <2>1. CASE Fresh(i)
    BY <1>4, <2>1, WriteSession DEF Update
  <2>2. CASE ~Fresh(i)
    <3>1. End(i, "conflict") /\ "conflict" \in Result /\ "conflict" # "ok" /\ UNCHANGED <<session, copy, accepted>>
      BY <1>4, <2>2 DEF Update, Result
    <3>2. Quiet("update")
      BY <3>1, EndQuiet DEF Typed
    <3> QED BY <3>1, <3>2, QuietSession
  <2> QED BY <2>1, <2>2
<1> QED BY <1>1, <1>2, <1>3, <1>4 DEF SessionStep

LEMMA SessionInvariant == Spec => [](Typed /\ SessionInv)
<1>1. Init => Typed /\ SessionInv
  <2>1. Init => SessionInv
    BY DEF Init, InteractInit, StoresInit, SessionInv, NoLostUpdate, OneUpdatePerVersion, Behind
  <2> QED BY <2>1, InitTyped
<1>2. Typed /\ SessionInv /\ [Next]_vars => (Typed /\ SessionInv)'
  <2> SUFFICES ASSUME Typed, SessionInv, [Next]_vars PROVE SessionInv'
    BY NextTyped
  <2> USE DEF vars, interactVars, storeVars, sessionVars
  <2>1. CASE SessionStep
    BY <2>1, SessionStepInv
  <2>2. CASE UNCHANGED <<session, copy, accepted>> /\ Quiet("update")
    BY <2>2, QuietSession
  <2>7. SessionStep \/ UNCHANGED <<session, copy, accepted>>
    BY DEF Next
  <2>8. SessionStep \/ Quiet("update")
    <3>1. (Tick \/ (\E c \in Client : GiveUp(c)) \/ UNCHANGED vars) => Quiet("update")
      BY StillQuiet DEF Tick, GiveUp
    <3>2. (\E i \in DOMAIN calls : Fail(i)) => Quiet("update")
      BY OtherSteps
    <3>3. RunStep \/ MessageStep \/ ApprovalStep \/ PageStep => Quiet("update")
      BY RunStepShape, MessageStepShape, ApprovalStepShape, PageStepShape
    <3> QED BY <3>1, <3>2, <3>3 DEF Next
  <2> QED BY <2>1, <2>2, <2>7, <2>8
<1> QED BY <1>1, <1>2, PTL DEF Spec

(* An update that was written stays in the row, under any later one.       *)
THEOREM UpdatesAreKept == Spec => []NoLostUpdate
<1>1. Typed /\ SessionInv => NoLostUpdate
  BY DEF SessionInv
<1> QED BY <1>1, SessionInvariant, PTL

(* Two updates of one version are not both written.                        *)
THEOREM VersionIsSpentOnce == Spec => []OneUpdatePerVersion
<1>1. Typed /\ SessionInv => OneUpdatePerVersion
  BY DEF SessionInv
<1> QED BY <1>1, SessionInvariant, PTL

-----------------------------------------------------------------------------
(* The runs. While a call is between its two statements there is no active *)
(* run of its process but those an update revived.                         *)

RunInv ==
  /\ ActiveRunsOfOneProcess
  /\ \A r \in DOMAIN runs : runs[r].by \in DOMAIN calls
  /\ \A i \in DOMAIN calls : calls[i].pc = "counted" =>
       \A r \in Active \ revived : Conn(runs[r].by) # Conn(i)

(* A step after which no more runs than before are active, but for the     *)
(* revived ones.                                                           *)
LEMMA ReleasesRuns ==
  ASSUME RunInv, Releases, DOMAIN runs' = DOMAIN runs,
         \A r \in DOMAIN runs : runs'[r].by = runs[r].by,
         \A r \in DOMAIN runs : runs'[r].state = "active" /\ r \notin revived' =>
           runs[r].state = "active" /\ r \notin revived
  PROVE  RunInv'
<1>1. \A j \in DOMAIN calls : Conn(j)' = Conn(j)
  BY DEF Releases, Conn, Owner
<1>2. \A r \in DOMAIN runs : Conn(runs[r].by)' = Conn(runs[r].by)
  BY <1>1 DEF RunInv
<1>3. (Active \ revived)' \subseteq Active \ revived
  BY DEF Active
<1>4. Active \ revived \subseteq DOMAIN runs
  BY DEF Active
<1>5. ActiveRunsOfOneProcess'
  BY <1>2, <1>3, <1>4 DEF RunInv, ActiveRunsOfOneProcess
<1>6. \A r \in DOMAIN runs' : runs'[r].by \in DOMAIN calls'
  BY DEF RunInv, Releases
<1>7. ASSUME NEW i \in DOMAIN calls', calls'[i].pc = "counted", NEW r \in (Active \ revived)'
      PROVE  Conn(runs[r].by)' # Conn(i)'
  <2>1. i \in DOMAIN calls /\ calls[i].pc = "counted"
    BY <1>7 DEF Releases
  <2> QED BY <1>1, <1>2, <1>3, <1>4, <1>7, <2>1 DEF RunInv
<1> QED BY <1>5, <1>6, <1>7 DEF RunInv

LEMMA InsertRunInv ==
  ASSUME Typed, RunInv, Releases, NEW i \in DOMAIN calls, Insert(i)
  PROVE  RunInv'
<1>0. PICK new \in Nat : new = Len(runs) + 1
  BY InsertRuns
<1>1. /\ calls[i].op = "create" /\ lock[Conn(i)] = i /\ calls[i].pc = "counted"
      /\ Len(runs) \in Nat /\ DOMAIN runs = 1..Len(runs)
      /\ DOMAIN runs' = 1..new /\ runs'[new] = [state |-> "active", by |-> i]
      /\ \A r \in DOMAIN runs : runs'[r] = runs[r]
      /\ revived' = revived
  BY <1>0, InsertRuns DEF Insert
<1>2. DOMAIN runs' = DOMAIN runs \cup {new} /\ new \notin DOMAIN runs
  BY <1>0, <1>1
<1>3. \A j \in DOMAIN calls : Conn(j)' = Conn(j)
  BY DEF Releases, Conn, Owner
<1>4. runs'[new].by = i
  BY <1>1
<1>5. \A r \in DOMAIN runs : runs'[r] = runs[r] /\ Conn(runs[r].by)' = Conn(runs[r].by)
  BY <1>1, <1>3 DEF RunInv
<1>6. (Active \ revived)' \subseteq (Active \ revived) \cup {new}
  BY <1>1, <1>2 DEF Active
<1>7. \A r \in Active \ revived :
        /\ r \in DOMAIN runs /\ Conn(runs[r].by)' = Conn(runs[r].by)
        /\ Conn(runs[r].by) # Conn(i)
  BY <1>1, <1>5 DEF Active, RunInv
<1>8. Conn(runs[new].by)' = Conn(i)
  BY <1>3, <1>4
<1>9. ActiveRunsOfOneProcess'
  <2> SUFFICES ASSUME NEW r \in (Active \ revived)', NEW s \in (Active \ revived)', r # s
               PROVE  Conn(runs[r].by)' # Conn(runs[s].by)'
    BY DEF ActiveRunsOfOneProcess
  <2>1. CASE r = new \/ s = new
    BY <1>6, <1>7, <1>8, <2>1
  <2>2. CASE r # new /\ s # new
    BY <1>6, <1>7, <2>2 DEF RunInv, ActiveRunsOfOneProcess
  <2> QED BY <2>1, <2>2
<1>10. \A r \in DOMAIN runs' : runs'[r].by \in DOMAIN calls'
  BY <1>2, <1>4, <1>5 DEF RunInv, Releases
<1>11. ASSUME NEW j \in DOMAIN calls', calls'[j].pc = "counted", NEW r \in (Active \ revived)'
       PROVE  Conn(runs[r].by)' # Conn(j)'
  <2>1. j \in DOMAIN calls /\ calls[j].pc = "counted"
    BY <1>11 DEF Releases
  <2>2. j # i
    <3>1. calls'[i].pc = "done"
      BY EndProgress DEF Insert, Typed, Result
    <3> QED BY <1>11, <3>1
  <2>3. Conn(j) # Conn(i)
    BY <1>1, <2>1, <2>2 DEF Typed, LockInv
  <2> QED BY <1>3, <1>6, <1>7, <1>8, <1>11, <2>1, <2>3 DEF RunInv
<1> QED BY <1>9, <1>10, <1>11 DEF RunInv

LEMMA CountRunInv ==
  ASSUME Typed, RunInv, NEW i \in DOMAIN calls, Count(i)
  PROVE  RunInv'
<1>1. UNCHANGED <<runs, revived>>
  BY DEF Count, runVars
<1>2. CASE ~MayCreate
  <2>1. Releases
    BY <1>2, EndReleases DEF Count, Typed, Result
  <2> QED BY <1>1, <2>1, ReleasesRuns
<1>3. CASE MayCreate
  <2>1. calls' = [calls EXCEPT ![i].pc = "counted"]
    BY <1>3 DEF Count
  <2>2. calls[i] \in Calls
    BY CallTyped DEF Typed
  <2>3. DOMAIN calls' = DOMAIN calls /\ \A j \in DOMAIN calls : calls'[j].client = calls[j].client
    BY <2>1, <2>2 DEF Calls
  <2>4. Active = {} /\ Active' = {}
    BY <1>1, <1>3 DEF MayCreate, Active
  <2> QED BY <1>1, <2>3, <2>4 DEF RunInv, ActiveRunsOfOneProcess
<1> QED BY <1>2, <1>3

LEMMA RunInvariant == Spec => [](Typed /\ RunInv)
<1>1. Init => Typed /\ RunInv
  <2>1. Init => RunInv
    BY DEF Init, InteractInit, StoresInit, RunInv, ActiveRunsOfOneProcess, Active
  <2> QED BY <2>1, InitTyped
<1>2. Typed /\ RunInv /\ [Next]_vars => (Typed /\ RunInv)'
  <2> SUFFICES ASSUME Typed, RunInv, [Next]_vars PROVE RunInv'
    BY NextTyped
  <2>1. CASE Releases /\ UNCHANGED <<runs, revived>>
    BY <2>1, ReleasesRuns
  <2>2. ASSUME NEW i \in DOMAIN calls, Releases, UpdateRun(i) PROVE RunInv'
    BY <2>2, UpdateRunRuns, ReleasesRuns
  <2>3. CASE RunStep
    BY <2>1, <2>2, <2>3, RunStepShape, InsertRunInv, CountRunInv DEF RunsMoved
  <2>4. RunStep \/ UNCHANGED <<runs, revived>>
    BY DEF Next, vars, storeVars, runVars
  <2>5. RunStep \/ Releases
    <3>1. (Tick \/ (\E c \in Client : GiveUp(c)) \/ UNCHANGED vars) => UNCHANGED <<calls, lock>>
      BY DEF Tick, GiveUp, vars, interactVars
    <3>2. (\E i \in DOMAIN calls : Fail(i)) \/ UNCHANGED <<calls, lock>> => Releases
      BY OtherSteps
    <3>3. SessionStep \/ MessageStep \/ ApprovalStep \/ PageStep => Releases
      BY SessionStepShape, MessageStepShape, ApprovalStepShape, PageStepShape
    <3> QED BY <3>1, <3>2, <3>3 DEF Next
  <2> QED BY <2>1, <2>3, <2>4, <2>5
<1> QED BY <1>1, <1>2, PTL DEF Spec

(* Within one process two runs of the session are active only if an old    *)
(* copy was written over one that had ended: the count and the insert are  *)
(* not a transaction, but the process's connection is held over both.      *)
THEOREM OneActiveRunPerProcess == Spec => []ActiveRunsOfOneProcess
<1>1. Typed /\ RunInv => ActiveRunsOfOneProcess
  BY DEF RunInv
<1> QED BY <1>1, RunInvariant, PTL

-----------------------------------------------------------------------------
(* The approvals. A copy, and the argument of a decision, is of a row that *)
(* nobody had decided when the copy was read.                              *)

Undecided(choice) ==
  \A j \in DOMAIN decisions : decisions[j].row = choice.row => j > choice.asOf

ApprovalInv ==
  /\ RedecidedOnlyFromStaleCopy
  /\ approvals \in Seq(Approval)
  /\ \A j \in DOMAIN decisions :
       decisions[j].row \in DOMAIN approvals /\ approvals[decisions[j].row].status = "decided"
  /\ \A c \in Client :
       /\ held[c].row # 0 => held[c].row \in DOMAIN approvals
       /\ Undecided(held[c]) /\ held[c].asOf <= Len(decisions)
  /\ \A i \in DOMAIN calls : calls[i].op = "decide" =>
       /\ calls[i].arg.row \in DOMAIN approvals
       /\ Undecided(calls[i].arg) /\ calls[i].arg.asOf <= Len(decisions)

LEMMA QuietApproval ==
  ASSUME ApprovalInv, Quiet("decide"), UNCHANGED <<held, decisions>>,
         approvals' \in Seq(Approval), DOMAIN approvals \subseteq DOMAIN approvals',
         \A r \in DOMAIN approvals : approvals'[r] = approvals[r]
  PROVE  ApprovalInv'
<1>1. \A i \in DOMAIN calls' : calls'[i].op = "decide" =>
        i \in DOMAIN calls /\ calls[i].op = "decide" /\ calls'[i].arg = calls[i].arg
  BY DEF Quiet
<1>2. RedecidedOnlyFromStaleCopy'
  BY DEF ApprovalInv, RedecidedOnlyFromStaleCopy
<1> QED BY <1>1, <1>2 DEF ApprovalInv, Undecided

LEMMA DecideApproval ==
  ASSUME Typed, ApprovalInv, NEW i \in DOMAIN calls, Decide(i)
  PROVE  ApprovalInv'
<1> DEFINE choice == calls[i].arg
<1>1. PICK new \in Nat : new = Len(decisions) + 1
  BY LenProperties DEF Typed, ApprovalTyped
<1>2. /\ choice \in Choice /\ choice.row \in DOMAIN approvals
      /\ Undecided(choice) /\ choice.asOf <= Len(decisions)
  BY DEF Decide, May, ApprovalInv, Typed, CallsTyped, ArgTyped
<1>3. /\ decisions \in Seq(Choice) /\ decisions' = Append(decisions, choice)
      /\ Len(decisions) \in Nat /\ DOMAIN decisions = 1..Len(decisions)
  BY LenProperties DEF Decide, Typed, ApprovalTyped
<1>4. /\ DOMAIN decisions' = DOMAIN decisions \cup {new} /\ new \notin DOMAIN decisions
      /\ Len(decisions') = new /\ decisions'[new] = choice
      /\ \A j \in DOMAIN decisions : decisions'[j] = decisions[j] /\ j \in Nat
  <2>1. /\ decisions' \in Seq(Choice) /\ Len(decisions') = Len(decisions) + 1
        /\ \A j \in 1..Len(decisions) : decisions'[j] = decisions[j]
        /\ decisions'[Len(decisions) + 1] = choice
    BY <1>2, <1>3, AppendProperties
  <2>2. DOMAIN decisions' = 1..(Len(decisions) + 1)
    BY <2>1, LenProperties
  <2> HIDE DEF choice
  <2> QED BY <1>1, <1>3, <2>1, <2>2
<1>5. /\ approvals' \in Seq(Approval) /\ DOMAIN approvals' = DOMAIN approvals
      /\ approvals'[choice.row].status = "decided"
      /\ \A r \in DOMAIN approvals : r # choice.row => approvals'[r] = approvals[r]
  <2> DEFINE k == choice.row
             e == [approvals[k] EXCEPT !.status = "decided"]
  <2>1. approvals \in Seq(Approval) /\ k \in DOMAIN approvals
    BY <1>2 DEF ApprovalInv
  <2>2. DOMAIN approvals = 1..Len(approvals) /\ k \in 1..Len(approvals)
    BY <2>1, LenProperties
  <2>3. approvals[k] \in Approval
    BY <2>1, <2>2, ElementOfSeq
  <2>4. e \in Approval /\ e.status = "decided"
    BY <2>3 DEF Approval
  <2>5. approvals' = [approvals EXCEPT ![k] = e]
    BY DEF Decide
  <2> HIDE DEF e, k
  <2>6. /\ approvals' \in Seq(Approval) /\ Len(approvals') = Len(approvals)
        /\ \A r \in 1..Len(approvals) : approvals'[r] = IF r = k THEN e ELSE approvals[r]
    BY <2>1, <2>2, <2>4, <2>5, ExceptSeq
  <2>7. DOMAIN approvals' = 1..Len(approvals)
    BY <2>6, LenProperties
  <2> QED BY <2>2, <2>4, <2>6, <2>7 DEF k
<1>6. "ok" \in Result /\ End(i, "ok") /\ UNCHANGED held
  BY DEF Decide, Result
<1>7. \A j \in DOMAIN calls' : calls'[j].op = "decide" =>
        j \in DOMAIN calls /\ calls[j].op = "decide" /\ calls'[j].arg = calls[j].arg
  BY <1>6, EndProgress DEF Typed
<1>8. \A j \in DOMAIN decisions' :
        decisions'[j].row \in DOMAIN approvals' /\ approvals'[decisions'[j].row].status = "decided"
  <2> HIDE DEF choice
  <2> QED BY <1>2, <1>4, <1>5 DEF ApprovalInv
<1>9. ASSUME NEW h \in Choice, Undecided(h), h.asOf <= Len(decisions)
      PROVE  /\ \A j \in DOMAIN decisions' : decisions'[j].row = h.row => j > h.asOf
             /\ h.asOf <= Len(decisions')
  <2>1. new > h.asOf
    BY <1>1, <1>3, <1>9 DEF Choice
  <2> HIDE DEF choice
  <2> QED BY <1>1, <1>3, <1>4, <1>9, <2>1 DEF Undecided, Choice
<1>10. \A c \in Client : held'[c] = held[c] /\ held[c] \in Choice
  BY <1>6 DEF Typed, ApprovalTyped
<1>11. \A j \in DOMAIN calls : calls[j].op = "decide" => calls[j].arg \in Choice
  BY DEF Typed, CallsTyped, ArgTyped
<1>12. RedecidedOnlyFromStaleCopy'
  <2> SUFFICES ASSUME NEW k \in DOMAIN decisions', NEW j \in 1..(k - 1),
                      decisions'[j].row = decisions'[k].row
               PROVE  j > decisions'[k].asOf
    BY DEF RedecidedOnlyFromStaleCopy
  <2>1. k \in Nat /\ j \in DOMAIN decisions
    BY <1>1, <1>3, <1>4
  <2>2. CASE k = new
    BY <1>2, <1>4, <2>1, <2>2 DEF Undecided
  <2>3. CASE k \in DOMAIN decisions
    <3> HIDE DEF choice
    <3> QED BY <1>4, <2>1, <2>3 DEF ApprovalInv, RedecidedOnlyFromStaleCopy
  <2> HIDE DEF choice
  <2> QED BY <1>4, <2>2, <2>3
<1>13. \A c \in Client :
         /\ held'[c].row # 0 => held'[c].row \in DOMAIN approvals'
         /\ Undecided(held[c])' /\ held'[c].asOf <= Len(decisions')
  BY <1>5, <1>9, <1>10 DEF ApprovalInv, Undecided
<1>14. \A j \in DOMAIN calls' : calls'[j].op = "decide" =>
         /\ calls'[j].arg.row \in DOMAIN approvals'
         /\ Undecided(calls[j].arg)' /\ calls'[j].arg.asOf <= Len(decisions')
  BY <1>5, <1>7, <1>9, <1>11 DEF ApprovalInv, Undecided
<1> QED BY <1>5, <1>8, <1>12, <1>13, <1>14 DEF ApprovalInv

LEMMA ApprovalStepInv ==
  ASSUME Typed, ApprovalInv, ApprovalStep
  PROVE  ApprovalInv'
<1>1. ASSUME NEW c \in Client, CallPropose(c) \/ CallRequest(c) \/ CallPending(c)
      PROVE  ApprovalInv'
  <2>1. \E op \in NumberOps, n \in Nat : Send(c, op, n)
    <3>1. {"propose", "request", "pending"} \subseteq NumberOps /\ 0 \in Nat
      BY DEF NumberOps, Ops
    <3>2. CASE CallPropose(c) \/ CallPending(c)
      BY <3>1, <3>2 DEF CallPropose, CallPending
    <3>3. CASE CallRequest(c)
      <4>1. PICK a \in DOMAIN calls : Send(c, "request", a)
        BY <3>3 DEF CallRequest
      <4> QED BY <3>1, <4>1, CallTyped DEF Typed
    <3> QED BY <1>1, <3>2, <3>3
  <2>2. Quiet("decide")
    BY <2>1, NumberSent
  <2>3. UNCHANGED <<approvals, held, decisions>>
    BY <1>1 DEF CallPropose, CallRequest, CallPending, approvalVars
  <2> QED BY <2>2, <2>3, QuietApproval DEF ApprovalInv
<1>2. ASSUME NEW c \in Client, CallDecide(c) PROVE ApprovalInv'
  <2>1. held[c] \in Choice /\ held[c].row # 0 /\ Send(c, "decide", held[c])
    BY <1>2 DEF CallDecide, Typed, ApprovalTyped
  <2>2. UNCHANGED <<approvals, held, decisions>>
    BY <1>2 DEF CallDecide, approvalVars
  <2>3. "decide" \in Ops /\ held[c] \in Arg /\ ArgTyped("decide", held[c])
    BY <2>1 DEF Arg, ArgTyped, Ops
  <2> DEFINE call == [client |-> c, op |-> "decide", pc |-> "queued", result |-> "none", arg |-> held[c]]
  <2>4. /\ Len(calls) \in Nat /\ DOMAIN calls = 1..Len(calls)
        /\ DOMAIN calls' = 1..(Len(calls) + 1)
        /\ \A j \in DOMAIN calls : calls'[j] = calls[j]
        /\ calls'[Len(calls) + 1] = call
    BY <2>1, <2>3, SendAdds, Zenon DEF Typed
  <2>5. call.arg = held[c]
    OBVIOUS
  <2> HIDE DEF call
  <2>6. \A j \in DOMAIN calls' : (j \in DOMAIN calls /\ calls'[j] = calls[j]) \/ calls'[j].arg = held[c]
    BY <2>4, <2>5
  <2>7. \A j \in DOMAIN calls' : calls'[j].op = "decide" =>
         /\ calls'[j].arg.row \in DOMAIN approvals
         /\ Undecided(calls'[j].arg) /\ calls'[j].arg.asOf <= Len(decisions)
    BY <2>1, <2>6 DEF ApprovalInv
  <2> QED BY <2>2, <2>7 DEF ApprovalInv, Undecided, RedecidedOnlyFromStaleCopy
<1>3. ASSUME NEW i \in DOMAIN calls, Propose(i) PROVE ApprovalInv'
  <2>1. Quiet("decide") /\ UNCHANGED <<approvals, held, decisions>>
    BY <1>3, EndQuiet DEF Propose, May, Typed, Result
  <2> QED BY <2>1, QuietApproval DEF ApprovalInv
<1>4. ASSUME NEW i \in DOMAIN calls, Request(i) PROVE ApprovalInv'
  <2>1. PICK result \in Result : End(i, result) /\ calls[i].op # "decide" /\ UNCHANGED <<held, decisions>>
    BY <1>4 DEF Request, May, Result
  <2>2. Quiet("decide")
    BY <2>1, EndQuiet DEF Typed
  <2>3. CASE UNCHANGED approvals
    BY <2>1, <2>2, <2>3, QuietApproval DEF ApprovalInv
  <2>4. CASE approvals' = Append(approvals, [action |-> calls[i].arg, status |-> "pending"])
    <3> DEFINE new == [action |-> calls[i].arg, status |-> "pending"]
    <3>1. calls[i] \in Calls
      BY CallTyped DEF Typed
    <3>2. new \in Approval /\ approvals \in Seq(Approval)
      BY <3>1 DEF Approval, Calls, ApprovalInv
    <3>3. approvals' = Append(approvals, new)
      BY <2>4
    <3> HIDE DEF new
    <3>4. /\ approvals' \in Seq(Approval) /\ Len(approvals') = Len(approvals) + 1
          /\ \A r \in 1..Len(approvals) : approvals'[r] = approvals[r]
      BY <3>2, <3>3, AppendProperties
    <3>5. /\ Len(approvals) \in Nat /\ DOMAIN approvals = 1..Len(approvals)
          /\ DOMAIN approvals' = 1..(Len(approvals) + 1)
      BY <3>2, <3>4, LenProperties
    <3> QED BY <2>1, <2>2, <3>4, <3>5, QuietApproval
  <2> QED BY <1>4, <2>3, <2>4 DEF Request
<1>5. ASSUME NEW i \in DOMAIN calls, ListPending(i) PROVE ApprovalInv'
  <2>1. "ok" \in Result /\ End(i, "ok") /\ calls[i].op # "decide" /\ UNCHANGED <<approvals, decisions>>
    BY <1>5 DEF ListPending, May, Result
  <2>2. Quiet("decide")
    BY <2>1, EndQuiet DEF Typed
  <2>3. CASE UNCHANGED held
    BY <2>1, <2>2, <2>3, QuietApproval DEF ApprovalInv
  <2>4. ASSUME NEW r \in Pending,
               held' = [held EXCEPT ![Owner(i)] = [row |-> r, asOf |-> Len(decisions)]]
        PROVE  ApprovalInv'
    <3> DEFINE choice == [row |-> r, asOf |-> Len(decisions)]
    <3>1. choice.row \in DOMAIN approvals /\ choice.asOf = Len(decisions) /\ Len(decisions) \in Nat
      BY LenProperties DEF Pending, Typed, ApprovalTyped
    <3>2. Undecided(choice)
      <4>1. approvals[r].status = "pending"
        BY DEF Pending
      <4>2. \A j \in DOMAIN decisions : decisions[j].row # r
        BY <4>1 DEF ApprovalInv
      <4> QED BY <4>2 DEF Undecided
    <3> HIDE DEF choice
    <3>3. \A c \in Client : held'[c] = held[c] \/ held'[c] = choice
      BY <2>4 DEF Typed, ApprovalTyped, choice
    <3>4. \A c \in Client :
            /\ held'[c].row # 0 => held'[c].row \in DOMAIN approvals
            /\ Undecided(held'[c]) /\ held'[c].asOf <= Len(decisions)
      BY <3>1, <3>2, <3>3 DEF ApprovalInv
    <3>5. \A j \in DOMAIN calls' : calls'[j].op = "decide" =>
            j \in DOMAIN calls /\ calls[j].op = "decide" /\ calls'[j].arg = calls[j].arg
      BY <2>2 DEF Quiet
    <3> QED BY <2>1, <3>4, <3>5 DEF ApprovalInv, Undecided, RedecidedOnlyFromStaleCopy
  <2> QED BY <1>5, <2>3, <2>4 DEF ListPending
<1> QED BY <1>1, <1>2, <1>3, <1>4, <1>5, DecideApproval DEF ApprovalStep

LEMMA ApprovalInvariant == Spec => [](Typed /\ ApprovalInv)
<1>1. Init => Typed /\ ApprovalInv
  <2>1. ASSUME Init PROVE ApprovalInv
    <3>1. /\ approvals = <<[action |-> 0, status |-> "pending"]>> /\ decisions = <<>> /\ calls = <<>>
          /\ held = [c \in Client |-> NoCopy]
      BY <2>1 DEF Init, RecordsInit, InteractInit
    <3>2. [action |-> 0, status |-> "pending"] \in Approval
      BY DEF Approval, Arg
    <3>3. approvals \in Seq(Approval)
      BY <3>1, <3>2, EmptySeq, AppendProperties
    <3> QED BY <3>1, <3>3 DEF ApprovalInv, RedecidedOnlyFromStaleCopy, Undecided, NoCopy
  <2> QED BY <2>1, InitTyped
<1>2. Typed /\ ApprovalInv /\ [Next]_vars => (Typed /\ ApprovalInv)'
  <2> SUFFICES ASSUME Typed, ApprovalInv, [Next]_vars PROVE ApprovalInv'
    BY NextTyped
  <2>1. ApprovalStep \/ UNCHANGED <<approvals, held, decisions>>
    BY DEF Next, vars, recordVars, approvalVars
  <2>2. ApprovalStep \/ Quiet("decide")
    <3>1. (Tick \/ (\E c \in Client : GiveUp(c)) \/ UNCHANGED vars) => Quiet("decide")
      BY StillQuiet DEF Tick, GiveUp, vars, interactVars
    <3>2. (\E i \in DOMAIN calls : Fail(i)) => Quiet("decide")
      BY OtherSteps
    <3>3. SessionStep \/ RunStep \/ MessageStep \/ PageStep => Quiet("decide")
      BY SessionStepShape, RunStepShape, MessageStepShape, PageStepShape
    <3> QED BY <3>1, <3>2, <3>3 DEF Next
  <2> QED BY <2>1, <2>2, ApprovalStepInv, QuietApproval DEF ApprovalInv
<1> QED BY <1>1, <1>2, PTL DEF Spec

(* A decision over an earlier one is made on a copy read before that one   *)
(* was written.                                                            *)
THEOREM DecisionsAreOfPendingCopies == Spec => []RedecidedOnlyFromStaleCopy
<1>1. Typed /\ ApprovalInv => RedecidedOnlyFromStaleCopy
  BY DEF ApprovalInv
<1> QED BY <1>1, ApprovalInvariant, PTL

-----------------------------------------------------------------------------
(* Ranks in a strict order of a finite set.                                *)

Order(S, R) ==
  /\ \A x \in S : <<x, x>> \notin R
  /\ \A x, y, z \in S : <<x, y>> \in R /\ <<y, z>> \in R => <<x, z>> \in R
  /\ \A x, y \in S : x # y => <<x, y>> \in R \/ <<y, x>> \in R

Lower(S, R, x) == {y \in S : <<y, x>> \in R}

LEMMA LowerFinite ==
  ASSUME NEW S, IsFiniteSet(S), NEW R, NEW x
  PROVE  IsFiniteSet(Lower(S, R, x)) /\ Cardinality(Lower(S, R, x)) \in Nat
<1>1. Lower(S, R, x) \in SUBSET S
  BY DEF Lower
<1> QED BY <1>1, FS_Subset, FS_CardinalityType

LEMMA FewerBelow ==
  ASSUME NEW T, IsFiniteSet(T), NEW U \in SUBSET T, NEW x \in T, x \notin U
  PROVE  Cardinality(U) < Cardinality(T)
<1>1. Cardinality(U) <= Cardinality(T) /\ Cardinality(U) # Cardinality(T) /\ IsFiniteSet(U)
  BY FS_Subset
<1>2. Cardinality(U) \in Nat /\ Cardinality(T) \in Nat
  BY <1>1, FS_CardinalityType
<1> QED BY <1>1, <1>2

LEMMA RankGrows ==
  ASSUME NEW S, IsFiniteSet(S), NEW R, Order(S, R), NEW x \in S, NEW y \in S, <<x, y>> \in R
  PROVE  Cardinality(Lower(S, R, x)) < Cardinality(Lower(S, R, y))
<1>1. Lower(S, R, x) \in SUBSET Lower(S, R, y)
  BY DEF Lower, Order
<1>2. x \in Lower(S, R, y) /\ x \notin Lower(S, R, x)
  BY DEF Lower, Order
<1> QED BY <1>1, <1>2, LowerFinite, FewerBelow

LEMMA RankBounded ==
  ASSUME NEW S, IsFiniteSet(S), NEW R, Order(S, R), NEW x \in S
  PROVE  Cardinality(Lower(S, R, x)) < Cardinality(S)
<1>1. Lower(S, R, x) \in SUBSET S /\ x \notin Lower(S, R, x)
  BY DEF Lower, Order
<1> QED BY <1>1, FewerBelow

(* Every rank below the number of elements is taken, by one of them.       *)
LEMMA RankUnique ==
  ASSUME NEW S, IsFiniteSet(S), NEW R, Order(S, R), NEW x \in S, NEW y \in S,
         Cardinality(Lower(S, R, x)) = Cardinality(Lower(S, R, y))
  PROVE  x = y
<1>1. SUFFICES ASSUME x # y PROVE FALSE
  OBVIOUS
<1>2. <<x, y>> \in R \/ <<y, x>> \in R
  BY <1>1 DEF Order
<1>3. /\ <<x, y>> \in R => Cardinality(Lower(S, R, x)) < Cardinality(Lower(S, R, y))
      /\ <<y, x>> \in R => Cardinality(Lower(S, R, y)) < Cardinality(Lower(S, R, x))
  BY RankGrows
<1>4. Cardinality(Lower(S, R, x)) \in Nat /\ Cardinality(Lower(S, R, y)) \in Nat
  BY LowerFinite
<1> QED BY <1>2, <1>3, <1>4

LEMMA RankOnto ==
  ASSUME NEW S, IsFiniteSet(S), NEW R, Order(S, R), NEW n \in Nat, n < Cardinality(S)
  PROVE  \E x \in S : Cardinality(Lower(S, R, x)) = n
<1> DEFINE N == Cardinality(S)
           rank == [x \in S |-> Cardinality(Lower(S, R, x))]
           T == 0..(N - 1)
<1>1. N \in Nat /\ N > 0
  BY FS_CardinalityType
<1>2. IsFiniteSet(T) /\ Cardinality(T) = N
  <2>1. 0 \in Int /\ N - 1 \in Int
    BY <1>1
  <2>2. IsFiniteSet(T) /\ Cardinality(T) = IF 0 > N - 1 THEN 0 ELSE N - 1 - 0 + 1
    BY <2>1, FS_Interval
  <2> QED BY <1>1, <2>2
<1>3. rank \in [S -> T]
  <2>1. ASSUME NEW x \in S PROVE Cardinality(Lower(S, R, x)) \in T
    <3>1. Cardinality(Lower(S, R, x)) \in Nat /\ Cardinality(Lower(S, R, x)) < N
      BY LowerFinite, RankBounded
    <3> QED BY <1>1, <3>1
  <2> QED BY <2>1
<1>4. \A x, y \in S : rank[x] = rank[y] => x = y
  BY RankUnique
<1>5. \A x \in S : rank[x] = Cardinality(Lower(S, R, x))
  OBVIOUS
<1>6. n \in T
  BY <1>1
<1> HIDE DEF rank, T
<1>7. rank \in Injection(S, T)
  BY <1>3, <1>4 DEF Injection, IsInjective
<1>8. rank \in Surjection(S, T)
  BY <1>2, <1>7, FS_Injection
<1>9. \E x \in S : rank[x] = n
  BY <1>6, <1>8 DEF Surjection
<1> QED BY <1>5, <1>9

-----------------------------------------------------------------------------
(* What a step with some operations leaves of all calls: who made them and *)
(* what with; nobody comes to wait for an old one; at most one is sent.    *)

Grows(n) ==
  \/ DOMAIN calls' = DOMAIN calls /\ \A d : waiting'[d] = waiting[d] \/ waiting'[d] = 0
  \/ /\ n = Len(calls) + 1 /\ Len(calls) < workload.calls /\ DOMAIN calls' = 1..n
     /\ \A d : waiting'[d] = waiting[d] \/ waiting'[d] = n

Kept(ops) ==
  /\ DOMAIN calls \subseteq DOMAIN calls' /\ DOMAIN waiting' = DOMAIN waiting
  /\ \A j \in DOMAIN calls :
       /\ calls'[j].client = calls[j].client /\ calls'[j].op = calls[j].op
       /\ calls'[j].arg = calls[j].arg
       /\ waiting'[calls[j].client] = j => waiting[calls[j].client] = j
  /\ \A j \in DOMAIN calls' \ DOMAIN calls : calls'[j].op \in ops
  /\ workload' = workload /\ \E n \in Nat : Grows(n)

LEMMA SendKept ==
  ASSUME CallsTyped, NEW c \in Client, NEW op \in Ops, NEW arg \in Arg,
         ArgTyped(op, arg), Send(c, op, arg), NEW ops, op \in ops
  PROVE  Kept(ops)
<1> DEFINE n == Len(calls) + 1
           call == [client |-> c, op |-> op, pc |-> "queued", result |-> "none", arg |-> arg]
<1>1. /\ CallsTyped' /\ Len(calls) \in Nat /\ lock' = lock
      /\ DOMAIN calls = 1..Len(calls) /\ DOMAIN calls' = 1..n
      /\ \A j \in DOMAIN calls : calls'[j] = calls[j]
      /\ calls'[n] = call
  BY SendAdds, Zenon
<1>2. call.op = op
  OBVIOUS
<1>3. DOMAIN calls \subseteq DOMAIN calls' /\ DOMAIN calls' \ DOMAIN calls = {n}
      /\ \A j \in DOMAIN calls : j # n
  BY <1>1
<1>4. \A d : waiting'[d] = waiting[d] \/ waiting'[d] = n
  <2>1. calls' \in Seq(Calls) /\ Len(calls') = n
    <3>1. calls' \in Seq(Calls)
      BY <1>1 DEF CallsTyped
    <3>2. Len(calls') \in Nat /\ DOMAIN calls' = 1..Len(calls')
      BY <3>1, LenProperties
    <3> QED BY <1>1, <3>1, <3>2
  <2>2. waiting' = [waiting EXCEPT ![c] = n]
    BY <2>1 DEF Send
  <2> HIDE DEF n
  <2> QED BY <2>2
<1>5. DOMAIN waiting' = DOMAIN waiting /\ workload' = workload
  BY DEF Send
<1>6. n \in Nat /\ Len(calls) < workload.calls
  BY <1>1 DEF Send
<1> HIDE DEF n, call
<1>7. Grows(n)
  BY <1>1, <1>4, <1>6 DEF Grows, n
<1> QED BY <1>1, <1>2, <1>3, <1>4, <1>5, <1>6, <1>7 DEF Kept

LEMMA MovesKept ==
  ASSUME CallsTyped, NEW i \in DOMAIN calls, NEW pc \in PC, NEW result \in Result,
         Moves(i, pc, result),
         DOMAIN waiting' = DOMAIN waiting, workload' = workload,
         \A d : waiting'[d] = waiting[d] \/ waiting'[d] = 0, NEW ops
  PROVE  Kept(ops)
<1>1. DOMAIN calls' = DOMAIN calls /\ \A j \in DOMAIN calls :
           /\ calls'[j].client = calls[j].client /\ calls'[j].op = calls[j].op
           /\ calls'[j].arg = calls[j].arg
  BY Progress
<1>2. \A j \in DOMAIN calls : j # 0
  BY CallTyped
<1>3. Grows(0)
  BY <1>1 DEF Grows
<1> QED BY <1>1, <1>2, <1>3 DEF Kept

LEMMA EndKept ==
  ASSUME CallsTyped, NEW i \in DOMAIN calls, NEW result \in Result, End(i, result), NEW ops
  PROVE  Kept(ops)
<1>1. Moves(i, "done", result) /\ "done" \in PC
  BY DEF End, PC, Moves
<1>2. /\ DOMAIN waiting' = DOMAIN waiting /\ workload' = workload
      /\ \A d : waiting'[d] = waiting[d] \/ waiting'[d] = 0
  BY DEF End
<1> QED BY <1>1, <1>2, MovesKept

LEMMA StillKept ==
  ASSUME CallsTyped, UNCHANGED <<calls, workload>>, DOMAIN waiting' = DOMAIN waiting,
         \A d : waiting'[d] = waiting[d] \/ waiting'[d] = 0, NEW ops
  PROVE  Kept(ops)
<1>1. \A j \in DOMAIN calls : j # 0
  BY CallTyped
<1>2. Grows(0)
  BY DEF Grows
<1> QED BY <1>1, <1>2 DEF Kept

LEMMA NumberKept ==
  ASSUME CallsTyped, NEW c \in Client, NEW op \in NumberOps, NEW n \in Nat, Send(c, op, n),
         NEW ops, op \in ops
  PROVE  Kept(ops)
<1>1. n \in Arg /\ op \in Ops /\ ArgTyped(op, n)
  BY DEF Arg, ArgTyped, NumberOps
<1> QED BY <1>1, SendKept

SessionOps == {"get", "update"}
RunOps == {"create", "update_run"} \cup RunReads
MessageOps == {"append", "messages"}
ApprovalOps == {"propose", "request", "pending", "decide"}
PageOps == {"open", "touch", "page"}

LEMMA SessionStepKept == ASSUME Typed, SessionStep PROVE Kept(SessionOps)
<1> USE DEF Typed
<1>1. ASSUME NEW c \in Client, CallGet(c) PROVE Kept(SessionOps)
  <2>1. Send(c, "get", 0) /\ "get" \in NumberOps /\ "get" \in SessionOps /\ 0 \in Nat
    BY <1>1 DEF CallGet, NumberOps, Ops, SessionOps
  <2> QED BY <2>1, NumberKept, Zenon
<1>2. ASSUME NEW c \in Client, CallUpdate(c) PROVE Kept(SessionOps)
  <2>1. copy' \in [Client -> Session]
    BY <1>2 DEF CallUpdate, SessionTyped, Session
  <2>2. copy'[c] \in Arg /\ ArgTyped("update", copy'[c]) /\ Send(c, "update", copy'[c])
        /\ "update" \in Ops /\ "update" \in SessionOps
    BY <1>2, <2>1 DEF CallUpdate, Arg, ArgTyped, Ops, SessionOps
  <2> QED BY <2>2, SendKept, Zenon
<1>3. ASSUME NEW i \in DOMAIN calls, Get(i) \/ Update(i) PROVE Kept(SessionOps)
  <2>1. PICK r \in Result : End(i, r)
    BY <1>3 DEF Get, Update, Result
  <2> QED BY <2>1, EndKept
<1> QED BY <1>1, <1>2, <1>3 DEF SessionStep

LEMMA RunStepKept == ASSUME Typed, RunStep PROVE Kept(RunOps)
<1> USE DEF Typed
<1>1. ASSUME NEW c \in Client, CallCreate(c) PROVE Kept(RunOps)
  <2>1. Send(c, "create", 0) /\ "create" \in NumberOps /\ "create" \in RunOps /\ 0 \in Nat
    BY <1>1 DEF CallCreate, NumberOps, Ops, RunOps
  <2> QED BY <2>1, NumberKept, Zenon
<1>2. ASSUME NEW c \in Client, NEW op \in RunReads, CallGetRun(c, op) PROVE Kept(RunOps)
  <2>1. Send(c, op, 0) /\ op \in NumberOps /\ op \in RunOps /\ 0 \in Nat
    BY <1>2 DEF CallGetRun, NumberOps, Ops, RunOps, RunReads
  <2> QED BY <2>1, NumberKept, Zenon
<1>3. ASSUME NEW c \in Client, CallUpdateRun(c) PROVE Kept(RunOps)
  <2>1. runCopy' \in [Client -> RunCopy]
    BY <1>3 DEF CallUpdateRun, RunTyped, RunCopy
  <2>2. runCopy'[c] \in Arg /\ ArgTyped("update_run", runCopy'[c])
        /\ Send(c, "update_run", runCopy'[c])
        /\ "update_run" \in Ops /\ "update_run" \in RunOps
    BY <1>3, <2>1 DEF CallUpdateRun, Arg, ArgTyped, Ops, RunOps
  <2> QED BY <2>2, SendKept, Zenon
<1>4. ASSUME NEW i \in DOMAIN calls, NEW op \in RunReads, Insert(i) \/ UpdateRun(i) \/ GetRun(i, op)
      PROVE  Kept(RunOps)
  <2>1. PICK r \in Result : End(i, r)
    BY <1>4 DEF Insert, UpdateRun, GetRun, Result
  <2> QED BY <2>1, EndKept
<1>5. ASSUME NEW i \in DOMAIN calls, Count(i) PROVE Kept(RunOps)
  <2>1. CASE End(i, "conflict")
    BY <2>1, EndKept DEF Result
  <2>2. CASE calls' = [calls EXCEPT ![i].pc = "counted"] /\ UNCHANGED <<waiting, workload>>
    <3>1. PICK r \in Result : r = calls[i].result
      BY CallTyped DEF Calls
    <3>2. Moves(i, "counted", r) /\ "counted" \in PC
      <4>1. calls' = [calls EXCEPT ![i].pc = "counted", ![i].result = calls[i].result]
        <5>1. calls[i] \in Calls
          BY CallTyped
        <5> QED BY <2>2, <5>1 DEF Calls
      <4> QED BY <3>1, <4>1 DEF PC, Moves
    <3> QED BY <1>5, <2>2, <3>2, MovesKept DEF Count
  <2> QED BY <1>5, <2>1, <2>2 DEF Count
<1>6. ASSUME NEW i \in DOMAIN calls, Insert(i) \/ UpdateRun(i) PROVE Kept(RunOps)
  <2>1. "get_run" \in RunReads
    BY DEF RunReads
  <2> QED BY <1>4, <1>6, <2>1
<1> QED BY <1>1, <1>2, <1>3, <1>4, <1>5, <1>6 DEF RunStep

LEMMA MessageStepKept == ASSUME Typed, MessageStep PROVE Kept(MessageOps)
<1> USE DEF Typed
<1>1. ASSUME NEW c \in Client, CallAppend(c) \/ CallMessages(c) PROVE Kept(MessageOps)
  <2>1. MessageTyped'
    BY MessageStepShape
  <2>2. \E op \in NumberOps \cap MessageOps, n \in Nat : Send(c, op, n)
    <3>1. {"append", "messages"} \subseteq NumberOps \cap MessageOps /\ 0 \in Nat
          /\ draft[c] \in Nat /\ draft'[c] \in Nat
      BY <2>1 DEF NumberOps, Ops, MessageOps, MessageTyped
    <3> QED BY <1>1, <3>1 DEF CallAppend, CallMessages
  <2> QED BY <2>2, NumberKept
<1>2. ASSUME NEW i \in DOMAIN calls, AppendMessage(i) \/ ListMessages(i) PROVE Kept(MessageOps)
  <2>1. PICK r \in Result : End(i, r)
    BY <1>2 DEF AppendMessage, ListMessages, Result
  <2> QED BY <2>1, EndKept
<1> QED BY <1>1, <1>2 DEF MessageStep

LEMMA ApprovalStepKept == ASSUME Typed, ApprovalStep PROVE Kept(ApprovalOps)
<1> USE DEF Typed
<1>1. ASSUME NEW c \in Client, CallPropose(c) \/ CallRequest(c) \/ CallPending(c)
      PROVE  Kept(ApprovalOps)
  <2>1. \E op \in NumberOps \cap ApprovalOps, n \in Nat : Send(c, op, n)
    <3>1. {"propose", "request", "pending"} \subseteq NumberOps \cap ApprovalOps /\ 0 \in Nat
          /\ \A i \in DOMAIN calls : i \in Nat
      BY CallTyped DEF NumberOps, Ops, ApprovalOps
    <3> QED BY <1>1, <3>1 DEF CallPropose, CallRequest, CallPending
  <2> QED BY <2>1, NumberKept
<1>2. ASSUME NEW c \in Client, CallDecide(c) PROVE Kept(ApprovalOps)
  <2>1. /\ Send(c, "decide", held[c]) /\ held[c] \in Arg /\ ArgTyped("decide", held[c])
        /\ "decide" \in Ops /\ "decide" \in ApprovalOps
    BY <1>2 DEF CallDecide, ApprovalTyped, Arg, ArgTyped, Ops, ApprovalOps
  <2> QED BY <2>1, SendKept, Zenon
<1>3. ASSUME NEW i \in DOMAIN calls, Propose(i) \/ Request(i) \/ ListPending(i) \/ Decide(i)
      PROVE  Kept(ApprovalOps)
  <2>1. PICK r \in Result : End(i, r)
    BY <1>3 DEF Propose, Request, ListPending, Decide, Result
  <2> QED BY <2>1, EndKept
<1> QED BY <1>1, <1>2, <1>3 DEF ApprovalStep

LEMMA PageStepKept == ASSUME Typed, PageStep PROVE Kept(PageOps)
<1> USE DEF Typed
<1>1. ASSUME NEW c \in Client, CallOpen(c) \/ CallTouch(c) \/ CallPage(c) PROVE Kept(PageOps)
  <2>1. \E op \in NumberOps \cap PageOps, n \in Nat : Send(c, op, n)
    <3>1. {"open", "touch", "page"} \subseteq NumberOps \cap PageOps
          /\ reading[c].offset \in Nat /\ \A r \in DOMAIN updated : r \in Nat
      BY LenProperties DEF NumberOps, Ops, PageOps, PageTyped, IsReader
    <3> QED BY <1>1, <3>1 DEF CallOpen, CallTouch, CallPage
  <2> QED BY <2>1, NumberKept
<1>2. ASSUME NEW i \in DOMAIN calls, Open(i) \/ Touch(i) \/ ListSessions(i) PROVE Kept(PageOps)
  <2>1. PICK r \in Result : End(i, r)
    BY <1>2 DEF Open, Touch, ListSessions, Result
  <2> QED BY <2>1, EndKept
<1> QED BY <1>1, <1>2 DEF PageStep

LEMMA OtherStepsKept ==
  ASSUME Typed, NEW ops,
         Tick \/ (\E c \in Client : GiveUp(c)) \/ (\E i \in DOMAIN calls : Fail(i)) \/ UNCHANGED vars
  PROVE  Kept(ops)
<1> USE DEF Typed
<1>1. ASSUME UNCHANGED <<calls, waiting, workload>> PROVE Kept(ops)
  BY <1>1, StillKept, Zenon
<1>3. Tick \/ UNCHANGED vars => UNCHANGED <<calls, waiting, workload>>
  BY DEF Tick, vars, interactVars
<1>4. ASSUME NEW c \in Client, GiveUp(c) PROVE Kept(ops)
  <2>1. UNCHANGED <<calls, workload>> /\ DOMAIN waiting' = DOMAIN waiting
        /\ \A d : waiting'[d] = waiting[d] \/ waiting'[d] = 0
    BY <1>4 DEF GiveUp
  <2> QED BY <2>1, StillKept
<1>2. ASSUME NEW i \in DOMAIN calls, Fail(i) PROVE Kept(ops)
  BY <1>2, EndKept DEF Fail, Result
<1> QED BY <1>1, <1>2, <1>3, <1>4

-----------------------------------------------------------------------------
(* Messages. What was stored when a message was made stands in rows before *)
(* its own, and with no later second: so it comes first in every listing.  *)

Composed == [at : Nat, after : SUBSET Nat]

(* A row of a, of the same second or before, ahead of any row of m.        *)
ComesFirst(a, m, rows, made) ==
  /\ a \in DOMAIN made /\ made[a].at <= made[m].at
  /\ \E j \in DOMAIN rows : rows[j] = a /\ \A k \in DOMAIN rows : rows[k] = m => j < k

InOrderShown(list, made) ==
  \A k \in DOMAIN list :
    /\ \A j \in DOMAIN list : list[j] = list[k] => j = k
    /\ \A m \in made[list[k]].after : \E j \in 1..(k - 1) : list[j] = m

Conversation(rows, made, time, lists) ==
  /\ rows \in Seq(DOMAIN made) /\ made \in Seq(Composed)
  /\ \A m \in DOMAIN made : made[m].at <= time
  /\ \A j, k \in DOMAIN rows : rows[j] = rows[k] => j = k
  /\ \A m \in DOMAIN made : \A a \in made[m].after : ComesFirst(a, m, rows, made)
  /\ \A c \in Client : lists[c] \in Seq(DOMAIN made) /\ InOrderShown(lists[c], made)

Drafted(written, made) ==
  /\ written \in [Client -> 0..Len(made)]
  /\ \A i \in DOMAIN calls : calls[i].op = "append" => calls[i].arg \in DOMAIN made

MessageInv ==
  /\ Conversation(messages, composed, now, shown)
  /\ DOMAIN shown = Client
  /\ Drafted(draft, composed)

LEMMA ConversationTypes ==
  ASSUME NEW rows, NEW made, NEW time \in Nat, NEW lists, Conversation(rows, made, time, lists)
  PROVE  /\ Len(rows) \in Nat /\ DOMAIN rows = 1..Len(rows)
         /\ Len(made) \in Nat /\ DOMAIN made = 1..Len(made)
         /\ \A k \in DOMAIN rows : rows[k] \in DOMAIN made /\ rows[k] \in Nat
         /\ \A m \in DOMAIN made : made[m] \in Composed /\ made[m].at \in Nat /\ m \in Nat
<1>1. Len(rows) \in Nat /\ DOMAIN rows = 1..Len(rows) /\ rows \in Seq(DOMAIN made)
  BY LenProperties DEF Conversation
<1>2. Len(made) \in Nat /\ DOMAIN made = 1..Len(made) /\ made \in Seq(Composed)
  BY LenProperties DEF Conversation
<1>3. \A m \in DOMAIN made : made[m] \in Composed /\ m \in Nat
  BY <1>2, ElementOfSeq
<1>4. \A k \in DOMAIN rows : rows[k] \in DOMAIN made
  BY <1>1, ElementOfSeq
<1> QED BY <1>1, <1>2, <1>3, <1>4 DEF Composed

LEMMA TimePasses ==
  ASSUME NEW rows, NEW made, NEW time \in Nat, NEW lists, Conversation(rows, made, time, lists),
         NEW later \in Nat, time <= later
  PROVE  Conversation(rows, made, later, lists)
<1>1. \A m \in DOMAIN made : made[m].at \in Nat /\ made[m].at <= time
  BY ConversationTypes DEF Conversation
<1>2. \A m \in DOMAIN made : made[m].at <= later
  BY <1>1
<1> QED BY <1>2 DEF Conversation

MadeNow(time, rows) == [at |-> time, after |-> Range(rows)]

(* A message is made of the second that it is, after all that are stored.  *)
LEMMA MessageMade ==
  ASSUME NEW rows, NEW made, NEW time \in Nat, NEW lists, Conversation(rows, made, time, lists),
         NEW longer, longer = Append(made, MadeNow(time, rows))
  PROVE  /\ Conversation(rows, longer, time, lists)
         /\ Len(longer) = Len(made) + 1 /\ DOMAIN made \subseteq DOMAIN longer
         /\ Len(longer) \in DOMAIN longer
<1> DEFINE new == MadeNow(time, rows)
           n == Len(made) + 1
<1>1. /\ Len(rows) \in Nat /\ DOMAIN rows = 1..Len(rows)
      /\ Len(made) \in Nat /\ DOMAIN made = 1..Len(made)
      /\ \A k \in DOMAIN rows : rows[k] \in DOMAIN made /\ rows[k] \in Nat
      /\ \A m \in DOMAIN made : made[m] \in Composed /\ made[m].at \in Nat /\ m \in Nat
  BY ConversationTypes
<1>2. new \in Composed /\ new.at = time /\ new.after = Range(rows)
  <2>1. Range(rows) \subseteq Nat
    BY <1>1 DEF Range
  <2> QED BY <2>1 DEF Composed, MadeNow
<1>3. made \in Seq(Composed)
  BY DEF Conversation
<1> HIDE DEF new
<1>4. /\ longer \in Seq(Composed) /\ Len(longer) = n /\ longer[n] = new
      /\ \A m \in 1..Len(made) : longer[m] = made[m]
  BY <1>2, <1>3, AppendProperties DEF new
<1>5. DOMAIN longer = 1..n /\ n \in Nat /\ n \notin DOMAIN made /\ n \in DOMAIN longer
      /\ DOMAIN made \subseteq DOMAIN longer
      /\ \A m \in DOMAIN longer : m \in DOMAIN made \/ m = n
  BY <1>1, <1>4, LenProperties
<1> HIDE DEF n
<1>6. \A m \in DOMAIN made : longer[m] = made[m]
  BY <1>1, <1>4
<1>7. rows \in Seq(DOMAIN longer)
  BY <1>1, <1>5 DEF Conversation
<1>8. \A m \in DOMAIN longer : longer[m].at <= time
  BY <1>2, <1>4, <1>5, <1>6 DEF Conversation
<1>9. ASSUME NEW m \in DOMAIN longer, NEW a \in longer[m].after
      PROVE  ComesFirst(a, m, rows, longer)
  <2>1. CASE m \in DOMAIN made
    <3>1. ComesFirst(a, m, rows, made)
      BY <1>6, <1>9, <2>1 DEF Conversation
    <3> QED BY <1>5, <1>6, <2>1, <3>1 DEF ComesFirst
  <2>2. CASE m = n
    <3>1. PICK j \in DOMAIN rows : rows[j] = a
      BY <1>2, <1>4, <1>9, <2>2 DEF Range
    <3>2. a \in DOMAIN made /\ a \in DOMAIN longer /\ longer[a].at <= time
      BY <1>1, <1>5, <1>8, <3>1
    <3>3. \A k \in DOMAIN rows : rows[k] # m
      BY <1>1, <1>5, <2>2
    <3> QED BY <1>2, <1>4, <2>2, <3>1, <3>2, <3>3 DEF ComesFirst
  <2> QED BY <1>5, <2>1, <2>2
<1>10. ASSUME NEW c \in Client
       PROVE  lists[c] \in Seq(DOMAIN longer) /\ InOrderShown(lists[c], longer)
  <2>1. PICK l : l = lists[c]
    OBVIOUS
  <2>2. l \in Seq(DOMAIN made) /\ InOrderShown(l, made)
    BY <2>1 DEF Conversation
  <2>3. \A k \in DOMAIN l : l[k] \in DOMAIN made
    BY <2>2, LenProperties, ElementOfSeq
  <2>4. InOrderShown(l, longer)
    BY <1>6, <2>2, <2>3 DEF InOrderShown
  <2>5. l \in Seq(DOMAIN longer)
    BY <1>5, <2>2
  <2> QED BY <2>1, <2>4, <2>5
<1>11. \A j, k \in DOMAIN rows : rows[j] = rows[k] => j = k
  BY DEF Conversation
<1>12. Conversation(rows, longer, time, lists)
  BY <1>4, <1>7, <1>8, <1>9, <1>10, <1>11 DEF Conversation
<1> QED BY <1>4, <1>5, <1>12 DEF n

(* A row is added at the end.                                              *)
LEMMA MessageStored ==
  ASSUME NEW rows, NEW made, NEW time \in Nat, NEW lists, Conversation(rows, made, time, lists),
         NEW id \in DOMAIN made, id \notin Range(rows), NEW more, more = Append(rows, id)
  PROVE  Conversation(more, made, time, lists)
<1> DEFINE n == Len(rows) + 1
<1>1. /\ Len(rows) \in Nat /\ DOMAIN rows = 1..Len(rows)
      /\ Len(made) \in Nat /\ DOMAIN made = 1..Len(made)
      /\ \A k \in DOMAIN rows : rows[k] \in DOMAIN made /\ rows[k] \in Nat
  BY ConversationTypes
<1>2. rows \in Seq(DOMAIN made)
  BY DEF Conversation
<1>3. /\ more \in Seq(DOMAIN made) /\ Len(more) = n /\ more[n] = id
      /\ \A m \in 1..Len(rows) : more[m] = rows[m]
  BY <1>2, AppendProperties
<1>4. DOMAIN more = 1..n /\ n \in Nat /\ n \notin DOMAIN rows /\ n \in DOMAIN more
      /\ DOMAIN rows \subseteq DOMAIN more
      /\ (\A k \in DOMAIN more : k \in DOMAIN rows \/ k = n)
      /\ (\A k \in DOMAIN rows : k < n)
  BY <1>1, <1>3, LenProperties
<1> HIDE DEF n
<1>5. \A k \in DOMAIN rows : more[k] = rows[k] /\ rows[k] # id
  BY <1>1, <1>3 DEF Range
<1>6. \A j, k \in DOMAIN more : more[j] = more[k] => j = k
  <2>1. \A j, k \in DOMAIN rows : rows[j] = rows[k] => j = k
    BY DEF Conversation
  <2> QED BY <1>3, <1>4, <1>5, <2>1
<1>7. ASSUME NEW m \in DOMAIN made, NEW a \in made[m].after
      PROVE  ComesFirst(a, m, more, made)
  <2>1. ComesFirst(a, m, rows, made)
    BY <1>7 DEF Conversation
  <2>2. PICK j \in DOMAIN rows : rows[j] = a /\ \A k \in DOMAIN rows : rows[k] = m => j < k
    BY <2>1 DEF ComesFirst
  <2>3. \A k \in DOMAIN more : more[k] = m => j < k
    BY <1>4, <1>5, <2>2
  <2>4. more[j] = a /\ j \in DOMAIN more
    BY <1>4, <1>5, <2>2
  <2> QED BY <2>1, <2>3, <2>4 DEF ComesFirst
<1> QED BY <1>3, <1>6, <1>7 DEF Conversation

Rows == DOMAIN messages
RowOrder == {p \in Rows \X Rows : Precedes(p[1], p[2])}

LEMMA RowOrderIs ==
  ASSUME NEW j \in Rows, NEW k \in Rows
  PROVE  <<j, k>> \in RowOrder <=> Precedes(j, k)
<1>1. <<j, k>> \in Rows \X Rows /\ <<j, k>>[1] = j /\ <<j, k>>[2] = k
  OBVIOUS
<1> QED BY <1>1, Zenon DEF RowOrder

LEMMA RowsOrdered ==
  ASSUME NEW lists, now \in Nat, Conversation(messages, composed, now, lists)
  PROVE  Order(Rows, RowOrder) /\ IsFiniteSet(Rows) /\ Cardinality(Rows) = Len(messages)
<1>1. /\ Len(messages) \in Nat /\ Rows = 1..Len(messages)
      /\ \A k \in Rows : messages[k] \in DOMAIN composed
      /\ \A m \in DOMAIN composed : composed[m].at \in Nat
  BY ConversationTypes DEF Rows
<1>2. \A k \in Rows : k \in Nat /\ composed[messages[k]].at \in Nat
  BY <1>1
<1>3. \A x \in Rows : ~Precedes(x, x)
  BY <1>2 DEF Precedes
<1>4. \A x, y, z \in Rows : Precedes(x, y) /\ Precedes(y, z) => Precedes(x, z)
  BY <1>2 DEF Precedes
<1>5. \A x, y \in Rows : x # y => Precedes(x, y) \/ Precedes(y, x)
  BY <1>2 DEF Precedes
<1>6. \A x, y : <<x, y>> \in RowOrder => x \in Rows /\ y \in Rows
  BY DEF RowOrder
<1>7. Order(Rows, RowOrder)
  <2>1. \A x \in Rows : <<x, x>> \notin RowOrder
    BY <1>3, RowOrderIs
  <2>2. \A x, y, z \in Rows : <<x, y>> \in RowOrder /\ <<y, z>> \in RowOrder => <<x, z>> \in RowOrder
    BY <1>4, RowOrderIs, Zenon
  <2>3. \A x, y \in Rows : x # y => <<x, y>> \in RowOrder \/ <<y, x>> \in RowOrder
    BY <1>5, RowOrderIs, Zenon
  <2> QED BY <2>1, <2>2, <2>3 DEF Order
<1>8. IsFiniteSet(Rows) /\ Cardinality(Rows) = Len(messages)
  <2>1. 1 \in Int /\ Len(messages) \in Int
    BY <1>1
  <2>2. IsFiniteSet(1..Len(messages))
        /\ Cardinality(1..Len(messages)) = IF 1 > Len(messages) THEN 0 ELSE Len(messages) - 1 + 1
    BY <2>1, FS_Interval
  <2> QED BY <1>1, <2>2
<1> QED BY <1>7, <1>8

(* The nth row of a listing, and its place.                                *)
LEMMA RowIs ==
  ASSUME NEW lists, now \in Nat, Conversation(messages, composed, now, lists), NEW n \in Rows
  PROVE  Row(n) \in Rows /\ Cardinality(Ahead(Row(n))) = n - 1
<1>1. Order(Rows, RowOrder) /\ IsFiniteSet(Rows) /\ Cardinality(Rows) = Len(messages)
  BY RowsOrdered
<1>2. n - 1 \in Nat /\ n - 1 < Cardinality(Rows)
  BY <1>1, ConversationTypes DEF Rows
<1>3. \E r \in Rows : Cardinality(Lower(Rows, RowOrder, r)) = n - 1
  BY <1>1, <1>2, RankOnto
<1>4. \A r \in Rows : Lower(Rows, RowOrder, r) = Ahead(r)
  BY RowOrderIs DEF Lower, Ahead, Rows
<1>5. \E r \in DOMAIN messages : Cardinality(Ahead(r)) = n - 1
  BY <1>3, <1>4 DEF Rows
<1> QED BY <1>5, Zenon DEF Row, Rows

LEMMA PlaceOf ==
  ASSUME NEW lists, now \in Nat, Conversation(messages, composed, now, lists), NEW r \in Rows
  PROVE  /\ Cardinality(Ahead(r)) \in Nat /\ Cardinality(Ahead(r)) + 1 \in Rows
         /\ Row(Cardinality(Ahead(r)) + 1) = r
         /\ \A s \in Rows : Precedes(s, r) => Cardinality(Ahead(s)) < Cardinality(Ahead(r))
<1>1. Order(Rows, RowOrder) /\ IsFiniteSet(Rows) /\ Cardinality(Rows) = Len(messages)
  BY RowsOrdered
<1>2. \A s \in Rows : Lower(Rows, RowOrder, s) = Ahead(s)
  BY RowOrderIs DEF Lower, Ahead, Rows
<1>3. Cardinality(Ahead(r)) \in Nat /\ Cardinality(Ahead(r)) < Len(messages)
  <2>1. Cardinality(Lower(Rows, RowOrder, r)) \in Nat
        /\ Cardinality(Lower(Rows, RowOrder, r)) < Cardinality(Rows)
    BY <1>1, LowerFinite, RankBounded
  <2> QED BY <1>1, <1>2, <2>1
<1>4. Cardinality(Ahead(r)) + 1 \in Rows
  BY <1>3, ConversationTypes DEF Rows
<1>5. PICK n \in Rows : n = Cardinality(Ahead(r)) + 1
  BY <1>4
<1>6. Row(n) = r
  <2>1. Row(n) \in Rows /\ Cardinality(Ahead(Row(n))) = n - 1
    BY RowIs
  <2>2. Cardinality(Ahead(Row(n))) = Cardinality(Ahead(r))
    BY <1>3, <1>5, <2>1
  <2>3. Cardinality(Lower(Rows, RowOrder, Row(n))) = Cardinality(Lower(Rows, RowOrder, r))
    BY <1>2, <2>1, <2>2
  <2> QED BY <1>1, <2>1, <2>3, RankUnique
<1>7. ASSUME NEW s \in Rows, Precedes(s, r) PROVE Cardinality(Ahead(s)) < Cardinality(Ahead(r))
  <2>1. <<s, r>> \in RowOrder
    BY <1>7, RowOrderIs
  <2>2. Cardinality(Lower(Rows, RowOrder, s)) < Cardinality(Lower(Rows, RowOrder, r))
    BY <1>1, <2>1, RankGrows
  <2> QED BY <1>2, <2>2
<1> QED BY <1>3, <1>4, <1>5, <1>6, <1>7

LEMMA ListingInOrder ==
  ASSUME NEW lists, now \in Nat, Conversation(messages, composed, now, lists)
  PROVE  Listing \in Seq(DOMAIN composed) /\ InOrderShown(Listing, composed)
<1> DEFINE L == Listing
<1>1. /\ Len(messages) \in Nat /\ Rows = 1..Len(messages) /\ DOMAIN messages = Rows
      /\ \A k \in Rows : messages[k] \in DOMAIN composed
      /\ \A m \in DOMAIN composed : composed[m].at \in Nat
  BY ConversationTypes DEF Rows
<1>2. DOMAIN L = Rows /\ \A n \in Rows : L[n] = messages[Row(n)]
  BY DEF Listing, Rows
<1>3. \A n \in Rows : L[n] \in DOMAIN composed
  BY <1>1, <1>2, RowIs
<1>4. L \in Seq(DOMAIN composed)
  <2>1. L = [n \in 1..Len(messages) |-> messages[Row(n)]]
    BY <1>1 DEF Listing
  <2>2. L \in [1..Len(messages) -> DOMAIN composed]
    BY <1>1, <1>2, <1>3, <2>1
  <2> HIDE DEF L
  <2> QED BY <1>1, <2>2
<1> HIDE DEF L
<1>5. ASSUME NEW k \in Rows, NEW j \in Rows, L[j] = L[k] PROVE j = k
  <2>1. messages[Row(j)] = messages[Row(k)] /\ Row(j) \in Rows /\ Row(k) \in Rows
    BY <1>2, <1>5, RowIs
  <2>2. Row(j) = Row(k)
    BY <1>1, <2>1 DEF Conversation
  <2>3. Cardinality(Ahead(Row(j))) = j - 1 /\ Cardinality(Ahead(Row(k))) = k - 1
    BY RowIs
  <2>4. j - 1 = k - 1 /\ j \in Nat /\ k \in Nat
    BY <1>1, <2>2, <2>3
  <2> QED BY <2>4
<1>6. ASSUME NEW k \in Rows, NEW a \in composed[L[k]].after
      PROVE  \E j \in 1..(k - 1) : L[j] = a
  <2>1. PICK r \in Rows : r = Row(k) /\ messages[r] = L[k] /\ Cardinality(Ahead(r)) = k - 1
    BY <1>2, RowIs
  <2>2. ComesFirst(a, L[k], messages, composed)
    BY <1>3, <1>6 DEF Conversation
  <2>3. PICK s \in Rows : /\ messages[s] = a /\ s < r
                          /\ composed[a].at <= composed[L[k]].at
    BY <1>1, <2>1, <2>2 DEF ComesFirst
  <2>4. Precedes(s, r)
    <3>1. composed[messages[s]].at <= composed[messages[r]].at
          /\ composed[messages[s]].at \in Nat /\ composed[messages[r]].at \in Nat
      BY <1>1, <2>1, <2>3
    <3> QED BY <2>3, <3>1 DEF Precedes
  <2>5. PICK j : j = Cardinality(Ahead(s)) + 1
    OBVIOUS
  <2>6. /\ Cardinality(Ahead(s)) \in Nat /\ j \in Rows /\ Row(j) = s
    BY <2>5, PlaceOf
  <2>7. Cardinality(Ahead(s)) < Cardinality(Ahead(r))
    BY <2>4, PlaceOf
  <2>8. j \in 1..(k - 1)
    <3>1. k \in Nat
      BY <1>1
    <3> QED BY <2>1, <2>5, <2>6, <2>7, <3>1
  <2>9. L[j] = a
    BY <1>2, <2>3, <2>6
  <2> QED BY <2>8, <2>9
<1>7. InOrderShown(L, composed)
  BY <1>2, <1>5, <1>6 DEF InOrderShown
<1> QED BY <1>4, <1>7 DEF L

LEMMA MessagesStay ==
  ASSUME MessageInv, now \in Nat, now' \in Nat, now <= now', UNCHANGED messageVars,
         NEW ops, Kept(ops), "append" \notin ops
  PROVE  MessageInv'
<1>1. Conversation(messages, composed, now', shown)
  BY TimePasses DEF MessageInv
<1>2. Conversation(messages, composed, now, shown)'
  BY <1>1 DEF messageVars, Conversation
<1>3. Drafted(draft, composed)'
  <2>1. \A i \in DOMAIN calls' : calls'[i].op = "append" =>
          i \in DOMAIN calls /\ calls[i].op = "append" /\ calls'[i].arg = calls[i].arg
    BY DEF Kept
  <2> QED BY <2>1 DEF MessageInv, Drafted, messageVars
<1> QED BY <1>2, <1>3 DEF MessageInv, messageVars

LEMMA MessageStepInv ==
  ASSUME Typed, MessageInv, MessageStep, now' = now
  PROVE  MessageInv'
<1>0. now \in Nat /\ CallsTyped /\ CallsTyped' /\ MessageTyped
  BY MessageStepShape DEF Typed
<1>1. ASSUME NEW c \in Client, CallAppend(c) PROVE MessageInv'
  <2>1. PICK n : n = Len(calls) + 1
    OBVIOUS
  <2>2. ASSUME NEW m, Send(c, "append", m), m \in DOMAIN composed',
               composed' = composed \/ composed' = Append(composed, [at |-> now, after |-> Range(messages)]),
               DOMAIN composed \subseteq DOMAIN composed', Len(composed) <= Len(composed'),
               draft' = draft \/ draft' = [draft EXCEPT ![c] = m],
               DOMAIN composed' = 1..Len(composed'), Len(composed') \in Nat
        PROVE  Drafted(draft, composed)'
    <3>0. m \in 1..Len(composed') /\ m \in Nat /\ m \in 0..Len(composed')
      <4>1. m \in 1..Len(composed')
        BY <2>2
      <4>2. PICK n2 \in Nat : n2 = Len(composed')
        BY <2>2
      <4> QED BY <4>1, <4>2
    <3>1. "append" \in Ops /\ m \in Arg /\ ArgTyped("append", m)
      BY <3>0 DEF Ops, Arg, ArgTyped
    <3> DEFINE call == [client |-> c, op |-> "append", pc |-> "queued", result |-> "none", arg |-> m]
    <3>2. /\ DOMAIN calls = 1..Len(calls) /\ DOMAIN calls' = 1..n /\ Len(calls) \in Nat
          /\ \A j \in DOMAIN calls : calls'[j] = calls[j]
          /\ calls'[n] = call
      BY <1>0, <2>1, <2>2, <3>1, SendAdds, Zenon
    <3>3. call.arg = m
      OBVIOUS
    <3>4. \A j \in DOMAIN calls' : j \in DOMAIN calls \/ j = n
      BY <2>1, <3>2
    <3> HIDE DEF call
    <3>5. \A i \in DOMAIN calls' : calls'[i].op = "append" => calls'[i].arg \in DOMAIN composed'
      BY <2>2, <3>2, <3>3, <3>4 DEF MessageInv, Drafted
    <3>6. draft' \in [Client -> 0..Len(composed')]
      <4>1. Len(composed) \in Nat /\ draft \in [Client -> 0..Len(composed)]
        BY <1>0, LenProperties DEF MessageTyped, MessageInv, Drafted
      <4>2. 0..Len(composed) \subseteq 0..Len(composed')
        <5>1. PICK a \in Nat, b \in Nat : a = Len(composed) /\ b = Len(composed') /\ a <= b
          BY <2>2, <4>1
        <5> QED BY <5>1
      <4>3. draft \in [Client -> 0..Len(composed')]
        BY <4>1, <4>2
      <4> QED BY <2>2, <3>0, <4>3
    <3> QED BY <3>5, <3>6 DEF Drafted
  <2>3. CASE UNCHANGED messageVars /\ draft[c] # 0 /\ Send(c, "append", draft[c])
    <3>1. draft[c] \in 1..Len(composed) /\ DOMAIN composed = 1..Len(composed) /\ Len(composed) \in Nat
      BY <1>0, <2>3, LenProperties, ConversationTypes DEF MessageInv, Drafted
    <3>2. composed' = composed /\ draft' = draft /\ Len(composed) <= Len(composed')
      BY <2>3, <3>1 DEF messageVars
    <3>3. Drafted(draft, composed)'
      BY <2>2, <2>3, <3>1, <3>2
    <3>4. Conversation(messages, composed, now, shown)'
      BY <2>3 DEF MessageInv, messageVars, Conversation
    <3> QED BY <2>3, <3>3, <3>4 DEF MessageInv, messageVars
  <2>4. CASE /\ composed' = Append(composed, [at |-> now, after |-> Range(messages)])
             /\ draft' = [draft EXCEPT ![c] = Len(composed')]
             /\ Send(c, "append", draft'[c])
             /\ UNCHANGED <<messages, shown>>
    <3>1. PICK longer : longer = composed'
      OBVIOUS
    <3>2. longer = Append(composed, MadeNow(now, messages))
      BY <2>4, <3>1 DEF MadeNow
    <3>3. /\ Conversation(messages, longer, now, shown)
          /\ Len(longer) = Len(composed) + 1 /\ DOMAIN composed \subseteq DOMAIN longer
          /\ Len(longer) \in DOMAIN longer
      <4>1. Conversation(messages, composed, now, shown)
        BY DEF MessageInv
      <4> QED BY <1>0, <3>2, <4>1, MessageMade, Zenon
    <3>4. Len(longer) \in Nat /\ DOMAIN longer = 1..Len(longer) /\ Len(composed) \in Nat
      BY <1>0, <3>3, ConversationTypes DEF MessageInv
    <3>5. draft'[c] = Len(longer) /\ draft' = [draft EXCEPT ![c] = Len(longer)]
      BY <2>4, <3>1 DEF MessageInv, Drafted
    <3>6. Drafted(draft, composed)'
      <4>1. Send(c, "append", Len(longer)) /\ Len(composed) <= Len(composed')
        BY <2>4, <3>1, <3>3, <3>4, <3>5
      <4> QED BY <2>2, <2>4, <3>1, <3>3, <3>4, <3>5, <4>1
    <3>7. Conversation(messages, composed, now, shown)'
      BY <2>4, <3>1, <3>3
    <3> QED BY <2>4, <3>6, <3>7 DEF MessageInv
  <2> QED BY <1>1, <2>3, <2>4 DEF CallAppend
<1>2. ASSUME NEW c \in Client, CallMessages(c) PROVE MessageInv'
  <2>1. Send(c, "messages", 0) /\ "messages" \in NumberOps /\ "messages" \in {"messages"} /\ 0 \in Nat
        /\ "append" \notin {"messages"}
    BY <1>2 DEF CallMessages, NumberOps, Ops
  <2>2. Kept({"messages"})
    BY <1>0, <2>1, NumberKept, Zenon
  <2>3. now <= now'
    BY <1>0
  <2> QED BY <1>0, <1>2, <2>1, <2>2, <2>3, MessagesStay DEF CallMessages
<1>3. ASSUME NEW i \in DOMAIN calls, AppendMessage(i) \/ ListMessages(i) PROVE MessageInv'
  <2>1. PICK r \in Result : End(i, r)
    BY <1>3 DEF AppendMessage, ListMessages, Result
  <2>2. Kept({})
    BY <1>0, <2>1, EndKept
  <2>3. composed' = composed /\ draft' = draft
    BY <1>3 DEF AppendMessage, ListMessages
  <2>4. Drafted(draft, composed)'
    <3>1. \A j \in DOMAIN calls' : calls'[j].op = "append" =>
            j \in DOMAIN calls /\ calls[j].op = "append" /\ calls'[j].arg = calls[j].arg
      BY <2>2 DEF Kept
    <3> QED BY <2>3, <3>1 DEF MessageInv, Drafted
  <2>5. CASE UNCHANGED messages /\ UNCHANGED shown
    <3>1. Conversation(messages, composed, now, shown)'
      BY <2>3, <2>5 DEF MessageInv, Conversation
    <3> QED BY <2>4, <2>5, <3>1 DEF MessageInv
  <2>6. CASE AppendMessage(i) /\ calls[i].arg \notin Range(messages)
             /\ messages' = Append(messages, calls[i].arg)
    <3>1. calls[i].arg \in DOMAIN composed
      BY <2>6 DEF AppendMessage, May, MessageInv, Drafted
    <3>2. Conversation(messages', composed, now, shown)
      BY <1>0, <2>6, <3>1, MessageStored DEF MessageInv
    <3>3. shown' = shown
      BY <2>6 DEF AppendMessage
    <3>4. Conversation(messages, composed, now, shown)'
      BY <2>3, <3>2, <3>3
    <3> QED BY <2>4, <3>3, <3>4 DEF MessageInv
  <2>7. CASE ListMessages(i) /\ shown' = [shown EXCEPT ![Owner(i)] = Listing]
    <3>1. Listing \in Seq(DOMAIN composed) /\ InOrderShown(Listing, composed)
      BY <1>0, ListingInOrder DEF MessageInv
    <3>2. \A c \in Client : shown'[c] = shown[c] \/ shown'[c] = Listing
      BY <2>7 DEF MessageInv
    <3>3. \A c \in Client : shown'[c] \in Seq(DOMAIN composed) /\ InOrderShown(shown'[c], composed)
      BY <3>1, <3>2 DEF MessageInv, Conversation
    <3>4. Conversation(messages, composed, now, shown')
      BY <3>3 DEF MessageInv, Conversation
    <3>5. messages' = messages /\ DOMAIN shown' = Client
      BY <2>7 DEF ListMessages, MessageInv
    <3>6. Conversation(messages, composed, now, shown)'
      BY <2>3, <3>4, <3>5
    <3> QED BY <2>4, <3>5, <3>6 DEF MessageInv
  <2> QED BY <1>3, <2>5, <2>6, <2>7 DEF AppendMessage, ListMessages
<1> QED BY <1>1, <1>2, <1>3 DEF MessageStep

LEMMA TimeGoesOn == Typed /\ [Next]_vars => now' \in Nat /\ now <= now' /\ (now' = now \/ Tick)
<1> SUFFICES ASSUME Typed, [Next]_vars PROVE now' \in Nat /\ now <= now' /\ (now' = now \/ Tick)
  OBVIOUS
<1>1. now \in Nat
  BY DEF Typed
<1>2. now' = now \/ Tick
  BY DEF Next, vars
<1>3. Tick => now' = now + 1
  BY DEF Tick
<1> QED BY <1>1, <1>2, <1>3

LEMMA MessageInvariant == Spec => [](Typed /\ MessageInv)
<1>1. Init => Typed /\ MessageInv
  <2>1. ASSUME Init PROVE MessageInv
    <3>1. /\ messages = <<>> /\ composed = <<>> /\ calls = <<>> /\ now = 0
          /\ draft = [c \in Client |-> 0] /\ shown = [c \in Client |-> <<>>]
      BY <2>1 DEF Init, RecordsInit, InteractInit
    <3>2. Conversation(messages, composed, now, shown)
      BY <3>1, EmptySeq DEF Conversation, InOrderShown
    <3>3. Drafted(draft, composed)
      BY <3>1 DEF Drafted
    <3> QED BY <3>1, <3>2, <3>3 DEF MessageInv
  <2> QED BY <2>1, InitTyped
<1>2. Typed /\ MessageInv /\ [Next]_vars => (Typed /\ MessageInv)'
  <2> SUFFICES ASSUME Typed, MessageInv, [Next]_vars PROVE MessageInv'
    BY NextTyped
  <2>1. now \in Nat /\ now' \in Nat /\ now <= now' /\ (now' = now \/ Tick)
    BY TimeGoesOn DEF Typed
  <2>2. CASE MessageStep /\ now' = now
    BY <2>2, MessageStepInv
  <2>3. ASSUME UNCHANGED messageVars, NEW ops, Kept(ops), "append" \notin ops PROVE MessageInv'
    BY <2>1, <2>3, MessagesStay, Zenon
  <2>4. CASE SessionStep /\ UNCHANGED messageVars
    BY <2>3, <2>4, SessionStepKept DEF SessionOps
  <2>5. CASE RunStep /\ UNCHANGED messageVars
    BY <2>3, <2>5, RunStepKept DEF RunOps, RunReads
  <2>6. CASE ApprovalStep /\ UNCHANGED messageVars
    BY <2>3, <2>6, ApprovalStepKept DEF ApprovalOps
  <2>7. CASE PageStep /\ UNCHANGED messageVars
    BY <2>3, <2>7, PageStepKept DEF PageOps
  <2>8. CASE UNCHANGED messageVars /\ (Tick \/ (\E c \in Client : GiveUp(c))
                                       \/ (\E i \in DOMAIN calls : Fail(i)) \/ UNCHANGED vars)
    <3>1. Kept({})
      BY <2>8, OtherStepsKept
    <3> QED BY <2>3, <2>8, <3>1
  <2> QED BY <2>2, <2>4, <2>5, <2>6, <2>7, <2>8 DEF Next, vars, recordVars
<1> QED BY <1>1, <1>2, PTL DEF Spec

(* Whoever appends, tries again and lists, in whatever processes: no list  *)
(* shows an answer before its question, or a message twice                 *)
(* (messages.rs:64).                                                       *)
THEOREM QuestionsComeFirst == Spec => []ConversationOrder
<1>1. Typed /\ MessageInv => ConversationOrder
  BY DEF MessageInv, Conversation, InOrderShown, ConversationOrder
<1> QED BY <1>1, MessageInvariant, PTL

-----------------------------------------------------------------------------
(* The pages. While nobody updates a session, the others only come before  *)
(* it in the list: what a reader has not seen yet still lies ahead.        *)

NewerIn(u, s, r) == u[s] > u[r] \/ (u[s] = u[r] /\ s < r)
Newers(u, r) == {s \in DOMAIN u : NewerIn(u, s, r)}
NewerOrder(D, u) == {p \in D \X D : NewerIn(u, p[1], p[2])}

LEMMA NewerOrderIs ==
  ASSUME NEW D, NEW u, NEW j \in D, NEW k \in D
  PROVE  <<j, k>> \in NewerOrder(D, u) <=> NewerIn(u, j, k)
<1>1. <<j, k>> \in D \X D /\ <<j, k>>[1] = j /\ <<j, k>>[2] = k
  OBVIOUS
<1> QED BY <1>1, Zenon DEF NewerOrder

LEMMA ListTypes ==
  ASSUME NEW u \in Seq(Nat)
  PROVE  /\ Len(u) \in Nat /\ DOMAIN u = 1..Len(u) /\ IsFiniteSet(DOMAIN u)
         /\ \A r \in DOMAIN u : u[r] \in Nat /\ r \in Nat
<1>1. Len(u) \in Nat /\ DOMAIN u = 1..Len(u)
  BY LenProperties
<1>2. 1 \in Int /\ Len(u) \in Int
  BY <1>1
<1>3. IsFiniteSet(1..Len(u))
  BY <1>2, FS_Interval
<1>4. \A r \in 1..Len(u) : u[r] \in Nat /\ r \in Nat
  BY <1>1, ElementOfSeq
<1> QED BY <1>1, <1>3, <1>4

LEMMA SessionsOrdered ==
  ASSUME NEW u \in Seq(Nat)
  PROVE  Order(DOMAIN u, NewerOrder(DOMAIN u, u))
<1>1. \A r \in DOMAIN u : u[r] \in Nat /\ r \in Nat
  BY ListTypes
<1>2. \A x \in DOMAIN u : ~NewerIn(u, x, x)
  BY <1>1 DEF NewerIn
<1>3. \A x, y, z \in DOMAIN u : NewerIn(u, x, y) /\ NewerIn(u, y, z) => NewerIn(u, x, z)
  BY <1>1 DEF NewerIn
<1>4. \A x, y \in DOMAIN u : x # y => NewerIn(u, x, y) \/ NewerIn(u, y, x)
  BY <1>1 DEF NewerIn
<1>6. \A x \in DOMAIN u : <<x, x>> \notin NewerOrder(DOMAIN u, u)
  BY <1>2, NewerOrderIs
<1>7. \A x, y, z \in DOMAIN u :
        <<x, y>> \in NewerOrder(DOMAIN u, u) /\ <<y, z>> \in NewerOrder(DOMAIN u, u) => <<x, z>> \in NewerOrder(DOMAIN u, u)
  BY <1>3, NewerOrderIs, Zenon
<1>8. \A x, y \in DOMAIN u : x # y => <<x, y>> \in NewerOrder(DOMAIN u, u) \/ <<y, x>> \in NewerOrder(DOMAIN u, u)
  BY <1>4, NewerOrderIs, Zenon
<1> QED BY <1>6, <1>7, <1>8 DEF Order

LEMMA NewersAre ==
  ASSUME NEW u \in Seq(Nat), NEW r \in DOMAIN u
  PROVE  /\ Lower(DOMAIN u, NewerOrder(DOMAIN u, u), r) = Newers(u, r)
         /\ Newers(u, r) \subseteq DOMAIN u /\ IsFiniteSet(Newers(u, r))
         /\ Cardinality(Newers(u, r)) \in Nat
<1>1. Lower(DOMAIN u, NewerOrder(DOMAIN u, u), r) = Newers(u, r)
  BY NewerOrderIs DEF Lower, Newers
<1>2. Newers(u, r) \in SUBSET DOMAIN u
  BY DEF Newers
<1> QED BY <1>1, <1>2, ListTypes, FS_Subset, FS_CardinalityType

(* Sessions that move only to the front do not bring others nearer to it.  *)
LEMMA OthersGoBack ==
  ASSUME NEW u \in Seq(Nat), NEW v \in Seq(Nat), DOMAIN u \subseteq DOMAIN v,
         NEW r \in DOMAIN u, v[r] = u[r], \A s \in DOMAIN u : u[s] <= v[s]
  PROVE  Cardinality(Newers(u, r)) <= Cardinality(Newers(v, r))
<1>1. \A s \in DOMAIN u : u[s] \in Nat /\ v[s] \in Nat /\ s \in Nat
  BY ListTypes
<1>2. ASSUME NEW s \in Newers(u, r) PROVE s \in Newers(v, r)
  <2>1. s \in DOMAIN u /\ NewerIn(u, s, r)
    BY <1>2 DEF Newers
  <2>2. NewerIn(v, s, r)
    BY <1>1, <2>1 DEF NewerIn
  <2> QED BY <2>1, <2>2 DEF Newers
<1>3. Newers(u, r) \in SUBSET Newers(v, r)
  BY <1>2
<1> QED BY <1>3, NewersAre, FS_Subset

(* When a session lies behind a whole page, the page is full.              *)
LEMMA PageFull ==
  ASSUME NEW u \in Seq(Nat), NEW o \in Nat, NEW r \in DOMAIN u,
         Cardinality(Newers(u, r)) >= o + PageSize,
         NEW page, page = {x \in DOMAIN u : Cardinality(Newers(u, x)) \in o..(o + PageSize - 1)}
  PROVE  Cardinality(page) >= PageSize
<1> DEFINE T == o..(o + PageSize - 1)
           f == [x \in page |-> Cardinality(Newers(u, x))]
<1>0. PageSize \in Nat \ {0}
  BY RecordsAssumption
<1>1. IsFiniteSet(T) /\ Cardinality(T) = PageSize
  <2>1. PICK b : b = o + PageSize - 1
    OBVIOUS
  <2>2. o \in Int /\ b \in Int /\ o <= b /\ b - o + 1 = PageSize
    BY <1>0, <2>1
  <2>3. IsFiniteSet(o..b) /\ Cardinality(o..b) = IF o > b THEN 0 ELSE b - o + 1
    BY <2>2, FS_Interval
  <2>4. IsFiniteSet(o..b) /\ Cardinality(o..b) = PageSize
    BY <2>2, <2>3
  <2> QED BY <2>1, <2>4
<1>2. IsFiniteSet(page)
  <2>1. page \in SUBSET DOMAIN u
    OBVIOUS
  <2> QED BY <2>1, ListTypes, FS_Subset
<1>3. f \in [page -> T]
  OBVIOUS
<1>4. ASSUME NEW n \in T PROVE \E x \in page : f[x] = n
  <2>1. Cardinality(Newers(u, r)) \in Nat /\ n \in Nat /\ n < Cardinality(Newers(u, r))
    BY <1>0, NewersAre
  <2>2. n < Cardinality(DOMAIN u)
    <3>1. Cardinality(Newers(u, r)) <= Cardinality(DOMAIN u) /\ Cardinality(DOMAIN u) \in Nat
      BY NewersAre, ListTypes, FS_Subset, FS_CardinalityType
    <3> QED BY <2>1, <3>1
  <2>3. PICK x \in DOMAIN u : Cardinality(Lower(DOMAIN u, NewerOrder(DOMAIN u, u), x)) = n
    BY <2>1, <2>2, SessionsOrdered, ListTypes, RankOnto
  <2>4. Cardinality(Newers(u, x)) = n
    BY <2>3, NewersAre
  <2> QED BY <1>4, <2>4
<1> HIDE DEF T, f
<1>5. f \in Surjection(page, T)
  BY <1>3, <1>4 DEF Surjection
<1>6. Cardinality(T) <= Cardinality(page) /\ Cardinality(page) \in Nat
  BY <1>2, <1>5, FS_Surjection, FS_CardinalityType
<1> QED BY <1>0, <1>1, <1>6

-----------------------------------------------------------------------------
StillAhead(reader, u) ==
  /\ reader = [offset |-> reader.offset, got |-> reader.got, due |-> reader.due, done |-> reader.done]
  /\ reader.offset \in Nat /\ reader.done \in BOOLEAN
  /\ reader.got \subseteq DOMAIN u /\ reader.due \subseteq DOMAIN u
  /\ \A r \in reader.due \ reader.got :
       ~reader.done /\ Cardinality(Newers(u, r)) >= reader.offset

PageCalls ==
  \A i \in DOMAIN calls :
    /\ calls[i].op = "open" => calls[i].arg <= now
    /\ calls[i].op = "touch" => calls[i].arg \in DOMAIN updated
    /\ calls[i].op = "page" /\ waiting[calls[i].client] = i =>
         /\ ~reading[calls[i].client].done
         /\ calls[i].arg = reading[calls[i].client].offset

PageInv ==
  /\ updated \in Seq(Nat) /\ \A r \in DOMAIN updated : updated[r] <= now
  /\ DOMAIN reading = Client /\ \A c \in Client : StillAhead(reading[c], updated)
  /\ DOMAIN waiting = Client
  /\ PageCalls

LEMMA ReaderUnmoved ==
  ASSUME NEW reader, NEW u \in Seq(Nat), NEW v \in Seq(Nat), StillAhead(reader, u),
         DOMAIN u \subseteq DOMAIN v, \A s \in DOMAIN u : u[s] <= v[s],
         \A r \in reader.due : v[r] = u[r]
  PROVE  StillAhead(reader, v)
<1>1. ASSUME NEW r \in reader.due \ reader.got
      PROVE  ~reader.done /\ Cardinality(Newers(v, r)) >= reader.offset
  <2>1. r \in DOMAIN u /\ r \in DOMAIN v /\ v[r] = u[r]
    BY DEF StillAhead
  <2>2. Cardinality(Newers(u, r)) <= Cardinality(Newers(v, r))
    BY <2>1, OthersGoBack
  <2>3. Cardinality(Newers(u, r)) \in Nat /\ Cardinality(Newers(v, r)) \in Nat
    BY <2>1, NewersAre
  <2>4. ~reader.done /\ Cardinality(Newers(u, r)) >= reader.offset /\ reader.offset \in Nat
    BY DEF StillAhead
  <2> QED BY <2>2, <2>3, <2>4
<1> QED BY <1>1 DEF StillAhead

(* A reader that was shown a page.                                         *)
LEMMA ReaderMoved ==
  ASSUME NEW reader, NEW u \in Seq(Nat), StillAhead(reader, u),
         NEW page, page = {x \in DOMAIN u : Cardinality(Newers(u, x)) \in
                                              reader.offset..(reader.offset + PageSize - 1)},
         NEW next, next = [offset |-> reader.offset + PageSize, got |-> reader.got \cup page,
                           due |-> IF reader.offset = 0 THEN DOMAIN u ELSE reader.due,
                           done |-> Cardinality(page) < PageSize]
  PROVE  StillAhead(next, u)
<1> DEFINE o == reader.offset
<1>0. PageSize \in Nat \ {0} /\ o \in Nat /\ reader.got \subseteq DOMAIN u
      /\ reader.due \subseteq DOMAIN u
  BY RecordsAssumption DEF StillAhead
<1>1. ASSUME NEW r \in next.due \ next.got
      PROVE  ~next.done /\ Cardinality(Newers(u, r)) >= next.offset
  <2>1. r \in DOMAIN u /\ r \notin page /\ r \notin reader.got /\ (o = 0 \/ r \in reader.due)
    BY <1>0, <1>1
  <2>2. Cardinality(Newers(u, r)) \in Nat
    BY <2>1, NewersAre
  <2>3. Cardinality(Newers(u, r)) >= o
    BY <1>0, <2>1, <2>2 DEF StillAhead
  <2>4. Cardinality(Newers(u, r)) \notin o..(o + PageSize - 1)
    BY <2>1
  <2>5. Cardinality(Newers(u, r)) >= o + PageSize
    BY <1>0, <2>2, <2>3, <2>4
  <2>6. Cardinality(page) >= PageSize
    BY <1>0, <2>1, <2>5, PageFull
  <2>7. Cardinality(page) \in Nat
    <3>1. page \in SUBSET DOMAIN u
      OBVIOUS
    <3> QED BY <3>1, ListTypes, FS_Subset, FS_CardinalityType
  <2>8. ~next.done
    <3>1. next.done = (Cardinality(page) < PageSize)
      OBVIOUS
    <3>2. ~(Cardinality(page) < PageSize)
      BY <1>0, <2>6, <2>7
    <3> QED BY <3>1, <3>2
  <2>9. next.offset = o + PageSize
    OBVIOUS
  <2> QED BY <2>5, <2>8, <2>9
<1>2. next.offset \in Nat /\ next.done \in BOOLEAN
  BY <1>0
<1>3. next.got \subseteq DOMAIN u /\ next.due \subseteq DOMAIN u
  BY <1>0
<1>4. next = [offset |-> next.offset, got |-> next.got, due |-> next.due, done |-> next.done]
  OBVIOUS
<1> QED BY <1>1, <1>2, <1>3, <1>4 DEF StillAhead

LEMMA PagesStay ==
  ASSUME Typed, PageInv, now' \in Nat, now <= now', UNCHANGED pageVars,
         NEW ops, Kept(ops), ops \cap PageOps = {}
  PROVE  PageInv'
<1>1. now \in Nat /\ CallsTyped
  BY DEF Typed
<1>2. \A r \in DOMAIN updated : updated[r] <= now'
  <2>1. \A r \in DOMAIN updated : updated[r] \in Nat /\ updated[r] <= now
    BY ListTypes DEF PageInv
  <2> QED BY <1>1, <2>1
<1>3. PageCalls'
  <2>1. \A i \in DOMAIN calls' : calls'[i].op \in PageOps =>
          /\ i \in DOMAIN calls /\ calls'[i].op = calls[i].op /\ calls'[i].arg = calls[i].arg
          /\ calls'[i].client = calls[i].client
          /\ waiting'[calls[i].client] = i => waiting[calls[i].client] = i
    BY DEF Kept
  <2>2. \A i \in DOMAIN calls : calls[i].op = "open" => calls[i].arg <= now'
    <3>1. \A i \in DOMAIN calls : calls[i].op = "open" => calls[i].arg \in Nat /\ calls[i].arg <= now
      BY <1>1 DEF CallsTyped, ArgTyped, PageInv, PageCalls
    <3> QED BY <1>1, <3>1
  <2>3. {"open", "touch", "page"} = PageOps
    BY DEF PageOps
  <2> QED BY <2>1, <2>2, <2>3 DEF PageInv, PageCalls, pageVars
<1>4. \A c \in Client : StillAhead(reading[c], updated)'
  BY DEF PageInv, pageVars, StillAhead, Newers, NewerIn
<1> QED BY <1>2, <1>3, <1>4 DEF PageInv, pageVars, Kept

(* A call of these operations is sent with what its client knows.          *)
LEMMA PageSent ==
  ASSUME Typed, PageInv, now' = now, UNCHANGED pageVars,
         NEW c \in Client, NEW op \in NumberOps, op \in PageOps, NEW m \in Nat, Send(c, op, m),
         op = "open" => m <= now, op = "touch" => m \in DOMAIN updated,
         op = "page" => ~reading[c].done /\ m = reading[c].offset
  PROVE  PageInv'
<1> DEFINE n == Len(calls) + 1
           call == [client |-> c, op |-> op, pc |-> "queued", result |-> "none", arg |-> m]
<1>0. now \in Nat /\ CallsTyped
  BY DEF Typed
<1>1. op \in Ops /\ m \in Arg /\ ArgTyped(op, m)
  BY DEF Arg, ArgTyped, NumberOps
<1>2. /\ DOMAIN calls' = 1..n /\ DOMAIN calls = 1..Len(calls) /\ Len(calls) \in Nat
      /\ \A j \in DOMAIN calls : calls'[j] = calls[j]
      /\ calls'[n] = call
  BY <1>0, <1>1, SendAdds, Zenon
<1>3. call.op = op /\ call.client = c /\ call.arg = m
  OBVIOUS
<1>4. \A j \in DOMAIN calls' : j \in DOMAIN calls \/ j = n
  BY <1>2
<1>5. Kept(PageOps)
  BY <1>0, NumberKept
<1> HIDE DEF n, call
<1>6. \A i \in DOMAIN calls' :
        \/ /\ i \in DOMAIN calls /\ calls'[i] = calls[i]
           /\ waiting'[calls[i].client] = i => waiting[calls[i].client] = i
        \/ i = n
  BY <1>2, <1>4, <1>5 DEF Kept
<1>7. PageCalls'
  BY <1>2, <1>3, <1>6 DEF PageInv, PageCalls, pageVars
<1>8. \A c2 \in Client : StillAhead(reading[c2], updated)'
  BY DEF PageInv, pageVars, StillAhead, Newers, NewerIn
<1> QED BY <1>5, <1>7, <1>8 DEF PageInv, pageVars, Kept

(* A call that ends.                                                       *)
LEMMA PageCallEnds ==
  ASSUME Typed, PageInv, NEW i \in DOMAIN calls, NEW result \in Result, End(i, result),
         now' = now, DOMAIN updated \subseteq DOMAIN updated',
         \A c \in Client :
           \/ reading'[c].offset = reading[c].offset /\ reading'[c].done = reading[c].done
           \/ Told(i) /\ c = Owner(i)
  PROVE  PageCalls' /\ DOMAIN waiting' = Client
<1>1. CallsTyped
  BY DEF Typed
<1>2. Kept({})
  BY <1>1, EndKept
<1>3. DOMAIN waiting' = Client
  BY <1>2 DEF Kept, PageInv
<1>4. \A j \in DOMAIN calls' :
        /\ j \in DOMAIN calls /\ j # 0 /\ calls'[j].op = calls[j].op /\ calls'[j].arg = calls[j].arg
        /\ calls'[j].client = calls[j].client /\ calls[j].client \in Client
        /\ waiting'[calls[j].client] = j => waiting[calls[j].client] = j
  BY <1>1, <1>2, CallTyped DEF Kept, Owner
<1>5. Told(i) => waiting'[Owner(i)] = 0
  BY <1>1, CallTyped DEF End, PageInv
<1>6. ASSUME NEW j \in DOMAIN calls', calls'[j].op = "page", waiting'[calls'[j].client] = j
      PROVE  /\ ~reading'[calls'[j].client].done
             /\ calls'[j].arg = reading'[calls'[j].client].offset
  <2>1. ~(Told(i) /\ calls[j].client = Owner(i))
    BY <1>4, <1>5, <1>6
  <2>2. /\ ~reading[calls[j].client].done
        /\ calls[j].arg = reading[calls[j].client].offset
    BY <1>4, <1>6 DEF PageInv, PageCalls
  <2> QED BY <1>4, <1>6, <2>1, <2>2
<1>7. \A j \in DOMAIN calls' :
        /\ calls'[j].op = "open" => calls'[j].arg <= now'
        /\ calls'[j].op = "touch" => calls'[j].arg \in DOMAIN updated'
  BY <1>4 DEF PageInv, PageCalls
<1> QED BY <1>3, <1>6, <1>7 DEF PageCalls

LEMMA PageIs ==
  ASSUME NEW o
  PROVE  Page(o) = {x \in DOMAIN updated : Cardinality(Newers(updated, x)) \in o..(o + PageSize - 1)}
BY DEF Page, Rank, Newers, NewerIn, Newer

LEMMA OpenInv ==
  ASSUME Typed, PageInv, NEW i \in DOMAIN calls, Open(i), now' = now
  PROVE  PageInv'
<1>0. now \in Nat /\ CallsTyped /\ updated \in Seq(Nat)
  BY DEF Typed, PageInv
<1>1. End(i, "ok") /\ "ok" \in Result /\ reading' = reading /\ updated' = Append(updated, calls[i].arg)
      /\ calls[i].arg \in Nat /\ calls[i].arg <= now
  BY <1>0 DEF Open, May, Result, PageInv, PageCalls, CallsTyped, ArgTyped
<1>2. PICK v : v = updated'
  OBVIOUS
<1>3. /\ v \in Seq(Nat) /\ Len(v) = Len(updated) + 1 /\ v[Len(updated) + 1] = calls[i].arg
      /\ \A s \in 1..Len(updated) : v[s] = updated[s]
  BY <1>0, <1>1, <1>2, AppendProperties
<1>4. /\ DOMAIN updated = 1..Len(updated) /\ DOMAIN v = 1..(Len(updated) + 1)
      /\ DOMAIN updated \subseteq DOMAIN v
      /\ \A s \in DOMAIN v : s \in DOMAIN updated \/ s = Len(updated) + 1
  BY <1>0, <1>3, ListTypes
<1>5. PageCalls' /\ DOMAIN waiting' = Client
  BY <1>1, <1>2, <1>4, PageCallEnds
<1>6. \A s \in DOMAIN updated : updated[s] <= v[s] /\ v[s] = updated[s]
  BY <1>0, <1>3, <1>4, ListTypes
<1>7. ASSUME NEW c \in Client PROVE StillAhead(reading[c], v)
  <2>1. PICK reader : reader = reading[c]
    OBVIOUS
  <2>2. StillAhead(reader, updated)
    BY <2>1 DEF PageInv
  <2>3. \A r \in reader.due : v[r] = updated[r]
    BY <1>6, <2>2 DEF StillAhead
  <2>4. DOMAIN updated \subseteq DOMAIN v /\ \A s \in DOMAIN updated : updated[s] <= v[s]
    BY <1>4, <1>6
  <2>5. StillAhead(reader, v)
    BY <1>0, <1>3, <2>2, <2>3, <2>4, ReaderUnmoved
  <2> QED BY <2>1, <2>5
<1>8. \A r \in DOMAIN v : v[r] <= now
  BY <1>1, <1>3, <1>4, <1>6 DEF PageInv
<1> QED BY <1>0, <1>1, <1>2, <1>3, <1>5, <1>7, <1>8 DEF PageInv

LEMMA TouchInv ==
  ASSUME Typed, PageInv, NEW i \in DOMAIN calls, Touch(i), now' = now
  PROVE  PageInv'
<1>0. now \in Nat /\ CallsTyped /\ updated \in Seq(Nat)
  BY DEF Typed, PageInv
<1>9. PICK t : t = calls[i].arg
  OBVIOUS
<1>1. /\ End(i, "ok") /\ "ok" \in Result /\ t \in DOMAIN updated
      /\ updated' = [updated EXCEPT ![t] = now]
      /\ reading' = [c \in Client |-> [reading[c] EXCEPT !.due = @ \ {t}]]
  BY <1>0, <1>9 DEF Touch, May, Result, PageInv, PageCalls
<1>2. PICK v : v = updated'
  OBVIOUS
<1>3. v \in Seq(Nat) /\ DOMAIN v = DOMAIN updated /\ v[t] = now
      /\ \A s \in DOMAIN updated : s # t => v[s] = updated[s]
  <2>1. t \in 1..Len(updated)
    BY <1>0, <1>1, ListTypes
  <2> QED BY <1>0, <1>1, <1>2, <2>1, ExceptSeq
<1>4. ASSUME NEW c \in Client
      PROVE  /\ reading'[c].due = reading[c].due \ {t} /\ reading'[c].offset = reading[c].offset
             /\ reading'[c].done = reading[c].done /\ StillAhead(reading'[c], updated)
  <2>1. PICK reader : reader = reading[c]
    OBVIOUS
  <2>2. StillAhead(reader, updated)
    BY <2>1 DEF PageInv
  <2>3. reading'[c] = [reader EXCEPT !.due = @ \ {t}]
    BY <1>1, <2>1
  <2>4. reading'[c] = [offset |-> reader.offset, got |-> reader.got,
                       due |-> reader.due \ {t}, done |-> reader.done]
    <3>1. reader = [offset |-> reader.offset, got |-> reader.got,
                    due |-> reader.due, done |-> reader.done]
      BY <2>2 DEF StillAhead
    <3> QED BY <2>3, <3>1, SMT
  <2>5. PICK next : next = reading'[c]
    OBVIOUS
  <2>6. /\ next = [offset |-> next.offset, got |-> next.got, due |-> next.due, done |-> next.done]
        /\ next.offset = reader.offset /\ next.got = reader.got
        /\ next.due = reader.due \ {t} /\ next.done = reader.done
    BY <2>4, <2>5
  <2>7. StillAhead(next, updated)
    BY <2>2, <2>6 DEF StillAhead
  <2> QED BY <2>1, <2>5, <2>6, <2>7
<1>5. PageCalls' /\ DOMAIN waiting' = Client
  BY <1>1, <1>2, <1>3, <1>4, PageCallEnds
<1>6. \A s \in DOMAIN updated : updated[s] <= v[s] /\ (s # t => v[s] = updated[s])
  BY <1>0, <1>3, ListTypes DEF PageInv
<1>7. ASSUME NEW c \in Client PROVE StillAhead(reading'[c], v)
  <2>1. PICK next : next = reading'[c]
    OBVIOUS
  <2>2. StillAhead(next, updated) /\ \A r \in next.due : r # t
    BY <1>4, <2>1
  <2>3. \A r \in next.due : v[r] = updated[r]
    BY <1>6, <2>2 DEF StillAhead
  <2>4. DOMAIN updated \subseteq DOMAIN v /\ \A s \in DOMAIN updated : updated[s] <= v[s]
    BY <1>3, <1>6
  <2>5. StillAhead(next, v)
    BY <1>0, <1>3, <2>2, <2>3, <2>4, ReaderUnmoved
  <2> QED BY <2>1, <2>5
<1>8. ASSUME NEW r \in DOMAIN v PROVE v[r] <= now
  <2>1. r \in DOMAIN updated
    BY <1>3
  <2>2. updated[r] <= now /\ now <= now
    BY <1>0, <2>1 DEF PageInv
  <2> QED BY <1>3, <2>1, <2>2
<1> QED BY <1>0, <1>1, <1>2, <1>3, <1>5, <1>7, <1>8 DEF PageInv

LEMMA ListInv ==
  ASSUME Typed, PageInv, NEW i \in DOMAIN calls, ListSessions(i), now' = now
  PROVE  PageInv'
<1>0. now \in Nat /\ CallsTyped /\ updated \in Seq(Nat) /\ Owner(i) \in Client
  BY CallTyped DEF Typed, PageInv
<1>1. End(i, "ok") /\ "ok" \in Result /\ updated' = updated /\ calls[i].op = "page"
  BY DEF ListSessions, May, Result
<1>2. CASE UNCHANGED reading
  <2>1. PageCalls' /\ DOMAIN waiting' = Client
    BY <1>1, <1>2, PageCallEnds
  <2>2. \A c \in Client : StillAhead(reading[c], updated)'
    BY <1>1, <1>2 DEF PageInv, StillAhead, Newers, NewerIn
  <2> QED BY <1>1, <1>2, <2>1, <2>2 DEF PageInv
<1>3. CASE ~UNCHANGED reading
  <2>1. PICK reader, page, next :
          /\ reader = reading[Owner(i)] /\ page = Page(calls[i].arg) /\ next = reading'[Owner(i)]
    OBVIOUS
  <2>2. /\ Told(i)
        /\ reading' = [reading EXCEPT ![Owner(i)] =
             [offset |-> calls[i].arg + PageSize, got |-> @.got \cup page,
              due |-> IF calls[i].arg = 0 THEN DOMAIN updated ELSE @.due,
              done |-> Cardinality(page) < PageSize]]
    BY <1>3, <2>1 DEF ListSessions
  <2>3. calls[i].arg = reader.offset
    BY <1>1, <2>1, <2>2 DEF PageInv, PageCalls, Told, Owner
  <2>4. /\ next = [offset |-> reader.offset + PageSize, got |-> reader.got \cup page,
                   due |-> IF reader.offset = 0 THEN DOMAIN updated ELSE reader.due,
                   done |-> Cardinality(page) < PageSize]
        /\ DOMAIN reading' = Client
        /\ \A c \in Client : c # Owner(i) => reading'[c] = reading[c]
    BY <1>0, <2>1, <2>2, <2>3 DEF PageInv
  <2>5. page = {x \in DOMAIN updated : Cardinality(Newers(updated, x)) \in
                                         reader.offset..(reader.offset + PageSize - 1)}
    BY <2>1, <2>3, PageIs
  <2>6. StillAhead(reader, updated)
    BY <1>0, <2>1 DEF PageInv
  <2>7. StillAhead(next, updated)
    BY <1>0, <2>4, <2>5, <2>6, ReaderMoved
  <2>8. PageCalls' /\ DOMAIN waiting' = Client
    BY <1>1, <2>2, <2>4, PageCallEnds
  <2>9. \A c \in Client : StillAhead(reading'[c], updated)
    BY <2>1, <2>4, <2>7 DEF PageInv
  <2>10. \A c \in Client : StillAhead(reading[c], updated)'
    BY <1>1, <2>9
  <2> QED BY <1>1, <2>4, <2>8, <2>10 DEF PageInv
<1> QED BY <1>2, <1>3

LEMMA PageStepInv ==
  ASSUME Typed, PageInv, PageStep, now' = now
  PROVE  PageInv'
<1>0. {"open", "touch", "page"} \subseteq NumberOps /\ {"open", "touch", "page"} = PageOps
  BY DEF NumberOps, Ops, PageOps
<1>1. ASSUME NEW c \in Client, CallOpen(c) \/ CallTouch(c) \/ CallPage(c) PROVE PageInv'
  <2>1. UNCHANGED pageVars
    BY <1>1 DEF CallOpen, CallTouch, CallPage
  <2>2. CASE CallOpen(c)
    <3>1. now \in Nat /\ now <= now /\ Send(c, "open", now)
      BY <2>2 DEF CallOpen, Typed
    <3> QED BY <1>0, <2>1, <3>1, PageSent
  <2>3. CASE CallTouch(c)
    <3>1. PICK r \in DOMAIN updated : Send(c, "touch", r)
      BY <2>3 DEF CallTouch
    <3>2. r \in Nat
      BY ListTypes DEF PageInv
    <3> QED BY <1>0, <2>1, <3>1, <3>2, PageSent
  <2>4. CASE CallPage(c)
    <3>1. ~reading[c].done /\ Send(c, "page", reading[c].offset) /\ reading[c].offset \in Nat
      BY <2>4 DEF CallPage, PageInv, StillAhead
    <3> QED BY <1>0, <2>1, <3>1, PageSent
  <2> QED BY <1>1, <2>2, <2>3, <2>4
<1> QED BY <1>1, OpenInv, TouchInv, ListInv DEF PageStep

LEMMA PageInvariant == Spec => [](Typed /\ PageInv)
<1>1. Init => Typed /\ PageInv
  <2>1. ASSUME Init PROVE PageInv
    <3>1. /\ updated = <<0, 0, 0>> /\ calls = <<>> /\ now = 0
          /\ waiting = [c \in Client |-> 0]
          /\ reading = [c \in Client |-> [offset |-> 0, got |-> {}, due |-> {}, done |-> FALSE]]
      BY <2>1 DEF Init, RecordsInit, InteractInit
    <3>2. updated \in Seq(Nat) /\ \A r \in DOMAIN updated : updated[r] <= now
      BY <3>1
    <3>3. \A c \in Client : StillAhead(reading[c], updated)
      BY <3>1 DEF StillAhead
    <3>4. PageCalls
      BY <3>1 DEF PageCalls
    <3> QED BY <3>1, <3>2, <3>3, <3>4 DEF PageInv
  <2> QED BY <2>1, InitTyped
<1>2. Typed /\ PageInv /\ [Next]_vars => (Typed /\ PageInv)'
  <2> SUFFICES ASSUME Typed, PageInv, [Next]_vars PROVE PageInv'
    BY NextTyped
  <2>1. now \in Nat /\ now' \in Nat /\ now <= now' /\ (now' = now \/ Tick)
    BY TimeGoesOn DEF Typed
  <2>2. CASE PageStep /\ now' = now
    BY <2>2, PageStepInv
  <2>3. ASSUME UNCHANGED pageVars, NEW ops, Kept(ops), ops \cap PageOps = {} PROVE PageInv'
    BY <2>1, <2>3, PagesStay, Zenon
  <2>4. CASE SessionStep /\ UNCHANGED pageVars
    BY <2>3, <2>4, SessionStepKept DEF SessionOps, PageOps
  <2>5. CASE RunStep /\ UNCHANGED pageVars
    BY <2>3, <2>5, RunStepKept DEF RunOps, RunReads, PageOps
  <2>6. CASE MessageStep /\ UNCHANGED pageVars
    BY <2>3, <2>6, MessageStepKept DEF MessageOps, PageOps
  <2>7. CASE ApprovalStep /\ UNCHANGED pageVars
    BY <2>3, <2>7, ApprovalStepKept DEF ApprovalOps, PageOps
  <2>8. CASE UNCHANGED pageVars /\ (Tick \/ (\E c \in Client : GiveUp(c))
                                    \/ (\E i \in DOMAIN calls : Fail(i)) \/ UNCHANGED vars)
    <3>1. Kept({})
      BY <2>8, OtherStepsKept
    <3> QED BY <2>3, <2>8, <3>1
  <2> QED BY <2>2, <2>4, <2>5, <2>6, <2>7, <2>8 DEF Next, vars, recordVars
<1> QED BY <1>1, <1>2, PTL DEF Spec

(* Whatever is made, updated and shifted between two pages, by whomever: a *)
(* reader that came to the end saw every session that was there when it    *)
(* began and that nobody updated (sessions.rs:153).                        *)
THEOREM PagesMissNothing == Spec => []PagesComplete
<1>1. Typed /\ PageInv => PagesComplete
  BY DEF PageInv, StillAhead, PagesComplete
<1> QED BY <1>1, PageInvariant, PTL

-----------------------------------------------------------------------------
(* Types: the bounds of TypeOK. First the calls and the locks: every step  *)
(* sends a call, ends one, or counts the active runs for one.              *)

CallStep ==
  \/ \E c \in Client, op \in Ops, arg \in Arg : ArgTyped(op, arg) /\ Send(c, op, arg)
  \/ \E i \in DOMAIN calls, result \in Result :
       /\ End(i, result)
       /\ \/ calls[i].pc = "queued" /\ lock' = lock
          \/ lock' = [lock EXCEPT ![Conn(i)] = 0]
  \/ \E i \in DOMAIN calls : Count(i)
  \/ UNCHANGED <<calls, lock>>

LEMMA NumberCallStep ==
  ASSUME NEW c \in Client, NEW op \in NumberOps, NEW n \in Nat, Send(c, op, n)
  PROVE  CallStep
<1>1. n \in Arg /\ op \in Ops /\ ArgTyped(op, n)
  BY DEF Arg, ArgTyped, NumberOps
<1> QED BY <1>1 DEF CallStep

LEMMA StepsAre == Typed /\ [Next]_vars => CallStep
<1> SUFFICES ASSUME Typed, [Next]_vars PROVE CallStep
  OBVIOUS
<1> USE DEF Typed
<1>0. {"get", "create", "get_run", "get_active", "append", "messages", "propose", "request",
        "pending", "open", "touch", "page"} \subseteq NumberOps
      /\ {"update", "update_run", "decide"} \subseteq Ops /\ 0 \in Nat
  BY DEF NumberOps, Ops
<1>1. ASSUME NEW c \in Client, CallGet(c) \/ CallCreate(c) \/ CallMessages(c) \/ CallPropose(c)
                               \/ CallPending(c) \/ CallOpen(c)
      PROVE  CallStep
  BY <1>0, <1>1, NumberCallStep
     DEF CallGet, CallCreate, CallMessages, CallPropose, CallPending, CallOpen
<1>2. ASSUME NEW c \in Client, NEW op \in RunReads, CallGetRun(c, op) PROVE CallStep
  BY <1>0, <1>2, NumberCallStep DEF CallGetRun, RunReads
<1>3. ASSUME NEW c \in Client, CallAppend(c) PROVE CallStep
  <2>1. draft[c] \in Nat /\ draft'[c] \in Nat
    <3>1. MessageTyped'
      BY <1>3, MessageStepShape DEF MessageStep
    <3> QED BY <3>1 DEF MessageTyped
  <2> QED BY <1>0, <1>3, <2>1, NumberCallStep DEF CallAppend
<1>4. ASSUME NEW c \in Client, CallRequest(c) PROVE CallStep
  BY <1>0, <1>4, NumberCallStep, CallTyped DEF CallRequest
<1>5. ASSUME NEW c \in Client, CallTouch(c) PROVE CallStep
  <2>1. PICK r \in DOMAIN updated : Send(c, "touch", r)
    BY <1>5 DEF CallTouch
  <2>2. r \in Nat
    BY LenProperties DEF PageTyped
  <2> QED BY <1>0, <2>1, <2>2, NumberCallStep
<1>6. ASSUME NEW c \in Client, CallPage(c) PROVE CallStep
  <2>1. reading[c].offset \in Nat /\ Send(c, "page", reading[c].offset)
    BY <1>6 DEF CallPage, PageTyped, IsReader
  <2> QED BY <1>0, <2>1, NumberCallStep
<1>7. ASSUME NEW c \in Client, CallUpdate(c) PROVE CallStep
  <2>1. copy' \in [Client -> Session]
    BY <1>7 DEF CallUpdate, SessionTyped, Session
  <2>2. copy'[c] \in Arg /\ ArgTyped("update", copy'[c]) /\ Send(c, "update", copy'[c])
    BY <1>7, <2>1 DEF CallUpdate, Arg, ArgTyped
  <2> QED BY <1>0, <2>2 DEF CallStep
<1>8. ASSUME NEW c \in Client, CallUpdateRun(c) PROVE CallStep
  <2>1. runCopy' \in [Client -> RunCopy]
    BY <1>8 DEF CallUpdateRun, RunTyped, RunCopy
  <2>2. runCopy'[c] \in Arg /\ ArgTyped("update_run", runCopy'[c])
        /\ Send(c, "update_run", runCopy'[c])
    BY <1>8, <2>1 DEF CallUpdateRun, Arg, ArgTyped
  <2> QED BY <1>0, <2>2 DEF CallStep
<1>9. ASSUME NEW c \in Client, CallDecide(c) PROVE CallStep
  <2>1. held[c] \in Arg /\ ArgTyped("decide", held[c]) /\ Send(c, "decide", held[c])
    BY <1>9 DEF CallDecide, ApprovalTyped, Arg, ArgTyped
  <2> QED BY <1>0, <2>1 DEF CallStep
<1>10. ASSUME NEW i \in DOMAIN calls, Get(i) \/ Update(i) \/ UpdateRun(i) \/ AppendMessage(i)
                                      \/ ListMessages(i) \/ Propose(i) \/ Request(i)
       PROVE  CallStep
  BY <1>10 DEF Get, Update, UpdateRun, AppendMessage, ListMessages, Propose, Request, May, Result, CallStep
<1>11. ASSUME NEW i \in DOMAIN calls, ListPending(i) \/ Decide(i) \/ Open(i) \/ Touch(i) \/ ListSessions(i)
       PROVE  CallStep
  BY <1>11 DEF ListPending, Decide, Open, Touch, ListSessions, May, Result, CallStep
<1>12. ASSUME NEW i \in DOMAIN calls, NEW op \in RunReads, GetRun(i, op) PROVE CallStep
  BY <1>12 DEF GetRun, May, Result, CallStep
<1>13. ASSUME NEW i \in DOMAIN calls, Insert(i) \/ Fail(i) \/ Count(i) PROVE CallStep
  BY <1>13 DEF Insert, Fail, Result, CallStep
<1>14. Tick \/ (\E c \in Client : GiveUp(c)) \/ UNCHANGED vars => CallStep
  BY DEF Tick, GiveUp, vars, interactVars, CallStep
<1>15. SessionStep \/ RunStep => CallStep
  BY <1>1, <1>2, <1>7, <1>8, <1>10, <1>12, <1>13 DEF SessionStep, RunStep
<1>16. MessageStep \/ ApprovalStep \/ PageStep => CallStep
  BY <1>1, <1>3, <1>4, <1>5, <1>6, <1>9, <1>10, <1>11 DEF MessageStep, ApprovalStep, PageStep
<1> QED BY <1>13, <1>14, <1>15, <1>16 DEF Next

(* Whoever holds a connection is between two statements, and its own.      *)
Holder(j, p) == j \in DOMAIN calls /\ Conn(j) = p /\ calls[j].pc = "counted"
HolderInv == \A p \in Process : lock[p] # 0 => Holder(lock[p], p)

LEMMA HolderStays ==
  ASSUME HolderInv, DOMAIN calls \subseteq DOMAIN calls',
         \A j \in DOMAIN calls :
           /\ calls'[j].client = calls[j].client
           /\ calls[j].pc = "counted" => calls'[j].pc = "counted" \/ lock'[Conn(j)] = 0,
         \A p \in Process :
           lock'[p] \in {lock[p], 0} \/ Holder(lock[p], p)'
  PROVE  HolderInv'
<1>1. ASSUME NEW p \in Process, lock'[p] # 0, lock'[p] = lock[p] PROVE Holder(lock[p], p)'
  <2>1. PICK j : j = lock[p]
    OBVIOUS
  <2>2. j \in DOMAIN calls /\ Conn(j) = p /\ calls[j].pc = "counted"
    BY <1>1, <2>1 DEF HolderInv, Holder
  <2>3. j \in DOMAIN calls' /\ calls'[j].client = calls[j].client /\ calls'[j].pc = "counted"
    BY <1>1, <2>1, <2>2
  <2>4. lock'[p] = j
    BY <1>1, <2>1
  <2> QED BY <2>2, <2>3, <2>4 DEF Holder, Conn, Owner
<1> QED BY <1>1 DEF HolderInv

LEMMA HolderStep ==
  ASSUME Typed, HolderInv, CallStep
  PROVE  HolderInv'
<1> USE DEF Typed
<1>1. ASSUME NEW c \in Client, NEW op \in Ops, NEW arg \in Arg, ArgTyped(op, arg), Send(c, op, arg)
      PROVE  HolderInv'
  <2>1. /\ Len(calls) \in Nat /\ DOMAIN calls = 1..Len(calls)
        /\ DOMAIN calls' = 1..(Len(calls) + 1) /\ lock' = lock
        /\ \A j \in DOMAIN calls : calls'[j] = calls[j]
    BY <1>1, SendAdds, Zenon
  <2>2. DOMAIN calls \subseteq DOMAIN calls'
    BY <2>1
  <2> QED BY <2>1, <2>2, HolderStays
<1>2. ASSUME NEW i \in DOMAIN calls, NEW result \in Result, End(i, result)
      PROVE  /\ DOMAIN calls' = DOMAIN calls
             /\ \A j \in DOMAIN calls : calls'[j].client = calls[j].client /\ (j # i => calls'[j] = calls[j])
  BY <1>2, EndProgress
<1>3. ASSUME NEW i \in DOMAIN calls, NEW result \in Result, End(i, result),
             calls[i].pc = "queued", lock' = lock
      PROVE  HolderInv'
  <2>1. DOMAIN calls \subseteq DOMAIN calls' /\ \A j \in DOMAIN calls :
           /\ calls'[j].client = calls[j].client
           /\ calls[j].pc = "counted" => calls'[j].pc = "counted" \/ lock'[Conn(j)] = 0
    BY <1>2, <1>3
  <2> QED BY <1>3, <2>1, HolderStays
<1>4. ASSUME NEW i \in DOMAIN calls, NEW result \in Result, End(i, result),
             lock' = [lock EXCEPT ![Conn(i)] = 0]
      PROVE  HolderInv'
  <2>1. lock'[Conn(i)] = 0 /\ \A p \in Process : lock'[p] \in {lock[p], 0}
    BY <1>4, CallTyped DEF LockInv
  <2>2. DOMAIN calls \subseteq DOMAIN calls' /\ \A j \in DOMAIN calls :
           /\ calls'[j].client = calls[j].client
           /\ calls[j].pc = "counted" => calls'[j].pc = "counted" \/ lock'[Conn(j)] = 0
    BY <1>2, <1>4, <2>1
  <2> QED BY <2>1, <2>2, HolderStays
<1>5. ASSUME NEW i \in DOMAIN calls, Count(i) PROVE HolderInv'
  <2>1. CASE ~MayCreate
    BY <1>3, <1>5, <2>1 DEF Count, May, Result
  <2>2. CASE MayCreate
    <3>1. calls[i] \in Calls /\ Conn(i) \in Process
      BY CallTyped
    <3>2. Moves(i, "counted", calls[i].result) /\ "counted" \in PC /\ calls[i].result \in Result
      BY <1>5, <2>2, <3>1 DEF Count, Moves, PC, Calls, CallsTyped
    <3>3. /\ DOMAIN calls' = DOMAIN calls
          /\ \A j \in DOMAIN calls : calls'[j].client = calls[j].client /\ (j # i => calls'[j] = calls[j])
          /\ calls'[i].pc = "counted"
      BY <3>2, Progress
    <3>4. lock' = [lock EXCEPT ![Conn(i)] = i]
      BY <1>5, <2>2 DEF Count
    <3>5. Holder(i, Conn(i))'
      BY <3>3 DEF Holder
    <3>6. Conn(i)' = Conn(i)
      BY <3>3 DEF Conn, Owner
    <3>7. ASSUME NEW p \in Process PROVE lock'[p] \in {lock[p], 0} \/ Holder(lock[p], p)'
      <4>1. CASE p = Conn(i)
        <5>1. lock'[p] = i
          BY <3>1, <3>4, <4>1 DEF LockInv
        <5>2. i \in DOMAIN calls' /\ Conn(i)' = p /\ calls'[i].pc = "counted"
          BY <3>3, <3>6, <4>1
        <5> QED BY <5>1, <5>2 DEF Holder, Conn, Owner
      <4>2. CASE p # Conn(i)
        BY <3>4, <4>2 DEF LockInv
      <4> QED BY <4>1, <4>2
    <3> QED BY <3>3, <3>7, HolderStays
  <2> QED BY <2>1, <2>2
<1>6. CASE UNCHANGED <<calls, lock>>
  BY <1>6 DEF HolderInv, Holder, Conn, Owner
<1> QED BY <1>1, <1>3, <1>4, <1>5, <1>6 DEF CallStep

-----------------------------------------------------------------------------
(* No more calls than the workload has, no client that waits for another.  *)

Func(f, S) == f = [x \in S |-> f[x]]

LEMMA FuncExcept ==
  ASSUME NEW S, NEW f, Func(f, S), NEW k, NEW e
  PROVE  Func([f EXCEPT ![k] = e], S)
BY DEF Func

CallInv ==
  /\ workload \in Workloads /\ Len(calls) <= workload.calls
  /\ Func(waiting, Client) /\ \A c \in Client : waiting[c] \in 0..Len(calls)

LEMMA AnyStepKept == Typed /\ [Next]_vars => \E ops : Kept(ops)
BY SessionStepKept, RunStepKept, MessageStepKept, ApprovalStepKept, PageStepKept, OtherStepsKept
   DEF Next

LEMMA SameLength ==
  ASSUME NEW m \in Nat, NEW n \in Nat, 1..m = 1..n
  PROVE  m = n
<1>1. m # 0 => m \in 1..n
  OBVIOUS
<1>2. n # 0 => n \in 1..m
  OBVIOUS
<1> QED BY <1>1, <1>2

LEMMA CallStepInv ==
  ASSUME Typed, Typed', CallInv, NEW ops, Kept(ops), Func(waiting', Client)
  PROVE  CallInv'
<1>1. PICK n \in Nat : Grows(n)
  BY DEF Kept
<1>2. /\ Len(calls) \in Nat /\ DOMAIN calls = 1..Len(calls)
      /\ Len(calls') \in Nat /\ DOMAIN calls' = 1..Len(calls')
  BY LenProperties DEF Typed, CallsTyped
<1>3. workload' = workload /\ workload.calls \in Nat
  BY InteractAssumption DEF Kept, CallInv
<1>4. CASE DOMAIN calls' = DOMAIN calls /\ \A d : waiting'[d] = waiting[d] \/ waiting'[d] = 0
  <2>1. Len(calls') = Len(calls)
    BY <1>2, <1>4, SameLength
  <2> QED BY <1>2, <1>3, <1>4, <2>1 DEF CallInv
<1>5. CASE /\ n = Len(calls) + 1 /\ Len(calls) < workload.calls /\ DOMAIN calls' = 1..n
           /\ \A d : waiting'[d] = waiting[d] \/ waiting'[d] = n
  <2>1. Len(calls') = n
    BY <1>2, <1>5, SameLength
  <2>2. \A c \in Client : waiting'[c] \in 0..n
    BY <1>2, <1>5 DEF CallInv
  <2>3. n <= workload.calls
    BY <1>2, <1>3, <1>5
  <2> QED BY <1>3, <2>1, <2>2, <2>3 DEF CallInv
<1> QED BY <1>1, <1>4, <1>5 DEF Grows

(* The variables that are functions of the clients remain so.              *)
LEMMA WaitingFunc ==
  ASSUME Typed, Func(waiting, Client), [Next]_vars
  PROVE  Func(waiting', Client)
<1>1. ASSUME NEW c, NEW op, NEW arg, Send(c, op, arg) PROVE Func(waiting', Client)
  BY <1>1, FuncExcept DEF Send
<1>2. ASSUME NEW i, NEW result, End(i, result) PROVE Func(waiting', Client)
  BY <1>2, FuncExcept DEF End
<1>3. ASSUME NEW c, GiveUp(c) PROVE Func(waiting', Client)
  BY <1>3, FuncExcept DEF GiveUp
<1>4. CASE UNCHANGED waiting
  BY <1>4
<1>5. ASSUME NEW i, Count(i) PROVE Func(waiting', Client)
  BY <1>2, <1>4, <1>5 DEF Count
<1>6. SessionStep \/ RunStep => Func(waiting', Client)
  BY <1>1, <1>2, <1>5 DEF SessionStep, RunStep, CallGet, CallUpdate, CallCreate, CallGetRun,
     CallUpdateRun, Get, Update, Insert, GetRun, UpdateRun
<1>7. MessageStep \/ PageStep => Func(waiting', Client)
  BY <1>1, <1>2 DEF MessageStep, PageStep, CallAppend, CallMessages, AppendMessage, ListMessages,
     CallOpen, CallTouch, CallPage, Open, Touch, ListSessions
<1>8. ApprovalStep => Func(waiting', Client)
  BY <1>1, <1>2 DEF ApprovalStep, CallPropose, CallRequest, CallPending, CallDecide, Propose,
     Request, ListPending, Decide
<1>9. Tick \/ UNCHANGED vars \/ (\E c \in Client : GiveUp(c)) \/ (\E i \in DOMAIN calls : Fail(i))
        => Func(waiting', Client)
  BY <1>2, <1>3, <1>4 DEF Tick, vars, interactVars, Fail
<1> QED BY <1>6, <1>7, <1>8, <1>9 DEF Next

LEMMA ShownFunc ==
  ASSUME Func(shown, Client), [Next]_vars
  PROVE  Func(shown', Client)
<1>1. CASE UNCHANGED shown
  BY <1>1
<1>2. CASE \E i \in DOMAIN calls : ListMessages(i)
  BY <1>2, FuncExcept DEF ListMessages
<1>3. MessageStep \/ UNCHANGED shown
  BY DEF Next, vars, recordVars, messageVars
<1>4. MessageStep => UNCHANGED shown \/ \E i \in DOMAIN calls : ListMessages(i)
  BY DEF MessageStep, CallAppend, CallMessages, AppendMessage, messageVars
<1> QED BY <1>1, <1>2, <1>3, <1>4

LEMMA ReadingFunc ==
  ASSUME Func(reading, Client), [Next]_vars
  PROVE  Func(reading', Client)
<1>1. CASE UNCHANGED reading
  BY <1>1
<1>2. CASE \E i \in DOMAIN calls : ListSessions(i)
  BY <1>2, FuncExcept DEF ListSessions
<1>3. CASE \E i \in DOMAIN calls : Touch(i)
  BY <1>3 DEF Touch, Func
<1>4. PageStep \/ UNCHANGED reading
  BY DEF Next, vars, recordVars, pageVars
<1>5. PageStep => UNCHANGED reading \/ \E i \in DOMAIN calls : Touch(i) \/ ListSessions(i)
  BY DEF PageStep, CallOpen, CallTouch, CallPage, Open, pageVars
<1> QED BY <1>1, <1>2, <1>3, <1>4, <1>5

-----------------------------------------------------------------------------
(* What refers to a row of runs refers to one there is.                    *)

RefInv ==
  /\ accepted \subseteq Client /\ revived \subseteq DOMAIN runs
  /\ \A c \in Client : runCopy[c].run # 0 => runCopy[c].run \in DOMAIN runs
  /\ \A i \in DOMAIN calls : calls[i].op = "update_run" => calls[i].arg.run \in DOMAIN runs

LEMMA RefStays ==
  ASSUME RefInv, NEW ops, Kept(ops), DOMAIN runs \subseteq DOMAIN runs',
         accepted' \subseteq Client, revived' \subseteq DOMAIN runs',
         \A c \in Client : runCopy'[c].run # 0 => runCopy'[c].run \in DOMAIN runs',
         \A j \in DOMAIN calls' \ DOMAIN calls :
           calls'[j].op = "update_run" => calls'[j].arg.run \in DOMAIN runs'
  PROVE  RefInv'
BY DEF RefInv, Kept

LEMMA RefSessionStep ==
  ASSUME Typed, RefInv, SessionStep, UNCHANGED runVars
  PROVE  RefInv'
<1>1. Kept(SessionOps)
  BY SessionStepKept
<1>2. accepted' \subseteq Client
  <2>1. ASSUME NEW i \in DOMAIN calls, Update(i) PROVE accepted' \subseteq Client
    <3>1. calls[i].arg \in Session
      BY <2>1 DEF Update, May, Typed, CallsTyped, ArgTyped
    <3> QED BY <2>1, <3>1 DEF Update, Session, RefInv
  <2>2. (\E i \in DOMAIN calls : Update(i)) \/ accepted' = accepted
    BY DEF SessionStep, CallGet, CallUpdate, Get, sessionVars
  <2> QED BY <2>1, <2>2 DEF RefInv
<1> QED BY <1>1, <1>2, RefStays DEF Kept, SessionOps, RefInv, runVars

LEMMA RefRunStep ==
  ASSUME Typed, RefInv, RunStep, UNCHANGED sessionVars
  PROVE  RefInv'
<1> USE DEF Typed
<1>0. Kept(RunOps) /\ accepted' \subseteq Client
  BY RunStepKept DEF sessionVars, RefInv
<1>1. ASSUME NEW c \in Client, CallCreate(c) \/ \E op \in RunReads : CallGetRun(c, op)
      PROVE  RefInv'
  <2>1. PICK op \in {"create", "get_run", "get_active"} : Send(c, op, 0) /\ UNCHANGED runVars
    BY <1>1 DEF CallCreate, CallGetRun, RunReads
  <2>2. Kept({"create", "get_run", "get_active"})
    <3>1. op \in NumberOps /\ 0 \in Nat
      BY DEF NumberOps, Ops
    <3> QED BY <2>1, <3>1, NumberKept
  <2> QED BY <1>0, <2>1, <2>2, RefStays DEF Kept, RefInv, runVars
<1>2. ASSUME NEW c \in Client, CallUpdateRun(c) PROVE RefInv'
  <2> DEFINE n == Len(calls) + 1
             call == [client |-> c, op |-> "update_run", pc |-> "queued", result |-> "none", arg |-> runCopy'[c]]
  <2>1. /\ runCopy' \in [Client -> RunCopy] /\ UNCHANGED <<runs, revived>>
        /\ \A d \in Client : runCopy'[d].run = runCopy[d].run
        /\ runCopy[c].run # 0
    BY <1>2 DEF CallUpdateRun, RunTyped, RunCopy
  <2>2. "update_run" \in Ops /\ runCopy'[c] \in Arg /\ ArgTyped("update_run", runCopy'[c])
        /\ Send(c, "update_run", runCopy'[c])
    BY <1>2, <2>1 DEF CallUpdateRun, Arg, ArgTyped, Ops
  <2>3. /\ Len(calls) \in Nat /\ DOMAIN calls = 1..Len(calls) /\ DOMAIN calls' = 1..n
        /\ calls'[n] = call
    BY <2>2, SendAdds, Zenon
  <2>4. call.arg = runCopy'[c]
    OBVIOUS
  <2>5. \A j \in DOMAIN calls' \ DOMAIN calls : j = n
    BY <2>3
  <2> HIDE DEF n, call
  <2>6. \A j \in DOMAIN calls' \ DOMAIN calls : calls'[j].arg.run \in DOMAIN runs'
    BY <2>1, <2>3, <2>4, <2>5 DEF RefInv
  <2> QED BY <1>0, <2>1, <2>6, RefStays DEF RefInv
<1>3. ASSUME NEW i \in DOMAIN calls, Insert(i) PROVE RefInv'
  <2>1. DOMAIN calls' = DOMAIN calls /\ revived' = revived
    BY <1>3 DEF Insert, End
  <2>2. /\ RunTyped' /\ Len(runs) \in Nat
        /\ DOMAIN runs = 1..Len(runs) /\ DOMAIN runs' = 1..(Len(runs) + 1)
    BY <1>3, InsertRuns
  <2>3. Len(runs') = Len(runs) + 1 /\ Len(runs') \in DOMAIN runs' /\ DOMAIN runs \subseteq DOMAIN runs'
    <3>1. Len(runs') = Len(runs) + 1
      BY <1>3, LenProperties DEF Insert, RunTyped
    <3> QED BY <2>2, <3>1
  <2>4. \A d \in Client : runCopy'[d].run \in {runCopy[d].run, Len(runs')}
    BY <1>3 DEF Insert, RunTyped
  <2> QED BY <1>0, <2>1, <2>3, <2>4, RefStays DEF RefInv
<1>4. ASSUME NEW i \in DOMAIN calls, UpdateRun(i) PROVE RefInv'
  <2>1. DOMAIN calls' = DOMAIN calls /\ runCopy' = runCopy
    BY <1>4 DEF UpdateRun, End
  <2>2. DOMAIN runs' = DOMAIN runs
    BY <1>4, UpdateRunRuns
  <2>3. calls[i].arg.run \in DOMAIN runs
    BY <1>4 DEF UpdateRun, May, RefInv
  <2>4. revived' \subseteq DOMAIN runs
    BY <1>4, <2>3 DEF UpdateRun, RefInv
  <2> QED BY <1>0, <2>1, <2>2, <2>4, RefStays DEF RefInv
<1>5. ASSUME NEW i \in DOMAIN calls, NEW op \in RunReads, GetRun(i, op) PROVE RefInv'
  <2>1. DOMAIN calls' = DOMAIN calls /\ UNCHANGED <<runs, revived>>
    BY <1>5 DEF GetRun, End
  <2>2. \A d \in Client : runCopy'[d].run = runCopy[d].run \/ runCopy'[d].run \in DOMAIN runs
    BY <1>5 DEF GetRun, RunTyped, Shows, Active
  <2> QED BY <1>0, <2>1, <2>2, RefStays DEF RefInv
<1>6. ASSUME NEW i \in DOMAIN calls, Count(i) PROVE RefInv'
  <2>1. DOMAIN calls' = DOMAIN calls /\ UNCHANGED runVars
    BY <1>6 DEF Count, End
  <2> QED BY <1>0, <2>1, RefStays DEF RefInv, runVars
<1> QED BY <1>1, <1>2, <1>3, <1>4, <1>5, <1>6 DEF RunStep

LEMMA RefStep ==
  ASSUME Typed, RefInv, [Next]_vars
  PROVE  RefInv'
<1>1. ASSUME UNCHANGED storeVars, NEW ops, Kept(ops), "update_run" \notin ops PROVE RefInv'
  BY <1>1, RefStays DEF Kept, RefInv, storeVars, sessionVars, runVars
<1>2. CASE MessageStep /\ UNCHANGED storeVars
  BY <1>1, <1>2, MessageStepKept DEF MessageOps
<1>3. CASE ApprovalStep /\ UNCHANGED storeVars
  BY <1>1, <1>3, ApprovalStepKept DEF ApprovalOps
<1>4. CASE PageStep /\ UNCHANGED storeVars
  BY <1>1, <1>4, PageStepKept DEF PageOps
<1>5. CASE UNCHANGED storeVars /\ (Tick \/ (\E c \in Client : GiveUp(c))
                                   \/ (\E i \in DOMAIN calls : Fail(i)) \/ UNCHANGED vars)
  <2>1. Kept({})
    BY <1>5, OtherStepsKept
  <2> QED BY <1>1, <1>5, <2>1
<1> QED BY <1>2, <1>3, <1>4, <1>5, RefSessionStep, RefRunStep DEF Next, vars

-----------------------------------------------------------------------------
(* An action has the number of the call that made it, an approval the      *)
(* action it is for; no copy is of a later time; the clock has its bound.  *)

ActionInv ==
  /\ actions \subseteq {0} \cup DOMAIN calls
  /\ \A r \in DOMAIN approvals : approvals[r].action \in actions
  /\ \A j \in DOMAIN decisions : decisions[j].asOf <= Len(decisions)

LEMMA ActionStep ==
  ASSUME Typed, ApprovalInv, ActionInv, ApprovalStep
  PROVE  ActionInv'
<1> USE DEF Typed
<1>0. DOMAIN calls \subseteq DOMAIN calls'
  BY ApprovalStepKept DEF Kept
<1>1. ASSUME UNCHANGED <<actions, approvals, decisions>> PROVE ActionInv'
  BY <1>0, <1>1 DEF ActionInv
<1>2. ASSUME NEW i \in DOMAIN calls, Propose(i) PROVE ActionInv'
  BY <1>0, <1>2 DEF Propose, ActionInv
<1>3. ASSUME NEW i \in DOMAIN calls, Request(i), Stored(calls[i].arg),
             approvals' = Append(approvals, [action |-> calls[i].arg, status |-> "pending"])
      PROVE  ActionInv'
  <2> DEFINE new == [action |-> calls[i].arg, status |-> "pending"]
  <2>1. new \in Approval /\ new.action \in actions
    BY <1>3, CallTyped DEF Approval, Calls, Stored
  <2>2. approvals \in Seq(Approval) /\ approvals' = Append(approvals, new)
    BY <1>3 DEF ApprovalInv
  <2> HIDE DEF new
  <2>3. /\ approvals' \in Seq(Approval) /\ Len(approvals') = Len(approvals) + 1
        /\ \A r \in 1..Len(approvals) : approvals'[r] = approvals[r]
        /\ approvals'[Len(approvals) + 1] = new
    BY <2>1, <2>2, AppendProperties
  <2>4. /\ DOMAIN approvals = 1..Len(approvals) /\ Len(approvals) \in Nat
        /\ DOMAIN approvals' = 1..(Len(approvals) + 1)
    BY <2>2, <2>3, LenProperties
  <2>5. \A r \in DOMAIN approvals' : r \in DOMAIN approvals \/ r = Len(approvals) + 1
    BY <2>4
  <2>6. \A r \in DOMAIN approvals' : approvals'[r].action \in actions
    BY <2>1, <2>3, <2>4, <2>5 DEF ActionInv
  <2> QED BY <1>0, <1>3, <2>6 DEF Request, ActionInv
<1>4. ASSUME NEW i \in DOMAIN calls, Decide(i) PROVE ActionInv'
  <2>1. calls[i].arg \in Choice /\ calls[i].arg.asOf <= Len(decisions)
    BY <1>4 DEF Decide, May, ApprovalInv, CallsTyped, ArgTyped
  <2>2. PICK choice \in Choice : choice = calls[i].arg
    BY <2>1
  <2>3. decisions \in Seq(Choice) /\ decisions' = Append(decisions, choice)
    BY <1>4, <2>2 DEF Decide, ApprovalTyped
  <2>4. /\ decisions' \in Seq(Choice) /\ Len(decisions') = Len(decisions) + 1
        /\ \A j \in 1..Len(decisions) : decisions'[j] = decisions[j]
        /\ decisions'[Len(decisions) + 1] = choice
    BY <2>3, AppendProperties
  <2>5. /\ DOMAIN decisions = 1..Len(decisions) /\ Len(decisions) \in Nat
        /\ DOMAIN decisions' = 1..(Len(decisions) + 1)
    BY <2>3, <2>4, LenProperties
  <2>6. ASSUME NEW j \in DOMAIN decisions' PROVE decisions'[j].asOf <= Len(decisions')
    <3>1. CASE j = Len(decisions) + 1
      <4>1. choice.asOf \in Nat /\ choice.asOf <= Len(decisions)
        BY <2>1, <2>2 DEF Choice
      <4> QED BY <2>4, <2>5, <3>1, <4>1
    <3>2. CASE j \in DOMAIN decisions
      <4>1. decisions[j] \in Choice
        BY <2>3, <2>5, <3>2, ElementOfSeq
      <4>2. decisions[j].asOf \in Nat /\ decisions[j].asOf <= Len(decisions)
        BY <3>2, <4>1 DEF ActionInv, Choice
      <4> QED BY <2>4, <2>5, <3>2, <4>2
    <3> QED BY <2>5, <3>1, <3>2
  <2>7. \A r \in DOMAIN approvals : approvals[r] \in Approval
    BY LenProperties, ElementOfSeq DEF ApprovalTyped
  <2>8. DOMAIN approvals' = DOMAIN approvals
        /\ \A r \in DOMAIN approvals : approvals'[r].action = approvals[r].action
    BY <1>4, <2>7 DEF Decide, Approval
  <2>9. actions' = actions
    BY <1>4 DEF Decide
  <2> QED BY <1>0, <2>6, <2>8, <2>9 DEF ActionInv
<1>5. ASSUME NEW i \in DOMAIN calls, Request(i) PROVE ActionInv'
  BY <1>1, <1>3, <1>5 DEF Request
<1>6. ASSUME NEW i \in DOMAIN calls, ListPending(i) PROVE ActionInv'
  BY <1>1, <1>6 DEF ListPending
<1>7. ASSUME NEW c \in Client, CallPropose(c) \/ CallRequest(c) \/ CallPending(c) \/ CallDecide(c)
      PROVE  ActionInv'
  BY <1>1, <1>7 DEF CallPropose, CallRequest, CallPending, CallDecide, approvalVars
<1> QED BY <1>2, <1>4, <1>5, <1>6, <1>7 DEF ApprovalStep

LEMMA ClockBound ==
  ASSUME now \in 0..MaxNow, [Next]_vars
  PROVE  now' \in 0..MaxNow
<1>1. now' = now \/ Tick
  BY DEF Next, vars
<1> QED BY <1>1, RecordsAssumption DEF Tick

-----------------------------------------------------------------------------
(* All of it together is the type invariant.                               *)

Bounds ==
  /\ CallInv /\ HolderInv /\ RefInv /\ ActionInv
  /\ Func(shown, Client) /\ Func(reading, Client) /\ now \in 0..MaxNow

LEMMA InitBounds == Init => Bounds
<1> SUFFICES ASSUME Init PROVE Bounds
  OBVIOUS
<1>1. /\ workload \in Workloads /\ calls = <<>> /\ lock = [p \in Process |-> 0]
      /\ waiting = [c \in Client |-> 0]
  BY DEF Init, InteractInit
<1>2. /\ now = 0 /\ actions = {0} /\ approvals = <<[action |-> 0, status |-> "pending"]>>
      /\ decisions = <<>> /\ shown = [c \in Client |-> <<>>]
      /\ reading = [c \in Client |-> [offset |-> 0, got |-> {}, due |-> {}, done |-> FALSE]]
  BY DEF Init, RecordsInit
<1>3. CallInv
  <2>1. workload.calls \in Nat
    BY <1>1, InteractAssumption
  <2> QED BY <1>1, <2>1 DEF CallInv, Func
<1>4. HolderInv
  BY <1>1 DEF HolderInv
<1>5. RefInv
  BY <1>1 DEF Init, StoresInit, RefInv
<1>6. ActionInv
  BY <1>1, <1>2 DEF ActionInv
<1>7. Func(shown, Client) /\ Func(reading, Client)
  BY <1>2 DEF Func
<1>8. now \in 0..MaxNow
  BY <1>2, RecordsAssumption
<1> QED BY <1>3, <1>4, <1>5, <1>6, <1>7, <1>8 DEF Bounds

LEMMA NextBounds ==
  ASSUME Typed, ApprovalInv, Bounds, [Next]_vars
  PROVE  Bounds'
<1>1. Typed'
  BY NextTyped
<1>2. PICK ops : Kept(ops)
  BY AnyStepKept
<1>3. CallInv'
  <2>1. Func(waiting', Client)
    BY WaitingFunc DEF Bounds, CallInv
  <2> QED BY <1>1, <1>2, <2>1, CallStepInv DEF Bounds
<1>4. HolderInv'
  BY StepsAre, HolderStep DEF Bounds
<1>5. RefInv'
  BY RefStep DEF Bounds
<1>6. ActionInv'
  <2>1. CASE ApprovalStep
    BY <2>1, ActionStep DEF Bounds
  <2>2. CASE UNCHANGED approvalVars
    <3>1. DOMAIN calls \subseteq DOMAIN calls'
      BY <1>2 DEF Kept
    <3> QED BY <2>2, <3>1 DEF Bounds, ActionInv, approvalVars
  <2> QED BY <2>1, <2>2 DEF Next, vars, recordVars
<1>7. Func(shown', Client) /\ Func(reading', Client)
  BY ShownFunc, ReadingFunc DEF Bounds
<1>8. now' \in 0..MaxNow
  BY ClockBound DEF Bounds
<1> QED BY <1>3, <1>4, <1>5, <1>6, <1>7, <1>8 DEF Bounds

LEMMA BoundsInvariant == Spec => []Bounds
<1>1. Typed /\ ApprovalInv /\ Bounds /\ [Next]_vars => Bounds'
  BY NextBounds
<1> QED BY <1>1, InitBounds, ApprovalInvariant, PTL DEF Spec

LEMMA LocksTyped ==
  ASSUME Typed, HolderInv, NEW p \in Process
  PROVE  {i \in DOMAIN calls : Conn(i) = p /\ calls[i].pc = "counted"}
           = IF lock[p] = 0 THEN {} ELSE {lock[p]}
<1>1. ASSUME NEW i \in DOMAIN calls, Conn(i) = p, calls[i].pc = "counted"
      PROVE  lock[p] = i /\ i # 0
  BY <1>1, CallTyped DEF Typed, LockInv
<1>2. lock[p] # 0 => Holder(lock[p], p)
  BY DEF HolderInv
<1> QED BY <1>1, <1>2 DEF Holder

LEMMA CallsOf ==
  ASSUME Typed, NEW i \in DOMAIN calls
  PROVE  calls[i] \in [client : Client, op : Ops, pc : {"queued", "counted", "done"},
                       result : {"none", "ok", "conflict", "error"}, arg : ArgOf(calls[i].op)]
<1>1. calls[i] \in Calls /\ calls[i].op \in Ops
  BY CallTyped DEF Typed, Calls
<1>2. ArgTyped(calls[i].op, calls[i].arg)
  BY DEF Typed, CallsTyped
<1>3. calls[i].arg \in ArgOf(calls[i].op)
  BY <1>2 DEF ArgTyped, ArgOf, Choice
<1> QED BY <1>1, <1>3 DEF Calls, PC, Result

LEMMA StoresTyped ==
  ASSUME Typed, RefInv
  PROVE  StoresTypeOK
BY DEF Typed, SessionTyped, RunTyped, RefInv, StoresTypeOK

LEMMA SeqNarrows ==
  ASSUME NEW S, NEW T, NEW s \in Seq(S), \A k \in DOMAIN s : s[k] \in T
  PROVE  s \in Seq(T)
<1>1. Len(s) \in Nat /\ DOMAIN s = 1..Len(s) /\ s \in [1..Len(s) -> S]
  BY LenProperties
<1>2. s \in [1..Len(s) -> T]
  BY <1>1
<1> QED BY <1>1, <1>2, SeqDef

LEMMA RecordsTyped ==
  ASSUME Typed, ApprovalInv, MessageInv, PageInv, Bounds
  PROVE  RecordsTypeOK
<1> USE DEF Typed, Bounds
<1>0. now \in 0..MaxNow /\ MaxNow \in Nat
  BY RecordsAssumption
<1>1. messages \in Seq(DOMAIN composed) /\ draft \in [Client -> 0..Len(composed)]
  BY DEF MessageInv, Conversation, Drafted
<1>2. composed \in Seq([at : 0..MaxNow, after : SUBSET Nat])
  <2>1. composed \in Seq(Composed)
    BY DEF MessageInv, Conversation
  <2>2. ASSUME NEW m \in DOMAIN composed PROVE composed[m] \in [at : 0..MaxNow, after : SUBSET Nat]
    <3>1. composed[m] \in Composed
      BY <2>1, LenProperties, ElementOfSeq
    <3>2. composed[m].at \in Nat /\ composed[m].at <= now
      BY <3>1 DEF MessageInv, Conversation, Composed
    <3>3. composed[m].at \in 0..MaxNow
      BY <1>0, <3>2
    <3> QED BY <3>1, <3>3 DEF Composed
  <2> DEFINE T == [at : 0..MaxNow, after : SUBSET Nat]
  <2>3. \A m \in DOMAIN composed : composed[m] \in T
    BY <2>2
  <2> HIDE DEF T
  <2>4. composed \in Seq(T)
    BY <2>1, <2>3, SeqNarrows
  <2> QED BY <2>4 DEF T
<1>3. shown \in [Client -> Seq(DOMAIN composed)]
  <2>1. \A c \in Client : shown[c] \in Seq(DOMAIN composed)
    BY DEF MessageInv, Conversation
  <2> QED BY <2>1 DEF Func
<1>4. actions \subseteq {0} \cup DOMAIN calls
  BY DEF ActionInv
<1>5. approvals \in Seq([action : actions, status : {"pending", "decided"}])
  <2> DEFINE T == [action : actions, status : {"pending", "decided"}]
  <2>1. approvals \in Seq(Approval)
    BY DEF ApprovalInv
  <2>2. ASSUME NEW r \in DOMAIN approvals PROVE approvals[r] \in T
    <3>1. approvals[r] \in Approval
      BY <2>1, LenProperties, ElementOfSeq
    <3> QED BY <3>1 DEF ActionInv, Approval
  <2> HIDE DEF T
  <2>3. approvals \in Seq(T)
    BY <2>1, <2>2, SeqNarrows
  <2> QED BY <2>3 DEF T
<1>6. /\ Len(approvals) \in Nat /\ DOMAIN approvals = 1..Len(approvals)
      /\ Len(decisions) \in Nat /\ DOMAIN decisions = 1..Len(decisions)
  BY LenProperties DEF ApprovalTyped
<1>7. held \in [Client -> [row : 0..Len(approvals), asOf : 0..Len(decisions)]]
  <2>1. held \in [Client -> Choice]
    BY DEF ApprovalTyped
  <2>2. ASSUME NEW c \in Client PROVE held[c] \in [row : 0..Len(approvals), asOf : 0..Len(decisions)]
    <3>1. held[c] \in Choice /\ held[c].row \in Nat /\ held[c].asOf \in Nat
      BY <2>1 DEF Choice
    <3>2. (held[c].row = 0 \/ held[c].row \in 1..Len(approvals)) /\ held[c].asOf <= Len(decisions)
      BY <1>6 DEF ApprovalInv
    <3>3. held[c].row \in 0..Len(approvals) /\ held[c].asOf \in 0..Len(decisions)
      BY <1>6, <3>1, <3>2
    <3> QED BY <3>1, <3>3 DEF Choice
  <2> QED BY <2>1, <2>2
<1>8. decisions \in Seq([row : DOMAIN approvals, asOf : 0..Len(decisions)])
  <2> DEFINE T == [row : DOMAIN approvals, asOf : 0..Len(decisions)]
  <2>1. decisions \in Seq(Choice)
    BY DEF ApprovalTyped
  <2>2. ASSUME NEW j \in DOMAIN decisions PROVE decisions[j] \in T
    <3>0. decisions[j] \in Choice
      BY <1>6, <2>1, ElementOfSeq
    <3>1. decisions[j] \in Choice /\ decisions[j].asOf \in Nat
      BY <3>0 DEF Choice
    <3>2. decisions[j].row \in DOMAIN approvals /\ decisions[j].asOf <= Len(decisions)
      BY DEF ApprovalInv, ActionInv
    <3> QED BY <1>6, <3>1, <3>2 DEF Choice
  <2> HIDE DEF T
  <2>3. decisions \in Seq(T)
    BY <2>1, <2>2, SeqNarrows
  <2> QED BY <2>3 DEF T
<1>9. updated \in Seq(0..MaxNow)
  <2>1. updated \in Seq(Nat)
    BY DEF PageInv
  <2>2. \A r \in DOMAIN updated : updated[r] \in Nat /\ updated[r] <= now
    BY <2>1, ListTypes DEF PageInv
  <2>3. \A r \in DOMAIN updated : updated[r] \in 0..MaxNow
    BY <1>0, <2>2
  <2> QED BY <2>1, <2>3, SeqNarrows
<1>10. reading \in [Client -> [offset : Nat, got : SUBSET DOMAIN updated,
                               due : SUBSET DOMAIN updated, done : BOOLEAN]]
  <2>1. \A c \in Client : reading[c] \in [offset : Nat, got : SUBSET DOMAIN updated,
                                          due : SUBSET DOMAIN updated, done : BOOLEAN]
    BY DEF PageInv, StillAhead
  <2> QED BY <2>1 DEF Func
<1> QED BY <1>0, <1>1, <1>2, <1>3, <1>4, <1>5, <1>7, <1>8, <1>9, <1>10 DEF RecordsTypeOK

(* Every call has an argument of its operation and every row refers to     *)
(* rows there are; a connection is held by one call at most, which is      *)
(* between its two statements (async_db.rs:57-59, runs.rs:25-70).          *)
THEOREM StoresStayTyped == Spec => []TypeOK
<1>1. Typed /\ ApprovalInv /\ MessageInv /\ PageInv /\ Bounds => TypeOK
  <2> SUFFICES ASSUME Typed, ApprovalInv, MessageInv, PageInv, Bounds PROVE TypeOK
    OBVIOUS
  <2>1. workload \in Workloads /\ Len(calls) <= workload.calls /\ waiting \in [Client -> 0..Len(calls)]
    BY DEF Bounds, CallInv, Func
  <2>2. StoresTypeOK /\ RecordsTypeOK
    BY StoresTyped, RecordsTyped DEF Bounds
  <2>3. \A p \in Process : {i \in DOMAIN calls : Conn(i) = p /\ calls[i].pc = "counted"}
                             = IF lock[p] = 0 THEN {} ELSE {lock[p]}
    BY LocksTyped DEF Bounds
  <2> QED BY <2>1, <2>2, <2>3, CallsOf DEF TypeOK
<1> QED BY <1>1, ApprovalInvariant, MessageInvariant, PageInvariant, BoundsInvariant, PTL

=============================================================================
