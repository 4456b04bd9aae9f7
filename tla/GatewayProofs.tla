--------------------------- MODULE GatewayProofs ---------------------------
(***************************************************************************)
(* The gates of the gateway, its feed of pulses and its answers, for any   *)
(* number of clients, any requests, any size of the channel and of the     *)
(* buffers, and however the connections and pulses interleave.             *)
(***************************************************************************)
EXTENDS Gateway, TLAPS

(* A connection that does anything passed the operator check, and what its *)
(* task took was asked for.                                                *)
Joined(c) == phase[c] # "new" /\ phase[c] # "refused"

AdmittedOne(c) ==
  /\ Joined(c) => RequireOperator(c) = "passed"
  /\ doing[c] # "nothing" \/ stage[c] # "idle" \/ out[c] # NoFrame => Joined(c)
  /\ taken[c] \in Nat /\ asked[c] \in Nat
  /\ taken[c] <= asked[c] /\ asked[c] <= Len(Of(c).asks)

GateInv ==
  /\ plan \in Plans
  /\ DOMAIN phase = Client /\ DOMAIN doing = Client /\ DOMAIN stage = Pulser
  /\ DOMAIN taken = Client /\ DOMAIN asked = Client /\ DOMAIN out = Client
  /\ \A c \in Client : AdmittedOne(c)

-----------------------------------------------------------------------------
(* Steps of a connection.                                                  *)

LEMMA PeerTyped ==
  ASSUME plan \in Plans, NEW c \in Client
  PROVE  Of(c) \in Peer /\ Routed(Of(c))
BY GatewayAssumption DEF Of

LEMMA HandleKept ==
  ASSUME NEW c \in Client, NEW i, Handle(c, i)
  PROVE  /\ \E what : doing' = [doing EXCEPT ![c] = what]
         /\ stage' = stage \/ \E what : stage' = [stage EXCEPT ![c] = what]
         /\ out' = out \/ \E what : out' = [out EXCEPT ![c] = what]
BY DEF Handle, Resumes, Awaits, AwaitsPulse, BeginPulse, pulse, AnswersAtOnce, Calls, Answers

(* A step that touches one connection, which passed the check.             *)
LEMMA OneConnection ==
  ASSUME GateInv, NEW c \in Client, plan' = plan,
         phase' = phase \/ \E to : phase' = [phase EXCEPT ![c] = to],
         doing' = doing \/ \E what : doing' = [doing EXCEPT ![c] = what],
         stage' = stage \/ \E what : stage' = [stage EXCEPT ![c] = what],
         out' = out \/ \E what : out' = [out EXCEPT ![c] = what],
         DOMAIN taken' = Client, DOMAIN asked' = Client,
         \A x \in Client : x # c => taken'[x] = taken[x] /\ asked'[x] = asked[x],
         taken'[c] \in Nat /\ asked'[c] \in Nat,
         taken'[c] <= asked'[c] /\ asked'[c] <= Len(Of(c).asks),
         Joined(c)', RequireOperator(c) = "passed"
  PROVE  GateInv'
<1>1. \A x \in Client : RequireOperator(x)' = RequireOperator(x) /\ Of(x)' = Of(x)
  BY DEF RequireOperator, Verify, PresentedToken, Of
<1>2. \A x \in Client : x # c =>
        /\ phase'[x] = phase[x] /\ doing'[x] = doing[x]
        /\ stage'[x] = stage[x] /\ out'[x] = out[x]
  BY DEF GateInv, Pulser
<1>3. /\ DOMAIN phase' = Client /\ DOMAIN doing' = Client /\ DOMAIN stage' = Pulser
      /\ DOMAIN out' = Client /\ plan' \in Plans
  BY DEF GateInv
<1>4. AdmittedOne(c)'
  BY <1>1 DEF AdmittedOne, Joined
<1>5. ASSUME NEW x \in Client, x # c PROVE AdmittedOne(x)'
  BY <1>1, <1>2, <1>5 DEF GateInv, AdmittedOne, Joined
<1> QED BY <1>3, <1>4, <1>5 DEF GateInv

LEMMA GateInit == Init => GateInv
<1> SUFFICES ASSUME Init PROVE GateInv
  OBVIOUS
<1>1. \A c \in Client : Of(c).asks \in Seq(Ask)
  BY PeerTyped DEF Init, Peer
<1>2. \A c \in Client : 0 <= Len(Of(c).asks)
  BY <1>1
<1>3. ASSUME NEW c \in Client PROVE AdmittedOne(c)
  BY <1>2 DEF Init, AdmittedOne, Joined, Pulser
<1> QED BY <1>3 DEF Init, GateInv

LEMMA GateStep == GateInv /\ [Next]_vars => GateInv'
<1> SUFFICES ASSUME GateInv, [Next]_vars PROVE GateInv'
  OBVIOUS
<1> USE DEF link, bus, pulse, logs
<1>1. ASSUME UNCHANGED <<plan, phase, doing, asked, taken, out, stage>> PROVE GateInv'
  BY <1>1 DEF GateInv, AdmittedOne, Joined, RequireOperator, Verify, PresentedToken, Of
<1>2. ASSUME NEW c \in Client, Refuse(c) PROVE GateInv'
  <2>1. /\ phase' = [phase EXCEPT ![c] = "refused"] /\ phase[c] = "new"
        /\ UNCHANGED <<plan, doing, asked, taken, out, stage>>
    BY <1>2 DEF Refuse
  <2>2. ASSUME NEW x \in Client PROVE AdmittedOne(x)'
    BY <2>1 DEF GateInv, AdmittedOne, Joined, RequireOperator, Verify, PresentedToken, Of
  <2> QED BY <2>1, <2>2 DEF GateInv
<1>3. ASSUME NEW c \in Client, Greet(c) \/ Stream(c) PROVE GateInv'
  <2>1. /\ phase' = [phase EXCEPT ![c] = "open"] /\ RequireOperator(c) = "passed"
        /\ \E what : doing' = [doing EXCEPT ![c] = what]
        /\ out' = out \/ \E what : out' = [out EXCEPT ![c] = what]
        /\ UNCHANGED <<plan, asked, taken, stage>>
    BY <1>3 DEF Greet, Stream, Opens, Awaits, Answers
  <2>2. Joined(c)'
    BY <2>1 DEF GateInv, Joined
  <2>3. AdmittedOne(c)
    BY DEF GateInv
  <2> QED BY <2>1, <2>2, <2>3, OneConnection DEF GateInv, AdmittedOne
<1>4. ASSUME NEW c \in Client, Request(c) PROVE GateInv'
  <2>1. /\ phase' = [phase EXCEPT ![c] = "open"] /\ RequireOperator(c) = "passed"
        /\ Handle(c, 1) /\ Of(c).proto = "http"
        /\ asked' = [asked EXCEPT ![c] = 1] /\ taken' = [taken EXCEPT ![c] = 1]
        /\ plan' = plan
    BY <1>4 DEF Request, Opens
  <2>2. Len(Of(c).asks) = 1 /\ 1 \in DOMAIN Of(c).asks
    BY <2>1, PeerTyped DEF GateInv, Routed, Peer
  <2>3. Joined(c)'
    BY <2>1 DEF GateInv, Joined
  <2>4. /\ taken'[c] = 1 /\ asked'[c] = 1 /\ DOMAIN taken' = Client /\ DOMAIN asked' = Client
        /\ \A x \in Client : x # c => taken'[x] = taken[x] /\ asked'[x] = asked[x]
    BY <2>1 DEF GateInv
  <2>5. /\ \E what : doing' = [doing EXCEPT ![c] = what]
        /\ stage' = stage \/ \E what : stage' = [stage EXCEPT ![c] = what]
        /\ out' = out \/ \E what : out' = [out EXCEPT ![c] = what]
    BY <2>1, <2>2, HandleKept
  <2>6. taken'[c] \in Nat /\ asked'[c] \in Nat /\ taken'[c] <= asked'[c]
        /\ asked'[c] <= Len(Of(c).asks)
    BY <2>2, <2>4
  <2> QED BY <2>1, <2>3, <2>4, <2>5, <2>6, OneConnection
<1>5. ASSUME NEW c \in Client, Take(c) PROVE GateInv'
  <2>1. /\ doing[c] = "select" /\ taken[c] < asked[c]
        /\ taken' = [taken EXCEPT ![c] = @ + 1]
        /\ Handle(c, taken[c] + 1) /\ UNCHANGED <<plan, phase, asked>>
    BY <1>5 DEF Take, Selecting
  <2>2. AdmittedOne(c) /\ Joined(c) /\ RequireOperator(c) = "passed"
    BY <2>1 DEF GateInv, AdmittedOne
  <2>3. taken[c] + 1 \in DOMAIN Of(c).asks
    <3>1. Of(c).asks \in Seq(Ask)
      BY PeerTyped DEF GateInv, Peer
    <3> QED BY <2>1, <2>2, <3>1 DEF AdmittedOne
  <2>4. /\ taken'[c] = taken[c] + 1 /\ DOMAIN taken' = Client
        /\ \A x \in Client : x # c => taken'[x] = taken[x]
    BY <2>1 DEF GateInv
  <2>5. taken'[c] \in Nat /\ taken'[c] <= asked'[c] /\ asked'[c] <= Len(Of(c).asks)
    BY <2>1, <2>2, <2>4 DEF AdmittedOne
  <2>6. Joined(c)'
    BY <2>1, <2>2 DEF Joined
  <2>7. DOMAIN asked' = Client /\ asked'[c] \in Nat /\ asked' = asked
    BY <2>1, <2>2 DEF GateInv, AdmittedOne
  <2> QED BY <2>1, <2>2, <2>3, <2>4, <2>5, <2>6, <2>7, HandleKept, OneConnection
<1>6. ASSUME NEW c \in Client,
             Respond(c) \/ Forward(c) \/ Deliver(c) \/ SendInVain(c) \/ HangUp(c) \/ Drop(c)
      PROVE  GateInv'
  <2>1. /\ UNCHANGED <<plan, asked, taken>>
        /\ phase' = phase \/ \E to : phase' = [phase EXCEPT ![c] = to]
        /\ doing' = doing \/ \E what : doing' = [doing EXCEPT ![c] = what]
        /\ stage' = stage \/ \E what : stage' = [stage EXCEPT ![c] = what]
        /\ out' = out \/ \E what : out' = [out EXCEPT ![c] = what]
    BY <1>6 DEF Respond, Forward, Deliver, SendInVain, HangUp, Drop, Awaits, Answers, Closes,
       CutOff, Lagged, Resumes
  <2>2. AdmittedOne(c) /\ Joined(c) /\ RequireOperator(c) = "passed"
    BY <1>6 DEF GateInv, AdmittedOne, Respond, Forward, Deliver, SendInVain, HangUp, Drop,
       Selecting, Joined
  <2>3. phase'[c] = phase[c] \/ phase'[c] = "closed"
    BY <1>6 DEF GateInv, Respond, Forward, Deliver, SendInVain, HangUp, Drop, Closes, Lagged
  <2>4. Joined(c)'
    BY <2>2, <2>3 DEF Joined
  <2> QED BY <2>1, <2>2, <2>4, OneConnection DEF GateInv, AdmittedOne
<1>7. ASSUME NEW c \in Client, Say(c) PROVE GateInv'
  <2>1. /\ phase[c] = "open" /\ asked[c] < Len(Of(c).asks)
        /\ asked' = [asked EXCEPT ![c] = @ + 1]
        /\ UNCHANGED <<plan, phase, doing, taken, out, stage>>
    BY <1>7 DEF Say
  <2>2. AdmittedOne(c) /\ Joined(c)' /\ RequireOperator(c) = "passed"
    BY <2>1 DEF GateInv, AdmittedOne, Joined
  <2>3. /\ asked'[c] = asked[c] + 1 /\ DOMAIN asked' = Client
        /\ \A x \in Client : x # c => asked'[x] = asked[x]
    BY <2>1 DEF GateInv
  <2>4. /\ taken'[c] \in Nat /\ asked'[c] \in Nat /\ taken'[c] <= asked'[c]
        /\ asked'[c] <= Len(Of(c).asks)
    <3>1. Of(c).asks \in Seq(Ask)
      BY PeerTyped DEF GateInv, Peer
    <3>2. Len(Of(c).asks) \in Nat
      BY <3>1
    <3> QED BY <2>1, <2>2, <2>3, <3>2 DEF AdmittedOne
  <2>5. DOMAIN taken' = Client /\ \A x \in Client : taken'[x] = taken[x]
    BY <2>1 DEF GateInv
  <2> QED BY <2>1, <2>2, <2>3, <2>4, <2>5, OneConnection
<1>8. ASSUME NEW p \in Pulser, Publish(p) \/ Return(p) PROVE GateInv'
  <2>1. CASE p = Loop
    <3>1. /\ UNCHANGED <<plan, phase, doing, asked, taken, out>>
          /\ \E what : stage' = [stage EXCEPT ![Loop] = what]
      BY <1>8, <2>1 DEF Publish, Return
    <3>2. DOMAIN stage' = Pulser /\ \A c \in Client : stage'[c] = stage[c]
      BY <3>1, GatewayAssumption DEF GateInv, Pulser
    <3>3. ASSUME NEW c \in Client PROVE AdmittedOne(c)'
      BY <3>1, <3>2 DEF GateInv, AdmittedOne, Joined, RequireOperator, Verify, PresentedToken, Of
    <3> QED BY <3>1, <3>2, <3>3 DEF GateInv
  <2>2. CASE p \in Client /\ p # Loop
    <3>1. /\ UNCHANGED <<plan, phase, asked, taken>>
          /\ doing' = doing \/ \E what : doing' = [doing EXCEPT ![p] = what]
          /\ \E what : stage' = [stage EXCEPT ![p] = what]
          /\ out' = out \/ \E what : out' = [out EXCEPT ![p] = what]
          /\ stage[p] # "idle"
      BY <1>8, <2>2 DEF Publish, Return, Answers, Resumes, Awaits
    <3>2. AdmittedOne(p) /\ Joined(p) /\ RequireOperator(p) = "passed"
      BY <2>2, <3>1 DEF GateInv, AdmittedOne
    <3>3. Joined(p)'
      BY <3>1, <3>2 DEF Joined
    <3> QED BY <2>2, <3>1, <3>2, <3>3, OneConnection DEF GateInv, AdmittedOne
  <2> QED BY <2>1, <2>2, GatewayAssumption DEF Pulser
<1>9. CASE LoopBegins
  <2>1. /\ UNCHANGED <<plan, phase, doing, asked, taken, out>>
        /\ \E what : stage' = [stage EXCEPT ![Loop] = what]
    BY <1>9 DEF LoopBegins, BeginPulse
  <2>2. DOMAIN stage' = Pulser /\ \A c \in Client : stage'[c] = stage[c]
    BY <2>1, GatewayAssumption DEF GateInv, Pulser
  <2>3. ASSUME NEW c \in Client PROVE AdmittedOne(c)'
    BY <2>1, <2>2 DEF GateInv, AdmittedOne, Joined, RequireOperator, Verify, PresentedToken, Of
  <2> QED BY <2>1, <2>2, <2>3 DEF GateInv
<1>10. ASSUME NEW c \in Client, Read(c) \/ Leave(c) PROVE GateInv'
  BY <1>1, <1>10 DEF Read, Leave
<1>11. CASE UNCHANGED <<plan, link, bus, pulse>>
  BY <1>1, <1>11
<1> QED
  BY <1>2, <1>3, <1>4, <1>5, <1>6, <1>7, <1>8, <1>9, <1>10, <1>11
  DEF Next, Serve, AgentCalls, ShellTask, vars

-----------------------------------------------------------------------------
(* Pulses in progress: every one has a number of its own, and publishes it *)
(* once.                                                                   *)
NumbersInv ==
  /\ feed \in Seq(Nat) /\ ticks \in Nat
  /\ num \in [Pulser -> Nat] /\ stage \in [Pulser -> {"idle", "work", "crumb"}]
  /\ \A k \in DOMAIN feed : feed[k] \in 1..ticks
  /\ \A j, k \in DOMAIN feed : feed[j] = feed[k] => j = k
  /\ \A p \in Pulser : stage[p] # "idle" => num[p] \in 1..ticks
  /\ \A p \in Pulser : stage[p] = "work" =>
       /\ num[p] \notin Range(feed)
       /\ \A q \in Pulser : stage[q] = "work" /\ num[q] = num[p] => q = p
  /\ \A p \in Pulser : stage[p] = "crumb" => num[p] \in Range(feed)

LEMMA NumbersKept ==
  ASSUME NumbersInv, UNCHANGED <<feed, pulse>>
  PROVE  NumbersInv'
BY DEF NumbersInv, pulse, Range

LEMMA NumbersCut ==
  ASSUME NumbersInv, NEW p \in Pulser, UNCHANGED <<feed, ticks, num>>, CutOff(p)
  PROVE  NumbersInv'
BY DEF NumbersInv, CutOff, Range

LEMMA NumbersBegin ==
  ASSUME NumbersInv, NEW p \in Pulser, feed' = feed, BeginPulse(p)
  PROVE  NumbersInv'
<1>1. /\ ticks' = ticks + 1 /\ num' = [num EXCEPT ![p] = ticks + 1]
      /\ stage' = [stage EXCEPT ![p] = "work"]
  BY DEF BeginPulse
<1>2. \A k \in DOMAIN feed : feed[k] \in 1..ticks /\ feed[k] \in 1..(ticks + 1) /\ feed[k] # ticks + 1
  BY DEF NumbersInv
<1>3. \A q \in Pulser : stage[q] # "idle" => num[q] # ticks + 1 /\ num[q] \in 1..(ticks + 1)
  BY DEF NumbersInv
<1>4. ticks + 1 \notin Range(feed) /\ ticks + 1 \in 1..(ticks + 1) /\ ticks + 1 \in Nat
  BY <1>2 DEF Range, NumbersInv
<1> QED BY <1>1, <1>2, <1>3, <1>4 DEF NumbersInv, Range

LEMMA NumbersPublish ==
  ASSUME NumbersInv, NEW p \in Pulser, Publish(p)
  PROVE  NumbersInv'
<1>1. /\ feed' = Append(feed, num[p]) /\ stage[p] = "work"
      /\ stage' = [stage EXCEPT ![p] = "crumb"] /\ UNCHANGED <<ticks, num>>
  BY DEF Publish
<1>2. num[p] \in 1..ticks /\ num[p] \notin Range(feed) /\ feed \in Seq(Nat) /\ num[p] \in Nat
  BY <1>1 DEF NumbersInv
<1>3. /\ DOMAIN feed' = 1..(Len(feed) + 1) /\ DOMAIN feed = 1..Len(feed) /\ Len(feed) \in Nat
      /\ feed'[Len(feed) + 1] = num[p] /\ \A k \in 1..Len(feed) : feed'[k] = feed[k]
  BY <1>1, <1>2
<1>4. Range(feed') = Range(feed) \cup {num[p]}
  BY <1>3 DEF Range
<1>5. \A k \in DOMAIN feed : feed[k] # num[p]
  BY <1>2 DEF Range
<1>6. feed' \in Seq(Nat) /\ \A k \in DOMAIN feed' : feed'[k] \in 1..ticks'
  BY <1>1, <1>2, <1>3 DEF NumbersInv
<1>7. \A j, k \in DOMAIN feed' : feed'[j] = feed'[k] => j = k
  BY <1>3, <1>5 DEF NumbersInv
<1> QED BY <1>1, <1>2, <1>4, <1>6, <1>7 DEF NumbersInv

LEMMA NumbersReturn ==
  ASSUME NumbersInv, NEW p \in Pulser, Return(p)
  PROVE  NumbersInv'
BY DEF NumbersInv, Return, bus, Range

-----------------------------------------------------------------------------
(* What a connection is doing.                                             *)

Sent == [kind : {"welcome", "pulse", "answer"}, ask : Nat, tick : Nat,
         answer : Answer \cup {"none"}]

(* What a task awaits goes with what it sends and with the pulse it began. *)
LinkTyped(c) ==
  /\ seen[c] <= Len(frames[c]) /\ Len(frames[c]) <= seen[c] + Buffer
  /\ since[c] >= 1 /\ since[c] <= next[c] /\ next[c] <= Len(feed) + 1
  /\ stage[c] # "idle" <=> doing[c] = "pulse"
  /\ doing[c] \in {"model", "pulse"} => out[c] = NoFrame
  /\ doing[c] \in {"model", "pulse"} => taken[c] \in DOMAIN Of(c).asks
  /\ doing[c] = "model" => Of(c).asks[taken[c]].kind \in Model
  /\ doing[c] = "pulse" => Of(c).asks[taken[c]].kind = "heartbeat"
  /\ out[c] = Welcome => frames[c] = <<>>
  /\ phase[c] = "new" => frames[c] = <<>> /\ out[c] = NoFrame /\ doing[c] = "nothing"

Functions ==
  /\ phase \in [Client -> Phase] /\ doing \in [Client -> Doing]
  /\ frames \in [Client -> Seq(Sent)] /\ out \in [Client -> Sent \cup {NoFrame}]
  /\ seen \in [Client -> Nat] /\ next \in [Client -> Nat] /\ since \in [Client -> Nat]
  /\ gone \subseteq Client

LinkInv == Functions /\ \A c \in Client : LinkTyped(c)

LEMMA FramesDiffer ==
  /\ NoFrame # Welcome /\ Welcome \in Sent /\ NoFrame \notin Sent
  /\ NoFrame.kind = "none" /\ Welcome.kind = "welcome" /\ Welcome.tick = 0 /\ NoFrame.tick = 0
  /\ \A t \in Nat : Pulse(t) \in Sent /\ Pulse(t).kind = "pulse" /\ Pulse(t).tick = t
  /\ \A i \in Nat, a \in Answer :
       /\ Reply(i, a) \in Sent /\ Reply(i, a).kind = "answer" /\ Reply(i, a).ask = i
       /\ Reply(i, a).tick = 0 /\ Reply(i, a).answer = a
  /\ \A i, t \in Nat :
       /\ Receipt(i, t) \in Sent /\ Receipt(i, t).kind = "answer" /\ Receipt(i, t).ask = i
       /\ Receipt(i, t).tick = t /\ Receipt(i, t).answer = "ok"
BY DEF NoFrame, Welcome, Frame, Sent, Pulse, Reply, Receipt, Answer

(* Whatever comes of a call, it is an answer.                              *)
LEMMA CallAnswered ==
  ASSUME NEW ask, NEW r \in Dispatched(ask)
  PROVE  r.answer \in Answer
<1>1. ASSUME NEW may \in BOOLEAN, NEW succeeds \in BOOLEAN, NEW s \in Attempt(may, succeeds)
      PROVE  s.answer \in Answer
  BY DEF Attempt, Results, Answer
<1>2. ASSUME NEW s \in Results({Refused}, FALSE) \cup Results({Failed}, FALSE)
      PROVE  s.answer \in Answer
  BY DEF Results, Answer
<1>3. ASSUME NEW call, NEW s \in DispatchShell(call) PROVE s.answer \in Answer
  <2>1. ResolveDirPath(call.place) \in BOOLEAN /\ TRUE \in BOOLEAN
    BY DEF ResolveDirPath
  <2>2. s \in Attempt(ResolveDirPath(call.place), TRUE) \/ s \in Results({Refused}, FALSE)
    BY <1>3 DEF DispatchShell, ExecuteShell
  <2> QED BY <1>1, <1>2, <2>1, <2>2, Zenon
<1>4. ASSUME NEW call, NEW s \in FileSkill(call) PROVE s.answer \in Answer
  <2>1. /\ ResolveReadPath(call.place) \in BOOLEAN /\ (call.place = "file") \in BOOLEAN
        /\ ResolveWritePath(call.place) \in BOOLEAN /\ (call.place # "dir") \in BOOLEAN
        /\ ResolveDirPath(call.place) \in BOOLEAN /\ TRUE \in BOOLEAN
    BY DEF ResolveDirPath, ResolveReadPath, ResolveWritePath
  <2>2. \/ s \in Attempt(ResolveReadPath(call.place), call.place = "file")
        \/ s \in Attempt(ResolveWritePath(call.place), call.place # "dir")
        \/ s \in Attempt(ResolveDirPath(call.place), TRUE)
    BY <1>4 DEF FileSkill
  <2> QED BY <1>1, <2>1, <2>2, Zenon
<1>5. ASSUME NEW call, NEW s \in ExecuteGated(call) PROVE s.answer \in Answer
  <2>1. \/ s \in Results({Refused}, FALSE) \/ s \in Results({Failed}, FALSE)
        \/ s \in DispatchShell(call) \/ s \in FileSkill(call)
    BY <1>5 DEF ExecuteGated, Execute, Handler, Unconnected
  <2> QED BY <1>2, <1>3, <1>4, <2>1
<1>6. ASSUME NEW call, NEW s \in DispatchShellGated(call) PROVE s.answer \in Answer
  BY <1>2, <1>3, <1>6 DEF DispatchShellGated
<1> QED BY <1>5, <1>6 DEF Dispatched

(* The four ways a handler can go with request i.                          *)
Wanted(c, i) == Of(c).asks[i].kind # "noise"
Resumed(c) == \E d \in {"select", "nothing"} : doing' = [doing EXCEPT ![c] = d]

Ignores(c, i)   == ~Wanted(c, i) /\ Resumed(c) /\ UNCHANGED <<out, pulse>>
Settles(c, i) ==
  /\ Wanted(c, i) /\ Resumed(c) /\ pulse' = pulse
  /\ \E f \in Sent : /\ f.kind = "answer" /\ f.ask = i /\ f.tick = 0
                     /\ out' = [out EXCEPT ![c] = f]
AsksModel(c, i) ==
  /\ Of(c).asks[i].kind \in Model
  /\ Wanted(c, i) /\ doing' = [doing EXCEPT ![c] = "model"] /\ UNCHANGED <<out, pulse>>
Pulses(c, i) ==
  /\ Of(c).asks[i].kind = "heartbeat"
  /\ Wanted(c, i) /\ doing' = [doing EXCEPT ![c] = "pulse"] /\ out' = out /\ BeginPulse(c)

LEMMA HandleShape ==
  ASSUME NEW c \in Client, NEW i \in Nat, Handle(c, i)
  PROVE  /\ turns' = turns
         /\ Ignores(c, i) \/ Settles(c, i) \/ AsksModel(c, i) \/ Pulses(c, i)
<1> DEFINE kind == Of(c).asks[i].kind
<1>0. turns' = turns
  BY DEF Handle
<1>r. Resumes(c) => Resumed(c)
  BY DEF Resumes, Awaits, Resumed
<1>1. CASE kind = "noise" /\ Resumes(c) /\ UNCHANGED <<out, pulse, done>>
  BY <1>0, <1>1, <1>r DEF Ignores, Wanted
<1>2. CASE kind \in AtOnce /\ AnswersAtOnce(c, i) /\ Resumes(c) /\ UNCHANGED <<pulse, done>>
  <2>0. [ping |-> {"ok"}, lookup |-> {"ok", Failed}, invalid |-> {Failed}][kind]
          \subseteq {"ok", Failed}
    BY <1>2 DEF AtOnce
  <2>1. PICK a \in {"ok", Failed} : out' = [out EXCEPT ![c] = Reply(i, a)]
    BY <1>2, <2>0, Zenon DEF AnswersAtOnce, Answers
  <2>2. a \in Answer
    BY DEF Answer
  <2>3. Wanted(c, i)
    BY <1>2 DEF Wanted, AtOnce
  <2>4. pulse' = pulse /\ Resumed(c)
    BY <1>2, <1>r
  <2>5. PICK f : f = Reply(i, a)
    OBVIOUS
  <2>6. f \in Sent /\ f.kind = "answer" /\ f.ask = i /\ f.tick = 0
    BY <2>2, <2>5, FramesDiffer
  <2>7. Settles(c, i)
    BY <2>1, <2>3, <2>4, <2>5, <2>6 DEF Settles
  <2> QED BY <1>0, <2>7
<1>3. CASE kind \in {"skill", "shell"} /\ Calls(c, i) /\ Resumes(c) /\ UNCHANGED pulse
  <2>1. PICK r \in Dispatched(Of(c).asks[i]) : out' = [out EXCEPT ![c] = Reply(i, r.answer)]
    BY <1>3 DEF Calls, Answers
  <2>2. r.answer \in Answer
    BY CallAnswered
  <2>3. Wanted(c, i)
    BY <1>3 DEF Wanted
  <2>4. Settles(c, i)
    BY <1>3, <1>r, <2>1, <2>2, <2>3, FramesDiffer DEF Settles
  <2> QED BY <1>0, <2>4
<1>4. CASE kind \in Model /\ Awaits(c, "model") /\ UNCHANGED <<out, pulse, done>>
  BY <1>0, <1>4 DEF AsksModel, Awaits, Model, Wanted
<1>5. CASE kind = "heartbeat" /\ BeginPulse(c) /\ AwaitsPulse(c) /\ UNCHANGED <<out, done>>
  BY <1>0, <1>5 DEF Pulses, AwaitsPulse, Awaits, Wanted
<1> QED BY <1>1, <1>2, <1>3, <1>4, <1>5 DEF Handle

(* Nothing of connection x changes.                                        *)
Same(x) ==
  /\ phase'[x] = phase[x] /\ doing'[x] = doing[x] /\ out'[x] = out[x]
  /\ frames'[x] = frames[x] /\ seen'[x] = seen[x] /\ (x \in gone' <=> x \in gone)
  /\ next'[x] = next[x] /\ since'[x] = since[x]
  /\ stage'[x] = stage[x] /\ num'[x] = num[x] /\ taken'[x] = taken[x]

LEMMA LinkSame ==
  ASSUME NEW x \in Client, LinkTyped(x), Same(x), Len(feed) \in Nat,
         feed' = feed \/ Len(feed') = Len(feed) + 1, LinkInv, plan' = plan
  PROVE  LinkTyped(x)'
<1>1. Of(x)' = Of(x)
  BY DEF Of
<1> QED BY <1>1 DEF LinkTyped, Same, LinkInv, Functions

(* A step is taken by one connection, by a pulse or by nobody.             *)
LEMMA OthersSame ==
  ASSUME LinkInv, NumbersInv, GateInv, NEW c \in Client,
         Refuse(c) \/ Greet(c) \/ Stream(c) \/ Request(c) \/ Serve(c)
           \/ Say(c) \/ Read(c) \/ Leave(c)
  PROVE  plan' = plan /\ feed' = feed /\ \A x \in Client : x # c => Same(x)
<1> USE DEF link, bus, pulse, logs, LinkInv, Functions, NumbersInv, GateInv, Same, Pulser
<1>1. CASE Refuse(c) \/ Greet(c) \/ Stream(c)
  BY <1>1 DEF Refuse, Greet, Stream, Opens, Awaits, Answers, Subscribe
<1>2. ASSUME NEW i \in Nat, Handle(c, i)
      PROVE  \A x \in Client : x # c =>
               /\ doing'[x] = doing[x] /\ out'[x] = out[x]
               /\ stage'[x] = stage[x] /\ num'[x] = num[x]
  <2>1. Ignores(c, i) \/ Settles(c, i) \/ AsksModel(c, i) \/ Pulses(c, i)
    BY <1>2, HandleShape
  <2> QED BY <2>1 DEF Ignores, Settles, AsksModel, Pulses, Resumed, BeginPulse
<1>3. CASE Request(c)
  BY <1>2, <1>3 DEF Request, Opens
<1>4. CASE Take(c)
  <2>1. taken[c] + 1 \in Nat
    BY DEF AdmittedOne
  <2> QED BY <1>2, <1>4, <2>1 DEF Take
<1>5. CASE Forward(c) \/ Respond(c) \/ HangUp(c)
  BY <1>5 DEF Forward, Respond, HangUp, Lagged, Closes, Awaits, Answers, Resumes
<1>6. CASE Deliver(c)
  BY <1>6 DEF Deliver, Awaits, Resumes, Subscribe
<1>7. CASE SendInVain(c) \/ Drop(c)
  BY <1>7 DEF SendInVain, Drop, Closes, Awaits, Resumes, Subscribe, CutOff
<1>8. CASE Say(c) \/ Read(c) \/ Leave(c)
  BY <1>8 DEF Say, Read, Leave
<1> QED BY <1>1, <1>3, <1>4, <1>5, <1>6, <1>7, <1>8 DEF Serve

(* A handler starts only where the connection is free to do so.            *)
LEMMA LinkHandle ==
  ASSUME NumbersInv, NEW c \in Client, NEW i \in Nat, Handle(c, i), LinkInv,
         i \in DOMAIN Of(c).asks,
         out[c] = NoFrame, doing[c] # "pulse",
         UNCHANGED <<frames, seen, gone, bus>>,
         phase' \in [Client -> Phase], phase'[c] # "new", plan' = plan, taken'[c] = i
  PROVE  Functions' /\ LinkTyped(c)'
<1> USE DEF LinkInv, Functions, LinkTyped, bus, Doing
<1>1. Ignores(c, i) \/ Settles(c, i) \/ AsksModel(c, i) \/ Pulses(c, i)
  BY HandleShape
<1>a. Of(c)' = Of(c)
  BY DEF Of
<1>2. stage[c] = "idle" /\ stage \in [Pulser -> {"idle", "work", "crumb"}]
  BY DEF NumbersInv
<1>3. CASE Ignores(c, i)
  BY <1>2, <1>3, <1>a DEF Ignores, Resumed, pulse
<1>4. CASE Settles(c, i)
  <2>1. PICK f \in Sent : f.kind = "answer" /\ out' = [out EXCEPT ![c] = f]
    BY <1>4 DEF Settles
  <2>2. out'[c] = f /\ out' \in [Client -> Sent \cup {NoFrame}] /\ f # NoFrame /\ f # Welcome
    BY <2>1, FramesDiffer
  <2> QED BY <1>2, <1>4, <1>a, <2>2 DEF Settles, Resumed, pulse
<1>5. CASE AsksModel(c, i)
  BY <1>2, <1>5, <1>a DEF AsksModel, pulse
<1>6. CASE Pulses(c, i)
  BY <1>2, <1>6, <1>a DEF Pulses, BeginPulse, Pulser
<1> QED BY <1>1, <1>3, <1>4, <1>5, <1>6

(* What is recorded is what is answered, and an error only by the relay.   *)
LEMMA OutcomeKept ==
  ASSUME NEW kind \in Model, NEW result \in {"ok", Failed}, NEW outcome \in Outcome(kind, result)
  PROVE  /\ outcome.answer \in {"ok", Failed}
         /\ outcome.turn /\ outcome.answer = Failed => kind = "relay"
<1>r. ASSUME outcome = Turned(result, result = "ok")
      PROVE  outcome.answer = result /\ (outcome.turn => result = "ok")
  <2>1. PICK won : won = (result = "ok")
    OBVIOUS
  <2>2. outcome = [answer |-> result, turn |-> won]
    BY <1>r, <2>1 DEF Turned
  <2> QED BY <2>1, <2>2
<1>f. Failed # "ok"
  BY DEF Failed
<1>1. CASE kind \in {"chat", "completion"}
  <2>1. outcome = Turned(result, result = "ok")
    BY <1>1, Zenon DEF Outcome, ChatHandler
  <2> QED BY <1>f, <1>r, <2>1
<1>2. CASE kind = "stream"
  BY <1>2 DEF Outcome, StreamChat, Turned
<1>3. CASE kind = "relay"
  BY <1>3 DEF Outcome, DiscordRelay, Turned
<1>4. CASE kind = "agent"
  <2>1. outcome = Turned(result, result = "ok")
    <3>1. Outcome(kind, result) = AgentRun(result)
      BY <1>4 DEF Outcome
    <3> QED BY <3>1, Zenon DEF AgentRun
  <2> QED BY <1>f, <1>r, <2>1
<1> QED BY <1>1, <1>2, <1>3, <1>4 DEF Model

LEMMA AskedFor ==
  ASSUME GateInv, NEW c \in Client
  PROVE  /\ Of(c).asks \in Seq(Ask)
         /\ Request(c) => 1 \in DOMAIN Of(c).asks
         /\ Take(c) => taken[c] + 1 \in DOMAIN Of(c).asks
<1>1. Of(c) \in Peer /\ Routed(Of(c)) /\ AdmittedOne(c)
  BY PeerTyped DEF GateInv
<1>2. Of(c).asks \in Seq(Ask)
  BY <1>1 DEF Peer
<1>3. ASSUME Request(c) PROVE 1 \in DOMAIN Of(c).asks
  BY <1>1, <1>2, <1>3 DEF Request, Opens, Routed
<1>4. ASSUME Take(c) PROVE taken[c] + 1 \in DOMAIN Of(c).asks
  BY <1>1, <1>2, <1>4 DEF Take, AdmittedOne
<1> QED BY <1>2, <1>3, <1>4

LEMMA LinkStep ==
  LinkInv /\ NumbersInv /\ GateInv /\ [Next]_vars => LinkInv'
<1> SUFFICES ASSUME LinkInv, NumbersInv, GateInv, [Next]_vars PROVE LinkInv'
  OBVIOUS
<1> USE DEF link, bus, pulse, logs
<1>f. Len(feed) \in Nat /\ feed \in Seq(Nat)
  BY DEF NumbersInv
<1>b. Buffer \in Nat \ {0}
  BY GatewayAssumption
<1>t. /\ Functions /\ stage \in [Pulser -> {"idle", "work", "crumb"}]
      /\ \A x \in Client : LinkTyped(x)
  BY DEF LinkInv, NumbersInv
<1>o. ASSUME NEW c \in Client, Functions', LinkTyped(c)',
             Refuse(c) \/ Greet(c) \/ Stream(c) \/ Request(c) \/ Serve(c)
               \/ Say(c) \/ Read(c) \/ Leave(c)
      PROVE  LinkInv'
  <2>1. plan' = plan /\ feed' = feed /\ \A x \in Client : x # c => Same(x)
    BY <1>o, OthersSame
  <2>2. \A x \in Client : x # c => LinkTyped(x)'
    BY <1>f, <1>t, <2>1, LinkSame
  <2> QED BY <1>o, <2>2 DEF LinkInv
<1>1. ASSUME NEW c \in Client, Refuse(c) PROVE LinkInv'
  <2>1. Functions' /\ LinkTyped(c)'
    BY <1>1, <1>t DEF Refuse, Functions, LinkTyped, Phase
  <2> QED BY <1>1, <1>o, <2>1
<1>2. ASSUME NEW c \in Client, Greet(c) PROVE LinkInv'
  <2>1. Functions' /\ LinkTyped(c)'
    BY <1>2, <1>t, FramesDiffer DEF Greet, Opens, Awaits, Answers, Functions, LinkTyped, Phase, Doing
  <2> QED BY <1>2, <1>o, <2>1
<1>3. ASSUME NEW c \in Client, Stream(c) PROVE LinkInv'
  <2>1. Functions' /\ LinkTyped(c)'
    BY <1>3, <1>t, <1>f DEF Stream, Opens, Awaits, Subscribe, Functions, LinkTyped, Phase, Doing
  <2> QED BY <1>3, <1>o, <2>1
<1>4. ASSUME NEW c \in Client, Request(c) PROVE LinkInv'
  <2>1. /\ phase[c] = "new" /\ phase' = [phase EXCEPT ![c] = "open"] /\ Handle(c, 1)
        /\ UNCHANGED <<plan, frames, seen, gone, bus>> /\ taken'[c] = 1
    BY <1>4 DEF Request, Opens, GateInv
  <2>2. out[c] = NoFrame /\ doing[c] # "pulse"
    BY <1>t, <2>1 DEF LinkTyped
  <2>3. phase' \in [Client -> Phase] /\ phase'[c] # "new"
    BY <1>t, <2>1 DEF Functions, Phase
  <2>4. Functions' /\ LinkTyped(c)'
    BY <1>4, <2>1, <2>2, <2>3, AskedFor, LinkHandle
  <2> QED BY <1>4, <1>o, <2>4
<1>5. ASSUME NEW c \in Client, Take(c) PROVE LinkInv'
  <2>1. /\ doing[c] = "select" /\ out[c] = NoFrame /\ Handle(c, taken[c] + 1)
        /\ UNCHANGED <<plan, phase, frames, seen, gone, bus>>
        /\ taken'[c] = taken[c] + 1
    BY <1>5 DEF Take, Selecting, GateInv
  <2>2. phase' \in [Client -> Phase] /\ phase'[c] # "new"
    BY <1>t, <2>1 DEF Functions, LinkTyped
  <2>3. taken[c] + 1 \in Nat
    BY DEF GateInv, AdmittedOne
  <2>4. Functions' /\ LinkTyped(c)'
    BY <1>5, <2>1, <2>2, <2>3, AskedFor, LinkHandle
  <2> QED BY <1>5, <1>o, <2>4 DEF Serve
<1>6. ASSUME NEW c \in Client, Respond(c) PROVE LinkInv'
  <2>1. PICK result \in {"ok", Failed} :
          \E outcome \in Outcome(Of(c).asks[taken[c]].kind, result) :
             out' = [out EXCEPT ![c] = Reply(taken[c], outcome.answer)]
    BY <1>6 DEF Respond, Answers
  <2>2. PICK outcome \in Outcome(Of(c).asks[taken[c]].kind, result) :
             out' = [out EXCEPT ![c] = Reply(taken[c], outcome.answer)]
    BY <2>1
  <2>3. PICK f : f = Reply(taken[c], outcome.answer)
    OBVIOUS
  <2>a. outcome.answer \in Answer
    <3>1. Of(c).asks[taken[c]].kind \in Model
      BY <1>6, <1>t DEF Respond, LinkTyped
    <3> QED BY <3>1, OutcomeKept DEF Answer
  <2>4. taken[c] \in Nat
    BY DEF GateInv, AdmittedOne
  <2>5. f \in Sent /\ f.kind = "answer"
    BY <2>a, <2>3, <2>4, FramesDiffer
  <2>6. f # NoFrame /\ f # Welcome
    BY <2>5, FramesDiffer
  <2>7. out' = [out EXCEPT ![c] = f]
    BY <2>2, <2>3
  <2>8. /\ doing[c] = "model" /\ UNCHANGED <<phase, frames, seen, gone, bus, stage>>
        /\ \E d \in {"select", "nothing"} : doing' = [doing EXCEPT ![c] = d]
    BY <1>6 DEF Respond, Resumes, Awaits
  <2>9. Functions' /\ LinkTyped(c)'
    BY <1>t, <2>5, <2>6, <2>7, <2>8 DEF Functions, LinkTyped, Doing
  <2> QED BY <1>6, <1>o, <2>9 DEF Serve
<1>7. ASSUME NEW c \in Client, Forward(c) PROVE LinkInv'
  <2>1. /\ doing[c] = "select" /\ out[c] = NoFrame /\ next[c] <= Len(feed)
        /\ UNCHANGED <<phase, doing, frames, seen, gone, feed, since, stage>>
    BY <1>7 DEF Forward, Selecting, Lagged
  <2>2. \/ /\ next[c] < Oldest /\ next' = [next EXCEPT ![c] = Oldest] /\ out' = out
        \/ /\ out' = [out EXCEPT ![c] = Pulse(feed[next[c]])]
           /\ next' = [next EXCEPT ![c] = @ + 1]
    BY <1>7 DEF Forward, Lagged, Answers
  <2>3. Oldest \in Nat /\ (next[c] <= Len(feed) => Oldest <= Len(feed) + 1)
    BY <1>f, GatewayAssumption DEF Oldest
  <2>4. next[c] \in 1..Len(feed) /\ feed[next[c]] \in Nat
    BY <1>t, <1>f, <2>1 DEF LinkTyped, Functions
  <2>5. /\ Pulse(feed[next[c]]) \in Sent /\ Pulse(feed[next[c]]) # NoFrame
        /\ Pulse(feed[next[c]]) # Welcome
    BY <2>4, FramesDiffer
  <2>6. CASE next[c] < Oldest /\ next' = [next EXCEPT ![c] = Oldest] /\ out' = out
    <3>1. Functions' /\ LinkTyped(c)'
      BY <1>t, <1>f, <2>1, <2>3, <2>6 DEF Functions, LinkTyped
    <3> QED BY <1>7, <1>o, <3>1 DEF Serve
  <2>7. CASE /\ out' = [out EXCEPT ![c] = Pulse(feed[next[c]])]
             /\ next' = [next EXCEPT ![c] = @ + 1]
    <3>1. Functions'
      BY <1>t, <1>f, <2>1, <2>4, <2>5, <2>7 DEF Functions
    <3>2. /\ out'[c] # Welcome /\ next'[c] = next[c] + 1 /\ doing'[c] = "select"
          /\ LinkTyped(c) /\ phase'[c] # "new" /\ stage'[c] = stage[c]
      BY <1>t, <2>1, <2>5, <2>7 DEF Functions, LinkTyped
    <3>3. LinkTyped(c)'
      BY <1>t, <1>f, <2>1, <2>4, <3>2 DEF Functions, LinkTyped
    <3> QED BY <1>7, <1>o, <3>1, <3>3 DEF Serve
  <2> QED BY <2>2, <2>6, <2>7
<1>8. ASSUME NEW c \in Client, Deliver(c) PROVE LinkInv'
  <2>1. /\ out[c] # NoFrame /\ Len(frames[c]) - seen[c] < Buffer
        /\ frames' = [frames EXCEPT ![c] = Append(@, out[c])]
        /\ out' = [out EXCEPT ![c] = NoFrame]
        /\ UNCHANGED <<seen, gone, feed, stage>>
        /\ phase' = [phase EXCEPT ![c] = IF Of(c).proto = "http" THEN "closed" ELSE @]
    BY <1>8 DEF Deliver
  <2>2. \/ UNCHANGED <<doing, next, since>>
        \/ /\ \E d \in {"select", "nothing"} : doing' = [doing EXCEPT ![c] = d]
           /\ next' = [next EXCEPT ![c] = Len(feed) + 1]
           /\ since' = [since EXCEPT ![c] = Len(feed) + 1]
    BY <1>8 DEF Deliver, Resumes, Awaits, Subscribe
  <2>3. out[c] \in Sent /\ frames[c] \in Seq(Sent) /\ doing[c] \notin {"model", "pulse"}
    BY <1>t, <2>1 DEF Functions, LinkTyped
  <2>4. /\ Append(frames[c], out[c]) \in Seq(Sent)
        /\ Len(Append(frames[c], out[c])) = Len(frames[c]) + 1 /\ Len(frames[c]) \in Nat
    BY <2>3
  <2>5. Functions' /\ phase'[c] # "new" /\ out'[c] = NoFrame
    <3>1. phase' \in [Client -> Phase] /\ phase'[c] # "new"
      BY <1>t, <2>1 DEF Functions, LinkTyped, Phase
    <3>2. doing' \in [Client -> Doing]
      BY <1>t, <2>2 DEF Functions, Doing
    <3>3. Len(feed) + 1 \in Nat
      BY <1>f
    <3>4. next' \in [Client -> Nat] /\ since' \in [Client -> Nat]
      BY <1>t, <2>2, <3>3 DEF Functions
    <3> QED BY <1>t, <2>1, <2>4, <3>1, <3>2, <3>4 DEF Functions
  <2>6. seen'[c] <= Len(frames'[c]) /\ Len(frames'[c]) <= seen'[c] + Buffer
    BY <1>t, <1>b, <2>1, <2>4 DEF Functions, LinkTyped
  <2>7. since'[c] >= 1 /\ since'[c] <= next'[c] /\ next'[c] <= Len(feed') + 1
    BY <1>t, <1>f, <2>1, <2>2 DEF Functions, LinkTyped
  <2>8. stage'[c] = "idle" /\ doing'[c] \notin {"model", "pulse"}
    BY <1>t, <2>1, <2>2, <2>3 DEF Functions, LinkTyped
  <2>9. LinkTyped(c)'
    BY <2>5, <2>6, <2>7, <2>8, FramesDiffer DEF LinkTyped
  <2> QED BY <1>8, <1>o, <2>5, <2>9 DEF Serve
<1>9. ASSUME NEW c \in Client, SendInVain(c) PROVE LinkInv'
  <2>1. /\ out[c] # NoFrame /\ out' = [out EXCEPT ![c] = NoFrame]
        /\ UNCHANGED <<frames, seen, gone, feed, stage>>
        /\ phase' = phase \/ phase' = [phase EXCEPT ![c] = "closed"]
    BY <1>9 DEF SendInVain, Closes
  <2>2. /\ \E d \in {"select", "nothing"} : doing' = [doing EXCEPT ![c] = d]
        /\ \/ UNCHANGED <<next, since>>
           \/ /\ next' = [next EXCEPT ![c] = Len(feed) + 1]
              /\ since' = [since EXCEPT ![c] = Len(feed) + 1]
    BY <1>9 DEF SendInVain, Resumes, Closes, Awaits, Subscribe
  <2>3. Functions' /\ out'[c] = NoFrame /\ doing'[c] \in {"select", "nothing"}
    <3>1. phase' \in [Client -> Phase]
      BY <1>t, <2>1 DEF Functions, Phase
    <3>2. doing' \in [Client -> Doing]
      BY <1>t, <2>2 DEF Functions, Doing
    <3>3. Len(feed) + 1 \in Nat
      BY <1>f
    <3>4. next' \in [Client -> Nat] /\ since' \in [Client -> Nat]
      BY <1>t, <2>2, <3>3 DEF Functions
    <3> QED BY <1>t, <2>1, <2>2, <3>1, <3>2, <3>4 DEF Functions
  <2>4. phase'[c] # "new"
    BY <1>t, <2>1 DEF Functions, LinkTyped
  <2>5. since'[c] >= 1 /\ since'[c] <= next'[c] /\ next'[c] <= Len(feed') + 1
    BY <1>t, <1>f, <2>1, <2>2 DEF Functions, LinkTyped
  <2>6. stage[c] = "idle"
    BY <1>t, <2>1 DEF LinkTyped
  <2>7. LinkTyped(c)'
    BY <1>t, <2>1, <2>3, <2>4, <2>5, <2>6, FramesDiffer DEF LinkTyped
  <2> QED BY <1>9, <1>o, <2>3, <2>7 DEF Serve
<1>10. ASSUME NEW c \in Client, HangUp(c) PROVE LinkInv'
  <2>1. Functions' /\ LinkTyped(c)'
    BY <1>10, <1>t, FramesDiffer DEF HangUp, Selecting, Closes, Awaits, Functions, LinkTyped, Phase, Doing
  <2> QED BY <1>10, <1>o, <2>1 DEF Serve
<1>11. ASSUME NEW c \in Client, Drop(c) PROVE LinkInv'
  <2>1. Functions' /\ LinkTyped(c)'
    BY <1>11, <1>t, FramesDiffer
       DEF Drop, Closes, Awaits, CutOff, Functions, LinkTyped, Phase, Doing, Pulser
  <2> QED BY <1>11, <1>o, <2>1 DEF Serve
<1>12. ASSUME NEW c \in Client, Say(c) \/ Read(c) \/ Leave(c) PROVE LinkInv'
  <2>1. Of(c)' = Of(c)
    BY <1>12 DEF Of, Say, Read, Leave
  <2>2. LinkTyped(c) /\ Functions
    BY <1>t
  <2>3. CASE Say(c) \/ Leave(c)
    <3>1. /\ UNCHANGED <<phase, doing, taken, out, frames, seen, bus, pulse>>
          /\ gone' \subseteq Client
      BY <2>2, <2>3 DEF Say, Leave, Functions
    <3>2. Functions' /\ LinkTyped(c)'
      BY <2>1, <2>2, <3>1 DEF Functions, LinkTyped
    <3> QED BY <1>12, <1>o, <3>2
  <2>4. CASE Read(c)
    <3>1. /\ UNCHANGED <<phase, doing, taken, out, frames, gone, bus, pulse>>
          /\ seen[c] < Len(frames[c]) /\ seen' = [seen EXCEPT ![c] = @ + 1]
      BY <2>4 DEF Read
    <3>2. frames[c] \in Seq(Sent) /\ Len(frames[c]) \in Nat /\ seen[c] \in Nat
      BY <2>2 DEF Functions
    <3>3. Functions' /\ seen'[c] = seen[c] + 1
      BY <2>2, <3>1 DEF Functions
    <3>4. LinkTyped(c)'
      BY <1>b, <2>1, <2>2, <3>1, <3>2, <3>3 DEF LinkTyped
    <3> QED BY <1>12, <1>o, <3>3, <3>4
  <2> QED BY <1>12, <2>3, <2>4
<1>13. ASSUME NEW p \in Pulser, Publish(p) PROVE LinkInv'
  <2>1. UNCHANGED <<plan, phase, doing, taken, out, frames, seen, gone, next, since>>
    BY <1>13 DEF Publish
  <2>2. /\ Len(feed') = Len(feed) + 1
        /\ \A x \in Client : stage'[x] # "idle" <=> stage[x] # "idle"
    BY <1>13, <1>f, <1>t DEF Publish, NumbersInv, Pulser
  <2>3. ASSUME NEW x \in Client PROVE LinkTyped(x)'
    <3>1. Of(x)' = Of(x)
      BY <2>1 DEF Of
    <3>2. LinkTyped(x)
      BY <1>t
    <3> QED BY <1>f, <1>t, <2>1, <2>2, <3>1, <3>2 DEF LinkTyped, Functions
  <2> QED BY <1>t, <2>1, <2>3 DEF LinkInv, Functions
<1>14. ASSUME NEW p \in Pulser, Return(p) PROVE LinkInv'
  <2>1. /\ stage[p] = "crumb" /\ stage' = [stage EXCEPT ![p] = "idle"]
        /\ UNCHANGED <<plan, phase, taken, frames, seen, gone, next, since, feed>>
    BY <1>14 DEF Return
  <2>2. CASE p = Loop
    <3>1. UNCHANGED <<doing, out>> /\ p \notin Client
      BY <1>14, <2>2, GatewayAssumption DEF Return
    <3>2. ASSUME NEW x \in Client PROVE LinkTyped(x)'
      <4>1. Of(x)' = Of(x) /\ stage'[x] = stage[x]
        BY <1>t, <2>1, <3>1 DEF Of, Pulser
      <4>2. LinkTyped(x)
        BY <1>t
      <4> QED BY <2>1, <3>1, <4>1, <4>2 DEF LinkTyped
    <3> QED BY <1>t, <2>1, <3>1, <3>2 DEF LinkInv, Functions
  <2>3. CASE p \in Client /\ p # Loop
    <3>1. PICK f : f = Receipt(taken[p], num[p])
      OBVIOUS
    <3>2. taken[p] \in Nat /\ num[p] \in Nat
      BY <2>3 DEF GateInv, AdmittedOne, NumbersInv
    <3>3. f \in Sent /\ f # NoFrame /\ f # Welcome
      BY <3>1, <3>2, FramesDiffer
    <3>4. /\ out' = [out EXCEPT ![p] = f]
          /\ \E d \in {"select", "nothing"} : doing' = [doing EXCEPT ![p] = d]
      BY <1>14, <2>3, <3>1 DEF Return, Answers, Resumes, Awaits
    <3>5. Functions'
      BY <1>t, <2>1, <3>3, <3>4 DEF Functions, Doing
    <3>6. LinkTyped(p)'
      BY <1>t, <2>1, <2>3, <3>3, <3>4 DEF Functions, LinkTyped, Pulser
    <3>7. ASSUME NEW x \in Client, x # p PROVE LinkTyped(x)'
      <4>1. /\ Of(x)' = Of(x) /\ stage'[x] = stage[x]
            /\ out'[x] = out[x] /\ doing'[x] = doing[x]
        BY <1>t, <2>1, <3>4, <3>7 DEF Of, Pulser, Functions
      <4>2. LinkTyped(x)
        BY <1>t
      <4> QED BY <2>1, <4>1, <4>2 DEF LinkTyped
    <3> QED BY <3>5, <3>6, <3>7 DEF LinkInv
  <2> QED BY <2>2, <2>3, GatewayAssumption DEF Pulser
<1>15. CASE LoopBegins
  <2>1. /\ UNCHANGED <<plan, link, bus>> /\ Loop \notin Client
        /\ \A x \in Client : stage'[x] = stage[x]
    BY <1>15, <1>t, GatewayAssumption DEF LoopBegins, BeginPulse, Pulser
  <2>2. ASSUME NEW x \in Client PROVE LinkTyped(x)'
    <3>1. Of(x)' = Of(x)
      BY <2>1 DEF Of
    <3>2. LinkTyped(x)
      BY <1>t
    <3> QED BY <2>1, <3>1, <3>2 DEF LinkTyped
  <2> QED BY <1>t, <2>1, <2>2 DEF LinkInv, Functions
<1>16. CASE UNCHANGED <<plan, link, bus, pulse>>
  <2>1. \A x \in Client : Of(x)' = Of(x)
    BY <1>16 DEF Of
  <2> QED BY <1>16, <1>t, <2>1 DEF LinkInv, Functions, LinkTyped
<1> QED
  BY <1>1, <1>2, <1>3, <1>4, <1>5, <1>6, <1>7, <1>8, <1>9, <1>10, <1>11, <1>12, <1>13,
     <1>14, <1>15, <1>16 DEF Next, Serve, AgentCalls, ShellTask, vars

LEMMA NumbersStep ==
  NumbersInv /\ LinkInv /\ GateInv /\ [Next]_vars => NumbersInv'
<1> SUFFICES ASSUME NumbersInv, LinkInv, GateInv, [Next]_vars PROVE NumbersInv'
  OBVIOUS
<1> USE DEF link, bus, logs
<1>p. \A c \in Client : c \in Pulser
  BY DEF Pulser
<1>1. ASSUME NEW c \in Client, NEW i \in Nat, Handle(c, i), UNCHANGED bus PROVE NumbersInv'
  <2>1. Ignores(c, i) \/ Settles(c, i) \/ AsksModel(c, i) \/ Pulses(c, i)
    BY <1>1, HandleShape
  <2>2. CASE pulse' = pulse
    BY <1>1, <2>2, NumbersKept
  <2>3. CASE BeginPulse(c)
    BY <1>1, <1>p, <2>3, NumbersBegin
  <2> QED BY <2>1, <2>2, <2>3 DEF Ignores, Settles, AsksModel, Pulses
<1>2. ASSUME NEW c \in Client, Request(c) PROVE NumbersInv'
  BY <1>1, <1>2 DEF Request
<1>3. ASSUME NEW c \in Client, Take(c) PROVE NumbersInv'
  <2>1. taken[c] + 1 \in Nat
    BY DEF GateInv, AdmittedOne
  <2> QED BY <1>1, <1>3, <2>1 DEF Take
<1>4. ASSUME NEW c \in Client, Drop(c) PROVE NumbersInv'
  BY <1>4, <1>p, NumbersCut DEF Drop
<1>5. ASSUME NEW c \in Client,
             \/ Refuse(c) \/ Greet(c) \/ Stream(c) \/ Forward(c) \/ Respond(c) \/ Deliver(c)
             \/ SendInVain(c) \/ HangUp(c) \/ Say(c) \/ Read(c) \/ Leave(c)
      PROVE  NumbersInv'
  <2>1. UNCHANGED <<feed, pulse>>
    BY <1>5 DEF Refuse, Greet, Stream, Forward, Respond, Deliver, SendInVain, HangUp, Say,
       Read, Leave
  <2> QED BY <2>1, NumbersKept
<1>6. ASSUME NEW p \in Pulser, Publish(p) \/ Return(p) PROVE NumbersInv'
  BY <1>6, NumbersPublish, NumbersReturn
<1>7. CASE LoopBegins
  <2>1. Loop \in Pulser
    BY DEF Pulser
  <2> QED BY <1>7, <2>1, NumbersBegin DEF LoopBegins
<1>8. CASE UNCHANGED <<feed, pulse>>
  BY <1>8, NumbersKept
<1> QED
  BY <1>2, <1>3, <1>4, <1>5, <1>6, <1>7, <1>8
  DEF Next, Serve, AgentCalls, ShellTask, vars

LEMMA LinkInit == Init => LinkInv /\ NumbersInv
<1> SUFFICES ASSUME Init PROVE LinkInv /\ NumbersInv
  OBVIOUS
<1>1. NumbersInv
  BY DEF Init, NumbersInv, Range
<1>2. <<>> \in Seq(Sent) /\ Len(<<>>) = 0
  OBVIOUS
<1>3. Functions
  BY <1>2 DEF Init, Functions, Phase, Doing
<1>4. Buffer \in Nat \ {0}
  BY GatewayAssumption
<1>5. ASSUME NEW c \in Client PROVE LinkTyped(c)
  BY <1>4, FramesDiffer DEF Init, LinkTyped, Pulser
<1> QED BY <1>1, <1>3, <1>5 DEF LinkInv

LEMMA LinksAlways == Spec => [](GateInv /\ LinkInv /\ NumbersInv)
<1>1. GateInv /\ LinkInv /\ NumbersInv /\ [Next]_vars => (GateInv /\ LinkInv /\ NumbersInv)'
  BY GateStep, LinkStep, NumbersStep
<1> QED BY GateInit, LinkInit, <1>1, PTL DEF Spec

(* Every state of the connections and pulses is typed, and a pulse that a  *)
(* client asked for runs exactly while its handler waits for it.           *)
THEOREM GatewayTyped == Spec => []TypeOK
<1>1. GateInv /\ LinkInv /\ NumbersInv => TypeOK
  <2> SUFFICES ASSUME GateInv, LinkInv, NumbersInv PROVE TypeOK
    OBVIOUS
  <2>1. Len(feed) \in Nat
    BY DEF NumbersInv
  <2>2. \A c \in Client : next[c] \in 1..(Len(feed) + 1)
    BY <2>1 DEF LinkInv, LinkTyped, Functions
  <2> QED BY <2>2
      DEF TypeOK, GateInv, AdmittedOne, LinkInv, LinkTyped, Functions, NumbersInv
<1> QED BY LinksAlways, <1>1, PTL

-----------------------------------------------------------------------------
(* The three paths to a handler.                                           *)

LEMMA AttemptRuns ==
  ASSUME NEW may \in BOOLEAN, NEW succeeds \in BOOLEAN, NEW r \in Attempt(may, succeeds)
  PROVE  r.answer # Refused /\ (r.ran => may)
BY DEF Attempt, Results, Refused, Failed

LEMMA ShellPath ==
  ASSUME NEW call \in Call, call.skill = "bash_eval", PreDispatchCheck(call),
         NEW r \in DispatchShell(call)
  PROVE  r.answer # Refused /\ (r.ran => Contained(call))
<1>1. AdmitLocalCommand(call)
  BY DEF PreDispatchCheck
<1>2. r \in Attempt(ResolveDirPath(call.place), TRUE)
  BY <1>1 DEF DispatchShell, ExecuteShell
<1>3. ResolveDirPath(call.place) \in BOOLEAN
  BY DEF ResolveDirPath
<1>4. r.answer # Refused /\ (r.ran => ResolveDirPath(call.place))
  BY <1>2, <1>3, AttemptRuns
<1> QED BY <1>4 DEF ResolveDirPath, Contained

LEMMA FilePath ==
  ASSUME NEW call \in Call, NEW r \in FileSkill(call)
  PROVE  r.answer # Refused /\ (r.ran => Contained(call))
<1>1. CASE call.skill = "read_file"
  <2>1. r \in Attempt(ResolveReadPath(call.place), call.place = "file")
    BY <1>1 DEF FileSkill
  <2>2. ResolveReadPath(call.place) \in BOOLEAN /\ (call.place = "file") \in BOOLEAN
    BY DEF ResolveReadPath
  <2>3. r.answer # Refused /\ (r.ran => ResolveReadPath(call.place))
    BY <2>1, <2>2, AttemptRuns, Zenon
  <2> QED BY <2>3 DEF ResolveReadPath, Contained
<1>2. CASE call.skill = "write_file"
  <2>1. r \in Attempt(ResolveWritePath(call.place), call.place # "dir")
    BY <1>2 DEF FileSkill
  <2>2. ResolveWritePath(call.place) \in BOOLEAN /\ (call.place # "dir") \in BOOLEAN
    BY DEF ResolveWritePath
  <2>3. r.answer # Refused /\ (r.ran => ResolveWritePath(call.place))
    BY <2>1, <2>2, AttemptRuns, Zenon
  <2> QED BY <1>2, <2>3 DEF ResolveWritePath, Contained
<1>3. CASE call.skill # "read_file" /\ call.skill # "write_file"
  <2>1. r \in Attempt(ResolveDirPath(call.place), TRUE)
    BY <1>3 DEF FileSkill
  <2>2. ResolveDirPath(call.place) \in BOOLEAN /\ (TRUE) \in BOOLEAN
    BY DEF ResolveDirPath
  <2>3. r.answer # Refused /\ (r.ran => ResolveDirPath(call.place))
    BY <2>1, <2>2, AttemptRuns, Zenon
  <2> QED BY <2>3 DEF ResolveDirPath, Contained
<1> QED BY <1>1, <1>2, <1>3

LEMMA RefusedAt ==
  ASSUME NEW r \in Results({Refused}, FALSE)
  PROVE  r.answer = Refused /\ ~r.ran
BY DEF Results

(* What the gates let through: a call is refused exactly when the membrane *)
(* or the probe refuses it, on each path.                                  *)
Gated(call, r) ==
  /\ r.answer = Refused <=> ~GateSkill(call)
  /\ r.ran => GateSkill(call) /\ Contained(call) /\ call.skill # "unconnected"

LEMMA GatedAway ==
  ASSUME NEW call, ~GateSkill(call), NEW r \in Results({Refused}, FALSE)
  PROVE  Gated(call, r)
BY RefusedAt DEF Gated

LEMMA HandlerPath ==
  ASSUME NEW call \in Call, GateSkill(call), NEW r \in Handler(call)
  PROVE  Gated(call, r)
<1>1. PreDispatchCheck(call)
  BY DEF GateSkill
<1>2. CASE call.skill = "bash_eval"
  <2>1. r \in DispatchShell(call)
    BY <1>2 DEF Handler
  <2> QED BY <1>1, <1>2, <2>1, ShellPath DEF Gated
<1>3. CASE call.skill = "unconnected"
  <2>1. r \in Results({Failed}, FALSE)
    BY <1>3 DEF Handler, Unconnected
  <2>2. r.answer # Refused /\ ~r.ran
    BY <2>1 DEF Results, Refused, Failed
  <2> QED BY <2>2 DEF Gated
<1>4. CASE call.skill # "bash_eval" /\ call.skill # "unconnected"
  <2>1. r \in FileSkill(call)
    BY <1>4 DEF Handler
  <2> QED BY <1>4, <2>1, FilePath DEF Gated
<1> QED BY <1>2, <1>3, <1>4

LEMMA SkillPath ==
  ASSUME NEW call \in Call, NEW r \in ExecuteGated(call)
  PROVE  Gated(call, r)
<1>1. CASE ~GateSkill(call)
  BY <1>1, GatedAway DEF ExecuteGated, ProbeGate
<1>2. CASE GateSkill(call)
  BY <1>2, HandlerPath DEF ExecuteGated, ProbeGate, Execute, GateSkill
<1> QED BY <1>1, <1>2

LEMMA AgentPath ==
  ASSUME NEW call \in Call, NEW r \in DispatchClassified(call)
  PROVE  Gated(call, r)
<1>1. CASE ~GateSkill(call)
  BY <1>1, GatedAway DEF DispatchClassified, ProbeGate
<1>2. CASE GateSkill(call)
  BY <1>2, HandlerPath DEF DispatchClassified, ProbeGate, GateSkill
<1> QED BY <1>1, <1>2

LEMMA ShellGatedPath ==
  ASSUME NEW call \in Call, call.skill = "bash_eval", NEW r \in DispatchShellGated(call)
  PROVE  Gated(call, r)
<1>1. CASE ~GateSkill(call)
  BY <1>1, GatedAway DEF DispatchShellGated, ProbeGate
<1>2. CASE GateSkill(call)
  <2>1. PreDispatchCheck(call) /\ r \in DispatchShell(call)
    BY <1>2 DEF GateSkill, DispatchShellGated, ProbeGate
  <2> QED BY <1>2, <2>1, ShellPath DEF Gated
<1> QED BY <1>1, <1>2

-----------------------------------------------------------------------------
(* The calls dispatched so far, each for one that may ask for it.          *)
MayCall(p) == p \in Client => RequireOperator(p) = "passed" /\ ~Of(p).public

CallKept(d) == d.by \in Pulser /\ MayCall(d.by) /\ Gated(d.call, d)
CallsInv == \A d \in done : CallKept(d)

LEMMA CallLogged ==
  ASSUME CallsInv, plan' = plan, NEW p \in Pulser, MayCall(p), NEW call, NEW r,
         Gated(call, r), Logs(p, call, r)
  PROVE  CallsInv'
<1>1. PICK new : new = [by |-> p, call |-> call, answer |-> r.answer, ran |-> r.ran]
  OBVIOUS
<1>2. new.by = p /\ new.call = call /\ new.answer = r.answer /\ new.ran = r.ran
  BY <1>1
<1>3. CallKept(new)
  BY <1>2 DEF CallKept, Gated
<1>4. done' = done \cup {new}
  BY <1>1 DEF Logs
<1>5. ASSUME NEW d, CallKept(d) PROVE CallKept(d)'
  BY <1>5 DEF CallKept, MayCall, RequireOperator, Verify, PresentedToken, Of
<1> QED BY <1>3, <1>4, <1>5 DEF CallsInv

(* Whoever asks for anything but a read showed the operator token.         *)
LEMMA AsksGated ==
  ASSUME GateInv, NEW c \in Client, NEW i \in DOMAIN Of(c).asks, RequireOperator(c) = "passed",
         Of(c).asks[i].kind \in {"skill", "shell", "agent", "heartbeat"}
  PROVE  /\ MayCall(c) /\ Of(c).asks[i].call \in Call
         /\ Of(c).asks[i].kind = "shell" => Of(c).asks[i].call.skill = "bash_eval"
<1>1. Of(c).asks \in Seq(Ask) /\ Routed(Of(c)) /\ Of(c) \in Peer
  BY AskedFor, PeerTyped DEF GateInv
<1>2. Of(c).asks[i] \in Ask
  BY <1>1
<1> QED BY <1>1, <1>2 DEF Ask, Routed, ShellForm, MayCall, Peer

LEMMA CallsStep ==
  CallsInv /\ GateInv /\ LinkInv /\ NumbersInv /\ [Next]_vars => CallsInv'
<1> SUFFICES ASSUME CallsInv, GateInv, LinkInv, NumbersInv, [Next]_vars PROVE CallsInv'
  OBVIOUS
<1> USE DEF logs
<1>1. CASE UNCHANGED <<plan, done>>
  BY <1>1 DEF CallsInv, CallKept, MayCall, RequireOperator, Verify, PresentedToken, Of
<1>2. ASSUME NEW c \in Client, NEW i \in DOMAIN Of(c).asks, RequireOperator(c) = "passed",
             Handle(c, i), plan' = plan
      PROVE  CallsInv'
  <2>1. CASE UNCHANGED done
    BY <1>1, <1>2, <2>1
  <2>2. CASE Of(c).asks[i].kind \in {"skill", "shell"} /\ Calls(c, i)
    <3>1. PICK r \in Dispatched(Of(c).asks[i]) : Logs(c, Of(c).asks[i].call, r)
      BY <2>2 DEF Calls
    <3>2. /\ MayCall(c) /\ Of(c).asks[i].call \in Call
          /\ Of(c).asks[i].kind = "shell" => Of(c).asks[i].call.skill = "bash_eval"
      BY <1>2, <2>2, AsksGated
    <3>3. Gated(Of(c).asks[i].call, r)
      <4>1. CASE Of(c).asks[i].kind = "skill"
        BY <3>1, <3>2, <4>1, SkillPath DEF Dispatched
      <4>2. CASE Of(c).asks[i].kind # "skill"
        BY <2>2, <3>1, <3>2, <4>2, ShellGatedPath DEF Dispatched
      <4> QED BY <4>1, <4>2
    <3> QED BY <1>2, <3>1, <3>2, <3>3, CallLogged DEF Pulser
  <2> QED BY <1>2, <2>1, <2>2 DEF Handle
<1>3. ASSUME NEW c \in Client, Request(c) PROVE CallsInv'
  BY <1>2, <1>3, AskedFor DEF Request, Opens
<1>4. ASSUME NEW c \in Client, Take(c) PROVE CallsInv'
  <2>1. RequireOperator(c) = "passed"
    BY <1>4 DEF Take, Selecting, GateInv, AdmittedOne
  <2> QED BY <1>2, <1>4, <2>1, AskedFor DEF Take
<1>5. ASSUME NEW c \in Client, doing[c] \in {"model", "pulse"}
      PROVE  RequireOperator(c) = "passed" /\ taken[c] \in DOMAIN Of(c).asks
  BY <1>5 DEF GateInv, AdmittedOne, LinkInv, LinkTyped
<1>6. ASSUME NEW c \in Client, AgentCalls(c) PROVE CallsInv'
  <2>1. /\ doing[c] = "model" /\ Of(c).asks[taken[c]].kind = "agent" /\ plan' = plan
    BY <1>6 DEF AgentCalls
  <2>2. PICK r \in DispatchClassified(Of(c).asks[taken[c]].call) :
          Logs(c, Of(c).asks[taken[c]].call, r)
    BY <1>6 DEF AgentCalls
  <2>3. MayCall(c) /\ Of(c).asks[taken[c]].call \in Call
    BY <1>5, <2>1, AsksGated
  <2>4. Gated(Of(c).asks[taken[c]].call, r)
    BY <2>2, <2>3, AgentPath
  <2> QED BY <2>1, <2>2, <2>3, <2>4, CallLogged DEF Pulser
<1>7. ASSUME NEW p \in Pulser, ShellTask(p) PROVE CallsInv'
  <2>1. PICK call \in plan.tasks : \E r \in DispatchShellGated(call) : Logs(p, call, r)
    BY <1>7 DEF ShellTask
  <2>2. PICK r \in DispatchShellGated(call) : Logs(p, call, r)
    BY <2>1
  <2>3. call \in Call /\ call.skill = "bash_eval"
    BY GatewayAssumption DEF GateInv, ShellForm
  <2>4. Gated(call, r)
    BY <2>3, ShellGatedPath
  <2>5. MayCall(p)
    <3>1. CASE p \in Client
      <4>1. doing[p] = "pulse" /\ Of(p).asks[taken[p]].kind = "heartbeat"
        BY <1>7, <3>1 DEF ShellTask, LinkInv, LinkTyped
      <4> QED BY <1>5, <3>1, <4>1, AsksGated
    <3> QED BY <3>1 DEF MayCall
  <2> QED BY <1>7, <2>2, <2>4, <2>5, CallLogged DEF ShellTask
<1> QED
  BY <1>1, <1>3, <1>4, <1>6, <1>7
  DEF Next, Serve, Refuse, Greet, Stream, Forward, Respond, Deliver, SendInVain, HangUp, Drop,
      Say, Read, Leave, Publish, Return, LoopBegins, vars

(* A command or a handler runs only for a task of the loop or for a client *)
(* that showed the operator token, for a call both gates admit, in the     *)
(* root or, written, with its name there; and the skill requests, the      *)
(* agents' calls and the shell refuse the same calls: on every             *)
(* interleaving, for any number of clients.                                *)
THEOREM EffectsAreGated == Spec => []GatedEffects
<1>1. CallsInv => GatedEffects
  <2> SUFFICES ASSUME CallsInv PROVE GatedEffects
    OBVIOUS
  <2>1. ASSUME NEW d \in done, d.ran, d.by # Loop
        PROVE  /\ plan.configured /\ Of(d.by).bearer # "wrong"
               /\ "right" \in {Of(d.by).bearer, Of(d.by).header}
    <3>1. d.by \in Client
      BY <2>1 DEF CallsInv, CallKept, Pulser
    <3>2. Verify(d.by)
      BY <3>1 DEF CallsInv, CallKept, MayCall, RequireOperator
    <3> QED BY <3>2 DEF Verify, PresentedToken
  <2>2. ASSUME NEW d \in done, d.ran
        PROVE  /\ d.call.probe = "safe" /\ d.call.skill \notin {"unconnected", "unlisted", "blank"}
               /\ Contained(d.call) /\ (d.call.skill = "bash_eval" => d.call.command = "form")
    <3>1. GateSkill(d.call) /\ Contained(d.call) /\ d.call.skill # "unconnected"
      BY <2>2 DEF CallsInv, CallKept, Gated
    <3> QED BY <3>1 DEF GateSkill, CheckAction, PreDispatchCheck, AllowedSkills, AdmitLocalCommand
  <2>3. \A d, e \in done : d.call = e.call => (d.answer = Refused <=> e.answer = Refused)
    BY DEF CallsInv, CallKept, Gated
  <2> QED BY <2>1, <2>2, <2>3 DEF GatedEffects
<1>2. Init => CallsInv
  BY DEF Init, CallsInv
<1>3. CallsInv /\ GateInv /\ LinkInv /\ NumbersInv /\ [Next]_vars
        => (CallsInv /\ GateInv /\ LinkInv /\ NumbersInv)'
  BY GateStep, LinkStep, NumbersStep, CallsStep
<1> QED BY GateInit, LinkInit, <1>1, <1>2, <1>3, PTL DEF Spec

-----------------------------------------------------------------------------
(* What a connection is sent of the feed fd. f: the frames sent, o: the    *)
(* frame being sent, s and n: where its receiver subscribed and where it   *)
(* is, here: its client has not left.                                      *)
OnFeed(f, k, fd, s, n) ==
  /\ f[k].tick = fd[n]
  /\ \A j \in 1..(k - 1) : f[j].kind = "pulse" => \E m \in s..(n - 1) : f[j].tick = fd[m]

FramesFed(f, fd, s, n) ==
  \A k \in DOMAIN f : f[k].kind = "pulse" => \E m \in s..(n - 1) : OnFeed(f, k, fd, s, m)

NothingMissed(f, o, s, n, fd) ==
  \A m \in s..(n - 1) : Pulse(fd[m]) \in {o} \cup Range(f) \/ m + Capacity <= Len(fd)

Fed(f, o, s, n, here, fd) ==
  /\ FramesFed(f, fd, s, n)
  /\ o.kind = "pulse" =>
       /\ n > s /\ o.tick = fd[n - 1]
       /\ \A j \in DOMAIN f : f[j].kind = "pulse" => \E m \in s..(n - 2) : f[j].tick = fd[m]
  /\ here => NothingMissed(f, o, s, n, fd)

FeedInv == \A c \in Client : Fed(frames[c], out[c], since[c], next[c], c \notin gone, feed)

LEMMA FedStart ==
  ASSUME NEW o, o.kind # "pulse", NEW n \in Nat, NEW here, NEW fd, NEW f,
         \A k \in DOMAIN f : f[k].kind # "pulse"
  PROVE  Fed(f, o, n, n, here, fd)
BY DEF Fed, FramesFed, NothingMissed

(* The frame changes, and is not a pulse before or after.                  *)
LEMMA FedOther ==
  ASSUME NEW f, NEW o, NEW p, NEW s \in Nat, NEW n \in Nat, NEW here, NEW fd,
         Fed(f, o, s, n, here, fd), o.kind # "pulse", p.kind # "pulse"
  PROVE  Fed(f, p, s, n, here, fd)
<1>1. \A t : Pulse(t) # o
  BY DEF Pulse, Frame
<1> QED BY <1>1 DEF Fed, NothingMissed

LEMMA FedGone ==
  ASSUME NEW f, NEW o, NEW p, NEW s \in Nat, NEW n \in Nat, NEW here, NEW fd,
         Fed(f, o, s, n, here, fd), p = o \/ p.kind # "pulse"
  PROVE  Fed(f, p, s, n, FALSE, fd)
BY DEF Fed

LEMMA FedPublish ==
  ASSUME NEW f \in Seq(Sent), NEW o, NEW s \in Nat \ {0}, NEW n \in Nat, NEW here,
         NEW fd \in Seq(Nat), NEW t \in Nat, s <= n, n <= Len(fd) + 1,
         Fed(f, o, s, n, here, fd)
  PROVE  Fed(f, o, s, n, here, Append(fd, t))
<1> DEFINE g == Append(fd, t)
<1>1. Len(fd) \in Nat /\ Len(g) = Len(fd) + 1 /\ \A m \in 1..Len(fd) : g[m] = fd[m]
  OBVIOUS
<1>2. \A m \in s..(n - 1) : g[m] = fd[m]
  BY <1>1
<1>3. n > s => g[n - 1] = fd[n - 1]
  BY <1>2
<1> HIDE DEF g
<1>4. FramesFed(f, g, s, n)
  <2> SUFFICES ASSUME NEW k \in DOMAIN f, f[k].kind = "pulse"
               PROVE  \E m \in s..(n - 1) : OnFeed(f, k, g, s, m)
    BY DEF FramesFed
  <2>1. PICK m \in s..(n - 1) : OnFeed(f, k, fd, s, m)
    BY DEF Fed, FramesFed
  <2>2. ASSUME NEW j \in 1..(k - 1), f[j].kind = "pulse"
        PROVE  \E l \in s..(m - 1) : f[j].tick = g[l]
    <3>1. PICK l \in s..(m - 1) : f[j].tick = fd[l]
      BY <2>1, <2>2 DEF OnFeed
    <3>2. l \in s..(n - 1)
      OBVIOUS
    <3> QED BY <1>2, <3>1, <3>2
  <2>3. f[k].tick = g[m]
    BY <1>2, <2>1 DEF OnFeed
  <2> QED BY <2>2, <2>3 DEF OnFeed
<1>5. ASSUME o.kind = "pulse"
      PROVE  /\ n > s /\ o.tick = g[n - 1]
             /\ \A j \in DOMAIN f : f[j].kind = "pulse" => \E m \in s..(n - 2) : f[j].tick = g[m]
  <2>1. n > s /\ o.tick = g[n - 1]
    BY <1>3, <1>5 DEF Fed
  <2>2. ASSUME NEW j \in DOMAIN f, f[j].kind = "pulse"
        PROVE  \E m \in s..(n - 2) : f[j].tick = g[m]
    <3>1. PICK m \in s..(n - 2) : f[j].tick = fd[m]
      BY <1>5, <2>2 DEF Fed
    <3>2. m \in s..(n - 1)
      OBVIOUS
    <3> QED BY <1>2, <3>1, <3>2
  <2> QED BY <2>1, <2>2
<1>6. here => NothingMissed(f, o, s, n, g)
  <2> SUFFICES ASSUME here, NEW m \in s..(n - 1)
               PROVE  Pulse(g[m]) \in {o} \cup Range(f) \/ m + Capacity <= Len(g)
    BY DEF NothingMissed
  <2>1. Pulse(fd[m]) \in {o} \cup Range(f) \/ m + Capacity <= Len(fd)
    BY DEF Fed, NothingMissed
  <2>2. Capacity \in Nat
    BY GatewayAssumption
  <2> QED BY <1>1, <1>2, <2>1, <2>2
<1>7. Fed(f, o, s, n, here, g)
  BY <1>4, <1>5, <1>6 DEF Fed
<1> QED BY <1>7 DEF g

LEMMA FedForward ==
  ASSUME NEW f \in Seq(Sent), NEW s \in Nat \ {0}, NEW n \in Nat, NEW here,
         NEW fd \in Seq(Nat), s <= n, n <= Len(fd), Fed(f, NoFrame, s, n, here, fd)
  PROVE  Fed(f, Pulse(fd[n]), s, n + 1, here, fd)
<1> DEFINE o == Pulse(fd[n])
<1>1. fd[n] \in Nat
  OBVIOUS
<1>2. o.kind = "pulse" /\ o.tick = fd[n] /\ NoFrame.kind = "none" /\ \A t : Pulse(t) # NoFrame
  BY <1>1, FramesDiffer DEF Pulse, Frame, NoFrame
<1> HIDE DEF o
<1>3. FramesFed(f, fd, s, n + 1)
  <2>1. \A m \in s..(n - 1) : m \in s..((n + 1) - 1)
    OBVIOUS
  <2> QED BY <2>1 DEF Fed, FramesFed
<1>4. \A j \in DOMAIN f : f[j].kind = "pulse" => \E m \in s..(n - 1) : f[j].tick = fd[m]
  BY DEF Fed, FramesFed, OnFeed
<1>5. here => NothingMissed(f, o, s, n + 1, fd)
  <2> SUFFICES ASSUME here, NEW m \in s..n
               PROVE  Pulse(fd[m]) \in {o} \cup Range(f) \/ m + Capacity <= Len(fd)
    BY DEF NothingMissed
  <2>1. CASE m = n
    BY <2>1 DEF o
  <2>2. CASE m # n
    <3>1. m \in s..(n - 1)
      BY <2>2
    <3> QED BY <1>2, <3>1 DEF Fed, NothingMissed
  <2> QED BY <2>1, <2>2
<1>6. n + 1 > s /\ (n + 1) - 1 = n /\ (n + 1) - 2 = n - 1
  OBVIOUS
<1>7. Fed(f, o, s, n + 1, here, fd)
  BY <1>2, <1>3, <1>4, <1>5, <1>6 DEF Fed
<1> QED BY <1>7 DEF o

(* The channel overwrote what was next.                                    *)
LEMMA FedLagged ==
  ASSUME NEW f \in Seq(Sent), NEW s \in Nat \ {0}, NEW n \in Nat, NEW q \in Nat, NEW here,
         NEW fd \in Seq(Nat), NEW o, o.kind # "pulse", s <= n, n <= q,
         q + Capacity <= Len(fd) + 1, Fed(f, o, s, n, here, fd)
  PROVE  Fed(f, o, s, q, here, fd)
<1>1. FramesFed(f, fd, s, q)
  BY DEF Fed, FramesFed
<1>2. here => NothingMissed(f, o, s, q, fd)
  <2> SUFFICES ASSUME here, NEW m \in s..(q - 1)
               PROVE  Pulse(fd[m]) \in {o} \cup Range(f) \/ m + Capacity <= Len(fd)
    BY DEF NothingMissed
  <2>1. Capacity \in Nat /\ Len(fd) \in Nat
    BY GatewayAssumption
  <2>2. CASE m >= n
    BY <2>1, <2>2
  <2>3. CASE m < n
    <3>1. m \in s..(n - 1)
      BY <2>3
    <3> QED BY <3>1 DEF Fed, NothingMissed
  <2> QED BY <2>2, <2>3
<1> QED BY <1>1, <1>2 DEF Fed

LEMMA FedDeliver ==
  ASSUME NEW f \in Seq(Sent), NEW o \in Sent, NEW s \in Nat \ {0}, NEW n \in Nat, NEW here,
         NEW fd, Fed(f, o, s, n, here, fd)
  PROVE  Fed(Append(f, o), NoFrame, s, n, here, fd)
<1> DEFINE g == Append(f, o)
<1>1. /\ Len(f) \in Nat /\ DOMAIN f = 1..Len(f) /\ DOMAIN g = 1..(Len(f) + 1)
      /\ g[Len(f) + 1] = o /\ \A j \in DOMAIN f : g[j] = f[j]
  OBVIOUS
<1> HIDE DEF g
<1>2. Range(g) = Range(f) \cup {o}
  BY <1>1 DEF Range
<1>3. FramesFed(g, fd, s, n)
  <2> SUFFICES ASSUME NEW k \in DOMAIN g, g[k].kind = "pulse"
               PROVE  \E m \in s..(n - 1) : OnFeed(g, k, fd, s, m)
    BY DEF FramesFed
  <2>1. CASE k \in DOMAIN f
    <3>1. PICK m \in s..(n - 1) : OnFeed(f, k, fd, s, m)
      BY <1>1, <2>1 DEF Fed, FramesFed
    <3>2. g[k] = f[k] /\ \A j \in 1..(k - 1) : g[j] = f[j]
      BY <1>1, <2>1
    <3> QED BY <3>1, <3>2 DEF OnFeed
  <2>2. CASE k = Len(f) + 1
    <3>1. /\ n > s /\ o.tick = fd[n - 1]
          /\ \A j \in DOMAIN f : f[j].kind = "pulse" => \E m \in s..(n - 2) : f[j].tick = fd[m]
      BY <1>1, <2>2 DEF Fed
    <3>2. k - 1 = Len(f) /\ n - 1 \in s..(n - 1) /\ (n - 1) - 1 = n - 2
      BY <1>1, <2>2, <3>1
    <3>3. ASSUME NEW j \in 1..(k - 1), g[j].kind = "pulse"
          PROVE  \E m \in s..((n - 1) - 1) : g[j].tick = fd[m]
      BY <1>1, <3>1, <3>2, <3>3
    <3>4. OnFeed(g, k, fd, s, n - 1)
      BY <1>1, <2>2, <3>1, <3>3 DEF OnFeed
    <3> QED BY <3>2, <3>4
  <2> QED BY <1>1, <2>1, <2>2
<1>4. here => NothingMissed(g, NoFrame, s, n, fd)
  BY <1>2 DEF Fed, NothingMissed
<1>5. Fed(g, NoFrame, s, n, here, fd)
  BY <1>3, <1>4, FramesDiffer DEF Fed
<1> QED BY <1>5 DEF g

FedOf(c) == Fed(frames[c], out[c], since[c], next[c], c \notin gone, feed)

LEMMA FeedStep ==
  FeedInv /\ LinkInv /\ NumbersInv /\ GateInv /\ [Next]_vars => FeedInv'
<1> SUFFICES ASSUME FeedInv, LinkInv, NumbersInv, GateInv, [Next]_vars PROVE FeedInv'
  OBVIOUS
<1> USE DEF link, bus, pulse, logs
<1>f. Len(feed) \in Nat /\ feed \in Seq(Nat)
  BY DEF NumbersInv
<1>t. ASSUME NEW c \in Client
      PROVE  /\ frames[c] \in Seq(Sent) /\ since[c] \in Nat \ {0} /\ next[c] \in Nat
             /\ since[c] <= next[c] /\ next[c] <= Len(feed) + 1
             /\ out[c] \in Sent \cup {NoFrame}
             /\ Fed(frames[c], out[c], since[c], next[c], c \notin gone, feed)
  <2>1. LinkTyped(c) /\ Functions
    BY DEF LinkInv
  <2>2. Fed(frames[c], out[c], since[c], next[c], c \notin gone, feed)
    BY DEF FeedInv
  <2>3. since[c] \in Nat /\ since[c] >= 1
    BY <2>1 DEF LinkTyped, Functions
  <2> QED BY <2>1, <2>2, <2>3 DEF LinkTyped, Functions
<1>d. /\ DOMAIN frames = Client /\ DOMAIN out = Client /\ DOMAIN since = Client
      /\ DOMAIN next = Client
  BY DEF LinkInv, Functions
<1>o. ASSUME NEW c \in Client, FedOf(c)',
             Refuse(c) \/ Greet(c) \/ Stream(c) \/ Request(c) \/ Serve(c)
               \/ Say(c) \/ Read(c) \/ Leave(c)
      PROVE  FeedInv'
  <2>1. feed' = feed /\ \A x \in Client : x # c => Same(x)
    BY <1>o, OthersSame
  <2>2. ASSUME NEW x \in Client, x # c PROVE FedOf(x)'
    <3>1. /\ frames'[x] = frames[x] /\ out'[x] = out[x] /\ since'[x] = since[x]
          /\ next'[x] = next[x] /\ feed' = feed /\ (x \notin gone') = (x \notin gone)
      BY <2>1, <2>2 DEF Same
    <3>2. Fed(frames[x], out[x], since[x], next[x], x \notin gone, feed)
      BY <1>t
    <3> QED BY <3>1, <3>2 DEF FedOf
  <2> QED BY <1>o, <2>2 DEF FeedInv, FedOf
<1>k. ASSUME NEW c \in Client, UNCHANGED <<frames, out, since, next, gone, feed>>
      PROVE  FedOf(c)'
  BY <1>k, <1>t DEF FedOf
(* The frame being sent changes between two that are no pulses.            *)
<1>a. ASSUME NEW c \in Client, NEW p, out' = [out EXCEPT ![c] = p], out[c].kind # "pulse",
             p.kind # "pulse", UNCHANGED <<frames, since, next, gone, feed>>
      PROVE  FedOf(c)'
  <2>1. Fed(frames[c], p, since[c], next[c], c \notin gone, feed)
    BY <1>a, <1>t, FedOther
  <2>2. out'[c] = p
    BY <1>a, <1>d
  <2> QED BY <1>a, <2>1, <2>2 DEF FedOf
<1>s. ASSUME NEW c \in Client, next'[c] = Len(feed) + 1, since'[c] = Len(feed) + 1,
             out'[c].kind # "pulse", \A k \in DOMAIN frames'[c] : frames'[c][k].kind # "pulse"
      PROVE  FedOf(c)'
  <2>1. Len(feed) + 1 \in Nat
    BY <1>f
  <2>2. Fed(frames'[c], out'[c], Len(feed) + 1, Len(feed) + 1, c \notin gone', feed')
    BY <1>s, <2>1, FedStart
  <2> QED BY <1>s, <2>2 DEF FedOf
<1>h. ASSUME NEW c \in Client, NEW i \in Nat, Handle(c, i), out[c] = NoFrame,
             UNCHANGED <<frames, gone, bus>>
      PROVE  FedOf(c)'
  <2>1. Ignores(c, i) \/ Settles(c, i) \/ AsksModel(c, i) \/ Pulses(c, i)
    BY <1>h, HandleShape
  <2>2. CASE out' = out
    BY <1>h, <1>k, <2>2
  <2>3. CASE Settles(c, i)
    <3>1. PICK f \in Sent : f.kind = "answer" /\ out' = [out EXCEPT ![c] = f]
      BY <2>3 DEF Settles
    <3>2. out[c].kind # "pulse" /\ f.kind # "pulse"
      BY <1>h, <3>1, FramesDiffer
    <3> QED BY <1>a, <1>h, <3>1, <3>2
  <2> QED BY <2>1, <2>2, <2>3 DEF Ignores, AsksModel, Pulses
<1>1. ASSUME NEW c \in Client, Refuse(c) \/ Say(c) \/ Read(c) \/ HangUp(c) PROVE FeedInv'
  <2>1. FedOf(c)'
    BY <1>1, <1>k DEF Refuse, Say, Read, HangUp, Closes
  <2> QED BY <1>1, <1>o, <2>1 DEF Serve
<1>2. ASSUME NEW c \in Client, Greet(c) PROVE FeedInv'
  <2>1. out[c] = NoFrame
    BY <1>2 DEF Greet, Opens, LinkInv, LinkTyped
  <2>2. FedOf(c)'
    BY <1>2, <1>a, <2>1, FramesDiffer DEF Greet, Answers
  <2> QED BY <1>2, <1>o, <2>2
<1>3. ASSUME NEW c \in Client, Stream(c) PROVE FeedInv'
  <2>1. out[c] = NoFrame /\ frames[c] = <<>>
    BY <1>3 DEF Stream, Opens, LinkInv, LinkTyped
  <2>2. next'[c] = Len(feed) + 1 /\ since'[c] = Len(feed) + 1 /\ UNCHANGED <<out, frames>>
    BY <1>3, <1>d DEF Stream, Subscribe
  <2>3. FedOf(c)'
    BY <1>s, <2>1, <2>2, FramesDiffer
  <2> QED BY <1>3, <1>o, <2>3
<1>4. ASSUME NEW c \in Client, Request(c) PROVE FeedInv'
  <2>1. out[c] = NoFrame
    BY <1>4 DEF Request, Opens, LinkInv, LinkTyped
  <2>2. FedOf(c)'
    BY <1>4, <1>h, <2>1 DEF Request
  <2> QED BY <1>4, <1>o, <2>2
<1>5. ASSUME NEW c \in Client, Take(c) PROVE FeedInv'
  <2>1. taken[c] + 1 \in Nat
    BY DEF GateInv, AdmittedOne
  <2>2. FedOf(c)'
    BY <1>5, <1>h, <2>1 DEF Take, Selecting
  <2> QED BY <1>5, <1>o, <2>2 DEF Serve
<1>6. ASSUME NEW c \in Client, Respond(c) PROVE FeedInv'
  <2>1. PICK a : out' = [out EXCEPT ![c] = Reply(taken[c], a)]
    BY <1>6 DEF Respond, Answers
  <2>2. out[c] = NoFrame
    BY <1>6 DEF Respond, LinkInv, LinkTyped
  <2>3. Reply(taken[c], a).kind # "pulse"
    BY DEF Reply, Frame
  <2>4. FedOf(c)'
    BY <1>6, <1>a, <2>1, <2>2, <2>3, FramesDiffer DEF Respond
  <2> QED BY <1>6, <1>o, <2>4 DEF Serve
<1>7. ASSUME NEW c \in Client, Forward(c) PROVE FeedInv'
  <2>1. /\ out[c] = NoFrame /\ next[c] <= Len(feed)
        /\ UNCHANGED <<frames, since, gone, feed>>
    BY <1>7 DEF Forward, Selecting
  <2>2. CASE next[c] < Oldest /\ next' = [next EXCEPT ![c] = Oldest] /\ out' = out
    <3>1. Oldest \in Nat /\ Oldest + Capacity <= Len(feed) + 1
      BY <1>f, <1>t, <2>2, GatewayAssumption DEF Oldest
    <3>2. Fed(frames[c], out[c], since[c], Oldest, c \notin gone, feed)
      <4>1. out[c].kind # "pulse"
        BY <2>1, FramesDiffer
      <4>2. next[c] <= Oldest
        BY <1>t, <2>2, <3>1
      <4>3. PICK q \in Nat : q = Oldest
        BY <3>1
      <4>4. Fed(frames[c], out[c], since[c], q, c \notin gone, feed)
        BY <1>f, <1>t, <3>1, <4>1, <4>2, <4>3, FedLagged
      <4> QED BY <4>3, <4>4
    <3>3. next'[c] = Oldest
      BY <1>d, <2>2
    <3>4. FedOf(c)'
      BY <2>1, <2>2, <3>2, <3>3 DEF FedOf
    <3> QED BY <1>7, <1>o, <3>4 DEF Serve
  <2>3. CASE /\ out' = [out EXCEPT ![c] = Pulse(feed[next[c]])]
             /\ next' = [next EXCEPT ![c] = @ + 1]
    <3>1. Fed(frames[c], Pulse(feed[next[c]]), since[c], next[c] + 1, c \notin gone, feed)
      BY <1>f, <1>t, <2>1, FedForward
    <3>2. out'[c] = Pulse(feed[next[c]]) /\ next'[c] = next[c] + 1
      BY <1>d, <2>3
    <3>3. FedOf(c)'
      BY <2>1, <3>1, <3>2 DEF FedOf
    <3> QED BY <1>7, <1>o, <3>3 DEF Serve
  <2> QED BY <1>7, <2>2, <2>3 DEF Forward, Lagged, Answers
<1>8. ASSUME NEW c \in Client, Deliver(c) PROVE FeedInv'
  <2>1. /\ out[c] \in Sent /\ UNCHANGED <<gone, feed>>
        /\ frames'[c] = Append(frames[c], out[c]) /\ out'[c] = NoFrame
    BY <1>8, <1>d, <1>t DEF Deliver
  <2>2. CASE out[c] = Welcome
    <3>1. next'[c] = Len(feed) + 1 /\ since'[c] = Len(feed) + 1
      BY <1>8, <1>d, <2>2 DEF Deliver, Subscribe
    <3>2. frames[c] = <<>>
      BY <2>2 DEF LinkInv, LinkTyped
    <3>3. frames'[c] = <<Welcome>>
      BY <2>1, <2>2, <3>2
    <3>4. \A k \in DOMAIN frames'[c] : frames'[c][k].kind # "pulse"
      BY <3>3, FramesDiffer
    <3>5. FedOf(c)'
      BY <1>s, <2>1, <3>1, <3>4, FramesDiffer
    <3> QED BY <1>8, <1>o, <3>5 DEF Serve
  <2>3. CASE out[c] # Welcome
    <3>1. UNCHANGED <<next, since>>
      BY <1>8, <2>3 DEF Deliver
    <3>2. Fed(Append(frames[c], out[c]), NoFrame, since[c], next[c], c \notin gone, feed)
      BY <1>t, <2>1, FedDeliver
    <3>3. FedOf(c)'
      BY <2>1, <3>1, <3>2 DEF FedOf
    <3> QED BY <1>8, <1>o, <3>3 DEF Serve
  <2> QED BY <2>2, <2>3
<1>9. ASSUME NEW c \in Client, SendInVain(c) PROVE FeedInv'
  <2>1. /\ c \in gone /\ UNCHANGED <<frames, gone, feed>> /\ out'[c] = NoFrame
    BY <1>9, <1>d DEF SendInVain
  <2>2. CASE UNCHANGED <<next, since>>
    <3>1. Fed(frames[c], NoFrame, since[c], next[c], FALSE, feed)
      BY <1>t, FedGone, FramesDiffer
    <3>2. (c \notin gone') = FALSE
      BY <2>1
    <3>3. FedOf(c)'
      BY <2>1, <2>2, <3>1, <3>2 DEF FedOf
    <3> QED BY <1>9, <1>o, <3>3 DEF Serve
  <2>3. CASE out[c] = Welcome /\ Subscribe(c)
    <3>1. next'[c] = Len(feed) + 1 /\ since'[c] = Len(feed) + 1
      BY <1>d, <2>3 DEF Subscribe
    <3>2. frames'[c] = <<>>
      BY <2>1, <2>3 DEF LinkInv, LinkTyped
    <3>3. FedOf(c)'
      BY <1>s, <2>1, <3>1, <3>2, FramesDiffer
    <3> QED BY <1>9, <1>o, <3>3 DEF Serve
  <2> QED BY <1>9, <2>2, <2>3 DEF SendInVain
<1>10. ASSUME NEW c \in Client, Drop(c) PROVE FeedInv'
  <2>1. /\ UNCHANGED <<frames, since, next, gone, feed>> /\ out'[c] = NoFrame
        /\ (c \notin gone') = FALSE
    BY <1>10, <1>d DEF Drop
  <2>2. Fed(frames[c], NoFrame, since[c], next[c], FALSE, feed)
    BY <1>t, FedGone, FramesDiffer
  <2>3. FedOf(c)'
    BY <2>1, <2>2 DEF FedOf
  <2> QED BY <1>10, <1>o, <2>3 DEF Serve
<1>11. ASSUME NEW c \in Client, Leave(c) PROVE FeedInv'
  <2>1. /\ UNCHANGED <<frames, out, since, next, feed>> /\ (c \notin gone') = FALSE
    BY <1>11 DEF Leave
  <2>2. Fed(frames[c], out[c], since[c], next[c], FALSE, feed)
    BY <1>t, FedGone
  <2>3. FedOf(c)'
    BY <2>1, <2>2 DEF FedOf
  <2> QED BY <1>11, <1>o, <2>3
<1>12. ASSUME NEW p \in Pulser, Publish(p) PROVE FeedInv'
  <2>1. feed' = Append(feed, num[p]) /\ UNCHANGED <<frames, out, since, next, gone>>
    BY <1>12 DEF Publish
  <2>2. num[p] \in Nat
    BY DEF NumbersInv
  <2>3. ASSUME NEW x \in Client PROVE FedOf(x)'
    <3>1. Fed(frames[x], out[x], since[x], next[x], x \notin gone, Append(feed, num[p]))
      BY <1>f, <1>t, <2>2, FedPublish
    <3> QED BY <2>1, <3>1 DEF FedOf
  <2> QED BY <2>3 DEF FeedInv, FedOf
<1>13. ASSUME NEW p \in Pulser, Return(p) PROVE FeedInv'
  <2>1. UNCHANGED <<frames, since, next, gone, feed>> /\ stage[p] = "crumb"
    BY <1>13 DEF Return
  <2>2. CASE out' = out
    BY <1>k, <2>1, <2>2 DEF FeedInv, FedOf
  <2>3. CASE p \in Client /\ out' = [out EXCEPT ![p] = Receipt(taken[p], num[p])]
    <3>1. out[p] = NoFrame
      BY <2>1, <2>3 DEF LinkInv, LinkTyped
    <3>2. Receipt(taken[p], num[p]).kind # "pulse"
      BY DEF Receipt, Frame
    <3>3. FedOf(p)'
      BY <1>a, <2>1, <2>3, <3>1, <3>2, FramesDiffer
    <3>4. ASSUME NEW x \in Client, x # p PROVE FedOf(x)'
      <4>1. out'[x] = out[x]
        BY <1>d, <2>3, <3>4
      <4> QED BY <1>t, <2>1, <4>1 DEF FedOf
    <3> QED BY <3>3, <3>4 DEF FeedInv, FedOf
  <2> QED BY <1>13, <2>2, <2>3 DEF Return, Answers, Pulser
<1>14. CASE UNCHANGED <<plan, link, bus>>
  <2>1. UNCHANGED <<frames, out, since, next, gone, feed>>
    BY <1>14 DEF link, bus
  <2> QED BY <1>k, <2>1 DEF FeedInv, FedOf
<1> QED
  BY <1>1, <1>2, <1>3, <1>4, <1>5, <1>6, <1>7, <1>8, <1>9, <1>10, <1>11, <1>12, <1>13,
     <1>14 DEF Next, Serve, LoopBegins, AgentCalls, ShellTask, vars

LEMMA FeedInit == Init => FeedInv
<1> SUFFICES ASSUME Init, NEW c \in Client
             PROVE  Fed(frames[c], out[c], since[c], next[c], c \notin gone, feed)
  BY DEF FeedInv
<1>1. /\ out[c].kind # "pulse" /\ 1 \in Nat /\ since[c] = 1 /\ next[c] = 1
      /\ \A k \in DOMAIN frames[c] : frames[c][k].kind # "pulse"
  BY FramesDiffer DEF Init
<1> QED BY <1>1, FedStart

(* Each connection is sent pulses in the order of their publication, none  *)
(* twice, and misses only what the channel overwrote, for any number of    *)
(* connections and any size of the channel and of their buffers.           *)
THEOREM PulsesComeInOrder == Spec => []PulseFeed
<1>1. LinkInv /\ NumbersInv /\ FeedInv => PulseFeed
  <2> SUFFICES ASSUME LinkInv, NumbersInv, FeedInv PROVE PulseFeed
    OBVIOUS
  <2>1. \A j, k \in DOMAIN feed : feed[j] = feed[k] => j = k
    BY DEF NumbersInv
  <2>2. ASSUME NEW c \in Client, NEW k \in DOMAIN frames[c], frames[c][k].kind = "pulse"
        PROVE  \E n \in since[c]..(next[c] - 1) :
                 /\ frames[c][k].tick = feed[n]
                 /\ \A j \in 1..(k - 1) : frames[c][j].kind = "pulse" =>
                      \E m \in since[c]..(n - 1) : frames[c][j].tick = feed[m]
    <3>1. Fed(frames[c], out[c], since[c], next[c], c \notin gone, feed)
      BY DEF FeedInv
    <3> QED BY <2>2, <3>1, Zenon DEF Fed, FramesFed, OnFeed
  <2>3. ASSUME NEW c \in Client, c \notin gone
        PROVE  \A n \in since[c]..(next[c] - 1) :
                 \/ Pulse(feed[n]) \in {out[c]} \cup Range(frames[c])
                 \/ n + Capacity <= Len(feed)
    <3>1. Fed(frames[c], out[c], since[c], next[c], c \notin gone, feed)
      BY DEF FeedInv
    <3> QED BY <2>3, <3>1, Zenon DEF Fed, NothingMissed
  <2> QED BY <2>1, <2>2, <2>3, Zenon DEF PulseFeed
<1>2. GateInv /\ LinkInv /\ NumbersInv /\ FeedInv /\ [Next]_vars
        => (GateInv /\ LinkInv /\ NumbersInv /\ FeedInv)'
  BY GateStep, LinkStep, NumbersStep, FeedStep
<1> QED BY GateInit, LinkInit, FeedInit, <1>1, <1>2, PTL DEF Spec

-----------------------------------------------------------------------------
(* The numbers on the frames f and o of a connection. busy: its handler    *)
(* waits for the pulse with this number; fd: the feed, bound: the counter. *)
InTime(f, o, busy, number, fd, bound) ==
  /\ o.tick \in 0..bound /\ \A j \in DOMAIN f : f[j].tick \in 0..bound
  /\ \A j \in DOMAIN f : f[j].kind = "answer" /\ f[j].tick # 0 =>
       f[j].tick \in Range(fd) /\ \A k \in 1..(j - 1) : f[k].tick # f[j].tick
  /\ o.kind = "answer" /\ o.tick # 0 =>
       o.tick \in Range(fd) /\ \A k \in DOMAIN f : f[k].tick # o.tick
  /\ busy => \A k \in DOMAIN f : f[k].tick # number

ReceiptInv ==
  \A c \in Client : InTime(frames[c], out[c], stage[c] # "idle", num[c], feed, ticks)

LEMMA TimeKept ==
  ASSUME NEW f, NEW o, NEW busy \in BOOLEAN, NEW n, NEW fd, NEW b \in Nat,
         InTime(f, o, busy, n, fd, b),
         NEW p, NEW still \in BOOLEAN, NEW m, NEW gd, NEW a \in Nat,
         b <= a, Range(fd) \subseteq Range(gd), still => busy /\ m = n,
         p.tick \in 0..a, p.kind = "answer" /\ p.tick # 0 => p = o
  PROVE  InTime(f, p, still, m, gd, a)
<1>1. \A j \in DOMAIN f : f[j].tick \in 0..a
  BY DEF InTime
<1> QED BY <1>1 DEF InTime

LEMMA TimeBegin ==
  ASSUME NEW f, NEW o, NEW busy \in BOOLEAN, NEW n, NEW fd, NEW b \in Nat,
         InTime(f, o, busy, n, fd, b)
  PROVE  InTime(f, o, TRUE, b + 1, fd, b + 1)
<1>1. \A j \in DOMAIN f : f[j].tick \in 0..(b + 1) /\ f[j].tick # b + 1
  BY DEF InTime
<1>2. o.tick \in 0..(b + 1)
  BY DEF InTime
<1> QED BY <1>1, <1>2 DEF InTime

LEMMA TimeReceipt ==
  ASSUME NEW f, NEW o, NEW n \in Nat, NEW fd, NEW b \in Nat, NEW p,
         InTime(f, o, TRUE, n, fd, b), n \in 1..b, n \in Range(fd), p.tick = n
  PROVE  InTime(f, p, FALSE, n, fd, b)
BY DEF InTime

LEMMA TimeDeliver ==
  ASSUME NEW f \in Seq(Sent), NEW o \in Sent, NEW n, NEW fd, NEW b \in Nat,
         InTime(f, o, FALSE, n, fd, b)
  PROVE  InTime(Append(f, o), NoFrame, FALSE, n, fd, b)
<1> DEFINE g == Append(f, o)
<1>1. /\ Len(f) \in Nat /\ DOMAIN f = 1..Len(f) /\ DOMAIN g = 1..(Len(f) + 1)
      /\ g[Len(f) + 1] = o /\ \A j \in DOMAIN f : g[j] = f[j]
  OBVIOUS
<1> HIDE DEF g
<1>2. \A j \in DOMAIN g : g[j].tick \in 0..b
  BY <1>1 DEF InTime
<1>3. ASSUME NEW j \in DOMAIN g, g[j].kind = "answer", g[j].tick # 0
      PROVE  g[j].tick \in Range(fd) /\ \A k \in 1..(j - 1) : g[k].tick # g[j].tick
  <2>1. CASE j \in DOMAIN f
    <3>1. g[j] = f[j] /\ \A k \in 1..(j - 1) : g[k] = f[k]
      BY <1>1, <2>1
    <3> QED BY <1>3, <2>1, <3>1 DEF InTime
  <2>2. CASE j = Len(f) + 1
    <3>1. g[j] = o /\ \A k \in 1..(j - 1) : k \in DOMAIN f /\ g[k] = f[k]
      BY <1>1, <2>2
    <3> QED BY <1>3, <3>1 DEF InTime
  <2> QED BY <1>1, <2>1, <2>2
<1>4. InTime(g, NoFrame, FALSE, n, fd, b)
  BY <1>2, <1>3, FramesDiffer DEF InTime
<1> QED BY <1>4 DEF g

-----------------------------------------------------------------------------
(* The answers among the frames f and o of a connection. asks: what it is  *)
(* asked, t: how much of it was taken, waits: the last of that has no      *)
(* answer yet, won: the turns recorded of them, here: its client is there. *)
Wants(asks, t) == {i \in 1..t : asks[i].kind # "noise"}
Below(S, i) == {h \in S : h < i}

Kept(won, asks, t) ==
  \A w \in won : w.ask \in Wants(asks, t) /\ (w.reply = Failed => asks[w.ask].kind = "relay")
Agrees(won, i, answer) == \A w \in won : w.ask = i => w.reply = answer

InTurn(f, o, asks, t, waits, won, here) ==
  /\ Kept(won, asks, t)
  /\ waits => t \in Wants(asks, t) /\ \A w \in won : w.ask # t
  /\ o.kind = "answer" => o.ask = t /\ t \in Wants(asks, t) /\ Agrees(won, t, o.answer)
  /\ \A j \in DOMAIN f : f[j].kind = "answer" =>
       /\ f[j].ask \in Wants(asks, t)
       /\ waits \/ o.kind = "answer" => f[j].ask # t
       /\ Answered(f, j - 1) = Below(Wants(asks, t), f[j].ask)
       /\ Agrees(won, f[j].ask, f[j].answer)
  /\ here => Answered(f, Len(f)) = IF waits \/ o.kind = "answer"
                                   THEN Below(Wants(asks, t), t) ELSE Wants(asks, t)

LEMMA AnsweredMore ==
  ASSUME NEW f \in Seq(Sent), NEW o \in Sent
  PROVE  /\ \A n \in 0..Len(f) : Answered(Append(f, o), n) = Answered(f, n)
         /\ Answered(Append(f, o), Len(f) + 1) =
              Answered(f, Len(f)) \cup (IF o.kind = "answer" THEN {o.ask} ELSE {})
<1> DEFINE g == Append(f, o)
<1>1. /\ Len(f) \in Nat /\ g[Len(f) + 1] = o /\ \A j \in 1..Len(f) : g[j] = f[j]
  OBVIOUS
<1> HIDE DEF g
<1>2. \A n \in 0..Len(f) : Answered(g, n) = Answered(f, n)
  BY <1>1 DEF Answered
<1>3. Answered(g, Len(f) + 1) =
        Answered(g, Len(f)) \cup (IF o.kind = "answer" THEN {o.ask} ELSE {})
  <2>1. \A k : k \in 1..(Len(f) + 1) <=> k \in 1..Len(f) \/ k = Len(f) + 1
    BY <1>1
  <2> QED BY <1>1, <2>1 DEF Answered
<1>4. Len(f) \in 0..Len(f)
  BY <1>1
<1>5. Answered(g, Len(f)) = Answered(f, Len(f))
  BY <1>2, <1>4
<1> QED BY <1>2, <1>3, <1>5 DEF g

LEMMA TurnIgnored ==
  ASSUME NEW f \in Seq(Sent), NEW o, o.kind # "answer", NEW asks, NEW t \in Nat, NEW won,
         NEW here \in BOOLEAN, InTurn(f, o, asks, t, FALSE, won, here),
         asks[t + 1].kind = "noise"
  PROVE  InTurn(f, o, asks, t + 1, FALSE, won, here)
<1>1. Wants(asks, t + 1) = Wants(asks, t)
  BY DEF Wants
<1>2. Kept(won, asks, t + 1)
  BY <1>1 DEF InTurn, Kept
<1> QED BY <1>1, <1>2 DEF InTurn

LEMMA TurnTaken ==
  ASSUME NEW f \in Seq(Sent), NEW o, o.kind # "answer", NEW asks, NEW t \in Nat, NEW won,
         NEW here \in BOOLEAN, InTurn(f, o, asks, t, FALSE, won, here),
         asks[t + 1].kind # "noise"
  PROVE  InTurn(f, o, asks, t + 1, TRUE, won, here)
<1>1. Wants(asks, t + 1) = Wants(asks, t) \cup {t + 1} /\ \A i \in Wants(asks, t) : i \in 1..t
  BY DEF Wants
<1>2. Kept(won, asks, t + 1) /\ \A w \in won : w.ask # t + 1
  BY <1>1 DEF InTurn, Kept
<1>3. Below(Wants(asks, t + 1), t + 1) = Wants(asks, t)
  BY <1>1 DEF Below
<1>4. \A i \in Wants(asks, t) : /\ i # t + 1
                                /\ Below(Wants(asks, t + 1), i) = Below(Wants(asks, t), i)
  BY <1>1 DEF Below
<1>5. t + 1 \in Wants(asks, t + 1)
  BY <1>1
<1>6. \A j \in DOMAIN f : f[j].kind = "answer" =>
        /\ f[j].ask \in Wants(asks, t)
        /\ Answered(f, j - 1) = Below(Wants(asks, t), f[j].ask)
        /\ Agrees(won, f[j].ask, f[j].answer)
  BY DEF InTurn
<1>7. here => Answered(f, Len(f)) = Wants(asks, t)
  BY DEF InTurn
<1>8. \A j \in DOMAIN f : f[j].kind = "answer" =>
        /\ f[j].ask \in Wants(asks, t + 1) /\ f[j].ask # t + 1
        /\ Answered(f, j - 1) = Below(Wants(asks, t + 1), f[j].ask)
        /\ Agrees(won, f[j].ask, f[j].answer)
  BY <1>1, <1>4, <1>6
<1> QED BY <1>2, <1>3, <1>5, <1>7, <1>8 DEF InTurn

(* The request waited for is answered, with a turn or without.             *)
LEMMA TurnAnswered ==
  ASSUME NEW f, NEW o, NEW asks, NEW t, NEW won, NEW here \in BOOLEAN,
         InTurn(f, o, asks, t, TRUE, won, here),
         NEW p, p.kind = "answer", p.ask = t
  PROVE  InTurn(f, p, asks, t, FALSE, won, here)
BY DEF InTurn, Agrees

With(S, x) == S \cup {x}

LEMMA TurnWon ==
  ASSUME NEW f, NEW o, NEW asks, NEW t, NEW won, NEW here \in BOOLEAN,
         InTurn(f, o, asks, t, TRUE, won, here),
         NEW p, p.kind = "answer", p.ask = t, NEW new, new.ask = t, new.reply = p.answer,
         p.answer = Failed => asks[t].kind = "relay"
  PROVE  InTurn(f, p, asks, t, FALSE, With(won, new), here)
<1> DEFINE now == With(won, new)
<1>0. \A w : w \in now <=> w \in won \/ w = new
  BY DEF With
<1> HIDE DEF now
<1>1. /\ t \in Wants(asks, t) /\ Kept(now, asks, t)
      /\ Agrees(now, t, p.answer)
  BY <1>0 DEF InTurn, Kept, Agrees
<1>2. \A j \in DOMAIN f : f[j].kind = "answer" =>
        /\ f[j].ask \in Wants(asks, t) /\ f[j].ask # t
        /\ Answered(f, j - 1) = Below(Wants(asks, t), f[j].ask)
        /\ Agrees(now, f[j].ask, f[j].answer)
  BY <1>0 DEF InTurn, Agrees
<1>3. here => Answered(f, Len(f)) = Below(Wants(asks, t), t)
  BY DEF InTurn
<1>4. InTurn(f, p, asks, t, FALSE, now, here)
  BY <1>1, <1>2, <1>3 DEF InTurn
<1> QED BY <1>4 DEF now

LEMMA TurnOther ==
  ASSUME NEW f, NEW o, NEW p, NEW asks, NEW t, NEW waits \in BOOLEAN, NEW won, NEW here \in BOOLEAN,
         InTurn(f, o, asks, t, waits, won, here), o.kind # "answer", p.kind # "answer"
  PROVE  InTurn(f, p, asks, t, waits, won, here)
BY DEF InTurn

LEMMA TurnLeft ==
  ASSUME NEW f, NEW o, NEW asks, NEW t, NEW waits \in BOOLEAN, NEW still \in BOOLEAN,
         NEW won, NEW here \in BOOLEAN, InTurn(f, o, asks, t, waits, won, here), still => waits
  PROVE  InTurn(f, o, asks, t, still, won, FALSE)
BY DEF InTurn

LEMMA TurnDelivered ==
  ASSUME NEW f \in Seq(Sent), NEW o \in Sent, NEW asks, NEW t \in Nat, NEW won,
         InTurn(f, o, asks, t, FALSE, won, TRUE)
  PROVE  InTurn(Append(f, o), NoFrame, asks, t, FALSE, won, TRUE)
<1> DEFINE g == Append(f, o)
<1>1. /\ Len(f) \in Nat /\ DOMAIN f = 1..Len(f) /\ DOMAIN g = 1..(Len(f) + 1)
      /\ g[Len(f) + 1] = o /\ \A j \in DOMAIN f : g[j] = f[j] /\ Len(g) = Len(f) + 1
  OBVIOUS
<1>2. Len(g) = Len(f) + 1
  OBVIOUS
<1>3. /\ \A n \in 0..Len(f) : Answered(g, n) = Answered(f, n)
      /\ Answered(g, Len(f) + 1) =
           Answered(f, Len(f)) \cup (IF o.kind = "answer" THEN {o.ask} ELSE {})
  BY AnsweredMore
<1> HIDE DEF g
<1>4. \A i \in Wants(asks, t) : i \in 1..t
  BY DEF Wants
<1>5. ASSUME NEW j \in DOMAIN g, g[j].kind = "answer"
      PROVE  /\ g[j].ask \in Wants(asks, t)
             /\ Answered(g, j - 1) = Below(Wants(asks, t), g[j].ask)
             /\ Agrees(won, g[j].ask, g[j].answer)
  <2>1. CASE j \in DOMAIN f
    <3>1. g[j] = f[j] /\ j - 1 \in 0..Len(f)
      BY <1>1, <2>1
    <3>2. Answered(g, j - 1) = Answered(f, j - 1)
      BY <1>3, <3>1
    <3> QED BY <1>5, <2>1, <3>1, <3>2 DEF InTurn
  <2>2. CASE j = Len(f) + 1
    <3>1. g[j] = o /\ j - 1 = Len(f) /\ Len(f) \in 0..Len(f)
      BY <1>1, <2>2
    <3>2. Answered(g, j - 1) = Answered(f, Len(f))
      BY <1>3, <3>1
    <3> QED BY <1>5, <3>1, <3>2 DEF InTurn
  <2> QED BY <1>1, <2>1, <2>2
<1>6. Answered(g, Len(g)) = Wants(asks, t)
  <2>1. CASE o.kind = "answer"
    <3>1. /\ Answered(f, Len(f)) = Below(Wants(asks, t), t)
          /\ o.ask = t /\ t \in Wants(asks, t)
      BY <2>1 DEF InTurn
    <3>2. Below(Wants(asks, t), t) \cup {t} = Wants(asks, t)
      BY <1>4, <3>1 DEF Below
    <3> QED BY <1>2, <1>3, <2>1, <3>1, <3>2
  <2>2. CASE o.kind # "answer"
    <3>1. Answered(f, Len(f)) = Wants(asks, t)
      BY <2>2 DEF InTurn
    <3> QED BY <1>2, <1>3, <2>2, <3>1
  <2> QED BY <2>1, <2>2
<1>7. InTurn(g, NoFrame, asks, t, FALSE, won, TRUE)
  BY <1>5, <1>6, FramesDiffer DEF InTurn
<1> QED BY <1>7 DEF g

-----------------------------------------------------------------------------
TimeOf(c) == InTime(frames[c], out[c], stage[c] # "idle", num[c], feed, ticks)

LEMMA ReceiptStep ==
  ReceiptInv /\ LinkInv /\ NumbersInv /\ GateInv /\ [Next]_vars => ReceiptInv'
<1> SUFFICES ASSUME ReceiptInv, LinkInv, NumbersInv, GateInv, [Next]_vars PROVE ReceiptInv'
  OBVIOUS
<1> USE DEF link, bus, pulse, logs
<1>n. /\ ticks \in Nat /\ num \in [Pulser -> Nat] /\ feed \in Seq(Nat)
      /\ stage \in [Pulser -> {"idle", "work", "crumb"}]
  BY DEF NumbersInv
<1>d. /\ DOMAIN frames = Client /\ DOMAIN out = Client
      /\ \A c \in Client : c \in Pulser
  BY DEF LinkInv, Functions, Pulser
<1>t. ASSUME NEW c \in Client
      PROVE  /\ frames[c] \in Seq(Sent) /\ out[c] \in Sent \cup {NoFrame}
             /\ InTime(frames[c], out[c], stage[c] # "idle", num[c], feed, ticks)
             /\ out[c].tick \in 0..ticks
  <2>1. InTime(frames[c], out[c], stage[c] # "idle", num[c], feed, ticks)
    BY DEF ReceiptInv
  <2> QED BY <2>1 DEF LinkInv, Functions, InTime
<1>z. 0 \in 0..ticks
  BY <1>n
(* Connections whose pulse and frames stay while the counter and the feed  *)
(* may grow.                                                               *)
<1>k. ASSUME NEW x \in Client, frames'[x] = frames[x], out'[x] = out[x],
             stage'[x] # "idle" => stage[x] # "idle", num'[x] = num[x], ticks' \in Nat,
             ticks <= ticks', Range(feed) \subseteq Range(feed')
      PROVE  TimeOf(x)'
  <2>1. out[x].tick \in 0..ticks'
    BY <1>t, <1>k, <1>n
  <2>2. PICK busy \in BOOLEAN : busy = (stage[x] # "idle")
    OBVIOUS
  <2>3. PICK still \in BOOLEAN : still = (stage'[x] # "idle")
    OBVIOUS
  <2>4. still => busy /\ num[x] = num[x]
    BY <1>k, <2>2, <2>3
  <2>5. InTime(frames[x], out[x], busy, num[x], feed, ticks)
    BY <1>t, <2>2
  <2>6. ticks \in Nat /\ ticks' \in Nat /\ ticks <= ticks' /\ Range(feed) \subseteq Range(feed')
    BY <1>n, <1>k
  <2>7. InTime(frames[x], out[x], still, num[x], feed', ticks')
    BY <2>1, <2>4, <2>5, <2>6, TimeKept
  <2> QED BY <1>k, <2>3, <2>7 DEF TimeOf
<1>o. ASSUME NEW c \in Client, TimeOf(c)', ticks' \in Nat, ticks <= ticks',
             Refuse(c) \/ Greet(c) \/ Stream(c) \/ Request(c) \/ Serve(c)
               \/ Say(c) \/ Read(c) \/ Leave(c)
      PROVE  ReceiptInv'
  <2>1. feed' = feed /\ \A x \in Client : x # c => Same(x)
    BY <1>o, OthersSame
  <2>2. ASSUME NEW x \in Client, x # c PROVE TimeOf(x)'
    <3>1. /\ frames'[x] = frames[x] /\ out'[x] = out[x] /\ stage'[x] = stage[x]
          /\ num'[x] = num[x] /\ Range(feed) \subseteq Range(feed')
      BY <2>1, <2>2 DEF Same
    <3> QED BY <1>k, <1>o, <3>1
  <2> QED BY <1>o, <2>2 DEF ReceiptInv, TimeOf
<1>s. ticks' = ticks => ticks' \in Nat /\ ticks <= ticks'
  BY <1>n
(* Another frame without a number of a pulse on it, or a pulse.            *)
<1>a. ASSUME NEW c \in Client, NEW p, out'[c] = p, p.tick \in 0..ticks,
             p.kind # "answer" \/ p.tick = 0 \/ p = out[c], frames'[c] = frames[c],
             stage'[c] # "idle" => stage[c] # "idle", num'[c] = num[c], UNCHANGED <<feed, ticks>>
      PROVE  TimeOf(c)'
  <2>1. PICK busy \in BOOLEAN : busy = (stage[c] # "idle")
    OBVIOUS
  <2>2. PICK still \in BOOLEAN : still = (stage'[c] # "idle")
    OBVIOUS
  <2>3. still => busy /\ num[c] = num[c]
    BY <1>a, <2>1, <2>2
  <2>4. InTime(frames[c], out[c], busy, num[c], feed, ticks)
    BY <1>t, <2>1
  <2>5. ticks \in Nat /\ ticks <= ticks /\ Range(feed) \subseteq Range(feed)
    BY <1>n
  <2>6. p.tick \in 0..ticks /\ (p.kind = "answer" /\ p.tick # 0 => p = out[c])
    BY <1>a
  <2>7. InTime(frames[c], p, still, num[c], feed, ticks)
    BY <2>3, <2>4, <2>5, <2>6, TimeKept
  <2> QED BY <1>a, <2>2, <2>7 DEF TimeOf
<1>h. ASSUME NEW c \in Client, NEW i \in Nat, Handle(c, i),
             UNCHANGED <<frames, feed>>
      PROVE  TimeOf(c)' /\ ticks' \in Nat /\ ticks <= ticks'
  <2>1. Ignores(c, i) \/ Settles(c, i) \/ AsksModel(c, i) \/ Pulses(c, i)
    BY <1>h, HandleShape
  <2>2. CASE Ignores(c, i) \/ AsksModel(c, i)
    <3>1. out' = out /\ pulse' = pulse
      BY <2>2 DEF Ignores, AsksModel
    <3> QED BY <1>h, <1>a, <1>s, <1>t, <3>1
  <2>3. CASE Settles(c, i)
    <3>1. PICK f \in Sent : f.kind = "answer" /\ f.tick = 0 /\ out' = [out EXCEPT ![c] = f]
      BY <2>3 DEF Settles
    <3>2. pulse' = pulse /\ out'[c] = f
      BY <1>d, <2>3, <3>1 DEF Settles
    <3> QED BY <1>h, <1>a, <1>s, <1>z, <3>1, <3>2
  <2>4. CASE Pulses(c, i)
    <3>1. /\ out' = out /\ ticks' = ticks + 1 /\ num'[c] = ticks + 1 /\ stage'[c] = "work"
      BY <1>n, <1>d, <2>4 DEF Pulses, BeginPulse
    <3>2. (stage[c] # "idle") \in BOOLEAN
      OBVIOUS
    <3>3. InTime(frames[c], out[c], TRUE, ticks + 1, feed, ticks + 1)
      BY <1>n, <1>t, <3>2, TimeBegin, Zenon
    <3>4. (stage'[c] # "idle") = TRUE
      BY <3>1
    <3>5. TimeOf(c)'
      BY <1>h, <3>1, <3>3, <3>4 DEF TimeOf
    <3> QED BY <1>n, <3>1, <3>5
  <2> QED BY <2>1, <2>2, <2>3, <2>4
<1>1. ASSUME NEW c \in Client,
             Refuse(c) \/ Stream(c) \/ HangUp(c) \/ Say(c) \/ Read(c) \/ Leave(c)
      PROVE  ReceiptInv'
  <2>1. UNCHANGED <<frames, out, feed, pulse>>
    BY <1>1 DEF Refuse, Stream, HangUp, Say, Read, Leave
  <2>2. TimeOf(c)'
    BY <1>a, <1>t, <2>1
  <2> QED BY <1>1, <1>o, <1>s, <2>1, <2>2 DEF Serve
<1>2. ASSUME NEW c \in Client, Greet(c) PROVE ReceiptInv'
  <2>1. out'[c] = Welcome /\ UNCHANGED <<frames, feed, pulse>>
    BY <1>2, <1>d DEF Greet, Answers
  <2>2. TimeOf(c)'
    BY <1>a, <1>z, <2>1, FramesDiffer
  <2> QED BY <1>2, <1>o, <1>s, <2>1, <2>2
<1>3. ASSUME NEW c \in Client, Request(c) \/ Take(c) PROVE ReceiptInv'
  <2>1. taken[c] + 1 \in Nat
    BY DEF GateInv, AdmittedOne
  <2>2. TimeOf(c)' /\ ticks' \in Nat /\ ticks <= ticks'
    BY <1>3, <1>h, <2>1 DEF Request, Take
  <2> QED BY <1>3, <1>o, <2>2 DEF Serve
<1>4. ASSUME NEW c \in Client, Respond(c) PROVE ReceiptInv'
  <2>1. PICK a : out' = [out EXCEPT ![c] = Reply(taken[c], a)]
    BY <1>4 DEF Respond, Answers
  <2>2. out'[c] = Reply(taken[c], a) /\ Reply(taken[c], a).tick = 0
    BY <1>d, <2>1 DEF Reply, Frame
  <2>3. UNCHANGED <<frames, feed, pulse>>
    BY <1>4 DEF Respond
  <2>4. TimeOf(c)'
    BY <1>a, <1>z, <2>2, <2>3
  <2> QED BY <1>4, <1>o, <1>s, <2>3, <2>4 DEF Serve
<1>5. ASSUME NEW c \in Client, Forward(c) PROVE ReceiptInv'
  <2>1. UNCHANGED <<frames, feed, pulse>> /\ next[c] <= Len(feed)
    BY <1>5 DEF Forward
  <2>2. CASE out' = out
    <3>1. TimeOf(c)'
      BY <1>a, <1>t, <2>1, <2>2
    <3> QED BY <1>5, <1>o, <1>s, <2>1, <3>1 DEF Serve
  <2>3. CASE out' = [out EXCEPT ![c] = Pulse(feed[next[c]])]
    <3>1. PICK t : t = feed[next[c]]
      OBVIOUS
    <3>2. next[c] \in Nat /\ next[c] >= 1
      BY DEF LinkInv, LinkTyped, Functions
    <3>3. next[c] \in DOMAIN feed
      BY <1>n, <2>1, <3>2
    <3>4. t \in 1..ticks /\ t \in Nat
      BY <3>1, <3>3 DEF NumbersInv
    <3>5. out'[c] = Pulse(t) /\ Pulse(t).tick \in 0..ticks /\ Pulse(t).kind # "answer"
      BY <1>d, <1>n, <2>3, <3>1, <3>4, FramesDiffer
    <3>6. TimeOf(c)'
      BY <1>a, <2>1, <3>5
    <3> QED BY <1>5, <1>o, <1>s, <2>1, <3>6 DEF Serve
  <2> QED BY <1>5, <2>2, <2>3 DEF Forward, Answers
<1>6. ASSUME NEW c \in Client, Deliver(c) PROVE ReceiptInv'
  <2>1. /\ out[c] \in Sent /\ UNCHANGED <<feed, pulse>>
        /\ frames'[c] = Append(frames[c], out[c]) /\ out'[c] = NoFrame
        /\ stage[c] = "idle"
    BY <1>6, <1>d, <1>t DEF Deliver, LinkInv, LinkTyped
  <2>2. InTime(frames[c], out[c], FALSE, num[c], feed, ticks)
    <3>1. (stage[c] # "idle") = FALSE
      BY <2>1
    <3> QED BY <1>t, <3>1
  <2>3. InTime(Append(frames[c], out[c]), NoFrame, FALSE, num[c], feed, ticks)
    BY <1>n, <1>t, <2>1, <2>2, TimeDeliver
  <2>4. (stage'[c] # "idle") = FALSE
    BY <2>1
  <2>5. TimeOf(c)'
    BY <2>1, <2>3, <2>4 DEF TimeOf
  <2> QED BY <1>6, <1>o, <1>s, <2>1, <2>5 DEF Serve
<1>7. ASSUME NEW c \in Client, SendInVain(c) \/ Drop(c) PROVE ReceiptInv'
  <2>1. /\ UNCHANGED <<frames, feed, ticks, num>> /\ out'[c] = NoFrame
        /\ stage'[c] # "idle" => stage[c] # "idle"
    BY <1>7, <1>d, <1>n DEF SendInVain, Drop, CutOff
  <2>2. TimeOf(c)'
    BY <1>a, <1>z, <2>1, FramesDiffer
  <2> QED BY <1>7, <1>o, <1>s, <2>1, <2>2 DEF Serve
<1>8. ASSUME NEW p \in Pulser, Publish(p) PROVE ReceiptInv'
  <2>1. /\ UNCHANGED <<frames, out, ticks, num>> /\ feed' = Append(feed, num[p])
        /\ stage[p] = "work" /\ stage' = [stage EXCEPT ![p] = "crumb"]
    BY <1>8 DEF Publish
  <2>2. Range(feed) \subseteq Range(feed')
    <3>1. num[p] \in Nat
      BY <1>n
    <3>2. \A k \in DOMAIN feed : k \in DOMAIN feed' /\ feed'[k] = feed[k]
      BY <1>n, <2>1, <3>1
    <3> QED BY <3>2 DEF Range
  <2>3. ASSUME NEW x \in Client PROVE TimeOf(x)'
    BY <1>d, <1>k, <1>n, <1>s, <2>1, <2>2
  <2> QED BY <2>3 DEF ReceiptInv, TimeOf
<1>9. ASSUME NEW p \in Pulser, Return(p) PROVE ReceiptInv'
  <2>1. /\ UNCHANGED <<frames, feed, ticks, num>>
        /\ stage[p] = "crumb" /\ stage' = [stage EXCEPT ![p] = "idle"]
    BY <1>9 DEF Return
  <2>2. ASSUME NEW x \in Client, out'[x] = out[x] PROVE TimeOf(x)'
    BY <1>d, <1>k, <1>n, <1>s, <2>1, <2>2
  <2>3. CASE out' = out
    BY <2>2, <2>3 DEF ReceiptInv, TimeOf
  <2>4. CASE p \in Client /\ out' = [out EXCEPT ![p] = Receipt(taken[p], num[p])]
    <3>1. PICK f : f = Receipt(taken[p], num[p])
      OBVIOUS
    <3>2. taken[p] \in Nat /\ num[p] \in 1..ticks /\ num[p] \in Nat /\ num[p] \in Range(feed)
      BY <1>n, <2>1, <2>4 DEF GateInv, AdmittedOne, NumbersInv
    <3>3. f.tick = num[p]
      BY <3>1, <3>2, FramesDiffer
    <3>4. InTime(frames[p], out[p], TRUE, num[p], feed, ticks)
      <4>1. (stage[p] # "idle") = TRUE
        BY <2>1
      <4> QED BY <1>t, <2>4, <4>1
    <3>5. InTime(frames[p], f, FALSE, num[p], feed, ticks)
      BY <1>n, <1>t, <2>4, <3>2, <3>3, <3>4, TimeReceipt
    <3>6. out'[p] = f /\ (stage'[p] # "idle") = FALSE
      BY <1>d, <1>n, <2>1, <2>4, <3>1
    <3>7. TimeOf(p)'
      BY <2>1, <3>5, <3>6 DEF TimeOf
    <3>8. \A x \in Client : x # p => out'[x] = out[x]
      BY <1>d, <2>4
    <3> QED BY <2>2, <3>7, <3>8 DEF ReceiptInv, TimeOf
  <2> QED BY <1>9, <2>3, <2>4 DEF Return, Answers, Pulser
<1>10. CASE LoopBegins
  <2>1. /\ UNCHANGED <<frames, out, feed>> /\ ticks' = ticks + 1
        /\ \A x \in Client : stage'[x] = stage[x] /\ num'[x] = num[x]
    BY <1>10, <1>n, GatewayAssumption DEF LoopBegins, BeginPulse, Pulser
  <2>2. ticks' \in Nat /\ ticks <= ticks'
    BY <1>n, <2>1
  <2>3. ASSUME NEW x \in Client PROVE TimeOf(x)'
    BY <1>k, <2>1, <2>2
  <2> QED BY <2>3 DEF ReceiptInv, TimeOf
<1>11. CASE UNCHANGED <<frames, out, feed, pulse>>
  <2>1. ASSUME NEW x \in Client PROVE TimeOf(x)'
    BY <1>11, <1>k, <1>s
  <2> QED BY <2>1 DEF ReceiptInv, TimeOf
<1> QED
  BY <1>1, <1>2, <1>3, <1>4, <1>5, <1>6, <1>7, <1>8, <1>9, <1>10, <1>11
  DEF Next, Serve, AgentCalls, ShellTask, vars

-----------------------------------------------------------------------------
Waits(c) == doing[c] \in {"model", "pulse"}
Won(c) == {t \in turns : t.client = c}
TurnOf(c) ==
  /\ phase[c] = "new" => taken[c] = 0
  /\ InTurn(frames[c], out[c], Of(c).asks, taken[c], Waits(c), Won(c), c \notin gone)
TurnInv == (\A c \in Client : TurnOf(c)) /\ \A t \in turns : t.client \in Client

LEMMA Truth == ASSUME NEW d PROVE \E w \in BOOLEAN : w = (d \in {"model", "pulse"})
<1>1. CASE d \in {"model", "pulse"}
  <2>1. TRUE = (d \in {"model", "pulse"})
    BY <1>1
  <2> QED BY <2>1
<1>2. CASE d \notin {"model", "pulse"}
  <2>1. FALSE = (d \in {"model", "pulse"})
    BY <1>2
  <2> QED BY <2>1
<1> QED BY <1>1, <1>2

LEMMA TurnStep ==
  TurnInv /\ LinkInv /\ NumbersInv /\ GateInv /\ [Next]_vars => TurnInv'
<1> SUFFICES ASSUME TurnInv, LinkInv, NumbersInv, GateInv, [Next]_vars PROVE TurnInv'
  OBVIOUS
<1> USE DEF link, bus, pulse, logs
<1>d. /\ DOMAIN frames = Client /\ DOMAIN out = Client /\ DOMAIN taken = Client
      /\ DOMAIN doing = Client /\ DOMAIN phase = Client /\ plan' = plan
  <2>1. plan' = plan
    BY DEF Next, Serve, Refuse, Greet, Stream, Request, Take, Forward, Respond, Deliver, SendInVain,
           HangUp, Drop, Say, Read, Leave, Publish, Return, LoopBegins, AgentCalls, ShellTask, vars
  <2> QED BY <2>1 DEF LinkInv, Functions, GateInv
<1>e. ASSUME NEW c \in Client PROVE Of(c)' = Of(c)
  BY <1>d DEF Of
<1>y. ASSUME NEW c \in Client
      PROVE  /\ frames[c] \in Seq(Sent) /\ out[c] \in Sent \cup {NoFrame} /\ taken[c] \in Nat
             /\ phase[c] = "new" => taken[c] = 0
  BY DEF TurnInv, TurnOf, LinkInv, Functions, GateInv, AdmittedOne
<1>t. ASSUME NEW c \in Client
      PROVE  InTurn(frames[c], out[c], Of(c).asks, taken[c], Waits(c), Won(c), c \notin gone)
  BY DEF TurnInv, TurnOf
<1>w. ASSUME NEW c \in Client, UNCHANGED turns PROVE Won(c)' = Won(c)
  BY <1>w, <1>e DEF Won
(* A connection whose part of the state is given.                          *)
<1>c. ASSUME NEW c \in Client, NEW w \in BOOLEAN, NEW h \in BOOLEAN,
             w = (doing'[c] \in {"model", "pulse"}), h = (c \notin gone'), UNCHANGED turns,
             phase'[c] = "new" => taken'[c] = 0,
             InTurn(frames'[c], out'[c], Of(c).asks, taken'[c], w, Won(c), h)
      PROVE  TurnOf(c)'
  <2>1. Waits(c)' = w /\ (c \notin gone)' = h /\ Won(c)' = Won(c) /\ Of(c)' = Of(c)
    BY <1>c, <1>e, <1>w DEF Waits
  <2> QED BY <1>c, <2>1 DEF TurnOf
<1>k. ASSUME NEW x \in Client, frames'[x] = frames[x], out'[x] = out[x], taken'[x] = taken[x],
             doing'[x] \in {"model", "pulse"} <=> doing[x] \in {"model", "pulse"},
             x \in gone' <=> x \in gone, phase'[x] = "new" => phase[x] = "new", UNCHANGED turns
      PROVE  TurnOf(x)'
  <2>1. PICK w \in BOOLEAN : w = (doing'[x] \in {"model", "pulse"})
    BY Truth
  <2>2. PICK h \in BOOLEAN : h = (x \notin gone')
    OBVIOUS
  <2>3. Waits(x) = w /\ (x \notin gone) = h
    BY <1>k, <2>1, <2>2 DEF Waits
  <2>4. InTurn(frames[x], out[x], Of(x).asks, taken[x], w, Won(x), h)
    BY <1>t, <2>3
  <2> QED BY <1>c, <1>k, <1>y, <2>1, <2>2, <2>4
<1>o. ASSUME NEW c \in Client, TurnOf(c)', \A x \in Client : x # c => Won(x)' = Won(x),
             \A t \in turns' : t.client \in Client,
             Refuse(c) \/ Greet(c) \/ Stream(c) \/ Request(c) \/ Serve(c)
               \/ Say(c) \/ Read(c) \/ Leave(c)
      PROVE  TurnInv'
  <2>1. \A x \in Client : x # c => Same(x)
    BY <1>o, OthersSame
  <2>2. ASSUME NEW x \in Client, x # c PROVE TurnOf(x)'
    <3>1. PICK w \in BOOLEAN : w = (doing[x] \in {"model", "pulse"})
      BY Truth
    <3>2. PICK h \in BOOLEAN : h = (x \notin gone)
      OBVIOUS
    <3>3. InTurn(frames[x], out[x], Of(x).asks, taken[x], w, Won(x), h)
      BY <1>t, <3>1, <3>2 DEF Waits
    <3>4. /\ frames'[x] = frames[x] /\ out'[x] = out[x] /\ taken'[x] = taken[x]
          /\ phase'[x] = phase[x] /\ Of(x)' = Of(x) /\ Won(x)' = Won(x)
          /\ w = Waits(x)' /\ h = (x \notin gone')
      BY <1>e, <1>o, <2>1, <2>2, <3>1, <3>2 DEF Same, Waits
    <3>5. phase'[x] = "new" => taken'[x] = 0
      BY <1>y, <3>4
    <3> QED BY <3>3, <3>4, <3>5 DEF TurnOf
  <2> QED BY <1>o, <2>2 DEF TurnInv
<1>p. ASSUME UNCHANGED turns
      PROVE  /\ \A x \in Client : Won(x)' = Won(x)
             /\ \A t \in turns' : t.client \in Client
  BY <1>p, <1>w DEF TurnInv
(* The frame being sent is another, and neither is an answer.              *)
<1>a. ASSUME NEW c \in Client, out[c].kind # "answer", out'[c].kind # "answer",
             UNCHANGED <<frames, taken, gone, turns>>, phase'[c] # "new",
             doing'[c] \in {"model", "pulse"} <=> doing[c] \in {"model", "pulse"}
      PROVE  TurnOf(c)'
  <2>1. PICK w \in BOOLEAN : w = (doing'[c] \in {"model", "pulse"})
    BY Truth
  <2>2. PICK h \in BOOLEAN : h = (c \notin gone)
    OBVIOUS
  <2>3. Waits(c) = w
    BY <1>a, <2>1 DEF Waits
  <2>4. InTurn(frames[c], out'[c], Of(c).asks, taken[c], w, Won(c), h)
    <3>1. PICK q : q = out'[c]
      OBVIOUS
    <3>2. q.kind # "answer" /\ out[c].kind # "answer"
      BY <1>a, <3>1
    <3>3. InTurn(frames[c], out[c], Of(c).asks, taken[c], w, Won(c), h)
      BY <1>t, <2>2, <2>3
    <3>4. InTurn(frames[c], q, Of(c).asks, taken[c], w, Won(c), h)
      BY <3>2, <3>3, TurnOther, Zenon
    <3> QED BY <3>1, <3>4
  <2>5. h = (c \notin gone') /\ frames'[c] = frames[c] /\ taken'[c] = taken[c]
    BY <1>a, <2>2
  <2> QED BY <1>a, <1>c, <2>1, <2>4, <2>5
(* Nobody is left to send to.                                              *)
<1>g. ASSUME NEW c \in Client, c \in gone', out'[c] = out[c] \/ out'[c].kind # "answer",
             UNCHANGED <<frames, taken, turns>>, phase'[c] = "new" => phase[c] = "new",
             doing'[c] \in {"model", "pulse"} => doing[c] \in {"model", "pulse"}
      PROVE  TurnOf(c)'
  <2>1. PICK w \in BOOLEAN : w = (doing[c] \in {"model", "pulse"})
    BY Truth
  <2>2. PICK s \in BOOLEAN : s = (doing'[c] \in {"model", "pulse"})
    BY Truth
  <2>3. PICK h \in BOOLEAN : h = (c \notin gone)
    OBVIOUS
  <2>4. Waits(c) = w /\ (s => w)
    BY <1>g, <2>1, <2>2 DEF Waits
  <2>5. InTurn(frames[c], out[c], Of(c).asks, taken[c], w, Won(c), h)
    BY <1>t, <2>3, <2>4
  <2>6. InTurn(frames[c], out'[c], Of(c).asks, taken[c], s, Won(c), FALSE)
    <3>1. PICK q : q = out'[c]
      OBVIOUS
    <3>2. q = out[c] \/ q.kind # "answer"
      BY <1>g, <3>1
    <3>3. InTurn(frames[c], q, Of(c).asks, taken[c], s, Won(c), FALSE)
      <4>1. s => w
        BY <2>4
      <4>2. CASE q = out[c]
        <5>1. InTurn(frames[c], out[c], Of(c).asks, taken[c], s, Won(c), FALSE)
          BY <2>5, <4>1, TurnLeft, Zenon
        <5> QED BY <4>2, <5>1
      <4>3. CASE q.kind # "answer"
        BY <2>5, <4>1, <4>3 DEF InTurn
      <4> QED BY <3>2, <4>2, <4>3
    <3> QED BY <3>1, <3>3
  <2>7. FALSE = (c \notin gone') /\ frames'[c] = frames[c] /\ taken'[c] = taken[c]
    BY <1>g
  <2>8. InTurn(frames'[c], out'[c], Of(c).asks, taken'[c], s, Won(c), FALSE)
    BY <2>6, <2>7
  <2>9. phase'[c] = "new" => taken'[c] = 0
    BY <1>g, <1>y, <2>7
  <2> QED BY <1>c, <1>g, <2>2, <2>7, <2>8, <2>9
<1>h. ASSUME NEW c \in Client, Handle(c, taken[c] + 1), out[c] = NoFrame, ~Waits(c),
             UNCHANGED <<frames, gone>>, taken'[c] = taken[c] + 1, phase'[c] # "new"
      PROVE  TurnOf(c)' /\ turns' = turns
  <2>1. PICK h \in BOOLEAN : h = (c \notin gone)
    OBVIOUS
  <2>2. taken[c] + 1 \in Nat /\ out[c].kind # "answer" /\ Waits(c) = FALSE
    BY <1>h, <1>y, FramesDiffer DEF Waits
  <2>3. InTurn(frames[c], out[c], Of(c).asks, taken[c], FALSE, Won(c), h)
    BY <1>t, <2>1, <2>2
  <2>4. PICK i \in Nat : i = taken[c] + 1
    BY <2>2
  <2>5. turns' = turns /\ (Ignores(c, i) \/ Settles(c, i) \/ AsksModel(c, i) \/ Pulses(c, i))
    BY <1>h, <2>4, HandleShape
  <2>6. h = (c \notin gone') /\ frames'[c] = frames[c] /\ taken'[c] = i
    BY <1>h, <2>1, <2>4
  <2>7. CASE Ignores(c, i)
    <3>1. out'[c] = out[c] /\ FALSE = (doing'[c] \in {"model", "pulse"})
      BY <1>d, <2>7 DEF Ignores, Resumed
    <3>2. Of(c).asks[taken[c] + 1].kind = "noise"
      BY <2>4, <2>7 DEF Ignores, Wanted
    <3>3. InTurn(frames[c], out[c], Of(c).asks, taken[c] + 1, FALSE, Won(c), h)
      BY <1>y, <2>2, <2>3, <3>2, TurnIgnored
    <3>4. InTurn(frames'[c], out'[c], Of(c).asks, taken'[c], FALSE, Won(c), h)
      BY <2>4, <2>6, <3>1, <3>3
    <3> QED BY <1>c, <1>h, <2>5, <2>6, <3>1, <3>4
  <2>8. ASSUME Wanted(c, i)
        PROVE  InTurn(frames[c], out[c], Of(c).asks, i, TRUE, Won(c), h)
    <3>1. Of(c).asks[taken[c] + 1].kind # "noise"
      BY <2>4, <2>8 DEF Wanted
    <3>2. InTurn(frames[c], out[c], Of(c).asks, taken[c] + 1, TRUE, Won(c), h)
      BY <1>y, <2>2, <2>3, <3>1, TurnTaken
    <3> QED BY <2>4, <3>2
  <2>9. CASE Settles(c, i)
    <3>1. PICK f \in Sent : f.kind = "answer" /\ f.ask = i /\ out' = [out EXCEPT ![c] = f]
      BY <2>9 DEF Settles
    <3>2. out'[c] = f /\ FALSE = (doing'[c] \in {"model", "pulse"}) /\ Wanted(c, i)
      BY <1>d, <2>9, <3>1 DEF Settles, Resumed
    <3>3. InTurn(frames[c], f, Of(c).asks, i, FALSE, Won(c), h)
      <4>1. InTurn(frames[c], out[c], Of(c).asks, i, TRUE, Won(c), h)
        BY <2>8, <3>2
      <4> QED BY <3>1, <4>1, TurnAnswered, Zenon
    <3>4. InTurn(frames'[c], out'[c], Of(c).asks, taken'[c], FALSE, Won(c), h)
      BY <2>6, <3>2, <3>3
    <3> QED BY <1>c, <1>h, <2>5, <2>6, <3>2, <3>4
  <2>10. CASE AsksModel(c, i) \/ Pulses(c, i)
    <3>1. /\ out'[c] = out[c] /\ TRUE = (doing'[c] \in {"model", "pulse"}) /\ Wanted(c, i)
      BY <1>d, <2>10 DEF AsksModel, Pulses
    <3>2. InTurn(frames'[c], out'[c], Of(c).asks, taken'[c], TRUE, Won(c), h)
      BY <2>6, <2>8, <3>1
    <3> QED BY <1>c, <1>h, <2>5, <2>6, <3>1, <3>2
  <2> QED BY <2>5, <2>7, <2>9, <2>10
<1>1. ASSUME NEW c \in Client, Refuse(c) \/ Stream(c) \/ HangUp(c) \/ Say(c) \/ Read(c)
      PROVE  TurnInv'
  <2>1. UNCHANGED <<frames, out, taken, gone, turns>>
    BY <1>1 DEF Refuse, Stream, HangUp, Say, Read
  <2>2. /\ doing'[c] \in {"model", "pulse"} <=> doing[c] \in {"model", "pulse"}
        /\ phase'[c] = "new" => phase[c] = "new"
    BY <1>1, <1>d DEF Refuse, Stream, HangUp, Say, Read, Opens, Awaits, Closes, Selecting,
                      LinkInv, LinkTyped
  <2>3. TurnOf(c)'
    BY <1>k, <2>1, <2>2
  <2> QED BY <1>1, <1>o, <1>p, <2>1, <2>3 DEF Serve
<1>2. ASSUME NEW c \in Client, Greet(c) PROVE TurnInv'
  <2>1. /\ out[c].kind # "answer" /\ out'[c].kind # "answer"
        /\ UNCHANGED <<frames, taken, gone, turns>> /\ phase'[c] # "new"
        /\ doing'[c] \in {"model", "pulse"} <=> doing[c] \in {"model", "pulse"}
    BY <1>2, <1>d, FramesDiffer DEF Greet, Opens, Awaits, Answers, LinkInv, LinkTyped
  <2>2. TurnOf(c)'
    BY <1>a, <2>1
  <2> QED BY <1>2, <1>o, <1>p, <2>1, <2>2
<1>3. ASSUME NEW c \in Client, Request(c) PROVE TurnInv'
  <2>1. /\ taken[c] = 0 /\ out[c] = NoFrame /\ ~Waits(c) /\ UNCHANGED <<frames, gone>>
        /\ taken'[c] = 1 /\ phase'[c] # "new" /\ Handle(c, 1)
    BY <1>3, <1>d, <1>y DEF Request, Opens, LinkInv, LinkTyped, Waits
  <2>2. taken[c] + 1 = 1
    BY <2>1
  <2>3. TurnOf(c)' /\ turns' = turns
    BY <1>h, <2>1, <2>2
  <2> QED BY <1>3, <1>o, <1>p, <2>3
<1>4. ASSUME NEW c \in Client, Take(c) PROVE TurnInv'
  <2>1. /\ out[c] = NoFrame /\ ~Waits(c) /\ UNCHANGED <<frames, gone>>
        /\ taken'[c] = taken[c] + 1 /\ phase'[c] # "new" /\ Handle(c, taken[c] + 1)
    BY <1>4, <1>d DEF Take, Selecting, LinkInv, LinkTyped, Waits
  <2>2. TurnOf(c)' /\ turns' = turns
    BY <1>h, <2>1
  <2> QED BY <1>4, <1>o, <1>p, <2>2 DEF Serve
<1>5. ASSUME NEW c \in Client, Respond(c) PROVE TurnInv'
  <2>1. PICK result \in {"ok", Failed} :
          \E outcome \in Outcome(Of(c).asks[taken[c]].kind, result) :
             /\ out' = [out EXCEPT ![c] = Reply(taken[c], outcome.answer)]
             /\ \/ /\ outcome.turn
                   /\ turns' = turns \cup
                        {[client |-> c, ask |-> taken[c], reply |-> outcome.answer]}
                \/ turns' = turns
    BY <1>5 DEF Respond, Answers
  <2>2. PICK t \in Nat : t = taken[c]
    BY <1>y
  <2>3. PICK outcome \in Outcome(Of(c).asks[t].kind, result) :
             /\ out' = [out EXCEPT ![c] = Reply(t, outcome.answer)]
             /\ \/ /\ outcome.turn
                   /\ turns' = turns \cup {[client |-> c, ask |-> t, reply |-> outcome.answer]}
                \/ turns' = turns
    BY <2>1, <2>2
  <2>a. PICK p : p = Reply(t, outcome.answer)
    OBVIOUS
  <2>b. PICK new : new = [client |-> c, ask |-> t, reply |-> outcome.answer]
    OBVIOUS
  <2>4. /\ p.kind = "answer" /\ p.ask = t /\ p.answer = outcome.answer
        /\ new.client = c /\ new.ask = t /\ new.reply = outcome.answer
    BY <2>a, <2>b DEF Reply, Frame
  <2>5. Of(c).asks[t].kind \in Model /\ doing[c] = "model" /\ phase[c] # "new"
    BY <1>5, <2>2 DEF Respond, LinkInv, LinkTyped
  <2>6. /\ UNCHANGED <<frames, taken, gone, phase>>
        /\ out'[c] = p /\ FALSE = (doing'[c] \in {"model", "pulse"})
    BY <1>5, <1>d, <2>3, <2>a DEF Respond, Resumes, Awaits
  <2>7. PICK h \in BOOLEAN : h = (c \notin gone)
    OBVIOUS
  <2>8. InTurn(frames[c], out[c], Of(c).asks, t, TRUE, Won(c), h)
    <3>1. Waits(c) = TRUE
      BY <2>5 DEF Waits
    <3> QED BY <1>t, <2>2, <2>7, <3>1
  <2>9. /\ \A u : u \in turns' => u \in turns \/ u = new
        /\ turns' = turns \/ (outcome.turn /\ turns' = turns \cup {new})
    BY <2>3, <2>b
  <2>10. PICK now : now = Won(c)'
    OBVIOUS
  <2>11. now = Won(c) \/ (outcome.turn /\ now = With(Won(c), new))
    BY <2>4, <2>9, <2>10 DEF Won, With
  <2>12. InTurn(frames[c], p, Of(c).asks, t, FALSE, now, h)
    <3>1. p.kind = "answer" /\ p.ask = t
      BY <2>4
    <3>2. CASE now = Won(c)
      <4>1. InTurn(frames[c], p, Of(c).asks, t, FALSE, Won(c), h)
        BY <2>8, <3>1, TurnAnswered, Zenon
      <4> QED BY <3>2, <4>1
    <3>3. CASE outcome.turn /\ now = With(Won(c), new)
      <4>1. /\ new.ask = t /\ new.reply = p.answer
            /\ p.answer = Failed => Of(c).asks[t].kind = "relay"
        BY <2>4, <2>5, <3>3, OutcomeKept
      <4>2. InTurn(frames[c], p, Of(c).asks, t, FALSE, With(Won(c), new), h)
        BY <2>8, <3>1, <4>1, TurnWon, Zenon
      <4> QED BY <3>3, <4>2
    <3> QED BY <2>11, <3>2, <3>3
  <2>13. TurnOf(c)'
    <3>1. Waits(c)' = FALSE /\ (c \notin gone)' = h /\ Of(c)' = Of(c) /\ phase'[c] # "new"
      BY <1>e, <2>5, <2>6, <2>7 DEF Waits
    <3> QED BY <2>2, <2>6, <2>10, <2>12, <3>1 DEF TurnOf
  <2>14. ASSUME NEW x \in Client, x # c PROVE Won(x)' = Won(x)
    BY <2>4, <2>9, <2>14 DEF Won
  <2>15. \A u \in turns' : u.client \in Client
    BY <2>4, <2>9 DEF TurnInv
  <2> QED BY <1>5, <1>o, <2>13, <2>14, <2>15 DEF Serve
<1>6. ASSUME NEW c \in Client, Forward(c) PROVE TurnInv'
  <2>1. /\ out[c] = NoFrame /\ UNCHANGED <<frames, taken, gone, turns, phase, doing>>
        /\ phase[c] # "new"
        /\ \/ out' = out
           \/ out' = [out EXCEPT ![c] = Pulse(feed[next[c]])]
    BY <1>6 DEF Forward, Selecting, Lagged, Answers, LinkInv, LinkTyped
  <2>2. out[c].kind # "answer" /\ out'[c].kind # "answer"
    BY <1>d, <2>1, FramesDiffer DEF Pulse, Frame
  <2>3. TurnOf(c)'
    BY <1>a, <2>1, <2>2
  <2> QED BY <1>6, <1>o, <1>p, <2>1, <2>3 DEF Serve
<1>7. ASSUME NEW c \in Client, Deliver(c) PROVE TurnInv'
  <2>1. /\ out[c] \in Sent /\ ~Waits(c) /\ phase[c] # "new" /\ UNCHANGED <<taken, gone, turns>>
        /\ frames'[c] = Append(frames[c], out[c]) /\ out'[c] = NoFrame /\ c \notin gone
    <3>1. /\ UNCHANGED <<taken, gone, turns>> /\ out[c] # NoFrame /\ c \notin gone
          /\ frames' = [frames EXCEPT ![c] = Append(@, out[c])]
          /\ out' = [out EXCEPT ![c] = NoFrame]
      BY <1>7 DEF Deliver
    <3>2. frames'[c] = Append(frames[c], out[c]) /\ out'[c] = NoFrame /\ out[c] \in Sent
      BY <1>d, <1>y, <3>1
    <3>3. ~Waits(c) /\ phase[c] # "new"
      BY <3>1 DEF LinkInv, LinkTyped, Waits
    <3> QED BY <3>1, <3>2, <3>3
  <2>2. FALSE = (doing'[c] \in {"model", "pulse"}) /\ phase'[c] # "new"
    BY <1>7, <1>d, <2>1 DEF Deliver, Resumes, Awaits, Waits
  <2>3. Waits(c) = FALSE /\ (c \notin gone) = TRUE
    BY <2>1 DEF Waits
  <2>4. InTurn(frames[c], out[c], Of(c).asks, taken[c], FALSE, Won(c), TRUE)
    BY <1>t, <2>3
  <2>5. InTurn(Append(frames[c], out[c]), NoFrame, Of(c).asks, taken[c], FALSE, Won(c), TRUE)
    BY <1>y, <2>1, <2>4, TurnDelivered
  <2>6. InTurn(frames'[c], out'[c], Of(c).asks, taken'[c], FALSE, Won(c), TRUE)
    BY <2>1, <2>5
  <2>7. TRUE = (c \notin gone') /\ UNCHANGED turns
    BY <2>1
  <2>8. TurnOf(c)'
    BY <1>c, <2>2, <2>6, <2>7
  <2> QED BY <1>7, <1>o, <1>p, <2>1, <2>8 DEF Serve
<1>8. ASSUME NEW c \in Client, SendInVain(c) \/ Drop(c) \/ Leave(c) PROVE TurnInv'
  <2>1. /\ UNCHANGED <<frames, taken, turns>> /\ c \in gone'
        /\ phase'[c] = "new" => phase[c] = "new"
        /\ doing'[c] \in {"model", "pulse"} => doing[c] \in {"model", "pulse"}
        /\ out'[c] = out[c] \/ out'[c].kind # "answer"
    BY <1>8, <1>d, FramesDiffer DEF SendInVain, Drop, Leave, Closes, Resumes, Awaits
  <2>2. TurnOf(c)'
    BY <1>g, <2>1
  <2> QED BY <1>8, <1>o, <1>p, <2>1, <2>2 DEF Serve
<1>9. ASSUME NEW p \in Pulser, Return(p) PROVE TurnInv'
  <2>1. UNCHANGED <<frames, taken, gone, turns, phase>> /\ stage[p] = "crumb"
    BY <1>9 DEF Return
  <2>2. ASSUME NEW x \in Client, out'[x] = out[x], doing'[x] = doing[x] PROVE TurnOf(x)'
    BY <1>k, <2>1, <2>2
  <2>3. CASE UNCHANGED <<out, doing>>
    BY <2>1, <2>2, <2>3 DEF TurnInv
  <2>4. CASE p \in Client /\ out' = [out EXCEPT ![p] = Receipt(taken[p], num[p])] /\ Resumes(p)
    <3>1. PICK f : f = Receipt(taken[p], num[p])
      OBVIOUS
    <3>2. f.kind = "answer" /\ f.ask = taken[p]
      BY <3>1 DEF Receipt, Frame
    <3>3. out'[p] = f /\ FALSE = (doing'[p] \in {"model", "pulse"})
      BY <1>d, <2>4, <3>1 DEF Resumes, Awaits
    <3>4. PICK h \in BOOLEAN : h = (p \notin gone)
      OBVIOUS
    <3>5. InTurn(frames[p], out[p], Of(p).asks, taken[p], TRUE, Won(p), h)
      <4>1. Waits(p) = TRUE
        BY <2>1, <2>4 DEF Waits, LinkInv, LinkTyped
      <4> QED BY <1>t, <2>4, <3>4, <4>1
    <3>6. InTurn(frames[p], f, Of(p).asks, taken[p], FALSE, Won(p), h)
      BY <3>2, <3>5, TurnAnswered, Zenon
    <3>7. /\ InTurn(frames'[p], out'[p], Of(p).asks, taken'[p], FALSE, Won(p), h)
          /\ h = (p \notin gone') /\ UNCHANGED turns /\ (phase'[p] = "new" => taken'[p] = 0)
      BY <1>y, <2>1, <2>4, <3>3, <3>4, <3>6
    <3>8. TurnOf(p)'
      BY <1>c, <2>4, <3>3, <3>7
    <3>9. ASSUME NEW x \in Client, x # p PROVE out'[x] = out[x] /\ doing'[x] = doing[x]
      BY <1>d, <2>4, <3>9 DEF Resumes, Awaits
    <3> QED BY <2>1, <2>2, <3>8, <3>9 DEF TurnInv
  <2> QED BY <1>9, <2>3, <2>4 DEF Return, Answers, Pulser
<1>10. CASE UNCHANGED <<link, turns>>
  BY <1>10, <1>k DEF TurnInv
<1> QED
  BY <1>1, <1>2, <1>3, <1>4, <1>5, <1>6, <1>7, <1>8, <1>9, <1>10
  DEF Next, Serve, Publish, LoopBegins, AgentCalls, ShellTask, vars

LEMMA TurnInit == Init => TurnInv /\ ReceiptInv
<1>t. Init => turns = {}
  BY DEF Init
<1> SUFFICES ASSUME Init, NEW c \in Client PROVE TurnOf(c) /\ TimeOf(c)
  BY <1>t DEF TurnInv, ReceiptInv, TimeOf
<1>1. /\ frames[c] = <<>> /\ out[c].kind = "none" /\ out[c].tick = 0 /\ taken[c] = 0
      /\ doing[c] = "nothing" /\ turns = {} /\ stage[c] = "idle" /\ ticks = 0
  BY FramesDiffer DEF Init, Pulser
<1>2. DOMAIN frames[c] = {} /\ Len(frames[c]) = 0
  BY <1>1
<1>3. Answered(frames[c], 0) = {} /\ Wants(Of(c).asks, 0) = {} /\ Won(c) = {} /\ ~Waits(c)
  BY <1>1 DEF Answered, Wants, Won, Waits
<1>4. TurnOf(c)
  BY <1>1, <1>2, <1>3 DEF TurnOf, InTurn, Kept
<1>5. TimeOf(c)
  BY <1>1, <1>2 DEF TimeOf, InTime
<1> QED BY <1>4, <1>5

(* Each request is answered once and in its turn, a receipt is of a pulse  *)
(* that was published and comes before it, and a recorded turn keeps the   *)
(* very reply its client is told, an error only as a relay quotes it:      *)
(* whatever the loop, the other clients and the model do, for any number   *)
(* of connections.                                                         *)
THEOREM AnswersComeInOrder == Spec => []AnswersInOrder
<1>1. GateInv /\ LinkInv /\ TurnInv /\ ReceiptInv => AnswersInOrder
  <2> SUFFICES ASSUME GateInv, LinkInv, TurnInv, ReceiptInv PROVE AnswersInOrder
    OBVIOUS
  <2>1. ASSUME NEW c \in Client
        PROVE  InTurn(frames[c], out[c], Of(c).asks, taken[c], Waits(c), Won(c), c \notin gone)
    BY DEF TurnInv, TurnOf
  <2>2. ASSUME NEW c \in Client
        PROVE  Wants(Of(c).asks, taken[c]) = Answerable(c)
    BY DEF Wants, Answerable
  <2>3. ASSUME NEW c \in Client, NEW j \in DOMAIN frames[c], frames[c][j].kind = "answer"
        PROVE  /\ frames[c][j].ask \in Answerable(c)
               /\ Answered(frames[c], j - 1) = {h \in Answerable(c) : h < frames[c][j].ask}
               /\ frames[c][j].tick # 0 =>
                    /\ frames[c][j].tick \in Range(feed)
                    /\ \A k \in 1..(j - 1) : frames[c][k].tick # frames[c][j].tick
    <3>1. InTime(frames[c], out[c], stage[c] # "idle", num[c], feed, ticks)
      BY DEF ReceiptInv
    <3> QED BY <2>1, <2>2, <2>3, <3>1 DEF InTurn, InTime, Below
  <2>4. ASSUME NEW t \in turns, NEW told,
               told = {f \in {out[t.client]} \cup Range(frames[t.client]) :
                         f.kind = "answer" /\ f.ask = t.ask}
        PROVE  /\ t.ask \in Answerable(t.client)
               /\ \A f \in told : f.answer = t.reply
               /\ told # {} \/ t.client \in gone
               /\ t.reply = Failed => Of(t.client).asks[t.ask].kind = "relay"
    <3>1. PICK c \in Client : c = t.client
      BY DEF TurnInv
    <3>2. /\ InTurn(frames[c], out[c], Of(c).asks, taken[c], Waits(c), Won(c), c \notin gone)
          /\ Wants(Of(c).asks, taken[c]) = Answerable(c) /\ t \in Won(c)
      BY <2>1, <2>2, <3>1 DEF Won
    <3>3. /\ t.ask \in Answerable(c)
          /\ t.reply = Failed => Of(c).asks[t.ask].kind = "relay"
      BY <3>2 DEF InTurn, Kept
    <3>4. ASSUME NEW f \in told PROVE f.answer = t.reply
      <4>1. /\ f.kind = "answer" /\ f.ask = t.ask
            /\ f = out[c] \/ \E j \in DOMAIN frames[c] : f = frames[c][j]
        BY <2>4, <3>1 DEF Range
      <4> QED BY <3>2, <4>1 DEF InTurn, Agrees
    <3>5. ASSUME c \notin gone, out[c].kind # "answer" \/ out[c].ask # t.ask
          PROVE  \E f \in Range(frames[c]) : f.kind = "answer" /\ f.ask = t.ask
      <4>1. t.ask \in Answered(frames[c], Len(frames[c]))
        <5>1. Waits(c) => t.ask # taken[c]
          BY <3>2 DEF InTurn
        <5>2. out[c].kind = "answer" => t.ask # taken[c]
          BY <3>2, <3>5 DEF InTurn
        <5>3. t.ask \in 1..taken[c] /\ taken[c] \in Nat
          BY <3>3 DEF Answerable, GateInv, AdmittedOne
        <5>4. CASE ~Waits(c) /\ out[c].kind # "answer"
          BY <3>2, <3>3, <3>5, <5>4 DEF InTurn
        <5>5. CASE Waits(c) \/ out[c].kind = "answer"
          BY <3>2, <3>3, <3>5, <5>1, <5>2, <5>3, <5>5 DEF InTurn, Below
        <5> QED BY <5>4, <5>5
      <4>2. frames[c] \in Seq(Sent)
        BY DEF LinkInv, Functions
      <4> QED BY <4>1, <4>2 DEF Answered, Range
    <3> QED BY <2>4, <3>1, <3>3, <3>4, <3>5
  <2> QED BY <2>3, <2>4 DEF AnswersInOrder
<1>2. GateInv /\ LinkInv /\ NumbersInv /\ TurnInv /\ ReceiptInv /\ [Next]_vars
        => (GateInv /\ LinkInv /\ NumbersInv /\ TurnInv /\ ReceiptInv)'
  BY GateStep, LinkStep, NumbersStep, TurnStep, ReceiptStep
<1> QED BY GateInit, LinkInit, TurnInit, <1>1, <1>2, PTL DEF Spec

=============================================================================
