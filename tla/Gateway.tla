------------------------------ MODULE Gateway ------------------------------
(***************************************************************************)
(* The gateway (src/src/gateway.rs) behind its operator check (auth.rs):   *)
(* one task per websocket, per stream of events and per HTTP request, next *)
(* to the heartbeat loop. They meet in the broadcast channel on which      *)
(* every pulse publishes its receipt (heartbeat.rs).                       *)
(*                                                                         *)
(* Simplifications.                                                        *)
(*  - A pulse is its number, the commands it runs for tasks, the receipt   *)
(*    it publishes and the crumb command after it; which tasks it claims   *)
(*    is module Heartbeat.                                                 *)
(*  - A model or an agent at work is the calls the agent makes and the     *)
(*    fact that it ends, with an answer or an error; when it ends is       *)
(*    module AgentLoop. A handler that never awaits is one step.           *)
(*  - The answers to ping, skills_list, simd_eval, and the read-only       *)
(*    requests, are "ping"; the table behind a lookup is in Heartbeat. An  *)
(*    HTTP connection carries one request.                                 *)
(***************************************************************************)
EXTENDS Naturals, Sequences, FiniteSets, Functions, Dispatch

CONSTANTS
  Client,    \* connections to the gateway
  Loop,      \* the heartbeat loop, which pulses like a client that asks to
  Plans,     \* the configurations and clients of a behaviour; one is chosen
  Capacity,  \* of the broadcast channel (128 in the code)
  Buffer     \* frames a connection takes that its client has not read

AtOnce == {"ping", "lookup", "invalid"}
Model  == {"chat", "completion", "stream", "relay", "agent"}
Kind   == {"heartbeat", "skill", "shell", "noise"} \cup AtOnce \cup Model
Ask == [kind : Kind, call : Call]       \* the call asked for, or an agent's
Token == {"absent", "right", "wrong"}   \* what a header holds
Peer == [proto : {"ws", "sse", "http"}, public : BOOLEAN, bearer : Token, header : Token,
         asks : Seq(Ask), reads : BOOLEAN, leaves : BOOLEAN]

(* The public routes are the streams of events and reads.                  *)
Routed(peer) ==
  /\ peer.proto = "http" => Len(peer.asks) = 1
  /\ \A i \in DOMAIN peer.asks :
       /\ peer.public => peer.asks[i].kind \in {"ping", "lookup"}
       /\ peer.asks[i].kind = "shell" => ShellForm(peer.asks[i].call)

ASSUME GatewayAssumption ==
  /\ IsFiniteSet(Client) /\ Loop \notin Client
  /\ \A p \in Plans :
       /\ p.configured \in BOOLEAN /\ p.beats \in Nat /\ p.peer \in [Client -> Peer]
       /\ p.tasks \subseteq {call \in Call : ShellForm(call)}
       /\ \A c \in Client : Routed(p.peer[c])
  /\ Capacity \in Nat \ {0} /\ Buffer \in Nat \ {0}

VARIABLES
  plan,      \* the operator token is configured or not, the pulses of the loop,
             \* the commands of the shell tasks, the clients
  phase,     \* each connection: "new", "open", "refused", "closed"
  doing,     \* what its task awaits: "greeting", "select", "model", "pulse", "nothing"
  asked,     \* requests the client sent,
  taken,     \* and how many of them the task took
  out,       \* the frame being sent
  frames,    \* history: the frames sent,
  seen,      \* and how many of them the client read
  gone,      \* the clients that left
  feed,      \* history: the pulses published, by their number
  next,      \* each receiver's place in the feed,
  since,     \* history: and where it subscribed
  ticks,     \* tick_counter
  stage,     \* each pulse: "idle", "work", "crumb"
  num,       \* and its number
  done,      \* history: the calls dispatched, by whom, and what came of them
  turns      \* the recorded turns: whose request, and the reply that was kept

link  == <<phase, doing, asked, taken, out, frames, seen, gone>>
bus   == <<feed, next, since>>
pulse == <<ticks, stage, num>>
logs  == <<done, turns>>
vars  == <<plan, link, bus, pulse, logs>>

Pulser == Client \cup {Loop}
Of(c) == plan.peer[c]

Frame(kind, ask, tick, answer) == [kind |-> kind, ask |-> ask, tick |-> tick, answer |-> answer]
NoFrame == Frame("none", 0, 0, "none")
Welcome == Frame("welcome", 0, 0, "none")
Pulse(tick) == Frame("pulse", 0, tick, "none")
Reply(i, answer) == Frame("answer", i, 0, answer)
Receipt(i, tick) == Frame("answer", i, tick, "ok")

Init ==
  /\ plan \in Plans
  /\ phase = [c \in Client |-> "new"] /\ doing = [c \in Client |-> "nothing"]
  /\ asked = [c \in Client |-> 0] /\ taken = [c \in Client |-> 0]
  /\ out = [c \in Client |-> NoFrame] /\ frames = [c \in Client |-> <<>>]
  /\ seen = [c \in Client |-> 0] /\ gone = {}
  /\ feed = <<>> /\ next = [c \in Client |-> 1] /\ since = [c \in Client |-> 1]
  /\ ticks = 0 /\ stage = [p \in Pulser |-> "idle"] /\ num = [p \in Pulser |-> 0]
  /\ done = {} /\ turns = {}
-----------------------------------------------------------------------------
(* The operator check, before every handler.                               *)

(* A bearer token hides the other header, whatever it is.                  *)
PresentedToken(c) == IF Of(c).bearer # "absent" THEN Of(c).bearer ELSE Of(c).header

Verify(c) == plan.configured /\ PresentedToken(c) = "right"

RequireOperator(c) ==
  IF Of(c).public THEN "passed"
  ELSE IF ~plan.configured THEN "unavailable"
  ELSE IF Verify(c) THEN "passed" ELSE "unauthorized"

Refuse(c) ==
  /\ phase[c] = "new" /\ RequireOperator(c) # "passed"
  /\ phase' = [phase EXCEPT ![c] = "refused"]
  /\ UNCHANGED <<plan, doing, asked, taken, out, frames, seen, gone, bus, pulse, logs>>

Opens(c, proto) ==
  /\ phase[c] = "new" /\ RequireOperator(c) = "passed" /\ Of(c).proto = proto
  /\ phase' = [phase EXCEPT ![c] = "open"]

-----------------------------------------------------------------------------
(* What a handler does with request i: it answers, or awaits something.    *)

Awaits(c, what) == doing' = [doing EXCEPT ![c] = what]
Answers(c, frame) == out' = [out EXCEPT ![c] = frame]

(* A websocket goes back to its select; the task of a request is over.     *)
Resumes(c) == Awaits(c, IF Of(c).proto = "ws" THEN "select" ELSE "nothing")

(* The ...Variant definitions here and below are plausible slips in the    *)
(* definition that follows them; with one in place a property must fail.   *)
(* Here: the pulse is spawned, and the handler goes on.                    *)
AwaitsPulseVariant(c) == Resumes(c)
AwaitsPulse(c) == Awaits(c, "pulse")

BeginPulse(p) ==
  /\ ticks' = ticks + 1
  /\ num' = [num EXCEPT ![p] = ticks']
  /\ stage' = [stage EXCEPT ![p] = "work"]

(* A call made for p, on one of the three paths, and what came of it.      *)
Logs(p, call, r) ==
  done' = done \cup {[by |-> p, call |-> call, answer |-> r.answer, ran |-> r.ran]}

(* The two ways of a request to a handler: a skill by its name, the shell. *)
Dispatched(ask) ==
  IF ask.kind = "skill" THEN ExecuteGated(ask.call) ELSE DispatchShellGated(ask.call)

Calls(c, i) ==
  LET ask == Of(c).asks[i] IN
  \E r \in Dispatched(ask) : Answers(c, Reply(i, r.answer)) /\ Logs(c, ask.call, r)

(* A lookup asks the task table or the probe; an invalid completion has no *)
(* message or names another model.                                         *)
AnswersAtOnce(c, i) ==
  \E answer \in [ping |-> {"ok"}, lookup |-> {"ok", Failed}, invalid |-> {Failed}][Of(c).asks[i].kind] :
     Answers(c, Reply(i, answer))

Handle(c, i) ==
  LET kind == Of(c).asks[i].kind IN
  /\ UNCHANGED turns
  /\ \/ kind = "noise" /\ Resumes(c) /\ UNCHANGED <<out, pulse, done>>
     \/ kind \in AtOnce /\ AnswersAtOnce(c, i) /\ Resumes(c) /\ UNCHANGED <<pulse, done>>
     \/ kind \in {"skill", "shell"} /\ Calls(c, i) /\ Resumes(c) /\ UNCHANGED pulse
     \/ kind \in Model /\ Awaits(c, "model") /\ UNCHANGED <<out, pulse, done>>
     \/ kind = "heartbeat" /\ BeginPulse(c) /\ AwaitsPulse(c) /\ UNCHANGED <<out, done>>

(* What a handler can make of a model's result: the answer, and whether it *)
(* records it as a turn. An agent that ends, well or not, has recorded its *)
(* last response; with its model's error it ends before that. The relay    *)
(* quotes an error as the reply, and records it. A stream that began may   *)
(* break off, and falls back to a text of its own if it cannot begin.      *)
Turned(answer, turn) == [answer |-> answer, turn |-> turn]

ChatHandler(result)  == {Turned(result, result = "ok")}
StreamChat(result)   == {Turned(answer, FALSE) : answer \in IF result = "ok" THEN {"ok", Failed} ELSE {"ok"}}
DiscordRelay(result) == {Turned(result, TRUE)}
AgentRun(result)     == {Turned(result, result = "ok")}

Outcome(kind, result) ==
  CASE kind \in {"chat", "completion"} -> ChatHandler(result)
    [] kind = "stream" -> StreamChat(result)
    [] kind = "relay" -> DiscordRelay(result)
    [] kind = "agent" -> AgentRun(result)

(* An agent that is asked for makes its call, as often as it likes.        *)
AgentCalls(c) ==
  LET ask == Of(c).asks[taken[c]] IN
  /\ doing[c] = "model" /\ ask.kind = "agent"
  /\ \E r \in DispatchClassified(ask.call) : Logs(c, ask.call, r)
  /\ UNCHANGED <<plan, link, bus, pulse, turns>>

(* Whether the turn could be written is ignored.                           *)
Respond(c) ==
  /\ doing[c] = "model" /\ Resumes(c)
  /\ \E result \in {"ok", Failed} :
       \E outcome \in Outcome(Of(c).asks[taken[c]].kind, result) :
          /\ Answers(c, Reply(taken[c], outcome.answer))
          /\ \/ /\ outcome.turn
                /\ turns' = turns \cup {[client |-> c, ask |-> taken[c], reply |-> outcome.answer]}
             \/ UNCHANGED turns
  /\ UNCHANGED <<plan, phase, asked, taken, frames, seen, gone, bus, pulse, done>>

-----------------------------------------------------------------------------
(* The three kinds of connection.                                          *)

(* A receiver gets what is published from now on.                          *)
Subscribe(c) ==
  /\ next' = [next EXCEPT ![c] = Len(feed) + 1]
  /\ since' = [since EXCEPT ![c] = Len(feed) + 1]

(* handle_socket: the welcome goes out before the task subscribes.         *)
Greet(c) ==
  /\ Opens(c, "ws") /\ Awaits(c, "greeting") /\ Answers(c, Welcome)
  /\ UNCHANGED <<plan, asked, taken, frames, seen, gone, bus, pulse, logs>>

Stream(c) ==
  /\ Opens(c, "sse") /\ Awaits(c, "select") /\ Subscribe(c)
  /\ UNCHANGED <<plan, asked, taken, out, frames, seen, gone, feed, pulse, logs>>

Request(c) ==
  /\ Opens(c, "http") /\ Handle(c, 1)
  /\ asked' = [asked EXCEPT ![c] = 1] /\ taken' = [taken EXCEPT ![c] = 1]
  /\ UNCHANGED <<plan, frames, seen, gone, bus>>

(* The client of a websocket sends its next request, at any time.          *)
Say(c) ==
  /\ phase[c] = "open" /\ Of(c).proto = "ws" /\ c \notin gone /\ asked[c] < Len(Of(c).asks)
  /\ asked' = [asked EXCEPT ![c] = @ + 1]
  /\ UNCHANGED <<plan, phase, doing, taken, out, frames, seen, gone, bus, pulse, logs>>

Selecting(c) == doing[c] = "select" /\ out[c] = NoFrame

Take(c) ==
  /\ Selecting(c) /\ taken[c] < asked[c]
  /\ taken' = [taken EXCEPT ![c] = @ + 1]
  /\ Handle(c, taken[c] + 1)
  /\ UNCHANGED <<plan, phase, asked, frames, seen, gone, bus>>

(* The oldest pulse the channel still holds.                               *)
Oldest == IF Len(feed) > Capacity THEN Len(feed) - Capacity + 1 ELSE 1

Closes(c) == phase' = [phase EXCEPT ![c] = "closed"] /\ Awaits(c, "nothing")

(* recv: a receiver whose place was overwritten is told that it lagged,    *)
(* once, and goes on with the oldest one left. Both streams ignore it.     *)
LaggedVariantResubscribes(c) == next' = [next EXCEPT ![c] = Len(feed) + 1] /\ UNCHANGED <<phase, doing>>
LaggedVariantBreaks(c) == Closes(c) /\ UNCHANGED next
Lagged(c) == next' = [next EXCEPT ![c] = Oldest] /\ UNCHANGED <<phase, doing>>

Forward(c) ==
  /\ Selecting(c) /\ next[c] <= Len(feed)
  /\ \/ next[c] < Oldest /\ Lagged(c) /\ UNCHANGED out
     \/ /\ next[c] >= Oldest
        /\ Answers(c, Pulse(feed[next[c]]))
        /\ next' = [next EXCEPT ![c] = @ + 1]
        /\ UNCHANGED <<phase, doing>>
  /\ UNCHANGED <<plan, asked, taken, frames, seen, gone, feed, since, pulse, logs>>

Deliver(c) ==
  /\ out[c] # NoFrame /\ c \notin gone /\ Len(frames[c]) - seen[c] < Buffer
  /\ frames' = [frames EXCEPT ![c] = Append(@, out[c])]
  /\ out' = [out EXCEPT ![c] = NoFrame]
  /\ IF out[c] = Welcome
     THEN Resumes(c) /\ Subscribe(c)
     ELSE UNCHANGED <<doing, next, since>>
  /\ phase' = [phase EXCEPT ![c] = IF Of(c).proto = "http" THEN "closed" ELSE @]
  /\ UNCHANGED <<plan, asked, taken, seen, gone, feed, pulse, logs>>

Read(c) ==
  /\ seen[c] < Len(frames[c]) /\ c \notin gone
  /\ seen' = [seen EXCEPT ![c] = @ + 1]
  /\ UNCHANGED <<plan, phase, doing, asked, taken, out, frames, gone, bus, pulse, logs>>

-----------------------------------------------------------------------------
(* Clients that leave.                                                     *)

Leave(c) ==
  /\ Of(c).leaves /\ phase[c] = "open" /\ c \notin gone
  /\ gone' = gone \cup {c}
  /\ UNCHANGED <<plan, phase, doing, asked, taken, out, frames, seen, bus, pulse, logs>>

(* Sends whose failure ends the task; that of other answers is ignored.    *)
Breaks(c) ==
  IF out[c].kind = "answer" THEN Of(c).asks[taken[c]].kind = "chat" ELSE TRUE

(* A frame for a websocket nobody reads may fail, or still vanish in a     *)
(* buffer; either way it is gone.                                          *)
SendInVain(c) ==
  /\ Of(c).proto = "ws" /\ out[c] # NoFrame /\ c \in gone
  /\ out' = [out EXCEPT ![c] = NoFrame]
  /\ \/ Breaks(c) /\ Closes(c) /\ UNCHANGED <<next, since>>
     \/ /\ Resumes(c) /\ UNCHANGED phase
        /\ IF out[c] = Welcome THEN Subscribe(c) ELSE UNCHANGED <<next, since>>
  /\ UNCHANGED <<plan, asked, taken, frames, seen, gone, feed, pulse, logs>>

(* socket.next() yields the end once what was sent before it is taken.     *)
HangUp(c) ==
  /\ Of(c).proto = "ws" /\ c \in gone /\ Selecting(c) /\ taken[c] = asked[c]
  /\ Closes(c)
  /\ UNCHANGED <<plan, asked, taken, out, frames, seen, gone, bus, pulse, logs>>

(* A pulse is only cut off, it does not go on without its request.         *)
CutOffVariant(c) == UNCHANGED stage
CutOff(c) == stage' = [stage EXCEPT ![c] = "idle"]

(* The server drops the future of a request, or a stream, at its await.    *)
Drop(c) ==
  /\ Of(c).proto # "ws" /\ c \in gone /\ phase[c] = "open"
  /\ Closes(c)
  /\ out' = [out EXCEPT ![c] = NoFrame]
  /\ CutOff(c)
  /\ UNCHANGED <<plan, asked, taken, frames, seen, gone, bus, ticks, num, logs>>

-----------------------------------------------------------------------------
(* Pulses.                                                                 *)

LoopBegins ==
  /\ stage[Loop] = "idle" /\ ticks < plan.beats
  /\ BeginPulse(Loop)
  /\ UNCHANGED <<plan, link, bus, logs>>

(* A pulse claimed a shell task.                                           *)
ShellTask(p) ==
  /\ stage[p] = "work"
  /\ \E call \in plan.tasks : \E r \in DispatchShellGated(call) : Logs(p, call, r)
  /\ UNCHANGED <<plan, link, bus, pulse, turns>>

(* Sending into a broadcast channel never waits for a receiver.            *)
Publish(p) ==
  /\ stage[p] = "work"
  /\ feed' = Append(feed, num[p])
  /\ stage' = [stage EXCEPT ![p] = "crumb"]
  /\ UNCHANGED <<plan, link, next, since, ticks, num, logs>>

(* The crumb command ended, and pulse_once hands out its receipt.          *)
Return(p) ==
  /\ stage[p] = "crumb"
  /\ stage' = [stage EXCEPT ![p] = "idle"]
  /\ IF p = Loop THEN UNCHANGED <<doing, out>>
     ELSE Answers(p, Receipt(taken[p], num[p])) /\ Resumes(p)
  /\ UNCHANGED <<plan, phase, asked, taken, frames, seen, gone, bus, ticks, num, logs>>

-----------------------------------------------------------------------------
Serve(c) ==
  \/ Take(c) \/ Forward(c) \/ Respond(c) \/ Deliver(c)
  \/ SendInVain(c) \/ HangUp(c) \/ Drop(c)

Next ==
  \/ \E c \in Client :
       \/ Refuse(c) \/ Greet(c) \/ Stream(c) \/ Request(c) \/ Serve(c)
       \/ Say(c) \/ Read(c) \/ Leave(c) \/ AgentCalls(c)
  \/ \E p \in Pulser : ShellTask(p) \/ Publish(p) \/ Return(p)
  \/ LoopBegins

(* A task whose await is over is polled, a pulse in progress goes on, and  *)
(* models and the crumb command end; a client that reads goes on reading.  *)
(* Nobody need ever connect, ask or leave. tokio::select! polls its        *)
(* branches in random order, so that neither starves the other.            *)
Fairness ==
  /\ \A c \in Client :
       /\ WF_vars(Forward(c)) /\ SF_vars(Take(c)) /\ WF_vars(Respond(c)) /\ WF_vars(Deliver(c))
       /\ WF_vars(SendInVain(c)) /\ WF_vars(HangUp(c)) /\ WF_vars(Drop(c))
       /\ WF_vars(Of(c).reads /\ Read(c))
  /\ \A p \in Pulser : WF_vars(Publish(p)) /\ WF_vars(Return(p))

Spec == Init /\ [][Next]_vars /\ Fairness

-----------------------------------------------------------------------------
(* The properties.                                                         *)

Phase == {"new", "open", "refused", "closed"}
Doing == {"greeting", "select", "model", "pulse", "nothing"}

(* Type invariant. A requested pulse runs exactly while its handler waits  *)
(* for it: it does not outlive a request that was dropped.                 *)
TypeOK ==
  /\ plan \in Plans
  /\ phase \in [Client -> Phase] /\ doing \in [Client -> Doing]
  /\ \A c \in Client : taken[c] <= asked[c] /\ asked[c] <= Len(Of(c).asks)
  /\ \A c \in Client : seen[c] <= Len(frames[c]) /\ Len(frames[c]) <= seen[c] + Buffer
  /\ gone \subseteq Client
  /\ \A c \in Client : next[c] \in 1..(Len(feed) + 1)
  /\ ticks \in Nat /\ stage \in [Pulser -> {"idle", "work", "crumb"}]
  /\ \A c \in Client : stage[c] # "idle" <=> doing[c] = "pulse"

(* Every connection is sent pulses in the order of their publication, none *)
(* twice, and of those since it subscribed it misses only what the channel *)
(* overwrote: however the pulses of the loop and of requests overlap, and  *)
(* however long its handler or its client kept it waiting.                 *)
PulseFeed ==
  /\ \A j, k \in DOMAIN feed : feed[j] = feed[k] => j = k
  /\ \A c \in Client :
       /\ \A k \in DOMAIN frames[c] : frames[c][k].kind = "pulse" =>
            \E n \in since[c]..(next[c] - 1) :
              /\ frames[c][k].tick = feed[n]
              /\ \A j \in 1..(k - 1) : frames[c][j].kind = "pulse" =>
                   \E m \in since[c]..(n - 1) : frames[c][j].tick = feed[m]
       /\ c \notin gone => \A n \in since[c]..(next[c] - 1) :
            \/ Pulse(feed[n]) \in {out[c]} \cup Range(frames[c])
            \/ n + Capacity <= Len(feed)

(* The requests that are answered at all, and those that n frames answer.  *)
Answerable(c) == {i \in 1..taken[c] : Of(c).asks[i].kind # "noise"}
Answered(f, n) == {f[j].ask : j \in {k \in 1..n : f[k].kind = "answer"}}

(* Each request is answered once and in the order it was sent; a receipt   *)
(* is that of a published pulse, and comes before the same pulse does on   *)
(* the feed. A turn is recorded only of a request that was taken, and one  *)
(* whose client stayed was, or is being, answered with the very reply that *)
(* was kept: an error is kept as the reply only where a relay quotes it.   *)
AnswersInOrder ==
  /\ \A c \in Client : \A j \in DOMAIN frames[c] : frames[c][j].kind = "answer" =>
       LET i == frames[c][j].ask IN
       /\ i \in Answerable(c)
       /\ Answered(frames[c], j - 1) = {h \in Answerable(c) : h < i}
       /\ frames[c][j].tick # 0 =>
            /\ frames[c][j].tick \in Range(feed)
            /\ \A k \in 1..(j - 1) : frames[c][k].tick # frames[c][j].tick
  /\ \A t \in turns :
       LET told == {f \in {out[t.client]} \cup Range(frames[t.client]) :
                      f.kind = "answer" /\ f.ask = t.ask} IN
       /\ t.ask \in Answerable(t.client)
       /\ \A f \in told : f.answer = t.reply
       /\ told # {} \/ t.client \in gone
       /\ t.reply = Failed => Of(t.client).asks[t.ask].kind = "relay"

(* Where a call may have an effect: what it reads or works in is in the    *)
(* root, and what it writes has its name there.                            *)
Contained(call) == call.place # "outside" /\ (call.place = "link" => call.skill = "write_file")

(* A command or a handler runs only for the loop's tasks or for a client   *)
(* that showed the operator token, for a call on the allowlist, of a       *)
(* catalogued form, contained in the root, and approved by the probe; and  *)
(* equal calls are refused, or not, alike on all three paths.              *)
GatedEffects ==
  /\ \A d \in done : d.ran =>
       /\ d.by # Loop =>
            /\ plan.configured
            /\ "right" \in {Of(d.by).bearer, Of(d.by).header} /\ Of(d.by).bearer # "wrong"
       /\ d.call.probe = "safe" /\ d.call.skill \notin {"unconnected", "unlisted", "blank"}
       /\ Contained(d.call) /\ (d.call.skill = "bash_eval" => d.call.command = "form")
  /\ \A d, e \in done : d.call = e.call => (d.answer = Refused <=> e.answer = Refused)

(* Nothing is outstanding: all a client asked for was answered and all its *)
(* receiver could still get was sent, and it has read both.                *)
Settled(c) ==
  IF c \in gone THEN phase[c] = "closed"
  ELSE Of(c).reads /\ phase[c] \in {"open", "closed"} =>
         /\ seen[c] = Len(frames[c]) /\ out[c] = NoFrame
         /\ taken[c] = asked[c] /\ Answerable(c) \subseteq Answered(frames[c], Len(frames[c]))
         /\ Of(c).proto # "http" => next[c] = Len(feed) + 1

(* Whatever the other clients do, and though one never reads what it is    *)
(* sent: a client that reads gets an answer to each request and every      *)
(* pulse that is not overwritten, and the connection of one that left ends.*)
Served == \A c \in Client : []<>Settled(c)
=============================================================================
