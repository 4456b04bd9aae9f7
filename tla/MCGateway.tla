----------------------------- MODULE MCGateway -----------------------------
(* Two clients next to the heartbeat loop. Each plan is a meeting that     *)
(* could go wrong.                                                         *)
EXTENDS Gateway, TLC

CONSTANTS c1, c2

NoCall == [skill |-> "blank", args |-> "null", command |-> "blank", place |-> "blank", probe |-> "error"]
Plain(kind) == [kind |-> kind, call |-> NoCall]
Ws(asks, reads, leaves) ==
  [proto |-> "ws", public |-> FALSE, bearer |-> "right", header |-> "absent",
   asks |-> asks, reads |-> reads, leaves |-> leaves]
Sse(reads, leaves) == [Ws(<<>>, reads, leaves) EXCEPT !.proto = "sse", !.public = TRUE, !.bearer = "absent"]
Http(ask, leaves) == [Ws(<<ask>>, TRUE, leaves) EXCEPT !.proto = "http", !.bearer = "absent", !.header = "right"]

Pair(beats, a, b) ==
  [configured |-> TRUE, beats |-> beats, tasks |-> {}, peer |-> c1 :> a @@ c2 :> b]

Shell(command, probe) ==
  [skill |-> "bash_eval", args |-> "object", command |-> command, place |-> "blank", probe |-> probe]
CallTo(skill, place) ==
  [skill |-> skill, args |-> "null", command |-> "blank", place |-> place, probe |-> "safe"]

(* A handler that pulses and a client that stalls, leaves or only listens. *)
PulsePlans ==
  { Pair(2, Ws(<<Plain("heartbeat"), Plain("ping")>>, TRUE, FALSE), Ws(<<>>, FALSE, FALSE)),
    Pair(2, Ws(<<Plain("heartbeat")>>, TRUE, FALSE), Sse(TRUE, TRUE)),
    Pair(2, Http(Plain("heartbeat"), TRUE), Ws(<<Plain("noise"), Plain("agent")>>, TRUE, FALSE)),
    Pair(1, Http(Plain("heartbeat"), FALSE), Ws(<<Plain("chat"), Plain("heartbeat")>>, TRUE, FALSE)) }

ModelPlans ==
  { Pair(1, Http(Plain(kind), TRUE), Ws(<<Plain("chat")>>, TRUE, TRUE))
    : kind \in Model \cup AtOnce }

(* The same call on two of the paths, and calls only a name leads to.      *)
ShellPlans ==
  { Pair(0, Ws(<<[kind |-> "skill", call |-> call], [kind |-> "shell", call |-> call]>>, TRUE, FALSE),
         Http([kind |-> kind, call |-> call], FALSE))
    : call \in {Shell("other", "safe"), Shell("blank", "safe")} \cup {Shell("form", p) : p \in Probe},
      kind \in {"skill", "shell", "agent"} }
SkillPlans ==
  { Pair(0, Http([kind |-> kind, call |-> CallTo(skill, place)], FALSE), Sse(TRUE, FALSE))
    : kind \in {"skill", "agent"}, skill \in Skill, place \in Place }

(* Tasks of the loop and of a requested pulse, and a client's like them.   *)
TaskPlans ==
  { [Pair(1, Http([kind |-> kind, call |-> Shell(command, "safe")], TRUE), Sse(TRUE, FALSE))
       EXCEPT !.tasks = {Shell(command, "safe")}]
    : kind \in {"heartbeat", "shell", "agent"}, command \in {"form", "other"} }

(* Tokens that are wrong, hidden or asked for in vain.                     *)
TokenPlans ==
  { [configured |-> configured, beats |-> 0, tasks |-> {},
     peer |-> c1 :> [Http([kind |-> "shell", call |-> Shell("form", "safe")], FALSE)
                       EXCEPT !.bearer = bearer, !.header = header]
           @@ c2 :> Sse(TRUE, FALSE)]
    : configured \in BOOLEAN, bearer \in Token, header \in Token }

MCPlans == PulsePlans \cup ModelPlans \cup ShellPlans \cup SkillPlans \cup TaskPlans \cup TokenPlans
=============================================================================
