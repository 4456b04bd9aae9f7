------------------------------ MODULE Dispatch ------------------------------
(***************************************************************************)
(* The way of a tool call to its handler: the membrane and the probe gate  *)
(* (src/src/enforcement.rs, policy_guard.rs), the registry of skills       *)
(* (skills.rs) and the shell of the workspace (security.rs), on the three  *)
(* paths to them: of the gateway's skill requests, of an agent's calls,    *)
(* and of the shell requests and the heartbeat's shell tasks. Every check  *)
(* is made as often, and in the order, the code makes it.                  *)
(*                                                                         *)
(* Simplifications. A call says what the checks tell apart: whose skill it *)
(* names, the shape of its arguments, of its command and of its directory  *)
(* or path, and what the probe thinks of it. The probe in use is           *)
(* deterministic: it thinks the same of equal calls.                       *)
(***************************************************************************)

(* list_dir stands for git_status too; both work in a directory.           *)
Skill == {"bash_eval", "read_file", "write_file", "list_dir", "unconnected", "unlisted", "blank"}
Args == {"object", "null", "other"}
Command == {"form", "other", "blank", "not_text"}   \* form: one of the catalogue

(* A directory or a path, where its name leads. All but outside are names  *)
(* below the root; link is one for something outside of it, and a link to  *)
(* something inside is like what it leads to.                              *)
Place == {"blank", "file", "dir", "missing", "link", "outside"}

Probe == {"safe", "risky", "escalates", "error"}           \* what the probe answers

Call == [skill : Skill, args : Args, command : Command, place : Place, probe : Probe]

Refused == "refused"   \* by a gate
Failed == "failed"     \* by a handler
Answer == {Refused, Failed, "ok"}

(* The names on the allowlist; those have a handler each.                  *)
AllowedSkills == Skill \ {"unlisted", "blank"}

AdmitLocalCommand(call) == call.command = "form"

PreDispatchCheck(call) ==
  /\ call.skill \in AllowedSkills
  /\ call.args \in {"object", "null"}
  /\ call.skill = "bash_eval" =>
       call.args = "object" /\ call.command \notin {"not_text", "blank"} /\ AdmitLocalCommand(call)

(* Unlikely to be safe, out of bounds or without an answer: all refused.   *)
CheckAction(call) == call.probe = "safe"
GateSkill(call) == PreDispatchCheck(call) /\ CheckAction(call)
ProbeGate(call) == GateSkill(call)

(* Where the workspace lets a skill read, write and work. To read or work  *)
(* in, a path must lead into the root. To write, its directory must, and   *)
(* its own name must be in the root: what that is a link to is not asked.  *)
ResolveReadPath(place) == place \in {"file", "dir"}
ResolveWritePath(place) == place \in {"file", "dir", "missing", "link"}
ResolveDirPath(place) == place \in {"blank", "dir"}

(* What can be answered, and whether a command or a handler ran for it. A  *)
(* command, a file or a directory that may be used can fail all the same.  *)
Results(answers, ran) == [answer : answers, ran : {ran}]
Attempt(may, succeeds) ==
  IF may THEN Results(IF succeeds THEN {"ok", Failed} ELSE {Failed}, TRUE)
  ELSE Results({Failed}, FALSE)

(* Its exit code, its output or its time may run out.                      *)
ExecuteShell(call) == Attempt(ResolveDirPath(call.place), TRUE)

DispatchShell(call) ==
  IF PreDispatchCheck(call) /\ AdmitLocalCommand(call)
  THEN ExecuteShell(call) ELSE Results({Refused}, FALSE)

FileSkill(call) ==
  CASE call.skill = "read_file" -> Attempt(ResolveReadPath(call.place), call.place = "file")
    [] call.skill = "write_file" -> Attempt(ResolveWritePath(call.place), call.place # "dir")
    [] OTHER -> Attempt(ResolveDirPath(call.place), TRUE)
Unconnected == Results({Failed}, FALSE)

Handler(call) ==
  CASE call.skill = "bash_eval" -> DispatchShell(call)
    [] call.skill = "unconnected" -> Unconnected
    [] OTHER -> FileSkill(call)

Execute(call) ==
  IF PreDispatchCheck(call) THEN Handler(call) ELSE Results({Refused}, FALSE)

ExecuteGated(call) ==
  IF ProbeGate(call) THEN Execute(call) ELSE Results({Refused}, FALSE)

(* An agent's call: one skill after both gates, and the error classified.  *)
DispatchClassified(call) ==
  IF ProbeGate(call) /\ PreDispatchCheck(call) THEN Handler(call) ELSE Results({Refused}, FALSE)

(* A command without a directory of its own is gated as the skill is.      *)
ShellForm(call) ==
  /\ call.skill = "bash_eval" /\ call.args = "object"
  /\ call.command # "not_text" /\ call.place = "blank"

DispatchShellGatedVariant(call) == DispatchShell(call)
DispatchShellGated(call) ==
  IF ProbeGate(call) THEN DispatchShell(call) ELSE Results({Refused}, FALSE)

=============================================================================
