----------------------------- MODULE AgentLoop -----------------------------
(***************************************************************************)
(* One AgentEngine::execute_task (src/src/agent.rs) with the retry loop    *)
(* and the failure records of src/src/failure.rs, and agent_outcome of     *)
(* src/src/orchestration/workflow.rs, which turns its result into the      *)
(* outcome of a workflow task.                                             *)
(*                                                                         *)
(* The agent alternates with a model that asks for tool calls, a           *)
(* dispatcher that performs them, and an operator who may cancel at any    *)
(* moment. Mutating tools may act while they are dispatched; whether one   *)
(* did is history the agent cannot see.                                    *)
(*                                                                         *)
(* Simplifications.                                                        *)
(*  - A call is known by its position in the run: call ids are fresh.      *)
(*  - Message texts, digests, times and the model's context (see           *)
(*    ContextWindow) are left out.                                         *)
(*  - A dispatcher reports faithfully that it did nothing, and it is       *)
(*    asynchronous: a cancel or the deadline cuts it off. (The handlers of *)
(*    SkillRegistry run within one poll, so with them CutOff and TimedOut  *)
(*    come before the handler or not at all.)                              *)
(***************************************************************************)
EXTENDS Naturals, Sequences, FiniteSets

CONSTANTS
  Tool,         \* tools the model may call
  Idempotent,   \* skill_effect_profile(tool).idempotent: tools that only read
  MaxTurns,     \* max_turns of execute_task
  MaxCalls,     \* bound on the tool calls in one answer of the model
  MaxAttempts,  \* RetryPolicy.max_attempts
  Ceiling,      \* MAX_ATTEMPTS_CEILING
  HasTimeout,   \* is FailurePolicy.tool_timeout set?
  Reported      \* failure classes the dispatcher reports

ASSUME LoopAssumption ==
  /\ Idempotent \subseteq Tool
  /\ MaxTurns \in Nat /\ MaxCalls \in Nat
  /\ MaxAttempts \in Nat \ {0} /\ Ceiling \in Nat \ {0}
  /\ HasTimeout \in BOOLEAN
  /\ Reported \subseteq {"Rejected", "Unavailable", "Uncertain", "Failed",
                         "Malformed", "ApprovalPending"}

VARIABLES
  pc, turn,
  todo,        \* calls of this turn that are not finished; the head is current
  tries,       \* faults of the current call's attempts
  lastFailed,  \* last_failed_call (0: none)
  calls,       \* the finished calls: tool, success, index of the failure record
  records,     \* every FailureRecord, in the order of its sequence number
  completed,
  cancelled,   \* the operator's CancelToken
  \* history: did the running attempt act; effects of each call
  acted, effects

agent == <<pc, turn, todo, tries, lastFailed, calls, records, completed>>
vars  == <<agent, cancelled, acted, effects>>

Fault(class, certainty) == [class |-> class, certainty |-> certainty]

Current == Len(calls) + 1
Mutating(tool) == tool \notin Idempotent

Init ==
  /\ pc = "model" /\ turn = 0
  /\ todo = <<>> /\ tries = <<>> /\ lastFailed = 0
  /\ calls = <<>> /\ records = <<>> /\ completed = FALSE
  /\ cancelled = FALSE
  /\ acted = FALSE /\ effects = <<>>

-----------------------------------------------------------------------------
(* A turn: the model answers with tool calls or with its final text; an    *)
(* inference error ends the task without a result.                         *)

Answers == UNION {[1..n -> Tool] : n \in 1..MaxCalls}

AskForTools ==
  /\ pc = "model" /\ turn < MaxTurns
  /\ turn' = turn + 1
  /\ todo' \in Answers
  /\ pc' = "attempt"
  /\ effects' = Append(effects, 0)
  /\ UNCHANGED <<tries, lastFailed, calls, records, completed, cancelled, acted>>

FinalText ==
  /\ pc = "model" /\ turn < MaxTurns
  /\ turn' = turn + 1
  /\ completed' = TRUE
  /\ pc' = "done"
  /\ UNCHANGED <<todo, tries, lastFailed, calls, records, cancelled, acted, effects>>

InferenceError ==
  /\ pc = "model" /\ turn < MaxTurns
  /\ turn' = turn + 1
  /\ pc' = "error"
  /\ UNCHANGED <<todo, tries, lastFailed, calls, records, completed, cancelled,
                 acted, effects>>

OutOfTurns ==
  /\ pc = "model" /\ turn = MaxTurns
  /\ pc' = "done"
  /\ UNCHANGED <<turn, todo, tries, lastFailed, calls, records, completed,
                 cancelled, acted, effects>>

-----------------------------------------------------------------------------
(* One attempt of the current call: attempt_tool.                          *)

(* The check of the token; a cancel right after it finds the call in flight. *)
Dispatch ==
  /\ pc = "attempt" /\ ~cancelled
  /\ pc' = "inflight"
  /\ UNCHANGED <<turn, todo, tries, lastFailed, calls, records, completed,
                 cancelled, acted, effects>>

ToolActs ==
  /\ pc = "inflight" /\ Mutating(Head(todo)) /\ ~acted
  /\ acted' = TRUE
  /\ effects' = [effects EXCEPT ![Current] = @ + 1]
  /\ UNCHANGED <<agent, cancelled>>

(* What is said of a call that was cut off. (The ...Variant definitions     *)
(* here and below are plausible slips in the definition that follows them; *)
(* with one in place a property must fail.)                                *)
UnknownVariant(tool) == "NoEffect"
Unknown(tool) == IF tool \in Idempotent THEN "NoEffect" ELSE "Uncertain"

(* dispatch_classified: refusals and an unreachable backend come before    *)
(* any effect, an error of a mutating handler may come after one. Custom   *)
(* dispatchers report the other classes.                                   *)
Says(tool, class) ==
  CASE class \in {"Rejected", "Unavailable", "ApprovalPending"} -> "NoEffect"
    [] class = "Failed" ->
         IF tool \in Idempotent THEN "NoEffect" ELSE "EffectOccurred"
    [] class \in {"Uncertain", "Malformed"} -> "Uncertain"

CanSay(tool) ==
  {f \in {Fault(class, Says(tool, class)) : class \in Reported} :
     f.class \in {"Rejected", "Unavailable", "ApprovalPending"} => ~acted}

(* retry_eligibility and the bound of retry_loop.                          *)
AgainVariant(tool, fault, attempt) ==
  /\ fault.class \in {"Unavailable", "Failed", "Timeout"}
  /\ attempt < IF MaxAttempts < Ceiling THEN MaxAttempts ELSE Ceiling

Again(tool, fault, attempt) ==
  /\ fault.class = "Unavailable" /\ fault.certainty = "NoEffect"
  /\ tool \in Idempotent
  /\ attempt < IF MaxAttempts < Ceiling THEN MaxAttempts ELSE Ceiling

(* One FailureRecord for every failed attempt of the call.                 *)
RecordsOf(ts) ==
  [i \in 1..Len(ts) |->
     [call |-> Current, parent |-> lastFailed, attempt |-> i,
      class |-> ts[i].class, certainty |-> ts[i].certainty]]

HaltsVariant == {"ApprovalPending"}
Halts == {"ApprovalPending", "Cancelled"}

(* The current call is over: go on to the next one, or to the next turn.   *)
NextCall(ts, success) ==
  /\ records' = records \o RecordsOf(ts)
  /\ calls' = Append(calls, [tool |-> Head(todo), success |-> success,
                             failure |-> IF success THEN 0 ELSE Len(records')])
  /\ tries' = <<>>
  /\ acted' = FALSE

LastFailedVariant(success) == IF success THEN lastFailed ELSE Current
LastFailed(success) == IF success THEN 0 ELSE Current

Continue ==
  /\ todo' = Tail(todo)
  /\ pc' = IF todo' = <<>> THEN "model" ELSE "attempt"
  /\ effects' = IF todo' = <<>> THEN effects ELSE Append(effects, 0)

Succeeds ==
  /\ pc = "inflight"
  /\ acted \/ Head(todo) \in Idempotent
  /\ NextCall(tries, TRUE)
  /\ lastFailed' = LastFailed(TRUE)
  /\ Continue
  /\ UNCHANGED <<turn, completed, cancelled>>

(* retry_loop: another attempt, with nothing left of the one before.       *)
TryAgain(ts) ==
  /\ tries' = ts
  /\ acted' = FALSE
  /\ pc' = "attempt"
  /\ UNCHANGED <<turn, todo, lastFailed, calls, records, completed, cancelled, effects>>

Fails(fault) ==
  LET tool == Head(todo)
      ts == Append(tries, fault)
  IN
  \/ Again(tool, fault, Len(ts)) /\ TryAgain(ts)
  \/ /\ ~Again(tool, fault, Len(ts))
     /\ NextCall(ts, FALSE)
     /\ lastFailed' = LastFailed(FALSE)
     /\ \/ fault.class \in Halts /\ pc' = "done" /\ UNCHANGED <<todo, effects>>
        \/ fault.class \notin Halts /\ Continue
     /\ UNCHANGED <<turn, completed, cancelled>>

CancelledBefore ==
  pc = "attempt" /\ cancelled /\ Fails(Fault("Cancelled", "NoEffect"))

ReportsFault ==
  pc = "inflight" /\ \E fault \in CanSay(Head(todo)) : Fails(fault)

CutOffVariant ==
  /\ pc = "inflight" /\ cancelled /\ Head(todo) \in Idempotent
  /\ Fails(Fault("Cancelled", Unknown(Head(todo))))

CutOff ==
  /\ pc = "inflight" /\ cancelled
  /\ Fails(Fault("Cancelled", Unknown(Head(todo))))

TimedOut ==
  /\ HasTimeout /\ pc = "inflight"
  /\ Fails(Fault("Timeout", Unknown(Head(todo))))

Cancel ==
  /\ ~cancelled /\ pc \notin {"done", "error"}
  /\ cancelled' = TRUE
  /\ UNCHANGED <<agent, acted, effects>>

Returned == pc \in {"done", "error"} /\ UNCHANGED vars

Model == AskForTools \/ FinalText \/ InferenceError
Loop == OutOfTurns \/ Dispatch \/ CancelledBefore \/ CutOff

Next ==
  Model \/ Loop \/ ToolActs \/ Succeeds \/ ReportsFault \/ TimedOut \/ Cancel \/ Returned

(* The agent is polled and the model answers; no tool need ever return.    *)
Spec == Init /\ [][Next]_vars /\ WF_vars(Model) /\ WF_vars(Loop)

-----------------------------------------------------------------------------
(* agent_outcome: what the workflow is told. A failed call that was not    *)
(* recorded denies the run its completion.                                 *)

Failures == {i \in 1..Len(calls) : calls[i].failure # 0}

TaskFailed(class, certainty) ==
  [kind |-> "Failed", class |-> class, certainty |-> certainty]

OutcomeVariant ==
  IF completed THEN [kind |-> "Completed"]
  ELSE TaskFailed("Failed", "Uncertain")

Outcome ==
  IF pc = "error" THEN TaskFailed("Failed", "Uncertain")
  ELSE IF Failures # {} THEN
    LET last == CHOOSE i \in Failures : \A j \in Failures : j <= i
        rec  == records[calls[last].failure]
    IN  IF rec.class = "ApprovalPending" THEN [kind |-> "ApprovalPending"]
        ELSE TaskFailed(rec.class, rec.certainty)
  ELSE IF completed /\ (\A c \in 1..Len(calls) : calls[c].success)
    THEN [kind |-> "Completed"]
  ELSE TaskFailed("Failed", "Uncertain")

(* root_cause: follow the parents, from a record to the last record of the *)
(* parent call, at most Len(records) + 1 times.                            *)
LastRecordOf(c) ==
  {r \in 1..Len(records) :
     /\ records[r].call = c
     /\ \A q \in 1..Len(records) : records[q].call = c => q <= r}

Parent(r) == LastRecordOf(records[r].parent)

Follow(r) == IF Parent(r) = {} THEN r ELSE CHOOSE p \in Parent(r) : TRUE

RootCause(start) ==
  LET walk[n \in 0..(Len(records) + 1)] ==
        IF n = 0 THEN start ELSE Follow(walk[n - 1])
  IN walk[Len(records) + 1]

-----------------------------------------------------------------------------
(* Properties.                                                             *)

Classes == {"Rejected", "Unavailable", "Timeout", "Cancelled", "Uncertain",
            "Failed", "Malformed", "ApprovalPending"}
Certainties == {"NoEffect", "Uncertain", "EffectOccurred"}
Faults == [class : Classes, certainty : Certainties]
FailureRecord == [call : Nat, parent : Nat, attempt : Nat \ {0},
                  class : Classes, certainty : Certainties]

(* Every variable stays within its type, and there is one entry in effects *)
(* for every call that was begun.                                          *)
TypeOK ==
  /\ pc \in {"model", "attempt", "inflight", "done", "error"}
  /\ turn \in 0..MaxTurns
  /\ todo \in Seq(Tool)
  /\ pc \in {"attempt", "inflight"} =>
       todo # <<>> /\ Len(effects) = Current
  /\ tries \in Seq(Faults)
  /\ lastFailed \in 0..Len(calls)
  /\ calls \in Seq([tool : Tool, success : BOOLEAN, failure : Nat])
  /\ records \in Seq(FailureRecord)
  /\ completed \in BOOLEAN /\ cancelled \in BOOLEAN /\ acted \in BOOLEAN
  /\ effects \in Seq(Nat)

(* No retry repeats an effect: a call changes something at most once, and  *)
(* a call that was tried again is a read that failed as unavailable each   *)
(* time but the last, within the ceiling (FAILURE-PROVENANCE.md, "Retry    *)
(* rule").                                                                 *)
RetriesHarmless ==
  /\ \A c \in 1..Len(effects) : effects[c] <= 1
  /\ \A r \in 1..Len(records) : records[r].attempt > 1 =>
       /\ calls[records[r].call].tool \in Idempotent
       /\ records[r].attempt <= Ceiling
       /\ records[r - 1].call = records[r].call
       /\ records[r - 1].class = "Unavailable"

(* A record that says NoEffect is right about its attempt: a call all of   *)
(* whose records say so, and that did not succeed, changed nothing.        *)
NoEffectRecordIsTrue ==
  \A c \in 1..Len(calls) :
    /\ ~calls[c].success
    /\ \A r \in 1..Len(records) :
         records[r].call = c => records[r].certainty = "NoEffect"
    => effects[c] = 0

(* FAILURE-PROVENANCE.md: ApprovalPending (and a cancel) "stops the run:   *)
(* the later calls of that turn are not run and the model is not asked     *)
(* again"; so a halting record is the last one, of the last call begun.    *)
HaltIsLast ==
  \A r \in 1..Len(records) : records[r].class \in {"ApprovalPending", "Cancelled"} =>
    /\ r = Len(records)
    /\ records[r].call = Len(calls) /\ Len(effects) = Len(calls)
    /\ pc = "done" /\ ~completed

(* Causes chain exactly the unbroken run of failed calls before a failure: *)
(* the root is a record of the first of them, and a success in between     *)
(* breaks the chain.                                                       *)
RootOfStreak ==
  \A r \in 1..Len(records) :
    LET c == records[r].call
        first == records[RootCause(r)].call
    IN  c <= Len(calls) =>
          /\ first <= c
          /\ \A k \in first..c : k = c \/ ~calls[k].success
          /\ first = 1 \/ calls[first - 1].success

(* A pending approval is never reported as anything else, nor anything     *)
(* else as a pending approval; Completed is only said of a run in which no *)
(* call failed.                                                            *)
OutcomeKeepsApproval ==
  pc \in {"done", "error"} =>
    /\ Outcome.kind = "ApprovalPending" <=>
         \E r \in 1..Len(records) : records[r].class = "ApprovalPending"
    /\ Outcome.kind = "Completed" => \A c \in 1..Len(calls) : calls[c].success

(* A cancelled task returns, even if a tool never does, as long as the     *)
(* model answers.                                                          *)
CancelEndsTask == cancelled ~> pc \in {"done", "error"}

(* workflow.rs:990, of a run that used up its turns: "tools may have       *)
(* acted, so claim no certainty". When its last failed call had no effect  *)
(* the outcome claims that for the whole task, whatever other calls did.   *)
OutOfTurnsClaimsNoCertainty ==
  pc = "done" /\ ~completed /\ turn = MaxTurns
    /\ (\A r \in 1..Len(records) :
          records[r].class \notin {"ApprovalPending", "Cancelled"})
    /\ (\E c \in 1..Len(effects) : effects[c] > 0)
    => Outcome.certainty # "NoEffect"

=============================================================================
