--------------------------- MODULE ContextWindow ---------------------------
(***************************************************************************)
(* The messages AgentEngine::execute_task (src/src/agent.rs) keeps for the *)
(* model: how they grow with the turns and how prune_context_window trims  *)
(* them to the token budget before each inference.                         *)
(*                                                                         *)
(* A message is known by its role, its size in words, the sizes of the     *)
(* tool calls it asks for, and the turn (and call) it belongs to; what it  *)
(* says is left out. What the tools do, retries and failure records are in *)
(* AgentLoop.                                                              *)
(***************************************************************************)
EXTENDS Naturals, Sequences, SequencesExt

CONSTANTS
  Budget,        \* DEFAULT_MAX_CONTEXT_TOKENS
  SystemWords, GoalWords,   \* sizes of the first two messages
  TextWords,     \* sizes of the text of an assistant message
  CallWords,     \* sizes of a serialised tool call
  OutputWords,   \* sizes of a tool's output
  MaxCalls,      \* bound on the tool calls in one answer of the model
  MaxTurns       \* max_turns of execute_task

ASSUME WindowAssumption ==
  /\ Budget \in Nat /\ SystemWords \in Nat /\ GoalWords \in Nat
  /\ TextWords \subseteq Nat /\ CallWords \subseteq Nat /\ OutputWords \subseteq Nat
  /\ MaxCalls \in Nat /\ MaxTurns \in Nat

VARIABLES
  pc, turn,
  messages,    \* what the model is sent
  todo,        \* calls of this turn that are not answered yet
  history,     \* history: every message of the run
  dropped      \* history: how many of them were removed

vars == <<pc, turn, messages, todo, history, dropped>>

Message(role, words, calls, t, nr) ==
  [role |-> role, words |-> words, calls |-> calls, turn |-> t, nr |-> nr]

Init ==
  /\ pc = "turn" /\ turn = 0 /\ todo = <<>>
  /\ messages = << Message("system", SystemWords, <<>>, 0, 0),
                   Message("user", GoalWords, <<>>, 0, 0) >>
  /\ history = messages /\ dropped = 0

-----------------------------------------------------------------------------
(* estimate_tokens: four thirds of the words, and four for each text.      *)
Tokens(words) == (words * 4) \div 3 + 4

Sum(s) == FoldLeft(LAMBDA sum, n : sum + n, 0, s)

Weight(m) ==
  Tokens(m.words) + Sum([i \in 1..Len(m.calls) |-> Tokens(m.calls[i])])

Estimate(ms) == Sum([i \in 1..Len(ms) |-> Weight(ms[i])])

(* The ...Variant definitions here and below are plausible slips in the    *)
(* definition that follows them; with one in place a property must fail.   *)
TooLongVariantEqual(ms) == Len(ms) > 2 /\ Estimate(ms) >= Budget
TooLong(ms) == Len(ms) > 2 /\ Estimate(ms) > Budget

-----------------------------------------------------------------------------
StartTurn ==
  /\ pc = "turn" /\ turn < MaxTurns
  /\ turn' = turn + 1
  /\ pc' = "prune"
  /\ UNCHANGED <<messages, todo, history, dropped>>

OutOfTurns ==
  /\ pc = "turn" /\ turn = MaxTurns
  /\ pc' = "done"
  /\ UNCHANGED <<turn, messages, todo, history, dropped>>

(* The goal goes instead of the message after it.                          *)
PruneVariant ==
  /\ pc = "prune" /\ TooLong(messages)
  /\ messages' = RemoveAt(messages, 2)
  /\ dropped' = dropped + 1
  /\ UNCHANGED <<pc, turn, todo, history>>

Prune ==
  /\ pc = "prune" /\ TooLong(messages)
  /\ messages' = RemoveAt(messages, 3)
  /\ dropped' = dropped + 1
  /\ UNCHANGED <<pc, turn, todo, history>>

Send ==
  /\ pc = "prune" /\ ~TooLong(messages)
  /\ pc' = "infer"
  /\ UNCHANGED <<turn, messages, todo, history, dropped>>

Push(m) ==
  /\ messages' = Append(messages, m)
  /\ history' = Append(history, m)
  /\ UNCHANGED dropped

AskForTools ==
  /\ pc = "infer"
  /\ \E words \in TextWords, n \in 1..MaxCalls : \E calls \in [1..n -> CallWords] :
       /\ Push(Message("assistant", words, calls, turn, 0))
       /\ todo' = [i \in 1..n |-> i]
  /\ pc' = "calls"
  /\ UNCHANGED turn

(* The final text, or an inference error: nothing is added.                *)
Finish ==
  /\ pc = "infer"
  /\ pc' = "done"
  /\ UNCHANGED <<turn, messages, todo, history, dropped>>

(* A pending approval or a cancel ends the run with this answer; otherwise *)
(* the next call, or the next turn, follows. One variant only leaves the turn, *)
(* the other never does.                                                   *)
AfterAnswerVariantTurn(halts) ==
  pc' = IF halts \/ todo' = <<>> THEN "turn" ELSE "calls"

AfterAnswer(halts) ==
  pc' = IF halts THEN "done" ELSE IF todo' = <<>> THEN "turn" ELSE "calls"

Answer(halts) ==
  /\ pc = "calls"
  /\ \E words \in OutputWords : Push(Message("tool", words, <<>>, turn, Head(todo)))
  /\ todo' = Tail(todo)
  /\ AfterAnswer(halts)
  /\ UNCHANGED turn

Returned == pc = "done" /\ UNCHANGED vars

Next ==
  \/ StartTurn \/ OutOfTurns \/ Prune \/ Send \/ AskForTools \/ Finish
  \/ (\E halts \in BOOLEAN : Answer(halts)) \/ Returned

Spec == Init /\ [][Next]_vars

-----------------------------------------------------------------------------
(* Properties.                                                             *)

Messages == [role : {"system", "user", "assistant", "tool"}, words : Nat,
             calls : Seq(Nat), turn : Nat, nr : Nat]

(* Every variable stays within its type, a turn in progress has a call to  *)
(* answer, and the first two messages are there.                           *)
TypeOK ==
  /\ pc \in {"turn", "prune", "infer", "calls", "done"}
  /\ turn \in Nat
  /\ todo \in Seq(Nat) /\ (pc = "calls" => todo # <<>>)
  /\ history \in Seq(Messages)
  /\ dropped \in Nat /\ dropped + 2 <= Len(history)
  /\ messages \in Seq(Messages)

(* The messages ms with the first d after the goal removed.                *)
Window(ms, d) == SubSeq(ms, 1, 2) \o SubSeq(ms, 3 + d, Len(ms))

(* The model always sees the system prompt, the goal, and an unbroken tail *)
(* of the conversation in its order: removals interleaved with new turns   *)
(* leave no hole and never take the goal.                                  *)
WindowIsTail == messages = Window(history, dropped)

(* What is sent is the longest tail that fits, or the prompt and the goal  *)
(* alone: nothing is removed that would have fitted, even when it was      *)
(* removed many turns ago.                                                 *)
LongestTailSent ==
  /\ \A d \in 0..(dropped - 1) : Estimate(Window(history, d)) > Budget
  /\ pc = "infer" => Estimate(messages) <= Budget \/ Len(messages) = 2

(* Every request the model is shown is followed by the answers to all its  *)
(* calls, in their order, as the chat protocol wants: a turn that was cut  *)
(* short is never sent back.                                               *)
RequestsAnswered ==
  pc = "infer" =>
    \A i \in 1..Len(messages) : \A k \in 1..Len(messages[i].calls) :
      /\ i + k <= Len(messages)
      /\ messages[i + k].role = "tool"
      /\ messages[i + k].turn = messages[i].turn /\ messages[i + k].nr = k

(* agent.rs:189, "prune oldest historical turn": a turn is an assistant    *)
(* message and the answers to its calls, so an answer is only shown with   *)
(* its request. The loop removes one message at a time.                    *)
WholeTurnsPruned ==
  pc = "infer" =>
    \A i \in 1..Len(messages) : messages[i].role = "tool" =>
      \E j \in 1..(i - 1) :
        messages[j].role = "assistant" /\ messages[j].turn = messages[i].turn

=============================================================================
