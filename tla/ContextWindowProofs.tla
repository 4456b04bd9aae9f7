------------------------ MODULE ContextWindowProofs ------------------------
(***************************************************************************)
(* What the model is shown, for every budget and every conversation: the   *)
(* window is always the prompt, the goal and an unbroken tail.             *)
(***************************************************************************)
EXTENDS ContextWindow, SequenceTheorems, WellFoundedInduction, TLAPS

-----------------------------------------------------------------------------
(* The length and the members of a window.                                 *)
LEMMA WindowMembers ==
  ASSUME NEW ms \in Seq(Messages), NEW d \in Nat, d + 2 <= Len(ms)
  PROVE  /\ Window(ms, d) \in Seq(Messages)
         /\ Len(Window(ms, d)) = Len(ms) - d
         /\ \A i \in 1..(Len(ms) - d) :
              Window(ms, d)[i] = IF i <= 2 THEN ms[i] ELSE ms[i + d]
<1> DEFINE front == SubSeq(ms, 1, 2)
           tail == SubSeq(ms, 3 + d, Len(ms))
<1>1. Len(ms) \in Nat /\ \A i \in 1..Len(ms) : ms[i] \in Messages
  BY LenProperties, ElementOfSeq
<1>2. /\ front \in Seq(Messages) /\ Len(front) = 2
      /\ \A i \in 1..2 : front[i] = ms[1 + i - 1]
  <2>1. \A i \in 1..2 : ms[i] \in Messages
    BY <1>1
  <2> QED BY <1>1, <2>1, SubSeqProperties
<1>3. /\ tail \in Seq(Messages) /\ Len(tail) = Len(ms) - d - 2
      /\ \A i \in 1..(Len(ms) - d - 2) : tail[i] = ms[2 + d + i]
  <2>1. \A i \in (3 + d)..Len(ms) : ms[i] \in Messages
    BY <1>1
  <2>2. /\ tail \in Seq(Messages)
        /\ Len(tail) = IF 3 + d <= Len(ms) THEN Len(ms) - (3 + d) + 1 ELSE 0
        /\ \A i \in 1..(Len(ms) - (3 + d) + 1) : tail[i] = ms[(3 + d) + i - 1]
    BY <1>1, <2>1, SubSeqProperties
  <2>3. \A i \in 1..(Len(ms) - d - 2) : (3 + d) + i - 1 = 2 + d + i
    BY <1>1
  <2>4. Len(ms) - (3 + d) + 1 = Len(ms) - d - 2
    BY <1>1
  <2>5. 3 + d <= Len(ms) => Len(tail) = Len(ms) - d - 2
    BY <2>2, <2>4, Zenon
  <2>6. ~(3 + d <= Len(ms)) => Len(tail) = 0 /\ Len(ms) - d - 2 = 0
    BY <1>1, <2>2
  <2> HIDE DEF tail
  <2>7. ASSUME NEW i \in 1..(Len(ms) - d - 2)
        PROVE  tail[i] = ms[2 + d + i]
    <3>1. tail[i] = ms[(3 + d) + i - 1]
      BY <2>2, <2>4, Zenon
    <3> QED BY <2>3, <3>1, Zenon
  <2> QED BY <2>2, <2>5, <2>6, <2>7, Zenon
<1>4. /\ front \o tail \in Seq(Messages)
      /\ Len(front \o tail) = Len(front) + Len(tail)
      /\ \A i \in 1..(Len(front) + Len(tail)) : (front \o tail)[i] =
           IF i <= Len(front) THEN front[i] ELSE tail[i - Len(front)]
  BY <1>2, <1>3, ConcatProperties
<1>5. ASSUME NEW i \in 1..(Len(ms) - d)
      PROVE  (front \o tail)[i] = IF i <= 2 THEN ms[i] ELSE ms[i + d]
  <2>1. CASE i <= 2
    BY <1>1, <1>2, <1>3, <1>4, <2>1
  <2>2. CASE ~(i <= 2)
    <3>1. i - 2 \in 1..(Len(ms) - d - 2) /\ 2 + d + (i - 2) = i + d
      BY <1>1, <2>2
    <3>2. (front \o tail)[i] = tail[i - 2]
      BY <1>1, <1>2, <1>3, <1>4, <2>2
    <3> QED BY <1>3, <2>2, <3>1, <3>2
  <2> QED BY <2>1, <2>2
<1>6. Len(front) + Len(tail) = Len(ms) - d
  BY <1>1, <1>2, <1>3
<1> QED BY <1>4, <1>5, <1>6 DEF Window

(* Removing the third message of a window drops one more.                  *)
LEMMA PruneWindow ==
  ASSUME NEW ms \in Seq(Messages), NEW d \in Nat, d + 2 < Len(ms)
  PROVE  RemoveAt(Window(ms, d), 3) = Window(ms, d + 1)
<1> DEFINE w == Window(ms, d)
           v == Window(ms, d + 1)
<1>1. Len(ms) \in Nat
  BY LenProperties
<1>2. /\ w \in Seq(Messages) /\ Len(w) = Len(ms) - d
      /\ \A i \in 1..(Len(ms) - d) : w[i] = IF i <= 2 THEN ms[i] ELSE ms[i + d]
  BY <1>1, WindowMembers
<1>3. /\ v \in Seq(Messages) /\ Len(v) = Len(ms) - (d + 1)
      /\ \A i \in 1..(Len(ms) - (d + 1)) :
           v[i] = IF i <= 2 THEN ms[i] ELSE ms[i + (d + 1)]
  <2>1. d + 1 \in Nat /\ (d + 1) + 2 <= Len(ms)
    BY <1>1
  <2> HIDE DEF w
  <2> QED BY <2>1, WindowMembers
<1> HIDE DEF w, v
<1>4. RemoveAt(w, 3) = Window(w, 1)
  <2>1. 3 - 1 = 2 /\ 3 + 1 = 4
    OBVIOUS
  <2> QED BY <2>1 DEF RemoveAt, Window
<1>5. /\ Window(w, 1) \in Seq(Messages) /\ Len(Window(w, 1)) = Len(w) - 1
      /\ \A i \in 1..(Len(w) - 1) :
           Window(w, 1)[i] = IF i <= 2 THEN w[i] ELSE w[i + 1]
  <2>1. 1 \in Nat /\ 1 + 2 <= Len(w)
    BY <1>1, <1>2
  <2> QED BY <1>2, <2>1, WindowMembers
<1>6. Len(Window(w, 1)) = Len(v)
  <2>1. (Len(ms) - d) - 1 = Len(ms) - (d + 1)
    BY <1>1
  <2>2. Len(Window(w, 1)) = Len(w) - 1 /\ Len(w) = Len(ms) - d /\ Len(v) = Len(ms) - (d + 1)
    BY <1>2, <1>3, <1>5
  <2> QED BY <2>1, <2>2, Zenon
<1>7. ASSUME NEW i \in 1..Len(v)
      PROVE  Window(w, 1)[i] = v[i]
  <2>1. CASE i <= 2
    BY <1>1, <1>2, <1>3, <1>5, <2>1
  <2>2. CASE ~(i <= 2)
    <3>1. i + 1 \in 1..(Len(ms) - d) /\ ~(i + 1 <= 2) /\ (i + 1) + d = i + (d + 1)
      BY <1>1, <1>3, <2>2
    <3>2. Window(w, 1)[i] = w[i + 1]
      BY <1>1, <1>2, <1>3, <1>5, <2>2
    <3>3. w[i + 1] = ms[i + (d + 1)]
      BY <1>2, <3>1
    <3> QED BY <1>3, <2>2, <3>2, <3>3
  <2> QED BY <2>1, <2>2
<1>8. Window(w, 1) = v
  BY <1>3, <1>5, <1>6, <1>7, SeqEqual
<1> QED BY <1>4, <1>8 DEF w, v

(* A message appended to a window is appended to the whole history.        *)
LEMMA PushWindow ==
  ASSUME NEW ms \in Seq(Messages), NEW d \in Nat, d + 2 <= Len(ms),
         NEW m \in Messages
  PROVE  Append(Window(ms, d), m) = Window(Append(ms, m), d)
<1> DEFINE w == Window(ms, d)
           ns == Append(ms, m)
           v == Window(ns, d)
<1>1. Len(ms) \in Nat
  BY LenProperties
<1>2. /\ w \in Seq(Messages) /\ Len(w) = Len(ms) - d
      /\ \A i \in 1..(Len(ms) - d) : w[i] = IF i <= 2 THEN ms[i] ELSE ms[i + d]
  BY WindowMembers
<1> HIDE DEF w
<1>3. /\ ns \in Seq(Messages) /\ Len(ns) = Len(ms) + 1
      /\ \A i \in 1..Len(ms) : ns[i] = ms[i]
      /\ ns[Len(ms) + 1] = m
  BY AppendProperties
<1> HIDE DEF ns
<1>4. /\ v \in Seq(Messages) /\ Len(v) = Len(ns) - d
      /\ \A i \in 1..(Len(ns) - d) : v[i] = IF i <= 2 THEN ns[i] ELSE ns[i + d]
  <2>1. d + 2 <= Len(ns)
    BY <1>1, <1>3
  <2> QED BY <1>3, <2>1, WindowMembers
<1> HIDE DEF v
<1>5. /\ Append(w, m) \in Seq(Messages) /\ Len(Append(w, m)) = Len(w) + 1
      /\ \A i \in 1..Len(w) : Append(w, m)[i] = w[i]
      /\ Append(w, m)[Len(w) + 1] = m
  <2>1. w \in Seq(Messages)
    BY <1>2
  <2> QED BY <2>1, AppendProperties
<1>6. Len(Append(w, m)) = Len(v)
  BY <1>1, <1>2, <1>3, <1>4, <1>5
<1>7. ASSUME NEW i \in 1..Len(v)
      PROVE  Append(w, m)[i] = v[i]
  <2>1. CASE i = Len(w) + 1
    <3>1. ~(i <= 2) /\ i + d = Len(ms) + 1 /\ i \in 1..(Len(ns) - d)
      BY <1>1, <1>2, <1>3, <2>1
    <3>2. v[i] = ns[i + d]
      BY <1>4, <3>1
    <3> QED BY <1>3, <1>5, <2>1, <3>1, <3>2
  <2>2. CASE i # Len(w) + 1
    <3>1. i \in 1..Len(w) /\ i \in 1..(Len(ns) - d)
      <4>1. Len(w) \in Nat /\ Len(v) = Len(w) + 1 /\ Len(v) = Len(ns) - d
        BY <1>1, <1>2, <1>3, <1>4
      <4> QED BY <2>2, <4>1
    <3>2. IF i <= 2 THEN i \in 1..Len(ms) ELSE i + d \in 1..Len(ms)
      BY <1>1, <1>2, <3>1
    <3>3. Append(w, m)[i] = w[i] /\ w[i] = (IF i <= 2 THEN ms[i] ELSE ms[i + d])
      BY <1>2, <1>5, <3>1
    <3>4. v[i] = IF i <= 2 THEN ns[i] ELSE ns[i + d]
      BY <1>4, <3>1
    <3> QED BY <1>3, <3>2, <3>3, <3>4
  <2> QED BY <2>1, <2>2
<1>8. Append(w, m) = v
  BY <1>4, <1>5, <1>6, <1>7, SeqEqual
<1> QED BY <1>8 DEF w, v, ns

-----------------------------------------------------------------------------
WindowInv == TypeOK /\ WindowIsTail

LEMMA InitWindow == Init => WindowInv
<1> SUFFICES ASSUME Init PROVE WindowInv
  OBVIOUS
<1>1. messages \in Seq(Messages) /\ Len(messages) = 2
  <2>1. /\ Message("system", SystemWords, <<>>, 0, 0) \in Messages
        /\ Message("user", GoalWords, <<>>, 0, 0) \in Messages
    BY WindowAssumption DEF Message, Messages
  <2> QED BY <2>1 DEF Init
<1>2. TypeOK
  BY <1>1 DEF Init, TypeOK
<1>3. WindowIsTail
  <2>1. /\ Window(history, 0) \in Seq(Messages) /\ Len(Window(history, 0)) = 2
        /\ \A i \in 1..2 : Window(history, 0)[i] = IF i <= 2 THEN history[i] ELSE history[i + 0]
    <3>1. history = messages /\ 0 \in Nat /\ 0 + 2 <= Len(messages)
      BY <1>1 DEF Init
    <3>2. /\ Window(messages, 0) \in Seq(Messages)
          /\ Len(Window(messages, 0)) = Len(messages) - 0
          /\ \A i \in 1..(Len(messages) - 0) : Window(messages, 0)[i] =
               IF i <= 2 THEN messages[i] ELSE messages[i + 0]
      BY <1>1, <3>1, WindowMembers
    <3>3. Len(messages) - 0 = 2
      BY <1>1
    <3> QED BY <3>1, <3>2, <3>3
  <2>2. \A i \in 1..2 : Window(history, 0)[i] = history[i]
    BY <2>1
  <2>3. Window(history, 0) = history
    BY <1>1, <2>1, <2>2, SeqEqual DEF Init
  <2> QED BY <2>3 DEF Init, WindowIsTail
<1> QED BY <1>2, <1>3 DEF WindowInv

(* Pushing a message keeps the window and its types.                       *)
LEMMA PushKeeps ==
  ASSUME WindowInv, NEW m \in Messages, Push(m)
  PROVE  /\ WindowIsTail'
         /\ history' \in Seq(Messages) /\ messages' \in Seq(Messages)
         /\ dropped' \in Nat /\ dropped' + 2 <= Len(history')
<1>1. history' \in Seq(Messages) /\ Len(history') = Len(history) + 1
  BY AppendProperties DEF WindowInv, TypeOK, Push
<1>2. messages' \in Seq(Messages)
  BY AppendProperties DEF WindowInv, TypeOK, Push
<1>3. messages' = Window(history', dropped')
  <2>1. Append(Window(history, dropped), m) = Window(Append(history, m), dropped)
    BY PushWindow DEF WindowInv, TypeOK
  <2> QED BY <2>1 DEF WindowInv, WindowIsTail, Push
<1>4. dropped' \in Nat /\ dropped' + 2 <= Len(history')
  <2>1. Len(history) \in Nat
    BY LenProperties DEF WindowInv, TypeOK
  <2> QED BY <1>1, <2>1 DEF WindowInv, TypeOK, Push
<1> QED BY <1>1, <1>2, <1>3, <1>4 DEF WindowIsTail

(* The messages the loop pushes: a request with its calls, or an answer.   *)
LEMMA AskPushes ==
  ASSUME WindowInv, AskForTools
  PROVE  \E n \in Nat, m \in Messages :
           /\ n >= 1 /\ Push(m) /\ Len(m.calls) = n /\ m.turn = turn
           /\ todo' = [i \in 1..n |-> i]
<1>1. PICK words \in TextWords, n \in 1..MaxCalls : \E calls \in [1..n -> CallWords] :
        /\ Push(Message("assistant", words, calls, turn, 0))
        /\ todo' = [i \in 1..n |-> i]
  BY DEF AskForTools
<1>2. PICK calls \in [1..n -> CallWords] :
        /\ Push(Message("assistant", words, calls, turn, 0))
        /\ todo' = [i \in 1..n |-> i]
  BY <1>1
<1>3. calls \in Seq(Nat) /\ Len(calls) = n /\ n \in Nat /\ n >= 1
  <2>1. n \in Nat /\ n >= 1
    BY WindowAssumption
  <2>2. \A i \in 1..n : calls[i] \in Nat
    BY WindowAssumption
  <2>3. calls \in [1..n -> Nat]
    BY <2>2
  <2> QED BY <2>1, <2>3
<1>4. Message("assistant", words, calls, turn, 0) \in Messages
  BY <1>3, WindowAssumption DEF Message, Messages, WindowInv, TypeOK
<1> QED BY <1>2, <1>3, <1>4 DEF Message

LEMMA AnswerPushes ==
  ASSUME WindowInv, NEW halts \in BOOLEAN, Answer(halts)
  PROVE  \E m \in Messages :
           /\ Push(m) /\ m.role = "tool" /\ m.turn = turn /\ m.nr = Head(todo)
           /\ m.calls = <<>>
<1>1. PICK words \in OutputWords : Push(Message("tool", words, <<>>, turn, Head(todo)))
  BY DEF Answer
<1>2. todo # <<>> /\ Head(todo) \in Nat
  BY DEF Answer, WindowInv, TypeOK
<1>3. Message("tool", words, <<>>, turn, Head(todo)) \in Messages
  BY <1>2, WindowAssumption DEF Message, Messages, WindowInv, TypeOK
<1> QED BY <1>1, <1>3 DEF Message

LEMMA StepWindow == WindowInv /\ [Next]_vars => WindowInv'
<1> SUFFICES ASSUME WindowInv, [Next]_vars PROVE WindowInv'
  OBVIOUS
<1>1. CASE StartTurn
  BY <1>1 DEF StartTurn, WindowInv, TypeOK, WindowIsTail
<1>2. CASE OutOfTurns
  BY <1>2 DEF OutOfTurns, WindowInv, TypeOK, WindowIsTail
<1>3. CASE Prune
  <2>1. Len(history) \in Nat /\ Len(messages) = Len(history) - dropped
    BY LenProperties, WindowMembers DEF WindowInv, TypeOK, WindowIsTail
  <2>2. dropped + 2 < Len(history)
    BY <1>3, <2>1 DEF Prune, TooLong, WindowInv, TypeOK
  <2>3. messages' = Window(history, dropped + 1)
    BY <1>3, <2>2, PruneWindow DEF Prune, WindowInv, TypeOK, WindowIsTail
  <2>4. dropped + 1 \in Nat /\ (dropped + 1) + 2 <= Len(history)
    BY <2>1, <2>2 DEF WindowInv, TypeOK
  <2>5. messages' \in Seq(Messages)
    BY <2>3, <2>4, WindowMembers DEF WindowInv, TypeOK
  <2> QED BY <1>3, <2>3, <2>4, <2>5 DEF Prune, WindowInv, TypeOK, WindowIsTail
<1>4. CASE Send
  BY <1>4 DEF Send, WindowInv, TypeOK, WindowIsTail
<1>5. CASE AskForTools
  <2>1. PICK n \in Nat, m \in Messages :
          n >= 1 /\ Push(m) /\ todo' = [i \in 1..n |-> i]
    BY <1>5, AskPushes
  <2>2. todo' \in Seq(Nat) /\ todo' # <<>>
    <3>1. [i \in 1..n |-> i] \in [1..n -> Nat]
      OBVIOUS
    <3>2. todo' \in Seq(Nat) /\ Len(todo') = n
      BY <2>1, <3>1
    <3> QED BY <2>1, <3>2
  <2>3. /\ WindowIsTail'
        /\ history' \in Seq(Messages) /\ messages' \in Seq(Messages)
        /\ dropped' \in Nat /\ dropped' + 2 <= Len(history')
    BY <2>1, PushKeeps
  <2> QED BY <1>5, <2>2, <2>3 DEF AskForTools, WindowInv, TypeOK
<1>6. CASE Finish
  BY <1>6 DEF Finish, WindowInv, TypeOK, WindowIsTail
<1>7. ASSUME NEW halts \in BOOLEAN, Answer(halts)
      PROVE  WindowInv'
  <2>1. PICK m \in Messages : Push(m)
    BY <1>7, AnswerPushes
  <2>2. todo' \in Seq(Nat)
    BY <1>7 DEF Answer, WindowInv, TypeOK
  <2>3. /\ WindowIsTail'
        /\ history' \in Seq(Messages) /\ messages' \in Seq(Messages)
        /\ dropped' \in Nat /\ dropped' + 2 <= Len(history')
    BY <2>1, PushKeeps
  <2>4. pc' \in {"turn", "calls", "done"} /\ (pc' = "calls" => todo' # <<>>)
    BY <1>7 DEF Answer, AfterAnswer
  <2> QED BY <1>7, <2>2, <2>3, <2>4 DEF Answer, WindowInv, TypeOK
<1>8. CASE Returned \/ UNCHANGED vars
  BY <1>8 DEF Returned, vars, WindowInv, TypeOK, WindowIsTail
<1> QED
  BY <1>1, <1>2, <1>3, <1>4, <1>5, <1>6, <1>7, <1>8 DEF Next

LEMMA WindowInvariant == Spec => []WindowInv
BY InitWindow, StepWindow, PTL DEF Spec

(* Every reachable state is well typed.                                    *)
THEOREM WindowTyped == Spec => []TypeOK
<1>1. WindowInv => TypeOK
  BY DEF WindowInv
<1> QED BY <1>1, WindowInvariant, PTL

(* For every budget, estimate and conversation the model is shown the      *)
(* prompt, the goal and an unbroken tail of the conversation, in order     *)
(* (prune_context_window, agent.rs 180-194).                               *)
THEOREM GoalAndTailKept == Spec => []WindowIsTail
<1>1. WindowInv => WindowIsTail
  BY DEF WindowInv
<1> QED BY <1>1, WindowInvariant, PTL

-----------------------------------------------------------------------------
(* Requests and answers in the whole history. Calls that have an answer    *)
(* have the right one; all of them do, but those of the turn in progress,  *)
(* or of one that was cut short at the end, whose open calls are in todo.  *)
Answered(ms, i, k) ==
  /\ ms[i + k].role = "tool" /\ ms[i + k].turn = ms[i].turn /\ ms[i + k].nr = k

Complete(i) == i + Len(history[i].calls) <= Len(history)

InProgress(i) ==
  LET n == Len(history[i].calls) IN
  /\ history[i].turn = turn
  /\ Len(todo) <= n /\ Len(history) = i + (n - Len(todo))
  /\ \A j \in 1..Len(todo) : todo[j] = (n - Len(todo)) + j

RepliesInv ==
  /\ \A i \in 1..2 : Len(history[i].calls) = 0
  /\ \A i \in 1..Len(history) : \A k \in 1..Len(history[i].calls) :
       i + k <= Len(history) => Answered(history, i, k)
  /\ pc \in {"turn", "prune", "infer"} => \A i \in 1..Len(history) : Complete(i)
  /\ pc = "calls" =>
       \E i \in 1..Len(history) :
         InProgress(i) /\ \A j \in 1..Len(history) : j # i => Complete(j)

(* What pushing a message does to the history.                             *)
LEMMA PushGrows ==
  ASSUME WindowInv, NEW m \in Messages, Push(m)
  PROVE  /\ Len(history) \in Nat /\ Len(history) >= 2 /\ Len(history') = Len(history) + 1
         /\ \A i \in 1..Len(history) : history'[i] = history[i]
         /\ history'[Len(history) + 1] = m
         /\ \A i \in 1..Len(history) : Len(history[i].calls) \in Nat
<1>1. history \in Seq(Messages) /\ history' = Append(history, m)
  BY DEF WindowInv, TypeOK, Push
<1>2. Len(history) \in Nat /\ Len(history) >= 2
  BY <1>1 DEF WindowInv, TypeOK
<1>3. \A i \in 1..Len(history) : history[i] \in Messages
  BY <1>1, ElementOfSeq
<1>4. \A i \in 1..Len(history) : history[i].calls \in Seq(Nat)
  BY <1>3 DEF Messages
<1> QED BY <1>1, <1>2, <1>4, AppendProperties, LenProperties

LEMMA RepliesInit == Init => RepliesInv
<1> SUFFICES ASSUME Init PROVE RepliesInv
  OBVIOUS
<1>1. /\ Len(history) = 2 /\ \A i \in 1..2 : Len(history[i].calls) = 0
  BY DEF Init, Message
<1>2. \A i \in 1..Len(history) : Complete(i)
  BY <1>1 DEF Complete
<1> QED BY <1>1, <1>2 DEF RepliesInv, Init

(* Steps that add no message.                                              *)
LEMMA RepliesQuiet ==
  ASSUME RepliesInv, UNCHANGED <<todo, history>>,
         pc' = "calls" => pc = "calls" /\ turn' = turn,
         pc' \in {"turn", "prune", "infer"} => pc \in {"turn", "prune", "infer"}
  PROVE  RepliesInv'
<1>1. \A i : Complete(i)' <=> Complete(i)
  BY DEF Complete
<1>2. pc' = "calls" => \A i : InProgress(i)' <=> InProgress(i)
  BY DEF InProgress
<1> QED BY <1>1, <1>2 DEF RepliesInv, Answered

LEMMA RepliesStep == WindowInv /\ RepliesInv /\ [Next]_vars => RepliesInv'
<1> SUFFICES ASSUME WindowInv, RepliesInv, [Next]_vars PROVE RepliesInv'
  OBVIOUS
<1>0. PICK N : N = Len(history)
  OBVIOUS
<1>1. CASE StartTurn \/ OutOfTurns \/ Prune \/ Send \/ Finish
  BY <1>1, RepliesQuiet DEF StartTurn, OutOfTurns, Prune, Send, Finish
<1>2. CASE Returned \/ UNCHANGED vars
  BY <1>2, RepliesQuiet DEF Returned, vars
<1>3. CASE AskForTools
  <2>1. PICK n \in Nat, m \in Messages :
          /\ n >= 1 /\ Push(m) /\ Len(m.calls) = n /\ m.turn = turn
          /\ todo' = [i \in 1..n |-> i]
    BY <1>3, AskPushes
  <2>2. n \in Nat /\ n >= 1 /\ Len(todo') = n /\ \A j \in 1..n : todo'[j] = j
    BY <2>1
  <2>3. /\ N \in Nat /\ N >= 2 /\ Len(history') = N + 1
        /\ \A i \in 1..N : history'[i] = history[i]
        /\ history'[N + 1] = m
        /\ \A i \in 1..N : Len(history[i].calls) \in Nat
    BY <1>0, <2>1, PushGrows
  <2>4. \A i \in 1..N : Complete(i)
    BY <1>0, <1>3 DEF AskForTools, RepliesInv
  <2>5. pc' = "calls" /\ turn' = turn
    BY <1>3 DEF AskForTools
  <2>6. \A i \in 1..2 : Len(history'[i].calls) = 0
    BY <1>0, <2>3 DEF RepliesInv
  <2>7. ASSUME NEW i \in 1..(N + 1), NEW k \in 1..Len(history'[i].calls), i + k <= N + 1
        PROVE  Answered(history', i, k)
    <3>1. i <= N
      <4>1. i = N + 1 => Len(history'[i].calls) = n
        BY <2>1, <2>3
      <4> QED BY <2>2, <2>3, <2>7, <4>1
    <3>2. history'[i] = history[i] /\ k \in 1..Len(history[i].calls) /\ i \in 1..N
      BY <2>3, <3>1
    <3>3. i + k <= N /\ i + k \in 1..N
      BY <1>0, <2>3, <2>4, <3>2 DEF Complete
    <3>4. Answered(history, i, k)
      BY <1>0, <3>2, <3>3 DEF RepliesInv
    <3> QED BY <2>3, <3>2, <3>3, <3>4 DEF Answered
  <2>8. \A j \in 1..(N + 1) : j # N + 1 => Complete(j)'
    <3> SUFFICES ASSUME NEW j \in 1..N PROVE Complete(j)'
      BY <2>3
    <3>1. j + Len(history[j].calls) <= N
      BY <1>0, <2>4 DEF Complete
    <3> QED BY <2>3, <3>1 DEF Complete
  <2>9. InProgress(N + 1)'
    <3>1. history'[N + 1].turn = turn' /\ Len(history'[N + 1].calls) = n
      BY <2>1, <2>3, <2>5
    <3>2. Len(todo') <= n /\ Len(history') = (N + 1) + (n - Len(todo'))
      BY <2>2, <2>3
    <3>3. \A j \in 1..Len(todo') : todo'[j] = (n - Len(todo')) + j
      BY <2>2
    <3> QED BY <3>1, <3>2, <3>3 DEF InProgress
  <2>10. N + 1 \in 1..(N + 1)
    BY <2>3
  <2>11. \A i \in 1..Len(history') : \A k \in 1..Len(history'[i].calls) :
           i + k <= Len(history') => Answered(history', i, k)
    BY <2>3, <2>7
  <2>12. \E i \in 1..Len(history') :
           InProgress(i)' /\ \A j \in 1..Len(history') : j # i => Complete(j)'
    BY <2>3, <2>8, <2>9, <2>10
  <2> QED BY <2>5, <2>6, <2>11, <2>12 DEF RepliesInv, Answered
<1>4. ASSUME NEW halts \in BOOLEAN, Answer(halts)
      PROVE  RepliesInv'
  <2>1. PICK m \in Messages :
          /\ Push(m) /\ m.role = "tool" /\ m.turn = turn /\ m.nr = Head(todo)
          /\ m.calls = <<>>
    BY <1>4, AnswerPushes
  <2>2. /\ todo \in Seq(Nat) /\ todo # <<>> /\ todo' = Tail(todo) /\ turn' = turn
        /\ pc' \in {"turn", "calls", "done"} /\ (pc' = "turn" => todo' = <<>>)
    BY <1>4 DEF Answer, AfterAnswer, WindowInv, TypeOK
  <2>3. /\ Len(todo) \in Nat \ {0} /\ Len(todo') = Len(todo) - 1 /\ Head(todo) = todo[1]
        /\ \A j \in 1..Len(todo') : todo'[j] = todo[j + 1]
    BY <2>2, HeadTailProperties
  <2>4. /\ N \in Nat /\ N >= 2 /\ Len(history') = N + 1
        /\ \A i \in 1..N : history'[i] = history[i]
        /\ history'[N + 1] = m
        /\ \A i \in 1..N : Len(history[i].calls) \in Nat
    BY <1>0, <2>1, PushGrows
  <2>5. PICK a \in 1..N :
          InProgress(a) /\ \A j \in 1..N : j # a => Complete(j)
    BY <1>0, <1>4 DEF Answer, RepliesInv
  <2>0. PICK n : n = Len(history[a].calls)
    OBVIOUS
  <2>6. /\ history[a].turn = turn /\ n \in Nat
        /\ Len(todo) <= n /\ N = a + (n - Len(todo))
        /\ \A j \in 1..Len(todo) : todo[j] = (n - Len(todo)) + j
    BY <1>0, <2>0, <2>4, <2>5 DEF InProgress
  <2>7. /\ N \in Nat /\ n \in Nat /\ a \in Nat /\ Len(todo) \in Nat
        /\ N = a + (n - Len(todo))
    BY <2>3, <2>4, <2>6
  <2>14. \A i \in 1..2 : Len(history'[i].calls) = 0
    BY <1>0, <2>4 DEF RepliesInv
  <2>8. ASSUME NEW i \in 1..(N + 1), NEW k \in 1..Len(history'[i].calls), i + k <= N + 1
        PROVE  Answered(history', i, k)
    <3>1. i <= N
      <4>1. i = N + 1 => Len(history'[i].calls) = 0
        BY <2>1, <2>4
      <4> QED BY <2>4, <4>1
    <3>2. history'[i] = history[i] /\ k \in 1..Len(history[i].calls) /\ i \in 1..N
      BY <2>4, <3>1
    <3>3. CASE i + k <= N
      <4>1. Answered(history, i, k)
        BY <1>0, <3>2, <3>3 DEF RepliesInv
      <4>2. i + k \in 1..N
        BY <2>4, <3>2, <3>3
      <4> QED BY <2>4, <3>2, <4>1, <4>2 DEF Answered
    <3>4. CASE i + k = N + 1
      <4>1. i = a
        <5>1. Complete(i) => FALSE
          BY <1>0, <2>4, <3>2, <3>4 DEF Complete
        <5> QED BY <2>5, <3>2, <5>1
      <4>2. k = (n - Len(todo)) + 1 /\ Head(todo) = k
        <5>1. a + k = N + 1 /\ k \in Nat
          BY <2>4, <3>2, <3>4, <4>1
        <5>2. Head(todo) = (n - Len(todo)) + 1
          BY <2>3, <2>6
        <5>3. k = (n - Len(todo)) + 1
          BY <2>7, <5>1
        <5> QED BY <5>2, <5>3
      <4> QED BY <2>1, <2>4, <2>6, <3>2, <3>4, <4>1, <4>2 DEF Answered
    <3> QED BY <2>4, <2>8, <3>2, <3>3, <3>4
  <2>15. \A i \in 1..Len(history') : \A k \in 1..Len(history'[i].calls) :
           i + k <= Len(history') => Answered(history', i, k)
    BY <2>4, <2>8
  <2>9. \A j \in 1..(N + 1) : j # a => Complete(j)'
    <3> SUFFICES ASSUME NEW j \in 1..(N + 1), j # a PROVE Complete(j)'
      OBVIOUS
    <3>1. CASE j = N + 1
      <4>1. Len(history'[j].calls) = 0
        BY <2>1, <2>4, <3>1
      <4>2. j + 0 <= Len(history')
        BY <2>4, <3>1
      <4> QED BY <4>1, <4>2 DEF Complete
    <3>2. CASE j # N + 1
      <4>1. j \in 1..N
        BY <2>4, <3>2
      <4>2. j + Len(history[j].calls) <= N
        BY <1>0, <2>5, <4>1 DEF Complete
      <4> QED BY <2>4, <4>1, <4>2 DEF Complete
    <3> QED BY <3>1, <3>2
  <2>10. history'[a] = history[a] /\ a \in 1..(N + 1)
    BY <2>4
  <2>11. CASE pc' = "calls"
    <3>1. InProgress(a)'
      <4>1. /\ Len(todo') <= n /\ N + 1 = a + (n - Len(todo'))
        BY <2>3, <2>4, <2>6
      <4>2. \A j \in 1..Len(todo') : todo'[j] = (n - Len(todo')) + j
        <5> SUFFICES ASSUME NEW j \in 1..Len(todo')
                     PROVE  todo'[j] = (n - Len(todo')) + j
          OBVIOUS
        <5>1. j + 1 \in 1..Len(todo) /\ j \in Nat
          BY <2>3
        <5>2. todo'[j] = (n - Len(todo)) + (j + 1)
          BY <2>3, <2>6, <5>1
        <5> QED BY <2>3, <2>6, <5>1, <5>2
      <4> QED BY <2>0, <2>2, <2>4, <2>6, <2>10, <4>1, <4>2 DEF InProgress
    <3> QED BY <2>4, <2>14, <2>15, <2>9, <2>10, <2>11, <3>1 DEF RepliesInv, Answered
  <2>12. CASE pc' = "turn"
    <3>1. Len(todo) = 1
      <4>1. Len(todo') = 0
        BY <2>2, <2>12
      <4> QED BY <2>3, <4>1
    <3>2. N + 1 = a + n
      BY <2>7, <3>1
    <3>3. Complete(a)'
      BY <2>0, <2>4, <2>6, <2>10, <3>2 DEF Complete
    <3> QED BY <2>4, <2>14, <2>15, <2>9, <2>12, <3>3 DEF RepliesInv, Answered
  <2>13. CASE pc' = "done"
    BY <2>4, <2>14, <2>15, <2>13 DEF RepliesInv, Answered
  <2> QED BY <2>2, <2>11, <2>12, <2>13
<1> QED BY <1>1, <1>2, <1>3, <1>4 DEF Next

LEMMA RepliesInvariant == Spec => []RepliesInv
<1>1. WindowInv /\ RepliesInv /\ [Next]_vars => RepliesInv'
  BY RepliesStep
<1> QED BY RepliesInit, <1>1, WindowInvariant, PTL DEF Spec

(* Every request the model is shown comes with the answers to all of its   *)
(* calls in their order: whatever was pruned and however turns ended.      *)
THEOREM RequestsComeWithAnswers == Spec => []RequestsAnswered
<1>1. WindowInv /\ RepliesInv => RequestsAnswered
  <2> SUFFICES ASSUME WindowInv, RepliesInv, pc = "infer",
                      NEW i \in 1..Len(messages), NEW k \in 1..Len(messages[i].calls)
               PROVE  i + k <= Len(messages) /\ Answered(messages, i, k)
    BY DEF RequestsAnswered, Answered
  <2> DEFINE N == Len(history)
             at(j) == IF j <= 2 THEN j ELSE j + dropped
  <2>1. /\ N \in Nat /\ dropped \in Nat /\ dropped + 2 <= N
        /\ Len(messages) = N - dropped
        /\ \A j \in 1..(N - dropped) : messages[j] = history[at(j)] /\ at(j) \in 1..N
    <3>1. history \in Seq(Messages) /\ dropped \in Nat /\ dropped + 2 <= N
          /\ messages = Window(history, dropped) /\ N \in Nat
      BY LenProperties DEF WindowInv, TypeOK, WindowIsTail
    <3>2. /\ Len(messages) = N - dropped
          /\ \A j \in 1..(N - dropped) :
               messages[j] = IF j <= 2 THEN history[j] ELSE history[j + dropped]
      BY <3>1, WindowMembers
    <3> QED BY <3>1, <3>2
  <2>2. messages[i] = history[at(i)] /\ at(i) \in 1..N
    BY <2>1
  <2>3. i > 2
    <3>1. i <= 2 => Len(messages[i].calls) = 0
      BY <2>2 DEF RepliesInv
    <3> QED BY <2>1, <3>1
  <2>4. at(i) = i + dropped /\ k \in 1..Len(history[i + dropped].calls)
        /\ i + dropped \in 1..N
    BY <2>2, <2>3
  <2>5. (i + dropped) + k <= N
    <3>1. Len(history[i + dropped].calls) \in Nat
          /\ (i + dropped) + Len(history[i + dropped].calls) <= N
      <4>1. history[i + dropped] \in Messages
        BY <2>4, ElementOfSeq DEF WindowInv, TypeOK
      <4>2. history[i + dropped].calls \in Seq(Nat)
        BY <4>1 DEF Messages
      <4>3. Complete(i + dropped)
        BY <2>4 DEF RepliesInv
      <4> QED BY <4>2, <4>3, LenProperties DEF Complete
    <3>2. k \in Nat /\ k <= Len(history[i + dropped].calls)
      BY <2>4, <3>1
    <3>3. i + dropped \in Nat
      BY <2>4
    <3>4. N \in Nat
      BY <2>1
    <3>5. PICK n \in Nat, m \in Nat, c \in Nat :
            n = N /\ m = i + dropped /\ c = Len(history[i + dropped].calls)
      BY <3>1, <3>3, <3>4, Zenon
    <3>6. m + c <= n /\ k <= c
      BY <3>1, <3>2, <3>5, Zenon
    <3>7. m + k <= n
      BY <3>2, <3>5, <3>6
    <3> QED BY <3>5, <3>7, Zenon
  <2>6. Answered(history, i + dropped, k)
    BY <2>4, <2>5 DEF RepliesInv
  <2>7. i + k \in 1..(N - dropped) /\ ~(i + k <= 2) /\ (i + k) + dropped = (i + dropped) + k
    BY <2>1, <2>3, <2>5
  <2>8. messages[i + k] = history[(i + dropped) + k]
    BY <2>1, <2>7
  <2>9. i + k <= Len(messages)
    BY <2>1, <2>7
  <2>10. messages[i] = history[i + dropped]
    BY <2>2, <2>4
  <2>11. Answered(messages, i, k)
    BY <2>6, <2>8, <2>10, Zenon DEF Answered
  <2> QED BY <2>9, <2>11
<1> QED BY <1>1, WindowInvariant, RepliesInvariant, PTL

-----------------------------------------------------------------------------
(* What is true of 0 and kept from each number to the next is true up to N. *)
LEMMA UpTo ==
  ASSUME NEW N \in Nat, NEW S, 0 \in S, \A n \in 1..N : n - 1 \in S => n \in S
  PROVE  0..N \subseteq S
<1> DEFINE R == {ss \in Nat \X Nat : ss[1] < ss[2]}
           Bad == {n \in 0..N : n \notin S}
<1>1. IsWellFoundedOn(R, Nat)
  BY NatLessThanWellFounded, Zenon DEF OpToRel
<1>2. SUFFICES ASSUME Bad # {} PROVE FALSE
  OBVIOUS
<1>3. PICK m \in Bad : \A n \in Bad : <<n, m>> \notin R
  <2>1. Bad \subseteq Nat
    OBVIOUS
  <2> HIDE DEF R, Bad
  <2> QED BY <1>1, <1>2, <2>1, WFMin
<1>4. m \in 1..N
  BY <1>3
<1>5. m - 1 \in 0..N /\ <<m - 1, m>> \in R
  BY <1>4
<1>6. m - 1 \in S
  BY <1>3, <1>5
<1> QED BY <1>3, <1>4, <1>6

(* Sums: a fold from the left adds one element of the sequence at a time.  *)
LEMMA SumOfPrefixes ==
  ASSUME NEW s \in Seq(Nat)
  PROVE  \E p : /\ p[0] = 0 /\ Sum(s) = p[Len(s)]
                /\ \A m \in 1..Len(s) : p[m] = p[m - 1] + s[m]
<1> DEFINE IsFold(it, n) ==
             it = [t \in SUBSET (1..n) |->
                     IF t = {} THEN 0 ELSE it[t \ {Max(t)}] + s[Max(t)]]
           N == Len(s)
           S == {n \in 0..N : \E it : IsFold(it, n)}
           fold == CHOOSE it : IsFold(it, N)
<1>1. N \in Nat /\ DOMAIN s = 1..N
  BY LenProperties
<1>2. ASSUME NEW n \in 1..N, NEW t \in SUBSET (1..n), n \in t PROVE Max(t) = n
  <2>1. \A y \in t : y \in Nat /\ n >= y
    BY <1>1
  <2>2. Max(t) \in t /\ \A y \in t : Max(t) >= y
    <3>1. \E x \in t : \A y \in t : x >= y
      BY <1>2, <2>1
    <3> QED BY <3>1 DEF Max
  <2>3. n \in Nat /\ Max(t) \in Nat /\ n >= Max(t) /\ Max(t) >= n
    BY <1>1, <1>2, <2>1, <2>2
  <2> QED BY <2>3
<1>3. 0 \in S
  <2>1. IsFold([t \in SUBSET (1..0) |-> 0], 0)
    OBVIOUS
  <2> HIDE DEF IsFold
  <2> QED BY <1>1, <2>1
<1>4. ASSUME NEW n \in 1..N, n - 1 \in S PROVE n \in S
  <2>1. PICK w : IsFold(w, n - 1)
    <3> HIDE DEF IsFold
    <3> QED BY <1>4
  <2> DEFINE v == [t \in SUBSET (1..n) |-> IF n \in t THEN w[t \ {n}] + s[n] ELSE w[t]]
  <2>2. ASSUME NEW t \in SUBSET (1..n)
        PROVE  v[t] = IF t = {} THEN 0 ELSE v[t \ {Max(t)}] + s[Max(t)]
    <3>1. CASE n \in t
      <4>1. t # {} /\ Max(t) = n /\ t \ {n} \in SUBSET (1..n) /\ n \notin t \ {n}
        BY <1>2, <3>1
      <4>2. v[t] = w[t \ {n}] + s[n] /\ v[t \ {n}] = w[t \ {n}]
        BY <3>1, <4>1
      <4> HIDE DEF v
      <4> QED BY <4>1, <4>2
    <3>2. CASE n \notin t
      <4>1. t \in SUBSET (1..(n - 1)) /\ t \ {Max(t)} \in SUBSET (1..n)
            /\ n \notin t \ {Max(t)}
        <5>1. \A y \in t : y \in 1..(n - 1)
          BY <1>1, <3>2
        <5> QED BY <3>2, <5>1
      <4>2. v[t] = w[t] /\ v[t \ {Max(t)}] = w[t \ {Max(t)}]
        BY <3>2, <4>1
      <4>3. w[t] = IF t = {} THEN 0 ELSE w[t \ {Max(t)}] + s[Max(t)]
        BY <2>1, <4>1
      <4> HIDE DEF v
      <4> QED BY <4>2, <4>3
    <3> QED BY <3>1, <3>2
  <2>3. IsFold(v, n)
    <3>1. v = [t \in SUBSET (1..n) |-> v[t]]
      OBVIOUS
    <3> HIDE DEF v
    <3> QED BY <2>2, <3>1, Zenon
  <2>4. n \in 0..N
    BY <1>1
  <2> HIDE DEF IsFold, v
  <2> QED BY <2>3, <2>4
<1>5. N \in S
  <2>1. 0..N \subseteq S
    <3> HIDE DEF S, N
    <3> QED BY <1>1, <1>3, <1>4, UpTo
  <2>2. N \in 0..N
    BY <1>1
  <2> HIDE DEF S
  <2> QED BY <2>1, <2>2
<1>6. IsFold(fold, N)
  <2> HIDE DEF IsFold
  <2> QED BY <1>5
<1>7. Sum(s) = fold[1..N]
  <2>1. Sum(s) = (CHOOSE it : it = [t \in SUBSET (DOMAIN s) |->
                    IF t = {} THEN 0 ELSE it[t \ {Max(t)}] + s[Max(t)]])[DOMAIN s]
    BY Zenon DEF Sum, FoldLeft, MapThenFoldSet
  <2> QED BY <1>1, <2>1
<1> DEFINE p == [m \in 0..N |-> fold[1..m]]
<1> HIDE DEF fold
<1>8. p[0] = 0 /\ p[N] = Sum(s)
  BY <1>1, <1>6, <1>7
<1>9. ASSUME NEW m \in 1..N PROVE p[m] = p[m - 1] + s[m]
  <2>1. 1..m \in SUBSET (1..N) /\ m \in 1..m /\ (1..m) \ {m} = 1..(m - 1) /\ 1..m # {}
    <3>1. m \in Nat /\ m >= 1 /\ m <= N
      BY <1>1
    <3>2. \A y \in 1..m : y \in 1..N /\ (y # m => y \in 1..(m - 1))
      BY <1>1, <3>1
    <3>3. \A y \in 1..(m - 1) : y \in 1..m /\ y # m
      BY <3>1
    <3>4. m \in 1..m
      BY <3>1
    <3>5. (1..m) \ {m} = 1..(m - 1)
      BY <3>2, <3>3, Zenon
    <3> QED BY <3>2, <3>4, <3>5, Zenon
  <2>2. Max(1..m) = m
    BY <1>2, <2>1
  <2>3. fold[1..m] = fold[1..(m - 1)] + s[m]
    BY <1>6, <2>1, <2>2
  <2> QED BY <1>1, <2>3
<1> QED BY <1>8, <1>9

(* A sum is a number, and one more element adds itself to it.              *)
LEMMA SumOfAppend ==
  ASSUME NEW s \in Seq(Nat), NEW x \in Nat
  PROVE  Sum(s) \in Nat /\ Sum(Append(s, x)) = Sum(s) + x
<1> DEFINE a == Append(s, x)
<1>1. /\ a \in Seq(Nat) /\ Len(a) = Len(s) + 1 /\ Len(s) \in Nat
      /\ a[Len(s) + 1] = x /\ \A m \in 1..Len(s) : a[m] = s[m] /\ s[m] \in Nat
  BY AppendProperties, ElementOfSeq
<1> HIDE DEF a
<1>2. PICK p : /\ p[0] = 0 /\ Sum(s) = p[Len(s)]
               /\ \A m \in 1..Len(s) : p[m] = p[m - 1] + s[m]
  BY SumOfPrefixes
<1>3. PICK q : /\ q[0] = 0 /\ Sum(a) = q[Len(a)]
               /\ \A m \in 1..Len(a) : q[m] = q[m - 1] + a[m]
  BY <1>1, SumOfPrefixes
<1> DEFINE S == {m \in 0..Len(s) : p[m] \in Nat /\ q[m] = p[m]}
<1>4. 0..Len(s) \subseteq S
  <2>1. 0 \in S
    BY <1>1, <1>2, <1>3
  <2>2. ASSUME NEW m \in 1..Len(s), m - 1 \in S PROVE m \in S
    BY <1>1, <1>2, <1>3, <2>2
  <2> HIDE DEF S
  <2> QED BY <1>1, <2>1, <2>2, UpTo
<1>5. Len(s) \in S
  BY <1>1, <1>4
<1>6. q[Len(a)] = q[Len(s)] + x
  <2>1. Len(a) \in 1..Len(a) /\ Len(a) - 1 = Len(s)
    BY <1>1
  <2> QED BY <1>1, <1>3, <2>1
<1> QED BY <1>2, <1>3, <1>5, <1>6 DEF a

LEMMA WeightIsNat == ASSUME NEW m \in Messages PROVE Weight(m) \in Nat
<1>1. m.words \in Nat /\ m.calls \in Seq(Nat)
  BY DEF Messages
<1>2. \A w \in Nat : Tokens(w) \in Nat
  BY DEF Tokens
<1> DEFINE s == [i \in 1..Len(m.calls) |-> Tokens(m.calls[i])]
<1>3. s \in Seq(Nat)
  <2>1. Len(m.calls) \in Nat /\ \A i \in 1..Len(m.calls) : m.calls[i] \in Nat
    BY <1>1, ElementOfSeq
  <2>2. s \in [1..Len(m.calls) -> Nat]
    BY <1>2, <2>1
  <2> QED BY <2>1, <2>2
<1>4. Sum(s) \in Nat
  <2> HIDE DEF s
  <2> QED BY <1>3, SumOfAppend
<1>5. Weight(m) = Tokens(m.words) + Sum(s)
  BY DEF Weight
<1> HIDE DEF s
<1>6. Tokens(m.words) \in Nat
  BY <1>1, <1>2
<1> QED BY <1>4, <1>5, <1>6

LEMMA EstimateOfAppend ==
  ASSUME NEW ms \in Seq(Messages), NEW m \in Messages
  PROVE  /\ Estimate(ms) \in Nat
         /\ Estimate(Append(ms, m)) = Estimate(ms) + Weight(m)
<1> DEFINE weights == [i \in 1..Len(ms) |-> Weight(ms[i])]
           a == Append(ms, m)
           all == [i \in 1..Len(a) |-> Weight(a[i])]
<1>1. /\ Len(ms) \in Nat /\ \A i \in 1..Len(ms) : ms[i] \in Messages
      /\ a \in Seq(Messages) /\ Len(a) = Len(ms) + 1 /\ a[Len(ms) + 1] = m
      /\ \A i \in 1..Len(ms) : a[i] = ms[i]
  BY LenProperties, ElementOfSeq, AppendProperties
<1> HIDE DEF a
<1>2. weights \in Seq(Nat) /\ Len(weights) = Len(ms)
  <2>1. \A i \in 1..Len(ms) : Weight(ms[i]) \in Nat
    BY <1>1, WeightIsNat
  <2>2. weights \in [1..Len(ms) -> Nat]
    BY <2>1
  <2> QED BY <1>1, <2>2
<1>3. all \in Seq(Nat) /\ Len(all) = Len(ms) + 1
  <2>1. \A i \in 1..Len(a) : Weight(a[i]) \in Nat
    BY <1>1, WeightIsNat, ElementOfSeq
  <2>2. all \in [1..Len(a) -> Nat]
    BY <2>1
  <2> QED BY <1>1, <2>2
<1>4. all = Append(weights, Weight(m))
  <2>1. /\ Weight(m) \in Nat
        /\ \A i \in 1..Len(ms) : all[i] = weights[i]
        /\ all[Len(ms) + 1] = Weight(m)
    BY <1>1, WeightIsNat
  <2> HIDE DEF all, weights
  <2>2. /\ Append(weights, Weight(m)) \in Seq(Nat)
        /\ Len(Append(weights, Weight(m))) = Len(ms) + 1
        /\ \A i \in 1..Len(ms) : Append(weights, Weight(m))[i] = weights[i]
        /\ Append(weights, Weight(m))[Len(ms) + 1] = Weight(m)
    BY <1>2, <2>1, AppendProperties
  <2>3. \A i \in 1..(Len(ms) + 1) : i \in 1..Len(ms) \/ i = Len(ms) + 1
    BY <1>1
  <2>4. \A i \in 1..(Len(ms) + 1) : all[i] = Append(weights, Weight(m))[i]
    BY <2>1, <2>2, <2>3
  <2> QED BY <1>3, <2>2, <2>4, SeqEqual
<1>5. Estimate(ms) = Sum(weights) /\ Estimate(a) = Sum(all)
  BY DEF Estimate
<1>6. Sum(weights) \in Nat /\ Sum(Append(weights, Weight(m))) = Sum(weights) + Weight(m)
  <2> HIDE DEF weights
  <2> QED BY <1>2, WeightIsNat, SumOfAppend
<1> QED BY <1>4, <1>5, <1>6 DEF a

LEMMA EstimateIsNat == ASSUME NEW ms \in Seq(Messages) PROVE Estimate(ms) \in Nat
<1>1. Message("user", 0, <<>>, 0, 0) \in Messages
  BY DEF Message, Messages
<1> QED BY <1>1, EstimateOfAppend

LEMMA LongestStep == WindowInv /\ LongestTailSent /\ [Next]_vars => LongestTailSent'
<1> SUFFICES ASSUME WindowInv, LongestTailSent, [Next]_vars PROVE LongestTailSent'
  OBVIOUS
<1> USE WindowAssumption
<1>1. /\ history \in Seq(Messages) /\ messages \in Seq(Messages)
      /\ Len(history) \in Nat /\ dropped \in Nat /\ dropped + 2 <= Len(history)
      /\ messages = Window(history, dropped) /\ Len(messages) = Len(history) - dropped
  BY LenProperties, WindowMembers DEF WindowInv, TypeOK, WindowIsTail
<1>2. ASSUME UNCHANGED <<messages, history, dropped>>, pc' = "infer" => pc = "infer"
      PROVE  LongestTailSent'
  BY <1>2 DEF LongestTailSent
<1>3. CASE StartTurn \/ OutOfTurns \/ Finish \/ Returned \/ UNCHANGED vars
  BY <1>2, <1>3 DEF StartTurn, OutOfTurns, Finish, Returned, vars
<1>4. CASE Prune
  <2>1. /\ pc' # "infer" /\ dropped' = dropped + 1 /\ history' = history
        /\ Estimate(Window(history, dropped)) > Budget
    BY <1>1, <1>4 DEF Prune, TooLong
  <2>2. \A d \in 0..(dropped' - 1) : d \in 0..(dropped - 1) \/ d = dropped
    BY <1>1, <2>1
  <2> QED BY <2>1, <2>2 DEF LongestTailSent
<1>5. CASE Send
  <2>1. UNCHANGED <<messages, history, dropped>> /\ ~TooLong(messages)
    BY <1>5 DEF Send
  <2>2. Estimate(messages) \in Nat
    BY <1>1, EstimateIsNat
  <2>3. Estimate(messages) <= Budget \/ Len(messages) = 2
    BY <1>1, <2>1, <2>2 DEF TooLong
  <2> QED BY <2>1, <2>3 DEF LongestTailSent
<1>6. ASSUME NEW m \in Messages, Push(m), pc' # "infer"
      PROVE  LongestTailSent'
  <2> SUFFICES ASSUME NEW d \in 0..(dropped - 1)
               PROVE  Estimate(Window(history', d)) > Budget
    BY <1>6 DEF LongestTailSent, Push
  <2>1. d \in Nat /\ d + 2 <= Len(history)
    BY <1>1
  <2>2. Window(history, d) \in Seq(Messages)
        /\ Window(history', d) = Append(Window(history, d), m)
    BY <1>1, <1>6, <2>1, WindowMembers, PushWindow DEF Push
  <2>3. /\ Estimate(Window(history, d)) \in Nat /\ Weight(m) \in Nat
        /\ Estimate(Window(history', d)) = Estimate(Window(history, d)) + Weight(m)
    BY <2>2, WeightIsNat, EstimateOfAppend
  <2>4. Estimate(Window(history, d)) > Budget
    BY DEF LongestTailSent
  <2> QED BY <2>3, <2>4
<1>7. CASE AskForTools \/ \E halts \in BOOLEAN : Answer(halts)
  <2>1. \E m \in Messages : Push(m) /\ pc' # "infer"
    <3>1. WindowInv
      OBVIOUS
    <3> QED BY <1>7, <3>1, AskPushes, AnswerPushes DEF AskForTools, Answer, AfterAnswer
  <2> QED BY <1>6, <2>1
<1> QED BY <1>3, <1>4, <1>5, <1>7 DEF Next

(* For every budget and all sizes of messages: what was removed would not  *)
(* have fitted, at the time of removal or any later, and what is sent fits *)
(* or is the prompt and the goal alone.                                    *)
THEOREM NothingLeftOutInVain == Spec => []LongestTailSent
<1>1. Init => LongestTailSent
  BY DEF Init, LongestTailSent
<1>2. WindowInv /\ LongestTailSent /\ [Next]_vars => LongestTailSent'
  BY LongestStep
<1> QED BY <1>1, <1>2, WindowInvariant, PTL DEF Spec

=============================================================================
