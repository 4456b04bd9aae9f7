--------------------------- MODULE WorkflowProofs ---------------------------
(***************************************************************************)
(* Theorems about the workflow executor, for every number of tasks, every  *)
(* acyclic graph and every limit: the safety invariants of its ledger and  *)
(* of its bodies, the truth of its report, and that it implements the      *)
(* abstract scheduler TaskGraph.                                           *)
(***************************************************************************)
EXTENDS WorkflowInv, FiniteSetTheorems, WellFoundedInduction, TLAPS

-----------------------------------------------------------------------------
(* Type correctness, one step per action.                                  *)

LEMMA TypeInit == Init => TypeOK
<1> SUFFICES ASSUME Init PROVE TypeOK
  OBVIOUS
<1>1. deps \in [Task -> Seq(Task)]
  BY GraphAssumption DEF Init
<1>2. NoFailure \in FailureRecord
  BY DEF NoFailure, FailureRecord
<1>3. 1 \in 1..(N + 1)
  BY SizeAssumption
<1> QED
  BY <1>1, <1>2, <1>3, SizeAssumption
  DEF Init, TypeOK, TaskState, Places, InJoinSet, AllOutcomes

(* What the ledger's writers must keep.                                    *)
LedgerTyped ==
  /\ state \in [Task -> TaskState]
  /\ failure \in [Task -> FailureRecord]
  /\ seq \in Nat

LEMMA FailType ==
  ASSUME TypeOK, NEW t \in Task, NEW s \in TaskState,
         NEW class \in {"none", "Fault", "Failed", "Timeout", "Cancelled", "Rejected"},
         NEW certainty \in Certainty, NEW cause \in Task \cup {0},
         Fail(t, s, class, certainty, cause)
  PROVE  LedgerTyped'
BY DEF TypeOK, LedgerTyped, Fail, Transition, FailureRecord

LEMMA SucceedType ==
  ASSUME TypeOK, NEW t \in Task, NEW s \in TaskState, Succeed(t, s)
  PROVE  LedgerTyped'
BY DEF TypeOK, LedgerTyped, Succeed, Transition

LEMMA LedgerUnchangedType ==
  ASSUME TypeOK, UNCHANGED ledger
  PROVE  LedgerTyped'
BY DEF TypeOK, LedgerTyped, ledger

LEMMA TypeStep == TypeOK /\ [Next]_vars => TypeOK'
<1> SUFFICES ASSUME TypeOK, [Next]_vars PROVE TypeOK'
  OBVIOUS
<1> USE SizeAssumption, BodyAssumption
    DEF ledger, coord, shared, bodies, env, hist
<1>0. /\ 1 \in 1..(N + 1)
      /\ \A c \in Task : c \in 1..(N + 1) /\ c + 1 \in 1..(N + 1)
  BY DEF Task
<1>1. CASE Top
  <2>1. budgetExhausted' \in BOOLEAN /\ runCancel' \in BOOLEAN
    BY <1>1 DEF Top, Expired
  <2>2. cancelSeen' \in BOOLEAN
    BY <1>1 DEF Top
  <2>3. pc' \in {"wait", "cancelOpen", "propagate"}
    BY <1>1 DEF Top
  <2> QED BY <1>0, <1>1, <2>1, <2>2, <2>3 DEF TypeOK, Top, Places
<1>2. CASE CancelVisit
  <2>1. cursor \in Task /\ CancelCertainty(cursor) \in Certainty
    BY <1>2 DEF CancelVisit, CancelCertainty, Certainty, Task
  <2>2. LedgerTyped'
    <3>1. CASE Fail(cursor, "Cancelled", "Cancelled", CancelCertainty(cursor), 0)
      BY <2>1, <3>1, FailType DEF TaskState
    <3>2. CASE UNCHANGED ledger
      BY <3>2, LedgerUnchangedType
    <3> QED BY <1>2, <3>1, <3>2 DEF CancelVisit
  <2> QED BY <1>2, <2>1, <2>2 DEF LedgerTyped, TypeOK, CancelVisit, Task
<1>3. CASE CancelEnd
  BY <1>3 DEF TypeOK, CancelEnd, Places
<1>4. CASE PropagateVisit
  <2>1. cursor \in Task
    BY <1>4 DEF PropagateVisit
  <2>2. LedgerTyped'
    <3>1. CASE Skip(cursor)
      <4>1. PICK k \in DOMAIN deps[cursor] :
              Fail(cursor, "Skipped", "Rejected", "NoEffect", deps[cursor][k])
        BY <3>1 DEF Skip
      <4>2. deps[cursor][k] \in Task
        BY <2>1, <4>1 DEF TypeOK
      <4> QED BY <2>1, <4>1, <4>2, FailType DEF TaskState, Certainty
    <3>2. CASE Unblock(cursor)
      BY <2>1, <3>2, SucceedType DEF Unblock, TaskState
    <3>3. CASE UNCHANGED ledger
      BY <3>3, LedgerUnchangedType
    <3> QED BY <1>4, <3>1, <3>2, <3>3 DEF PropagateVisit
  <2>3. changed' \in BOOLEAN
    BY <1>4 DEF PropagateVisit, TypeOK
  <2> QED BY <1>4, <2>1, <2>2, <2>3 DEF LedgerTyped, TypeOK, PropagateVisit, Task
<1>5. CASE PropagateEnd
  <2>1. pc' \in {"propagate", "start"}
    BY <1>5 DEF PropagateEnd
  <2> QED BY <1>0, <1>5, <2>1 DEF TypeOK, PropagateEnd, Places
<1>6. CASE StartVisit
  BY <1>6 DEF TypeOK, StartVisit, Places, Task
<1>7. CASE NoPermit
  BY <1>7 DEF TypeOK, NoPermit, Places
<1>8. CASE StartTask
  <2>1. cursor \in Task /\ Succeed(cursor, "Running")
    BY <1>8 DEF StartTask, TypeOK
  <2>2. LedgerTyped'
    BY <2>1, SucceedType DEF TaskState
  <2>3. live' \in Nat /\ permits' \in Nat /\ peak' \in Nat /\ late' \in Nat
    BY <1>8 DEF StartTask, TypeOK, PermitFree, InUse
  <2>4. body' \in [Task -> InJoinSet \cup {"none", "joined"}]
    BY <1>8 DEF StartTask, TypeOK, InJoinSet
  <2> QED BY <1>8, <2>1, <2>2, <2>3, <2>4 DEF LedgerTyped, StartTask, TypeOK, Task, Places
<1>9. CASE Drained
  BY <1>9 DEF TypeOK, Drained, AfterLoop, Places, Task
<1>10. CASE OnCallerCancel
  BY <1>10 DEF TypeOK, OnCallerCancel, Places
<1>11. CASE OnDeadline
  BY <1>11 DEF TypeOK, OnDeadline, Places
<1>12. ASSUME NEW t \in Task, Join(t) PROVE TypeOK'
  <2>1. LedgerTyped'
    <3>1. CASE fin[t] = "Completed" /\ Succeed(t, "Completed")
      BY <3>1, SucceedType DEF TaskState
    <3>2. ASSUME NEW claim \in FaultClaims, Fail(t, "Failed", "Fault", claim, 0)
          PROVE  LedgerTyped'
      BY <3>2, FailType DEF TaskState
    <3>3. CASE fin[t] = "ApprovalPending" /\ Succeed(t, "WaitingForApproval")
      BY <3>3, SucceedType DEF TaskState
    <3>4. CASE Fail(t, "Cancelled", "Cancelled", Interrupt[t], 0)
      BY <3>4, FailType DEF TaskState
    <3>5. CASE Fail(t, "Failed", "Timeout", Interrupt[t], 0)
      BY <3>5, FailType DEF TaskState
    <3>6. CASE Fail(t, "Failed", "Failed", "Uncertain", 0)
      BY <3>6, FailType DEF TaskState, Certainty
    <3> QED BY <1>12, <3>1, <3>2, <3>3, <3>4, <3>5, <3>6 DEF Join, Settle
  <2>2. live' \in Nat
    BY <1>12 DEF Join, LiveAfter, TypeOK
  <2>3. body' \in [Task -> InJoinSet \cup {"none", "joined"}]
    BY <1>12 DEF Join, TypeOK
  <2> QED BY <1>12, <2>1, <2>2, <2>3 DEF LedgerTyped, Join, TypeOK, Places
<1>13. CASE Report
  BY <1>13 DEF TypeOK, Report, Places
<1>14. ASSUME NEW t \in Task, BodyStart(t) PROVE TypeOK'
  BY <1>14 DEF TypeOK, BodyStart, InJoinSet
<1>15. ASSUME NEW t \in Task, BodyInterrupted(t) PROVE TypeOK'
  BY <1>15 DEF TypeOK, BodyInterrupted, End, InJoinSet
<1>16. ASSUME NEW t \in Task, BodyEnds(t) PROVE TypeOK'
  <2>1. PICK how \in Outcomes : End(t, how)
    BY <1>16 DEF BodyEnds
  <2> QED BY <1>16, <2>1 DEF TypeOK, BodyEnds, End, InJoinSet
<1>17. CASE CallerCancels
  BY <1>17 DEF TypeOK, CallerCancels
<1>18. CASE DeadlinePasses
  BY <1>18 DEF TypeOK, DeadlinePasses
<1>19. CASE UNCHANGED vars
  BY <1>19 DEF TypeOK, vars
<1> QED
  BY <1>1, <1>2, <1>3, <1>4, <1>5, <1>6, <1>7, <1>8, <1>9, <1>10, <1>11, <1>12,
     <1>13, <1>14, <1>15, <1>16, <1>17, <1>18, <1>19
  DEF Next, Coordinator, Returned

(* Every reachable state is well typed, for every graph and limit.         *)
THEOREM TypeCorrect == Spec => []TypeOK
BY TypeInit, TypeStep, PTL DEF Spec

-----------------------------------------------------------------------------
(* Safety of the ledger: what each kind of entry preserves.                *)

(* Steps that write no entry and touch no body keep every ledger fact.     *)
LEMMA QuietSafe ==
  ASSUME TypeOK, LedgerSafe,
         UNCHANGED <<deps, state, failure, body, ran>>,
         seq' \in Nat, seq' >= seq
  PROVE  LedgerSafe'
<1>1. NoOrphanBody' /\ BodyShape' /\ NoEffectIsTrue'
  BY DEF LedgerSafe, NoOrphanBody, BodyShape, NoEffectIsTrue
<1>2. StartedInOrder'
  BY DEF LedgerSafe, StartedInOrder, DepSet
<1>3. FailuresExplained'
  BY DEF LedgerSafe, FailuresExplained, DepSet, NoFailure
<1>4. FailureNumbers'
  BY DEF LedgerSafe, FailureNumbers, TypeOK, FailureRecord
<1> QED BY <1>1, <1>2, <1>3, <1>4 DEF LedgerSafe

(* A failure entry for a task that is not terminal and, in the same step,  *)
(* has no body left.                                                       *)
LEMMA FailSafe ==
  ASSUME TypeOK, LedgerSafe,
         NEW t \in Task, NEW s \in EndedBadly,
         NEW class \in {"Fault", "Failed", "Timeout", "Cancelled", "Rejected"},
         NEW certainty \in Certainty, NEW cause \in Task \cup {0},
         Fail(t, s, class, certainty, cause),
         state[t] \notin Terminal,
         UNCHANGED <<deps, ran>>,
         body' \in [Task -> InJoinSet \cup {"none", "joined"}],
         body'[t] \notin InJoinSet,
         \A u \in Task \ {t} : body'[u] = body[u],
         body'[t] = "none" <=> body[t] = "none",
         s = "Skipped" => /\ body[t] = "none"
                          /\ cause \in DepSet(deps, t)
                          /\ state[cause] \in EndedBadly,
         certainty = "NoEffect" =>
           \/ ~ran[t]
           \/ class \in {"Cancelled", "Timeout"} /\ Interrupt[t] = "NoEffect"
           \/ class = "Fault"
  PROVE  LedgerSafe'
<1> USE DEF EndedBadly, Terminal, InJoinSet
<1>1. /\ state' = [state EXCEPT ![t] = s]
      /\ seq' = seq + 1
      /\ failure' = [failure EXCEPT ![t] =
           [class |-> class, certainty |-> certainty, seq |-> seq + 1, cause |-> cause]]
  BY DEF Fail, Transition
<1>2. \A u \in Task : u # t => state'[u] = state[u] /\ failure'[u] = failure[u]
  BY <1>1 DEF TypeOK
<1>3. /\ state'[t] = s
      /\ failure'[t].class = class /\ failure'[t].certainty = certainty
      /\ failure'[t].seq = seq + 1 /\ failure'[t].cause = cause
      /\ failure'[t] # NoFailure
  BY <1>1 DEF TypeOK, NoFailure
<1>4. NoOrphanBody'
  BY <1>2, <1>3 DEF LedgerSafe, NoOrphanBody
<1>5. BodyShape'
  BY <1>2, <1>3 DEF LedgerSafe, BodyShape
<1>6. StartedInOrder'
  <2> SUFFICES ASSUME NEW u \in Task, state'[u] = "Ready" \/ body'[u] # "none",
                      NEW d \in DepSet(deps, u)
               PROVE  state'[d] = "Completed"
    BY DEF StartedInOrder, DepSet
  <2>1. state[u] = "Ready" \/ body[u] # "none"
    BY <1>2, <1>3
  <2>2. state[d] = "Completed" /\ d \in Task
    BY <2>1 DEF LedgerSafe, StartedInOrder, TypeOK, DepSet
  <2> QED BY <1>2, <2>2
<1>7. FailuresExplained'
  <2> SUFFICES ASSUME NEW u \in Task
               PROVE  /\ failure'[u] # NoFailure <=> state'[u] \in EndedBadly
                      /\ state'[u] = "Skipped" =>
                           /\ failure'[u].cause \in DepSet(deps, u)
                           /\ state'[failure'[u].cause] \in EndedBadly
                           /\ failure'[failure'[u].cause].seq < failure'[u].seq
    BY DEF FailuresExplained, DepSet, NoFailure
  <2>1. CASE u = t
    <3>1. ASSUME s = "Skipped"
          PROVE  /\ cause \in DepSet(deps, t) /\ cause \in Task /\ cause # t
                 /\ state[cause] \in EndedBadly
                 /\ failure[cause].seq < seq + 1
      BY <3>1 DEF LedgerSafe, FailureNumbers, TypeOK, DepSet, FailureRecord
    <3> QED BY <1>2, <1>3, <2>1, <3>1
  <2>2. CASE u # t
    <3>1. state[u] = "Skipped" =>
            /\ failure[u].cause \in DepSet(deps, u)
            /\ failure[u].cause \in Task /\ failure[u].cause # t
            /\ state[failure[u].cause] \in EndedBadly
            /\ failure[failure[u].cause].seq < failure[u].seq
      BY DEF LedgerSafe, FailuresExplained, TypeOK, DepSet
    <3>2. failure[u] # NoFailure <=> state[u] \in EndedBadly
      BY DEF LedgerSafe, FailuresExplained
    <3> QED BY <1>2, <2>2, <3>1, <3>2
  <2> QED BY <2>1, <2>2
<1>8. FailureNumbers'
  BY <1>1, <1>2, <1>3 DEF LedgerSafe, FailureNumbers, TypeOK, FailureRecord
<1>9. NoEffectIsTrue'
  BY <1>2, <1>3 DEF LedgerSafe, NoEffectIsTrue
<1> QED BY <1>4, <1>5, <1>6, <1>7, <1>8, <1>9 DEF LedgerSafe

(* Any other entry, for a task that is not terminal.                       *)
LEMMA SucceedSafe ==
  ASSUME TypeOK, LedgerSafe,
         NEW t \in Task, NEW s \in TaskState \ EndedBadly,
         Succeed(t, s),
         state[t] \notin Terminal,
         UNCHANGED <<deps, ran>>,
         body' \in [Task -> InJoinSet \cup {"none", "joined"}],
         s = "Running" <=> body'[t] \in InJoinSet,
         \A u \in Task \ {t} : body'[u] = body[u],
         body[t] # "none" => body'[t] # "none",
         s \in {"Pending", "Ready"} => body'[t] = "none",
         s = "Ready" \/ body'[t] # "none" =>
           \A d \in DepSet(deps, t) : state[d] = "Completed"
  PROVE  LedgerSafe'
<1> USE DEF EndedBadly, Terminal, InJoinSet
<1>1. /\ state' = [state EXCEPT ![t] = s]
      /\ seq' = seq + 1
      /\ failure' = failure
  BY DEF Succeed, Transition
<1>2. state'[t] = s /\ \A u \in Task : u # t => state'[u] = state[u]
  BY <1>1 DEF TypeOK
<1>3. NoOrphanBody'
  BY <1>2 DEF LedgerSafe, NoOrphanBody
<1>4. BodyShape'
  BY <1>2 DEF LedgerSafe, BodyShape
<1>5. StartedInOrder'
  <2> SUFFICES ASSUME NEW u \in Task, state'[u] = "Ready" \/ body'[u] # "none",
                      NEW d \in DepSet(deps, u)
               PROVE  state'[d] = "Completed"
    BY DEF StartedInOrder, DepSet
  <2>1. d \in Task
    BY DEF TypeOK, DepSet
  <2>2. CASE u = t
    BY <1>2, <2>1, <2>2
  <2>3. CASE u # t
    <3>1. state[d] = "Completed"
      BY <1>2, <2>3 DEF LedgerSafe, StartedInOrder
    <3> QED BY <1>2, <2>1, <3>1
  <2> QED BY <2>2, <2>3
<1>6. FailuresExplained'
  <2> SUFFICES ASSUME NEW u \in Task
               PROVE  /\ failure[u] # NoFailure <=> state'[u] \in EndedBadly
                      /\ state'[u] = "Skipped" =>
                           /\ failure[u].cause \in DepSet(deps, u)
                           /\ state'[failure[u].cause] \in EndedBadly
                           /\ failure[failure[u].cause].seq < failure[u].seq
    BY <1>1 DEF FailuresExplained, DepSet, NoFailure
  <2>1. failure[u] # NoFailure <=> state[u] \in EndedBadly
    BY DEF LedgerSafe, FailuresExplained
  <2>2. state[u] = "Skipped" =>
          /\ failure[u].cause \in DepSet(deps, u)
          /\ failure[u].cause \in Task
          /\ state[failure[u].cause] \in EndedBadly
          /\ failure[failure[u].cause].seq < failure[u].seq
    BY DEF LedgerSafe, FailuresExplained, TypeOK, DepSet
  <2>3. state'[u] \in EndedBadly <=> state[u] \in EndedBadly
    BY <1>2
  <2> QED BY <1>2, <2>1, <2>2, <2>3
<1>7. FailureNumbers'
  BY <1>1 DEF LedgerSafe, FailureNumbers, TypeOK, FailureRecord
<1>8. NoEffectIsTrue'
  BY <1>1 DEF LedgerSafe, NoEffectIsTrue
<1> QED BY <1>3, <1>4, <1>5, <1>6, <1>7, <1>8 DEF LedgerSafe

-----------------------------------------------------------------------------
LEMMA SafeInit == Init => SafeInv
BY DEF Init, SafeInv, LedgerSafe, NoOrphanBody, BodyShape, StartedInOrder,
       FailuresExplained, FailureNumbers, NoEffectIsTrue, AcquireReady, LateOnce,
       NoFailure, EndedBadly, InJoinSet

(* Where the coordinator goes next, and what that does to the two parts of *)
(* SafeInv about its place.                                                *)
LEMMA PlaceSafe ==
  ASSUME TypeOK, SafeInv, UNCHANGED <<late, env>>, pc' # "acquire"
  PROVE  AcquireReady' /\ LateOnce'
BY DEF SafeInv, AcquireReady, LateOnce, env

LEMMA SafeStep == TypeOK /\ TypeOK' /\ SafeInv /\ [Next]_vars => SafeInv'
<1> SUFFICES ASSUME TypeOK, TypeOK', SafeInv, [Next]_vars PROVE SafeInv'
  OBVIOUS
<1> USE SizeAssumption, BodyAssumption
    DEF ledger, coord, shared, bodies, env, hist
<1> LedgerSafe /\ AcquireReady /\ LateOnce
  BY DEF SafeInv
<1>0. seq \in Nat /\ seq >= seq /\ seq + 1 \in Nat /\ seq + 1 >= seq
  BY DEF TypeOK
<1>1. CASE Top
  BY <1>0, <1>1, QuietSafe, PlaceSafe DEF Top, SafeInv
<1>2. CASE CancelVisit
  <2> DEFINE c == cursor
  <2>1. c \in Task /\ CancelCertainty(c) \in Certainty
    BY <1>2 DEF CancelVisit, CancelCertainty, Certainty
  <2>2. LedgerSafe'
    <3>1. CASE UNCHANGED ledger
      BY <1>0, <1>2, <3>1, QuietSafe DEF CancelVisit
    <3>2. CASE /\ state[c] \in Cancellable
               /\ Fail(c, "Cancelled", "Cancelled", CancelCertainty(c), 0)
      <4>1. state[c] \notin Terminal /\ state[c] # "Running"
        BY <3>2 DEF Cancellable, Terminal
      <4>2. body[c] \notin InJoinSet
        BY <2>1, <4>1 DEF LedgerSafe, NoOrphanBody
      <4>3. CancelCertainty(c) = "NoEffect" =>
              ~ran[c] \/ Interrupt[c] = "NoEffect"
        BY <2>1, <3>2 DEF LedgerSafe, BodyShape, CancelCertainty, Cancellable
      <4>4. UNCHANGED <<deps, body, ran>>
        BY <1>2 DEF CancelVisit
      <4>5. /\ body' \in [Task -> InJoinSet \cup {"none", "joined"}]
            /\ "Cancelled" \in EndedBadly
        BY DEF TypeOK, EndedBadly
      <4> QED BY <2>1, <3>2, <4>1, <4>2, <4>3, <4>4, <4>5, FailSafe
    <3> QED BY <1>2, <3>1, <3>2 DEF CancelVisit
  <2> QED BY <1>2, <2>2, PlaceSafe DEF CancelVisit, SafeInv
<1>3. CASE CancelEnd
  BY <1>0, <1>3, QuietSafe, PlaceSafe DEF CancelEnd, SafeInv
<1>4. CASE PropagateVisit
  <2> DEFINE c == cursor
  <2>1. c \in Task /\ UNCHANGED <<deps, body, ran>>
    BY <1>4 DEF PropagateVisit
  <2>2. LedgerSafe'
    <3>1. CASE UNCHANGED ledger
      BY <1>0, <2>1, <3>1, QuietSafe
    <3>2. CASE state[c] = "Pending" /\ Skip(c)
      <4>1. PICK k \in DOMAIN deps[c] :
              /\ Bad(deps[c][k])
              /\ Fail(c, "Skipped", "Rejected", "NoEffect", deps[c][k])
        BY <3>2 DEF Skip
      <4> DEFINE cause == deps[c][k]
      <4>2. /\ cause \in Task /\ cause \in DepSet(deps, c)
            /\ state[cause] \in EndedBadly
        BY <2>1, <4>1 DEF TypeOK, DepSet, Bad
      <4>3. body[c] = "none" /\ ~ran[c]
        BY <2>1, <3>2 DEF LedgerSafe, BodyShape
      <4>4. /\ body' \in [Task -> InJoinSet \cup {"none", "joined"}]
            /\ "Skipped" \in EndedBadly /\ "NoEffect" \in Certainty
            /\ body'[c] \notin InJoinSet /\ state[c] \notin Terminal
        BY <2>1, <3>2, <4>3 DEF TypeOK, EndedBadly, Certainty, InJoinSet, Terminal
      <4> HIDE DEF cause
      <4>5. Fail(c, "Skipped", "Rejected", "NoEffect", cause)
        BY <4>1 DEF cause
      <4> QED BY <2>1, <4>2, <4>3, <4>4, <4>5, FailSafe
    <3>3. CASE state[c] = "Pending" /\ Unblock(c)
      <4>1. body[c] = "none"
        BY <2>1, <3>3 DEF LedgerSafe, BodyShape
      <4>2. /\ body' \in [Task -> InJoinSet \cup {"none", "joined"}]
            /\ "Ready" \in TaskState \ EndedBadly
            /\ body'[c] \notin InJoinSet /\ state[c] \notin Terminal
        BY <2>1, <3>3, <4>1 DEF TypeOK, TaskState, EndedBadly, InJoinSet, Terminal
      <4> QED BY <2>1, <3>3, <4>1, <4>2, SucceedSafe DEF Unblock
    <3> QED BY <1>4, <3>1, <3>2, <3>3 DEF PropagateVisit
  <2> QED BY <1>4, <2>2, PlaceSafe DEF PropagateVisit, SafeInv
<1>5. CASE PropagateEnd
  <2>1. pc' # "acquire"
    BY <1>5 DEF PropagateEnd
  <2> QED BY <1>0, <1>5, <2>1, QuietSafe, PlaceSafe DEF PropagateEnd, SafeInv
<1>6. CASE StartVisit
  <2>1. LedgerSafe'
    BY <1>0, <1>6, QuietSafe DEF StartVisit
  <2>2. AcquireReady'
    BY <1>6 DEF StartVisit, AcquireReady, TypeOK
  <2>3. LateOnce'
    BY <1>6 DEF StartVisit, LateOnce, StopRequested
  <2> QED BY <2>1, <2>2, <2>3 DEF SafeInv
<1>7. CASE NoPermit
  BY <1>0, <1>7, QuietSafe, PlaceSafe DEF NoPermit, SafeInv
<1>8. CASE StartTask
  <2> DEFINE c == cursor
  <2>1. c \in Task /\ state[c] = "Ready" /\ body[c] = "none"
    BY <1>8 DEF StartTask, TypeOK, AcquireReady, LedgerSafe, BodyShape
  <2>2. /\ Succeed(c, "Running") /\ UNCHANGED <<deps, ran>>
        /\ body' = [body EXCEPT ![c] = "spawned"]
    BY <1>8 DEF StartTask
  <2>3. /\ body'[c] = "spawned" /\ \A u \in Task \ {c} : body'[u] = body[u]
        /\ body' \in [Task -> InJoinSet \cup {"none", "joined"}]
    BY <2>1, <2>2 DEF TypeOK, InJoinSet
  <2>4. \A d \in DepSet(deps, c) : state[d] = "Completed"
    BY <2>1 DEF LedgerSafe, StartedInOrder
  <2>5. "Running" \in TaskState \ EndedBadly /\ "spawned" \in InJoinSet
        /\ state[c] \notin Terminal
    BY <2>1 DEF TaskState, EndedBadly, InJoinSet, Terminal
  <2>6. LedgerSafe'
    BY <2>1, <2>2, <2>3, <2>4, <2>5, SucceedSafe
  <2>7. AcquireReady' /\ LateOnce'
    BY <1>8 DEF StartTask, AcquireReady, LateOnce
  <2> QED BY <2>6, <2>7 DEF SafeInv
<1>9. CASE Drained
  <2>1. pc' # "acquire"
    BY <1>9 DEF Drained, AfterLoop
  <2> QED BY <1>0, <1>9, <2>1, QuietSafe, PlaceSafe DEF Drained, SafeInv
<1>10. CASE OnCallerCancel
  BY <1>0, <1>10, QuietSafe, PlaceSafe DEF OnCallerCancel, SafeInv
<1>11. CASE OnDeadline
  BY <1>0, <1>11, QuietSafe, PlaceSafe DEF OnDeadline, SafeInv
<1>12. ASSUME NEW t \in Task, Join(t) PROVE SafeInv'
  <2>1. /\ UNCHANGED <<deps, ran>> /\ pc' # "acquire" /\ UNCHANGED <<late, env>>
        /\ body' = [body EXCEPT ![t] = "joined"] /\ body[t] = "ended"
    BY <1>12 DEF Join
  <2>2. /\ body'[t] = "joined" /\ \A u \in Task \ {t} : body'[u] = body[u]
        /\ body' \in [Task -> InJoinSet \cup {"none", "joined"}]
    BY <2>1 DEF TypeOK, InJoinSet
  <2>3. "joined" \notin InJoinSet /\ "none" \notin InJoinSet /\ "ended" \in InJoinSet
    BY DEF InJoinSet
  <2>4. state[t] = "Running" /\ state[t] \notin Terminal
    BY <2>1, <2>3 DEF LedgerSafe, NoOrphanBody, Terminal
  <2>5. \A d \in DepSet(deps, t) : state[d] = "Completed"
    BY <2>1 DEF LedgerSafe, StartedInOrder
  <2>6. /\ {"Completed", "WaitingForApproval"} \subseteq TaskState \ EndedBadly
        /\ {"Failed", "Cancelled"} \subseteq EndedBadly
        /\ {"NoEffect", "EffectOccurred", "Uncertain"} = Certainty
    BY DEF TaskState, EndedBadly, Certainty
  <2>7. LedgerSafe'
    <3>1. ASSUME NEW s \in {"Completed", "WaitingForApproval"}, Succeed(t, s)
          PROVE  LedgerSafe'
      BY <2>1, <2>2, <2>3, <2>4, <2>5, <2>6, <3>1, SucceedSafe
    <3>2. ASSUME NEW s \in {"Failed", "Cancelled"},
                 NEW class \in {"Fault", "Failed", "Timeout", "Cancelled"},
                 NEW certainty \in Certainty,
                 Fail(t, s, class, certainty, 0),
                 certainty = "NoEffect" =>
                   \/ class \in {"Cancelled", "Timeout"} /\ Interrupt[t] = "NoEffect"
                   \/ class = "Fault"
          PROVE  LedgerSafe'
      BY <2>1, <2>2, <2>3, <2>4, <2>6, <3>2, FailSafe
    <3>3. ASSUME NEW claim \in FaultClaims, Fail(t, "Failed", "Fault", claim, 0)
          PROVE  LedgerSafe'
      BY <3>2, <3>3
    <3>4. CASE Fail(t, "Cancelled", "Cancelled", Interrupt[t], 0)
      BY <3>2, <3>4
    <3>5. CASE Fail(t, "Failed", "Timeout", Interrupt[t], 0)
      BY <3>2, <3>5
    <3>6. CASE Fail(t, "Failed", "Failed", "Uncertain", 0)
      BY <2>6, <3>2, <3>6
    <3> QED BY <1>12, <3>1, <3>3, <3>4, <3>5, <3>6 DEF Join, Settle
  <2> QED BY <2>1, <2>7, PlaceSafe DEF SafeInv
<1>13. CASE Report
  BY <1>0, <1>13, QuietSafe, PlaceSafe DEF Report, SafeInv
<1>14. ASSUME NEW t \in Task, BodyStart(t) PROVE SafeInv'
  <2>1. /\ UNCHANGED <<deps, ledger, late, env, pc, cursor>>
        /\ body[t] = "spawned" /\ body' = [body EXCEPT ![t] = "running"]
        /\ ran' = [ran EXCEPT ![t] = TRUE]
    BY <1>14 DEF BodyStart
  <2>2. state[t] = "Running"
    BY <2>1 DEF LedgerSafe, NoOrphanBody, InJoinSet
  <2>3. failure[t] = NoFailure
    BY <2>2 DEF LedgerSafe, FailuresExplained, EndedBadly
  <2>4. NoOrphanBody' /\ BodyShape' /\ StartedInOrder'
    BY <2>1, <2>2 DEF LedgerSafe, NoOrphanBody, BodyShape, StartedInOrder, TypeOK,
       InJoinSet, DepSet
  <2>5. NoEffectIsTrue'
    BY <2>1, <2>3 DEF LedgerSafe, NoEffectIsTrue, NoFailure, TypeOK
  <2>6. FailuresExplained' /\ FailureNumbers'
    BY <2>1 DEF LedgerSafe, FailuresExplained, FailureNumbers, DepSet, NoFailure
  <2> QED BY <2>1, <2>4, <2>5, <2>6 DEF SafeInv, LedgerSafe, AcquireReady, LateOnce
<1>15. ASSUME NEW t \in Task, NEW how, body[t] \in Alive, End(t, how), UNCHANGED ran
       PROVE  SafeInv'
  <2>1. /\ UNCHANGED <<deps, ledger, late, env, pc, cursor, ran>>
        /\ body' = [body EXCEPT ![t] = "ended"]
    BY <1>15 DEF End
  <2>2. NoOrphanBody' /\ BodyShape' /\ StartedInOrder'
    BY <1>15, <2>1 DEF LedgerSafe, NoOrphanBody, BodyShape, StartedInOrder, TypeOK,
       InJoinSet, DepSet, Alive
  <2>3. NoEffectIsTrue'
    BY <2>1 DEF LedgerSafe, NoEffectIsTrue
  <2>4. FailuresExplained' /\ FailureNumbers'
    BY <2>1 DEF LedgerSafe, FailuresExplained, FailureNumbers, DepSet, NoFailure
  <2> QED BY <2>1, <2>2, <2>3, <2>4 DEF SafeInv, LedgerSafe, AcquireReady, LateOnce
<1>16. ASSUME NEW t \in Task, BodyInterrupted(t) \/ BodyEnds(t) PROVE SafeInv'
  BY <1>15, <1>16 DEF BodyInterrupted, BodyEnds, Alive
<1>17. CASE CallerCancels \/ DeadlinePasses
  <2>1. /\ UNCHANGED <<deps, ledger, bodies, pc, cursor, hist>>
        /\ callerCancel \/ deadlinePassed => callerCancel' \/ deadlinePassed'
    BY <1>17 DEF CallerCancels, DeadlinePasses
  <2>2. LedgerSafe'
    BY <1>0, <2>1, QuietSafe
  <2>3. AcquireReady' /\ LateOnce'
    BY <2>1 DEF AcquireReady, LateOnce
  <2> QED BY <2>2, <2>3 DEF SafeInv
<1>18. CASE UNCHANGED vars
  <2>1. LedgerSafe'
    BY <1>0, <1>18, QuietSafe DEF vars
  <2>2. AcquireReady' /\ LateOnce'
    BY <1>18 DEF vars, AcquireReady, LateOnce
  <2> QED BY <2>1, <2>2 DEF SafeInv
<1> QED
  BY <1>1, <1>2, <1>3, <1>4, <1>5, <1>6, <1>7, <1>8, <1>9, <1>10, <1>11, <1>12,
     <1>13, <1>14, <1>16, <1>17, <1>18
  DEF Next, Coordinator, Returned

LEMMA SafeAlways == Spec => []SafeInv
<1>1. TypeOK /\ SafeInv /\ [Next]_vars => SafeInv'
  BY TypeStep, SafeStep
<1> QED BY SafeInit, <1>1, TypeCorrect, PTL DEF Spec

-----------------------------------------------------------------------------
(* What the ledger invariant says, property by property.                   *)

(* A task is recorded as Running exactly while it has a body that was not  *)
(* joined: no terminal task has a body that acts behind the ledger's back. *)
THEOREM NoOrphans == Spec => []NoOrphanBody
<1>1. SafeInv => NoOrphanBody
  BY DEF SafeInv, LedgerSafe
<1> QED BY SafeAlways, <1>1, PTL

(* A body that acted had all its prerequisites completed, and they still   *)
(* are: propagate decides it, acquire and start carry it, nothing undoes.  *)
THEOREM DependencyOrder == Spec => []PrerequisitesFirst
<1>1. SafeInv => PrerequisitesFirst
  BY DEF SafeInv, LedgerSafe, BodyShape, StartedInOrder, PrerequisitesFirst
<1> QED BY SafeAlways, <1>1, PTL

(* The failure records are exactly those of the tasks that ended badly,    *)
(* and the causes of skips point strictly backwards in the run's sequence. *)
THEOREM CausesGoBack == Spec => []FailuresExplained
<1>1. SafeInv => FailuresExplained
  BY DEF SafeInv, LedgerSafe
<1> QED BY SafeAlways, <1>1, PTL

(* NoEffect is never the coordinator's own claim about a body that acted.  *)
THEOREM NoEffectHolds == Spec => []NoEffectIsTrue
<1>1. SafeInv => NoEffectIsTrue
  BY DEF SafeInv, LedgerSafe
<1> QED BY SafeAlways, <1>1, PTL

(* Whenever the stop request comes, at most one task starts after it.      *)
THEOREM OneLateStart == Spec => []AtMostOneLateStart
<1>1. SafeInv => AtMostOneLateStart
  BY DEF SafeInv, LateOnce, AtMostOneLateStart
<1> QED BY SafeAlways, <1>1, PTL

-----------------------------------------------------------------------------
(* Terminal tasks: each entry goes to a task that is not terminal.         *)

LEMMA EntryKeepsTerminal ==
  ASSUME TypeOK, NEW t \in Task, state[t] \notin Terminal,
         NEW s, NEW class, NEW certainty, NEW cause,
         Succeed(t, s) \/ Fail(t, s, class, certainty, cause)
  PROVE  \A u \in Task : state[u] \in Terminal =>
           state'[u] = state[u] /\ failure'[u] = failure[u]
BY DEF TypeOK, Succeed, Fail, Transition

LEMMA TerminalStep ==
  ASSUME TypeOK, SafeInv, [Next]_vars
  PROVE  \A u \in Task : state[u] \in Terminal =>
           state'[u] = state[u] /\ failure'[u] = failure[u]
<1> DEFINE Kept == \A u \in Task : state[u] \in Terminal =>
                     state'[u] = state[u] /\ failure'[u] = failure[u]
<1>1. CASE UNCHANGED ledger
  BY <1>1 DEF ledger
<1>2. CASE CancelVisit
  <2>1. CASE /\ state[cursor] \in Cancellable
             /\ Fail(cursor, "Cancelled", "Cancelled", CancelCertainty(cursor), 0)
    <3>1. cursor \in Task /\ state[cursor] \notin Terminal
      BY <1>2, <2>1 DEF CancelVisit, Cancellable, Terminal
    <3> QED BY <2>1, <3>1, EntryKeepsTerminal
  <2> QED BY <1>1, <1>2, <2>1 DEF CancelVisit
<1>3. CASE PropagateVisit
  <2>1. CASE state[cursor] = "Pending" /\ (Skip(cursor) \/ Unblock(cursor))
    <3>1. cursor \in Task /\ state[cursor] \notin Terminal
      BY <1>3, <2>1 DEF PropagateVisit, Terminal
    <3>2. CASE Skip(cursor)
      <4>1. PICK k \in DOMAIN deps[cursor] :
              Fail(cursor, "Skipped", "Rejected", "NoEffect", deps[cursor][k])
        BY <3>2 DEF Skip
      <4> QED BY <3>1, <4>1, EntryKeepsTerminal
    <3>3. CASE Unblock(cursor)
      BY <3>1, <3>3, EntryKeepsTerminal DEF Unblock
    <3> QED BY <2>1, <3>2, <3>3
  <2> QED BY <1>1, <1>3, <2>1 DEF PropagateVisit, ledger
<1>4. CASE StartTask
  <2>1. cursor \in Task /\ state[cursor] \notin Terminal
    BY <1>4 DEF StartTask, TypeOK, SafeInv, AcquireReady, Terminal
  <2> QED BY <1>4, <2>1, EntryKeepsTerminal DEF StartTask
<1>5. ASSUME NEW t \in Task, Join(t) PROVE Kept
  <2>1. state[t] \notin Terminal
    BY <1>5 DEF Join, SafeInv, LedgerSafe, NoOrphanBody, InJoinSet, Terminal
  <2>2. \/ \E s \in TaskState : Succeed(t, s)
        \/ \E s \in TaskState, class \in {"Fault", "Cancelled", "Timeout", "Failed"},
              certainty \in Certainty : Fail(t, s, class, certainty, 0)
    BY <1>5, BodyAssumption DEF Join, Settle, TaskState, Certainty
  <2> QED BY <2>1, <2>2, EntryKeepsTerminal
<1>6. CASE Report
  BY <1>6 DEF Report
<1> QED
  BY <1>1, <1>2, <1>3, <1>4, <1>5, <1>6
  DEF Next, Coordinator, Top, CancelEnd, PropagateEnd, StartVisit, NoPermit, Drained,
      OnCallerCancel, OnDeadline, BodyStart, BodyInterrupted, BodyEnds, End,
      CallerCancels, DeadlinePasses, Returned, vars, ledger

(* A terminal task never changes state or failure record again: neither    *)
(* cancel_open, propagate, a start nor a late join writes to it.           *)
THEOREM TerminalStays == Spec => TerminalIsFinal
<1>1. TypeOK /\ SafeInv /\ [Next]_vars =>
        [\A t \in Task : state[t] \in Terminal =>
           state'[t] = state[t] /\ failure'[t] = failure[t]]_vars
  BY TerminalStep
<1>2. Spec => [][Next]_vars
  BY DEF Spec
<1>3. Spec => [][\A t \in Task : state[t] \in Terminal =>
                   state'[t] = state[t] /\ failure'[t] = failure[t]]_vars
  BY <1>1, <1>2, TypeCorrect, SafeAlways, PTL
<1> QED BY <1>3 DEF TerminalIsFinal

-----------------------------------------------------------------------------
(* Accounting: one body changes one count by one.                          *)

JoinSet == {t \in Task : body[t] \in InJoinSet}
Holders == {t \in Task : body[t] \in Alive}

LEMMA BodiesFinite ==
  \A S \in SUBSET Task : IsFiniteSet(S) /\ Cardinality(S) \in Nat
<1>1. IsFiniteSet(Task)
  BY SizeAssumption, FS_Interval DEF Task
<1> QED BY <1>1, FS_Subset, FS_CardinalityType

LEMMA AccountingInit == Init => Accounting
<1> SUFFICES ASSUME Init PROVE Accounting
  OBVIOUS
<1>1. JoinSet = {} /\ Holders = {}
  BY DEF Init, JoinSet, Holders, InJoinSet, Alive
<1>2. Cardinality(JoinSet) = 0 /\ Cardinality(Holders) = 0
  BY <1>1, FS_EmptySet
<1> QED BY <1>2, SizeAssumption DEF Init, Accounting, JoinSet, Holders

LEMMA AccountingStep == TypeOK /\ SafeInv /\ Accounting /\ [Next]_vars => Accounting'
<1> SUFFICES ASSUME TypeOK, SafeInv, Accounting, [Next]_vars PROVE Accounting'
  OBVIOUS
<1>0. /\ live = Cardinality(JoinSet) /\ permits + Cardinality(Holders) = MaxParallel
      /\ MaxParallel - permits <= peak /\ peak <= MaxParallel
      /\ JoinSet \in SUBSET Task /\ Holders \in SUBSET Task
      /\ live \in Nat /\ permits \in Nat /\ peak \in Nat /\ MaxParallel \in Nat
  BY SizeAssumption DEF Accounting, JoinSet, Holders, TypeOK
<1>1. ASSUME live' = Cardinality(JoinSet'), permits' + Cardinality(Holders') = MaxParallel,
             MaxParallel - permits' <= peak', peak' <= MaxParallel
      PROVE  Accounting'
  BY <1>1 DEF Accounting, JoinSet, Holders
<1>2. CASE UNCHANGED <<body, live, permits, peak>>
  BY <1>2 DEF Accounting
<1>3. CASE StartTask
  <2>1. cursor \in Task /\ body[cursor] = "none"
    BY <1>3 DEF StartTask, TypeOK, SafeInv, AcquireReady, LedgerSafe, BodyShape
  <2>2. /\ JoinSet' = JoinSet \cup {cursor} /\ cursor \notin JoinSet
        /\ Holders' = Holders \cup {cursor} /\ cursor \notin Holders
    BY <1>3, <2>1 DEF StartTask, JoinSet, Holders, InJoinSet, Alive, TypeOK
  <2>3. /\ Cardinality(JoinSet') = Cardinality(JoinSet) + 1
        /\ Cardinality(Holders') = Cardinality(Holders) + 1
    BY <1>0, <2>2, BodiesFinite, FS_AddElement
  <2>4. /\ live' = live + 1 /\ permits' = permits - 1 /\ permits > 0
        /\ peak' = IF MaxParallel - (permits - 1) > peak
                   THEN MaxParallel - (permits - 1) ELSE peak
    BY <1>3 DEF StartTask, PermitFree, InUse
  <2>5. Cardinality(Holders) \in Nat
    BY <1>0, BodiesFinite
  <2> QED BY <1>0, <1>1, <2>3, <2>4, <2>5
<1>4. ASSUME NEW t \in Task, Join(t) PROVE Accounting'
  <2>1. /\ JoinSet' = JoinSet \ {t} /\ t \in JoinSet /\ Holders' = Holders
        /\ live' = live - 1 /\ UNCHANGED <<permits, peak>>
    BY <1>4 DEF Join, JoinSet, Holders, InJoinSet, Alive, LiveAfter, TypeOK, shared
  <2>2. Cardinality(JoinSet') = Cardinality(JoinSet) - 1
    BY <1>0, <2>1, BodiesFinite, FS_RemoveElement
  <2> QED BY <1>0, <1>1, <2>1, <2>2
<1>5. ASSUME NEW t \in Task, BodyStart(t) PROVE Accounting'
  <2>1. JoinSet' = JoinSet /\ Holders' = Holders /\ UNCHANGED <<live, permits, peak>>
    BY <1>5 DEF BodyStart, JoinSet, Holders, InJoinSet, Alive, TypeOK, coord, shared
  <2> QED BY <1>0, <1>1, <2>1
<1>6. ASSUME NEW t \in Task, NEW how, body[t] \in Alive, End(t, how) PROVE Accounting'
  <2>1. /\ JoinSet' = JoinSet /\ Holders' = Holders \ {t} /\ t \in Holders
        /\ permits' = permits + 1 /\ UNCHANGED <<live, peak>>
    BY <1>6 DEF End, JoinSet, Holders, InJoinSet, Alive, TypeOK, coord
  <2>2. Cardinality(Holders') = Cardinality(Holders) - 1
    BY <1>0, <2>1, BodiesFinite, FS_RemoveElement
  <2>3. Cardinality(Holders) \in Nat
    BY <1>0, BodiesFinite
  <2> QED BY <1>0, <1>1, <2>1, <2>2, <2>3
<1>7. ASSUME NEW t \in Task, BodyInterrupted(t) \/ BodyEnds(t) PROVE Accounting'
  BY <1>6, <1>7 DEF BodyInterrupted, BodyEnds, Alive
<1> QED
  BY <1>2, <1>3, <1>4, <1>5, <1>7
  DEF Next, Coordinator, Top, CancelVisit, CancelEnd, PropagateVisit, PropagateEnd,
      StartVisit, NoPermit, Drained, OnCallerCancel, OnDeadline, Report, CallerCancels,
      DeadlinePasses, Returned, vars, coord, shared, bodies

(* The permits and counters the coordinator decides by are those of the    *)
(* bodies there are, for any number of tasks and permits.                  *)
THEOREM CountersAgree == Spec => []Accounting
<1>1. TypeOK /\ SafeInv /\ Accounting /\ [Next]_vars => Accounting'
  BY AccountingStep
<1> QED BY AccountingInit, <1>1, TypeCorrect, SafeAlways, PTL DEF Spec

-----------------------------------------------------------------------------
(* The coordinator's loop.                                                 *)

(* Where the coordinator is says what it knows of the tasks.               *)
Loop == LoopInv /\ StatusInv

LEMMA LoopInit == Init => Loop
<1> SUFFICES ASSUME Init PROVE Loop
  OBVIOUS
<1> QED
  BY DEF Init, Loop, LoopInv, CancelPlaces, BlockedPlaces, ReadyPlaces, StatusInv

(* Steps that move neither the coordinator nor an entry of the ledger, and *)
(* take no body out of the join set.                                       *)
LEMMA LoopQuiet ==
  ASSUME Loop, UNCHANGED <<deps, state, pc, cursor, changed, cancelSeen, status>>,
         \A t \in Task : body[t] \in InJoinSet => body'[t] \in InJoinSet
  PROVE  Loop'
<1>1. CancelPlaces' /\ StatusInv'
  BY DEF Loop, LoopInv, CancelPlaces, StatusInv
<1>2. BlockedPlaces'
  BY DEF Loop, LoopInv, BlockedPlaces, Blocked, StillBlocked, Bad, DepSet
<1>3. ReadyPlaces'
  BY DEF Loop, LoopInv, ReadyPlaces
<1> QED BY <1>1, <1>2, <1>3 DEF Loop, LoopInv

LEMMA LoopStep ==
  ASSUME TypeOK, TypeOK', SafeInv, Accounting, Loop, [Next]_vars
  PROVE  Loop'
<1> USE SizeAssumption DEF ledger, coord, shared, bodies, env, hist, Task
<1> SafeInv /\ LoopInv /\ CancelPlaces /\ BlockedPlaces /\ ReadyPlaces /\ StatusInv
  BY DEF Loop, LoopInv
<1>1. CASE Top
  <2>1. CancelPlaces' /\ StatusInv'
    BY <1>1 DEF Top, CancelPlaces, StatusInv, TypeOK
  <2>2. BlockedPlaces'
    BY <1>1 DEF Top, CancelPlaces, BlockedPlaces, TypeOK
  <2>3. ReadyPlaces'
    BY <1>1 DEF Top, CancelPlaces, ReadyPlaces, TypeOK
  <2> QED BY <2>1, <2>2, <2>3 DEF Loop, LoopInv
<1>2. CASE CancelVisit
  <2>1. /\ \A u \in Task : u # cursor => state'[u] = state[u]
        /\ state'[cursor] \notin Cancellable
        /\ state'[cursor] = state[cursor] \/ state'[cursor] = "Cancelled"
    BY <1>2 DEF CancelVisit, Cancellable, Fail, Transition, TypeOK
  <2>2. /\ pc' = pc /\ pc \in {"cancelOpen", "finalCancel"} /\ cursor' = cursor + 1
        /\ cursor \in Task /\ UNCHANGED <<cancelSeen, status, changed, deps>>
    BY <1>2 DEF CancelVisit
  <2>3. CancelPlaces' /\ StatusInv'
    BY <2>1, <2>2 DEF CancelPlaces, StatusInv, Cancellable
  <2>4. BlockedPlaces'
    BY <2>2 DEF BlockedPlaces
  <2>5. ReadyPlaces'
    BY <2>1, <2>2 DEF ReadyPlaces
  <2> QED BY <2>3, <2>4, <2>5 DEF Loop, LoopInv
<1>3. CASE CancelEnd
  <2>1. CancelPlaces' /\ StatusInv'
    BY <1>3 DEF CancelEnd, CancelPlaces, StatusInv, Cancellable, TypeOK
  <2>2. BlockedPlaces'
    BY <1>3 DEF CancelEnd, CancelPlaces, BlockedPlaces
  <2>3. ReadyPlaces'
    BY <1>3 DEF CancelEnd, CancelPlaces, ReadyPlaces
  <2> QED BY <2>1, <2>2, <2>3 DEF Loop, LoopInv
<1>4. CASE PropagateVisit
  <2>1. /\ pc' = "propagate" /\ pc = "propagate" /\ ~cancelSeen'
        /\ UNCHANGED <<status, deps>>
    BY <1>4 DEF PropagateVisit, CancelPlaces, TypeOK
  <2>2. CancelPlaces' /\ ReadyPlaces'
    BY <2>1 DEF CancelPlaces, ReadyPlaces
  <2>3. StatusInv'
    BY <2>1 DEF StatusInv
  <2>4. BlockedPlaces'
    <3>1. CASE changed'
      BY <2>1, <3>1 DEF BlockedPlaces
    <3>2. CASE ~changed'
      <4>1. /\ Blocked(cursor) /\ UNCHANGED <<state, deps>> /\ ~changed
            /\ cursor' = cursor + 1
        BY <1>4, <3>2 DEF PropagateVisit, Blocked, TypeOK
      <4>2. \A j \in Task : j < cursor' => Blocked(j)
        <5>1. \A j \in Task : j < cursor => Blocked(j)
          BY <2>1, <4>1 DEF BlockedPlaces
        <5>2. \A j \in Task : j < cursor' => j < cursor \/ j = cursor
          BY <4>1 DEF TypeOK
        <5> QED BY <4>1, <5>1, <5>2
      <4> QED BY <2>1, <4>1, <4>2 DEF BlockedPlaces, Blocked, StillBlocked, Bad, DepSet
    <3> QED BY <3>1, <3>2
  <2> QED BY <2>2, <2>3, <2>4 DEF Loop, LoopInv
<1>5. CASE PropagateEnd
  <2>1. /\ pc = "propagate" /\ ~cancelSeen' /\ cursor' = 1 /\ ~changed'
        /\ pc' = IF changed THEN "propagate" ELSE "start"
        /\ cursor = N + 1 /\ UNCHANGED <<status, deps, state, cancelSeen>>
    BY <1>5 DEF PropagateEnd, CancelPlaces, TypeOK
  <2>2. CancelPlaces' /\ ReadyPlaces'
    BY <2>1 DEF CancelPlaces, ReadyPlaces
  <2>3. StatusInv'
    BY <2>1 DEF StatusInv
  <2>4. BlockedPlaces'
    <3>1. ~changed => \A t \in Task : Blocked(t)
      BY <2>1 DEF BlockedPlaces
    <3> QED BY <2>1, <3>1 DEF BlockedPlaces, Blocked, StillBlocked, Bad, DepSet
  <2> QED BY <2>2, <2>3, <2>4 DEF Loop, LoopInv
<1>6. CASE StartVisit
  <2>1. /\ pc = "start" /\ ~cancelSeen /\ pc' \in {"start", "top", "acquire", "wait"}
        /\ UNCHANGED <<status, deps, state, cancelSeen, body>>
    BY <1>6 DEF StartVisit, CancelPlaces
  <2>2. CancelPlaces' /\ StatusInv'
    BY <2>1 DEF CancelPlaces, StatusInv
  <2>3. BlockedPlaces'
    BY <2>1 DEF BlockedPlaces, Blocked, StillBlocked, Bad, DepSet
  <2>4. ReadyPlaces'
    BY <1>6, <2>1 DEF StartVisit, ReadyPlaces, TypeOK
  <2> QED BY <2>2, <2>3, <2>4 DEF Loop, LoopInv
<1>7. CASE NoPermit
  <2>1. /\ pc = "acquire" /\ ~cancelSeen /\ pc' = "wait" /\ permits = 0
        /\ UNCHANGED <<status, deps, state, cancelSeen, body, cursor>>
    BY <1>7 DEF NoPermit, CancelPlaces, PermitFree, TypeOK
  <2>2. CancelPlaces' /\ StatusInv'
    BY <2>1 DEF CancelPlaces, StatusInv
  <2>3. BlockedPlaces'
    BY <2>1 DEF BlockedPlaces, Blocked, StillBlocked, Bad, DepSet
  <2>4. \E t \in Task : body[t] \in InJoinSet
    <3>1. Cardinality(Holders) = MaxParallel /\ Holders \in SUBSET Task
      BY <2>1, BodiesFinite DEF Accounting, Holders
    <3>2. Holders # {}
      BY <3>1, FS_EmptySet
    <3> QED BY <3>2 DEF Holders, Alive, InJoinSet
  <2>5. ReadyPlaces'
    BY <2>1, <2>4 DEF ReadyPlaces
  <2> QED BY <2>2, <2>3, <2>5 DEF Loop, LoopInv
<1>8. CASE StartTask
  <2>1. /\ pc = "acquire" /\ ~cancelSeen /\ pc' = "start" /\ cursor' = cursor + 1
        /\ UNCHANGED <<status, deps, cancelSeen>> /\ cursor \in Task
        /\ state[cursor] = "Ready" /\ state'[cursor] = "Running"
        /\ \A u \in Task : u # cursor => state'[u] = state[u]
    BY <1>8 DEF StartTask, CancelPlaces, TypeOK, SafeInv, AcquireReady, Succeed, Transition
  <2>2. CancelPlaces' /\ StatusInv'
    BY <2>1 DEF CancelPlaces, StatusInv
  <2>3. BlockedPlaces'
    <3>1. ASSUME NEW t \in Task PROVE Blocked(t)'
      <4>1. Blocked(t) /\ \A d \in DepSet(deps, t) : d \in Task
        BY <2>1 DEF BlockedPlaces, DepSet, TypeOK
      <4> QED BY <2>1, <4>1 DEF Blocked, StillBlocked, Bad, EndedBadly, DepSet
    <3> QED BY <2>1, <3>1 DEF BlockedPlaces
  <2>4. ReadyPlaces'
    BY <2>1 DEF ReadyPlaces
  <2> QED BY <2>2, <2>3, <2>4 DEF Loop, LoopInv
<1>9. CASE Drained
  <2>1. /\ pc = "wait" /\ pc' = (IF cancelSeen THEN "finalCancel" ELSE "report")
        /\ cursor' = 1 /\ live = 0
        /\ UNCHANGED <<status, deps, state, cancelSeen, body>>
    BY <1>9 DEF Drained, AfterLoop
  <2>2. \A t \in Task : body[t] \notin InJoinSet
    <3>1. Cardinality(JoinSet) = 0 /\ JoinSet \in SUBSET Task
      BY <2>1 DEF Accounting, JoinSet
    <3>2. JoinSet = {}
      BY <3>1, BodiesFinite, FS_EmptySet
    <3> QED BY <3>2 DEF JoinSet
  <2>3. \A t \in Task : state[t] # "Running" /\ state[t] # "Ready"
    BY <2>1, <2>2 DEF SafeInv, LedgerSafe, NoOrphanBody, ReadyPlaces, CancelPlaces
  <2>4. CancelPlaces' /\ StatusInv'
    BY <2>1 DEF CancelPlaces, StatusInv
  <2>5. BlockedPlaces'
    BY <2>1 DEF BlockedPlaces, Blocked, StillBlocked, Bad, DepSet
  <2>6. ReadyPlaces'
    BY <2>1, <2>3 DEF ReadyPlaces
  <2> QED BY <2>4, <2>5, <2>6 DEF Loop, LoopInv
<1>10. CASE OnCallerCancel \/ OnDeadline
  <2>1. /\ pc = "wait" /\ pc' = "top"
        /\ UNCHANGED <<status, deps, state, cancelSeen>>
    BY <1>10 DEF OnCallerCancel, OnDeadline
  <2>2. CancelPlaces' /\ StatusInv' /\ BlockedPlaces' /\ ReadyPlaces'
    BY <2>1 DEF CancelPlaces, StatusInv, BlockedPlaces, ReadyPlaces
  <2> QED BY <2>2 DEF Loop, LoopInv
<1>11. ASSUME NEW t \in Task, Join(t) PROVE Loop'
  <2>1. /\ pc = "wait" /\ pc' = "top" /\ UNCHANGED <<status, deps, cancelSeen>>
    BY <1>11 DEF Join
  <2>2. /\ \A u \in Task : u # t => state'[u] = state[u]
        /\ state'[t] \notin {"Pending", "Ready"}
    BY <1>11 DEF Join, Settle, Succeed, Fail, Transition, TypeOK
  <2>3. CancelPlaces'
    BY <2>1, <2>2 DEF CancelPlaces
  <2>4. StatusInv' /\ BlockedPlaces' /\ ReadyPlaces'
    BY <2>1 DEF StatusInv, BlockedPlaces, ReadyPlaces
  <2> QED BY <2>3, <2>4 DEF Loop, LoopInv
<1>12. CASE Report
  <2>1. /\ pc = "report" /\ pc' = "done" /\ UNCHANGED <<deps, state, cancelSeen, body>>
    BY <1>12 DEF Report
  <2>2. CancelPlaces' /\ ReadyPlaces'
    BY <2>1 DEF CancelPlaces, ReadyPlaces
  <2>3. BlockedPlaces'
    BY <2>1 DEF BlockedPlaces, Blocked, StillBlocked, Bad, DepSet
  <2>4. StatusInv'
    BY <1>12, <2>1 DEF Report, StatusInv
  <2> QED BY <2>2, <2>3, <2>4 DEF Loop, LoopInv
<1>13. ASSUME NEW t \in Task, BodyStart(t) \/ BodyInterrupted(t) \/ BodyEnds(t) PROVE Loop'
  <2>1. \A u \in Task : body[u] \in InJoinSet => body'[u] \in InJoinSet
    BY <1>13 DEF BodyStart, BodyInterrupted, BodyEnds, End, InJoinSet, TypeOK
  <2>2. UNCHANGED <<deps, state, pc, cursor, changed, cancelSeen, status>>
    BY <1>13 DEF BodyStart, BodyInterrupted, BodyEnds, End
  <2> QED BY <2>1, <2>2, LoopQuiet
<1>14. CASE CallerCancels \/ DeadlinePasses \/ UNCHANGED vars
  BY <1>14, LoopQuiet DEF CallerCancels, DeadlinePasses, vars
<1> QED
  BY <1>1, <1>2, <1>3, <1>4, <1>5, <1>6, <1>7, <1>8, <1>9, <1>10, <1>11, <1>12,
     <1>13, <1>14
  DEF Next, Coordinator, Returned

LEMMA LoopAlways == Spec => []Loop
<1>1. TypeOK /\ TypeOK' /\ SafeInv /\ Accounting /\ Loop /\ [Next]_vars => Loop'
  BY LoopStep
<1> QED BY LoopInit, <1>1, TypeCorrect, SafeAlways, CountersAgree, PTL DEF Spec

-----------------------------------------------------------------------------
(* What is reported.                                                       *)

(* Every set of numbers has a least one.                                   *)
LEMMA LeastNumber ==
  ASSUME NEW S \in SUBSET Nat, S # {}
  PROVE  \E m \in S : \A n \in S : m <= n
<1> DEFINE R == {ss \in Nat \X Nat : ss[1] < ss[2]}
<1>1. IsWellFoundedOn(R, Nat)
  BY NatLessThanWellFounded, Zenon DEF OpToRel
<1>2. PICK m \in S : \A n \in S : <<n, m>> \notin R
  <2> HIDE DEF R
  <2> QED BY <1>1, WFMin
<1>3. \A n \in S : n < m => <<n, m>> \in R
  OBVIOUS
<1>4. \A n \in S : n \in Nat /\ m \in Nat /\ ~(n < m)
  <2> HIDE DEF R
  <2> QED BY <1>2, <1>3
<1> QED BY <1>4

(* Of all tasks that are left Pending, the one of least rank is held up by *)
(* a task that is not Pending.                                             *)
LEMMA PendingIsHeldUp ==
  ASSUME NEW g \in Graphs, NEW S \in SUBSET Task, S # {}
  PROVE  \E t \in S : \A d \in DepSet(g, t) : d \notin S
<1>1. PICK rank \in [Task -> Task] : \A t \in Task : \A d \in DepSet(g, t) : rank[d] < rank[t]
  BY GraphAssumption
<1>2. {rank[t] : t \in S} \in SUBSET Nat /\ {rank[t] : t \in S} # {}
  <2>1. \A t \in S : rank[t] \in Nat
    BY <1>1 DEF Task
  <2> QED BY <2>1
<1>3. PICK m \in {rank[t] : t \in S} : \A n \in {rank[t] : t \in S} : m <= n
  BY <1>2, LeastNumber
<1>4. PICK t \in S : rank[t] = m
  BY <1>3
<1>5. ASSUME NEW d \in DepSet(g, t), d \in S PROVE FALSE
  <2>1. rank[d] < rank[t] /\ rank[t] <= rank[d]
    BY <1>1, <1>3, <1>4, <1>5
  <2>2. rank[d] \in Nat /\ rank[t] \in Nat
    BY <1>1, <1>5 DEF Task
  <2> QED BY <2>1, <2>2
<1> QED BY <1>4, <1>5

(* What blocks a blocked task has not ended.                               *)
LEMMA HoldsUp ==
  ASSUME TypeOK, NEW t \in Task, StillBlocked(t)
  PROVE  \E d \in DepSet(deps, t) :
           d \in Task /\ state[d] # "Completed" /\ state[d] \notin EndedBadly
<1>1. \A d \in DepSet(deps, t) : d \in Task
  BY DEF DepSet, TypeOK
<1> QED BY <1>1, Zenon DEF StillBlocked, Bad

DepsBuilt == deps \in Graphs

LEMMA DepsStay == Spec => []DepsBuilt
<1>1. Init => DepsBuilt
  BY DEF Init, DepsBuilt
<1>2. DepsBuilt /\ [Next]_vars => DepsBuilt'
  BY DEF DepsBuilt, Next, Coordinator, Top, CancelVisit, CancelEnd, PropagateVisit,
     PropagateEnd, StartVisit, NoPermit, StartTask, Drained, OnCallerCancel, OnDeadline,
     Join, Report, BodyStart, BodyInterrupted, BodyEnds, End, CallerCancels,
     DeadlinePasses, Returned, vars
<1> QED BY <1>1, <1>2, PTL DEF Spec

(* Once the loop is over and nothing waits for an approval, no task is     *)
(* left Pending: those that are would all be blocked by each other.        *)
LEMMA NothingLeftPending ==
  ASSUME TypeOK, Loop, DepsBuilt, pc \in {"report", "done"},
         \A t \in Task : state[t] # "WaitingForApproval"
  PROVE  \A t \in Task : state[t] \in Terminal
<1>1. \A t \in Task : state[t] \notin {"Ready", "Running"}
  BY DEF Loop, LoopInv, ReadyPlaces
<1> DEFINE S == {t \in Task : state[t] = "Pending"}
<1>2. ASSUME S # {} PROVE FALSE
  <2>1. PICK t \in S : \A d \in DepSet(deps, t) : d \notin S
    <3> HIDE DEF S
    <3>1. S \in SUBSET Task
      BY DEF S
    <3> QED BY <1>2, <3>1, PendingIsHeldUp DEF DepsBuilt
  <2>2. ~cancelSeen
    BY <2>1 DEF Loop, LoopInv, CancelPlaces, Cancellable
  <2>3. StillBlocked(t)
    BY <2>1, <2>2 DEF Loop, LoopInv, BlockedPlaces, Blocked
  <2>4. PICK d \in DepSet(deps, t) :
          d \in Task /\ state[d] # "Completed" /\ state[d] \notin EndedBadly
    BY <2>1, <2>3, HoldsUp
  <2> QED BY <1>1, <2>1, <2>4 DEF EndedBadly, TypeOK, TaskState
<1> QED BY <1>1, <1>2 DEF TypeOK, TaskState, Terminal

(* The status the caller gets is what happened to the tasks, whatever      *)
(* failed, was cancelled or asked for approval at whatever moment.         *)
THEOREM ReportIsTruthful == Spec => []ReportTruthful
<1>1. TypeOK /\ Loop /\ DepsBuilt => ReportTruthful
  <2> SUFFICES ASSUME TypeOK, Loop, DepsBuilt, pc = "done" PROVE ReportTruthful
    BY DEF ReportTruthful
  <2>1. \A t \in Task : state[t] \notin {"Ready", "Running"}
    BY DEF Loop, LoopInv, ReadyPlaces
  <2>2. status = "Completed" => \A t \in Task : state[t] = "Completed"
    BY DEF Loop, StatusInv
  <2>3. CASE status = "Cancelled"
    <3>1. \A t \in Task : state[t] \notin Cancellable
      BY <2>3 DEF Loop, LoopInv, StatusInv, CancelPlaces
    <3> QED BY <2>1, <2>3, <3>1
        DEF ReportTruthful, Cancellable, Terminal, TypeOK, TaskState
  <2>4. CASE status = "Failed"
    <3>1. /\ \A t \in Task : state[t] # "WaitingForApproval"
          /\ \E t \in Task : state[t] # "Completed"
      BY <2>4 DEF Loop, StatusInv
    <3>2. \A t \in Task : state[t] \in Terminal
      BY <3>1, NothingLeftPending
    <3> QED BY <2>1, <2>4, <3>1, <3>2 DEF ReportTruthful, Terminal, EndedBadly
  <2>5. CASE status = "WaitingForApproval"
    <3>1. ~cancelSeen /\ \E t \in Task : state[t] = "WaitingForApproval"
      BY <2>5 DEF Loop, StatusInv
    <3>2. ASSUME NEW t \in Task, state[t] = "Pending"
          PROVE  \E d \in DepSet(deps, t) : state[d] \in {"Pending", "WaitingForApproval"}
      <4>1. StillBlocked(t)
        BY <3>1, <3>2 DEF Loop, LoopInv, BlockedPlaces, Blocked
      <4>2. PICK d \in DepSet(deps, t) :
              d \in Task /\ state[d] # "Completed" /\ state[d] \notin EndedBadly
        BY <4>1, HoldsUp
      <4> QED BY <2>1, <4>2 DEF EndedBadly, TypeOK, TaskState
    <3> QED BY <2>1, <2>5, <3>1, <3>2 DEF ReportTruthful
  <2>6. status \in {"Cancelled", "Failed", "WaitingForApproval", "Completed"}
    BY DEF Loop, StatusInv, TypeOK
  <2> QED BY <2>1, <2>2, <2>3, <2>4, <2>5, <2>6 DEF ReportTruthful
<1> QED BY <1>1, TypeCorrect, LoopAlways, DepsStay, PTL

-----------------------------------------------------------------------------
(* The refinement mapping: where each step leaves the phases.              *)

(* Phase by the ledger's state.                                            *)
LEMMA PhaseIs ==
  \A t \in Task :
    /\ state[t] \in {"Pending", "Ready"} => Phase(t) = "open"
    /\ state[t] = "Running" /\ body[t] \in Alive => Phase(t) = "active"
    /\ state[t] = "Running" /\ body[t] \notin Alive => Phase(t) = "returned"
    /\ state[t] = "WaitingForApproval" => Phase(t) = "waiting"
    /\ state[t] = "Completed" => Phase(t) = "done"
    /\ state[t] \in EndedBadly => Phase(t) = "dropped"
<1> SUFFICES ASSUME NEW t \in Task
             PROVE  /\ state[t] \in {"Pending", "Ready"} => Phase(t) = "open"
                    /\ state[t] = "Running" /\ body[t] \in Alive => Phase(t) = "active"
                    /\ state[t] = "Running" /\ body[t] \notin Alive => Phase(t) = "returned"
                    /\ state[t] = "WaitingForApproval" => Phase(t) = "waiting"
                    /\ state[t] = "Completed" => Phase(t) = "done"
                    /\ state[t] \in EndedBadly => Phase(t) = "dropped"
  OBVIOUS
<1> QED BY DEF Phase, EndedBadly

MovesTo(t, p) ==
  /\ Phase(t)' = p /\ \A u \in Task : u # t => Phase(u)' = Phase(u)
  /\ status = "none" /\ UNCHANGED <<deps, cancelSeen, status>>

Stutters ==
  /\ \A u \in Task : Phase(u)' = Phase(u)
  /\ UNCHANGED <<deps, cancelSeen, status>>

LEMMA MoveMaps ==
  ASSUME NEW t \in Task, NEW p, MovesTo(t, p)
  PROVE  Abstract!Move(t, p)
<1>1. [u \in Task |-> Phase(u)]' = [[u \in Task |-> Phase(u)] EXCEPT ![t] = p]
  BY DEF MovesTo
<1>2. UNCHANGED <<[u \in Task |-> DepSet(deps, u)], cancelSeen, status>> /\ status = "none"
  BY DEF MovesTo
<1> QED BY <1>1, <1>2 DEF Abstract!Move

LEMMA StutterMaps ==
  ASSUME Stutters
  PROVE  UNCHANGED Abstract!graphVars
<1>1. [u \in Task |-> Phase(u)]' = [u \in Task |-> Phase(u)]
  BY DEF Stutters
<1>2. UNCHANGED <<[u \in Task |-> DepSet(deps, u)], cancelSeen, status>>
  BY DEF Stutters
<1> QED BY <1>1, <1>2 DEF Abstract!graphVars

LEMMA InitMaps == Init => Abstract!GraphInit
<1> SUFFICES ASSUME Init PROVE Abstract!GraphInit
  OBVIOUS
<1>1. [u \in Task |-> Phase(u)] = [u \in Task |-> "open"]
  BY PhaseIs DEF Init
<1>2. [u \in Task |-> DepSet(deps, u)] \in [Task -> SUBSET Task]
  BY GraphAssumption DEF Init, DepSet
<1> QED BY <1>1, <1>2 DEF Abstract!GraphInit, Init

(* The same for the next state, and what leaves a task where it is.        *)
LEMMA PhaseNext ==
  ASSUME NEW t \in Task
  PROVE  /\ state'[t] \in {"Pending", "Ready"} => Phase(t)' = "open"
         /\ state'[t] = "Running" /\ body'[t] \in Alive => Phase(t)' = "active"
         /\ state'[t] = "Running" /\ body'[t] \notin Alive => Phase(t)' = "returned"
         /\ state'[t] = "WaitingForApproval" => Phase(t)' = "waiting"
         /\ state'[t] = "Completed" => Phase(t)' = "done"
         /\ state'[t] \in EndedBadly => Phase(t)' = "dropped"
         /\ state'[t] = state[t] /\ (body'[t] \in Alive <=> body[t] \in Alive) =>
              Phase(t)' = Phase(t)
<1> QED BY DEF Phase, EndedBadly

(* The mapped variables, applied.                                          *)
LEMMA DepPhase ==
  ASSUME NEW t \in Task
  PROVE  /\ [u \in Task |-> Phase(u)][t] = Phase(t)
         /\ [u \in Task |-> DepSet(deps, u)][t] = DepSet(deps, t)
OBVIOUS

(* The abstract module counts with an instance of Cardinality of its own.  *)
LEMMA SameSize == \A S : Abstract!Cardinality(S) = Cardinality(S)
BY DEF Abstract!Cardinality, Cardinality

LEMMA StepMaps ==
  ASSUME TypeOK, SafeInv, Accounting, Loop, DepsBuilt, [Next]_vars
  PROVE  Abstract!GraphNext \/ UNCHANGED Abstract!graphVars
<1> USE DEF ledger, coord, shared, bodies, env, hist
<1> DEFINE Goal == Abstract!GraphNext \/ UNCHANGED Abstract!graphVars
<1> LoopInv /\ StatusInv /\ CancelPlaces /\ LedgerSafe
  BY DEF Loop, LoopInv, SafeInv
<1>0. /\ \A t \in Task : \A d \in DepSet(deps, t) : d \in Task
      /\ pc # "done" => status = "none"
  BY DEF DepSet, TypeOK, StatusInv
<1>1. ASSUME Stutters PROVE Goal
  BY <1>1, StutterMaps
<1>2. CASE UNCHANGED <<state, body, deps, cancelSeen, status>>
  <2>1. \A u \in Task : Phase(u)' = Phase(u)
    BY <1>2, PhaseNext
  <2> QED BY <1>1, <1>2, <2>1 DEF Stutters
<1>3. CASE Top
  <2>1. \A u \in Task : Phase(u)' = Phase(u)
    BY <1>3, PhaseNext DEF Top
  <2>2. CASE cancelSeen' = cancelSeen
    BY <1>1, <1>3, <2>1, <2>2 DEF Top, Stutters
  <2>3. CASE cancelSeen' # cancelSeen
    <3>1. ~cancelSeen /\ cancelSeen' = TRUE /\ status = "none" /\ UNCHANGED <<deps, status>>
      BY <1>0, <1>3, <2>3 DEF Top, TypeOK
    <3>2. [u \in Task |-> Phase(u)]' = [u \in Task |-> Phase(u)]
      BY <2>1
    <3> QED BY <3>1, <3>2 DEF Abstract!GraphNext, Abstract!Stop
  <2> QED BY <2>2, <2>3
<1>4. CASE CancelVisit
  <2>0. PICK c \in Task : c = cursor
    BY <1>4 DEF CancelVisit
  <2>1. /\ cancelSeen /\ status = "none"
        /\ UNCHANGED <<deps, cancelSeen, status, body>>
    BY <1>0, <1>4 DEF CancelVisit, CancelPlaces
  <2>2. CASE UNCHANGED ledger
    BY <1>2, <2>1, <2>2
  <2>3. CASE /\ state[c] \in Cancellable
             /\ Fail(c, "Cancelled", "Cancelled", CancelCertainty(c), 0)
    <3>1. /\ state'[c] = "Cancelled"
          /\ \A u \in Task : u # c => state'[u] = state[u]
      BY <2>1, <2>3 DEF Fail, Transition, TypeOK
    <3>2. Phase(c)' = "dropped" /\ \A u \in Task : u # c => Phase(u)' = Phase(u)
      BY <2>1, <3>1, PhaseNext DEF EndedBadly
    <3>3. Abstract!Move(c, "dropped")
      BY <2>1, <3>2, MoveMaps DEF MovesTo
    <3>4. Phase(c) = "open" \/ Phase(c) = "waiting"
      BY <2>1, <2>3, PhaseIs DEF Cancellable
    <3>5. Abstract!DropOpen(c) \/ Abstract!DropWaiting(c)
      BY <2>1, <3>3, <3>4, DepPhase DEF Abstract!DropOpen, Abstract!DropWaiting
    <3> QED BY <2>1, <3>5 DEF Abstract!GraphNext
  <2> QED BY <1>4, <2>0, <2>2, <2>3 DEF CancelVisit
<1>5. CASE PropagateVisit
  <2>0. PICK c \in Task : c = cursor
    BY <1>5 DEF PropagateVisit
  <2>1. /\ status = "none"
        /\ UNCHANGED <<deps, cancelSeen, status, body>>
    BY <1>0, <1>5 DEF PropagateVisit
  <2>2. CASE UNCHANGED ledger
    BY <1>2, <2>1, <2>2
  <2>3. CASE state[c] = "Pending" /\ Skip(c)
    <3>1. PICK k \in DOMAIN deps[c] :
            /\ Bad(deps[c][k])
            /\ Fail(c, "Skipped", "Rejected", "NoEffect", deps[c][k])
      BY <2>3 DEF Skip
    <3>2. /\ state'[c] = "Skipped"
          /\ \A u \in Task : u # c => state'[u] = state[u]
      BY <2>1, <3>1 DEF Fail, Transition, TypeOK
    <3>3. Phase(c)' = "dropped" /\ \A u \in Task : u # c => Phase(u)' = Phase(u)
      BY <2>1, <3>2, PhaseNext DEF EndedBadly
    <3>4. Abstract!Move(c, "dropped")
      BY <2>1, <3>3, MoveMaps DEF MovesTo
    <3>5. PICK d \in DepSet(deps, c) : d \in Task /\ state[d] \in EndedBadly
      BY <1>0, <2>1, <3>1 DEF DepSet, Bad
    <3>6. Phase(c) = "open" /\ Phase(d) = "dropped"
      BY <2>1, <2>3, <3>5, PhaseIs
    <3>7. Abstract!DropOpen(c)
      BY <2>1, <3>4, <3>5, <3>6, DepPhase DEF Abstract!DropOpen
    <3> QED BY <2>1, <3>7 DEF Abstract!GraphNext
  <2>4. CASE state[c] = "Pending" /\ Unblock(c)
    <3>1. /\ state'[c] = "Ready"
          /\ \A u \in Task : u # c => state'[u] = state[u]
      BY <2>1, <2>4 DEF Unblock, Succeed, Transition, TypeOK
    <3>2. \A u \in Task : Phase(u)' = Phase(u)
      BY <2>1, <2>4, <3>1, PhaseIs, PhaseNext
    <3> QED BY <1>1, <2>1, <3>2 DEF Stutters
  <2> QED BY <1>5, <2>0, <2>2, <2>3, <2>4 DEF PropagateVisit
<1>6. CASE StartTask
  <2>0. PICK c \in Task : c = cursor
    BY <1>6 DEF StartTask, TypeOK
  <2>1. /\ status = "none" /\ ~cancelSeen /\ permits > 0
        /\ UNCHANGED <<deps, cancelSeen, status>>
        /\ state[c] = "Ready" /\ state'[c] = "Running"
        /\ body'[c] = "spawned"
        /\ \A u \in Task : u # c => state'[u] = state[u] /\ body'[u] = body[u]
    BY <1>0, <1>6, <2>0 DEF StartTask, PermitFree, CancelPlaces, TypeOK, SafeInv, AcquireReady,
       Succeed, Transition
  <2>2. Phase(c)' = "active" /\ \A u \in Task : u # c => Phase(u)' = Phase(u)
    BY <2>1, PhaseNext DEF Alive
  <2>3. Abstract!Move(c, "active")
    BY <2>1, <2>2, MoveMaps DEF MovesTo
  <2>4. Phase(c) = "open"
    BY <2>1, PhaseIs
  <2>5. \A d \in DepSet(deps, c) : d \in Task /\ Phase(d) = "done"
    BY <1>0, <2>1, PhaseIs DEF LedgerSafe, StartedInOrder
  <2>6. {u \in Task : [t \in Task |-> Phase(t)][u] = "active"} = Holders
    <3>1. ASSUME NEW u \in Task PROVE Phase(u) = "active" <=> body[u] \in Alive
      <4>1. body[u] \in Alive => state[u] = "Running"
        BY DEF LedgerSafe, NoOrphanBody, Alive, InJoinSet
      <4>2. state[u] \in TaskState
        BY DEF TypeOK
      <4> QED BY <4>1, <4>2, PhaseIs DEF TaskState, EndedBadly
    <3> QED BY <3>1 DEF Holders
  <2>7. Cardinality(Holders) < MaxParallel
    <3>1. permits + Cardinality(Holders) = MaxParallel /\ Holders \in SUBSET Task
      BY DEF Accounting, Holders
    <3>2. Cardinality(Holders) \in Nat /\ permits \in Nat
      BY <3>1, BodiesFinite DEF TypeOK
    <3> QED BY <2>1, <3>1, <3>2, SizeAssumption
  <2>8. Abstract!Activate(c)
    <3>1. Abstract!Cardinality({u \in Task : [t \in Task |-> Phase(t)][u] = "active"})
            < MaxParallel
      BY <2>6, <2>7, SameSize
    <3>2. [t \in Task |-> Phase(t)][c] = "open"
      BY <2>4
    <3>3. \A d \in [t \in Task |-> DepSet(deps, t)][c] : [t \in Task |-> Phase(t)][d] = "done"
      BY <2>5
    <3> QED BY <2>1, <2>3, <3>1, <3>2, <3>3, Zenon DEF Abstract!Activate
  <2> QED BY <2>1, <2>8 DEF Abstract!GraphNext
<1>7. ASSUME NEW t \in Task, Join(t) PROVE Goal
  <2>1. /\ status = "none" /\ UNCHANGED <<deps, cancelSeen, status>>
        /\ body[t] = "ended" /\ body'[t] = "joined"
        /\ \A u \in Task : u # t => body'[u] = body[u]
    BY <1>0, <1>7 DEF Join, TypeOK
  <2>2. state[t] = "Running"
    BY <2>1 DEF LedgerSafe, NoOrphanBody, InJoinSet
  <2>3. /\ \A u \in Task : u # t => state'[u] = state[u]
        /\ state'[t] \in {"Completed", "WaitingForApproval", "Failed", "Cancelled"}
    BY <1>7 DEF Join, Settle, Succeed, Fail, Transition, TypeOK
  <2>4. PICK p \in {"done", "dropped", "waiting"} : Phase(t)' = p
    BY <2>3, PhaseNext DEF EndedBadly
  <2>5. \A u \in Task : u # t => Phase(u)' = Phase(u)
    BY <2>1, <2>3, PhaseNext
  <2>6. Abstract!Move(t, p)
    BY <2>1, <2>4, <2>5, MoveMaps DEF MovesTo
  <2>7. Phase(t) = "returned"
    BY <2>1, <2>2, PhaseIs DEF Alive
  <2>8. Abstract!Judge(t)
    BY <2>6, <2>7, DepPhase DEF Abstract!Judge
  <2> QED BY <2>8 DEF Abstract!GraphNext
<1>8. ASSUME NEW t \in Task, NEW how, body[t] \in Alive, End(t, how) PROVE Goal
  <2>1. state[t] = "Running"
    BY <1>8 DEF LedgerSafe, NoOrphanBody, Alive, InJoinSet
  <2>2. /\ status = "none" /\ UNCHANGED <<deps, cancelSeen, status, state>>
        /\ body'[t] = "ended" /\ \A u \in Task : u # t => body'[u] = body[u]
    BY <1>0, <1>8, <2>1 DEF End, TypeOK, LoopInv, ReadyPlaces
  <2>3. Phase(t)' = "returned" /\ \A u \in Task : u # t => Phase(u)' = Phase(u)
    BY <2>1, <2>2, PhaseNext DEF Alive
  <2>4. Abstract!Move(t, "returned")
    BY <2>2, <2>3, MoveMaps DEF MovesTo
  <2>5. Phase(t) = "active"
    BY <1>8, <2>1, PhaseIs
  <2>6. Abstract!Return(t)
    BY <2>4, <2>5, DepPhase DEF Abstract!Return
  <2> QED BY <2>6 DEF Abstract!GraphNext
<1>9. ASSUME NEW t \in Task, BodyInterrupted(t) \/ BodyEnds(t) PROVE Goal
  BY <1>8, <1>9 DEF BodyInterrupted, BodyEnds, Alive
<1>10. ASSUME NEW t \in Task, BodyStart(t) PROVE Goal
  <2>1. /\ UNCHANGED <<deps, cancelSeen, status, state>>
        /\ body[t] = "spawned" /\ body'[t] = "running"
        /\ \A u \in Task : u # t => body'[u] = body[u]
    BY <1>10 DEF BodyStart, TypeOK
  <2>2. \A u \in Task : Phase(u)' = Phase(u)
    BY <2>1, PhaseNext DEF Alive
  <2> QED BY <1>1, <2>1, <2>2 DEF Stutters
<1>11. CASE Report
  <2>0. PICK v \in {"Cancelled", "Completed", "Failed", "WaitingForApproval"} : status' = v
    BY <1>11 DEF Report
  <2>1. /\ pc = "report" /\ status = "none" /\ UNCHANGED <<deps, state, body, cancelSeen>>
    BY <1>0, <1>11 DEF Report
  <2>2. \A t \in Task : state[t] \in TaskState /\ state[t] \notin {"Ready", "Running"}
    BY <2>1 DEF LoopInv, ReadyPlaces, TypeOK
  <2>3. \A u \in Task : Phase(u)' = Phase(u)
    BY <2>1, PhaseNext
  <2>4. /\ status = "none" /\ status' = v
        /\ \A t \in Task : Phase(t) \notin {"active", "returned"}
        /\ UNCHANGED <<[u \in Task |-> DepSet(deps, u)], [u \in Task |-> Phase(u)], cancelSeen>>
    BY <2>0, <2>1, <2>2, <2>3, PhaseIs DEF TaskState, EndedBadly
  <2>5. CASE cancelSeen
    <3>1. v = "Cancelled" /\ \A t \in Task : state[t] \in Terminal
      BY <1>11, <2>0, <2>1, <2>2, <2>5
         DEF Report, LoopInv, CancelPlaces, Cancellable, Terminal, TaskState
    <3>2. \A t \in Task : Phase(t) \in {"done", "dropped"}
      BY <3>1, PhaseIs DEF Terminal, EndedBadly
    <3>3. Abstract!Conclude("Cancelled")
      BY <2>4, <2>5, <3>1, <3>2 DEF Abstract!Conclude, Abstract!Settled
    <3> QED BY <3>3 DEF Abstract!GraphNext
  <2>6. CASE ~cancelSeen /\ \E t \in Task : state[t] = "WaitingForApproval"
    <3>1. v = "WaitingForApproval"
      BY <1>11, <2>0, <2>6 DEF Report
    <3>2. \E t \in Task : Phase(t) = "waiting"
      BY <2>6, PhaseIs
    <3>3. ASSUME NEW t \in Task, Phase(t) = "open"
          PROVE  \E d \in DepSet(deps, t) : d \in Task /\ Phase(d) \in {"open", "waiting"}
      <4>1. state[t] = "Pending"
        BY <2>2, <3>3, PhaseIs DEF TaskState, EndedBadly
      <4>2. StillBlocked(t)
        BY <2>1, <2>6, <4>1 DEF Loop, LoopInv, BlockedPlaces, Blocked
      <4>3. PICK d \in DepSet(deps, t) :
              d \in Task /\ state[d] # "Completed" /\ state[d] \notin EndedBadly
        BY <4>2, HoldsUp
      <4> QED BY <2>2, <4>3, PhaseIs DEF TaskState, EndedBadly
    <3>4. Abstract!Conclude("WaitingForApproval")
      BY <2>4, <2>6, <3>1, <3>2, <3>3, DepPhase DEF Abstract!Conclude
    <3> QED BY <3>4 DEF Abstract!GraphNext
  <2>7. CASE ~cancelSeen /\ \A t \in Task : state[t] # "WaitingForApproval"
    <3>1. \A t \in Task : state[t] \in Terminal
      BY <2>1, <2>7, NothingLeftPending
    <3>2. \A t \in Task : Phase(t) \in {"done", "dropped"}
      BY <3>1, PhaseIs DEF Terminal, EndedBadly
    <3>3. CASE \A t \in Task : state[t] = "Completed"
      <4>1. v = "Completed" /\ \A t \in Task : Phase(t) = "done"
        BY <1>11, <2>0, <2>7, <3>3, PhaseIs DEF Report
      <4>2. Abstract!Conclude("Completed")
        BY <2>4, <2>7, <4>1 DEF Abstract!Conclude
      <4> QED BY <4>2 DEF Abstract!GraphNext
    <3>4. CASE \E t \in Task : state[t] # "Completed"
      <4>1. v = "Failed" /\ \E t \in Task : Phase(t) = "dropped"
        BY <1>11, <2>0, <2>7, <3>1, <3>4, PhaseIs DEF Report, Terminal, EndedBadly
      <4>2. Abstract!Conclude("Failed")
        BY <2>4, <2>7, <3>2, <4>1 DEF Abstract!Conclude, Abstract!Settled
      <4> QED BY <4>2 DEF Abstract!GraphNext
    <3> QED BY <3>3, <3>4
  <2> QED BY <2>5, <2>6, <2>7
<1> QED
  BY <1>2, <1>3, <1>4, <1>5, <1>6, <1>7, <1>9, <1>10, <1>11
  DEF Next, Coordinator, CancelEnd, PropagateEnd, StartVisit, NoPermit, Drained,
      OnCallerCancel, OnDeadline, CallerCancels, DeadlinePasses, Returned, vars

(* The executor implements the abstract scheduler: each of its steps is a  *)
(* step of TaskGraph or changes nothing there.                             *)
THEOREM ExecutorIsTaskGraph == Spec => ImplementsTaskGraph
<1>1. TypeOK /\ SafeInv /\ Accounting /\ Loop /\ DepsBuilt /\ [Next]_vars
        => [Abstract!GraphNext]_(Abstract!graphVars)
  BY StepMaps
<1>2. Init => Abstract!GraphInit
  BY InitMaps
<1>3. Spec => Abstract!GraphInit /\ [][Abstract!GraphNext]_(Abstract!graphVars)
  BY <1>1, <1>2, TypeCorrect, SafeAlways, CountersAgree, LoopAlways, DepsStay, PTL DEF Spec
<1> QED BY <1>3 DEF ImplementsTaskGraph, Abstract!GraphSpec
=============================================================================
