---------------------------- MODULE WorkflowInv ----------------------------
(***************************************************************************)
(* The inductive invariants behind the theorems of WorkflowProofs.         *)
(***************************************************************************)
EXTENDS Workflow

(* A body exists only for a task that was started, and a task that was     *)
(* never started is never marked as having acted.                          *)
BodyShape ==
  \A t \in Task :
    /\ state[t] \in {"Pending", "Ready", "Skipped"} => body[t] = "none"
    /\ ran[t] => body[t] # "none"

AcquireReady == pc = "acquire" => state[cursor] = "Ready"

(* Readiness is what carries dependency order from propagate to the start. *)
StartedInOrder ==
  \A t \in Task : state[t] = "Ready" \/ body[t] # "none" =>
    \A d \in DepSet(deps, t) : state[d] = "Completed"

FailureNumbers == \A t \in Task : failure[t].seq <= seq

(* The one late start is remembered, and rules out another one.            *)
LateOnce ==
  late = 0 \/ (late = 1 /\ (callerCancel \/ deadlinePassed) /\ pc # "acquire")

LedgerSafe ==
  /\ NoOrphanBody /\ BodyShape /\ StartedInOrder
  /\ FailuresExplained /\ FailureNumbers /\ NoEffectIsTrue

SafeInv == LedgerSafe /\ AcquireReady /\ LateOnce

-----------------------------------------------------------------------------
(* What the coordinator knows at each place of its loop.                   *)

Blocked(t) == state[t] = "Pending" => StillBlocked(t)

(* Once the cancel was seen there is no way back to the start loop, and    *)
(* what it found open is cancelled.                                        *)
CancelPlaces ==
  /\ cancelSeen => pc \notin {"propagate", "start", "acquire"}
  /\ pc \in {"cancelOpen", "finalCancel"} => cancelSeen
  /\ pc \in {"cancelOpen", "finalCancel"} =>
       \A j \in Task : j < cursor => state[j] \notin Cancellable
  /\ cancelSeen /\ pc \in {"top", "wait", "finalCancel"} =>
       \A t \in Task : state[t] \notin {"Pending", "Ready"}
  /\ cancelSeen /\ pc \in {"report", "done"} =>
       \A t \in Task : state[t] \notin Cancellable

(* After a pass of propagate without a change every Pending task has a     *)
(* prerequisite that is still open, until the next task is joined.         *)
BlockedPlaces ==
  /\ pc = "propagate" /\ ~changed =>
       \A j \in Task : j < cursor => Blocked(j)
  /\ pc \in {"start", "acquire", "wait", "report", "done"} /\ ~cancelSeen =>
       \A t \in Task : Blocked(t)

(* The start loop leaves a Ready task behind only when a body is still to  *)
(* be joined: NoPermit means that some body holds a permit.                *)
ReadyPlaces ==
  /\ pc \in {"start", "acquire"} =>
       \A j \in Task : j < cursor => state[j] # "Ready"
  /\ pc = "wait" /\ ~cancelSeen =>
       \/ \A t \in Task : state[t] # "Ready"
       \/ \E t \in Task : body[t] \in InJoinSet
  /\ pc \in {"finalCancel", "report", "done"} =>
       \A t \in Task : state[t] \notin {"Ready", "Running"}

LoopInv == CancelPlaces /\ BlockedPlaces /\ ReadyPlaces

(* What report looked at is what the result says.                          *)
StatusInv ==
  /\ pc = "done" <=> status # "none"
  /\ status = "Cancelled" => cancelSeen
  /\ status # "Cancelled" /\ status # "none" =>
       /\ ~cancelSeen
       /\ status = "WaitingForApproval" <=>
            \E t \in Task : state[t] = "WaitingForApproval"
       /\ status = "Completed" <=> \A t \in Task : state[t] = "Completed"

=============================================================================
