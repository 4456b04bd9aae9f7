------------------------------ MODULE Workflow ------------------------------
(***************************************************************************)
(* The workflow executor of src/src/orchestration/workflow.rs: a           *)
(* coordinator (WorkflowExecutor::run) starts the tasks of an acyclic      *)
(* dependency graph on spawned tokio tasks, at most MaxParallel at once,   *)
(* and records every state change in a ledger.                             *)
(*                                                                         *)
(* Processes: the coordinator (pc), one spawned body per started task      *)
(* (body), and the environment (the caller's cancel token, the clock).     *)
(*                                                                         *)
(* Simplifications.                                                        *)
(*  - Only the coordinator reads or writes the ledger, so the steps of     *)
(*    one visit to a task are one action. What others can change between   *)
(*    two steps of the coordinator (the two tokens, the clock, the         *)
(*    permits, the finished bodies) is read in separate actions.           *)
(*  - A body is asynchronous: TaskRunner::run does nothing before its      *)
(*    future is first polled.                                              *)
(*  - Result digests, messages and times are left out.                     *)
(***************************************************************************)
EXTENDS Naturals, Sequences, FiniteSets

CONSTANTS
  N,            \* number of tasks; task i is the i-th one added to the builder
  Graphs,       \* dependency lists a built WorkflowSpec can have
  MaxParallel,  \* WorkflowConfig.max_parallel
  Outcomes,     \* how a body that is not interrupted may end
  FaultClaims,  \* certainties a body that reports Failed may declare
  Interrupt,    \* certainty_on_interrupt() of each task's runner
  HasBudget     \* is WorkflowConfig.total_budget set?

Task == 1..N

Certainty == {"NoEffect", "EffectOccurred", "Uncertain"}

TaskState == {"Pending", "Ready", "Running", "WaitingForApproval",
              "Completed", "Failed", "Cancelled", "Skipped"}

(***************************************************************************)
(* Completed, Failed, ApprovalPending and Cancelled are TaskOutcome's      *)
(* variants; a body may also exceed its per-task timeout or panic.         *)
(***************************************************************************)
AllOutcomes == {"Completed", "Failed", "ApprovalPending", "Cancelled",
                "TimedOut", "Panicked"}

DepSet(g, t) == {g[t][k] : k \in DOMAIN g[t]}

ASSUME SizeAssumption == N \in Nat /\ MaxParallel \in Nat \ {0}
ASSUME BodyAssumption ==
  /\ Outcomes \subseteq AllOutcomes
  /\ FaultClaims \subseteq Certainty
  /\ Interrupt \in [Task -> Certainty]
  /\ HasBudget \in BOOLEAN

(* What WorkflowBuilder::build guarantees: a topological order exists (see *)
(* Verdict in WorkflowBuilder).                                            *)
ASSUME GraphAssumption ==
  \A g \in Graphs :
    /\ g \in [Task -> Seq(Task)]
    /\ \E rank \in [Task -> Task] :
         \A t \in Task : \A d \in DepSet(g, t) : rank[d] < rank[t]

VARIABLES
  deps,            \* the spec that is run: dependency list of each task
  \* the ledger
  state, failure, seq,
  \* the coordinator's local variables and position
  pc, cursor, changed, live, peak, cancelSeen, budgetExhausted, status,
  \* shared with the bodies: the semaphore and the run-local cancel token
  permits, runCancel,
  \* the spawned bodies: progress and how each one ended
  body, fin,
  \* the environment: the caller's token and the clock
  callerCancel, deadlinePassed,
  \* history: did a body of t do anything; how many tasks started too late
  ran, late

ledger == <<state, failure, seq>>
coord  == <<pc, cursor, changed, live, peak, cancelSeen, budgetExhausted, status>>
shared == <<permits, runCancel>>
bodies == <<body, fin>>
env    == <<callerCancel, deadlinePassed>>
hist   == <<ran, late>>
vars   == <<deps, ledger, coord, shared, bodies, env, hist>>

Terminal == {"Completed", "Failed", "Cancelled", "Skipped"}
EndedBadly == {"Failed", "Cancelled", "Skipped"}
Alive == {"spawned", "running"}               \* bodies that hold a permit
InJoinSet == {"spawned", "running", "ended"}  \* spawned and not yet joined

NoFailure == [class |-> "none", certainty |-> "none", seq |-> 0, cause |-> 0]

Init ==
  /\ deps \in Graphs
  /\ state = [t \in Task |-> "Pending"]
  /\ failure = [t \in Task |-> NoFailure]
  /\ seq = 0
  /\ pc = "top" /\ cursor = 1 /\ changed = FALSE
  /\ live = 0 /\ peak = 0
  /\ cancelSeen = FALSE /\ budgetExhausted = FALSE /\ status = "none"
  /\ permits = MaxParallel /\ runCancel = FALSE
  /\ body = [t \in Task |-> "none"]
  /\ fin = [t \in Task |-> "none"]
  /\ callerCancel = FALSE /\ deadlinePassed = FALSE
  /\ ran = [t \in Task |-> FALSE] /\ late = 0

-----------------------------------------------------------------------------
(* The ledger: Recorder::transition and note_failure.                      *)

Transition(t, s) ==
  /\ state' = [state EXCEPT ![t] = s]
  /\ seq' = seq + 1

(* A failure record takes next_failure_seq, the number of the transition   *)
(* that follows it.                                                        *)
Fail(t, s, class, certainty, cause) ==
  /\ Transition(t, s)
  /\ failure' = [failure EXCEPT ![t] =
       [class |-> class, certainty |-> certainty, seq |-> seq + 1, cause |-> cause]]

Succeed(t, s) == Transition(t, s) /\ UNCHANGED failure

-----------------------------------------------------------------------------
(* Head of the coordinator's loop: budget, caller's token, run token.      *)

Expired == ~budgetExhausted /\ deadlinePassed

Top ==
  /\ pc = "top"
  /\ budgetExhausted' = (budgetExhausted \/ Expired)
  /\ runCancel' = (runCancel \/ Expired \/ callerCancel)
  /\ cancelSeen' = (cancelSeen \/ runCancel')
  /\ pc' = IF cancelSeen THEN "wait"
           ELSE IF runCancel' THEN "cancelOpen" ELSE "propagate"
  /\ cursor' = 1
  /\ changed' = FALSE
  /\ UNCHANGED <<deps, ledger, live, peak, status, permits, bodies, env, hist>>

(* cancel_open visits the tasks in insertion order: what has not started   *)
(* and what waits for approval is cancelled, the rest is left alone.       *)
(* The ...Variant definitions here and below are plausible slips in the    *)
(* definition that follows them; with one in place a property must fail.   *)
CancellableVariantRunning == {"Pending", "Ready", "WaitingForApproval", "Running"}
Cancellable == {"Pending", "Ready", "WaitingForApproval"}

CancelCertaintyVariant(t) == "NoEffect"
CancelCertainty(t) ==
  IF state[t] = "WaitingForApproval" THEN Interrupt[t] ELSE "NoEffect"

CancelVisit ==
  /\ pc \in {"cancelOpen", "finalCancel"}
  /\ cursor \in Task
  /\ \/ /\ state[cursor] \in Cancellable
        /\ Fail(cursor, "Cancelled", "Cancelled", CancelCertainty(cursor), 0)
     \/ state[cursor] \notin Cancellable /\ UNCHANGED ledger
  /\ cursor' = cursor + 1
  /\ UNCHANGED <<deps, pc, changed, live, peak, cancelSeen, budgetExhausted,
                 status, shared, bodies, env, hist>>

CancelEnd ==
  /\ pc \in {"cancelOpen", "finalCancel"}
  /\ cursor = N + 1
  /\ pc' = IF pc = "cancelOpen" THEN "wait" ELSE "report"
  /\ UNCHANGED <<deps, ledger, cursor, changed, live, peak, cancelSeen,
                 budgetExhausted, status, shared, bodies, env, hist>>

-----------------------------------------------------------------------------
(* propagate: passes over the tasks until one changes nothing.             *)

Bad(d) == state[d] \in EndedBadly

SkipVariant(t) ==
  /\ \E d \in DepSet(deps, t) : Bad(d)
  /\ Fail(t, "Skipped", "Rejected", "NoEffect", deps[t][1])

Skip(t) ==
  \E k \in DOMAIN deps[t] :
    /\ Bad(deps[t][k])
    /\ \A j \in 1..(k - 1) : ~Bad(deps[t][j])
    /\ Fail(t, "Skipped", "Rejected", "NoEffect", deps[t][k])

Unblock(t) ==
  /\ \A d \in DepSet(deps, t) : state[d] = "Completed"
  /\ Succeed(t, "Ready")

StillBlocked(t) ==
  /\ \A d \in DepSet(deps, t) : ~Bad(d)
  /\ \E d \in DepSet(deps, t) : state[d] # "Completed"

PropagateVisit ==
  /\ pc = "propagate"
  /\ cursor \in Task
  /\ \/ /\ state[cursor] = "Pending"
        /\ Skip(cursor) \/ Unblock(cursor)
        /\ changed' = TRUE
     \/ /\ state[cursor] = "Pending" => StillBlocked(cursor)
        /\ UNCHANGED <<ledger, changed>>
  /\ cursor' = cursor + 1
  /\ UNCHANGED <<deps, pc, live, peak, cancelSeen, budgetExhausted, status,
                 shared, bodies, env, hist>>

PropagateEndVariant ==
  /\ pc = "propagate"
  /\ cursor = N + 1
  /\ pc' = IF changed THEN "propagate" ELSE "start"
  /\ cursor' = 1
  /\ UNCHANGED <<deps, ledger, changed, live, peak, cancelSeen, budgetExhausted,
                 status, shared, bodies, env, hist>>

PropagateEnd ==
  /\ pc = "propagate"
  /\ cursor = N + 1
  /\ pc' = IF changed THEN "propagate" ELSE "start"
  /\ cursor' = 1
  /\ changed' = FALSE
  /\ UNCHANGED <<deps, ledger, live, peak, cancelSeen, budgetExhausted, status,
                 shared, bodies, env, hist>>

-----------------------------------------------------------------------------
(* The start loop. Cancel and budget are checked before the permit is      *)
(* taken and the task recorded as Running; the environment may act in      *)
(* between, and a body may return its permit.                              *)

StopRequestedVariant == runCancel
StopRequested == callerCancel \/ runCancel \/ deadlinePassed

StartVisit ==
  /\ pc = "start"
  /\ \/ /\ cursor \in Task /\ state[cursor] # "Ready"
        /\ cursor' = cursor + 1 /\ pc' = pc
     \/ /\ cursor \in Task /\ state[cursor] = "Ready"
        /\ pc' = IF StopRequested THEN "top" ELSE "acquire"
        /\ cursor' = cursor
     \/ /\ cursor = N + 1
        /\ cursor' = cursor /\ pc' = "wait"
  /\ UNCHANGED <<deps, ledger, changed, live, peak, cancelSeen, budgetExhausted,
                 status, shared, bodies, env, hist>>

PermitFreeVariant == TRUE
PermitFree == permits > 0

NoPermit ==
  /\ pc = "acquire"
  /\ ~PermitFree
  /\ pc' = "wait"
  /\ UNCHANGED <<deps, ledger, cursor, changed, live, peak, cancelSeen,
                 budgetExhausted, status, shared, bodies, env, hist>>

(* Permits in use once the new one is taken (workflow.rs:696).             *)
InUse == MaxParallel - (permits - 1)

StartTask ==
  /\ pc = "acquire"
  /\ PermitFree
  /\ permits' = permits - 1
  /\ Succeed(cursor, "Running")
  /\ live' = live + 1
  /\ peak' = IF InUse > peak THEN InUse ELSE peak
  /\ body' = [body EXCEPT ![cursor] = "spawned"]
  /\ late' = IF callerCancel \/ deadlinePassed THEN late + 1 ELSE late
  /\ pc' = "start"
  /\ cursor' = cursor + 1
  /\ UNCHANGED <<deps, changed, cancelSeen, budgetExhausted, status, runCancel,
                 fin, env, ran>>

-----------------------------------------------------------------------------
(* No body left: leave the loop. Otherwise a biased select over the        *)
(* caller's token, the deadline and the next finished body.                *)

AfterLoopVariant == "report"
AfterLoop == IF cancelSeen THEN "finalCancel" ELSE "report"

Drained ==
  /\ pc = "wait"
  /\ live = 0
  /\ pc' = AfterLoop
  /\ cursor' = 1
  /\ UNCHANGED <<deps, ledger, changed, live, peak, cancelSeen, budgetExhausted,
                 status, shared, bodies, env, hist>>

CancelFires == ~cancelSeen /\ callerCancel

OnCallerCancel ==
  /\ pc = "wait" /\ live > 0
  /\ CancelFires
  /\ runCancel' = TRUE
  /\ pc' = "top"
  /\ UNCHANGED <<deps, ledger, cursor, changed, live, peak, cancelSeen,
                 budgetExhausted, status, permits, bodies, env, hist>>

OnDeadline ==
  /\ pc = "wait" /\ live > 0
  /\ ~CancelFires /\ Expired
  /\ budgetExhausted' = TRUE
  /\ runCancel' = TRUE
  /\ pc' = "top"
  /\ UNCHANGED <<deps, ledger, cursor, changed, live, peak, cancelSeen, status,
                 permits, bodies, env, hist>>

(* settle, and the panic branch that comes before it.                      *)
Settle(t) ==
  \/ fin[t] = "Completed" /\ Succeed(t, "Completed")
  \/ /\ fin[t] = "Failed"
     /\ \E claim \in FaultClaims : Fail(t, "Failed", "Fault", claim, 0)
  \/ fin[t] = "ApprovalPending" /\ Succeed(t, "WaitingForApproval")
  \/ /\ fin[t] \in {"Cancelled", "Interrupted"}
     /\ Fail(t, "Cancelled", "Cancelled", Interrupt[t], 0)
  \/ fin[t] = "TimedOut" /\ Fail(t, "Failed", "Timeout", Interrupt[t], 0)
  \/ fin[t] = "Panicked" /\ Fail(t, "Failed", "Failed", "Uncertain", 0)

LiveAfterVariantMissed(t) == IF fin[t] = "Panicked" THEN live ELSE live - 1
LiveAfterVariantTwice(t) == IF fin[t] = "Panicked" THEN live - 2 ELSE live - 1
LiveAfter(t) == live - 1

Join(t) ==
  /\ pc = "wait" /\ live > 0
  /\ ~CancelFires /\ ~Expired
  /\ body[t] = "ended"
  /\ body' = [body EXCEPT ![t] = "joined"]
  /\ live' = LiveAfter(t)
  /\ Settle(t)
  /\ pc' = "top"
  /\ UNCHANGED <<deps, cursor, changed, peak, cancelSeen, budgetExhausted, status,
                 shared, fin, env, hist>>

(* report: the status of the whole run, and the WorkflowFinished event.    *)
Report ==
  /\ pc = "report"
  /\ status' = IF cancelSeen THEN "Cancelled"
               ELSE IF \E t \in Task : state[t] = "WaitingForApproval"
                    THEN "WaitingForApproval"
               ELSE IF \A t \in Task : state[t] = "Completed"
                    THEN "Completed" ELSE "Failed"
  /\ seq' = seq + 1
  /\ pc' = "done"
  /\ UNCHANGED <<deps, state, failure, cursor, changed, live, peak, cancelSeen,
                 budgetExhausted, shared, bodies, env, hist>>

Coordinator ==
  \/ Top \/ CancelVisit \/ CancelEnd \/ PropagateVisit \/ PropagateEnd
  \/ StartVisit \/ NoPermit \/ StartTask
  \/ Drained \/ OnCallerCancel \/ OnDeadline \/ (\E t \in Task : Join(t))
  \/ Report

-----------------------------------------------------------------------------
(* The spawned future. Its select polls the run token before the body, at  *)
(* the first poll and at every later one; it drops its permit when it      *)
(* ends, which the coordinator learns only when it joins it.               *)

End(t, how) ==
  /\ body' = [body EXCEPT ![t] = "ended"]
  /\ fin' = [fin EXCEPT ![t] = how]
  /\ permits' = permits + 1
  /\ UNCHANGED <<deps, ledger, coord, runCancel, env, late>>

BodyStart(t) ==
  /\ body[t] = "spawned" /\ ~runCancel
  /\ body' = [body EXCEPT ![t] = "running"]
  /\ ran' = [ran EXCEPT ![t] = TRUE]
  /\ UNCHANGED <<deps, ledger, coord, shared, fin, env, late>>

BodyInterruptedVariant(t) ==
  /\ body[t] = "spawned" /\ runCancel
  /\ End(t, "Interrupted")
  /\ UNCHANGED ran

BodyInterrupted(t) ==
  /\ body[t] \in Alive /\ runCancel
  /\ End(t, "Interrupted")
  /\ UNCHANGED ran

(* The poll in which the body ends may have begun before runCancel was set. *)
BodyEnds(t) ==
  /\ body[t] = "running"
  /\ \E how \in Outcomes : End(t, how)
  /\ UNCHANGED ran

-----------------------------------------------------------------------------
(* The environment.                                                        *)

CallerCancels ==
  /\ ~callerCancel /\ pc # "done"
  /\ callerCancel' = TRUE
  /\ UNCHANGED <<deps, ledger, coord, shared, bodies, deadlinePassed, hist>>

DeadlinePasses ==
  /\ HasBudget /\ ~deadlinePassed /\ pc # "done"
  /\ deadlinePassed' = TRUE
  /\ UNCHANGED <<deps, ledger, coord, shared, bodies, callerCancel, hist>>

Returned == pc = "done" /\ UNCHANGED vars

Next ==
  \/ Coordinator
  \/ \E t \in Task : BodyStart(t) \/ BodyInterrupted(t) \/ BodyEnds(t)
  \/ CallerCancels \/ DeadlinePasses
  \/ Returned

(***************************************************************************)
(* Fairness: tokio polls the coordinator and every woken future; nothing   *)
(* makes a body end by itself, a caller cancel or time pass.               *)
(***************************************************************************)
Scheduled ==
  /\ WF_vars(Coordinator)
  /\ \A t \in Task : WF_vars(BodyStart(t) \/ BodyInterrupted(t))

Spec == Init /\ [][Next]_vars /\ Scheduled

-----------------------------------------------------------------------------
(* Invariants.                                                             *)

Places == {"top", "cancelOpen", "finalCancel", "propagate", "start",
           "acquire", "wait", "report", "done"}

FailureRecord == [class : {"none", "Fault", "Failed", "Timeout", "Cancelled", "Rejected"},
                  certainty : Certainty \cup {"none"},
                  seq : Nat, cause : Task \cup {0}]

(* Every variable stays within its type; the coordinator is always at a    *)
(* task when it acquires a permit, and never past the end of its list.     *)
TypeOK ==
  /\ deps \in [Task -> Seq(Task)]
  /\ state \in [Task -> TaskState]
  /\ failure \in [Task -> FailureRecord]
  /\ seq \in Nat
  /\ pc \in Places
  /\ cursor \in 1..(N + 1)
  /\ pc = "acquire" => cursor \in Task
  /\ changed \in BOOLEAN
  /\ live \in Nat /\ peak \in Nat /\ permits \in Nat
  /\ cancelSeen \in BOOLEAN /\ budgetExhausted \in BOOLEAN
  /\ status \in {"none", "Cancelled", "WaitingForApproval", "Completed", "Failed"}
  /\ runCancel \in BOOLEAN
  /\ body \in [Task -> InJoinSet \cup {"none", "joined"}]
  /\ fin \in [Task -> AllOutcomes \cup {"Interrupted", "none"}]
  /\ callerCancel \in BOOLEAN /\ deadlinePassed \in BOOLEAN
  /\ ran \in [Task -> BOOLEAN]
  /\ late \in Nat

(* The counters the coordinator decides by agree with the bodies there     *)
(* are: live (workflow.rs:695,753) counts the spawned and not yet joined   *)
(* ones on every path, panics included, and the semaphore has exactly the  *)
(* permits no unfinished body holds; so peak_concurrency of the report is   *)
(* an upper bound of the bodies alive at any time, within the limit.       *)
Accounting ==
  /\ live = Cardinality({t \in Task : body[t] \in InJoinSet})
  /\ permits + Cardinality({t \in Task : body[t] \in Alive}) = MaxParallel
  /\ MaxParallel - permits <= peak /\ peak <= MaxParallel

(* A task is recorded as Running exactly while its body may still act or   *)
(* its end is unread: no terminal task has a body that goes on behind the  *)
(* ledger's back, whatever cancel_open and the panic path do.              *)
NoOrphanBody ==
  \A t \in Task : state[t] = "Running" <=> body[t] \in InJoinSet

(* A body acts only after every prerequisite completed (doc: "A dependent  *)
(* becomes Ready only when every prerequisite is Completed"), and that     *)
(* stays so after any later cancel, skip or failure.                       *)
PrerequisitesFirst ==
  \A t \in Task : ran[t] => \A d \in DepSet(deps, t) : state[d] = "Completed"

(* Exactly the tasks that ended badly have a failure record, and a skip    *)
(* is explained: the prerequisite it names ended badly at an earlier       *)
(* number of the shared sequence, so following causes reaches a task that  *)
(* was itself at fault (next_failure_seq is read before the transition).   *)
FailuresExplained ==
  \A t \in Task :
    /\ failure[t] # NoFailure <=> state[t] \in EndedBadly
    /\ state[t] = "Skipped" =>
         /\ failure[t].cause \in DepSet(deps, t)
         /\ state[failure[t].cause] \in EndedBadly
         /\ failure[failure[t].cause].seq < failure[t].seq

(* A record that says NoEffect is right: the body never acted, unless the  *)
(* runner itself declared that (on interrupt or in its fault).             *)
NoEffectIsTrue ==
  \A t \in Task :
    failure[t].certainty = "NoEffect" =>
      \/ ~ran[t]
      \/ failure[t].class \in {"Cancelled", "Timeout"} /\ Interrupt[t] = "NoEffect"
      \/ failure[t].class = "Fault"

(* A stop request is checked before each start, not in one step with it:   *)
(* at most one task starts after the caller cancelled or the budget was    *)
(* spent (workflow.rs:685-694), where the doc says "starts nothing new"    *)
(* (WORKFLOW-DAG.md:38).                                                   *)
AtMostOneLateStart == late <= 1

(* What run returns is what happened. Completed: every task did.           *)
(* Cancelled or Failed: nothing is left unfinished. WaitingForApproval:    *)
(* whatever is left is waiting or has a prerequisite that is left. No      *)
(* status leaves a Ready or Running task behind.                           *)
ReportTruthful ==
  pc = "done" =>
    /\ \A t \in Task : state[t] \notin {"Ready", "Running"}
    /\ status = "Completed" => \A t \in Task : state[t] = "Completed"
    /\ status \in {"Cancelled", "Failed"} => \A t \in Task : state[t] \in Terminal
    /\ status = "Failed" => \E t \in Task : state[t] \in EndedBadly
    /\ status = "WaitingForApproval" =>
         /\ \E t \in Task : state[t] = "WaitingForApproval"
         /\ \A t \in Task : state[t] = "Pending" =>
              \E d \in DepSet(deps, t) : state[d] \in {"Pending", "WaitingForApproval"}

(* doc: "With `max_parallel = 1` the whole order is fixed for a given      *)
(* spec" (WORKFLOW-DAG.md:44) and "Upper bound on tasks running at once"   *)
(* (workflow.rs:355): a task would be recorded as Running only after the   *)
(* one before it was settled. The permit is returned when the body ends,   *)
(* before that is recorded, so this does not hold.                         *)
SerialWhenOnePermit ==
  MaxParallel = 1 => \A t, u \in Task :
    state[t] = "Running" /\ state[u] = "Running" => t = u

-----------------------------------------------------------------------------
(* Action and liveness properties.                                         *)

(* is_terminal: "the task will never change state again"; its failure      *)
(* record does not change either.                                          *)
TerminalIsFinal ==
  [][\A t \in Task : state[t] \in Terminal =>
       state'[t] = state[t] /\ failure'[t] = failure[t]]_vars

(* A run that is cancelled, or whose budget is spent, returns even if no   *)
(* body ever does: the run token interrupts them all.                      *)
StoppedReturns == callerCancel \/ deadlinePassed ~> pc = "done"

(* A run whose bodies all return returns: no task is left waiting for a    *)
(* permit or a wake-up, whatever the graph and the order they end in.      *)
BodiesReturn == \A t \in Task : WF_vars(BodyEnds(t))
ReturnsIfBodiesDo == BodiesReturn => <>(pc = "done")

(* The executor is a TaskGraph: a Running task is active until its body    *)
(* ends and then returned until it is joined.                              *)
Phase(t) ==
  CASE state[t] \in {"Pending", "Ready"} -> "open"
    [] state[t] = "Running" -> IF body[t] \in Alive THEN "active" ELSE "returned"
    [] state[t] = "WaitingForApproval" -> "waiting"
    [] state[t] = "Completed" -> "done"
    [] state[t] \in EndedBadly -> "dropped"

Abstract == INSTANCE TaskGraph WITH
  Limit <- MaxParallel,
  requires <- [t \in Task |-> DepSet(deps, t)],
  phase <- [t \in Task |-> Phase(t)],
  stopped <- cancelSeen,
  verdict <- status

(* The executor implements the abstract scheduler: dependency order, the   *)
(* limit on active bodies, no start once a stop was seen, no second start, *)
(* no drop without a reason, and a verdict that fits the tasks.            *)
ImplementsTaskGraph == Abstract!GraphSpec

=============================================================================
