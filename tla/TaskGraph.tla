----------------------------- MODULE TaskGraph -----------------------------
(***************************************************************************)
(* What a caller of the workflow executor relies on, without coordinator,  *)
(* permits, tokens or ledger: tasks of a dependency graph become active in *)
(* dependency order, at most Limit at once and none after the run was      *)
(* stopped; each is active at most once; a task is dropped unstarted only  *)
(* for a reason; the verdict sums up how the tasks ended.                  *)
(***************************************************************************)
EXTENDS Naturals, FiniteSets

CONSTANTS Task, Limit

VARIABLES
  requires,   \* the tasks each task depends on
  phase,      \* where each task is
  stopped,    \* has the run taken note of a cancel or a spent budget?
  verdict     \* the run's status once it returned

graphVars == <<requires, phase, stopped, verdict>>

Phases == {"open",      \* not started
           "active",    \* its body may act
           "returned",  \* its body ended, nobody looked at the result yet
           "waiting",   \* it asked for a human approval
           "done",      \* it completed
           "dropped"}   \* it failed, was cancelled or never started

GraphInit ==
  /\ requires \in [Task -> SUBSET Task]
  /\ phase = [t \in Task |-> "open"]
  /\ stopped = FALSE
  /\ verdict = "none"

Move(t, to) ==
  /\ verdict = "none"
  /\ phase' = [phase EXCEPT ![t] = to]
  /\ UNCHANGED <<requires, stopped, verdict>>

Activate(t) ==
  /\ phase[t] = "open" /\ ~stopped
  /\ \A d \in requires[t] : phase[d] = "done"
  /\ Cardinality({u \in Task : phase[u] = "active"}) < Limit
  /\ Move(t, "active")

Return(t) == phase[t] = "active" /\ Move(t, "returned")

Judge(t) ==
  /\ phase[t] = "returned"
  /\ \E p \in {"done", "dropped", "waiting"} : Move(t, p)

(* Never started: a prerequisite was dropped, or the run was stopped.      *)
DropOpen(t) ==
  /\ phase[t] = "open"
  /\ stopped \/ \E d \in requires[t] : phase[d] = "dropped"
  /\ Move(t, "dropped")

DropWaiting(t) == phase[t] = "waiting" /\ stopped /\ Move(t, "dropped")

Stop ==
  /\ verdict = "none" /\ ~stopped
  /\ stopped' = TRUE
  /\ UNCHANGED <<requires, phase, verdict>>

Settled(t) == phase[t] \in {"done", "dropped"}

Conclude(v) ==
  /\ verdict = "none"
  /\ \A t \in Task : phase[t] \notin {"active", "returned"}
  /\ CASE v = "Cancelled" -> stopped /\ \A t \in Task : Settled(t)
       [] v = "Completed" -> ~stopped /\ \A t \in Task : phase[t] = "done"
       [] v = "Failed" -> /\ ~stopped /\ \A t \in Task : Settled(t)
                          /\ \E t \in Task : phase[t] = "dropped"
       [] v = "WaitingForApproval" ->
            /\ ~stopped
            /\ \E t \in Task : phase[t] = "waiting"
            /\ \A t \in Task : phase[t] = "open" =>
                 \E d \in requires[t] : phase[d] \in {"open", "waiting"}
  /\ verdict' = v
  /\ UNCHANGED <<requires, phase, stopped>>

GraphNext ==
  \/ \E t \in Task : \/ Activate(t) \/ Return(t) \/ Judge(t)
                     \/ DropOpen(t) \/ DropWaiting(t)
  \/ Stop
  \/ \E v \in {"Cancelled", "Completed", "Failed", "WaitingForApproval"} :
       Conclude(v)

GraphSpec == GraphInit /\ [][GraphNext]_graphVars

=============================================================================
