----------------------------- MODULE Heartbeat -----------------------------
(***************************************************************************)
(* The heartbeat (src/src/heartbeat.rs) and the task table it works off    *)
(* (src/src/persistence/legacy.rs). A pulse lists the pending tasks, then  *)
(* claims, executes and completes them one by one, and records a receipt.  *)
(*                                                                         *)
(* Several pulses overlap: the periodic loop of a process, pulses its      *)
(* clients request, and other processes on the same database file. The     *)
(* table and the receipts survive a process; the tick counter does not.    *)
(*                                                                         *)
(* Simplifications.                                                        *)
(*  - Executing a task (a shell command, a health probe, a memory crumb)   *)
(*    is only the fact that it began and ended. Results, payloads, the     *)
(*    transcript file and the broadcast of receipts are left out.          *)
(*  - A statement of SQLite is atomic, also between processes.             *)
(***************************************************************************)
EXTENDS Naturals, FiniteSets, Functions

CONSTANTS
  Task,         \* task ids (unique: create_task_handler draws a UUID)
  Engine,       \* processes with a HeartbeatEngine on the same database
  Pulse,        \* pulse_once calls that can be in progress together
  Host,         \* the engine of each pulse
  Requested,    \* pulses run by an HTTP request; the others are loops
  Awaiting,     \* tasks whose execution awaits (shell_exec, model_health, ...)
  Wrap,         \* number of values of the tick counter (2^64 in the code)
  MaxFaults     \* bound on the crashes and failed statements of a behaviour

ASSUME PulseAssumption ==
  /\ Host \in [Pulse -> Engine] /\ Requested \subseteq Pulse
  /\ IsFiniteSet(Pulse) /\ IsFiniteSet(Task) /\ Awaiting \subseteq Task
  /\ Wrap \in Nat \ {0} /\ MaxFaults \in Nat

VARIABLES
  status,    \* tasks.status
  age,       \* order of created_at (0: not created)
  rows,      \* heartbeats.actions_dispatched by tick_id (0: no row)
  tick,      \* tick_counter of each engine
  pc, num,   \* each pulse: its place and its tick,
  todo, cur, \* the tasks it listed and has yet to visit, the one it visits,
  actions,   \* and how many it dispatched
  runs,      \* history: how often each task began to execute
  lost,      \* history: tasks whose pulse was cut off, or could not store the result
  faults

table == <<status, age>>
pulse == <<pc, num, todo, cur, actions>>
vars  == <<table, rows, tick, pulse, runs, lost, faults>>

Holding == {"claimed", "executing"}
Holds(p, t) == pc[p] \in Holding /\ cur[p] = t

None == "none"

Init ==
  /\ status = [t \in Task |-> "absent"]
  /\ age = [t \in Task |-> 0]
  /\ rows = [k \in 0..(Wrap - 1) |-> 0]
  /\ tick = [e \in Engine |-> 0]
  /\ pc = [p \in Pulse |-> "idle"] /\ num = [p \in Pulse |-> 0]
  /\ todo = [p \in Pulse |-> {}] /\ cur = [p \in Pulse |-> None]
  /\ actions = [p \in Pulse |-> 0]
  /\ runs = [t \in Task |-> 0] /\ lost = {}
  /\ faults = 0

(* create_task. *)
CreateTask(t) ==
  /\ status[t] = "absent"
  /\ status' = [status EXCEPT ![t] = "pending"]
  /\ age' = [age EXCEPT ![t] = 1 + Cardinality({u \in Task : age[u] > 0})]
  /\ UNCHANGED <<rows, tick, pulse, runs, lost, faults>>

-----------------------------------------------------------------------------
(* One pulse.                                                              *)

(* tick_counter.fetch_add(1) + 1, on a counter that wraps around.          *)
NextTick(n) == (n + 1) % Wrap

(* A statement fails, for instance because the database is busy.           *)
Fault == faults < MaxFaults /\ faults' = faults + 1

Begin(p) ==
  LET e == Host[p] IN
  /\ pc[p] = "idle"
  /\ tick' = [tick EXCEPT ![e] = NextTick(@)]
  /\ num' = [num EXCEPT ![p] = tick'[e]]
  /\ pc' = [pc EXCEPT ![p] = "list"]
  /\ UNCHANGED <<table, rows, todo, cur, actions, runs, lost, faults>>

List(p) ==
  /\ pc[p] = "list"
  /\ \/ todo' = [todo EXCEPT ![p] = {t \in Task : status[t] = "pending"}] /\ UNCHANGED faults
     \/ todo' = [todo EXCEPT ![p] = {}] /\ Fault
  /\ pc' = [pc EXCEPT ![p] = "next"]
  /\ UNCHANGED <<table, rows, tick, num, cur, actions, runs, lost>>

(* The list is ordered by created_at.                                      *)
Oldest(p, t) == t \in todo[p] /\ \A u \in todo[p] : age[t] <= age[u]

(* UPDATE ... WHERE id = ? AND status = 'pending': did it change a row?    *)
(* (The ...Variant definitions here and below are plausible slips in the   *)
(* definition that follows them; with one in place a property must fail.)  *)
ClaimableVariant(t) == TRUE
ClaimableVariantUnfinished(t) == status[t] # "completed"
Claimable(t) == status[t] = "pending"

LostClaimVariantCount(p, t) ==
  /\ todo' = [todo EXCEPT ![p] = @ \ {t}]
  /\ actions' = [actions EXCEPT ![p] = @ + 1]

LostClaim(p, t) ==
  /\ todo' = [todo EXCEPT ![p] = @ \ {t}]
  /\ UNCHANGED actions

Claim(p, t) ==
  /\ pc[p] = "next" /\ Oldest(p, t)
  /\ \/ /\ Claimable(t)
        /\ status' = [status EXCEPT ![t] = "running"]
        /\ todo' = [todo EXCEPT ![p] = @ \ {t}]
        /\ cur' = [cur EXCEPT ![p] = t]
        /\ pc' = [pc EXCEPT ![p] = "claimed"]
        /\ UNCHANGED <<actions, faults>>
     \/ /\ (~Claimable(t) /\ UNCHANGED faults) \/ Fault
        /\ LostClaim(p, t)
        /\ UNCHANGED <<status, cur, pc>>
  /\ UNCHANGED <<age, rows, tick, num, runs, lost>>

Execute(p) ==
  /\ pc[p] = "claimed"
  /\ runs' = [runs EXCEPT ![cur[p]] = @ + 1]
  /\ pc' = [pc EXCEPT ![p] = "executing"]
  /\ UNCHANGED <<table, rows, tick, num, todo, cur, actions, lost, faults>>

(* The action counts even when its result could not be stored.             *)
CompleteVariant(p) ==
  /\ pc[p] = "executing"
  /\ actions' = [actions EXCEPT ![p] = @ + 1]
  /\ cur' = [cur EXCEPT ![p] = None]
  /\ pc' = [pc EXCEPT ![p] = "next"]
  /\ UNCHANGED <<table, rows, tick, num, todo, runs, lost, faults>>

CompleteTask(t) == status' = [status EXCEPT ![t] = "completed"]

Complete(p) ==
  /\ pc[p] = "executing"
  /\ \/ CompleteTask(cur[p]) /\ UNCHANGED <<lost, faults>>
     \/ UNCHANGED status /\ lost' = lost \cup {cur[p]} /\ Fault
  /\ actions' = [actions EXCEPT ![p] = @ + 1]
  /\ cur' = [cur EXCEPT ![p] = None]
  /\ pc' = [pc EXCEPT ![p] = "next"]
  /\ UNCHANGED <<age, rows, tick, num, todo, runs>>

(* INSERT OR REPLACE by tick number.                                       *)
RecordTick(k, count) == rows' = [rows EXCEPT ![k] = count]

Record(p) ==
  /\ pc[p] = "next" /\ todo[p] = {}
  /\ \/ RecordTick(num[p], actions[p]) /\ UNCHANGED faults
     \/ UNCHANGED rows /\ Fault
  /\ pc' = [pc EXCEPT ![p] = "idle"]
  /\ num' = [num EXCEPT ![p] = 0]
  /\ actions' = [actions EXCEPT ![p] = 0]
  /\ UNCHANGED <<table, tick, todo, cur, runs, lost>>

PulseStep(p) ==
  \/ List(p) \/ (\E t \in Task : Claim(p, t))
  \/ Execute(p) \/ Complete(p) \/ Record(p)

-----------------------------------------------------------------------------
(* Failures.                                                               *)

Forget(P) ==
  /\ lost' = lost \cup {cur[p] : p \in {q \in P : pc[q] \in Holding}}
  /\ pc' = [p \in Pulse |-> IF p \in P THEN "idle" ELSE pc[p]]
  /\ num' = [p \in Pulse |-> IF p \in P THEN 0 ELSE num[p]]
  /\ todo' = [p \in Pulse |-> IF p \in P THEN {} ELSE todo[p]]
  /\ cur' = [p \in Pulse |-> IF p \in P THEN None ELSE cur[p]]
  /\ actions' = [p \in Pulse |-> IF p \in P THEN 0 ELSE actions[p]]

(* A client that goes away while its request awaits a task: the server     *)
(* drops the handler's future, and the pulse with it.                      *)
Abandon(p) ==
  /\ p \in Requested
  /\ pc[p] = "executing" /\ cur[p] \in Awaiting
  /\ Forget({p})
  /\ UNCHANGED <<table, rows, tick, runs, faults>>

(* The process ends at any point and is started again (`aegis tick` ends   *)
(* after every pulse).                                                     *)
Crash(e) ==
  /\ Fault
  /\ Forget({p \in Pulse : Host[p] = e})
  /\ tick' = [tick EXCEPT ![e] = 0]
  /\ UNCHANGED <<table, rows, runs>>

Next ==
  \/ \E t \in Task : CreateTask(t)
  \/ \E p \in Pulse : Begin(p) \/ PulseStep(p) \/ Abandon(p)
  \/ \E e \in Engine : Crash(e)

(***************************************************************************)
(* Fairness: a pulse in progress goes on (every execution ends: a command  *)
(* is killed after 15 seconds; that the health probe ends is assumed, it   *)
(* has no timeout of its own), and the interval timer of a loop, or the    *)
(* supervisor that restarts its process, begins the next pulse.            *)
(***************************************************************************)
Fairness ==
  \A p \in Pulse : WF_vars(PulseStep(p)) /\ (p \notin Requested => WF_vars(Begin(p)))

Spec == Init /\ [][Next]_vars /\ Fairness

-----------------------------------------------------------------------------
(* Invariants.                                                             *)

(* Every variable stays within its type, tick numbers within the counter's *)
(* width, and a pulse that holds a task knows which one.                   *)
TypeOK ==
  /\ status \in [Task -> {"absent", "pending", "running", "completed"}]
  /\ age \in [Task -> Nat]
  /\ rows \in [0..(Wrap - 1) -> Nat]
  /\ tick \in [Engine -> 0..(Wrap - 1)]
  /\ pc \in [Pulse -> {"idle", "list", "next"} \cup Holding]
  /\ num \in [Pulse -> 0..(Wrap - 1)]
  /\ todo \in [Pulse -> SUBSET Task]
  /\ cur \in [Pulse -> Task \cup {None}]
  /\ \A p \in Pulse : pc[p] \in Holding => cur[p] \in Task
  /\ actions \in [Pulse -> Nat]
  /\ runs \in [Task -> Nat] /\ lost \subseteq Task
  /\ faults \in 0..MaxFaults

(* claim_task: "each task runs at most once" (legacy.rs:211), however      *)
(* pulses overlap, stale their lists are, and processes die; and a result  *)
(* is stored only for a task that did run.                                 *)
AtMostOnce ==
  \A t \in Task :
    /\ runs[t] <= 1
    /\ status[t] \in {"absent", "pending"} => runs[t] = 0
    /\ status[t] = "completed" => runs[t] = 1

(* A task has at most one pulse working on it, and is marked running all   *)
(* the while: complete_task, which checks no status, never finds it taken  *)
(* over or finished by another.                                            *)
SoleHolder ==
  \A p \in Pulse, t \in Task : Holds(p, t) =>
    /\ status[t] = "running"
    /\ \A q \in Pulse : Holds(q, t) => q = p

(* No task is counted twice: what the stored receipts and the pulses in    *)
(* progress claim to have dispatched, and what they work on, is at most    *)
(* the tasks that were claimed, though restarted processes reuse tick      *)
(* numbers and replace each other's rows.                                  *)
CountedOnce ==
  SumFunction(rows) + SumFunction(actions)
    + Cardinality({p \in Pulse : pc[p] \in Holding})
    <= Cardinality({t \in Task : status[t] \in {"running", "completed"}})

(* A task is completed, or it stays running for ever because the pulse     *)
(* that held it crashed, was abandoned, or could not store its result: no  *)
(* other fault, and no other pulse, loses it.                              *)
EveryTaskFinished ==
  \A t \in Task : status[t] = "pending" ~> status[t] = "completed" \/ t \in lost

=============================================================================
