# A TLA+ verification of aegis-runtime

This directory models the parts of aegis-runtime (`src/src/`) in which order, concurrency
and failure matter, checks the models with TLC, and proves their main safety properties
with TLAPS for all values of the constants. Paths below are relative to `src/src/` unless
they begin with `src/`.

1. [The system](#1-the-system)
2. [The modules and the code](#2-the-modules-and-the-code)
3. [The runs](#3-the-runs)
4. [Fairness](#4-fairness)
5. [The proofs](#5-the-proofs)
6. [Where code and text disagree](#6-where-code-and-text-disagree)
7. [What is not modelled](#7-what-is-not-modelled)
8. [Plan](#8-plan)

## 1. The system

aegis-runtime runs language-model agents under operator control. One process (`aegis
serve`) is an HTTP gateway with a background heartbeat; other invocations (`aegis tick`,
`aegis heartbeat`) share its SQLite file.

| component | files | state it keeps | operations |
|---|---|---|---|
| workflow executor | `orchestration/workflow.rs` | a ledger of task states, failure records and a sequence number; a `JoinSet` of spawned bodies, a semaphore of permits, a run-local cancel token | `run`: start what is ready, join what ended, propagate the result, stop on cancel or budget, report |
| workflow builder | `orchestration/workflow.rs` | the list of tasks | `add_task`, `build` (Kahn), `find_cycle` |
| agent loop | `agent.rs`, `failure.rs` | the messages, the tool records, the failure records, `last_failed_call` | `execute_task`: ask the model, dispatch its calls, retry, record, stop |
| cancel token | `failure.rs` | a flag and a `Notify` | `cancel`, `is_cancelled`, `cancelled().await` |
| heartbeat | `heartbeat.rs`, `persistence/legacy.rs` | a tick counter in memory; the `tasks` and `heartbeats` tables | `pulse_once`: list, claim, execute, complete, record; `start_loop` |
| session and run stores | `persistence/sqlite/{sessions,runs}.rs`, `persistence/async_db.rs` | the tables, one locked connection per process, copies held by clients | `create`, `get`, `update` through `interact` |
| message, action, approval stores | `persistence/sqlite/{messages,actions,approvals}.rs` | their tables | `append`, `create`, `update`, the lists a client reads back |
| skill registry | `skills.rs` | a map of handlers | `execute_gated`, `execute`, `dispatch_classified` |
| action gates | `enforcement.rs`, `policy_guard.rs`, `security.rs` | none that changes | allow or refuse a path, command or action |
| operator authentication | `auth.rs` | the token | `require_operator`: pass, 401 or 503 |
| secret vault | `vault.rs` | a cache | fetch, redact |
| event bus | `events/` | a broadcast channel | publish, subscribe |
| gateway | `gateway.rs` | one task per connection, each with a receiver of the heartbeat's broadcast channel if it is a websocket or a stream | the HTTP handlers, `handle_socket`, `sse_events_handler` |
| command line | `main.rs` | handles on the above | one call each |
| inference engines | `inference.rs`, `vector_math.rs` | weights | text in, text out |

How they interact:

- A workflow task's body is a `TaskRunner`. `AgentTaskRunner` runs an agent and maps its
  result to a `TaskOutcome` (`agent_outcome`), so the effect certainty an agent records is
  what the workflow's report says.
- The executor and the agent are both stopped by a `CancelToken`, awaited in a `select!`
  next to the work it interrupts.
- The agent reaches tools through a dispatcher, normally the skill registry, which asks the
  gates before it acts.
- The heartbeat loop, requested pulses and other processes meet only in the `tasks` table:
  the claim `UPDATE ... WHERE status = 'pending'` is what keeps them apart.
- Clients of the session store meet in the `version` column; clients of the run store in
  the count that `create` makes before it inserts; clients of the approval store only in
  the list of pending ones, since an update has no condition.
- Every pulse, requested or periodic, publishes its receipt on one broadcast channel. A
  websocket reads it in the same `select!` in which it takes requests, so a busy handler or
  a client that does not read falls behind the channel.
- Every HTTP route and websocket passes `require_operator` first; shell commands and skills
  then pass `probe_gate` and `pre_dispatch_check`, on three paths through `security.rs` and
  `skills.rs`: skill requests, an agent's calls, and shell requests and shell tasks.

What is hard about them, and the properties that answer it (every hazard with its line is
in `PROJECT.json`):

- *workflow executor*: bodies end, panic or ask for approval while the coordinator is
  elsewhere; permits come back before the end is recorded; cancel and deadline race both.
  It is right when the counters agree with the bodies, no task is terminal while its body
  still acts, dependency order holds, failure records explain what happened and claim no
  more than they know, and the run returns.
- *agent loop*: a deadline or a cancel meets a tool that has acted. It is right when no
  retry repeats an effect, `NoEffect` is true when said, causes chain correctly and a halt
  is the end.
- *cancel token*: `cancel` runs between the creation of the waiter's future, its read of
  the flag and its await. It is right when no wake-up is lost.
- *heartbeat*: stale lists, overlapping pulses, a death between claim and completion. It
  is right when a task runs at most once, one pulse holds it, receipts do not count it
  twice and no live pulse forgets it.
- *stores*: stale copies, callers that gave up and closures that still run, checks and
  inserts in separate statements, times of whole seconds, lists read page by page while
  rows move. They are right when no accepted update is lost or accepted twice, one process
  makes no second active run, conversations read in the order they were held, an approval
  is decided again only by a client with a stale copy, and a reader of all pages misses
  nothing that stood still.
- *gateway*: a handler's own pulse overlaps the loop's, receivers lag, clients stall, leave
  or drop a request. It is right when pulses reach a connection in order and only
  overwritten ones are missed, requests are answered once and in order, a recorded turn is
  what its client was told, and nobody but its own connection waits for a client.
- *gates*: three paths with the same checks in different orders. They are right when nothing
  runs that a gate refuses and equal calls are refused alike.
- *context window*: pruning interleaves with a growing conversation. It is right when what
  is sent is the prompt, the goal and the longest tail that fits, and no request is left
  unanswered.
- *workflow builder*: in-degrees are decremented once per edge, and the walk that names a
  cycle has no bound of its own. It is right when it accepts exactly the graphs that can
  run and every cycle it reports is one.

## 2. The modules and the code

| module | stands for | composed with |
|---|---|---|
| `TaskGraph` | the abstract promise of the executor: dependency order, a limit, no start after a stop, a truthful verdict | refined by `Workflow` |
| `Workflow` | `WorkflowExecutor::run` and everything it calls, the spawned futures, the caller and the clock | uses what `WorkflowBuilder` guarantees as `GraphAssumption` |
| `WorkflowInv` | the inductive invariants | extends `Workflow` |
| `AgentLoop` | `execute_task`, `attempt_tool`, `retry_loop`, `retry_eligibility`, `root_cause`, `agent_outcome` | `Outcome` is what a body of `Workflow` reports |
| `CancelToken` | `CancelToken` | `callerCancel` and `runCancel` of `Workflow`, `cancelled` of `AgentLoop` are its flag; that a set flag wakes its waiters is shown here |
| `ContextWindow` | the messages and `prune_context_window` | the other half of `execute_task` |
| `WorkflowBuilder` | `add_task`, `build`, `find_cycle` | `Verdict`, proved for any graph, justifies `GraphAssumption` |
| `Heartbeat` | `pulse_once`, `start_loop`, the `tasks` and `heartbeats` tables | its publication of receipts is in `Gateway` |
| `Interact` | `AsyncDatabase::interact`: closures, the connection's lock, callers that give up | extended by the stores |
| `Stores` | session `get`/`update`, run `create`, `get`, `get_active_run`, `update` | on `Interact` |
| `Records` | message `append` and list; action and approval `create`, `list_pending`, `update`; the paged list of sessions | on `Interact` |
| `Database` | the stores on one database | composes `Stores` and `Records` |
| `Dispatch` | the gates and the three paths to a handler, as operators from a call to its possible results | used by `Gateway` |
| `Gateway` | `create_router`, its handlers, `handle_socket`, `sse_events_handler`, `require_operator`, and the pulses as the gateway sees them | composes connections, the loop, the channel and `Dispatch` |
| `MC...` | finite instances for TLC | |
| `...Proofs` | theorems | |

**Workflow.** `state`, `failure`, `seq` are the ledger; `live`, `peak`, `cancelSeen`,
`budgetExhausted` the locals of `run` of the same names; `permits` the semaphore;
`body`/`fin` the join set and how each body ended. `pc` is the coordinator's place:
`top` (head of the loop), `cancelOpen`, `propagate` (passes over the tasks until nothing
changes), `start`/`acquire` (the start loop, with its re-check of the tokens before the
permit is tried), `wait` (the biased `select!`), `finalCancel`, `report`, `done`. The
steps of one visit to a task are one action, since only the coordinator touches the
ledger; whatever another process can change in between (tokens, clock, permits, ended
bodies) is read in an action of its own. `BodyInterrupted` and `BodyEnds` are the two
branches of the spawned future's `select!`, and both return the permit in the step that
ends the body, before the coordinator joins it, as the code does. `ran` (did the body act)
and `late` (tasks started after a cancel or the deadline) are history.

**AgentLoop.** A call is known by its position. `tries` are the faults of the current
call's attempts, turned into `records` with one number per failed attempt when the call is
over. `effects` counts how often a call really changed something, which the agent cannot
see. `CutOff` and `TimedOut` may happen at any time while a call is in flight.

**CancelToken.** Each operation on the flag or the `Notify` is one step. `created`
remembers how many notifications there had been when the waiter's future was created:
`notify_waiters` wakes only futures that exist.

**ContextWindow.** A message is its role and its sizes. `history` and `dropped` are
history variables: all messages ever pushed, and how many were removed. One removal is one
step; nothing else runs in between.

**WorkflowBuilder.** One pop of Kahn's queue and one step of the walk are one action each.

**Heartbeat.** Each pulse is a process (`idle`, `list`, `next`, `claimed`, `executing`);
each statement of SQLite is a step. `Crash` forgets every pulse of a process and its tick
counter; `Abandon` is the gateway dropping a handler's future. `Wrap` is the width of the
tick counter.

**Interact, Stores, Records, Database.** A call is a closure on a blocking thread; `lock`
is the process's connection mutex. Another process has a connection of its own, and
closures open no transaction, so the two statements of run `create` are two steps (`Count`,
`Insert`); a closure of one statement is one step. `GiveUp` drops the caller's future; its
closure still runs. `Fail` is a statement that fails, or a closure that panics (section 7).
What a client keeps between calls
(its copy of the session or of a run, the approval it means to decide, its place in the
pages) are variables of the model, as the code hands out plain structs. A message knows the
second of its making and, as history, the rows there were then. A `workload` says which
operations a behaviour has: the tables share nothing but the connection.

**Dispatch.** A call is the shape the checks look at: whose skill, which arguments, which
command form, where the path or directory lies, what the probe thinks of it. `ExecuteGated`
(skill requests), `DispatchClassified` (an agent's calls) and `DispatchShellGated` (shell
requests and the heartbeat's shell tasks) are the three paths, `Results` the set of what can
come of a call and whether something ran for it. The place `link` is a name below the root
for something outside of it: reading and working there resolve the name and refuse it,
writing resolves the directory and takes the name as it is. The module has no state.

**Gateway.** `phase` and `doing` are the place of a connection's task: `greeting`, `select`
(the loop of `handle_socket`), `model` or `pulse` (awaited inside a handler). `asked` and
`taken` count the requests a client sent and its task took; `out` is the frame being sent,
`frames` and `seen` what was sent and read (a frame is delivered while the connection has
room for it). `feed` is all pulses ever published; `next` is a receiver's place in it, and
`Lagged` moves it to the oldest receipt the channel still holds. `stage` and `num` are a
pulse's place and its number, drawn at the start and published later. `done` records each
dispatched call with who made it (a client, by request or through its agent, or a pulse for
a shell task), its answer and whether something ran. `turns` are the recorded turns: whose
request, and the reply that was kept. An agent's run records its last response
(`agent.rs:411`) unless its model fails; the Discord relay quotes its model's error as the
reply and records that (`gateway.rs:348`); a stream records nothing, may break off after it
began, and has a text of its own if it cannot begin. A `plan` fixes the configuration, the
number of pulses of the loop, the commands of the shell tasks and the clients of a
behaviour.
`SendInVain` and `HangUp` differ as in the code: some failed sends end the loop, others are
ignored and the end is noticed at the next read. `CutOff` drops an HTTP handler's future
with its client.

## 3. The runs

Passing runs:

| run | question | bounds, and why they are enough | states |
|---|---|---|---|
| `workflow_safety` | Do ledger, counters and report agree with what the bodies did, whatever fails, and does the executor implement `TaskGraph`? | All acyclic graphs of three tasks with both orders of each dependency list, two permits, five ways for a body to end, two certainty claims, cancel and deadline at any step. Three tasks give chains, forks, joins and one task that waits for a permit behind two others; two permits give bodies ending together. | 2.6 M |
| `workflow_live` | Does a stopped run return though no body ever does? Does every run whose bodies return? | A chain, a join and three independent tasks; three outcomes (success, approval, panic: the ones the coordinator treats differently while others run). | 244 k |
| `heartbeat` | Has a task one holder (`SoleHolder`), is it run at most once, counted once, and finished unless its pulse was lost? | Two processes, three pulses of which two share a process and one is a request, two tasks, one fault (a crash or a failing statement), a tick counter that wraps at 2 so that numbers collide. One crash is enough for a restarted loop to meet the receipts and tasks of the one before. | 476 k |
| `agent_safety` | Are retries harmless, records true, chains right, outcomes right; does a cancel end the task? | Two turns of up to two calls over a read and a write tool, three attempts of which the ceiling allows two: failures before, between and after successes, across turns, and a retry that is cut by the ceiling. | 194 k |
| `cancel_token` | Is a wake-up ever lost? | Three waiters, two cancels: a second cancel may run while the first has stored the flag and not notified. | 2.5 k |
| `context_window` | Is what is sent the longest tail that fits? Is every request answered? | Three turns, up to two calls, outputs of 1 or 12 words on a budget of 45 tokens: a half-answered turn of two calls just fits, a long output forces pruning, and the budget is met exactly. | 6.5 k |
| `workflow_builder` | Does `build` accept exactly the graphs that can run? | Up to three tasks of up to two ids from three names and the empty one: duplicates, self dependencies, unknown ids, cycles of length two and three and cycles with a tail. | 19 k |
| `stores` | Is an accepted session update ever lost, or a version accepted twice; what is left of "one active run"; do lists and decisions survive other clients? | Two clients of one process and one of another, interchangeable within the process (hence the symmetry); six workloads of three or four calls: the shortest stale write takes four (two reads and two updates), a second decision of an approval four, a missed row of a page of two needs two pages and a change between them. The clock has two seconds: messages within one and across two. Give-ups and failing statements anywhere. | 1.5 M |
| `gateway` | Do pulses and answers come in order, is a recorded turn what the client was told, is every gate passed, is every reading client served? | 138 plans of two clients next to the loop. Pulses: a handler that pulses while the loop does, with a client that stalls, leaves, drops its request or only listens. Models: each kind of handler against a client that leaves. Calls: a command on all three paths for every answer of the probe, each skill in each place by request and by agent, shell tasks of the loop and of a requested pulse next to a client's equal call. Tokens: every combination of the two headers. `Capacity = 1` and `Buffer = 1`: the second pulse overwrites the first, the second unread frame blocks. | 364 k |

`cancel_token`, `stores` and `gateway` switch deadlock checking off: a token that was
cancelled and has no waiters left, clients that used up their calls, and connections whose
clients have said everything have nothing more to do. The other modules either never stop
or say so with a `Returned` step.

Runs that find a violation are in section 6.

What each property says, and why it could be wrong, is in the comment above it. The ones a
unit test would hardly reach:

- `NoOrphanBody`: a task is recorded as Running exactly while its body is in the join set,
  through cancels, panics and late approvals.
- `AtMostOneLateStart`: `src/docs/WORKFLOW-DAG.md` says that a cancelled workflow starts
  nothing new. The code re-checks before each start, so the window is one task, whatever
  the number of ready tasks and permits; this is what is true and what is checked and
  proved.
- `ReportTruthful`: `Completed`, `Failed`, `WaitingForApproval` and `Cancelled` are said
  only of ledgers that deserve it, including a task that asked for approval after the run
  was cancelled.
- `ImplementsTaskGraph`: every step of the executor is a step of the abstract scheduler or
  leaves it alone.
- `RootOfStreak`: the root cause of a failure is the first failure of the unbroken streak
  before it.
- `CountedOnce`: receipts of restarted processes reuse tick numbers and replace rows; the
  sum of what all receipts claim still never exceeds the tasks claimed.
- `Verdict`: `build` accepts exactly the acyclic graphs, and a path it reports is a cycle.
- `NoLostUpdate` and `OneUpdatePerVersion`: together, optimistic locking is right even when
  a caller gives up on an update that is carried out later and tries again.
- `RedecidedOnlyFromStaleCopy`: the update of an approval is unconditional, so two deciders
  can both be told Ok; what remains, and is proved, is that the second read its copy before
  the first decision was written.
- `ConversationOrder`: ordering by the second of creation and then by row never shows an
  answer before its question, also across processes and with retried appends.
- `PagesComplete`: an `OFFSET` reader loses no session that nobody updated meanwhile,
  because an update moves a row only towards the front and a new row pushes others back.
- `PulseFeed`: numbers are drawn before receipts are published, so the feed is not in the
  order of numbers; it is still the same feed for everybody, without repetition, and a
  connection misses only what `Capacity` newer ones overwrote.
- `AnswersInOrder`: includes that the receipt a client asked for is never preceded by the
  same pulse on its feed, and that a turn is recorded with the very reply its client is
  told; an error is recorded as a reply by the relay alone.
- `GatedEffects`: three paths, each with its own order of checks, refuse the same calls.
  What it says of places is what the code enforces: what is read or worked in is in the
  root, and what is written has its name there.
- `Served`: a client that reads is served whatever another does, and the connection of a
  client that left ends.

## 4. Fairness

- `Workflow`: weak fairness of the coordinator and of the polling of woken bodies
  (`Scheduled`): tokio polls a woken task. No fairness on a body's own end, on the caller or
  on the clock. `ReturnsIfBodiesDo` states the bodies' fairness as its premise.
- `AgentLoop`: the model answers (`Model`) and the agent is polled (`Loop`). No tool need
  ever return: `CancelEndsTask` holds all the same.
- `CancelToken`: every thread inside `cancel()` or `cancelled()` goes on.
- `Heartbeat`: a pulse in progress goes on, and a loop begins its next pulse (the interval
  timer, or whoever restarts the process). That an execution ends is justified for shell
  commands (killed after 15 seconds) and assumed for the health probe, which has no timeout
  of its own; that is listed as a hazard.
- `WorkflowBuilder`: a sequential program that is run.
- `Stores`, `Records`: none; only safety is claimed of them.
- `Gateway`: a task whose await is over is polled (weak fairness of each of its steps) and a
  pulse in progress goes on. `Take` is strongly fair: `tokio::select!` picks among its ready
  branches at random, so requests and pulses cannot starve each other. That a model ends is
  justified by the HTTP client's timeout (`inference.rs:145`); that the crumb command ends
  is assumed, as nothing in the code bounds it (a hazard in `PROJECT.json`). A client need
  never connect, ask, read or leave; one that reads goes on reading.

## 5. The proofs

Proved by TLAPS for every value of the constants that satisfies the named assumptions:

| theorem | module | says | rests on |
|---|---|---|---|
| `TypeCorrect` | `WorkflowProofs` | `TypeOK` of `Workflow`, any number of tasks, graphs, permits | `TypeStep` |
| `NoOrphans`, `CausesGoBack`, `NoEffectHolds`, `OneLateStart` | `WorkflowProofs` | `NoOrphanBody`, `FailuresExplained`, `NoEffectIsTrue`, `AtMostOneLateStart` | `SafeInv` |
| `DependencyOrder`, `TerminalStays` | `WorkflowProofs` | `PrerequisitesFirst`, and `TerminalIsFinal`, an action property; no run checks them on their own | `SafeInv` |
| `CountersAgree` | `WorkflowProofs` | `Accounting` | `Accounting` with `SafeInv` |
| `ReportIsTruthful` | `WorkflowProofs` | `ReportTruthful` | `LoopInv`, `StatusInv` |
| `ExecutorIsTaskGraph` | `WorkflowProofs` | `ImplementsTaskGraph`: `Workflow` implements `TaskGraph` | all of the above |
| `DegreesNeverWrap`, `VerdictIsRight` | `WorkflowBuilderProofs` | `TypeOK` (an in-degree is never decremented below zero) and `Verdict`, any tasks and dependencies | `BuildInv` |
| `HeartbeatTyped`, `TaskRunsAtMostOnce`, `TaskHasOneHolder` | `HeartbeatProofs` | `TypeOK` (proved only, no run checks it), `AtMostOnce`, `SoleHolder`, any number of processes, pulses, tasks, crashes | `TableInv` |
| `NoTaskCountedTwice` | `HeartbeatProofs` | `CountedOnce`, any finite set of pulses | `CountedOnce` with `TableInv` |
| `RetriesRepeatNothing`, `NoEffectIsTrue`, `NothingAfterHalt` | `AgentLoopProofs` | `RetriesHarmless`, `NoEffectRecordIsTrue`, `HaltIsLast`, any tools, turns, attempts | `AgentInv` |
| `RootIsFirstOfStreak`, `ApprovalIsKept` | `AgentLoopProofs` | `RootOfStreak`, `OutcomeKeepsApproval` | `AgentInv`, `ChainInv` |
| `TokenTyped` (checked by no run), `NoWakeupIsLost` | `CancelTokenProofs` | `TypeOK`, `NoLostWakeup`, any waiters, finitely many cancels | `TokenInv` |
| `WindowTyped` (checked by no run), `GoalAndTailKept` | `ContextWindowProofs` | `TypeOK`, `WindowIsTail`, any budget and conversation | `WindowInv` |
| `RequestsComeWithAnswers` | `ContextWindowProofs` | `RequestsAnswered` | `WindowInv`, `RepliesInv` |
| `NothingLeftOutInVain` | `ContextWindowProofs` | `LongestTailSent` | `WindowInv`, itself |
| `UpdatesAreKept`, `VersionIsSpentOnce` | `StoresProofs` | `NoLostUpdate`, `OneUpdatePerVersion`, any clients, processes, calls | `SessionInv` |
| `OneActiveRunPerProcess` | `StoresProofs` | `ActiveRunsOfOneProcess` | `RunInv`, `LockInv` |
| `DecisionsAreOfPendingCopies` | `StoresProofs` | `RedecidedOnlyFromStaleCopy` | `ApprovalInv` |
| `QuestionsComeFirst` | `StoresProofs` | `ConversationOrder` | `MessageInv` |
| `PagesMissNothing` | `StoresProofs` | `PagesComplete`, any page size | `PageInv` |
| `StoresStayTyped` | `StoresProofs` | `TypeOK` of `Database` | `Bounds` and all but the first two of these invariants |
| `EffectsAreGated` | `GatewayProofs` | `GatedEffects`, any clients, requests, agents' calls, shell tasks, capacity | `CallsInv`, `GateInv`, `LinkInv`, `NumbersInv` |
| `GatewayTyped` | `GatewayProofs` | `TypeOK` of `Gateway` | `GateInv`, `LinkInv`, `NumbersInv` |
| `PulsesComeInOrder` | `GatewayProofs` | `PulseFeed` | `FeedInv` and those |
| `AnswersComeInOrder` | `GatewayProofs` | `AnswersInOrder` | `TurnInv`, `ReceiptInv` and those |

Together they are every invariant that a passing run checks, and the refinement.

The arguments:

- *Workflow, safety.* None of the five properties is inductive alone. `SafeInv` adds: a task that
  never started has no body (`BodyShape`); a task that is Ready or has a body has all its
  prerequisites Completed (`StartedInOrder`: readiness carries dependency order from
  `propagate` to a start that may come much later); record numbers are below the ledger's
  (`FailureNumbers`, so that a skip's cause is earlier); the task at `acquire` is Ready; and
  one late start means that the stop is visible and the coordinator is past the re-check
  (`LateOnce`). The step proof goes ledger entry by ledger entry: `FailSafe` and
  `SucceedSafe` say what one transition keeps, `QuietSafe` covers steps that leave the
  ledger alone. `TerminalStays` needs `NoOrphanBody`: a joined task was Running, so it was
  not terminal.
- *Workflow, counters.* `Accounting` is about cardinalities: a step of one body adds one
  element to the set of bodies in the join set or of those that are alive, or takes one
  away. It needs `SafeInv` to know that a started task had no body and a joined one did.
- *Workflow, report.* What `report` says is true because of what the coordinator knows at
  each place of its loop (`LoopInv`): after the cancel was seen there is no way back to the
  start loop and nothing cancellable is left; after a pass of `propagate` without a change
  every Pending task waits for an open prerequisite; the start loop leaves a Ready task
  behind only if a body is still to be joined. When nothing is waiting and nothing runs,
  nothing can be Pending: among the Pending tasks take the one whose rank in the graph's
  order is least (well-foundedness of the naturals); its open prerequisite would have to be
  Pending with a smaller rank. This is the place where `GraphAssumption` is needed.
- *Workflow implements TaskGraph.* `MoveMaps` and `StutterMaps` reduce each step to one
  question: which task changed its abstract phase, and was it allowed to. Starts need
  `StartedInOrder` and `Accounting` (a permit is free, so fewer than `MaxParallel` are
  running), joins need `NoOrphanBody`, `Report` needs `ReportTruthful`. The abstract
  module is an instance with definitions of its own, so `SameSize` says once that its
  `Cardinality` is the one the counters are stated with.
- *WorkflowBuilder.* `BuildInv`: the in-degree of a position is the number of its
  dependencies that are not popped yet (`DegreesCount`), so a decrement meets a positive
  number and the queue holds exactly the positions of degree zero; the popped tasks have a
  rank that grows along the edges (`RankInv`), which is the witness for an accepted graph;
  of the tasks that are left each waits for another (`WalkInv`), so the walk always finds a
  next one, and when it meets its own path the part from there is a cycle. That a graph
  with such a set of waiting tasks has no order at all is `WaitingCannotRun`: its least
  member would wait for a smaller one. `InOrder`, the order of the queue, is a choice;
  `InOrderIs` shows that there is something to choose.
- *Heartbeat.* `TableInv` is `AtMostOnce`, `SoleHolder` and `HeldOnce` (a held task has
  begun to execute exactly when its pulse is executing): none of the three is inductive
  without the others. `CountedOnce` compares a sum over all receipts and pulses with a
  cardinality, and is inductive next to `TableInv`: a claim adds one to both sides, a
  receipt moves what its pulse counted from one term of the sum to another or replaces an
  older one, a crash only takes away. The lemmas on sums (`FoldExists`, `SumSplits`,
  `SumUpdate`) say of the recursive function that adds up a finite set what a step needs.
- *AgentLoop, effects.* Records are only appended, so all rests on the call in progress:
  its entry in `effects` is what the running attempt did, and if it was tried before it is
  a read that was unavailable each time (`Begun`, `Retried`). `OverKept` says what ends a
  call may add; `FailsKept` splits a failed attempt into another try and the end of the
  call.
- *AgentLoop, causes.* `ChainInv`: the last failed call is the one before the current
  call, if that failed, and the parent of a record is the call before its own if that
  failed, else none (`Caused`). The walk of `root_cause` then steps back by one call each time; it is a
  recursive function, whose values exist up to any length (`WalkExists`), and it ends where
  the streak of failures begins. `OutcomeRight` reads the last record of an ended task.
- *CancelToken.* `TokenInv` adds to `NoLostWakeup` that the number of notifications is the
  number of cancels that are done (`Counted`), which bounds it: a waiter falls asleep only
  when the flag is unset, so a later `Store` leaves a notification due, and a `Notify` makes
  the number differ from every sleeper's.
- *ContextWindow.* `PruneWindow` and `PushWindow` are lemmas on `SubSeq` and `\o`: removing
  the third message lengthens `dropped` by one, and pushing commutes with it.
  `RepliesInv` is about the whole conversation: all requests are answered outside a turn's
  calls, and inside one all but those of one message, of which the first so many are.
  `LongestTailSent` is inductive next to `WindowInv`, once the estimate of a conversation
  is known to grow by the weight of the message appended (`EstimateOfAppend`): what did not
  fit does not fit with more behind it.
- *Stores, sessions, runs and approvals.* `SessionInv`: every copy, a client's or a call's
  argument, is older than the row or contains every edit of the row; a spent version is
  below the row's, so no later update of it is fresh. For the runs, `RunInv` and `LockInv`:
  between the two statements of `create` its call holds the connection of its process, so
  nobody else of that process inserts meanwhile, and what was counted can only have been
  added to by another process or revived by an update. For approvals, `ApprovalInv`: a copy
  with `asOf = n` was pending after n decisions, so none of those n was about it.
- *Stores, lists.* `Listing` and `Page` are defined by ranks: a row's rank is the number of
  rows before it. In a strict order of a finite set ranks are different, grow along the
  order and leave no gap (`RankUnique`, `RankGrows`, `RankOnto`). `MessageInv`: what was
  stored when a message was made stands in a lower row with no later second (`ComesFirst`),
  so its rank is less in every later listing. `PageInv`: of a reader's due sessions those
  it has not got have a rank of at least its offset (`StillAhead`): an update or a new row
  never lowers the rank of another (`OthersGoBack`), and a session behind a page means that
  the page is full (`PageFull`), so the reader goes on.
- *Stores, types.* `Bounds` adds what the types need: an argument refers to a row there is
  (`RefInv`, `ActionInv`), a lock is held by a call between two statements (`HolderInv`,
  the other half of `LockInv`), and nobody waits for a call that was not sent (`CallInv`).
- *Gateway, gates.* `GateInv`: a connection that does anything passed `require_operator`
  (`AdmittedOne`). `CallsInv`: every dispatched call was made by the loop or by a client
  that may ask for it (`MayCall`), and is refused exactly when the membrane or the probe
  refuses it (`Gated`), which the path lemmas `SkillPath`, `AgentPath` and `ShellGatedPath`
  establish for the three orders of the checks. It needs the types of the connections: an
  agent's call is that of the request its handler is working on, and a pulse that runs a
  shell task is the loop's or one that a client asked for. `plan` never changes, so what was
  admitted stays admitted. That shell requests and tasks gate their command as the skill
  `bash_eval`, and that the public routes only read, are assumptions about the routes
  (`Routed`, read off `create_router`).
- *Gateway, order.* `NumbersInv`: no number is drawn or published twice. The other
  invariants are one operator applied to each client's state, so that a step is a lemma on
  that operator. `Fed`: the pulses among a client's frames stand in the order of the feed,
  all before its receiver's place, and between two of them only what the channel had
  overwritten is missing. `InTurn`: the answers among the frames are those of the requests
  taken, in their order, and the one that is being worked on has none yet; a turn's reply is
  that of the answer to its request, which is being sent, was sent, or was for a client that
  is gone. `InTime`: a
  receipt that answers a request names a published pulse that is not on the client's
  frames before it.

Assumptions: the ASSUMEs of the modules, evaluated by TLC in every run. `GraphAssumption`
(a topological order exists) is what `WorkflowBuilder` establishes, now by proof
(`VerdictIsRight`); the two modules name tasks differently, so the step from one to the
other is this sentence and not a theorem.

Only model-checked: liveness under fairness (`StoppedReturns`, `ReturnsIfBodiesDo`,
`EveryTaskFinished`, `CancelEndsTask`, `CancelReachesWaiters`, `BuildReturns`, `Served`),
which with `ENABLED` is out of the prover's reach. Where a proof needs induction over the
naturals, which the prover cannot instantiate, it takes a least counterexample instead
(`LeastNumber`, `UpTo`, from the well-foundedness of `<`).

## 6. Where code and text disagree

- `workflow_serial` (`SerialWhenOnePermit`): `src/docs/WORKFLOW-DAG.md:44` says "With
  `max_parallel = 1` the whole order is fixed for a given spec". The permit is dropped when
  the body ends (`orchestration/workflow.rs:709`) and may be taken again (`:691`) before
  that end is joined and recorded, so two tasks can be recorded as Running and the order of
  the ledger's entries depends on the scheduler. The bodies themselves never overlap
  (`Accounting`).
- `agent_out_of_turns` (`OutOfTurnsClaimsNoCertainty`): `orchestration/workflow.rs:990`
  says of a run that used up its turns "tools may have acted, so claim no certainty". If
  some call failed, `agent_outcome` (`:971`) returns that call's certainty before it gets
  there: a run that wrote a file and then was refused is reported with `NoEffect`.
- `context_orphan` (`WholeTurnsPruned`): `agent.rs:189` says "prune oldest historical
  turn"; `messages.remove(2)` removes single messages and stops when the rest fits, so a
  tool's answer may stay while the request it answers is gone.

Seen and not a run of its own: `src/docs/WORKFLOW-DAG.md:38` says that a cancelled workflow
starts nothing new, while one task may start late (`AtMostOneLateStart` is the exact
bound). A test (`src/tests/stage3_4_persistence_tests.rs`) expects one active run per
session; within one process `create` guarantees that, across processes and after the write
of a stale copy it does not (`ActiveRunsOfOneProcess` says what remains). The description
of `write_file` (`skills.rs:252`) says "strictly within authorized workspace roots";
`resolve_write_path` resolves the directory and takes the file's own name as it is, so
`GatedEffects` says of a written file that its name is in the root. The Discord relay
answers with status "relayed" whether its model answered or not, and records the error it
quotes as the reply.

## 7. What is not modelled

- Inference engines, vector kernels, prompt formatting: numeric code and I/O. The model's
  answers are any sequence of tool calls.
- The bodies of skills and of heartbeat task types: file, git, shell and HTTP I/O. What
  matters about them is whether they acted, and when.
- The secret vault: a cache filled once per key in front of an external command, and
  redaction of texts. Nothing interleaves with it but a second fill with the same value.
- The event bus: envelopes for observers, on which no component of `src/src` acts. Broadcast
  with lagging receivers is modelled where something reads it, the heartbeat feed.
- Loading the operator token and choosing the listen address: start-up code.
- Registration of skills beyond the built-in ones.
- Actions after their creation: `update` of an action is written as that of an approval.
- Times, digests, message texts, redaction, transcripts, receipts' notes.
- A closure of the stores that panics: its caller is told an error, the lock is poisoned,
  and every later call of its connection is told one too. Each of these is a `Fail` of the
  model, which may happen to any call at any time; that they come together is left out.
- The update of an approval writes whatever status it is given, pending included; the
  clients of `Records` decide, and write nothing else.
- What certainty goes with a class of fault is fixed by `AgentLoop.Says` as
  `dispatch_classified` has it; a custom dispatcher that reports another one, or claims
  falsely that it did nothing, is not modelled.
- A workflow body could cancel its own workflow through the token in its context; no
  runner in `src/src` does, and neither do the models' bodies.
- `branch` and `to_agent_state` of a session.
- Data types without behaviour (`execution/`, `defense/`, parts of `orchestration/`) and the
  two broker traits, which nothing in `src/src` implements.

## 8. Plan

Written in this order: (1) `TaskGraph`, `Workflow`, its invariants and proofs: the
concurrent core; (2) `Heartbeat`, which runs unattended on state that survives crashes;
(3) `AgentLoop`, whose records the workflow reports; (4) `CancelToken`, on which the
liveness of 1 and 3 rests; (5) `ContextWindow`; (6) `WorkflowBuilder`, for `GraphAssumption`;
(7) `Stores`, then `Interact`, `Records` and `Database`; (8) `Dispatch` and `Gateway`; and
the proofs of the counters, the report and the refinement of `Workflow`, of `AgentLoop`,
the stores and the gates; last the proofs of the remaining invariants: the sums of the
heartbeat, the chains of the agent, the replies and the longest tail of the window, the
builder, the lists and types of the stores, and the order of what the gateway sends.

What would come next:

1. The order in which executor and agent publish on the event bus, against the ledger's
   order: today only observers outside `src/src` would notice.
2. An abstract specification of the heartbeat (a task runs at most once and is finished or
   lost) and of optimistic locking, with refinement mappings.
3. `AgentLoop` composed with `Workflow` through `Outcome`, on which the finding about runs
   out of turns would show at the level of a workflow report.
4. Action properties of the stores and the gateway (what a step may never do to a row or
   to a connection), with their proofs; today their safety is stated on states only.
