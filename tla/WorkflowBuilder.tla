-------------------------- MODULE WorkflowBuilder --------------------------
(***************************************************************************)
(* WorkflowBuilder of src/src/orchestration/workflow.rs: tasks are added   *)
(* one by one with the ids they depend on, in any order; build() looks for *)
(* unknown ids, then peels off tasks whose prerequisites are peeled (Kahn) *)
(* and, when some remain, walks back along their prerequisites until it    *)
(* has gone round a cycle.                                                 *)
(*                                                                         *)
(* Tasks are known by their position, as in the code; a task's runner is   *)
(* left out. A call that fails consumes the builder.                       *)
(***************************************************************************)
EXTENDS Naturals, Sequences, FiniteSets, SequencesExt

CONSTANTS
  Id,         \* task ids
  EmptyId,    \* the id ""
  MaxTasks,   \* bound on the tasks added
  MaxDeps     \* bound on the ids one task lists

ASSUME BuilderAssumption ==
  IsFiniteSet(Id) /\ EmptyId \in Id /\ MaxTasks \in Nat /\ MaxDeps \in Nat

VARIABLES
  pc, result,
  tasks,            \* id and prerequisite ids of each task
  indegree, queue,  \* of build()
  peeled,           \* the number of tasks popped from the queue
  path, cycle,      \* of find_cycle(), and its result
  popped            \* history: the tasks popped from the queue

vars == <<pc, result, tasks, indegree, queue, peeled, path, cycle, popped>>

Init ==
  /\ pc = "adding" /\ result = "none"
  /\ tasks = <<>> /\ indegree = <<>> /\ queue = <<>>
  /\ peeled = 0 /\ path = <<>> /\ cycle = <<>> /\ popped = {}

Positions == 1..Len(tasks)
Known == {tasks[i].id : i \in Positions}
Index(id) == CHOOSE i \in Positions : tasks[i].id = id
Deps(i) == {tasks[i].deps[k] : k \in DOMAIN tasks[i].deps}

(* The members of a set of positions, each once and in their order.        *)
InOrder(S) ==
  CHOOSE s \in [1..Cardinality(S) -> S] :
    Range(s) = S /\ \A j, k \in DOMAIN s : j < k => s[j] < s[k]

Return(r) == pc' = "done" /\ result' = r

-----------------------------------------------------------------------------
(* add_task. The ...Variant definitions here and below are plausible slips *)
(* in the definition that follows them; with one in place a property must  *)
(* fail.                                                                   *)

(* The first id of the list that is the task itself or listed before.      *)
BadDep(id, deps, k) ==
  deps[k] = id \/ \E j \in 1..(k - 1) : deps[j] = deps[k]

AddTask(id, deps) ==
  LET bad == {k \in DOMAIN deps : BadDep(id, deps, k)}
      first == CHOOSE k \in bad : \A j \in bad : k <= j
  IN
  /\ pc = "adding"
  /\ \/ /\ id = EmptyId
        /\ Return("EmptyTaskId") /\ UNCHANGED tasks
     \/ /\ id # EmptyId /\ id \in Known
        /\ Return("DuplicateTask") /\ UNCHANGED tasks
     \/ /\ id # EmptyId /\ id \notin Known /\ bad # {}
        /\ Return(IF deps[first] = id THEN "SelfDependency" ELSE "DuplicateEdge")
        /\ UNCHANGED tasks
     \/ /\ id # EmptyId /\ id \notin Known /\ bad = {}
        /\ tasks' = Append(tasks, [id |-> id, deps |-> deps])
        /\ UNCHANGED <<pc, result>>
  /\ UNCHANGED <<indegree, queue, peeled, path, cycle, popped>>

-----------------------------------------------------------------------------
(* build.                                                                  *)

UnknownPredecessor ==
  /\ pc = "adding"
  /\ \E i \in Positions : ~(Deps(i) \subseteq Known)
  /\ Return("UnknownPredecessor")
  /\ UNCHANGED <<tasks, indegree, queue, peeled, path, cycle, popped>>

StartPeeling ==
  /\ pc = "adding"
  /\ \A i \in Positions : Deps(i) \subseteq Known
  /\ indegree' = [i \in Positions |-> Len(tasks[i].deps)]
  /\ queue' = InOrder({i \in Positions : tasks[i].deps = <<>>})
  /\ pc' = "peeling"
  /\ UNCHANGED <<result, tasks, peeled, path, cycle, popped>>

(* Positions that become free when one more of their prerequisites is gone *)
(* join the queue in order.                                                *)
FreedVariant(degrees, behind) == {i \in Positions : degrees[i] = 0}
Freed(degrees, behind) == {i \in behind : degrees[i] = 0}

Peel ==
  LET n == Last(queue)
      behind == {i \in Positions : tasks[n].id \in Deps(i)}
      degrees == [i \in Positions |-> IF i \in behind THEN indegree[i] - 1 ELSE indegree[i]]
  IN
  /\ pc = "peeling" /\ queue # <<>>
  /\ peeled' = peeled + 1
  /\ popped' = popped \cup {n}
  /\ indegree' = degrees
  /\ queue' = Front(queue) \o InOrder(Freed(degrees, behind))
  /\ UNCHANGED <<pc, result, tasks, path, cycle>>

AllPeeled ==
  /\ pc = "peeling" /\ queue = <<>> /\ peeled = Len(tasks)
  /\ Return("Ok")
  /\ UNCHANGED <<tasks, indegree, queue, peeled, path, cycle, popped>>

(* find_cycle: start at the first task that is left, go to the first       *)
(* prerequisite that is left (or back to the start, if there were none),   *)
(* until a task comes up again.                                            *)
Left == {i \in Positions : indegree[i] > 0}

First(s) == CHOOSE i \in s : \A j \in s : i <= j

StartWalk ==
  /\ pc = "peeling" /\ queue = <<>> /\ peeled # Len(tasks)
  /\ path' = <<IF Left = {} THEN 1 ELSE First(Left)>>
  /\ pc' = "walking"
  /\ UNCHANGED <<result, tasks, indegree, queue, peeled, cycle, popped>>

NextOnPath ==
  LET deps == tasks[Last(path)].deps
      left == {k \in DOMAIN deps : Index(deps[k]) \in Left}
  IN  IF left = {} THEN path[1] ELSE Index(deps[First(left)])

(* The variant forgets where it has been.                                  *)
ExtendedVariant == <<NextOnPath>>
Extended == Append(path, NextOnPath)

(* The walk goes back in time: reversed, it is in dependency order.        *)
CycleVariant(from) == SubSeq(path, from, Len(path))
Cycle(from) == Reverse(SubSeq(path, from, Len(path)))

Walk ==
  /\ pc = "walking"
  /\ \/ /\ NextOnPath \notin {path[k] : k \in DOMAIN path}
        /\ path' = Extended
        /\ UNCHANGED <<pc, result, cycle>>
     \/ \E k \in DOMAIN path :
          /\ path[k] = NextOnPath
          /\ Return("Cycle") /\ cycle' = Cycle(k)
          /\ UNCHANGED path
  /\ UNCHANGED <<tasks, indegree, queue, peeled, popped>>

Returned == pc = "done" /\ UNCHANGED vars

Build == UnknownPredecessor \/ StartPeeling \/ Peel \/ AllPeeled \/ StartWalk \/ Walk

DepLists == UNION {[1..n -> Id] : n \in 0..MaxDeps}

Next ==
  \/ \E id \in Id, deps \in DepLists : Len(tasks) < MaxTasks /\ AddTask(id, deps)
  \/ Build \/ Returned

(* build() is one call: once begun it goes on.                             *)
Spec == Init /\ [][Next]_vars /\ WF_vars(pc # "adding" /\ Build)

-----------------------------------------------------------------------------
(* Properties.                                                             *)

Results == {"none", "Ok", "EmptyTaskId", "DuplicateTask", "SelfDependency",
            "DuplicateEdge", "UnknownPredecessor", "Cycle"}

(* Throughout the peeling a degree is the number of prerequisites that are *)
(* not popped, and a task is in the queue, once, or popped, exactly when   *)
(* none are left.                                                          *)
DegreesCount ==
  pc = "peeling" =>
    /\ peeled = Cardinality(popped)
    /\ \A i \in Positions :
         /\ indegree[i] = Cardinality({d \in Deps(i) : Index(d) \notin popped})
         /\ indegree[i] = 0 <=> i \in popped \/ \E k \in DOMAIN queue : queue[k] = i
    /\ \A k \in DOMAIN queue :
         queue[k] \notin popped /\ \A j \in DOMAIN queue : queue[j] = queue[k] => j = k

(* Every variable stays within its type: the queue and the path hold       *)
(* tasks, and the degrees never wrap below 0, because they count what they *)
(* should: so what remains at the end is what lies on or behind a cycle.   *)
TypeOK ==
  /\ pc \in {"adding", "peeling", "walking", "done"}
  /\ Len(tasks) \in 0..MaxTasks
  /\ \A i \in Positions : tasks[i].id \in Id \ {EmptyId} /\ tasks[i].deps \in Seq(Id)
  /\ pc \in {"peeling", "walking"} => indegree \in [Positions -> Nat]
  /\ queue \in Seq(Positions) /\ path \in Seq(Positions)
  /\ peeled \in 0..Len(tasks)
  /\ cycle \in Seq(Positions)
  /\ result \in Results /\ (pc # "done" <=> result = "none")
  /\ DegreesCount

(* A graph can be run if every prerequisite is a task and some order puts  *)
(* every task after its prerequisites.                                     *)
Runnable ==
  /\ \A i \in Positions : Deps(i) \subseteq Known
  /\ \E rank \in [Positions -> Positions] :
       \A i \in Positions : \A d \in Deps(i) : rank[Index(d)] < rank[i]

(* "One cycle, listed in dependency order" (workflow.rs:70): each task on  *)
(* it is a prerequisite of the next, the last one of the first, and none   *)
(* comes twice.                                                            *)
CycleIsReal ==
  /\ cycle # <<>> /\ IsInjective(cycle)
  /\ \A k \in DOMAIN cycle :
       tasks[cycle[k]].id \in Deps(cycle[IF k = Len(cycle) THEN 1 ELSE k + 1])

(* build() accepts exactly the graphs that can be run, which is what the   *)
(* executor takes for granted (GraphAssumption in Workflow), and of the    *)
(* others whose ids are known it reports a cycle that is one.              *)
Verdict ==
  /\ result \in {"Ok", "Cycle"} => (result = "Ok" <=> Runnable)
  /\ result = "Cycle" => CycleIsReal

(* A build that began to peel or to walk returns.                          *)
BuildReturns == pc \in {"peeling", "walking"} ~> pc = "done"

=============================================================================
