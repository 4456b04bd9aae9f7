----------------------------- MODULE MCWorkflow -----------------------------
(* Instances of Workflow for TLC: every acyclic graph over N tasks, with    *)
(* the prerequisites of a task listed in either order.                      *)
EXTENDS WorkflowInv

DepLists == {<<>>} \cup {<<a>> : a \in Task}
              \cup {p \in Task \X Task : p[1] # p[2]}

Acyclic(g) ==
  \E rank \in [Task -> Task] :
    \A t \in Task : \A d \in DepSet(g, t) : rank[d] < rank[t]

AllGraphs == {g \in [Task -> DepLists] : Acyclic(g)}

(* A chain, a fork and three independent tasks. *)
FewGraphs ==
  {<< <<>>, <<1>>, <<2>> >>, << <<2, 3>>, <<>>, <<>> >>, << <<>>, <<>>, <<>> >>}

NoDeps == {[t \in Task |-> <<>>]}

(* Task 1's runner undoes what it did when interrupted; the others may not. *)
MCInterrupt == [t \in Task |-> IF t = 1 THEN "NoEffect" ELSE "Uncertain"]
=============================================================================
