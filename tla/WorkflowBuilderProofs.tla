------------------------ MODULE WorkflowBuilderProofs ------------------------
(***************************************************************************)
(* The verdict of build() for any number of tasks and any ids: what it     *)
(* accepts can be run, and what it reports is a cycle.                     *)
(***************************************************************************)
EXTENDS WorkflowBuilder, FiniteSetTheorems, SequenceTheorems, WellFoundedInduction, TLAPS

(* What add_task leaves: ids known once, no task that lists itself, no id  *)
(* listed twice.                                                           *)
TasksInv ==
  /\ tasks \in Seq([id : Id \ {EmptyId}, deps : Seq(Id)]) /\ Len(tasks) <= MaxTasks
  /\ \A i, j \in Positions : tasks[i].id = tasks[j].id => i = j
  /\ \A i \in Positions : tasks[i].id \notin Deps(i) /\ IsInjective(tasks[i].deps)

ShapeInv ==
  /\ pc \in {"adding", "peeling", "walking", "done"}
  /\ result \in Results /\ (pc # "done" <=> result = "none")
  /\ pc = "adding" => queue = <<>> /\ path = <<>> /\ cycle = <<>> /\ popped = {} /\ peeled = 0
  /\ queue \in Seq(Positions) /\ path \in Seq(Positions) /\ cycle \in Seq(Positions)
  /\ pc \in {"peeling", "walking"} => indegree \in [Positions -> Nat]
  /\ popped \subseteq Positions /\ peeled = Cardinality(popped)
  /\ pc \in {"peeling", "walking"} \/ result \in {"Ok", "Cycle"} =>
       \A i \in Positions : Deps(i) \subseteq Known
  /\ result = "Ok" => popped = Positions

(* The tasks popped so far can be run, in the order in which they were.    *)
RankInv ==
  \E rank \in [popped -> 1..peeled] :
    \A i \in popped : \A d \in Deps(i) : Index(d) \in popped /\ rank[Index(d)] < rank[i]

(* Of the tasks that are left each waits for another that is left.         *)
Waiting == {i \in Positions : \E d \in Deps(i) : Index(d) \in Left}
WalkInv ==
  /\ pc = "walking" \/ result = "Cycle" => Left # {} /\ Left \subseteq Waiting
  /\ pc = "walking" =>
       /\ path # <<>> /\ IsInjective(path)
       /\ \A k \in DOMAIN path : path[k] \in Left
       /\ \A k \in 1..(Len(path) - 1) : tasks[path[k + 1]].id \in Deps(path[k])
  /\ result = "Cycle" => CycleIsReal

-----------------------------------------------------------------------------
(* Numbers.                                                                *)

LEMMA LeastNumber ==
  ASSUME NEW S \in SUBSET Nat, S # {}
  PROVE  \E m \in S : \A n \in S : m <= n
<1> DEFINE R == {ss \in Nat \X Nat : ss[1] < ss[2]}
<1>1. IsWellFoundedOn(R, Nat)
  BY NatLessThanWellFounded, Zenon DEF OpToRel
<1>2. PICK m \in S : \A n \in S : <<n, m>> \notin R
  <2> HIDE DEF R
  <2> QED BY <1>1, WFMin
<1>3. \A n \in S : n < m => <<n, m>> \in R
  OBVIOUS
<1>4. \A n \in S : n \in Nat /\ m \in Nat /\ ~(n < m)
  <2> HIDE DEF R
  <2> QED BY <1>2, <1>3
<1> QED BY <1>4

(* What is true of 0 and kept from each number to the next is true up to N. *)
LEMMA UpTo ==
  ASSUME NEW N \in Nat, NEW S, 0 \in S, \A n \in 1..N : n - 1 \in S => n \in S
  PROVE  N \in S
<1> DEFINE Bad == {n \in 0..N : n \notin S}
<1>1. SUFFICES ASSUME Bad # {} PROVE FALSE
  OBVIOUS
<1>2. PICK m \in Bad : \A n \in Bad : m <= n
  <2>1. Bad \in SUBSET Nat
    OBVIOUS
  <2> HIDE DEF Bad
  <2> QED BY <1>1, <2>1, LeastNumber
<1>3. m \in 1..N /\ m - 1 \in 0..N
  BY <1>2
<1>4. m - 1 \in S
  BY <1>2, <1>3
<1> QED BY <1>2, <1>3, <1>4

-----------------------------------------------------------------------------
(* Sets of positions in order.                                             *)
Sorted(s, S, n) ==
  /\ s \in [1..n -> S] /\ Range(s) = S
  /\ \A j, k \in 1..n : j < k => s[j] < s[k]

LEMMA SortedExtended ==
  ASSUME NEW n \in Nat, NEW S \in SUBSET (1..n), n \in S,
         NEW m \in Nat, NEW s, Sorted(s, S \ {n}, m)
  PROVE  Sorted([j \in 1..(m + 1) |-> IF j = m + 1 THEN n ELSE s[j]], S, m + 1)
<1> DEFINE t == [j \in 1..(m + 1) |-> IF j = m + 1 THEN n ELSE s[j]]
<1>0. ASSUME NEW j \in 1..m PROVE s[j] \in S /\ s[j] \in 1..n /\ s[j] < n
  <2>1. s[j] \in S \ {n}
    BY DEF Sorted
  <2>2. s[j] \in 1..n /\ s[j] # n
    BY <2>1
  <2> QED BY <2>1, <2>2
<1>1. /\ DOMAIN t = 1..(m + 1) /\ t[m + 1] = n /\ DOMAIN s = 1..m
      /\ \A j \in 1..m : t[j] = s[j] /\ s[j] \in S /\ s[j] \in 1..n /\ s[j] < n
  <2>1. \A j \in 1..m : j \in 1..(m + 1) /\ j # m + 1
    OBVIOUS
  <2>2. m + 1 \in 1..(m + 1)
    OBVIOUS
  <2>3. DOMAIN s = 1..m
    BY DEF Sorted
  <2> QED BY <1>0, <2>1, <2>2, <2>3
<1>2. t \in [1..(m + 1) -> S]
  <2>1. \A j \in 1..(m + 1) : j # m + 1 => j \in 1..m
    OBVIOUS
  <2> QED BY <1>0, <2>1
<1> HIDE DEF t
<1>3. Range(t) = S
  <2>1. Range(s) = S \ {n}
    BY DEF Sorted
  <2>2. \A x \in Range(t) : x \in S
    BY <1>2 DEF Range
  <2>3. ASSUME NEW x \in S PROVE x \in Range(t)
    <3>1. CASE x = n
      <4>1. m + 1 \in 1..(m + 1)
        OBVIOUS
      <4> QED BY <1>1, <3>1, <4>1 DEF Range
    <3>2. CASE x # n
      <4>1. PICK j \in DOMAIN s : s[j] = x
        BY <2>1, <2>3, <3>2 DEF Range
      <4>2. j \in DOMAIN t /\ t[j] = x
        BY <1>1, <4>1
      <4> QED BY <4>2 DEF Range
    <3> QED BY <3>1, <3>2
  <2> QED BY <2>2, <2>3
<1>4. ASSUME NEW j \in 1..(m + 1), NEW k \in 1..(m + 1), j < k PROVE t[j] < t[k]
  <2>1. CASE k = m + 1
    BY <1>1, <1>4, <2>1
  <2>2. CASE k # m + 1
    <3>1. j \in 1..m /\ k \in 1..m
      BY <1>4, <2>2
    <3> QED BY <1>1, <1>4, <3>1 DEF Sorted
  <2> QED BY <2>1, <2>2
<1>5. Sorted(t, S, m + 1)
  BY <1>2, <1>3, <1>4 DEF Sorted
<1> QED BY <1>5 DEF t

LEMMA SortedExists ==
  ASSUME NEW N \in Nat, NEW S \in SUBSET (1..N)
  PROVE  \E m \in Nat : \E s : Sorted(s, S, m)
<1> DEFINE Good == {n \in 0..N : \A T \in SUBSET (1..n) : \E m \in Nat : \E s : Sorted(s, T, m)}
<1>1. 0 \in Good
  <2>1. ASSUME NEW T \in SUBSET (1..0) PROVE \E m \in Nat : \E s : Sorted(s, T, m)
    <3>1. T = {}
      OBVIOUS
    <3>2. Sorted([j \in 1..0 |-> j], {}, 0)
      BY DEF Sorted, Range
    <3> QED BY <3>1, <3>2
  <2> QED BY <2>1
<1>2. ASSUME NEW n \in 1..N, n - 1 \in Good PROVE n \in Good
  <2>1. ASSUME NEW T \in SUBSET (1..n) PROVE \E m \in Nat : \E s : Sorted(s, T, m)
    <3>1. T \ {n} \in SUBSET (1..(n - 1))
      OBVIOUS
    <3>2. PICK m \in Nat : \E s : Sorted(s, T \ {n}, m)
      BY <1>2, <3>1
    <3>3. PICK s : Sorted(s, T \ {n}, m)
      BY <3>2
    <3>4. CASE n \in T
      <4>1. n \in Nat /\ m + 1 \in Nat
        OBVIOUS
      <4>2. Sorted([j \in 1..(m + 1) |-> IF j = m + 1 THEN n ELSE s[j]], T, m + 1)
        BY <3>3, <3>4, <4>1, SortedExtended
      <4> QED BY <4>1, <4>2
    <3>5. CASE n \notin T
      <4>1. T \ {n} = T
        BY <3>5
      <4> QED BY <3>3, <4>1
    <3> QED BY <3>4, <3>5
  <2> QED BY <2>1
<1>3. N \in Good
  <2> HIDE DEF Good
  <2> QED BY <1>1, <1>2, UpTo
<1> QED BY <1>3

LEMMA SortedCount ==
  ASSUME NEW S \in SUBSET Nat, NEW m \in Nat, NEW s, Sorted(s, S, m)
  PROVE  Cardinality(S) = m
<1>1. s \in [1..m -> S] /\ DOMAIN s = 1..m
  BY DEF Sorted
<1>2. \A j, k \in 1..m : s[j] = s[k] => j = k
  <2>1. \A j \in 1..m : s[j] \in Nat
    BY <1>1
  <2>2. \A j, k \in 1..m : j < k => s[j] < s[k]
    BY DEF Sorted
  <2> QED BY <2>1, <2>2
<1>3. \A x \in S : \E j \in 1..m : s[j] = x
  BY <1>1 DEF Sorted, Range
<1>4. s \in Injection(1..m, S)
  BY <1>1, <1>2 DEF Injection, IsInjective
<1>5. s \in Surjection(1..m, S)
  BY <1>1, <1>3 DEF Surjection
<1>6. ExistsBijection(1..m, S)
  BY <1>4, <1>5 DEF ExistsBijection, Bijection
<1> QED BY <1>6, FS_CountingElements

LEMMA InOrderIs ==
  ASSUME NEW S \in SUBSET Positions, Len(tasks) \in Nat
  PROVE  /\ InOrder(S) \in Seq(S) /\ Len(InOrder(S)) \in Nat
         /\ DOMAIN InOrder(S) = 1..Len(InOrder(S))
         /\ \A x : x \in S <=> \E k \in DOMAIN InOrder(S) : InOrder(S)[k] = x
         /\ \A j, k \in DOMAIN InOrder(S) : InOrder(S)[j] = InOrder(S)[k] => j = k
<1>1. PICK m \in Nat : \E s : Sorted(s, S, m)
  BY SortedExists DEF Positions
<1>2. PICK s : Sorted(s, S, m)
  BY <1>1
<1>3. S \in SUBSET Nat
  BY DEF Positions
<1>4. Cardinality(S) = m
  BY <1>2, <1>3, SortedCount
<1>5. s \in [1..Cardinality(S) -> S] /\ Range(s) = S
      /\ \A j, k \in DOMAIN s : j < k => s[j] < s[k]
  BY <1>2, <1>4 DEF Sorted
<1> DEFINE o == InOrder(S)
<1>6. o \in [1..Cardinality(S) -> S] /\ Range(o) = S
      /\ \A j, k \in DOMAIN o : j < k => o[j] < o[k]
  BY <1>5, Zenon DEF InOrder
<1> HIDE DEF o
<1>7. o \in Seq(S) /\ Len(o) = m /\ DOMAIN o = 1..m
  BY <1>4, <1>6
<1>8. \A j \in DOMAIN o : o[j] \in Nat /\ j \in Nat
  <2>1. o \in [1..m -> S]
    BY <1>4, <1>6
  <2>2. \A j \in 1..m : o[j] \in S /\ j \in Nat
    BY <2>1
  <2> QED BY <1>3, <1>7, <2>2
<1>9. \A j, k \in DOMAIN o : o[j] = o[k] => j = k
  BY <1>6, <1>8
<1>10. \A x : x \in S <=> \E k \in DOMAIN o : o[k] = x
  BY <1>6 DEF Range
<1> QED BY <1>7, <1>9, <1>10 DEF o

-----------------------------------------------------------------------------
(* The tasks that were added.                                              *)
Task == [id : Id \ {EmptyId}, deps : Seq(Id)]
BuildInv == TasksInv /\ ShapeInv /\ DegreesCount /\ RankInv /\ WalkInv

LEMMA TasksAre ==
  ASSUME TasksInv
  PROVE  /\ Len(tasks) \in Nat /\ DOMAIN tasks = Positions /\ Positions \subseteq Nat
         /\ IsFiniteSet(Positions) /\ Cardinality(Positions) = Len(tasks)
         /\ \A i \in Positions : /\ tasks[i] \in Task /\ tasks[i].deps \in Seq(Id)
                                 /\ tasks[i].id \in Id \ {EmptyId}
<1>1. Len(tasks) \in Nat /\ DOMAIN tasks = 1..Len(tasks) /\ tasks \in Seq(Task)
  BY DEF TasksInv, Task
<1>2. IsFiniteSet(1..Len(tasks)) /\ Cardinality(1..Len(tasks)) = Len(tasks)
  <2>1. 1 \in Int /\ Len(tasks) \in Int
    BY <1>1
  <2> QED BY <1>1, <2>1, FS_Interval
<1>3. \A i \in Positions : tasks[i] \in Task
  BY <1>1 DEF Positions
<1> QED BY <1>1, <1>2, <1>3 DEF Positions, Task

LEMMA IndexIs ==
  ASSUME TasksInv
  PROVE  /\ \A i \in Positions : Index(tasks[i].id) = i /\ tasks[i].id \in Known
         /\ \A d \in Known : Index(d) \in Positions /\ tasks[Index(d)].id = d
<1>1. ASSUME NEW d \in Known PROVE Index(d) \in Positions /\ tasks[Index(d)].id = d
  <2>1. \E i \in Positions : tasks[i].id = d
    BY DEF Known
  <2> QED BY <2>1, Zenon DEF Index
<1>2. ASSUME NEW i \in Positions PROVE Index(tasks[i].id) = i /\ tasks[i].id \in Known
  <2>1. tasks[i].id \in Known
    BY DEF Known
  <2>2. Index(tasks[i].id) \in Positions /\ tasks[Index(tasks[i].id)].id = tasks[i].id
    BY <1>1, <2>1
  <2> QED BY <2>1, <2>2 DEF TasksInv
<1> QED BY <1>1, <1>2

LEMMA DepsAre ==
  ASSUME TasksInv, NEW i \in Positions
  PROVE  /\ IsFiniteSet(Deps(i)) /\ Cardinality(Deps(i)) = Len(tasks[i].deps)
         /\ Deps(i) \subseteq Id /\ (Deps(i) = {} <=> tasks[i].deps = <<>>)
         /\ \A k \in DOMAIN tasks[i].deps : tasks[i].deps[k] \in Deps(i)
<1> DEFINE s == tasks[i].deps
<1>1. s \in Seq(Id) /\ Len(s) \in Nat /\ DOMAIN s = 1..Len(s) /\ s \in [1..Len(s) -> Id]
  BY TasksAre, LenProperties
<1>2. IsInjective(s) /\ Deps(i) = {s[k] : k \in 1..Len(s)}
  BY <1>1 DEF TasksInv, Deps
<1> HIDE DEF s
<1>3. s \in Bijection(1..Len(s), Deps(i))
  <2>1. s \in [1..Len(s) -> Deps(i)]
    BY <1>1, <1>2
  <2>2. s \in Injection(1..Len(s), Deps(i))
    BY <1>1, <1>2, <2>1 DEF Injection, IsInjective
  <2>3. s \in Surjection(1..Len(s), Deps(i))
    BY <1>1, <1>2, <2>1 DEF Surjection
  <2> QED BY <2>2, <2>3 DEF Bijection
<1>4. ExistsBijection(1..Len(s), Deps(i))
  BY <1>3 DEF ExistsBijection
<1>5. IsFiniteSet(Deps(i)) /\ Cardinality(Deps(i)) = Len(s)
  BY <1>1, <1>4, FS_NatBijection, FS_CountingElements
<1>6. Deps(i) = {} <=> s = <<>>
  <2>1. Deps(i) = {} <=> Cardinality(Deps(i)) = 0
    BY <1>5, FS_EmptySet
  <2>2. s = <<>> <=> Len(s) = 0
    BY <1>1
  <2> QED BY <1>5, <2>1, <2>2
<1> QED BY <1>1, <1>2, <1>5, <1>6 DEF s

LEMMA Frozen ==
  ASSUME tasks' = tasks
  PROVE  /\ Positions' = Positions /\ Known' = Known /\ TasksInv' = TasksInv
         /\ \A i : Deps(i)' = Deps(i) /\ Index(i)' = Index(i)
<1>1. Positions' = Positions
  BY DEF Positions
<1>2. Known' = Known /\ \A i : Deps(i)' = Deps(i) /\ Index(i)' = Index(i)
  BY <1>1 DEF Known, Deps, Index
<1>3. TasksInv' = TasksInv
  BY <1>1, <1>2 DEF TasksInv
<1> QED BY <1>1, <1>2, <1>3

LEMMA TasksAdded ==
  ASSUME TasksInv, NEW id \in Id, NEW deps \in DepLists, Len(tasks) < MaxTasks, AddTask(id, deps)
  PROVE  TasksInv'
<1>1. CASE tasks' = tasks
  BY <1>1, Frozen
<1>2. CASE /\ id # EmptyId /\ id \notin Known /\ \A k \in DOMAIN deps : ~BadDep(id, deps, k)
           /\ tasks' = Append(tasks, [id |-> id, deps |-> deps])
  <2> DEFINE new == [id |-> id, deps |-> deps]
  <2>1. PICK n \in 0..MaxDeps : deps \in [1..n -> Id]
    BY DEF DepLists
  <2>2. n \in Nat
    BY <2>1, BuilderAssumption
  <2>3. deps \in Seq(Id) /\ DOMAIN deps = 1..n
    BY <2>1, <2>2
  <2>4. \A k \in 1..n : deps[k] # id /\ \A j \in 1..(k - 1) : deps[j] # deps[k]
    BY <1>2, <2>3 DEF BadDep
  <2>5. IsInjective(deps)
    <3>1. ASSUME NEW j \in 1..n, NEW k \in 1..n, deps[j] = deps[k] PROVE j = k
      <4>1. ~(j < k) /\ ~(k < j)
        BY <2>2, <2>4, <3>1
      <4> QED BY <2>2, <4>1
    <3> QED BY <2>3, <3>1 DEF IsInjective
  <2>6. new \in Task
    BY <1>2, <2>3 DEF Task
  <2>7. tasks \in Seq(Task) /\ Len(tasks) \in Nat /\ MaxTasks \in Nat
    BY BuilderAssumption DEF TasksInv, Task
  <2> HIDE DEF new
  <2>8. /\ tasks' \in Seq(Task) /\ Len(tasks') = Len(tasks) + 1
        /\ tasks'[Len(tasks) + 1] = new /\ \A i \in 1..Len(tasks) : tasks'[i] = tasks[i]
    BY <1>2, <2>6, <2>7 DEF new
  <2>9. Len(tasks') <= MaxTasks
    BY <2>7, <2>8
  <2>10. new.id = id /\ new.deps = deps /\ \A i \in Positions : tasks[i].id # id
    BY <1>2 DEF new, Known
  <2>11. ASSUME NEW i \in Positions', NEW j \in Positions', tasks'[i].id = tasks'[j].id
         PROVE  i = j
    <3>1. \A k \in Positions' : k \in Positions \/ k = Len(tasks) + 1
      BY <2>7, <2>8 DEF Positions
    <3>2. \A k \in Positions : tasks'[k].id = tasks[k].id /\ tasks'[k].id # id
      BY <2>8, <2>10 DEF Positions
    <3>3. tasks'[Len(tasks) + 1].id = id
      BY <2>8, <2>10
    <3> QED BY <2>11, <3>1, <3>2, <3>3 DEF TasksInv
  <2>12. ASSUME NEW i \in Positions'
         PROVE  tasks'[i].id \notin Deps(i)' /\ IsInjective(tasks'[i].deps)
    <3>1. CASE i \in Positions
      <4>1. tasks'[i] = tasks[i] /\ Deps(i)' = Deps(i)
        BY <2>8, <3>1 DEF Positions, Deps
      <4> QED BY <3>1, <4>1 DEF TasksInv
    <3>2. CASE i \notin Positions
      <4>1. tasks'[i] = new
        BY <2>7, <2>8, <3>2 DEF Positions
      <4>2. tasks'[i].id = id /\ tasks'[i].deps = deps
        BY <2>10, <4>1
      <4> QED BY <2>3, <2>4, <2>5, <4>2 DEF Deps
    <3> QED BY <3>1, <3>2
  <2> QED BY <2>8, <2>9, <2>11, <2>12 DEF TasksInv, Task
<1> QED BY <1>1, <1>2 DEF AddTask

-----------------------------------------------------------------------------
(* What changes nothing but where build() is.                              *)

LEMMA RankKept == ASSUME RankInv, UNCHANGED <<tasks, popped, peeled>> PROVE RankInv'
<1>1. PICK rank \in [popped -> 1..peeled] :
        \A i \in popped : \A d \in Deps(i) : Index(d) \in popped /\ rank[Index(d)] < rank[i]
  BY DEF RankInv
<1>2. \A i : Deps(i)' = Deps(i) /\ Index(i)' = Index(i)
  BY Frozen
<1> QED BY <1>1, <1>2 DEF RankInv

LEMMA NothingRanked == popped = {} => RankInv
<1> SUFFICES ASSUME popped = {} PROVE RankInv
  OBVIOUS
<1>1. [i \in {} |-> 1] \in [popped -> 1..peeled]
  OBVIOUS
<1> QED BY <1>1 DEF RankInv

LEMMA NothingRankedNext == (popped = {})' => RankInv'
BY NothingRanked, PTL

LEMMA AddStep ==
  ASSUME BuildInv, NEW id \in Id, NEW deps \in DepLists, Len(tasks) < MaxTasks, AddTask(id, deps)
  PROVE  BuildInv'
<1>1. TasksInv' /\ TasksInv
  BY TasksAdded DEF BuildInv
<1>2. /\ pc = "adding" /\ UNCHANGED <<indegree, queue, peeled, path, cycle, popped>>
      /\ queue = <<>> /\ path = <<>> /\ cycle = <<>> /\ popped = {} /\ peeled = 0
  BY DEF AddTask, BuildInv, ShapeInv
<1>3. pc' \in {"adding", "done"} /\ result' \in Results \ {"Ok", "Cycle"}
      /\ (pc' # "done" <=> result' = "none")
  BY DEF AddTask, Return, Results, BuildInv, ShapeInv
<1>4. ShapeInv'
  <2>1. queue' \in Seq(Positions') /\ path' \in Seq(Positions') /\ cycle' \in Seq(Positions')
    BY <1>2
  <2>2. popped' \subseteq Positions' /\ peeled' = Cardinality(popped')
    BY <1>2, FS_EmptySet
  <2> QED BY <1>2, <1>3, <2>1, <2>2 DEF ShapeInv
<1>5. DegreesCount' /\ WalkInv'
  BY <1>3 DEF DegreesCount, WalkInv
<1>6. RankInv'
  BY <1>2, NothingRankedNext
<1> QED BY <1>1, <1>4, <1>5, <1>6 DEF BuildInv

LEMMA StutterStep == ASSUME BuildInv, UNCHANGED vars PROVE BuildInv'
<1>1. /\ Positions' = Positions /\ Known' = Known /\ TasksInv'
      /\ \A i : Deps(i)' = Deps(i) /\ Index(i)' = Index(i)
  BY Frozen DEF vars, BuildInv
<1>2. ShapeInv'
  BY <1>1 DEF BuildInv, ShapeInv, vars
<1>3. DegreesCount'
  BY <1>1 DEF BuildInv, DegreesCount, vars
<1>4. RankInv'
  BY RankKept DEF BuildInv, vars
<1>5. Left' = Left
  BY <1>1 DEF Left, vars
<1>6. WalkInv'
  BY <1>1, <1>5 DEF BuildInv, WalkInv, Waiting, CycleIsReal, vars
<1> QED BY <1>1, <1>2, <1>3, <1>4, <1>6 DEF BuildInv

LEMMA UnknownStep == ASSUME BuildInv, UnknownPredecessor PROVE BuildInv'
<1>1. /\ Positions' = Positions /\ Known' = Known /\ TasksInv'
      /\ \A i : Deps(i)' = Deps(i) /\ Index(i)' = Index(i)
  BY Frozen DEF UnknownPredecessor, BuildInv
<1>2. ShapeInv'
  BY <1>1 DEF BuildInv, ShapeInv, UnknownPredecessor, Return, Results
<1>3. DegreesCount' /\ WalkInv'
  BY DEF BuildInv, DegreesCount, WalkInv, UnknownPredecessor, Return
<1>4. RankInv'
  BY RankKept DEF BuildInv, UnknownPredecessor
<1> QED BY <1>1, <1>2, <1>3, <1>4 DEF BuildInv

(* Everything was peeled: no task is left outside the order.               *)
LEMMA AllPeeledStep == ASSUME BuildInv, AllPeeled PROVE BuildInv'
<1>1. /\ Positions' = Positions /\ Known' = Known /\ TasksInv'
      /\ \A i : Deps(i)' = Deps(i) /\ Index(i)' = Index(i)
  BY Frozen DEF AllPeeled, BuildInv
<1>2. popped = Positions
  <2>1. popped \in SUBSET Positions /\ Cardinality(popped) = Cardinality(Positions)
    BY TasksAre DEF BuildInv, ShapeInv, AllPeeled
  <2> QED BY <2>1, TasksAre, FS_Subset DEF BuildInv
<1>3. ShapeInv'
  BY <1>1, <1>2 DEF BuildInv, ShapeInv, AllPeeled, Return, Results
<1>4. DegreesCount' /\ WalkInv'
  BY DEF BuildInv, DegreesCount, WalkInv, AllPeeled, Return
<1>5. RankInv'
  BY RankKept DEF BuildInv, AllPeeled
<1> QED BY <1>1, <1>3, <1>4, <1>5 DEF BuildInv

-----------------------------------------------------------------------------
(* Peeling.                                                                *)

Missing(i, gone) == {d \in Deps(i) : Index(d) \notin gone}

LEMMA StartStep == ASSUME BuildInv, StartPeeling PROVE BuildInv'
<1>1. /\ Positions' = Positions /\ Known' = Known /\ TasksInv' /\ TasksInv
      /\ \A i : Deps(i)' = Deps(i) /\ Index(i)' = Index(i)
  BY Frozen DEF StartPeeling, BuildInv
<1> DEFINE S == {i \in Positions : tasks[i].deps = <<>>}
<1>2. /\ UNCHANGED <<result, tasks, peeled, path, cycle, popped>> /\ pc' = "peeling"
      /\ pc = "adding" /\ popped = {} /\ peeled = 0 /\ queue' = InOrder(S)
      /\ indegree' = [i \in Positions |-> Len(tasks[i].deps)]
      /\ \A i \in Positions : Deps(i) \subseteq Known
  BY DEF StartPeeling, BuildInv, ShapeInv
<1>3. /\ queue' \in Seq(S) /\ DOMAIN queue' = 1..Len(queue')
      /\ \A x : x \in S <=> \E k \in DOMAIN queue' : queue'[k] = x
      /\ \A j, k \in DOMAIN queue' : queue'[j] = queue'[k] => j = k
  BY <1>1, <1>2, TasksAre, InOrderIs, Zenon
<1>4. queue' \in Seq(Positions)
  <2>1. S \subseteq Positions
    OBVIOUS
  <2> HIDE DEF S
  <2> QED BY <1>3, <2>1, SeqMonotonic
<1>5. \A i \in Positions : indegree'[i] \in Nat /\ indegree'[i] = Cardinality(Deps(i))
  BY <1>1, <1>2, TasksAre, DepsAre, LenProperties
<1>6. indegree' \in [Positions -> Nat]
  BY <1>2, <1>5
<1>7. ShapeInv'
  BY <1>1, <1>2, <1>4, <1>6 DEF BuildInv, ShapeInv, Results
<1>8. ASSUME NEW i \in Positions
      PROVE  /\ indegree'[i] = Cardinality({d \in Deps(i) : Index(d) \notin popped'})
             /\ indegree'[i] = 0 <=> i \in popped' \/ \E k \in DOMAIN queue' : queue'[k] = i
  <2>1. {d \in Deps(i) : Index(d) \notin popped'} = Deps(i)
    BY <1>2
  <2>2. indegree'[i] = 0 <=> i \in S
    BY <1>1, <1>5, DepsAre, FS_EmptySet
  <2> HIDE DEF S
  <2> QED BY <1>2, <1>3, <1>5, <2>1, <2>2
<1>9. DegreesCount'
  <2>1. \A i \in Positions' :
          /\ indegree'[i] = Cardinality({d \in Deps(i)' : Index(d)' \notin popped'})
          /\ indegree'[i] = 0 <=> i \in popped' \/ \E k \in DOMAIN queue' : queue'[k] = i
    BY <1>1, <1>8
  <2>2. peeled' = Cardinality(popped')
    BY <1>2 DEF BuildInv, ShapeInv
  <2>3. \A k \in DOMAIN queue' :
          queue'[k] \notin popped' /\ \A j \in DOMAIN queue' : queue'[j] = queue'[k] => j = k
    BY <1>2, <1>3
  <2> QED BY <2>1, <2>2, <2>3 DEF DegreesCount
<1>10. RankInv'
  BY <1>2, NothingRankedNext
<1>11. WalkInv'
  BY <1>2 DEF BuildInv, ShapeInv, WalkInv
<1> QED BY <1>1, <1>7, <1>9, <1>10, <1>11 DEF BuildInv

LEMMA RankGrows ==
  ASSUME TasksInv, RankInv, NEW n \in Positions, n \notin popped, peeled \in Nat,
         \A d \in Deps(n) : Index(d) \in popped,
         tasks' = tasks, popped' = popped \cup {n}, peeled' = peeled + 1
  PROVE  RankInv'
<1>1. PICK rank \in [popped -> 1..peeled] :
        \A i \in popped : \A d \in Deps(i) : Index(d) \in popped /\ rank[Index(d)] < rank[i]
  BY DEF RankInv
<1> DEFINE more == [i \in popped' |-> IF i = n THEN peeled + 1 ELSE rank[i]]
<1>2. \A i \in popped : rank[i] \in 1..peeled /\ rank[i] \in 1..(peeled + 1) /\ rank[i] < peeled + 1
  BY <1>1
<1>3. /\ \A i \in popped : more[i] = rank[i] /\ i # n
      /\ more[n] = peeled + 1 /\ peeled + 1 \in 1..(peeled + 1)
  OBVIOUS
<1>4. more \in [popped' -> 1..peeled']
  BY <1>2, <1>3
<1> HIDE DEF more
<1>5. ASSUME NEW i \in popped', NEW d \in Deps(i)
      PROVE  Index(d) \in popped' /\ more[Index(d)] < more[i]
  <2>1. CASE i = n
    BY <1>2, <1>3, <1>5, <2>1
  <2>2. CASE i \in popped
    BY <1>1, <1>3, <1>5, <2>2
  <2> QED BY <2>1, <2>2
<1>6. \A i : Deps(i)' = Deps(i) /\ Index(i)' = Index(i)
  BY Frozen
<1> QED BY <1>4, <1>5, <1>6 DEF RankInv

(* One prerequisite fewer is missing of the tasks behind it.               *)
LEMMA OneFewer ==
  ASSUME TasksInv, NEW n \in Positions, NEW gone, n \notin gone, NEW i \in Positions,
         Deps(i) \subseteq Known
  PROVE  /\ IsFiniteSet(Missing(i, gone)) /\ Cardinality(Missing(i, gone)) \in Nat
         /\ Cardinality(Missing(i, gone \cup {n})) \in Nat
         /\ Cardinality(Missing(i, gone \cup {n})) =
              IF tasks[n].id \in Deps(i) THEN Cardinality(Missing(i, gone)) - 1
                                         ELSE Cardinality(Missing(i, gone))
<1> DEFINE x == tasks[n].id
<1>1. Index(x) = n
  BY IndexIs
<1>2. \A d \in Deps(i) : Index(d) = n => d = x
  BY IndexIs
<1>3. Missing(i, gone \cup {n}) = Missing(i, gone) \ {x}
  BY <1>1, <1>2 DEF Missing
<1>4. x \in Missing(i, gone) <=> x \in Deps(i)
  BY <1>1 DEF Missing
<1>5. IsFiniteSet(Missing(i, gone)) /\ IsFiniteSet(Missing(i, gone \cup {n}))
  <2>1. Missing(i, gone) \in SUBSET Deps(i) /\ Missing(i, gone \cup {n}) \in SUBSET Deps(i)
    BY DEF Missing
  <2> QED BY <2>1, DepsAre, FS_Subset
<1>6. Cardinality(Missing(i, gone)) \in Nat /\ Cardinality(Missing(i, gone \cup {n})) \in Nat
  BY <1>5, FS_CardinalityType
<1>7. Cardinality(Missing(i, gone) \ {x}) =
        IF x \in Missing(i, gone) THEN Cardinality(Missing(i, gone)) - 1
                                  ELSE Cardinality(Missing(i, gone))
  <2> HIDE DEF x
  <2> QED BY <1>5, FS_RemoveElement
<1> QED BY <1>3, <1>4, <1>5, <1>6, <1>7

LEMMA PeelStep == ASSUME BuildInv, Peel PROVE BuildInv'
<1>1. /\ Positions' = Positions /\ Known' = Known /\ TasksInv' /\ TasksInv
      /\ \A i : Deps(i)' = Deps(i) /\ Index(i)' = Index(i)
  BY Frozen DEF Peel, BuildInv
<1> DEFINE n == Last(queue)
           behind == {i \in Positions : tasks[n].id \in Deps(i)}
           degrees == [i \in Positions |-> IF i \in behind THEN indegree[i] - 1 ELSE indegree[i]]
           F == Freed(degrees, behind)
<1>2. /\ UNCHANGED <<pc, result, tasks, path, cycle>> /\ pc = "peeling" /\ queue # <<>>
      /\ peeled' = peeled + 1 /\ popped' = popped \cup {n} /\ indegree' = degrees
      /\ queue' = Front(queue) \o InOrder(F)
  BY DEF Peel
<1>3. /\ queue \in Seq(Positions) /\ Len(queue) \in Nat /\ Len(queue) >= 1
      /\ DOMAIN queue = 1..Len(queue)
      /\ \A k \in DOMAIN queue : queue[k] \in Positions
      /\ \A i \in Positions : Deps(i) \subseteq Known
  BY <1>2 DEF BuildInv, ShapeInv
<1>4. /\ \A i \in Positions :
           /\ indegree[i] = Cardinality(Missing(i, popped))
           /\ indegree[i] = 0 <=> i \in popped \/ \E k \in DOMAIN queue : queue[k] = i
      /\ \A k \in DOMAIN queue :
           queue[k] \notin popped /\ \A j \in DOMAIN queue : queue[j] = queue[k] => j = k
  BY <1>2 DEF BuildInv, DegreesCount, Missing
<1>5. n = queue[Len(queue)] /\ Len(queue) \in DOMAIN queue /\ n \in Positions /\ n \notin popped
  BY <1>3, <1>4 DEF Last
<1>6. indegree[n] = 0
  BY <1>4, <1>5
<1> HIDE DEF n
<1>7. ASSUME NEW i \in Positions
      PROVE  /\ degrees[i] \in Nat /\ degrees[i] = Cardinality(Missing(i, popped'))
             /\ indegree[i] \in Nat
             /\ i \in behind => indegree[i] # 0
             /\ i \notin behind => degrees[i] = indegree[i]
  <2>1. /\ Cardinality(Missing(i, popped)) \in Nat
        /\ Cardinality(Missing(i, popped \cup {n})) \in Nat
        /\ Cardinality(Missing(i, popped \cup {n})) =
              IF tasks[n].id \in Deps(i) THEN Cardinality(Missing(i, popped)) - 1
                                         ELSE Cardinality(Missing(i, popped))
    BY <1>1, <1>3, <1>5, OneFewer
  <2> QED BY <1>2, <1>4, <2>1
<1>8. /\ F \in SUBSET Positions /\ F \subseteq behind
      /\ \A i \in Positions : i \in F <=> i \in behind /\ degrees[i] = 0
  BY DEF Freed
<1> HIDE DEF F, behind, degrees
<1> DEFINE q == Front(queue)
           o == InOrder(F)
<1>9. /\ q \in Seq(Positions) /\ Len(q) = Len(queue) - 1
      /\ \A k \in 1..(Len(queue) - 1) : q[k] = queue[k]
  <2>1. Len(queue) - 1 \in Nat /\ (1 <= Len(queue) - 1 => Len(queue) - 1 - 1 + 1 = Len(queue) - 1)
        /\ \A k \in 1..(Len(queue) - 1) : k \in DOMAIN queue /\ 1 + k - 1 = k
    BY <1>3
  <2>2. \A k \in 1..(Len(queue) - 1) : queue[k] \in Positions
    BY <1>3, <2>1
  <2>3. /\ SubSeq(queue, 1, Len(queue) - 1) \in Seq(Positions)
        /\ Len(SubSeq(queue, 1, Len(queue) - 1)) =
             IF 1 <= Len(queue) - 1 THEN Len(queue) - 1 - 1 + 1 ELSE 0
        /\ \A k \in 1..(Len(queue) - 1 - 1 + 1) :
             SubSeq(queue, 1, Len(queue) - 1)[k] = queue[1 + k - 1]
    BY <1>3, <2>1, <2>2, SubSeqProperties
  <2> QED BY <1>3, <2>1, <2>3 DEF Front
<1>10. /\ o \in Seq(F) /\ Len(o) \in Nat /\ DOMAIN o = 1..Len(o)
       /\ \A x : x \in F <=> \E k \in DOMAIN o : o[k] = x
       /\ \A j, k \in DOMAIN o : o[j] = o[k] => j = k
  BY <1>1, <1>8, TasksAre, InOrderIs
<1>11. o \in Seq(Positions)
  BY <1>8, <1>10, SeqMonotonic
<1> HIDE DEF q, o
<1>12. /\ queue' \in Seq(Positions) /\ Len(queue') = Len(queue) - 1 + Len(o)
       /\ DOMAIN queue' = 1..(Len(queue) - 1 + Len(o))
       /\ \A k \in 1..(Len(queue) - 1) : queue'[k] = queue[k]
       /\ \A k \in 1..Len(o) : queue'[Len(queue) - 1 + k] = o[k]
  <2>1. queue' = q \o o
    BY <1>2 DEF q, o
  <2>2. /\ q \o o \in Seq(Positions) /\ Len(q \o o) = Len(q) + Len(o)
        /\ \A k \in 1..(Len(q) + Len(o)) :
             (q \o o)[k] = IF k <= Len(q) THEN q[k] ELSE o[k - Len(q)]
    BY <1>9, <1>11, ConcatProperties
  <2>3. Len(q) + Len(o) = Len(queue) - 1 + Len(o) /\ Len(queue) - 1 + Len(o) \in Nat
    BY <1>3, <1>9, <1>10
  <2>4. queue' \in Seq(Positions) /\ Len(queue') = Len(queue) - 1 + Len(o)
    BY <2>1, <2>2, <2>3
  <2>5. DOMAIN queue' = 1..(Len(queue) - 1 + Len(o))
    BY <2>4, LenProperties
  <2>6. ASSUME NEW k \in 1..(Len(queue) - 1) PROVE queue'[k] = queue[k]
    <3>1. k \in 1..(Len(q) + Len(o)) /\ k <= Len(q)
      BY <1>3, <1>9, <1>10
    <3> QED BY <1>9, <2>1, <2>2, <3>1
  <2>7. ASSUME NEW k \in 1..Len(o) PROVE queue'[Len(queue) - 1 + k] = o[k]
    <3>1. /\ Len(q) + k \in 1..(Len(q) + Len(o)) /\ ~(Len(q) + k <= Len(q))
          /\ Len(q) + k - Len(q) = k
      BY <1>3, <1>9, <1>10
    <3> QED BY <1>9, <2>1, <2>2, <3>1
  <2> QED BY <2>4, <2>5, <2>6, <2>7
<1>13. \A k \in DOMAIN queue' :
         \/ k \in 1..(Len(queue) - 1)
         \/ k - (Len(queue) - 1) \in 1..Len(o) /\ queue'[k] = o[k - (Len(queue) - 1)]
  <2>1. ASSUME NEW k \in DOMAIN queue', k \notin 1..(Len(queue) - 1)
        PROVE  k - (Len(queue) - 1) \in 1..Len(o) /\ queue'[k] = o[k - (Len(queue) - 1)]
    <3>1. PICK j \in 1..Len(o) : k = Len(queue) - 1 + j
      <4>1. k - (Len(queue) - 1) \in 1..Len(o) /\ k = Len(queue) - 1 + (k - (Len(queue) - 1))
        BY <1>3, <1>10, <1>12, <2>1
      <4> QED BY <4>1
    <3>2. k - (Len(queue) - 1) = j
      BY <1>3, <1>10, <3>1
    <3> QED BY <1>12, <3>1, <3>2
  <2> QED BY <2>1
(* Who is in the queue now: who was and is not n, and who was freed.       *)
<1>14. \A x : (\E k \in DOMAIN queue' : queue'[k] = x) <=>
                x \in F \/ (x # n /\ \E k \in DOMAIN queue : queue[k] = x)
  <2>1. ASSUME NEW k \in DOMAIN queue'
        PROVE  queue'[k] \in F \/ (queue'[k] # n /\ \E j \in DOMAIN queue : queue[j] = queue'[k])
    <3>1. CASE k \in 1..(Len(queue) - 1)
      <4>1. k \in DOMAIN queue /\ k # Len(queue)
        BY <1>3, <3>1
      <4> QED BY <1>4, <1>5, <1>12, <3>1, <4>1
    <3>2. CASE k \notin 1..(Len(queue) - 1)
      BY <1>10, <1>13, <3>2
    <3> QED BY <3>1, <3>2
  <2>2. ASSUME NEW x \in F PROVE \E k \in DOMAIN queue' : queue'[k] = x
    <3>1. PICK k \in 1..Len(o) : o[k] = x
      BY <1>10
    <3>2. Len(queue) - 1 + k \in DOMAIN queue'
      BY <1>3, <1>10, <1>12, <3>1
    <3> QED BY <1>12, <3>1, <3>2
  <2>3. ASSUME NEW k \in DOMAIN queue, queue[k] # n PROVE \E j \in DOMAIN queue' : queue'[j] = queue[k]
    <3>1. k \in 1..(Len(queue) - 1)
      BY <1>3, <1>5, <2>3
    <3>2. k \in DOMAIN queue'
      BY <1>3, <1>10, <1>12, <3>1
    <3> QED BY <1>12, <3>1, <3>2
  <2> QED BY <2>1, <2>2, <2>3
<1>15. ASSUME NEW i \in Positions
       PROVE  degrees[i] = 0 <=> i \in popped' \/ \E k \in DOMAIN queue' : queue'[k] = i
  BY <1>2, <1>4, <1>5, <1>6, <1>7, <1>8, <1>14
<1>16. ASSUME NEW j \in DOMAIN queue', NEW k \in DOMAIN queue', queue'[j] = queue'[k]
       PROVE  j = k
  <2>0. \A i \in DOMAIN queue : queue[i] \notin F
    <3> SUFFICES ASSUME NEW i \in DOMAIN queue, queue[i] \in F PROVE FALSE
      OBVIOUS
    <3>1. queue[i] \in Positions /\ indegree[queue[i]] = 0
      BY <1>3, <1>4
    <3> QED BY <1>7, <1>8, <3>1
  <2>1. \A i \in 1..(Len(queue) - 1) : i \in DOMAIN queue /\ queue'[i] = queue[i]
    BY <1>3, <1>12
  <2>2. \A i \in DOMAIN queue' : i \notin 1..(Len(queue) - 1) => queue'[i] \in F
    BY <1>10, <1>13
  <2>3. CASE j \in 1..(Len(queue) - 1) /\ k \in 1..(Len(queue) - 1)
    BY <1>4, <1>16, <2>1, <2>3
  <2>4. CASE j \notin 1..(Len(queue) - 1) /\ k \notin 1..(Len(queue) - 1)
    <3>1. j - (Len(queue) - 1) = k - (Len(queue) - 1)
      BY <1>10, <1>13, <1>16, <2>4
    <3>2. j \in Nat /\ k \in Nat
      BY <1>3, <1>10, <1>12
    <3> QED BY <1>3, <3>1, <3>2
  <2> QED BY <1>16, <2>0, <2>1, <2>2, <2>3, <2>4
<1>17. popped' \subseteq Positions /\ peeled' = Cardinality(popped') /\ peeled \in Nat
  <2>1. popped \in SUBSET Positions /\ peeled = Cardinality(popped)
    BY DEF BuildInv, ShapeInv
  <2>2. IsFiniteSet(popped)
    BY <1>1, <2>1, TasksAre, FS_Subset
  <2>3. Cardinality(popped) \in Nat /\ Cardinality(popped \cup {n}) = Cardinality(popped) + 1
    BY <1>5, <2>2, FS_CardinalityType, FS_AddElement
  <2> QED BY <1>2, <1>5, <2>1, <2>3
<1>18. ShapeInv'
  <2>1. indegree' \in [Positions -> Nat]
    <3>1. DOMAIN degrees = Positions /\ degrees = [i \in Positions |-> degrees[i]]
      BY DEF degrees
    <3> QED BY <1>2, <1>7, <3>1
  <2> QED BY <1>1, <1>2, <1>12, <1>17, <2>1 DEF BuildInv, ShapeInv
<1>19. DegreesCount'
  <2>1. \A i \in Positions' :
          /\ indegree'[i] = Cardinality({d \in Deps(i)' : Index(d)' \notin popped'})
          /\ indegree'[i] = 0 <=> i \in popped' \/ \E k \in DOMAIN queue' : queue'[k] = i
    BY <1>1, <1>2, <1>7, <1>15 DEF Missing
  <2>2. \A k \in DOMAIN queue' : queue'[k] \notin popped'
    <3>1. \A x \in F : x \in Positions /\ indegree[x] # 0 /\ x # n
      BY <1>6, <1>7, <1>8
    <3>2. \A x \in F : x \notin popped'
      BY <1>2, <1>4, <3>1
    <3>3. ASSUME NEW k \in DOMAIN queue' PROVE queue'[k] \notin popped'
      <4>1. queue'[k] \in F \/ (queue'[k] # n /\ \E j \in DOMAIN queue : queue[j] = queue'[k])
        BY <1>14
      <4> QED BY <1>2, <1>4, <3>2, <4>1
    <3> QED BY <3>3
  <2> QED BY <1>16, <1>17, <2>1, <2>2 DEF DegreesCount
<1>20. RankInv'
  <2>1. \A d \in Deps(n) : Index(d) \in popped
    <3>1. Cardinality(Missing(n, popped)) = 0 /\ IsFiniteSet(Missing(n, popped))
      BY <1>1, <1>3, <1>4, <1>5, <1>6, OneFewer
    <3>2. Missing(n, popped) = {}
      BY <3>1, FS_EmptySet
    <3> QED BY <3>2 DEF Missing
  <2> QED BY <1>1, <1>2, <1>5, <1>17, <2>1, RankGrows DEF BuildInv
<1>21. WalkInv'
  BY <1>2 DEF BuildInv, ShapeInv, WalkInv
<1> QED BY <1>1, <1>18, <1>19, <1>20, <1>21 DEF BuildInv

-----------------------------------------------------------------------------
(* The walk along what is left.                                            *)

LEMMA FirstIs ==
  ASSUME NEW S \in SUBSET Nat, S # {}
  PROVE  First(S) \in S
<1>1. \E i \in S : \A j \in S : i <= j
  BY LeastNumber
<1> QED BY <1>1, Zenon DEF First

(* Nothing left in the queue: what is not popped waits for one of its kind. *)
LEMMA StuckTasks ==
  ASSUME BuildInv, pc = "peeling", queue = <<>>, peeled # Len(tasks)
  PROVE  Left # {} /\ Left \subseteq Waiting
<1>1. TasksInv /\ DOMAIN queue = {} /\ \A i \in Positions : Deps(i) \subseteq Known
  BY DEF BuildInv, ShapeInv
<1>2. \A i \in Positions :
        /\ indegree[i] \in Nat /\ indegree[i] = Cardinality(Missing(i, popped))
        /\ indegree[i] = 0 <=> i \in popped
  BY <1>1 DEF BuildInv, ShapeInv, DegreesCount, Missing
<1>3. Left = Positions \ popped
  BY <1>2 DEF Left
<1>4. Left # {}
  <2>1. SUFFICES ASSUME Left = {} PROVE FALSE
    OBVIOUS
  <2>2. popped = Positions /\ peeled = Cardinality(popped)
    BY <1>3, <2>1 DEF BuildInv, ShapeInv
  <2> QED BY <1>1, <2>2, TasksAre
<1>5. ASSUME NEW i \in Left PROVE i \in Waiting
  <2>1. i \in Positions /\ Cardinality(Missing(i, popped)) # 0
    BY <1>2, <1>3, <1>5
  <2>2. Missing(i, popped) # {}
    BY <2>1, FS_EmptySet
  <2>3. PICK d \in Deps(i) : Index(d) \notin popped
    BY <2>2 DEF Missing
  <2>4. Index(d) \in Left
    BY <1>1, <1>3, <2>1, <2>3, IndexIs
  <2> QED BY <2>1, <2>3, <2>4 DEF Waiting
<1> QED BY <1>4, <1>5

LEMMA StartWalkStep == ASSUME BuildInv, StartWalk PROVE BuildInv'
<1>1. /\ Positions' = Positions /\ Known' = Known /\ TasksInv' /\ TasksInv
      /\ \A i : Deps(i)' = Deps(i) /\ Index(i)' = Index(i)
  BY Frozen DEF StartWalk, BuildInv
<1>2. Left # {} /\ Left \subseteq Waiting
  BY StuckTasks DEF StartWalk
<1>3. Left' = Left /\ Left \subseteq Positions
  BY <1>1 DEF StartWalk, Left
<1>4. PICK f \in Left : path' = <<f>>
  <2>1. Left \in SUBSET Nat
    BY <1>1, <1>3, TasksAre
  <2> QED BY <1>2, <2>1, FirstIs DEF StartWalk
<1>5. /\ path' \in Seq(Positions) /\ path' # <<>> /\ Len(path') = 1 /\ DOMAIN path' = {1}
      /\ path'[1] = f
  BY <1>3, <1>4
<1>6. ShapeInv'
  BY <1>1, <1>5 DEF BuildInv, ShapeInv, StartWalk, Results
<1>7. DegreesCount'
  BY DEF StartWalk, DegreesCount
<1>8. RankInv'
  BY RankKept DEF BuildInv, StartWalk
<1>9. Waiting' = Waiting
  BY <1>1, <1>3 DEF Waiting
<1>10. WalkInv'
  <2>1. result' = "none"
    BY DEF BuildInv, ShapeInv, StartWalk
  <2>2. IsInjective(path') /\ \A k \in DOMAIN path' : path'[k] \in Left'
    BY <1>3, <1>5 DEF IsInjective
  <2>3. 1..(Len(path') - 1) = {}
    BY <1>5
  <2> QED BY <1>2, <1>3, <1>5, <1>9, <2>1, <2>2, <2>3 DEF WalkInv
<1> QED BY <1>1, <1>6, <1>7, <1>8, <1>10 DEF BuildInv

(* The walk goes on to a prerequisite that is left.                        *)
LEMMA NextIs ==
  ASSUME BuildInv, pc = "walking"
  PROVE  /\ NextOnPath \in Left /\ NextOnPath \in Positions
         /\ tasks[NextOnPath].id \in Deps(Last(path))
<1>1. /\ TasksInv /\ path # <<>> /\ path \in Seq(Positions) /\ Left \subseteq Waiting
      /\ \A k \in DOMAIN path : path[k] \in Left
      /\ \A i \in Positions : Deps(i) \subseteq Known
  BY DEF BuildInv, WalkInv, ShapeInv
<1>2. Len(path) \in DOMAIN path
  BY <1>1
<1>3. Last(path) \in Left /\ Last(path) \in Positions /\ Last(path) \in Waiting
  BY <1>1, <1>2 DEF Last, Left
<1> DEFINE deps == tasks[Last(path)].deps
           left == {k \in DOMAIN deps : Index(deps[k]) \in Left}
<1>4. deps \in Seq(Id) /\ DOMAIN deps = 1..Len(deps) /\ Len(deps) \in Nat
  BY <1>1, <1>3, TasksAre, LenProperties
<1>5. left # {} /\ left \in SUBSET Nat
  <2>1. \E d \in Deps(Last(path)) : Index(d) \in Left
    BY <1>3 DEF Waiting
  <2> QED BY <1>4, <2>1 DEF Deps
<1>6. NextOnPath = Index(deps[First(left)]) /\ First(left) \in left
  BY <1>5, FirstIs DEF NextOnPath
<1>7. deps[First(left)] \in Deps(Last(path)) /\ NextOnPath \in Left
  BY <1>6 DEF Deps
<1>8. deps[First(left)] \in Known
  BY <1>1, <1>3, <1>7
<1> HIDE DEF deps, left
<1>9. NextOnPath \in Positions /\ tasks[NextOnPath].id = deps[First(left)]
  BY <1>1, <1>6, <1>8, IndexIs
<1> QED BY <1>7, <1>9

LEMMA WalkOn ==
  ASSUME BuildInv, pc = "walking", NextOnPath \notin {path[k] : k \in DOMAIN path},
         path' = Extended, UNCHANGED <<pc, result, cycle, tasks, indegree, queue, peeled, popped>>
  PROVE  BuildInv'
<1>1. /\ Positions' = Positions /\ Known' = Known /\ TasksInv' /\ TasksInv
      /\ \A i : Deps(i)' = Deps(i) /\ Index(i)' = Index(i)
  BY Frozen DEF BuildInv
<1>2. Left' = Left /\ Waiting' = Waiting
  <2>1. Left' = Left
    BY <1>1 DEF Left
  <2> QED BY <1>1, <2>1 DEF Waiting
<1>3. PICK m : m = NextOnPath
  OBVIOUS
<1>4. m \in Left /\ m \in Positions /\ tasks[m].id \in Deps(Last(path)) /\ path' = Append(path, m)
  BY <1>3, NextIs DEF Extended
<1>5. /\ path \in Seq(Positions) /\ path # <<>> /\ IsInjective(path)
      /\ \A k \in DOMAIN path : path[k] \in Left
      /\ \A k \in 1..(Len(path) - 1) : tasks[path[k + 1]].id \in Deps(path[k])
      /\ result = "none" /\ Left # {} /\ Left \subseteq Waiting
  BY DEF BuildInv, ShapeInv, WalkInv
<1>6. /\ Len(path) \in Nat \ {0} /\ DOMAIN path = 1..Len(path)
      /\ path' \in Seq(Positions) /\ Len(path') = Len(path) + 1
      /\ DOMAIN path' = 1..(Len(path) + 1) /\ path'[Len(path) + 1] = m
      /\ \A k \in 1..Len(path) : path'[k] = path[k]
  BY <1>4, <1>5
<1>7. path' # <<>>
  BY <1>6
<1>8. ASSUME NEW j \in DOMAIN path', NEW k \in DOMAIN path', path'[j] = path'[k] PROVE j = k
  <2>1. \A i \in 1..Len(path) : path[i] # m
    BY <1>3, <1>6
  <2>2. \A i \in DOMAIN path' : i \in 1..Len(path) \/ i = Len(path) + 1
    BY <1>6
  <2> QED BY <1>5, <1>6, <1>8, <2>1, <2>2 DEF IsInjective
<1>9. \A k \in DOMAIN path' : path'[k] \in Left
  <2>2. \A i \in DOMAIN path' : i \in 1..Len(path) \/ i = Len(path) + 1
    BY <1>6
  <2> QED BY <1>4, <1>5, <1>6, <2>2
<1>10. ASSUME NEW k \in 1..(Len(path') - 1) PROVE tasks[path'[k + 1]].id \in Deps(path'[k])
  <2>1. k \in 1..Len(path) /\ path'[k] = path[k]
    BY <1>6
  <2>2. CASE k = Len(path)
    BY <1>4, <1>6, <2>1, <2>2 DEF Last
  <2>3. CASE k # Len(path)
    <3>1. k \in 1..(Len(path) - 1) /\ k + 1 \in 1..Len(path)
      BY <1>6, <2>1, <2>3
    <3> QED BY <1>5, <1>6, <2>1, <3>1
  <2> QED BY <2>2, <2>3
<1>11. ShapeInv'
  BY <1>1, <1>6 DEF BuildInv, ShapeInv
<1>12. WalkInv'
  <2>1. PICK p : p = path'
    OBVIOUS
  <2>2. \A k \in 1..(Len(p) - 1) : tasks'[p[k + 1]].id \in Deps(p[k])'
    <3>1. \A k \in 1..(Len(p) - 1) : tasks[p[k + 1]].id \in Deps(p[k])
      BY <1>10, <2>1
    <3>2. tasks' = tasks
      OBVIOUS
    <3> QED BY <1>1, <3>1, <3>2
  <2>3. IsInjective(p)
    BY <1>8, <2>1 DEF IsInjective
  <2>4. /\ p # <<>> /\ \A k \in DOMAIN p : p[k] \in Left'
        /\ Left' # {} /\ Left' \subseteq Waiting' /\ result' = "none"
    BY <1>2, <1>5, <1>7, <1>9, <2>1
  <2> QED BY <2>1, <2>2, <2>3, <2>4 DEF WalkInv
<1>13. DegreesCount'
  BY DEF DegreesCount
<1>14. RankInv'
  BY RankKept DEF BuildInv
<1> QED BY <1>1, <1>11, <1>12, <1>13, <1>14 DEF BuildInv

(* From where the walk meets itself, the path is a cycle when read backwards. *)
LEMMA CycleFound ==
  ASSUME BuildInv, pc = "walking", NEW k \in DOMAIN path, path[k] = NextOnPath
  PROVE  /\ Cycle(k) \in Seq(Positions) /\ Cycle(k) # <<>> /\ IsInjective(Cycle(k))
         /\ \A j \in DOMAIN Cycle(k) :
              tasks[Cycle(k)[j]].id \in Deps(Cycle(k)[IF j = Len(Cycle(k)) THEN 1 ELSE j + 1])
<1>1. /\ path \in Seq(Positions) /\ path # <<>> /\ IsInjective(path)
      /\ \A j \in 1..(Len(path) - 1) : tasks[path[j + 1]].id \in Deps(path[j])
  BY DEF BuildInv, ShapeInv, WalkInv
<1>2. /\ Len(path) \in Nat /\ DOMAIN path = 1..Len(path)
      /\ \A j \in 1..Len(path) : path[j] \in Positions
  BY <1>1
<1>3. tasks[path[k]].id \in Deps(path[Len(path)])
  BY NextIs DEF Last
<1> DEFINE L == Len(path) - k + 1
           s == SubSeq(path, k, Len(path))
           c == Cycle(k)
<1>4. L \in Nat /\ L >= 1 /\ k + L = Len(path) + 1 /\ k \in Nat /\ 1 <= k /\ k <= Len(path)
  BY <1>2
<1>5. Len(s) = L /\ \A j \in 1..L : s[j] = path[k + j - 1]
  <2>1. k \in Int /\ Len(path) \in Int /\ k <= Len(path)
    BY <1>2
  <2>2. \A i \in k..Len(path) : path[i] \in Positions
    BY <1>2
  <2>3. /\ Len(SubSeq(path, k, Len(path))) =
             IF k <= Len(path) THEN Len(path) - k + 1 ELSE 0
        /\ \A i \in 1..(Len(path) - k + 1) : SubSeq(path, k, Len(path))[i] = path[k + i - 1]
    BY <2>1, <2>2, SubSeqProperties
  <2> QED BY <2>1, <2>3
<1>6. c = [j \in 1..L |-> s[L - j + 1]]
  BY <1>5 DEF Cycle, Reverse
<1> HIDE DEF s, L
<1>7. /\ DOMAIN c = 1..L
      /\ \A j \in 1..L : /\ Len(path) + 1 - j \in 1..Len(path)
                         /\ c[j] = path[Len(path) + 1 - j] /\ c[j] \in Positions
  <2>1. ASSUME NEW j \in 1..L
        PROVE  /\ Len(path) + 1 - j \in 1..Len(path)
               /\ c[j] = path[Len(path) + 1 - j] /\ c[j] \in Positions
    <3>1. L - j + 1 \in 1..L /\ k + (L - j + 1) - 1 = Len(path) + 1 - j
          /\ Len(path) + 1 - j \in 1..Len(path)
      <4>1. PICK n, i : n = Len(path) /\ i = k
        OBVIOUS
      <4>2. n \in Nat /\ i \in Nat /\ 1 <= i /\ i <= n /\ i + L = n + 1
        BY <1>2, <1>4, <4>1
      <4>3. j >= 1 /\ j <= L /\ j \in Nat /\ L \in Nat
        BY <1>4
      <4>4. L - j + 1 \in 1..L /\ i + (L - j + 1) - 1 = n + 1 - j /\ n + 1 - j \in 1..n
        BY <4>2, <4>3
      <4> QED BY <4>1, <4>4
    <3>2. c[j] = s[L - j + 1]
      BY <1>6
    <3> QED BY <1>2, <1>5, <3>1, <3>2
  <2> QED BY <1>6, <2>1
<1> HIDE DEF c
<1>8. c \in Seq(Positions) /\ Len(c) = L /\ c # <<>>
  <2>1. c \in [1..L -> Positions]
    <3>1. c = [j \in 1..L |-> c[j]]
      BY <1>6
    <3> QED BY <1>7, <3>1
  <2> QED BY <1>4, <2>1
<1>9. IsInjective(c)
  <2>1. ASSUME NEW i \in 1..L, NEW j \in 1..L, c[i] = c[j] PROVE i = j
    <3>1. Len(path) + 1 - i = Len(path) + 1 - j
      BY <1>1, <1>2, <1>7, <2>1 DEF IsInjective
    <3> QED BY <1>2, <1>4, <3>1
  <2> QED BY <1>7, <2>1 DEF IsInjective
<1>10. ASSUME NEW j \in 1..L
       PROVE  tasks[c[j]].id \in Deps(c[IF j = Len(c) THEN 1 ELSE j + 1])
  <2>1. CASE j = L
    <3>1. c[j] = path[k] /\ c[1] = path[Len(path)]
      <4>1. Len(path) + 1 - L = k /\ Len(path) + 1 - 1 = Len(path) /\ 1 \in 1..L
        BY <1>2, <1>4
      <4> QED BY <1>7, <2>1, <4>1
    <3> QED BY <1>3, <1>8, <2>1, <3>1
  <2>2. CASE j # L
    <3>1. /\ j + 1 \in 1..L /\ Len(path) + 1 - (j + 1) = Len(path) - j
          /\ Len(path) - j \in 1..(Len(path) - 1)
          /\ Len(path) - j + 1 = Len(path) + 1 - j
      <4>1. PICK n, i : n = Len(path) /\ i = k
        OBVIOUS
      <4>2. n \in Nat /\ i \in Nat /\ 1 <= i /\ i <= n /\ i + L = n + 1
        BY <1>2, <1>4, <4>1
      <4>3. j >= 1 /\ j <= L /\ j \in Nat /\ L \in Nat /\ j # L
        BY <1>4, <2>2
      <4>4. /\ j + 1 \in 1..L /\ n + 1 - (j + 1) = n - j
            /\ n - j \in 1..(n - 1) /\ n - j + 1 = n + 1 - j
        BY <4>2, <4>3
      <4> QED BY <4>1, <4>4
    <3>2. c[j] = path[Len(path) - j + 1] /\ c[j + 1] = path[Len(path) - j]
      BY <1>7, <3>1
    <3> QED BY <1>1, <1>8, <2>2, <3>1, <3>2
  <2> QED BY <2>1, <2>2
<1> QED BY <1>7, <1>8, <1>9, <1>10 DEF c

LEMMA WalkStep == ASSUME BuildInv, Walk PROVE BuildInv'
<1>1. /\ Positions' = Positions /\ Known' = Known /\ TasksInv' /\ TasksInv
      /\ \A i : Deps(i)' = Deps(i) /\ Index(i)' = Index(i)
  BY Frozen DEF Walk, BuildInv
<1>2. CASE NextOnPath \notin {path[k] : k \in DOMAIN path} /\ path' = Extended
           /\ UNCHANGED <<pc, result, cycle>>
  BY <1>2, WalkOn DEF Walk
<1>3. ASSUME NEW k \in DOMAIN path, path[k] = NextOnPath, Return("Cycle"), cycle' = Cycle(k),
             UNCHANGED path
      PROVE  BuildInv'
  <2>1. pc = "walking" /\ UNCHANGED <<tasks, indegree, queue, peeled, popped>>
    BY DEF Walk
  <2>2. PICK c : c = Cycle(k)
    OBVIOUS
  <2>3. /\ c \in Seq(Positions) /\ c # <<>> /\ IsInjective(c)
        /\ \A j \in DOMAIN c : tasks[c[j]].id \in Deps(c[IF j = Len(c) THEN 1 ELSE j + 1])
    BY <1>3, <2>1, <2>2, CycleFound
  <2>4. ShapeInv'
    BY <1>1, <1>3, <2>1, <2>2, <2>3 DEF BuildInv, ShapeInv, Return, Results
  <2>5. DegreesCount'
    BY <1>3 DEF DegreesCount, Return
  <2>6. RankInv'
    BY <2>1, RankKept DEF BuildInv
  <2>7. Left' = Left /\ Waiting' = Waiting
    <3>1. Left' = Left
      BY <1>1, <2>1 DEF Left
    <3> QED BY <1>1, <2>1, <3>1 DEF Waiting
  <2>8. CycleIsReal'
    BY <1>1, <1>3, <2>1, <2>2, <2>3 DEF CycleIsReal
  <2>9. WalkInv'
    BY <1>3, <2>1, <2>7, <2>8 DEF BuildInv, WalkInv, Return
  <2> QED BY <1>1, <2>4, <2>5, <2>6, <2>9 DEF BuildInv
<1> QED BY <1>2, <1>3 DEF Walk

-----------------------------------------------------------------------------
(* The verdict.                                                            *)

LEMMA BuildInit == Init => BuildInv
<1> SUFFICES ASSUME Init PROVE BuildInv
  OBVIOUS
<1>1. Positions = {} /\ Len(tasks) = 0 /\ MaxTasks \in Nat
  BY BuilderAssumption DEF Init, Positions
<1>2. TasksInv
  BY <1>1 DEF Init, TasksInv
<1>3. ShapeInv
  BY <1>1, FS_EmptySet DEF Init, ShapeInv, Results
<1>4. DegreesCount /\ WalkInv
  BY DEF Init, DegreesCount, WalkInv
<1>5. RankInv
  BY NothingRanked DEF Init
<1> QED BY <1>2, <1>3, <1>4, <1>5 DEF BuildInv

LEMMA BuildStep == BuildInv /\ [Next]_vars => BuildInv'
<1> SUFFICES ASSUME BuildInv, [Next]_vars PROVE BuildInv'
  OBVIOUS
<1>1. CASE \E id \in Id, deps \in DepLists : Len(tasks) < MaxTasks /\ AddTask(id, deps)
  BY <1>1, AddStep
<1>2. CASE Build
  BY <1>2, UnknownStep, StartStep, PeelStep, AllPeeledStep, StartWalkStep, WalkStep DEF Build
<1>3. CASE UNCHANGED vars
  BY <1>3, StutterStep
<1> QED BY <1>1, <1>2, <1>3 DEF Next, Returned

(* For any tasks: the degrees count the prerequisites that are left, so    *)
(* they never go below 0 and exactly the tasks without any are in the      *)
(* queue or were popped.                                                   *)
THEOREM DegreesNeverWrap == Spec => []TypeOK
<1>1. BuildInv => TypeOK
  <2> SUFFICES ASSUME BuildInv PROVE TypeOK
    OBVIOUS
  <2>1. TasksInv /\ ShapeInv /\ DegreesCount
    BY DEF BuildInv
  <2>2. Len(tasks) \in 0..MaxTasks
    BY <2>1, TasksAre, BuilderAssumption DEF TasksInv
  <2>3. peeled \in 0..Len(tasks)
    <3>1. popped \in SUBSET Positions /\ peeled = Cardinality(popped)
      BY <2>1 DEF ShapeInv
    <3>2. IsFiniteSet(Positions) /\ Cardinality(Positions) = Len(tasks)
      BY <2>1, TasksAre
    <3>3. Cardinality(popped) \in Nat /\ Cardinality(popped) <= Cardinality(Positions)
      BY <3>1, <3>2, FS_Subset, FS_CardinalityType
    <3> QED BY <2>1, <3>1, <3>2, <3>3, TasksAre
  <2> QED BY <2>1, <2>2, <2>3, TasksAre DEF TypeOK, ShapeInv
<1> QED BY BuildInit, BuildStep, <1>1, PTL DEF Spec

(* When each of some tasks waits for another of them, nothing can run them. *)
LEMMA WaitingCannotRun ==
  ASSUME TasksInv, Left # {}, Left \subseteq Waiting
  PROVE  ~Runnable
<1> SUFFICES ASSUME NEW rank \in [Positions -> Positions],
                    \A i \in Positions : \A d \in Deps(i) : rank[Index(d)] < rank[i]
             PROVE  FALSE
  BY DEF Runnable
<1>1. Left \subseteq Positions /\ Positions \subseteq Nat
  BY TasksAre DEF Left
<1> DEFINE R == {rank[i] : i \in Left}
<1>2. R \in SUBSET Nat /\ R # {}
  BY <1>1
<1>3. PICK m \in R : \A n \in R : m <= n
  <2> HIDE DEF R
  <2> QED BY <1>2, LeastNumber
<1>4. PICK i \in Left : rank[i] = m
  BY <1>3
<1>5. PICK d \in Deps(i) : Index(d) \in Left
  BY <1>4 DEF Waiting
<1>6. rank[Index(d)] < rank[i] /\ rank[Index(d)] \in R /\ rank[Index(d)] \in Nat /\ m \in Nat
  BY <1>1, <1>2, <1>4, <1>5
<1> QED BY <1>3, <1>4, <1>6

(* build() accepts exactly the graphs that can be run, and the cycle it    *)
(* reports of another is one, in dependency order, whatever was added.     *)
THEOREM VerdictIsRight == Spec => []Verdict
<1>1. BuildInv => Verdict
  <2> SUFFICES ASSUME BuildInv PROVE Verdict
    OBVIOUS
  <2>1. ASSUME result = "Ok" PROVE Runnable
    <3>1. /\ TasksInv /\ popped = Positions /\ peeled = Cardinality(popped)
          /\ \A i \in Positions : Deps(i) \subseteq Known
      BY <2>1 DEF BuildInv, ShapeInv
    <3>2. 1..peeled = Positions
      BY <3>1, TasksAre DEF Positions
    <3>3. \E rank \in [Positions -> Positions] :
            \A i \in Positions : \A d \in Deps(i) : rank[Index(d)] < rank[i]
      BY <3>1, <3>2 DEF BuildInv, RankInv
    <3> QED BY <3>1, <3>3 DEF Runnable
  <2>2. ASSUME result = "Cycle" PROVE ~Runnable /\ CycleIsReal
    BY <2>2, WaitingCannotRun DEF BuildInv, WalkInv
  <2> QED BY <2>1, <2>2 DEF Verdict
<1> QED BY BuildInit, BuildStep, <1>1, PTL DEF Spec

=============================================================================
