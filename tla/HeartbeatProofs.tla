-------------------------- MODULE HeartbeatProofs --------------------------
(***************************************************************************)
(* Theorems about the heartbeat, for any number of tasks, processes and    *)
(* overlapping pulses, with crashes, vanished clients and failed           *)
(* statements at any point.                                                *)
(***************************************************************************)
EXTENDS Heartbeat, FiniteSetTheorems, WellFoundedInduction, TLAPS

(* Where a pulse stands with the task it holds: claimed and not yet run,   *)
(* or executing its only run.                                              *)
HeldOnce ==
  \A p \in Pulse :
    /\ pc[p] = "claimed" => runs[cur[p]] = 0
    /\ pc[p] = "executing" => runs[cur[p]] = 1

TableInv == AtMostOnce /\ SoleHolder /\ HeldOnce

LEMMA HeartbeatInit == Init => TypeOK /\ TableInv
<1> SUFFICES ASSUME Init PROVE TypeOK /\ TableInv
  OBVIOUS
<1>1. 0 \in 0..(Wrap - 1)
  BY PulseAssumption
<1>2. TypeOK
  BY <1>1, PulseAssumption DEF Init, TypeOK, Holding, None
<1>3. TableInv
  BY DEF Init, TableInv, AtMostOnce, SoleHolder, HeldOnce, Holds, Holding
<1> QED BY <1>2, <1>3

LEMMA HeartbeatTypeStep == TypeOK /\ [Next]_vars => TypeOK'
<1> SUFFICES ASSUME TypeOK, [Next]_vars PROVE TypeOK'
  OBVIOUS
<1> USE PulseAssumption DEF table, pulse, Holding
<1>0. 0 \in 0..(Wrap - 1)
  OBVIOUS
<1>f. faults' = faults \/ Fault => faults' \in 0..MaxFaults
  BY DEF TypeOK, Fault
<1>1. ASSUME NEW t \in Task, CreateTask(t) PROVE TypeOK'
  <2>1. Cardinality({u \in Task : age[u] > 0}) \in Nat
    <3>1. IsFiniteSet({u \in Task : age[u] > 0})
      BY FS_Subset
    <3> QED BY <3>1, FS_CardinalityType
  <2> QED BY <1>1, <2>1 DEF TypeOK, CreateTask
<1>2. ASSUME NEW p \in Pulse, Begin(p) PROVE TypeOK'
  <2>1. NextTick(tick[Host[p]]) \in 0..(Wrap - 1)
    BY DEF TypeOK, NextTick
  <2> QED BY <1>2, <2>1 DEF TypeOK, Begin
<1>3. ASSUME NEW p \in Pulse, List(p) PROVE TypeOK'
  <2>1. faults' = faults \/ Fault
    BY <1>3 DEF List
  <2>2. \E S \in SUBSET Task : todo' = [todo EXCEPT ![p] = S]
    <3>1. {t \in Task : status[t] = "pending"} \in SUBSET Task /\ {} \in SUBSET Task
      OBVIOUS
    <3> QED BY <1>3, <3>1, Zenon DEF List
  <2>3. todo' \in [Pulse -> SUBSET Task]
    BY <2>2 DEF TypeOK
  <2> QED BY <1>3, <1>f, <2>1, <2>3 DEF TypeOK, List
<1>4. ASSUME NEW p \in Pulse, NEW t \in Task, Claim(p, t) PROVE TypeOK'
  <2>1. CASE /\ status' = [status EXCEPT ![t] = "running"]
             /\ todo' = [todo EXCEPT ![p] = @ \ {t}]
             /\ cur' = [cur EXCEPT ![p] = t]
             /\ pc' = [pc EXCEPT ![p] = "claimed"]
             /\ UNCHANGED <<actions, faults>>
    BY <1>4, <2>1 DEF TypeOK, Claim
  <2>2. CASE LostClaim(p, t) /\ UNCHANGED <<status, cur, pc>>
    <3>1. faults' = faults \/ Fault
      BY <1>4 DEF Claim
    <3> QED BY <1>4, <1>f, <2>2, <3>1 DEF TypeOK, Claim, LostClaim
  <2> QED BY <1>4, <2>1, <2>2 DEF Claim
<1>5. ASSUME NEW p \in Pulse, Execute(p) PROVE TypeOK'
  BY <1>5 DEF TypeOK, Execute
<1>6. ASSUME NEW p \in Pulse, Complete(p) PROVE TypeOK'
  <2>1. cur[p] \in Task
    BY <1>6 DEF TypeOK, Complete, CompleteTask
  <2>2. status' \in [Task -> {"absent", "pending", "running", "completed"}]
    BY <1>6, <2>1 DEF TypeOK, Complete, CompleteTask
  <2>3. /\ actions' \in [Pulse -> Nat]
        /\ cur' \in [Pulse -> Task \cup {None}]
        /\ pc' \in [Pulse -> {"idle", "list", "next"} \cup Holding]
        /\ \A q \in Pulse : pc'[q] \in Holding => cur'[q] \in Task
    BY <1>6 DEF TypeOK, Complete, CompleteTask
  <2>4. lost' \subseteq Task /\ (faults' = faults \/ Fault)
    BY <1>6, <2>1 DEF TypeOK, Complete, CompleteTask
  <2> QED BY <1>6, <1>f, <2>2, <2>3, <2>4 DEF TypeOK, Complete, CompleteTask
<1>7. ASSUME NEW p \in Pulse, Record(p) PROVE TypeOK'
  <2>1. (faults' = faults \/ Fault) /\ rows' \in [0..(Wrap - 1) -> Nat]
    BY <1>7 DEF TypeOK, Record, RecordTick
  <2> QED BY <1>0, <1>7, <1>f, <2>1 DEF TypeOK, Record
<1>8. ASSUME NEW P \in SUBSET Pulse, Forget(P) 
      PROVE  /\ pc' \in [Pulse -> {"idle", "list", "next"} \cup Holding]
             /\ num' \in [Pulse -> 0..(Wrap - 1)]
             /\ todo' \in [Pulse -> SUBSET Task]
             /\ cur' \in [Pulse -> Task \cup {None}]
             /\ \A p \in Pulse : pc'[p] \in Holding => cur'[p] \in Task
             /\ actions' \in [Pulse -> Nat]
             /\ lost' \subseteq Task
  <2>1. lost' \subseteq Task
    BY <1>8 DEF TypeOK, Forget
  <2> QED BY <1>0, <1>8, <2>1 DEF TypeOK, Forget
<1>9. ASSUME NEW p \in Pulse, Abandon(p) PROVE TypeOK'
  BY <1>8, <1>9 DEF TypeOK, Abandon
<1>10. ASSUME NEW e \in Engine, Crash(e) PROVE TypeOK'
  BY <1>0, <1>8, <1>10, <1>f DEF TypeOK, Crash
<1>11. CASE UNCHANGED vars
  BY <1>11 DEF TypeOK, vars
<1> QED
  BY <1>1, <1>2, <1>3, <1>4, <1>5, <1>6, <1>7, <1>9, <1>10, <1>11
  DEF Next, PulseStep

(* A step that leaves table and executions alone, and in which pulses at   *)
(* most let go of what they hold.                                          *)
LEMMA LetGo ==
  ASSUME TableInv, UNCHANGED <<status, runs>>,
         \A p \in Pulse : pc'[p] \in Holding => pc'[p] = pc[p] /\ cur'[p] = cur[p]
  PROVE  TableInv'
BY DEF TableInv, AtMostOnce, SoleHolder, HeldOnce, Holds, Holding

LEMMA TableStep == TypeOK /\ TableInv /\ [Next]_vars => TableInv'
<1> SUFFICES ASSUME TypeOK, TableInv, [Next]_vars PROVE TableInv'
  OBVIOUS
<1> USE DEF table, pulse, Holding
<1>1. ASSUME NEW t \in Task, CreateTask(t) PROVE TableInv'
  <2>1. /\ status[t] = "absent" /\ status' = [status EXCEPT ![t] = "pending"]
        /\ UNCHANGED <<pc, cur, runs>>
    BY <1>1 DEF CreateTask
  <2>2. AtMostOnce' /\ HeldOnce'
    BY <2>1 DEF TypeOK, TableInv, AtMostOnce, HeldOnce
  <2>3. SoleHolder'
    BY <2>1 DEF TypeOK, TableInv, SoleHolder, Holds
  <2> QED BY <2>2, <2>3 DEF TableInv
<1>2. ASSUME NEW p \in Pulse, Begin(p) \/ List(p) \/ Record(p) PROVE TableInv'
  BY <1>2, LetGo DEF TypeOK, Begin, List, Record, RecordTick
<1>3. ASSUME NEW p \in Pulse, NEW t \in Task, Claim(p, t) PROVE TableInv'
  <2>1. CASE UNCHANGED <<status, cur, pc>>
    BY <1>3, <2>1, LetGo DEF Claim
  <2>2. CASE /\ Claimable(t)
             /\ status' = [status EXCEPT ![t] = "running"]
             /\ cur' = [cur EXCEPT ![p] = t]
             /\ pc' = [pc EXCEPT ![p] = "claimed"]
    <3>1. status[t] = "pending" /\ runs[t] = 0 /\ runs' = runs
      BY <1>3, <2>2 DEF Claim, Claimable, TableInv, AtMostOnce
    <3>2. \A q \in Pulse : ~Holds(q, t)
      BY <3>1 DEF TableInv, SoleHolder
    <3>3. AtMostOnce' /\ HeldOnce'
      BY <2>2, <3>1 DEF TypeOK, TableInv, AtMostOnce, HeldOnce
    <3>4. SoleHolder'
      <4> SUFFICES ASSUME NEW q \in Pulse, NEW u \in Task, Holds(q, u)'
                   PROVE  /\ status'[u] = "running"
                          /\ \A r \in Pulse : Holds(r, u)' => r = q
        BY DEF SoleHolder
      <4>1. \A r \in Pulse : r # p => (Holds(r, u)' <=> Holds(r, u))
        BY <2>2 DEF TypeOK, Holds
      <4>2. Holds(p, u)' => u = t
        BY <2>2 DEF TypeOK, Holds
      <4>3. CASE u = t
        BY <2>2, <3>2, <4>1, <4>3 DEF TypeOK
      <4>4. CASE u # t
        BY <2>2, <4>1, <4>2, <4>4 DEF TypeOK, TableInv, SoleHolder
      <4> QED BY <4>3, <4>4
    <3> QED BY <3>3, <3>4 DEF TableInv
  <2> QED BY <1>3, <2>1, <2>2 DEF Claim
<1>4. ASSUME NEW p \in Pulse, Execute(p) PROVE TableInv'
  <2> DEFINE t == cur[p]
  <2>1. /\ t \in Task /\ Holds(p, t) /\ status[t] = "running" /\ runs[t] = 0
        /\ \A q \in Pulse : Holds(q, t) => q = p
    BY <1>4 DEF Execute, TypeOK, Holds, TableInv, SoleHolder, HeldOnce
  <2>2. /\ runs' = [runs EXCEPT ![t] = @ + 1] /\ UNCHANGED <<status, cur>>
        /\ pc' = [pc EXCEPT ![p] = "executing"]
    BY <1>4 DEF Execute
  <2>3. AtMostOnce'
    BY <2>1, <2>2 DEF TypeOK, TableInv, AtMostOnce
  <2>4. SoleHolder'
    BY <2>1, <2>2 DEF TypeOK, TableInv, SoleHolder, Holds
  <2>5. HeldOnce'
    <3> SUFFICES ASSUME NEW q \in Pulse
                 PROVE  /\ pc'[q] = "claimed" => runs'[cur[q]] = 0
                        /\ pc'[q] = "executing" => runs'[cur[q]] = 1
      BY <2>2 DEF HeldOnce
    <3>1. CASE q = p
      BY <2>1, <2>2, <3>1 DEF TypeOK
    <3>2. CASE q # p /\ pc[q] \in Holding
      <4>1. cur[q] \in Task /\ cur[q] # t
        BY <2>1, <3>2 DEF TypeOK, Holds
      <4> QED BY <2>1, <2>2, <3>2, <4>1 DEF TypeOK, TableInv, HeldOnce
    <3>3. CASE q # p /\ pc[q] \notin Holding
      BY <2>2, <3>3 DEF TypeOK
    <3> QED BY <3>1, <3>2, <3>3
  <2> QED BY <2>3, <2>4, <2>5 DEF TableInv
<1>5. ASSUME NEW p \in Pulse, Complete(p) PROVE TableInv'
  <2> DEFINE t == cur[p]
  <2>1. /\ t \in Task /\ runs[t] = 1 /\ Holds(p, t) /\ runs' = runs
        /\ \A q \in Pulse : Holds(q, t) => q = p
    BY <1>5 DEF Complete, CompleteTask, TypeOK, Holds, TableInv, SoleHolder, HeldOnce
  <2>2. /\ pc'[p] = "next"
        /\ \A q \in Pulse \ {p} : pc'[q] = pc[q] /\ cur'[q] = cur[q]
    BY <1>5 DEF Complete, CompleteTask, TypeOK
  <2>3. CASE UNCHANGED status
    BY <2>1, <2>2, <2>3, LetGo
  <2>4. CASE status' = [status EXCEPT ![t] = "completed"]
    <3>1. AtMostOnce'
      BY <2>1, <2>4 DEF TypeOK, TableInv, AtMostOnce
    <3>2. HeldOnce'
      BY <2>1, <2>2 DEF TableInv, HeldOnce
    <3>3. SoleHolder'
      <4> SUFFICES ASSUME NEW q \in Pulse, NEW u \in Task, Holds(q, u)'
                   PROVE  /\ status'[u] = "running"
                          /\ \A r \in Pulse : Holds(r, u)' => r = q
        BY DEF SoleHolder
      <4>1. q # p /\ Holds(q, u)
        BY <2>2 DEF Holds
      <4>2. u # t
        BY <2>1, <4>1
      <4>3. status'[u] = "running"
        BY <2>4, <4>1, <4>2 DEF TypeOK, TableInv, SoleHolder
      <4>4. ASSUME NEW r \in Pulse, Holds(r, u)' PROVE r = q
        <5>1. Holds(r, u)
          BY <2>2, <4>4 DEF Holds
        <5> QED BY <4>1, <5>1 DEF TableInv, SoleHolder
      <4> QED BY <4>3, <4>4
    <3> QED BY <3>1, <3>2, <3>3 DEF TableInv
  <2> QED BY <1>5, <2>3, <2>4 DEF Complete, CompleteTask
<1>6. ASSUME NEW p \in Pulse, Abandon(p) PROVE TableInv'
  BY <1>6, LetGo DEF Abandon, Forget
<1>7. ASSUME NEW e \in Engine, Crash(e) PROVE TableInv'
  BY <1>7, LetGo DEF Crash, Forget
<1>8. CASE UNCHANGED vars
  BY <1>8, LetGo DEF vars
<1> QED
  BY <1>1, <1>2, <1>3, <1>4, <1>5, <1>6, <1>7, <1>8 DEF Next, PulseStep

LEMMA HeartbeatAlways == Spec => [](TypeOK /\ TableInv)
<1>1. TypeOK /\ TableInv /\ [Next]_vars => (TypeOK /\ TableInv)'
  BY HeartbeatTypeStep, TableStep
<1> QED BY HeartbeatInit, <1>1, PTL DEF Spec

(* Every state of the task table, the engines and the pulses is typed.     *)
THEOREM HeartbeatTyped == Spec => []TypeOK
BY HeartbeatAlways, PTL

(* No task runs twice, and a stored result belongs to a run, for any       *)
(* number of pulses and processes (claim_task).                            *)
THEOREM TaskRunsAtMostOnce == Spec => []AtMostOnce
<1>1. TableInv => AtMostOnce
  BY DEF TableInv
<1> QED BY HeartbeatAlways, <1>1, PTL

(* A task never has two pulses working on it.                              *)
THEOREM TaskHasOneHolder == Spec => []SoleHolder
<1>1. TableInv => SoleHolder
  BY DEF TableInv
<1> QED BY HeartbeatAlways, <1>1, PTL
-----------------------------------------------------------------------------
(* Sums over a finite domain. SumFunction adds the values in an order that *)
(* CHOOSE picks; it does not matter which.                                 *)

(* What is true of 0 and kept from each number to the next is true up to N. *)
LEMMA UpTo ==
  ASSUME NEW N \in Nat, NEW S, 0 \in S, \A n \in 1..N : n - 1 \in S => n \in S
  PROVE  0..N \subseteq S
<1> DEFINE R == {ss \in Nat \X Nat : ss[1] < ss[2]}
           Bad == {n \in 0..N : n \notin S}
<1>1. IsWellFoundedOn(R, Nat)
  BY NatLessThanWellFounded, Zenon DEF OpToRel
<1>2. SUFFICES ASSUME Bad # {} PROVE FALSE
  OBVIOUS
<1>3. PICK m \in Bad : \A n \in Bad : <<n, m>> \notin R
  <2>1. Bad \subseteq Nat
    OBVIOUS
  <2> HIDE DEF R, Bad
  <2> QED BY <1>1, <1>2, <2>1, WFMin
<1>4. m \in 1..N
  BY <1>3
<1>5. m - 1 \in 0..N /\ <<m - 1, m>> \in R
  BY <1>4
<1>6. m - 1 \in S
  BY <1>3, <1>5
<1> QED BY <1>3, <1>4, <1>6

(* What is true of a finite set whenever it is true of the set without any *)
(* one of its elements, is true of all subsets of D.                       *)
LEMMA AllSubsets ==
  ASSUME NEW D, IsFiniteSet(D), NEW S,
         \A T \in SUBSET D : (\A x \in T : T \ {x} \in S) => T \in S
  PROVE  SUBSET D \subseteq S
<1> DEFINE N == Cardinality(D)
           Good == {n \in 0..N : \A T \in SUBSET D : Cardinality(T) = n => T \in S}
<1>1. N \in Nat
  BY FS_CardinalityType
<1>2. \A T \in SUBSET D : IsFiniteSet(T) /\ Cardinality(T) \in 0..N
  BY <1>1, FS_Subset, FS_CardinalityType
<1>3. 0 \in Good
  <2>1. \A T \in SUBSET D : Cardinality(T) = 0 => T \in S
    <3> SUFFICES ASSUME NEW T \in SUBSET D, Cardinality(T) = 0 PROVE T \in S
      OBVIOUS
    <3>1. T = {}
      BY <1>2, FS_EmptySet
    <3> QED BY <3>1
  <2> QED BY <1>1, <2>1
<1>4. ASSUME NEW n \in 1..N, n - 1 \in Good PROVE n \in Good
  <2> SUFFICES ASSUME NEW T \in SUBSET D, Cardinality(T) = n PROVE T \in S
    BY <1>1
  <2>1. ASSUME NEW x \in T PROVE T \ {x} \in S
    <3>1. Cardinality(T \ {x}) = n - 1 /\ T \ {x} \in SUBSET D
      BY <1>2, FS_RemoveElement
    <3> QED BY <1>4, <3>1
  <2> QED BY <2>1
<1>5. 0..N \subseteq Good
  <2> HIDE DEF N, Good
  <2> QED BY <1>1, <1>3, <1>4, UpTo
<1> QED BY <1>2, <1>5

IsFold(f, it, R) ==
  it = [T \in R |-> IF T = {} THEN 0
                    ELSE f[CHOOSE x \in T : TRUE] + it[T \ {CHOOSE x \in T : TRUE}]]

(* The recursion has a solution, subsets of one size after the other.      *)
LEMMA FoldExists ==
  ASSUME NEW f, NEW D, IsFiniteSet(D)
  PROVE  \E it : IsFold(f, it, SUBSET D)
<1> DEFINE N == Cardinality(D)
           UpToSize(n) == {T \in SUBSET D : Cardinality(T) <= n}
           S == {n \in 0..N : \E it : IsFold(f, it, UpToSize(n))}
<1>1. N \in Nat
  BY FS_CardinalityType
<1>2. \A T \in SUBSET D : IsFiniteSet(T) /\ Cardinality(T) \in 0..N
  BY <1>1, FS_Subset, FS_CardinalityType
<1>3. \A T \in SUBSET D : (Cardinality(T) = 0 <=> T = {})
  BY <1>2, FS_EmptySet
<1>4. ASSUME NEW T \in SUBSET D, T # {}
      PROVE  /\ T \ {CHOOSE x \in T : TRUE} \in SUBSET D
             /\ Cardinality(T \ {CHOOSE x \in T : TRUE}) = Cardinality(T) - 1
  <2>1. PICK c : c = CHOOSE x \in T : TRUE
    OBVIOUS
  <2>2. c \in T
    BY <1>4, <2>1
  <2>3. Cardinality(T \ {c}) = Cardinality(T) - 1
    BY <1>2, <2>2, FS_RemoveElement
  <2> QED BY <2>1, <2>3
<1>5. 0 \in S
  <2>1. UpToSize(0) = {{}}
    <3>1. \A T \in UpToSize(0) : T = {}
      BY <1>2, <1>3
    <3>2. {} \in UpToSize(0)
      BY <1>3
    <3> QED BY <3>1, <3>2
  <2>2. IsFold(f, [T \in {{}} |-> 0], {{}})
    BY DEF IsFold
  <2>3. \E it : IsFold(f, it, UpToSize(0))
    BY Zenon, <2>1, <2>2
  <2>4. 0 \in 0..N
    BY <1>1
  <2> HIDE DEF N, UpToSize
  <2> QED BY Zenon, <2>3, <2>4
<1>6. ASSUME NEW n \in 1..N, n - 1 \in S PROVE n \in S
  <2>1. PICK w : IsFold(f, w, UpToSize(n - 1))
    BY <1>6
  <2> DEFINE v == [T \in UpToSize(n) |->
                     IF Cardinality(T) = n
                     THEN f[CHOOSE x \in T : TRUE] + w[T \ {CHOOSE x \in T : TRUE}]
                     ELSE w[T]]
  <2>2. ASSUME NEW T \in UpToSize(n)
        PROVE  v[T] = IF T = {} THEN 0
                      ELSE f[CHOOSE x \in T : TRUE] + v[T \ {CHOOSE x \in T : TRUE}]
    <3> DEFINE c == CHOOSE x \in T : TRUE
    <3>1. T \in SUBSET D /\ Cardinality(T) \in Nat /\ Cardinality(T) <= n /\ n \in Nat
      BY <1>2
    <3>2. T # {} => /\ T \ {c} \in UpToSize(n) /\ Cardinality(T \ {c}) # n
                    /\ T \ {c} \in UpToSize(n - 1)
      BY <1>4, <3>1
    <3>3. T # {} => v[T \ {c}] = w[T \ {c}]
      BY <3>2
    <3>4. CASE Cardinality(T) = n
      <4>1. T # {}
        BY <1>3, <3>1, <3>4
      <4>2. v[T] = f[c] + w[T \ {c}]
        BY <3>4
      <4> HIDE DEF v
      <4> QED BY <3>3, <4>1, <4>2
    <3>5. CASE Cardinality(T) # n
      <4>1. T \in UpToSize(n - 1) /\ v[T] = w[T]
        BY <3>1, <3>5
      <4>2. w[T] = IF T = {} THEN 0 ELSE f[c] + w[T \ {c}]
        <5> HIDE DEF UpToSize
        <5> QED BY <2>1, <4>1, Zenon DEF IsFold
      <4> HIDE DEF v
      <4> QED BY <3>3, <4>1, <4>2
    <3> QED BY <3>4, <3>5
  <2>3. IsFold(f, v, UpToSize(n))
    <3>1. v = [T \in UpToSize(n) |-> v[T]]
      OBVIOUS
    <3> HIDE DEF v, UpToSize
    <3> QED BY <2>2, <3>1, Zenon DEF IsFold
  <2>4. n \in 0..N
    BY <1>1
  <2> HIDE DEF v, UpToSize
  <2> QED BY <2>3, <2>4
<1>7. 0..N \subseteq S
  <2> HIDE DEF N, S
  <2> QED BY <1>1, <1>5, <1>6, UpTo
<1>8. UpToSize(N) = SUBSET D
  BY <1>1, <1>2
<1>9. N \in S
  <2> HIDE DEF N, S
  <2> QED BY <1>1, <1>7
<1> HIDE DEF UpToSize, N
<1> QED BY <1>8, <1>9

(* it gives the sum of f over each subset of D.                            *)
SumsOf(it, f, D) ==
  /\ it \in [SUBSET D -> Nat]
  /\ it[{}] = 0 /\ SumFunction(f) = it[D]
  /\ \A T \in SUBSET D : \A x \in T : it[T] = f[x] + it[T \ {x}]

(* Any element can be taken out first.                                     *)
LEMMA SumSplits ==
  ASSUME NEW D, IsFiniteSet(D), NEW f \in [D -> Nat]
  PROVE  \E it : SumsOf(it, f, D)
<1> DEFINE it == CHOOSE g : IsFold(f, g, SUBSET D)
<1>1. IsFold(f, it, SUBSET D)
  BY FoldExists
<1>2. SumFunction(f) = it[D]
  <2>1. SumFunction(f) =
          (CHOOSE g : g = [T \in SUBSET (DOMAIN f) |->
             IF T = {} THEN 0
             ELSE f[CHOOSE x \in T : TRUE] + g[T \ {CHOOSE x \in T : TRUE}]])[DOMAIN f]
    BY Zenon DEF SumFunction, SumFunctionOnSet, FoldFunctionOnSet, MapThenFoldSet
  <2>2. DOMAIN f = D
    OBVIOUS
  <2> QED BY <2>1, <2>2, Zenon DEF IsFold
<1> HIDE DEF it
<1>3. it = [T \in SUBSET D |-> it[T]] /\ it[{}] = 0
  <2>1. {} \in SUBSET D
    OBVIOUS
  <2> QED BY <1>1, <2>1 DEF IsFold
<1>4. ASSUME NEW T \in SUBSET D, T # {}
      PROVE  \E c \in T : it[T] = f[c] + it[T \ {c}]
  <2>1. it[T] = f[CHOOSE x \in T : TRUE] + it[T \ {CHOOSE x \in T : TRUE}]
    BY <1>1, <1>4 DEF IsFold
  <2>2. (CHOOSE x \in T : TRUE) \in T
    BY <1>4
  <2> QED BY <2>1, <2>2
<1>n. \A T \in SUBSET D : it[T] \in Nat
  <2> DEFINE S == {T \in SUBSET D : it[T] \in Nat}
  <2>1. ASSUME NEW T \in SUBSET D, \A x \in T : T \ {x} \in S PROVE T \in S
    <3>1. CASE T = {}
      BY <1>3, <3>1
    <3>2. CASE T # {}
      <4>1. PICK c \in T : it[T] = f[c] + it[T \ {c}]
        BY <1>4, <3>2
      <4>2. it[T \ {c}] \in Nat /\ f[c] \in Nat
        BY <2>1
      <4> QED BY <4>1, <4>2
    <3> QED BY <3>1, <3>2
  <2>2. SUBSET D \subseteq S
    <3> HIDE DEF S
    <3> QED BY <2>1, AllSubsets
  <2> QED BY <2>2
<1> DEFINE S == {T \in SUBSET D : \A x \in T : it[T] = f[x] + it[T \ {x}]}
<1>5. ASSUME NEW T \in SUBSET D, \A x \in T : T \ {x} \in S PROVE T \in S
  <2>1. CASE T = {}
    BY <1>3, <2>1
  <2>2. CASE T # {}
    <3>1. PICK c \in T : it[T] = f[c] + it[T \ {c}]
      BY <1>4, <2>2
    <3>2. f[c] \in Nat /\ it[T \ {c}] \in Nat
      BY <1>n
    <3>3. ASSUME NEW x \in T PROVE it[T] = f[x] + it[T \ {x}]
      <4>1. CASE x = c
        BY <3>1, <4>1
      <4>2. CASE x # c
        <5>1. x \in T \ {c} /\ c \in T \ {x} /\ (T \ {c}) \ {x} = (T \ {x}) \ {c}
          BY <4>2
        <5>2. it[T \ {c}] = f[x] + it[(T \ {c}) \ {x}]
          BY <1>5, <5>1
        <5>3. it[T \ {x}] = f[c] + it[(T \ {x}) \ {c}]
          BY <1>5, <5>1
        <5>4. it[(T \ {x}) \ {c}] \in Nat /\ f[x] \in Nat
          <6>1. (T \ {x}) \ {c} \in SUBSET D
            OBVIOUS
          <6> QED BY <1>n, <6>1
        <5> QED BY <3>1, <3>2, <5>1, <5>2, <5>3, <5>4
      <4> QED BY <4>1, <4>2
    <3> QED BY <3>1, <3>2, <3>3
  <2> QED BY <2>1, <2>2
<1>6. SUBSET D \subseteq S
  <2> HIDE DEF S
  <2> QED BY <1>5, AllSubsets
<1>7. it \in [SUBSET D -> Nat]
  BY <1>3, <1>n
<1> QED BY <1>2, <1>3, <1>6, <1>7 DEF SumsOf

(* A function with smaller values has a smaller sum.                       *)
LEMMA SumSmaller ==
  ASSUME NEW D, IsFiniteSet(D), NEW f \in [D -> Nat], NEW g \in [D -> Nat],
         \A x \in D : f[x] <= g[x]
  PROVE  SumFunction(f) <= SumFunction(g)
<1>1. PICK a : SumsOf(a, f, D)
  BY Zenon, SumSplits
<1>2. PICK b : SumsOf(b, g, D)
  BY Zenon, SumSplits
<1> USE DEF SumsOf
<1> DEFINE S == {T \in SUBSET D : a[T] <= b[T]}
<1>3. ASSUME NEW T \in SUBSET D, \A x \in T : T \ {x} \in S PROVE T \in S
  <2>1. CASE T = {}
    BY <1>1, <1>2, <2>1
  <2>2. CASE T # {}
    <3>1. PICK x \in T : TRUE
      BY <2>2
    <3>2. a[T] = f[x] + a[T \ {x}] /\ b[T] = g[x] + b[T \ {x}]
      BY <1>1, <1>2
    <3>3. /\ f[x] \in Nat /\ g[x] \in Nat /\ f[x] <= g[x]
          /\ a[T \ {x}] \in Nat /\ b[T \ {x}] \in Nat /\ a[T \ {x}] <= b[T \ {x}]
      BY <1>1, <1>2, <1>3
    <3>4. a[T] <= b[T]
      BY <3>2, <3>3
    <3> QED BY <3>4
  <2> QED BY <2>1, <2>2
<1>4. SUBSET D \subseteq S
  <2> HIDE DEF S
  <2> QED BY <1>3, AllSubsets, Zenon
<1>5. D \in S
  BY <1>4
<1> QED BY <1>1, <1>2, <1>5

LEMMA SumIsNat ==
  ASSUME NEW D, IsFiniteSet(D), NEW f \in [D -> Nat]
  PROVE  SumFunction(f) \in Nat
<1>1. PICK a : SumsOf(a, f, D)
  BY Zenon, SumSplits
<1> QED BY <1>1 DEF SumsOf

LEMMA SumOfZeros ==
  ASSUME NEW D, IsFiniteSet(D)
  PROVE  SumFunction([x \in D |-> 0]) = 0
<1> DEFINE f == [x \in D |-> 0]
<1>1. f \in [D -> Nat] /\ \A x \in D : f[x] = 0
  OBVIOUS
<1> HIDE DEF f
<1>2. PICK a : SumsOf(a, f, D)
  BY Zenon, <1>1, SumSplits
<1> USE DEF SumsOf
<1> DEFINE S == {T \in SUBSET D : a[T] = 0}
<1>3. ASSUME NEW T \in SUBSET D, \A x \in T : T \ {x} \in S PROVE T \in S
  <2>1. CASE T = {}
    BY <1>2, <2>1
  <2>2. CASE T # {}
    <3>1. PICK x \in T : TRUE
      BY <2>2
    <3>2. a[T] = f[x] + a[T \ {x}] /\ f[x] = 0 /\ a[T \ {x}] = 0
      BY <1>1, <1>2, <1>3
    <3> QED BY <3>2
  <2> QED BY <2>1, <2>2
<1>4. SUBSET D \subseteq S
  <2> HIDE DEF S
  <2> QED BY <1>3, AllSubsets, Zenon
<1>5. D \in S
  BY <1>4
<1>6. SumFunction(f) = 0
  BY <1>2, <1>5
<1> QED BY <1>6 DEF f

Updated(g, f, y, v) == g = [f EXCEPT ![y] = v]

(* Two functions that differ in one value have sums that differ as much.   *)
LEMMA SumUpdate ==
  ASSUME NEW D, IsFiniteSet(D), NEW f \in [D -> Nat], NEW y \in D, NEW v \in Nat,
         NEW g, Updated(g, f, y, v)
  PROVE  SumFunction(g) + f[y] = SumFunction(f) + v
<1>1. g \in [D -> Nat] /\ g[y] = v /\ \A x \in D \ {y} : g[x] = f[x]
  BY DEF Updated
<1>2. PICK a : SumsOf(a, f, D)
  BY Zenon, SumSplits
<1>3. PICK b : SumsOf(b, g, D)
  BY Zenon, <1>1, SumSplits
<1> USE DEF SumsOf
<1>e. PICK E : E = D \ {y}
  OBVIOUS
<1> DEFINE S == {T \in SUBSET E : a[T] = b[T]}
<1>4. ASSUME NEW T \in SUBSET E, \A x \in T : T \ {x} \in S PROVE T \in S
  <2>1. CASE T = {}
    BY <1>2, <1>3, <2>1
  <2>2. CASE T # {}
    <3>1. PICK x \in T : TRUE
      BY <2>2
    <3>2. T \in SUBSET D /\ x \in D \ {y}
      BY <1>e
    <3>3. a[T] = f[x] + a[T \ {x}] /\ b[T] = g[x] + b[T \ {x}]
      BY <1>2, <1>3, <3>2
    <3>4. g[x] = f[x] /\ a[T \ {x}] = b[T \ {x}]
      BY <1>1, <1>4, <3>2
    <3> QED BY <3>3, <3>4
  <2> QED BY <2>1, <2>2
<1>5. SUBSET E \subseteq S
  <2>1. IsFiniteSet(E)
    BY <1>e, FS_Subset
  <2> HIDE DEF S
  <2> QED BY <1>4, <2>1, AllSubsets, Zenon
<1>6. E \in S
  BY <1>5
<1>7. a[D \ {y}] = b[D \ {y}] /\ a[D \ {y}] \in Nat /\ f[y] \in Nat
  BY <1>2, <1>6, <1>e
<1>8. a[D] = f[y] + a[D \ {y}] /\ b[D] = v + b[D \ {y}]
  BY <1>1, <1>2, <1>3
<1>9. b[D] + f[y] = a[D] + v
  BY <1>7, <1>8
<1>10. SumFunction(g) + f[y] = SumFunction(f) + v
  BY <1>2, <1>3, <1>9
<1> QED BY <1>10

-----------------------------------------------------------------------------
(* What has been dispatched.                                               *)

HeldBy    == {p \in Pulse : pc[p] \in Holding}
ClaimedBy == {t \in Task : status[t] \in {"running", "completed"}}

CountsAreFinite ==
  /\ IsFiniteSet(HeldBy) /\ Cardinality(HeldBy) \in Nat
  /\ IsFiniteSet(ClaimedBy) /\ Cardinality(ClaimedBy) \in Nat
  /\ SumFunction(rows) \in Nat /\ SumFunction(actions) \in Nat

LEMMA FiniteCounts == TypeOK => CountsAreFinite
<1> SUFFICES ASSUME TypeOK PROVE CountsAreFinite
  OBVIOUS
<1>1. IsFiniteSet(Pulse) /\ IsFiniteSet(Task) /\ Wrap \in Nat \ {0}
  BY PulseAssumption
<1>2. IsFiniteSet(HeldBy) /\ IsFiniteSet(ClaimedBy)
  BY <1>1, FS_Subset DEF HeldBy, ClaimedBy
<1>3. IsFiniteSet(0..(Wrap - 1))
  BY <1>1, FS_Interval
<1>4. rows \in [0..(Wrap - 1) -> Nat] /\ actions \in [Pulse -> Nat]
  BY DEF TypeOK
<1>5. SumFunction(rows) \in Nat /\ SumFunction(actions) \in Nat
  BY <1>1, <1>3, <1>4, SumIsNat
<1> QED BY <1>2, <1>5, FS_CardinalityType DEF CountsAreFinite

LEMMA FiniteCountsNext == TypeOK' => CountsAreFinite'
BY FiniteCounts, PTL

(* Tasks are only ever added to those that were claimed.                   *)
LEMMA ClaimedGrow ==
  ASSUME TypeOK, TypeOK',
         \A t \in Task : status[t] \in {"running", "completed"}
                           => status'[t] \in {"running", "completed"}
  PROVE  Cardinality(ClaimedBy) <= Cardinality(ClaimedBy')
<1>1. ClaimedBy \subseteq ClaimedBy'
  BY DEF ClaimedBy
<1>2. IsFiniteSet(ClaimedBy')
  BY FiniteCountsNext DEF CountsAreFinite
<1> QED BY <1>1, <1>2, FS_Subset

(* A step that adds nothing on the left and takes nothing on the right.    *)
LEMMA CountKept ==
  ASSUME TypeOK, TypeOK', CountedOnce,
         SumFunction(rows') <= SumFunction(rows),
         SumFunction(actions') <= SumFunction(actions),
         Cardinality(HeldBy') <= Cardinality(HeldBy),
         Cardinality(ClaimedBy) <= Cardinality(ClaimedBy')
  PROVE  CountedOnce'
<1>1. /\ SumFunction(rows) \in Nat /\ SumFunction(actions) \in Nat
      /\ Cardinality(HeldBy) \in Nat /\ Cardinality(ClaimedBy) \in Nat
  BY FiniteCounts DEF CountsAreFinite
<1>2. /\ SumFunction(rows') \in Nat /\ SumFunction(actions') \in Nat
      /\ Cardinality(HeldBy') \in Nat /\ Cardinality(ClaimedBy') \in Nat
  BY FiniteCountsNext DEF CountsAreFinite
<1>3. SumFunction(rows) + SumFunction(actions) + Cardinality(HeldBy)
        <= Cardinality(ClaimedBy)
  BY Zenon DEF CountedOnce, HeldBy, ClaimedBy
<1>4. SumFunction(rows') + SumFunction(actions') + Cardinality(HeldBy')
        <= Cardinality(ClaimedBy')
  BY <1>1, <1>2, <1>3
<1> QED BY <1>4, Zenon DEF CountedOnce, HeldBy, ClaimedBy

LEMMA CountedStep ==
  TypeOK /\ TypeOK' /\ TableInv /\ CountedOnce /\ [Next]_vars => CountedOnce'
<1> SUFFICES ASSUME TypeOK, TypeOK', TableInv, CountedOnce, [Next]_vars
    PROVE  CountedOnce'
  OBVIOUS
<1> USE DEF table, pulse
<1>a. /\ IsFiniteSet(HeldBy) /\ IsFiniteSet(ClaimedBy)
      /\ SumFunction(rows) \in Nat /\ SumFunction(actions) \in Nat
      /\ Cardinality(HeldBy) \in Nat /\ Cardinality(ClaimedBy) \in Nat
  BY FiniteCounts DEF CountsAreFinite
<1>b. /\ IsFiniteSet(HeldBy') /\ IsFiniteSet(ClaimedBy')
      /\ SumFunction(rows') \in Nat /\ SumFunction(actions') \in Nat
      /\ Cardinality(HeldBy') \in Nat /\ Cardinality(ClaimedBy') \in Nat
  BY FiniteCountsNext DEF CountsAreFinite
<1>c. SumFunction(rows) + SumFunction(actions) + Cardinality(HeldBy)
        <= Cardinality(ClaimedBy)
  BY Zenon DEF CountedOnce, HeldBy, ClaimedBy
<1>d. SumFunction(rows') + SumFunction(actions') + Cardinality(HeldBy')
        <= Cardinality(ClaimedBy') => CountedOnce'
  BY Zenon DEF CountedOnce, HeldBy, ClaimedBy
<1>e. IsFiniteSet(Pulse) /\ IsFiniteSet(0..(Wrap - 1))
  BY PulseAssumption, FS_Interval
<1>r. rows' = rows => SumFunction(rows') <= SumFunction(rows)
  BY <1>a
<1>s. actions' = actions => SumFunction(actions') <= SumFunction(actions)
  BY <1>a
<1>h. HeldBy' \subseteq HeldBy => Cardinality(HeldBy') <= Cardinality(HeldBy)
  BY <1>a, FS_Subset
<1>t. status' = status => Cardinality(ClaimedBy) <= Cardinality(ClaimedBy')
  BY ClaimedGrow
<1>1. ASSUME NEW t \in Task, CreateTask(t) PROVE CountedOnce'
  <2>1. Cardinality(ClaimedBy) <= Cardinality(ClaimedBy')
    BY <1>1, ClaimedGrow DEF CreateTask, TypeOK
  <2>2. HeldBy' \subseteq HeldBy /\ rows' = rows /\ actions' = actions
    BY <1>1 DEF CreateTask, HeldBy
  <2> QED BY <1>r, <1>s, <1>h, <2>1, <2>2, CountKept
<1>2. ASSUME NEW p \in Pulse, Begin(p) \/ List(p) PROVE CountedOnce'
  <2>1. /\ HeldBy' \subseteq HeldBy
        /\ rows' = rows /\ actions' = actions /\ status' = status
    BY <1>2 DEF Begin, List, HeldBy, Holding, TypeOK
  <2> QED BY <1>r, <1>s, <1>h, <1>t, <2>1, CountKept
<1>3. ASSUME NEW p \in Pulse, NEW t \in Task, Claim(p, t) PROVE CountedOnce'
  <2>1. rows' = rows /\ actions' = actions
    BY <1>3 DEF Claim, LostClaim
  <2>2. CASE /\ Claimable(t)
             /\ status' = [status EXCEPT ![t] = "running"]
             /\ pc' = [pc EXCEPT ![p] = "claimed"]
    <3>1. HeldBy' = HeldBy \cup {p} /\ p \notin HeldBy
      BY <1>3, <2>2 DEF Claim, HeldBy, Holding, TypeOK
    <3>2. ClaimedBy' = ClaimedBy \cup {t} /\ t \notin ClaimedBy
      BY <2>2 DEF Claimable, ClaimedBy, TypeOK
    <3>3. /\ Cardinality(HeldBy') = Cardinality(HeldBy) + 1
          /\ Cardinality(ClaimedBy') = Cardinality(ClaimedBy) + 1
      BY <1>a, <3>1, <3>2, FS_AddElement
    <3>4. SumFunction(rows') = SumFunction(rows) /\ SumFunction(actions') = SumFunction(actions)
      BY <2>1
    <3> QED BY <1>a, <1>b, <1>c, <1>d, <3>3, <3>4
  <2>3. CASE UNCHANGED <<status, cur, pc>>
    <3>1. HeldBy' \subseteq HeldBy
      BY <2>3 DEF HeldBy
    <3> QED BY <1>r, <1>s, <1>h, <1>t, <2>1, <2>3, <3>1, CountKept
  <2> QED BY <1>3, <2>2, <2>3 DEF Claim
<1>4. ASSUME NEW p \in Pulse, Execute(p) PROVE CountedOnce'
  <2>1. /\ HeldBy' \subseteq HeldBy
        /\ rows' = rows /\ actions' = actions /\ status' = status
    BY <1>4 DEF Execute, HeldBy, Holding, TypeOK
  <2> QED BY <1>r, <1>s, <1>h, <1>t, <2>1, CountKept
<1>5. ASSUME NEW p \in Pulse, Complete(p) PROVE CountedOnce'
  <2>1. cur[p] \in Task /\ status[cur[p]] = "running"
    BY <1>5 DEF TypeOK, TableInv, SoleHolder, Holds, Complete, Holding
  <2>2. Cardinality(ClaimedBy) <= Cardinality(ClaimedBy')
    BY <1>5, <2>1, ClaimedGrow DEF Complete, CompleteTask, TypeOK
  <2>3. HeldBy' = HeldBy \ {p} /\ p \in HeldBy
    BY <1>5 DEF Complete, HeldBy, Holding, TypeOK
  <2>4. Cardinality(HeldBy') = Cardinality(HeldBy) - 1
    BY <1>a, <2>3, FS_RemoveElement
  <2>5. SumFunction(actions') + actions[p] = SumFunction(actions) + actions[p] + 1
    <3>1. actions \in [Pulse -> Nat] /\ actions[p] + 1 \in Nat /\ actions[p] \in Nat
      BY DEF TypeOK
    <3>0. PICK more \in Nat : more = actions[p] + 1
      BY <3>1
    <3>2. Updated(actions', actions, p, more)
      BY <1>5, <3>0 DEF Complete, Updated
    <3>3. SumFunction(actions') + actions[p] = SumFunction(actions) + more
      BY Zenon, <1>e, <3>1, <3>2, SumUpdate
    <3> QED BY <1>a, <1>b, <3>0, <3>1, <3>3
  <2>6. SumFunction(actions') = SumFunction(actions) + 1
    <3>1. actions[p] \in Nat
      BY DEF TypeOK
    <3> QED BY <1>a, <1>b, <2>5, <3>1
  <2>7. SumFunction(rows') = SumFunction(rows)
    BY <1>5 DEF Complete
  <2> QED BY <1>a, <1>b, <1>c, <1>d, <2>2, <2>4, <2>6, <2>7
<1>6. ASSUME NEW p \in Pulse, Record(p) PROVE CountedOnce'
  <2>1. HeldBy' \subseteq HeldBy /\ status' = status
    BY <1>6 DEF Record, HeldBy, Holding, TypeOK
  <2>2. actions[p] \in Nat /\ actions \in [Pulse -> Nat]
    BY DEF TypeOK
  <2>3. SumFunction(actions') + actions[p] = SumFunction(actions)
    <3>1. Updated(actions', actions, p, 0)
      BY <1>6 DEF Record, Updated
    <3>2. SumFunction(actions') + actions[p] = SumFunction(actions) + 0
      <4>1. 0 \in Nat
        OBVIOUS
      <4> QED BY Zenon, <1>e, <2>2, <3>1, <4>1, SumUpdate
    <3> QED BY <1>a, <3>2
  <2>4. SumFunction(rows') <= SumFunction(rows) + actions[p]
    <3>1. CASE rows' = rows
      BY <1>a, <2>2, <3>1
    <3>2. CASE RecordTick(num[p], actions[p])
      <4>1. rows \in [0..(Wrap - 1) -> Nat] /\ num[p] \in 0..(Wrap - 1)
        BY DEF TypeOK
      <4>2. Updated(rows', rows, num[p], actions[p]) /\ rows[num[p]] \in Nat
        BY <3>2, <4>1 DEF RecordTick, Updated
      <4>3. SumFunction(rows') + rows[num[p]] = SumFunction(rows) + actions[p]
        BY Zenon, <1>e, <2>2, <4>1, <4>2, SumUpdate
      <4> QED BY <1>a, <1>b, <2>2, <4>2, <4>3
    <3> QED BY <1>6, <3>1, <3>2 DEF Record
  <2> QED BY <1>a, <1>b, <1>c, <1>d, <1>h, <1>t, <2>1, <2>2, <2>3, <2>4
<1>7. ASSUME NEW P \in SUBSET Pulse, Forget(P), rows' = rows, status' = status
      PROVE  CountedOnce'
  <2>1. HeldBy' \subseteq HeldBy
    BY <1>7 DEF Forget, HeldBy, Holding
  <2>2. /\ actions \in [Pulse -> Nat] /\ actions' \in [Pulse -> Nat]
        /\ \A p \in Pulse : actions'[p] <= actions[p]
    BY <1>7 DEF Forget, TypeOK
  <2>3. SumFunction(actions') <= SumFunction(actions)
    BY <1>e, <2>2, SumSmaller
  <2> QED BY <1>7, <1>r, <1>h, <1>t, <2>1, <2>3, CountKept
<1>8. ASSUME NEW p \in Pulse, Abandon(p) PROVE CountedOnce'
  BY <1>7, <1>8 DEF Abandon
<1>9. ASSUME NEW e \in Engine, Crash(e) PROVE CountedOnce'
  <2>1. {p \in Pulse : Host[p] = e} \in SUBSET Pulse
    OBVIOUS
  <2> QED BY <1>7, <1>9, <2>1 DEF Crash
<1>10. CASE UNCHANGED vars
  <2>1. /\ HeldBy' \subseteq HeldBy
        /\ rows' = rows /\ actions' = actions /\ status' = status
    BY <1>10 DEF vars, HeldBy
  <2> QED BY <1>r, <1>s, <1>h, <1>t, <2>1, CountKept
<1> QED
  BY <1>1, <1>2, <1>3, <1>4, <1>5, <1>6, <1>8, <1>9, <1>10 DEF Next, PulseStep

LEMMA CountedInit == Init => CountedOnce
<1> SUFFICES ASSUME Init PROVE CountedOnce
  OBVIOUS
<1>1. /\ IsFiniteSet(0..(Wrap - 1)) /\ IsFiniteSet(Pulse) /\ IsFiniteSet(Task)
  BY PulseAssumption, FS_Interval
<1>2. SumFunction(rows) = 0
  BY <1>1, SumOfZeros DEF Init
<1>3. SumFunction(actions) = 0
  BY <1>1, SumOfZeros DEF Init
<1>4. HeldBy = {} /\ ClaimedBy = {}
  BY DEF Init, HeldBy, ClaimedBy, Holding
<1>5. Cardinality(HeldBy) = 0 /\ Cardinality(ClaimedBy) = 0
  BY <1>4, FS_EmptySet
<1>6. SumFunction(rows) + SumFunction(actions) + Cardinality(HeldBy)
        <= Cardinality(ClaimedBy)
  BY <1>2, <1>3, <1>5
<1> QED BY <1>6, Zenon DEF CountedOnce, HeldBy, ClaimedBy

(* The stored receipts and the pulses in progress never claim more         *)
(* dispatches than there are claimed tasks, though a restarted process     *)
(* counts its ticks from zero and replaces rows (record_tick), and though  *)
(* pulses are cut off at any point.                                        *)
THEOREM NoTaskCountedTwice == Spec => []CountedOnce
<1>1. TypeOK /\ TableInv /\ CountedOnce /\ [Next]_vars
        => (TypeOK /\ TableInv /\ CountedOnce)'
  BY HeartbeatTypeStep, TableStep, CountedStep
<1> QED BY HeartbeatInit, CountedInit, <1>1, PTL DEF Spec

=============================================================================
