------------------------- MODULE CancelTokenProofs -------------------------
(***************************************************************************)
(* No wake-up of a CancelToken is lost, for any number of waiters and of   *)
(* calls of cancel().                                                      *)
(***************************************************************************)
EXTENDS CancelToken, FiniteSetTheorems, TLAPS

Done == {c \in Canceller : cancel[c] = "done"}

(* notified counts the calls that are over, and no future is newer.        *)
Counted ==
  /\ notified = Cardinality(Done)
  /\ \A w \in Waiter : created[w] <= notified

TokenInv == TypeOK /\ Counted /\ NoLostWakeup

LEMMA DoneFinite == IsFiniteSet(Done) /\ Cardinality(Done) \in 0..Cardinality(Canceller)
<1>1. Done \subseteq Canceller
  BY DEF Done
<1>2. IsFiniteSet(Done) /\ Cardinality(Done) <= Cardinality(Canceller)
  BY <1>1, FS_Subset, CancellerAssumption
<1> QED BY <1>2, FS_CardinalityType, CancellerAssumption

LEMMA TokenInit == Init => TokenInv
<1> SUFFICES ASSUME Init PROVE TokenInv
  OBVIOUS
<1>1. Done = {}
  BY DEF Init, Done
<1>2. Cardinality(Done) = 0
  BY <1>1, FS_EmptySet
<1>3. 0 \in 0..Cardinality(Canceller)
  BY FS_CardinalityType, CancellerAssumption
<1>4. TypeOK
  BY <1>3 DEF Init, TypeOK
<1>5. Counted
  BY <1>2 DEF Init, Counted
<1>6. NoLostWakeup
  BY DEF Init, NoLostWakeup
<1> QED BY <1>4, <1>5, <1>6 DEF TokenInv

LEMMA TokenStep == TokenInv /\ [Next]_vars => TokenInv'
<1> SUFFICES ASSUME TokenInv, [Next]_vars PROVE TokenInv'
  OBVIOUS
<1>0. Cardinality(Canceller) \in Nat
  BY FS_CardinalityType, CancellerAssumption
<1>1. ASSUME NEW c \in Canceller, Store(c) PROVE TokenInv'
  <2>1. Done' = Done
    BY <1>1 DEF Store, Done, TokenInv, TypeOK
  <2>2. cancel'[c] = "stored"
    BY <1>1 DEF Store, TokenInv, TypeOK
  <2> QED BY <1>1, <2>1, <2>2 DEF Store, TokenInv, TypeOK, Counted, NoLostWakeup
<1>2. ASSUME NEW c \in Canceller, Notify(c) PROVE TokenInv'
  <2>1. c \notin Done /\ Done' = Done \cup {c}
    BY <1>2 DEF Notify, Done, TokenInv, TypeOK
  <2>2. Cardinality(Done') = Cardinality(Done) + 1
    BY <2>1, DoneFinite, FS_AddElement
  <2>3. Done' \subseteq Canceller
    BY DEF Done
  <2>4. Cardinality(Done') <= Cardinality(Canceller)
    BY <2>3, FS_Subset, CancellerAssumption
  <2>5. notified' = Cardinality(Done') /\ notified' = notified + 1 /\ notified \in Nat
    BY <1>2, <2>2, DoneFinite DEF Notify, TokenInv, Counted
  <2>6. TypeOK'
    BY <1>0, <1>2, <2>4, <2>5 DEF Notify, TokenInv, TypeOK
  <2>7. \A w \in Waiter : created'[w] \in Nat /\ created'[w] < notified'
    BY <1>2, <2>5 DEF Notify, TokenInv, TypeOK, Counted
  <2> QED BY <2>5, <2>6, <2>7 DEF TokenInv, Counted, NoLostWakeup
<1>3. ASSUME NEW w \in Waiter,
             Enter(w) \/ CreateFuture(w) \/ Check(w) \/ Wake(w) \/ Leave(w)
      PROVE  TokenInv'
  <2>1. UNCHANGED <<flag, notified, cancel>> /\ Done' = Done
    BY <1>3 DEF Enter, CreateFuture, Check, Wake, Leave, Done
  <2>2. notified \in Nat
    BY <1>0 DEF TokenInv, TypeOK
  <2>3. created' \in [Waiter -> Nat] /\ \A v \in Waiter : created'[v] <= notified'
    BY <1>3, <2>1, <2>2
    DEF Enter, CreateFuture, Check, Wake, Leave, TokenInv, TypeOK, Counted
  <2>4. wait' \in [Waiter -> {"out", "loop", "check", "asleep", "returned"}]
    BY <1>3 DEF Enter, CreateFuture, Check, Wake, Leave, TokenInv, TypeOK
  <2>5. TypeOK' /\ Counted'
    BY <2>1, <2>3, <2>4 DEF TokenInv, TypeOK, Counted
  <2>6. NoLostWakeup'
    <3> SUFFICES ASSUME NEW v \in Waiter, flag', wait'[v] = "asleep"
                 PROVE  created'[v] # notified' \/ \E c \in Canceller : cancel'[c] = "stored"
      BY DEF NoLostWakeup
    <3>1. wait[v] = "asleep" /\ created'[v] = created[v]
      BY <1>3, <2>1 DEF Enter, CreateFuture, Check, Wake, Leave, TokenInv, TypeOK
    <3> QED BY <2>1, <3>1 DEF TokenInv, NoLostWakeup
  <2> QED BY <2>5, <2>6 DEF TokenInv
<1>4. CASE UNCHANGED vars
  BY <1>4 DEF vars, TokenInv, TypeOK, Counted, Done, NoLostWakeup
<1> QED BY <1>1, <1>2, <1>3, <1>4 DEF Next

LEMMA TokenAlways == Spec => []TokenInv
<1> QED BY TokenInit, TokenStep, PTL DEF Spec

(* Every reachable state of a token is typed and no cancel() notifies      *)
(* twice.                                                                  *)
THEOREM TokenTyped == Spec => []TypeOK
<1>1. TokenInv => TypeOK
  BY DEF TokenInv
<1> QED BY <1>1, TokenAlways, PTL

(* CancelToken::cancelled: a waiter never sleeps through the last          *)
(* notification, for any number of waiters and cancellers.                 *)
THEOREM NoWakeupIsLost == Spec => []NoLostWakeup
<1>1. TokenInv => NoLostWakeup
  BY DEF TokenInv
<1> QED BY <1>1, TokenAlways, PTL

=============================================================================
