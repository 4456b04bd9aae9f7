----------------------------- MODULE CancelToken -----------------------------
(***************************************************************************)
(* CancelToken of src/src/failure.rs: a flag and a tokio Notify, shared by *)
(* whoever cancels and whoever awaits the cancel. The workflow executor,   *)
(* its bodies and the agent all wait on such tokens.                       *)
(*                                                                         *)
(* The threads interleave between any two operations on the flag and the   *)
(* Notify. notify_waiters wakes every Notified future that exists when it  *)
(* is called and leaves nothing behind for later ones, so a future is      *)
(* known by how many notifications there had been when it was created.     *)
(***************************************************************************)
EXTENDS Naturals, FiniteSets

CONSTANTS
  Waiter,     \* tasks that await cancelled()
  Canceller   \* calls of cancel()

ASSUME CancellerAssumption == IsFiniteSet(Canceller)

VARIABLES
  flag,
  notified,   \* how often notify_waiters was called
  cancel,     \* progress of each cancel(): idle, stored, done
  wait,       \* where each waiter is in cancelled()
  created     \* notified when the waiter's Notified future was created

vars == <<flag, notified, cancel, wait, created>>

Init ==
  /\ flag = FALSE /\ notified = 0
  /\ cancel = [c \in Canceller |-> "idle"]
  /\ wait = [w \in Waiter |-> "out"]
  /\ created = [w \in Waiter |-> 0]

-----------------------------------------------------------------------------
(* cancel(): store the flag, then notify. The ...Variant definitions are   *)
(* plausible slips in the definition that follows them; with one in place  *)
(* a property must fail.                                                   *)

Store(c) ==
  /\ cancel[c] = "idle"
  /\ flag' = TRUE
  /\ cancel' = [cancel EXCEPT ![c] = "stored"]
  /\ UNCHANGED <<notified, wait, created>>

NotifyVariantSilent(c) ==
  /\ cancel[c] = "stored"
  /\ cancel' = [cancel EXCEPT ![c] = "done"]
  /\ UNCHANGED <<flag, notified, wait, created>>

Notify(c) ==
  /\ cancel[c] = "stored"
  /\ notified' = notified + 1
  /\ cancel' = [cancel EXCEPT ![c] = "done"]
  /\ UNCHANGED <<flag, wait, created>>

-----------------------------------------------------------------------------
(* cancelled(): create the future, read the flag, await the future; a      *)
(* wake-up starts over.                                                    *)

Enter(w) ==
  /\ wait[w] = "out"
  /\ wait' = [wait EXCEPT ![w] = "loop"]
  /\ UNCHANGED <<flag, notified, cancel, created>>

CreateFuture(w) ==
  /\ wait[w] = "loop"
  /\ created' = [created EXCEPT ![w] = notified]
  /\ wait' = [wait EXCEPT ![w] = "check"]
  /\ UNCHANGED <<flag, notified, cancel>>

(* The variant does not read the flag again once the future exists.        *)
CheckVariant(w) ==
  /\ wait[w] = "check"
  /\ wait' = [wait EXCEPT ![w] = "asleep"]
  /\ UNCHANGED <<flag, notified, cancel, created>>

Check(w) ==
  /\ wait[w] = "check"
  /\ wait' = [wait EXCEPT ![w] = IF flag THEN "returned" ELSE "asleep"]
  /\ UNCHANGED <<flag, notified, cancel, created>>

Wake(w) ==
  /\ wait[w] = "asleep" /\ notified # created[w]
  /\ wait' = [wait EXCEPT ![w] = "loop"]
  /\ UNCHANGED <<flag, notified, cancel, created>>

(* Another branch of the waiter's select! finished: the future is dropped. *)
(* The task may await the token again.                                     *)
Leave(w) ==
  /\ wait[w] = "asleep"
  /\ wait' = [wait EXCEPT ![w] = "out"]
  /\ UNCHANGED <<flag, notified, cancel, created>>

Next ==
  \/ \E c \in Canceller : Store(c) \/ Notify(c)
  \/ \E w \in Waiter : \/ Enter(w) \/ CreateFuture(w) \/ Check(w)
                       \/ Wake(w) \/ Leave(w)

(* A cancel() that began ends, and a task that can go on is polled.        *)
Fairness ==
  /\ \A c \in Canceller : WF_vars(Notify(c))
  /\ \A w \in Waiter : WF_vars(CreateFuture(w) \/ Check(w) \/ Wake(w))

Spec == Init /\ [][Next]_vars /\ Fairness

-----------------------------------------------------------------------------
(* Every variable stays within its type; a cancel() notifies once.         *)
TypeOK ==
  /\ flag \in BOOLEAN
  /\ notified \in 0..Cardinality(Canceller)
  /\ cancel \in [Canceller -> {"idle", "stored", "done"}]
  /\ wait \in [Waiter -> {"out", "loop", "check", "asleep", "returned"}]
  /\ created \in [Waiter -> Nat]

(* A waiter that sleeps on a token whose flag is set has a notification in *)
(* store: its future exists since before the flag was read (failure.rs     *)
(* 403-404), so no cancel() falls between the two unseen, whatever other   *)
(* calls have come and gone.                                               *)
NoLostWakeup ==
  \A w \in Waiter : flag /\ wait[w] = "asleep" =>
    \/ created[w] # notified
    \/ \E c \in Canceller : cancel[c] = "stored"

(* Whoever awaits a cancelled token returns, or had left to do something   *)
(* else.                                                                   *)
CancelReachesWaiters ==
  \A w \in Waiter : flag /\ wait[w] # "out" ~> wait[w] \in {"returned", "out"}

=============================================================================
