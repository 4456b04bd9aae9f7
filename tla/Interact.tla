------------------------------ MODULE Interact ------------------------------
(***************************************************************************)
(* AsyncDatabase::interact (src/src/persistence/async_db.rs), under every  *)
(* store of src/src/persistence/sqlite: a client of some process hands a   *)
(* closure to a blocking thread. The closure holds the process's           *)
(* connection until it ends, and it is not stopped when the caller drops   *)
(* its future. Another process has its own connection: between two         *)
(* statements of a closure it may execute statements of its own, as the    *)
(* closures open no transaction.                                           *)
(*                                                                         *)
(* Stores and Records add the operations; Database puts them together. A   *)
(* closure of one statement is one step.                                   *)
(***************************************************************************)
EXTENDS Naturals, Sequences, FiniteSets

CONSTANTS
  Client, Process,
  Home,       \* the process of each client
  Workloads   \* what clients do in one behaviour: the operations, how many calls

ASSUME InteractAssumption ==
  /\ Home \in [Client -> Process]
  /\ Workloads \subseteq [ops : SUBSET STRING, calls : Nat]

VARIABLES
  workload,   \* the one of this behaviour
  lock,       \* the call whose closure holds a process's connection (0: none)
  calls,      \* every call of a store: its client, argument and progress
  waiting     \* the call each client awaits (0: none)

interactVars == <<workload, lock, calls, waiting>>

InteractInit ==
  /\ workload \in Workloads
  /\ lock = [p \in Process |-> 0]
  /\ calls = <<>>
  /\ waiting = [c \in Client |-> 0]

(* A client awaits one call at a time. While it waits it may give up (a    *)
(* dropped future), and call again.                                        *)
Send(c, op, arg) ==
  /\ op \in workload.ops /\ Len(calls) < workload.calls
  /\ waiting[c] = 0
  /\ calls' = Append(calls, [client |-> c, op |-> op, pc |-> "queued", result |-> "none", arg |-> arg])
  /\ waiting' = [waiting EXCEPT ![c] = Len(calls')]
  /\ UNCHANGED <<workload, lock>>

GiveUp(c) ==
  /\ waiting[c] # 0
  /\ waiting' = [waiting EXCEPT ![c] = 0]
  /\ UNCHANGED <<workload, lock, calls>>

Owner(i) == calls[i].client
Conn(i) == Home[Owner(i)]
Told(i) == waiting[Owner(i)] = i   \* its client still waits for the answer

(* The closure finds the connection free. (The variant is a plausible slip *)
(* in it; with it in place a property must fail.)                          *)
MayVariant(i, op) == calls[i].op = op /\ calls[i].pc = "queued"
May(i, op) ==
  calls[i].op = op /\ calls[i].pc = "queued" /\ lock[Conn(i)] = 0

(* The closure ends with a result, and a client that still waits for the   *)
(* call goes on with what it got.                                          *)
End(i, result) ==
  /\ calls' = [calls EXCEPT ![i].pc = "done", ![i].result = result]
  /\ waiting' = IF Told(i) THEN [waiting EXCEPT ![Owner(i)] = 0] ELSE waiting
  /\ UNCHANGED workload

(* A statement fails, for instance because the database is busy. A closure *)
(* that panics fails like that too, and poisons the lock it held: then all *)
(* later calls of its connection fail, each by a step of its own.          *)
Fail(i) ==
  /\ \/ calls[i].pc = "queued" /\ lock[Conn(i)] = 0 /\ UNCHANGED lock
     \/ calls[i].pc = "counted" /\ lock' = [lock EXCEPT ![Conn(i)] = 0]
  /\ End(i, "error")

=============================================================================
