------------------------------ MODULE Database ------------------------------
(***************************************************************************)
(* The stores on one database. A behaviour has one of the given workloads; *)
(* operations on different tables meet only at a process's connection.     *)
(***************************************************************************)
EXTENDS Stores, Records

storeVars == <<sessionVars, runVars>>
recordVars == <<messageVars, approvalVars, pageVars>>
vars == <<interactVars, now, storeVars, recordVars>>

Init == InteractInit /\ StoresInit /\ RecordsInit

Next ==
  \/ SessionStep /\ UNCHANGED <<now, runVars, recordVars>>
  \/ RunStep /\ UNCHANGED <<now, sessionVars, recordVars>>
  \/ MessageStep /\ UNCHANGED <<now, storeVars, approvalVars, pageVars>>
  \/ ApprovalStep /\ UNCHANGED <<now, storeVars, messageVars, pageVars>>
  \/ PageStep /\ UNCHANGED <<now, storeVars, messageVars, approvalVars>>
  \/ Tick /\ UNCHANGED <<storeVars, recordVars>>
  \/ /\ (\E c \in Client : GiveUp(c)) \/ (\E i \in DOMAIN calls : Fail(i))
     /\ UNCHANGED <<now, storeVars, recordVars>>

Spec == Init /\ [][Next]_vars

-----------------------------------------------------------------------------
Ops == {"get", "update", "create", "get_run", "get_active", "update_run", "append", "messages",
        "propose", "request", "pending", "decide", "open", "touch", "page"}

(* The argument of each call: a copy, or a number.                         *)
ArgOf(op) ==
  CASE op = "update" -> Session
    [] op = "update_run" -> RunCopy
    [] op = "decide" -> [row : Nat, asOf : Nat]
    [] OTHER -> Nat

(* Every variable stays within its type; a connection is held by a call of *)
(* that process that is between two statements, and by one at most.        *)
TypeOK ==
  /\ workload \in Workloads
  /\ \A i \in DOMAIN calls :
       calls[i] \in [client : Client, op : Ops, pc : {"queued", "counted", "done"},
                    result : {"none", "ok", "conflict", "error"}, arg : ArgOf(calls[i].op)]
  /\ Len(calls) <= workload.calls
  /\ waiting \in [Client -> 0..Len(calls)]
  /\ \A p \in Process : {i \in DOMAIN calls : Conn(i) = p /\ calls[i].pc = "counted"}
                          = IF lock[p] = 0 THEN {} ELSE {lock[p]}
  /\ StoresTypeOK /\ RecordsTypeOK

=============================================================================
