------------------------------- MODULE Stores -------------------------------
(***************************************************************************)
(* The session and run stores of src/src/persistence/sqlite: clients of    *)
(* several processes read copies of one session and of its runs, change    *)
(* them, and write them back.                                              *)
(*                                                                         *)
(* Simplifications. What a session says is the set of clients whose edit   *)
(* it contains; budgets, times and the other columns are left out. There   *)
(* is one session, and it exists; ids are fresh.                           *)
(***************************************************************************)
EXTENDS Interact

VARIABLES
  session,    \* the sessions row: version, edits
  copy,       \* each client's copy of the session
  accepted,   \* history: the clients whose edit an UPDATE wrote
  runs,       \* the runs table: state and, as history, the call that made it
  runCopy,    \* each client's copy of a run
  revived     \* history: runs an update took from ended to active

sessionVars == <<session, copy, accepted>>
runVars == <<runs, runCopy, revived>>

RunState == {"active", "ended"}   \* active: running, waiting_for_approval or _tool
Active == {r \in DOMAIN runs : runs[r].state = "active"}

Session == [version : Nat \ {0}, edits : SUBSET Client]
RunCopy == [run : Nat, state : RunState]

StoresInit ==
  /\ session = [version |-> 1, edits |-> {}]
  /\ copy = [c \in Client |-> session]
  /\ accepted = {}
  /\ runs = <<>>
  /\ runCopy = [c \in Client |-> [run |-> 0, state |-> "ended"]]
  /\ revived = {}

-----------------------------------------------------------------------------
(* The session. Before it writes, a client changes its copy.               *)

CallGet(c) == Send(c, "get", 0) /\ UNCHANGED sessionVars

CallUpdate(c) ==
  /\ copy' = [copy EXCEPT ![c].edits = @ \cup {c}]
  /\ Send(c, "update", copy'[c])
  /\ UNCHANGED <<session, accepted>>

Get(i) ==
  /\ May(i, "get")
  /\ End(i, "ok")
  /\ copy' = IF Told(i) THEN [copy EXCEPT ![Owner(i)] = session] ELSE copy
  /\ UNCHANGED <<lock, session, accepted>>

(* The ...Variant definitions here and below are plausible slips in the    *)
(* definition that follows them; with one in place a property must fail.   *)
FreshVariant(i) == TRUE
Fresh(i) == session.version = calls[i].arg.version

WrittenVariant(i) == calls[i].arg
Written(i) == [version |-> session.version + 1, edits |-> calls[i].arg.edits]

Update(i) ==
  /\ May(i, "update")
  /\ \/ /\ Fresh(i)
        /\ session' = Written(i)
        /\ accepted' = accepted \cup calls[i].arg.edits
        /\ End(i, "ok")
     \/ /\ ~Fresh(i)
        /\ End(i, "conflict")
        /\ UNCHANGED <<session, accepted>>
  /\ UNCHANGED <<lock, copy>>

-----------------------------------------------------------------------------
(* Its runs. create counts the active ones, then inserts.                  *)

CallCreate(c) == Send(c, "create", 0) /\ UNCHANGED runVars
CallGetRun(c, op) == Send(c, op, 0) /\ UNCHANGED runVars

CallUpdateRun(c) ==
  /\ runCopy[c].run # 0
  /\ \E s \in RunState : runCopy' = [runCopy EXCEPT ![c].state = s]
  /\ Send(c, "update_run", runCopy'[c])
  /\ UNCHANGED <<runs, revived>>

MayCreateVariant == Cardinality(Active) <= 1
MayCreate == Active = {}

Count(i) ==
  /\ May(i, "create")
  /\ \/ /\ MayCreate
        /\ lock' = [lock EXCEPT ![Conn(i)] = i]
        /\ calls' = [calls EXCEPT ![i].pc = "counted"]
        /\ UNCHANGED <<workload, waiting>>
     \/ /\ ~MayCreate
        /\ End(i, "conflict")
        /\ UNCHANGED lock
  /\ UNCHANGED runVars

Insert(i) ==
  /\ calls[i].pc = "counted"
  /\ runs' = Append(runs, [state |-> "active", by |-> i])
  /\ lock' = [lock EXCEPT ![Conn(i)] = 0]
  /\ End(i, "ok")
  /\ runCopy' = IF Told(i)
                THEN [runCopy EXCEPT ![Owner(i)] = [run |-> Len(runs'), state |-> "active"]]
                ELSE runCopy
  /\ UNCHANGED revived

(* get, list_by_session and get_active_run: a client takes one of the runs *)
(* it is shown, any of them or an active one.                              *)
RunReads == {"get_run", "get_active"}
Shows(op) == IF op = "get_active" THEN Active ELSE DOMAIN runs

GetRun(i, op) ==
  /\ May(i, op)
  /\ End(i, "ok")
  /\ \/ Told(i) /\ \E r \in Shows(op) :
          runCopy' = [runCopy EXCEPT ![Owner(i)] = [run |-> r, state |-> runs[r].state]]
     \/ (~Told(i) \/ Shows(op) = {}) /\ UNCHANGED runCopy
  /\ UNCHANGED <<lock, runs, revived>>

UpdateRun(i) ==
  LET r == calls[i].arg.run IN
  /\ May(i, "update_run")
  /\ runs' = [runs EXCEPT ![r].state = calls[i].arg.state]
  /\ revived' = IF runs[r].state = "ended" /\ runs'[r].state = "active"
                THEN revived \cup {r} ELSE revived
  /\ End(i, "ok")
  /\ UNCHANGED <<lock, runCopy>>

-----------------------------------------------------------------------------
(* What a client and its closures do to the session, and to its runs.      *)

SessionStep ==
  \/ \E c \in Client : CallGet(c) \/ CallUpdate(c)
  \/ \E i \in DOMAIN calls : Get(i) \/ Update(i)

RunStep ==
  \/ \E c \in Client : CallCreate(c) \/ CallUpdateRun(c) \/ \E op \in RunReads : CallGetRun(c, op)
  \/ \E i \in DOMAIN calls :
       Count(i) \/ Insert(i) \/ UpdateRun(i) \/ \E op \in RunReads : GetRun(i, op)

StoresTypeOK ==
  /\ session \in Session /\ copy \in [Client -> Session] /\ accepted \subseteq Client
  /\ runs \in Seq([state : RunState, by : Nat])
  /\ runCopy \in [Client -> RunCopy] /\ revived \subseteq DOMAIN runs

-----------------------------------------------------------------------------
(* Properties.                                                             *)

(* No update that was written is lost under a later one, also when its     *)
(* caller had given up and tries again: the row contains every edit ever   *)
(* accepted (sessions.rs:116-135, the version in the WHERE clause).        *)
NoLostUpdate == accepted \subseteq session.edits

(* At most one update of a version is answered, or carried out for nobody, *)
(* with Ok: a retry of a call that was carried out is told of a conflict.  *)
OneUpdatePerVersion ==
  \A i, j \in DOMAIN calls :
    /\ i # j
    /\ calls[i].op = "update" /\ calls[i].result = "ok"
    /\ calls[j].op = "update" /\ calls[j].result = "ok"
    => calls[i].arg.version # calls[j].arg.version

(* What is left of "one active run per session": within one process two    *)
(* runs are active only if an update wrote an old copy of one back.        *)
ActiveRunsOfOneProcess ==
  \A r, s \in Active \ revived :
    r # s => Conn(runs[r].by) # Conn(runs[s].by)

=============================================================================
