------------------------------ MODULE Records ------------------------------
(***************************************************************************)
(* The message, approval and action stores of src/src/persistence/sqlite,  *)
(* and the paged list of the session store.                                *)
(*                                                                         *)
(* Simplifications. Times are whole seconds, as in the tables, of a clock  *)
(* that is not set back. Of an action only its row is modelled: its        *)
(* updates are those of an approval. Messages are those of one session. At *)
(* the start there are one approval to decide and three sessions to list.  *)
(***************************************************************************)
EXTENDS Interact, Functions

CONSTANTS
  MaxNow,     \* bound on the clock
  PageSize    \* limit of a page of sessions

ASSUME RecordsAssumption == MaxNow \in Nat /\ PageSize \in Nat \ {0}

VARIABLES
  now,        \* the clock
  messages,   \* the messages table: ids by rowid
  composed,   \* every message made: its second and, as history, the rows there were
  draft,      \* the message each client last tried to append (0: none)
  shown,      \* the list each client got last
  actions,    \* the actions table: the calls that made the rows (0: none of them)
  approvals,  \* the approvals table: action, status
  held,       \* the copy of an approval each client means to decide
  decisions,  \* history: the decisions written
  updated,    \* sessions.updated_at by rowid
  reading     \* where each client is in the pages of the list

messageVars == <<messages, composed, draft, shown>>
approvalVars == <<actions, approvals, held, decisions>>
pageVars == <<updated, reading>>

NoCopy == [row |-> 0, asOf |-> 0]

RecordsInit ==
  /\ now = 0
  /\ messages = <<>> /\ composed = <<>>
  /\ draft = [c \in Client |-> 0] /\ shown = [c \in Client |-> <<>>]
  /\ actions = {0} /\ approvals = <<[action |-> 0, status |-> "pending"]>> /\ decisions = <<>>
  /\ held = [c \in Client |-> NoCopy]
  /\ updated = <<0, 0, 0>>
  /\ reading = [c \in Client |-> [offset |-> 0, got |-> {}, due |-> {}, done |-> FALSE]]

(* Time matters to what is listed by it.                                   *)
Tick ==
  /\ {"append", "page"} \cap workload.ops # {}
  /\ now < MaxNow /\ now' = now + 1
  /\ UNCHANGED interactVars

-----------------------------------------------------------------------------
(* Messages. A client appends a new message, or the last one again.        *)

CallAppend(c) ==
  \/ /\ composed' = Append(composed, [at |-> now, after |-> Range(messages)])
     /\ draft' = [draft EXCEPT ![c] = Len(composed')]
     /\ Send(c, "append", draft'[c])
     /\ UNCHANGED <<messages, shown>>
  \/ /\ draft[c] # 0
     /\ Send(c, "append", draft[c])
     /\ UNCHANGED messageVars

(* The id is the primary key.                                              *)
AppendMessage(i) ==
  LET id == calls[i].arg IN
  /\ May(i, "append")
  /\ \/ id \notin Range(messages) /\ messages' = Append(messages, id) /\ End(i, "ok")
     \/ id \in Range(messages) /\ End(i, "error") /\ UNCHANGED messages
  /\ UNCHANGED <<lock, composed, draft, shown>>

(* ORDER BY created_at ASC, rowid ASC.                                     *)
PrecedesVariant(j, k) ==
  \/ composed[messages[j]].at < composed[messages[k]].at
  \/ composed[messages[j]].at = composed[messages[k]].at /\ j > k
Precedes(j, k) ==
  \/ composed[messages[j]].at < composed[messages[k]].at
  \/ composed[messages[j]].at = composed[messages[k]].at /\ j < k

(* A row stands behind those that precede it.                              *)
Ahead(r) == {j \in DOMAIN messages : Precedes(j, r)}
Row(n) == CHOOSE r \in DOMAIN messages : Cardinality(Ahead(r)) = n - 1

Listing == [n \in DOMAIN messages |-> messages[Row(n)]]

CallMessages(c) == Send(c, "messages", 0) /\ UNCHANGED messageVars

ListMessages(i) ==
  /\ May(i, "messages")
  /\ End(i, "ok")
  /\ shown' = IF Told(i) THEN [shown EXCEPT ![Owner(i)] = Listing] ELSE shown
  /\ UNCHANGED <<lock, messages, composed, draft>>

MessageStep ==
  \/ \E c \in Client : CallAppend(c) \/ CallMessages(c)
  \/ \E i \in DOMAIN calls : AppendMessage(i) \/ ListMessages(i)

-----------------------------------------------------------------------------
(* Actions and their approvals. A client that made an action asks for its  *)
(* approval, though it may have given up on the call that stores it.       *)

CallPropose(c) == Send(c, "propose", 0) /\ UNCHANGED approvalVars
CallRequest(c) ==
  \E a \in {i \in DOMAIN calls : calls[i].op = "propose"} :
    Send(c, "request", a) /\ UNCHANGED approvalVars

Propose(i) ==
  /\ May(i, "propose")
  /\ actions' = actions \cup {i}
  /\ End(i, "ok")
  /\ UNCHANGED <<lock, approvals, held, decisions>>

(* The action is a foreign key.                                            *)
Stored(a) == a \in actions

Request(i) ==
  /\ May(i, "request")
  /\ \/ /\ Stored(calls[i].arg)
        /\ approvals' = Append(approvals, [action |-> calls[i].arg, status |-> "pending"])
        /\ End(i, "ok")
     \/ ~Stored(calls[i].arg) /\ End(i, "error") /\ UNCHANGED approvals
  /\ UNCHANGED <<lock, actions, held, decisions>>

(* list_pending, and get by a client that checks the status: an approval   *)
(* to decide.                                                              *)
PendingVariant == DOMAIN approvals
Pending == {r \in DOMAIN approvals : approvals[r].status = "pending"}

CallPending(c) == Send(c, "pending", 0) /\ UNCHANGED approvalVars

ListPending(i) ==
  /\ May(i, "pending")
  /\ End(i, "ok")
  /\ \/ Told(i) /\ \E r \in Pending :
          held' = [held EXCEPT ![Owner(i)] = [row |-> r, asOf |-> Len(decisions)]]
     \/ (~Told(i) \/ Pending = {}) /\ UNCHANGED held
  /\ UNCHANGED <<lock, actions, approvals, decisions>>

CallDecide(c) ==
  /\ held[c].row # 0
  /\ Send(c, "decide", held[c])
  /\ UNCHANGED approvalVars

(* The statement writes whatever status it is given; clients here decide.  *)
Decide(i) ==
  /\ May(i, "decide")
  /\ approvals' = [approvals EXCEPT ![calls[i].arg.row].status = "decided"]
  /\ decisions' = Append(decisions, calls[i].arg)
  /\ End(i, "ok")
  /\ UNCHANGED <<lock, actions, held>>

ApprovalStep ==
  \/ \E c \in Client : CallPropose(c) \/ CallRequest(c) \/ CallPending(c) \/ CallDecide(c)
  \/ \E i \in DOMAIN calls : Propose(i) \/ Request(i) \/ ListPending(i) \/ Decide(i)

-----------------------------------------------------------------------------
(* The list of sessions, page by page, while sessions are made and updated *)
(* (a session stored late has the time of its making).                     *)

CallOpen(c) == Send(c, "open", now) /\ UNCHANGED pageVars
CallTouch(c) == \E r \in DOMAIN updated : Send(c, "touch", r) /\ UNCHANGED pageVars
CallPage(c) == ~reading[c].done /\ Send(c, "page", reading[c].offset) /\ UNCHANGED pageVars

Open(i) ==
  /\ May(i, "open")
  /\ updated' = Append(updated, calls[i].arg)
  /\ End(i, "ok")
  /\ UNCHANGED <<lock, reading>>

Touch(i) ==
  /\ May(i, "touch")
  /\ updated' = [updated EXCEPT ![calls[i].arg] = now]
  /\ reading' = [c \in Client |-> [reading[c] EXCEPT !.due = @ \ {calls[i].arg}]]
  /\ End(i, "ok")
  /\ UNCHANGED lock

(* ORDER BY updated_at DESC, from an index whose entries for one second    *)
(* are in the order of the rowids; LIMIT PageSize OFFSET offset.           *)
NewerVariant(r, s) == updated[r] < updated[s] \/ (updated[r] = updated[s] /\ r < s)
Newer(r, s) == updated[r] > updated[s] \/ (updated[r] = updated[s] /\ r < s)

Rank(r) == Cardinality({s \in DOMAIN updated : Newer(s, r)})

Page(offset) == {r \in DOMAIN updated : Rank(r) \in offset..(offset + PageSize - 1)}

(* A reader goes on until a page is not full. What it is due are the       *)
(* sessions there were at its first page and nobody updated since.         *)
ListSessions(i) ==
  LET offset == calls[i].arg
      c == Owner(i)
      page == Page(offset)
  IN
  /\ May(i, "page")
  /\ End(i, "ok")
  /\ \/ /\ Told(i)
        /\ reading' = [reading EXCEPT ![c] =
             [offset |-> offset + PageSize, got |-> @.got \cup page,
              due |-> IF offset = 0 THEN DOMAIN updated ELSE @.due,
              done |-> Cardinality(page) < PageSize]]
     \/ ~Told(i) /\ UNCHANGED reading
  /\ UNCHANGED <<lock, updated>>

PageStep ==
  \/ \E c \in Client : CallOpen(c) \/ CallTouch(c) \/ CallPage(c)
  \/ \E i \in DOMAIN calls : Open(i) \/ Touch(i) \/ ListSessions(i)

RecordsTypeOK ==
  /\ now \in 0..MaxNow
  /\ messages \in Seq(DOMAIN composed)
  /\ composed \in Seq([at : 0..MaxNow, after : SUBSET Nat])
  /\ draft \in [Client -> 0..Len(composed)]
  /\ shown \in [Client -> Seq(DOMAIN composed)]
  /\ actions \subseteq {0} \cup DOMAIN calls
  /\ approvals \in Seq([action : actions, status : {"pending", "decided"}])
  /\ held \in [Client -> [row : 0..Len(approvals), asOf : 0..Len(decisions)]]
  /\ decisions \in Seq([row : DOMAIN approvals, asOf : 0..Len(decisions)])
  /\ updated \in Seq(0..MaxNow)
  /\ reading \in [Client -> [offset : Nat, got : SUBSET DOMAIN updated,
                            due : SUBSET DOMAIN updated, done : BOOLEAN]]

-----------------------------------------------------------------------------
(* Properties.                                                             *)

(* In every list a client was shown, each message stands once, though its  *)
(* append was tried again, and after all that were stored when it was      *)
(* made: an answer never comes before its question, also within a second   *)
(* and across processes (messages.rs:64).                                  *)
ConversationOrder ==
  \A c \in Client : \A k \in DOMAIN shown[c] :
    /\ \A j \in DOMAIN shown[c] : shown[c][j] = shown[c][k] => j = k
    /\ \A m \in composed[shown[c][k]].after :
         \E j \in 1..(k - 1) : shown[c][j] = m

(* Nobody decides an approval that was decided before it was shown as      *)
(* pending: of two decisions the later one was made on a copy read before  *)
(* the earlier was written. Nothing else keeps a decision (the update has  *)
(* no condition on the status, approvals.rs:92).                           *)
RedecidedOnlyFromStaleCopy ==
  \A k \in DOMAIN decisions : \A j \in 1..(k - 1) :
    decisions[j].row = decisions[k].row => j > decisions[k].asOf

(* A client that reads the list of sessions to its end has seen every      *)
(* session it could expect: those that were there when it began and that   *)
(* nobody updated meanwhile, whatever was made, updated and shifted        *)
(* between its pages (sessions.rs:153).                                    *)
PagesComplete ==
  \A c \in Client : reading[c].done => reading[c].due \subseteq reading[c].got

=============================================================================
