-------------------------------- MODULE Store --------------------------------
(***************************************************************************)
(* The scrapper's HTTP API over its database: the handlers of api/routes.py *)
(* with the SQL and the ORM repositories.  Handlers of several requests     *)
(* interleave at their awaits.  The SQL repositories run each statement on  *)
(* a connection of the pool, committed at once; the ORM repositories share  *)
(* one session, so its transaction holds the uncommitted changes of all     *)
(* requests, and a rollback undoes all of them.                             *)
(***************************************************************************)
EXTENDS Naturals, FiniteSets

CONSTANTS
  Chats,
  Urls,
  Supported,    \* the urls detect_resource_type recognises
  Tags,         \* lists of tags
  Requests,     \* HTTP requests
  Backends,     \* the ACCESS_TYPEs to consider
  MaxFaults     \* bound on failing database calls and crashes

ASSUME StoreAssumption ==
  /\ Supported \subseteq Urls
  /\ Backends \subseteq {"SQL", "ORM"}
  /\ MaxFaults \in Nat

(* The tables: chats, links by url, and subscriptions. *)
Subscriptions == [chat : Chats, url : Urls, tags : Tags]
Databases == [chats : SUBSET Chats, links : SUBSET Urls, subs : SUBSET Subscriptions]

(* What the schema enforces: subscriptions refer to rows there are (FOREIGN *)
(* KEY ... ON DELETE CASCADE), and UNIQUE(chat_id, link_id).               *)
Consistent(s) ==
  /\ \A x \in s.subs : x.chat \in s.chats /\ x.url \in s.links
  /\ \A x, y \in s.subs : x.chat = y.chat /\ x.url = y.url => x = y

VARIABLES
  backend,     \* ACCESS_TYPE
  db,          \* the committed tables
  view,        \* the tables as the repositories' next statement sees them
  flushed,     \* requests with a change in the session's transaction
  poisoned,    \* the session's transaction failed and was not rolled back
  op,          \* what each request asks for
  at,          \* where its handler is
  answer,      \* the status it is answered with
  struck,      \* requests some database call of which failed
  faults       \* failing database calls and crashes so far

session == <<view, flushed, poisoned>>
tables == <<db, session>>
vars == <<backend, tables, op, at, answer, struck, faults>>

Orm == backend = "ORM"

Operations ==
  [kind : {"register", "delete", "list", "add", "remove"},
   chat : Chats, url : Urls, tags : Tags]

(* A service that starts on any database the schema allows. *)
Init ==
  /\ backend \in Backends
  /\ db \in {s \in Databases : s.links \subseteq Supported /\ Consistent(s)}
  /\ view = db
  /\ flushed = {}
  /\ poisoned = FALSE
  /\ op \in [Requests -> Operations]
  /\ at = [r \in Requests |-> "none"]
  /\ answer = [r \in Requests |-> 0]
  /\ struck = {}
  /\ faults = 0

Goto(r, label) == at' = [at EXCEPT ![r] = label] /\ UNCHANGED answer

Reply(r, status) ==
  /\ at' = [at EXCEPT ![r] = "done"]
  /\ answer' = [answer EXCEPT ![r] = status]

Fault(r) ==
  /\ faults < MaxFaults
  /\ faults' = faults + 1
  /\ struck' = struck \cup {r}

NoFault == UNCHANGED <<struck, faults>>

Receive(r) ==
  /\ at[r] = "none"
  /\ Goto(r, "checking")
  /\ NoFault
  /\ UNCHANGED <<backend, op, tables>>

------------------------------------------------------------------------------
(* Reading *)

Subscribed(s, r) == \E x \in s.subs : x.chat = op[r].chat /\ x.url = op[r].url

(* Variant: any url is taken. *)
CheckChatOnly(r) ==
  LET known == op[r].chat \in view.chats IN
  /\ at[r] = "checking"
  /\ CASE op[r].kind = "register" -> IF known THEN Reply(r, 409) ELSE Goto(r, "registering")
       [] op[r].kind # "register" /\ ~known -> Reply(r, 404)
       [] op[r].kind = "delete" /\ known -> Goto(r, "deleting")
       [] op[r].kind \in {"list", "remove"} /\ known -> Goto(r, "listing")
       [] op[r].kind = "add" /\ known -> Goto(r, "finding")

(* chat_repo.exists, and what the handler makes of it. *)
CheckChat(r) ==
  LET known == op[r].chat \in view.chats IN
  /\ at[r] = "checking"
  /\ CASE op[r].kind = "register" -> IF known THEN Reply(r, 409) ELSE Goto(r, "registering")
       [] op[r].kind # "register" /\ ~known -> Reply(r, 404)
       [] op[r].kind = "delete" /\ known -> Goto(r, "deleting")
       [] op[r].kind \in {"list", "remove"} /\ known -> Goto(r, "listing")
       [] op[r].kind = "add" /\ known ->
            IF op[r].url \in Supported THEN Goto(r, "finding") ELSE Reply(r, 400)

(* sub_repo.get_chat_links: for GET the answer, for DELETE the link's id. *)
ListLinks(r) ==
  /\ at[r] = "listing"
  /\ CASE op[r].kind = "list" -> Reply(r, 200)
       [] op[r].kind = "remove" ->
            IF Subscribed(view, r) THEN Goto(r, "removing") ELSE Reply(r, 404)

(* The SELECT of get_or_create. *)
FindLink(r) ==
  /\ at[r] = "finding"
  /\ Goto(r, IF op[r].url \in view.links THEN "subscribing" ELSE "creating")

Reads(r) == CheckChat(r) \/ ListLinks(r) \/ FindLink(r)

Read(r) ==
  /\ ~poisoned
  /\ Reads(r)
  /\ NoFault
  /\ UNCHANGED <<backend, op, tables>>

(* Variant: a failed read makes later statements fail under SQL as well. *)
FailReadForAll(r) ==
  /\ at[r] \in {"checking", "listing", "finding"}
  /\ IF poisoned THEN NoFault ELSE Fault(r)
  /\ Reply(r, 500)
  /\ poisoned' = TRUE
  /\ UNCHANGED <<backend, op, db, view, flushed>>

(* A read that fails passes its exception on.  The ORM repositories roll    *)
(* back in get_or_create alone: any other failed read leaves the session in *)
(* a transaction in which every further statement fails.                    *)
FailRead(r) ==
  /\ at[r] \in {"checking", "listing", "finding"}
  /\ IF poisoned THEN NoFault ELSE Fault(r)
  /\ Reply(r, 500)
  /\ IF at[r] = "finding" /\ Orm
     THEN view' = db /\ flushed' = {} /\ poisoned' = FALSE
     ELSE poisoned' = Orm /\ UNCHANGED <<view, flushed>>
  /\ UNCHANGED <<backend, op, db>>

------------------------------------------------------------------------------
(* Writing *)

Writing == {"registering", "deleting", "erasing", "creating", "subscribing", "removing"}

Others(s, r) == {x \in s.subs : x.chat # op[r].chat \/ x.url # op[r].url}

(* Variant: deleting a chat leaves its subscriptions. *)
WrittenNoCascade(r, s) ==
  CASE at[r] = "registering" -> [s EXCEPT !.chats = @ \cup {op[r].chat}]
    [] at[r] \in {"deleting", "erasing"} -> [s EXCEPT !.chats = @ \ {op[r].chat}]
    [] at[r] = "creating"    -> [s EXCEPT !.links = @ \cup {op[r].url}]
    [] at[r] = "subscribing" ->
         [s EXCEPT !.subs = Others(s, r) \cup
            {[chat |-> op[r].chat, url |-> op[r].url, tags |-> op[r].tags]}]
    [] at[r] = "removing"    -> [s EXCEPT !.subs = Others(s, r)]

(* What the statement of the request's step makes of the tables.           *)
Written(r, s) ==
  CASE at[r] = "registering" -> [s EXCEPT !.chats = @ \cup {op[r].chat}]
    [] at[r] \in {"deleting", "erasing"} ->
         [s EXCEPT !.chats = @ \ {op[r].chat},
                   !.subs = {x \in @ : x.chat # op[r].chat}]
    [] at[r] = "creating"    -> [s EXCEPT !.links = @ \cup {op[r].url}]
    [] at[r] = "subscribing" ->
         [s EXCEPT !.subs = Others(s, r) \cup
            {[chat |-> op[r].chat, url |-> op[r].url, tags |-> op[r].tags]}]
    [] at[r] = "removing"    -> [s EXCEPT !.subs = Others(s, r)]

(* Whether the schema refuses it.  The SQL repositories insert ON CONFLICT  *)
(* DO NOTHING, and DO UPDATE for subscriptions; the ORM ones just insert.   *)
Refused(r, s) ==
  CASE at[r] = "registering" -> Orm /\ op[r].chat \in s.chats
    [] at[r] = "creating"    -> op[r].url \in s.links
    [] at[r] = "subscribing" ->
         \/ op[r].chat \notin s.chats
         \/ op[r].url \notin s.links
         \/ Orm /\ Subscribed(s, r)
    [] OTHER -> FALSE

(* A new link is subscribed to next; any other change is the last. *)
Proceed(r) == IF at[r] = "creating" THEN Goto(r, "subscribing") ELSE Reply(r, 200)

(* Variant: SQL errors are swallowed as the ORM repositories swallow them. *)
ExecuteSwallowed(r) ==
  /\ ~Orm
  /\ at[r] \in Writing
  /\ NoFault
  /\ IF Refused(r, db)
     THEN Reply(r, 200) /\ UNCHANGED <<db, view>>
     ELSE db' = Written(r, db) /\ view' = db' /\ Proceed(r)
  /\ UNCHANGED <<backend, op, flushed, poisoned>>

(* SQL: one statement, or one transaction, committed as a whole. *)
Execute(r) ==
  /\ ~Orm
  /\ at[r] \in Writing
  /\ NoFault
  /\ IF Refused(r, db)
     THEN Reply(r, 500) /\ UNCHANGED <<db, view>>
     ELSE db' = Written(r, db) /\ view' = db' /\ Proceed(r)
  /\ UNCHANGED <<backend, op, flushed, poisoned>>

(* The statement fails, or only its answer is lost. *)
FailExecute(r) ==
  /\ ~Orm
  /\ at[r] \in Writing
  /\ Fault(r)
  /\ \/ UNCHANGED <<db, view>>
     \/ ~Refused(r, db) /\ db' = Written(r, db) /\ view' = db'
  /\ Reply(r, 500)
  /\ UNCHANGED <<backend, op, flushed, poisoned>>

(* The except clause of an ORM repository.  get_or_create raises; the others *)
(* return False, which no handler looks at.                                  *)
RollBack(r) ==
  /\ view' = db'
  /\ flushed' = {}
  /\ poisoned' = FALSE
  /\ Reply(r, IF at[r] \in {"creating", "creation"} THEN 500 ELSE 200)

(* ORM: a chat is read before it is deleted; one that is gone, no further. *)
LookUp(r) ==
  /\ Orm
  /\ at[r] = "deleting"
  /\ ~poisoned
  /\ IF op[r].chat \in view.chats THEN Goto(r, "erasing") ELSE Reply(r, 200)
  /\ NoFault
  /\ UNCHANGED <<backend, op, tables>>

(* ORM: the change joins the session's transaction.  Erasing a chat that   *)
(* has gone since it was read deletes nothing, or is an error.             *)
FlushChange(r) ==
  /\ Orm
  /\ at[r] \in Writing \ {"deleting"}
  /\ NoFault
  /\ ~poisoned
  /\ UNCHANGED <<backend, op, db>>
  /\ \/ /\ Refused(r, view) \/ (at[r] = "erasing" /\ op[r].chat \notin view.chats)
        /\ RollBack(r)
     \/ /\ ~Refused(r, view)
        /\ view' = Written(r, view)
        /\ flushed' = flushed \cup {r}
        /\ Goto(r, IF at[r] = "creating" THEN "creation" ELSE "committing")
        /\ UNCHANGED poisoned

Committing == {"creation", "committing"}

(* It commits everything flushed.  If another request's rollback came first *)
(* there is nothing left to commit.                                        *)
Commit(r) ==
  /\ Orm
  /\ at[r] \in Committing
  /\ ~poisoned
  /\ db' = view
  /\ flushed' = {}
  /\ IF at[r] = "creation" THEN Goto(r, "subscribing") ELSE Reply(r, 200)
  /\ NoFault
  /\ UNCHANGED <<backend, op, view, poisoned>>

(* An ORM write fails: the session is rolled back, or that fails in turn.  *)
(* A commit may have taken place all the same.  Two calls at a time are    *)
(* more than a session takes: the second one fails in one of these ways.   *)
FailChange(r) ==
  /\ Orm
  /\ at[r] \in Writing \cup Committing
  /\ IF poisoned THEN NoFault ELSE Fault(r)
  /\ \/ UNCHANGED db
     \/ at[r] \in Committing /\ ~poisoned /\ db' = view
  /\ \/ RollBack(r)
     \/ poisoned' = TRUE /\ Reply(r, 500) /\ UNCHANGED <<view, flushed>>
  /\ UNCHANGED <<backend, op>>

(* The process ends: what was not committed is gone, nobody is answered.   *)
Crash ==
  /\ faults < MaxFaults
  /\ faults' = faults + 1
  /\ at' = [r \in Requests |-> IF at[r] = "none" THEN "none" ELSE "done"]
  /\ view' = db
  /\ flushed' = {}
  /\ poisoned' = FALSE
  /\ UNCHANGED <<backend, db, op, answer, struck>>

------------------------------------------------------------------------------

Handle(r) ==
  Receive(r) \/ Read(r) \/ FailRead(r) \/ Execute(r) \/ FailExecute(r)
    \/ LookUp(r) \/ FlushChange(r) \/ Commit(r) \/ FailChange(r)

Next == Crash \/ \E r \in Requests : Handle(r)

Spec == Init /\ [][Next]_vars

------------------------------------------------------------------------------
(* Properties *)

Labels == {"none", "checking", "listing", "finding", "done"} \cup Writing \cup Committing

(* Every variable keeps its type; only urls that were validated are stored. *)
TypeOK ==
  /\ backend \in Backends
  /\ db \in Databases
  /\ db.links \subseteq Supported
  /\ view \in Databases
  /\ flushed \subseteq Requests
  /\ poisoned \in BOOLEAN
  /\ op \in [Requests -> Operations]
  /\ at \in [Requests -> Labels]
  /\ answer \in [Requests -> {0, 200, 400, 404, 409, 500}]
  /\ struck \subseteq Requests
  /\ faults \in 0..MaxFaults

(* Though handlers check first and write later, and a chat may be deleted   *)
(* in between, neither the tables nor the session ever hold a subscription  *)
(* of a chat that is gone, or two of one chat to one link.                  *)
NoOrphans == Consistent(db) /\ Consistent(view)

Begun == {r \in Requests : at[r] # "none"}

Alone(r) == \A q \in Begun \ {r} : op[q].chat # op[r].chat

(* What a status tells the chat it answers. *)
AnswerTrue(r) ==
  /\ op[r].kind = "register" /\ answer[r] \in {200, 409} => op[r].chat \in db.chats
  /\ op[r].kind = "delete" /\ answer[r] \in {200, 404} => op[r].chat \notin db.chats
  /\ op[r].kind = "add" /\ answer[r] = 404 => op[r].chat \notin db.chats
  /\ op[r].kind = "add" /\ answer[r] = 200 =>
       [chat |-> op[r].chat, url |-> op[r].url, tags |-> op[r].tags] \in db.subs
  /\ op[r].kind = "remove" /\ answer[r] \in {200, 404} => ~Subscribed(db, r)

(* The bot tells its user what a status says (handlers/track.py, "added,    *)
(* with tags").  A chat with one request at a time can rely on it, whatever *)
(* the requests of other chats do.                                          *)
AnswersTrue == \A r \in Requests : Alone(r) => AnswerTrue(r)

(* With the SQL repositories it does, through failing calls and crashes.   *)
SqlAnswersTrue == ~Orm => AnswersTrue

(* With them a request is answered 500 only if one of its own database     *)
(* calls failed, or another request meddled with its chat or its link.     *)
SqlErrorsOwn ==
  ~Orm =>
    \A r \in Requests :
      answer[r] = 500 =>
        \/ r \in struck
        \/ \E q \in Begun \ {r} : op[q].chat = op[r].chat \/ op[q].url = op[r].url

==============================================================================
