----------------------------- MODULE Store_proofs -----------------------------
(***************************************************************************)
(* Theorems about Store for any chats, urls, tags, requests and faults.     *)
(***************************************************************************)
EXTENDS Store, TLAPS

Answers == {0, 200, 400, 404, 409, 500}

Shapes == {"creating", "creation", "subscribing", "finding"}

(* What brought a handler to where it is. *)
StepsOfKind ==
  \A r \in Requests :
    /\ at[r] = "registering" => op[r].kind = "register"
    /\ at[r] \in {"deleting", "erasing"} => op[r].kind = "delete"
    /\ at[r] = "listing" => op[r].kind \in {"list", "remove"}
    /\ at[r] = "removing" => op[r].kind = "remove"
    /\ at[r] \in Shapes => op[r].kind = "add" /\ op[r].url \in Supported

SessionSupported == view.links \subseteq Supported

IInv == TypeOK /\ NoOrphans /\ StepsOfKind /\ SessionSupported

(* The kinds of a row that the schema allows. *)
Good(s) == s \in Databases /\ s.links \subseteq Supported /\ Consistent(s)

------------------------------------------------------------------------------
(* Statements *)

LEMMA OpType ==
  ASSUME TypeOK, NEW r \in Requests
  PROVE  op[r].chat \in Chats /\ op[r].url \in Urls /\ op[r].tags \in Tags
BY DEF TypeOK, Operations

LEMMA Labelled == Writing \subseteq Labels /\ Committing \subseteq Labels
BY DEF Labels

(* A statement that the schema does not refuse leaves what it enforces. *)
LEMMA WrittenGood ==
  ASSUME TypeOK, StepsOfKind, NEW r \in Requests, at[r] \in Writing,
         NEW s, Good(s), ~Refused(r, s)
  PROVE  Good(Written(r, s))
<1> DEFINE new == [chat |-> op[r].chat, url |-> op[r].url, tags |-> op[r].tags]
<1>1. /\ op[r].chat \in Chats /\ op[r].url \in Urls
      /\ new \in Subscriptions
      /\ new.chat = op[r].chat /\ new.url = op[r].url
  BY OpType DEF Subscriptions
<1>2. /\ s.chats \subseteq Chats /\ s.links \subseteq Urls /\ s.subs \subseteq Subscriptions
      /\ s.links \subseteq Supported
      /\ s = [chats |-> s.chats, links |-> s.links, subs |-> s.subs]
  BY DEF Good, Databases
<1>3. /\ \A x \in s.subs : x.chat \in s.chats /\ x.url \in s.links
      /\ \A x, y \in s.subs : x.chat = y.chat /\ x.url = y.url => x = y
  BY DEF Good, Consistent
<1>4. CASE at[r] = "registering"
  <2>1. Written(r, s) = [chats |-> s.chats \cup {op[r].chat}, links |-> s.links,
                         subs |-> s.subs]
    BY <1>2, <1>4 DEF Written
  <2> QED
    BY <2>1, <1>1, <1>2, <1>3 DEF Good, Databases, Consistent
<1>5. CASE at[r] \in {"deleting", "erasing"}
  <2>1. Written(r, s) = [chats |-> s.chats \ {op[r].chat}, links |-> s.links,
                         subs |-> {x \in s.subs : x.chat # op[r].chat}]
    BY <1>2, <1>5 DEF Written
  <2> QED
    BY <2>1, <1>2, <1>3 DEF Good, Databases, Consistent
<1>6. CASE at[r] = "creating"
  <2>1. Written(r, s) = [chats |-> s.chats, links |-> s.links \cup {op[r].url},
                         subs |-> s.subs]
    BY <1>2, <1>6 DEF Written
  <2>2. op[r].url \in Supported
    BY <1>6 DEF StepsOfKind, Shapes
  <2> QED
    BY <2>1, <2>2, <1>1, <1>2, <1>3 DEF Good, Databases, Consistent
<1>7. CASE at[r] = "subscribing"
  <2>1. Written(r, s) = [chats |-> s.chats, links |-> s.links,
                         subs |-> Others(s, r) \cup {new}]
    BY <1>2, <1>7 DEF Written
  <2>2. op[r].chat \in s.chats /\ op[r].url \in s.links
    BY <1>7 DEF Refused
  <2> HIDE DEF new
  <2> QED
    BY <2>1, <2>2, <1>1, <1>2, <1>3 DEF Others, Good, Databases, Consistent
<1>8. CASE at[r] = "removing"
  <2>1. Written(r, s) = [chats |-> s.chats, links |-> s.links, subs |-> Others(s, r)]
    BY <1>2, <1>8 DEF Written
  <2> QED
    BY <2>1, <1>2, <1>3 DEF Others, Good, Databases, Consistent
<1> QED
  BY <1>4, <1>5, <1>6, <1>7, <1>8 DEF Writing

------------------------------------------------------------------------------
(* The tables *)

LEMMA TablesGood == IInv <=> TypeOK /\ StepsOfKind /\ Good(db) /\ Good(view)
BY DEF IInv, TypeOK, NoOrphans, SessionSupported, Good

LEMMA InitInvariant == Init => IInv
<1> SUFFICES ASSUME Init PROVE IInv
  OBVIOUS
<1>1. Good(db) /\ Good(view)
  BY DEF Init, Good
<1>2. TypeOK
  <2>1. 0 \in 0..MaxFaults
    BY StoreAssumption
  <2>2. /\ at \in [Requests -> Labels]
        /\ answer \in [Requests -> {0, 200, 400, 404, 409, 500}]
    BY DEF Init, Labels
  <2> QED
    BY <1>1, <2>1, <2>2 DEF Init, TypeOK, Good
<1>3. StepsOfKind
  BY DEF Init, StepsOfKind, Shapes
<1> QED
  BY <1>1, <1>2, <1>3, TablesGood

(* Every step leaves the tables as the schema wants them, committed or not. *)
LEMMA TablesKept == ASSUME IInv, [Next]_vars PROVE Good(db)' /\ Good(view)'
<1>0. TypeOK /\ StepsOfKind /\ Good(db) /\ Good(view)
  BY TablesGood
<1>1. CASE UNCHANGED <<db, view>>
  BY <1>0, <1>1 DEF Good, Consistent
<1>2. CASE db' = db /\ view' = db
  BY <1>0, <1>2 DEF Good, Consistent
<1>3. CASE db' = view /\ view' = view
  BY <1>0, <1>3 DEF Good, Consistent
<1>4. ASSUME NEW r \in Requests, at[r] \in Writing, ~Refused(r, db),
             db' = Written(r, db), view' = db'
      PROVE  Good(db)' /\ Good(view)'
  <2>1. Good(Written(r, db))
    BY <1>0, <1>4, WrittenGood
  <2> QED
    BY <1>4, <2>1 DEF Good, Consistent
<1>5. ASSUME NEW r \in Requests, at[r] \in Writing, ~Refused(r, view),
             view' = Written(r, view), db' = db
      PROVE  Good(db)' /\ Good(view)'
  <2>1. Good(Written(r, view))
    BY <1>0, <1>5, WrittenGood
  <2> QED
    BY <1>0, <1>5, <2>1 DEF Good, Consistent
<1>6. CASE Crash
  BY <1>2, <1>6 DEF Crash
<1>7. ASSUME NEW r \in Requests, Handle(r) PROVE Good(db)' /\ Good(view)'
  <2>1. CASE Receive(r) \/ Read(r)
    BY <1>1, <2>1 DEF Receive, Read, tables, session
  <2>2. CASE FailRead(r)
    BY <1>1, <1>2, <2>2 DEF FailRead
  <2>3. CASE Execute(r)
    BY <1>1, <1>4, <2>3 DEF Execute
  <2>4. CASE FailExecute(r)
    BY <1>1, <1>4, <2>4 DEF FailExecute
  <2>5. CASE FlushChange(r)
    BY <1>1, <1>2, <1>5, <2>5 DEF FlushChange, RollBack
  <2>6. CASE Commit(r)
    BY <1>3, <2>6 DEF Commit
  <2>7. CASE FailChange(r)
    BY <1>1, <1>2, <1>3, <2>7 DEF FailChange, RollBack
  <2>8. CASE LookUp(r)
    BY <1>1, <2>8 DEF LookUp, tables, session
  <2> QED
    BY <1>7, <2>1, <2>2, <2>3, <2>4, <2>5, <2>6, <2>7, <2>8 DEF Handle
<1> QED
  BY <1>1, <1>6, <1>7 DEF Next, vars, tables, session

------------------------------------------------------------------------------
(* The other variables *)

LEMMA GotoType ==
  ASSUME TypeOK, NEW r \in Requests, NEW label \in Labels, Goto(r, label)
  PROVE  at' \in [Requests -> Labels] /\ answer' \in [Requests -> Answers]
BY DEF TypeOK, Goto, Answers

LEMMA ReplyType ==
  ASSUME TypeOK, NEW r \in Requests, NEW status \in Answers, Reply(r, status)
  PROVE  at' \in [Requests -> Labels] /\ answer' \in [Requests -> Answers]
BY DEF TypeOK, Reply, Answers, Labels

LEMMA FaultType ==
  ASSUME TypeOK, NEW r \in Requests, NoFault \/ Fault(r)
  PROVE  struck' \subseteq Requests /\ faults' \in 0..MaxFaults
<1>1. faults < MaxFaults => faults + 1 \in 0..MaxFaults
  BY StoreAssumption DEF TypeOK
<1> QED
  BY <1>1 DEF TypeOK, NoFault, Fault

(* A handler goes on to a step of its kind, or ends. *)
Onward(r) ==
  \/ \E label \in Labels :
       /\ Goto(r, label)
       /\ label # "none"
       /\ label = "registering" => op[r].kind = "register"
       /\ label \in {"deleting", "erasing"} => op[r].kind = "delete"
       /\ label = "listing" => op[r].kind \in {"list", "remove"}
       /\ label = "removing" => op[r].kind = "remove"
       /\ label \in Shapes => op[r].kind = "add" /\ op[r].url \in Supported
  \/ \E status \in Answers : Reply(r, status)

LEMMA HandleOnward ==
  ASSUME IInv, NEW r \in Requests, Handle(r)
  PROVE  /\ Onward(r)
         /\ NoFault \/ Fault(r)
         /\ UNCHANGED <<backend, op>>
         /\ flushed' \subseteq Requests
         /\ poisoned' \in BOOLEAN
<1>0. TypeOK /\ StepsOfKind /\ op[r] \in Operations
  BY DEF IInv, TypeOK
<1>t. flushed \subseteq Requests /\ poisoned \in BOOLEAN /\ Orm \in BOOLEAN
  BY <1>0 DEF TypeOK, Orm
<1>1. CASE Receive(r)
  BY <1>1, <1>t DEF Receive, Onward, Labels, Shapes, tables, session
<1>2. CASE Read(r)
  <2>1. CASE CheckChat(r)
    <3>1. op[r].kind \in {"register", "delete", "list", "add", "remove"}
      BY <1>0 DEF Operations
    <3>2. {400, 404, 409} \subseteq Answers
      BY DEF Answers
    <3>3. {"registering", "deleting", "listing", "finding"} \subseteq Labels
      BY DEF Labels, Writing
    <3>4. \/ Reply(r, 400) \/ Reply(r, 404) \/ Reply(r, 409)
          \/ Goto(r, "registering") /\ op[r].kind = "register"
          \/ Goto(r, "deleting") /\ op[r].kind = "delete"
          \/ Goto(r, "listing") /\ op[r].kind \in {"list", "remove"}
          \/ Goto(r, "finding") /\ op[r].kind = "add" /\ op[r].url \in Supported
      BY <2>1, <3>1 DEF CheckChat
    <3>5. Onward(r)
      BY <3>2, <3>3, <3>4 DEF Onward, Shapes
    <3> QED
      BY <1>2, <1>t, <3>5 DEF Read, tables, session
  <2>2. CASE ListLinks(r)
    <3>1. op[r].kind \in {"list", "remove"}
      BY <2>2, <1>0 DEF ListLinks, StepsOfKind
    <3>2. {200, 404} \subseteq Answers /\ "removing" \in Labels
      BY DEF Answers, Labels, Writing
    <3>3. \/ Reply(r, 200) \/ Reply(r, 404)
          \/ Goto(r, "removing") /\ op[r].kind = "remove"
      BY <2>2, <3>1 DEF ListLinks
    <3>4. Onward(r)
      BY <3>2, <3>3 DEF Onward, Shapes
    <3> QED
      BY <1>2, <1>t, <3>4 DEF Read, tables, session
  <2>3. CASE FindLink(r)
    <3>1. op[r].kind = "add" /\ op[r].url \in Supported
      BY <2>3, <1>0 DEF FindLink, StepsOfKind, Shapes
    <3>2. {"subscribing", "creating"} \subseteq Labels
      BY DEF Labels, Writing
    <3>3. Goto(r, "subscribing") \/ Goto(r, "creating")
      BY <2>3 DEF FindLink
    <3>4. Onward(r)
      BY <3>1, <3>2, <3>3 DEF Onward
    <3> QED
      BY <1>2, <1>t, <3>4 DEF Read, tables, session
  <2> QED
    BY <1>2, <2>1, <2>2, <2>3 DEF Read, Reads
<1>3. CASE FailRead(r)
  BY <1>3, <1>t DEF FailRead, Onward, Answers
<1>p. ASSUME Proceed(r) PROVE Onward(r)
  <2>1. CASE at[r] = "creating"
    <3>1. op[r].kind = "add" /\ op[r].url \in Supported
      BY <2>1, <1>0 DEF StepsOfKind, Shapes
    <3>2. "subscribing" \in Labels
      BY DEF Labels, Writing
    <3> QED
      BY <1>p, <2>1, <3>1, <3>2 DEF Proceed, Onward
  <2>2. CASE at[r] # "creating"
    BY <1>p, <2>2 DEF Proceed, Onward, Answers
  <2> QED
    BY <2>1, <2>2
<1>4. CASE Execute(r)
  <2>1. Reply(r, 500) \/ Proceed(r)
    BY <1>4 DEF Execute
  <2>2. Onward(r)
    BY <2>1, <1>p DEF Onward, Answers
  <2> QED
    BY <1>4, <1>t, <2>2 DEF Execute
<1>5. CASE FailExecute(r)
  BY <1>5, <1>t DEF FailExecute, Onward, Answers
<1>b. ASSUME RollBack(r) PROVE Onward(r) /\ flushed' = {} /\ poisoned' = FALSE
  BY <1>b DEF RollBack, Onward, Answers
<1>6. CASE FlushChange(r)
  <2>1. CASE RollBack(r)
    BY <1>6, <2>1, <1>b DEF FlushChange
  <2>2. CASE /\ flushed' = flushed \cup {r}
             /\ Goto(r, IF at[r] = "creating" THEN "creation" ELSE "committing")
             /\ UNCHANGED poisoned
    <3>1. at[r] = "creating" => op[r].kind = "add" /\ op[r].url \in Supported
      BY <1>0 DEF StepsOfKind, Shapes
    <3>2. {"creation", "committing"} \subseteq Labels
      BY DEF Labels, Committing
    <3>3. Onward(r)
      BY <2>2, <3>1, <3>2 DEF Onward, Shapes
    <3> QED
      BY <1>6, <2>2, <1>t, <3>3 DEF FlushChange
  <2> QED
    BY <1>6, <2>1, <2>2 DEF FlushChange
<1>7. CASE Commit(r)
  <2>1. at[r] = "creation" => op[r].kind = "add" /\ op[r].url \in Supported
    BY <1>0 DEF StepsOfKind, Shapes
  <2>2. "subscribing" \in Labels
    BY DEF Labels, Writing
  <2>3. \/ at[r] = "creation" /\ Goto(r, "subscribing")
        \/ Reply(r, 200)
    BY <1>7 DEF Commit
  <2>4. Onward(r)
    BY <2>1, <2>2, <2>3 DEF Onward, Answers
  <2> QED
    BY <1>7, <1>t, <2>4 DEF Commit
<1>8. CASE FailChange(r)
  <2>1. CASE RollBack(r)
    BY <1>8, <1>b, <2>1 DEF FailChange
  <2>2. CASE poisoned' = TRUE /\ Reply(r, 500) /\ UNCHANGED <<view, flushed>>
    <3>1. Onward(r)
      BY <2>2 DEF Onward, Answers
    <3> QED
      BY <1>8, <1>t, <2>2, <3>1 DEF FailChange
  <2> QED
    BY <1>8, <2>1, <2>2 DEF FailChange
<1>9. CASE LookUp(r)
  <2>1. op[r].kind = "delete"
    BY <1>9, <1>0 DEF LookUp, StepsOfKind
  <2>2. "erasing" \in Labels
    BY DEF Labels, Writing
  <2>3. Goto(r, "erasing") \/ Reply(r, 200)
    BY <1>9 DEF LookUp
  <2>4. Onward(r)
    BY <2>1, <2>2, <2>3 DEF Onward, Answers, Shapes
  <2> QED
    BY <1>9, <1>t, <2>4 DEF LookUp, tables, session
<1> QED
  BY <1>1, <1>2, <1>3, <1>4, <1>5, <1>6, <1>7, <1>8, <1>9 DEF Handle

LEMMA StepInvariant == ASSUME IInv, [Next]_vars PROVE IInv'
<1>0. TypeOK /\ StepsOfKind
  BY DEF IInv
<1>1. /\ db' \in Databases /\ db'.links \subseteq Supported /\ view' \in Databases
      /\ NoOrphans' /\ SessionSupported'
  BY TablesKept DEF Good, NoOrphans, SessionSupported
<1>2. CASE UNCHANGED vars
  BY <1>0, <1>1, <1>2 DEF vars, tables, session, IInv, TypeOK, StepsOfKind
<1>3. CASE Crash
  <2>1. /\ UNCHANGED <<backend, op, answer, struck>> /\ flushed' = {} /\ poisoned' = FALSE
        /\ faults' = faults + 1 /\ faults < MaxFaults
        /\ at' = [r \in Requests |-> IF at[r] = "none" THEN "none" ELSE "done"]
    BY <1>3 DEF Crash
  <2>2. faults' \in 0..MaxFaults
    BY <1>0, <2>1, StoreAssumption DEF TypeOK
  <2>3. TypeOK'
    BY <1>0, <1>1, <2>1, <2>2 DEF TypeOK, Labels
  <2>4. StepsOfKind'
    BY <2>1 DEF StepsOfKind, Shapes
  <2> QED
    BY <1>1, <2>3, <2>4 DEF IInv
<1>4. ASSUME NEW r \in Requests, Handle(r) PROVE IInv'
  <2>1. /\ Onward(r)
        /\ NoFault \/ Fault(r)
        /\ UNCHANGED <<backend, op>> /\ flushed' \subseteq Requests /\ poisoned' \in BOOLEAN
    BY <1>4, HandleOnward
  <2>2. at' \in [Requests -> Labels] /\ answer' \in [Requests -> Answers]
    <3>1. CASE \E status \in Answers : Reply(r, status)
      BY <1>0, <3>1, ReplyType
    <3>2. CASE \E label \in Labels : Goto(r, label)
      BY <1>0, <3>2, GotoType
    <3> QED
      BY <2>1, <3>1, <3>2 DEF Onward
  <2>3. struck' \subseteq Requests /\ faults' \in 0..MaxFaults
    BY <1>0, <2>1, FaultType
  <2>4. TypeOK'
    BY <1>0, <1>1, <2>1, <2>2, <2>3 DEF TypeOK, Answers
  <2>5. StepsOfKind'
    <3>1. CASE \E status \in Answers : Reply(r, status)
      BY <1>0, <2>1, <3>1 DEF Reply, TypeOK, StepsOfKind, Shapes
    <3>2. ASSUME NEW label \in Labels, Goto(r, label),
                 label = "registering" => op[r].kind = "register",
                 label \in {"deleting", "erasing"} => op[r].kind = "delete",
                 label = "listing" => op[r].kind \in {"list", "remove"},
                 label = "removing" => op[r].kind = "remove",
                 label \in Shapes => op[r].kind = "add" /\ op[r].url \in Supported
          PROVE  StepsOfKind'
      <4>1. at'[r] = label /\ op' = op
        BY <1>0, <2>1, <3>2 DEF Goto, TypeOK
      <4>2. \A q \in Requests \ {r} : at'[q] = at[q]
        BY <1>0, <3>2 DEF Goto, TypeOK
      <4> SUFFICES ASSUME NEW q \in Requests
                   PROVE  /\ at'[q] = "registering" => op[q].kind = "register"
                          /\ at'[q] \in {"deleting", "erasing"} => op[q].kind = "delete"
                          /\ at'[q] = "listing" => op[q].kind \in {"list", "remove"}
                          /\ at'[q] = "removing" => op[q].kind = "remove"
                          /\ at'[q] \in Shapes => op[q].kind = "add" /\ op[q].url \in Supported
        BY <4>1 DEF StepsOfKind
      <4>3. CASE q = r
        BY <3>2, <4>1, <4>3
      <4>4. CASE q # r
        BY <1>0, <4>2, <4>4 DEF StepsOfKind
      <4> QED
        BY <4>3, <4>4
    <3> QED
      BY <2>1, <3>1, <3>2 DEF Onward
  <2> QED
    BY <1>1, <2>4, <2>5 DEF IInv
<1> QED
  BY <1>2, <1>3, <1>4 DEF Next

THEOREM Invariance == Spec => []IInv
<1>1. IInv /\ [Next]_vars => IInv'
  BY StepInvariant
<1> QED
  BY InitInvariant, <1>1, PTL DEF Spec

(* Every variable keeps its type, and only validated urls are ever stored. *)
THEOREM TypeCorrect == Spec => []TypeOK
<1>1. IInv => TypeOK
  BY DEF IInv
<1> QED
  BY Invariance, <1>1, PTL

(* However requests interleave and fail, tables and session stay as the     *)
(* schema wants them.                                                      *)
THEOREM TablesConsistent == Spec => []NoOrphans
<1>1. IInv => NoOrphans
  BY DEF IInv
<1> QED
  BY Invariance, <1>1, PTL

------------------------------------------------------------------------------
(* Answers, with the SQL repositories *)

(* Statements are committed at once, and only a handler's end is an answer. *)
AnswerInv ==
  /\ IInv
  /\ ~Orm => view = db
  /\ \A r \in Requests : at[r] # "done" => answer[r] = 0
  /\ SqlAnswersTrue

(* A step that neither answers a request nor touches its chat's rows. *)
LeavesAlone(r) ==
  /\ op' = op
  /\ answer'[r] = answer[r]
  /\ op[r].chat \in db'.chats <=> op[r].chat \in db.chats
  /\ \A x : x.chat = op[r].chat => (x \in db'.subs <=> x \in db.subs)

LEMMA StillTrue ==
  ASSUME NEW r \in Requests, LeavesAlone(r), AnswerTrue(r)
  PROVE  AnswerTrue(r)'
<1> DEFINE new == [chat |-> op[r].chat, url |-> op[r].url, tags |-> op[r].tags]
<1>1. new.chat = op[r].chat
  OBVIOUS
<1>2. new \in db'.subs <=> new \in db.subs
  BY <1>1 DEF LeavesAlone
<1>3. Subscribed(db, r)' <=> Subscribed(db, r)
  BY DEF LeavesAlone, Subscribed
<1> QED
  BY <1>2, <1>3 DEF LeavesAlone, AnswerTrue

(* What a handler's statement leaves of another chat's rows: all. *)
LEMMA WrittenApart ==
  ASSUME IInv, NEW q \in Requests, NEW r \in Requests, op[q].chat # op[r].chat,
         at[q] \in Writing
  PROVE  /\ op[r].chat \in Written(q, db).chats <=> op[r].chat \in db.chats
         /\ \A x : x.chat = op[r].chat => (x \in Written(q, db).subs <=> x \in db.subs)
<1>1. db = [chats |-> db.chats, links |-> db.links, subs |-> db.subs]
  BY DEF IInv, TypeOK, Databases
<1> DEFINE new == [chat |-> op[q].chat, url |-> op[q].url, tags |-> op[q].tags]
<1>2. new.chat = op[q].chat
  OBVIOUS
<1>3. CASE at[q] = "registering"
  <2>1. Written(q, db) = [chats |-> db.chats \cup {op[q].chat}, links |-> db.links,
                          subs |-> db.subs]
    BY <1>1, <1>3 DEF Written
  <2> QED
    BY <2>1
<1>4. CASE at[q] \in {"deleting", "erasing"}
  <2>1. Written(q, db) = [chats |-> db.chats \ {op[q].chat}, links |-> db.links,
                          subs |-> {x \in db.subs : x.chat # op[q].chat}]
    BY <1>1, <1>4 DEF Written
  <2> QED
    BY <2>1
<1>5. CASE at[q] = "creating"
  <2>1. Written(q, db) = [chats |-> db.chats, links |-> db.links \cup {op[q].url},
                          subs |-> db.subs]
    BY <1>1, <1>5 DEF Written
  <2> QED
    BY <2>1
<1>6. CASE at[q] = "subscribing"
  <2>1. Written(q, db) = [chats |-> db.chats, links |-> db.links,
                          subs |-> Others(db, q) \cup {new}]
    BY <1>1, <1>6 DEF Written
  <2> HIDE DEF new
  <2> QED
    BY <2>1, <1>2 DEF Others
<1>7. CASE at[q] = "removing"
  <2>1. Written(q, db) = [chats |-> db.chats, links |-> db.links, subs |-> Others(db, q)]
    BY <1>1, <1>7 DEF Written
  <2> QED
    BY <2>1 DEF Others
<1> QED
  BY <1>3, <1>4, <1>5, <1>6, <1>7 DEF Writing

(* A statement that is not refused makes the 200 that follows it true. *)
LEMMA WrittenTrue ==
  ASSUME IInv, NEW r \in Requests, at[r] \in Writing \ {"creating"}, op' = op,
         db' = Written(r, db), answer'[r] = 200
  PROVE  AnswerTrue(r)'
<1>1. db = [chats |-> db.chats, links |-> db.links, subs |-> db.subs]
  BY DEF IInv, TypeOK, Databases
<1> DEFINE new == [chat |-> op[r].chat, url |-> op[r].url, tags |-> op[r].tags]
<1>3. CASE at[r] = "registering"
  <2>1. op[r].kind = "register" /\ op[r].chat \in db'.chats
    BY <1>1, <1>3 DEF Written, IInv, StepsOfKind
  <2> QED
    BY <2>1 DEF AnswerTrue
<1>4. CASE at[r] \in {"deleting", "erasing"}
  <2>1. op[r].kind = "delete" /\ op[r].chat \notin db'.chats
    BY <1>1, <1>4 DEF Written, IInv, StepsOfKind
  <2> QED
    BY <2>1 DEF AnswerTrue
<1>6. CASE at[r] = "subscribing"
  <2>1. op[r].kind = "add" /\ new \in db'.subs
    BY <1>1, <1>6 DEF Written, IInv, StepsOfKind, Shapes
  <2> QED
    BY <2>1 DEF AnswerTrue
<1>7. CASE at[r] = "removing"
  <2>1. op[r].kind = "remove" /\ db'.subs = Others(db, r)
    BY <1>1, <1>7 DEF Written, IInv, StepsOfKind
  <2>2. ~Subscribed(db, r)'
    BY <2>1 DEF Subscribed, Others
  <2> QED
    BY <2>1, <2>2 DEF AnswerTrue
<1> QED
  BY <1>3, <1>4, <1>6, <1>7 DEF Writing

(* An answer that a read leads to is true, since it read what is committed. *)
LEMMA ReadTrue ==
  ASSUME AnswerInv, ~Orm, NEW r \in Requests, Read(r)
  PROVE  AnswerTrue(r)'
<1>1. /\ op' = op /\ db' = db /\ view = db /\ TypeOK /\ StepsOfKind /\ Consistent(db)
      /\ answer[r] \in {0} \/ at[r] = "done"
  BY DEF Read, tables, AnswerInv, IInv, NoOrphans
<1>2. op[r].kind \in {"register", "delete", "list", "add", "remove"}
  BY <1>1 DEF TypeOK, Operations
<1>3. answer \in [Requests -> {0, 200, 400, 404, 409, 500}]
  BY <1>1 DEF TypeOK
<1>4. op[r].chat \notin db.chats => ~Subscribed(db, r)
  BY <1>1 DEF Consistent, Subscribed
<1>5. Subscribed(db, r)' <=> Subscribed(db, r)
  BY <1>1 DEF Subscribed
<1>6. CASE answer'[r] \in {0, 400}
  BY <1>6 DEF AnswerTrue
<1>7. CASE CheckChat(r)
  <2>0. answer[r] = 0
    BY <1>1, <1>7 DEF CheckChat
  <2>1. \/ answer'[r] = 409 /\ op[r].kind = "register" /\ op[r].chat \in db.chats
        \/ answer'[r] = 404 /\ op[r].kind # "register" /\ op[r].chat \notin db.chats
        \/ answer'[r] \in {0, 400}
    <3>1. \/ Reply(r, 409) /\ op[r].kind = "register" /\ op[r].chat \in db.chats
          \/ Reply(r, 404) /\ op[r].kind # "register" /\ op[r].chat \notin db.chats
          \/ Reply(r, 400)
          \/ \E label \in Labels : Goto(r, label)
      <4>1. {"registering", "deleting", "listing", "finding"} \subseteq Labels
        BY DEF Labels, Writing
      <4>2. \/ Reply(r, 409) /\ op[r].kind = "register" /\ op[r].chat \in db.chats
            \/ Reply(r, 404) /\ op[r].kind # "register" /\ op[r].chat \notin db.chats
            \/ Reply(r, 400)
            \/ Goto(r, "registering") \/ Goto(r, "deleting") \/ Goto(r, "listing")
            \/ Goto(r, "finding")
        <5>1. CASE op[r].kind = "register"
          BY <1>1, <1>7, <5>1 DEF CheckChat
        <5>2. CASE op[r].kind # "register" /\ op[r].chat \notin db.chats
          BY <1>1, <1>7, <5>2 DEF CheckChat
        <5>3. CASE op[r].kind # "register" /\ op[r].chat \in db.chats
          BY <1>1, <1>2, <1>7, <5>3 DEF CheckChat
        <5> QED
          BY <5>1, <5>2, <5>3
      <4> QED
        BY <4>1, <4>2
    <3> QED
      BY <1>3, <2>0, <3>1 DEF Reply, Goto
  <2> QED
    BY <1>1, <1>4, <1>5, <1>6, <2>1 DEF AnswerTrue
<1>8. CASE ListLinks(r)
  <2>1. op[r].kind \in {"list", "remove"}
    BY <1>1, <1>8 DEF ListLinks, StepsOfKind
  <2>2. \/ answer'[r] = 200 /\ op[r].kind = "list"
        \/ answer'[r] = 404 /\ op[r].kind = "remove" /\ ~Subscribed(db, r)
        \/ answer'[r] = 0
    <3>1. \/ Reply(r, 200) /\ op[r].kind = "list"
          \/ Reply(r, 404) /\ op[r].kind = "remove" /\ ~Subscribed(db, r)
          \/ Goto(r, "removing")
      BY <1>1, <1>8, <2>1 DEF ListLinks
    <3>2. answer[r] = 0
      BY <1>1, <1>8 DEF ListLinks
    <3> QED
      BY <1>3, <3>1, <3>2 DEF Reply, Goto
  <2> QED
    BY <1>1, <1>5, <1>6, <2>2 DEF AnswerTrue
<1>9. CASE FindLink(r)
  <2>1. answer'[r] = 0
    BY <1>1, <1>9 DEF FindLink, Goto
  <2> QED
    BY <1>6, <2>1
<1> QED
  BY <1>7, <1>8, <1>9 DEF Read, Reads

(* A handler's step answers its own request truly. *)
LEMMA OwnTrue ==
  ASSUME AnswerInv, ~Orm, NEW r \in Requests, Handle(r)
  PROVE  AnswerTrue(r)'
<1>1. /\ answer \in [Requests -> {0, 200, 400, 404, 409, 500}] /\ IInv
      /\ at[r] # "done" => answer[r] = 0
  BY DEF AnswerInv, IInv, TypeOK
<1>2. CASE answer'[r] \in {0, 500}
  BY <1>2 DEF AnswerTrue
<1>3. CASE Receive(r)
  BY <1>1, <1>2, <1>3 DEF Receive, Goto
<1>4. CASE Read(r)
  BY <1>4, ReadTrue
<1>5. CASE FailRead(r)
  BY <1>1, <1>2, <1>5 DEF FailRead, Reply
<1>6. CASE Execute(r)
  <2>1. at[r] \in Writing /\ op' = op /\ answer[r] = 0
    BY <1>1, <1>6 DEF Execute, Writing
  <2>2. CASE Reply(r, 500)
    BY <1>1, <1>2, <2>2 DEF Reply
  <2>3. CASE db' = Written(r, db) /\ Proceed(r) /\ at[r] = "creating"
    BY <1>2, <2>1, <2>3 DEF Proceed, Goto
  <2>4. CASE db' = Written(r, db) /\ Proceed(r) /\ at[r] # "creating"
    <3>1. answer'[r] = 200
      BY <1>1, <2>4 DEF Proceed, Reply
    <3> QED
      BY <1>1, <2>1, <2>4, <3>1, WrittenTrue
  <2> QED
    BY <1>6, <2>2, <2>3, <2>4 DEF Execute
<1>7. CASE FailExecute(r)
  BY <1>1, <1>2, <1>7 DEF FailExecute, Reply
<1>8. CASE LookUp(r) \/ FlushChange(r) \/ Commit(r) \/ FailChange(r)
  BY <1>8 DEF LookUp, FlushChange, Commit, FailChange
<1> QED
  BY <1>3, <1>4, <1>5, <1>6, <1>7, <1>8 DEF Handle

(* And leaves the chats of the others alone. *)
LEMMA OthersTrue ==
  ASSUME AnswerInv, ~Orm, NEW q \in Requests, Handle(q),
         NEW r \in Requests \ {q}, op[q].chat # op[r].chat
  PROVE  LeavesAlone(r)
<1>1. op' = op /\ Onward(q) /\ answer \in [Requests -> {0, 200, 400, 404, 409, 500}] /\ IInv
  BY HandleOnward DEF AnswerInv, IInv, TypeOK
<1>2. answer'[r] = answer[r]
  <2>1. CASE \E status \in Answers : Reply(q, status)
    BY <1>1, <2>1 DEF Reply
  <2>2. CASE \E label \in Labels : Goto(q, label)
    BY <2>2 DEF Goto
  <2> QED
    BY <1>1, <2>1, <2>2 DEF Onward
<1>3. CASE db' = db
  BY <1>1, <1>2, <1>3 DEF LeavesAlone
<1>4. CASE at[q] \in Writing /\ db' = Written(q, db)
  BY <1>1, <1>2, <1>4, WrittenApart DEF LeavesAlone
<1>5. CASE Receive(q) \/ Read(q) \/ FailRead(q)
  BY <1>3, <1>5 DEF Receive, Read, FailRead, tables
<1>6. CASE Execute(q) \/ FailExecute(q)
  BY <1>3, <1>4, <1>6 DEF Execute, FailExecute
<1>7. CASE LookUp(q) \/ FlushChange(q) \/ Commit(q) \/ FailChange(q)
  BY <1>7 DEF LookUp, FlushChange, Commit, FailChange
<1> QED
  BY <1>5, <1>6, <1>7 DEF Handle

LEMMA ViewIsTables ==
  ASSUME ~Orm, view = db, [Next]_vars
  PROVE  view' = db'
<1>1. ASSUME NEW r \in Requests, Handle(r) PROVE view' = db'
  BY <1>1 DEF Handle, Receive, Read, FailRead, Execute, FailExecute, LookUp, FlushChange,
              Commit, FailChange, tables, session
<1> QED
  BY <1>1 DEF Next, Crash, vars, tables, session

LEMMA AnswerStep == ASSUME AnswerInv, [Next]_vars PROVE AnswerInv'
<1>1. IInv'
  BY StepInvariant DEF AnswerInv
<1>2. /\ at \in [Requests -> Labels] /\ answer \in [Requests -> {0, 200, 400, 404, 409, 500}]
      /\ \A r \in Requests : at[r] # "done" => answer[r] = 0
      /\ IInv
  BY DEF AnswerInv, IInv, TypeOK
<1>3. Orm' <=> Orm
  <2>1. ASSUME NEW r \in Requests, Handle(r) PROVE backend' = backend
    BY <2>1, <1>2, HandleOnward
  <2>2. backend' = backend
    BY <2>1 DEF Next, Crash, vars
  <2> QED
    BY <2>2 DEF Orm
<1>4. ~Orm' => view' = db'
  BY <1>3, ViewIsTables DEF AnswerInv
<1>5. \A r \in Requests : at'[r] # "done" => answer'[r] = 0
  <2>1. CASE UNCHANGED vars
    BY <1>2, <2>1 DEF vars
  <2>2. CASE Crash
    BY <1>2, <2>2 DEF Crash
  <2>3. ASSUME NEW q \in Requests, Handle(q)
        PROVE  \A r \in Requests : at'[r] # "done" => answer'[r] = 0
    <3>0. Onward(q)
      BY <1>2, <2>3, HandleOnward
    <3>a. ASSUME Read(q) PROVE at[q] # "done"
      BY <3>a DEF Read, Reads, CheckChat, ListLinks, FindLink
    <3>1. Onward(q) /\ at[q] # "done"
      BY <2>3, <3>0, <3>a
         DEF Handle, Receive, FailRead, Execute, FailExecute, LookUp, FlushChange, Commit,
             FailChange, Writing, Committing
    <3>2. CASE \E status \in Answers : Reply(q, status)
      BY <1>2, <3>2 DEF Reply
    <3>3. CASE \E label \in Labels : Goto(q, label)
      BY <1>2, <3>1, <3>3 DEF Goto
    <3> QED
      BY <3>1, <3>2, <3>3 DEF Onward
  <2> QED
    BY <2>1, <2>2, <2>3 DEF Next
<1>6. SqlAnswersTrue'
  <2> SUFFICES ASSUME ~Orm, NEW r \in Requests, Alone(r)' PROVE AnswerTrue(r)'
    BY <1>3 DEF SqlAnswersTrue, AnswersTrue
  <2>1. CASE UNCHANGED vars
    <3>1. Alone(r)
      BY <2>1 DEF vars, Alone, Begun
    <3> QED
      BY <2>1, <3>1, StillTrue DEF vars, tables, LeavesAlone, AnswerInv, SqlAnswersTrue,
                                   AnswersTrue
  <2>2. CASE Crash
    <3>1. Alone(r)
      BY <2>2, <1>2 DEF Crash, Alone, Begun
    <3> QED
      BY <2>2, <3>1, StillTrue DEF Crash, LeavesAlone, AnswerInv, SqlAnswersTrue, AnswersTrue
  <2>3. ASSUME NEW q \in Requests, Handle(q) PROVE AnswerTrue(r)'
    <3>1. CASE q = r
      BY <2>3, <3>1, OwnTrue
    <3>2. CASE q # r
      <4>1. op' = op /\ Onward(q)
        BY <1>2, <2>3, HandleOnward
      <4>2. at'[q] # "none" /\ \A p \in Requests \ {q} : at'[p] = at[p]
        <5>1. CASE \E status \in Answers : Reply(q, status)
          BY <1>2, <5>1 DEF Reply
        <5>2. CASE \E label \in Labels \ {"none"} : Goto(q, label)
          BY <1>2, <5>2 DEF Goto
        <5> QED
          BY <4>1, <5>1, <5>2 DEF Onward
      <4>3. op[q].chat # op[r].chat
        BY <3>2, <4>1, <4>2 DEF Alone, Begun
      <4>4. Alone(r)
        BY <4>1, <4>2 DEF Alone, Begun
      <4> QED
        BY <2>3, <3>2, <4>3, <4>4, OthersTrue, StillTrue
           DEF AnswerInv, SqlAnswersTrue, AnswersTrue
    <3> QED
      BY <3>1, <3>2
  <2> QED
    BY <2>1, <2>2, <2>3 DEF Next
<1> QED
  BY <1>1, <1>4, <1>5, <1>6 DEF AnswerInv

(* With the SQL repositories a chat with one request at a time can rely on  *)
(* its answers, whatever fails and whatever other chats do.                 *)
THEOREM SqlAnswers == Spec => []SqlAnswersTrue
<1>1. Init => AnswerInv
  <2> SUFFICES ASSUME Init PROVE AnswerInv
    OBVIOUS
  <2>1. \A r \in Requests : AnswerTrue(r)
    BY DEF Init, AnswerTrue
  <2> QED
    BY <2>1, InitInvariant DEF Init, AnswerInv, SqlAnswersTrue, AnswersTrue
<1>2. AnswerInv /\ [Next]_vars => AnswerInv'
  BY AnswerStep
<1>3. AnswerInv => SqlAnswersTrue
  BY DEF AnswerInv
<1> QED
  BY <1>1, <1>2, <1>3, PTL DEF Spec

------------------------------------------------------------------------------
(* Errors, with the SQL repositories *)

Meddled(r) == \E q \in Begun \ {r} : op[q].chat = op[r].chat \/ op[q].url = op[r].url

(* What a handler has found is still so if nobody meddled. *)
FoundHolds(r) ==
  /\ at[r] \in {"finding", "creating", "subscribing"} => op[r].chat \in db.chats
  /\ at[r] = "creating" => op[r].url \notin db.links
  /\ at[r] = "subscribing" => op[r].url \in db.links
  /\ answer[r] = 500 => r \in struck

ErrorInv ==
  /\ AnswerInv
  /\ ~Orm => ~poisoned /\ \A r \in Requests : Meddled(r) \/ FoundHolds(r)

(* What one step does to the tables. *)
LEMMA TableStep ==
  ASSUME IInv, ~Orm, NEW q \in Requests, Handle(q)
  PROVE  \/ db' = db
         \/ at[q] \in Writing /\ db' = Written(q, db)
<1>1. CASE Receive(q) \/ Read(q) \/ FailRead(q)
  BY <1>1 DEF Receive, Read, FailRead, tables
<1>2. CASE Execute(q) \/ FailExecute(q)
  BY <1>2 DEF Execute, FailExecute
<1>3. CASE LookUp(q) \/ FlushChange(q) \/ Commit(q) \/ FailChange(q)
  BY <1>3 DEF LookUp, FlushChange, Commit, FailChange
<1> QED
  BY <1>1, <1>2, <1>3 DEF Handle

(* And to what the handler of another chat and another url has found. *)
LEMMA FoundApart ==
  ASSUME ErrorInv, ~Orm, NEW q \in Requests, Handle(q), NEW r \in Requests \ {q},
         op[q].chat # op[r].chat, op[q].url # op[r].url, FoundHolds(r),
         at'[r] = at[r], struck \subseteq struck'
  PROVE  FoundHolds(r)'
<1>0. IInv /\ AnswerInv
  BY DEF ErrorInv, AnswerInv
<1>1. LeavesAlone(r)
  BY <1>0, OthersTrue
<1>2. op[r].url \in db'.links <=> op[r].url \in db.links
  <2>1. ASSUME at[q] \in Writing, db' = Written(q, db)
        PROVE  db'.links \in {db.links, db.links \cup {op[q].url}}
    <3>1. db = [chats |-> db.chats, links |-> db.links, subs |-> db.subs]
      BY <1>0 DEF IInv, TypeOK, Databases
    <3> QED
      BY <2>1, <3>1 DEF Written, Writing
  <2> QED
    BY <1>0, <2>1, TableStep
<1> QED
  BY <1>1, <1>2 DEF FoundHolds, LeavesAlone

(* A handler's step finds what it goes on with, and fails for no reason of  *)
(* its own only if a call of its own fails.                                 *)
LEMMA FoundOwn ==
  ASSUME ErrorInv, ~Orm, NEW r \in Requests, Handle(r), FoundHolds(r)
  PROVE  FoundHolds(r)'
<1>1. /\ answer \in [Requests -> {0, 200, 400, 404, 409, 500}] /\ IInv /\ StepsOfKind
      /\ at \in [Requests -> Labels]
      /\ at[r] # "done" => answer[r] = 0
      /\ view = db /\ ~poisoned
  BY DEF ErrorInv, AnswerInv, IInv, TypeOK
<1>2. op' = op
  BY <1>1, HandleOnward
<1>3. CASE Receive(r)
  <2>1. at'[r] = "checking" /\ answer'[r] = 0
    BY <1>1, <1>3 DEF Receive, Goto
  <2> QED
    BY <2>1 DEF FoundHolds
<1>4. CASE Read(r)
  <2>0. db' = db
    BY <1>4 DEF Read, tables
  <2>1. CASE CheckChat(r)
    <3>0. answer[r] = 0
      BY <1>1, <2>1 DEF CheckChat
    <3>1. op[r].kind \in {"register", "delete", "list", "add", "remove"}
      BY <1>1 DEF IInv, TypeOK, Operations
    <3>2. \/ Goto(r, "registering") \/ Goto(r, "deleting") \/ Goto(r, "listing")
          \/ Goto(r, "finding") /\ op[r].chat \in db.chats
          \/ Reply(r, 400) \/ Reply(r, 404) \/ Reply(r, 409)
      <4>1. CASE op[r].kind = "register"
        BY <1>1, <2>1, <4>1 DEF CheckChat
      <4>2. CASE op[r].kind # "register" /\ op[r].chat \notin db.chats
        BY <1>1, <2>1, <4>2 DEF CheckChat
      <4>3. CASE op[r].kind # "register" /\ op[r].chat \in db.chats
        BY <1>1, <2>1, <3>1, <4>3 DEF CheckChat
      <4> QED
        BY <4>1, <4>2, <4>3
    <3>3. \/ at'[r] \in {"registering", "deleting", "listing", "done"} /\ answer'[r] # 500
          \/ at'[r] = "finding" /\ op[r].chat \in db.chats /\ answer'[r] # 500
      BY <1>1, <3>0, <3>2 DEF Reply, Goto
    <3> QED
      BY <1>2, <2>0, <3>3 DEF FoundHolds
  <2>2. CASE ListLinks(r)
    <3>0. answer[r] = 0
      BY <1>1, <2>2 DEF ListLinks
    <3>1. op[r].kind \in {"list", "remove"}
      BY <1>1, <2>2 DEF ListLinks, StepsOfKind
    <3>2. Reply(r, 200) \/ Reply(r, 404) \/ Goto(r, "removing")
      BY <2>2, <3>1 DEF ListLinks
    <3>3. at'[r] \in {"removing", "done"} /\ answer'[r] # 500
      BY <1>1, <3>0, <3>2 DEF Reply, Goto
    <3> QED
      BY <3>3 DEF FoundHolds
  <2>3. CASE FindLink(r)
    <3>0. answer[r] = 0 /\ op[r].chat \in db.chats
      BY <1>1, <2>3 DEF FindLink, FoundHolds
    <3>1. \/ Goto(r, "subscribing") /\ op[r].url \in db.links
          \/ Goto(r, "creating") /\ op[r].url \notin db.links
      BY <1>1, <2>3 DEF FindLink
    <3>2. /\ answer'[r] = 0
          /\ \/ at'[r] = "subscribing" /\ op[r].url \in db.links
             \/ at'[r] = "creating" /\ op[r].url \notin db.links
      BY <1>1, <3>0, <3>1 DEF Goto
    <3> QED
      BY <1>2, <2>0, <3>0, <3>2 DEF FoundHolds
  <2> QED
    BY <1>4, <2>1, <2>2, <2>3 DEF Read, Reads
<1>5. CASE FailRead(r) \/ FailExecute(r)
  <2>1. Fault(r) /\ Reply(r, 500)
    BY <1>1, <1>5 DEF FailRead, FailExecute
  <2>2. at'[r] = "done" /\ r \in struck'
    BY <1>1, <2>1 DEF Fault, Reply
  <2> QED
    BY <2>2 DEF FoundHolds
<1>6. CASE Execute(r)
  <2>1. at[r] \in Writing /\ answer[r] = 0
    BY <1>1, <1>6 DEF Execute, Writing
  <2>2. ~Refused(r, db)
    BY <2>1 DEF Refused, FoundHolds, Writing
  <2>3. db' = Written(r, db) /\ Proceed(r)
    BY <1>6, <2>2 DEF Execute
  <2>4. CASE at[r] = "creating"
    <3>1. at'[r] = "subscribing" /\ answer'[r] = 0
      BY <1>1, <2>1, <2>3, <2>4 DEF Proceed, Goto
    <3>2. db = [chats |-> db.chats, links |-> db.links, subs |-> db.subs]
      BY <1>1 DEF IInv, TypeOK, Databases
    <3>3. db'.chats = db.chats /\ op[r].url \in db'.links
      BY <2>3, <2>4, <3>2 DEF Written
    <3> QED
      BY <1>2, <2>4, <3>1, <3>3 DEF FoundHolds
  <2>5. CASE at[r] # "creating"
    <3>1. at'[r] = "done" /\ answer'[r] = 200
      BY <1>1, <2>3, <2>5 DEF Proceed, Reply
    <3> QED
      BY <3>1 DEF FoundHolds
  <2> QED
    BY <2>4, <2>5
<1>7. CASE LookUp(r) \/ FlushChange(r) \/ Commit(r) \/ FailChange(r)
  BY <1>7 DEF LookUp, FlushChange, Commit, FailChange
<1> QED
  BY <1>3, <1>4, <1>5, <1>6, <1>7 DEF Handle

LEMMA ErrorStep == ASSUME ErrorInv, [Next]_vars PROVE ErrorInv'
<1>0. AnswerInv /\ IInv
  BY DEF ErrorInv, AnswerInv
<1>1. AnswerInv'
  BY <1>0, AnswerStep
<1>2. at \in [Requests -> Labels]
  BY <1>0 DEF IInv, TypeOK
<1>3. CASE UNCHANGED vars
  BY <1>1, <1>3 DEF vars, tables, session, ErrorInv, Orm, Meddled, Begun, FoundHolds
<1>4. CASE Crash
  <2>1. ASSUME NEW r \in Requests, Meddled(r) \/ FoundHolds(r)
        PROVE  (Meddled(r) \/ FoundHolds(r))'
    BY <1>2, <1>4, <2>1 DEF Crash, Meddled, Begun, FoundHolds
  <2>2. (Orm' <=> Orm) /\ poisoned' = FALSE
    BY <1>4 DEF Crash, Orm
  <2> QED
    BY <1>1, <2>1, <2>2 DEF ErrorInv
<1>5. ASSUME NEW q \in Requests, Handle(q) PROVE ErrorInv'
  <2>1. op' = op /\ backend' = backend /\ Onward(q)
    BY <1>0, <1>5, HandleOnward
  <2>2. struck \subseteq struck'
    <3>1. NoFault \/ Fault(q)
      BY <1>0, <1>5, HandleOnward
    <3> QED
      BY <3>1 DEF NoFault, Fault
  <2>3. at'[q] # "none" /\ \A p \in Requests \ {q} : at'[p] = at[p]
    <3>1. CASE \E status \in Answers : Reply(q, status)
      BY <1>2, <3>1 DEF Reply
    <3>2. CASE \E label \in Labels \ {"none"} : Goto(q, label)
      BY <1>2, <3>2 DEF Goto
    <3> QED
      BY <2>1, <3>1, <3>2 DEF Onward
  <2>4. Begun \cup {q} \subseteq Begun'
    BY <2>3 DEF Begun
  <2> SUFFICES ASSUME ~Orm
               PROVE  ~poisoned' /\ \A r \in Requests : (Meddled(r) \/ FoundHolds(r))'
    BY <1>1, <2>1 DEF ErrorInv, Orm
  <2>5. ~poisoned'
    BY <1>5 DEF ErrorInv, Handle, Receive, Read, FailRead, Execute, FailExecute, LookUp,
                FlushChange, Commit, FailChange, tables, session
  <2>6. ASSUME NEW r \in Requests PROVE (Meddled(r) \/ FoundHolds(r))'
    <3>1. CASE Meddled(r)
      BY <2>1, <2>4, <3>1 DEF Meddled
    <3>2. CASE ~Meddled(r) /\ q = r
      BY <1>5, <3>2, FoundOwn DEF ErrorInv
    <3>3. CASE ~Meddled(r) /\ q # r /\ (op[q].chat = op[r].chat \/ op[q].url = op[r].url)
      BY <2>1, <2>4, <3>3 DEF Meddled
    <3>4. CASE ~Meddled(r) /\ q # r /\ op[q].chat # op[r].chat /\ op[q].url # op[r].url
      BY <1>5, <2>2, <2>3, <3>4, FoundApart DEF ErrorInv
    <3> QED
      BY <3>1, <3>2, <3>3, <3>4
  <2> QED
    BY <2>5, <2>6
<1> QED
  BY <1>3, <1>4, <1>5 DEF Next

(* With the SQL repositories nobody is answered 500 because of a request    *)
(* for another chat and another link.                                      *)
THEOREM SqlErrors == Spec => []SqlErrorsOwn
<1>1. Init => ErrorInv
  <2> SUFFICES ASSUME Init PROVE ErrorInv
    OBVIOUS
  <2>1. \A r \in Requests : AnswerTrue(r) /\ FoundHolds(r)
    BY DEF Init, AnswerTrue, FoundHolds
  <2>2. AnswerInv
    BY <2>1, InitInvariant DEF Init, AnswerInv, SqlAnswersTrue, AnswersTrue
  <2> QED
    BY <2>1, <2>2 DEF Init, ErrorInv
<1>2. ErrorInv /\ [Next]_vars => ErrorInv'
  BY ErrorStep
<1>3. ErrorInv => SqlErrorsOwn
  BY DEF ErrorInv, SqlErrorsOwn, Meddled, FoundHolds
<1> QED
  BY <1>1, <1>2, <1>3, PTL DEF Spec
==============================================================================
