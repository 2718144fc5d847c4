--------------------------- MODULE Dialogues_proofs ---------------------------
(***************************************************************************)
(* What the steps of Dialogues keep true, for any users, chats, urls,       *)
(* attempts and thresholds.  Bot_proofs turns it into theorems about the    *)
(* bot, where the process may end between any two of them.                  *)
(***************************************************************************)
EXTENDS Dialogues, FiniteSetTheorems, TLAPS

(* Whatever happens in the conversations while the process runs, *)
DialogueStep == (\E c \in Convs : Message(c)) \/ Calling \/ Elapse

(* and its end. *)
DialogueEnd == Forget /\ Abandoned

(* A call belongs to a conversation. *)
CallHasPlace == call.kind # "none" => call.in \in Convs /\ call.at # "none"

SubsFinite == \A u \in Users : IsFiniteSet(subs[u])

TypeInv == DialoguesTypeOK /\ CallHasPlace /\ SubsFinite

USE DialoguesAssumption DEF Idle

------------------------------------------------------------------------------
(* Types *)

LEMMA ListsType ==
  /\ <<>> \in Lists
  /\ \A S \in SUBSET Urls : IsFiniteSet(S) => ListsOf(S) \subseteq Lists
  /\ \A s \in Lists : DOMAIN s \subseteq Nat \ {0} /\ \A n \in DOMAIN s : s[n] \in Urls
<1>1. \A S \in SUBSET Urls : IsFiniteSet(S) => ListsOf(S) \subseteq Lists
  BY DEF Lists
<1>2. <<>> \in ListsOf({})
  <2>1. <<>> \in [1..0 -> {}]
    OBVIOUS
  <2> QED
    BY <2>1, FS_EmptySet DEF ListsOf
<1>3. <<>> \in Lists
  BY <1>1, <1>2, FS_EmptySet
<1>4. ASSUME NEW s \in Lists
      PROVE  DOMAIN s \subseteq Nat \ {0} /\ \A n \in DOMAIN s : s[n] \in Urls
  <2>1. PICK S \in SUBSET Urls : IsFiniteSet(S) /\ s \in ListsOf(S)
    BY DEF Lists
  <2>2. s \in [1..Cardinality(S) -> S] /\ Cardinality(S) \in Nat
    BY <2>1, FS_CardinalityType DEF ListsOf
  <2> QED
    BY <2>2
<1> QED
  BY <1>1, <1>3, <1>4

LEMMA NoCallType ==
  /\ NoCall \in Calls
  /\ NoCall.kind = "none" /\ NoCall.at = "none" /\ NoCall.tries = 0 /\ ~NoCall.lost
  /\ ~NoCall.ok /\ NoCall.number = 0 /\ NoCall.links = <<>>
BY ListsType DEF NoCall, Calls

LEMMA FreshType ==
  \A k \in BOOLEAN : /\ Fresh(k) \in Datas /\ Fresh(k).kept = k
                     /\ Fresh(k).url = None /\ Fresh(k).list = <<>>
BY ListsType DEF Fresh, Datas

LEMMA InitType == DialoguesInit => TypeInv
<1> SUFFICES ASSUME DialoguesInit PROVE TypeInv
  OBVIOUS
<1>1. /\ conv \in [Convs -> {"none", "url", "tags"}]
      /\ given \in [Users -> Urls \cup {None}]
      /\ subs \in [Users -> SUBSET Supported] /\ \A u \in Users : subs[u] = {}
  BY DEF DialoguesInit
<1>2. userData \in [Users -> Datas] /\ shown \in [Users -> Lists]
  BY FreshType, ListsType DEF DialoguesInit
<1> QED
  BY <1>1, <1>2, NoCallType, FS_EmptySet
     DEF DialoguesInit, TypeInv, DialoguesTypeOK, CallHasPlace, SubsFinite

LEMMA UserType ==
  ASSUME TypeInv, NEW c \in Convs
  PROVE  /\ owner[c] \in Users
         /\ Data(c) \in Datas
         /\ Data(c).url \in Urls \cup {None}
         /\ Data(c).list \in Lists
BY DEF TypeInv, DialoguesTypeOK, Data, Datas

(* A request is built from what is known to be one. *)
LEMMA AskType ==
  ASSUME TypeInv, NEW c \in Convs, NEW kind \in {"register", "list", "choices", "add", "remove"},
         NEW url \in Urls \cup {None}, NEW number \in Nat,
         Ask(kind, c, url, number)
  PROVE  TypeInv'
<1>1. PICK at \in {"back", "trying"} :
        call' = [NoCall EXCEPT !.kind = kind, !.in = c, !.url = url, !.number = number,
                               !.at = at]
  BY DEF Ask
<1>2. call' \in Calls /\ call'.kind = kind /\ call'.in = c /\ call'.at = at
      /\ call'.tries = 0
  BY <1>1, NoCallType DEF Calls
<1>3. call' # NoCall
  BY <1>2, NoCallType
<1>4. breaker' \in {"closed", "open", "elapsed", "trial"}
  BY DEF Ask, TypeInv, DialoguesTypeOK
<1>5. UNCHANGED <<owner, conv, userData, failures, known, subs, given, shown, unsure, streak>>
  BY DEF Ask, memory, scrapper, ghosts
<1> QED
  BY <1>2, <1>3, <1>4, <1>5 DEF TypeInv, DialoguesTypeOK, CallHasPlace, SubsFinite

LEMMA RememberType ==
  ASSUME TypeInv, NEW c \in Convs, NEW d \in Datas, Remember(c, d)
  PROVE  userData' \in [Users -> Datas]
BY UserType DEF Remember, TypeInv, DialoguesTypeOK

LEMMA GaveType ==
  ASSUME TypeInv, NEW c \in Convs, NEW url \in Urls \cup {None}, Gave(c, url)
  PROVE  given' \in [Users -> Urls \cup {None}]
BY DEF Gave, TypeInv, DialoguesTypeOK

(* Data with another url, or another list. *)
LEMMA DataType ==
  ASSUME NEW d \in Datas
  PROVE  /\ \A url \in Urls \cup {None} : [d EXCEPT !.url = url] \in Datas
         /\ \A l \in Lists : [d EXCEPT !.list = l] \in Datas
BY DEF Datas

LEMMA GotoType ==
  ASSUME TypeInv, NEW c \in Convs, NEW state \in {"none", "url", "tags"},
         Goto(c, state) \/ UNCHANGED conv
  PROVE  conv' \in [Convs -> {"none", "url", "tags"}]
BY DEF TypeInv, DialoguesTypeOK, Goto

(* Steps that only touch what the bot remembers and what the ghosts say. *)
LEMMA QuietType ==
  ASSUME TypeInv, Answering \/ Returned,
         conv' \in [Convs -> {"none", "url", "tags"}],
         userData' \in [Users -> Datas],
         given' \in [Users -> Urls \cup {None}],
         shown' \in [Users -> Lists],
         unsure' \subseteq Users
  PROVE  TypeInv'
<1>1. UNCHANGED <<owner, breaker, failures, known, subs, streak>>
      /\ (call' = call \/ call' = NoCall)
  BY DEF Answering, Returned, circuit, scrapper
<1> QED
  BY <1>1, NoCallType DEF TypeInv, DialoguesTypeOK, CallHasPlace, SubsFinite

LEMMA MessageType == ASSUME TypeInv, NEW c \in Convs, Message(c) PROVE TypeInv'
<1> USE UserType
<1>0. /\ conv \in [Convs -> {"none", "url", "tags"}] /\ userData \in [Users -> Datas]
      /\ given \in [Users -> Urls \cup {None}] /\ shown \in [Users -> Lists]
      /\ unsure \subseteq Users
  BY DEF TypeInv, DialoguesTypeOK
<1>1. CASE Start(c) \/ ListLinks(c) \/ Untrack(c)
  BY <1>1, AskType DEF Start, ListLinks, Untrack
<1>2. CASE UntrackNumber(c) \/ Choose(c)
  BY <1>2, AskType, ListsType DEF UntrackNumber, Choose
<1>3. CASE \E url \in Urls : UntrackUrl(c, url)
  BY <1>3, AskType DEF UntrackUrl
<1>4. CASE ChooseBadly(c)
  <2>1. userData' \in [Users -> Datas] /\ shown' \in [Users -> Lists]
    BY <1>0, <1>4, RememberType, DataType, ListsType DEF ChooseBadly
  <2> QED
    BY <1>0, <1>4, <2>1, QuietType DEF ChooseBadly
<1>5. CASE Track(c)
  BY <1>0, <1>5, GotoType, QuietType DEF Track, ghosts
<1>6. CASE EditUrl(c)
  BY <1>0, <1>6, GotoType, QuietType DEF EditUrl, ghosts
<1>7. CASE GiveTags(c)
  <2>1. CASE Data(c).url # None /\ Ask("add", c, Data(c).url, 0)
    BY <2>1, AskType
  <2>2. CASE ~(Data(c).url # None /\ Ask("add", c, Data(c).url, 0))
    <3>1. Answering /\ Goto(c, "none") /\ UNCHANGED <<userData, given, shown, unsure>>
      BY <1>7, <2>2 DEF GiveTags, ghosts
    <3> QED
      BY <1>0, <3>1, GotoType, QuietType
  <2> QED
    BY <1>7, <2>1, <2>2 DEF GiveTags
<1>8. CASE Cancel(c)
  <2>1. userData' \in [Users -> Datas]
    BY <1>8, RememberType, DataType DEF Cancel
  <2>2. given' \in [Users -> Urls \cup {None}]
    BY <1>8, GaveType DEF Cancel
  <2> QED
    BY <1>0, <1>8, <2>1, <2>2, GotoType, QuietType DEF Cancel
<1>9. ASSUME NEW url \in Urls, GiveUrl(c, url) PROVE TypeInv'
  <2>1. userData' \in [Users -> Datas]
    BY <1>9, RememberType, DataType DEF GiveUrl
  <2>2. given' \in [Users -> Urls \cup {None}]
    BY <1>9, GaveType DEF GiveUrl
  <2> QED
    BY <1>0, <1>9, <2>1, <2>2, GotoType, QuietType DEF GiveUrl
<1> QED
  BY <1>1, <1>2, <1>3, <1>4, <1>5, <1>6, <1>7, <1>8, <1>9 DEF Message

(* The scrapper knows a user more, or has a url more of one. *)
LEMMA HandledType ==
  ASSUME TypeInv, call.at = "trying", Handled \/ UNCHANGED scrapper
  PROVE  /\ known' \subseteq Users
         /\ subs' \in [Users -> SUBSET Supported]
         /\ \A u \in Users : IsFiniteSet(subs'[u])
<1>1. /\ User \in Users /\ known \subseteq Users
      /\ subs \in [Users -> SUBSET Supported] /\ \A u \in Users : IsFiniteSet(subs[u])
  BY UserType DEF TypeInv, DialoguesTypeOK, SubsFinite, User
<1>2. CASE Handled
  <2>1. known' \subseteq Users
    BY <1>1, <1>2 DEF Handled
  <2>2. CASE call.kind = "add" /\ Status = 200
    <3>1. call.url \in Supported
      BY <2>2 DEF Status
    <3>2. IsFiniteSet(subs[User] \cup {call.url})
      BY <1>1, FS_AddElement
    <3>3. subs' = [subs EXCEPT ![User] = @ \cup {call.url}]
      BY <1>2, <2>2 DEF Handled
    <3> QED
      BY <1>1, <2>1, <3>1, <3>2, <3>3
  <2>3. CASE ~(call.kind = "add" /\ Status = 200)
    BY <1>1, <1>2, <2>1, <2>3 DEF Handled
  <2> QED
    BY <2>2, <2>3
<1>3. CASE UNCHANGED scrapper
  BY <1>1, <1>3 DEF scrapper
<1> QED
  BY <1>2, <1>3

LEMMA CountType == \A n \in 0..Threshold : Count(n) \in 0..Threshold
BY DEF Count

(* An answer, or none, to the request on its way. *)
LEMMA TryingType ==
  ASSUME TypeInv, call.at = "trying", Handled \/ UNCHANGED scrapper,
         UNCHANGED <<owner, memory, ghosts>>,
         failures' \in 0..Threshold, streak' \in 0..Threshold,
         breaker' \in {"closed", "open", "elapsed", "trial"},
         call' \in Calls, call'.kind = call.kind, call'.in = call.in, call'.at # "none",
         call'.at = "trying" => call'.tries < Attempts,
         call'.tries > 0 => call'.lost
  PROVE  TypeInv'
<1>1. call.kind # "none" /\ call.in \in Convs
  BY NoCallType DEF TypeInv, DialoguesTypeOK
<1>2. call' # NoCall
  BY NoCallType
<1>3. UNCHANGED <<owner, conv, userData, given, shown, unsure>>
  BY DEF memory, ghosts
<1> QED
  BY <1>1, <1>2, <1>3, HandledType DEF TypeInv, DialoguesTypeOK, CallHasPlace, SubsFinite

LEMMA CallFailsType ==
  ASSUME TypeInv, call.at = "trying", NEW lost \in BOOLEAN, call.lost => lost, CallFails(lost)
  PROVE  /\ failures' \in 0..Threshold /\ streak' \in 0..Threshold
         /\ breaker' \in {"closed", "open", "elapsed", "trial"}
         /\ call' \in Calls /\ call'.kind = call.kind /\ call'.in = call.in
         /\ call'.at = "back" /\ call'.ok = call.ok /\ call'.lost = lost
         /\ call'.tries > 0 => call'.lost
<1>1. call \in Calls /\ (call.tries > 0 => call.lost)
  BY DEF TypeInv, DialoguesTypeOK
<1> QED
  BY <1>1, CountType DEF CallFails, Trip, TypeInv, DialoguesTypeOK, Calls

LEMMA SuccessType ==
  ASSUME call \in Calls, NEW s \in Lists,
         call' = [call EXCEPT !.at = "back", !.ok = TRUE, !.links = s]
  PROVE  /\ call' \in Calls /\ call'.kind = call.kind /\ call'.in = call.in
         /\ call'.url = call.url /\ call'.tries = call.tries /\ call'.lost = call.lost
         /\ call'.at = "back" /\ call'.ok /\ call'.links = s
BY DEF Calls

LEMMA RetryType ==
  ASSUME NEW c \in Calls
  PROVE  LET d == [c EXCEPT !.tries = @ + 1, !.lost = TRUE]
         IN  /\ d \in Calls /\ d.kind = c.kind /\ d.in = c.in /\ d.url = c.url
             /\ d.number = c.number /\ d.at = c.at /\ d.ok = c.ok
             /\ d.tries = c.tries + 1 /\ d.lost
<1>1. c.tries + 1 \in Nat
  BY DEF Calls
<1> QED
  BY <1>1 DEF Calls

LEMMA CallingType == ASSUME TypeInv, Calling PROVE TypeInv'
<1>0. /\ conv \in [Convs -> {"none", "url", "tags"}] /\ userData \in [Users -> Datas]
      /\ given \in [Users -> Urls \cup {None}] /\ shown \in [Users -> Lists]
      /\ unsure \subseteq Users /\ call \in Calls
      /\ failures \in 0..Threshold /\ streak \in 0..Threshold
      /\ breaker \in {"closed", "open", "elapsed", "trial"}
      /\ (call.tries > 0 => call.lost)
  BY DEF TypeInv, DialoguesTypeOK
<1>1. CASE Answered
  <2>1. CASE Rejects
    <3>1. call.lost \in BOOLEAN /\ CallFails(call.lost) /\ call.at = "trying"
      BY <1>0, <1>1, <2>1 DEF Answered, Rejects, Calls
    <3>2. /\ failures' \in 0..Threshold /\ streak' \in 0..Threshold
          /\ breaker' \in {"closed", "open", "elapsed", "trial"}
          /\ call' \in Calls /\ call'.kind = call.kind /\ call'.in = call.in
          /\ call'.at = "back" /\ (call'.tries > 0 => call'.lost)
      BY <3>1, CallFailsType
    <3> QED
      BY <1>1, <3>1, <3>2, TryingType DEF Answered
  <2>2. CASE Succeeds
    <3>1. User \in Users /\ subs[User] \in SUBSET Urls /\ IsFiniteSet(subs[User])
      BY <1>1, UserType DEF Answered, User, TypeInv, DialoguesTypeOK, SubsFinite
    <3>2. PICK s \in Lists : call' = [call EXCEPT !.at = "back", !.ok = TRUE, !.links = s]
      <4>1. ListsOf(subs[User]) \subseteq Lists /\ <<>> \in Lists
        BY <3>1, ListsType
      <4>2. PICK s \in IF Listing THEN ListsOf(subs[User]) ELSE {<<>>} :
              call' = [call EXCEPT !.at = "back", !.ok = TRUE, !.links = s]
        BY <2>2 DEF Succeeds, Listing
      <4> QED
        BY <4>1, <4>2
    <3>3. /\ call' \in Calls /\ call'.kind = call.kind /\ call'.in = call.in
          /\ call'.at = "back" /\ call'.tries = call.tries /\ call'.lost = call.lost
      <4>1. call \in Calls
        BY <1>0
      <4> QED
        BY <3>2, <4>1, SuccessType
    <3>4. failures' = 0 /\ streak' = 0 /\ breaker' = "closed"
      BY <2>2 DEF Succeeds
    <3>5. failures' \in 0..Threshold /\ streak' \in 0..Threshold
      BY <3>4
    <3>6. call.at = "trying" /\ Handled /\ UNCHANGED <<owner, memory, ghosts>>
      BY <1>1 DEF Answered
    <3>7. call'.tries > 0 => call'.lost
      BY <1>0, <3>3
    <3>8. call'.at # "none" /\ call'.at # "trying"
      BY <3>3
    <3>9. breaker' \in {"closed", "open", "elapsed", "trial"}
      BY <3>4
    <3> QED
      BY <3>3, <3>5, <3>6, <3>7, <3>8, <3>9, TryingType
  <2> QED
    BY <1>1, <2>1, <2>2 DEF Answered
<1>2. CASE Unanswered
  <2>1. CASE CallFails(TRUE)
    BY <1>2, <2>1, CallFailsType, TryingType DEF Unanswered
  <2>2. CASE /\ call.tries + 1 < Attempts
             /\ call' = [call EXCEPT !.tries = @ + 1, !.lost = TRUE]
             /\ UNCHANGED <<circuit, streak>>
    <3>1. /\ call' \in Calls /\ call'.kind = call.kind /\ call'.in = call.in
          /\ call'.at = call.at /\ call'.tries < Attempts /\ call'.lost
      BY <1>0, <2>2, RetryType
    <3> QED
      BY <1>0, <1>2, <2>2, <3>1, TryingType DEF Unanswered, circuit
  <2> QED
    BY <1>2, <2>1, <2>2 DEF Unanswered
<1>3. CASE Finish
  <2>0. call.at = "back" => call.kind # "none" /\ call.in \in Convs /\ User \in Users
    BY NoCallType, UserType DEF TypeInv, DialoguesTypeOK, CallHasPlace, User
  <2>1. CASE JustReply
    BY <1>0, <2>1, QuietType DEF JustReply, memory, ghosts
  <2>2. CASE OfferChoices
    <3>1. call.at = "back" /\ call.links \in Lists
      BY <1>0, <2>2 DEF OfferChoices, Back, Calls
    <3>2. userData' \in [Users -> Datas]
      BY <2>0, <2>2, <3>1, UserType, RememberType, DataType DEF OfferChoices
    <3>3. shown' \in [Users -> Lists] /\ unsure' \subseteq Users
      BY <1>0, <2>0, <2>2, <3>1 DEF OfferChoices
    <3> QED
      BY <1>0, <2>2, <3>2, <3>3, QuietType DEF OfferChoices
  <2>3. CASE EndTrack
    <3>1. call.at = "back"
      BY <2>3 DEF EndTrack, Back
    <3>2. userData' \in [Users -> Datas]
      BY <2>0, <2>3, <3>1, UserType, RememberType, DataType DEF EndTrack
    <3>3. given' \in [Users -> Urls \cup {None}]
      BY <2>0, <2>3, <3>1, GaveType DEF EndTrack
    <3>4. conv' \in [Convs -> {"none", "url", "tags"}]
      BY <2>0, <2>3, <3>1, GotoType DEF EndTrack
    <3> QED
      BY <1>0, <2>3, <3>2, <3>3, <3>4, QuietType DEF EndTrack
  <2>4. CASE EndUntrack
    <3>1. call.at = "back"
      BY <2>4 DEF EndUntrack, Back
    <3>2. userData' \in [Users -> Datas]
      BY <1>0, <2>0, <2>4, <3>1, UserType, RememberType, DataType, ListsType DEF EndUntrack
    <3>3. shown' \in [Users -> Lists]
      <4>1. shown \in [Users -> Lists] /\ <<>> \in Lists
        BY <1>0, ListsType
      <4>2. shown' \in {shown, [shown EXCEPT ![User] = <<>>]}
        BY <2>4 DEF EndUntrack
      <4> QED
        BY <4>1, <4>2
    <3> QED
      BY <1>0, <2>4, <3>2, <3>3, QuietType DEF EndUntrack
  <2> QED
    BY <1>3, <2>1, <2>2, <2>3, <2>4 DEF Finish
<1> QED
  BY <1>1, <1>2, <1>3 DEF Calling

LEMMA StepType == ASSUME TypeInv, DialogueStep \/ UNCHANGED dialogues PROVE TypeInv'
<1>1. CASE \E c \in Convs : Message(c)
  BY <1>1, MessageType
<1>2. CASE Calling
  BY <1>2, CallingType
<1>3. CASE Elapse
  BY <1>3 DEF Elapse, memory, scrapper, ghosts, TypeInv, DialoguesTypeOK, CallHasPlace,
              SubsFinite
<1>4. CASE UNCHANGED dialogues
  BY <1>4 DEF dialogues, memory, circuit, scrapper, ghosts, TypeInv, DialoguesTypeOK,
              CallHasPlace, SubsFinite
<1> QED
  BY <1>1, <1>2, <1>3, <1>4 DEF DialogueStep

LEMMA EndType == ASSUME TypeInv, DialogueEnd PROVE TypeInv'
<1>1. /\ known' \subseteq Users /\ subs' \in [Users -> SUBSET Supported]
      /\ \A u \in Users : IsFiniteSet(subs'[u])
  <2>1. CASE call.at = "trying"
    BY <2>1, HandledType DEF DialogueEnd, Abandoned
  <2>2. CASE UNCHANGED scrapper
    BY <2>2 DEF scrapper, TypeInv, DialoguesTypeOK, SubsFinite
  <2> QED
    BY <2>1, <2>2 DEF DialogueEnd, Abandoned
<1>2. userData' \in [Users -> Datas]
  <2>1. \A u \in Users : userData[u].kept \in BOOLEAN
    BY DEF TypeInv, DialoguesTypeOK, Datas
  <2> QED
    BY <2>1, FreshType DEF DialogueEnd, Forget
<1> QED
  BY <1>1, <1>2, NoCallType DEF DialogueEnd, Forget, TypeInv, DialoguesTypeOK, CallHasPlace,
     SubsFinite

------------------------------------------------------------------------------
(* What is kept beside the types *)

(* The fail counter counts the calls that have failed in a row, and the     *)
(* breaker has opened at no less than its threshold.                        *)
BreakerInv == failures = streak /\ (breaker # "closed" => streak = Threshold)

(* The list in user_data is the one the user saw, and the url in it the one *)
(* the user gave last, unless they are gone.                                *)
ListKept == \A u \in Users : u \notin unsure => userData[u].list \in {<<>>, shown[u]}

UrlKept == \A u \in Users : userData[u].url \in {None, given[u]}

MemoryInv == ListKept /\ UrlKept

CallInv ==
  /\ call.at = "trying" => ~call.ok
  /\ SuccessIsReal
  /\ FailureHasReason
  /\ NumberIsOfShownList
  /\ UrlIsLastGiven

DialoguesInv == TypeInv /\ BreakerInv /\ MemoryInv /\ CallInv

(* Without a call there is nothing to say of one. *)
LEMMA NoCallInv == Idle => CallInv
BY NoCallType DEF CallInv, SuccessIsReal, FailureHasReason, NumberIsOfShownList,
                  UrlIsLastGiven

LEMMA InitDialogues == DialoguesInit => DialoguesInv
<1> SUFFICES ASSUME DialoguesInit PROVE DialoguesInv
  OBVIOUS
<1>1. TypeInv /\ CallInv
  BY InitType, NoCallInv DEF DialoguesInit
<1>2. BreakerInv
  BY DEF DialoguesInit, BreakerInv
<1>3. MemoryInv
  <2>1. \A u \in Users : userData[u].list = <<>> /\ userData[u].url = None
    BY FreshType DEF DialoguesInit
  <2> QED
    BY <2>1 DEF DialoguesInit, MemoryInv, ListKept, UrlKept
<1> QED
  BY <1>1, <1>2, <1>3 DEF DialoguesInv

(* A request about the url its user gave last, or about the link that the   *)
(* user's number has in the list.                                           *)
LEMMA AskInv ==
  ASSUME DialoguesInv, TypeInv', NEW c \in Convs, NEW kind, NEW url, NEW number,
         Ask(kind, c, url, number),
         kind = "add" => url = given[owner[c]],
         kind = "remove" /\ number # 0 /\ owner[c] \notin unsure =>
           number \in DOMAIN shown[owner[c]] /\ url = shown[owner[c]][number]
  PROVE  DialoguesInv'
<1>1. /\ UNCHANGED <<owner, conv, userData, failures, known, subs, given, shown, unsure, streak>>
      /\ breaker' = IF breaker = "elapsed" THEN "trial" ELSE breaker
  BY DEF Ask, memory, scrapper, ghosts
<1>2. PICK at \in {"back", "trying"} :
        /\ at = "back" => breaker = "open"
        /\ call' = [NoCall EXCEPT !.kind = kind, !.in = c, !.url = url, !.number = number,
                                  !.at = at]
  BY DEF Ask
<1>3. /\ call'.kind = kind /\ call'.in = c /\ call'.url = url /\ call'.number = number
      /\ call'.at = at /\ ~call'.ok
  BY <1>2 DEF NoCall
<1>4. BreakerInv'
  BY <1>1 DEF DialoguesInv, BreakerInv
<1>5. MemoryInv'
  BY <1>1 DEF DialoguesInv, MemoryInv, ListKept, UrlKept, Data
<1>6. SuccessIsReal' /\ (call'.at = "trying" => ~call'.ok)
  BY <1>3 DEF SuccessIsReal
<1>7. FailureHasReason'
  <2>1. at = "back" => streak' = Threshold
    BY <1>1, <1>2 DEF DialoguesInv, BreakerInv
  <2> QED
    BY <1>3, <2>1 DEF FailureHasReason
<1>8. User' = owner[c]
  BY <1>1, <1>3 DEF User
<1>9. NumberIsOfShownList' /\ UrlIsLastGiven'
  BY <1>1, <1>3, <1>8 DEF NumberIsOfShownList, UrlIsLastGiven
<1> QED
  BY <1>4, <1>5, <1>6, <1>7, <1>9 DEF DialoguesInv, CallInv

(* Steps that leave no call: what counts is what the bot remembers. *)
LEMMA QuietInv ==
  ASSUME DialoguesInv, TypeInv', (Idle /\ Answering) \/ Returned, MemoryInv'
  PROVE  DialoguesInv'
<1>1. UNCHANGED <<breaker, failures, streak>> /\ call' = NoCall
  BY DEF Answering, Returned, circuit
<1>2. CallInv'
  BY <1>1, NoCallType DEF CallInv, SuccessIsReal, FailureHasReason, NumberIsOfShownList,
                          UrlIsLastGiven
<1>3. BreakerInv'
  BY <1>1 DEF DialoguesInv, BreakerInv
<1> QED
  BY <1>2, <1>3 DEF DialoguesInv

(* What Remember leaves in the user's dictionary. *)
LEMMA Remembered ==
  ASSUME TypeInv, NEW c \in Convs, NEW d \in Datas, Remember(c, d)
  PROVE  /\ userData'[owner[c]].url \in {None, d.url}
         /\ userData'[owner[c]].list \in {<<>>, d.list}
         /\ \A u \in Users : u # owner[c] => userData'[u] = userData[u]
<1>1. owner[c] \in Users /\ userData \in [Users -> Datas]
  BY UserType DEF TypeInv, DialoguesTypeOK
<1>2. userData'[owner[c]] = IF Empty(userData[owner[c]]) THEN userData[owner[c]] ELSE d
  BY <1>1 DEF Remember
<1>3. Empty(userData[owner[c]]) =>
        userData[owner[c]].url = None /\ userData[owner[c]].list = <<>>
  BY FreshType DEF Empty
<1> QED
  BY <1>1, <1>2, <1>3 DEF Remember

(* A step of one user's. *)
LEMMA MemoryKept ==
  ASSUME TypeInv, MemoryInv, owner' = owner, NEW c \in Convs,
         \A u \in Users \ {owner[c]} :
           /\ userData'[u] = userData[u]
           /\ given'[u] = given[u]
           /\ shown'[u] = shown[u]
           /\ u \in unsure => u \in unsure',
         owner[c] \notin unsure' => userData'[owner[c]].list \in {<<>>, shown'[owner[c]]},
         userData'[owner[c]].url \in {None, given'[owner[c]]}
  PROVE  MemoryInv'
<1>1. ListKept'
  <2> SUFFICES ASSUME NEW u \in Users, u \notin unsure'
               PROVE  userData'[u].list \in {<<>>, shown'[u]}
    BY DEF ListKept
  <2> QED
    BY DEF MemoryInv, ListKept
<1>2. UrlKept'
  <2> SUFFICES ASSUME NEW u \in Users PROVE userData'[u].url \in {None, given'[u]}
    BY DEF UrlKept
  <2> QED
    BY DEF MemoryInv, UrlKept
<1> QED
  BY <1>1, <1>2 DEF MemoryInv

(* A url is stored, or forgotten. *)
LEMMA UrlStored ==
  ASSUME TypeInv, MemoryInv, owner' = owner, NEW c \in Convs, NEW url \in Urls \cup {None},
         Remember(c, [Data(c) EXCEPT !.url = url]),
         Gave(c, url), UNCHANGED <<shown, unsure>>
  PROVE  MemoryInv'
<1>1. /\ [Data(c) EXCEPT !.url = url] \in Datas /\ owner[c] \in Users
      /\ [Data(c) EXCEPT !.url = url].url = url
      /\ [Data(c) EXCEPT !.url = url].list = Data(c).list
  BY UserType DEF Datas
<1>2. /\ userData'[owner[c]].url \in {None, url}
      /\ userData'[owner[c]].list \in {<<>>, Data(c).list}
      /\ \A u \in Users : u # owner[c] => userData'[u] = userData[u]
  BY <1>1, Remembered
<1>3. given'[owner[c]] = url /\ \A u \in Users : u # owner[c] => given'[u] = given[u]
  BY <1>1 DEF Gave, TypeInv, DialoguesTypeOK
<1>4. owner[c] \notin unsure => Data(c).list \in {<<>>, shown[owner[c]]}
  BY <1>1 DEF MemoryInv, ListKept, Data
<1> QED
  BY <1>2, <1>3, <1>4, MemoryKept

(* A list is stored, or forgotten. *)
LEMMA ListStored ==
  ASSUME TypeInv, MemoryInv, owner' = owner, NEW c \in Convs, NEW l \in Lists,
         Remember(c, [Data(c) EXCEPT !.list = l]),
         \/ shown' = [shown EXCEPT ![owner[c]] = l] /\ unsure' \in {unsure, unsure \ {owner[c]}}
         \/ shown' = shown /\ unsure' = unsure \cup {owner[c]},
         UNCHANGED given
  PROVE  MemoryInv'
<1>1. /\ [Data(c) EXCEPT !.list = l] \in Datas /\ owner[c] \in Users
      /\ [Data(c) EXCEPT !.list = l].url = Data(c).url
      /\ [Data(c) EXCEPT !.list = l].list = l
  BY UserType DEF Datas
<1>2. /\ userData'[owner[c]].url \in {None, Data(c).url}
      /\ userData'[owner[c]].list \in {<<>>, l}
      /\ \A u \in Users : u # owner[c] => userData'[u] = userData[u]
  BY <1>1, Remembered
<1>3. shown \in [Users -> Lists]
  BY DEF TypeInv, DialoguesTypeOK
<1>4. /\ \A u \in Users \ {owner[c]} : shown'[u] = shown[u] /\ (u \in unsure => u \in unsure')
      /\ owner[c] \notin unsure' => shown'[owner[c]] = l
  BY <1>1, <1>3
<1>5. Data(c).url \in {None, given[owner[c]]}
  BY <1>1 DEF MemoryInv, UrlKept, Data
<1> QED
  BY <1>2, <1>4, <1>5, MemoryKept

(* Before a message is answered. *)
LEMMA MessageInv == ASSUME DialoguesInv, NEW c \in Convs, Message(c) PROVE DialoguesInv'
<1>1. TypeInv /\ MemoryInv /\ TypeInv'
  BY MessageType DEF DialoguesInv
<1>2. CASE Start(c) \/ ListLinks(c) \/ Untrack(c)
  BY <1>1, <1>2, AskInv DEF Start, ListLinks, Untrack
<1>3. ASSUME NEW url \in Urls, UntrackUrl(c, url) PROVE DialoguesInv'
  BY <1>1, <1>3, AskInv DEF UntrackUrl
<1>4. CASE UntrackNumber(c) \/ Choose(c)
  <2>1. PICK n \in DOMAIN Data(c).list : Ask("remove", c, Data(c).list[n], n)
    BY <1>4 DEF UntrackNumber, Choose
  <2>2. owner[c] \in Users /\ Data(c).list # <<>>
    BY <1>1, <2>1, UserType
  <2>3. owner[c] \notin unsure => Data(c).list = shown[owner[c]]
    BY <1>1, <2>2 DEF MemoryInv, ListKept, Data
  <2> QED
    BY <1>1, <2>1, <2>3, AskInv
<1>5. CASE ChooseBadly(c)
  <2>1. MemoryInv'
    BY <1>1, <1>5, ListsType, ListStored DEF ChooseBadly, Answering
  <2> QED
    BY <1>1, <1>5, <2>1, QuietInv DEF ChooseBadly
<1>6. CASE Track(c) \/ EditUrl(c)
  <2>1. /\ UNCHANGED <<owner, userData, given, shown, unsure>>
        /\ Idle /\ Answering
    BY <1>6 DEF Track, EditUrl, Answering, ghosts
  <2>2. MemoryInv'
    BY <1>1, <2>1 DEF MemoryInv, ListKept, UrlKept, Data
  <2> QED
    BY <1>1, <2>1, <2>2, QuietInv
<1>7. CASE GiveTags(c)
  <2>1. CASE Data(c).url # None /\ Ask("add", c, Data(c).url, 0)
    <3>1. Data(c).url = given[owner[c]]
      BY <1>1, <2>1, UserType DEF MemoryInv, UrlKept, Data
    <3> QED
      BY <1>1, <2>1, <3>1, AskInv
  <2>2. CASE ~(Data(c).url # None /\ Ask("add", c, Data(c).url, 0))
    <3>1. Idle /\ Answering /\ UNCHANGED <<userData, given, shown, unsure>>
      BY <1>7, <2>2 DEF GiveTags, ghosts
    <3>2. MemoryInv'
      BY <1>1, <3>1 DEF MemoryInv, ListKept, UrlKept
    <3> QED
      BY <1>1, <3>1, <3>2, QuietInv
  <2> QED
    BY <2>1, <2>2
<1>8. CASE Cancel(c)
  <2>1. MemoryInv'
    BY <1>1, <1>8, UrlStored DEF Cancel, Answering
  <2> QED
    BY <1>1, <1>8, <2>1, QuietInv DEF Cancel
<1>9. ASSUME NEW url \in Urls, GiveUrl(c, url) PROVE DialoguesInv'
  <2>1. MemoryInv'
    BY <1>1, <1>9, UrlStored DEF GiveUrl, Answering
  <2> QED
    BY <1>1, <1>9, <2>1, QuietInv DEF GiveUrl
<1> QED
  BY <1>2, <1>3, <1>4, <1>5, <1>6, <1>7, <1>8, <1>9 DEF Message

(* While the call is on its way: the memory is as it was, and so is what    *)
(* the request is about.                                                    *)
LEMMA TryingInv ==
  ASSUME DialoguesInv, TypeInv', BreakerInv', UNCHANGED <<owner, memory, ghosts>>,
         call'.kind = call.kind, call'.in = call.in, call'.url = call.url,
         call'.number = call.number,
         call'.at = "trying" => ~call'.ok,
         SuccessIsReal', FailureHasReason'
  PROVE  DialoguesInv'
<1>1. UNCHANGED <<owner, userData, given, shown, unsure>>
  BY DEF memory, ghosts
<1>2. MemoryInv'
  BY <1>1 DEF DialoguesInv, MemoryInv, ListKept, UrlKept, Data
<1>3. NumberIsOfShownList' /\ UrlIsLastGiven'
  BY <1>1 DEF DialoguesInv, CallInv, NumberIsOfShownList, UrlIsLastGiven, User
<1> QED
  BY <1>2, <1>3 DEF DialoguesInv, CallInv

LEMMA CallFailsInv ==
  ASSUME DialoguesInv, call.at = "trying", NEW lost \in BOOLEAN, CallFails(lost)
  PROVE  /\ BreakerInv'
         /\ call'.kind = call.kind /\ call'.in = call.in /\ call'.url = call.url
         /\ call'.number = call.number /\ call'.at = "back" /\ ~call'.ok
         /\ call'.lost = lost
<1>1. call \in Calls /\ ~call.ok /\ failures \in 0..Threshold /\ BreakerInv
  BY DEF DialoguesInv, TypeInv, DialoguesTypeOK, CallInv
<1>2. /\ call'.kind = call.kind /\ call'.in = call.in /\ call'.url = call.url
      /\ call'.number = call.number /\ call'.at = "back" /\ ~call'.ok /\ call'.lost = lost
  BY <1>1 DEF CallFails, Calls
<1>3. failures' = streak' /\ failures' \in 0..Threshold
      /\ (failures = Threshold => failures' = Threshold)
  BY <1>1, CountType DEF CallFails, BreakerInv, Count
<1>4. breaker' # "closed" => failures' = Threshold
  BY <1>1, <1>3 DEF CallFails, Trip, BreakerInv
<1> QED
  BY <1>2, <1>3, <1>4 DEF BreakerInv

LEMMA AnsweredInv == ASSUME DialoguesInv, Answered PROVE DialoguesInv'
<1>1. /\ TypeInv /\ TypeInv' /\ call.at = "trying" /\ Handled /\ call \in Calls
      /\ UNCHANGED <<owner, memory, ghosts>>
      /\ call.kind # "none" /\ call.in \in Convs
  BY CallingType, NoCallType
     DEF Calling, Answered, DialoguesInv, TypeInv, DialoguesTypeOK
<1>2. User \in Users /\ subs \in [Users -> SUBSET Supported] /\ owner' = owner
  BY <1>1, UserType DEF User, TypeInv, DialoguesTypeOK
<1>3. CASE Rejects
  <2>1. call.lost \in BOOLEAN /\ CallFails(call.lost) /\ Status # 200
    BY <1>1, <1>3 DEF Rejects, Calls
  <2>2. /\ BreakerInv' /\ call'.kind = call.kind /\ call'.in = call.in
        /\ call'.url = call.url /\ call'.number = call.number
        /\ call'.at = "back" /\ ~call'.ok
    BY <1>1, <2>1, CallFailsInv
  <2>3. User' = User
    BY <1>2, <2>2 DEF User
  <2>4. SuccessIsReal'
    BY <2>2 DEF SuccessIsReal
  <2>5. FailureHasReason'
    <3>1. call.kind = "register" => User \in known /\ known \subseteq known'
      BY <1>1, <2>1 DEF Status, Handled
    <3>2. Listing => User \notin known /\ known' = known
      BY <1>1, <2>1 DEF Status, Handled, Listing
    <3>3. call.kind = "add" =>
            /\ User \notin known \/ call.url \notin Supported
            /\ known' = known
      BY <1>1, <2>1 DEF Status, Handled
    <3> QED
      BY <2>2, <2>3, <3>1, <3>2, <3>3 DEF FailureHasReason, Listing
  <2> QED
    BY <1>1, <2>2, <2>4, <2>5, TryingInv
<1>4. CASE Succeeds
  <2>1. PICK s \in IF Listing THEN ListsOf(subs[User]) ELSE {<<>>} :
          call' = [call EXCEPT !.at = "back", !.ok = TRUE, !.links = s]
    BY <1>4 DEF Succeeds, Listing
  <2>2. /\ call'.kind = call.kind /\ call'.in = call.in /\ call'.url = call.url
        /\ call'.number = call.number /\ call'.at = "back" /\ call'.ok /\ call'.links = s
    BY <1>1, <2>1 DEF Calls
  <2>3. User' = User
    BY <1>2, <2>2 DEF User
  <2>4. BreakerInv'
    BY <1>4 DEF Succeeds, BreakerInv
  <2>5. SuccessIsReal'
    <3>1. call.kind = "add" => call.url \in subs'[User]
      BY <1>1, <1>2, <1>4 DEF Handled, Succeeds
    <3>2. Listing => Elems(s) = subs[User] /\ subs' = subs
      BY <1>1, <2>1 DEF Listing, ListsOf, Elems, Handled
    <3> QED
      BY <2>2, <2>3, <3>1, <3>2 DEF SuccessIsReal, Listing
  <2>6. FailureHasReason'
    BY <2>2 DEF FailureHasReason
  <2> QED
    BY <1>1, <2>2, <2>4, <2>5, <2>6, TryingInv
<1> QED
  BY <1>3, <1>4 DEF Answered

LEMMA UnansweredInv == ASSUME DialoguesInv, Unanswered PROVE DialoguesInv'
<1>1. /\ TypeInv' /\ call.at = "trying" /\ ~call.ok /\ call \in Calls
      /\ UNCHANGED <<owner, memory, ghosts>>
  BY CallingType DEF Calling, Unanswered, DialoguesInv, CallInv, TypeInv, DialoguesTypeOK
<1>2. CASE CallFails(TRUE)
  <2>1. /\ BreakerInv' /\ call'.kind = call.kind /\ call'.in = call.in
        /\ call'.url = call.url /\ call'.number = call.number
        /\ call'.at = "back" /\ ~call'.ok /\ call'.lost
    BY <1>1, <1>2, CallFailsInv
  <2>2. SuccessIsReal' /\ FailureHasReason'
    BY <2>1 DEF SuccessIsReal, FailureHasReason
  <2> QED
    BY <1>1, <2>1, <2>2, TryingInv
<1>3. CASE /\ call' = [call EXCEPT !.tries = @ + 1, !.lost = TRUE]
           /\ UNCHANGED <<circuit, streak>>
  <2>1. /\ call'.kind = call.kind /\ call'.in = call.in /\ call'.url = call.url
        /\ call'.number = call.number /\ call'.at = "trying" /\ ~call'.ok
    BY <1>1, <1>3 DEF Calls
  <2>2. SuccessIsReal' /\ FailureHasReason'
    BY <2>1 DEF SuccessIsReal, FailureHasReason
  <2>3. BreakerInv'
    BY <1>3 DEF circuit, DialoguesInv, BreakerInv
  <2> QED
    BY <1>1, <2>1, <2>2, <2>3, TryingInv
<1> QED
  BY <1>2, <1>3 DEF Unanswered

LEMMA FinishInv == ASSUME DialoguesInv, Finish PROVE DialoguesInv'
<1>1. /\ TypeInv /\ MemoryInv /\ TypeInv' /\ call.at = "back" /\ Returned /\ owner' = owner
  BY CallingType
     DEF Calling, DialoguesInv, Finish, JustReply, OfferChoices, EndTrack, EndUntrack, Back,
         Returned
<1>2. call.in \in Convs /\ call.links \in Lists
  BY <1>1, NoCallType DEF TypeInv, DialoguesTypeOK, CallHasPlace, Calls
<1>3. SUFFICES MemoryInv'
  BY <1>1, QuietInv
<1>4. CASE UNCHANGED <<userData, ghosts>>
  BY <1>1, <1>4 DEF ghosts, MemoryInv, ListKept, UrlKept, Data
<1>5. CASE JustReply
  BY <1>4, <1>5 DEF JustReply, memory
<1>6. CASE OfferChoices
  BY <1>1, <1>2, <1>6, ListStored DEF OfferChoices, User
<1>7. CASE EndTrack
  BY <1>1, <1>2, <1>7, UrlStored DEF EndTrack
<1>8. CASE EndUntrack
  <2>1. CASE /\ Remember(call.in, [Data(call.in) EXCEPT !.list = <<>>])
             /\ shown' = [shown EXCEPT ![User] = <<>>]
    BY <1>1, <1>2, <1>8, <2>1, ListsType, ListStored DEF EndUntrack, User
  <2>2. CASE UNCHANGED <<userData, shown>>
    BY <1>4, <1>8, <2>2 DEF EndUntrack, ghosts
  <2> QED
    BY <1>8, <2>1, <2>2 DEF EndUntrack
<1> QED
  BY <1>5, <1>6, <1>7, <1>8 DEF Finish

LEMMA StepDialogues ==
  ASSUME DialoguesInv, DialogueStep \/ UNCHANGED dialogues PROVE DialoguesInv'
<1>1. TypeInv'
  BY StepType DEF DialoguesInv
<1>2. CASE \E c \in Convs : Message(c)
  BY <1>2, MessageInv
<1>3. CASE Calling
  BY <1>3, AnsweredInv, UnansweredInv, FinishInv DEF Calling
<1>4. CASE Elapse
  <2>1. /\ UNCHANGED <<owner, userData, call, failures, known, subs, given, shown, unsure,
                       streak>>
        /\ breaker # "closed"
    BY <1>4 DEF Elapse, memory, scrapper, ghosts
  <2>2. BreakerInv' /\ MemoryInv'
    BY <2>1 DEF DialoguesInv, BreakerInv, MemoryInv, ListKept, UrlKept, Data
  <2>3. CallInv'
    BY <2>1 DEF DialoguesInv, CallInv, SuccessIsReal, FailureHasReason, NumberIsOfShownList,
                UrlIsLastGiven, User, Listing
  <2> QED
    BY <1>1, <2>2, <2>3 DEF DialoguesInv
<1>5. CASE UNCHANGED dialogues
  <2>1. UNCHANGED <<owner, userData, call, breaker, failures, known, subs, given, shown,
                    unsure, streak>>
    BY <1>5 DEF dialogues, memory, circuit, scrapper, ghosts
  <2>2. BreakerInv' /\ MemoryInv'
    BY <2>1 DEF DialoguesInv, BreakerInv, MemoryInv, ListKept, UrlKept, Data
  <2>3. CallInv'
    BY <2>1 DEF DialoguesInv, CallInv, SuccessIsReal, FailureHasReason, NumberIsOfShownList,
                UrlIsLastGiven, User, Listing
  <2> QED
    BY <1>1, <2>2, <2>3 DEF DialoguesInv
<1> QED
  BY <1>2, <1>3, <1>4, <1>5 DEF DialogueStep

(* The end of the process leaves no call, no list and no url. *)
LEMMA EndDialogues == ASSUME DialoguesInv, DialogueEnd PROVE DialoguesInv'
<1>1. TypeInv' /\ call' = NoCall
  BY EndType DEF DialoguesInv, DialogueEnd, Forget
<1>2. CallInv'
  BY <1>1, NoCallType DEF CallInv, SuccessIsReal, FailureHasReason, NumberIsOfShownList,
                          UrlIsLastGiven
<1>3. BreakerInv'
  BY DEF DialogueEnd, Forget, BreakerInv
<1>4. MemoryInv'
  <2>1. \A u \in Users : userData[u].kept \in BOOLEAN
    BY DEF DialoguesInv, TypeInv, DialoguesTypeOK, Datas
  <2>2. \A u \in Users : userData'[u].list = <<>> /\ userData'[u].url = None
    BY <2>1, FreshType DEF DialogueEnd, Forget
  <2> QED
    BY <2>2 DEF DialogueEnd, Forget, MemoryInv, ListKept, UrlKept
<1> QED
  BY <1>1, <1>2, <1>3, <1>4 DEF DialoguesInv
==============================================================================
