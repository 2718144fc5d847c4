------------------------------- MODULE Dialogues -------------------------------
(***************************************************************************)
(* The bot's conversations: handlers/ as main.py registers them, with       *)
(* tools.py between them and what they remember of a user, and              *)
(* clients/scrapper_client.py between them and the scrapper.  Updates from  *)
(* Telegram are handled one at a time, so there is at most one call of the  *)
(* scrapper.  A message that changes nothing (/help, an unknown command, a  *)
(* text nobody waits for) is no action.                                     *)
(***************************************************************************)
EXTENDS Faults, Sequences, FiniteSets

CONSTANTS
  Users,
  Convs,       \* conversations: a user in a chat
  Owners,      \* whose each may be
  Private,     \* the conversations in private chats
  Urls,        \* the urls is_supported_url lets through
  Supported,   \* those the scrapper takes as well
  None,        \* no url, no conversation
  Attempts,    \* RETRY_MAX_ATTEMPTS
  Threshold,   \* CB_FAILURE_THRESHOLD
  Keeping      \* whether a user's dictionary holds an entry of somebody else's

ASSUME DialoguesAssumption ==
  /\ Owners \subseteq [Convs -> Users]
  /\ Private \subseteq Convs
  /\ Supported \subseteq Urls
  /\ None \notin Urls \cup Convs
  /\ {Attempts, Threshold} \subseteq Nat \ {0}
  /\ Keeping \subseteq BOOLEAN

(* A list of links as the scrapper returns it: in any order. *)
ListsOf(S) == {s \in [1..Cardinality(S) -> S] : {s[i] : i \in DOMAIN s} = S}
Lists == UNION {ListsOf(S) : S \in {T \in SUBSET Urls : IsFiniteSet(T)}}

VARIABLES
  owner,       \* the user of each conversation
  conv,        \* the ConversationHandler's state: none, url or tags
  userData,    \* context.user_data: tracking_url, untrack_links, other entries
  call,        \* the call of the scrapper that a handler waits for
  breaker,     \* scrapper_cb: closed, open, open past its recovery time, on trial
  failures,    \* its fail counter, up to Threshold
  known,       \* the scrapper's chats
  subs,        \* and the urls each is subscribed to
  given,       \* the url each user gave last and has neither tracked nor cancelled
  shown,       \* the numbered list each user saw last and has not used
  unsure,      \* users whose last list may not have reached them
  streak       \* calls that have failed in a row, up to Threshold

memory == <<conv, userData>>
circuit == <<breaker, failures>>
scrapper == <<known, subs>>
ghosts == <<given, shown, unsure>>
dialogues == <<owner, memory, call, circuit, scrapper, ghosts, streak>>

NoCall == [kind |-> "none", in |-> None, url |-> None, number |-> 0, tries |-> 0,
           lost |-> FALSE, at |-> "none", ok |-> FALSE, links |-> <<>>]

Fresh(kept) == [kept |-> kept, url |-> None, list |-> <<>>]

DialoguesInit ==
  /\ owner \in Owners
  /\ conv = [c \in Convs |-> "none"]
  /\ userData \in {[u \in Users |-> Fresh(k)] : k \in Keeping}
  /\ call = NoCall
  /\ breaker = "closed"
  /\ failures = 0
  /\ known = {}
  /\ subs = [u \in Users |-> {}]
  /\ given = [u \in Users |-> None]
  /\ shown = [u \in Users |-> <<>>]
  /\ unsure = {}
  /\ streak = 0

Idle == call = NoCall

(* reply_text arrives; or it raises, and the rest of the handler is skipped. *)
Sent == UNCHANGED faults
NotSent == Fault

Goto(c, state) == conv' = [conv EXCEPT ![c] = state]

Gave(c, url) == given' = [given EXCEPT ![owner[c]] = url]

------------------------------------------------------------------------------
(* tools.py *)

Empty(d) == d = Fresh(FALSE)

(* Variant: the user's dictionary itself, empty or not. *)
RememberAlways(c, d) == userData' = [userData EXCEPT ![owner[c]] = d]

(* get_user_data gives an empty dictionary's place to a new one: what is   *)
(* put into that is gone.                                                  *)
Remember(c, d) ==
  userData' = [userData EXCEPT ![owner[c]] = IF Empty(@) THEN @ ELSE d]

Data(c) == userData[owner[c]]

------------------------------------------------------------------------------
(* scrapper_client.py *)

(* The breaker is asked first.  Open, it raises and nothing is sent; past  *)
(* its recovery time it lets the call through as a trial.                  *)
Ask(kind, c, url, number) ==
  LET refused == breaker = "open" IN
  /\ Idle
  /\ call' = [NoCall EXCEPT !.kind = kind, !.in = c, !.url = url, !.number = number,
                            !.at = IF refused THEN "back" ELSE "trying"]
  /\ breaker' = IF breaker = "elapsed" THEN "trial" ELSE breaker
  /\ UNCHANGED <<owner, memory, failures, scrapper, ghosts, streak, faults>>

User == owner[call.in]

(* What the scrapper answers.  remove_link sends no body, so DELETE /links *)
(* does not get past its validation.                                       *)
Status ==
  CASE call.kind = "register" -> IF User \in known THEN 409 ELSE 200
    [] call.kind \in {"list", "choices"} -> IF User \in known THEN 200 ELSE 404
    [] call.kind = "add" ->
         IF User \notin known THEN 404 ELSE IF call.url \in Supported THEN 200 ELSE 400
    [] call.kind = "remove" -> 422

(* And what it does: POST /links for a link the chat has changes at most   *)
(* its tags.                                                               *)
Handled ==
  /\ known' = IF call.kind = "register" THEN known \cup {User} ELSE known
  /\ subs' = IF call.kind = "add" /\ Status = 200
             THEN [subs EXCEPT ![User] = @ \cup {call.url}] ELSE subs

Count(n) == IF n < Threshold THEN n + 1 ELSE n

Trip(n) == IF breaker = "trial" \/ n >= Threshold THEN "open" ELSE breaker

(* Variant: the breaker opens one failure early. *)
CallFailsEarly(lost) ==
  /\ failures' = Count(failures)
  /\ breaker' = Trip(failures' + 1)
  /\ call' = [call EXCEPT !.at = "back", !.lost = lost]
  /\ streak' = Count(streak)

(* The call ends in an exception, which the breaker counts whatever it is;  *)
(* the client's method returns False, None or [].                          *)
CallFails(lost) ==
  /\ failures' = Count(failures)
  /\ breaker' = Trip(failures')
  /\ call' = [call EXCEPT !.at = "back", !.lost = lost]
  /\ streak' = Count(streak)

Succeeds ==
  /\ Status = 200
  /\ failures' = 0
  /\ breaker' = "closed"
  /\ \E s \in IF call.kind \in {"list", "choices"} THEN ListsOf(subs[User]) ELSE {<<>>} :
       call' = [call EXCEPT !.at = "back", !.ok = TRUE, !.links = s]
  /\ streak' = 0

(* Variant: an error status is retried as well, without end. *)
RejectsRetried ==
  /\ Status # 200
  /\ UNCHANGED <<call, circuit, streak>>

(* raise_for_status: no retry, though 409 and 404 are answers like others. *)
Rejects ==
  /\ Status # 200
  /\ CallFails(call.lost)

Answered ==
  /\ call.at = "trying"
  /\ Handled
  /\ Succeeds \/ Rejects
  /\ UNCHANGED <<owner, memory, ghosts, faults>>

(* Variant: an error that is not retried counts as an answer. *)
UnansweredTaken ==
  /\ call.at = "trying"
  /\ Fault
  /\ Handled \/ UNCHANGED scrapper
  /\ \/ /\ call.tries + 1 < Attempts
        /\ call' = [call EXCEPT !.tries = @ + 1, !.lost = TRUE]
     \/ call' = [call EXCEPT !.at = "back", !.ok = TRUE, !.lost = TRUE]
  /\ UNCHANGED <<owner, memory, circuit, ghosts, streak>>

(* A timeout, a lost connection or a retryable status is retried while      *)
(* attempts are left; the client's pool, whose event loop is closed by      *)
(* then, may raise RuntimeError, which is not.  Either way the scrapper may *)
(* have dealt with the request.                                             *)
Unanswered ==
  /\ call.at = "trying"
  /\ Fault
  /\ Handled \/ UNCHANGED scrapper
  /\ \/ /\ call.tries + 1 < Attempts
        /\ call' = [call EXCEPT !.tries = @ + 1, !.lost = TRUE]
        /\ UNCHANGED <<circuit, streak>>
     \/ CallFails(TRUE)
  /\ UNCHANGED <<owner, memory, ghosts>>

(* CB_RECOVERY_TIMEOUT passes. *)
Elapse ==
  /\ breaker = "open"
  /\ breaker' = "elapsed"
  /\ UNCHANGED <<owner, memory, call, failures, scrapper, ghosts, streak, faults>>

------------------------------------------------------------------------------
(* handlers/track.py *)

Answering == UNCHANGED <<owner, call, circuit, scrapper, streak>>

Track(c) ==
  /\ Idle
  /\ conv[c] = "none"
  /\ Goto(c, "url")
  /\ Sent
  /\ UNCHANGED <<userData, ghosts>>
  /\ Answering

(* Variant: the first url a user sends is kept. *)
GiveUrlOnce(c, url) ==
  /\ Idle
  /\ conv[c] = "url"
  /\ Remember(c, IF Data(c).url = None THEN [Data(c) EXCEPT !.url = url] ELSE Data(c))
  /\ Gave(c, url)
  /\ \/ Sent /\ Goto(c, "tags")
     \/ NotSent /\ UNCHANGED conv
  /\ UNCHANGED <<shown, unsure>>
  /\ Answering

(* The url is stored, then the user is asked for tags. *)
GiveUrl(c, url) ==
  /\ Idle
  /\ conv[c] = "url"
  /\ Remember(c, [Data(c) EXCEPT !.url = url])
  /\ Gave(c, url)
  /\ \/ Sent /\ Goto(c, "tags")
     \/ NotSent /\ UNCHANGED conv
  /\ UNCHANGED <<shown, unsure>>
  /\ Answering

(* An edited message has no update.message: the dialogue ends in silence.  *)
EditUrl(c) ==
  /\ Idle
  /\ conv[c] = "url"
  /\ Goto(c, "none")
  /\ UNCHANGED <<userData, ghosts, faults>>
  /\ Answering

(* Text or /skip.  Without a url there is nothing to add. *)
GiveTags(c) ==
  /\ conv[c] = "tags"
  /\ \/ Data(c).url # None /\ Ask("add", c, Data(c).url, 0)
     \/ /\ Data(c).url = None
        /\ Idle
        /\ Sent /\ Goto(c, "none")
        /\ UNCHANGED <<userData, ghosts>>
        /\ Answering

Cancel(c) ==
  /\ Idle
  /\ conv[c] # "none"
  /\ Remember(c, [Data(c) EXCEPT !.url = None])
  /\ Gave(c, None)
  /\ \/ Sent /\ Goto(c, "none")
     \/ NotSent /\ UNCHANGED conv
  /\ UNCHANGED <<shown, unsure>>
  /\ Answering

------------------------------------------------------------------------------
(* handlers/links.py and commands.py *)

Start(c) == Ask("register", c, None, 0)

ListLinks(c) == Ask("list", c, None, 0)

Untrack(c) == Ask("choices", c, None, 0)

(* /untrack with a url, or with a number that is looked up in the list.    *)
UntrackUrl(c, url) == Ask("remove", c, url, 0)

UntrackNumber(c) ==
  \E n \in DOMAIN Data(c).list : Ask("remove", c, Data(c).list[n], n)

(* A number alone, in a private chat outside of any dialogue. *)
Choose(c) ==
  /\ c \in Private
  /\ conv[c] = "none"
  /\ UntrackNumber(c)

(* Any other text is refused, and ends the choice. *)
ChooseBadly(c) ==
  /\ Idle
  /\ c \in Private
  /\ conv[c] = "none"
  /\ Data(c).list # <<>>
  /\ Remember(c, [Data(c) EXCEPT !.list = <<>>])
  /\ shown' = [shown EXCEPT ![owner[c]] = <<>>]
  /\ Sent
  /\ UNCHANGED <<conv, given, unsure>>
  /\ Answering

------------------------------------------------------------------------------
(* What a handler does when its call is back *)

Back(kinds) == call.at = "back" /\ call.kind \in kinds

Returned ==
  /\ call' = NoCall
  /\ UNCHANGED <<owner, circuit, scrapper, streak>>

(* /start welcomes its user, /list shows or finds nothing. *)
JustReply ==
  /\ Back({"register", "list"}) \/ (Back({"choices"}) /\ call.links = <<>>)
  /\ Sent
  /\ UNCHANGED <<memory, ghosts>>
  /\ Returned

(* Variant: a list that is there already is kept. *)
OfferChoicesOnce ==
  LET c == call.in IN
  /\ Back({"choices"}) /\ call.links # <<>>
  /\ Remember(c, IF Data(c).list = <<>> THEN [Data(c) EXCEPT !.list = call.links] ELSE Data(c))
  /\ \/ Sent /\ shown' = [shown EXCEPT ![User] = call.links] /\ unsure' = unsure \ {User}
     \/ NotSent /\ unsure' = unsure \cup {User} /\ UNCHANGED shown
  /\ UNCHANGED <<conv, given>>
  /\ Returned

(* /untrack stores the list, then shows it. *)
OfferChoices ==
  /\ Back({"choices"}) /\ call.links # <<>>
  /\ Remember(call.in, [Data(call.in) EXCEPT !.list = call.links])
  /\ \/ Sent /\ shown' = [shown EXCEPT ![User] = call.links] /\ unsure' = unsure \ {User}
     \/ NotSent /\ unsure' = unsure \cup {User} /\ UNCHANGED shown
  /\ UNCHANGED <<conv, given>>
  /\ Returned

(* The url is forgotten, then the user is told; only then the dialogue ends. *)
EndTrack ==
  /\ Back({"add"})
  /\ Remember(call.in, [Data(call.in) EXCEPT !.url = None])
  /\ Gave(call.in, None)
  /\ \/ Sent /\ Goto(call.in, "none")
     \/ NotSent /\ UNCHANGED conv
  /\ UNCHANGED <<shown, unsure>>
  /\ Returned

(* The user is told, then the list is forgotten. *)
EndUntrack ==
  /\ Back({"remove"})
  /\ \/ /\ Sent
        /\ Remember(call.in, [Data(call.in) EXCEPT !.list = <<>>])
        /\ shown' = [shown EXCEPT ![User] = <<>>]
     \/ NotSent /\ UNCHANGED <<userData, shown>>
  /\ UNCHANGED <<conv, given, unsure>>
  /\ Returned

Finish == JustReply \/ OfferChoices \/ EndTrack \/ EndUntrack

------------------------------------------------------------------------------

Message(c) ==
  \/ Start(c) \/ ListLinks(c) \/ Untrack(c) \/ UntrackNumber(c) \/ Choose(c)
  \/ ChooseBadly(c) \/ Track(c) \/ EditUrl(c) \/ GiveTags(c) \/ Cancel(c)
  \/ \E url \in Urls : GiveUrl(c, url) \/ UntrackUrl(c, url)

Calling == Answered \/ Unanswered \/ Finish

(* The process ends: all it had in memory is gone. *)
Forget ==
  /\ conv' = [c \in Convs |-> "none"]
  /\ userData' = [u \in Users |-> Fresh(userData[u].kept)]
  /\ call' = NoCall
  /\ breaker' = "closed"
  /\ failures' = 0
  /\ given' = [u \in Users |-> None]
  /\ streak' = 0
  /\ UNCHANGED <<owner, shown, unsure>>

(* A request that is on its way may still be dealt with. *)
Abandoned == (call.at = "trying" /\ Handled) \/ UNCHANGED scrapper

------------------------------------------------------------------------------
(* Properties *)

Datas == [kept : BOOLEAN, url : Urls \cup {None}, list : Lists]

Calls == [kind : {"none", "register", "list", "choices", "add", "remove"},
          in : Convs \cup {None}, url : Urls \cup {None}, number : Nat, tries : Nat,
          lost : BOOLEAN, at : {"none", "trying", "back"}, ok : BOOLEAN, links : Lists]

(* Every variable holds a value the code can give it; a call has a          *)
(* conversation, and more than its attempts are not made.                   *)
DialoguesTypeOK ==
  /\ owner \in Owners
  /\ conv \in [Convs -> {"none", "url", "tags"}]
  /\ userData \in [Users -> Datas]
  /\ call \in Calls
  /\ (call.kind = "none") = Idle
  /\ call.at = "trying" => call.in \in Convs /\ call.tries < Attempts
  /\ call.tries > 0 => call.lost
  /\ breaker \in {"closed", "open", "elapsed", "trial"}
  /\ failures \in 0..Threshold
  /\ known \subseteq Users
  /\ subs \in [Users -> SUBSET Supported]
  /\ given \in [Users -> Urls \cup {None}]
  /\ shown \in [Users -> Lists]
  /\ unsure \subseteq Users
  /\ streak \in 0..Threshold

Elems(s) == {s[i] : i \in DOMAIN s}

Listing == call.kind \in {"list", "choices"}

(* What a user is told of a call that succeeded is so: the url is among the *)
(* chat's subscriptions, the list is all of them (add_link's result and     *)
(* get_links').                                                             *)
SuccessIsReal ==
  call.at = "back" /\ call.ok =>
    /\ call.kind = "add" => call.url \in subs[User]
    /\ Listing => Elems(call.links) = subs[User]

(* A call all of whose requests are answered fails only if the scrapper     *)
(* would not serve it, or if a threshold of calls in a row has not ended in *)
(* success: 404 and 409 count as failures, but nothing counts twice.        *)
FailureHasReason ==
  call.at = "back" /\ ~call.lost /\ ~call.ok /\ streak < Threshold =>
    /\ call.kind = "register" => User \in known
    /\ Listing => User \notin known
    /\ call.kind = "add" => User \notin known \/ call.url \notin Supported

(* A number names the link it had in the list the user saw last, whatever   *)
(* lists other /untrack commands have stored since (untrack_links), unless  *)
(* a list was stored that may not have arrived.                             *)
NumberIsOfShownList ==
  call.kind = "remove" /\ call.number # 0 /\ User \notin unsure =>
    /\ call.number \in DOMAIN shown[User]
    /\ call.url = shown[User][call.number]

(* What is added is the url its user gave last, in whichever chat, and      *)
(* neither tracked nor cancelled since, though replies fail: tracking_url   *)
(* holds nothing older.  It need not be of the dialogue that adds it:       *)
(* dialogues of one user in two chats share that entry.                     *)
UrlIsLastGiven ==
  call.kind = "add" => call.url = given[User]

(* "Сохраняем URL в context.user_data": a dialogue that waits for tags      *)
(* finds the url its user gave last.                                        *)
UrlIsKept ==
  \A c \in Convs : conv[c] = "tags" => Data(c).url = given[owner[c]]
==============================================================================
