------------------------------- MODULE Reception -------------------------------
(***************************************************************************)
(* How updates come into the bot: services/kafka_consumer.py, a task that   *)
(* reads the processed topic and tells each record's chats one after the    *)
(* other, and POST /api/updates, whose handler does the same for the update *)
(* in the request.  Every send to Telegram is awaited.                      *)
(***************************************************************************)
EXTENDS Faults, Sequences, FiniteSets

CONSTANTS
  Chats,      \* tgChatIds
  Requests,   \* posts to /api/updates
  MaxLength   \* bound on the length of the topic

ASSUME ReceptionAssumption == MaxLength \in Nat

(* A record of the topic: "garbled" does not decode; of "malformed", no     *)
(* tgChatIds can be had; only an "update" has chats.                        *)
Records == [kind : {"update", "malformed", "garbled"}, chats : SUBSET Chats]

VARIABLES
  source,     \* MESSAGE_SOURCE: kafka or http
  topic,      \* the topic; offsets are 1..Len(topic)
  position,   \* the consumer's next offset
  committed,  \* the offset committed for the consumer group
  consumer,   \* the consumer and its task: off, running, or with its task ended
  toTell,     \* the chats of the record in hand that are still to be told
  told,       \* per chat, the offsets it was told of, or that were tried
  posts,      \* the requests, and the chats each has yet to tell
  reread      \* whether a consumer has gone with its position uncommitted

record == <<position, consumer, toTell>>
reception == <<source, topic, record, committed, told, posts, reread>>

NoPost == [at |-> "none", left |-> {}]

ReceptionInit ==
  /\ position = 1
  /\ committed = 1
  /\ consumer = "off"
  /\ toTell = {}
  /\ told = [c \in Chats |-> <<>>]
  /\ posts = [r \in Requests |-> NoPost]
  /\ reread = FALSE

------------------------------------------------------------------------------
(* kafka_consumer.py *)

(* Variant: from the end of the topic. *)
StartConsumerLatest ==
  /\ consumer' = "running"
  /\ position' = Len(topic) + 1
  /\ toTell' = {}
  /\ UNCHANGED <<source, topic, committed, told, posts, reread>>

(* start(): from the committed offset, or the earliest. *)
StartConsumer ==
  /\ consumer' = "running"
  /\ position' = committed
  /\ toTell' = {}
  /\ UNCHANGED <<source, topic, committed, told, posts, reread>>

CanPoll ==
  /\ consumer = "running"
  /\ toTell = {}
  /\ position <= Len(topic)

PollUpdate ==
  /\ CanPoll
  /\ topic[position].kind = "update"
  /\ position' = position + 1
  /\ toTell' = topic[position].chats
  /\ UNCHANGED <<consumer, source, topic, committed, told, posts, reread>>

(* An exception ends the loop, and nothing looks after its task.  Whether   *)
(* the client has moved past a record that does not decode is its affair.   *)
PollBad ==
  /\ CanPoll
  /\ topic[position].kind # "update"
  /\ consumer' = "ended"
  /\ \/ position' = position + 1
     \/ topic[position].kind = "garbled" /\ UNCHANGED position
  /\ UNCHANGED <<toTell, source, topic, committed, told, posts, reread>>

(* Variant: after a record with a send that failed the loop ends. *)
TellOrEnd ==
  \E c \in toTell :
    /\ told' = [told EXCEPT ![c] = Append(@, position - 1)]
    /\ toTell' = toTell \ {c}
    /\ consumer' \in {consumer, "ended"}
    /\ UNCHANGED <<position, source, topic, committed, posts, reread>>

(* A send that fails is logged, and the next chat has its turn. *)
Tell ==
  \E c \in toTell :
    /\ told' = [told EXCEPT ![c] = Append(@, position - 1)]
    /\ toTell' = toTell \ {c}
    /\ UNCHANGED <<position, consumer, source, topic, committed, posts, reread>>

(* enable_auto_commit commits what was handed out, told or not, and goes on *)
(* when the task has ended.                                                 *)
AutoCommit ==
  /\ consumer # "off"
  /\ committed # position
  /\ committed' = position
  /\ UNCHANGED <<record, source, topic, told, posts, reread>>

(* Variant: the client is closed without a last commit. *)
StopConsumerUncommitted ==
  /\ consumer' = "off"
  /\ toTell' = {}
  /\ UNCHANGED <<committed, position, source, topic, told, posts, reread, faults>>

(* stop(): the task is cancelled, whatever it has in hand; the client       *)
(* commits its position on its way out.  If that fails the client logs it,  *)
(* and what it handed out since its last commit will be read again.         *)
StopConsumer ==
  /\ consumer' = "off"
  /\ toTell' = {}
  /\ \/ /\ committed' = IF consumer = "off" THEN committed ELSE position
        /\ UNCHANGED <<reread, faults>>
     \/ /\ consumer # "off"
        /\ committed # position
        /\ Fault
        /\ reread' = TRUE
        /\ UNCHANGED committed
  /\ UNCHANGED <<position, source, topic, told, posts>>

------------------------------------------------------------------------------
(* api/routes.py and http_update_handler.py *)

Post(r, audience) ==
  /\ posts[r] = NoPost
  /\ posts' = [posts EXCEPT ![r] = [at |-> "telling", left |-> audience]]
  /\ UNCHANGED <<source, topic, record, committed, told, reread>>

(* A TelegramError is logged. *)
TellPost(r) ==
  \E c \in posts[r].left :
    /\ posts[r].at = "telling"
    /\ posts' = [posts EXCEPT ![r].left = @ \ {c}]
    /\ UNCHANGED <<source, topic, record, committed, told, reread>>

AnswerOk(r) ==
  /\ posts[r] = [at |-> "telling", left |-> {}]
  /\ posts' = [posts EXCEPT ![r].at = "ok"]
  /\ UNCHANGED <<source, topic, record, committed, told, reread>>

(* Any other exception: the rest of the chats is left out. *)
AnswerError(r) ==
  /\ posts[r].at = "telling"
  /\ posts[r].left # {}
  /\ Fault
  /\ posts' = [posts EXCEPT ![r].at = "error"]
  /\ UNCHANGED <<source, topic, record, committed, told, reread>>

Posting == {r \in Requests : posts[r].at = "telling"}

------------------------------------------------------------------------------

(* The process is gone, and with it its tasks. *)
Lose ==
  /\ consumer' = "off"
  /\ toTell' = {}
  /\ posts' = [r \in Requests |->
                 IF r \in Posting THEN [posts[r] EXCEPT !.at = "cut"] ELSE posts[r]]
  /\ UNCHANGED <<position, committed, source, topic, told>>

Consuming ==
  /\ PollUpdate \/ PollBad \/ Tell \/ AutoCommit
  /\ UNCHANGED faults

Serving ==
  \E r \in Requests :
    \/ AnswerError(r)
    \/ (TellPost(r) \/ AnswerOk(r)) /\ UNCHANGED faults
==============================================================================
