--------------------------------- MODULE Bot ---------------------------------
(***************************************************************************)
(* The bot as one process: main.py's lifespan around the conversations and  *)
(* the reception of updates, under uvicorn, which opens its socket when     *)
(* start-up is over and closes it, and waits for its requests, before       *)
(* shutdown begins.  The process may be stopped or crash, and comes back.   *)
(***************************************************************************)
EXTENDS Dialogues, Reception

CONSTANT
  Loads   \* what a behaviour has to do: who talks, what the topic and the posts have

ASSUME LoadsAssumption ==
  \A l \in Loads :
    /\ l.talks \in BOOLEAN
    /\ l.source \in {"kafka", "http"}
    /\ l.topic \in Seq(Records) /\ Len(l.topic) <= MaxLength
    /\ l.posted \in [Requests -> SUBSET Chats]
    /\ l.spent \in 0..MaxFaults

VARIABLES
  load,      \* the one of Loads
  process,   \* down, starting, up, draining its requests, or stopping
  crashed    \* whether it has ever ended without a stop

vars == <<dialogues, reception, faults, load, process, crashed>>

Init ==
  /\ load \in Loads
  /\ faults = load.spent
  /\ source = load.source
  /\ topic = load.topic
  /\ DialoguesInit
  /\ ReceptionInit
  /\ process = "down"
  /\ crashed = FALSE

------------------------------------------------------------------------------
(* lifespan *)

Become(phase) == process' = phase /\ UNCHANGED <<load, crashed>>

(* initialize, start, start_polling: from here on messages are handled. *)
Boot ==
  /\ process = "down"
  /\ Become("starting")
  /\ UNCHANGED <<dialogues, reception, faults>>

(* The consumer is started last, if there is to be one. *)
Serve ==
  /\ process = "starting"
  /\ Become("up")
  /\ IF source = "kafka" THEN StartConsumer ELSE UNCHANGED reception
  /\ UNCHANGED <<dialogues, faults>>

(* Kafka cannot be reached: the finally clause ends what has been begun. *)
ServeFails ==
  /\ process = "starting"
  /\ source = "kafka"
  /\ Fault
  /\ Become("stopping")
  /\ UNCHANGED <<dialogues, reception>>

(* SIGTERM: uvicorn takes no more requests. *)
Terminate ==
  /\ process = "up"
  /\ Fault
  /\ Become("draining")
  /\ UNCHANGED <<dialogues, reception>>

(* Variant: without waiting for the requests. *)
ShutdownAtOnce ==
  /\ process = "draining"
  /\ Become("stopping")
  /\ StopConsumer
  /\ UNCHANGED dialogues

Shutdown ==
  /\ process = "draining"
  /\ Posting = {}
  /\ Become("stopping")
  /\ StopConsumer
  /\ UNCHANGED dialogues

(* telegram_app.stop() waits for the handler that is running; then the loop *)
(* ends, with whatever is left in it.                                       *)
Exit ==
  /\ process = "stopping"
  /\ Idle
  /\ Become("down")
  /\ Forget
  /\ Lose
  /\ UNCHANGED <<scrapper, reread, faults>>

Crash ==
  /\ process # "down"
  /\ Fault
  /\ process' = "down"
  /\ crashed' = TRUE
  /\ Forget
  /\ Abandoned
  /\ Lose
  /\ reread' = (reread \/ committed # position)
  /\ UNCHANGED load

Lifespan == Boot \/ Serve \/ ServeFails \/ Terminate \/ Shutdown \/ Exit \/ Crash

------------------------------------------------------------------------------

Here == UNCHANGED <<load, process, crashed>>

(* What python-telegram-bot has received it hands out until it is stopped. *)
Talk ==
  /\ process # "down"
  /\ load.talks
  /\ \E c \in Convs : Message(c)
  /\ UNCHANGED reception
  /\ Here

(* The scrapper's answer, what the handler does with it, and the breaker's *)
(* clock.                                                                  *)
Await ==
  /\ process # "down"
  /\ Calling \/ Elapse
  /\ UNCHANGED reception
  /\ Here

Consume == Consuming /\ UNCHANGED dialogues /\ Here

AcceptPost ==
  /\ process = "up"
  /\ \E r \in Requests : load.posted[r] # {} /\ Post(r, load.posted[r])
  /\ UNCHANGED <<dialogues, faults>>
  /\ Here

ServePost ==
  /\ process # "down"
  /\ Serving
  /\ UNCHANGED dialogues
  /\ Here

Next == Lifespan \/ Talk \/ Await \/ Consume \/ AcceptPost \/ ServePost

Spec == Init /\ [][Next]_vars

(* The container is restarted; shutdown() goes on; tasks that can run do.   *)
Fairness ==
  /\ WF_vars(Boot)
  /\ WF_vars(Serve)
  /\ WF_vars(Shutdown)
  /\ WF_vars(Exit)
  /\ WF_vars(Calling /\ UNCHANGED reception /\ Here)
  /\ WF_vars(Consume)
  /\ WF_vars(ServePost)

FairSpec == Spec /\ Fairness

------------------------------------------------------------------------------
(* Properties *)

(* Every variable holds a value the code can give it; there is a consumer  *)
(* only where the source is Kafka and the process has got as far as that,  *)
(* and a request in hand only while the socket is open or being drained.   *)
TypeOK ==
  /\ DialoguesTypeOK
  /\ faults \in 0..MaxFaults
  /\ load \in Loads
  /\ source = load.source
  /\ topic = load.topic
  /\ {position, committed} \subseteq 1..(Len(topic) + 1)
  /\ consumer \in {"off", "running", "ended"}
  /\ toTell \subseteq Chats
  /\ told \in [Chats -> Seq(DOMAIN topic)]
  /\ posts \in [Requests -> [at : {"none", "telling", "ok", "error", "cut"},
                             left : SUBSET Chats]]
  /\ process \in {"down", "starting", "up", "draining", "stopping"}
  /\ {crashed, reread} \subseteq BOOLEAN
  /\ consumer # "off" => source = "kafka" /\ process \in {"up", "draining"}
  /\ Posting # {} => process \in {"up", "draining"}
  /\ process = "down" => Idle

Passed == IF consumer = "off" THEN committed ELSE position

InHand(o, c) == consumer # "off" /\ o = position - 1 /\ c \in toTell

(* The updates the group is past that some chat will not be told of. *)
Lost ==
  {o \in DOMAIN topic :
     /\ o < Passed
     /\ topic[o].kind = "update"
     /\ \E c \in topic[o].chats : o \notin Elems(told[c]) /\ ~InHand(o, c)}

(* Offsets are committed before the chats are told, so a stop or a crash   *)
(* may lose the update in hand: never more than one each.                  *)
LossBounded == Cardinality(Lost) <= faults

(* As long as every consumer that goes has committed its position, stops,   *)
(* crashes and restarts neither repeat an update for a chat nor let an      *)
(* older one follow a newer one.                                            *)
InOrder ==
  ~reread => \A c \in Chats : \A i, j \in DOMAIN told[c] :
               i < j => told[c][i] < told[c][j]

(* A post that was accepted gets its answer, whether the service is stopped *)
(* meanwhile or not: uvicorn lets go of its requests before the lifespan    *)
(* lets go of the bot.  Only a crash leaves one without.                    *)
EveryPostAnswered ==
  \A r \in Requests :
    posts[r].at = "telling" ~> posts[r].at \in {"ok", "error"} \/ crashed

Bad == \E o \in DOMAIN topic : topic[o].kind # "update"

(* Every handler that waits for the scrapper gets its answer, an error or   *)
(* the breaker's refusal, unless the process ends: updates from Telegram    *)
(* are handled one at a time, so a wait without end would silence the bot.  *)
EveryCallReturns == ~Idle ~> Idle

(* A topic without bad records is consumed to its end, over every stop and *)
(* crash: the consumer's loop does not end by itself.                      *)
EventuallyConsumed ==
  source = "kafka" /\ ~Bad =>
    <>[](consumer = "running" /\ position = Len(topic) + 1 /\ toTell = {})
==============================================================================
