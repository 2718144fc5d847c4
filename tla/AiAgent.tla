------------------------------- MODULE AiAgent -------------------------------
(***************************************************************************)
(* The AI agent: services/handler.py with the Kafka client it drives.  Two *)
(* tasks share the buffer under one asyncio.Lock: the process task reads   *)
(* the raw topic and buffers per chat; the flush task pops the chats whose *)
(* window has ended and publishes them, holding the lock while a send is   *)
(* awaited.  stop() cancels both, flushes once more and closes the Kafka   *)
(* clients.  A step is what runs between two suspension points.            *)
(***************************************************************************)
EXTENDS AgentText, Sequences, FiniteSets

CONSTANTS
  Chats,            \* tgChatIds
  Authors,
  Texts,            \* descriptions, as [len, words] records
  Topics,           \* contents the raw topic may have
  Window,           \* GROUPING_WINDOW_MS, in ticks
  MaxLength,        \* bound on the length of the raw topic
  MaxDisruptions    \* bound on stops, crashes and failed sends

Kinds == {"garbled", "malformed", "update"}

(* A record of the raw topic.  "garbled" does not decode, "malformed" is    *)
(* JSON but no RawUpdate; only an "update" has the other fields.           *)
RawMessages ==
  [kind : Kinds, author : Authors, text : Texts, chats : SUBSET Chats]

ASSUME AgentAssumption ==
  /\ Topics \subseteq Seq(RawMessages)
  /\ MaxLength \in Nat
  /\ \A t \in Topics : Len(t) <= MaxLength
  /\ Window \in Nat \ {0}
  /\ MaxDisruptions \in Nat

NoStamp == -1
NoOffset == 0

VARIABLES
  topic,        \* the raw topic; offsets are 1..Len(topic)
  position,     \* the consumer's next offset
  committed,    \* the offset committed for the consumer group
  procTask,     \* the process task: at its poll, waiting for the lock, ended
  inHand,       \* the offset it waits with
  buffer,       \* _buffer: per chat, offsets not yet published
  age,          \* now - _buffer_timestamps[c], saturating at Window
  lock,         \* the holder of _lock across suspension points
  expired,      \* expired_chats still to be visited
  sending,      \* per chat, the offsets popped and not yet acknowledged
  flushTask,    \* the flush task
  phase,        \* _running and how far stop() has come
  published,    \* per buffered chat, the records sent for it
  disruptions   \* stops, crashes and failed sends so far

kafka == <<topic, position, committed>>
process == <<procTask, inHand>>
flush == <<lock, expired, sending, flushTask>>
vars == <<kafka, process, buffer, age, flush, phase, published, disruptions>>

Nothing == [c \in Chats |-> <<>>]
NoStamps == [c \in Chats |-> NoStamp]

Elems(s) == {s[i] : i \in DOMAIN s}

(* The record parses as a RawUpdate and the filter lets it through. *)
Kept(o) == topic[o].kind = "update" /\ ~ShouldSkip(topic[o])

(* Variant: a group goes to all the chats of its first update. *)
RecordForFirst(c, items) ==
  [items    |-> items,
   chats    |-> topic[items[1]].chats,
   priority |-> MaxPriority({PriorityOf(topic[o]) : o \in Elems(items)})]

(* The broker's side of a record sent for chat c.  A lone update goes out  *)
(* as it was buffered, for all of its chats; a group goes to c alone.      *)
RecordFor(c, items) ==
  [items    |-> items,
   chats    |-> IF Len(items) = 1 THEN topic[items[1]].chats ELSE {c},
   priority |-> MaxPriority({PriorityOf(topic[o]) : o \in Elems(items)})]

Init ==
  /\ topic \in Topics
  /\ position = 1
  /\ committed = 1
  /\ procTask = "poll"
  /\ inHand = NoOffset
  /\ buffer = Nothing
  /\ age = NoStamps
  /\ lock = "free"
  /\ expired = {}
  /\ sending = Nothing
  /\ flushTask = "alive"
  /\ phase = "running"
  /\ published = Nothing
  /\ disruptions = 0

------------------------------------------------------------------------------
(* The process task *)

(* Variants: an update replaces, or is put before, what the chat's buffer  *)
(* already holds.                                                          *)
BufferedAlone(o) ==
  /\ buffer' = [c \in Chats |-> IF c \in topic[o].chats THEN <<o>> ELSE buffer[c]]
  /\ age' = [c \in Chats |->
               IF c \in topic[o].chats /\ age[c] = NoStamp THEN 0 ELSE age[c]]

BufferedInFront(o) ==
  /\ buffer' = [c \in Chats |->
                  IF c \in topic[o].chats THEN <<o>> \o buffer[c] ELSE buffer[c]]
  /\ age' = [c \in Chats |->
               IF c \in topic[o].chats /\ age[c] = NoStamp THEN 0 ELSE age[c]]

(* The body of _process_message under the lock. *)
Buffered(o) ==
  /\ buffer' = [c \in Chats |->
                  IF c \in topic[o].chats THEN Append(buffer[c], o) ELSE buffer[c]]
  /\ age' = [c \in Chats |->
               IF c \in topic[o].chats /\ age[c] = NoStamp THEN 0 ELSE age[c]]

CanPoll ==
  /\ procTask = "poll"
  /\ position <= Len(topic)

(* A record that does not decode ends the loop; whether the client has     *)
(* already moved past it when it raises is the client's affair.            *)
PollGarbled ==
  /\ CanPoll
  /\ topic[position].kind = "garbled"
  /\ procTask' = "done"
  /\ position' \in {position, position + 1}
  /\ UNCHANGED <<topic, committed, inHand, buffer, age, flush, phase, published,
                 disruptions>>

(* A message that does not parse or is filtered is dropped. *)
PollDropped ==
  /\ CanPoll
  /\ topic[position].kind # "garbled"
  /\ ~Kept(position)
  /\ position' = position + 1
  /\ UNCHANGED <<topic, committed, process, buffer, age, flush, phase, published,
                 disruptions>>

(* With the lock free nothing suspends between the poll and the buffer. *)
PollBuffered ==
  /\ CanPoll
  /\ Kept(position)
  /\ lock = "free"
  /\ position' = position + 1
  /\ Buffered(position)
  /\ UNCHANGED <<topic, committed, process, flush, phase, published, disruptions>>

(* During a flush the task suspends on the lock, message in hand. *)
PollBlocked ==
  /\ CanPoll
  /\ Kept(position)
  /\ lock # "free"
  /\ position' = position + 1
  /\ procTask' = "lock"
  /\ inHand' = position
  /\ UNCHANGED <<topic, committed, buffer, age, flush, phase, published, disruptions>>

AcquireAndBuffer ==
  /\ procTask = "lock"
  /\ lock = "free"
  /\ Buffered(inHand)
  /\ procTask' = "poll"
  /\ inHand' = NoOffset
  /\ UNCHANGED <<kafka, flush, phase, published, disruptions>>

Process ==
  PollGarbled \/ PollDropped \/ PollBuffered \/ PollBlocked \/ AcquireAndBuffer

------------------------------------------------------------------------------
(* Time and the client's background commit *)

Live == phase \in {"running", "stopping", "final", "closing"}

Tick ==
  /\ Live
  /\ \E c \in Chats : age[c] \in 0..(Window - 1)
  /\ age' = [c \in Chats |-> IF age[c] \in 0..(Window - 1) THEN age[c] + 1 ELSE age[c]]
  /\ UNCHANGED <<kafka, process, buffer, flush, phase, published, disruptions>>

(* enable_auto_commit commits what the iterator has handed out, processed  *)
(* or not.                                                                 *)
AutoCommit ==
  /\ Live
  /\ committed # position
  /\ committed' = position
  /\ UNCHANGED <<topic, position, process, buffer, age, flush, phase, published,
                 disruptions>>

------------------------------------------------------------------------------
(* The flush task, and the flush stop() runs itself *)

ExpiredChats == {c \in Chats : age[c] = Window}

(* A wake-up that finds nothing expired changes nothing.  asyncio.Lock is  *)
(* fair: a process task that waits for the lock gets it first.             *)
FlushWake ==
  /\ flushTask = "alive"
  /\ phase = "running"
  /\ lock = "free"
  /\ procTask # "lock"
  /\ ExpiredChats # {}
  /\ lock' = "flush"
  /\ expired' = ExpiredChats
  /\ UNCHANGED <<kafka, process, buffer, age, sending, flushTask, phase, published,
                 disruptions>>

Idle == sending = Nothing

(* Variants: the buffer, or its timestamp as well, is read and not popped. *)
FlushNextBufferKept ==
  /\ lock # "free"
  /\ Idle
  /\ \E c \in expired :
       /\ expired' = expired \ {c}
       /\ sending' = [sending EXCEPT ![c] = buffer[c]]
       /\ age' = [age EXCEPT ![c] = NoStamp]
  /\ UNCHANGED <<kafka, process, buffer, lock, flushTask, phase, published, disruptions>>

FlushNextNothingPopped ==
  /\ lock # "free"
  /\ Idle
  /\ \E c \in expired :
       /\ expired' = expired \ {c}
       /\ sending' = [sending EXCEPT ![c] = buffer[c]]
  /\ UNCHANGED <<kafka, process, buffer, age, lock, flushTask, phase, published,
                 disruptions>>

(* The next expired chat is popped, then its send is awaited. *)
FlushNext ==
  /\ lock # "free"
  /\ Idle
  /\ \E c \in expired :
       /\ expired' = expired \ {c}
       /\ sending' = [sending EXCEPT ![c] = buffer[c]]
       /\ buffer' = [buffer EXCEPT ![c] = <<>>]
       /\ age' = [age EXCEPT ![c] = NoStamp]
  /\ UNCHANGED <<kafka, process, lock, flushTask, phase, published, disruptions>>

SendOk ==
  \E c \in Chats :
    /\ sending[c] # <<>>
    /\ published' = [published EXCEPT ![c] = Append(@, RecordFor(c, sending[c]))]
    /\ sending' = [sending EXCEPT ![c] = <<>>]
    /\ UNCHANGED <<kafka, process, buffer, age, lock, expired, flushTask, phase,
                   disruptions>>

Disrupt ==
  /\ disruptions < MaxDisruptions
  /\ disruptions' = disruptions + 1

(* _send_to_kafka logs and swallows the error; the update was popped. *)
SendFails ==
  \E c \in Chats :
    /\ sending[c] # <<>>
    /\ Disrupt
    /\ sending' = [sending EXCEPT ![c] = <<>>]
    /\ UNCHANGED <<kafka, process, buffer, age, lock, expired, flushTask, phase,
                   published>>

(* Variant: the task flushes once and ends. *)
FlushDoneOnce ==
  /\ flushTask = "alive"
  /\ lock = "flush"
  /\ Idle
  /\ expired = {}
  /\ lock' = "free"
  /\ flushTask' = "done"
  /\ UNCHANGED <<kafka, process, buffer, age, expired, sending, phase, published,
                 disruptions>>

(* The lock is released.  The loop goes round only while _running. *)
FlushDone ==
  /\ flushTask = "alive"
  /\ lock = "flush"
  /\ Idle
  /\ expired = {}
  /\ lock' = "free"
  /\ flushTask' = IF phase = "running" THEN "alive" ELSE "done"
  /\ UNCHANGED <<kafka, process, buffer, age, expired, sending, phase, published,
                 disruptions>>

------------------------------------------------------------------------------
(* stop(), crashes and restarts *)

(* _running = False, and the process task is cancelled and awaited: a      *)
(* message it was waiting with is gone, and the flush task may go on.      *)
Stop ==
  /\ phase = "running"
  /\ Disrupt
  /\ phase' = "stopping"
  /\ procTask' = "done"
  /\ inHand' = NoOffset
  /\ UNCHANGED <<kafka, buffer, age, flush, published>>

(* Variant: a cancelled flush does not release the lock. *)
CancelFlushLocked ==
  /\ phase = "stopping"
  /\ phase' = "final"
  /\ expired' = {}
  /\ sending' = Nothing
  /\ flushTask' = "done"
  /\ UNCHANGED <<kafka, process, buffer, age, lock, published, disruptions>>

(* Then the flush task: a cancelled send releases the lock on its way out. *)
(* A send that the broker had stored by then is SendOk before this step.   *)
CancelFlush ==
  /\ phase = "stopping"
  /\ phase' = "final"
  /\ lock' = "free"
  /\ expired' = {}
  /\ sending' = Nothing
  /\ flushTask' = "done"
  /\ UNCHANGED <<kafka, process, buffer, age, published, disruptions>>

(* stop() calls _flush_expired, which only takes windows that have ended. *)
FinalFlush ==
  /\ phase = "final"
  /\ lock = "free"
  /\ lock' = "stop"
  /\ expired' = ExpiredChats
  /\ UNCHANGED <<kafka, process, buffer, age, sending, flushTask, phase, published,
                 disruptions>>

FinalFlushDone ==
  /\ lock = "stop"
  /\ Idle
  /\ expired = {}
  /\ lock' = "free"
  /\ phase' = "closing"
  /\ UNCHANGED <<kafka, process, buffer, age, expired, sending, flushTask, published,
                 disruptions>>

(* What a process that ends leaves behind. *)
VolatileGone ==
  /\ procTask' = "done"
  /\ inHand' = NoOffset
  /\ buffer' = Nothing
  /\ age' = NoStamps
  /\ lock' = "free"
  /\ expired' = {}
  /\ sending' = Nothing
  /\ flushTask' = "done"

(* consumer.stop() commits once more; then the process exits. *)
Close ==
  /\ phase = "closing"
  /\ phase' = "down"
  /\ committed' = position
  /\ VolatileGone
  /\ UNCHANGED <<topic, position, published, disruptions>>

Crash ==
  /\ Live
  /\ Disrupt
  /\ phase' = "down"
  /\ VolatileGone
  /\ UNCHANGED <<kafka, published>>

(* Variant: reading resumes at the record before the committed offset. *)
RestartAtLast ==
  /\ phase = "down"
  /\ phase' = "running"
  /\ procTask' = "poll"
  /\ flushTask' = "alive"
  /\ position' = committed - 1
  /\ UNCHANGED <<topic, committed, inHand, buffer, age, lock, expired, sending,
                 published, disruptions>>

(* start(): a new Handler, resuming at the group's committed offset. *)
Restart ==
  /\ phase = "down"
  /\ phase' = "running"
  /\ procTask' = "poll"
  /\ flushTask' = "alive"
  /\ position' = committed
  /\ UNCHANGED <<topic, committed, inHand, buffer, age, lock, expired, sending,
                 published, disruptions>>

------------------------------------------------------------------------------

Flush == FlushWake \/ FlushNext \/ SendOk \/ SendFails \/ FlushDone
Shutdown == Stop \/ CancelFlush \/ FinalFlush \/ FinalFlushDone \/ Close

Next == Process \/ Tick \/ AutoCommit \/ Flush \/ Shutdown \/ Crash \/ Restart

Spec == Init /\ [][Next]_vars

(* The event loop runs every task that can run, timers fire, and a send    *)
(* ends one way or the other (aiokafka gives up after its timeout).        *)
Fairness ==
  /\ WF_vars(Process)
  /\ WF_vars(Tick)
  /\ WF_vars(FlushWake)
  /\ WF_vars(FlushNext)
  /\ WF_vars(SendOk \/ SendFails)
  /\ WF_vars(FlushDone)
  /\ WF_vars(CancelFlush)
  /\ WF_vars(FinalFlush)
  /\ WF_vars(FinalFlushDone)
  /\ WF_vars(Close)

FairSpec == Spec /\ Fairness

------------------------------------------------------------------------------
(* Properties *)

Offsets == 1..MaxLength

(* The records of the processed topic. *)
Records == [items : Seq(Offsets), chats : SUBSET Chats, priority : Priorities]

TypeOK ==
  /\ topic \in Topics
  /\ position \in 1..(Len(topic) + 1)
  /\ committed \in 1..(Len(topic) + 1)
  /\ procTask \in {"poll", "lock", "done"}
  /\ inHand \in Offsets \cup {NoOffset}
  /\ buffer \in [Chats -> Seq(Offsets)]
  /\ age \in [Chats -> NoStamp..Window]
  /\ lock \in {"free", "flush", "stop"}
  /\ expired \subseteq Chats
  /\ sending \in [Chats -> Seq(Offsets)]
  /\ flushTask \in {"alive", "done"}
  /\ phase \in {"running", "stopping", "final", "closing", "down"}
  /\ published \in [Chats -> Seq(Records)]
  /\ disruptions \in 0..MaxDisruptions

(* A chat has a window running exactly when updates are buffered for it:   *)
(* _buffer and _buffer_timestamps never part.  A buffer without a stamp    *)
(* would never be flushed, a stamp without a buffer would flush nothing.   *)
BufferStamped ==
  \A c \in Chats : age[c] = NoStamp <=> buffer[c] = <<>>

Due(c, o) == o \in DOMAIN topic /\ Kept(o) /\ c \in topic[o].chats

ReachedChat(c, o) == \E i \in DOMAIN published[c] : o \in Elems(published[c][i].items)

(* While nothing stops, crashes or fails to send, every update the filter  *)
(* let through is, for each of its chats, in the process task's hand, in   *)
(* the buffer, on its way or published, wherever the two tasks are.        *)
NothingLost ==
  disruptions = 0 =>
    \A o \in 1..(position - 1) : \A c \in Chats :
      Due(c, o) => \/ o = inHand
                   \/ o \in Elems(buffer[c])
                   \/ o \in Elems(sending[c])
                   \/ ReachedChat(c, o)

Before(s, t) == \A i \in DOMAIN s : \A j \in DOMAIN t : s[i] < t[j]

(* Nor is any update grouped twice for a chat, or after a later one: each  *)
(* group is older than the next, than what is being sent or buffered for   *)
(* its chat, and than the message the process task waits with.             *)
NothingTwice ==
  disruptions = 0 =>
    \A c \in Chats : \A i \in DOMAIN published[c] :
      /\ \A j \in DOMAIN published[c] :
           i < j => Before(published[c][i].items, published[c][j].items)
      /\ Before(published[c][i].items, sending[c])
      /\ Before(published[c][i].items, buffer[c])
      /\ inHand # NoOffset => Before(published[c][i].items, <<inHand>>)

(* What the output topic says of its items, after any disruption: a record *)
(* names the chat it was grouped for, only chats that every item was meant *)
(* for, and a priority no lower than that of any item.                     *)
RecordsFaithful ==
  \A c \in Chats : \A i \in DOMAIN published[c] :
    LET record == published[c][i] IN
      /\ c \in record.chats
      /\ \A o \in Elems(record.items) :
           /\ record.chats \subseteq topic[o].chats
           /\ PriorityValue(PriorityOf(topic[o])) <= PriorityValue(record.priority)

(* The last offset buffered or dropped: not the one the lock holds back. *)
Accepted == IF inHand # NoOffset THEN inHand - 1 ELSE position - 1

Keeping == [c \in Chats |-> sending[c] \o buffer[c]]

Groups == [c \in Chats |-> [i \in 1..Len(published[c]) |-> published[c][i].items]]

(* The agent implements the channel: _buffer and a send in flight are what *)
(* it keeps for a chat, and each record for the chat is one whole group.   *)
Channel == INSTANCE GroupedChannel WITH
  high <- Accepted, pending <- Keeping, published <- Groups

ChannelSpec == Channel!Spec

(* No record before o stops the process task. *)
Readable(o) == o \in DOMAIN topic /\ \A p \in 1..o : topic[p].kind # "garbled"

(* Every update the filter lets through ends up published for each of its  *)
(* chats, unless something stops, crashes or fails to send, or a record    *)
(* that does not decode has ended the process task.                        *)
EventuallyPublished ==
  \A c \in Chats : \A o \in 1..MaxLength :
    (phase = "running" /\ Readable(o) /\ Due(c, o))
      ~> (ReachedChat(c, o) \/ disruptions > 0)

(* stop() comes to an end whatever the tasks were doing when it was called. *)
ShutdownEnds == phase = "stopping" ~> phase = "down"

(* README.md, "Группировка": an update is merged into one message per chat *)
(* and window, so a chat is named by no more than one published record of  *)
(* an update that arrives once.                                            *)
OneMessagePerUpdate ==
  disruptions = 0 =>
    \A c, d, e \in Chats : \A i \in DOMAIN published[c] : \A j \in DOMAIN published[d] :
      (/\ Elems(published[c][i].items) \cap Elems(published[d][j].items) # {}
       /\ e \in published[c][i].chats \cap published[d][j].chats)
        => c = d /\ i = j

(* The docstring of stop(): a final sending of the buffer.  Once stop()    *)
(* goes on to close the Kafka clients the buffer is empty.                 *)
FinalFlushDrainsBuffer == phase = "closing" => buffer = Nothing

==============================================================================
