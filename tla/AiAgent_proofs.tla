---------------------------- MODULE AiAgent_proofs ----------------------------
(***************************************************************************)
(* The safety properties of the AI agent for any chats, topic, window and  *)
(* number of disruptions, and that it implements GroupedChannel.           *)
(***************************************************************************)
EXTENDS AiAgent, SequenceTheorems, TLAPS

(* Where the two tasks and stop() can be relative to one another. *)
Coordination ==
  /\ procTask = "lock" <=> inHand # NoOffset
  /\ inHand # NoOffset =>
       inHand = position - 1 /\ inHand \in DOMAIN topic /\ Kept(inHand)
  /\ phase # "running" => procTask = "done" /\ disruptions > 0
  /\ phase = "down" => buffer = Nothing /\ lock = "free"
  /\ lock = "free" => sending = Nothing
  /\ lock = "stop" => phase = "final"
  /\ committed <= position

(* A chat's updates are not buffered again before its send has ended. *)
OneAtATime == \A c \in Chats : sending[c] = <<>> \/ buffer[c] = <<>>

(* The first offset not yet buffered or dropped. *)
Frontier == IF inHand # NoOffset THEN inHand ELSE position

(* What the agent keeps for a chat was meant for it and is behind the      *)
(* frontier; what it has published as well, while nothing was disrupted.   *)
KeptInPlace ==
  \A c \in Chats :
    /\ \A i \in DOMAIN buffer[c] : Due(c, buffer[c][i]) /\ buffer[c][i] < Frontier
    /\ \A i \in DOMAIN sending[c] : Due(c, sending[c][i]) /\ sending[c][i] < Frontier

PublishedBehind ==
  disruptions = 0 =>
    \A c \in Chats : \A i \in DOMAIN published[c] :
      \A j \in DOMAIN published[c][i].items : published[c][i].items[j] < Frontier

Placement == KeptInPlace /\ OneAtATime

IInv ==
  /\ TypeOK
  /\ Coordination
  /\ BufferStamped
  /\ Placement
  /\ RecordsFaithful
  /\ PublishedBehind
  /\ NothingTwice
  /\ NothingLost

------------------------------------------------------------------------------
(* The data *)

LEMMA TopicType ==
  ASSUME topic \in Topics
  PROVE  /\ topic \in Seq(RawMessages)
         /\ Len(topic) \in Nat
         /\ DOMAIN topic = 1..Len(topic)
         /\ DOMAIN topic \subseteq Offsets
         /\ \A o \in 1..Len(topic) : topic[o] \in RawMessages
         /\ \A o \in 1..Len(topic) : topic[o].chats \subseteq Chats
<1>1. topic \in Seq(RawMessages)
  BY AgentAssumption
<1>2. Len(topic) \in Nat /\ \A o \in 1..Len(topic) : topic[o] \in RawMessages
  BY <1>1
<1>3. \A raw \in RawMessages : raw.chats \in SUBSET Chats
  BY DEF RawMessages
<1>4. Len(topic) <= MaxLength /\ MaxLength \in Nat
  BY AgentAssumption
<1>5. DOMAIN topic = 1..Len(topic) /\ DOMAIN topic \subseteq Offsets
  BY <1>1, <1>2, <1>4 DEF Offsets
<1> QED
  BY <1>1, <1>2, <1>3, <1>5

LEMMA PriorityType == \A raw : PriorityOf(raw) \in Priorities
BY DEF PriorityOf, Priority, Priorities

(* max() over a non-empty list of priorities. *)
LEMMA MaxPriorityIsMax ==
  ASSUME NEW P \in SUBSET Priorities, P # {}
  PROVE  /\ MaxPriority(P) \in P
         /\ \A p \in P : PriorityValue(p) <= PriorityValue(MaxPriority(P))
<1>1. \E p \in P : \A q \in P : PriorityValue(q) <= PriorityValue(p)
  <2>1. CASE "HIGH" \in P
    BY <2>1 DEF Priorities, PriorityValue
  <2>2. CASE "HIGH" \notin P /\ "MEDIUM" \in P
    BY <2>2 DEF Priorities, PriorityValue
  <2>3. CASE P = {"LOW"}
    BY <2>3 DEF PriorityValue
  <2> QED
    BY <2>1, <2>2, <2>3 DEF Priorities
<1> QED
  BY <1>1 DEF MaxPriority

LEMMA ElemsAppend ==
  ASSUME NEW S, NEW s \in Seq(S), NEW e \in S
  PROVE  Elems(Append(s, e)) = Elems(s) \cup {e}
<1>1. \A i \in DOMAIN s : Append(s, e)[i] = s[i] /\ i \in DOMAIN Append(s, e)
  OBVIOUS
<1>2. Len(s) + 1 \in DOMAIN Append(s, e) /\ Append(s, e)[Len(s) + 1] = e
  OBVIOUS
<1>3. \A i \in DOMAIN Append(s, e) : i \in DOMAIN s \/ i = Len(s) + 1
  OBVIOUS
<1> QED
  BY <1>1, <1>2, <1>3, Zenon DEF Elems

(* The record made of a non-empty list of updates. *)
LEMMA RecordForType ==
  ASSUME topic \in Topics, NEW c \in Chats, NEW items \in Seq(Offsets),
         items # <<>>, \A i \in DOMAIN items : Due(c, items[i])
  PROVE  /\ RecordFor(c, items) \in Records
         /\ RecordFor(c, items).items = items
         /\ RecordFor(c, items).chats
              = IF Len(items) = 1 THEN topic[items[1]].chats ELSE {c}
         /\ \A o \in Elems(items) :
              PriorityValue(PriorityOf(topic[o]))
                <= PriorityValue(RecordFor(c, items).priority)
<1> DEFINE P == {PriorityOf(topic[o]) : o \in Elems(items)}
<1>1. 1 \in DOMAIN items /\ items[1] \in DOMAIN topic
  BY DEF Due
<1>2. P \in SUBSET Priorities /\ P # {}
  BY <1>1, PriorityType DEF Elems
<1>3. /\ MaxPriority(P) \in Priorities
      /\ \A p \in P : PriorityValue(p) <= PriorityValue(MaxPriority(P))
  BY <1>2, MaxPriorityIsMax
<1>4. /\ RecordFor(c, items).priority = MaxPriority(P)
      /\ RecordFor(c, items).items = items
      /\ RecordFor(c, items).chats
           = IF Len(items) = 1 THEN topic[items[1]].chats ELSE {c}
  BY DEF RecordFor
<1>5. RecordFor(c, items).chats \subseteq Chats
  BY <1>1, <1>4, TopicType
<1>6. RecordFor(c, items) \in Records
  BY <1>3, <1>4, <1>5 DEF RecordFor, Records
<1> QED
  BY <1>3, <1>4, <1>6

(* If every update was meant for c, the record is addressed faithfully. *)
LEMMA RecordForAddresses ==
  ASSUME topic \in Topics, NEW c \in Chats, NEW items \in Seq(Offsets),
         items # <<>>, \A i \in DOMAIN items : Due(c, items[i])
  PROVE  /\ c \in RecordFor(c, items).chats
         /\ \A o \in Elems(items) : RecordFor(c, items).chats \subseteq topic[o].chats
<1>1. 1 \in DOMAIN items
  OBVIOUS
<1>2. \A i \in DOMAIN items : c \in topic[items[i]].chats
  BY DEF Due
<1>3. RecordFor(c, items).chats = IF Len(items) = 1 THEN topic[items[1]].chats ELSE {c}
  BY RecordForType
<1>4. CASE Len(items) = 1
  <2>1. DOMAIN items = {1}
    BY <1>4
  <2> QED
    BY <1>2, <1>3, <1>4, <2>1 DEF Elems
<1>5. CASE Len(items) # 1
  BY <1>2, <1>3, <1>5 DEF Elems
<1> QED
  BY <1>4, <1>5

------------------------------------------------------------------------------
(* Type correctness *)

LEMMA TypeInit == Init => TypeOK
<1> SUFFICES ASSUME Init PROVE TypeOK
  OBVIOUS
<1> USE DEF Init
<1>1. Len(topic) \in Nat
  BY TopicType
<1>2. Nothing \in [Chats -> Seq(Offsets)]
  BY DEF Nothing
<1>3. published \in [Chats -> Seq(Records)]
  BY DEF Nothing
<1>4. age \in [Chats -> NoStamp..Window]
  BY AgentAssumption DEF NoStamps, NoStamp
<1>5. position \in 1..(Len(topic) + 1) /\ committed \in 1..(Len(topic) + 1)
  BY <1>1
<1>6. inHand \in 0..Len(topic) /\ disruptions \in 0..MaxDisruptions
  BY <1>1, AgentAssumption DEF NoOffset
<1> QED
  BY <1>2, <1>3, <1>4, <1>5, <1>6 DEF TypeOK

LEMMA TypeStep == TypeOK /\ Coordination /\ Placement /\ [Next]_vars => TypeOK'
<1> SUFFICES ASSUME TypeOK, Coordination, Placement, [Next]_vars PROVE TypeOK'
  OBVIOUS
<1> USE DEF TypeOK
<1>0. /\ Len(topic) \in Nat
      /\ Nothing \in [Chats -> Seq(Offsets)]
      /\ NoStamps \in [Chats -> NoStamp..Window]
  BY TopicType, AgentAssumption DEF Nothing, NoStamps, NoStamp
<1>a. ASSUME NEW o \in Offsets, Buffered(o)
      PROVE  /\ buffer' \in [Chats -> Seq(Offsets)]
             /\ age' \in [Chats -> NoStamp..Window]
  <2>1. ASSUME NEW c \in Chats PROVE Append(buffer[c], o) \in Seq(Offsets)
    OBVIOUS
  <2>2. buffer' \in [Chats -> Seq(Offsets)]
    BY <1>a, <2>1 DEF Buffered
  <2>3. 0 \in NoStamp..Window
    BY AgentAssumption DEF NoStamp
  <2>4. age' \in [Chats -> NoStamp..Window]
    BY <1>a, <2>3 DEF Buffered
  <2> QED
    BY <2>2, <2>4
<1>b. CanPoll => /\ position \in Offsets
                 /\ position + 1 \in 1..(Len(topic) + 1)
  BY <1>0, TopicType DEF CanPoll
<1>c. Disrupt => disruptions' \in 0..MaxDisruptions
  BY AgentAssumption DEF Disrupt
<1>1. CASE PollGarbled
  BY <1>1, <1>b DEF PollGarbled, flush
<1>2. CASE PollDropped
  BY <1>2, <1>b DEF PollDropped, process, flush
<1>3. CASE PollBuffered
  BY <1>3, <1>a, <1>b DEF PollBuffered, process, flush
<1>4. CASE PollBlocked
  BY <1>4, <1>b DEF PollBlocked, flush
<1>5. CASE AcquireAndBuffer
  <2>1. inHand \in Offsets
    BY <1>5, <1>0 DEF AcquireAndBuffer, Coordination, NoOffset
  <2> QED
    BY <1>0, <1>5, <1>a, <2>1 DEF AcquireAndBuffer, kafka, flush, NoOffset
<1>6. CASE Tick
  <2>1. age' \in [Chats -> NoStamp..Window]
    BY <1>6, AgentAssumption DEF Tick, NoStamp
  <2> QED
    BY <1>6, <2>1 DEF Tick, kafka, process, flush
<1>7. CASE AutoCommit
  BY <1>7 DEF AutoCommit, process, flush
<1>8. CASE FlushWake
  BY <1>8 DEF FlushWake, ExpiredChats, kafka, process
<1>9. CASE FlushNext
  <2>1. NoStamp \in NoStamp..Window
    BY AgentAssumption DEF NoStamp
  <2> QED
    BY <1>9, <2>1 DEF FlushNext, kafka, process
<1>10. CASE SendOk
  <2>1. PICK c \in Chats :
          /\ sending[c] # <<>>
          /\ published' = [published EXCEPT ![c] = Append(@, RecordFor(c, sending[c]))]
          /\ sending' = [sending EXCEPT ![c] = <<>>]
    BY <1>10 DEF SendOk
  <2>2. RecordFor(c, sending[c]) \in Records
    BY <2>1, RecordForType DEF Placement, KeptInPlace
  <2>3. published' \in [Chats -> Seq(Records)]
    BY <2>1, <2>2
  <2> QED
    BY <1>10, <2>1, <2>3 DEF SendOk, kafka, process
<1>11. CASE SendFails
  BY <1>11, <1>c DEF SendFails, kafka, process
<1>12. CASE FlushDone
  BY <1>12 DEF FlushDone, kafka, process
<1>13. CASE Stop
  BY <1>0, <1>13, <1>c DEF Stop, kafka, flush, NoOffset
<1>14. CASE CancelFlush
  BY <1>0, <1>14 DEF CancelFlush, kafka, process
<1>15. CASE FinalFlush
  BY <1>15 DEF FinalFlush, ExpiredChats, kafka, process
<1>16. CASE FinalFlushDone
  BY <1>16 DEF FinalFlushDone, kafka, process
<1>17. CASE Close
  BY <1>0, <1>17 DEF Close, VolatileGone, NoOffset
<1>18. CASE Crash
  BY <1>0, <1>18, <1>c DEF Crash, VolatileGone, kafka, NoOffset
<1>19. CASE Restart
  BY <1>19 DEF Restart
<1>20. CASE UNCHANGED vars
  BY <1>20 DEF vars, kafka, process, flush
<1> QED
  BY <1>1, <1>2, <1>3, <1>4, <1>5, <1>6, <1>7, <1>8, <1>9, <1>10, <1>11, <1>12,
     <1>13, <1>14, <1>15, <1>16, <1>17, <1>18, <1>19, <1>20
     DEF Next, Process, Flush, Shutdown

------------------------------------------------------------------------------
(* Steps seen from one variable *)

LEMMA TopicFixed == [Next]_vars => topic' = topic
BY DEF Next, vars, kafka, Process, Flush, Shutdown, PollGarbled, PollDropped,
   PollBuffered, PollBlocked, AcquireAndBuffer, Tick, AutoCommit, FlushWake,
   FlushNext, SendOk, SendFails, FlushDone, Stop, CancelFlush, FinalFlush,
   FinalFlushDone, Close, Crash, Restart

LEMMA OnlySendOkPublishes == [Next]_vars => SendOk \/ published' = published
BY DEF Next, vars, Process, Flush, Shutdown, PollGarbled, PollDropped,
   PollBuffered, PollBlocked, AcquireAndBuffer, Tick, AutoCommit, FlushWake,
   FlushNext, SendFails, FlushDone, Stop, CancelFlush, FinalFlush,
   FinalFlushDone, Close, Crash, Restart

LEMMA DisruptionsGrow ==
  TypeOK /\ [Next]_vars => disruptions' = disruptions \/ disruptions' > 0
BY DEF TypeOK, Next, vars, Disrupt, Process, Flush, Shutdown, PollGarbled,
   PollDropped, PollBuffered, PollBlocked, AcquireAndBuffer, Tick, AutoCommit,
   FlushWake, FlushNext, SendOk, SendFails, FlushDone, Stop, CancelFlush,
   FinalFlush, FinalFlushDone, Close, Crash, Restart

------------------------------------------------------------------------------
(* The coordination of the tasks *)

LEMMA CoordinationStep == TypeOK /\ Coordination /\ [Next]_vars => Coordination'
<1> SUFFICES ASSUME TypeOK, Coordination, [Next]_vars PROVE Coordination'
  OBVIOUS
<1> USE DEF Coordination
<1>0. topic' = topic
  BY TopicFixed
<1>a. CanPoll => /\ position \in DOMAIN topic /\ position \in Nat /\ inHand = NoOffset
                 /\ phase = "running"
  BY TopicType DEF CanPoll, TypeOK, NoOffset
<1>b. /\ position \in Nat \ {0} /\ committed \in Nat /\ disruptions \in Nat
      /\ inHand \in Nat
  BY TopicType, AgentAssumption DEF TypeOK, Offsets, NoOffset
<1>1. CASE PollGarbled
  BY <1>0, <1>1, <1>a, <1>b DEF PollGarbled, CanPoll, flush
<1>2. CASE PollDropped
  BY <1>0, <1>2, <1>a, <1>b DEF PollDropped, CanPoll, process, flush
<1>3. CASE PollBuffered
  BY <1>0, <1>3, <1>a, <1>b DEF PollBuffered, CanPoll, process, flush
<1>4. CASE PollBlocked
  BY <1>0, <1>4, <1>a, <1>b DEF PollBlocked, CanPoll, flush, Kept, NoOffset
<1>5. CASE AcquireAndBuffer
  BY <1>0, <1>5, <1>b DEF AcquireAndBuffer, kafka, flush
<1>6. CASE Tick
  BY <1>0, <1>6, <1>b DEF Tick, Live, kafka, process, flush, Kept
<1>7. CASE AutoCommit
  BY <1>0, <1>7, <1>b DEF AutoCommit, Live, process, flush, Kept
<1>8. CASE FlushWake
  BY <1>0, <1>8, <1>b DEF FlushWake, kafka, process
<1>9. CASE FlushNext
  BY <1>0, <1>9, <1>b DEF FlushNext, Idle, kafka, process, Kept
<1>10. CASE SendOk
  BY <1>0, <1>10, <1>b DEF SendOk, Nothing, kafka, process, Kept
<1>11. CASE SendFails
  BY <1>0, <1>11, <1>b DEF SendFails, Nothing, Disrupt, kafka, process, Kept
<1>12. CASE FlushDone
  BY <1>0, <1>12, <1>b DEF FlushDone, Idle, kafka, process, Kept
<1>13. CASE Stop
  BY <1>0, <1>13, <1>b DEF Stop, Disrupt, kafka, flush
<1>14. CASE CancelFlush
  BY <1>0, <1>14, <1>b DEF CancelFlush, kafka, process
<1>15. CASE FinalFlush
  BY <1>0, <1>15, <1>b DEF FinalFlush, kafka, process
<1>16. CASE FinalFlushDone
  BY <1>0, <1>16, <1>b DEF FinalFlushDone, Idle, kafka, process, Kept
<1>17. CASE Close
  BY <1>0, <1>17, <1>b DEF Close, VolatileGone
<1>18. CASE Crash
  BY <1>0, <1>18, <1>b DEF Crash, VolatileGone, Disrupt, kafka
<1>19. CASE Restart
  BY <1>0, <1>19, <1>b DEF Restart
<1>20. CASE UNCHANGED vars
  BY <1>0, <1>20 DEF vars, kafka, process, flush, Kept
<1> QED
  BY <1>1, <1>2, <1>3, <1>4, <1>5, <1>6, <1>7, <1>8, <1>9, <1>10, <1>11, <1>12,
     <1>13, <1>14, <1>15, <1>16, <1>17, <1>18, <1>19, <1>20
     DEF Next, Process, Flush, Shutdown

------------------------------------------------------------------------------
(* Buffers and timestamps *)

LEMMA StampedByBuffered ==
  ASSUME TypeOK, BufferStamped, NEW o \in Offsets, Buffered(o)
  PROVE  BufferStamped'
<1>1. ASSUME NEW c \in Chats PROVE Append(buffer[c], o) # <<>>
  <2>1. buffer[c] \in Seq(Offsets)
    BY DEF TypeOK
  <2> QED
    BY <2>1
<1>2. ASSUME NEW c \in Chats PROVE age'[c] = NoStamp <=> buffer'[c] = <<>>
  <2>1. CASE c \in topic[o].chats
    <3>1. buffer'[c] # <<>>
      BY <1>1, <2>1 DEF Buffered
    <3>2. age'[c] # NoStamp
      BY <2>1 DEF Buffered, NoStamp
    <3> QED
      BY <3>1, <3>2
  <2>2. CASE c \notin topic[o].chats
    BY <2>2 DEF Buffered, BufferStamped
  <2> QED
    BY <2>1, <2>2
<1> QED
  BY <1>2 DEF BufferStamped

LEMMA StampedStep ==
  TypeOK /\ Coordination /\ BufferStamped /\ [Next]_vars => BufferStamped'
<1> SUFFICES ASSUME TypeOK, Coordination, BufferStamped, [Next]_vars PROVE BufferStamped'
  OBVIOUS
<1>1. CASE PollBuffered
  <2>1. position \in Offsets
    BY <1>1, TopicType DEF PollBuffered, CanPoll, TypeOK
  <2> QED
    BY <1>1, <2>1, StampedByBuffered DEF PollBuffered
<1>2. CASE AcquireAndBuffer
  <2>1. inHand \in Offsets
    BY <1>2, TopicType DEF AcquireAndBuffer, Coordination, TypeOK
  <2> QED
    BY <1>2, <2>1, StampedByBuffered DEF AcquireAndBuffer
<1>3. CASE Tick
  BY <1>3, AgentAssumption DEF Tick, BufferStamped, TypeOK, NoStamp
<1>4. CASE FlushNext
  <2>1. PICK c \in Chats : /\ buffer' = [buffer EXCEPT ![c] = <<>>]
                           /\ age' = [age EXCEPT ![c] = NoStamp]
    BY <1>4 DEF FlushNext, TypeOK
  <2> QED
    BY <2>1 DEF BufferStamped, TypeOK
<1>5. CASE Close \/ Crash
  BY <1>5 DEF Close, Crash, VolatileGone, BufferStamped, Nothing, NoStamps
<1>6. CASE UNCHANGED <<buffer, age>>
  BY <1>6 DEF BufferStamped
<1> QED
  BY <1>1, <1>2, <1>3, <1>4, <1>5, <1>6 DEF Next, vars, Process, Flush, Shutdown,
     PollGarbled, PollDropped, PollBlocked, AutoCommit, FlushWake, SendOk, SendFails,
     FlushDone, Stop, CancelFlush, FinalFlush, FinalFlushDone, Restart

------------------------------------------------------------------------------
(* What the agent keeps *)

(* Both ways an update gets into the buffer: at the poll, with the lock    *)
(* free, and after waiting for it.                                         *)
Enters(o) ==
  /\ Buffered(o)
  /\ o = Frontier
  /\ Frontier' = o + 1
  /\ o \in DOMAIN topic
  /\ Kept(o)
  /\ sending = Nothing
  /\ UNCHANGED <<topic, sending, published, disruptions>>
  /\ inHand' = NoOffset

LEMMA EntersAtFrontier ==
  ASSUME TypeOK, Coordination, PollBuffered \/ AcquireAndBuffer
  PROVE  \E o \in Offsets : Enters(o) /\ position' = o + 1
<1>1. CASE PollBuffered
  BY <1>1, TopicType DEF TypeOK, Coordination, PollBuffered, CanPoll, Enters, Frontier,
     process, flush
<1>2. CASE AcquireAndBuffer
  BY <1>2, TopicType DEF TypeOK, Coordination, AcquireAndBuffer, Enters, Frontier,
     kafka, flush, NoOffset
<1> QED
  BY <1>1, <1>2

(* Any other step leaves each chat's buffer alone, moves it to sending, or *)
(* empties one of the two.                                                 *)
Moves(c) ==
  \/ buffer'[c] = buffer[c] /\ sending'[c] = sending[c]
  \/ sending[c] = <<>> /\ sending'[c] = buffer[c] /\ buffer'[c] = <<>>
  \/ buffer'[c] = buffer[c] /\ sending'[c] = <<>>
  \/ buffer'[c] = <<>> /\ sending'[c] = <<>>

LEMMA EntersOrMoves ==
  ASSUME TypeOK, Coordination, [Next]_vars
  PROVE  \/ \E o \in Offsets : Enters(o) /\ position' = o + 1
         \/ \A c \in Chats : Moves(c)
<1>1. CASE PollBuffered \/ AcquireAndBuffer
  BY <1>1, EntersAtFrontier
<1>2. CASE FlushNext
  <2>1. PICK d \in Chats : /\ sending' = [sending EXCEPT ![d] = buffer[d]]
                           /\ buffer' = [buffer EXCEPT ![d] = <<>>]
    BY <1>2 DEF FlushNext, TypeOK
  <2> QED
    BY <1>2, <2>1 DEF FlushNext, Idle, Nothing, Moves, TypeOK
<1>3. CASE SendOk \/ SendFails
  BY <1>3 DEF SendOk, SendFails, Moves, TypeOK
<1>4. CASE CancelFlush \/ Close \/ Crash
  BY <1>4 DEF CancelFlush, Close, Crash, VolatileGone, Moves, Nothing
<1>5. CASE UNCHANGED <<buffer, sending>>
  BY <1>5 DEF Moves
<1> QED
  BY <1>1, <1>2, <1>3, <1>4, <1>5 DEF Next, vars, Process, Flush, Shutdown, flush,
     PollGarbled, PollDropped, PollBlocked, Tick, AutoCommit, FlushWake,
     FlushDone, Stop, FinalFlush, FinalFlushDone, Restart

(* The frontier only falls back at a restart, when nothing is kept and     *)
(* something has been disrupted.                                           *)
LEMMA FrontierGrows ==
  ASSUME TypeOK, Coordination, [Next]_vars
  PROVE  \/ Frontier' \in Nat /\ Frontier \in Nat /\ Frontier <= Frontier'
         \/ buffer' = Nothing /\ sending' = Nothing /\ disruptions' > 0
<1>0. position \in Nat /\ inHand \in Nat
  BY TopicType DEF TypeOK, Offsets, NoOffset
<1>1. CASE Restart
  BY <1>1 DEF Restart, Coordination
<1>2. CASE Process
  BY <1>0, <1>2 DEF Process, PollGarbled, PollDropped, PollBuffered, PollBlocked,
     AcquireAndBuffer, Frontier, Coordination, kafka, process, CanPoll, NoOffset
<1>3. CASE Stop \/ Close \/ Crash
  BY <1>0, <1>3 DEF Stop, Close, Crash, VolatileGone, Frontier, Coordination, kafka,
     NoOffset
<1>4. CASE UNCHANGED <<position, inHand>>
  BY <1>0, <1>4 DEF Frontier
<1> QED
  BY <1>1, <1>2, <1>3, <1>4 DEF Next, vars, Flush, Shutdown, kafka, process, Tick,
     AutoCommit, FlushWake, FlushNext, SendOk, SendFails, FlushDone, CancelFlush,
     FinalFlush, FinalFlushDone

LEMMA PlacementStep ==
  TypeOK /\ Coordination /\ Placement /\ [Next]_vars => Placement'
<1> SUFFICES ASSUME TypeOK, Coordination, Placement, [Next]_vars PROVE Placement'
  OBVIOUS
<1>0. topic' = topic
  BY TopicFixed
<1>t. \A c \in Chats : buffer[c] \in Seq(Offsets) /\ sending[c] \in Seq(Offsets)
  BY DEF TypeOK
<1>n. \A s \in Seq(Offsets) : \A i \in DOMAIN s : s[i] \in Nat
  BY AgentAssumption DEF Offsets
<1>1. CASE \E o \in Offsets : Enters(o) /\ position' = o + 1
  <2>1. PICK o \in Offsets : Enters(o)
    BY <1>1
  <2>2. \A c \in Chats : sending'[c] = <<>>
    BY <2>1 DEF Enters, Nothing
  <2>3. ASSUME NEW c \in Chats, NEW i \in DOMAIN buffer'[c]
        PROVE  Due(c, buffer'[c][i]) /\ buffer'[c][i] < Frontier'
    <3>1. CASE c \in topic[o].chats /\ i = Len(buffer[c]) + 1
      <4>1. buffer'[c][i] = o
        BY <1>t, <2>1, <3>1 DEF Enters, Buffered
      <4> QED
        BY <2>1, <3>1, <4>1 DEF Enters, Due, Offsets
    <3>2. CASE ~(c \in topic[o].chats /\ i = Len(buffer[c]) + 1)
      <4>1. i \in DOMAIN buffer[c] /\ buffer'[c][i] = buffer[c][i]
        BY <1>t, <2>1, <3>2 DEF Enters, Buffered
      <4>2. Due(c, buffer[c][i]) /\ buffer[c][i] < Frontier
        BY <4>1 DEF Placement, KeptInPlace
      <4> QED
        BY <1>t, <1>n, <2>1, <4>1, <4>2 DEF Enters, Offsets
    <3> QED
      BY <3>1, <3>2
  <2> QED
    BY <1>0, <2>2, <2>3 DEF Placement, KeptInPlace, OneAtATime, Due, Kept
<1>2. CASE /\ \A c \in Chats : Moves(c)
           /\ Frontier' \in Nat /\ Frontier \in Nat /\ Frontier <= Frontier'
  <2>1. ASSUME NEW c \in Chats
        PROVE  /\ \A j \in DOMAIN buffer'[c] :
                    \E k \in DOMAIN buffer[c] : buffer'[c][j] = buffer[c][k]
               /\ \A j \in DOMAIN sending'[c] :
                    \/ \E k \in DOMAIN buffer[c] : sending'[c][j] = buffer[c][k]
                    \/ \E k \in DOMAIN sending[c] : sending'[c][j] = sending[c][k]
               /\ sending'[c] = <<>> \/ buffer'[c] = <<>>
    BY <1>2 DEF Moves, Placement, OneAtATime
  <2>2. \A c \in Chats : \A k \in DOMAIN buffer[c] :
          Due(c, buffer[c][k]) /\ buffer[c][k] < Frontier'
    BY <1>2, <1>t, <1>n DEF Placement, KeptInPlace
  <2>3. \A c \in Chats : \A k \in DOMAIN sending[c] :
          Due(c, sending[c][k]) /\ sending[c][k] < Frontier'
    BY <1>2, <1>t, <1>n DEF Placement, KeptInPlace
  <2>4. KeptInPlace'
    BY <1>0, <2>1, <2>2, <2>3 DEF KeptInPlace, Due, Kept
  <2> QED
    BY <2>1, <2>4 DEF Placement, OneAtATime
<1>3. CASE buffer' = Nothing /\ sending' = Nothing
  BY <1>3 DEF Placement, KeptInPlace, OneAtATime, Nothing
<1> QED
  BY <1>1, <1>2, <1>3, EntersOrMoves, FrontierGrows

------------------------------------------------------------------------------
(* What the agent publishes *)

LEMMA ItemsType ==
  ASSUME TypeOK, NEW c \in Chats
  PROVE  /\ sending[c] \in Seq(Offsets) /\ buffer[c] \in Seq(Offsets)
         /\ published[c] \in Seq(Records)
         /\ \A i \in DOMAIN published[c] : published[c][i].items \in Seq(Offsets)
<1>1. /\ published[c] \in Seq(Records)
      /\ sending[c] \in Seq(Offsets) /\ buffer[c] \in Seq(Offsets)
  BY DEF TypeOK
<1>2. \A i \in DOMAIN published[c] : published[c][i] \in Records
  BY <1>1
<1> QED
  BY <1>1, <1>2 DEF Records

(* A send that ends well adds one faithful record, and nothing else. *)
LEMMA SendOkAppends ==
  ASSUME TypeOK, Placement, SendOk
  PROVE  \E c \in Chats : \E r \in Records :
           /\ sending[c] # <<>>
           /\ r.items = sending[c]
           /\ c \in r.chats
           /\ \A o \in Elems(sending[c]) :
                /\ r.chats \subseteq topic[o].chats
                /\ PriorityValue(PriorityOf(topic[o])) <= PriorityValue(r.priority)
           /\ published' = [published EXCEPT ![c] = Append(@, r)]
           /\ sending' = [sending EXCEPT ![c] = <<>>]
           /\ UNCHANGED <<topic, position, inHand, buffer, disruptions>>
<1>1. PICK c \in Chats :
        /\ sending[c] # <<>>
        /\ published' = [published EXCEPT ![c] = Append(@, RecordFor(c, sending[c]))]
        /\ sending' = [sending EXCEPT ![c] = <<>>]
        /\ UNCHANGED <<topic, position, inHand, buffer, disruptions>>
  BY DEF SendOk, kafka, process
<1>2. topic \in Topics /\ sending[c] \in Seq(Offsets)
  BY DEF TypeOK
<1>3. \A i \in DOMAIN sending[c] : Due(c, sending[c][i])
  BY DEF Placement, KeptInPlace
<1> DEFINE r == RecordFor(c, sending[c])
<1>4. /\ r \in Records /\ r.items = sending[c]
      /\ \A o \in Elems(sending[c]) :
           PriorityValue(PriorityOf(topic[o])) <= PriorityValue(r.priority)
  BY <1>1, <1>2, <1>3, RecordForType
<1>5. c \in r.chats /\ \A o \in Elems(sending[c]) : r.chats \subseteq topic[o].chats
  BY <1>1, <1>2, <1>3, RecordForAddresses
<1> HIDE DEF r
<1>6. published' = [published EXCEPT ![c] = Append(@, r)]
  BY <1>1 DEF r
<1> QED
  BY <1>1, <1>4, <1>5, <1>6

LEMMA FaithfulStep ==
  TypeOK /\ Placement /\ RecordsFaithful /\ [Next]_vars => RecordsFaithful'
<1> SUFFICES ASSUME TypeOK, Placement, RecordsFaithful, [Next]_vars
             PROVE  RecordsFaithful'
  OBVIOUS
<1>0. topic' = topic
  BY TopicFixed
<1>1. CASE SendOk
  <2>1. PICK c \in Chats, r \in Records :
          /\ r.items = sending[c]
          /\ c \in r.chats
          /\ \A o \in Elems(sending[c]) :
               /\ r.chats \subseteq topic[o].chats
               /\ PriorityValue(PriorityOf(topic[o])) <= PriorityValue(r.priority)
          /\ published' = [published EXCEPT ![c] = Append(@, r)]
    BY <1>1, SendOkAppends
  <2>2. ASSUME NEW d \in Chats, NEW i \in DOMAIN published'[d]
        PROVE  \/ d = c /\ published'[d][i] = r
               \/ i \in DOMAIN published[d] /\ published'[d][i] = published[d][i]
    BY <2>1 DEF TypeOK
  <2>3. ASSUME NEW d \in Chats, NEW i \in DOMAIN published'[d]
        PROVE  /\ d \in published'[d][i].chats
               /\ \A o \in Elems(published'[d][i].items) :
                    /\ published'[d][i].chats \subseteq topic[o].chats
                    /\ PriorityValue(PriorityOf(topic[o]))
                         <= PriorityValue(published'[d][i].priority)
    <3>1. CASE d = c /\ published'[d][i] = r
      BY <2>1, <3>1
    <3>2. CASE i \in DOMAIN published[d] /\ published'[d][i] = published[d][i]
      BY <3>2 DEF RecordsFaithful
    <3> QED
      BY <2>2, <3>1, <3>2
  <2> QED
    BY <1>0, <2>3 DEF RecordsFaithful, Elems
<1>2. CASE published' = published
  BY <1>0, <1>2 DEF RecordsFaithful, Elems
<1> QED
  BY <1>1, <1>2, OnlySendOkPublishes

LEMMA BehindStep ==
  TypeOK /\ Coordination /\ Placement /\ PublishedBehind /\ [Next]_vars
    => PublishedBehind'
<1> SUFFICES ASSUME TypeOK, Coordination, Placement, PublishedBehind, [Next]_vars,
                    disruptions' = 0
             PROVE  \A c \in Chats : \A i \in DOMAIN published'[c] :
                      \A j \in DOMAIN published'[c][i].items :
                        published'[c][i].items[j] < Frontier'
  BY DEF PublishedBehind
<1>0. disruptions = 0
  BY DisruptionsGrow
<1>n. \A s \in Seq(Offsets) : \A i \in DOMAIN s : s[i] \in Nat
  BY AgentAssumption DEF Offsets
<1>t. /\ \A c \in Chats : sending[c] \in Seq(Offsets)
      /\ \A c \in Chats : \A i \in DOMAIN published[c] :
           published[c][i].items \in Seq(Offsets)
  BY ItemsType
<1>f. Frontier' \in Nat /\ Frontier \in Nat /\ Frontier <= Frontier'
  BY FrontierGrows
<1>o. ASSUME NEW c \in Chats, NEW i \in DOMAIN published[c],
             NEW j \in DOMAIN published[c][i].items
      PROVE  published[c][i].items[j] < Frontier'
  BY <1>0, <1>n, <1>t, <1>f DEF PublishedBehind
<1>1. CASE SendOk
  <2>1. PICK c \in Chats, r \in Records :
          /\ r.items = sending[c]
          /\ published' = [published EXCEPT ![c] = Append(@, r)]
    BY <1>1, SendOkAppends
  <2>2. ASSUME NEW d \in Chats, NEW i \in DOMAIN published'[d]
        PROVE  \/ d = c /\ published'[d][i] = r
               \/ i \in DOMAIN published[d] /\ published'[d][i] = published[d][i]
    BY <2>1 DEF TypeOK
  <2>3. \A j \in DOMAIN sending[c] : sending[c][j] < Frontier'
    BY <1>n, <1>t, <1>f DEF Placement, KeptInPlace
  <2> QED
    BY <1>o, <2>1, <2>2, <2>3
<1>2. CASE published' = published
  BY <1>2, <1>o
<1> QED
  BY <1>1, <1>2, OnlySendOkPublishes

LEMMA NothingTwiceStep ==
  TypeOK /\ Coordination /\ Placement /\ PublishedBehind /\ NothingTwice /\ [Next]_vars
    => NothingTwice'
<1> SUFFICES ASSUME TypeOK, Coordination, Placement, PublishedBehind, NothingTwice,
                    [Next]_vars, disruptions' = 0
             PROVE  NothingTwice'
  BY DEF NothingTwice
<1>0. disruptions = 0
  BY DisruptionsGrow
<1>b. PublishedBehind'
  BY BehindStep
<1>h. ASSUME NEW c \in Chats, NEW i \in DOMAIN published'[c], inHand' # NoOffset
      PROVE  Before(published'[c][i].items, <<inHand'>>)
  BY <1>b, <1>h DEF PublishedBehind, Frontier, Before
<1>1. CASE SendOk
  <2>1. PICK c \in Chats, r \in Records :
          /\ sending[c] # <<>>
          /\ r.items = sending[c]
          /\ published' = [published EXCEPT ![c] = Append(@, r)]
          /\ sending' = [sending EXCEPT ![c] = <<>>]
          /\ buffer' = buffer
    BY <1>1, SendOkAppends
  <2>2. buffer'[c] = <<>> /\ sending'[c] = <<>>
    BY <2>1 DEF Placement, OneAtATime, TypeOK
  <2>3. /\ published[c] \in Seq(Records)
        /\ DOMAIN published'[c] = 1..(Len(published[c]) + 1)
        /\ published'[c][Len(published[c]) + 1] = r
        /\ \A i \in DOMAIN published[c] : published'[c][i] = published[c][i]
        /\ DOMAIN published[c] = 1..Len(published[c])
    BY <2>1 DEF TypeOK
  <2>4. ASSUME NEW i \in DOMAIN published'[c], NEW j \in DOMAIN published'[c], i < j
        PROVE  Before(published'[c][i].items, published'[c][j].items)
    <3>1. i \in DOMAIN published[c] /\ published'[c][i] = published[c][i]
      BY <2>3, <2>4
    <3>2. CASE j \in DOMAIN published[c]
      BY <1>0, <2>3, <2>4, <3>1, <3>2 DEF NothingTwice
    <3>3. CASE j = Len(published[c]) + 1
      BY <1>0, <2>1, <2>3, <3>1, <3>3 DEF NothingTwice
    <3> QED
      BY <2>3, <3>2, <3>3
  <2>5. ASSUME NEW d \in Chats, d # c
        PROVE  published'[d] = published[d] /\ sending'[d] = sending[d] /\ buffer'[d] = buffer[d]
    BY <2>1, <2>5 DEF TypeOK
  <2>6. ASSUME NEW d \in Chats, NEW i \in DOMAIN published'[d]
        PROVE  /\ \A j \in DOMAIN published'[d] :
                    i < j => Before(published'[d][i].items, published'[d][j].items)
               /\ Before(published'[d][i].items, sending'[d])
               /\ Before(published'[d][i].items, buffer'[d])
    <3>1. CASE d = c
      <4>1. \A s : Before(s, <<>>)
        BY DEF Before
      <4> QED
        BY <2>2, <2>4, <3>1, <4>1
    <3>2. CASE d # c
      BY <1>0, <2>5, <3>2 DEF NothingTwice
    <3> QED
      BY <3>1, <3>2
  <2> QED
    BY <1>h, <2>6 DEF NothingTwice, Before
<1>2. CASE published' = published
  <2>1. ASSUME NEW c \in Chats, NEW i \in DOMAIN published[c]
        PROVE  /\ Before(published[c][i].items, sending'[c])
               /\ Before(published[c][i].items, buffer'[c])
    <3>0. /\ Before(published[c][i].items, sending[c])
          /\ Before(published[c][i].items, buffer[c])
          /\ \A j \in DOMAIN published[c][i].items : published[c][i].items[j] < Frontier
      BY <1>0 DEF NothingTwice, PublishedBehind
    <3>1. CASE \E o \in Offsets : Enters(o)
      <4>1. PICK o \in Offsets : Enters(o)
        BY <3>1
      <4>2. buffer'[c] = buffer[c] \/ buffer'[c] = Append(buffer[c], o)
        BY <4>1 DEF Enters, Buffered
      <4>3. Before(published[c][i].items, Append(buffer[c], o))
        BY <3>0, <4>1, ItemsType DEF Enters, Before
      <4> QED
        BY <3>0, <4>1, <4>2, <4>3 DEF Enters
    <3>2. CASE Moves(c)
      <4>1. \A s : Before(s, <<>>)
        BY DEF Before
      <4> QED
        BY <3>0, <3>2, <4>1 DEF Moves
    <3> QED
      BY <3>1, <3>2, EntersOrMoves
  <2> QED
    BY <1>0, <1>2, <1>h, <2>1 DEF NothingTwice, Before
<1> QED
  BY <1>1, <1>2, OnlySendOkPublishes

------------------------------------------------------------------------------
(* Nothing is lost *)

Held(c, o) ==
  \/ o = inHand
  \/ o \in Elems(buffer[c])
  \/ o \in Elems(sending[c])
  \/ ReachedChat(c, o)

(* An undisrupted step in which what a chat holds does not move. *)
LEMMA StillHeld ==
  ASSUME inHand' \in {inHand, position}, inHand = NoOffset \/ inHand' = inHand,
         UNCHANGED <<buffer, sending, published>>,
         NEW c \in Chats, NEW o \in Offsets, Held(c, o)
  PROVE  Held(c, o)'
BY DEF Held, Elems, ReachedChat, Offsets, NoOffset

LEMMA NothingLostStep ==
  TypeOK /\ Coordination /\ Placement /\ NothingLost /\ [Next]_vars => NothingLost'
<1> SUFFICES ASSUME TypeOK, Coordination, Placement, NothingLost, [Next]_vars,
                    disruptions' = 0,
                    NEW o \in 1..(position' - 1), NEW c \in Chats, Due(c, o)
             PROVE  Held(c, o)'
  BY TopicFixed DEF NothingLost, Held, Due, Kept
<1>0. disruptions = 0 /\ phase = "running"
  BY DisruptionsGrow DEF Coordination
<1>p. position \in Nat /\ o \in Offsets
  BY TopicType DEF TypeOK, Due
<1>h. o \in 1..(position - 1) => Held(c, o)
  BY <1>0 DEF NothingLost, Held
<1>1. CASE PollGarbled \/ PollDropped
  <2>1. ~Due(c, position)
    BY <1>1 DEF PollGarbled, PollDropped, Due, Kept
  <2>2. position' \in {position, position + 1}
    BY <1>1 DEF PollGarbled, PollDropped
  <2>3. Held(c, o)
    <3>1. o # position
      BY <2>1
    <3>2. o \in 1..(position - 1)
      <4>1. CASE position' = position
        BY <4>1
      <4>2. CASE position' = position + 1
        BY <1>p, <3>1, <4>2
      <4> QED
        BY <2>2, <4>1, <4>2
    <3> QED
      BY <1>h, <3>2
  <2>4. UNCHANGED <<inHand, buffer, sending, published>>
    BY <1>1 DEF PollGarbled, PollDropped, process, flush
  <2> QED
    BY <1>p, <2>3, <2>4, StillHeld
<1>2. CASE PollBlocked
  <2>1. /\ position' = position + 1 /\ inHand' = position /\ inHand = NoOffset
        /\ UNCHANGED <<buffer, sending, published>>
    BY <1>2 DEF PollBlocked, CanPoll, Coordination, flush
  <2>2. CASE o = position
    BY <2>1, <2>2 DEF Held
  <2>3. CASE o # position
    BY <1>h, <1>p, <2>1, <2>3, StillHeld
  <2> QED
    BY <2>2, <2>3
<1>3. CASE PollBuffered \/ AcquireAndBuffer
  <2>1. PICK e \in Offsets : Enters(e) /\ position' = e + 1
    BY <1>3, EntersAtFrontier
  <2>2. /\ buffer[c] \in Seq(Offsets)
        /\ buffer'[c] = IF c \in topic[e].chats THEN Append(buffer[c], e) ELSE buffer[c]
        /\ UNCHANGED <<sending, published>>
    BY <2>1, ItemsType DEF Enters, Buffered
  <2>3. Elems(Append(buffer[c], e)) = Elems(buffer[c]) \cup {e}
    BY <2>2, ElemsAppend
  <2>4. CASE o = e
    <3>1. o \in Elems(buffer'[c])
      BY <2>2, <2>3, <2>4 DEF Due
    <3> QED
      BY <3>1 DEF Held, Elems
  <2>5. CASE o # e
    <3>1. o \in 1..(position - 1) /\ o # inHand
      BY <1>p, <2>1, <2>5 DEF Enters, Frontier, Coordination, Offsets, NoOffset
    <3>2. o \in Elems(buffer[c]) \/ o \in Elems(sending[c]) \/ ReachedChat(c, o)
      BY <1>h, <3>1 DEF Held
    <3>3. o \in Elems(buffer[c]) => o \in Elems(buffer'[c])
      BY <2>2, <2>3
    <3> QED
      BY <2>2, <3>2, <3>3 DEF Held, Elems, ReachedChat
  <2> QED
    BY <2>4, <2>5
<1>4. CASE FlushNext
  <2>1. PICK d \in Chats : /\ sending' = [sending EXCEPT ![d] = buffer[d]]
                           /\ buffer' = [buffer EXCEPT ![d] = <<>>]
    BY <1>4 DEF FlushNext, TypeOK
  <2>2. UNCHANGED <<position, inHand, published>> /\ sending[c] = <<>>
    BY <1>4 DEF FlushNext, Idle, Nothing, kafka, process
  <2>3. sending'[c] = buffer[c] \/ (sending'[c] = sending[c] /\ buffer'[c] = buffer[c])
    BY <2>1 DEF TypeOK
  <2>4. o = inHand \/ o \in Elems(buffer[c]) \/ ReachedChat(c, o)
    BY <1>h, <2>2 DEF Held, Elems
  <2> QED
    BY <2>2, <2>3, <2>4 DEF Held, Elems, ReachedChat
<1>5. CASE SendOk
  <2>1. PICK d \in Chats, r \in Records :
          /\ r.items = sending[d]
          /\ published' = [published EXCEPT ![d] = Append(@, r)]
          /\ sending' = [sending EXCEPT ![d] = <<>>]
          /\ UNCHANGED <<position, inHand, buffer>>
    BY <1>5, SendOkAppends
  <2>2. Held(c, o)
    BY <1>h, <2>1
  <2>3. CASE c = d
    <3>1. /\ published[c] \in Seq(Records)
          /\ published'[c] = Append(published[c], r)
      BY <2>1, <2>3 DEF TypeOK
    <3>2. ReachedChat(c, o) => ReachedChat(c, o)'
      BY <3>1 DEF ReachedChat, Elems
    <3>3. o \in Elems(sending[c]) => ReachedChat(c, o)'
      <4>1. /\ Len(published[c]) + 1 \in DOMAIN published'[c]
            /\ published'[c][Len(published[c]) + 1].items = sending[c]
        BY <2>1, <2>3, <3>1
      <4> QED
        BY <4>1 DEF ReachedChat, Elems
    <3> QED
      BY <2>1, <2>2, <3>2, <3>3 DEF Held, Elems
  <2>4. CASE c # d
    <3>1. published'[c] = published[c] /\ sending'[c] = sending[c]
      BY <2>1, <2>4 DEF TypeOK
    <3> QED
      BY <2>1, <2>2, <3>1 DEF Held, Elems, ReachedChat
  <2> QED
    BY <2>3, <2>4
<1>6. CASE Stop \/ Crash \/ SendFails
  BY <1>0, <1>6 DEF Stop, Crash, SendFails, Disrupt
<1>7. CASE CancelFlush \/ Close \/ Restart
  BY <1>0, <1>7 DEF CancelFlush, Close, Restart
<1>8. CASE UNCHANGED <<position, inHand, buffer, sending, published>>
  BY <1>h, <1>p, <1>8, StillHeld
<1> QED
  BY <1>1, <1>2, <1>3, <1>4, <1>5, <1>6, <1>7, <1>8 DEF Next, vars, kafka, process,
     flush, Process, Flush, Shutdown, Tick, AutoCommit, FlushWake, FlushDone,
     FinalFlush, FinalFlushDone

------------------------------------------------------------------------------
(* The inductive invariant and the theorems *)

LEMMA IInvInit == Init => IInv
<1> SUFFICES ASSUME Init PROVE IInv
  OBVIOUS
<1>1. TypeOK
  BY TypeInit
<1>2. Coordination /\ BufferStamped
  BY DEF Init, Coordination, BufferStamped, Nothing, NoStamps, NoOffset
<1>3. Placement
  BY DEF Init, Placement, KeptInPlace, OneAtATime, Nothing
<1>4. RecordsFaithful /\ PublishedBehind /\ NothingTwice /\ NothingLost
  BY DEF Init, RecordsFaithful, PublishedBehind, NothingTwice, NothingLost, Nothing
<1> QED
  BY <1>1, <1>2, <1>3, <1>4 DEF IInv

LEMMA IInvStep == IInv /\ [Next]_vars => IInv'
BY TypeStep, CoordinationStep, StampedStep, PlacementStep, FaithfulStep, BehindStep,
   NothingTwiceStep, NothingLostStep DEF IInv

THEOREM Invariance == Spec => []IInv
BY IInvInit, IInvStep, PTL DEF Spec

(* The state of the agent keeps its type. *)
THEOREM TypeCorrect == Spec => []TypeOK
<1>1. IInv => TypeOK
  BY DEF IInv
<1> QED
  BY <1>1, Invariance, PTL

(* _buffer and _buffer_timestamps never part. *)
THEOREM Stamped == Spec => []BufferStamped
<1>1. IInv => BufferStamped
  BY DEF IInv
<1> QED
  BY <1>1, Invariance, PTL

(* Until something stops, crashes or fails to send, every update that was  *)
(* let through is accounted for, for each of its chats.                    *)
THEOREM NoneLost == Spec => []NothingLost
<1>1. IInv => NothingLost
  BY DEF IInv
<1> QED
  BY <1>1, Invariance, PTL

(* Nor is one grouped twice for a chat, or after a later one. *)
THEOREM NoneTwice == Spec => []NothingTwice
<1>1. IInv => NothingTwice
  BY DEF IInv
<1> QED
  BY <1>1, Invariance, PTL

(* Every record ever published is addressed and prioritised faithfully,    *)
(* whatever was disrupted.                                                 *)
THEOREM AllFaithful == Spec => []RecordsFaithful
<1>1. IInv => RecordsFaithful
  BY DEF IInv
<1> QED
  BY <1>1, Invariance, PTL

------------------------------------------------------------------------------
(* Refinement *)

LEMMA KeepingType ==
  ASSUME TypeOK, NEW c \in Chats
  PROVE  /\ buffer[c] = <<>> => Keeping[c] = sending[c]
         /\ sending[c] = <<>> => Keeping[c] = buffer[c]
BY ItemsType, ConcatEmptySeq DEF Keeping

LEMMA AcceptedType ==
  ASSUME TypeOK, Coordination
  PROVE  Accepted \in Nat /\ Accepted = Frontier - 1
BY TopicType DEF TypeOK, Accepted, Frontier, Offsets, NoOffset

LEMMA RefinedInit == Init => Channel!Init
<1> SUFFICES ASSUME Init PROVE Channel!Init
  OBVIOUS
<1>1. Accepted = 0
  BY DEF Init, Accepted, NoOffset
<1>2. Keeping = [c \in Chats |-> <<>>]
  <2>1. \A c \in Chats : sending[c] = <<>> /\ buffer[c] = <<>>
    BY DEF Init, Nothing
  <2> QED
    BY <2>1 DEF Keeping
<1>3. Groups = [c \in Chats |-> <<>>]
  <2>1. \A c \in Chats : published[c] = <<>>
    BY DEF Init, Nothing
  <2>2. \A c \in Chats : [i \in 1..Len(published[c]) |-> published[c][i].items] = <<>>
    BY <2>1
  <2> QED
    BY <2>2 DEF Groups
<1> QED
  BY <1>1, <1>2, <1>3 DEF Channel!Init

LEMMA RefinedStep ==
  ASSUME IInv, IInv', [Next]_vars
  PROVE  [Channel!Next]_(Channel!vars)
<1> USE DEF IInv
<1>0. /\ Accepted \in Nat /\ Accepted = Frontier - 1
      /\ Accepted' \in Nat /\ Accepted' = Frontier' - 1
  <2>1. /\ position' \in Nat \ {0}
        /\ inHand' # NoOffset => inHand' \in Nat \ {0}
    <3>1. topic' = topic /\ Len(topic) \in Nat
      BY TopicType, TopicFixed DEF TypeOK
    <3>2. position' \in 1..(Len(topic) + 1) /\ inHand' \in Offsets \cup {NoOffset}
      BY <3>1 DEF TypeOK
    <3>3. Offsets \subseteq Nat \ {0}
      BY AgentAssumption DEF Offsets
    <3> QED
      BY <3>1, <3>2, <3>3
  <2>2. Accepted' = Frontier' - 1
    BY <2>1 DEF Accepted, Frontier
  <2>3. Accepted' \in Nat
    <3>1. \A n \in Nat \ {0} : n - 1 \in Nat
      OBVIOUS
    <3> QED
      BY <2>1, <3>1 DEF Accepted
  <2>4. Accepted \in Nat /\ Accepted = Frontier - 1
    BY AcceptedType
  <2> QED
    BY <2>2, <2>3, <2>4
<1>k. ASSUME NEW c \in Chats
      PROVE  /\ buffer'[c] = <<>> => Keeping'[c] = sending'[c]
             /\ sending'[c] = <<>> => Keeping'[c] = buffer'[c]
  <2>1. buffer'[c] \in Seq(Offsets) /\ sending'[c] \in Seq(Offsets)
    BY DEF TypeOK
  <2> QED
    BY <2>1, ConcatEmptySeq DEF Keeping
<1>1. ASSUME NEW o \in Offsets, Enters(o)
      PROVE  Channel!Accept(topic[o].chats)
  <2>1. Accepted' = o /\ Accepted' > Accepted
    BY <1>0, <1>1 DEF Enters, Offsets
  <2>2. \A c \in Chats : Keeping[c] = buffer[c] /\ Keeping'[c] = buffer'[c]
    BY <1>1, <1>k, KeepingType DEF Enters, Nothing
  <2>3. Keeping' = [c \in Chats |-> IF c \in topic[o].chats
                                   THEN Append(Keeping[c], Accepted') ELSE Keeping[c]]
    BY <1>1, <2>1, <2>2 DEF Enters, Buffered, Keeping
  <2>4. Groups' = Groups
    BY <1>1 DEF Enters, Groups
  <2> QED
    BY <1>0, <2>1, <2>3, <2>4 DEF Channel!Accept
<1>2. CASE SendOk
  <2>1. PICK c \in Chats, r \in Records :
          /\ sending[c] # <<>>
          /\ r.items = sending[c]
          /\ published' = [published EXCEPT ![c] = Append(@, r)]
          /\ sending' = [sending EXCEPT ![c] = <<>>]
          /\ UNCHANGED <<position, inHand, buffer>>
    BY <1>2, SendOkAppends
  <2>2. Keeping[c] = sending[c] /\ Keeping'[c] = <<>>
    BY <1>k, <2>1, KeepingType DEF Placement, OneAtATime, TypeOK
  <2>3. Keeping' = [Keeping EXCEPT ![c] = <<>>]
    BY <2>1, <2>2 DEF Keeping, TypeOK
  <2>4. Groups'[c] = Append(Groups[c], sending[c])
    BY <2>1 DEF Groups, TypeOK
  <2>5. Groups' = [Groups EXCEPT ![c] = Append(@, sending[c])]
    BY <2>1, <2>4 DEF Groups, TypeOK
  <2>6. Accepted' = Accepted
    BY <2>1 DEF Accepted
  <2> QED
    BY <2>1, <2>2, <2>3, <2>5, <2>6 DEF Channel!Publish, Channel!Next
<1>3. CASE published' = published /\ \A c \in Chats : Moves(c)
  <2>1. Groups' = Groups
    BY <1>3 DEF Groups
  <2>2. ASSUME NEW c \in Chats PROVE Keeping'[c] = Keeping[c] \/ Keeping'[c] = <<>>
    <3>1. CASE buffer'[c] = buffer[c] /\ sending'[c] = sending[c]
      BY <3>1 DEF Keeping
    <3>2. CASE sending[c] = <<>> /\ sending'[c] = buffer[c] /\ buffer'[c] = <<>>
      BY <1>k, <3>2, KeepingType
    <3>3. CASE buffer'[c] = buffer[c] /\ sending'[c] = <<>>
      BY <1>k, <3>3, KeepingType DEF Placement, OneAtATime
    <3>4. CASE buffer'[c] = <<>> /\ sending'[c] = <<>>
      BY <1>k, <3>4
    <3> QED
      BY <1>3, <3>1, <3>2, <3>3, <3>4 DEF Moves
  <2>3. CASE Accepted <= Accepted'
    <3> DEFINE lost == {c \in Chats : Keeping'[c] # Keeping[c]}
    <3>1. Keeping' = [c \in Chats |-> IF c \in lost THEN <<>> ELSE Keeping[c]]
      BY <2>2 DEF Keeping
    <3>2. Channel!Lose(lost)
      BY <1>0, <2>1, <2>3, <3>1 DEF Channel!Lose
    <3> QED
      BY <3>2 DEF Channel!Next
  <2>4. CASE ~(Accepted <= Accepted')
    <3>1. buffer' = Nothing /\ sending' = Nothing
      BY <1>0, <2>4, FrontierGrows
    <3>2. Keeping' = [c \in Chats |-> <<>>]
      BY <1>k, <3>1 DEF Keeping, Nothing
    <3>3. Channel!Rewind
      BY <1>0, <2>1, <2>4, <3>2 DEF Channel!Rewind
    <3> QED
      BY <3>3 DEF Channel!Next
  <2> QED
    BY <2>3, <2>4
<1>4. \A o \in Offsets : Enters(o) => Channel!Next
  BY <1>1, TopicType DEF Channel!Next, TypeOK, Enters
<1> QED
  BY <1>2, <1>3, <1>4, EntersOrMoves, OnlySendOkPublishes

(* The agent, with its tasks, lock, cancellation and restarts, implements  *)
(* the grouped channel.                                                    *)
THEOREM Implements == Spec => ChannelSpec
BY Invariance, RefinedInit, RefinedStep, PTL DEF Spec, ChannelSpec, Channel!Spec

ChannelProofs == INSTANCE GroupedChannel_proofs WITH
  high <- Accepted, pending <- Keeping, published <- Groups

(* So what the channel guarantees the agent does: every group it publishes *)
(* is in the order of the raw topic.                                       *)
THEOREM AgentOrder == Spec => []Channel!GroupsInOrder
BY ChannelProofs!ChannelOrder, Implements, PTL
DEF ChannelSpec, Channel!Spec, ChannelProofs!Spec,
     Channel!Init, ChannelProofs!Init,
     Channel!Next, ChannelProofs!Next,
     Channel!vars, ChannelProofs!vars,
     Channel!Accept, ChannelProofs!Accept,
     Channel!Lose, ChannelProofs!Lose,
     Channel!Publish, ChannelProofs!Publish,
     Channel!Rewind, ChannelProofs!Rewind,
     Channel!GroupsInOrder, ChannelProofs!GroupsInOrder,
     Channel!Increasing, ChannelProofs!Increasing

===============================================================================
