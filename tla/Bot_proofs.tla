------------------------------ MODULE Bot_proofs ------------------------------
(***************************************************************************)
(* Theorems about Bot for any users, topics, posts and faults: the order in *)
(* which the consumer tells a chat of its updates, how many it loses, what  *)
(* the dialogues promise though the process may end between any two steps, *)
(* and that a stop leaves no post without its answer.                       *)
(***************************************************************************)
EXTENDS Bot, Dialogues_proofs, FiniteSetTheorems, TLAPS

OffsetsType ==
  /\ position \in Nat \ {0}
  /\ committed \in Nat \ {0}
  /\ told \in [Chats -> Seq(Nat)]

(* Where every consumer has committed on its way out, the group's offset is *)
(* that of the consumer.                                                    *)
NothingReread == consumer = "off" => committed = position /\ toTell = {}

(* What a chat was told of is behind the consumer, and behind the record in *)
(* hand as well where the chat is still to be told of that.                 *)
ToldIsBehind ==
  \A c \in Chats : \A i \in DOMAIN told[c] :
    /\ told[c][i] < position
    /\ c \in toTell => told[c][i] < position - 1

OrderInv == OffsetsType /\ (~reread => NothingReread /\ ToldIsBehind /\ InOrder)

(* There is a consumer only where lifespan has got as far as that. *)
ConsumerInPlace == consumer # "off" => process \in {"up", "draining"}

IInv == OrderInv /\ ConsumerInPlace

(* What OrderInv is about. *)
offsets == <<position, committed, consumer, toTell, told, reread>>

------------------------------------------------------------------------------

LEMMA InitInvariant == Init => IInv
BY DEF Init, ReceptionInit, IInv, ConsumerInPlace, OrderInv, OffsetsType, NothingReread,
       ToldIsBehind, InOrder

LEMMA Unaffected == ASSUME OrderInv, UNCHANGED offsets PROVE OrderInv'
BY DEF offsets, OrderInv, OffsetsType, NothingReread, ToldIsBehind, InOrder

(* A chat that is told of the record in hand was told of older ones only. *)
LEMMA TellInvariant == ASSUME OrderInv, Tell PROVE OrderInv'
<1> USE DEF OrderInv
<1>1. PICK c \in toTell : /\ told' = [told EXCEPT ![c] = Append(@, position - 1)]
                          /\ toTell' = toTell \ {c}
  BY DEF Tell
<1>2. UNCHANGED <<position, consumer, committed, reread>>
  BY DEF Tell
<1>3. position - 1 \in Nat
  BY DEF OffsetsType
<1>4. OffsetsType'
  <2>1. c \in Chats => Append(told[c], position - 1) \in Seq(Nat)
    BY <1>3 DEF OffsetsType
  <2>2. told' \in [Chats -> Seq(Nat)]
    BY <1>1, <2>1 DEF OffsetsType
  <2> QED
    BY <1>2, <2>2 DEF OffsetsType
<1> SUFFICES ASSUME ~reread PROVE NothingReread' /\ ToldIsBehind' /\ InOrder'
  BY <1>2, <1>4
<1>5. NothingReread'
  BY <1>1, <1>2 DEF NothingReread
<1>6. ASSUME NEW d \in Chats, d # c
      PROVE  told'[d] = told[d] /\ (d \in toTell' <=> d \in toTell)
  BY <1>1, <1>6 DEF OffsetsType
<1>7. CASE c \in Chats
  <2>1. /\ told[c] \in Seq(Nat) /\ told'[c] = Append(told[c], position - 1) /\ c \notin toTell'
    BY <1>1, <1>7 DEF OffsetsType
  <2>2. /\ DOMAIN told[c] = 1..Len(told[c]) /\ Len(told[c]) \in Nat
        /\ DOMAIN told'[c] = 1..(Len(told[c]) + 1)
        /\ \A i \in DOMAIN told[c] : told'[c][i] = told[c][i] /\ told[c][i] \in Nat
        /\ told'[c][Len(told[c]) + 1] = position - 1
    BY <2>1, <1>3
  <2>3. \A i \in DOMAIN told[c] : told[c][i] < position - 1
    BY <1>1, <1>7 DEF ToldIsBehind
  <2>4. \A i \in DOMAIN told'[c] : i \in DOMAIN told[c] \/ i = Len(told[c]) + 1
    BY <2>2
  <2>5. ToldIsBehind'
    <3> SUFFICES ASSUME NEW d \in Chats, NEW i \in DOMAIN told'[d]
                 PROVE  told'[d][i] < position /\ (d \in toTell' => told'[d][i] < position - 1)
      BY <1>2 DEF ToldIsBehind
    <3>1. CASE d = c
      BY <3>1, <2>1, <2>2, <2>3, <2>4 DEF OffsetsType
    <3>2. CASE d # c
      BY <3>2, <1>6 DEF ToldIsBehind
    <3> QED
      BY <3>1, <3>2
  <2>6. InOrder'
    <3> SUFFICES ASSUME NEW d \in Chats, NEW i \in DOMAIN told'[d], NEW j \in DOMAIN told'[d],
                        i < j
                 PROVE  told'[d][i] < told'[d][j]
      BY DEF InOrder
    <3>1. CASE d = c /\ j \in DOMAIN told[c]
      <4>1. i \in DOMAIN told[c]
        BY <3>1, <2>2
      <4> QED
        BY <3>1, <4>1, <2>2 DEF InOrder
    <3>2. CASE d = c /\ j = Len(told[c]) + 1
      <4>1. i \in DOMAIN told[c]
        BY <3>2, <2>2
      <4> QED
        BY <3>2, <4>1, <2>2, <2>3
    <3>3. CASE d # c
      BY <3>3, <1>6 DEF InOrder
    <3> QED
      BY <3>1, <3>2, <3>3, <2>4
  <2> QED
    BY <1>5, <2>5, <2>6
<1>8. CASE c \notin Chats
  <2>1. \A d \in Chats : told'[d] = told[d] /\ (d \in toTell' <=> d \in toTell)
    BY <1>6, <1>8
  <2> QED
    BY <1>2, <1>5, <2>1 DEF ToldIsBehind, InOrder
<1> QED
  BY <1>7, <1>8

(* A poll puts everything told behind the record it returns. *)
LEMMA PollInvariant ==
  ASSUME OrderInv, CanPoll, position' \in {position, position + 1},
         toTell' = {} \/ position' = position + 1, consumer' # "off",
         UNCHANGED <<committed, told, reread>>
  PROVE  OrderInv'
<1>1. OffsetsType'
  BY DEF OrderInv, OffsetsType
<1>2. NothingReread'
  BY DEF NothingReread
<1>3. ASSUME ~reread PROVE ToldIsBehind' /\ InOrder'
  <2>1. \A c \in Chats : \A i \in DOMAIN told[c] : told[c][i] \in Nat
    BY DEF OrderInv, OffsetsType
  <2> QED
    BY <1>3, <2>1 DEF OrderInv, OffsetsType, ToldIsBehind, InOrder
<1> QED
  BY <1>1, <1>2, <1>3 DEF OrderInv

LEMMA PlaceKept == ASSUME IInv, [Next]_vars PROVE ConsumerInPlace'
<1> USE DEF IInv, ConsumerInPlace
<1>1. CASE UNCHANGED vars
  BY <1>1 DEF vars, reception, record
<1>2. CASE Lifespan
  <2>1. CASE Boot \/ Terminate \/ ServeFails
    BY <2>1 DEF Boot, Terminate, ServeFails, Become, reception, record
  <2>2. CASE Serve \/ Shutdown \/ Exit \/ Crash
    BY <2>2 DEF Serve, StartConsumer, Shutdown, StopConsumer, Exit, Crash, Lose, Become
  <2> QED
    BY <1>2, <2>1, <2>2 DEF Lifespan
<1>3. CASE Talk \/ Await \/ AcceptPost \/ ServePost
  BY <1>3 DEF Talk, Await, AcceptPost, Post, ServePost, Serving, AnswerError, TellPost,
              AnswerOk, Here, reception, record
<1>4. CASE Consume
  BY <1>4 DEF Consume, Consuming, PollUpdate, PollBad, CanPoll, Tell, AutoCommit, Here, record
<1> QED
  BY <1>1, <1>2, <1>3, <1>4 DEF Next

LEMMA OrderKept == ASSUME IInv, [Next]_vars PROVE OrderInv'
<1> USE DEF IInv
<1>1. CASE UNCHANGED vars
  BY <1>1, Unaffected DEF vars, reception, record, offsets
<1>2. CASE Lifespan
  <2>1. CASE Boot \/ Terminate \/ ServeFails
    BY <2>1, Unaffected
       DEF Boot, Terminate, ServeFails, Become, reception, record, offsets
  <2>2. CASE Serve
    <3>1. CASE StartConsumer
      <4>1. /\ consumer' = "running" /\ toTell' = {} /\ position' = committed
            /\ UNCHANGED <<committed, told, reread>>
        BY <3>1 DEF StartConsumer
      <4>2. OffsetsType' /\ NothingReread'
        BY <4>1 DEF OrderInv, OffsetsType, NothingReread
      <4>3. CASE reread
        BY <4>1, <4>2, <4>3 DEF OrderInv
      <4>4. CASE ~reread
        <5>1. committed = position /\ toTell = {}
          BY <2>2, <4>4 DEF Serve, ConsumerInPlace, OrderInv, NothingReread
        <5> QED
          BY <4>1, <4>2, <4>4, <5>1 DEF OrderInv, ToldIsBehind, InOrder
      <4> QED
        BY <4>3, <4>4
    <3>2. CASE UNCHANGED reception
      BY <3>2, Unaffected DEF reception, record, offsets
    <3> QED
      BY <2>2, <3>1, <3>2 DEF Serve
  <2>3. CASE Shutdown \/ Exit \/ Crash
    <3>1. /\ toTell' = {} /\ UNCHANGED <<position, told>>
          /\ committed' \in {committed, position}
      BY <2>3 DEF Shutdown, StopConsumer, Exit, Crash, Lose
    <3>2. OffsetsType'
      BY <3>1 DEF OrderInv, OffsetsType
    <3>3. ASSUME ~reread' PROVE ~reread /\ committed' = position'
      <4>1. CASE Shutdown
        <5>1. ~reread /\ committed' = IF consumer = "off" THEN committed ELSE position
          BY <3>3, <4>1 DEF Shutdown, StopConsumer
        <5> QED
          BY <3>1, <5>1 DEF OrderInv, NothingReread
      <4>2. CASE Exit
        <5>1. ~reread /\ consumer = "off" /\ committed' = committed
          BY <3>3, <4>2 DEF Exit, Lose, ConsumerInPlace
        <5> QED
          BY <3>1, <5>1 DEF OrderInv, NothingReread
      <4>3. CASE Crash
        BY <3>1, <3>3, <4>3 DEF Crash, Lose
      <4> QED
        BY <2>3, <4>1, <4>2, <4>3
    <3>4. ASSUME ~reread' PROVE NothingReread' /\ ToldIsBehind' /\ InOrder'
      BY <3>1, <3>3, <3>4 DEF OrderInv, NothingReread, ToldIsBehind, InOrder
    <3> QED
      BY <3>2, <3>4 DEF OrderInv
  <2> QED
    BY <1>2, <2>1, <2>2, <2>3 DEF Lifespan
<1>3. CASE Talk \/ Await
  BY <1>3, Unaffected DEF Talk, Await, Here, reception, record, offsets
<1>4. CASE Consume
  <2>1. CASE PollUpdate
    BY <2>1, PollInvariant DEF PollUpdate, CanPoll
  <2>2. CASE PollBad
    BY <2>2, PollInvariant DEF PollBad, CanPoll
  <2>3. CASE Tell
    BY <2>3, TellInvariant
  <2>4. CASE AutoCommit
    BY <2>4 DEF AutoCommit, record, OrderInv, OffsetsType, NothingReread, ToldIsBehind, InOrder
  <2> QED
    BY <1>4, <2>1, <2>2, <2>3, <2>4 DEF Consume, Consuming
<1>5. CASE AcceptPost \/ ServePost
  BY <1>5, Unaffected
     DEF AcceptPost, Post, ServePost, Serving, AnswerError, TellPost, AnswerOk, Here, record,
         offsets
<1> QED
  BY <1>1, <1>2, <1>3, <1>4, <1>5 DEF Next

(* While every consumer that goes has committed its position, a chat is     *)
(* told of the topic's updates in their order and of each at most once,     *)
(* over any stops, crashes and restarts.                                    *)
THEOREM ConsumerOrder == Spec => []InOrder
<1>1. IInv /\ [Next]_vars => IInv'
  BY OrderKept, PlaceKept DEF IInv
<1>2. IInv => InOrder
  <2>1. CASE reread
    BY <2>1 DEF InOrder
  <2>2. CASE ~reread
    BY <2>2 DEF IInv, OrderInv
  <2> QED
    BY <2>1, <2>2
<1> QED
  BY InitInvariant, <1>1, <1>2, PTL DEF Spec

------------------------------------------------------------------------------
(* Losses *)

(* A stop has been asked for, and may cost the update in hand. *)
Owed == IF process = "draining" THEN 1 ELSE 0

LossInv ==
  /\ IInv
  /\ topic \in Seq(Records)
  /\ committed <= position
  /\ faults \in Nat
  /\ Cardinality(Lost) + Owed <= faults

LEMMA LostFinite ==
  ASSUME topic \in Seq(Records)
  PROVE  IsFiniteSet(Lost) /\ Cardinality(Lost) \in Nat
<1>1. DOMAIN topic = 1..Len(topic) /\ Len(topic) \in Nat
  OBVIOUS
<1>2. IsFiniteSet(1..Len(topic))
  BY <1>1, FS_Interval
<1>3. Lost \subseteq 1..Len(topic)
  BY <1>1 DEF Lost
<1> QED
  BY <1>2, <1>3, FS_Subset, FS_CardinalityType

LEMMA Sums ==
  ASSUME NEW l \in Nat, NEW w \in Nat, NEW f \in Nat,
         NEW ll \in Nat, NEW ww \in Nat, NEW ff \in Nat,
         l + w <= f,
         \/ ll <= l /\ ww + f <= w + ff
         \/ ll <= l + 1 /\ ww + 1 + f <= w + ff
  PROVE  ll + ww <= ff
OBVIOUS

(* Steps that lose nothing, and steps that may lose the update in hand. *)
LEMMA Paid ==
  ASSUME LossInv, topic' = topic, (faults' = faults \/ faults' = faults + 1),
         \/ Lost' \subseteq Lost /\ Owed' + faults <= Owed + faults'
         \/ Lost' \subseteq Lost \cup {position - 1} /\ Owed' + 1 + faults <= Owed + faults'
  PROVE  faults' \in Nat /\ Cardinality(Lost') + Owed' <= faults'
<1>1. IsFiniteSet(Lost) /\ Cardinality(Lost) \in Nat /\ faults \in Nat
  BY LostFinite DEF LossInv
<1>2. /\ Owed \in Nat /\ Owed' \in Nat /\ faults' \in Nat
      /\ Cardinality(Lost) + Owed <= faults
  BY <1>1 DEF Owed, LossInv
<1>3. CASE Lost' \subseteq Lost /\ Owed' + faults <= Owed + faults'
  <2>1. Cardinality(Lost') <= Cardinality(Lost) /\ Cardinality(Lost') \in Nat
    BY <1>1, <1>3, FS_Subset, FS_CardinalityType
  <2> QED
    BY <1>1, <1>2, <1>3, <2>1, Sums
<1>4. CASE /\ Lost' \subseteq Lost \cup {position - 1}
           /\ Owed' + 1 + faults <= Owed + faults'
  <2> DEFINE more == Lost \cup {position - 1}
  <2>1. IsFiniteSet(more) /\ Cardinality(more) <= Cardinality(Lost) + 1
        /\ Cardinality(more) \in Nat
    BY <1>1, FS_AddElement, FS_CardinalityType
  <2>2. Cardinality(Lost') <= Cardinality(more) /\ Cardinality(Lost') \in Nat
    BY <1>4, <2>1, FS_Subset, FS_CardinalityType
  <2>3. Cardinality(Lost') <= Cardinality(Lost) + 1
    BY <1>1, <2>1, <2>2
  <2> HIDE DEF more
  <2> QED
    BY <1>1, <1>2, <1>4, <2>2, <2>3, Sums
<1> QED
  BY <1>3, <1>4

(* A conversation takes its faults from the same account. *)
LEMMA TalkingFault ==
  ASSUME (\E c \in Convs : Message(c)) \/ Calling \/ Elapse PROVE Fault \/ UNCHANGED faults
<1> USE DEF Sent, NotSent
<1>1. ASSUME NEW c \in Convs, Message(c) PROVE Fault \/ UNCHANGED faults
  <2>1. CASE \/ Start(c) \/ ListLinks(c) \/ Untrack(c) \/ UntrackNumber(c) \/ Choose(c)
             \/ \E url \in Urls : UntrackUrl(c, url)
    BY <2>1 DEF Start, ListLinks, Untrack, UntrackNumber, Choose, UntrackUrl, Ask
  <2>2. CASE ChooseBadly(c) \/ Track(c) \/ EditUrl(c) \/ Cancel(c)
    BY <2>2 DEF ChooseBadly, Track, EditUrl, Cancel
  <2>3. CASE GiveTags(c) \/ \E url \in Urls : GiveUrl(c, url)
    BY <2>3 DEF GiveTags, Ask, GiveUrl
  <2> QED
    BY <1>1, <2>1, <2>2, <2>3 DEF Message
<1>2. CASE Calling
  BY <1>2 DEF Calling, Answered, Unanswered, Finish, JustReply, OfferChoices, EndTrack,
              EndUntrack
<1>3. CASE Elapse
  BY <1>3 DEF Elapse
<1> QED
  BY <1>1, <1>2, <1>3

LEMMA SameLost ==
  ASSUME UNCHANGED <<topic, position, committed, consumer, toTell, told>>
  PROVE  Lost' = Lost
BY DEF Lost, Passed, InHand, Elems

(* The consumer's own steps lose nothing: what it polls it has in hand. *)
LEMMA ConsumingKeeps ==
  ASSUME LossInv, Consuming
  PROVE  Lost' \subseteq Lost
<1>1. position \in Nat \ {0} /\ told \in [Chats -> Seq(Nat)]
  BY DEF LossInv, IInv, OrderInv, OffsetsType
<1>2. DOMAIN topic \subseteq Nat
  BY DEF LossInv
<1>3. CASE PollUpdate
  <2>1. /\ consumer = "running" /\ consumer' = "running" /\ toTell = {}
        /\ position' = position + 1 /\ toTell' = topic[position].chats
        /\ topic' = topic /\ told' = told
    BY <1>3 DEF PollUpdate, CanPoll
  <2>2. ASSUME NEW o \in Lost' PROVE o \in Lost
    <3>1. /\ o \in DOMAIN topic /\ o < position + 1 /\ topic[o].kind = "update"
          /\ \E c \in topic[o].chats :
               o \notin Elems(told[c]) /\ ~(o = position /\ c \in topic[position].chats)
      BY <2>1, <1>1 DEF Lost, Passed, InHand, Elems
    <3>2. o < position
      BY <1>1, <1>2, <3>1
    <3> QED
      BY <2>1, <3>1, <3>2 DEF Lost, Passed, InHand
  <2> QED
    BY <2>2
<1>4. CASE PollBad
  <2>1. /\ consumer = "running" /\ consumer' = "ended" /\ toTell = {} /\ toTell' = {}
        /\ position' \in {position, position + 1} /\ topic[position].kind # "update"
        /\ topic' = topic /\ told' = told
    BY <1>4 DEF PollBad, CanPoll
  <2>2. ASSUME NEW o \in Lost' PROVE o \in Lost
    <3>1. /\ o \in DOMAIN topic /\ o < position + 1 /\ topic[o].kind = "update"
          /\ \E c \in topic[o].chats : o \notin Elems(told[c])
      BY <2>1, <1>1, <1>2 DEF Lost, Passed, InHand, Elems
    <3>2. o < position
      BY <1>1, <1>2, <2>1, <3>1
    <3> QED
      BY <2>1, <3>1, <3>2 DEF Lost, Passed, InHand
  <2> QED
    BY <2>2
<1>5. CASE Tell
  <2>1. PICK d \in toTell : /\ told' = [told EXCEPT ![d] = Append(@, position - 1)]
                            /\ toTell' = toTell \ {d}
    BY <1>5 DEF Tell
  <2>2. UNCHANGED <<position, consumer, topic, committed>>
    BY <1>5 DEF Tell
  <2>3. ASSUME NEW o \in Lost', NEW c \in topic[o].chats, c \in Chats,
               o \notin Elems(told'[c]), ~InHand(o, c)'
        PROVE  o \notin Elems(told[c]) /\ ~InHand(o, c)
    <3>1. CASE c = d
      <4>1. told[c] \in Seq(Nat) /\ told'[c] = Append(told[c], position - 1)
        BY <1>1, <2>1, <2>3, <3>1
      <4>2. /\ DOMAIN told[c] = 1..Len(told[c]) /\ Len(told[c]) \in Nat
            /\ DOMAIN told'[c] = 1..(Len(told[c]) + 1)
            /\ \A i \in DOMAIN told[c] : told'[c][i] = told[c][i]
            /\ told'[c][Len(told[c]) + 1] = position - 1
        BY <1>1, <4>1
      <4>3. o # position - 1
        BY <2>3, <4>2 DEF Elems
      <4>4. \A i \in DOMAIN told[c] : i \in DOMAIN told'[c]
        BY <4>2
      <4> QED
        BY <2>3, <4>2, <4>3, <4>4 DEF Elems, InHand
    <3>2. CASE c # d
      <4>1. told'[c] = told[c] /\ (c \in toTell' <=> c \in toTell)
        BY <1>1, <2>1, <3>2
      <4> QED
        BY <2>2, <2>3, <4>1 DEF InHand, Elems
    <3> QED
      BY <3>1, <3>2
  <2>4. ASSUME NEW o \in Lost' PROVE o \in Lost
    <3>1. /\ o \in DOMAIN topic /\ o < Passed /\ topic[o].kind = "update"
          /\ \E c \in topic[o].chats : o \notin Elems(told'[c]) /\ ~InHand(o, c)'
      BY <2>2 DEF Lost, Passed, Elems, InHand
    <3>2. topic[o].chats \subseteq Chats
      <4>1. topic[o] \in Records
        BY <3>1 DEF LossInv
      <4> QED
        BY <4>1 DEF Records
    <3> QED
      BY <2>3, <3>1, <3>2 DEF Lost
  <2> QED
    BY <2>4
<1>6. CASE AutoCommit
  <2>1. consumer # "off" /\ UNCHANGED <<consumer, position, toTell, topic, told>>
    BY <1>6 DEF AutoCommit, record
  <2> QED
    BY <2>1 DEF Lost, Passed, InHand, Elems
<1> QED
  BY <1>3, <1>4, <1>5, <1>6 DEF Consuming

(* Where the consumer goes, the group's offset is no further than it was,   *)
(* and at most the update in hand is lost.                                  *)
LEMMA LeavingLoses ==
  ASSUME LossInv, consumer' = "off", UNCHANGED <<topic, told>>,
         committed' = position \/ committed' = committed,
         consumer = "off" => committed' = committed
  PROVE  Lost' \subseteq Lost \cup {position - 1}
<1>1. position \in Nat /\ committed \in Nat /\ committed <= position
  BY DEF LossInv, IInv, OrderInv, OffsetsType
<1>2. DOMAIN topic \subseteq Nat
  BY DEF LossInv
<1> SUFFICES ASSUME NEW o \in Lost', o # position - 1 PROVE o \in Lost
  OBVIOUS
<1>3. /\ o \in DOMAIN topic /\ o < committed' /\ topic[o].kind = "update"
      /\ \E c \in topic[o].chats : o \notin Elems(told[c])
  BY DEF Lost, Passed, Elems
<1>4. o < Passed
  BY <1>1, <1>2, <1>3 DEF Passed
<1> QED
  BY <1>3, <1>4 DEF Lost, InHand

LEMMA LossStep == ASSUME LossInv, [Next]_vars PROVE LossInv'
<1>0. /\ IInv /\ faults \in Nat /\ faults + 1 # faults
      /\ position \in Nat /\ committed \in Nat /\ committed <= position
  BY DEF LossInv, IInv, OrderInv, OffsetsType
<1>1. IInv'
  BY <1>0, OrderKept, PlaceKept DEF IInv
<1>2. ASSUME topic' = topic, committed' <= position',
             faults' = faults \/ faults' = faults + 1,
             \/ Lost' \subseteq Lost /\ Owed' + faults <= Owed + faults'
             \/ /\ Lost' \subseteq Lost \cup {position - 1}
                /\ Owed' + 1 + faults <= Owed + faults'
      PROVE  LossInv'
  BY <1>1, <1>2, Paid DEF LossInv
<1>3. ASSUME UNCHANGED reception, (faults' = faults \/ faults' = faults + 1),
             Owed' + faults <= Owed + faults'
      PROVE  LossInv'
  BY <1>0, <1>2, <1>3, SameLost DEF reception, record
<1>4. CASE UNCHANGED vars
  BY <1>0, <1>3, <1>4 DEF vars, Owed
<1>5. CASE Boot
  BY <1>0, <1>3, <1>5 DEF Boot, Become, Owed
<1>6. CASE Serve
  <2>1. faults' = faults /\ process = "starting" /\ process' = "up"
    BY <1>6 DEF Serve, Become
  <2>2. CASE UNCHANGED reception
    BY <1>0, <1>3, <2>1, <2>2 DEF Owed
  <2>3. CASE StartConsumer
    <3>1. consumer = "off"
      BY <1>0, <2>1 DEF IInv, ConsumerInPlace
    <3>2. /\ consumer' = "running" /\ position' = committed /\ toTell' = {}
          /\ UNCHANGED <<topic, committed, told>>
      BY <2>3 DEF StartConsumer
    <3>3. Lost' = Lost
      BY <3>1, <3>2 DEF Lost, Passed, InHand, Elems
    <3> QED
      BY <1>0, <1>2, <2>1, <3>2, <3>3 DEF Owed
  <2> QED
    BY <1>6, <2>2, <2>3 DEF Serve
<1>7. CASE ServeFails \/ Terminate
  BY <1>0, <1>3, <1>7 DEF ServeFails, Terminate, Fault, Become, Owed
<1>8. CASE Shutdown
  <2>1. /\ process = "draining" /\ process' = "stopping" /\ StopConsumer
        /\ (faults' = faults \/ faults' = faults + 1)
    BY <1>8 DEF Shutdown, Become, StopConsumer, Fault
  <2>2. /\ topic' = topic /\ told' = told /\ position' = position /\ consumer' = "off"
        /\ (committed' = position \/ committed' = committed)
        /\ (consumer = "off" => committed' = committed)
    BY <2>1 DEF StopConsumer
  <2>3. Lost' \subseteq Lost \cup {position - 1}
    BY <2>2, LeavingLoses
  <2>4. committed' <= position'
    BY <1>0, <2>2
  <2>5. Owed = 1 /\ Owed' = 0
    BY <2>1 DEF Owed
  <2> QED
    BY <1>0, <1>2, <2>1, <2>2, <2>3, <2>4, <2>5
<1>9. CASE Exit
  <2>1. /\ process = "stopping" /\ process' = "down" /\ faults' = faults
        /\ UNCHANGED <<topic, position, committed, told>>
        /\ consumer' = "off" /\ toTell' = {}
    BY <1>9 DEF Exit, Become, Lose
  <2>2. consumer = "off"
    BY <1>0, <2>1 DEF IInv, ConsumerInPlace
  <2>3. Lost' = Lost
    BY <2>1, <2>2 DEF Lost, Passed, InHand, Elems
  <2> QED
    BY <1>0, <1>2, <2>1, <2>3 DEF Owed
<1>10. CASE Crash
  <2>1. faults' = faults + 1 /\ process' = "down" /\ Lose
    BY <1>10 DEF Crash, Fault
  <2>2. Lost' \subseteq Lost \cup {position - 1}
    BY <2>1, LeavingLoses DEF Lose
  <2> QED
    BY <1>0, <1>2, <2>1, <2>2 DEF Lose, Owed
<1>11. CASE Talk \/ Await
  <2>1. UNCHANGED reception /\ process' = process /\ (faults' = faults \/ faults' = faults + 1)
    BY <1>0, <1>11, TalkingFault DEF Talk, Await, Here, Fault
  <2>2. Owed' = Owed /\ Owed \in Nat
    BY <2>1 DEF Owed
  <2>3. Owed' + faults <= Owed + faults'
    BY <1>0, <2>1, <2>2
  <2> QED
    BY <1>3, <2>1, <2>3
<1>12. CASE Consume
  <2>1. Consuming /\ faults' = faults /\ process' = process
    BY <1>12 DEF Consume, Consuming, Here
  <2>2. topic' = topic /\ committed' <= position'
    BY <1>0, <2>1 DEF Consuming, PollUpdate, PollBad, Tell, AutoCommit, record
  <2>3. Lost' \subseteq Lost
    BY <2>1, ConsumingKeeps
  <2> QED
    BY <1>0, <1>2, <2>1, <2>2, <2>3 DEF Owed
<1>13. CASE AcceptPost \/ ServePost
  <2>1. /\ UNCHANGED <<topic, position, committed, consumer, toTell, told>>
        /\ process' = process /\ (faults' = faults \/ faults' = faults + 1)
    BY <1>0, <1>13 DEF AcceptPost, Post, ServePost, Serving, AnswerError, TellPost, AnswerOk,
                       Fault, Here, record
  <2>2. Owed' = Owed /\ Owed \in Nat
    BY <2>1 DEF Owed
  <2>3. Owed' + faults <= Owed + faults'
    BY <1>0, <2>1, <2>2
  <2> QED
    BY <1>0, <1>2, <2>1, <2>3, SameLost
<1> QED
  BY <1>4, <1>5, <1>6, <1>7, <1>8, <1>9, <1>10, <1>11, <1>12, <1>13 DEF Next, Lifespan

(* Over any stops, crashes and restarts the bot loses no more updates than  *)
(* there were such events.                                                  *)
THEOREM LossesBounded == Spec => []LossBounded
<1>1. Init => LossInv
  <2> SUFFICES ASSUME Init PROVE LossInv
    OBVIOUS
  <2>1. load \in Loads /\ topic = load.topic /\ faults = load.spent
    BY DEF Init
  <2>2. topic \in Seq(Records) /\ faults \in Nat
    BY <2>1, LoadsAssumption, FaultsAssumption
  <2>3. position = 1 /\ committed = 1 /\ consumer = "off" /\ process = "down"
    BY DEF Init, ReceptionInit
  <2>4. Lost = {}
    BY <2>2, <2>3 DEF Lost, Passed
  <2> QED
    BY <2>2, <2>3, <2>4, InitInvariant, FS_EmptySet DEF LossInv, Owed
<1>2. LossInv /\ [Next]_vars => LossInv'
  BY LossStep
<1>3. LossInv => LossBounded
  <2> SUFFICES ASSUME LossInv PROVE LossBounded
    OBVIOUS
  <2> QED
    BY LostFinite DEF LossInv, LossBounded, Owed
<1> QED
  BY <1>1, <1>2, <1>3, PTL DEF Spec

------------------------------------------------------------------------------
(* Conversations *)

(* The process ends between any two steps of a conversation, or at the end  *)
(* of one.                                                                  *)
LEMMA Conversing ==
  ASSUME [Next]_vars PROVE DialogueStep \/ UNCHANGED dialogues \/ DialogueEnd
<1>1. CASE Exit \/ Crash
  BY <1>1 DEF Exit, Crash, DialogueEnd, Abandoned
<1>2. CASE Boot \/ Serve \/ ServeFails \/ Terminate \/ Shutdown
  BY <1>2 DEF Boot, Serve, ServeFails, Terminate, Shutdown
<1>3. CASE Talk \/ Await
  BY <1>3 DEF Talk, Await, DialogueStep
<1>4. CASE Consume \/ AcceptPost \/ ServePost
  BY <1>4 DEF Consume, AcceptPost, ServePost
<1>5. CASE UNCHANGED vars
  BY <1>5 DEF vars
<1> QED
  BY <1>1, <1>2, <1>3, <1>4, <1>5 DEF Next, Lifespan

LEMMA DialoguesHold == Spec => []DialoguesInv
<1>1. Init => DialoguesInv
  BY InitDialogues DEF Init
<1>2. DialoguesInv /\ [Next]_vars => DialoguesInv'
  BY Conversing, StepDialogues, EndDialogues
<1> QED
  BY <1>1, <1>2, PTL DEF Spec

(* What a user is told of a call that succeeded is so, whatever calls were  *)
(* retried, lost or abandoned before it: the url is among the chat's        *)
(* subscriptions, the list is all of them.                                  *)
THEOREM SuccessesAreReal == Spec => []SuccessIsReal
<1>1. DialoguesInv => SuccessIsReal
  BY DEF DialoguesInv, CallInv
<1> QED
  BY <1>1, DialoguesHold, PTL

(* A call whose requests were all answered fails for a reason the scrapper  *)
(* has, or after a threshold of failures in a row.                          *)
THEOREM FailuresHaveReasons == Spec => []FailureHasReason
<1>1. DialoguesInv => FailureHasReason
  BY DEF DialoguesInv, CallInv
<1> QED
  BY <1>1, DialoguesHold, PTL

(* A number in /untrack, or alone, names the link it had in the list that   *)
(* its user saw last.                                                       *)
THEOREM NumbersAreOfShownLists == Spec => []NumberIsOfShownList
<1>1. DialoguesInv => NumberIsOfShownList
  BY DEF DialoguesInv, CallInv
<1> QED
  BY <1>1, DialoguesHold, PTL

(* What a dialogue adds is the url its user gave last, in whichever chat,   *)
(* and gave since anything was last added or cancelled.                     *)
THEOREM UrlsAreLastGiven == Spec => []UrlIsLastGiven
<1>1. DialoguesInv => UrlIsLastGiven
  BY DEF DialoguesInv, CallInv
<1> QED
  BY <1>1, DialoguesHold, PTL

------------------------------------------------------------------------------
(* Types, and stops *)

PostsType ==
  posts \in [Requests -> [at : {"none", "telling", "ok", "error", "cut"},
                          left : SUBSET Chats]]

(* A record is in hand only where one was polled. *)
HandedOut == toTell # {} => position > 1

(* What TypeOK says of the rest of the bot. *)
ReceptionType ==
  /\ faults \in 0..MaxFaults
  /\ source = load.source
  /\ topic = load.topic
  /\ {position, committed} \subseteq 1..(Len(topic) + 1)
  /\ consumer \in {"off", "running", "ended"}
  /\ toTell \subseteq Chats
  /\ told \in [Chats -> Seq(DOMAIN topic)]
  /\ PostsType
  /\ reread \in BOOLEAN
  /\ HandedOut

LifespanType ==
  /\ load \in Loads
  /\ process \in {"down", "starting", "up", "draining", "stopping"}
  /\ crashed \in BOOLEAN
  /\ consumer # "off" => source = "kafka" /\ process \in {"up", "draining"}
  /\ Posting # {} => process \in {"up", "draining"}
  /\ process = "down" => Idle

BotInv == TypeInv /\ ReceptionType /\ LifespanType

LEMMA TopicType ==
  ASSUME load \in Loads, topic = load.topic
  PROVE  /\ topic \in Seq(Records) /\ Len(topic) \in Nat /\ DOMAIN topic = 1..Len(topic)
         /\ \A o \in DOMAIN topic : topic[o].chats \subseteq Chats
         /\ \A r \in Requests : load.posted[r] \subseteq Chats
<1>1. topic \in Seq(Records) /\ load.posted \in [Requests -> SUBSET Chats]
  BY LoadsAssumption
<1>2. Len(topic) \in Nat /\ DOMAIN topic = 1..Len(topic)
      /\ \A o \in DOMAIN topic : topic[o] \in Records
  BY <1>1
<1>3. \A x \in Records : x.chats \subseteq Chats
  BY DEF Records
<1> QED
  BY <1>1, <1>2, <1>3

LEMMA InitBotInv == Init => BotInv
<1> SUFFICES ASSUME Init PROVE BotInv
  OBVIOUS
<1>1. /\ load \in Loads /\ topic = load.topic /\ source = load.source
      /\ faults = load.spent /\ ReceptionInit /\ DialoguesInit
      /\ process = "down" /\ crashed = FALSE
  BY DEF Init
<1>2. faults \in 0..MaxFaults
  BY <1>1, LoadsAssumption
<1>3. Len(topic) \in Nat
  BY <1>1, TopicType
<1>4. PostsType /\ Posting = {} /\ reread = FALSE
  BY <1>1 DEF ReceptionInit, PostsType, Posting, NoPost
<1>5. told \in [Chats -> Seq(DOMAIN topic)]
  BY <1>1 DEF ReceptionInit
<1>6. position \in 1..(Len(topic) + 1) /\ committed \in 1..(Len(topic) + 1)
      /\ consumer = "off" /\ toTell = {}
  BY <1>1, <1>3 DEF ReceptionInit
<1>7. TypeInv /\ Idle
  BY <1>1, InitType DEF DialoguesInit, Idle
<1>8. ReceptionType
  BY <1>1, <1>2, <1>4, <1>5, <1>6 DEF ReceptionType, HandedOut
<1>9. LifespanType
  BY <1>1, <1>4, <1>6, <1>7 DEF LifespanType
<1> QED
  BY <1>7, <1>8, <1>9 DEF BotInv

(* No step takes more faults than there may be. *)
LEMMA FaultsType ==
  ASSUME faults \in 0..MaxFaults, Fault \/ UNCHANGED faults PROVE faults' \in 0..MaxFaults
BY FaultsAssumption DEF Fault

LEMMA AppendType ==
  ASSUME NEW S, NEW s \in Seq(S), NEW e \in S PROVE Append(s, e) \in Seq(S)
OBVIOUS

(* The consumer: what it tells a chat of is a record of the topic. *)
LEMMA ConsumingType == ASSUME BotInv, Consuming, load' = load PROVE ReceptionType'
<1>1. /\ load \in Loads /\ topic = load.topic /\ source = load.source /\ faults \in 0..MaxFaults
      /\ position \in 1..(Len(topic) + 1) /\ committed \in 1..(Len(topic) + 1)
      /\ toTell \subseteq Chats /\ told \in [Chats -> Seq(DOMAIN topic)] /\ PostsType
      /\ consumer \in {"off", "running", "ended"} /\ HandedOut /\ reread \in BOOLEAN
  BY DEF BotInv, ReceptionType, LifespanType
<1>2. /\ Len(topic) \in Nat /\ DOMAIN topic = 1..Len(topic)
      /\ \A o \in DOMAIN topic : topic[o].chats \subseteq Chats
  BY <1>1, TopicType
<1>3. UNCHANGED <<topic, source, faults, posts, reread>>
  BY DEF Consuming, PollUpdate, PollBad, Tell, AutoCommit
<1>4. PostsType' /\ faults' \in 0..MaxFaults /\ source' = load'.source /\ topic' = load'.topic
  BY <1>1, <1>3 DEF PostsType
<1>5. CASE PollUpdate \/ PollBad
  <2>1. position \in 1..Len(topic)
    BY <1>1, <1>2, <1>5 DEF PollUpdate, PollBad, CanPoll
  <2>2. position' \in 1..(Len(topic) + 1) /\ (toTell' # {} => position' > 1)
        /\ committed' = committed /\ told' = told /\ consumer' \in {consumer, "ended"}
    BY <1>2, <2>1, <1>5 DEF PollUpdate, PollBad, CanPoll
  <2>3. toTell' \subseteq Chats
    BY <1>1, <1>2, <2>1, <1>5 DEF PollUpdate, PollBad
  <2> QED
    BY <1>1, <1>3, <1>4, <2>2, <2>3 DEF ReceptionType, HandedOut
<1>6. CASE Tell
  <2>1. PICK c \in toTell : /\ told' = [told EXCEPT ![c] = Append(@, position - 1)]
                            /\ toTell' = toTell \ {c}
    BY <1>6 DEF Tell
  <2>2. UNCHANGED <<position, committed, consumer>>
    BY <1>6 DEF Tell
  <2>3. c \in Chats /\ position - 1 \in DOMAIN topic
    BY <1>1, <1>2, <2>1 DEF HandedOut
  <2>4. Append(told[c], position - 1) \in Seq(DOMAIN topic)
    BY <1>1, <2>3, AppendType
  <2>5. told' \in [Chats -> Seq(DOMAIN topic')]
    BY <1>1, <1>3, <2>1, <2>4
  <2> QED
    BY <1>1, <1>3, <1>4, <2>1, <2>2, <2>5 DEF ReceptionType, HandedOut
<1>7. CASE AutoCommit
  BY <1>1, <1>3, <1>4, <1>7 DEF AutoCommit, record, ReceptionType, HandedOut
<1> QED
  BY <1>5, <1>6, <1>7 DEF Consuming

(* The posts: the chats still to be told are some of those posted. *)
LEMMA PostsKept ==
  ASSUME BotInv, \/ \E r \in Requests : Post(r, load.posted[r])
                 \/ Serving
  PROVE  PostsType'
<1>1. PostsType /\ \A r \in Requests : load.posted[r] \subseteq Chats
  BY TopicType DEF BotInv, ReceptionType, LifespanType
<1>2. ASSUME NEW r \in Requests, Post(r, load.posted[r]) PROVE PostsType'
  BY <1>1, <1>2 DEF Post, PostsType
<1>3. ASSUME NEW r \in Requests, NEW at \in {"ok", "error"},
             posts' = [posts EXCEPT ![r].at = at]
      PROVE  PostsType'
  BY <1>1, <1>3 DEF PostsType
<1>4. ASSUME NEW r \in Requests, TellPost(r) PROVE PostsType'
  BY <1>1, <1>4 DEF TellPost, PostsType
<1> QED
  BY <1>2, <1>3, <1>4 DEF Serving, AnswerError, AnswerOk

(* Steps the topic and the posts have no part in. *)
LEMMA ReceptionUntouched ==
  ASSUME BotInv, UNCHANGED <<reception, load>>, Fault \/ UNCHANGED faults PROVE ReceptionType'
<1>1. faults' \in 0..MaxFaults
  BY FaultsType DEF BotInv, ReceptionType
<1> QED
  BY <1>1 DEF BotInv, ReceptionType, reception, record, PostsType, HandedOut

(* Where lifespan starts and stops the consumer, and where the process ends. *)
LEMMA LifespanReception == ASSUME BotInv, Lifespan PROVE ReceptionType'
<1>1. load' = load /\ (Fault \/ UNCHANGED faults)
  BY DEF Lifespan, Boot, Serve, ServeFails, Terminate, Shutdown, StopConsumer, Exit, Crash, Become
<1>2. faults' \in 0..MaxFaults
  BY <1>1, FaultsType DEF BotInv, ReceptionType
<1>3. CASE UNCHANGED reception
  BY <1>1, <1>3, ReceptionUntouched
<1>4. CASE StartConsumer
  BY <1>1, <1>2, <1>4 DEF StartConsumer, BotInv, ReceptionType, PostsType, HandedOut
<1>5. CASE StopConsumer
  <2>1. /\ consumer' = "off" /\ toTell' = {} /\ committed' \in {committed, position}
        /\ reread' \in {reread, TRUE} /\ UNCHANGED <<position, source, topic, told, posts>>
    BY <1>5 DEF StopConsumer
  <2> QED
    BY <1>1, <1>2, <2>1 DEF BotInv, ReceptionType, PostsType, HandedOut
<1>6. CASE Exit \/ Crash
  <2>1. /\ Lose /\ BotInv /\ reread' \in {reread, committed # position, TRUE}
    BY <1>6 DEF Exit, Crash
  <2>2. PostsType'
    BY <2>1 DEF Lose, BotInv, ReceptionType, PostsType
  <2>3. reread' \in BOOLEAN
    BY <2>1 DEF BotInv, ReceptionType
  <2> QED
    BY <1>1, <1>2, <2>1, <2>2, <2>3 DEF Lose, BotInv, ReceptionType, HandedOut
<1> QED
  BY <1>3, <1>4, <1>5, <1>6 DEF Lifespan, Boot, Serve, ServeFails, Terminate, Shutdown

LEMMA ReceptionKept == ASSUME BotInv, [Next]_vars PROVE ReceptionType'
<1>1. CASE Lifespan
  BY <1>1, LifespanReception
<1>2. CASE Talk \/ Await
  BY <1>2, TalkingFault, ReceptionUntouched DEF Talk, Await, Here
<1>3. CASE Consume
  BY <1>3, ConsumingType DEF Consume, Here
<1>4. CASE AcceptPost \/ ServePost
  <2>1. PostsType'
    BY <1>4, PostsKept DEF AcceptPost, ServePost
  <2>2. UNCHANGED <<load, source, topic, record, committed, told, reread>>
        /\ (Fault \/ UNCHANGED faults)
    BY <1>4 DEF AcceptPost, Post, ServePost, Serving, AnswerError, TellPost, AnswerOk, Here
  <2>3. faults' \in 0..MaxFaults
    BY <2>2, FaultsType DEF BotInv, ReceptionType
  <2> QED
    BY <2>1, <2>2, <2>3 DEF record, BotInv, ReceptionType, HandedOut
<1>5. CASE UNCHANGED vars
  BY <1>5, ReceptionUntouched DEF vars
<1> QED
  BY <1>1, <1>2, <1>3, <1>4, <1>5 DEF Next

(* The socket is open while the process is up, and closed when all posts    *)
(* are answered.                                                            *)
LEMMA LifespanKept == ASSUME BotInv, [Next]_vars PROVE LifespanType'
<1> USE DEF BotInv, LifespanType
<1>1. CASE Boot \/ Serve \/ ServeFails \/ Terminate
  <2>1. /\ UNCHANGED <<load, crashed, source, posts>>
        /\ process' \in {"starting", "up", "draining", "stopping"}
    BY <1>1 DEF Boot, Serve, ServeFails, Terminate, Become, StartConsumer, reception
  <2>2. Posting' = Posting
    BY <2>1 DEF Posting
  <2>3. Posting' # {} => process' \in {"up", "draining"}
    BY <1>1, <2>2 DEF Boot, Serve, ServeFails, Terminate, Become
  <2>4. consumer' # "off" => source' = "kafka" /\ process' \in {"up", "draining"}
    BY <1>1, <2>1 DEF Boot, Serve, ServeFails, Terminate, Become, StartConsumer, reception, record
  <2> QED
    BY <2>1, <2>3, <2>4
<1>2. CASE Shutdown
  BY <1>2 DEF Shutdown, Become, StopConsumer, Posting
<1>3. CASE Exit
  <2>1. /\ UNCHANGED <<load, crashed, source>> /\ process' = "down" /\ consumer' = "off"
    BY <1>3 DEF Exit, Become, Lose
  <2>2. Idle'
    BY <1>3 DEF Exit, Forget, Idle, NoCall
  <2>3. Posting' = {}
    BY <1>3 DEF Exit, Lose, Posting, ReceptionType, PostsType
  <2> QED
    BY <2>1, <2>2, <2>3
<1>4. CASE Crash
  <2>1. /\ load' = load /\ crashed' = TRUE /\ process' = "down" /\ source' = source
        /\ consumer' = "off"
    BY <1>4 DEF Crash, Lose
  <2>2. Idle'
    BY <1>4 DEF Crash, Forget, Idle, NoCall
  <2>3. Posting' = {}
    BY <1>4 DEF Crash, Lose, Posting, ReceptionType, PostsType
  <2> QED
    BY <2>1, <2>2, <2>3
<1>5. CASE Talk \/ Await
  BY <1>5 DEF Talk, Await, Here, reception, record, Posting
<1>6. CASE Consume
  <2>1. UNCHANGED <<load, process, crashed, source, posts, call>>
        /\ (consumer' # "off" => consumer # "off")
    BY <1>6 DEF Consume, Consuming, PollUpdate, PollBad, CanPoll, Tell, AutoCommit, record, Here,
                dialogues
  <2> QED
    BY <2>1 DEF Posting, Idle, NoCall
<1>7. CASE AcceptPost
  <2>1. UNCHANGED <<load, process, crashed, source, consumer, call>> /\ process = "up"
    BY <1>7 DEF AcceptPost, Post, record, Here, dialogues
  <2> QED
    BY <2>1
<1>8. CASE ServePost
  <2>1. UNCHANGED <<load, process, crashed, source, consumer, call>> /\ Posting # {}
    BY <1>8 DEF ServePost, Serving, AnswerError, TellPost, AnswerOk, Posting, record, Here,
                dialogues
  <2> QED
    BY <2>1 DEF Idle, NoCall
<1>9. CASE UNCHANGED vars
  BY <1>9 DEF vars, dialogues, reception, record, Posting, Idle, NoCall
<1> QED
  BY <1>1, <1>2, <1>3, <1>4, <1>5, <1>6, <1>7, <1>8, <1>9 DEF Next, Lifespan

LEMMA BotInvKept == BotInv /\ [Next]_vars => BotInv'
<1> SUFFICES ASSUME BotInv, [Next]_vars PROVE BotInv'
  OBVIOUS
<1>1. TypeInv'
  BY Conversing, StepType, EndType DEF BotInv
<1> QED
  BY <1>1, ReceptionKept, LifespanKept DEF BotInv

(* Every variable holds a value the code can give it, the chats are told of *)
(* records of the topic, and consumer, requests and calls are only where    *)
(* the process has got as far as that.                                      *)
THEOREM BotTypes == Spec => []TypeOK
<1>1. BotInv => TypeOK
  BY DEF BotInv, TypeInv, ReceptionType, LifespanType, TypeOK, PostsType
<1> QED
  BY InitBotInv, BotInvKept, <1>1, PTL DEF Spec

(* Only a crash leaves a post without its answer: a stop waits for the      *)
(* requests it has taken before it lets go of anything they need.           *)
StopCutsNothing == ~crashed => \A r \in Requests : posts[r].at # "cut"

UncutInv == BotInv /\ StopCutsNothing

LEMMA InitUncut == Init => UncutInv
BY InitBotInv DEF UncutInv, StopCutsNothing, Init, ReceptionInit, NoPost

LEMMA UncutKept == ASSUME UncutInv, [Next]_vars PROVE StopCutsNothing'
<1> SUFFICES ASSUME ~crashed' PROVE \A r \in Requests : posts'[r].at # "cut"
  BY DEF StopCutsNothing
<1>1. ~crashed
  BY DEF Next, Lifespan, Boot, Serve, ServeFails, Terminate, Shutdown, Exit, Crash, Become, Talk,
         Await, Consume, AcceptPost, ServePost, Here, vars
<1>2. PostsType /\ \A r \in Requests : posts[r].at # "cut"
  BY <1>1 DEF UncutInv, StopCutsNothing, BotInv, ReceptionType
<1>3. CASE UNCHANGED posts
  BY <1>2, <1>3
<1>4. CASE AcceptPost
  BY <1>2, <1>4 DEF AcceptPost, Post, PostsType
<1>5. CASE ServePost
  BY <1>2, <1>5 DEF ServePost, Serving, AnswerError, TellPost, AnswerOk, PostsType
<1>6. CASE Exit
  <2>1. Posting = {}
    BY <1>6 DEF Exit, UncutInv, BotInv, LifespanType
  <2>2. \A r \in Requests : posts'[r] = posts[r]
    BY <1>6, <2>1 DEF Exit, Lose
  <2> QED
    BY <1>2, <2>2
<1>7. posts' = posts \/ AcceptPost \/ ServePost \/ Exit
  BY DEF Next, Lifespan, Boot, Serve, ServeFails, Terminate, Shutdown, Crash, Become, Talk,
         Await, Consume, Consuming, PollUpdate, PollBad, Tell, AutoCommit, StartConsumer,
         StopConsumer, reception, vars
<1> QED
  BY <1>3, <1>4, <1>5, <1>6, <1>7

(* Every post the bot took is answered before a stop ends its process:      *)
(* shutdown() begins when uvicorn has no request left in hand.              *)
THEOREM StopsCutNothing == Spec => []StopCutsNothing
<1>1. UncutInv /\ [Next]_vars => UncutInv'
  BY BotInvKept, UncutKept DEF UncutInv
<1>2. UncutInv => StopCutsNothing
  BY DEF UncutInv
<1> QED
  BY InitUncut, <1>1, <1>2, PTL DEF Spec

------------------------------------------------------------------------------
(* The bot as deployed *)

(* Nothing is in a user's dictionary, and nobody has a subscription. *)
NothingAdded == \A u \in Users : userData[u] = Fresh(FALSE) /\ subs[u] = {}

ForgetfulInv == NothingAdded /\ call.kind # "add" /\ call.number = 0

LEMMA ForgetfulStep ==
  ASSUME TypeInv, ForgetfulInv, DialogueStep \/ UNCHANGED dialogues \/ DialogueEnd
  PROVE  ForgetfulInv'
<1>1. /\ userData \in [Users -> Datas] /\ call \in Calls
      /\ \A c \in Convs : owner[c] \in Users
      /\ \A c \in Convs : /\ Data(c) = Fresh(FALSE)
                          /\ Data(c).url = None /\ Data(c).list = <<>>
  BY UserType, FreshType DEF TypeInv, DialoguesTypeOK, ForgetfulInv, NothingAdded, Data
<1>2. ASSUME NEW c \in Convs, NEW d, Remember(c, d) PROVE userData' = userData
  BY <1>1, <1>2 DEF Remember, Empty, Data
<1>3. ASSUME NEW kind, NEW c \in Convs, NEW url, Ask(kind, c, url, 0), kind # "add"
      PROVE  ForgetfulInv'
  <2>1. UNCHANGED <<userData, subs>>
    BY <1>3 DEF Ask, memory, scrapper
  <2>2. call'.kind = kind /\ call'.number = 0
    BY <1>3 DEF Ask, NoCall
  <2> QED
    BY <1>3, <2>1, <2>2 DEF ForgetfulInv, NothingAdded
<1>4. ASSUME NEW c \in Convs, \A n : ~(n \in DOMAIN Data(c).list)
      PROVE  ~UntrackNumber(c) /\ ~Choose(c)
  BY <1>4 DEF UntrackNumber, Choose
<1>5. ASSUME UNCHANGED <<userData, subs>>, (call' = call \/ call' = NoCall) PROVE ForgetfulInv'
  BY <1>5, NoCallType DEF ForgetfulInv, NothingAdded
<1>6. ASSUME NEW c \in Convs, Message(c) PROVE ForgetfulInv'
  <2>1. CASE Start(c) \/ ListLinks(c) \/ Untrack(c)
    BY <2>1, <1>3 DEF Start, ListLinks, Untrack
  <2>2. ASSUME NEW url \in Urls, UntrackUrl(c, url) PROVE ForgetfulInv'
    BY <2>2, <1>3 DEF UntrackUrl
  <2>3. ~UntrackNumber(c) /\ ~Choose(c) /\ ~ChooseBadly(c)
    <3>1. Data(c).list = <<>>
      BY <1>1
    <3>2. ~UntrackNumber(c) /\ ~Choose(c)
      <4>1. DOMAIN <<>> = {}
        OBVIOUS
      <4>2. DOMAIN Data(c).list = {}
        BY <3>1, <4>1
      <4> QED
        BY <1>4, <4>2
    <3>3. ~ChooseBadly(c)
      BY <3>1 DEF ChooseBadly
    <3> QED
      BY <3>2, <3>3
  <2>4. CASE Track(c) \/ EditUrl(c)
    BY <1>5, <2>4 DEF Track, EditUrl, Answering, scrapper
  <2>5. CASE GiveTags(c)
    BY <1>1, <1>5, <2>5 DEF GiveTags, Answering, scrapper
  <2>6. CASE Cancel(c)
    BY <1>2, <1>5, <2>6 DEF Cancel, Answering, scrapper
  <2>7. ASSUME NEW url \in Urls, GiveUrl(c, url) PROVE ForgetfulInv'
    BY <1>2, <1>5, <2>7 DEF GiveUrl, Answering, scrapper
  <2> QED
    BY <1>6, <2>1, <2>2, <2>3, <2>4, <2>5, <2>6, <2>7 DEF Message
<1>7. CASE Answered \/ Unanswered
  <2>1. UNCHANGED <<userData, subs>>
    BY <1>7 DEF Answered, Unanswered, Handled, memory, scrapper, ForgetfulInv
  <2>2. call'.kind = call.kind /\ call'.number = call.number
    BY <1>1, <1>7 DEF Answered, Unanswered, Succeeds, Rejects, CallFails, Calls
  <2> QED
    BY <2>1, <2>2 DEF ForgetfulInv, NothingAdded
<1>8. CASE Finish
  <2>1. call.in \in Convs /\ call' = NoCall /\ UNCHANGED subs
    BY <1>8, NoCallType
       DEF TypeInv, CallHasPlace, Finish, JustReply, OfferChoices, EndTrack, EndUntrack, Back,
           Returned, scrapper
  <2>2. userData' = userData
    BY <1>2, <1>8, <2>1 DEF Finish, JustReply, OfferChoices, EndTrack, EndUntrack, memory
  <2> QED
    BY <1>5, <2>1, <2>2
<1>9. CASE Elapse \/ UNCHANGED dialogues
  BY <1>5, <1>9 DEF Elapse, dialogues, memory, scrapper
<1>10. CASE DialogueEnd
  <2>1. UNCHANGED subs
    BY <1>10 DEF DialogueEnd, Abandoned, Handled, scrapper, ForgetfulInv
  <2>2. userData' = userData
    BY <1>1, <1>10, FreshType DEF DialogueEnd, Forget, ForgetfulInv, NothingAdded
  <2> QED
    BY <1>5, <1>10, <2>1, <2>2 DEF DialogueEnd, Forget
<1> QED
  BY <1>6, <1>7, <1>8, <1>9, <1>10 DEF DialogueStep, Calling

(* As deployed, with nothing in a user's dictionary but what the handlers   *)
(* put there, /track never adds a link and no number ever names one: nobody *)
(* gets a subscription through the bot.                                     *)
THEOREM DeployedAddsNothing == ASSUME Keeping = {FALSE} PROVE Spec => []NothingAdded
<1>1. Init => ForgetfulInv
  <2> SUFFICES ASSUME DialoguesInit PROVE ForgetfulInv
    BY DEF Init
  <2>1. call.kind # "add" /\ call.number = 0
    BY NoCallType DEF DialoguesInit
  <2>2. PICK k \in Keeping : userData = [u \in Users |-> Fresh(k)]
    BY DEF DialoguesInit
  <2>3. NothingAdded
    BY <2>2 DEF DialoguesInit, NothingAdded
  <2> QED
    BY <2>1, <2>3 DEF ForgetfulInv
<1>2. DialoguesInv /\ ForgetfulInv /\ [Next]_vars => ForgetfulInv'
  BY Conversing, ForgetfulStep DEF DialoguesInv
<1>3. ForgetfulInv => NothingAdded
  BY DEF ForgetfulInv
<1> QED
  BY DialoguesHold, <1>1, <1>2, <1>3, PTL DEF Spec
==============================================================================
