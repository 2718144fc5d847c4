--------------------------- MODULE Tracker_proofs ---------------------------
(***************************************************************************)
(* Theorems about Tracker for any number of links, workers, batches,        *)
(* events and faults.  The inductive invariant follows the task of a link   *)
(* from its snapshot of the row to the sender.                              *)
(***************************************************************************)
EXTENDS Tracker, FiniteSetTheorems, TLAPS

Early == {"waiting", "fetching", "marking", "noting", "stamping"}

(* Until it stamps, a task holds the very last_updated of its row: nobody  *)
(* else stamps that row meanwhile.                                         *)
SnapshotFresh(l) == At(l, Early) => task[l].seen = lastUpdated[l]

(* A task only stamps a change newer than its snapshot. *)
ChangeNewer(l) == At(l, {"noting", "stamping"}) => task[l].seen < task[l].change

(* Having stamped, it announces the stamp, which nobody announced before.  *)
ChangeUnannounced(l) ==
  At(l, {"asking", "sending"}) =>
    /\ task[l].change = lastUpdated[l]
    /\ \A i \in 1..Len(handed[l]) : handed[l][i].at < task[l].change

(* No announcement is ahead of the stamp. *)
AnnouncedStamped(l) == \A i \in 1..Len(handed[l]) : handed[l][i].at <= lastUpdated[l]

OnceInOrder(l) ==
  \A i, j \in 1..Len(handed[l]) : i < j => handed[l][i].at < handed[l][j].at

Follows(l) ==
  /\ SnapshotFresh(l)
  /\ ChangeNewer(l)
  /\ l \notin swallowed => ChangeUnannounced(l) /\ AnnouncedStamped(l) /\ OnceInOrder(l)

IInv == TypeOK /\ \A l \in Links : Follows(l)

(* What Follows(l) is about stays as it is. *)
Untouched(l) ==
  /\ task'[l] = task[l]
  /\ lastUpdated'[l] = lastUpdated[l]
  /\ handed'[l] = handed[l]
  /\ (l \in swallowed' <=> l \in swallowed)

Grows == \A l \in Links : lastUpdated[l] <= lastUpdated'[l]

USE DEF At, NoChange

------------------------------------------------------------------------------

LEMMA BatchSizeType == BatchSize \in Nat \ {0}
BY TrackerAssumption DEF BatchSize

LEMMA NoTaskType == NoTask \in Tasks /\ NoTask.at = "none"
BY TrackerAssumption DEF NoTask, Tasks, Labels, Times

LEMMA Typing ==
  ASSUME TypeOK, NEW l \in Links
  PROVE  /\ task[l] \in Tasks
         /\ lastUpdated[l] \in Nat /\ lastUpdated[l] \in Times
         /\ latest[l] \in Times
         /\ task[l].seen \in Nat /\ task[l].change \in Nat
         /\ task[l].change \in Times
         /\ task[l].at \in Labels
         /\ task[l].audience \in SUBSET Chats
         /\ handed[l] \in Seq(Calls)
         /\ Len(handed[l]) \in Nat
         /\ \A i \in 1..Len(handed[l]) : handed[l][i].at \in Nat
<1>1. Times \subseteq Nat
  BY TrackerAssumption DEF Times
<1>2. task[l] \in Tasks /\ lastUpdated[l] \in Times /\ latest[l] \in Times
      /\ handed[l] \in Seq(Calls)
  BY DEF TypeOK
<1>3. \A h \in Seq(Calls) : Len(h) \in Nat /\ \A i \in 1..Len(h) : h[i] \in Calls
  OBVIOUS
<1> QED
  BY <1>1, <1>2, <1>3 DEF Tasks, Calls

LEMMA InitInvariant == Init => IInv
<1> SUFFICES ASSUME Init PROVE IInv
  OBVIOUS
<1> USE TrackerAssumption, NoTaskType
<1>1. TypeOK
  BY DEF Init, TypeOK, Times
<1>2. \A l \in Links : task[l].at = "none" /\ Len(handed[l]) = 0
  BY DEF Init
<1> QED
  BY <1>1, <1>2 DEF IInv, Follows, SnapshotFresh, ChangeNewer, ChangeUnannounced,
     AnnouncedStamped, OnceInOrder, Early

(* A link the step leaves alone. *)
LEMMA UntouchedFollows ==
  ASSUME NEW l \in Links, Follows(l), Untouched(l)
  PROVE  Follows(l)' /\ lastUpdated'[l] = lastUpdated[l]
BY DEF Follows, Untouched, SnapshotFresh, ChangeNewer, ChangeUnannounced,
   AnnouncedStamped, OnceInOrder

(* A task that is over, or that failed, asks nothing of its link. *)
LEMMA EndedFollows ==
  ASSUME NEW l \in Links, Follows(l), task'[l].at \in {"none", "failing"},
         lastUpdated'[l] = lastUpdated[l], handed'[l] = handed[l],
         l \in swallowed' <=> l \in swallowed
  PROVE  Follows(l)'
BY DEF Follows, SnapshotFresh, ChangeNewer, ChangeUnannounced, AnnouncedStamped,
   OnceInOrder, Early

------------------------------------------------------------------------------
(* Types *)

LEMMA TypeStep == TypeOK /\ [Next]_vars => TypeOK'
<1> SUFFICES ASSUME TypeOK, [Next]_vars PROVE TypeOK'
  OBVIOUS
<1> USE TrackerAssumption, BatchSizeType, NoTaskType
<1>1. CASE Environment
  <2> USE DEF Happens
  <2>1. CASE SourceChanges
    BY <2>1 DEF SourceChanges, TypeOK, columns, sweep, record
  <2>2. CASE Unsubscribe
    <3>1. PICK l \in present : \E c \in subs[l] : subs' = [subs EXCEPT ![l] = @ \ {c}]
      BY <2>2 DEF Unsubscribe
    <3>2. subs' \in [Links -> SUBSET Chats]
      BY <3>1 DEF TypeOK
    <3> QED
      BY <2>2, <3>2 DEF Unsubscribe, TypeOK, columns, sweep, record
  <2>3. CASE AddLink
    BY <2>3 DEF AddLink, TypeOK, columns, sweep, record
  <2>4. CASE Subscribe
    <3>1. PICK l \in present :
            \E c \in Chats \ subs[l] : subs' = [subs EXCEPT ![l] = @ \cup {c}]
      BY <2>4 DEF Subscribe
    <3>2. subs' \in [Links -> SUBSET Chats]
      BY <3>1 DEF TypeOK
    <3> QED
      BY <2>4, <3>2 DEF Subscribe, TypeOK, columns, sweep, record
  <2> QED
    BY <1>1, <2>1, <2>2, <2>3, <2>4 DEF Environment
<1>2. CASE Job
  <2> USE DEF surroundings, columns, record
  <2>1. CASE StartSweep
    BY <2>1 DEF StartSweep, TypeOK
  <2>2. CASE ReadBatch
    <3>1. \A l \in Links : [NoTask EXCEPT !.at = "waiting", !.seen = lastUpdated[l]] \in Tasks
      BY Typing DEF Tasks, NoTask, Labels, Times
    <3>2. task' \in [Links -> Tasks]
      BY <2>2, <3>1 DEF ReadBatch
    <3> QED
      BY <2>2, <3>2 DEF ReadBatch, TypeOK
  <2>3. CASE EndBatch
    BY <2>3 DEF EndBatch, TypeOK
  <2>4. CASE EndSweep
    BY <2>4 DEF EndSweep, TypeOK
  <2> QED
    BY <1>2, <2>1, <2>2, <2>3, <2>4 DEF Job
<1>3. CASE Interrupt
  BY <1>3 DEF Interrupt, Fault, TypeOK, surroundings, columns, record
<1>4. ASSUME NEW l \in Links, Works(l) \/ Raises(l) \/ Swallows(l) PROVE TypeOK'
  <2> USE DEF surroundings, columns, sweep, record
  <2>1. \A a \in Labels : [task EXCEPT ![l].at = a] \in [Links -> Tasks]
    BY DEF TypeOK, Tasks
  <2>2. [task EXCEPT ![l] = NoTask] \in [Links -> Tasks]
    BY DEF TypeOK
  <2>3. [lastUpdated EXCEPT ![l] = task[l].change] \in [Links -> Times]
    BY DEF TypeOK, Tasks
  <2>4. [lastChecked EXCEPT ![l] = "this"] \in [Links -> {"never", "earlier", "this"}]
    BY DEF TypeOK
  <2>5. {"fetching", "marking", "noting", "stamping", "asking", "sending", "failing"}
          \subseteq Labels
    BY DEF Labels
  <2>6. CASE Enter(l)
    BY <2>6, <2>1, <2>5 DEF Enter, Goto, TypeOK
  <2>7. CASE Fetch(l)
    <3>1. ASSUME NEW t \in Times, Compare(l, t) PROVE task' \in [Links -> Tasks]
      <4>1. PICK a \in Labels : task' = [task EXCEPT ![l].change = t, ![l].at = a]
        BY <2>5, <3>1 DEF Compare
      <4> QED
        BY <4>1 DEF TypeOK, Tasks
    <3>2. NoChange \in Times /\ latest[l] \in Times
      BY DEF TypeOK, Times
    <3> QED
      BY <2>7, <3>1, <3>2 DEF Fetch, Returned, Fault, TypeOK
  <2>8. CASE Mark(l)
    <3>1. task' \in [Links -> Tasks]
      BY <2>8, <2>1, <2>2, <2>5 DEF Mark, AfterMark, Goto, Leave
    <3>2. lastChecked' \in [Links -> {"never", "earlier", "this"}]
      BY <2>8, <2>4 DEF Mark
    <3> QED
      BY <2>8, <3>1, <3>2 DEF Mark, TypeOK
  <2>9. CASE Stamp(l)
    BY <2>9, <2>1, <2>3, <2>5 DEF Stamp, Goto, TypeOK
  <2>10. CASE Ask(l)
    <3>1. task' \in [Links -> Tasks]
      BY <2>10, <2>5 DEF Ask, TypeOK, Tasks
    <3> QED
      BY <2>10, <3>1 DEF Ask, TypeOK
  <2>11. CASE Hand(l)
    <3>1. [at |-> task[l].change, to |-> task[l].audience] \in Calls
      BY Typing DEF Calls
    <3>2. handed' \in [Links -> Seq(Calls)]
      BY <2>11, <3>1 DEF Hand, TypeOK
    <3> QED
      BY <2>11, <2>2, <3>2 DEF Hand, Leave, TypeOK
  <2>12. CASE FailMark(l)
    <3>1. lastChecked' \in [Links -> {"never", "earlier", "this"}]
      BY <2>12, <2>4 DEF FailMark, TypeOK
    <3> QED
      BY <2>12, <2>2, <3>1 DEF FailMark, Leave, Fault, TypeOK
  <2>13. CASE Raises(l)
    <3>1. lastChecked' \in [Links -> {"never", "earlier", "this"}]
      BY <2>13, <2>4 DEF Raises, MayApply, TypeOK
    <3>2. lastUpdated' \in [Links -> Times]
      BY <2>13, <2>3 DEF Raises, MayApply, TypeOK
    <3>3. task' \in [Links -> Tasks]
      BY <2>13, <2>1, <2>5 DEF Raises, Goto
    <3>4. UNCHANGED <<backend, latest, events, present, subs, phase, offset, roster,
                      failed, handed, swallowed>> /\ faults' = faults + 1
      BY <2>13 DEF Raises, Fault
    <3> QED
      BY <3>1, <3>2, <3>3, <3>4 DEF TypeOK
  <2>14. CASE Swallows(l)
    <3>1. lastChecked' \in [Links -> {"never", "earlier", "this"}]
      BY <2>14, <2>4 DEF Swallows, MayApply, TypeOK
    <3>2. lastUpdated' \in [Links -> Times]
      BY <2>14, <2>3 DEF Swallows, MayApply, TypeOK
    <3>3. task' \in [Links -> Tasks]
      BY <2>14, <2>1, <2>2, <2>5 DEF Swallows, AfterMark, Goto, Leave
    <3>4. swallowed' \subseteq Links
      BY <2>14 DEF Swallows, TypeOK
    <3>5. UNCHANGED <<backend, latest, events, present, subs, phase, offset, roster,
                      failed, handed>> /\ faults' = faults + 1
      BY <2>14 DEF Swallows, Fault
    <3> QED
      BY <3>1, <3>2, <3>3, <3>4, <3>5 DEF TypeOK
  <2> QED
    BY <1>4, <2>6, <2>7, <2>8, <2>9, <2>10, <2>11, <2>12, <2>13, <2>14 DEF Works
<1>5. CASE UNCHANGED vars
  BY <1>5 DEF vars, surroundings, columns, sweep, record, TypeOK
<1> QED
  BY <1>1, <1>2, <1>3, <1>4, <1>5 DEF Next

------------------------------------------------------------------------------
(* Announcements *)

LEMMA StepFollows ==
  ASSUME IInv, [Next]_vars
  PROVE  (\A l \in Links : Follows(l)') /\ Grows
<1> USE DEF IInv
<1>0. ASSUME \A l \in Links : Untouched(l)
      PROVE  (\A l \in Links : Follows(l)') /\ Grows
  BY <1>0, UntouchedFollows, Typing DEF Grows
<1>1. CASE Environment
  BY <1>1, <1>0 DEF Environment, SourceChanges, Unsubscribe, AddLink, Subscribe, Happens,
     Untouched, columns, record
<1>2. CASE Job
  <2>1. CASE StartSweep \/ EndBatch \/ EndSweep
    BY <2>1, <1>0 DEF StartSweep, EndBatch, EndSweep, Untouched, columns, record
  <2>2. CASE ReadBatch
    <3> SUFFICES ASSUME NEW l \in Links PROVE Follows(l)' /\ lastUpdated[l] <= lastUpdated'[l]
      BY DEF Grows
    <3>1. /\ lastUpdated' = lastUpdated /\ handed' = handed /\ swallowed' = swallowed
          /\ task'[l] = NoTask \/ (task'[l].at = "waiting" /\ task'[l].seen = lastUpdated[l])
      BY <2>2 DEF ReadBatch, columns, record, NoTask
    <3>2. task'[l].at \in {"none", "waiting"}
      BY <3>1, NoTaskType
    <3>3. SnapshotFresh(l)' /\ ChangeNewer(l)'
      BY <3>1, <3>2, NoTaskType DEF SnapshotFresh, ChangeNewer, Early
    <3>4. ChangeUnannounced(l)'
      BY <3>2 DEF ChangeUnannounced
    <3>5. l \notin swallowed' => AnnouncedStamped(l)' /\ OnceInOrder(l)'
      BY <3>1 DEF Follows, AnnouncedStamped, OnceInOrder
    <3> QED
      BY <3>1, <3>3, <3>4, <3>5, Typing DEF Follows
  <2> QED
    BY <1>2, <2>1, <2>2 DEF Job
<1>3. CASE Interrupt
  <2>1. \A l \in Links : task'[l].at = "none"
    BY <1>3, NoTaskType DEF Interrupt
  <2> QED
    BY <1>3, <2>1, EndedFollows, Typing DEF Interrupt, columns, record, Grows
<1>4. ASSUME NEW l \in Links, Works(l) \/ Raises(l) \/ Swallows(l)
      PROVE  (\A k \in Links : Follows(k)') /\ Grows
  <2>1. /\ \A k \in Links \ {l} : Untouched(k)
        /\ DOMAIN task = Links /\ DOMAIN lastUpdated = Links /\ DOMAIN handed = Links
    BY <1>4 DEF Works, Enter, Fetch, Compare, Mark, Stamp, Ask, Hand, FailMark, Raises,
       Swallows, MayApply, AfterMark, Goto, Leave, Untouched, columns, record, TypeOK
  <2> SUFFICES Follows(l)' /\ lastUpdated[l] <= lastUpdated'[l]
    BY <2>1, UntouchedFollows, Typing DEF Grows
  <2>2. Follows(l)
    OBVIOUS
  <2>3. ASSUME lastUpdated' = lastUpdated, handed' = handed, swallowed' = swallowed,
               task'[l].at \in {"none", "failing"}
        PROVE  Follows(l)' /\ lastUpdated[l] <= lastUpdated'[l]
    BY <2>2, <2>3, EndedFollows, Typing
  <2>4. ASSUME lastUpdated' = lastUpdated, handed' = handed, swallowed' = swallowed,
               SnapshotFresh(l)', ChangeNewer(l)',
               l \notin swallowed => ChangeUnannounced(l)'
        PROVE  Follows(l)' /\ lastUpdated[l] <= lastUpdated'[l]
    BY <2>2, <2>4, Typing DEF Follows, AnnouncedStamped, OnceInOrder
  <2>5. CASE Enter(l)
    <3>1. task'[l].at = "fetching" /\ task'[l].seen = task[l].seen
      BY <2>5, <2>1, Typing DEF Enter, Goto, Tasks
    <3> QED
      BY <2>5, <2>2, <2>4, <3>1 DEF Enter, columns, record, Follows, SnapshotFresh,
         ChangeNewer, ChangeUnannounced, Early
  <2>6. CASE Fetch(l)
    <3>1. PICK t \in Times : Compare(l, t)
      BY <2>6, Typing, TrackerAssumption DEF Fetch, Returned, Times
    <3>2. /\ task'[l].seen = task[l].seen /\ task'[l].change = t
          /\ task'[l].at = IF t <= task[l].seen THEN "marking" ELSE "noting"
      BY <3>1, <2>1, Typing DEF Compare, Tasks
    <3>3. t \in Nat
      BY TrackerAssumption DEF Times
    <3> QED
      BY <2>6, <2>2, <2>4, <3>2, <3>3, Typing DEF Fetch, columns, record, Follows,
         SnapshotFresh, ChangeNewer, ChangeUnannounced, Early
  <2>7. CASE Mark(l)
    <3>1. CASE task[l].at = "noting"
      <4>1. task'[l] = [task[l] EXCEPT !.at = "stamping"]
        BY <2>7, <3>1, <2>1 DEF Mark, AfterMark, Goto
      <4>2. /\ task'[l].at = "stamping" /\ task'[l].seen = task[l].seen
            /\ task'[l].change = task[l].change
        BY <4>1, Typing DEF Tasks
      <4> QED
        BY <2>7, <3>1, <2>2, <2>4, <4>2 DEF Mark, record, Follows, SnapshotFresh,
           ChangeNewer, ChangeUnannounced, Early
    <3>2. CASE task[l].at # "noting"
      BY <2>7, <3>2, <2>1, <2>3, NoTaskType DEF Mark, AfterMark, Leave, record
    <3> QED
      BY <3>1, <3>2
  <2>8. CASE Stamp(l)
    <3>1. /\ task'[l].at = "asking" /\ task'[l].change = task[l].change
          /\ lastUpdated'[l] = task[l].change /\ task[l].at = "stamping"
          /\ handed' = handed /\ swallowed' = swallowed
      BY <2>8, <2>1, Typing DEF Stamp, Goto, Tasks, record
    <3> QED
      BY <3>1, <2>2, Typing DEF Follows, SnapshotFresh, ChangeNewer, ChangeUnannounced,
         AnnouncedStamped, OnceInOrder, Early
  <2>9. CASE Ask(l)
    <3>1. /\ task'[l].at = "sending" /\ task'[l].change = task[l].change
          /\ task[l].at = "asking"
      BY <2>9, <2>1, Typing DEF Ask, Tasks
    <3>2. UNCHANGED <<lastUpdated, handed, swallowed>>
      BY <2>9 DEF Ask, columns, record
    <3>3. SnapshotFresh(l)' /\ ChangeNewer(l)'
      BY <3>1 DEF SnapshotFresh, ChangeNewer, Early
    <3>4. l \notin swallowed => ChangeUnannounced(l)'
      BY <3>1, <3>2, <2>2 DEF Follows, ChangeUnannounced
    <3> QED
      BY <2>4, <3>2, <3>3, <3>4
  <2>10. CASE Hand(l)
    <3>1. /\ task'[l].at = "none" /\ task[l].at = "sending"
          /\ lastUpdated' = lastUpdated /\ swallowed' = swallowed
          /\ handed'[l] = Append(handed[l], [at |-> task[l].change, to |-> task[l].audience])
      BY <2>10, <2>1, NoTaskType DEF Hand, Leave, columns
    <3>2. /\ Len(handed'[l]) = Len(handed[l]) + 1
          /\ handed'[l][Len(handed[l]) + 1].at = task[l].change
          /\ \A i \in 1..Len(handed[l]) : handed'[l][i] = handed[l][i]
      BY <3>1, Typing
    <3>3. \A i \in 1..Len(handed'[l]) : i \in 1..Len(handed[l]) \/ i = Len(handed[l]) + 1
      BY <3>2, Typing
    <3>4. SnapshotFresh(l)' /\ ChangeNewer(l)' /\ ChangeUnannounced(l)'
      BY <3>1 DEF SnapshotFresh, ChangeNewer, ChangeUnannounced, Early
    <3>5. ASSUME l \notin swallowed PROVE AnnouncedStamped(l)' /\ OnceInOrder(l)'
      <4>1. /\ task[l].change = lastUpdated[l] /\ AnnouncedStamped(l) /\ OnceInOrder(l)
            /\ \A i \in 1..Len(handed[l]) : handed[l][i].at < task[l].change
        BY <3>1, <3>5, <2>2 DEF Follows, ChangeUnannounced
      <4>2. AnnouncedStamped(l)'
        BY <3>1, <3>2, <3>3, <4>1, Typing DEF AnnouncedStamped
      <4>3. OnceInOrder(l)'
        <5> SUFFICES ASSUME NEW i \in 1..Len(handed'[l]), NEW j \in 1..Len(handed'[l]),
                            i < j
                     PROVE  handed'[l][i].at < handed'[l][j].at
          BY DEF OnceInOrder
        <5>1. i \in 1..Len(handed[l])
          BY <3>2, Typing
        <5>2. CASE j \in 1..Len(handed[l])
          BY <5>1, <5>2, <3>2, <4>1 DEF OnceInOrder
        <5>3. CASE j = Len(handed[l]) + 1
          BY <5>1, <5>3, <3>2, <4>1
        <5> QED
          BY <5>2, <5>3, <3>3
      <4> QED
        BY <4>2, <4>3
    <3> QED
      BY <3>1, <3>4, <3>5, Typing DEF Follows
  <2>11. CASE FailMark(l)
    BY <2>11, <2>1, <2>3, NoTaskType DEF FailMark, Leave, record
  <2>12. ASSUME MayApply(l), task[l].at \in {"marking", "noting", "stamping", "asking"}
         PROVE  /\ lastUpdated[l] <= lastUpdated'[l]
                /\ lastUpdated'[l] = lastUpdated[l] \/ task[l].at = "stamping"
    BY <2>12, <2>1, <2>2, Typing DEF MayApply, columns, Follows, SnapshotFresh, ChangeNewer,
       Early
  <2>13. CASE Raises(l)
    <3>1. /\ task'[l].at = "failing" /\ handed' = handed /\ swallowed' = swallowed
          /\ task[l].at \in {"marking", "noting", "stamping", "asking"} /\ MayApply(l)
      BY <2>13, <2>1 DEF Raises, Goto, record
    <3>2. SnapshotFresh(l)' /\ ChangeNewer(l)' /\ ChangeUnannounced(l)'
      BY <3>1 DEF SnapshotFresh, ChangeNewer, ChangeUnannounced, Early
    <3>3. lastUpdated[l] <= lastUpdated'[l] /\ lastUpdated'[l] \in Nat
      BY <3>1, <2>1, <2>12, Typing DEF MayApply, columns
    <3>4. l \notin swallowed' => AnnouncedStamped(l)' /\ OnceInOrder(l)'
      BY <3>1, <3>3, <2>2, Typing DEF Follows, AnnouncedStamped, OnceInOrder
    <3> QED
      BY <3>2, <3>3, <3>4 DEF Follows
  <2>14. CASE Swallows(l)
    <3>1. /\ l \in swallowed' /\ MayApply(l)
          /\ task[l].at \in {"marking", "noting", "stamping"}
      BY <2>14 DEF Swallows
    <3>2. SnapshotFresh(l)' /\ ChangeNewer(l)'
      <4>1. CASE task[l].at = "stamping"
        <5>1. task'[l].at = "asking"
          BY <4>1, <2>14, <2>1, Typing DEF Swallows, Goto, Tasks
        <5> QED
          BY <5>1 DEF SnapshotFresh, ChangeNewer, Early
      <4>2. CASE task[l].at = "noting"
        <5>1. task'[l] = [task[l] EXCEPT !.at = "stamping"]
          BY <4>2, <2>14, <2>1 DEF Swallows, AfterMark, Goto
        <5>2. /\ task'[l].at = "stamping" /\ task'[l].seen = task[l].seen
              /\ task'[l].change = task[l].change /\ lastUpdated'[l] = lastUpdated[l]
          BY <5>1, <4>2, <3>1, <2>12, Typing DEF Tasks
        <5> QED
          BY <5>2, <4>2, <2>2 DEF Follows, SnapshotFresh, ChangeNewer, Early
      <4>3. CASE task[l].at = "marking"
        <5>1. task'[l].at = "none"
          BY <4>3, <2>14, <2>1, NoTaskType DEF Swallows, AfterMark, Leave
        <5> QED
          BY <5>1 DEF SnapshotFresh, ChangeNewer, Early
      <4> QED
        BY <3>1, <4>1, <4>2, <4>3
    <3> QED
      BY <3>1, <3>2, <2>12 DEF Follows
  <2> QED
    BY <1>4, <2>5, <2>6, <2>7, <2>8, <2>9, <2>10, <2>11, <2>13, <2>14 DEF Works
<1>5. CASE UNCHANGED vars
  BY <1>5, <1>0 DEF vars, Untouched, columns, record
<1> QED
  BY <1>1, <1>2, <1>3, <1>4, <1>5 DEF Next

LEMMA Invariance == Spec => []IInv
<1>1. IInv /\ [Next]_vars => IInv'
  BY TypeStep, StepFollows DEF IInv
<1> QED
  BY <1>1, InitInvariant, PTL DEF Spec

(* Every variable keeps its type; last_updated only ever holds the time of *)
(* a change (update_timestamp's argument).                                 *)
THEOREM TypeCorrect == Spec => []TypeOK
<1>1. IInv => TypeOK
  BY DEF IInv
<1> QED
  BY <1>1, Invariance, PTL

(* No change is handed to the sender twice, nor after a later one, whatever *)
(* fails or is interrupted in _check_link_internal and around it, unless    *)
(* OrmLinkRepository hid a failed update of the link.                       *)
THEOREM NoRepeats == Spec => []NeverRepeated
<1>1. IInv => NeverRepeated
  <2> SUFFICES ASSUME IInv, NEW l \in Links \ swallowed
               PROVE  \A i, j \in DOMAIN handed[l] :
                        i < j => handed[l][i].at < handed[l][j].at
    BY DEF NeverRepeated
  <2>1. DOMAIN handed[l] = 1..Len(handed[l])
    BY DEF IInv, TypeOK
  <2> QED
    BY <2>1 DEF IInv, Follows, OnceInOrder
<1> QED
  BY <1>1, Invariance, PTL

(* last_updated never goes back: neither update_timestamp nor anything else *)
(* puts an older time into a row, with either repository.                   *)
THEOREM NeverBack == Spec => LastUpdatedGrows
<1>1. IInv /\ [Next]_vars => [Grows]_vars
  BY StepFollows
<1>2. Grows <=> \A l \in Links : lastUpdated[l] <= lastUpdated'[l]
  BY DEF Grows
<1> QED
  BY <1>1, <1>2, Invariance, PTL DEF Spec, LastUpdatedGrows, Grows

------------------------------------------------------------------------------
(* Positions in the table *)

(* A finite set of integers has a least element: the part of the set up to *)
(* it is smaller than any other such part.                                 *)
LEMMA Least ==
  ASSUME NEW S \in SUBSET Int, IsFiniteSet(S), S # {}
  PROVE  \E m \in S : \A k \in S : m <= k
<1> DEFINE UpTo(m) == {k \in S : k <= m}
           T == {UpTo(m) : m \in S}
<1>1. T \subseteq FiniteSubsetsOf(S) /\ T # {}
  <2>1. \A m \in S : UpTo(m) \in SUBSET S
    OBVIOUS
  <2> HIDE DEF UpTo
  <2>2. \A m \in S : UpTo(m) \in FiniteSubsetsOf(S)
    BY <2>1, FS_Subset DEF FiniteSubsetsOf
  <2> QED
    BY <2>2
<1>2. IsWellFoundedOn(StrictSubsetOrdering(S), FiniteSubsetsOf(S))
  BY FS_StrictSubsetOrderingWellFounded
<1>3. PICK X \in T : \A Y \in T : <<Y, X>> \notin StrictSubsetOrdering(S)
  <2> HIDE DEF T
  <2> QED
    BY <1>1, <1>2, WFMin
<1>4. PICK m \in S : X = UpTo(m)
  OBVIOUS
<1>5. ASSUME NEW k \in S, k < m PROVE FALSE
  <2>0. m \in Int /\ k \in Int /\ \A j \in S : j \in Int
    BY <1>4, <1>5
  <2>1. UpTo(k) \subseteq X /\ m \in X /\ m \notin UpTo(k)
    <3>1. \A j \in UpTo(k) : j \in UpTo(m)
      BY <2>0, <1>5
    <3>2. m \in UpTo(m) /\ m \notin UpTo(k)
      BY <2>0, <1>4, <1>5
    <3> HIDE DEF UpTo
    <3> QED
      BY <1>4, <3>1, <3>2
  <2>2. UpTo(k) \in T /\ UpTo(k) \in SUBSET S /\ X \in SUBSET S
    BY <1>4
  <2> HIDE DEF UpTo, T
  <2>3. <<UpTo(k), X>> \in StrictSubsetOrdering(S)
    BY <2>1, <2>2 DEF StrictSubsetOrdering
  <2> QED
    BY <1>3, <2>2, <2>3
<1> QED
  BY <1>5

(* And a greatest one. *)
LEMMA Greatest ==
  ASSUME NEW S \in SUBSET Int, IsFiniteSet(S), S # {}
  PROVE  \E m \in S : \A k \in S : k <= m
<1> DEFINE From(m) == {k \in S : m <= k}
           T == {From(m) : m \in S}
<1>1. T \subseteq FiniteSubsetsOf(S) /\ T # {}
  <2>1. \A m \in S : From(m) \in SUBSET S
    OBVIOUS
  <2> HIDE DEF From
  <2>2. \A m \in S : From(m) \in FiniteSubsetsOf(S)
    BY <2>1, FS_Subset DEF FiniteSubsetsOf
  <2> QED
    BY <2>2
<1>2. IsWellFoundedOn(StrictSubsetOrdering(S), FiniteSubsetsOf(S))
  BY FS_StrictSubsetOrderingWellFounded
<1>3. PICK X \in T : \A Y \in T : <<Y, X>> \notin StrictSubsetOrdering(S)
  <2> HIDE DEF T
  <2> QED
    BY <1>1, <1>2, WFMin
<1>4. PICK m \in S : X = From(m)
  OBVIOUS
<1>5. ASSUME NEW k \in S, m < k PROVE FALSE
  <2>0. m \in Int /\ k \in Int /\ \A j \in S : j \in Int
    BY <1>4, <1>5
  <2>1. From(k) \subseteq X /\ m \in X /\ m \notin From(k)
    <3>1. \A j \in From(k) : j \in From(m)
      BY <2>0, <1>5
    <3>2. m \in From(m) /\ m \notin From(k)
      BY <2>0, <1>4, <1>5
    <3> HIDE DEF From
    <3> QED
      BY <1>4, <3>1, <3>2
  <2>2. From(k) \in T /\ From(k) \in SUBSET S /\ X \in SUBSET S
    BY <1>4
  <2> HIDE DEF From, T
  <2>3. <<From(k), X>> \in StrictSubsetOrdering(S)
    BY <2>1, <2>2 DEF StrictSubsetOrdering
  <2> QED
    BY <1>3, <2>2, <2>3
<1> QED
  BY <1>5

LEMMA RowsFinite ==
  ASSUME NEW rows \in SUBSET Links
  PROVE  IsFiniteSet(rows) /\ rows \subseteq Nat
<1>1. IsFiniteSet(Links)
  BY TrackerAssumption, FS_Interval DEF Links
<1>2. Links \subseteq Nat
  BY TrackerAssumption DEF Links
<1> QED
  BY <1>1, <1>2, FS_Subset

LEMMA PositionType ==
  ASSUME NEW rows \in SUBSET Links, NEW l \in rows
  PROVE  Position(l, rows) \in Nat \ {0}
<1>1. IsFiniteSet({k \in rows : k <= l})
  BY RowsFinite, FS_Subset
<1>2. l \in {k \in rows : k <= l}
  BY RowsFinite
<1>3. {k \in rows : k <= l} # {}
  BY <1>2
<1> QED
  BY <1>1, <1>3, FS_CardinalityType, FS_EmptySet DEF Position

(* An insertion never moves a row to an earlier position. *)
LEMMA PositionGrows ==
  ASSUME NEW rows \in SUBSET Links, NEW more \in SUBSET Links, rows \subseteq more,
         NEW l \in rows
  PROVE  Position(l, rows) <= Position(l, more)
<1>1. IsFiniteSet({k \in more : k <= l})
  BY RowsFinite, FS_Subset
<1>2. {k \in rows : k <= l} \subseteq {k \in more : k <= l}
  OBVIOUS
<1> QED
  BY <1>1, <1>2, FS_Subset DEF Position

(* Positions leave no gap: where there is a row past n there is one at n + 1. *)
LEMMA NoGap ==
  ASSUME NEW rows \in SUBSET Links, NEW l \in rows, NEW n \in Nat, n < Position(l, rows)
  PROVE  \E k \in rows : Position(k, rows) = n + 1
<1> DEFINE past == {k \in rows : n < Position(k, rows)}
<1>1. PICK m \in past : \A k \in past : m <= k
  <2>1. past \in SUBSET Int /\ IsFiniteSet(past) /\ past # {}
    BY RowsFinite, FS_Subset
  <2> HIDE DEF past
  <2> QED
    BY <2>1, Least
<1> DEFINE before == {k \in rows : k < m}
<1>2. before \in SUBSET Int /\ IsFiniteSet(before) /\ m \in rows /\ m \notin before
  BY RowsFinite, FS_Subset
<1>3. {k \in rows : k <= m} = before \cup {m}
  BY RowsFinite
<1>4. Position(m, rows) = Cardinality(before) + 1
  <2> HIDE DEF before
  <2> QED
    BY <1>2, <1>3, FS_AddElement DEF Position
<1>5. Cardinality(before) <= n
  <2>1. CASE before = {}
    BY <2>1, FS_EmptySet
  <2>2. CASE before # {}
    <3>1. PICK g \in before : \A k \in before : k <= g
      <4> HIDE DEF before
      <4> QED
        BY <1>2, <2>2, Greatest
    <3>2. {k \in rows : k <= g} = before
      BY <3>1, RowsFinite
    <3>3. Position(g, rows) = Cardinality(before)
      BY <3>2 DEF Position
    <3>4. g \notin past /\ g \in rows
      BY <1>1, <3>1, RowsFinite
    <3>5. ~(n < Position(g, rows))
      BY <3>4
    <3>6. Position(g, rows) \in Nat
      BY <3>4, PositionType
    <3> QED
      BY <3>3, <3>5, <3>6
  <2> QED
    BY <2>1, <2>2
<1>6. Position(m, rows) \in Nat /\ n < Position(m, rows) /\ Cardinality(before) \in Nat
  BY <1>1, <1>2, PositionType, FS_CardinalityType
<1>7. Position(m, rows) = n + 1
  <2> HIDE DEF before, past
  <2> QED
    BY <1>4, <1>5, <1>6
<1> QED
  BY <1>2, <1>7

------------------------------------------------------------------------------
(* Sweeps *)

(* What a complete sweep owes to a row. *)
Done(l) == lastChecked[l] = "this" \/ l \in failed \/ l \in swallowed

(* Tasks are only between the start of a batch and the end of its gather(). *)
TasksInBatch == phase # "checking" => \A l \in Links : task[l].at = "none"

(* A task marks its row before it goes on to stamp and to announce. *)
MarkedFirst == \A l \in Links : At(l, {"stamping", "asking", "sending"}) => Done(l)

(* The rows the offset has passed are done; those of the batch are, or have *)
(* a task.  An insertion moves rows out of what is passed, never into it.   *)
PassedDone ==
  /\ phase = "reading" =>
       \A l \in roster : Position(l, present) <= offset => Done(l)
  /\ phase = "checking" =>
       \A l \in roster :
         Position(l, present) <= offset + BatchSize => Done(l) \/ task[l].at # "none"

SweepInv ==
  /\ roster \subseteq present
  /\ TasksInBatch
  /\ MarkedFirst
  /\ PassedDone
  /\ SweepComplete

LEMMA RosterType ==
  ASSUME TypeOK, SweepInv
  PROVE  /\ roster \subseteq Links /\ present \subseteq Links
         /\ offset \in Nat /\ BatchSize \in Nat \ {0}
         /\ \A l \in roster : l \in present /\ Position(l, present) \in Nat \ {0}
BY PositionType, BatchSizeType DEF TypeOK, SweepInv

LEMMA InitSweep == Init => SweepInv
<1> SUFFICES ASSUME Init PROVE SweepInv
  OBVIOUS
<1>1. \A l \in Links : task[l].at = "none"
  BY NoTaskType DEF Init
<1> QED
  BY <1>1 DEF Init, SweepInv, TasksInBatch, MarkedFirst, PassedDone, SweepComplete

(* A page is empty only when the offset is past every row. *)
LEMMA EmptyPage ==
  ASSUME TypeOK, NextBatch = {}, NEW l \in present
  PROVE  Position(l, present) <= offset
<1>1. present \in SUBSET Links /\ offset \in Nat /\ BatchSize \in Nat \ {0}
  BY BatchSizeType DEF TypeOK
<1>2. ASSUME offset < Position(l, present) PROVE FALSE
  <2>1. PICK k \in present : Position(k, present) = offset + 1
    BY <1>1, <1>2, NoGap
  <2>2. offset + 1 \in (offset + 1)..(offset + BatchSize)
    BY <1>1
  <2>3. k \in NextBatch
    BY <2>1, <2>2 DEF NextBatch, Page
  <2> QED
    BY <2>3
<1>3. Position(l, present) \in Nat
  BY <1>1, PositionType
<1> QED
  BY <1>1, <1>2, <1>3

(* What a step of a task may do to a sweep. *)
LEMMA TaskStep ==
  ASSUME TypeOK, MarkedFirst, NEW l \in Links, Works(l) \/ Raises(l) \/ Swallows(l)
  PROVE  /\ UNCHANGED <<present, phase, offset, roster>>
         /\ task[l].at # "none"
         /\ \A k \in Links : Done(k) => Done(k)'
         /\ \A k \in Links \ {l} : task'[k] = task[k]
         /\ task'[l].at \in {"none", "stamping", "asking", "sending"} => Done(l)'
<1>0. task \in [Links -> Tasks] /\ lastChecked \in [Links -> {"never", "earlier", "this"}]
  BY DEF TypeOK
<1>1. /\ UNCHANGED <<present, phase, offset, roster>>
      /\ task[l].at # "none"
      /\ \A k \in Links \ {l} : task'[k] = task[k]
  BY <1>0 DEF Works, Enter, Fetch, Compare, Mark, Stamp, Ask, Hand, FailMark, Raises,
     Swallows, AfterMark, Goto, Leave, surroundings, sweep
<1>2. /\ \A k \in Links : lastChecked[k] = "this" => lastChecked'[k] = "this"
      /\ failed \subseteq failed' /\ swallowed \subseteq swallowed'
  <2>1. CASE Works(l)
    BY <2>1, <1>0 DEF Works, Enter, Fetch, Mark, Stamp, Ask, Hand, FailMark, columns, record
  <2>2. CASE Raises(l) \/ Swallows(l)
    BY <2>2, <1>0 DEF Raises, Swallows, MayApply, columns, record
  <2> QED
    BY <2>1, <2>2
<1>3. \A k \in Links : Done(k) => Done(k)'
  BY <1>2 DEF Done
<1>4. task'[l].at \in {"none", "stamping", "asking", "sending"} => Done(l)'
  <2>1. CASE Enter(l) \/ Raises(l)
    <3>1. task'[l].at \in {"fetching", "failing"}
      BY <2>1, <1>0 DEF Enter, Raises, Goto, Tasks
    <3> QED
      BY <3>1
  <2>2. CASE Fetch(l)
    <3>1. PICK t : Compare(l, t)
      BY <2>2 DEF Fetch
    <3>2. task'[l].at \in {"marking", "noting"}
      BY <3>1, <1>0 DEF Compare, Tasks
    <3> QED
      BY <3>2
  <2>3. CASE Mark(l)
    BY <2>3, <1>0 DEF Mark, Done
  <2>4. CASE Stamp(l) \/ Ask(l) \/ Hand(l)
    BY <2>4, <1>3 DEF Stamp, Ask, Hand, MarkedFirst
  <2>5. CASE FailMark(l)
    BY <2>5 DEF FailMark, Done
  <2>6. CASE Swallows(l)
    BY <2>6 DEF Swallows, Done
  <2> QED
    BY <2>1, <2>2, <2>3, <2>4, <2>5, <2>6 DEF Works
<1> QED
  BY <1>1, <1>3, <1>4

LEMMA StepSweep == ASSUME TypeOK, SweepInv, [Next]_vars PROVE SweepInv'
<1> USE DEF SweepInv
<1>0. ASSUME UNCHANGED <<present, phase, offset, roster, task, lastChecked, failed, swallowed>>
      PROVE  SweepInv'
  BY <1>0 DEF TasksInBatch, MarkedFirst, PassedDone, SweepComplete, Done
<1>1. CASE Environment
  <2>1. CASE SourceChanges \/ Unsubscribe \/ Subscribe
    BY <2>1, <1>0 DEF SourceChanges, Unsubscribe, Subscribe, Happens, columns, sweep, record
  <2>2. CASE AddLink
    <3>1. /\ UNCHANGED <<phase, offset, roster, task, lastChecked, failed, swallowed>>
          /\ present \subseteq present' /\ present' \subseteq Links
      BY <2>2 DEF AddLink, columns, sweep, record, TypeOK
    <3>2. /\ \A l \in Links : Done(l)' <=> Done(l)
          /\ \A l \in Links : At(l, {"stamping", "asking", "sending"})' <=>
                              At(l, {"stamping", "asking", "sending"})
      BY <3>1 DEF Done
    <3>3. \A l \in roster : /\ Position(l, present) <= Position(l, present')
                            /\ Position(l, present) \in Nat
                            /\ Position(l, present') \in Nat
      BY <3>1, PositionGrows, PositionType DEF TypeOK
    <3>4. \A l \in roster : \A n \in Nat :
            Position(l, present') <= n => Position(l, present) <= n
      BY <3>3
    <3>5. PassedDone'
      <4>1. offset \in Nat /\ offset + BatchSize \in Nat /\ roster \subseteq Links
        BY RosterType
      <4>2. BatchSize' = BatchSize
        BY DEF BatchSize
      <4> QED
        BY <3>1, <3>2, <3>4, <4>1, <4>2 DEF PassedDone
    <3> QED
      BY <3>1, <3>2, <3>5 DEF TasksInBatch, MarkedFirst, SweepComplete, Done
  <2> QED
    BY <1>1, <2>1, <2>2 DEF Environment
<1>2. CASE Job
  <2> USE DEF surroundings, record
  <2>1. CASE StartSweep
    <3>1. /\ phase = "idle" /\ phase' = "reading" /\ offset' = 0
          /\ roster' = present /\ present' = present /\ task' = task
      BY <2>1 DEF StartSweep
    <3>2. \A l \in Links : task[l].at = "none"
      BY <3>1 DEF TasksInBatch
    <3>3. \A l \in roster' : ~(Position(l, present') <= offset')
      <4>1. present \in SUBSET Links
        BY DEF TypeOK
      <4>2. \A l \in present : Position(l, present) \in Nat \ {0}
        BY <4>1, PositionType
      <4>3. \A l \in present : ~(Position(l, present) <= 0)
        BY <4>2
      <4> QED
        BY <3>1, <4>3
    <3> QED
      BY <3>1, <3>2, <3>3 DEF TasksInBatch, MarkedFirst, PassedDone, SweepComplete
  <2>2. CASE ReadBatch
    <3>1. /\ phase = "reading" /\ phase' = "checking"
          /\ UNCHANGED <<offset, roster, present, lastChecked, failed, swallowed>>
      BY <2>2 DEF ReadBatch, columns
    <3>2. \A l \in Links : task'[l].at = IF l \in NextBatch THEN "waiting" ELSE "none"
      BY <2>2, NoTaskType DEF ReadBatch, NoTask
    <3>3. MarkedFirst'
      BY <3>2 DEF MarkedFirst
    <3>4. ASSUME NEW l \in roster, Position(l, present) <= offset + BatchSize
          PROVE  Done(l) \/ task'[l].at # "none"
      <4>1. CASE Position(l, present) <= offset
        BY <3>1, <4>1 DEF PassedDone
      <4>2. CASE ~(Position(l, present) <= offset)
        <5>1. Position(l, present) \in (offset + 1)..(offset + BatchSize) /\ l \in present
          BY <3>4, <4>2, RosterType
        <5>2. l \in NextBatch /\ l \in Links
          BY <5>1, RosterType DEF NextBatch, Page
        <5> QED
          BY <3>2, <5>2
      <4> QED
        BY <4>1, <4>2
    <3>5. PassedDone'
      <4>1. \A l \in roster : Done(l)' <=> Done(l)
        BY <3>1 DEF Done
      <4>2. BatchSize' = BatchSize
        BY DEF BatchSize
      <4> QED
        BY <3>1, <3>4, <4>1, <4>2 DEF PassedDone
    <3> QED
      BY <3>1, <3>3, <3>5 DEF TasksInBatch, SweepComplete
  <2>3. CASE EndBatch
    <3>1. /\ phase = "checking" /\ phase' = "reading" /\ offset' = offset + BatchSize
          /\ \A l \in Links : task[l].at = "none"
          /\ UNCHANGED <<roster, present, task, lastChecked, failed, swallowed>>
      BY <2>3 DEF EndBatch, columns
    <3>2. PassedDone'
      BY <3>1, RosterType DEF PassedDone, Done
    <3> QED
      BY <3>1, <3>2 DEF TasksInBatch, MarkedFirst, SweepComplete
  <2>4. CASE EndSweep
    <3>1. /\ phase = "reading" /\ phase' = "idle" /\ NextBatch = {}
          /\ UNCHANGED <<offset, roster, present, task, lastChecked, failed, swallowed>>
      BY <2>4 DEF EndSweep, columns
    <3>2. \A l \in roster : Position(l, present) <= offset
      BY <3>1, EmptyPage
    <3>3. SweepComplete'
      BY <3>1, <3>2 DEF PassedDone, SweepComplete, Done
    <3> QED
      BY <3>1, <3>3 DEF TasksInBatch, MarkedFirst, PassedDone, Done
  <2> QED
    BY <1>2, <2>1, <2>2, <2>3, <2>4 DEF Job
<1>3. CASE Interrupt
  <2>1. phase' = "idle" /\ roster' = {} /\ \A l \in Links : task'[l].at = "none"
    BY <1>3, NoTaskType DEF Interrupt
  <2> QED
    BY <2>1 DEF TasksInBatch, MarkedFirst, PassedDone, SweepComplete
<1>4. ASSUME NEW l \in Links, Works(l) \/ Raises(l) \/ Swallows(l) PROVE SweepInv'
  <2>1. /\ UNCHANGED <<present, phase, offset, roster>>
        /\ task[l].at # "none"
        /\ \A k \in Links : Done(k) => Done(k)'
        /\ \A k \in Links \ {l} : task'[k] = task[k]
        /\ task'[l].at \in {"none", "stamping", "asking", "sending"} => Done(l)'
    BY <1>4, TaskStep
  <2>2. phase = "checking"
    BY <2>1 DEF TasksInBatch
  <2>3. MarkedFirst'
    BY <2>1 DEF MarkedFirst
  <2>4. PassedDone'
    <3>1. BatchSize' = BatchSize
      BY DEF BatchSize
    <3>2. ASSUME NEW k \in roster, Position(k, present) <= offset + BatchSize
          PROVE  Done(k)' \/ task'[k].at # "none"
      BY <2>1, <2>2, <3>2, RosterType DEF PassedDone
    <3> QED
      BY <2>1, <2>2, <3>1, <3>2 DEF PassedDone
  <2> QED
    BY <2>1, <2>2, <2>3, <2>4 DEF TasksInBatch, SweepComplete
<1>5. CASE UNCHANGED vars
  BY <1>5, <1>0 DEF vars, surroundings, columns, sweep, record
<1> QED
  BY <1>1, <1>2, <1>3, <1>4, <1>5 DEF Next

LEMMA SweepInvariance == Spec => []SweepInv
<1>1. TypeOK /\ SweepInv /\ [Next]_vars => SweepInv'
  BY StepSweep
<1> QED
  BY InitSweep, <1>1, TypeCorrect, PTL DEF Spec

(* A sweep that comes to its end has marked every row there was when it     *)
(* began, or reports it as failed, unless OrmLinkRepository hid a failed    *)
(* update: LIMIT and OFFSET over rows that are inserted meanwhile pass over *)
(* none.                                                                    *)
THEOREM SweepsComplete == Spec => []SweepComplete
<1>1. SweepInv => SweepComplete
  BY DEF SweepInv
<1> QED
  BY <1>1, SweepInvariance, PTL

------------------------------------------------------------------------------
(* Stamps without an announcement *)

Working == {k \in Links : ~At(k, {"none", "waiting"})}

(* The semaphore. *)
WorkersInv == Cardinality(Working) <= Workers

Silent(l) ==
  /\ lastUpdated[l] # NoChange
  /\ \A i \in DOMAIN handed[l] : handed[l][i].at # lastUpdated[l]

(* The announcement of the stamp is on its way. *)
Announcing(l) == At(l, {"asking", "sending"}) /\ task[l].change = lastUpdated[l]

Unheard == {l \in Links : Silent(l) /\ ~Announcing(l)}

(* Only what fails between stamp and announcement leaves a stamp unheard.   *)
UnheardInv == Cardinality(Unheard) <= Workers * faults

LEMMA SubsetOfLinks ==
  /\ \A S \in SUBSET Links : IsFiniteSet(S) /\ Cardinality(S) \in Nat
  /\ \A S, T \in SUBSET Links : S \subseteq T => Cardinality(S) <= Cardinality(T)
<1>1. IsFiniteSet(Links)
  BY TrackerAssumption, FS_Interval DEF Links
<1>2. \A S \in SUBSET Links : IsFiniteSet(S) /\ Cardinality(S) \in Nat
  BY <1>1, FS_Subset, FS_CardinalityType
<1> QED
  BY <1>2, FS_Subset

LEMMA StepWorkers == ASSUME TypeOK, TasksInBatch, WorkersInv, [Next]_vars PROVE WorkersInv'
<1>0. /\ Working \in SUBSET Links /\ Working' \in SUBSET Links
      /\ Cardinality(Working) \in Nat /\ Cardinality(Working') \in Nat
  BY SubsetOfLinks DEF Working
<1>1. ASSUME Working' \subseteq Working PROVE WorkersInv'
  BY <1>0, <1>1, SubsetOfLinks, TrackerAssumption DEF WorkersInv
<1>2. CASE Environment \/ StartSweep \/ EndBatch \/ EndSweep \/ UNCHANGED vars
  <2>1. task' = task
    BY <1>2 DEF Environment, SourceChanges, Unsubscribe, AddLink, Subscribe, Happens,
       StartSweep, EndBatch, EndSweep, vars
  <2> QED
    BY <1>1, <2>1 DEF Working
<1>3. CASE ReadBatch \/ Interrupt
  <2>1. \A l \in Links : task'[l].at \in {"none", "waiting"}
    <3>1. CASE ReadBatch
      BY <3>1, NoTaskType DEF ReadBatch, NoTask
    <3>2. CASE Interrupt
      BY <3>2, NoTaskType DEF Interrupt
    <3> QED
      BY <1>3, <3>1, <3>2
  <2> QED
    BY <1>1, <2>1 DEF Working
<1>4. ASSUME NEW l \in Links, Works(l) \/ Raises(l) \/ Swallows(l), ~Enter(l)
      PROVE  WorkersInv'
  <2>1. /\ \A k \in Links \ {l} : task'[k] = task[k]
        /\ ~At(l, {"none", "waiting"})
    BY <1>4 DEF TypeOK, Works, Fetch, Compare, Mark, Stamp, Ask, Hand, FailMark, Raises,
       Swallows, AfterMark, Goto, Leave
  <2> QED
    BY <1>1, <2>1 DEF Working
<1>5. ASSUME NEW l \in Links, Enter(l) PROVE WorkersInv'
  <2>1. \A k \in Links \ {l} : task'[k] = task[k]
    BY <1>5 DEF TypeOK, Enter, Goto
  <2>2. Working' \subseteq Working \cup {l}
    BY <2>1 DEF Working
  <2>3. Cardinality(Working) < Workers
    BY <1>5 DEF Enter, Working
  <2>4. /\ Working \cup {l} \in SUBSET Links
        /\ Cardinality(Working \cup {l}) <= Cardinality(Working) + 1
    BY <1>0, SubsetOfLinks, FS_AddElement
  <2>5. Cardinality(Working') <= Cardinality(Working \cup {l})
        /\ Cardinality(Working \cup {l}) \in Nat
    BY <1>0, <2>2, <2>4, SubsetOfLinks
  <2> QED
    BY <1>0, <2>3, <2>4, <2>5, TrackerAssumption DEF WorkersInv
<1> QED
  BY <1>2, <1>3, <1>4, <1>5 DEF Next, Job

(* What one more fault allows. *)
LEMMA Allowance ==
  ASSUME TypeOK
  PROVE  /\ Workers * faults \in Nat
         /\ Workers * (faults + 1) = Workers * faults + Workers
BY TrackerAssumption DEF TypeOK

(* A step of one link's task. *)
LEMMA TaskUnheard ==
  ASSUME TypeOK, NEW l \in Links, Works(l) \/ Raises(l) \/ Swallows(l)
  PROVE  /\ Unheard' \subseteq Unheard \cup {l}
         /\ faults' = faults + 1 \/ (faults' = faults /\ Unheard' \subseteq Unheard)
<1>1. /\ \A k \in Links \ {l} : /\ task'[k] = task[k] /\ lastUpdated'[k] = lastUpdated[k]
                                /\ handed'[k] = handed[k]
      /\ DOMAIN task = Links /\ DOMAIN lastUpdated = Links /\ DOMAIN handed = Links
  BY DEF Works, Enter, Fetch, Compare, Mark, Stamp, Ask, Hand, FailMark, Raises,
     Swallows, MayApply, AfterMark, Goto, Leave, columns, record, TypeOK
<1>2. Unheard' \subseteq Unheard \cup {l}
  BY <1>1 DEF Unheard, Silent, Announcing
<1>3. CASE Fault
  BY <1>2, <1>3 DEF Fault
<1>4. CASE ~Fault
  <2>1. Works(l) /\ faults' = faults
    BY <1>4 DEF Works, Enter, Fetch, Mark, Stamp, Ask, Hand, FailMark, Raises, Swallows
  <2> SUFFICES ASSUME l \in Unheard' PROVE l \in Unheard
    BY <1>2, <2>1
  <2>2. Silent(l)' /\ ~Announcing(l)'
    BY DEF Unheard
  <2>3. CASE Enter(l) \/ Fetch(l) \/ Mark(l) \/ FailMark(l)
    <3>1. UNCHANGED <<lastUpdated, handed>> /\ ~At(l, {"asking", "sending"})
      BY <2>3 DEF Enter, Fetch, Mark, FailMark, columns, record
    <3> QED
      BY <2>2, <3>1 DEF Unheard, Silent, Announcing
  <2>4. CASE Stamp(l)
    <3>1. task'[l].at = "asking" /\ task'[l].change = task[l].change
          /\ lastUpdated'[l] = task[l].change
      BY <2>4, <1>1, Typing DEF Stamp, Goto, Tasks
    <3> QED
      BY <2>2, <3>1 DEF Announcing
  <2>5. CASE Ask(l)
    <3>1. /\ task'[l].at = "sending" /\ task'[l].change = task[l].change
          /\ UNCHANGED <<lastUpdated, handed>>
      BY <2>5, <1>1, Typing DEF Ask, Tasks, columns, record
    <3> QED
      BY <2>2, <3>1 DEF Unheard, Silent, Announcing
  <2>6. CASE Hand(l)
    <3>1. /\ lastUpdated' = lastUpdated
          /\ handed'[l] = Append(handed[l], [at |-> task[l].change, to |-> task[l].audience])
      BY <2>6, <1>1 DEF Hand, columns
    <3>2. /\ DOMAIN handed[l] = 1..Len(handed[l])
          /\ DOMAIN handed'[l] = 1..(Len(handed[l]) + 1)
          /\ handed'[l][Len(handed[l]) + 1].at = task[l].change
          /\ \A i \in 1..Len(handed[l]) : handed'[l][i] = handed[l][i]
      BY <3>1, Typing
    <3>3. Len(handed[l]) + 1 \in DOMAIN handed'[l] /\ DOMAIN handed[l] \subseteq DOMAIN handed'[l]
      BY <3>2, Typing
    <3>4. task[l].change # lastUpdated[l]
      BY <2>2, <3>1, <3>2, <3>3 DEF Silent
    <3> QED
      BY <2>2, <3>1, <3>2, <3>3, <3>4 DEF Unheard, Silent, Announcing
  <2> QED
    BY <2>1, <2>3, <2>4, <2>5, <2>6 DEF Works
<1> QED
  BY <1>3, <1>4

LEMMA StepUnheard ==
  ASSUME TypeOK, TasksInBatch, WorkersInv, UnheardInv, [Next]_vars
  PROVE  UnheardInv'
<1>0. /\ Unheard \in SUBSET Links /\ Unheard' \in SUBSET Links /\ Working \in SUBSET Links
      /\ Cardinality(Unheard) \in Nat /\ Cardinality(Unheard') \in Nat
      /\ Cardinality(Working) \in Nat
      /\ Workers \in Nat \ {0}
  BY SubsetOfLinks, TrackerAssumption DEF Unheard, Working
<1>1. ASSUME Unheard' \subseteq Unheard, faults' = faults PROVE UnheardInv'
  BY <1>0, <1>1, SubsetOfLinks, Allowance DEF UnheardInv
<1>2. ASSUME NEW S \in SUBSET Links, Cardinality(S) <= Workers,
             Unheard' \subseteq Unheard \cup S, faults' = faults + 1
      PROVE  UnheardInv'
  <2>1. /\ IsFiniteSet(Unheard) /\ IsFiniteSet(S) /\ Cardinality(S) \in Nat
        /\ Cardinality(Unheard \cap S) \in Nat
    BY <1>0, SubsetOfLinks
  <2>2. Cardinality(Unheard \cup S) =
          Cardinality(Unheard) + Cardinality(S) - Cardinality(Unheard \cap S)
    BY <2>1, FS_Union
  <2>3. Cardinality(Unheard') <= Cardinality(Unheard \cup S)
    BY <1>0, <1>2, SubsetOfLinks
  <2>4. Cardinality(Unheard') <= Cardinality(Unheard) + Workers
    BY <1>0, <1>2, <2>1, <2>2, <2>3
  <2>5. Cardinality(Unheard) <= Workers * faults
    BY DEF UnheardInv
  <2>6. Workers * faults' = Workers * faults + Workers /\ Workers * faults \in Nat
    BY <1>2, Allowance
  <2> QED
    BY <1>0, <2>4, <2>5, <2>6 DEF UnheardInv
<1>3. ASSUME UNCHANGED <<task, lastUpdated, handed, faults>> PROVE UnheardInv'
  BY <1>1, <1>3 DEF Unheard, Silent, Announcing
<1>4. CASE Environment \/ StartSweep \/ EndBatch \/ EndSweep \/ UNCHANGED vars
  BY <1>3, <1>4 DEF Environment, SourceChanges, Unsubscribe, AddLink, Subscribe, Happens,
     StartSweep, EndBatch, EndSweep, columns, record, vars
<1>5. CASE ReadBatch
  <2>1. UNCHANGED <<lastUpdated, handed, faults>> /\ \A l \in Links : task[l].at = "none"
    BY <1>5 DEF ReadBatch, TasksInBatch, columns, record
  <2> QED
    BY <1>1, <2>1 DEF Unheard, Silent, Announcing
<1>6. CASE Interrupt
  <2>1. UNCHANGED <<lastUpdated, handed>> /\ faults' = faults + 1
    BY <1>6 DEF Interrupt, Fault, columns, record
  <2>2. Unheard' \subseteq Unheard \cup Working
    BY <2>1 DEF Unheard, Silent, Announcing, Working
  <2> QED
    BY <1>0, <1>2, <2>1, <2>2 DEF WorkersInv
<1>7. ASSUME NEW l \in Links, Works(l) \/ Raises(l) \/ Swallows(l) PROVE UnheardInv'
  <2>1. /\ Unheard' \subseteq Unheard \cup {l}
        /\ faults' = faults + 1 \/ (faults' = faults /\ Unheard' \subseteq Unheard)
    BY <1>7, TaskUnheard
  <2>2. Cardinality({l}) <= Workers
    <3>1. Cardinality({l}) = 1
      BY FS_Singleton
    <3> QED
      BY <1>0, <3>1
  <2> QED
    BY <1>1, <1>2, <2>1, <2>2
<1> QED
  BY <1>4, <1>5, <1>6, <1>7 DEF Next, Job

(* However often calls fail and sweeps are interrupted, each time costs the *)
(* announcements of no more stamps than there are workers: update_timestamp *)
(* is followed by send_update in the same task, and in no other place is a  *)
(* stamp written.                                                           *)
THEOREM MissesBounded == Spec => []MissedBounded
<1>1. Init => WorkersInv /\ UnheardInv
  <2> SUFFICES ASSUME Init PROVE WorkersInv /\ UnheardInv
    OBVIOUS
  <2>1. \A l \in Links : task[l].at = "none" /\ lastUpdated[l] = NoChange
    BY NoTaskType DEF Init
  <2>2. Working = {} /\ Unheard = {}
    BY <2>1 DEF Working, Unheard, Silent
  <2>3. TypeOK
    BY InitInvariant DEF IInv
  <2> QED
    BY <2>2, <2>3, FS_EmptySet, Allowance, TrackerAssumption DEF WorkersInv, UnheardInv
<1>2. TypeOK /\ SweepInv /\ WorkersInv /\ UnheardInv /\ [Next]_vars =>
        WorkersInv' /\ UnheardInv'
  BY StepWorkers, StepUnheard DEF SweepInv
<1>3. TypeOK /\ UnheardInv => MissedBounded
  <2> SUFFICES ASSUME TypeOK, UnheardInv PROVE MissedBounded
    OBVIOUS
  <2>1. Missed \subseteq Unheard
    BY DEF Missed, Unheard, Silent, Announcing
  <2>2. /\ Unheard \in SUBSET Links /\ Missed \in SUBSET Links
        /\ Cardinality(Missed) \in Nat /\ Cardinality(Unheard) \in Nat
    BY SubsetOfLinks DEF Unheard, Missed
  <2>3. Cardinality(Missed) <= Cardinality(Unheard)
    BY <2>1, <2>2, SubsetOfLinks
  <2> QED
    BY <2>2, <2>3, Allowance DEF UnheardInv, MissedBounded
<1> QED
  BY TypeCorrect, SweepInvariance, <1>1, <1>2, <1>3, PTL DEF Spec

------------------------------------------------------------------------------
(* The tracker as deployed *)

(* Where the clients are called on the event loop's own thread each check   *)
(* ends with its mark.                                                      *)
Unnoticed ==
  \A l \in Links :
    /\ At(l, {"none", "waiting", "fetching", "marking", "failing"})
    /\ lastUpdated[l] = NoChange
    /\ handed[l] = <<>>

LEMMA StepUnnoticed ==
  ASSUME ~OffLoop, TypeOK, Unnoticed, [Next]_vars PROVE Unnoticed'
<1>1. task \in [Links -> Tasks] /\ lastUpdated \in [Links -> Times]
  BY DEF TypeOK
<1>2. CASE \/ Environment \/ StartSweep \/ EndSweep \/ EndBatch \/ UNCHANGED vars
  BY <1>2 DEF Environment, SourceChanges, Unsubscribe, AddLink, Subscribe, Happens,
              StartSweep, EndSweep, EndBatch, columns, record, vars, Unnoticed, At
<1>3. CASE ReadBatch \/ Interrupt
  <2>1. UNCHANGED <<lastUpdated, handed>>
    BY <1>3 DEF ReadBatch, Interrupt, columns, record
  <2>2. \A t : [NoTask EXCEPT !.at = "waiting", !.seen = t].at = "waiting"
    BY DEF NoTask
  <2>3. \A l \in Links : task'[l].at \in {"none", "waiting"}
    <3>1. NoTask.at = "none"
      BY DEF NoTask
    <3>2. CASE ReadBatch
      <4>1. task' = [l \in Links |->
                       IF l \in NextBatch
                         THEN [NoTask EXCEPT !.at = "waiting", !.seen = lastUpdated[l]]
                         ELSE NoTask]
        BY <3>2 DEF ReadBatch
      <4> HIDE DEF NextBatch
      <4> QED
        BY <2>2, <3>1, <4>1
    <3>3. CASE Interrupt
      BY <3>1, <3>3 DEF Interrupt
    <3> QED
      BY <1>3, <3>2, <3>3
  <2> QED
    BY <2>1, <2>3 DEF Unnoticed, At
<1>4. ASSUME NEW l \in Links, Works(l) \/ Raises(l) \/ Swallows(l) PROVE Unnoticed'
  <2>1. /\ task[l].at \in {"none", "waiting", "fetching", "marking", "failing"}
        /\ task[l].seen \in Times
    BY <1>1 DEF Unnoticed, At, Tasks
  <2>2. UNCHANGED <<lastUpdated, handed>>
    BY <1>4, <2>1 DEF Works, Enter, Fetch, Mark, Stamp, Ask, Hand, FailMark, Raises, Swallows,
                      MayApply, At, columns, record
  <2>3. /\ \A k \in Links \ {l} : task'[k] = task[k]
        /\ task'[l].at \in {"none", "fetching", "marking", "failing"}
    <3>1. CASE Fetch(l)
      <4>1. Compare(l, NoChange)
        BY <3>1 DEF Fetch, Returned
      <4>2. NoChange <= task[l].seen
        BY <2>1 DEF NoChange, Times
      <4> QED
        BY <1>1, <4>1, <4>2 DEF Compare, Tasks
    <3>2. CASE Works(l) /\ ~Fetch(l)
      BY <1>1, <2>1, <3>2, NoTaskType
         DEF Works, Enter, Mark, Stamp, Ask, Hand, FailMark, AfterMark, Goto, Leave, At, Tasks
    <3>3. CASE Raises(l) \/ Swallows(l)
      BY <1>1, <2>1, <3>3, NoTaskType DEF Raises, Swallows, AfterMark, Goto, Leave, At, Tasks
    <3> QED
      BY <1>4, <3>1, <3>2, <3>3
  <2> QED
    BY <2>2, <2>3 DEF Unnoticed, At
<1> QED
  BY <1>2, <1>3, <1>4 DEF Next, Job

(* As deployed, with get_latest_activity on the thread of the running loop, *)
(* no link is ever stamped and nothing ever handed to the sender, whatever  *)
(* happens at the sources.                                                  *)
THEOREM DeployedNoticesNothing == ASSUME ~OffLoop PROVE Spec => []Unnoticed
<1>1. Init => Unnoticed
  BY NoTaskType DEF Init, Unnoticed, At
<1>2. TypeOK /\ Unnoticed /\ [Next]_vars => Unnoticed'
  BY StepUnnoticed
<1> QED
  BY TypeCorrect, <1>1, <1>2, PTL DEF Spec
=============================================================================
