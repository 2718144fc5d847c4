------------------------------- MODULE Tracker -------------------------------
(***************************************************************************)
(* The scrapper's sweep over the tracked links: services/tracker_service.py *)
(* run by scheduler.py, between the sources it asks and the sender it hands *)
(* updates to.  A sweep reads the links table batch by batch; each link of  *)
(* a batch is checked by a task of its own, limited by a semaphore.  The    *)
(* API handlers add links and change subscriptions meanwhile.  Every await  *)
(* of the code is a boundary between two actions.                           *)
(***************************************************************************)
EXTENDS Integers, Sequences, FiniteSets

CONSTANTS
  MaxLinks,      \* ids of links are 1..MaxLinks
  Chats,
  MaxTime,       \* created_at of changes; NoChange when there is none, or NULL
  FirstChanges,  \* what the newest change of each link may be at first
  BatchSetting,  \* BATCH_SIZE
  MinBatch,      \* the bounds check_all_links puts on it
  MaxBatch,
  Workers,       \* PARALLEL_WORKERS
  Backends,      \* the ACCESS_TYPEs to consider
  OffLoop,       \* whether a source client is called where no loop is running
  MaxEvents,     \* bound on changes at the sources and on subscriptions that end
  MaxFaults      \* bound on failing calls and interruptions

Links == 1..MaxLinks
Times == 0..MaxTime
NoChange == 0

ASSUME TrackerAssumption ==
  /\ MaxLinks \in Nat
  /\ MaxTime \in Nat
  /\ FirstChanges \subseteq [Links -> Times]
  /\ {BatchSetting, MinBatch, MaxBatch} \subseteq Nat \ {0}
  /\ Workers \in Nat \ {0}
  /\ Backends \subseteq {"SQL", "ORM"}
  /\ OffLoop \in BOOLEAN
  /\ MaxEvents \in Nat
  /\ MaxFaults \in Nat

(* min(max(BATCH_SIZE, 50), 500) *)
BatchSize ==
  LET raised == IF BatchSetting < MinBatch THEN MinBatch ELSE BatchSetting
  IN  IF raised > MaxBatch THEN MaxBatch ELSE raised

VARIABLES
  backend,       \* ACCESS_TYPE
  latest,        \* created_at of the newest change at each link's source
  events,        \* changes at the sources and subscriptions ended so far
  present,       \* ids of the rows of links
  subs,          \* subscriptions, per link
  lastUpdated,   \* column last_updated
  lastChecked,   \* column last_checked, relative to the current sweep
  phase,         \* the job: idle, reading a batch, or checking one
  offset,        \* how many rows the sweep has been through
  roster,        \* the rows there were when the sweep began
  task,          \* the task of each link: where it is, and its local variables
  failed,        \* failed_links of the sweep
  handed,        \* per link, the calls of MessageSender.send_update
  swallowed,     \* links some update of which failed without an exception
  faults         \* failing calls and interruptions so far

surroundings == <<latest, events, present, subs>>
columns == <<lastUpdated, lastChecked>>
sweep == <<phase, offset, roster>>
record == <<handed, swallowed>>
vars == <<backend, surroundings, columns, sweep, task, failed, record, faults>>

(* A task is somewhere in _safe_check_link, with its snapshot of the row's *)
(* last_updated, the change it found and the subscribers it read.          *)
NoTask == [at |-> "none", seen |-> NoChange, change |-> NoChange, audience |-> {}]

Init ==
  /\ backend \in Backends
  /\ latest \in FirstChanges
  /\ events = 0
  /\ present = {}
  /\ subs = [l \in Links |-> {}]
  /\ lastUpdated = [l \in Links |-> NoChange]
  /\ lastChecked = [l \in Links |-> "never"]
  /\ phase = "idle"
  /\ offset = 0
  /\ roster = {}
  /\ task = [l \in Links |-> NoTask]
  /\ failed = {}
  /\ handed = [l \in Links |-> <<>>]
  /\ swallowed = {}
  /\ faults = 0

------------------------------------------------------------------------------
(* The surroundings *)

Happens ==
  /\ events < MaxEvents
  /\ events' = events + 1
  /\ UNCHANGED <<backend, columns, sweep, task, failed, record, faults>>

(* A release or an answer appears, or the newest one is withdrawn. *)
SourceChanges ==
  /\ \E l \in Links : \E t \in Times \ {latest[l]} :
       latest' = [latest EXCEPT ![l] = t]
  /\ UNCHANGED <<present, subs>>
  /\ Happens

(* DELETE /links: the row itself stays. *)
Unsubscribe ==
  /\ \E l \in present : \E c \in subs[l] : subs' = [subs EXCEPT ![l] = @ \ {c}]
  /\ UNCHANGED <<latest, present>>
  /\ Happens

(* POST /links: first the row, if there is none.  Ids are drawn from a     *)
(* sequence by transactions that commit in any order.                      *)
AddLink ==
  /\ \E l \in Links \ present : present' = present \cup {l}
  /\ UNCHANGED <<backend, latest, events, subs, columns, sweep, task, failed, record, faults>>

(* Then, in a later statement, the subscription. *)
Subscribe ==
  /\ \E l \in present : \E c \in Chats \ subs[l] : subs' = [subs EXCEPT ![l] = @ \cup {c}]
  /\ UNCHANGED <<backend, latest, events, present, columns, sweep, task, failed, record,
                 faults>>

Fault ==
  /\ faults < MaxFaults
  /\ faults' = faults + 1

------------------------------------------------------------------------------
(* check_all_links *)

Position(l, rows) == Cardinality({k \in rows : k <= l})

Page(rows) ==
  {l \in rows : Position(l, rows) \in (offset + 1)..(offset + BatchSize)}

(* Variant: only the rows this sweep has not marked yet are paged through. *)
NextBatchOfUnmarked == Page({l \in present : lastChecked[l] # "this"})

(* SELECT ... ORDER BY id LIMIT BatchSize OFFSET offset *)
NextBatch == Page(present)

(* The interval job; APScheduler starts no second instance of it. *)
StartSweep ==
  /\ phase = "idle"
  /\ phase' = "reading"
  /\ offset' = 0
  /\ roster' = present
  /\ failed' = {}
  /\ lastChecked' = [l \in Links |->
                       IF lastChecked[l] = "this" THEN "earlier" ELSE lastChecked[l]]
  /\ UNCHANGED <<backend, surroundings, lastUpdated, task, record, faults>>

(* One task per row, each with its snapshot of the row. *)
ReadBatch ==
  /\ phase = "reading"
  /\ NextBatch # {}
  /\ phase' = "checking"
  /\ task' = [l \in Links |->
                IF l \in NextBatch
                THEN [NoTask EXCEPT !.at = "waiting", !.seen = lastUpdated[l]]
                ELSE NoTask]
  /\ UNCHANGED <<backend, surroundings, columns, offset, roster, failed, record, faults>>

EndSweep ==
  /\ phase = "reading"
  /\ NextBatch = {}
  /\ phase' = "idle"
  /\ UNCHANGED <<backend, surroundings, columns, offset, roster, task, failed, record,
                 faults>>

(* Variant: the offset is not moved on. *)
EndBatchInPlace ==
  /\ phase = "checking"
  /\ \A l \in Links : task[l].at = "none"
  /\ phase' = "reading"
  /\ UNCHANGED <<backend, surroundings, columns, offset, roster, task, failed, record,
                 faults>>

(* gather() returns when every task has ended. *)
EndBatch ==
  /\ phase = "checking"
  /\ \A l \in Links : task[l].at = "none"
  /\ phase' = "reading"
  /\ offset' = offset + BatchSize
  /\ UNCHANGED <<backend, surroundings, columns, roster, task, failed, record, faults>>

(* get_links_batch raises and the job ends with that exception; or, at any *)
(* await, the process crashes or the scheduler's shutdown cancels the job: *)
(* a cancelled task passes its except clause by.                           *)
Interrupt ==
  /\ phase # "idle"
  /\ Fault
  /\ phase' = "idle"
  /\ roster' = {}
  /\ task' = [l \in Links |-> NoTask]
  /\ UNCHANGED <<backend, surroundings, columns, offset, failed, record>>

------------------------------------------------------------------------------
(* _safe_check_link and _check_link_internal, for one link *)

At(l, labels) == task[l].at \in labels

Goto(l, label) == task' = [task EXCEPT ![l].at = label]

Leave(l) == task' = [task EXCEPT ![l] = NoTask]

(* The semaphore lets the tasks in in the order they were created. *)
Enter(l) ==
  /\ At(l, {"waiting"})
  /\ \A k \in Links : k < l => ~At(k, {"waiting"})
  /\ Cardinality({k \in Links : ~At(k, {"none", "waiting"})}) < Workers
  /\ Goto(l, "fetching")
  /\ UNCHANGED <<backend, surroundings, columns, sweep, failed, record, faults>>

(* Variants: an equal time counts as new; any other time counts as new; a   *)
(* link never stamped has nothing to compare with.                         *)
CompareOrEqual(l, t) ==
  task' = [task EXCEPT ![l].change = t,
                       ![l].at = IF t = NoChange \/ t < task[l].seen
                                 THEN "marking" ELSE "noting"]

CompareDiffering(l, t) ==
  task' = [task EXCEPT ![l].change = t,
                       ![l].at = IF t \in {NoChange, task[l].seen}
                                 THEN "marking" ELSE "noting"]

CompareStampedOnly(l, t) ==
  task' = [task EXCEPT ![l].change = t,
                       ![l].at = IF task[l].seen = NoChange \/ t <= task[l].seen
                                 THEN "marking" ELSE "noting"]

(* Both comparisons of _check_link_internal with what the client returned. *)
Compare(l, t) ==
  task' = [task EXCEPT ![l].change = t,
                       ![l].at = IF t <= task[l].seen THEN "marking" ELSE "noting"]

(* What the source client returns.  On a thread that runs an event loop a  *)
(* second loop cannot run: the client catches the RuntimeError.            *)
Returned(l) == IF OffLoop THEN latest[l] ELSE NoChange

(* _fetch_latest_change.  Any error of the source, and an open breaker,    *)
(* comes back as None, like a link nobody knows how to ask about.          *)
Fetch(l) ==
  /\ At(l, {"fetching"})
  /\ \/ Compare(l, Returned(l)) /\ UNCHANGED faults
     \/ Compare(l, NoChange) /\ Fault
  /\ UNCHANGED <<backend, surroundings, columns, sweep, failed, record>>

(* What follows update_last_checked: nothing, if no change was found. *)
AfterMark(l) == IF At(l, {"noting"}) THEN Goto(l, "stamping") ELSE Leave(l)

(* update_last_checked *)
Mark(l) ==
  /\ At(l, {"marking", "noting"})
  /\ lastChecked' = [lastChecked EXCEPT ![l] = "this"]
  /\ AfterMark(l)
  /\ UNCHANGED <<backend, surroundings, lastUpdated, sweep, failed, record, faults>>

(* Variants: the time of the check is stamped; the newest change by now is. *)
StampNow(l) ==
  /\ At(l, {"stamping"})
  /\ lastUpdated' = [lastUpdated EXCEPT ![l] = MaxTime + 1]
  /\ Goto(l, "asking")
  /\ UNCHANGED <<backend, surroundings, lastChecked, sweep, failed, record, faults>>

StampNewest(l) ==
  /\ At(l, {"stamping"})
  /\ lastUpdated' = [lastUpdated EXCEPT ![l] = latest[l]]
  /\ Goto(l, "asking")
  /\ UNCHANGED <<backend, surroundings, lastChecked, sweep, failed, record, faults>>

(* update_timestamp, with the change's created_at *)
Stamp(l) ==
  /\ At(l, {"stamping"})
  /\ lastUpdated' = [lastUpdated EXCEPT ![l] = task[l].change]
  /\ Goto(l, "asking")
  /\ UNCHANGED <<backend, surroundings, lastChecked, sweep, failed, record, faults>>

(* An update that fails may have been made all the same, when only the     *)
(* answer to it is lost.                                                   *)
MayApply(l) ==
  \/ UNCHANGED columns
  \/ /\ At(l, {"marking", "noting"})
     /\ lastChecked' = [lastChecked EXCEPT ![l] = "this"]
     /\ UNCHANGED lastUpdated
  \/ /\ At(l, {"stamping"})
     /\ lastUpdated' = [lastUpdated EXCEPT ![l] = task[l].change]
     /\ UNCHANGED lastChecked

(* The SQL repository passes an error on; so does every read, an ORM       *)
(* rollback that fails in its turn, and _format_message before the read.   *)
Raises(l) ==
  /\ At(l, {"marking", "noting", "stamping", "asking"})
  /\ Fault
  /\ MayApply(l)
  /\ Goto(l, "failing")
  /\ UNCHANGED <<backend, surroundings, sweep, failed, record>>

(* The ORM repository rolls a failed update back and returns False, which  *)
(* nobody looks at.  All tasks share one session: the rollback of another  *)
(* one, between flush and commit, undoes an update that then succeeds.     *)
Swallows(l) ==
  /\ At(l, {"marking", "noting", "stamping"})
  /\ backend = "ORM"
  /\ Fault
  /\ IF At(l, {"stamping"}) THEN Goto(l, "asking") ELSE AfterMark(l)
  /\ MayApply(l)
  /\ swallowed' = swallowed \cup {l}
  /\ UNCHANGED <<backend, surroundings, sweep, failed, handed>>

(* get_link_subscribers *)
Ask(l) ==
  /\ At(l, {"asking"})
  /\ task' = [task EXCEPT ![l].at = "sending", ![l].audience = subs[l]]
  /\ UNCHANGED <<backend, surroundings, columns, sweep, failed, record, faults>>

(* The sender's send_update; neither sender raises. *)
Hand(l) ==
  /\ At(l, {"sending"})
  /\ handed' = [handed EXCEPT ![l] =
                  Append(@, [at |-> task[l].change, to |-> task[l].audience])]
  /\ Leave(l)
  /\ UNCHANGED <<backend, surroundings, columns, sweep, failed, swallowed, faults>>

(* The except clause marks the link, then re-raises for gather(); with SQL *)
(* the marking may raise in turn, with the ORM it returns False.           *)
FailMark(l) ==
  /\ At(l, {"failing"})
  /\ \/ lastChecked' = [lastChecked EXCEPT ![l] = "this"] /\ UNCHANGED faults
     \/ Fault /\ UNCHANGED lastChecked
  /\ failed' = failed \cup {l}
  /\ Leave(l)
  /\ UNCHANGED <<backend, surroundings, lastUpdated, sweep, record>>

------------------------------------------------------------------------------

Works(l) ==
  Enter(l) \/ Fetch(l) \/ Mark(l) \/ Stamp(l) \/ Ask(l) \/ Hand(l) \/ FailMark(l)

Environment == SourceChanges \/ Unsubscribe \/ AddLink \/ Subscribe
Job == StartSweep \/ ReadBatch \/ EndBatch \/ EndSweep

Next ==
  \/ Environment
  \/ Job
  \/ Interrupt
  \/ \E l \in Links : Works(l) \/ Raises(l) \/ Swallows(l)

Spec == Init /\ [][Next]_vars

(* The scheduler fires again and again, and the event loop runs each task. *)
Fairness == WF_vars(Job) /\ \A l \in Links : WF_vars(Works(l))

FairSpec == Spec /\ Fairness

------------------------------------------------------------------------------
(* Properties *)

Labels == {"none", "waiting", "fetching", "marking", "noting", "stamping", "asking",
           "sending", "failing"}
Tasks == [at : Labels, seen : Times, change : Times, audience : SUBSET Chats]
Calls == [at : Times, to : SUBSET Chats]

(* Every variable keeps its type; the column last_updated only ever holds  *)
(* the time of a change, never the time of a check.                        *)
TypeOK ==
  /\ backend \in Backends
  /\ latest \in [Links -> Times]
  /\ events \in Nat
  /\ present \subseteq Links
  /\ subs \in [Links -> SUBSET Chats]
  /\ lastUpdated \in [Links -> Times]
  /\ lastChecked \in [Links -> {"never", "earlier", "this"}]
  /\ phase \in {"idle", "reading", "checking"}
  /\ offset \in Nat
  /\ roster \subseteq Links
  /\ task \in [Links -> Tasks]
  /\ failed \subseteq Links
  /\ handed \in [Links -> Seq(Calls)]
  /\ swallowed \subseteq Links
  /\ faults \in Nat

(* No change is announced twice, nor after a later one, whatever happens   *)
(* at the source, to the table and to the job between two sweeps, unless   *)
(* the repository hid a failed update of that link: the stamp comes before *)
(* the announcement, and a snapshot is never older than the last stamp.    *)
NeverRepeated ==
  \A l \in Links \ swallowed : \A i, j \in DOMAIN handed[l] :
    i < j => handed[l][i].at < handed[l][j].at

(* Links whose check has ended with a stamp that no update announced. *)
Missed ==
  {l \in Links :
     /\ At(l, {"none"})
     /\ lastUpdated[l] # NoChange
     /\ \A i \in DOMAIN handed[l] : handed[l][i].at # lastUpdated[l]}

(* The stamp is stored before the update is handed over.  An error or an   *)
(* interruption between the two costs no more announcements than there are *)
(* workers, so without one a stamp that was stored was announced.          *)
MissedBounded == Cardinality(Missed) <= Workers * faults

(* A sweep that comes to its end has been through every row there was when *)
(* it began, though rows are inserted under its LIMIT and OFFSET: each was *)
(* marked as checked or is reported as failed, unless an update was hidden.*)
SweepComplete ==
  phase = "idle" =>
    \A l \in roster : lastChecked[l] = "this" \/ l \in failed \/ l \in swallowed

(* last_updated never goes back, even if the newest change is withdrawn    *)
(* and the older one shows again.                                          *)
LastUpdatedGrows == [][\A l \in Links : lastUpdated[l] <= lastUpdated'[l]]_vars

(* A sweep comes to its end, however its tasks fail.                       *)
SweepEnds == phase # "idle" ~> phase = "idle"

(* README.md, first feature: links are tracked.  A change newer than the   *)
(* stamp of a stored link is noticed: the stamp reaches it, unless the     *)
(* source changes again or a call fails.                                   *)
ChangeNoticed ==
  \A l \in Links : \A t \in Times : \A n \in 0..MaxEvents :
    (l \in present /\ latest[l] = t /\ events = n)
      ~> (lastUpdated[l] >= t \/ events > n \/ faults > 0)

==============================================================================
