------------------------------- MODULE Delivery -------------------------------
(***************************************************************************)
(* From the tracker to the bot and to Kafka: services/update_sender.py with *)
(* services/kafka_sender.py behind it, and the bot's POST /api/updates.  An *)
(* HTTP call runs in a thread of its own: retries inside the circuit        *)
(* breaker, whose lock admits one thread at a time, and Kafka when the call *)
(* fails.  The task that awaits the thread can be cancelled, the thread     *)
(* cannot.                                                                  *)
(***************************************************************************)
EXTENDS Integers, FiniteSets

CONSTANTS
  Updates,       \* the calls of send_update, one per noticed change
  Workers,       \* PARALLEL_WORKERS: calls in progress at once
  Attempts,      \* RETRY_MAX_ATTEMPTS
  Threshold,     \* CB_FAILURE_THRESHOLD
  Backends,      \* NOTIFICATION_BACKENDs to consider
  Accepting,     \* whether the bot's LinkUpdate validates the sender's payload
  MaxElapses     \* bound on how often CB_RECOVERY_TIMEOUT passes

ASSUME DeliveryAssumption ==
  /\ {Workers, Attempts, Threshold} \subseteq Nat \ {0}
  /\ Backends \subseteq {"http", "kafka"}
  /\ Accepting \subseteq BOOLEAN
  /\ MaxElapses \in Nat

VARIABLES
  backend,    \* NOTIFICATION_BACKEND
  accepts,    \* whether the bot answers a post with 200; with 422 otherwise
  call,       \* where each call of send_update is
  addressed,  \* the calls that have subscribers
  tries,      \* requests of a call so far
  answered,   \* those answered with a status outside RETRYABLE_STATUSES
  notified,   \* those the bot has sent to Telegram
  breaker,    \* http_cb: closed, open, open past its recovery time, or on trial
  failures,   \* its fail counter
  holder,     \* whose thread holds its lock: one call's, or none's
  elapses,    \* how often the recovery time has passed
  posts,      \* requests of all calls so far
  record,     \* what became of a call's record for Kafka
  closing,    \* the scheduler is shut down
  abandoned   \* calls whose task that cancelled

settings == <<backend, accepts>>
http == <<tries, answered, notified, posts>>
circuit == <<breaker, failures, holder>>
shutdown == <<closing, abandoned>>
vars == <<settings, call, addressed, http, circuit, elapses, record, shutdown>>

Init ==
  /\ backend \in Backends
  /\ accepts \in Accepting
  /\ call = [u \in Updates |-> "none"]
  /\ addressed = {}
  /\ tries = [u \in Updates |-> 0]
  /\ answered = [u \in Updates |-> 0]
  /\ notified = [u \in Updates |-> 0]
  /\ breaker = "closed"
  /\ failures = 0
  /\ holder = {}
  /\ elapses = 0
  /\ posts = 0
  /\ record = [u \in Updates |-> "none"]
  /\ closing = FALSE
  /\ abandoned = {}

InProgress == {u \in Updates : call[u] \notin {"none", "done"}}

Goto(u, label) == call' = [call EXCEPT ![u] = label]

(* An abandoned call ends where its thread does: nobody awaits the outcome. *)
Outcome(u, label) == Goto(u, IF u \in abandoned THEN "done" ELSE label)

------------------------------------------------------------------------------
(* send_update *)

(* Without subscribers there is nothing to do. *)
Begin(u) ==
  /\ ~closing
  /\ call[u] = "none"
  /\ Cardinality(InProgress) < Workers
  /\ \/ Goto(u, "done") /\ UNCHANGED addressed
     \/ /\ Goto(u, IF backend = "kafka" THEN "publishing" ELSE "queued")
        /\ addressed' = addressed \cup {u}
  /\ UNCHANGED <<settings, http, circuit, elapses, record, shutdown>>

(* Variant: an open breaker lets a trial through at any time. *)
EnterAnyTime(u) ==
  /\ call[u] = "queued"
  /\ holder = {}
  /\ breaker' = IF breaker = "closed" THEN "closed" ELSE "trial"
  /\ holder' = {u}
  /\ Goto(u, "posting")
  /\ UNCHANGED <<settings, addressed, http, failures, elapses, record, shutdown>>

(* The thread gets the breaker's lock.  An open breaker raises at once; one *)
(* whose recovery time has passed lets this call through as a trial.        *)
Enter(u) ==
  /\ call[u] = "queued"
  /\ holder = {}
  /\ \/ breaker = "open" /\ Outcome(u, "refused") /\ UNCHANGED <<breaker, holder>>
     \/ /\ breaker # "open"
        /\ breaker' = IF breaker = "elapsed" THEN "trial" ELSE breaker
        /\ holder' = {u}
        /\ Goto(u, "posting")
  /\ UNCHANGED <<settings, addressed, http, failures, elapses, record, shutdown>>

(* Variant: the attempts are counted from nought. *)
ExhaustedLate(u) == tries[u] >= Attempts

Exhausted(u) == tries[u] + 1 >= Attempts

(* Variant: the lock is kept when the breaker opens. *)
FailLocked(u) ==
  LET opens == breaker = "trial" \/ failures + 1 >= Threshold IN
  /\ failures' = failures + 1
  /\ breaker' = IF opens THEN "open" ELSE breaker
  /\ Outcome(u, IF opens THEN "refused" ELSE "raised")
  /\ holder' = IF opens THEN holder ELSE {}

(* The call ends in an exception.  The breaker counts calls, not attempts; *)
(* it opens at the threshold, or when a trial fails, and then raises its   *)
(* own error.  _send_http_request never returns, so no call ever succeeds. *)
Fail(u) ==
  LET opens == breaker = "trial" \/ failures + 1 >= Threshold IN
  /\ failures' = failures + 1
  /\ breaker' = IF opens THEN "open" ELSE breaker
  /\ Outcome(u, IF opens THEN "refused" ELSE "raised")
  /\ holder' = {}

(* A RequestError is retried while attempts are left. *)
RetryOrFail(u) ==
  IF Exhausted(u) THEN Fail(u) ELSE UNCHANGED <<call, circuit>>

(* One POST.  A status outside RETRYABLE_STATUSES is answered: 422 raises   *)
(* HTTPStatusError; after 200 the code goes on to raise RequestError.  An   *)
(* unanswered one (connection, timeout, retryable status) raises            *)
(* RequestError, whether or not the bot has dealt with it; the client's     *)
(* pool, whose event loop is closed by now, may raise RuntimeError.         *)
Post(u) ==
  /\ call[u] = "posting"
  /\ tries' = [tries EXCEPT ![u] = @ + 1]
  /\ posts' = posts + 1
  /\ \/ /\ answered' = [answered EXCEPT ![u] = @ + 1]
        /\ IF accepts
           THEN notified' = [notified EXCEPT ![u] = @ + 1] /\ RetryOrFail(u)
           ELSE UNCHANGED notified /\ Fail(u)
     \/ /\ UNCHANGED answered
        /\ \/ UNCHANGED notified
           \/ accepts /\ notified' = [notified EXCEPT ![u] = @ + 1]
        /\ RetryOrFail(u)
     \/ UNCHANGED <<answered, notified>> /\ Fail(u)
  /\ UNCHANGED <<settings, addressed, elapses, record, shutdown>>

(* CB_RECOVERY_TIMEOUT after the breaker opened. *)
Elapse ==
  /\ breaker = "open"
  /\ elapses < MaxElapses
  /\ elapses' = elapses + 1
  /\ breaker' = "elapsed"
  /\ UNCHANGED <<settings, call, addressed, http, failures, holder, record, shutdown>>

(* KafkaMessageSender.send_update: the record is in the producer's hands,   *)
(* or an exception is logged and swallowed.                                 *)
Produce(u) ==
  /\ \E r \in {"buffered", "failed"} : record' = [record EXCEPT ![u] = r]
  /\ Goto(u, "done")
  /\ UNCHANGED <<settings, addressed, http, circuit, elapses, shutdown>>

(* Variant: the breaker's own error is only logged. *)
FallbackUnlessRefused(u) ==
  \/ /\ call[u] \in {"raised", "publishing"}
     /\ Produce(u)
  \/ /\ call[u] = "refused"
     /\ Goto(u, "done")
     /\ UNCHANGED <<settings, addressed, http, circuit, elapses, record, shutdown>>

(* Both except clauses publish to Kafka; the kafka backend does only that. *)
Fallback(u) ==
  /\ call[u] \in {"refused", "raised", "publishing"}
  /\ Produce(u)

(* The producer sends its batches in the background, and sends what is left *)
(* when it is stopped.  Nobody awaits the outcome.                          *)
Settle(u) ==
  /\ record[u] = "buffered"
  /\ \E r \in {"stored", "lost"} : record' = [record EXCEPT ![u] = r]
  /\ UNCHANGED <<settings, call, addressed, http, circuit, elapses, shutdown>>

(* scheduler.shutdown() cancels the job.  The calls end where they are, but *)
(* a thread at work goes on.                                                *)
Shutdown ==
  /\ ~closing
  /\ closing' = TRUE
  /\ abandoned' = InProgress
  /\ call' = [u \in Updates |->
                IF call[u] \in {"refused", "raised", "publishing"} THEN "done" ELSE call[u]]
  /\ UNCHANGED <<settings, addressed, http, circuit, elapses, record>>

------------------------------------------------------------------------------

Threads(u) == Enter(u) \/ Post(u)

Next ==
  \/ \E u \in Updates : Begin(u) \/ Threads(u) \/ Fallback(u) \/ Settle(u)
  \/ Elapse
  \/ Shutdown

Spec == Init /\ [][Next]_vars

(* Threads run, and a request ends with its timeout at the latest.         *)
Fairness ==
  \A u \in Updates :
    WF_vars(Enter(u)) /\ WF_vars(Post(u)) /\ WF_vars(Fallback(u)) /\ WF_vars(Settle(u))

FairSpec == Spec /\ Fairness

------------------------------------------------------------------------------
(* Properties *)

Labels == {"none", "queued", "posting", "refused", "raised", "publishing", "done"}

(* Every variable keeps its type: no call makes more than Attempts requests, *)
(* whatever the breaker and the retries make of it together.                *)
TypeOK ==
  /\ backend \in Backends
  /\ accepts \in Accepting
  /\ call \in [Updates -> Labels]
  /\ addressed \subseteq Updates
  /\ tries \in [Updates -> 0..Attempts]
  /\ answered \in [Updates -> 0..Attempts]
  /\ notified \in [Updates -> 0..Attempts]
  /\ breaker \in {"closed", "open", "elapsed", "trial"}
  /\ failures \in Nat
  /\ holder \subseteq Updates
  /\ elapses \in 0..MaxElapses
  /\ posts \in Nat
  /\ record \in [Updates -> {"none", "buffered", "stored", "failed", "lost"}]
  /\ closing \in BOOLEAN
  /\ abandoned \subseteq Updates

(* However the breaker, the retries and the bot behave, a call with        *)
(* subscribers that was not cancelled has offered its update to Kafka when *)
(* send_update returns.                                                    *)
NothingDropped ==
  \A u \in addressed \ abandoned : call[u] = "done" => record[u] # "none"

(* The bot is not flooded: whatever number of updates there are to send,   *)
(* requests stop at the threshold, and each time the recovery time passes  *)
(* lets no more than one call's attempts through.                          *)
LoadBounded == posts <= Attempts * (Threshold + elapses)

(* send_update returns, whoever holds the breaker's lock. *)
EveryCallReturns == \A u \in Updates : u \in addressed ~> call[u] = "done"

(* Every update is settled with the broker, stored or given up, unless the *)
(* the job is cancelled.                                                   *)
EventuallySettled ==
  \A u \in Updates :
    u \in addressed ~> (record[u] \in {"stored", "failed", "lost"} \/ u \in abandoned)

(* The docstring of _publish_to_kafka: publication when HTTP is not         *)
(* available.  An update goes to Kafka only if the bot answered no request  *)
(* for it.                                                                  *)
FallbackOnlyWhenUnavailable ==
  \A u \in Updates : record[u] # "none" => answered[u] = 0

==============================================================================
