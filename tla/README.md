# LinkTracker in TLA+

LinkTracker watches GitHub repositories and StackOverflow questions and tells Telegram
chats what is new. It is three Python services: the *scrapper* (API, database, periodic
sweep over the tracked links), the *AI agent* (filters, shortens, ranks and groups updates
between two Kafka topics) and the *bot* (Telegram dialogues, reception of updates). This
directory holds TLA+ modules of the parts of it where order, failure and concurrency
matter, TLC configurations that check them, and proofs checked by TLAPS. Paths below are
relative to `src/src/`.

## The system

| Component | State | Operations | Interacts with |
|---|---|---|---|
| AI agent, `ai_agent_service/services/handler.py` | `_buffer`, `_buffer_timestamps`, `_lock`, two tasks, the consumer's offsets | poll and buffer, flush expired windows, `stop` | reads one topic, writes another |
| Filter, summarizer, priorities | none | pure functions | called by the handler |
| Sweep, `scrapper_service/services/tracker_service.py`, `scheduler.py` | offset and batch of the sweep, one task per link | fetch, compare, mark, stamp, hand over | source clients, repositories, sender |
| Delivery, `update_sender.py`, `kafka_sender.py` | circuit breaker, retries, threads, producer | `send_update` | bot's `POST /api/updates`, Kafka |
| API and repositories, `api/routes.py`, `repos/` | tables chats, links, subscriptions; the ORM session | register, delete, list, add, remove | PostgreSQL; shared with the sweep |
| Source clients, `clients/` | breakers | latest release, latest answer | GitHub, StackOverflow |
| Database start-up, `database/`, `scrapper_service/main.py` | `schema_migrations`, the schema | migrate, then serve | PostgreSQL; other instances |
| Bot conversations, `bot_service/handlers/`, `tools.py` | conversation state, `user_data` | /start /track /untrack /list | scrapper client |
| Scrapper client, `bot_service/clients/` | breaker, retries | five requests | scrapper API |
| Reception of updates, `bot_service/services/`, `api/` | consumer's offsets, requests in hand | notify each chat | Telegram |
| Bot application, `bot_service/main.py` | the process | start, stop, crash, restart | all of the bot |

An update goes from a source client through the sweep to `send_update`, from there over
HTTP to the bot or through Kafka to the AI agent and on to the bot. The API changes the
tables that the sweep reads; with `ACCESS_TYPE=ORM`, the default, handlers and sweep share
one SQLAlchemy session.

What is hard, and what makes each part correct:

* **AI agent.** Two asyncio tasks share a buffer under a lock that is held while a send is
  awaited; auto-commit runs ahead of the buffer; `stop()` cancels both. Nothing is lost or
  grouped twice while nothing fails; order per chat is that of the topic; a record says of
  its items only what is true of them; `stop()` ends.
* **Sweep.** Tasks work on snapshots of rows, rows are inserted under LIMIT/OFFSET, any
  call may fail at any await, a repository may hide a failure, the job may be cancelled.
  No change is announced twice, no row is passed over, stamps never go back.
* **Delivery.** Retries inside a breaker inside threads that outlive the tasks awaiting
  them. No update is dropped, the bot is not flooded, every call returns.
* **API.** Handlers check and act in several awaits, on tables with constraints and, with
  the ORM, in one transaction for everybody. Tables stay consistent, an answer is true.
* **Migrations.** Instances start together on one database and may end in any transaction.
  No version is applied twice or before the ones it builds on; who serves is migrated.
* **Conversations.** A dialogue keeps data between two messages, in a dictionary that all
  chats of a user share; a list may be stale when a number is chosen from it; replies fail
  halfway through a handler. What is added or removed is what the user meant.
* **Scrapper client.** Requests are repeated after a timeout, a breaker refuses them, and
  each method hides why it failed. What a user is told is true, and a failure has a reason.
* **Reception.** Offsets are committed before chats are told; a bad record ends the
  consumer; `stop()` may come at any time. Order and loss over restarts are bounded.

`PROJECT.json` lists the hazards one by one with their lines.

## Modules

| Module | Models |
|---|---|
| `AgentText` | filter, summarizer, priorities as operators |
| `GroupedChannel` | abstract: what the AI agent promises per chat |
| `AiAgent` | `Handler` with its Kafka clients; implements `GroupedChannel` |
| `Tracker` | `TrackerService` and `Scheduler` between sources, tables and sender |
| `Delivery` | `UpdateSender`, `KafkaMessageSender`, the bot's answer to a post |
| `Store` | `api/routes.py` over the SQL and the ORM repositories |
| `Faults` | the budget of faults that the bot's parts share |
| `Dialogues` | handlers, `tools.py`, `scrapper_client.py` and the API as they see it |
| `Reception` | the bot's Kafka consumer and `POST /api/updates` |
| `Bot` | composes the two under the lifespan of `bot_service/main.py` |
| `SchemaHistory` | abstract: what the scrapper's start promises of the schema |
| `Migrations` | the scrapper's start, several instances at once; implements `SchemaHistory` |
| `MC...` | small instances of these for TLC |
| `..._proofs` | theorems about them; `Dialogues_proofs` holds the lemmas that `Bot_proofs` makes theorems of |

`Bot` composes `Dialogues` and `Reception`, which share nothing but the process they run in.
The other modules meet at interfaces each one models from its own side: `Tracker.Hand` is a
call of `Delivery.Begin`; `Tracker.AddLink`, `Subscribe` and `Unsubscribe` are what requests
of `Store` do to the rows a sweep sees; `Dialogues.Status` and `Handled` are what `Store` answers
to the bot's requests; `Store` starts on the schema `Migrations` ends with. The services' Kafka
topics do not meet: the scrapper writes `link.notifications`, the agent reads
`link.raw-updates`, the bot reads `link.processed-updates`, and docker-compose.yml runs no
agent. So `AiAgent` and `Reception` each have a topic of their own with every kind of record.

### AiAgent and AgentText

An action is what runs between two suspension points of the event loop. `PollBuffered`,
`PollBlocked` and `AcquireAndBuffer` are the process task; with the lock free a message goes
from the poll to the buffer without suspending, with the lock taken the task waits with the
message in hand. `FlushWake`, `FlushNext`, `SendOk`/`SendFails`, `FlushDone` are
`_flush_expired`: it pops a chat, suspends in the send, goes on to the next. `Stop`,
`CancelFlush`, `FinalFlush`, `FinalFlushDone`, `Close` are `stop()`. asyncio's lock is fair, so
`FlushWake` waits for a process task that is queued for it. A wake-up that finds nothing
expired is a stutter. `Tick` moves all windows at once; `age` saturates at the window, since
the code only asks whether it has ended. `AutoCommit` is the consumer's background commit.
A text is its length and the places of watched words in it, so that cutting it can cut a
keyword off, as `Summarizer` does before the priority is taken. The chats of an update are a
set: `tgChatIds` comes from subscriptions that are unique per chat.

`GroupedChannel` has no tasks, lock or clock: offsets are accepted in order, kept per chat,
and leave as one group. The refinement takes as *kept* a send in flight followed by the
buffer. A disruption may lose what is kept or rewind; it may not split or reorder a group.

### Tracker

`task[l]` is the task of a link's `_safe_check_link`: where it is and its local variables (the
`last_updated` of the row as read, the change found, the subscribers). `ReadBatch` takes a page
of the table as it is then; `EndBatch` is the end of `gather`. Each await of
`_check_link_internal` is an action; `Raises` and `Swallows` let any of them fail, the second
as the ORM repositories do, which return False. A failing call may have been applied.
`Interrupt` is an exception of the job, a crash, or `scheduler.shutdown()`. Times are small
numbers, NULL and "no change" are 0. `lastChecked` is relative to the sweep, which is all the
properties ask. `AddLink` is the row that POST /links commits, `Subscribe` the subscription of
a later statement, so a sweep may meet a row without subscribers.

`OffLoop` says whether a source client's call can be made at all: `get_latest_activity`
runs `run_until_complete` on the thread of the running loop, which raises RuntimeError, which
the client turns into None. As deployed it is FALSE and `TrackerDeployed` shows what follows.
The other two runs take TRUE, to check the tracker's own logic, which does not depend on how
the client is called; the theorems hold for both values.

### Delivery

`Begin` is `send_update` up to the thread; `Enter`, `Post`, `Fail` are the thread: pybreaker's
lock is held from `Enter` to `Fail`, all attempts included. `_send_http_request` raises after
every answer (line 36 is reached after a success as well), so there is no successful end and
the breaker never closes again once it has opened. `Accepting` says whether the bot's model
validates the payload; as deployed it does not (`message` for `description`: 422). `Fallback`
is both except clauses; `Settle` is the producer's background batch. `Shutdown` abandons the
tasks, not their threads. pybreaker, httpx and aiokafka are modelled from the code's use of
them.

### Store

`at[r]` is the step of the handler of request `r`. `view` is what the next statement sees: `db`
for SQL; for the ORM also what the shared session has flushed and not committed. `Written` is
the effect of the statement of each step, `Refused` the schema's constraints, which differ
between the repositories (ON CONFLICT in SQL only). `RollBack` is the except clause of the
ORM repositories: it drops the uncommitted changes of *all* requests, and the handler, which
ignores the False, answers 200. `poisoned` is a session whose transaction failed in a read,
which no reader rolls back. The ORM repository deletes a chat in two steps, a SELECT (`LookUp`)
and the DELETE it flushes; a chat that goes in between makes the second one a no-op or an error.
How SQLAlchemy takes two calls at once is abstracted to: a call may fail, and a rollback undoes
everyone's uncommitted changes.

### Dialogues

An action is the handling of a message up to its call of the scrapper, an answer to a
request, or the rest of the handler. python-telegram-bot handles one update at a time, so
there is at most one `call`. `conv[c]` is the ConversationHandler's state for a user in a chat,
`userData[u]` is `context.user_data`, which all chats of a user share (`Owners` says whose
conversations are; a user more would only add rows of its own). A reply may fail: a handler
is cut off where it awaits it, so the order of store, reply and `return END` matters
(`OfferChoices` stores and then shows, `EndUntrack` tells and then forgets). An edited message
has no `update.message`, which ends a dialogue in silence (`EditUrl`).

`Remember` is `get_user_data`: an empty dictionary's place is taken by a new one, so what is
stored there is gone. Nothing else in the bot writes to the dictionary, so as deployed it is
always empty: `BotTrack` shows what follows, with `Keeping = {FALSE}`. `BotSafety` checks the
dialogues' own logic with either value; with TRUE the dictionary holds an entry of somebody
else's and everything stored is kept.

`Ask`, `Answered`, `Unanswered`, `Elapse` are the client: the breaker is asked, the request is
sent up to `Attempts` times, a timeout leaves open whether the scrapper dealt with it, and
whatever is raised counts, 404 and 409 included. `remove_link` sends no body, so DELETE /links
answers 422 to all of them. `given`, `shown`, `unsure` and `streak` are ghosts: the url a user
gave last and has neither tracked nor cancelled, the list a user saw last, whether a later one
may not have arrived, and the calls failed in a row. `given` is per user and not per dialogue, as
`tracking_url` is: two dialogues of one user in two chats do mix, and one may add the url given
to the other, which `UrlIsLastGiven` admits. Tags are left out, since nothing is decided by them.

### Reception and Bot

`PollUpdate`/`PollBad`, `Tell` and `AutoCommit` are the consumer: a poll takes one record,
each send is awaited, the client commits its position in the background, told or not. A
record without `tgChatIds`, or one that does not decode, ends the loop (`consumer = "ended"`)
while the client goes on committing. `Post`, `TellPost`, `AnswerOk`, `AnswerError` are the
handler of POST /api/updates; a post that is rejected (422, 429) changes nothing here and is
in `Delivery` from the sender's side.

`Bot` adds the process. uvicorn opens its socket when start-up is over and waits for its
requests before shutdown, so posts are accepted in `"up"` only and `Shutdown` waits for those
in hand; python-telegram-bot handles messages from `"starting"` on, and waits in its `stop()`
for the handler that is running (`Exit`). `Crash` is the end of the process anywhere. `Exit` and
`Crash` both leave whatever is in hand behind (`Lose`: a post is then `"cut"`), so that no post is
cut by a stop has to come from `Shutdown`'s wait, as `EveryPostAnswered` says and its mutant
shows. `StopConsumer` ends with the client's last commit, which may fail; then, as after a crash
that comes before a commit, records are read again (`reread`), which is all that `InOrder`
exempts. `Loads`
says what a behaviour has to do, so that an instance can take the parts one at a time or
together; `spent` is how much of the budget of faults a load starts without.

### Migrations

`at[i]` is the step of an instance's start. `RunSql`, `Insert`, `Commit` are one file's
transaction; `Waiting` is PostgreSQL's wait for an uncommitted row with the same key, `Conflict`
the primary key, `SqlFails` a statement that meets another instance's of the same file. Each
ends the process, and `restart: unless-stopped` starts it again. Files come sorted by name, as
strings; one that begins with no number is skipped, and of two with the same number the first
start applies one and fails at the other, which the next start skips in silence:
`ServesMigrated` says that the *version* of each file is in the database, no more.
`SchemaIsStage` is about directories that are stages of one project: of any two, one is a start
of the other (`IsStartOf`: each of its numbered files is there, after the same ones), and their
numbers are distinct (`Consistent`).

`SchemaHistory` has no table, transactions, starts or readings: a schema that grows by whole
files, each after those that precede it in the directory it is taken from, and a set of
instances that serve, each of which finds its directory's versions there. This holds of any
directories, related or not. Under the refinement a file is applied in `Commit`, or in a `Fail`
whose commit was on the way; `Serve` and a `Fail` of a serving instance are its comings and
goings; all else is a stutter.

## Runs

| Run | Shows | Bounds |
|---|---|---|
| `AiAgentSafety` | types; buffer and timestamps never part; nothing lost, nothing twice while undisturbed; records faithful always; refinement of `GroupedChannel`; every kept update is published; `stop()` ends | 2 chats, 5 topics of up to 4 records with every kind of record, window of 1 tick, 2 disruptions |
| `AiAgentOneMessagePerUpdate` | *violated*: an update for two chats, alone in both windows, goes out twice, each time to both | window of 1, 1 disruption |
| `AiAgentFinalFlushDrainsBuffer` | *violated*: `stop()` leaves running windows in the buffer | window of 1, 1 disruption |
| `TrackerSafety` | no repeats; stamps without announcement bounded by workers and faults; sweeps complete; stamps grow | 3 links, batches of 2, 2 workers, 1 event, 1 fault, both repositories; no chats, since no property reads an audience |
| `TrackerLiveness` | sweeps end, changes are noticed | 2 links, batches of 1, 1 worker, a chat that comes and goes |
| `TrackerDeployed` | *violated*: with the clients as they are called no change is noticed | as Liveness, no faults |
| `DeliverySafety` | types, nothing dropped, load bounded; calls return, records are settled | 3 updates, 2 threads, 2 attempts, threshold 1, 1 recovery |
| `DeliveryUnavailable` | *violated*: fallback though the bot answers | as Safety, HTTP, rejecting bot |
| `StoreSafety` | tables and session consistent; with SQL, answers true and errors one's own | 2 requests of any kind, 2 chats, 2 urls, 2 tag lists, any initial tables, 1 fault |
| `BotSafety` | answers true and failures with a reason; numbers and urls are the user's; order and loss of updates over restarts; posts are answered over stops; calls return; a good topic is consumed | two chats of a user and 2 urls, 2 attempts, threshold 2, 1 fault; or topics of 3 records, with bad ones, 2 faults; or 2 posts, 2 faults |
| `BotTrack` | *violated*: a dialogue that waits for tags has lost its url | as above, no faults, the dictionary as deployed |
| `Migrations` | applied once, in order, before serving; refinement of `SchemaHistory`; everyone serves in the end | 2 instances, 4 directories of up to 4 files, 2 faults |

The bounds are the smallest in which the cases of interest happen: a group of two and of
three, a send that fails with another chat still expired, a message held back by the lock; two
batches with an insertion between them; a breaker that opens with calls queued at its lock,
recovers and is tried; two requests that meet at a chat, at a link and in the session, on
every table content, so that longer histories begin where they would have led; a stop between
two chats of one record, and a crash of the process that came back from it; an instance that
waits for another's row and finds it committed, or gone. Two limits of `BotSafety`: with one
fault a talking behaviour never uses up its two attempts (its calls fail by the fault that is
not retried, by an answer or by the breaker), and both urls are supported, so the 400 of an
unsupported one is in `Status` and not reached.

**Fairness.** The event loop runs what can run and timers fire: weak fairness of each task's
steps and of `Tick`. A send ends one way or the other, since aiokafka and httpx have timeouts:
fairness of their disjunction, not of success; the same of a call of the scrapper. The
scheduler fires for ever: weak fairness of the job. Containers are restarted (`restart:
unless-stopped`; after a stop, by whoever stopped it): weak fairness of `Bot.Boot` and
`Migrations.Start`, and of what lifespan then goes through. Nothing is assumed of faults, crashes,
restarts, new messages or requests, nor that a breaker's time passes.

## Proofs

All theorems are for every value of the constants that the modules' assumptions allow, and
rest on nothing but those and the library's facts. Every safety invariant, every action
property and both refinements that the runs check are theorems.

* `AiAgent_proofs`. The invariant adds to the checked ones: who holds the lock in which
  phase, that at most one chat is in flight and only under the lock, that expired chats have
  ended windows, and that what is in hand, in flight and buffered is strictly ordered by
  offset. Without it neither *nothing twice* nor the refinement is inductive: a step that
  appends to a buffer keeps order only because every offset held anywhere is below the
  consumer's position. `Implements` maps each action to `Accept`, `Publish`, `Lose`, `Rewind` or
  a stutter; `AgentOrder` then takes the order of groups over from `ChannelOrder`.
* `Tracker_proofs`. For `NoRepeats` the invariant relates three times per link: all that was
  announced is at most the stamp, a task about to announce holds the stamp, one that has yet
  to stamp holds a change above a snapshot no older than the stamp; links with a swallowed
  update are exempt. For `SweepsComplete` a row's position is the number of rows up to it.
  Every row of the roster whose position the offset has passed is done, or has a task in the
  batch under way (`PassedDone`); a page holds exactly the positions from the offset to the
  next one (`Least` and `Greatest`, elements of a finite set, give the step between two
  positions); and an insertion only raises positions, so it takes rows out of what is passed and
  puts none in. A task marks before it stamps, so one that ends leaves its row done. For
  `MissesBounded`: a link whose stamp was not announced has a task between the two, or is one
  that a fault has left behind (`UnheardInv`). A fault takes one task out, and an interruption
  all that are at work, of which the semaphore lets in no more than there are workers
  (`WorkersInv`); so `Workers * faults` is an inductive bound, and without the second invariant it
  is not.
* `Delivery_proofs`. For the load, requests are *paid for* by failures while the breaker is
  closed and by recoveries afterwards, and only the holder of its lock has any unpaid.
* `Store_proofs`. Which step a handler is at tells its kind and that its url was validated;
  with it every statement that the schema does not refuse leaves the tables consistent, and a
  rollback or a commit copies one consistent state over the other. For the answers of the SQL
  repositories: what a read sees is committed, a statement makes its 200 true, and other chats'
  statements leave a chat's rows alone. For the errors: what a handler has found (its chat, its
  link or the lack of it) still holds when it writes, unless somebody meddled with either.
* `Dialogues_proofs` and `Bot_proofs`, the conversations. The invariant has three parts: the
  breaker's counter is the number of calls failed in a row, and it has opened at the threshold
  (`BreakerInv`, without which a refusal would have no reason); the list a user's dictionary
  holds is the one the user saw, or gone, and the url in it the one its user gave last, or gone
  (`MemoryInv`: only *gone* is possible, never an older one); and the
  four checked properties, which are about the call under way (`CallInv`). `StepDialogues` shows
  that every step of the conversations keeps it, `EndDialogues` that the end of the process does,
  wherever it comes;
  `Bot_proofs` places the two under the lifespan, so the theorems hold over restarts.
* `Bot_proofs`, the updates. A chat's offsets are all behind the consumer, and behind the record
  in hand where the chat is still to be told of it; a stop leaves the group's offset at the
  consumer's, so a restart goes on from there. Only a last commit that fails or does not come
  breaks that, and `reread` says so. For the losses, a stop
  that has been asked for owes one fault, which its shutdown spends on the update in hand; a
  crash spends its own. What the consumer does by itself loses nothing. `StopsCutNothing`
  is the safety side of `EveryPostAnswered`: the end of the process cuts off any post under way, and
  none is once shutdown has waited for them and the socket is closed (`BotInv`).
* `Migrations_proofs`. The table and the schema say the same, a row under way is new and
  nobody else's, and what an instance has passed or read is in the table. The primary key is
  needed for the second part only, and with it `AppliedOnce` is inductive. Versions need not be
  distinct, nor the directories related; `StartsMakeHistory`, the refinement, follows from this
  invariant. `DatabaseIsStage` needs more of the directories: two starts of one directory can be
  compared (`StartsCompare`), so a commit, which comes after all that its directory has before
  the file, adds the next file of the longer one.

Three theorems take a constant at the value it has as deployed, and say what follows from it
for everything else: `DeployedNoticesNothing` (`OffLoop` FALSE: no change is stamped or
announced, whatever the workers, batches and faults), `DeployedLeavesToKafka` (`Accepting` =
{FALSE}: no post notifies anybody, each update costs the bot at most one rejected post and is
left to Kafka) and `DeployedAddsNothing` (`Keeping` = {FALSE}: no chat ever gets a subscription).

Only model-checked: liveness, for which TLAPS has no ENABLED.

## Where code and documents part

Besides the runs that expect a violation:

* POST /links of a link the chat has, with other tags, answers 200 and, with the ORM, leaves the
  old ones: the repository only inserts, UNIQUE refuses the row, the error becomes a False that
  the handler ignores, and the bot tells its user the new tags. The SQL repository replaces
  them. So `Store.AnswersTrue` holds of SQL only (`SqlAnswersTrue`); with the ORM TLC refutes it
  with one request and no fault.
* /untrack cannot remove a link: the client sends no body and the API requires one. The bot
  says that the link was not found. BotCommand promises removal (`main.py:123`).
* `add_link` returns None for every failure, which the dialogue reports as "already tracked"; POST
  /links never answers 409. `/start` welcomes whatever `register_chat` returned, so a user whom
  the scrapper does not know gets 404 from then on. Both are in `FailureHasReason`'s premises.
* A wrong number is answered "try again", but the list is dropped with it (`ChooseBadly`).
* `is_supported_url` lets through urls that the API refuses with 400.
* `httpx.AsyncClient` is reused over event loops that `asyncio.run` has closed, which may raise
  RuntimeError; `Unanswered` has it as an error that is not retried.
* `bot_service/main.py` and `api/routes.py` import each other, and the packages' import paths
  disagree (`src.config`, `src.scrapper_service.config`, `ai_agent_service.logger`); the modules
  take each import as what it names.

## Not modelled

Wording of messages, logging, configuration parsing, the rate limiter (slowapi) and Docker.
The source clients' queries and breakers: every call raises before its first request
(`TrackerDeployed`), so the code behind it has no behaviour to model. The topics between the
services, which no two of them share. Tag filters, `get_by_id`, `delete_chat` and `close` of the
clients, which nobody calls. `UpdateRepository` and the dead-letter topic have no code. The
repository's tests assert True and are no source. README.md and code differ on constants (500
characters against 333; stop words; priority words); none of them changes a behaviour.

## Plan

All components with behaviour of their own are modelled, and their safety is proved. What
could still be added: a mailbox per link as an abstract sweep that `Tracker` implements while no
update is swallowed; from `Store` and `Dialogues`, an abstract subscription list of a chat that
both implement.
