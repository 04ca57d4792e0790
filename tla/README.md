# Notification hub: specifications and proofs

TLA+ modules for the core of the notification hub (Go, `src/`), the TLC runs that
check them and the theorems TLAPS proves about them. Paths below are relative to
`src/`; `internal/notification/` is abbreviated to `n/`.

    tlc -workers 2 -config PipelineCore.cfg MCNotificationPipeline.tla
    tlapm PipelineCustodyProofs.tla

## 1. The system

A client posts a notification, or a batch of them. The service inserts a row per
notification in PostgreSQL, publishes a message per row to RabbitMQ and marks the
row queued. Consumers take the messages, mark the row processing, send it to the
provider over HTTP, mark it sent and tell WebSocket subscribers. What fails is
nacked into a dead-letter queue, whose consumer publishes it to a retry queue
(30 s TTL, back to the main queue) or marks it failed. A ticker publishes rows
that are still pending after 30 s and scheduled rows that are due. Everything
runs in one process; database, broker and providers are outside.

| Part | State it keeps | Operations | What is hard | What makes it correct |
|---|---|---|---|---|
| Service and processing service (`n/service`) | the rows' status | Create, CreateBatch, Cancel, MarkAsX, ProcessAndSend, HandleDeliveryFailure, the two ticker methods | every method reads and later saves without a transaction; database, broker and provider are three systems a crash can separate | an accepted notification is sent, given up or withdrawn; a withdrawn one stays so |
| Consumers (`n/messaging/consumer.go`) | messages in hand | main handlers (N per channel), one DLQ handler per channel | redelivery after a crash, two copies of one notification in two hands, ack last | bounded duplicates, one verdict to subscribers |
| Producer and topology (`n/messaging`) | none / the queues | Publish, PublishBatch, PublishToRetry | no confirms, no reconnection; the DLQ discards what is nacked | a message leaves the broker only when it is settled |
| Recovery ticker (`internal/app/app.go`) | none | RecoverStuckNotifications, PublishDueScheduled | races the creator it recovers from | finds whatever no message carries |
| Application (`cmd/api/main.go`, `internal/app`, `config`) | context, connections, schema | configure, migrate, connect, Run, Shutdown, Close, restart | main and Run are two goroutines and neither waits for the other; one AMQP channel for six queues; settings nobody validates; the context is cancelled under running handlers | serves only with its schema and connections; a shutdown ends; deafness has a cause; stopping loses nothing (it does: section 5) |
| Provider call (`pkg/httpclient`, `n/provider`) | none | Do with retries, Send | timeouts whose request is taken all the same, context cancelled in between | sent only if taken; bounded requests; returns |
| WebSocket hub (`n/ws/hub.go`) | subscriber map | Subscribe, Unsubscribe, Broadcast, two handlers | writes outside the lock; two writers on one connection; writes without deadline | map exact, nobody passed over, broadcasts end |
| Status machine (`n/domain/status.go`) | none | CanTransitionTo | asked by one of six writers | - |
| Creation (`n/controller`, `n/domain/validation.go`, first half of `n/service`) | rows and their unique keys | validate, look the key up, resolve contents, insert | two requests with one key, a template that goes away half way through a batch, lost answers | one notification per key, a batch whole or absent |
| Templates (`internal/notificationtemplate`) | templates | Create, Update, Delete (soft), Render | update racing delete, a deleted name, substitution in map order | updates lose nothing but by a race; rendering as one substitution |
| Other columns of rows (`n/repository`, `migrations`) | sent_at, failed_at, template_id, idempotency_key | Save of whole rows | saves of stale rows; a save after a DELETE inserts the row again, against foreign key and unique index | evidence of a verdict stays |
| List queries, pagination | none | Normalize, COUNT, SELECT with LIMIT and OFFSET | pages are separate statements beside writers; ties in created_at | a client that pages on sees every row that stood still |
| Seeder (`seed/seeder.go`) | rows it recognises by prefix | delete, insert | no transaction, two unchecked errors, a running application beside it | can be run again; leaves itself whole |
| Controllers, health | none | parsing, validation, /health | /health sees less than what can fail | partly, in the modules of what they call |
| Router, metrics, logging, tracing, fake webhook, API docs | none that matters | - | - | not modelled (section 7) |

Interactions: controllers call the processing service, which calls the service
(rows), the producer (queues) and the providers; consumers call the processing
service and the hub; the ticker calls the processing service; `app.Shutdown`
cancels the context that consumers and ticker (not HTTP handlers) pass down.
The hazards, each at its line and with the properties that would catch it, are
listed in `PROJECT.json`.

## 2. Modules

| Module | Models |
|---|---|
| `NotificationStatus` | statuses and the transition table |
| `Broker` | the queues of one delivery channel: message copies, dead-lettering, TTL, requeueing |
| `NotificationPipeline` | creators, cancellers, ticker, main and DLQ handlers, the process; extends the two above |
| `AtLeastOnce` | abstract: who answers for an accepted notification, the database or the broker |
| `PipelineRefinement` | the mapping of the pipeline onto `AtLeastOnce` |
| `MCNotificationPipeline` | instances for TLC |
| `PipelineCustodyProofs`, `PipelineDeliveryProofs` | proofs about the pipeline: types, nothing lost and the refinement; who holds a notification and how often it is sent |
| `AppLifecycle` | a process from configuration to end, its worker pool, its restarts |
| `MCAppLifecycle`, `AppLifecycleProofs` | instance for TLC; proofs |
| `SendContract` | abstract: what one Send may come to |
| `ProviderCall`, `ProviderCallProofs` | httpclient.Do and Send; proof that they keep the contract |
| `NotificationHub`, `MCNotificationHub`, `NotificationHubProofs` | the WebSocket hub; instances for TLC; proofs |
| `TemplateStore` | the templates table and the handlers that write to it |
| `TemplateRender`, `TemplateRenderProofs` | Render as operators; proof that it is one substitution |
| `NotificationCreation` | from request to rows; extends `TemplateStore` |
| `MCNotificationCreation`, `NotificationCreationProofs` | instance for TLC, Render on every short text; proofs |
| `NotificationRows` | rows beyond their status under whole-row saves, and the templates they refer to; extends `NotificationStatus` |
| `SeedData` | the seeder beside them; extends `NotificationRows` |
| `ListPages`, `MCListPages`, `ListPagesProofs` | a client that lists page by page beside all of these; extends `SeedData`; instance for TLC; proofs about rows, seeder and client |

### NotificationPipeline

| Code | Variable |
|---|---|
| messages in RabbitMQ, one entry per physical copy | `msg` (a copy has a queue, an unacked flag, the notification, `x-retry-count`) |
| `notifications.status` | `row` ("none": no row yet) |
| `created_at < now - 30 s`, `scheduled_at <= now` | `ripe` |
| local variables of Create/CreateBatch | `creator`: what is left to publish and to mark |
| Cancel between GetByID and Update | `cancelling` |
| local variables of the ticker methods | `ticker` |
| program counter of the handler that holds a copy | `job` |
| context and connections of the process | `app`: up, stopping, cut, down |
| - (bounds) | `faults`, `outages` |
| - (history) | `published`, `delivered`, `events` |

Each call to the database, the broker or the provider is a step and the process
may die between any two. Choices made, and why they are faithful:

* MarkAsSent, MarkAsFailed, MarkAsQueued and MarkAsRetrying read the row and save
  it with a status that does not depend on what they read. As the model keeps
  only the status, the read is no step. MarkAsProcessing and Cancel decide on
  what they read and are two steps. The `FOR UPDATE` of GetForProcessing is
  outside a transaction, so its lock ends with the statement.
* A save that returns an error may have been applied. A publish may be stored,
  return an error, or return nil and be lost (there are no confirms). After
  `Retry`'s publish fails the message cannot have been stored: the channel
  reports errors before it writes.
* Reads that fail before a creator, canceller or ticker has done anything end it
  without effect and are no step.
* `stopping` is the time between cancelFunc() and the exit: calls that take the
  context fail (database, Send, limiter.Wait), publishes do not (amqp091 ignores
  its context), handlers of HTTP requests go on. Between Close of the connections
  and the exit everything that is left fails, which leaves no other state than
  exiting.
* `cut` is a lost connection: the broker has requeued what was unacknowledged,
  acks and nacks have no effect, publishes fail or vanish, and nothing reconnects.
* Priorities, prefetching and queue order are abstracted: any waiting copy may be
  delivered next. A prefetched copy is a waiting one.
* One delivery channel. The three channels have queues and workers of their own,
  and a notification has one channel. The ticker and a batch serve all channels.
* The ticker's two methods run one after the other; the model lets either come
  first, which is no different from a query that found nothing.
* GetByID and PublishToRetry in HandleDeliveryFailure are one step: only the
  process's end or another writer comes between them, and the status read decides
  only whether subscribers are told.
* Malformed messages, unknown ids and channels without provider do not occur: all
  messages come from Publish and all rows keep their channel. The rate limiter
  delays only (it is positive by default). One application instance.

### AppLifecycle

| Code | Variable |
|---|---|
| position in main(), NewContainer, runMigrations, Shutdown, Close | `main` |
| position in Run, Consumer.Start, Listen | `run` |
| config.Worker | `settings` |
| the context Run makes, cancelFunc | `ctx` |
| gorm's pool, amqp.Connection, the consumers' amqp.Channel, fiber | `database`, `connection`, `channel`, `http` |
| goroutines of startMainConsumer, startDLQConsumer | `worker` |
| where each delivery is | `message` |
| schema_migrations of golang-migrate | `schema` |
| requests underway | `request` |
| - (history, bounds) | `hung`, `overdue`, `late`; `starts`, `mishaps` |

* Run is a goroutine of its own and main waits for the signal, not for Run:
  Signal may come anywhere between the two, and Shutdown's reading of cancelFunc
  has no order with Run's writing. Until Run has done its first call to the
  broker it may read either value.
* main queue and DLQ of one delivery channel stand for the six queues; all are
  consumed on the one AMQP channel. What a handler does is the subject of
  `NotificationPipeline`; here it ends well, ends with an error (nack), or hangs
  in a write to a WebSocket peer that has stopped reading (`NotificationHub`).
* Whatever a process holds is gone at its end (os.Exit in logger.Fatal, a
  panic, a kill). The broker then requeues what was unacknowledged; the schema
  stays as it is, and a migration that was interrupted leaves it dirty.
* External: golang-migrate, amqp091's Close, the broker's consumer_timeout, which
  closes a channel with a delivery unacknowledged for too long, docker's restart.

### NotificationRows, SeedData, ListPages

`row` and `template` are the tables, by id, now with DELETE. `writer` holds the copy
a service method has read until it saves it, `editor` an update of a template.
Save is an UPDATE of all columns that falls back to INSERT, so a save after a
DELETE brings the row back unless the foreign key or the unique index rejects it.
sent_at stands for provider_msg_id too, failed_at for failure_reason and
retry_count, which are set with them. All methods may be called by anybody in any
order, which includes what `NotificationPipeline` does.

`SeedData` has the seeder's statements in their order and its lists of templates
and notifications; the ids of an instance are a choice of their entries.
`ListPages` has the client: List's controller answers with the limit and offset
it used, and the client goes on from these until a page is not full. A page is
any of the answers SELECT ... ORDER BY created_at LIMIT OFFSET may give where
rows tie. `owed` is history: what stood still since the client began, from the
offset it began with on.

### ProviderCall

`at` and `attempt` are the position in the loop of Do, `live` the caller's context,
`parses` whether PROVIDER_URL is one that NewRequestWithContext accepts (if not, Do
ends at its first attempt, and Send calls that a failed connection),
`taken` and `underway` what the provider has of the requests sent. A request
given up after a timeout can be taken later. Redirections that net/http follows
are part of an attempt; a 3xx it does not follow (300, 304, no Location) comes back
as the answer, and Send, which refuses 400 and more, reports it as sent although it
says nothing of the notification. `NotificationPipeline` counts a
request the provider takes in the step that sends it; its action Send has the
outcomes `SendContract` allows, such a redirection (the fault "redirected") among them.

### NotificationHub

`subscribers` is the map with its keys, `phase` the handler of each connection,
`cast` what each broadcasting goroutine has left: topics, copied connections, the
one it writes to. The mutex protects short sections without calls, which are
single steps. Subscriptions and writes of the websocket package are external; a
second writer in one connection is undefined by it: it may panic or may not.

### NotificationCreation, TemplateStore, TemplateRender

`template` and `notification` are the two tables (a deleted template stays in
its table), `edit` and `request` the handlers that write to them, one request each:
the step they are at, what they were sent, the row Update has read, the items of
a batch resolved so far, the answer. Each statement is a step; it may fail, or take
effect and lose its answer. gorm is external: its soft delete hides deleted rows
from SELECT, UPDATE and DELETE, and its Save falls back to INSERT ... ON CONFLICT
(id) DO UPDATE when the UPDATE meets no row, so the Update of a template deleted
in between brings it back. GetByID answers not found to any failure. Recipient,
channel and priority are abstracted to whether they pass validation; a template's
channel behaves as its text. `content` is the column, kept by request and item. Creation ends
with the insert, where the pipeline's `CreateRows` stands for all of it.

`TemplateRender` has texts as sequences of symbols, two of which are the braces, and
keys and values as texts. strings.ReplaceAll is a scan that replaces what spells the
placeholder wherever it stands, also where an earlier replacement has put it
together; `Renderings` is the set of texts Render may return, one per order of the
map. `Unambiguous` is where that set has one member: no braces in keys and values,
and a `}}` between any two `{{` of the text. It is sufficient, not necessary. That
values have no braces and no two equal braces touch would not be enough: of
`{{x{{a}}y}}` with an empty `a` and some value of `xy`, Render makes that value or
`{{xy}}`.

## 3. Runs

All runs switch deadlock checking off: clients may do nothing and bounded
failures, outages, copies and broadcasts run out, so the modelled system may rest.

| Run | Question | Instance | Size |
|---|---|---|---|
| `PipelineCore` | NoNotificationLost, InFlightHasCarrier, PublishesBounded, DuplicatesBounded, CancelHolds, TypeOK, ImplementsAtLeastOnce | 1 notification, 3 copies, 2 consumers, 1 retry, one failing call of any kind, one crash, shutdown or lost connection, slow creators | 1.3 M states |
| `PipelinePrompt` | DeliveredOnce, OneVerdict | 3 copies, 2 retries, 3 failures that do not hide a delivery, no outage, prompt creators | 3.6 k |
| `PipelineLiveness` | NothingLost, Settles | 1 notification, 4 copies, one failing Send, one crash | 0.27 M |
| `AppLifecycle` | ServesFullSchema, RequestsHaveDependencies, DeafnessExplained, ShutdownEnds, Progress, TypeOK | 2 messages, 1 client, WORKER_CONCURRENCY -1 to 2, rate limit and interval 0 or 1, 1 migration, 2 starts, 1 mishap (failing connection, migration or port, crash, lost connection, hanging handler) | 0.31 M |
| `ProviderCall` | Persistent, ImplementsSendContract, Returns, TypeOK | 3 retries, a URL that parses or not | 0.9 k |
| `NotificationHub` | SubscribersExact, NobodyPassedOver, BroadcastEnds, TypeOK | 2 connections, one of them may break or stall, 2 senders, 2 broadcasts, a notification in a batch and one alone | 0.98 M |
| `NotificationCreation` | KeyOnce, RejectedHasTwin, AllOrNothing, ContentIsSubstitution, OnlyRacesLoseUpdates, TypeOK | 3 requests, 2 editors, 2 templates, names and texts, one key, batches up to 2, one database failure | 1.6 M |
| `ListPages` | EvidenceKept, SeedsWhole, SeedFailsExplained, StandingRowsListed, ListTypeOK | 1 notification of a request, 2 seedings of 1 template and 2 notifications, 2 calls of service methods, 1 failing statement, 2 timestamps, limits 0 and 3 where 1 is default and maximum, offsets -1 and 1 | 3.6 M |

Why the bounds are enough. One notification suffices for the pipeline because
notifications share nothing but workers and the fate of a batch, and the theorem
NothingLostUnnoticed covers batches and any number. Two consumers give two
copies in hand at once; one retry reaches both the retry and the giving up.
Three places hold the copies of the creator, the ticker and a retry at once; a
publish waits for a free place. Every property of
`PipelineCore` is also a theorem, for any number of places. Where liveness is
checked the places never run out.

Two starts show what the first leaves to the second; two messages and one or two
workers show a message that waits behind one that hangs; negative, zero and
positive settings are the cases the code tells apart. In the hub, one connection that breaks
or stalls beside one that does not shows whether the first harms the second;
the theorems cover any number. Two seedings show whether the second can clean up
after the first, whatever its state; the seeds kept are a failed one that refers
to a template and a pending one of the batch, which is in the filter listed.
A page of one row makes every boundary between two rows a boundary of pages.

Symmetry permutes copies, writers, keys and the like, which only `\E` and `\A`
choose among; the runs with liveness use none.

What the properties say:

* NoNotificationLost: without a conclusion (sent, given up, withdrawn) a
  notification is pending or scheduled, or a message carries it, or a message of it
  was discarded from the DLQ, swallowed unconfirmed, or taken for sent on a
  redirection. These three are the only holes under any order of events.
* NothingLost: without the exception. Holds under crashes and failing sends, fails under a
  graceful shutdown (section 5).
* InFlightHasCarrier: no row is stuck in processing or retrying, the statuses
  no query looks for.
* PublishesBounded: creator and ticker publish a notification at most 2 + failed
  calls + outages times. The ticker runs for ever; each time it publishes again
  something must have gone wrong once more.
* DuplicatesBounded: at most (publishes + failed calls) * 3 ^ outages deliveries.
* CancelHolds: once cancelled with nobody about to write to it, a notification stays so
  and is not sent, while no call fails and the context lives. It says nothing of the
  saves that overwrite a cancellation (section 5).
* DeliveredOnce, OneVerdict: in the absence of outages, lost answers and slow creators.
* ImplementsAtLeastOnce: every step hands custody over or settles.
* Settles: nothing waits for ever.
* ServesFullSchema: no request meets a database without all migrations, or with
  one half done, wherever an earlier start was interrupted.
* RequestsHaveDependencies: who is being answered has database and broker: Close
  comes after the wait for requests. Two exceptions: ten seconds were not
  enough, or Run came to Listen after Shutdown had passed its end. A broker
  connection that was lost counts as there.
* DeafnessExplained: a process that has come to serve, is not being stopped, has
  database and broker connection (what /health asks) and a queue without a worker
  had a handler hang, or a rate or a number of workers below one. It says nothing of
  workers that are there and wait.
* ShutdownEnds: no client, no worker and no step of Run holds a shutdown up.
* Progress: every message is settled unless one of the named excuses holds
  (stopped on purpose, dirty schema, senseless settings, lost connection, a
  handler that hangs).
* EvidenceKept: sent_at and failed_at, once saved, survive all later methods but
  for the save of a stale copy.
* SeedsWhole, SeedFailsExplained: a seeding that ends leaves its seeds and no
  others; it fails only for what `Obstructed` lists, none of which is what an
  earlier seeding left.
* StandingRowsListed: a client that goes on by the answers' limit and offset
  misses only rows before the offset it began with, that tie, or that moved up when
  a newer one left the filter.
* KeyOnce, RejectedHasTwin: an idempotency key makes one notification, and who is
  told duplicate may rely on it. Three requests: two with the key, one beside them.
* AllOrNothing: no part of a batch is created, whichever template disappears.
* OnlyRacesLoseUpdates: an update that nobody overlapped changes the fields it
  names, and a deleted template returns only by an update that read it before.
  Two editors make every race between a read and a save.
* ContentIsSubstitution: the content of a row is what its template said at one
  moment, with the variables of its own item put in all at once and other
  placeholders left, where keys and values have no braces and the text has a `}}`
  between any two `{{`. Of other texts and variables it says nothing: there the order
  of Go's map may decide. At its start the run evaluates what the theorem
  RenderIsSubstitution says, for every text of up to five fragments (a brace, two, a
  letter) and one or two of three variables (RenderingsAgree), and the example
  above, that the order may count without a brace in any value (RenderingsDiffer).

## 4. Fairness

`FairSpec` of the pipeline assumes weak fairness of what the runtime, the broker
and the operator drive: each creator, each pending save of a cancellation, the
ticker, each copy's handler, delivery and expiry of each copy, the clock, the end
of a shutdown, and restart (`docker-compose.yaml:59`, `restart: unless-stopped`).
No fairness of clients, failures or outages, and none that ends `cut`: nothing in
the code notices a lost connection. `ProviderCall` assumes that the goroutine
runs and the client's timeout ends an attempt, not that the provider answers; that
takes a positive PROVIDER_TIMEOUT, which nothing validates (10 s by default).
`NotificationHub` assumes that senders run; a write to a stalled peer need not end.
`AppLifecycle` assumes that main, Run and each worker run, that the broker
delivers while the channel is open, and that docker restarts what died. It
assumes nothing of clients (a WebSocket may stay for ever), signals or accidents,
and not even that consumer_timeout strikes.

## 5. Where code and documentation differ

Each has a run that TLC finds violated.

* `GracefulShutdown`: Shutdown cancels the context under the handlers. Send or
  MarkAsX fails, the message is nacked into the DLQ, the DLQ handler fails for the
  same reason and nacks, and the DLQ has no dead-letter exchange: the message is
  gone while the row says queued or processing. The retry logic in
  `README.md:66-72` knows only retried and permanently failed.
* `NoDuplicateProcessing`: two consumers send one notification at once, though
  `repository.go:123` and `README.md:373` promise that the row lock prevents it.
* `CancelledNotSent`: a cancellation that comes between MarkAsProcessing's read
  and its save is overwritten and the notification sent (`service.go:233`).
* `HubPanic`: two concurrent broadcasts to one connection panic;
  `hub_test.go:230` tests it on a hub without subscribers.

Met while modelling, without a run because no document says otherwise: an update
that overlaps the deletion of its template brings the template back; the name of
a deleted template stays taken, and Update answers 500 to a taken name where
Create answers 409; what a template renders to is subject to no limit on length; a
notification answered with a redirection that is not followed counts as sent; a
database failure in GetByID is answered with 404. WORKER_CONCURRENCY,
WORKER_RATE_LIMIT and WORKER_RECOVERY_INTERVAL are not validated: without workers, or
with a limiter that refuses, the process serves and consumes nothing; with no
interval it panics at every start. A handler that hangs lets the broker close
the one channel of all six queues, and /health, which opens a channel of its
own, stays healthy. Run may begin to listen when Shutdown has already passed
there. The seeder's DELETE of templates fails, unseen, while a notification made by
a request refers to one, and its INSERT of templates then ends it with the
earlier seeds gone; so does a save that was underway and brings a seed back.
The total of a list is a statement of its own and may disagree with the page. The templates of
`seed/seeder.go:48-60` write `{{.code}}`, which Render, looking for `{{code}}`,
leaves as it is.

## 6. Proofs

Checked by TLAPS for every value of the constants, under the named assumptions
(`MaxRetries` a natural number, faults and outages of the known kinds, requests
sets of notifications, `Retries` any integer, ...), which TLC evaluates in the runs.
Two settings are hypotheses of the theorems that need them, as they are of the runs.

* `TypeCorrect`: `Spec => []TypeOK`. The bound on `x-retry-count` is not
  inductive: it takes JobsFit (a handler past the DLQ's decision holds a message
  with retries left, and jobs match queues).
* `NothingLostUnnoticed`: `Spec => []NoNotificationLost`. A queued row says
  nothing of a message, so the invariant LInv adds: whoever may still write
  queued has published (MarkPublished), every copy stands for a publish
  (CopyPublished), a handler about to mark sent has delivered (SentDelivered), a
  row's status tells what happened to it (RowTrue), and what was published is
  concluded, lost or carried (PublishedKept). One step of the proof per action.
* `InFlightNeverStuck`: `Spec => []InFlightHasCarrier`. FlightHeld counts
  as holders the copies that carry the notification and the handler whose markSent is
  still to come; with that it is inductive beside the types.
* `NothingLostInCrashes`: `Spec => []NothingLost` under SafeSetting: only sends fail,
  and say so, and the process only crashes. Then nobody ever loses a copy (Unlost), and the rest is
  NoNotificationLost. Section 5 has what a graceful shutdown makes of it.
* `CancelledStays`: `Spec => CancelHolds`, step by step from the types: who might write
  the row again would have to be at work on it, or hold a copy beyond its first read.
* `SentOnce`, `VerdictIsOne`: `Spec => []DeliveredOnce` and `[]OneVerdict` under
  PromptSetting: only publishes fail, and sends that the provider did not take; no outage;
  handlers are done before their rows are 30 s old; and where a publish may return
  an error, no batches, as the part of a batch that is published stays pending and the
  ticker publishes it again. WorkOnce says that creator and ticker never both have
  a notification left to publish, and that who has is the first; CopyOnce, that
  of a message, its copy in the DLQ and its retry at most one can still be sent, and
  only while nothing was delivered and nobody was told "failed".
* `PublishesStayBounded`: `Spec => []PublishesBounded`. What creator, ticker and an
  outage underway may still publish counts as if it were published (Paced): a row left
  pending after its publish owes another one, and the call that failed or the outage
  has paid for it.
* `DuplicatesStayBounded`: `Spec => []DuplicatesBounded`. The bound is no invariant
  by itself: what is still to be sent must fit under it. While the process runs (or is
  down), deliveries and copies not yet sent do, and so do these copies with
  the ones of the main queue that are only to be acknowledged (Bounded). Once it is
  stopping or cut off, all copies of the notification may come back and those a main handler
  is at work on may be sent before. The step of a handler changes one copy
  and pays for what it delivers with that copy or with a failed call (HandlePaid);
  a retry takes the place of the copy in the DLQ (RetryBounded); a publish raises the
  bound; an outage triples it, which is enough as one goroutine handles the DLQ (OneInDLQ).
  3 ^ k is a recursive function: that one exists is proved by least counterexample
  (TriplesExists).
* `PipelineKeepsCustody`: `Spec => ImplementsAtLeastOnce`, the refinement. Every step
  but an insert and the end of the process touches one notification (OneNotification),
  for which it hands custody over, delivers or closes; that the last custodian stays is
  NoNotificationLost before and after the step. Known adds that whatever is worked on
  or published has a row.
* `ProviderCallTypeOK`, `SendPersists`, `SendKeepsContract`: Send never exceeds
  its attempts; with a URL that parses and its context alive it gives up without an
  answer only after all of them; and it implements `SendContract`, in which nil means
  that the provider took the request or answered with a redirection. The invariant counts requests taken, underway and awaited
  against attempts begun.

* `KeyMadeOnce`, `RejectedOnlyForTwin`, `BatchAllOrNothing`: KeyOnce,
  RejectedHasTwin and AllOrNothing for any number of requests, editors and
  failures. The invariant adds that rows come only from a request that is done and
  carry its key (Inserted), that the loop has resolved the items before the next
  (InOrder), and that a request with a key has one item (KeyHasOneItem).
* `UpdatesLostInRacesOnly`: `Spec => OnlyRacesLoseUpdates`. CopiesFresh: whoever is
  about to save, and has not been raced, has a live row that stands as it was read.
* `RenderIsSubstitution`: for keys and values without braces and a text with a `}}`
  between any two `{{`, `Renderings` has one member, the text with all variables put in
  at once. Texts, keys and values are sequences of any symbols. Render replaces one key
  after the other in what it has made so far; OneMore is the step from the keys
  replaced already to one more. A placeholder of the text passes the scan for other keys
  whole (NoneInside), and none arises (NoneArises): one that the scan put together would
  begin with a `{{` of the text and stretch to a placeholder replaced behind it, with
  no `}}` between. Any order of the map reaches all keys and each once (OrderIs).
  The two recursive functions, a scan of the text and the turns of the loop, are shown to
  exist, and what they return is shown, by induction on sets of numbers (Upward,
  Downward), which the library's least element of a set of numbers gives without an
  operator as parameter.
* `CreationTypes`, `ContentSubstituted`: `Spec => []TypeOK` and
  `[]ContentIsSubstitution`. ContentInv adds that a resolved item holds what Render may
  make of a template as it once was (Rendered) and that rows come from resolved items only
  (RowsResolved). The variables of a request are finitely many, as a Go map is.
* `ListTypes`, `EvidenceStays`, `SeedsComplete`, `SeedingsExplained`,
  `StandingRowsAreListed`: what `ListPages` states, for any notifications, templates,
  service calls, seedings, limits and offsets. Origins says that no method changes what a
  row was made with; Together and Stages, that a seed found beside the seeder has the
  templates of its seeding with it, so that a seeding past its templates has met no
  older seed; OwedAhead, that what a client is owed stands behind its offset in any
  order the database may answer with. They rest on the seeds of `seed/seeder.go` as
  `SeedAssumption` (which seeds there are, and that a seeding's ids are no other row's) and
  `SeedRefersAssumption` (an instance keeps one that refers to a template) have them.

* `LifecycleTypeOK`, `LifecycleServesFullSchema`, `LifecycleRequestsHaveDependencies`,
  `LifecycleDeafnessExplained`: for any settings, messages and clients. ServingInv says that
  what serves was built, hence migrated; RequestInv that database and connection
  are closed only by stages after the wait, so that a request still there is
  overdue or late; PoolInv that while the channel is open each consumed queue has
  the workers it was given and closing it leaves a cause behind: the process is
  stopping, the connection is lost, or a delivery was given up or hung.
* `HubTypeOK`, `HubSubscribersExact`, `HubNobodyPassedOver`: for any connections, topics,
  senders and broadcasts. ExactInv adds that no key of the map is empty and that a
  connection is under its own topic only; PassInv, that whom a sender owes an update
  is still to be met: in a topic to come, among the copied connections, being
  written to, written, or no longer reachable.

Every invariant and action property of the passing runs, and the two refinements, are
thus proved for all values of the constants, three of them under the setting of their
run (SafeSetting, PromptSetting). Only model-checked: liveness (Settles,
Returns, BroadcastEnds, ShutdownEnds, Progress), which is beyond TLAPS.

## 7. What is left

1. `NotificationCreation` composed with the pipeline: its insert refines
   `CreateRows`, so that the key's guarantee reaches what is sent.
2. Composition of pipeline and hub: a stalled subscriber and the consumers. Its
   two halves are BroadcastEnds and what `AppLifecycle` makes of a handler that hangs.

Not modelled: routing, binding and the text of errors (no state); metrics and tracing
(counters and spans nobody in the program reads); logging; the wrappers of the
libraries in `pkg/` beyond what the modules say of them; the fake webhook, which
stands in for a provider and which `ProviderCall` covers as any provider; the generated
API documentation; filters of lists by channel and date, which no write changes;
the order of queues and priorities, which nothing relies on.
