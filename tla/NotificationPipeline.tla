------------------------ MODULE NotificationPipeline ------------------------
(***************************************************************************)
(* The life of notifications: HTTP handlers insert and publish them, the   *)
(* recovery ticker publishes what the handlers left behind, the main       *)
(* consumers send them to the provider, the DLQ consumer retries or gives  *)
(* up, clients cancel, and one application process starts, stops and dies  *)
(* (service.go, processing_service.go, consumer.go, app.go).               *)
(*                                                                         *)
(* Granularity.  Every call to the database, the broker or the provider is *)
(* one step, and the process can die between any two.  The MarkAsX methods *)
(* read a row and save it back with another status: as nothing they read   *)
(* decides what status they write, one step writes it, whatever the row    *)
(* holds by then.  MarkAsProcessing and Cancel do decide on what they read *)
(* and are two steps each.                                                 *)
(*                                                                         *)
(* Failures.  A call may fail when its kind is in Faults, MaxFaults times  *)
(* in all; the process may be disturbed as Outages allows, MaxOutages      *)
(* times.  The database and the broker keep what they accepted.            *)
(***************************************************************************)
EXTENDS Broker, NotificationStatus, FiniteSets

CONSTANTS
    Request,      \* the create requests: each a set of notifications
    Concurrency,  \* WORKER_CONCURRENCY
    Faults,       \* the kinds of calls that may fail
    MaxFaults,    \* how many calls may fail
    Outages,      \* the ways the process may be disturbed
    MaxOutages,   \* how often it may be
    HandlersOutlastRecovery  \* whether a create handler may still be at work
                             \* when its rows are 30 s old

FaultKind ==
    {"database",     \* a statement fails; a write may have been applied
     "publish",      \* a publish returns an error
     "unconfirmed",  \* a publish returns nil and the message is not stored
     "rejected",     \* Send fails and the provider accepted nothing
     "timeout",      \* the provider accepts, its answer is not understood
     "redirected"}   \* Send returns nil and the provider accepted nothing

OutageKind ==
    {"crash",  \* the process dies
     "stop",   \* it is asked to stop: app.Shutdown
     "cut"}    \* it loses its connection to the broker, for good

ASSUME ConcurrencyAssumption == Concurrency \in Nat
ASSUME RequestAssumption == Request \subseteq SUBSET Notification
ASSUME FaultsAssumption == Faults \subseteq FaultKind /\ MaxFaults \in Nat
ASSUME OutagesAssumption == Outages \subseteq OutageKind /\ MaxOutages \in Nat
ASSUME PaceAssumption == HandlersOutlastRecovery \in BOOLEAN

VARIABLES
    row,         \* the status column; "none" before the row exists
    ripe,        \* old enough for the ticker: created 30 s ago, or due
    creator,     \* what the handler of each create request has left to do
    cancelling,  \* handlers of Cancel between their read and their save
    ticker,      \* what the recovery ticker has left to do
    job,         \* where the consumer that holds a copy is in its handler
    app,         \* the state of the process
    faults,      \* calls that failed so far
    outages,     \* disturbances so far
    published,   \* history: how often Publish returned nil to creator or ticker
    delivered,   \* history: how many requests the provider took or will take
    events       \* history: what became of a notification

vars == <<msg, row, ripe, creator, cancelling, ticker, job, app, faults,
          outages, published, delivered, events>>

\* The jobs of handleMainMessage and of handleDLQMessage.  A copy whose job is
\* in Settling has had its effect and waits for its acknowledgement only.
MainJob == {"read", "save", "send", "markSent", "announceSent"}
DLQJob == {"mark", "retry", "report", "announceFailed"}
Job == {"idle", "ack"} \cup MainJob \cup DLQJob
Settling == {"markSent", "announceSent", "report", "announceFailed", "ack"}

Event == {"cancelled", "failed",       \* the row was given this status
          "lost"}                      \* a copy vanished or was discarded, or was
                                       \* taken for sent on a redirection

AppState == {"up",
             "stopping",  \* the context of consumers and ticker is cancelled
             "cut",       \* no connection to the broker
             "down"}

Work == [publish : SUBSET Notification, mark : SUBSET Notification]
NoWork == [publish |-> {}, mark |-> {}]

TypeOK ==
    /\ BrokerTypeOK
    /\ row \in [Notification -> Status \cup {"none"}]
    /\ ripe \in SUBSET Notification
    /\ creator \in [Request -> Work]
    /\ cancelling \in SUBSET Notification
    /\ ticker \in Work
    /\ job \in [Copy -> Job]
    /\ app \in AppState
    /\ faults \in 0 .. MaxFaults
    /\ outages \in 0 .. MaxOutages
    /\ published \in [Notification -> Nat]
    /\ delivered \in [Notification -> Nat]
    /\ events \in [Notification -> SUBSET Event]

Init ==
    /\ BrokerInit
    /\ row = [n \in Notification |-> "none"]
    /\ ripe = {}
    /\ creator = [r \in Request |-> NoWork]
    /\ cancelling = {}
    /\ ticker = NoWork
    /\ job = [c \in Copy |-> "idle"]
    /\ app = "up"
    /\ faults = 0
    /\ outages = 0
    /\ published = [n \in Notification |-> 0]
    /\ delivered = [n \in Notification |-> 0]
    /\ events = [n \in Notification |-> {}]

-----------------------------------------------------------------------------
(* Calls and how they fail *)

Note(n, what) == events' = [events EXCEPT ![n] = @ \cup what]

\* Update (GORM Save): the row gets status s, whatever it held.
Save(n, s, what) ==
    /\ row' = [row EXCEPT ![n] = s]
    /\ Note(n, what \cup ({s} \cap {"cancelled", "failed"}))

\* A save that returns an error: it may have been applied all the same.
SaveFails(n, s, what) ==
    \/ row' = row /\ Note(n, what)
    \/ Save(n, s, what)

Fault(kind) ==
    /\ kind \in Faults
    /\ faults < MaxFaults
    /\ faults' = faults + 1

\* Consumers and ticker pass a context that Shutdown cancels; handlers do not.
ContextAlive == app # "stopping"

Succeeds == ContextAlive /\ UNCHANGED faults

Fails(kind) ==
    \/ ~ContextAlive /\ UNCHANGED faults
    \/ Fault(kind)

\* PublishWithContext ignores its context, and there are no publisher confirms:
\* nil means that the frames were written, also when nobody reads them.
PublishAccepted(q, n, r) ==
    /\ app # "cut"
    /\ \E c \in Copy :
          /\ ~Stored(c)
          /\ msg' = [msg EXCEPT ![c] = Enqueued(q, n, r)]
    /\ UNCHANGED <<faults, events>>

PublishVanishes(n) ==
    /\ \/ app = "cut" /\ UNCHANGED faults
       \/ Fault("unconfirmed")
    /\ Note(n, {"lost"})
    /\ UNCHANGED msg

PublishReturnsNil(q, n, r) ==
    PublishAccepted(q, n, r) \/ PublishVanishes(n)

PublishFails ==
    \/ app = "cut" /\ UNCHANGED faults
    \/ Fault("publish")

-----------------------------------------------------------------------------
(* HTTP handlers: Create, CreateBatch and Cancel *)

\* One INSERT for all the rows of a request.  When its answer is lost the
\* handler returns the error; the rows may be there all the same.
CreateRows(r) ==
    /\ app # "down"
    /\ \A n \in r : row[n] = "none"
    /\ \E scheduled \in SUBSET r :
          /\ row' = [n \in Notification |->
                        IF n \in scheduled THEN "scheduled"
                        ELSE IF n \in r THEN "pending" ELSE row[n]]
          /\ \/ /\ creator' = [creator EXCEPT ![r].publish = r \ scheduled]
                /\ UNCHANGED faults
             \/ Fault("database") /\ UNCHANGED creator
    /\ UNCHANGED <<msg, ripe, cancelling, ticker, job, app, outages,
                   published, delivered, events>>

\* The first publish that fails ends the handler: what was published stays
\* pending, and what was not is left to the ticker.
AfterFailedPublish(work, n) == NoWork

CreatorPublish(r) ==
    /\ \E n \in creator[r].publish :
          \/ /\ PublishReturnsNil("main", n, 0)
             /\ published' = [published EXCEPT ![n] = @ + 1]
             /\ creator' = [creator EXCEPT ![r].publish = @ \ {n},
                                           ![r].mark = @ \cup {n}]
          \/ /\ PublishFails
             /\ creator' = [creator EXCEPT ![r] = AfterFailedPublish(@, n)]
             /\ UNCHANGED <<msg, published, events>>
    /\ UNCHANGED <<row, ripe, cancelling, ticker, job, app, outages, delivered>>

\* MarkAsQueued for each, once all of them are published; errors are logged.
CreatorMark(r) ==
    /\ creator[r].publish = {}
    /\ \E n \in creator[r].mark :
          /\ \/ Save(n, "queued", {}) /\ UNCHANGED faults
             \/ SaveFails(n, "queued", {}) /\ Fault("database")
          /\ creator' = [creator EXCEPT ![r].mark = @ \ {n}]
    /\ UNCHANGED <<msg, ripe, cancelling, ticker, job, app, outages,
                   published, delivered>>

\* The statuses in which Cancel goes on; in the others it returns an error.
Cancellable == {"pending", "scheduled", "queued", "failed"}

CancelRead(n) ==
    /\ app # "down"
    /\ n \notin cancelling
    /\ row[n] \in Cancellable
    /\ cancelling' = cancelling \cup {n}
    /\ UNCHANGED <<msg, row, ripe, creator, ticker, job, app, faults, outages,
                   published, delivered, events>>

CancelSave(n) ==
    /\ n \in cancelling
    /\ \/ Save(n, "cancelled", {}) /\ UNCHANGED faults
       \/ SaveFails(n, "cancelled", {}) /\ Fault("database")
    /\ cancelling' = cancelling \ {n}
    /\ UNCHANGED <<msg, ripe, creator, ticker, job, app, outages, published,
                   delivered>>

-----------------------------------------------------------------------------
(* The recovery ticker: RecoverStuckNotifications, then PublishDueScheduled *)

BeingCreated(n) ==
    \E r \in Request : n \in creator[r].publish \cup creator[r].mark

\* Time passes: a pending row turns 30 s old, a scheduled one falls due.
Ripen(n) ==
    /\ row[n] \in {"pending", "scheduled"}
    /\ n \notin ripe
    /\ HandlersOutlastRecovery \/ ~BeingCreated(n)
    /\ ripe' = ripe \cup {n}
    /\ UNCHANGED <<msg, row, creator, cancelling, ticker, job, app, faults,
                   outages, published, delivered, events>>

\* GetRecoverableNotifications (pending) and GetDueScheduledNotifications
\* (scheduled).  A query that finds nothing, or fails, ends the call.
\* Plausible bugs: the query also finds queued rows; due rows are forgotten.
FoundQueuedToo(s) == {n \in ripe : row[n] \in {s, "queued"}}

FoundPendingOnly(s) == {n \in ripe : row[n] = s /\ s = "pending"}

Found(s) == {n \in ripe : row[n] = s}

TickerRead(s) ==
    /\ app \in {"up", "cut"}
    /\ ticker = NoWork
    /\ Found(s) # {}
    /\ ticker' = [NoWork EXCEPT !.publish = Found(s)]
    /\ UNCHANGED <<msg, row, ripe, creator, cancelling, job, app, faults,
                   outages, published, delivered, events>>

\* When a publish fails the loop goes on with the next row.  A plausible bug
\* forgets to, and marks the row.
AfterFailedRepublishMark(n) ==
    [publish |-> ticker.publish \ {n}, mark |-> {n}]

AfterFailedRepublish(n) == [ticker EXCEPT !.publish = @ \ {n}]

\* The loop does not look at its context, and Publish succeeds without it.
TickerPublish ==
    /\ ticker.mark = {}
    /\ \E n \in ticker.publish :
          \/ /\ PublishReturnsNil("main", n, 0)
             /\ published' = [published EXCEPT ![n] = @ + 1]
             /\ ticker' = [publish |-> ticker.publish \ {n}, mark |-> {n}]
          \/ /\ PublishFails
             /\ ticker' = AfterFailedRepublish(n)
             /\ UNCHANGED <<msg, published, events>>
    /\ UNCHANGED <<row, ripe, creator, cancelling, job, app, outages, delivered>>

TickerMark ==
    /\ \E n \in ticker.mark :
          \/ Save(n, "queued", {}) /\ Succeeds
          \/ SaveFails(n, "queued", {}) /\ Fails("database")
    /\ ticker' = [ticker EXCEPT !.mark = {}]
    /\ UNCHANGED <<msg, ripe, creator, cancelling, job, app, outages,
                   published, delivered>>

-----------------------------------------------------------------------------
(* Acknowledgements *)

\* Without a connection neither ack nor nack reaches the broker, which has put
\* the message back in its queue.
Settle(c, m) ==
    /\ msg' = [msg EXCEPT ![c] = IF app = "cut" THEN Requeued(msg[c]) ELSE m]
    /\ job' = [job EXCEPT ![c] = "idle"]

\* A plausible bug rejects what was handled.
AckAsNack(c) == Settle(c, DeadLettered(msg[c]))

Ack(c) == Settle(c, NoMessage)
Nack(c) == Settle(c, DeadLettered(msg[c]))

\* What a nack of this copy makes of its notification.
Discarding(c) ==
    IF msg[c].queue = "dlq" /\ app # "cut" THEN {"lost"} ELSE {}

Goto(c, j) ==
    /\ job' = [job EXCEPT ![c] = j]
    /\ UNCHANGED msg

-----------------------------------------------------------------------------
(* handleMainMessage: ProcessAndSend, broadcast, ack *)

InHand(q) == {c \in Copy : job[c] # "idle" /\ msg[c].queue = q}

Take(c, j) ==
    /\ Stored(c)
    /\ ~msg[c].unacked
    /\ msg' = [msg EXCEPT ![c].unacked = TRUE]
    /\ job' = [job EXCEPT ![c] = j]
    /\ UNCHANGED <<row, ripe, creator, cancelling, ticker, app, faults,
                   outages, published, delivered, events>>

\* Concurrency goroutines serve the main queue.  While the process stops one
\* may still receive a message, but limiter.Wait fails and it goes no further.
DeliverMain(c) ==
    /\ app = "up"
    /\ Stored(c) /\ msg[c].queue = "main"
    /\ Cardinality(InHand("main")) < Concurrency
    /\ Take(c, "read")

\* The statuses in which there is nothing to do; a plausible bug knows one only.
SkippedSentOnly == {"sent"}

Skipped == {"cancelled", "sent"}

\* MarkAsProcessing: GetForProcessing locks the row only for its own statement.
ProcessRead(c) ==
    /\ job[c] = "read"
    /\ LET s == row[msg[c].id] IN
          \/ /\ Succeeds
             /\ \/ s \in Skipped /\ Goto(c, "ack")
                \/ /\ s \notin Skipped /\ CanTransitionTo(s, "processing")
                   /\ Goto(c, "save")
                \/ /\ s \notin Skipped /\ ~CanTransitionTo(s, "processing")
                   /\ Nack(c)
          \/ Fails("database") /\ Nack(c)
    /\ UNCHANGED <<row, ripe, creator, cancelling, ticker, app, outages,
                   published, delivered, events>>

ProcessSave(c) ==
    /\ job[c] = "save"
    /\ LET n == msg[c].id IN
          \/ Save(n, "processing", {}) /\ Succeeds /\ Goto(c, "send")
          \/ SaveFails(n, "processing", {}) /\ Fails("database") /\ Nack(c)
    /\ UNCHANGED <<ripe, creator, cancelling, ticker, app, outages, published,
                   delivered>>

\* The provider is asked over HTTP; after a timeout the client asks again or
\* gives up (ProviderCall models the call, SendContract what it may come to).
Send(c) ==
    /\ job[c] = "send"
    /\ \/ /\ Succeeds /\ Goto(c, "markSent")
          /\ delivered' = [delivered EXCEPT ![msg[c].id] = @ + 1]
          /\ UNCHANGED events
       \/ /\ Fault("timeout") /\ Goto(c, "send")
          /\ delivered' = [delivered EXCEPT ![msg[c].id] = @ + 1]
          /\ UNCHANGED events
       \/ /\ Fails("timeout") /\ Nack(c)
          /\ delivered' = [delivered EXCEPT ![msg[c].id] = @ + 1]
          /\ UNCHANGED events
       \/ /\ Fails("rejected") /\ Nack(c)
          /\ UNCHANGED <<delivered, events>>
       \/ /\ ContextAlive /\ Fault("redirected") /\ Goto(c, "markSent")
          /\ Note(msg[c].id, {"lost"})
          /\ UNCHANGED delivered
    /\ UNCHANGED <<row, ripe, creator, cancelling, ticker, app, outages, published>>

MarkSent(c) ==
    /\ job[c] = "markSent"
    /\ LET n == msg[c].id IN
          \/ Save(n, "sent", {}) /\ Succeeds /\ Goto(c, "announceSent")
          \/ SaveFails(n, "sent", {}) /\ Fails("database") /\ Nack(c)
    /\ UNCHANGED <<ripe, creator, cancelling, ticker, app, outages, published,
                   delivered>>

AnnounceSent(c) ==
    /\ job[c] = "announceSent"
    /\ Goto(c, "ack")
    /\ UNCHANGED <<row, ripe, creator, cancelling, ticker, app, faults,
                   outages, published, delivered, events>>

Acknowledge(c) ==
    /\ job[c] = "ack"
    /\ Ack(c)
    /\ UNCHANGED <<row, ripe, creator, cancelling, ticker, app, faults,
                   outages, published, delivered, events>>

-----------------------------------------------------------------------------
(* handleDLQMessage: HandleDeliveryFailure, broadcast, ack *)

\* One goroutine; it may still take a message when its context is cancelled.
DeliverDLQ(c) ==
    /\ app \in {"up", "stopping"}
    /\ Stored(c) /\ msg[c].queue = "dlq"
    /\ InHand("dlq") = {}
    /\ Take(c, "mark")

\* One attempt too many, a plausible off-by-one.
RetriesLeftInclusive(m) == m.retry <= MaxRetries

RetriesLeft(m) == m.retry < MaxRetries

\* MarkAsRetrying or MarkAsFailed.  The handler nacks when it fails, and the
\* broker discards what is nacked from the DLQ.
MarkFailure(c) ==
    /\ job[c] = "mark"
    /\ LET n == msg[c].id
           s == IF RetriesLeft(msg[c]) THEN "retrying" ELSE "failed"
       IN  \/ /\ Save(n, s, {}) /\ Succeeds
              /\ Goto(c, IF RetriesLeft(msg[c]) THEN "retry" ELSE "report")
           \/ SaveFails(n, s, Discarding(c)) /\ Fails("database") /\ Nack(c)
    /\ UNCHANGED <<ripe, creator, cancelling, ticker, app, outages, published,
                   delivered>>

\* What the handler does after it read the row again; a plausible bug does not
\* look at the status.
VerdictUnchecked(s) == "announceFailed"

Verdict(s) == IF s = "failed" THEN "announceFailed" ELSE "ack"

\* GetByID and PublishToRetry.
Retry(c) ==
    /\ job[c] = "retry"
    /\ LET n == msg[c].id IN
          \/ /\ ContextAlive
             /\ PublishReturnsNil("retry", n, msg[c].retry + 1)
             /\ job' = [job EXCEPT ![c] = Verdict(row[n])]
          \/ /\ Fails("database") \/ PublishFails
             /\ Nack(c)
             /\ Note(n, Discarding(c))
    /\ UNCHANGED <<row, ripe, creator, cancelling, ticker, app, outages,
                   published, delivered>>

\* GetByID after MarkAsFailed.
Report(c) ==
    /\ job[c] = "report"
    /\ \/ Succeeds /\ Goto(c, Verdict(row[msg[c].id]))
       \/ Fails("database") /\ Nack(c)
    /\ UNCHANGED <<row, ripe, creator, cancelling, ticker, app, outages,
                   published, delivered, events>>

AnnounceFailed(c) ==
    /\ job[c] = "announceFailed"
    /\ Goto(c, "ack")
    /\ UNCHANGED <<row, ripe, creator, cancelling, ticker, app, faults,
                   outages, published, delivered, events>>

BrokerExpire(c) ==
    /\ Expire(c)
    /\ UNCHANGED <<row, ripe, creator, cancelling, ticker, job, app, faults,
                   outages, published, delivered, events>>

-----------------------------------------------------------------------------
(* The process *)

Disturbed(kind) ==
    /\ kind \in Outages
    /\ outages < MaxOutages
    /\ outages' = outages + 1

\* The process is gone, with all it was doing.
Die ==
    /\ app' = "down"
    /\ msg' = AllRequeued
    /\ job' = [c \in Copy |-> "idle"]
    /\ creator' = [r \in Request |-> NoWork]
    /\ cancelling' = {}
    /\ ticker' = NoWork
    /\ UNCHANGED <<row, ripe, faults, published, delivered, events>>

Crash == app # "down" /\ Disturbed("crash") /\ Die

\* Shutdown cancels the context first, and waits for HTTP handlers only.
Stop ==
    /\ app = "up" /\ Disturbed("stop")
    /\ app' = "stopping"
    /\ UNCHANGED <<msg, row, ripe, creator, cancelling, ticker, job, faults,
                   published, delivered, events>>

\* Nothing reconnects: the process must be replaced.
Cut ==
    /\ app = "up" /\ Disturbed("cut")
    /\ app' = "cut"
    /\ UNCHANGED <<msg, row, ripe, creator, cancelling, ticker, job, faults,
                   published, delivered, events>>

Exit == app \in {"stopping", "cut"} /\ UNCHANGED outages /\ Die

Restart ==
    /\ app = "down"
    /\ app' = "up"
    /\ UNCHANGED <<msg, row, ripe, creator, cancelling, ticker, job, faults,
                   outages, published, delivered, events>>

-----------------------------------------------------------------------------

Creator(r) == CreatorPublish(r) \/ CreatorMark(r)

Ticker == (\E s \in {"pending", "scheduled"} : TickerRead(s))
            \/ TickerPublish \/ TickerMark

Handle(c) ==
    \/ ProcessRead(c) \/ ProcessSave(c) \/ Send(c) \/ MarkSent(c)
    \/ AnnounceSent(c) \/ MarkFailure(c) \/ Retry(c) \/ Report(c)
    \/ AnnounceFailed(c) \/ Acknowledge(c)

Next ==
    \/ \E r \in Request : CreateRows(r) \/ Creator(r)
    \/ \E n \in Notification : CancelRead(n) \/ CancelSave(n) \/ Ripen(n)
    \/ Ticker
    \/ \E c \in Copy :
          DeliverMain(c) \/ DeliverDLQ(c) \/ Handle(c) \/ BrokerExpire(c)
    \/ Crash \/ Stop \/ Cut \/ Exit \/ Restart

Spec == Init /\ [][Next]_vars

\* Goroutines run, the broker delivers and expires messages, time passes, a
\* shutdown ends and docker compose restarts the process (restart:
\* unless-stopped).  Nothing obliges clients, failures or outages.
Fairness ==
    /\ \A r \in Request : WF_vars(Creator(r))
    /\ \A n \in Notification : WF_vars(CancelSave(n)) /\ WF_vars(Ripen(n))
    /\ WF_vars(Ticker)
    /\ \A c \in Copy :
          /\ WF_vars(Handle(c))
          /\ WF_vars(DeliverMain(c) \/ DeliverDLQ(c) \/ BrokerExpire(c))
    /\ WF_vars(app = "stopping" /\ Exit)
    /\ WF_vars(Restart)

FairSpec == Spec /\ Fairness

-----------------------------------------------------------------------------
(* Properties *)

\* A copy that can still lead to a delivery.
Carrying(c) == Stored(c) /\ job[c] \notin Settling

Carried(n) == \E c \in Copy : Carrying(c) /\ msg[c].id = n

Accepted(n) == row[n] # "none"

\* The provider has it, or the notification was withdrawn or given up.
Concluded(n) == delivered[n] > 0 \/ events[n] \cap {"cancelled", "failed"} # {}

\* The ticker will find it.
Recoverable(n) == row[n] \in {"pending", "scheduled"}

Kept(n) == Accepted(n) => Concluded(n) \/ Recoverable(n) \/ Carried(n)

\* Every accepted notification that has not come to a conclusion is either in
\* a status the ticker looks for or carried by a message that is still to be
\* handled, unless a copy of it vanished unconfirmed, was discarded from the DLQ
\* or was taken for sent on a redirection.  No order of creator, ticker, consumer,
\* canceller, crash, shutdown and failing call opens another hole
\* (processing_service.go, consumer.go).
NoNotificationLost ==
    \A n \in Notification : "lost" \in events[n] \/ Kept(n)

\* Nothing is lost at all: what remains of NoNotificationLost without its
\* exception, where no call fails and the connection stays (RecoverStuck-
\* Notifications and requeueing make up for a crash at any point).
NothingLost == \A n \in Notification : Kept(n)

\* A row says "processing" or "retrying" only while the handler of some message
\* is still to write it: no other code looks for rows in these statuses
\* (GetRecoverableNotifications asks for pending ones only).
InFlightHasCarrier ==
    \A n \in Notification :
        row[n] \in {"processing", "retrying"} =>
            \/ Carried(n)
            \/ \E c \in Copy : job[c] = "markSent" /\ msg[c].id = n
            \/ "lost" \in events[n]

\* Creator and ticker publish a notification once each and again only for a
\* cause: a call that failed (MarkAsQueued after the publish, the rest of a
\* batch) or an outage, each of which is good for one publish and no more
\* (RecoverStuckNotifications, PublishDueScheduled).
PublishesBounded ==
    \A n \in Notification : published[n] <= 2 + faults + outages

\* 3 ^ k, as a function.
Tripled[k \in Nat] == IF k = 0 THEN 1 ELSE 3 * Tripled[k - 1]

\* Duplicates have a bound.  Each publish is worth one delivery and each failing
\* call one more.  An outage hands every copy in hand out again, in the DLQ also
\* the one whose retry is published and already being sent (handleDLQMessage
\* acks last), so it can make three deliveries of one, and no more.
DuplicatesBounded ==
    \A n \in Notification :
        delivered[n] <= (published[n] + faults) * Tripled[outages]

\* A cancelled notification that nobody is about to write to: no copy of it is
\* in the DLQ, where MarkAsRetrying would overwrite it, and those in the main
\* queue are waiting, about to be looked up or about to be acknowledged.
Withdrawn(n) ==
    /\ row[n] = "cancelled"
    /\ \A r \in Request : n \notin creator[r].publish \cup creator[r].mark
    /\ n \notin ticker.publish \cup ticker.mark
    /\ \A c \in Copy :
          Stored(c) /\ msg[c].id = n =>
              job[c] \in {"idle", "read", "ack"} /\ msg[c].queue # "dlq"

\* Then it stays cancelled and is never sent, unless a call fails or the
\* process is stopping (MarkAsProcessing skips cancelled notifications).
CancelHolds ==
    [][\A n \in Notification :
          Withdrawn(n) /\ faults' = faults /\ ContextAlive =>
              Withdrawn(n)' /\ delivered'[n] = delivered[n]]_vars

\* The provider gets a notification once, as long as no outage interrupts a
\* handler, no database call fails, the provider's answers arrive and a handler
\* has done with a single notification before the ticker may look at it.
DeliveredOnce == \A n \in Notification : delivered[n] <= 1

\* Under the same conditions subscribers are told one verdict: nobody is told, or
\* about to be told, "failed" of a notification the provider has or still gets
\* (broadcastStatus in both handlers).
OneVerdict ==
    \A n \in Notification :
        ("failed" \in events[n] \/ \E c \in Copy : job[c] = "announceFailed" /\ msg[c].id = n)
            => delivered[n] = 0

\* An accepted notification reaches the provider, or is reported failed, or is
\* withdrawn, or one of its copies was lost: nothing waits for ever.
Settles ==
    \A n \in Notification :
        Accepted(n) ~> Concluded(n) \/ "lost" \in events[n]

\* repository.go:123: the row lock is "to prevent duplicate processing by
\* concurrent consumers".
NoDuplicateProcessing ==
    \A c, d \in Copy :
        c # d /\ job[c] = "send" /\ job[d] = "send" => msg[c].id # msg[d].id

\* service.go:233: MarkAsProcessing is to "Skip cancelled or sent"; what a
\* client has cancelled is not sent afterwards.
CancelledNotSent ==
    [][\A n \in Notification :
          delivered'[n] > delivered[n] => "cancelled" \notin events[n]]_vars

=============================================================================
