---------------------------- MODULE AppLifecycle ----------------------------
(***************************************************************************)
(* One application process from its configuration to its end (main.go,     *)
(* app.go, container.go, config.go) and the worker pool it runs            *)
(* (consumer.go).  Two goroutines share the App: main, which builds the    *)
(* container, waits for a signal and shuts down, and Run, which starts     *)
(* consumers, ticker and HTTP server.  Neither waits for the other.        *)
(*                                                                         *)
(* Two queues stand for all six: the main queue and the DLQ of one         *)
(* delivery channel.  All six are consumed on one AMQP channel.  What a    *)
(* handler does to the rows is the subject of NotificationPipeline; here   *)
(* it ends well, ends with an error, or hangs in a write to a WebSocket    *)
(* peer that has stopped reading (NotificationHub).                        *)
(*                                                                         *)
(* External: the broker, which requeues what is unacknowledged when the    *)
(* channel closes, and closes it when a delivery stays unacknowledged for  *)
(* too long (consumer_timeout); golang-migrate, which marks the schema     *)
(* dirty while a migration runs; docker, which restarts a process that     *)
(* ended unasked (docker-compose.yaml, restart: unless-stopped).           *)
(***************************************************************************)
EXTENDS Integers, FiniteSets

CONSTANTS
    Message,        \* messages in the queues
    Client,         \* HTTP clients, each with at most one request at a time
    Concurrencies,  \* what getInt may make of WORKER_CONCURRENCY
    RateLimits,     \* of WORKER_RATE_LIMIT
    Intervals,      \* and getDuration of WORKER_RECOVERY_INTERVAL, in seconds
    LastVersion,    \* of the migrations
    MaxStarts,      \* bound on the starts of a behaviour
    MaxMishaps      \* bound on what goes wrong outside the code

ASSUME SettingsAssumption ==
    Concurrencies \cup RateLimits \cup Intervals \subseteq Int
ASSUME MessageAssumption == IsFiniteSet(Message)
ASSUME LastVersionAssumption == LastVersion \in Nat
ASSUME BoundsAssumption == MaxStarts \in Nat /\ MaxMishaps \in Nat

VARIABLES
    main,        \* where the main goroutine is
    run,         \* where Run is
    settings,    \* config.Worker
    ctx,         \* the context of consumers and ticker
    database,    \* the connection pool
    connection,  \* to the broker
    channel,     \* the AMQP channel of the consumers
    http,        \* the server
    request,     \* clients that wait for an answer
    worker,      \* goroutines that consume each queue
    message,     \* where each message is
    schema,      \* of the database: it outlives the process
    hung,        \* history: a handler hung in this process
    overdue,     \* history: the HTTP shutdown timed out
    late,        \* history: Run began to listen when Shutdown had passed there
    starts, mishaps

resources == <<database, connection, channel>>
pool == <<worker, message>>
history == <<hung, overdue, late>>
vars == <<main, run, settings, ctx, resources, http, request, pool, history,
          schema, starts, mishaps>>

Queue == {"main", "dlq"}

Building == {"config", "database", "migrate", "migrating", "broker"}
Stopping == {"cancel", "drain", "draining", "closeChannel", "closeConnection",
             "closeDatabase", "return"}
Ended == {"stopped",   \* asked to, with whatever exit code
          "dead"}

\* In the queue, fetched by the client library, in limiter.Wait, in the
\* handler's calls, hung in them, returned from without ack or nack; handled or
\* discarded from the DLQ.
Held == {"fetched", "limiter", "handler", "hung", "abandoned"}
Busy == {"limiter", "handler", "hung"}
Settled == {"done", "discarded"}

Unset == [concurrency |-> 0, rate |-> 0, interval |-> 0]

TypeOK ==
    /\ main \in Building \cup {"waiting"} \cup Stopping \cup Ended
    /\ run \in {"off", "begin", "main", "dlq", "ticker", "listen", "serving", "returned"}
    /\ settings \in [concurrency : Int, rate : Int, interval : Int]
    /\ ctx \in {"none", "live", "cancelled"}
    /\ database \in {"closed", "open"}
    /\ connection \in {"closed", "open", "lost"}
    /\ channel \in {"closed", "open"}
    /\ http \in {"off", "on"}
    /\ request \subseteq Client
    /\ worker \in [Queue -> Nat]
    /\ message \in [Message -> [queue : Queue, at : {"ready"} \cup Held \cup Settled]]
    /\ schema \in [version : 0 .. LastVersion, dirty : BOOLEAN]
    /\ hung \in BOOLEAN /\ overdue \in BOOLEAN /\ late \in BOOLEAN
    /\ starts \in 0 .. MaxStarts
    /\ mishaps \in 0 .. MaxMishaps

Init ==
    /\ main = "dead" /\ run = "off"
    /\ settings = Unset
    /\ ctx = "none"
    /\ database = "closed" /\ connection = "closed" /\ channel = "closed"
    /\ http = "off" /\ request = {}
    /\ worker = [q \in Queue |-> 0]
    /\ message = [m \in Message |-> [queue |-> "main", at |-> "ready"]]
    /\ schema = [version |-> 0, dirty |-> FALSE]
    /\ hung = FALSE /\ overdue = FALSE /\ late = FALSE
    /\ starts = 0 /\ mishaps = 0

Mishap == mishaps < MaxMishaps /\ mishaps' = mishaps + 1

\* The channel is gone: the broker puts back whatever it has no ack of.
Requeued ==
    [m \in Message |-> IF message[m].at \in Held
                       THEN [message[m] EXCEPT !.at = "ready"] ELSE message[m]]

\* os.Exit, a panic or a kill: of a process nothing remains.
End(how) ==
    /\ main' = how /\ run' = "off"
    /\ settings' = Unset
    /\ ctx' = "none"
    /\ database' = "closed" /\ connection' = "closed" /\ channel' = "closed"
    /\ http' = "off" /\ request' = {}
    /\ worker' = [q \in Queue |-> 0]
    /\ message' = Requeued
    /\ hung' = FALSE /\ overdue' = FALSE /\ late' = FALSE

\* logger.Fatal, in either goroutine.
Fatal == End(IF main \in Stopping THEN "stopped" ELSE "dead")

-----------------------------------------------------------------------------
(* Start: NewConfig, NewContainer *)

Start ==
    /\ main \in Ended
    /\ starts < MaxStarts
    /\ main' = "config" /\ starts' = starts + 1
    /\ UNCHANGED <<run, settings, ctx, resources, http, request, pool, history,
                   schema, mishaps>>

\* getInt and getDuration let any number pass, and validate asks for none of
\* them; what it does ask for has a default.
LoadConfig ==
    /\ main = "config"
    /\ settings' \in [concurrency : Concurrencies, rate : RateLimits, interval : Intervals]
    /\ main' = "database"
    /\ UNCHANGED <<run, ctx, resources, http, request, pool, history,
                   schema, starts, mishaps>>

ConnectDatabase ==
    /\ main = "database"
    /\ \/ /\ main' = "migrate" /\ database' = "open"
          /\ UNCHANGED <<run, settings, ctx, connection, channel, http, request, pool,
                         history, mishaps>>
       \/ Fatal /\ Mishap
    /\ UNCHANGED <<schema, starts>>

\* Up refuses a dirty schema.  A plausible bug takes its error for "no change".
RefusesNothing == FALSE

Refuses == schema.dirty

\* Each migration sets its version dirty, runs and sets it clean.
Migrate ==
    /\ main = "migrate"
    /\ \/ Refuses /\ Fatal /\ UNCHANGED schema
       \/ /\ ~Refuses
          /\ IF schema.dirty \/ schema.version = LastVersion
             THEN main' = "broker" /\ UNCHANGED schema
             ELSE /\ main' = "migrating"
                  /\ schema' = [version |-> schema.version + 1, dirty |-> TRUE]
          /\ UNCHANGED <<run, settings, ctx, resources, http, request, pool, history>>
    /\ UNCHANGED <<starts, mishaps>>

MigrationRuns ==
    /\ main = "migrating"
    /\ \/ /\ main' = "migrate"
          /\ schema' = [schema EXCEPT !.dirty = FALSE]
          /\ UNCHANGED <<run, settings, ctx, resources, http, request, pool, history,
                         mishaps>>
       \/ Fatal /\ Mishap /\ UNCHANGED schema
    /\ UNCHANGED starts

\* Dial, the queues, the channels of producer and consumer; then the router,
\* the signal handler and the goroutine of Run.
ConnectBroker ==
    /\ main = "broker"
    /\ \/ /\ main' = "waiting" /\ run' = "begin"
          /\ connection' = "open" /\ channel' = "open"
          /\ UNCHANGED <<settings, ctx, database, http, request, pool, history, mishaps>>
       \/ Fatal /\ Mishap
    /\ UNCHANGED <<schema, starts>>

-----------------------------------------------------------------------------
(* Run *)

\* The context, and cancelFunc, which main reads without synchronisation.
MakeContext ==
    /\ run = "begin"
    /\ run' = "main" /\ ctx' = "live"
    /\ UNCHANGED <<main, settings, resources, http, request, pool, history,
                   schema, starts, mishaps>>

\* A plausible bug makes a pool of the configured size, be it negative.
WorkersUnchecked(q) == IF q = "dlq" THEN 1 ELSE settings.concurrency

\* The goroutines of startMainConsumer and of startDLQConsumer.
WorkersOf(q) ==
    IF q = "dlq" THEN 1 ELSE IF settings.concurrency > 0 THEN settings.concurrency ELSE 0

ChannelGone ==
    /\ channel' = "closed"
    /\ message' = Requeued
    /\ worker' = [q \in Queue |-> 0]

\* Start's error ends the process.  A plausible bug logs it and goes on.
StartFailedLogged ==
    /\ run' = "ticker"
    /\ ChannelGone
    /\ UNCHANGED <<main, settings, ctx, database, connection, http, request, history>>

StartFailed == Fatal

\* Consume of one queue, in the order of Start.  The broker may refuse it.
StartConsumer(q) ==
    /\ run = q
    /\ \/ /\ channel = "open"
          /\ worker' = [worker EXCEPT ![q] = WorkersOf(q)]
          /\ run' = IF q = "main" THEN "dlq" ELSE "ticker"
          /\ UNCHANGED <<main, settings, ctx, resources, http, request, history,
                         message, mishaps>>
       \/ channel = "open" /\ StartFailed /\ Mishap
       \/ channel = "closed" /\ StartFailed /\ UNCHANGED mishaps
    /\ UNCHANGED <<schema, starts>>

\* time.NewTicker panics on an interval that is not positive.
StartTicker ==
    /\ run = "ticker"
    /\ \/ /\ settings.interval > 0
          /\ run' = "listen"
          /\ UNCHANGED <<main, settings, ctx, resources, http, request, pool, history>>
       \/ settings.interval <= 0 /\ Fatal
    /\ UNCHANGED <<schema, starts, mishaps>>

Listen ==
    /\ run = "listen"
    /\ \/ /\ run' = "serving" /\ http' = "on"
          /\ late' = (main \in Stopping \ {"cancel", "drain"})
          /\ UNCHANGED <<main, settings, ctx, resources, request, pool, hung, overdue,
                         mishaps>>
       \/ Fatal /\ Mishap     \* the port is taken
    /\ UNCHANGED <<schema, starts>>

-----------------------------------------------------------------------------
(* Shutdown *)

\* The order of Shutdown and Close.  A plausible bug closes the container first.
AfterContainerFirst(stage) ==
    CASE stage = "cancel"          -> "closeChannel"
      [] stage = "closeChannel"    -> "closeConnection"
      [] stage = "closeConnection" -> "closeDatabase"
      [] stage = "closeDatabase"   -> "drain"
      [] stage = "drain"           -> "draining"
      [] stage = "draining"        -> "return"

After(stage) ==
    CASE stage = "cancel"          -> "drain"
      [] stage = "drain"           -> "draining"
      [] stage = "draining"        -> "closeChannel"
      [] stage = "closeChannel"    -> "closeConnection"
      [] stage = "closeConnection" -> "closeDatabase"
      [] stage = "closeDatabase"   -> "return"

Stage(stage) == main = stage /\ main' = After(stage)

Signal ==
    /\ main = "waiting"
    /\ main' = "cancel"
    /\ UNCHANGED <<run, settings, ctx, resources, http, request, pool, history,
                   schema, starts, mishaps>>

\* if a.cancelFunc != nil { a.cancelFunc() }.  Nothing orders Run's write before
\* this read: until Run has done its first call to the broker, either value.
CancelContext ==
    /\ Stage("cancel")
    /\ \/ ctx # "none" /\ ctx' = "cancelled"
       \/ run \in {"begin", "main"} /\ UNCHANGED ctx
    /\ UNCHANGED <<run, settings, resources, http, request, pool, history,
                   schema, starts, mishaps>>

\* ShutdownWithTimeout: the listener closes, and Listen returns to Run.
StopListening ==
    /\ Stage("drain")
    /\ http' = "off"
    /\ run' = IF run = "serving" THEN "returned" ELSE run
    /\ UNCHANGED <<settings, ctx, resources, request, pool, history,
                   schema, starts, mishaps>>

\* Until no request is underway or the time is up.  A plausible bug sets no limit.
WaitsForAll == request = {}

Waits == TRUE

Drained ==
    /\ Stage("draining") /\ Waits
    /\ overdue' = (request # {})
    /\ UNCHANGED <<run, settings, ctx, resources, http, request, pool, hung, late,
                   schema, starts, mishaps>>

\* Container.Close: consumer, broker, database.
CloseChannel ==
    /\ Stage("closeChannel")
    /\ ChannelGone
    /\ UNCHANGED <<run, settings, ctx, database, connection, http, request, history,
                   schema, starts, mishaps>>

CloseConnection ==
    /\ Stage("closeConnection")
    /\ connection' = "closed"
    /\ UNCHANGED <<run, settings, ctx, database, channel, http, request, pool, history,
                   schema, starts, mishaps>>

CloseDatabase ==
    /\ Stage("closeDatabase")
    /\ database' = "closed"
    /\ UNCHANGED <<run, settings, ctx, connection, channel, http, request, pool, history,
                   schema, starts, mishaps>>

Return ==
    /\ main = "return"
    /\ End("stopped")
    /\ UNCHANGED <<schema, starts, mishaps>>

-----------------------------------------------------------------------------
(* The worker pool *)

In(q, places) == {m \in Message : message[m].queue = q /\ message[m].at \in places}

Put(m, place) == message' = [message EXCEPT ![m].at = place]

PoolUnchanged ==
    UNCHANGED <<main, run, settings, ctx, database, connection, http, request, overdue,
                late, schema, starts>>

\* Qos: the count goes over the wire as an unsigned 16-bit number, where 0 says
\* "no limit".
Prefetch == settings.concurrency % 65536

Consumed(q) == channel = "open" /\ run \notin {"off", "begin", "main", q}

Deliver(m) ==
    LET q == message[m].queue
    IN  /\ message[m].at = "ready" /\ Consumed(q)
        /\ Prefetch = 0 \/ Cardinality(In(q, Held)) < Prefetch
        /\ Put(m, "fetched")
        /\ UNCHANGED <<channel, worker, hung, mishaps>> /\ PoolUnchanged

Idle(q) == worker[q] > Cardinality(In(q, Busy))

\* When the context is cancelled and a delivery waits, select takes either.
Take(m) ==
    LET q == message[m].queue
    IN  /\ message[m].at = "fetched" /\ Idle(q)
        /\ Put(m, IF q = "main" THEN "limiter" ELSE "handler")
        /\ UNCHANGED <<channel, worker, hung, mishaps>> /\ PoolUnchanged

WorkerExits(q) ==
    /\ ctx = "cancelled" /\ Idle(q)
    /\ worker' = [worker EXCEPT ![q] = @ - 1]
    /\ UNCHANGED <<channel, message, hung, mishaps>> /\ PoolUnchanged

\* Wait refuses to wait for more than the burst, which is the rate limit.
Admits == ctx = "live" /\ settings.rate >= 1

Wait(m) ==
    /\ message[m].at = "limiter"
    /\ Put(m, IF Admits THEN "handler" ELSE "abandoned")
    /\ UNCHANGED <<channel, worker, hung, mishaps>> /\ PoolUnchanged

\* Nack(requeue = false): from the main queue into the DLQ, from there nowhere.
\* A plausible bug returns without.
NackForgotten(m) == [message[m] EXCEPT !.at = "abandoned"]

Nacked(m) ==
    IF message[m].queue = "main" THEN [queue |-> "dlq", at |-> "ready"]
    ELSE [queue |-> "dlq", at |-> "discarded"]

Handle(m) ==
    /\ message[m].at = "handler"
    /\ \/ Put(m, "done") /\ UNCHANGED <<hung, mishaps>>
       \/ message' = [message EXCEPT ![m] = Nacked(m)] /\ UNCHANGED <<hung, mishaps>>
       \/ Put(m, "hung") /\ hung' = TRUE /\ Mishap
    /\ UNCHANGED <<channel, worker>> /\ PoolUnchanged

-----------------------------------------------------------------------------
(* The world outside *)

\* Deliveries nobody will settle: given up, hung, or with all workers hung.
Overdue(m) ==
    LET q == message[m].queue
    IN  \/ message[m].at \in {"abandoned", "hung"}
        \/ message[m].at = "fetched" /\ worker[q] <= Cardinality(In(q, {"hung"}))

\* consumer_timeout: the broker closes the channel, and nothing opens it again.
ConsumerTimeout ==
    /\ channel = "open"
    /\ \E m \in Message : Overdue(m)
    /\ ChannelGone
    /\ UNCHANGED <<hung, mishaps>> /\ PoolUnchanged

LoseConnection ==
    /\ connection = "open" /\ Mishap
    /\ connection' = "lost"
    /\ ChannelGone
    /\ UNCHANGED <<main, run, settings, ctx, database, http, request, history,
                   schema, starts>>

\* Killed by an accident or, before the signal handler is there, on purpose.
Crash ==
    /\ main \notin Ended /\ Mishap
    /\ \E how \in Ended : End(how)
    /\ UNCHANGED <<schema, starts>>

Ask(c) ==
    /\ http = "on" /\ c \notin request
    /\ request' = request \cup {c}
    /\ UNCHANGED <<main, run, settings, ctx, resources, http, pool, history,
                   schema, starts, mishaps>>

\* A WebSocket is a request that its client may never end.
Answered(c) ==
    /\ c \in request
    /\ request' = request \ {c}
    /\ UNCHANGED <<main, run, settings, ctx, resources, http, pool, history,
                   schema, starts, mishaps>>

-----------------------------------------------------------------------------

Build == LoadConfig \/ ConnectDatabase \/ Migrate \/ MigrationRuns \/ ConnectBroker

Run == MakeContext \/ (\E q \in Queue : StartConsumer(q)) \/ StartTicker \/ Listen

Shutdown ==
    CancelContext \/ StopListening \/ Drained \/ CloseChannel \/ CloseConnection
        \/ CloseDatabase \/ Return

Work(m) == Take(m) \/ Wait(m) \/ Handle(m)

Next ==
    \/ Start \/ Build \/ Run \/ Signal \/ Shutdown
    \/ \E m \in Message : Deliver(m) \/ Work(m)
    \/ \E q \in Queue : WorkerExits(q)
    \/ \E c \in Client : Ask(c) \/ Answered(c)
    \/ ConsumerTimeout \/ LoseConnection \/ Crash

Spec == Init /\ [][Next]_vars

\* Goroutines run, the broker delivers, docker restarts a process that died.
\* Nothing obliges clients, signals or accidents.
Fairness ==
    /\ WF_vars(main = "dead" /\ Start)
    /\ WF_vars(Build) /\ WF_vars(Run) /\ WF_vars(Shutdown)
    /\ \A m \in Message : WF_vars(Deliver(m)) /\ WF_vars(Work(m))

FairSpec == Spec /\ Fairness

-----------------------------------------------------------------------------
(* Properties *)

Sound == settings.concurrency >= 1 /\ settings.rate >= 1 /\ settings.interval >= 1

\* Requests meet a schema with all migrations and none half done, whatever
\* start was interrupted before (runMigrations before everything else).
ServesFullSchema ==
    http = "on" => schema = [version |-> LastVersion, dirty |-> FALSE]

\* A request has its database, and its broker unless the connection was lost,
\* for as long as the server waits for it.  Two exceptions: the wait of ten
\* seconds is over, or Run was so slow that Shutdown passed it by and it began
\* to serve when the container was closing.
RequestsHaveDependencies ==
    request # {} /\ ~overdue /\ ~late =>
        database = "open" /\ connection \in {"open", "lost"}

\* What /health answers: it opens a channel of its own.
Healthy == database = "open" /\ connection = "open"

\* A process that serves and is healthy but consumes a queue no longer either
\* had a handler hung or a delivery abandoned for longer than the broker allows
\* (it cannot be seen from outside), or was configured without workers.
Deaf(q) == main = "waiting" /\ run = "serving" /\ worker[q] = 0

DeafnessExplained ==
    \A q \in Queue :
        Deaf(q) /\ Healthy => hung \/ settings.rate < 1 \/ settings.concurrency < 1

\* A shutdown ends, whatever clients, workers and the other goroutine do.
ShutdownEnds == main \in Stopping ~> main \in Ended

\* What may keep a message waiting for ever: a process stopped on purpose, a
\* migration that was interrupted, settings without sense, a connection that was
\* lost, a handler that hangs.
Excused ==
    \/ main = "stopped"
    \/ main = "dead" /\ starts = MaxStarts
    \/ schema.dirty
    \/ main \notin Ended \cup {"config"} /\ ~Sound
    \/ connection = "lost" \/ hung

\* Otherwise every message is handled, or discarded from the DLQ.
Progress ==
    \A m \in Message : message[m].at \notin Settled ~> message[m].at \in Settled \/ Excused

=============================================================================
