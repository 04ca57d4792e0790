------------------------------- MODULE Broker -------------------------------
(***************************************************************************)
(* The RabbitMQ objects that topology.go declares and producer.go writes   *)
(* to, for one delivery channel: the sms, email and push pipelines are     *)
(* three copies of the same queues and never exchange a message.           *)
(*                                                                         *)
(*   main   notification.queue.*   nacked messages go to dlq               *)
(*   dlq    notification.dlq.*     nacked messages are discarded           *)
(*   retry  notification.retry.*   expired messages go back to main        *)
(*                                                                         *)
(* A message is one physical copy; several copies may carry the same       *)
(* notification.  Which waiting copy the broker hands out next is left     *)
(* open: the priority queue, the buffer of prefetched deliveries and       *)
(* requeueing give no order the service could rely on.                     *)
(***************************************************************************)
EXTENDS Naturals

CONSTANTS
    Notification,  \* the notifications clients create
    Copy,          \* places for physical copies, at most so many at a time
    NoMessage,     \* what msg holds for a place that is free
    MaxRetries     \* WORKER_MAX_RETRIES

VARIABLE msg       \* the messages the broker stores

Queue == {"main", "dlq", "retry"}

Message == [queue   : Queue,
            unacked : BOOLEAN,       \* delivered to a consumer, not yet settled
            id      : Notification,
            retry   : 0 .. MaxRetries]  \* the x-retry-count header

ASSUME MaxRetriesAssumption == MaxRetries \in Nat
ASSUME NoMessageAssumption == NoMessage \notin Message

BrokerTypeOK == msg \in [Copy -> Message \cup {NoMessage}]

BrokerInit == msg = [c \in Copy |-> NoMessage]

Stored(c) == msg[c] # NoMessage

\* What Publish (main) and PublishToRetry (retry) hand to the broker.
Enqueued(q, n, r) ==
    [queue |-> q, unacked |-> FALSE, id |-> n, retry |-> r]

Requeued(m) == [m EXCEPT !.unacked = FALSE]

\* Plausible bugs: a main queue, or a retry queue, declared without its
\* x-dead-letter-exchange; messages consumed with autoAck.
DeadLetteredWithoutDLX(m) ==
    IF m.queue = "retry" THEN [m EXCEPT !.queue = "main"] ELSE NoMessage

DeadLetteredWithoutReturn(m) ==
    IF m.queue = "main" THEN [m EXCEPT !.queue = "dlq", !.unacked = FALSE]
    ELSE NoMessage

AllRequeuedAutoAck ==
    [c \in Copy |-> IF Stored(c) /\ msg[c].unacked THEN NoMessage ELSE msg[c]]

\* Where a message goes when it is nacked without requeue or when it expires:
\* the dead-letter exchange of its queue.  dlq has none.
DeadLettered(m) ==
    IF m.queue = "dlq" THEN NoMessage
    ELSE [m EXCEPT !.queue = IF m.queue = "main" THEN "dlq" ELSE "main",
                   !.unacked = FALSE]

\* The connection of the application is gone: what it had not settled waits again.
AllRequeued ==
    [c \in Copy |-> IF Stored(c) THEN Requeued(msg[c]) ELSE NoMessage]

\* The 30 s TTL of the retry queue.
Expire(c) ==
    /\ Stored(c)
    /\ msg[c].queue = "retry"
    /\ msg' = [msg EXCEPT ![c] = DeadLettered(msg[c])]

=============================================================================
