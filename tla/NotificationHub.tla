-------------------------- MODULE NotificationHub --------------------------
(***************************************************************************)
(* The WebSocket hub (ws/hub.go): handlers of connections subscribe and    *)
(* unsubscribe, consumer goroutines broadcast, all on one map behind a     *)
(* mutex.  broadcastToKey copies the connections of a key under the lock   *)
(* and writes to them without it, so a connection may leave, or another    *)
(* goroutine may write to it, between the two.                             *)
(*                                                                         *)
(* The websocket package is external.  Its contract is one writer at a     *)
(* time; it panics when it notices a second one, and nothing in the hub or *)
(* in the consumers recovers, so the panic ends the process.  A write has  *)
(* no deadline: to a peer that does not read it takes for ever.            *)
(***************************************************************************)
EXTENDS Naturals, Sequences

CONSTANTS
    Conn,           \* connections, each used once
    Unreliable,     \* those whose peer may vanish or stop reading
    Topic,          \* keys: notification and batch ids
    Watched,        \* those that clients connect to
    NoTopic,        \* the batch of a notification that has none
    Update,         \* the updates broadcast: [id : Topic, batch : Topic or NoTopic]
    Sender,         \* goroutines that broadcast: consumers of any queue
    NoConn,
    MaxBroadcasts   \* bound on the broadcasts of a behaviour

ASSUME UpdateAssumption == Update \subseteq [id : Topic, batch : Topic \cup {NoTopic}]
ASSUME SubsetsAssumption == Unreliable \subseteq Conn /\ Watched \subseteq Topic
ASSUME MaxBroadcastsAssumption == MaxBroadcasts \in Nat
ASSUME NoTopicAssumption == NoTopic \notin Topic
ASSUME NoConnAssumption == NoConn \notin Conn

VARIABLES
    subscribers,  \* the map; only keys somebody subscribed to are in it
    phase,        \* of the handler of each connection
    topic,        \* the key in the URL of a connection
    broken,       \* connections whose peer is gone: reads and writes fail
    stalled,      \* connections whose peer has stopped reading
    cast,         \* what each sender has left of its broadcast
    begun,        \* broadcasts begun
    panicked      \* the process died of a concurrent write

vars == <<subscribers, phase, topic, broken, stalled, cast, begun, panicked>>

Cast == [busy    : BOOLEAN,
         topics  : UNION {[1 .. k -> Topic] : k \in 0 .. 2},
         targets : SUBSET Conn,          \* copied and not yet written to
         writing : Conn \cup {NoConn},
         owed    : SUBSET Conn,   \* history: subscribed when the broadcast began
         written : SUBSET Conn]   \* history: written to

Idle == [busy |-> FALSE, topics |-> <<>>, targets |-> {}, writing |-> NoConn,
         owed |-> {}, written |-> {}]

TypeOK ==
    /\ subscribers \in UNION {[T -> SUBSET Conn] : T \in SUBSET Topic}
    /\ phase \in [Conn -> {"new", "reading", "leaving", "closing", "gone"}]
    /\ topic \in [Conn -> Topic \cup {NoTopic}]
    /\ broken \subseteq Conn /\ stalled \subseteq Conn
    /\ cast \in [Sender -> Cast]
    /\ begun \in 0 .. MaxBroadcasts
    /\ panicked \in BOOLEAN

Init ==
    /\ subscribers = [t \in {} |-> {}]
    /\ phase = [c \in Conn |-> "new"]
    /\ topic = [c \in Conn |-> NoTopic]
    /\ broken = {} /\ stalled = {}
    /\ cast = [s \in Sender |-> Idle]
    /\ begun = 0
    /\ panicked = FALSE

SubscribersOf(t) == IF t \in DOMAIN subscribers THEN subscribers[t] ELSE {}

Subscribe(t, c) ==
    subscribers' = [u \in DOMAIN subscribers \cup {t} |->
                       IF u = t THEN SubscribersOf(t) \cup {c} ELSE subscribers[u]]

\* A key whose last connection leaves is deleted.  A plausible bug deletes the
\* key of whoever leaves.
WithoutKey(t, c) == [u \in DOMAIN subscribers \ {t} |-> subscribers[u]]

Without(t, c) ==
    [u \in {u \in DOMAIN subscribers : u # t \/ subscribers[u] # {c}} |->
        IF u = t THEN subscribers[u] \ {c} ELSE subscribers[u]]

Unsubscribe(t, c) == subscribers' = Without(t, c)

\* Nothing happens in a process that has panicked.
Running == ~panicked /\ UNCHANGED panicked

-----------------------------------------------------------------------------
(* HandleNotificationWS and HandleBatchWS *)

Connect(c, t) ==
    /\ Running
    /\ phase[c] = "new"
    /\ phase' = [phase EXCEPT ![c] = "reading"]
    /\ topic' = [topic EXCEPT ![c] = t]
    /\ Subscribe(t, c)
    /\ UNCHANGED <<broken, stalled, cast, begun>>

\* ReadMessage returns an error: the peer said goodbye or is gone.
Leave(c) ==
    /\ Running
    /\ phase[c] = "reading"
    /\ phase' = [phase EXCEPT ![c] = "leaving"]
    /\ UNCHANGED <<subscribers, topic, broken, stalled, cast, begun>>

Deregister(c) ==
    /\ Running
    /\ phase[c] = "leaving"
    /\ phase' = [phase EXCEPT ![c] = "closing"]
    /\ Unsubscribe(topic[c], c)
    /\ UNCHANGED <<topic, broken, stalled, cast, begun>>

CloseConn(c) ==
    /\ Running
    /\ phase[c] = "closing"
    /\ phase' = [phase EXCEPT ![c] = "gone"]
    /\ UNCHANGED <<subscribers, topic, broken, stalled, cast, begun>>

\* The network and the peer.
Break(c) ==
    /\ Running
    /\ phase[c] \in {"reading", "leaving"} /\ c \in Unreliable \ broken
    /\ broken' = broken \cup {c}
    /\ UNCHANGED <<subscribers, phase, topic, stalled, cast, begun>>

Stall(c) ==
    /\ Running
    /\ phase[c] = "reading" /\ c \in Unreliable \ (broken \cup stalled)
    /\ stalled' = stalled \cup {c}
    /\ UNCHANGED <<subscribers, phase, topic, broken, cast, begun>>

-----------------------------------------------------------------------------
(* Broadcast and broadcastToKey *)

\* The notification first, then its batch if it has one; a plausible bug does
\* not ask.
TopicsAlwaysBoth(u) == <<u.id, u.batch>>

TopicsOf(u) == IF u.batch = NoTopic THEN <<u.id>> ELSE <<u.id, u.batch>>

Broadcast(s, u) ==
    /\ Running
    /\ ~cast[s].busy
    /\ begun < MaxBroadcasts
    /\ begun' = begun + 1
    /\ cast' = [cast EXCEPT ![s] =
                   [Idle EXCEPT !.busy = TRUE, !.topics = TopicsOf(u),
                                !.owed = SubscribersOf(u.id) \cup SubscribersOf(u.batch)]]
    /\ UNCHANGED <<subscribers, phase, topic, broken, stalled>>

BetweenWrites(s) == cast[s].busy /\ cast[s].writing = NoConn

Snapshot(s) ==
    /\ Running
    /\ BetweenWrites(s) /\ cast[s].targets = {} /\ cast[s].topics # <<>>
    /\ cast' = [cast EXCEPT ![s].topics = Tail(@),
                            ![s].targets = SubscribersOf(Head(cast[s].topics))]
    /\ UNCHANGED <<subscribers, phase, topic, broken, stalled, begun>>

\* Two goroutines in one connection: the package may notice, and panic, or not.
BeginWrite(s) ==
    /\ ~panicked
    /\ BetweenWrites(s)
    /\ \E c \in cast[s].targets :
          /\ \/ UNCHANGED panicked
             \/ /\ \E r \in Sender \ {s} : cast[r].writing = c
                /\ panicked' = TRUE
          /\ cast' = [cast EXCEPT ![s].targets = @ \ {c}, ![s].writing = c]
    /\ UNCHANGED <<subscribers, phase, topic, broken, stalled, begun>>

Fails(c) == c \in broken \/ phase[c] = "gone"

Written(s) ==
    /\ Running
    /\ cast[s].busy /\ cast[s].writing # NoConn
    /\ LET c == cast[s].writing IN
          /\ c \notin stalled /\ ~Fails(c)
          /\ cast' = [cast EXCEPT ![s].writing = NoConn, ![s].written = @ \cup {c}]
    /\ UNCHANGED <<subscribers, phase, topic, broken, stalled, begun>>

\* The loop drops a connection it cannot write to and goes on.  Plausible bugs
\* end the loop, or try the connection again.
AfterFailedWriteStop(k) == [k EXCEPT !.writing = NoConn, !.targets = {}]

AfterFailedWriteAgain(k) == [k EXCEPT !.writing = NoConn, !.targets = @ \cup {k.writing}]

AfterFailedWrite(k) == [k EXCEPT !.writing = NoConn]

WriteFailed(s) ==
    /\ Running
    /\ cast[s].busy /\ cast[s].writing # NoConn
    /\ LET c == cast[s].writing IN
          /\ Fails(c)
          /\ cast' = [cast EXCEPT ![s] = AfterFailedWrite(@)]
          /\ Unsubscribe(topic[c], c)
    /\ UNCHANGED <<phase, topic, broken, stalled, begun>>

Return(s) ==
    /\ Running
    /\ BetweenWrites(s) /\ cast[s].targets = {} /\ cast[s].topics = <<>>
    /\ cast' = [cast EXCEPT ![s] = Idle]
    /\ UNCHANGED <<subscribers, phase, topic, broken, stalled, begun>>

-----------------------------------------------------------------------------

Client(c) ==
    (\E t \in Watched : Connect(c, t)) \/ Leave(c) \/ Break(c) \/ Stall(c)

Handler(c) == Deregister(c) \/ CloseConn(c)

Sending(s) ==
    Snapshot(s) \/ BeginWrite(s) \/ Written(s) \/ WriteFailed(s) \/ Return(s)

Next ==
    \/ \E c \in Conn : Client(c) \/ Handler(c)
    \/ \E s \in Sender : Sending(s) \/ \E u \in Update : Broadcast(s, u)

Spec == Init /\ [][Next]_vars

\* Goroutines run.  Clients, the network and the events to tell do as they like.
FairSpec == Spec /\ \A s \in Sender : WF_vars(Sending(s))

-----------------------------------------------------------------------------
(* Properties *)

\* The map is exact: a connection that is read from and works is subscribed, so
\* no failed write and no other handler drops it; a connection whose handler is
\* through is not, so none leaks; and no key is kept for nobody (hub.go:50-64).
SubscribersExact ==
    /\ \A c \in Conn :
          /\ phase[c] = "reading" /\ c \notin broken => c \in SubscribersOf(topic[c])
          /\ \A t \in DOMAIN subscribers :
                c \in subscribers[t] => t = topic[c] /\ phase[c] \in {"reading", "leaving"}
    /\ \A t \in DOMAIN subscribers : subscribers[t] # {}

\* No subscriber is passed over: whoever was subscribed when the broadcast began
\* and is still there has been written to, or is about to be, whatever happens to
\* the connections next to it (hub.go:88-104).
NobodyPassedOver ==
    \A s \in Sender : \A c \in cast[s].owed :
        \/ c \in broken \/ phase[c] # "reading"
        \/ c \in cast[s].written \cup cast[s].targets \cup {cast[s].writing}
        \/ \E i \in DOMAIN cast[s].topics : cast[s].topics[i] = topic[c]

\* A broadcast ends, unless one of its writes hangs on a peer that has stopped
\* reading, or the process dies (the sender is a consumer goroutine that has not
\* acknowledged its message).
BroadcastEnds ==
    \A s \in Sender :
        cast[s].busy ~> \/ ~cast[s].busy \/ panicked
                        \/ cast[s].writing \in stalled

\* hub_test.go:230: concurrent broadcasts do not panic.
DoesNotPanic == ~panicked

=============================================================================
