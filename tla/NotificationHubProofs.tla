----------------------- MODULE NotificationHubProofs -----------------------
(***************************************************************************)
(* Proofs about NotificationHub, for every number of connections, keys,    *)
(* senders and broadcasts.                                                 *)
(***************************************************************************)
EXTENDS NotificationHub, TLAPS

-----------------------------------------------------------------------------
(* Types *)

SubscribersType == UNION {[T -> SUBSET Conn] : T \in SUBSET Topic}

\* Being in the map, as a function of key sets or as keys and values.
LEMMA SubscribersTypeIntro ==
    ASSUME NEW T \in SUBSET Topic, NEW f \in [T -> SUBSET Conn]
    PROVE  f \in SubscribersType
BY DEF SubscribersType

LEMMA SubscribersTypeElim ==
    ASSUME NEW f \in SubscribersType
    PROVE  DOMAIN f \in SUBSET Topic /\ f \in [DOMAIN f -> SUBSET Conn]
BY DEF SubscribersType

LEMMA SubscribersOfType ==
    ASSUME subscribers \in SubscribersType, NEW t
    PROVE  SubscribersOf(t) \subseteq Conn
BY SubscribersTypeElim DEF SubscribersOf

\* Who joins and who leaves keep the map a map of keys to connections.
LEMMA SubscribeType ==
    ASSUME subscribers \in SubscribersType, NEW t \in Topic, NEW c \in Conn, Subscribe(t, c)
    PROVE  subscribers' \in SubscribersType
<1>1. /\ DOMAIN subscribers \in SUBSET Topic
      /\ subscribers \in [DOMAIN subscribers -> SUBSET Conn]
  BY SubscribersTypeElim
<1>2. subscribers' \in [DOMAIN subscribers \cup {t} -> SUBSET Conn]
  BY <1>1, SubscribersOfType DEF Subscribe
<1> QED BY <1>1, <1>2, SubscribersTypeIntro

LEMMA WithoutType ==
    ASSUME subscribers \in SubscribersType, NEW t, NEW c
    PROVE  Without(t, c) \in SubscribersType
<1> DEFINE T == {u \in DOMAIN subscribers : u # t \/ subscribers[u] # {c}}
<1>1. /\ DOMAIN subscribers \in SUBSET Topic
      /\ subscribers \in [DOMAIN subscribers -> SUBSET Conn]
  BY SubscribersTypeElim
<1>2. T \in SUBSET Topic /\ Without(t, c) \in [T -> SUBSET Conn]
  BY <1>1 DEF Without
<1> QED BY <1>2, SubscribersTypeIntro

\* A list of at most two keys, as a sequence.
Keys == UNION {[1 .. k -> Topic] : k \in 0 .. 2}

LEMMA KeysAreSequences ==
    ASSUME NEW l
    PROVE  l \in Keys <=> l \in Seq(Topic) /\ Len(l) \in 0 .. 2
<1>1. ASSUME l \in Keys PROVE l \in Seq(Topic) /\ Len(l) \in 0 .. 2
  <2>1. PICK k \in 0 .. 2 : l \in [1 .. k -> Topic]
    BY <1>1 DEF Keys
  <2> QED BY <2>1
<1>2. ASSUME l \in Seq(Topic), Len(l) \in 0 .. 2 PROVE l \in Keys
  <2>1. l \in [1 .. Len(l) -> Topic]
    BY <1>2
  <2> QED BY <1>2, <2>1 DEF Keys
<1> QED BY <1>1, <1>2

LEMMA TopicsOfType ==
    ASSUME NEW u \in Update
    PROVE  TopicsOf(u) \in Keys
<1>1. u.id \in Topic /\ u.batch \in Topic \cup {NoTopic}
  BY UpdateAssumption
<1>2. TopicsOf(u) \in Seq(Topic) /\ Len(TopicsOf(u)) \in 0 .. 2
  BY <1>1 DEF TopicsOf
<1> QED BY <1>2, KeysAreSequences

LEMMA TailType ==
    ASSUME NEW l \in Keys, l # <<>>
    PROVE  Tail(l) \in Keys /\ Head(l) \in Topic
<1>1. l \in Seq(Topic) /\ Len(l) \in 0 .. 2
  BY KeysAreSequences
<1>2. Tail(l) \in Seq(Topic) /\ Len(Tail(l)) = Len(l) - 1 /\ Head(l) \in Topic /\ Len(l) # 0
  BY <1>1
<1>3. Len(Tail(l)) \in 0 .. 2
  BY <1>1, <1>2
<1> QED BY <1>2, <1>3, KeysAreSequences

\* The fields of what a sender has left, and what a step may make of them.
LEMMA CastFields ==
    ASSUME NEW k \in Cast
    PROVE  /\ k.busy \in BOOLEAN /\ k.topics \in Keys
           /\ k.targets \subseteq Conn /\ k.writing \in Conn \cup {NoConn}
           /\ k.owed \subseteq Conn /\ k.written \subseteq Conn
BY DEF Cast, Keys

LEMMA CastWriting ==
    ASSUME NEW k \in Cast, NEW w \in Conn \cup {NoConn}
    PROVE  [k EXCEPT !.writing = w] \in Cast
BY DEF Cast

LEMMA CastTargets ==
    ASSUME NEW k \in Cast, NEW C \in SUBSET Conn
    PROVE  [k EXCEPT !.targets = C] \in Cast
BY DEF Cast

LEMMA CastWritten ==
    ASSUME NEW k \in Cast, NEW C \in SUBSET Conn
    PROVE  [k EXCEPT !.written = C] \in Cast
BY DEF Cast

LEMMA CastTopics ==
    ASSUME NEW k \in Cast, NEW l \in Keys
    PROVE  [k EXCEPT !.topics = l] \in Cast
BY DEF Cast, Keys

LEMMA CastBegun ==
    ASSUME NEW l \in Keys, NEW C \in SUBSET Conn
    PROVE  [Idle EXCEPT !.busy = TRUE, !.topics = l, !.owed = C] \in Cast
BY DEF Cast, Keys, Idle

LEMMA IdleType == Idle \in Cast
<1>1. <<>> \in Keys
  <2>1. <<>> \in Seq(Topic) /\ Len(<<>>) \in 0 .. 2
    OBVIOUS
  <2> QED BY <2>1, KeysAreSequences, Zenon
<1>2. \A l \in Keys : [busy |-> FALSE, topics |-> l, targets |-> {}, writing |-> NoConn,
                      owed |-> {}, written |-> {}] \in Cast
  BY DEF Cast, Keys
<1> QED BY <1>1, <1>2 DEF Idle

\* One sender's step changes its own broadcast only.
LEMMA OneCast ==
    ASSUME cast \in [Sender -> Cast], NEW s \in Sender, NEW k \in Cast,
           cast' = [cast EXCEPT ![s] = k]
    PROVE  /\ cast' \in [Sender -> Cast]
           /\ cast'[s] = k
           /\ \A r \in Sender \ {s} : cast'[r] = cast[r]
OBVIOUS

\* Every step keeps the types.
LEMMA ClientType ==
    ASSUME TypeOK, NEW c \in Conn, Client(c) \/ Handler(c)
    PROVE  TypeOK'
<1> USE DEF TypeOK, SubscribersType, Running
<1>1. ASSUME NEW t \in Watched, Connect(c, t) PROVE TypeOK'
  BY <1>1, SubscribeType, SubsetsAssumption DEF Connect
<1>2. CASE Leave(c)
  BY <1>2 DEF Leave
<1>3. CASE Break(c)
  BY <1>3 DEF Break
<1>4. CASE Stall(c)
  BY <1>4 DEF Stall
<1>5. CASE Deregister(c)
  BY <1>5, WithoutType DEF Deregister, Unsubscribe
<1>6. CASE CloseConn(c)
  BY <1>6 DEF CloseConn
<1> QED BY <1>1, <1>2, <1>3, <1>4, <1>5, <1>6 DEF Client, Handler

LEMMA SendingType ==
    ASSUME TypeOK, NEW s \in Sender, Sending(s) \/ \E u \in Update : Broadcast(s, u)
    PROVE  TypeOK'
<1> USE DEF TypeOK, SubscribersType, Running
<1>1. cast \in [Sender -> Cast] /\ cast[s] \in Cast
  OBVIOUS
<1>2. ASSUME NEW k \in Cast, cast' = [cast EXCEPT ![s] = k] PROVE cast' \in [Sender -> Cast]
  BY <1>1, <1>2, OneCast
<1>3. ASSUME NEW u \in Update, Broadcast(s, u) PROVE TypeOK'
  <2>1. SubscribersOf(u.id) \cup SubscribersOf(u.batch) \subseteq Conn
    BY SubscribersOfType
  <2>2. cast' \in [Sender -> Cast]
    BY <1>2, <1>3, <2>1, TopicsOfType, CastBegun DEF Broadcast
  <2>3. begun' \in 0 .. MaxBroadcasts
    <3>1. begun \in 0 .. MaxBroadcasts /\ begun < MaxBroadcasts /\ begun' = begun + 1
      BY <1>3 DEF Broadcast
    <3> HIDE DEF TypeOK
    <3> QED BY <3>1, MaxBroadcastsAssumption
  <2> QED BY <1>3, <2>2, <2>3 DEF Broadcast
<1>4. CASE Snapshot(s)
  <2> DEFINE rest == [cast[s] EXCEPT !.topics = Tail(cast[s].topics)]
  <2>1. rest \in Cast
    <3>1. Tail(cast[s].topics) \in Keys
      BY <1>1, <1>4, TailType, CastFields DEF Snapshot
    <3> QED BY <1>1, <3>1, CastTopics
  <2>2. [rest EXCEPT !.targets = SubscribersOf(Head(cast[s].topics))] \in Cast
    BY <2>1, SubscribersOfType, CastTargets
  <2>3. cast' \in [Sender -> Cast]
    BY <1>2, <1>4, <2>2 DEF Snapshot
  <2> QED BY <1>4, <2>3 DEF Snapshot
<1>5. CASE BeginWrite(s)
  <2>1. PICK c \in cast[s].targets :
           cast' = [cast EXCEPT ![s].targets = @ \ {c}, ![s].writing = c]
    BY <1>5 DEF BeginWrite
  <2>2. c \in Conn /\ cast[s].targets \ {c} \subseteq Conn
    BY <1>1, CastFields
  <2>3. [cast[s] EXCEPT !.targets = cast[s].targets \ {c}] \in Cast
    BY <1>1, <2>2, CastTargets
  <2>4. [[cast[s] EXCEPT !.targets = cast[s].targets \ {c}] EXCEPT !.writing = c] \in Cast
    BY <2>2, <2>3, CastWriting
  <2>5. cast' \in [Sender -> Cast]
    BY <1>2, <2>1, <2>4
  <2> QED BY <1>5, <2>5 DEF BeginWrite
<1>6. CASE Written(s)
  <2>1. [cast[s] EXCEPT !.writing = NoConn] \in Cast
    BY <1>1, CastWriting
  <2>2. cast[s].written \cup {cast[s].writing} \subseteq Conn
    BY <1>1, <1>6, CastFields DEF Written
  <2>3. [[cast[s] EXCEPT !.writing = NoConn]
            EXCEPT !.written = cast[s].written \cup {cast[s].writing}] \in Cast
    BY <2>1, <2>2, CastWritten
  <2>4. cast' \in [Sender -> Cast]
    BY <1>2, <1>6, <2>3 DEF Written
  <2> QED BY <1>6, <2>4 DEF Written
<1>7. CASE WriteFailed(s)
  <2>1. AfterFailedWrite(cast[s]) \in Cast
    BY <1>1, CastWriting DEF AfterFailedWrite
  <2>2. cast' \in [Sender -> Cast]
    BY <1>2, <1>7, <2>1 DEF WriteFailed
  <2> QED BY <1>7, <2>2, WithoutType DEF WriteFailed, Unsubscribe
<1>8. CASE Return(s)
  <2>1. cast' \in [Sender -> Cast]
    BY <1>2, <1>8, IdleType DEF Return
  <2> QED BY <1>8, <2>1 DEF Return
<1> QED BY <1>3, <1>4, <1>5, <1>6, <1>7, <1>8 DEF Sending

LEMMA NextType ==
    ASSUME TypeOK, [Next]_vars
    PROVE  TypeOK'
<1>1. CASE Next
  BY <1>1, ClientType, SendingType DEF Next
<1>2. CASE UNCHANGED vars
  BY <1>2 DEF vars, TypeOK
<1> QED BY <1>1, <1>2

\* The types hold in every reachable state.
THEOREM HubTypeOK == Spec => []TypeOK
<1>1. Init => TypeOK
  <2> SUFFICES ASSUME Init PROVE TypeOK
    OBVIOUS
  <2>1. cast \in [Sender -> Cast]
    BY IdleType DEF Init
  <2>2. subscribers \in [{} -> SUBSET Conn]
    BY DEF Init
  <2>3. subscribers \in SubscribersType
    BY <2>2, SubscribersTypeIntro
  <2>4. begun \in 0 .. MaxBroadcasts
    BY MaxBroadcastsAssumption DEF Init
  <2>5. /\ phase \in [Conn -> {"new", "reading", "leaving", "closing", "gone"}]
        /\ topic \in [Conn -> Topic \cup {NoTopic}]
    BY DEF Init
  <2>6. broken \subseteq Conn /\ stalled \subseteq Conn /\ panicked \in BOOLEAN
    BY DEF Init
  <2> QED BY <2>1, <2>3, <2>4, <2>5, <2>6 DEF TypeOK, SubscribersType
<1>2. TypeOK /\ [Next]_vars => TypeOK'
  BY NextType
<1> QED BY <1>1, <1>2, PTL DEF Spec

-----------------------------------------------------------------------------
(* The map is exact *)

NoneEmpty == \A t \in DOMAIN subscribers : subscribers[t] # {}

\* SubscribersExact, said of who is subscribed and not of keys.
ExactInv ==
    /\ \A c \in Conn : phase[c] = "reading" /\ c \notin broken => c \in SubscribersOf(topic[c])
    /\ \A c \in Conn, t \in Topic :
          c \in SubscribersOf(t) => t = topic[c] /\ phase[c] \in {"reading", "leaving"}
    /\ NoneEmpty

LEMMA ExactIsExact ==
    ASSUME TypeOK
    PROVE  ExactInv => SubscribersExact
<1>1. DOMAIN subscribers \subseteq Topic
  BY SubscribersTypeElim DEF TypeOK, SubscribersType
<1> QED BY <1>1 DEF ExactInv, NoneEmpty, SubscribersExact, SubscribersOf

\* What joining and leaving do to who is subscribed: the key that is deleted had
\* no one else.
LEMMA SubscribeAdds ==
    ASSUME NoneEmpty, NEW t \in Topic, NEW c \in Conn, Subscribe(t, c)
    PROVE  /\ \A u : SubscribersOf(u)' = IF u = t THEN SubscribersOf(t) \cup {c}
                                                 ELSE SubscribersOf(u)
           /\ NoneEmpty'
BY DEF NoneEmpty, Subscribe, SubscribersOf

LEMMA WithoutRemoves ==
    ASSUME NoneEmpty, NEW t, NEW c, Unsubscribe(t, c)
    PROVE  /\ \A u : SubscribersOf(u)' = IF u = t THEN SubscribersOf(t) \ {c}
                                                 ELSE SubscribersOf(u)
           /\ NoneEmpty'
BY DEF NoneEmpty, Unsubscribe, Without, SubscribersOf

LEMMA ExactStep ==
    ASSUME TypeOK, ExactInv, [Next]_vars
    PROVE  ExactInv'
<1> USE DEF Running
<1>1. /\ phase \in [Conn -> {"new", "reading", "leaving", "closing", "gone"}]
      /\ topic \in [Conn -> Topic \cup {NoTopic}]
  BY DEF TypeOK
<1>2. ASSUME NEW c \in Conn, NEW t \in Watched, Connect(c, t) PROVE ExactInv'
  <2>1. t \in Topic
    BY SubsetsAssumption
  <2>2. /\ \A u : SubscribersOf(u)' = IF u = t THEN SubscribersOf(t) \cup {c}
                                              ELSE SubscribersOf(u)
        /\ NoneEmpty'
    BY <1>2, <2>1, SubscribeAdds DEF Connect, ExactInv
  <2>3. \A u \in Topic : c \notin SubscribersOf(u)
    BY <1>2 DEF Connect, ExactInv
  <2> QED BY <1>1, <1>2, <2>2, <2>3 DEF Connect, ExactInv
<1>3. ASSUME NEW c \in Conn, Leave(c) PROVE ExactInv'
  BY <1>1, <1>3 DEF Leave, ExactInv, NoneEmpty, SubscribersOf
<1>4. ASSUME NEW c \in Conn, Deregister(c) PROVE ExactInv'
  <2>1. /\ \A u : SubscribersOf(u)' = IF u = topic[c] THEN SubscribersOf(topic[c]) \ {c}
                                              ELSE SubscribersOf(u)
        /\ NoneEmpty'
    BY <1>4, WithoutRemoves DEF Deregister, ExactInv
  <2> QED BY <1>1, <1>4, <2>1 DEF Deregister, ExactInv
<1>5. ASSUME NEW c \in Conn, CloseConn(c) PROVE ExactInv'
  BY <1>1, <1>5 DEF CloseConn, ExactInv, NoneEmpty, SubscribersOf
<1>6. ASSUME NEW c \in Conn, Break(c) \/ Stall(c) PROVE ExactInv'
  BY <1>6 DEF Break, Stall, ExactInv, NoneEmpty, SubscribersOf
<1>7. ASSUME NEW s \in Sender, WriteFailed(s) PROVE ExactInv'
  <2> DEFINE c == cast[s].writing
  <2>1. /\ \A u : SubscribersOf(u)' = IF u = topic[c] THEN SubscribersOf(topic[c]) \ {c}
                                              ELSE SubscribersOf(u)
        /\ NoneEmpty'
    BY <1>7, WithoutRemoves DEF WriteFailed, ExactInv
  <2>2. c \in broken \/ phase[c] = "gone"
    BY <1>7 DEF WriteFailed, Fails
  <2>3. UNCHANGED <<phase, topic, broken>>
    BY <1>7 DEF WriteFailed
  <2> HIDE DEF c
  <2> QED BY <2>1, <2>2, <2>3 DEF ExactInv
<1>8. CASE UNCHANGED <<subscribers, phase, topic, broken>>
  BY <1>8 DEF ExactInv, NoneEmpty, SubscribersOf
<1>9. ASSUME NEW s \in Sender, NEW u \in Update, Broadcast(s, u) PROVE ExactInv'
  BY <1>8, <1>9 DEF Broadcast
<1>10. ASSUME NEW s \in Sender, Sending(s) PROVE ExactInv'
  BY <1>7, <1>8, <1>10 DEF Sending, Snapshot, BeginWrite, Written, Return
<1> QED BY <1>2, <1>3, <1>4, <1>5, <1>6, <1>8, <1>9, <1>10 DEF Next, Client, Handler, vars

LEMMA SpecExact == Spec => []ExactInv
<1>1. Init => ExactInv
  BY DEF Init, ExactInv, NoneEmpty, SubscribersOf
<1>2. TypeOK /\ ExactInv /\ [Next]_vars => ExactInv'
  BY ExactStep
<1> QED BY <1>1, <1>2, HubTypeOK, PTL DEF Spec

\* The map holds exactly the connections that are read from, whoever drops whom.
THEOREM HubSubscribersExact == Spec => []SubscribersExact
<1>1. TypeOK /\ ExactInv => SubscribersExact
  BY ExactIsExact
<1> QED BY <1>1, HubTypeOK, SpecExact, PTL

-----------------------------------------------------------------------------
(* Nobody is passed over *)

\* What a sender with k left to do has done or will do for a connection c.
Served(k, c) ==
    \/ c \in broken \/ phase[c] # "reading"
    \/ c \in k.written \cup k.targets \cup {k.writing}
    \/ \E i \in DOMAIN k.topics : k.topics[i] = topic[c]

\* Who is owed a broadcast has been connected, so its key is final.
PassInv ==
    \A s \in Sender : \A c \in cast[s].owed : phase[c] # "new" /\ Served(cast[s], c)

\* What connections and their handlers do only excuses the senders.
LEMMA ClientPass ==
    ASSUME TypeOK, PassInv, NEW c \in Conn, Client(c) \/ Handler(c)
    PROVE  PassInv'
<1>1. /\ phase \in [Conn -> {"new", "reading", "leaving", "closing", "gone"}]
      /\ topic \in [Conn -> Topic \cup {NoTopic}]
      /\ \A s \in Sender : cast[s].owed \subseteq Conn
  BY CastFields DEF TypeOK
<1>2. /\ UNCHANGED cast /\ broken \subseteq broken'
      /\ \A d \in Conn : phase[d] # "new" =>
            /\ phase'[d] # "new" /\ topic'[d] = topic[d]
            /\ phase[d] # "reading" => phase'[d] # "reading"
  BY <1>1 DEF Client, Handler, Connect, Leave, Break, Stall, Deregister, CloseConn
<1> QED BY <1>1, <1>2 DEF PassInv, Served

\* A sender begins with all its keys before it, takes one key at a time, and drops
\* a connection only when it has written to it or cannot.
LEMMA SendingPass ==
    ASSUME TypeOK, ExactInv, PassInv, NEW s \in Sender,
           Sending(s) \/ \E u \in Update : Broadcast(s, u)
    PROVE  PassInv'
<1>1. cast \in [Sender -> Cast] /\ cast[s] \in Cast
  BY DEF TypeOK
<1>2. UNCHANGED <<phase, topic, broken>>
  BY DEF Sending, Snapshot, BeginWrite, Written, WriteFailed, Return, Broadcast
<1>3. ASSUME NEW k, k \in Cast, cast' = [cast EXCEPT ![s] = k],
             \A c \in k.owed : phase[c] # "new" /\ Served(k, c)
      PROVE  PassInv'
  <2>1. cast'[s] = k /\ \A r \in Sender \ {s} : cast'[r] = cast[r]
    BY <1>1, <1>3, OneCast
  <2> QED BY <1>2, <1>3, <2>1 DEF PassInv, Served
<1>4. \A c \in cast[s].owed : c \in Conn /\ phase[c] # "new" /\ Served(cast[s], c)
  BY <1>1, CastFields DEF PassInv
<1>5. ASSUME NEW u \in Update, Broadcast(s, u) PROVE PassInv'
  <2> DEFINE k == [Idle EXCEPT !.busy = TRUE, !.topics = TopicsOf(u),
                               !.owed = SubscribersOf(u.id) \cup SubscribersOf(u.batch)]
  <2>1. cast' = [cast EXCEPT ![s] = k]
    BY <1>5 DEF Broadcast
  <2>2. k \in Cast
    BY TopicsOfType, SubscribersOfType, CastBegun DEF TypeOK, SubscribersType
  <2>3. k.owed = SubscribersOf(u.id) \cup SubscribersOf(u.batch) /\ k.topics = TopicsOf(u)
    BY DEF Idle
  <2>4. SubscribersOf(NoTopic) = {}
    BY SubscribersTypeElim, NoTopicAssumption DEF SubscribersOf, TypeOK, SubscribersType
  <2>5. ASSUME NEW c \in k.owed PROVE phase[c] # "new" /\ Served(k, c)
    <3>1. c \in Conn
      BY <2>3, SubscribersOfType DEF TypeOK, SubscribersType
    <3>2. u.id \in Topic /\ u.batch \in Topic \cup {NoTopic}
      BY UpdateAssumption
    <3>3. /\ phase[c] # "new"
          /\ topic[c] = u.id \/ (topic[c] = u.batch /\ u.batch # NoTopic)
      BY <2>3, <2>4, <2>5, <3>1, <3>2 DEF ExactInv
    <3>4. \E i \in DOMAIN TopicsOf(u) : TopicsOf(u)[i] = topic[c]
      BY <3>3 DEF TopicsOf
    <3> QED BY <2>3, <3>3, <3>4 DEF Served
  <2> HIDE DEF k
  <2> QED BY <1>3, <2>1, <2>2, <2>5
<1>6. CASE Snapshot(s)
  <2> DEFINE l == cast[s].topics
             k == [cast[s] EXCEPT !.topics = Tail(l), !.targets = SubscribersOf(Head(l))]
  <2>1. cast' = [cast EXCEPT ![s] = k] /\ l # <<>> /\ cast[s].targets = {}
    BY <1>6 DEF Snapshot, BetweenWrites
  <2>2. l \in Keys
    BY <1>1, CastFields
  <2>3. k \in Cast
    <3>1. [cast[s] EXCEPT !.topics = Tail(l)] \in Cast
      BY <1>1, <2>1, <2>2, TailType, CastTopics
    <3> QED BY <3>1, SubscribersOfType, CastTargets DEF TypeOK, SubscribersType
  <2>4. /\ k.owed = cast[s].owed /\ k.written = cast[s].written
        /\ k.writing = cast[s].writing /\ k.topics = Tail(l)
        /\ k.targets = SubscribersOf(Head(l))
    BY <1>1 DEF Cast
  <2>5. ASSUME NEW c \in k.owed PROVE phase[c] # "new" /\ Served(k, c)
    <3>1. c \in Conn /\ phase[c] # "new" /\ Served(cast[s], c)
      BY <1>4, <2>4
    <3>2. CASE phase[c] = "reading" /\ c \notin broken /\ topic[c] = Head(l)
      BY <2>4, <3>1, <3>2 DEF ExactInv, Served
    <3>3. ASSUME NEW i \in DOMAIN l, l[i] = topic[c], topic[c] # Head(l)
          PROVE  \E j \in DOMAIN Tail(l) : Tail(l)[j] = topic[c]
      <4>1. l \in Seq(Topic) /\ Len(l) \in 0 .. 2
        BY <2>2, KeysAreSequences
      <4>2. i \in 1 .. Len(l) /\ i # 1
        BY <2>1, <3>3, <4>1
      <4>3. i - 1 \in DOMAIN Tail(l) /\ Tail(l)[i - 1] = l[i]
        BY <2>1, <4>1, <4>2
      <4> QED BY <3>3, <4>3
    <3> QED BY <2>1, <2>4, <3>1, <3>2, <3>3 DEF Served
  <2> HIDE DEF k
  <2> QED BY <1>3, <2>1, <2>3, <2>5
<1>7. CASE BeginWrite(s)
  <2>1. PICK c \in cast[s].targets :
           cast' = [cast EXCEPT ![s].targets = @ \ {c}, ![s].writing = c]
    BY <1>7 DEF BeginWrite
  <2> DEFINE k == [cast[s] EXCEPT !.targets = cast[s].targets \ {c}, !.writing = c]
  <2>2. cast' = [cast EXCEPT ![s] = k] /\ cast[s].writing = NoConn
    BY <1>7, <2>1 DEF BeginWrite, BetweenWrites
  <2>3. k \in Cast
    BY <1>1, CastFields, CastTargets, CastWriting
  <2>4. /\ k.owed = cast[s].owed /\ k.written = cast[s].written
        /\ k.writing = c /\ k.topics = cast[s].topics
        /\ k.targets = cast[s].targets \ {c}
    BY <1>1 DEF Cast
  <2> HIDE DEF k
  <2>5. ASSUME NEW d \in k.owed PROVE phase[d] # "new" /\ Served(k, d)
    BY <1>4, <2>2, <2>4, NoConnAssumption DEF Served
  <2> QED BY <1>3, <2>2, <2>3, <2>5
<1>8. CASE Written(s)
  <2> DEFINE k == [cast[s] EXCEPT !.writing = NoConn,
                                  !.written = cast[s].written \cup {cast[s].writing}]
  <2>1. cast' = [cast EXCEPT ![s] = k] /\ cast[s].writing # NoConn
    BY <1>8 DEF Written
  <2>2. k \in Cast
    BY <1>1, <2>1, CastFields, CastWriting, CastWritten
  <2>3. /\ k.owed = cast[s].owed /\ k.written = cast[s].written \cup {cast[s].writing}
        /\ k.topics = cast[s].topics /\ k.targets = cast[s].targets
    BY <1>1 DEF Cast
  <2> HIDE DEF k
  <2>4. ASSUME NEW d \in k.owed PROVE phase[d] # "new" /\ Served(k, d)
    BY <1>4, <2>3 DEF Served
  <2> QED BY <1>3, <2>1, <2>2, <2>4
<1>9. CASE WriteFailed(s)
  <2> DEFINE k == [cast[s] EXCEPT !.writing = NoConn]
  <2>1. cast' = [cast EXCEPT ![s] = k] /\ Fails(cast[s].writing)
    BY <1>9 DEF WriteFailed, AfterFailedWrite
  <2>2. k \in Cast
    BY <1>1, CastWriting
  <2>3. /\ k.owed = cast[s].owed /\ k.written = cast[s].written
        /\ k.topics = cast[s].topics /\ k.targets = cast[s].targets
    BY <1>1 DEF Cast
  <2> HIDE DEF k
  <2>4. ASSUME NEW d \in k.owed PROVE phase[d] # "new" /\ Served(k, d)
    BY <1>4, <2>1, <2>3 DEF Served, Fails
  <2> QED BY <1>3, <2>1, <2>2, <2>4
<1>10. CASE Return(s)
  <2>1. Idle.owed = {}
    BY DEF Idle
  <2> QED BY <1>3, <1>10, <2>1, IdleType DEF Return
<1> QED BY <1>5, <1>6, <1>7, <1>8, <1>9, <1>10 DEF Sending

\* Whoever is owed a broadcast and still there gets it, whatever leaves, breaks or
\* is dropped beside it.
THEOREM HubNobodyPassedOver == Spec => []NobodyPassedOver
<1>1. Init => PassInv
  <2>1. Idle.owed = {}
    BY DEF Idle
  <2>2. Init => \A s \in Sender : cast[s] = Idle
    BY DEF Init
  <2> QED BY <2>1, <2>2 DEF PassInv
<1>2. TypeOK /\ ExactInv /\ PassInv /\ [Next]_vars => PassInv'
  <2> SUFFICES ASSUME TypeOK, ExactInv, PassInv, [Next]_vars PROVE PassInv'
    OBVIOUS
  <2>1. CASE UNCHANGED vars
    BY <2>1 DEF vars, PassInv, Served
  <2>2. CASE Next
    BY <2>2, ClientPass, SendingPass DEF Next
  <2> QED BY <2>1, <2>2
<1>3. PassInv => NobodyPassedOver
  BY DEF PassInv, Served, NobodyPassedOver
<1> QED BY <1>1, <1>2, <1>3, HubTypeOK, SpecExact, PTL DEF Spec

=============================================================================
