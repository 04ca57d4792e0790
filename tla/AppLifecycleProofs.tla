------------------------- MODULE AppLifecycleProofs -------------------------
(***************************************************************************)
(* Proofs about AppLifecycle, for every number of messages, clients,       *)
(* starts and mishaps and for all settings.                                *)
(***************************************************************************)
EXTENDS AppLifecycle, FiniteSetTheorems, TLAPS

-----------------------------------------------------------------------------
(* Types *)

\* What the broker puts back is a message as before.
LEMMA RequeuedType ==
    ASSUME TypeOK
    PROVE  Requeued \in [Message -> [queue : Queue, at : {"ready"} \cup Held \cup Settled]]
BY DEF TypeOK, Requeued

\* The end of a process leaves every variable its type.
LEMMA EndType ==
    ASSUME TypeOK, NEW how \in Ended, End(how),
           schema' \in [version : 0 .. LastVersion, dirty : BOOLEAN],
           starts' \in 0 .. MaxStarts, mishaps' \in 0 .. MaxMishaps
    PROVE  TypeOK'
<1>1. message' \in [Message -> [queue : Queue, at : {"ready"} \cup Held \cup Settled]]
  BY RequeuedType DEF End
<1>2. settings' \in [concurrency : Int, rate : Int, interval : Int]
  BY DEF End, Unset
<1>3. worker' \in [Queue -> Nat]
  BY DEF End
<1> QED BY <1>1, <1>2, <1>3 DEF TypeOK, End

\* So does a fatal error.
LEMMA FatalType ==
    ASSUME TypeOK, Fatal,
           schema' \in [version : 0 .. LastVersion, dirty : BOOLEAN],
           starts' \in 0 .. MaxStarts, mishaps' \in 0 .. MaxMishaps
    PROVE  TypeOK'
BY EndType DEF Fatal, Ended

\* A mishap stays within its bound.
LEMMA MishapType ==
    ASSUME TypeOK, Mishap
    PROVE  mishaps' \in 0 .. MaxMishaps
BY BoundsAssumption DEF TypeOK, Mishap

\* The workers at work on a queue are a number.
LEMMA WorkType ==
    ASSUME TypeOK, NEW q \in Queue, NEW places
    PROVE  Cardinality(In(q, places)) \in Nat
BY MessageAssumption, FS_Subset, FS_CardinalityType DEF In

\* A start keeps the types.
LEMMA BuildType ==
    ASSUME TypeOK, Start \/ Build
    PROVE  TypeOK'
<1>1. CASE Start
  BY <1>1, BoundsAssumption DEF Start, TypeOK, resources, pool, history, Ended, Building
<1>2. CASE LoadConfig
  BY <1>2, SettingsAssumption DEF LoadConfig, TypeOK, resources, pool, history, Building
<1>3. CASE ConnectDatabase
  <2>1. CASE Fatal /\ Mishap
    BY <1>3, <2>1, FatalType, MishapType DEF ConnectDatabase, TypeOK
  <2>2. CASE ~(Fatal /\ Mishap)
    BY <1>3, <2>2 DEF ConnectDatabase, TypeOK, pool, history, Building
  <2> QED BY <2>1, <2>2
<1>4. CASE Migrate
  <2>1. CASE Refuses /\ Fatal /\ UNCHANGED schema
    BY <1>4, <2>1, FatalType DEF Migrate, TypeOK
  <2>2. CASE ~(Refuses /\ Fatal /\ UNCHANGED schema)
    <3>1. schema' \in [version : 0 .. LastVersion, dirty : BOOLEAN]
      <4>1. CASE UNCHANGED schema
        BY <4>1 DEF TypeOK
      <4>2. CASE /\ schema.version # LastVersion
                 /\ schema' = [version |-> schema.version + 1, dirty |-> TRUE]
        <5>1. schema.version \in 0 .. LastVersion
          BY DEF TypeOK
        <5>2. schema.version + 1 \in 0 .. LastVersion
          BY <4>2, <5>1, LastVersionAssumption
        <5> QED BY <4>2, <5>2
      <4> QED BY <1>4, <2>2, <4>1, <4>2 DEF Migrate
    <3>2. main' \in Building
      BY <1>4, <2>2 DEF Migrate, Building
    <3> QED BY <1>4, <2>2, <3>1, <3>2 DEF Migrate, TypeOK, resources, pool, history
  <2> QED BY <2>1, <2>2
<1>5. CASE MigrationRuns
  <2>1. CASE Fatal /\ Mishap /\ UNCHANGED schema
    BY <1>5, <2>1, FatalType, MishapType DEF MigrationRuns, TypeOK
  <2>2. CASE ~(Fatal /\ Mishap /\ UNCHANGED schema)
    <3>1. schema' \in [version : 0 .. LastVersion, dirty : BOOLEAN]
      BY <1>5, <2>2 DEF MigrationRuns, TypeOK
    <3>2. main' \in Building
      BY <1>5, <2>2 DEF MigrationRuns, Building
    <3> QED BY <1>5, <2>2, <3>1, <3>2 DEF MigrationRuns, TypeOK, resources, pool, history
  <2> QED BY <2>1, <2>2
<1>6. CASE ConnectBroker
  <2>1. CASE Fatal /\ Mishap
    BY <1>6, <2>1, FatalType, MishapType DEF ConnectBroker, TypeOK
  <2>2. CASE ~(Fatal /\ Mishap)
    BY <1>6, <2>2 DEF ConnectBroker, TypeOK, pool, history, Building
  <2> QED BY <2>1, <2>2
<1> QED BY <1>1, <1>2, <1>3, <1>4, <1>5, <1>6 DEF Build

\* A loss of the channel keeps the types of what it touches.
LEMMA ChannelGoneType ==
    ASSUME TypeOK, ChannelGone
    PROVE  /\ channel' \in {"closed", "open"}
           /\ worker' \in [Queue -> Nat]
           /\ message' \in [Message -> [queue : Queue, at : {"ready"} \cup Held \cup Settled]]
BY DEF TypeOK, ChannelGone, Requeued

\* Whether something is a member of a set is a truth value.
LEMMA MembershipIsTruth ==
    ASSUME NEW x, NEW S, NEW b, b = (x \in S)
    PROVE  b \in BOOLEAN
OBVIOUS

\* Run keeps the types.
LEMMA RunType ==
    ASSUME TypeOK, Run
    PROVE  TypeOK'
<1>1. CASE MakeContext
  BY <1>1 DEF MakeContext, TypeOK, resources, pool, history
<1>2. ASSUME NEW q \in Queue, StartConsumer(q) PROVE TypeOK'
  <2>1. CASE StartFailed
    BY <1>2, <2>1, FatalType, MishapType DEF StartConsumer, StartFailed, TypeOK
  <2>2. CASE ~StartFailed
    BY <1>2, <2>2 DEF StartConsumer, WorkersOf, TypeOK, resources, history, Queue
  <2> QED BY <2>1, <2>2
<1>3. CASE StartTicker
  <2>1. CASE settings.interval <= 0 /\ Fatal
    BY <1>3, <2>1, FatalType DEF StartTicker, TypeOK
  <2>2. CASE ~(settings.interval <= 0 /\ Fatal)
    BY <1>3, <2>2 DEF StartTicker, TypeOK, resources, pool, history
  <2> QED BY <2>1, <2>2
<1>4. CASE Listen
  <2>1. CASE Fatal /\ Mishap
    BY <1>4, <2>1, FatalType, MishapType DEF Listen, TypeOK
  <2>2. CASE ~(Fatal /\ Mishap)
    <3>1. late' \in BOOLEAN
      <4>1. late' = (main \in Stopping \ {"cancel", "drain"})
        BY <1>4, <2>2 DEF Listen
      <4> QED BY <4>1, MembershipIsTruth
    <3> QED BY <1>4, <2>2, <3>1 DEF Listen, TypeOK, resources, pool
  <2> QED BY <2>1, <2>2
<1> QED BY <1>1, <1>2, <1>3, <1>4 DEF Run

\* Shutdown keeps the types.
LEMMA ShutdownType ==
    ASSUME TypeOK, Signal \/ Shutdown
    PROVE  TypeOK'
<1>1. CASE Signal
  BY <1>1 DEF Signal, TypeOK, resources, pool, history, Stopping
<1>2. CASE CancelContext
  BY <1>2 DEF CancelContext, Stage, After, TypeOK, resources, pool, history, Stopping
<1>3. CASE StopListening
  BY <1>3 DEF StopListening, Stage, After, TypeOK, resources, pool, history, Stopping
<1>4. CASE Drained
  BY <1>4 DEF Drained, Stage, After, TypeOK, resources, pool, Stopping
<1>5. CASE CloseChannel
  BY <1>5, ChannelGoneType DEF CloseChannel, Stage, After, TypeOK, history, Stopping
<1>6. CASE CloseConnection
  BY <1>6 DEF CloseConnection, Stage, After, TypeOK, pool, history, Stopping
<1>7. CASE CloseDatabase
  BY <1>7 DEF CloseDatabase, Stage, After, TypeOK, pool, history, Stopping
<1>8. CASE Return
  BY <1>8, EndType DEF Return, TypeOK, Ended
<1> QED BY <1>1, <1>2, <1>3, <1>4, <1>5, <1>6, <1>7, <1>8 DEF Shutdown

\* The pool, the world outside and the clients keep the types.
LEMMA WorkKeepsType ==
    ASSUME TypeOK,
           \/ \E m \in Message : Deliver(m) \/ Work(m)
           \/ \E q \in Queue : WorkerExits(q)
           \/ \E c \in Client : Ask(c) \/ Answered(c)
           \/ ConsumerTimeout \/ LoseConnection \/ Crash
    PROVE  TypeOK'
<1>1. ASSUME NEW m \in Message, Deliver(m) PROVE TypeOK'
  BY <1>1 DEF Deliver, Put, PoolUnchanged, TypeOK, Held, Queue
<1>2. ASSUME NEW m \in Message, Take(m) PROVE TypeOK'
  BY <1>2 DEF Take, Put, PoolUnchanged, TypeOK, Held, Queue
<1>3. ASSUME NEW m \in Message, Wait(m) PROVE TypeOK'
  BY <1>3 DEF Wait, Put, PoolUnchanged, TypeOK, Held, Queue
<1>4. ASSUME NEW m \in Message, Handle(m) PROVE TypeOK'
  <2>1. message' \in [Message -> [queue : Queue, at : {"ready"} \cup Held \cup Settled]]
    <3>1. Nacked(m) \in [queue : Queue, at : {"ready"} \cup Held \cup Settled]
      BY DEF Nacked, Queue, Settled
    <3> QED BY <1>4, <3>1 DEF Handle, Put, TypeOK, Held, Settled
  <2>2. hung' \in BOOLEAN /\ mishaps' \in 0 .. MaxMishaps
    BY <1>4, MishapType DEF Handle, TypeOK
  <2> QED BY <1>4, <2>1, <2>2 DEF Handle, PoolUnchanged, TypeOK
<1>5. ASSUME NEW q \in Queue, WorkerExits(q) PROVE TypeOK'
  <2>1. Cardinality(In(q, Busy)) \in Nat
    BY WorkType
  <2> QED BY <1>5, <2>1 DEF WorkerExits, Idle, PoolUnchanged, TypeOK
<1>6. ASSUME NEW c \in Client, Ask(c) \/ Answered(c) PROVE TypeOK'
  BY <1>6 DEF Ask, Answered, TypeOK, resources, pool, history
<1>7. CASE ConsumerTimeout
  BY <1>7, ChannelGoneType DEF ConsumerTimeout, PoolUnchanged, TypeOK
<1>8. CASE LoseConnection
  BY <1>8, ChannelGoneType, MishapType DEF LoseConnection, TypeOK, history
<1>9. CASE Crash
  BY <1>9, EndType, MishapType DEF Crash, TypeOK
<1> QED BY <1>1, <1>2, <1>3, <1>4, <1>5, <1>6, <1>7, <1>8, <1>9 DEF Work

\* Every step keeps the types.
LEMMA NextType ==
    ASSUME TypeOK, [Next]_vars
    PROVE  TypeOK'
<1>1. CASE Next
  BY <1>1, BuildType, RunType, ShutdownType, WorkKeepsType DEF Next
<1>2. CASE UNCHANGED vars
  BY <1>2 DEF vars, resources, pool, history, TypeOK
<1> QED BY <1>1, <1>2

\* Types are kept: in particular no queue has fewer than no workers, whatever
\* WORKER_CONCURRENCY says.
THEOREM LifecycleTypeOK == Spec => []TypeOK
<1>1. Init => TypeOK
  <2> SUFFICES ASSUME Init PROVE TypeOK
    OBVIOUS
  <2>1. settings \in [concurrency : Int, rate : Int, interval : Int]
    BY DEF Init, Unset
  <2>2. schema \in [version : 0 .. LastVersion, dirty : BOOLEAN]
    BY LastVersionAssumption DEF Init
  <2>3. message \in [Message -> [queue : Queue, at : {"ready"} \cup Held \cup Settled]]
    BY DEF Init, Queue
  <2>4. worker \in [Queue -> Nat]
    BY DEF Init
  <2>5. /\ main \in Ended /\ run = "off" /\ ctx = "none"
        /\ database = "closed" /\ connection = "closed" /\ channel = "closed"
        /\ http = "off" /\ request = {}
        /\ hung = FALSE /\ overdue = FALSE /\ late = FALSE
        /\ starts = 0 /\ mishaps = 0
    BY DEF Init, Ended
  <2>6. starts \in 0 .. MaxStarts /\ mishaps \in 0 .. MaxMishaps
    BY <2>5, BoundsAssumption
  <2> QED BY <2>1, <2>2, <2>3, <2>4, <2>5, <2>6 DEF TypeOK
<1>2. TypeOK /\ [Next]_vars => TypeOK'
  BY NextType
<1> QED BY <1>1, <1>2, PTL DEF Spec

-----------------------------------------------------------------------------
(* What a request meets *)

\* Where main is while requests are answered, and when they no longer are.
Whole == {"waiting", "cancel", "drain", "draining"}
Closing == Stopping \ {"cancel", "drain", "draining"}

\* Past the migrations the schema is full, and only past them does Run begin.
SchemaInv ==
    /\ main \in {"broker", "waiting"} \cup Stopping =>
           schema = [version |-> LastVersion, dirty |-> FALSE]
    /\ run # "off" \/ http = "on" \/ request # {} => main \in {"waiting"} \cup Stopping

\* The database is opened before and closed after anything that needs it, the
\* broker likewise; a server or a request outlasts the wait for it only when Run
\* was late or the wait timed out.
RequestInv ==
    /\ main \in {"migrate", "migrating", "broker"} \cup Whole => database = "open"
    /\ main \in Whole => connection \in {"open", "lost"}
    /\ http = "on" /\ main \in {"draining"} \cup Closing => late
    /\ request # {} /\ main \in Closing => overdue \/ late

ServingInv == SchemaInv /\ RequestInv

\* A process that ended serves nobody.
LEMMA EndServing ==
    ASSUME NEW how \in Ended, End(how)
    PROVE  ServingInv'
BY DEF End, Ended, ServingInv, SchemaInv, RequestInv, Stopping, Whole, Closing

LEMMA FatalServing ==
    ASSUME Fatal
    PROVE  ServingInv'
BY EndServing DEF Fatal, Ended

\* A start keeps the invariant: Up returns only for a full, clean schema.
LEMMA BuildServing ==
    ASSUME TypeOK, ServingInv, Start \/ Build
    PROVE  ServingInv'
<1> USE DEF ServingInv, SchemaInv, RequestInv, Stopping, Whole, Closing
<1>1. CASE Start
  BY <1>1 DEF Start, Ended, resources
<1>2. CASE LoadConfig
  BY <1>2 DEF LoadConfig, resources
<1>3. CASE ConnectDatabase
  BY <1>3, FatalServing DEF ConnectDatabase
<1>4. CASE Migrate
  <2>1. CASE Fatal
    BY <2>1, FatalServing
  <2>2. CASE ~Fatal /\ ~schema.dirty /\ schema.version = LastVersion
    <3>1. schema = [version |-> LastVersion, dirty |-> FALSE]
      BY <2>2 DEF TypeOK
    <3> QED BY <1>4, <2>2, <3>1 DEF Migrate, Refuses, resources
  <2>3. CASE ~Fatal /\ ~schema.dirty /\ schema.version # LastVersion
    BY <1>4, <2>3 DEF Migrate, Refuses, resources
  <2> QED BY <1>4, <2>1, <2>2, <2>3 DEF Migrate, Refuses
<1>5. CASE MigrationRuns
  BY <1>5, FatalServing DEF MigrationRuns, resources
<1>6. CASE ConnectBroker
  BY <1>6, FatalServing DEF ConnectBroker
<1> QED BY <1>1, <1>2, <1>3, <1>4, <1>5, <1>6 DEF Build

\* So does Run: it serves in time, or it is late.
LEMMA RunServing ==
    ASSUME TypeOK, ServingInv, Run
    PROVE  ServingInv'
<1> USE DEF ServingInv, SchemaInv, RequestInv, Stopping, Whole, Closing
<1>1. CASE Fatal
  BY <1>1, FatalServing
<1>2. CASE MakeContext
  BY <1>2 DEF MakeContext, resources, history
<1>3. ASSUME NEW q \in Queue, StartConsumer(q), ~Fatal PROVE ServingInv'
  BY <1>3 DEF StartConsumer, StartFailed, resources, history, Queue
<1>4. CASE StartTicker /\ ~Fatal
  BY <1>4 DEF StartTicker, resources, history
<1>5. CASE Listen /\ ~Fatal
  BY <1>5 DEF Listen, resources
<1> QED BY <1>1, <1>2, <1>3, <1>4, <1>5 DEF Run

\* So does Shutdown: it stops to listen before it waits, and waits before it closes.
LEMMA ShutdownServing ==
    ASSUME TypeOK, ServingInv, Signal \/ Shutdown
    PROVE  ServingInv'
<1> USE DEF ServingInv, SchemaInv, RequestInv, Stopping, Whole, Closing
<1>1. CASE Signal
  BY <1>1 DEF Signal, resources, history
<1>2. CASE CancelContext
  BY <1>2 DEF CancelContext, Stage, After, resources, history
<1>3. CASE StopListening
  BY <1>3 DEF StopListening, Stage, After, resources, history
<1>4. CASE Drained
  BY <1>4 DEF Drained, Stage, After, resources
<1>5. CASE CloseChannel
  BY <1>5 DEF CloseChannel, Stage, After, history
<1>6. CASE CloseConnection
  BY <1>6 DEF CloseConnection, Stage, After, history
<1>7. CASE CloseDatabase
  BY <1>7 DEF CloseDatabase, Stage, After, history
<1>8. CASE Return
  BY <1>8, EndServing DEF Return, Ended
<1> QED BY <1>1, <1>2, <1>3, <1>4, <1>5, <1>6, <1>7, <1>8 DEF Shutdown

\* Workers, broker and clients leave alone what serving depends on.
LEMMA WorkServing ==
    ASSUME TypeOK, ServingInv,
           \/ \E m \in Message : Deliver(m) \/ Work(m)
           \/ \E q \in Queue : WorkerExits(q)
           \/ \E c \in Client : Ask(c) \/ Answered(c)
           \/ ConsumerTimeout \/ LoseConnection \/ Crash
    PROVE  ServingInv'
<1> USE DEF ServingInv, SchemaInv, RequestInv
<1>1. CASE PoolUnchanged
  BY <1>1 DEF PoolUnchanged
<1>2. ASSUME NEW c \in Client, Ask(c) PROVE ServingInv'
  BY <1>2 DEF Ask, resources, history, Closing
<1>3. ASSUME NEW c \in Client, Answered(c) PROVE ServingInv'
  BY <1>3 DEF Answered, resources, history
<1>4. CASE LoseConnection
  BY <1>4 DEF LoseConnection, history
<1>5. CASE Crash
  BY <1>5, EndServing DEF Crash
<1> QED BY <1>1, <1>2, <1>3, <1>4, <1>5
        DEF Deliver, Work, Take, Wait, Handle, WorkerExits, ConsumerTimeout

\* Every step keeps the invariant.
LEMMA NextServing ==
    ASSUME TypeOK, ServingInv, [Next]_vars
    PROVE  ServingInv'
<1>1. CASE Next
  BY <1>1, BuildServing, RunServing, ShutdownServing, WorkServing DEF Next
<1>2. CASE UNCHANGED vars
  BY <1>2 DEF vars, resources, history, ServingInv, SchemaInv, RequestInv
<1> QED BY <1>1, <1>2

LEMMA SpecServing == Spec => []ServingInv
<1>1. Init => ServingInv
  BY DEF Init, ServingInv, SchemaInv, RequestInv, Stopping, Whole, Closing
<1>2. TypeOK /\ ServingInv /\ [Next]_vars => ServingInv'
  BY NextServing
<1> QED BY <1>1, <1>2, LifecycleTypeOK, PTL DEF Spec

\* However often and wherever earlier starts were interrupted, a request meets
\* the full schema.
THEOREM LifecycleServesFullSchema == Spec => []ServesFullSchema
<1>1. ServingInv => ServesFullSchema
  BY DEF ServingInv, SchemaInv, ServesFullSchema
<1> QED BY <1>1, SpecServing, PTL

\* Whatever the order in which Run and Shutdown take their steps, a request that
\* the server waits for has database and broker, but for the two exceptions.
THEOREM LifecycleRequestsHaveDependencies == Spec => []RequestsHaveDependencies
<1>1. ServingInv => RequestsHaveDependencies
  BY DEF ServingInv, SchemaInv, RequestInv, RequestsHaveDependencies, Stopping, Whole, Closing
<1> QED BY <1>1, SpecServing, PTL

-----------------------------------------------------------------------------
(* Why a healthy process goes deaf *)

Started(q) == run \notin {"off", "begin", "main", q}

Culprit == hung \/ settings.rate < 1 \/ settings.concurrency < 1

\* Until main has its signal the context is live, so no worker leaves.
ContextInv ==
    /\ ctx = "cancelled" => main \in Stopping \ {"cancel"}
    /\ main = "waiting" /\ run \notin {"off", "begin"} => ctx = "live"

\* A delivery is held only behind a started consumer; it hangs, or is given up,
\* for the one reason there is.
HeldInv ==
    \A m \in Message :
        /\ message[m].at \in Held => Started(message[m].queue)
        /\ message[m].at = "hung" => hung
        /\ message[m].at = "abandoned" => ctx # "live" \/ settings.rate < 1

\* As long as the channel is open every worker is there.
WorkersInv ==
    /\ main = "waiting" /\ channel = "open" =>
        \A q \in Queue : Started(q) => worker[q] = WorkersOf(q)
    /\ main = "waiting" /\ channel = "closed" => connection # "open" \/ Culprit

PoolInv == ContextInv /\ HeldInv /\ WorkersInv

\* With the process its deliveries go back to the broker.
LEMMA EndPool ==
    ASSUME TypeOK, NEW how \in Ended, End(how)
    PROVE  PoolInv'
<1>1. \A m \in Message : message'[m].at \notin Held
  BY DEF End, Requeued, TypeOK, Held, Settled
<1>2. HeldInv'
  BY <1>1 DEF HeldInv, Held
<1>3. ContextInv' /\ WorkersInv'
  BY DEF End, Ended, ContextInv, WorkersInv
<1> QED BY <1>2, <1>3 DEF PoolInv

LEMMA FatalPool ==
    ASSUME TypeOK, Fatal
    PROVE  PoolInv'
BY EndPool DEF Fatal, Ended

\* With the channel too.
LEMMA ChannelGonePool ==
    ASSUME TypeOK, ChannelGone
    PROVE  HeldInv'
<1>1. \A m \in Message : message'[m].at \notin Held
  BY DEF ChannelGone, Requeued, TypeOK, Held, Settled
<1> QED BY <1>1 DEF HeldInv, Held

\* While the process is built nothing runs yet.
LEMMA BuildPool ==
    ASSUME TypeOK, ServingInv, PoolInv, Start \/ Build
    PROVE  PoolInv'
<1> USE DEF PoolInv, ContextInv, HeldInv, WorkersInv, Started, Stopping
<1>1. run = "off" /\ main \in Building \cup Ended
  BY DEF Start, Build, LoadConfig, ConnectDatabase, Migrate, MigrationRuns, ConnectBroker,
         ServingInv, SchemaInv, Building, Ended
<1>2. \A m \in Message : message[m].at \notin Held
  BY <1>1
<1>3. ctx # "cancelled"
  BY <1>1 DEF Building, Ended
<1>4. CASE Fatal
  BY <1>4, FatalPool
<1>5. CASE Start
  BY <1>1, <1>2, <1>5 DEF Start, resources, pool, history, Ended, Held, WorkersOf, Culprit
<1>6. CASE LoadConfig
  BY <1>2, <1>3, <1>6 DEF LoadConfig, resources, pool, history, Held
<1>7. CASE ConnectDatabase /\ ~Fatal
  BY <1>2, <1>3, <1>7 DEF ConnectDatabase, pool, history, Held
<1>8. CASE Migrate /\ ~Fatal
  BY <1>2, <1>3, <1>8 DEF Migrate, resources, pool, history, Held
<1>9. CASE MigrationRuns /\ ~Fatal
  BY <1>2, <1>3, <1>9 DEF MigrationRuns, resources, pool, history, Held
<1>10. CASE ConnectBroker /\ ~Fatal
  BY <1>2, <1>3, <1>10 DEF ConnectBroker, pool, history, Held
<1> QED BY <1>4, <1>5, <1>6, <1>7, <1>8, <1>9, <1>10 DEF Build

\* Run starts a consumer with all its workers, or ends the process.
LEMMA RunPool ==
    ASSUME TypeOK, PoolInv, Run
    PROVE  PoolInv'
<1> USE DEF PoolInv, ContextInv, HeldInv, WorkersInv, Started
<1>1. CASE Fatal
  BY <1>1, FatalPool
<1>2. CASE MakeContext
  <2>1. \A m \in Message : message'[m].at \notin Held
    BY <1>2 DEF MakeContext, pool
  <2>2. HeldInv'
    BY <2>1 DEF Held
  <2>3. ContextInv'
    BY <1>2 DEF MakeContext, TypeOK
  <2>4. WorkersInv'
    BY <1>2 DEF MakeContext, resources, history, Culprit, Queue
  <2> QED BY <2>2, <2>3, <2>4
<1>3. ASSUME NEW q \in Queue, StartConsumer(q), ~Fatal PROVE PoolInv'
  <2>1. /\ run = q /\ run' = IF q = "main" THEN "dlq" ELSE "ticker"
        /\ worker' = [worker EXCEPT ![q] = WorkersOf(q)]
        /\ UNCHANGED <<main, settings, ctx, resources, history, message>>
    BY <1>3 DEF StartConsumer, StartFailed
  <2>2. \A k \in Queue : Started(k)' => Started(k) \/ k = q
    BY <2>1 DEF Queue
  <2>3. \A k \in Queue : Started(k) => Started(k)' /\ k # q
    BY <2>1 DEF Queue
  <2>4. \A m \in Message : message[m].queue \in Queue
    BY DEF TypeOK
  <2>5. HeldInv'
    BY <2>1, <2>3, <2>4 DEF history
  <2>6. ContextInv'
    BY <2>1 DEF Queue
  <2>7. \A k \in Queue : WorkersOf(k)' = WorkersOf(k)
    BY <2>1 DEF WorkersOf
  <2>8. WorkersInv'
    BY <2>1, <2>2, <2>3, <2>7 DEF TypeOK, resources, history, Culprit
  <2> QED BY <2>5, <2>6, <2>8
<1>4. CASE (StartTicker \/ Listen) /\ ~Fatal
  <2>1. /\ run \in {"ticker", "listen"} /\ run' \in {"listen", "serving"}
        /\ UNCHANGED <<main, settings, ctx, resources, worker, message, hung>>
    BY <1>4 DEF StartTicker, Listen, pool, history
  <2>2. \A q \in Queue : Started(q) /\ Started(q)'
    BY <2>1 DEF Queue
  <2>3. \A q \in Queue : WorkersOf(q)' = WorkersOf(q)
    BY <2>1 DEF WorkersOf
  <2>4. \A m \in Message : message[m].queue \in Queue
    BY DEF TypeOK
  <2>5. HeldInv'
    BY <2>1, <2>2, <2>4
  <2>6. ContextInv'
    BY <2>1
  <2>7. WorkersInv'
    BY <2>1, <2>2, <2>3 DEF resources, Culprit
  <2> QED BY <2>5, <2>6, <2>7
<1> QED BY <1>1, <1>2, <1>3, <1>4 DEF Run

\* From the signal on nothing is promised of the workers.
LEMMA ShutdownPool ==
    ASSUME TypeOK, ServingInv, PoolInv, Signal \/ Shutdown
    PROVE  PoolInv'
<1> USE DEF PoolInv, ContextInv, HeldInv, WorkersInv, Started, Stopping
<1>1. CASE Signal
  BY <1>1 DEF Signal, resources, pool, history
<1>2. CASE CancelContext
  BY <1>2 DEF CancelContext, Stage, After, resources, pool, history
<1>3. CASE StopListening
  BY <1>3 DEF StopListening, Stage, After, resources, pool, history, Queue, TypeOK
<1>4. CASE Drained
  BY <1>4 DEF Drained, Stage, After, resources, pool
<1>5. CASE CloseChannel
  BY <1>5, ChannelGonePool DEF CloseChannel, Stage, After, history
<1>6. CASE CloseConnection
  BY <1>6 DEF CloseConnection, Stage, After, pool, history
<1>7. CASE CloseDatabase
  BY <1>7 DEF CloseDatabase, Stage, After, pool, history
<1>8. CASE Return
  BY <1>8, EndPool DEF Return, Ended
<1> QED BY <1>1, <1>2, <1>3, <1>4, <1>5, <1>6, <1>7, <1>8 DEF Shutdown

\* A step of one delivery m that stays with its consumer, or leaves it.
LEMMA OneDelivery ==
    ASSUME TypeOK, PoolInv, PoolUnchanged, UNCHANGED <<channel, worker>>,
           NEW m \in Message,
           \A n \in Message \ {m} : message'[n] = message[n],
           hung => hung',
           message'[m].at \in Held => Started(message'[m].queue),
           message'[m].at = "hung" => hung',
           message'[m].at = "abandoned" => ctx # "live" \/ settings.rate < 1
    PROVE  PoolInv'
<1>1. UNCHANGED <<main, run, ctx, settings, connection>>
  BY DEF PoolUnchanged
<1>2. \A q : Started(q)' <=> Started(q)
  BY <1>1 DEF Started
<1>3. \A q \in Queue : WorkersOf(q)' = WorkersOf(q)
  BY <1>1 DEF WorkersOf
<1>4. HeldInv'
  BY <1>1, <1>2 DEF PoolInv, HeldInv
<1>5. ContextInv' /\ WorkersInv'
  BY <1>1, <1>2, <1>3 DEF PoolInv, ContextInv, WorkersInv, Culprit
<1> QED BY <1>4, <1>5 DEF PoolInv

\* What a worker does with a delivery keeps the invariant.
LEMMA DeliveryPool ==
    ASSUME TypeOK, PoolInv, NEW m \in Message, Deliver(m) \/ Work(m)
    PROVE  PoolInv'
<1>1. /\ message \in [Message -> [queue : Queue, at : {"ready"} \cup Held \cup Settled]]
      /\ message[m].at \in Held => Started(message[m].queue)
  BY DEF TypeOK, PoolInv, HeldInv
<1>2. CASE Deliver(m)
  <2>1. Started(message[m].queue)
    BY <1>2 DEF Deliver, Consumed, Started
  <2>2. message' = [message EXCEPT ![m].at = "fetched"]
    BY <1>2 DEF Deliver, Put
  <2>3. /\ \A n \in Message \ {m} : message'[n] = message[n]
        /\ message'[m].queue = message[m].queue /\ message'[m].at = "fetched"
    BY <1>1, <2>2
  <2> QED BY <1>2, <2>1, <2>3, OneDelivery DEF Deliver
<1>3. CASE Take(m)
  <2>1. PICK place \in {"limiter", "handler"} : message' = [message EXCEPT ![m].at = place]
    BY <1>3 DEF Take, Put
  <2>2. /\ \A n \in Message \ {m} : message'[n] = message[n]
        /\ message'[m].queue = message[m].queue /\ message'[m].at \in {"limiter", "handler"}
    BY <1>1, <2>1
  <2>3. Started(message[m].queue)
    BY <1>1, <1>3 DEF Take, Held
  <2> QED BY <1>3, <2>2, <2>3, OneDelivery DEF Take
<1>4. CASE Wait(m)
  <2>1. PICK place \in {"handler", "abandoned"} :
           /\ message' = [message EXCEPT ![m].at = place]
           /\ place = "abandoned" => ~Admits
    BY <1>4 DEF Wait, Put
  <2>2. /\ \A n \in Message \ {m} : message'[n] = message[n]
        /\ message'[m].queue = message[m].queue /\ message'[m].at = place
    BY <1>1, <2>1
  <2>3. Started(message[m].queue)
    BY <1>1, <1>4 DEF Wait, Held
  <2>4. ~Admits => ctx # "live" \/ settings.rate < 1
    BY DEF Admits, TypeOK
  <2> QED BY <1>4, <2>1, <2>2, <2>3, <2>4, OneDelivery DEF Wait
<1>5. CASE Handle(m)
  <2>1. Started(message[m].queue)
    BY <1>1, <1>5 DEF Handle, Held
  <2>2. /\ PoolUnchanged /\ UNCHANGED <<channel, worker>> /\ (hung => hung')
    BY <1>5 DEF Handle, TypeOK
  <2>3. CASE message' = [message EXCEPT ![m] = Nacked(m)]
    <3>1. /\ \A n \in Message \ {m} : message'[n] = message[n]
          /\ message'[m].at \in {"ready", "discarded"}
      BY <1>1, <2>3 DEF Nacked
    <3> QED BY <2>2, <3>1, OneDelivery DEF Held
  <2>4. CASE \E place \in {"done", "hung"} :
               /\ message' = [message EXCEPT ![m].at = place]
               /\ place = "hung" => hung'
    <3>1. PICK place \in {"done", "hung"} :
             /\ message' = [message EXCEPT ![m].at = place]
             /\ place = "hung" => hung'
      BY <2>4
    <3>2. /\ \A n \in Message \ {m} : message'[n] = message[n]
          /\ message'[m].queue = message[m].queue /\ message'[m].at = place
      BY <1>1, <3>1
    <3> QED BY <2>1, <2>2, <3>1, <3>2, OneDelivery DEF Held
  <2> QED BY <1>5, <2>3, <2>4 DEF Handle, Put
<1> QED BY <1>2, <1>3, <1>4, <1>5 DEF Work

\* When the broker closes the channel of a process that runs there is a culprit:
\* the delivery hangs, was given up by the limiter, or no worker is free to take
\* it, which means that some other delivery hangs.
LEMMA TimeoutCulprit ==
    ASSUME TypeOK, PoolInv, main = "waiting", channel = "open",
           NEW m \in Message, Overdue(m)
    PROVE  Culprit
<1> DEFINE q == message[m].queue
<1>1. q \in Queue
  BY DEF TypeOK
<1>2. CASE message[m].at = "hung"
  BY <1>2 DEF PoolInv, HeldInv, Culprit
<1>3. CASE message[m].at = "abandoned"
  <2>1. Started(q)
    BY <1>3 DEF PoolInv, HeldInv, Held
  <2>2. ctx = "live"
    BY <2>1 DEF PoolInv, ContextInv, Started
  <2> QED BY <1>3, <2>2 DEF PoolInv, HeldInv, Culprit
<1>4. CASE message[m].at = "fetched" /\ worker[q] <= Cardinality(In(q, {"hung"}))
  <2>1. SUFFICES ASSUME settings.concurrency >= 1 PROVE hung
    BY DEF Culprit, TypeOK
  <2>2. worker[q] = WorkersOf(q)
    BY <1>1, <1>4 DEF PoolInv, HeldInv, WorkersInv, Held
  <2>3. WorkersOf(q) >= 1
    BY <2>1 DEF WorkersOf, TypeOK
  <2>4. Cardinality(In(q, {"hung"})) >= 1
    <3>1. Cardinality(In(q, {"hung"})) \in Nat
      BY <1>1, WorkType
    <3>2. WorkersOf(q) \in Int
      BY DEF WorkersOf, TypeOK
    <3> QED BY <1>4, <2>2, <2>3, <3>1, <3>2
  <2>5. In(q, {"hung"}) # {}
    BY <2>4, FS_EmptySet
  <2>6. PICK n \in Message : message[n].at = "hung"
    BY <2>5 DEF In
  <2> QED BY <2>6 DEF PoolInv, HeldInv
<1> QED BY <1>2, <1>3, <1>4 DEF Overdue

\* The other steps of pool, world and clients.
LEMMA WorldPool ==
    ASSUME TypeOK, PoolInv,
           \/ \E q \in Queue : WorkerExits(q)
           \/ \E c \in Client : Ask(c) \/ Answered(c)
           \/ ConsumerTimeout \/ LoseConnection \/ Crash
    PROVE  PoolInv'
<1>1. ASSUME NEW q \in Queue, WorkerExits(q) PROVE PoolInv'
  BY <1>1 DEF WorkerExits, PoolUnchanged, PoolInv, ContextInv, HeldInv, WorkersInv, Started,
              Stopping, Culprit
<1>2. ASSUME NEW c \in Client, Ask(c) \/ Answered(c) PROVE PoolInv'
  BY <1>2 DEF Ask, Answered, resources, pool, history, PoolInv, ContextInv, HeldInv,
              WorkersInv, WorkersOf, Started, Culprit
<1>3. CASE ConsumerTimeout
  <2>1. HeldInv'
    BY <1>3, ChannelGonePool DEF ConsumerTimeout
  <2>2. ContextInv'
    BY <1>3 DEF ConsumerTimeout, PoolUnchanged, PoolInv, ContextInv
  <2>3. main = "waiting" => Culprit
    BY <1>3, TimeoutCulprit DEF ConsumerTimeout
  <2>4. WorkersInv'
    BY <1>3, <2>3 DEF ConsumerTimeout, ChannelGone, PoolUnchanged, WorkersInv, Culprit
  <2> QED BY <2>1, <2>2, <2>4 DEF PoolInv
<1>4. CASE LoseConnection
  <2>1. HeldInv'
    BY <1>4, ChannelGonePool DEF LoseConnection
  <2>2. ContextInv' /\ WorkersInv'
    BY <1>4 DEF LoseConnection, ChannelGone, PoolInv, ContextInv, WorkersInv
  <2> QED BY <2>1, <2>2 DEF PoolInv
<1>5. CASE Crash
  BY <1>5, EndPool DEF Crash
<1> QED BY <1>1, <1>2, <1>3, <1>4, <1>5

\* Every step keeps the invariant.
LEMMA NextPool ==
    ASSUME TypeOK, ServingInv, PoolInv, [Next]_vars
    PROVE  PoolInv'
<1>1. CASE Next
  BY <1>1, BuildPool, RunPool, ShutdownPool, DeliveryPool, WorldPool DEF Next
<1>2. CASE UNCHANGED vars
  BY <1>2 DEF vars, resources, pool, history, PoolInv, ContextInv, HeldInv, WorkersInv,
              WorkersOf, Started, Culprit
<1> QED BY <1>1, <1>2

\* A process that is healthy but deaf has a culprit: nothing else, however its
\* goroutines interleave, takes a consumer's last worker.
THEOREM LifecycleDeafnessExplained == Spec => []DeafnessExplained
<1>1. Init => PoolInv
  BY DEF Init, PoolInv, ContextInv, HeldInv, WorkersInv, Held, Stopping
<1>2. TypeOK /\ ServingInv /\ PoolInv /\ [Next]_vars => PoolInv'
  BY NextPool
<1>3. TypeOK /\ PoolInv => DeafnessExplained
  <2> SUFFICES ASSUME TypeOK, PoolInv, NEW q \in Queue, Deaf(q), Healthy PROVE Culprit
    BY DEF DeafnessExplained, Culprit
  <2>1. CASE channel = "closed"
    BY <2>1 DEF PoolInv, WorkersInv, Deaf, Healthy
  <2>2. CASE channel = "open"
    <3>1. WorkersOf(q) = 0
      BY <2>2 DEF PoolInv, WorkersInv, Deaf, Started, Queue
    <3> QED BY <3>1 DEF WorkersOf, Culprit, TypeOK
  <2> QED BY <2>1, <2>2 DEF TypeOK
<1> QED BY <1>1, <1>2, <1>3, LifecycleTypeOK, SpecServing, PTL DEF Spec

=============================================================================
