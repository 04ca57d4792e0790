----------------------- MODULE PipelineDeliveryProofs -----------------------
(***************************************************************************)
(* Who still holds a notification, and how often the provider gets it, for *)
(* every value of the constants.                                           *)
(*                                                                         *)
(* InFlightHasCarrier.  A handler holds its notification from the moment   *)
(* it takes the message until the row says "sent"; unlike a carrying copy, *)
(* one whose delivery is still to be marked holds it too.  With that it is *)
(* inductive beside the types.                                             *)
(*                                                                         *)
(* CancelHolds needs no more than the types.                               *)
(*                                                                         *)
(* DeliveredOnce and OneVerdict.  In a prompt setting nobody publishes a   *)
(* notification again (WorkOnce), and of its copies one at most can still  *)
(* be sent, before any is (CopyOnce).                                      *)
(*                                                                         *)
(* DuplicatesBounded.  While the process runs, the deliveries and the      *)
(* copies that can still be sent are within the bound; once it stops, each *)
(* copy can be sent again, and one in a main handler's hand also before    *)
(* that (Bounded), for which an outage pays by tripling the bound.  The    *)
(* bound is a recursive function, and that there is one is proved first.   *)
(*                                                                         *)
(* PublishesBounded.  What creator, ticker and an outage underway may      *)
(* still publish counts as if it were published (Paced): a row left        *)
(* pending after its publish owes another one, and the call that failed or *)
(* the outage has paid for it.                                             *)
(***************************************************************************)
EXTENDS PipelineCustodyProofs, FiniteSetTheorems, WellFoundedInduction

InFlight(n) == row[n] \in {"processing", "retrying"}

Holding(c) == Stored(c) /\ job[c] \notin Settling \ {"markSent"}

FlightHeld ==
    \A n \in Notification :
        InFlight(n) => Lost(n) \/ \E c \in Copy : Holding(c) /\ msg[c].id = n

FInv == TInv /\ FlightHeld

LEMMA FInvInit == Init => FInv
BY TInvInit DEF Init, FInv, FlightHeld, InFlight

LEMMA FInvImplies == FInv => InFlightHasCarrier
BY DEF FInv, FlightHeld, InFlight, InFlightHasCarrier, Holding, Carrying, Carried, Lost

-----------------------------------------------------------------------------
(* What steps have in common *)

\* No row takes off, and nothing happens to the copies.
LEMMA RowFlight ==
    ASSUME FInv, UNCHANGED <<msg, job>>,
           \A n \in Notification : InFlight(n)' => InFlight(n),
           \A n \in Notification : events[n] \subseteq events'[n]
    PROVE  FlightHeld'
BY DEF FInv, FlightHeld, Holding, Stored, Lost

\* A save of another status lets no row take off.
LEMMA SaveFlight ==
    ASSUME FInv, NEW n \in Notification, NEW s \in Status \ {"processing", "retrying"},
           NEW what \in SUBSET Event, Save(n, s, what) \/ SaveFails(n, s, what)
    PROVE  /\ \A m \in Notification : InFlight(m)' => InFlight(m)
           /\ \A m \in Notification : events[m] \subseteq events'[m]
<1>1. /\ \A m \in Notification : events[m] \subseteq events'[m]
      /\ \A m \in Notification \ {n} : row'[m] = row[m]
      /\ row'[n] # row[n] => row'[n] = s
  BY SaveFacts DEF FInv
<1> QED
  BY <1>1 DEF InFlight

\* One copy and its notification change: who held another still does.
LEMMA CopyFlight ==
    ASSUME FInv, NEW c \in Copy, NEW n \in Notification, n = msg[c].id,
           \A d \in Copy : d # c => msg'[d] = msg[d] /\ job'[d] = job[d],
           msg'[c] # NoMessage => msg'[c].id = n,
           \A m \in Notification : m # n => row'[m] = row[m],
           \A m \in Notification : events[m] \subseteq events'[m],
           \/ msg'[c] # NoMessage /\ job'[c] \notin Settling \ {"markSent"}
           \/ ~InFlight(n)'
           \/ Lost(n)'
           \/ ~Holding(c) /\ (InFlight(n)' => InFlight(n))
    PROVE  FlightHeld'
<1> SUFFICES ASSUME NEW m \in Notification, InFlight(m)', ~Lost(m)'
             PROVE  \E d \in Copy : Holding(d)' /\ msg'[d].id = m
  BY DEF FlightHeld
<1>1. CASE m = n /\ msg'[c] # NoMessage /\ job'[c] \notin Settling \ {"markSent"}
  BY <1>1 DEF Holding, Stored
<1>2. CASE m # n \/ (~Holding(c) /\ (InFlight(n)' => InFlight(n)))
  <2>1. InFlight(m) /\ ~Lost(m)
    BY <1>2 DEF InFlight, Lost
  <2>2. PICK d \in Copy : Holding(d) /\ msg[d].id = m
    BY <2>1 DEF FInv, FlightHeld
  <2>3. d # c
    BY <1>2, <2>2
  <2> QED
    BY <2>2, <2>3 DEF Holding, Stored
<1> QED
  BY <1>1, <1>2

\* A publish that returns nil leaves its notification held or lost.
LEMMA PublishFlight ==
    ASSUME FInv, NEW q \in Queue, NEW n \in Notification, NEW r \in 0 .. MaxRetries,
           PublishReturnsNil(q, n, r), UNCHANGED row,
           \A d \in Copy : job'[d] # job[d] => Stored(d) /\ msg[d].id = n
    PROVE  FlightHeld'
<1> SUFFICES ASSUME NEW m \in Notification, InFlight(m)', ~Lost(m)'
             PROVE  \E d \in Copy : Holding(d)' /\ msg'[d].id = m
  BY DEF FlightHeld
<1>1. \A d \in Copy : Stored(d) => msg'[d] = msg[d]
  BY PublishInv DEF FInv
<1>2. \A l \in Notification : events[l] \subseteq events'[l]
  BY NoteGrows DEF PublishReturnsNil, PublishAccepted, PublishVanishes, FInv, Event
<1>3. CASE m # n
  <2>1. PICK d \in Copy : Holding(d) /\ msg[d].id = m
    BY <1>2 DEF FInv, FlightHeld, InFlight, Lost
  <2> QED
    BY <1>1, <1>3, <2>1 DEF Holding, Stored
<1>4. CASE m = n /\ PublishAccepted(q, n, r)
  <2>1. PICK e \in Copy : ~Stored(e) /\ msg' = [msg EXCEPT ![e] = Enqueued(q, n, r)]
    BY <1>4 DEF PublishAccepted
  <2>2. msg'[e] = Enqueued(q, n, r) /\ msg'[e] \in Message /\ msg'[e].id = n
    BY <2>1, EnqueuedType DEF Enqueued, FInv, TInv, TypeOK, BrokerTypeOK
  <2>3. job'[e] = "idle"
    BY <2>1 DEF FInv, TInv, JobsFit
  <2> QED
    BY <1>4, <2>2, <2>3, NoMessageAssumption DEF Holding, Stored, Settling
<1>5. CASE m = n /\ PublishVanishes(n)
  BY <1>5, NoteGrows DEF PublishVanishes, Lost, FInv, Event
<1> QED
  BY <1>3, <1>4, <1>5 DEF PublishReturnsNil

-----------------------------------------------------------------------------
(* One lemma per part of Next *)

LEMMA CreatorFlight ==
    ASSUME FInv, NEW r \in Request, CreateRows(r) \/ CreatorPublish(r) \/ CreatorMark(r)
    PROVE  FInv'
<1>t. TInv'
  BY CreatorTInv DEF FInv
<1>1. CASE CreateRows(r)
  <2>1. \A n \in Notification : InFlight(n)' => InFlight(n)
    BY <1>1 DEF CreateRows, InFlight
  <2> QED
    BY <1>1, <1>t, <2>1, RowFlight DEF CreateRows, FInv
<1>2. CASE CreatorPublish(r)
  <2>1. PICK n \in creator[r].publish :
           PublishReturnsNil("main", n, 0) \/ UNCHANGED <<msg, events>>
    BY <1>2 DEF CreatorPublish
  <2>2. n \in Notification /\ "main" \in Queue /\ 0 \in 0 .. MaxRetries
    BY MaxRetriesAssumption DEF FInv, TInv, TypeOK, Work, Queue
  <2>3. UNCHANGED <<row, job>>
    BY <1>2 DEF CreatorPublish
  <2>4. CASE PublishReturnsNil("main", n, 0)
    <3>1. FlightHeld'
      BY <2>2, <2>3, <2>4, PublishFlight
    <3> QED
      BY <1>t, <3>1 DEF FInv
  <2>5. CASE UNCHANGED <<msg, events>>
    BY <1>t, <2>3, <2>5, RowFlight DEF InFlight, FInv
  <2> QED
    BY <2>1, <2>4, <2>5
<1>3. CASE CreatorMark(r)
  <2>1. PICK n \in creator[r].mark : Save(n, "queued", {}) \/ SaveFails(n, "queued", {})
    BY <1>3 DEF CreatorMark
  <2>2. n \in Notification
    BY DEF FInv, TInv, TypeOK, Work
  <2>3. /\ \A m \in Notification : InFlight(m)' => InFlight(m)
        /\ \A m \in Notification : events[m] \subseteq events'[m]
    BY <2>1, <2>2, SaveFlight DEF Status
  <2> QED
    BY <1>3, <1>t, <2>3, RowFlight DEF CreatorMark, FInv
<1> QED
  BY <1>1, <1>2, <1>3

LEMMA CancelFlight ==
    ASSUME FInv, NEW n \in Notification, CancelRead(n) \/ CancelSave(n) \/ Ripen(n)
    PROVE  FInv'
<1>t. TInv'
  BY CancelTInv DEF FInv
<1>1. CASE CancelRead(n) \/ Ripen(n)
  BY <1>1, <1>t, RowFlight DEF CancelRead, Ripen, InFlight, FInv
<1>2. CASE CancelSave(n)
  <2>1. /\ \A m \in Notification : InFlight(m)' => InFlight(m)
        /\ \A m \in Notification : events[m] \subseteq events'[m]
    BY <1>2, SaveFlight DEF CancelSave, Status
  <2> QED
    BY <1>2, <1>t, <2>1, RowFlight DEF CancelSave, FInv
<1> QED
  BY <1>1, <1>2

LEMMA TickerFlight ==
    ASSUME FInv, Ticker
    PROVE  FInv'
<1>t. TInv'
  BY TickerTInv DEF FInv
<1>1. ASSUME NEW s \in {"pending", "scheduled"}, TickerRead(s) PROVE FInv'
  BY <1>1, <1>t, RowFlight DEF TickerRead, InFlight, FInv
<1>2. CASE TickerPublish
  <2>1. PICK n \in ticker.publish :
           PublishReturnsNil("main", n, 0) \/ UNCHANGED <<msg, events>>
    BY <1>2 DEF TickerPublish
  <2>2. n \in Notification /\ "main" \in Queue /\ 0 \in 0 .. MaxRetries
    BY MaxRetriesAssumption DEF FInv, TInv, TypeOK, Work, Queue
  <2>3. UNCHANGED <<row, job>>
    BY <1>2 DEF TickerPublish
  <2>4. CASE PublishReturnsNil("main", n, 0)
    <3>1. FlightHeld'
      BY <2>2, <2>3, <2>4, PublishFlight
    <3> QED
      BY <1>t, <3>1 DEF FInv
  <2>5. CASE UNCHANGED <<msg, events>>
    BY <1>t, <2>3, <2>5, RowFlight DEF InFlight, FInv
  <2> QED
    BY <2>1, <2>4, <2>5
<1>3. CASE TickerMark
  <2>1. PICK n \in ticker.mark : Save(n, "queued", {}) \/ SaveFails(n, "queued", {})
    BY <1>3 DEF TickerMark
  <2>2. n \in Notification
    BY DEF FInv, TInv, TypeOK, Work
  <2>3. /\ \A m \in Notification : InFlight(m)' => InFlight(m)
        /\ \A m \in Notification : events[m] \subseteq events'[m]
    BY <2>1, <2>2, SaveFlight DEF Status
  <2> QED
    BY <1>3, <1>t, <2>3, RowFlight DEF TickerMark, FInv
<1> QED
  BY <1>1, <1>2, <1>3 DEF Ticker

LEMMA DeliveryFlight ==
    ASSUME FInv, NEW c \in Copy, DeliverMain(c) \/ DeliverDLQ(c) \/ BrokerExpire(c)
    PROVE  FInv'
<1>t. TInv /\ TInv'
  BY DeliveryTInv DEF FInv
<1>s. Stored(c) /\ msg[c] \in Message /\ msg[c].id \in Notification
  BY <1>t, StoredType DEF DeliverMain, DeliverDLQ, BrokerExpire, Expire, TInv, Message
<1>r. UNCHANGED <<row, events>>
  BY DEF DeliverMain, DeliverDLQ, Take, BrokerExpire
<1>1. CASE DeliverMain(c) \/ DeliverDLQ(c)
  <2>1. PICK j \in {"read", "mark"} : Take(c, j)
    BY <1>1 DEF DeliverMain, DeliverDLQ
  <2>2. msg'[c] \in Message /\ msg'[c].id = msg[c].id /\ job'[c] = j
           /\ \A d \in Copy : d # c => msg'[d] = msg[d] /\ job'[d] = job[d]
    BY <1>t, <1>s, <2>1 DEF Take, TInv, TypeOK, BrokerTypeOK, Message
  <2>3. msg'[c] # NoMessage /\ job'[c] \notin Settling
    BY <2>2, NoMessageAssumption DEF Settling
  <2> QED
    BY <1>t, <1>s, <1>r, <2>2, <2>3, CopyFlight DEF FInv
<1>2. CASE BrokerExpire(c)
  <2>1. DeadLettered(msg[c]) \in Message /\ DeadLettered(msg[c]).id = msg[c].id
    BY <1>2, <1>s DEF BrokerExpire, Expire, DeadLettered, Message, Queue
  <2>2. msg'[c] # NoMessage /\ msg'[c].id = msg[c].id /\ job' = job
           /\ \A d \in Copy : d # c => msg'[d] = msg[d]
    BY <1>t, <1>2, <2>1, NoMessageAssumption
    DEF BrokerExpire, Expire, TInv, TypeOK, BrokerTypeOK
  <2>3. job'[c] \notin Settling \ {"markSent"} \/ ~Holding(c)
    BY <2>2 DEF Holding
  <2>4. \A m \in Notification : InFlight(m)' <=> InFlight(m)
    BY <1>r DEF InFlight
  <2>5. FlightHeld'
    BY <1>s, <1>r, <2>2, <2>3, <2>4, CopyFlight
  <2> QED
    BY <1>t, <2>5 DEF FInv
<1> QED
  BY <1>1, <1>2

\* A main handler lets go only of a row that is cancelled or sent.
LEMMA MainFlight ==
    ASSUME FInv, NEW c \in Copy,
           \/ ProcessRead(c) \/ ProcessSave(c) \/ Send(c) \/ MarkSent(c)
           \/ AnnounceSent(c) \/ Acknowledge(c)
    PROVE  FInv'
<1>t. TInv /\ TInv'
  BY MainTInv DEF FInv
<1>h. job[c] # "idle"
  BY DEF ProcessRead, ProcessSave, Send, MarkSent, AnnounceSent, Acknowledge
<1> PICK n \in Notification : n = msg[c].id
  BY <1>t, <1>h, HandledCopy
\* A nack of a main handler keeps the copy; going on keeps it too.
<1>k. ASSUME \/ job[c] \in MainJob /\ Nack(c)
             \/ \E j \in Job : Goto(c, j) /\ j \notin Settling \ {"markSent"}
      PROVE  /\ msg'[c] # NoMessage /\ msg'[c].id = n
             /\ job'[c] \notin Settling \ {"markSent"}
             /\ \A d \in Copy : d # c => msg'[d] = msg[d] /\ job'[d] = job[d]
  <2>1. CASE job[c] \in MainJob /\ Nack(c)
    <3>1. msg[c].queue = "main"
      BY <1>t, <2>1 DEF TInv, JobsFit
    <3> QED
      BY <1>t, <1>h, <2>1, <3>1, NackFacts DEF Settling
  <2>2. ASSUME NEW j \in Job, Goto(c, j), j \notin Settling \ {"markSent"}
        PROVE  /\ msg'[c] # NoMessage /\ msg'[c].id = n
               /\ job'[c] \notin Settling \ {"markSent"}
               /\ \A d \in Copy : d # c => msg'[d] = msg[d] /\ job'[d] = job[d]
    BY <1>t, <1>h, <2>2, GotoFacts
  <2> QED
    BY <1>k, <2>1, <2>2
<1>1. CASE ProcessRead(c)
  <2>1. UNCHANGED <<row, events>>
    BY <1>1 DEF ProcessRead, Goto
  <2>2. CASE row[n] \in Skipped /\ Goto(c, "ack")
    <3>1. ~InFlight(n)'
      BY <2>1, <2>2 DEF Skipped, InFlight
    <3>2. /\ msg'[c].id = n
          /\ \A d \in Copy : d # c => msg'[d] = msg[d] /\ job'[d] = job[d]
      BY <1>t, <1>h, <2>2, GotoFacts DEF Job
    <3>3. FlightHeld'
      BY <2>1, <3>1, <3>2, CopyFlight
    <3> QED
      BY <1>t, <3>3 DEF FInv
  <2>3. CASE Goto(c, "save") \/ Nack(c)
    <3>1. "save" \in Job \ Settling /\ job[c] \in MainJob
      BY <1>1 DEF ProcessRead, MainJob, Job, Settling
    <3>2. FlightHeld'
      BY <1>k, <2>1, <2>3, <3>1, CopyFlight
    <3> QED
      BY <1>t, <3>2 DEF FInv
  <2> QED
    BY <1>1, <2>2, <2>3 DEF ProcessRead
<1>2. CASE ProcessSave(c)
  <2>1. Save(n, "processing", {}) \/ SaveFails(n, "processing", {})
    BY <1>2 DEF ProcessSave
  <2>2. /\ \A m \in Notification : events[m] \subseteq events'[m]
        /\ \A m \in Notification : m # n => row'[m] = row[m]
    BY <1>t, <2>1, SaveFacts DEF Status
  <2>3. "send" \in Job \ Settling /\ job[c] \in MainJob /\ (Goto(c, "send") \/ Nack(c))
    BY <1>2 DEF ProcessSave, MainJob, Job, Settling
  <2>4. FlightHeld'
    BY <1>k, <2>2, <2>3, CopyFlight
  <2> QED
    BY <1>t, <2>4 DEF FInv
<1>3. CASE Send(c)
  <2>1. UNCHANGED row /\ \A m \in Notification : events[m] \subseteq events'[m]
    BY <1>3, <1>t, NoteGrows DEF Send, Event
  <2>2. /\ {"send", "markSent"} \subseteq Job \ (Settling \ {"markSent"})
        /\ job[c] \in MainJob /\ (Goto(c, "send") \/ Goto(c, "markSent") \/ Nack(c))
    BY <1>3 DEF Send, MainJob, Job, Settling
  <2>3. FlightHeld'
    BY <1>k, <2>1, <2>2, CopyFlight
  <2> QED
    BY <1>t, <2>3 DEF FInv
<1>4. CASE MarkSent(c)
  <2>1. \/ Save(n, "sent", {}) /\ Goto(c, "announceSent")
        \/ SaveFails(n, "sent", {}) /\ Nack(c)
    BY <1>4 DEF MarkSent
  <2>2. /\ \A m \in Notification : events[m] \subseteq events'[m]
        /\ \A m \in Notification : m # n => row'[m] = row[m]
        /\ Save(n, "sent", {}) => row'[n] = "sent"
    BY <1>t, <2>1, SaveFacts DEF Status
  <2>3. CASE Save(n, "sent", {}) /\ Goto(c, "announceSent")
    <3>1. /\ msg'[c].id = n
          /\ \A d \in Copy : d # c => msg'[d] = msg[d] /\ job'[d] = job[d]
      BY <1>t, <1>h, <2>3, GotoFacts DEF Job, MainJob
    <3>2. ~InFlight(n)'
      BY <2>2, <2>3 DEF InFlight
    <3>3. FlightHeld'
      BY <2>2, <3>1, <3>2, CopyFlight
    <3> QED
      BY <1>t, <3>3 DEF FInv
  <2>4. CASE Nack(c)
    <3>1. job[c] \in MainJob
      BY <1>4 DEF MarkSent, MainJob
    <3>2. FlightHeld'
      BY <1>k, <2>2, <2>4, <3>1, CopyFlight
    <3> QED
      BY <1>t, <3>2 DEF FInv
  <2> QED
    BY <2>1, <2>3, <2>4
<1>5. CASE AnnounceSent(c) \/ Acknowledge(c)
  <2>1. UNCHANGED <<row, events>> /\ ~Holding(c)
    BY <1>5 DEF AnnounceSent, Acknowledge, Holding, Settling
  <2>2. /\ msg'[c] # NoMessage => msg'[c].id = n
        /\ \A d \in Copy : d # c => msg'[d] = msg[d] /\ job'[d] = job[d]
    <3>1. CASE Goto(c, "ack")
      BY <1>t, <1>h, <3>1, GotoFacts DEF Job
    <3>2. CASE Ack(c)
      BY <1>t, <1>h, <3>2, SettleFacts DEF Ack
    <3> QED
      BY <1>5, <3>1, <3>2 DEF AnnounceSent, Acknowledge
  <2>3. InFlight(n)' => InFlight(n)
    BY <2>1 DEF InFlight
  <2>4. FlightHeld'
    BY <2>1, <2>2, <2>3, CopyFlight
  <2> QED
    BY <1>t, <2>4 DEF FInv
<1> QED
  BY <1>1, <1>2, <1>3, <1>4, <1>5

\* A DLQ handler lets go of a row that says "failed", of one whose retry is
\* published, or of one whose message it had to discard.
LEMMA DLQFlight ==
    ASSUME FInv, NEW c \in Copy,
           MarkFailure(c) \/ Retry(c) \/ Report(c) \/ AnnounceFailed(c)
    PROVE  FInv'
<1>t. TInv /\ TInv'
  BY DLQTInv DEF FInv
<1>h. job[c] # "idle"
  BY DEF MarkFailure, Retry, Report, AnnounceFailed
<1> PICK n \in Notification : n = msg[c].id
  BY <1>t, <1>h, HandledCopy
<1>d. Discarding(c) \in SUBSET Event
  BY DEF Discarding, Event
\* A nack that the history knows of.
<1>n. ASSUME Nack(c), Discarding(c) \subseteq events'[n],
             \A m \in Notification : events[m] \subseteq events'[m],
             \A m \in Notification : m # n => row'[m] = row[m]
      PROVE  FlightHeld'
  <2>1. /\ job'[c] = "idle" /\ (msg'[c] # NoMessage => msg'[c].id = n)
        /\ msg'[c] # NoMessage \/ Discarding(c) = {"lost"}
        /\ \A d \in Copy : d # c => msg'[d] = msg[d] /\ job'[d] = job[d]
    BY <1>n, <1>t, <1>h, NackFacts
  <2>2. msg'[c] # NoMessage \/ Lost(n)'
    BY <1>n, <2>1 DEF Lost
  <2>3. job'[c] \notin Settling
    BY <2>1 DEF Settling
  <2> QED
    BY <1>n, <2>1, <2>2, <2>3, CopyFlight
<1>1. CASE MarkFailure(c)
  <2> DEFINE s == IF RetriesLeft(msg[c]) THEN "retrying" ELSE "failed"
             j == IF RetriesLeft(msg[c]) THEN "retry" ELSE "report"
  <2>1. \/ Save(n, s, {}) /\ Goto(c, j)
        \/ SaveFails(n, s, Discarding(c)) /\ Nack(c)
    BY <1>1 DEF MarkFailure
  <2>2. s \in Status /\ j \in Job /\ (j \notin Settling \/ s = "failed")
    BY DEF Status, Job, DLQJob, Settling
  <2> HIDE DEF s, j
  <2>3. /\ \A m \in Notification : events[m] \subseteq events'[m]
        /\ \A m \in Notification : m # n => row'[m] = row[m]
        /\ Save(n, s, {}) => row'[n] = s
        /\ SaveFails(n, s, Discarding(c)) /\ Nack(c) => Discarding(c) \subseteq events'[n]
    BY <1>t, <1>d, <2>1, <2>2, SaveFacts
  <2>4. CASE Save(n, s, {}) /\ Goto(c, j)
    <3>1. /\ msg'[c] # NoMessage /\ msg'[c].id = n /\ job'[c] = j
          /\ \A d \in Copy : d # c => msg'[d] = msg[d] /\ job'[d] = job[d]
      BY <1>t, <1>h, <2>2, <2>4, GotoFacts
    <3>2. j \notin Settling \/ ~InFlight(n)'
      BY <2>2, <2>3, <2>4 DEF InFlight
    <3>3. FlightHeld'
      BY <2>3, <3>1, <3>2, CopyFlight
    <3> QED
      BY <1>t, <3>3 DEF FInv
  <2>5. CASE SaveFails(n, s, Discarding(c)) /\ Nack(c)
    <3>1. FlightHeld'
      BY <1>n, <2>3, <2>5
    <3> QED
      BY <1>t, <3>1 DEF FInv
  <2> QED
    BY <2>1, <2>4, <2>5
<1>2. CASE Retry(c)
  <2>1. row' = row
    BY <1>2 DEF Retry
  <2>2. CASE /\ PublishReturnsNil("retry", n, msg[c].retry + 1)
             /\ job' = [job EXCEPT ![c] = Verdict(row[n])]
    <3>1. msg[c].retry + 1 \in 0 .. MaxRetries /\ "retry" \in Queue
      BY <1>2, <1>t, <1>h, HandledCopy, MaxRetriesAssumption
      DEF Retry, TInv, JobsFit, RetriesLeft, Message, Queue
    <3>2. \A d \in Copy : job'[d] # job[d] => Stored(d) /\ msg[d].id = n
      BY <1>t, <1>h, <2>2, HandledCopy DEF TInv, TypeOK
    <3>3. FlightHeld'
      BY <2>1, <2>2, <3>1, <3>2, PublishFlight
    <3> QED
      BY <1>t, <3>3 DEF FInv
  <2>3. CASE Nack(c) /\ Note(n, Discarding(c))
    <3>1. Discarding(c) \subseteq events'[n]
             /\ \A m \in Notification : events[m] \subseteq events'[m]
      BY <1>t, <1>d, <2>3, NoteGrows
    <3>2. FlightHeld'
      BY <1>n, <2>1, <2>3, <3>1
    <3> QED
      BY <1>t, <3>2 DEF FInv
  <2> QED
    BY <1>2, <2>2, <2>3 DEF Retry
<1>3. CASE Report(c) \/ AnnounceFailed(c)
  <2>1. UNCHANGED <<row, events>> /\ ~Holding(c)
    BY <1>3 DEF Report, AnnounceFailed, Holding, Settling
  <2>2. InFlight(n)' => InFlight(n)
    BY <2>1 DEF InFlight
  <2>3. /\ msg'[c] # NoMessage => msg'[c].id = n
        /\ \A d \in Copy : d # c => msg'[d] = msg[d] /\ job'[d] = job[d]
    <3>1. Verdict(row[n]) \in Job /\ "ack" \in Job
      BY DEF Verdict, Job, DLQJob
    <3>2. Goto(c, Verdict(row[n])) \/ Goto(c, "ack") \/ Nack(c)
      BY <1>3 DEF Report, AnnounceFailed
    <3> QED
      BY <1>t, <1>h, <3>1, <3>2, GotoFacts, NackFacts
  <2>4. FlightHeld'
    BY <2>1, <2>2, <2>3, CopyFlight
  <2> QED
    BY <1>t, <2>4 DEF FInv
<1> QED
  BY <1>1, <1>2, <1>3

\* The end of the process returns every copy to the broker, where it waits.
LEMMA ProcessFlight ==
    ASSUME FInv, Crash \/ Stop \/ Cut \/ Exit \/ Restart
    PROVE  FInv'
<1>t. TInv /\ TInv'
  BY ProcessTInv DEF FInv
<1>1. CASE Die
  <2>1. UNCHANGED <<row, events>>
    BY <1>1 DEF Die
  <2>2. ASSUME NEW c \in Copy, Holding(c)
        PROVE  Holding(c)' /\ msg'[c].id = msg[c].id
    <3>1. msg'[c] = Requeued(msg[c]) /\ msg[c] \in Message /\ job'[c] = "idle"
      BY <1>t, <1>1, <2>2, StoredType DEF Die, AllRequeued, TInv, Holding
    <3> QED
      BY <3>1, RequeuedType, NoMessageAssumption DEF Holding, Stored, Settling
  <2>3. FlightHeld'
    BY <2>1, <2>2 DEF FInv, FlightHeld, InFlight, Lost
  <2> QED
    BY <1>t, <2>3 DEF FInv
<1>2. CASE Stop \/ Cut \/ Restart
  BY <1>2, <1>t, RowFlight DEF Stop, Cut, Restart, InFlight, FInv
<1> QED
  BY <1>1, <1>2 DEF Crash, Exit

LEMMA FInvNext == FInv /\ [Next]_vars => FInv'
<1> SUFFICES ASSUME FInv, [Next]_vars PROVE FInv'
  OBVIOUS
<1>1. CASE UNCHANGED vars
  <2>1. TInv'
    BY <1>1, TInvNext DEF FInv
  <2>2. UNCHANGED <<msg, job, row, events>>
    BY <1>1 DEF vars
  <2> QED
    BY <2>1, <2>2, RowFlight DEF FInv, InFlight
<1>2. CASE Next
  BY <1>2, CreatorFlight, CancelFlight, TickerFlight, DeliveryFlight, MainFlight,
     DLQFlight, ProcessFlight
  DEF Next, Creator, Handle
<1> QED
  BY <1>1, <1>2

\* No notification is stuck in a status no query looks for: a row that says
\* "processing" or "retrying" is held by a message whose handler is still to write
\* to it, or a message of it was lost (repository.go:145 asks for pending rows only).
THEOREM InFlightNeverStuck == Spec => []InFlightHasCarrier
<1>1. Spec => []FInv
  BY FInvInit, FInvNext, PTL DEF Spec
<1> QED
  BY <1>1, FInvImplies, PTL
-----------------------------------------------------------------------------
(* CancelHolds *)

HeldOff(n) ==
    \A c \in Copy :
        Stored(c) /\ msg[c].id = n =>
            job[c] \in {"idle", "read", "ack"} /\ msg[c].queue # "dlq"

NoWorkOn(n) ==
    /\ \A r \in Request : n \notin creator[r].publish \cup creator[r].mark
    /\ n \notin ticker.publish \cup ticker.mark

LEMMA WithdrawnIs ==
    ASSUME NEW n
    PROVE  /\ Withdrawn(n) <=> row[n] = "cancelled" /\ NoWorkOn(n) /\ HeldOff(n)
           /\ Withdrawn(n)' <=> row'[n] = "cancelled" /\ NoWorkOn(n)' /\ HeldOff(n)'
BY DEF Withdrawn, NoWorkOn, HeldOff, Stored

LEMMA CopyHeldOff ==
    ASSUME NEW n, HeldOff(n), NEW c \in Copy,
           \A d \in Copy : d # c => msg'[d] = msg[d] /\ job'[d] = job[d],
           msg'[c] # NoMessage /\ msg'[c].id = n =>
               job'[c] \in {"idle", "read", "ack"} /\ msg'[c].queue # "dlq"
    PROVE  HeldOff(n)'
BY DEF HeldOff, Stored

\* Where an accepted publish puts its copy.
LEMMA AcceptedCopy ==
    ASSUME TInv, NEW q \in Queue, NEW n \in Notification, NEW r \in 0 .. MaxRetries,
           PublishAccepted(q, n, r)
    PROVE  \E e \in Copy :
               /\ ~Stored(e) /\ job[e] = "idle"
               /\ msg'[e] = Enqueued(q, n, r) /\ msg'[e] \in Message /\ msg'[e] # NoMessage
               /\ \A d \in Copy : d # e => msg'[d] = msg[d]
<1> PICK e \in Copy : ~Stored(e) /\ msg' = [msg EXCEPT ![e] = Enqueued(q, n, r)]
  BY DEF PublishAccepted
<1>1. msg'[e] = Enqueued(q, n, r) /\ \A d \in Copy : d # e => msg'[d] = msg[d]
  BY DEF TInv, TypeOK, BrokerTypeOK
<1>2. job[e] = "idle"
  BY DEF TInv, JobsFit
<1> QED
  BY <1>1, <1>2, EnqueuedType, NoMessageAssumption

LEMMA PublishHeldOff ==
    ASSUME TInv, NEW q \in Queue, NEW m \in Notification, NEW r \in 0 .. MaxRetries,
           PublishReturnsNil(q, m, r), NEW n, n # m, HeldOff(n),
           \A d \in Copy : job'[d] # job[d] => Stored(d) /\ msg[d].id = m
    PROVE  HeldOff(n)'
<1>1. CASE PublishAccepted(q, m, r)
  <2> PICK e \in Copy : /\ ~Stored(e) /\ job[e] = "idle"
                        /\ msg'[e] = Enqueued(q, m, r)
                        /\ \A d \in Copy : d # e => msg'[d] = msg[d]
    BY <1>1, AcceptedCopy
  <2>1. msg'[e].id = m
    BY DEF Enqueued
  <2> QED
    BY <2>1 DEF HeldOff, Stored
<1>2. CASE UNCHANGED msg
  BY <1>2 DEF HeldOff, Stored
<1> QED
  BY <1>1, <1>2 DEF PublishReturnsNil, PublishVanishes

LEMMA CreatorCancelled ==
    ASSUME TInv, NEW n \in Notification, Withdrawn(n), NEW r \in Request,
           CreateRows(r) \/ CreatorPublish(r) \/ CreatorMark(r)
    PROVE  Withdrawn(n)' /\ delivered'[n] = delivered[n]
<1>w. row[n] = "cancelled" /\ NoWorkOn(n) /\ HeldOff(n)
  BY WithdrawnIs
<1>1. CASE CreateRows(r)
  <2>1. n \notin r
    BY <1>1, <1>w DEF CreateRows
  <2>2. row'[n] = row[n]
    BY <1>1, <2>1 DEF CreateRows
  <2>3. NoWorkOn(n)'
    BY <1>1, <1>w, <2>1 DEF CreateRows, NoWorkOn, TInv, TypeOK, Work
  <2>4. HeldOff(n)' /\ UNCHANGED delivered
    BY <1>1, <1>w DEF CreateRows, HeldOff, Stored
  <2> QED
    BY <1>w, <2>2, <2>3, <2>4, WithdrawnIs
<1>2. CASE CreatorPublish(r)
  <2> PICK m \in creator[r].publish :
         \/ /\ PublishReturnsNil("main", m, 0)
            /\ creator' = [creator EXCEPT ![r].publish = @ \ {m}, ![r].mark = @ \cup {m}]
         \/ /\ creator' = [creator EXCEPT ![r] = AfterFailedPublish(@, m)]
            /\ UNCHANGED msg
    BY <1>2 DEF CreatorPublish
  <2>1. m \in Notification /\ m # n /\ "main" \in Queue /\ 0 \in 0 .. MaxRetries
    BY <1>w, MaxRetriesAssumption DEF NoWorkOn, TInv, TypeOK, Work, Queue
  <2>2. UNCHANGED <<row, ticker, job, delivered>>
    BY <1>2 DEF CreatorPublish
  <2>3. HeldOff(n)'
    BY <1>w, <2>1, <2>2, PublishHeldOff DEF HeldOff, Stored
  <2>4. NoWorkOn(n)'
    BY <1>w, <2>1, <2>2 DEF NoWorkOn, TInv, TypeOK, Work, AfterFailedPublish, NoWork
  <2> QED
    BY <1>w, <2>2, <2>3, <2>4, WithdrawnIs
<1>3. CASE CreatorMark(r)
  <2> PICK m \in creator[r].mark :
         /\ Save(m, "queued", {}) \/ SaveFails(m, "queued", {})
         /\ creator' = [creator EXCEPT ![r].mark = @ \ {m}]
    BY <1>3 DEF CreatorMark
  <2>1. m \in Notification /\ m # n
    BY <1>w DEF NoWorkOn, TInv, TypeOK, Work
  <2>2. row'[n] = row[n]
    BY <2>1, SaveFacts DEF Status
  <2>3. UNCHANGED <<msg, ticker, job, delivered>>
    BY <1>3 DEF CreatorMark
  <2>4. NoWorkOn(n)' /\ HeldOff(n)'
    BY <1>w, <2>3 DEF NoWorkOn, HeldOff, Stored, TInv, TypeOK, Work
  <2> QED
    BY <1>w, <2>2, <2>3, <2>4, WithdrawnIs
<1> QED
  BY <1>1, <1>2, <1>3

LEMMA CancelCancelled ==
    ASSUME TInv, NEW n \in Notification, Withdrawn(n), NEW m \in Notification,
           CancelRead(m) \/ CancelSave(m) \/ Ripen(m)
    PROVE  Withdrawn(n)' /\ delivered'[n] = delivered[n]
<1>1. row[n] = "cancelled" /\ NoWorkOn(n) /\ HeldOff(n)
  BY WithdrawnIs
<1>2. UNCHANGED <<msg, ticker, creator, job, delivered>>
  BY DEF CancelRead, CancelSave, Ripen
<1>3. row'[n] = "cancelled"
  <2>1. CASE CancelSave(m)
    BY <1>1, <2>1, SaveFacts DEF CancelSave, Status
  <2> QED
    BY <1>1, <2>1 DEF CancelRead, Ripen
<1>4. NoWorkOn(n)' /\ HeldOff(n)'
  BY <1>1, <1>2 DEF NoWorkOn, HeldOff, Stored
<1> QED
  BY <1>2, <1>3, <1>4, WithdrawnIs

LEMMA TickerCancelled ==
    ASSUME TInv, NEW n \in Notification, Withdrawn(n), Ticker
    PROVE  Withdrawn(n)' /\ delivered'[n] = delivered[n]
<1>w. row[n] = "cancelled" /\ NoWorkOn(n) /\ HeldOff(n)
  BY WithdrawnIs
<1>1. ASSUME NEW s \in {"pending", "scheduled"}, TickerRead(s)
      PROVE  Withdrawn(n)' /\ delivered'[n] = delivered[n]
  <2>1. UNCHANGED <<msg, row, creator, job, delivered>> /\ n \notin Found(s)
    BY <1>1, <1>w DEF TickerRead, Found
  <2>2. NoWorkOn(n)' /\ HeldOff(n)'
    BY <1>1, <1>w, <2>1 DEF TickerRead, NoWorkOn, NoWork, HeldOff, Stored
  <2> QED
    BY <1>w, <2>1, <2>2, WithdrawnIs
<1>2. CASE TickerPublish
  <2> PICK m \in ticker.publish :
         \/ /\ PublishReturnsNil("main", m, 0)
            /\ ticker' = [publish |-> ticker.publish \ {m}, mark |-> {m}]
         \/ /\ ticker' = AfterFailedRepublish(m)
            /\ UNCHANGED msg
    BY <1>2 DEF TickerPublish
  <2>1. m \in Notification /\ m # n /\ "main" \in Queue /\ 0 \in 0 .. MaxRetries
    BY <1>w, MaxRetriesAssumption DEF NoWorkOn, TInv, TypeOK, Work, Queue
  <2>2. UNCHANGED <<row, creator, job, delivered>>
    BY <1>2 DEF TickerPublish
  <2>3. HeldOff(n)'
    BY <1>w, <2>1, <2>2, PublishHeldOff DEF HeldOff, Stored
  <2>4. NoWorkOn(n)'
    BY <1>w, <2>1, <2>2 DEF NoWorkOn, TInv, TypeOK, Work, AfterFailedRepublish
  <2> QED
    BY <1>w, <2>2, <2>3, <2>4, WithdrawnIs
<1>3. CASE TickerMark
  <2> PICK m \in ticker.mark : Save(m, "queued", {}) \/ SaveFails(m, "queued", {})
    BY <1>3 DEF TickerMark
  <2>1. m \in Notification /\ m # n
    BY <1>w DEF NoWorkOn, TInv, TypeOK, Work
  <2>2. row'[n] = row[n]
    BY <2>1, SaveFacts DEF Status
  <2>3. UNCHANGED <<msg, creator, job, delivered>>
    BY <1>3 DEF TickerMark
  <2>4. NoWorkOn(n)' /\ HeldOff(n)'
    BY <1>3, <1>w, <2>3 DEF TickerMark, NoWorkOn, HeldOff, Stored, TInv, TypeOK, Work
  <2> QED
    BY <1>w, <2>2, <2>3, <2>4, WithdrawnIs
<1> QED
  BY <1>1, <1>2, <1>3 DEF Ticker

\* What a delivery and an expiry make of a copy.
LEMMA TakeFacts ==
    ASSUME TInv, NEW c \in Copy, Stored(c), NEW j, Take(c, j)
    PROVE  /\ msg'[c] = [msg[c] EXCEPT !.unacked = TRUE] /\ job'[c] = j
           /\ msg'[c] \in Message /\ msg'[c] # NoMessage
           /\ msg'[c].id = msg[c].id /\ msg'[c].queue = msg[c].queue
           /\ msg'[c].retry = msg[c].retry
           /\ \A d \in Copy : d # c => msg'[d] = msg[d] /\ job'[d] = job[d]
<1>1. msg[c] \in Message
  BY StoredType DEF TInv
<1>2. [msg[c] EXCEPT !.unacked = TRUE] \in Message
  BY <1>1 DEF Message
<1> QED
  BY <1>1, <1>2, NoMessageAssumption DEF Take, TInv, TypeOK, BrokerTypeOK, Message

LEMMA ExpireFacts ==
    ASSUME TInv, NEW c \in Copy, BrokerExpire(c)
    PROVE  /\ Stored(c) /\ msg[c].queue = "retry" /\ msg'[c].queue = "main"
           /\ msg'[c] \in Message /\ msg'[c] # NoMessage /\ msg'[c].id = msg[c].id
           /\ job' = job /\ \A d \in Copy : d # c => msg'[d] = msg[d]
<1>1. Stored(c) /\ msg[c] \in Message /\ msg[c].queue = "retry"
  BY StoredType DEF TInv, BrokerExpire, Expire
<1>2. DeadLettered(msg[c]) = [msg[c] EXCEPT !.queue = "main", !.unacked = FALSE]
  BY <1>1 DEF DeadLettered
<1>3. /\ DeadLettered(msg[c]) \in Message /\ DeadLettered(msg[c]).queue = "main"
      /\ DeadLettered(msg[c]).id = msg[c].id
  BY <1>1, <1>2 DEF Message, Queue
<1> QED
  BY <1>1, <1>3, NoMessageAssumption DEF BrokerExpire, Expire, TInv, TypeOK, BrokerTypeOK

LEMMA DeliveryCancelled ==
    ASSUME TInv, NEW n \in Notification, Withdrawn(n), NEW c \in Copy,
           DeliverMain(c) \/ DeliverDLQ(c) \/ BrokerExpire(c)
    PROVE  Withdrawn(n)' /\ delivered'[n] = delivered[n]
<1>w. row[n] = "cancelled" /\ NoWorkOn(n) /\ HeldOff(n)
  BY WithdrawnIs
<1>1. UNCHANGED <<row, creator, ticker, delivered>>
  BY DEF DeliverMain, DeliverDLQ, Take, BrokerExpire
<1>2. HeldOff(n)'
  <2>1. CASE DeliverMain(c)
    <3>1. Stored(c) /\ msg[c].queue = "main" /\ Take(c, "read")
      BY <2>1 DEF DeliverMain
    <3>2. /\ job'[c] = "read" /\ msg'[c].queue = "main"
          /\ \A d \in Copy : d # c => msg'[d] = msg[d] /\ job'[d] = job[d]
      BY <3>1, TakeFacts
    <3> QED
      BY <1>w, <3>2, CopyHeldOff
  <2>2. CASE DeliverDLQ(c)
    <3>1. msg[c].id # n
      BY <1>w, <2>2 DEF DeliverDLQ, HeldOff
    <3> QED
      BY <1>w, <2>2, <3>1, TakeFacts, CopyHeldOff DEF DeliverDLQ
  <2>3. CASE BrokerExpire(c)
    <3>1. msg[c].id = n => job[c] \in {"idle", "read", "ack"}
      BY <1>w, <2>3, ExpireFacts DEF HeldOff
    <3> QED
      BY <1>w, <2>3, <3>1, ExpireFacts, CopyHeldOff
  <2> QED
    BY <2>1, <2>2, <2>3
<1> QED
  BY <1>w, <1>1, <1>2, WithdrawnIs DEF NoWorkOn

\* A copy of another notification, whatever its handler does.
LEMMA OtherCancelled ==
    ASSUME TInv, NEW n \in Notification, Withdrawn(n), NEW c \in Copy, Handle(c),
           msg[c].id # n
    PROVE  Withdrawn(n)' /\ delivered'[n] = delivered[n]
<1>w. row[n] = "cancelled" /\ NoWorkOn(n) /\ HeldOff(n)
  BY WithdrawnIs
<1>h. job[c] # "idle"
  BY DEF Handle, ProcessRead, ProcessSave, Send, MarkSent, AnnounceSent, Acknowledge,
         MarkFailure, Retry, Report, AnnounceFailed
<1> PICK m \in Notification : m = msg[c].id
  BY <1>h, HandledCopy
<1>1. UNCHANGED <<creator, ticker>>
  BY DEF Handle, ProcessRead, ProcessSave, Send, MarkSent, AnnounceSent, Acknowledge,
         MarkFailure, Retry, Report, AnnounceFailed
<1>2. row'[n] = row[n]
  <2>1. ASSUME NEW s \in Status, NEW what \in SUBSET Event,
               Save(m, s, what) \/ SaveFails(m, s, what)
        PROVE  row'[n] = row[n]
    BY <2>1, SaveFacts
  <2>2. Discarding(c) \in SUBSET Event /\ {} \in SUBSET Event
    BY DEF Discarding, Event
  <2>3. CASE ProcessSave(c) \/ MarkSent(c) \/ MarkFailure(c)
    BY <2>1, <2>2, <2>3 DEF ProcessSave, MarkSent, MarkFailure, Status
  <2> QED
    BY <2>3 DEF Handle, ProcessRead, Send, AnnounceSent, Acknowledge, Retry, Report,
                AnnounceFailed
<1>3. delivered'[n] = delivered[n]
  <2>1. CASE Send(c)
    BY <2>1 DEF Send, TInv, TypeOK
  <2> QED
    BY <2>1 DEF Handle, ProcessRead, ProcessSave, MarkSent, AnnounceSent, Acknowledge,
                MarkFailure, Retry, Report, AnnounceFailed
<1>4. HeldOff(n)'
  <2>1. ASSUME Nack(c) \/ Ack(c) \/ \E j \in Job : Goto(c, j)
        PROVE  HeldOff(n)'
    <3>1. /\ msg'[c] # NoMessage => msg'[c].id = m
          /\ \A d \in Copy : d # c => msg'[d] = msg[d] /\ job'[d] = job[d]
      <4>1. CASE Ack(c)
        BY <1>h, <4>1, SettleFacts DEF Ack
      <4> QED
        BY <1>h, <2>1, <4>1, NackFacts, GotoFacts
    <3> QED
      BY <1>w, <3>1, CopyHeldOff
  <2>2. CASE /\ PublishReturnsNil("retry", m, msg[c].retry + 1)
             /\ job' = [job EXCEPT ![c] = Verdict(row[m])] /\ Retry(c)
    <3>1. msg[c].retry + 1 \in 0 .. MaxRetries /\ "retry" \in Queue
      BY <2>2, <1>h, HandledCopy, MaxRetriesAssumption
      DEF Retry, TInv, JobsFit, RetriesLeft, Message, Queue
    <3>2. \A d \in Copy : job'[d] # job[d] => Stored(d) /\ msg[d].id = m
      BY <1>h, <2>2, HandledCopy DEF TInv, TypeOK
    <3> QED
      BY <1>w, <2>2, <3>1, <3>2, PublishHeldOff
  <2>3. {"save", "send", "markSent", "announceSent", "ack", "retry", "report",
         "announceFailed"} \subseteq Job /\ \A s : Verdict(s) \in Job
    BY DEF Job, MainJob, DLQJob, Verdict
  <2>4. CASE ProcessRead(c) \/ ProcessSave(c) \/ Send(c)
    BY <2>1, <2>3, <2>4 DEF ProcessRead, ProcessSave, Send
  <2>5. CASE MarkSent(c) \/ AnnounceSent(c) \/ Acknowledge(c)
    BY <2>1, <2>3, <2>5 DEF MarkSent, AnnounceSent, Acknowledge
  <2>6. CASE MarkFailure(c)
    BY <2>1, <2>3, <2>6 DEF MarkFailure
  <2>7. CASE Report(c) \/ AnnounceFailed(c)
    BY <2>1, <2>3, <2>7 DEF Report, AnnounceFailed
  <2>8. CASE Retry(c)
    BY <2>1, <2>2, <2>8 DEF Retry
  <2> QED
    BY <2>4, <2>5, <2>6, <2>7, <2>8 DEF Handle
<1> QED
  BY <1>w, <1>1, <1>2, <1>3, <1>4, WithdrawnIs DEF NoWorkOn

\* A copy of the withdrawn one is looked up and passed over, or acknowledged.
LEMMA OwnCancelled ==
    ASSUME TInv, NEW n \in Notification, Withdrawn(n), NEW c \in Copy, Handle(c),
           msg[c].id = n, faults' = faults, ContextAlive
    PROVE  Withdrawn(n)' /\ delivered'[n] = delivered[n]
<1>w. row[n] = "cancelled" /\ NoWorkOn(n) /\ HeldOff(n)
  BY WithdrawnIs
<1>h. job[c] # "idle" /\ Stored(c) /\ msg[c] \in Message
  <2>1. job[c] # "idle"
    BY DEF Handle, ProcessRead, ProcessSave, Send, MarkSent, AnnounceSent, Acknowledge,
           MarkFailure, Retry, Report, AnnounceFailed
  <2> QED
    BY <2>1, HandledCopy
<1>1. msg[c].queue # "dlq" /\ job[c] \in {"idle", "read", "ack"}
  BY <1>w, <1>h DEF HeldOff
<1>2. ProcessRead(c) \/ Acknowledge(c)
  BY <1>1 DEF Handle, ProcessRead, ProcessSave, Send, MarkSent, AnnounceSent, Acknowledge,
              MarkFailure, Retry, Report, AnnounceFailed
<1>3. UNCHANGED <<row, creator, ticker, delivered>>
  BY <1>2 DEF ProcessRead, Acknowledge
<1>4. CASE ProcessRead(c)
  <2>1. faults \in Nat
    BY DEF TInv, TypeOK
  <2>2. Goto(c, "ack")
    BY <1>4, <1>w, <2>1 DEF ProcessRead, Skipped, Fails, Fault
  <2>3. UNCHANGED msg /\ "ack" \in Job
    BY <2>2 DEF Goto, Job
  <2>4. HeldOff(n)'
    BY <1>w, <1>h, <1>1, <2>2, <2>3, GotoFacts, CopyHeldOff
  <2> QED
    BY <1>w, <1>3, <2>4, WithdrawnIs DEF NoWorkOn
<1>5. CASE Acknowledge(c)
  <2>1. /\ job'[c] = "idle"
        /\ msg'[c] # NoMessage => msg'[c].queue = msg[c].queue
        /\ \A d \in Copy : d # c => msg'[d] = msg[d] /\ job'[d] = job[d]
    BY <1>h, <1>5, RequeuedType DEF Acknowledge, Ack, Settle, TInv, TypeOK, BrokerTypeOK
  <2>2. HeldOff(n)'
    BY <1>w, <1>1, <2>1, CopyHeldOff
  <2> QED
    BY <1>w, <1>3, <2>2, WithdrawnIs DEF NoWorkOn
<1> QED
  BY <1>2, <1>4, <1>5

LEMMA ProcessCancelled ==
    ASSUME TInv, NEW n \in Notification, Withdrawn(n), Crash \/ Stop \/ Cut \/ Exit \/ Restart
    PROVE  Withdrawn(n)' /\ delivered'[n] = delivered[n]
<1>w. row[n] = "cancelled" /\ NoWorkOn(n) /\ HeldOff(n)
  BY WithdrawnIs
<1>1. CASE Die
  <2>1. UNCHANGED <<row, delivered>> /\ NoWorkOn(n)'
    BY <1>1 DEF Die, NoWorkOn, NoWork
  <2>2. ASSUME NEW d \in Copy, msg'[d] # NoMessage
        PROVE  /\ Stored(d) /\ job'[d] = "idle"
               /\ msg'[d].queue = msg[d].queue /\ msg'[d].id = msg[d].id
    BY <1>1, <2>2, StoredType, RequeuedType DEF Die, AllRequeued, TInv
  <2>3. HeldOff(n)'
    BY <1>w, <2>2 DEF HeldOff, Stored
  <2> QED
    BY <1>w, <2>1, <2>3, WithdrawnIs
<1>2. CASE Stop \/ Cut \/ Restart
  <2>1. UNCHANGED <<msg, job, row, creator, ticker, delivered>>
    BY <1>2 DEF Stop, Cut, Restart
  <2> QED
    BY <1>w, <2>1, WithdrawnIs DEF NoWorkOn, HeldOff, Stored
<1> QED
  BY <1>1, <1>2 DEF Crash, Exit

\* What is cancelled and written to by nobody stays cancelled and unsent, whatever
\* copies of it are still delivered, in every step but a failing call or a step of a
\* process that stops (MarkAsProcessing, service.go:233).
THEOREM CancelledStays == Spec => CancelHolds
<1>1. ASSUME TInv, [Next]_vars
      PROVE  [\A n \in Notification :
                 Withdrawn(n) /\ faults' = faults /\ ContextAlive =>
                     Withdrawn(n)' /\ delivered'[n] = delivered[n]]_vars
  <2> SUFFICES ASSUME Next, NEW n \in Notification, Withdrawn(n), faults' = faults, ContextAlive
               PROVE  Withdrawn(n)' /\ delivered'[n] = delivered[n]
    BY <1>1
  <2> QED
    BY <1>1, CreatorCancelled, CancelCancelled, TickerCancelled, DeliveryCancelled,
       OtherCancelled, OwnCancelled, ProcessCancelled
    DEF Next, Creator
<1>2. Spec => []TInv
  BY TInvInit, TInvNext, PTL DEF Spec
<1> QED
  BY <1>1, <1>2, PTL DEF Spec, CancelHolds

-----------------------------------------------------------------------------
(* What a handler holds *)

\* A copy in hand is unacknowledged and came from the main queue or from the DLQ.
HandsHeld ==
    \A c \in Copy :
        /\ job[c] # "idle" => msg[c].unacked /\ msg[c].queue \in {"main", "dlq"}
        /\ job[c] \in DLQJob => msg[c].queue = "dlq"

LEMMA HandKept ==
    ASSUME HandsHeld, NEW c \in Copy,
           \A d \in Copy : d # c => msg'[d] = msg[d] /\ job'[d] = job[d],
           job'[c] # "idle" => msg'[c].unacked /\ msg'[c].queue \in {"main", "dlq"},
           job'[c] \in DLQJob => msg'[c].queue = "dlq"
    PROVE  HandsHeld'
BY DEF HandsHeld

\* A publish fills a place in nobody's hand.
LEMMA PublishHeld ==
    ASSUME TInv, HandsHeld, NEW q \in Queue, NEW n \in Notification, NEW r \in 0 .. MaxRetries,
           PublishReturnsNil(q, n, r),
           \A d \in Copy : job'[d] # job[d] => job[d] \in DLQJob
    PROVE  HandsHeld'
<1>1. CASE PublishAccepted(q, n, r)
  <2> PICK e \in Copy : job[e] = "idle" /\ \A d \in Copy : d # e => msg'[d] = msg[d]
    BY <1>1, AcceptedCopy
  <2> QED
    BY DEF HandsHeld, DLQJob
<1>2. CASE UNCHANGED msg
  BY <1>2 DEF HandsHeld, DLQJob
<1> QED
  BY <1>1, <1>2 DEF PublishReturnsNil, PublishVanishes

\* Where the step of a handler leaves its copy: acknowledged, nacked, or still in hand.
LEMMA HandleFacts ==
    ASSUME TInv, NEW c \in Copy, Handle(c), ~Retry(c)
    PROVE  /\ job[c] # "idle" /\ Stored(c) /\ msg[c] \in Message /\ msg[c].id \in Notification
           /\ \/ Acknowledge(c)
              \/ Nack(c)
              \/ /\ Goto(c, job'[c]) /\ job'[c] \in Job \ {"idle"} /\ UNCHANGED msg
                 /\ job'[c] \in DLQJob => job[c] \in DLQJob
           /\ \A d \in Copy : d # c => msg'[d] = msg[d] /\ job'[d] = job[d]
           /\ msg'[c] # NoMessage => msg'[c].id = msg[c].id
<1>1. job[c] # "idle"
  BY DEF Handle, ProcessRead, ProcessSave, Send, MarkSent, AnnounceSent, Acknowledge,
         MarkFailure, Retry, Report, AnnounceFailed
<1>2. Stored(c) /\ msg[c] \in Message /\ msg[c].id \in Notification
  BY <1>1, HandledCopy
<1>3. ASSUME NEW j \in Job \ {"idle"}, Goto(c, j), j \in DLQJob => job[c] \in DLQJob
      PROVE  /\ job'[c] \in DLQJob => job[c] \in DLQJob
             /\ Goto(c, job'[c]) /\ job'[c] \in Job \ {"idle"} /\ UNCHANGED msg
             /\ \A d \in Copy : d # c => msg'[d] = msg[d] /\ job'[d] = job[d]
  BY <1>3 DEF Goto, TInv, TypeOK
<1>4. {"save", "send", "markSent", "announceSent", "ack", "retry", "report",
       "announceFailed"} \subseteq Job \ {"idle"} /\ \A s : Verdict(s) \in Job \ {"idle"}
  BY DEF Job, MainJob, DLQJob, Verdict
<1>5. \/ Acknowledge(c) \/ Nack(c)
      \/ \E j \in Job \ {"idle"} : Goto(c, j) /\ (j \in DLQJob => job[c] \in DLQJob)
  <2>1. CASE ProcessRead(c) \/ ProcessSave(c) \/ Send(c) \/ MarkSent(c) \/ AnnounceSent(c)
    BY <1>4, <2>1 DEF ProcessRead, ProcessSave, Send, MarkSent, AnnounceSent, DLQJob
  <2>2. CASE MarkFailure(c) \/ Report(c) \/ AnnounceFailed(c)
    BY <1>4, <2>2 DEF MarkFailure, Report, AnnounceFailed, DLQJob
  <2> QED
    BY <2>1, <2>2 DEF Handle
<1>6. Acknowledge(c) => Ack(c)
  BY DEF Acknowledge
<1>7. CASE Ack(c)
  BY <1>1, <1>2, <1>5, <1>6, <1>7, <1>3, NackFacts, SettleFacts DEF Ack
<1> QED
  BY <1>1, <1>2, <1>3, <1>5, <1>6, <1>7, NackFacts, SettleFacts DEF Ack

LEMMA HandsHeldNext ==
    ASSUME TInv, HandsHeld, [Next]_vars
    PROVE  HandsHeld'
<1>1. CASE UNCHANGED <<msg, job>>
  BY <1>1 DEF HandsHeld
<1>2. ASSUME NEW r \in Request, CreateRows(r) \/ Creator(r) PROVE HandsHeld'
  <2>1. ASSUME NEW m \in creator[r].publish, PublishReturnsNil("main", m, 0), UNCHANGED job
        PROVE  HandsHeld'
    <3>1. m \in Notification /\ "main" \in Queue /\ 0 \in 0 .. MaxRetries
      BY MaxRetriesAssumption DEF TInv, TypeOK, Work, Queue
    <3> QED
      BY <2>1, <3>1, PublishHeld
  <2> QED
    BY <1>1, <1>2, <2>1 DEF CreateRows, Creator, CreatorPublish, CreatorMark
<1>3. ASSUME NEW n \in Notification, CancelRead(n) \/ CancelSave(n) \/ Ripen(n)
      PROVE  HandsHeld'
  BY <1>1, <1>3 DEF CancelRead, CancelSave, Ripen
<1>4. CASE Ticker
  <2>1. ASSUME NEW m \in ticker.publish, PublishReturnsNil("main", m, 0), UNCHANGED job
        PROVE  HandsHeld'
    <3>1. m \in Notification /\ "main" \in Queue /\ 0 \in 0 .. MaxRetries
      BY MaxRetriesAssumption DEF TInv, TypeOK, Work, Queue
    <3> QED
      BY <2>1, <3>1, PublishHeld
  <2> QED
    BY <1>1, <1>4, <2>1 DEF Ticker, TickerRead, TickerPublish, TickerMark
<1>5. ASSUME NEW c \in Copy, DeliverMain(c) \/ DeliverDLQ(c) \/ BrokerExpire(c)
      PROVE  HandsHeld'
  <2>1. ASSUME NEW j, Take(c, j), msg[c].queue \in {"main", "dlq"},
               j \in DLQJob => msg[c].queue = "dlq"
        PROVE  HandsHeld'
    <3>1. Stored(c) /\ msg[c] \in Message
      BY <2>1, StoredType DEF Take, TInv
    <3>2. [msg[c] EXCEPT !.unacked = TRUE].unacked
      BY <3>1 DEF Message
    <3>3. /\ msg'[c].unacked /\ msg'[c].queue = msg[c].queue /\ job'[c] = j
          /\ \A d \in Copy : d # c => msg'[d] = msg[d] /\ job'[d] = job[d]
      BY <2>1, <3>1, <3>2, TakeFacts
    <3> QED
      BY <2>1, <3>3, HandKept
  <2>2. CASE BrokerExpire(c)
    <3>1. job[c] = "idle"
      BY <2>2, ExpireFacts DEF HandsHeld
    <3> QED
      BY <2>2, <3>1, ExpireFacts, HandKept DEF DLQJob
  <2> QED
    BY <1>5, <2>1, <2>2 DEF DeliverMain, DeliverDLQ, DLQJob
<1>6. ASSUME NEW c \in Copy, Handle(c)
      PROVE  HandsHeld'
  <2>1. CASE Retry(c) /\ PublishReturnsNil("retry", msg[c].id, msg[c].retry + 1)
             /\ job' = [job EXCEPT ![c] = Verdict(row[msg[c].id])]
    <3>1. job[c] # "idle"
      BY <2>1 DEF Retry
    <3>2. msg[c].retry + 1 \in 0 .. MaxRetries /\ "retry" \in Queue /\ msg[c].id \in Notification
      BY <2>1, <3>1, HandledCopy, MaxRetriesAssumption
      DEF Retry, TInv, JobsFit, RetriesLeft, Message, Queue
    <3> QED
      BY <2>1, <3>1, <3>2, PublishHeld DEF TInv, TypeOK, Retry, DLQJob
  <2>2. CASE Retry(c) /\ Nack(c)
    <3>1. job[c] # "idle"
      BY <2>2 DEF Retry
    <3> QED
      BY <2>2, <3>1, NackFacts, HandKept DEF DLQJob
  <2>3. CASE ~Retry(c)
    <3>1. CASE Acknowledge(c) \/ Nack(c)
      <4>1. job'[c] = "idle"
        BY <2>3, <1>6, <3>1, HandleFacts, NackFacts DEF Acknowledge, Ack, Settle, TInv, TypeOK
      <4> QED
        BY <2>3, <1>6, <4>1, HandleFacts, HandKept DEF DLQJob
    <3>2. CASE UNCHANGED msg /\ (job'[c] \in DLQJob => job[c] \in DLQJob)
      BY <2>3, <1>6, <3>2, HandleFacts, HandKept DEF HandsHeld
    <3> QED
      BY <2>3, <1>6, <3>1, <3>2, HandleFacts
  <2> QED
    BY <2>1, <2>2, <2>3 DEF Retry
<1>7. CASE Crash \/ Stop \/ Cut \/ Exit \/ Restart
  BY <1>1, <1>7 DEF Crash, Stop, Cut, Exit, Restart, Die, HandsHeld, DLQJob
<1> QED
  BY <1>1, <1>2, <1>3, <1>4, <1>5, <1>6, <1>7 DEF Next, vars

-----------------------------------------------------------------------------
(* DeliveredOnce and OneVerdict *)

\* Nothing fails but publishes and sends that the provider does not take; the process
\* is not disturbed; a handler is done before its rows are 30 s old; and no failing
\* publish ends a batch half way.
PromptSetting ==
    /\ Faults \subseteq {"publish", "unconfirmed", "rejected"}
    /\ Outages = {}
    /\ ~HandlersOutlastRecovery
    /\ "publish" \notin Faults \/ \A r \in Request : \A m, n \in r : m = n

Creating(r, n) == n \in creator[r].publish \cup creator[r].mark

\* Who publishes n is the first to.
WorkOnce(n) ==
    /\ published[n] <= 1
    /\ n \in ripe => Accepted(n) /\ \A r \in Request : ~Creating(r, n)
    /\ \A r \in Request : Creating(r, n) => n \in r
    /\ \A r, q \in Request : Creating(r, n) /\ Creating(q, n) => r = q
    /\ \A r \in Request : n \in creator[r].publish => published[n] = 0
    /\ n \in ticker.publish => published[n] = 0
    /\ n \in ticker.publish \cup ticker.mark => n \in ripe
    /\ n \in ticker.mark => ticker.mark = {n}
    /\ Recoverable(n) /\ published[n] > 0 =>
          n \in ticker.mark \/ \E r \in Request : n \in creator[r].mark

Bearing(c, n) == Carrying(c) /\ msg[c].id = n

\* One copy at most can still be sent, before any is and before it is given up.
CopyOnce(n) ==
    /\ delivered[n] <= 1
    /\ delivered[n] > 0 => published[n] > 0
    /\ "failed" \in events[n] => delivered[n] = 0 /\ published[n] > 0
    /\ \A c \in Copy : Bearing(c, n) => delivered[n] = 0 /\ "failed" \notin events[n]
    /\ \A c, d \in Copy : Bearing(c, n) /\ Bearing(d, n) => c = d
    /\ \A c \in Copy :
          job[c] \in {"report", "announceFailed"} /\ msg[c].id = n => "failed" \in events[n]

OInv ==
    /\ RInv /\ HandsHeld /\ app = "up"
    /\ \A n \in Notification : WorkOnce(n)
    /\ \A n \in Notification : CopyOnce(n)

LEMMA OInvInit == Init => OInv
<1> SUFFICES ASSUME Init PROVE OInv
  OBVIOUS
<1>1. RInv /\ HandsHeld /\ app = "up"
  BY RInvInit DEF Init, HandsHeld, DLQJob
<1>2. ASSUME NEW n \in Notification PROVE WorkOnce(n) /\ CopyOnce(n)
  BY DEF Init, BrokerInit, WorkOnce, CopyOnce, Creating, Recoverable, Bearing, Carrying, Stored,
         NoWork
<1> QED
  BY <1>1, <1>2 DEF OInv

LEMMA OInvImplies == OInv => DeliveredOnce /\ OneVerdict
<1> SUFFICES ASSUME OInv PROVE DeliveredOnce /\ OneVerdict
  OBVIOUS
<1>1. \A n \in Notification : delivered[n] \in Nat /\ CopyOnce(n)
  BY DEF OInv, RInv, LInv, TInv, TypeOK
<1> QED
  BY <1>1 DEF CopyOnce, DeliveredOnce, OneVerdict

LEMMA PromptFacts ==
    ASSUME PromptSetting, app = "up"
    PROVE  /\ ~Fails("database") /\ ~Fault("database")
           /\ ~Fails("timeout") /\ ~Fault("timeout") /\ ~Fault("redirected")
           /\ ContextAlive /\ \A kind : ~Disturbed(kind)
           /\ PublishFails => "publish" \in Faults
BY DEF PromptSetting, Fails, Fault, ContextAlive, Disturbed, PublishFails

\* What nobody publishes, marks or ages stays as it was, whatever its row becomes.
LEMMA WorkFrame ==
    ASSUME NEW n \in Notification, WorkOnce(n), UNCHANGED <<published, ripe, creator, ticker>>,
           Recoverable(n)' => Recoverable(n), Accepted(n) => Accepted(n)'
    PROVE  WorkOnce(n)'
BY DEF WorkOnce, Creating

LEMMA CopyFrame ==
    ASSUME NEW n \in Notification, CopyOnce(n), delivered'[n] = delivered[n],
           published[n] > 0 => published'[n] > 0,
           "failed" \in events'[n] <=> "failed" \in events[n],
           \A c \in Copy : Bearing(c, n)' => Bearing(c, n),
           \A c \in Copy : job'[c] \in {"report", "announceFailed"} /\ msg'[c].id = n =>
                              "failed" \in events[n]
    PROVE  CopyOnce(n)'
BY DEF CopyOnce

\* A step that leaves copies and deliveries alone.
LEMMA CopiesFrame ==
    ASSUME NEW n \in Notification, CopyOnce(n), UNCHANGED <<msg, job, delivered, published>>,
           "failed" \in events'[n] <=> "failed" \in events[n]
    PROVE  CopyOnce(n)'
<1>1. \A c \in Copy : Bearing(c, n)' => Bearing(c, n)
  BY DEF Bearing, Carrying, Stored
<1> QED
  BY <1>1, CopyFrame DEF CopyOnce

\* The first publish of a notification.
LEMMA PublishOnce ==
    ASSUME OInv, NEW m \in Notification, published[m] = 0,
           PublishReturnsNil("main", m, 0), UNCHANGED <<job, delivered>>,
           published' = [published EXCEPT ![m] = @ + 1], NEW n \in Notification
    PROVE  CopyOnce(n)'
<1>i. TInv /\ CopyPublished /\ CopyOnce(n) /\ CopyOnce(m)
  BY DEF OInv, RInv, LInv
<1>p. "main" \in Queue /\ 0 \in 0 .. MaxRetries
  BY MaxRetriesAssumption DEF Queue
<1>n. ~\E c \in Copy : Stored(c) /\ msg[c].id = m
  BY <1>i DEF CopyPublished
<1>t. /\ published'[m] = 1 /\ \A k \in Notification : k # m => published'[k] = published[k]
      /\ delivered[m] \in Nat /\ events[m] \in SUBSET Event
  BY <1>i DEF TInv, TypeOK
<1>e. "failed" \in events'[n] <=> "failed" \in events[n]
  BY <1>i DEF PublishReturnsNil, PublishAccepted, PublishVanishes, Note, TInv, TypeOK
<1>1. CASE PublishAccepted("main", m, 0)
  <2> PICK e \in Copy : /\ ~Stored(e) /\ job[e] = "idle"
                        /\ msg'[e] = Enqueued("main", m, 0) /\ msg'[e] # NoMessage
                        /\ \A d \in Copy : d # e => msg'[d] = msg[d]
    BY <1>1, <1>i, <1>p, AcceptedCopy
  <2>1. msg'[e].id = m
    BY DEF Enqueued
  <2>2. CASE n # m
    <3>1. \A c \in Copy : Bearing(c, n)' => Bearing(c, n)
      BY <2>1, <2>2 DEF Bearing, Carrying, Stored
    <3>2. \A c \in Copy : job'[c] \in {"report", "announceFailed"} /\ msg'[c].id = n =>
                              "failed" \in events[n]
      BY <1>i, <2>1, <2>2 DEF CopyOnce
    <3> QED
      BY <1>i, <1>e, <1>t, <2>2, <3>1, <3>2, CopyFrame
  <2>3. CASE n = m
    <3>1. \A c \in Copy : Bearing(c, n)' => c = e
      BY <1>n, <2>3 DEF Bearing, Carrying, Stored
    <3>2. delivered[n] = 0 /\ "failed" \notin events[n]
      BY <1>i, <1>t, <2>3 DEF CopyOnce
    <3>3. \A c \in Copy : job'[c] \in {"report", "announceFailed"} => msg'[c].id # n
      <4> SUFFICES ASSUME NEW c \in Copy, job[c] \in {"report", "announceFailed"}
                   PROVE  msg'[c].id # n
        OBVIOUS
      <4>1. c # e /\ Stored(c)
        BY <1>i, HandledCopy
      <4> QED
        BY <1>n, <2>3, <4>1
    <3> QED
      BY <1>e, <1>t, <2>3, <3>1, <3>2, <3>3 DEF CopyOnce
  <2> QED
    BY <2>2, <2>3
<1>2. CASE UNCHANGED msg
  <2>1. \A c \in Copy : Bearing(c, n)' => Bearing(c, n)
    BY <1>2 DEF Bearing, Carrying, Stored
  <2> QED
    BY <1>2, <1>i, <1>e, <1>t, <2>1, CopyFrame DEF CopyOnce
<1> QED
  BY <1>1, <1>2 DEF PublishReturnsNil, PublishVanishes

LEMMA CreatorOnce ==
    ASSUME PromptSetting, OInv, NEW r \in Request, CreateRows(r) \/ Creator(r),
           NEW n \in Notification
    PROVE  WorkOnce(n)' /\ CopyOnce(n)'
<1>i. /\ TInv /\ Known /\ MarkPublished /\ app = "up"
      /\ \A m \in Notification : WorkOnce(m) /\ CopyOnce(m)
  BY DEF OInv, RInv, LInv
<1>t. /\ creator \in [Request -> Work] /\ published \in [Notification -> Nat]
      /\ row \in [Notification -> Status \cup {"none"}]
  BY <1>i DEF TInv, TypeOK
<1>f. ~Fault("database") /\ (PublishFails => "publish" \in Faults)
  BY <1>i, PromptFacts
<1>1. CASE CreateRows(r)
  <2>1. UNCHANGED <<msg, job, delivered, published, events, ripe, ticker>>
    BY <1>1 DEF CreateRows
  <2>2. CopyOnce(n)'
    BY <1>i, <2>1, CopiesFrame
  <2>c. PICK scheduled \in SUBSET r :
          /\ row' = [k \in Notification |-> IF k \in scheduled THEN "scheduled"
                                           ELSE IF k \in r THEN "pending" ELSE row[k]]
          /\ creator' = [creator EXCEPT ![r].publish = r \ scheduled]
    BY <1>1, <1>f DEF CreateRows
  <2>3. /\ creator'[r].publish = r \ scheduled /\ creator'[r].mark = creator[r].mark
        /\ \A q \in Request : q # r => creator'[q] = creator[q]
    BY <1>t, <2>c DEF Work
  <2>4. CASE n \in r
    <3>1. row[n] = "none"
      BY <1>1, <2>4 DEF CreateRows
    <3>2. ~Accepted(n) /\ Accepted(n)'
      BY <2>c, <2>4, <3>1 DEF Accepted
    <3>3. \A q \in Request : ~Creating(q, n)
      BY <1>i, <3>2 DEF Known, Creating
    <3>4. published[n] = 0 /\ n \notin ripe /\ n \notin ticker.publish \cup ticker.mark
      BY <1>i, <1>t, <3>2 DEF Known, WorkOnce
    <3>5. \A q \in Request : Creating(q, n)' => q = r
      BY <2>3, <3>3 DEF Creating
    <3> QED
      BY <2>2, <2>1, <2>4, <3>2, <3>4, <3>5 DEF WorkOnce
  <2>5. CASE n \notin r
    <3>1. row'[n] = row[n]
      BY <2>c, <2>5
    <3>2. /\ \A q \in Request : n \in creator'[q].publish => n \in creator[q].publish
          /\ \A q \in Request : n \in creator'[q].mark <=> n \in creator[q].mark
      BY <2>3, <2>5
    <3>3. \A q \in Request : Creating(q, n)' => Creating(q, n)
      BY <3>2 DEF Creating
    <3> QED
      BY <1>i, <2>1, <2>2, <3>1, <3>2, <3>3 DEF WorkOnce, Recoverable, Accepted
  <2> QED
    BY <2>2, <2>4, <2>5
<1>2. CASE CreatorPublish(r)
  <2>1. PICK m \in creator[r].publish :
         \/ /\ PublishReturnsNil("main", m, 0)
            /\ published' = [published EXCEPT ![m] = @ + 1]
            /\ creator' = [creator EXCEPT ![r].publish = @ \ {m}, ![r].mark = @ \cup {m}]
         \/ /\ PublishFails
            /\ creator' = [creator EXCEPT ![r] = AfterFailedPublish(@, m)]
            /\ UNCHANGED <<msg, published, events>>
    BY <1>2 DEF CreatorPublish
  <2>2. UNCHANGED <<row, ripe, ticker, job, delivered>>
    BY <1>2 DEF CreatorPublish
  <2>3. m \in Notification /\ published[m] = 0 /\ Creating(r, m)
    BY <1>i, <1>t DEF Work, WorkOnce, Creating
  <2>4. CASE /\ PublishReturnsNil("main", m, 0)
             /\ published' = [published EXCEPT ![m] = @ + 1]
             /\ creator' = [creator EXCEPT ![r].publish = @ \ {m}, ![r].mark = @ \cup {m}]
    <3>1. CopyOnce(n)'
      BY <2>2, <2>3, <2>4, PublishOnce
    <3>2. /\ creator'[r].publish = creator[r].publish \ {m}
          /\ creator'[r].mark = creator[r].mark \cup {m}
          /\ \A q \in Request : q # r => creator'[q] = creator[q]
      BY <1>t, <2>4 DEF Work
    <3>3. \A q \in Request : Creating(q, n)' <=> Creating(q, n)
      BY <2>1, <3>2 DEF Creating
    <3>4. published'[n] = IF n = m THEN 1 ELSE published[n]
      BY <1>t, <2>3, <2>4
    <3>5. CASE n = m
      <4>1. n \notin ripe /\ n \notin ticker.publish \cup ticker.mark
        BY <1>i, <2>3, <3>5 DEF WorkOnce
      <4>2. \A q \in Request : Creating(q, n) => q = r
        BY <1>i, <2>3, <3>5 DEF WorkOnce
      <4>3. \A q \in Request : n \notin creator'[q].publish
        BY <3>2, <3>3, <3>5, <4>2 DEF Creating
      <4> QED
        BY <3>1, <1>i, <2>2, <2>3, <3>2, <3>3, <3>4, <3>5, <4>1, <4>3 DEF WorkOnce
    <3>6. CASE n # m
      <4>1. \A q \in Request : /\ n \in creator'[q].publish <=> n \in creator[q].publish
                               /\ n \in creator'[q].mark <=> n \in creator[q].mark
        BY <3>2, <3>6
      <4> QED
        BY <3>1, <1>i, <2>2, <3>3, <3>4, <3>6, <4>1 DEF WorkOnce, Recoverable, Accepted
    <3> QED
      BY <3>1, <3>5, <3>6
  <2>5. CASE /\ PublishFails
             /\ creator' = [creator EXCEPT ![r] = AfterFailedPublish(@, m)]
             /\ UNCHANGED <<msg, published, events>>
    <3>1. CopyOnce(n)'
      BY <1>i, <2>2, <2>5, CopiesFrame
    <3>2. /\ creator'[r] = NoWork
          /\ \A q \in Request : q # r => creator'[q] = creator[q]
      BY <1>t, <2>5 DEF AfterFailedPublish
    <3>3. m \in r /\ \A k \in r : k = m
      BY <1>i, <1>f, <2>3, <2>5 DEF PromptSetting, WorkOnce
    <3>4. creator[r].mark = {}
      <4> SUFFICES ASSUME NEW k \in creator[r].mark PROVE FALSE
        OBVIOUS
      <4>1. k \in Notification /\ k \in r /\ published[k] > 0
        BY <1>i, <1>t DEF WorkOnce, Creating, MarkPublished, Work
      <4> QED
        BY <2>3, <3>3, <4>1
    <3>5. /\ \A q \in Request : n \in creator'[q].publish => n \in creator[q].publish
          /\ \A q \in Request : n \in creator'[q].mark <=> n \in creator[q].mark
      BY <3>2, <3>4 DEF NoWork
    <3>6. \A q \in Request : Creating(q, n)' => Creating(q, n)
      BY <3>5 DEF Creating
    <3> QED
      BY <1>i, <2>2, <2>5, <3>1, <3>5, <3>6 DEF WorkOnce, Recoverable, Accepted
  <2> QED
    BY <2>1, <2>4, <2>5
<1>3. CASE CreatorMark(r)
  <2>1. PICK m \in creator[r].mark :
         Save(m, "queued", {}) /\ creator' = [creator EXCEPT ![r].mark = @ \ {m}]
    BY <1>3, <1>f DEF CreatorMark
  <2>2. UNCHANGED <<msg, ripe, ticker, job, published, delivered>>
    BY <1>3 DEF CreatorMark
  <2>3. m \in Notification
    BY <1>t DEF Work
  <2>4. /\ row'[m] = "queued" /\ \A k \in Notification : k # m => row'[k] = row[k]
        /\ events'[n] = events[n]
    BY <1>i, <2>1, <2>3 DEF Save, Note, TInv, TypeOK
  <2>5. /\ creator'[r].publish = creator[r].publish
        /\ creator'[r].mark = creator[r].mark \ {m}
        /\ \A q \in Request : q # r => creator'[q] = creator[q]
    BY <1>t, <2>1 DEF Work
  <2>6. CopyOnce(n)'
    BY <1>i, <2>2, <2>4, CopiesFrame
  <2>7. \A q \in Request : Creating(q, n)' => Creating(q, n)
    BY <2>5 DEF Creating
  <2>8. n # m => \A q \in Request : n \in creator'[q].mark <=> n \in creator[q].mark
    BY <2>5
  <2>9. \A q \in Request : n \in creator'[q].publish <=> n \in creator[q].publish
    BY <2>5
  <2>10. Accepted(n) => Accepted(n)'
    BY <2>4 DEF Accepted
  <2>11. CASE n = m
    BY <1>i, <2>2, <2>4, <2>6, <2>7, <2>9, <2>10, <2>11 DEF WorkOnce, Recoverable
  <2>12. CASE n # m
    BY <1>i, <2>2, <2>4, <2>6, <2>7, <2>8, <2>9, <2>10, <2>12 DEF WorkOnce, Recoverable
  <2> QED
    BY <2>6, <2>11, <2>12
<1> QED
  BY <1>1, <1>2, <1>3 DEF Creator

LEMMA CancelOnce ==
    ASSUME PromptSetting, OInv, NEW m \in Notification,
           CancelRead(m) \/ CancelSave(m) \/ Ripen(m), NEW n \in Notification
    PROVE  WorkOnce(n)' /\ CopyOnce(n)'
<1>i. TInv /\ WorkOnce(n) /\ CopyOnce(n) /\ app = "up"
  BY DEF OInv, RInv, LInv
<1>1. UNCHANGED <<msg, job, delivered, published, creator, ticker>>
  BY DEF CancelRead, CancelSave, Ripen
<1>2. CASE CancelRead(m)
  BY <1>i, <1>1, <1>2, WorkFrame, CopiesFrame DEF CancelRead, Recoverable, Accepted
<1>3. CASE CancelSave(m)
  <2>1. Save(m, "cancelled", {})
    BY <1>3, <1>i, PromptFacts DEF CancelSave
  <2>2. /\ row'[m] = "cancelled" /\ \A k \in Notification : k # m => row'[k] = row[k]
        /\ "failed" \in events'[n] <=> "failed" \in events[n]
    BY <1>i, <2>1 DEF Save, Note, TInv, TypeOK
  <2>3. (Recoverable(n)' => Recoverable(n)) /\ (Accepted(n) => Accepted(n)')
    BY <2>2 DEF Recoverable, Accepted
  <2> QED
    BY <1>i, <1>1, <1>3, <2>2, <2>3, WorkFrame, CopiesFrame DEF CancelSave
<1>4. CASE Ripen(m)
  <2>1. UNCHANGED <<row, events>> /\ ripe' = ripe \cup {m} /\ Accepted(m)
    BY <1>4 DEF Ripen, Accepted
  <2>2. \A r \in Request : ~Creating(r, m)
    BY <1>4 DEF Ripen, BeingCreated, Creating, PromptSetting
  <2>3. \A r \in Request : Creating(r, n)' <=> Creating(r, n)
    BY <1>1 DEF Creating
  <2> QED
    BY <1>i, <1>1, <2>1, <2>2, <2>3, CopiesFrame DEF WorkOnce, Recoverable, Accepted
<1> QED
  BY <1>2, <1>3, <1>4

LEMMA TickerOnce ==
    ASSUME PromptSetting, OInv, Ticker, NEW n \in Notification
    PROVE  WorkOnce(n)' /\ CopyOnce(n)'
<1>i. /\ TInv /\ app = "up" /\ \A m \in Notification : WorkOnce(m) /\ CopyOnce(m)
  BY DEF OInv, RInv, LInv
<1>t. ticker \in Work /\ published \in [Notification -> Nat]
  BY <1>i DEF TInv, TypeOK
<1>c. UNCHANGED creator => \A r \in Request : Creating(r, n)' <=> Creating(r, n)
  BY DEF Creating
<1>1. ASSUME NEW s \in {"pending", "scheduled"}, TickerRead(s)
      PROVE  WorkOnce(n)' /\ CopyOnce(n)'
  <2>1. UNCHANGED <<msg, row, ripe, creator, job, published, delivered, events>>
    BY <1>1 DEF TickerRead
  <2>2. /\ ticker.publish = {} /\ ticker.mark = {}
        /\ ticker'.publish = Found(s) /\ ticker'.mark = {}
    BY <1>1 DEF TickerRead, NoWork
  <2>3. n \in Found(s) => n \in ripe /\ Recoverable(n)
    BY DEF Found, Recoverable
  <2>4. n \in Found(s) => published[n] = 0
    BY <1>i, <1>t, <2>2, <2>3 DEF WorkOnce, Creating
  <2> QED
    BY <1>i, <1>c, <2>1, <2>2, <2>3, <2>4, CopiesFrame DEF WorkOnce, Recoverable, Accepted
<1>2. CASE TickerPublish
  <2>1. PICK m \in ticker.publish :
         \/ /\ PublishReturnsNil("main", m, 0)
            /\ published' = [published EXCEPT ![m] = @ + 1]
            /\ ticker' = [publish |-> ticker.publish \ {m}, mark |-> {m}]
         \/ /\ ticker' = AfterFailedRepublish(m)
            /\ UNCHANGED <<msg, published, events>>
    BY <1>2 DEF TickerPublish
  <2>2. UNCHANGED <<row, ripe, creator, job, delivered>> /\ ticker.mark = {}
    BY <1>2 DEF TickerPublish
  <2>3. m \in Notification /\ published[m] = 0 /\ m \in ripe
    BY <1>i, <1>t DEF Work, WorkOnce
  <2>4. CASE /\ PublishReturnsNil("main", m, 0)
             /\ published' = [published EXCEPT ![m] = @ + 1]
             /\ ticker' = [publish |-> ticker.publish \ {m}, mark |-> {m}]
    <3>1. CopyOnce(n)'
      BY <2>2, <2>3, <2>4, PublishOnce
    <3>2. published'[n] = IF n = m THEN 1 ELSE published[n]
      BY <1>t, <2>3, <2>4
    <3>3. n = m => \A r \in Request : ~Creating(r, n)
      BY <1>i, <2>3 DEF WorkOnce
    <3>4. ticker'.publish = ticker.publish \ {m} /\ ticker'.mark = {m}
      BY <2>4
    <3>5. CASE n = m
      BY <3>1, <1>i, <1>c, <2>2, <2>3, <3>2, <3>3, <3>4, <3>5 DEF WorkOnce, Creating, Accepted
    <3>6. CASE n # m
      BY <3>1, <1>i, <1>c, <2>2, <3>2, <3>4, <3>6 DEF WorkOnce, Recoverable, Accepted
    <3> QED
      BY <3>1, <3>5, <3>6
  <2>5. CASE ticker' = AfterFailedRepublish(m) /\ UNCHANGED <<msg, published, events>>
    <3>1. ticker'.publish = ticker.publish \ {m} /\ ticker'.mark = {}
      BY <1>t, <2>2, <2>5 DEF AfterFailedRepublish, Work
    <3> QED
      BY <1>i, <1>c, <2>2, <2>5, <3>1, CopiesFrame DEF WorkOnce, Recoverable, Accepted
  <2> QED
    BY <2>1, <2>4, <2>5
<1>3. CASE TickerMark
  <2>1. PICK m \in ticker.mark : Save(m, "queued", {})
    BY <1>3, <1>i, PromptFacts DEF TickerMark
  <2>2. /\ UNCHANGED <<msg, ripe, creator, job, published, delivered>>
        /\ ticker'.publish = ticker.publish /\ ticker'.mark = {}
    BY <1>3, <1>t DEF TickerMark, Work
  <2>3. m \in Notification /\ ticker.mark = {m}
    BY <1>i, <1>t DEF Work, WorkOnce
  <2>4. /\ row'[m] = "queued" /\ \A k \in Notification : k # m => row'[k] = row[k]
        /\ events'[n] = events[n]
    BY <1>i, <2>1, <2>3 DEF Save, Note, TInv, TypeOK
  <2>5. CopyOnce(n)'
    BY <1>i, <2>2, <2>4, CopiesFrame
  <2>6. Accepted(n) => Accepted(n)'
    BY <2>4 DEF Accepted
  <2>7. Recoverable(n)' => Recoverable(n) /\ n # m
    BY <2>4 DEF Recoverable
  <2> QED
    BY <1>i, <1>c, <2>2, <2>3, <2>5, <2>6, <2>7 DEF WorkOnce
<1> QED
  BY <1>1, <1>2, <1>3 DEF Ticker

LEMMA DeliveryOnce ==
    ASSUME OInv, NEW c \in Copy, DeliverMain(c) \/ DeliverDLQ(c) \/ BrokerExpire(c),
           NEW n \in Notification
    PROVE  WorkOnce(n)' /\ CopyOnce(n)'
<1>i. TInv /\ HandsHeld /\ WorkOnce(n) /\ CopyOnce(n)
  BY DEF OInv, RInv, LInv
<1>1. UNCHANGED <<row, ripe, creator, ticker, published, delivered, events>>
  BY DEF DeliverMain, DeliverDLQ, Take, BrokerExpire
<1>2. WorkOnce(n)'
  BY <1>i, <1>1, WorkFrame DEF Recoverable, Accepted
<1>3. /\ Stored(c) /\ job[c] = "idle" /\ msg'[c].id = msg[c].id
      /\ job'[c] \in {"idle", "read", "mark"}
      /\ \A d \in Copy : d # c => msg'[d] = msg[d] /\ job'[d] = job[d]
  <2>1. CASE BrokerExpire(c)
    BY <1>i, <2>1, ExpireFacts DEF HandsHeld
  <2>2. ASSUME NEW j \in {"read", "mark"}, Take(c, j)
        PROVE  /\ Stored(c) /\ job[c] = "idle" /\ msg'[c].id = msg[c].id /\ job'[c] = j
               /\ \A d \in Copy : d # c => msg'[d] = msg[d] /\ job'[d] = job[d]
    BY <1>i, <2>2, TakeFacts DEF Take, HandsHeld
  <2> QED
    BY <2>1, <2>2 DEF DeliverMain, DeliverDLQ
<1>4. \A d \in Copy : Bearing(d, n)' => Bearing(d, n)
  BY <1>3 DEF Bearing, Carrying, Settling, Stored
<1>5. \A d \in Copy : job'[d] \in {"report", "announceFailed"} /\ msg'[d].id = n =>
                           "failed" \in events[n]
  BY <1>i, <1>3 DEF CopyOnce
<1> QED
  BY <1>i, <1>1, <1>2, <1>4, <1>5, CopyFrame

\* A step of a handler after which its copy bears no more than before.
LEMMA HandOnce ==
    ASSUME OInv, NEW c \in Copy, job[c] # "idle", UNCHANGED <<delivered, published>>,
           \A d \in Copy : d # c => msg'[d] = msg[d] /\ job'[d] = job[d],
           msg'[c] # NoMessage => msg'[c].id = msg[c].id,
           msg'[c] # NoMessage /\ job'[c] \notin Settling => job[c] \notin Settling,
           job'[c] = "idle" \/ (job'[c] \in {"report", "announceFailed"} =>
               job[c] \in {"report", "announceFailed"} \/ "failed" \in events[msg[c].id]),
           NEW n \in Notification, "failed" \in events'[n] <=> "failed" \in events[n],
           msg'[c] = NoMessage => job'[c] = "idle"
    PROVE  CopyOnce(n)'
<1>i. TInv /\ CopyOnce(n)
  BY DEF OInv, RInv, LInv
<1>c. Stored(c) /\ msg[c].id \in Notification
  BY <1>i, HandledCopy
<1>1. \A d \in Copy : Bearing(d, n)' => Bearing(d, n)
  BY <1>c DEF Bearing, Carrying, Stored
<1>2. \A d \in Copy : job'[d] \in {"report", "announceFailed"} /\ msg'[d].id = n =>
                           "failed" \in events[n]
  BY <1>i DEF CopyOnce
<1> QED
  BY <1>i, <1>1, <1>2, CopyFrame

LEMMA HandlerOnce ==
    ASSUME PromptSetting, OInv, NEW c \in Copy, Handle(c), NEW n \in Notification
    PROVE  WorkOnce(n)' /\ CopyOnce(n)'
<1>i. /\ TInv /\ HandsHeld /\ app = "up" /\ RowTrue /\ CopyPublished
      /\ \A k \in Notification : WorkOnce(k) /\ CopyOnce(k)
  BY DEF OInv, RInv, LInv
<1>f. /\ ~Fails("database") /\ ~Fails("timeout") /\ ~Fault("timeout")
      /\ ~Fault("redirected")
  BY <1>i, PromptFacts
<1>h. job[c] # "idle"
  BY DEF Handle, ProcessRead, ProcessSave, Send, MarkSent, AnnounceSent, Acknowledge,
         MarkFailure, Retry, Report, AnnounceFailed
<1>c. Stored(c) /\ msg[c] \in Message /\ msg[c].id \in Notification
  BY <1>h, <1>i, HandledCopy
<1> DEFINE m == msg[c].id
<1>u. UNCHANGED <<ripe, creator, ticker, published>>
  BY DEF Handle, ProcessRead, ProcessSave, Send, MarkSent, AnnounceSent, Acknowledge,
         MarkFailure, Retry, Report, AnnounceFailed
<1>s. ASSUME NEW s \in {"processing", "sent", "retrying", "failed"}, Save(m, s, {})
      PROVE  /\ row'[m] = s /\ \A k \in Notification : k # m => row'[k] = row[k]
             /\ "failed" \in events'[n] <=>
                   "failed" \in events[n] \/ (n = m /\ s = "failed")
             /\ \A k \in Notification : k # m => events'[k] = events[k]
             /\ WorkOnce(n)'
  <2>1. /\ row'[m] = s /\ \A k \in Notification : k # m => row'[k] = row[k]
        /\ "failed" \in events'[n] <=>
                   "failed" \in events[n] \/ (n = m /\ s = "failed")
        /\ \A k \in Notification : k # m => events'[k] = events[k]
    BY <1>i, <1>c, <1>s DEF Save, Note, TInv, TypeOK
  <2>2. (Recoverable(n)' => Recoverable(n)) /\ (Accepted(n) => Accepted(n)')
    BY <2>1 DEF Recoverable, Accepted
  <2> QED
    BY <1>i, <1>u, <2>1, <2>2, WorkFrame
<1>w. UNCHANGED row => WorkOnce(n)'
  BY <1>i, <1>u, WorkFrame DEF Recoverable, Accepted
<1>g. ASSUME NEW j \in Job, Goto(c, j)
      PROVE  /\ UNCHANGED msg /\ job'[c] = j
             /\ \A d \in Copy : d # c => job'[d] = job[d]
  BY <1>g, <1>i DEF Goto, TInv, TypeOK
<1>j. {"save", "send", "markSent", "announceSent", "ack", "retry", "report",
       "announceFailed"} \subseteq Job
  BY DEF Job, MainJob, DLQJob
<1>n. ASSUME Nack(c), job[c] \notin Settling, UNCHANGED <<delivered, row>>,
             "failed" \in events'[n] <=> "failed" \in events[n]
      PROVE  WorkOnce(n)' /\ CopyOnce(n)'
  <2>1. CopyOnce(n)'
    BY <1>n, <1>h, <1>i, <1>u, NackFacts, HandOnce
  <2> QED
    BY <1>n, <1>w, <2>1
<1>1. CASE ProcessRead(c)
  <2>1. UNCHANGED <<row, delivered, events>> /\ job[c] = "read"
    BY <1>1 DEF ProcessRead
  <2>2. Nack(c) \/ Goto(c, "ack") \/ Goto(c, "save")
    BY <1>1 DEF ProcessRead
  <2>3. CASE Goto(c, "ack") \/ Goto(c, "save")
    <3>1. /\ UNCHANGED msg /\ job'[c] \in {"ack", "save"}
          /\ \A d \in Copy : d # c => job'[d] = job[d]
      BY <1>g, <1>j, <2>3
    <3>2. CopyOnce(n)'
      BY <1>h, <1>c, <1>u, <2>1, <3>1, HandOnce DEF Stored, Settling
    <3> QED
      BY <1>w, <2>1, <3>2
  <2> QED
    BY <1>n, <2>1, <2>2, <2>3 DEF Settling
<1>2. CASE ProcessSave(c)
  <2>1. /\ Save(m, "processing", {}) /\ Goto(c, "send") /\ UNCHANGED delivered
        /\ job[c] = "save"
    BY <1>2, <1>f DEF ProcessSave
  <2>2. WorkOnce(n)' /\ ("failed" \in events'[n] <=> "failed" \in events[n])
    BY <1>s, <2>1
  <2>3. CopyOnce(n)'
    BY <1>c, <1>g, <1>j, <1>h, <1>u, <2>1, <2>2, HandOnce DEF Stored, Settling
  <2> QED
    BY <2>2, <2>3
<1>3. CASE Send(c)
  <2>1. UNCHANGED <<row, events>> /\ job[c] = "send"
    BY <1>3, <1>f DEF Send
  <2>2. CASE Goto(c, "markSent") /\ delivered' = [delivered EXCEPT ![m] = @ + 1]
    <3>1. /\ UNCHANGED msg /\ job'[c] = "markSent"
          /\ \A d \in Copy : d # c => job'[d] = job[d]
      BY <1>g, <1>j, <2>2
    <3>2. Bearing(c, m) /\ \A d \in Copy : Bearing(d, n)' => Bearing(d, n) /\ d # c
      BY <1>c, <2>1, <3>1 DEF Bearing, Carrying, Settling, Stored
    <3>3. CASE n = m
      <4>1. delivered'[n] = 1 /\ "failed" \notin events[n] /\ published[n] > 0
        BY <1>i, <1>c, <2>2, <3>2, <3>3 DEF CopyOnce, CopyPublished, TInv, TypeOK
      <4>2. \A d \in Copy : ~Bearing(d, n)'
        BY <1>i, <3>2, <3>3 DEF CopyOnce
      <4>3. \A d \in Copy : job'[d] \in {"report", "announceFailed"} /\ msg'[d].id = n =>
                                 "failed" \in events[n]
        BY <1>i, <3>1 DEF CopyOnce
      <4>4. CopyOnce(n)'
        BY <1>u, <2>1, <4>1, <4>2, <4>3 DEF CopyOnce
      <4> QED
        BY <1>w, <2>1, <4>4
    <3>4. CASE n # m
      <4>1. delivered'[n] = delivered[n]
        BY <1>i, <2>2, <3>4 DEF TInv, TypeOK
      <4>2. \A d \in Copy : job'[d] \in {"report", "announceFailed"} /\ msg'[d].id = n =>
                                 "failed" \in events[n]
        BY <1>i, <3>1 DEF CopyOnce
      <4>3. CopyOnce(n)'
        BY <1>i, <1>u, <2>1, <3>2, <4>1, <4>2, CopyFrame
      <4> QED
        BY <1>w, <2>1, <4>3
    <3> QED
      BY <3>3, <3>4
  <2>3. CASE Nack(c) /\ UNCHANGED delivered
    BY <1>n, <2>1, <2>3 DEF Settling
  <2> QED
    BY <1>3, <1>f, <2>2, <2>3 DEF Send
<1>4. CASE MarkSent(c)
  <2>1. /\ Save(m, "sent", {}) /\ Goto(c, "announceSent") /\ UNCHANGED delivered
        /\ job[c] = "markSent"
    BY <1>4, <1>f DEF MarkSent
  <2>2. WorkOnce(n)' /\ ("failed" \in events'[n] <=> "failed" \in events[n])
    BY <1>s, <2>1
  <2>3. CopyOnce(n)'
    BY <1>c, <1>g, <1>j, <1>h, <1>u, <2>1, <2>2, HandOnce DEF Stored, Settling
  <2> QED
    BY <2>2, <2>3
<1>5. CASE AnnounceSent(c) \/ AnnounceFailed(c)
  <2>1. UNCHANGED <<row, delivered, events>> /\ Goto(c, "ack") /\ job[c] \in Settling
    BY <1>5 DEF AnnounceSent, AnnounceFailed, Settling
  <2>2. CopyOnce(n)'
    BY <1>c, <1>g, <1>j, <1>h, <1>u, <2>1, HandOnce DEF Stored, Settling
  <2> QED
    BY <1>w, <2>1, <2>2
<1>6. CASE Acknowledge(c)
  <2>1. UNCHANGED <<row, delivered, events>> /\ Settle(c, NoMessage)
    BY <1>6 DEF Acknowledge, Ack
  <2>2. msg'[c] = NoMessage /\ job'[c] = "idle"
    BY <1>i, <2>1 DEF Settle, TInv, TypeOK, BrokerTypeOK
  <2>3. \A d \in Copy : d # c => msg'[d] = msg[d] /\ job'[d] = job[d]
    BY <1>i, <2>1 DEF Settle, TInv, TypeOK, BrokerTypeOK
  <2>4. CopyOnce(n)'
    BY <1>h, <1>u, <2>1, <2>2, <2>3, HandOnce
  <2> QED
    BY <1>w, <2>1, <2>4
<1>7. CASE MarkFailure(c)
  <2>1. UNCHANGED delivered /\ job[c] = "mark"
    BY <1>7 DEF MarkFailure
  <2>2. CASE RetriesLeft(msg[c])
    <3>1. Save(m, "retrying", {}) /\ Goto(c, "retry")
      BY <1>7, <1>f, <2>2 DEF MarkFailure
    <3>2. WorkOnce(n)' /\ ("failed" \in events'[n] <=> "failed" \in events[n])
      BY <1>s, <3>1
    <3>3. CopyOnce(n)'
      BY <1>c, <1>g, <1>j, <1>h, <1>u, <2>1, <3>1, <3>2, HandOnce DEF Stored, Settling
    <3> QED
      BY <3>2, <3>3
  <2>3. CASE ~RetriesLeft(msg[c])
    <3>1. Save(m, "failed", {}) /\ Goto(c, "report")
      BY <1>7, <1>f, <2>3 DEF MarkFailure
    <3>2. /\ WorkOnce(n)'
          /\ "failed" \in events'[n] <=> "failed" \in events[n] \/ n = m
      BY <1>s, <3>1
    <3>3. /\ UNCHANGED msg /\ job'[c] = "report"
          /\ \A d \in Copy : d # c => job'[d] = job[d]
      BY <1>g, <1>j, <3>1
    <3>4. Bearing(c, m) /\ \A d \in Copy : Bearing(d, n)' => Bearing(d, n) /\ d # c
      BY <1>c, <2>1, <3>3 DEF Bearing, Carrying, Settling, Stored
    <3>5. CASE n = m
      <4>1. delivered[n] = 0 /\ published[n] > 0
        BY <1>i, <1>c, <3>4, <3>5 DEF CopyOnce, CopyPublished
      <4>2. \A d \in Copy : ~Bearing(d, n)'
        BY <1>i, <3>4, <3>5 DEF CopyOnce
      <4>3. CopyOnce(n)'
        BY <1>u, <2>1, <3>2, <3>5, <4>1, <4>2 DEF CopyOnce
      <4> QED
        BY <3>2, <4>3
    <3>6. CASE n # m
      <4>1. \A d \in Copy : job'[d] \in {"report", "announceFailed"} /\ msg'[d].id = n =>
                                 "failed" \in events[n]
        BY <1>i, <3>3, <3>6 DEF CopyOnce
      <4>2. CopyOnce(n)'
        BY <1>i, <1>u, <2>1, <3>2, <3>4, <3>6, <4>1, CopyFrame
      <4> QED
        BY <3>2, <4>2
    <3> QED
      BY <3>5, <3>6
  <2> QED
    BY <2>2, <2>3
<1>8. CASE Retry(c)
  <2>1. UNCHANGED <<row, delivered>> /\ job[c] = "retry"
    BY <1>8 DEF Retry
  <2>2. CASE /\ PublishReturnsNil("retry", m, msg[c].retry + 1)
             /\ job' = [job EXCEPT ![c] = Verdict(row[m])]
    <3>1. Bearing(c, m) /\ "failed" \notin events[m]
      BY <1>i, <1>c, <2>1 DEF Bearing, Carrying, Settling, CopyOnce
    <3>2. row[m] # "failed"
      BY <1>i, <1>c, <3>1 DEF RowTrue
    <3>3. job'[c] = "ack" /\ \A d \in Copy : d # c => job'[d] = job[d]
      BY <1>i, <2>2, <3>2 DEF Verdict, TInv, TypeOK
    <3>4. "failed" \in events'[n] <=> "failed" \in events[n]
      BY <1>i, <1>c, <2>2
      DEF PublishReturnsNil, PublishAccepted, PublishVanishes, Note, TInv, TypeOK
    <3>5. CASE PublishAccepted("retry", m, msg[c].retry + 1)
      <4>1. msg[c].retry + 1 \in 0 .. MaxRetries /\ "retry" \in Queue
        BY <1>i, <1>c, <2>1, MaxRetriesAssumption
        DEF TInv, JobsFit, RetriesLeft, Message, Queue
      <4> PICK e \in Copy : /\ ~Stored(e) /\ job[e] = "idle"
                            /\ msg'[e] = Enqueued("retry", m, msg[c].retry + 1)
                            /\ \A d \in Copy : d # e => msg'[d] = msg[d]
        BY <1>i, <1>c, <3>5, <4>1, AcceptedCopy
      <4>2. msg'[e].id = m /\ e # c
        BY <1>c DEF Enqueued
      <4>3. \A d \in Copy : Bearing(d, n)' => d # c /\ (Bearing(d, n) \/ (d = e /\ n = m))
        BY <3>3, <4>2 DEF Bearing, Carrying, Settling, Stored
      <4>4. \A d \in Copy : job'[d] \in {"report", "announceFailed"} /\ msg'[d].id = n =>
                                 "failed" \in events[n]
        <5> SUFFICES ASSUME NEW d \in Copy, job'[d] \in {"report", "announceFailed"},
                            msg'[d].id = n
                     PROVE  "failed" \in events[n]
          OBVIOUS
        <5>1. d # c /\ d # e /\ job'[d] = job[d] /\ msg'[d] = msg[d]
          BY <3>3, <4>2
        <5> QED
          BY <1>i, <5>1 DEF CopyOnce
      <4>5. CASE n = m
        <5>1. /\ \A d \in Copy : Bearing(d, n)' => d = e
              /\ delivered[n] = 0 /\ "failed" \notin events[n]
          BY <1>i, <3>1, <4>3, <4>5 DEF CopyOnce
        <5>2. CopyOnce(n)'
          BY <1>u, <2>1, <3>4, <4>4, <5>1 DEF CopyOnce
        <5> QED
          BY <1>w, <2>1, <5>2
      <4>6. CASE n # m
        <5>1. CopyOnce(n)'
          BY <1>i, <1>u, <2>1, <3>4, <4>3, <4>4, <4>6, CopyFrame
        <5> QED
          BY <1>w, <2>1, <5>1
      <4> QED
        BY <4>5, <4>6
    <3>6. CASE UNCHANGED msg
      <4>1. CopyOnce(n)'
        BY <1>c, <1>h, <1>u, <2>1, <3>3, <3>4, <3>6, HandOnce DEF Stored, Settling
      <4> QED
        BY <1>w, <2>1, <4>1
    <3> QED
      BY <2>2, <3>5, <3>6 DEF PublishReturnsNil, PublishVanishes
  <2>3. CASE Nack(c) /\ Note(m, Discarding(c))
    <3>1. "failed" \in events'[n] <=> "failed" \in events[n]
      BY <1>i, <1>c, <2>3 DEF Note, Discarding, TInv, TypeOK
    <3> QED
      BY <1>n, <2>1, <2>3, <3>1 DEF Settling
  <2> QED
    BY <1>8, <2>2, <2>3 DEF Retry
<1>9. CASE Report(c)
  <2>1. /\ UNCHANGED <<row, delivered, events>> /\ job[c] = "report"
        /\ Goto(c, Verdict(row[m]))
    BY <1>9, <1>f DEF Report
  <2>2. Verdict(row[m]) \in {"announceFailed", "ack"}
    BY DEF Verdict
  <2>3. CopyOnce(n)'
    BY <1>c, <1>g, <1>j, <1>h, <1>u, <2>1, <2>2, HandOnce DEF Stored, Settling
  <2> QED
    BY <1>w, <2>1, <2>3
<1> QED
  BY <1>1, <1>2, <1>3, <1>4, <1>5, <1>6, <1>7, <1>8, <1>9 DEF Handle

LEMMA OInvNext ==
    ASSUME PromptSetting, OInv, [Next]_vars
    PROVE  OInv'
<1>i. /\ RInv /\ TInv /\ HandsHeld /\ app = "up"
      /\ \A n \in Notification : WorkOnce(n) /\ CopyOnce(n)
  BY DEF OInv, RInv, LInv
<1>1. RInv' /\ HandsHeld'
  BY <1>i, RInvNext, HandsHeldNext
<1>2. app' = "up" /\ ~(Crash \/ Stop \/ Cut \/ Exit \/ Restart)
  <2>1. ~(Crash \/ Stop \/ Cut \/ Exit \/ Restart)
    BY <1>i, PromptFacts DEF Crash, Stop, Cut, Exit, Restart
  <2> QED
    BY <1>i, <2>1
    DEF Next, vars, CreateRows, Creator, CreatorPublish, CreatorMark, CancelRead, CancelSave,
        Ripen, Ticker, TickerRead, TickerPublish, TickerMark, DeliverMain, DeliverDLQ, Take,
        Handle, ProcessRead, ProcessSave, Send, MarkSent, AnnounceSent, MarkFailure, Retry,
        Report, AnnounceFailed, Acknowledge, BrokerExpire
<1>3. ASSUME NEW n \in Notification PROVE WorkOnce(n)' /\ CopyOnce(n)'
  <2>1. CASE UNCHANGED vars
    <3>1. UNCHANGED <<msg, row, ripe, creator, ticker, job, published, delivered, events>>
      BY <2>1 DEF vars
    <3> QED
      BY <1>i, <3>1, WorkFrame, CopiesFrame DEF Recoverable, Accepted
  <2> QED
    BY <2>1, <1>2, CreatorOnce, CancelOnce, TickerOnce, DeliveryOnce, HandlerOnce DEF Next
<1> QED
  BY <1>1, <1>2, <1>3 DEF OInv

LEMMA OInvHolds ==
    ASSUME PromptSetting
    PROVE  Spec => []OInv
<1>1. OInv /\ [Next]_vars => OInv'
  BY OInvNext
<1> QED
  BY <1>1, OInvInit, PTL DEF Spec

\* In a prompt setting the provider gets a notification once, for any notifications,
\* copies, requests, consumers and retries, however often sends and publishes fail:
\* creator and ticker never publish the same row, and of a message, its copy in the DLQ
\* and its retry one at most can still be sent (processing_service.go, consumer.go).
THEOREM SentOnce ==
    ASSUME PromptSetting
    PROVE  Spec => []DeliveredOnce
BY OInvHolds, OInvImplies, PTL

\* Nor is anybody told "failed" of a notification the provider has or still gets: the
\* handler that gives a message up holds the last copy of it (HandleDeliveryFailure).
THEOREM VerdictIsOne ==
    ASSUME PromptSetting
    PROVE  Spec => []OneVerdict
BY OInvHolds, OInvImplies, PTL

-----------------------------------------------------------------------------
(* 3 ^ k: Tripled is well defined, and as its name says *)

LEMMA Least ==
    ASSUME NEW S \in SUBSET Nat, S # {}
    PROVE  \E x \in S : \A y \in S : x <= y
<1>1. PICK x \in S : \A y \in S : <<y, x>> \notin OpToRel(<, Nat)
  BY NatLessThanWellFounded, WFMin, Zenon
<1>2. ASSUME NEW y \in S PROVE ~(y < x)
  BY <1>1, <1>2, Zenon DEF OpToRel
<1> QED
  BY <1>2

Triples(m) ==
    {f \in [0 .. m -> Nat] : \A k \in 0 .. m : f[k] = IF k = 0 THEN 1 ELSE 3 * f[k - 1]}

LEMMA TriplesAgree ==
    ASSUME NEW m \in Nat, NEW q \in Nat, m <= q, NEW f \in Triples(m), NEW g \in Triples(q),
           NEW i \in 0 .. m
    PROVE  f[i] = g[i]
<1> DEFINE Differ == {j \in 0 .. m : f[j] # g[j]}
<1> SUFFICES ASSUME Differ # {} PROVE FALSE
  OBVIOUS
<1>1. PICK x \in Differ : \A y \in Differ : x <= y
  <2>1. Differ \in SUBSET Nat
    OBVIOUS
  <2> HIDE DEF Differ
  <2> QED
    BY <2>1, Least
<1>2. x \in 0 .. m /\ x \in 0 .. q /\ f[x] # g[x]
  OBVIOUS
<1>3. x # 0
  BY <1>2 DEF Triples
<1>4. x - 1 \in 0 .. m /\ x - 1 \notin Differ
  BY <1>1, <1>2, <1>3
<1>5. f[x - 1] = g[x - 1]
  BY <1>4
<1> QED
  BY <1>2, <1>3, <1>5 DEF Triples

LEMMA TriplesExists ==
    ASSUME NEW m \in Nat
    PROVE  Triples(m) # {}
<1> DEFINE Empty == {j \in Nat : Triples(j) = {}}
<1> SUFFICES ASSUME Empty # {} PROVE FALSE
  OBVIOUS
<1>1. PICK x \in Empty : \A y \in Empty : x <= y
  <2>1. Empty \in SUBSET Nat
    OBVIOUS
  <2> HIDE DEF Empty
  <2> QED
    BY <2>1, Least
<1>2. x \in Nat /\ Triples(x) = {}
  OBVIOUS
<1>3. x # 0
  <2>1. [k \in 0 .. 0 |-> 1] \in Triples(0)
    BY DEF Triples
  <2> QED
    BY <1>2, <2>1
<1>4. x - 1 \in Nat /\ x - 1 \notin Empty
  BY <1>1, <1>2, <1>3
<1>5. PICK f : f \in Triples(x - 1)
  BY <1>4
<1> DEFINE g == [k \in 0 .. x |-> IF k = x THEN 3 * f[x - 1] ELSE f[k]]
<1>6. f \in [0 .. x - 1 -> Nat] /\ x - 1 \in 0 .. x - 1
  BY <1>2, <1>3, <1>5 DEF Triples
<1>7. \A k \in 0 .. x : k # x => k \in 0 .. x - 1
  BY <1>2
<1>8. g \in [0 .. x -> Nat]
  BY <1>2, <1>6, <1>7
<1>9. ASSUME NEW k \in 0 .. x
      PROVE  g[k] = IF k = 0 THEN 1 ELSE 3 * g[k - 1]
  <2>1. CASE k = x
    <3>1. g[k] = 3 * f[x - 1] /\ g[x - 1] = f[x - 1]
      BY <1>2, <1>3, <2>1
    <3> QED
      BY <1>3, <2>1, <3>1
  <2>2. CASE k # x
    <3>1. k \in 0 .. x - 1 /\ k - 1 # x
      BY <1>2, <1>7, <2>2
    <3>2. f[k] = IF k = 0 THEN 1 ELSE 3 * f[k - 1]
      BY <1>5, <3>1 DEF Triples
    <3>3. k # 0 => k - 1 \in 0 .. x
      BY <1>2, <3>1
    <3> QED
      BY <2>2, <3>1, <3>2, <3>3
  <2> QED
    BY <2>1, <2>2
<1>10. g \in Triples(x)
  BY <1>8, <1>9 DEF Triples
<1> QED
  BY <1>2, <1>10

\* The recursive definition defines.
LEMMA TripledIs ==
    ASSUME NEW k \in Nat
    PROVE  Tripled[k] = IF k = 0 THEN 1 ELSE 3 * Tripled[k - 1]
<1> DEFINE part == [m \in Nat |-> CHOOSE f : f \in Triples(m)]
           t == [m \in Nat |-> part[m][m]]
<1>1. \A m \in Nat : part[m] \in Triples(m)
  BY TriplesExists
<1>2. ASSUME NEW m \in Nat
      PROVE  t[m] = IF m = 0 THEN 1 ELSE 3 * t[m - 1]
  <2>1. part[m][m] = IF m = 0 THEN 1 ELSE 3 * part[m][m - 1]
    <3> HIDE DEF part
    <3>1. part[m] \in Triples(m) /\ m \in 0 .. m
      BY <1>1
    <3>2. \A f \in Triples(m) : f[m] = IF m = 0 THEN 1 ELSE 3 * f[m - 1]
      BY <3>1 DEF Triples
    <3> QED
      BY <3>1, <3>2
  <2>2. m # 0 => part[m - 1][m - 1] = part[m][m - 1]
    <3> HIDE DEF part
    <3> SUFFICES ASSUME m # 0 PROVE part[m - 1][m - 1] = part[m][m - 1]
      OBVIOUS
    <3>1. m - 1 \in Nat /\ m - 1 <= m /\ m - 1 \in 0 .. m - 1
      OBVIOUS
    <3> QED
      BY <1>1, <3>1, TriplesAgree
  <2> HIDE DEF part
  <2> QED
    BY <2>1, <2>2
<1>3. t = [m \in Nat |-> IF m = 0 THEN 1 ELSE 3 * t[m - 1]]
  <2>1. t = [m \in Nat |-> t[m]]
    OBVIOUS
  <2> HIDE DEF t
  <2> QED
    BY <1>2, <2>1
<1>4. \E f : f = [m \in Nat |-> IF m = 0 THEN 1 ELSE 3 * f[m - 1]]
  <2> HIDE DEF t
  <2> QED
    BY <1>3
<1>5. Tripled = [m \in Nat |-> IF m = 0 THEN 1 ELSE 3 * Tripled[m - 1]]
  BY <1>4 DEF Tripled
<1> QED
  BY <1>5

LEMMA TripledType ==
    ASSUME NEW k \in Nat
    PROVE  Tripled[k] \in Nat /\ Tripled[k] >= 1 /\ Tripled[k + 1] = 3 * Tripled[k]
<1> DEFINE Bad == {j \in Nat : ~(Tripled[j] \in Nat /\ Tripled[j] >= 1)}
<1>1. Bad = {}
  <2> SUFFICES ASSUME Bad # {} PROVE FALSE
    OBVIOUS
  <2>1. PICK x \in Bad : \A y \in Bad : x <= y
    <3>1. Bad \in SUBSET Nat
      OBVIOUS
    <3> HIDE DEF Bad
    <3> QED
      BY <3>1, Least
  <2>2. x \in Nat /\ ~(Tripled[x] \in Nat /\ Tripled[x] >= 1)
    OBVIOUS
  <2>3. x # 0
    BY <2>2, TripledIs
  <2>4. x - 1 \in Nat /\ x - 1 \notin Bad
    BY <2>1, <2>2, <2>3
  <2>5. Tripled[x - 1] \in Nat /\ Tripled[x - 1] >= 1
    BY <2>4
  <2> QED
    BY <2>2, <2>3, <2>5, TripledIs
<1>2. Tripled[k] \in Nat /\ Tripled[k] >= 1
  BY <1>1
<1>3. k + 1 \in Nat /\ k + 1 # 0 /\ (k + 1) - 1 = k
  OBVIOUS
<1> QED
  BY <1>2, <1>3, TripledIs

-----------------------------------------------------------------------------
(* DuplicatesBounded *)

\* The copies of n; those of the main queue with a send to come, with theirs behind
\* them, and those in hand before it.
Copies(n) == {c \in Copy : Stored(c) /\ msg[c].id = n}

Unsent(n) == {c \in Copies(n) : job[c] \notin Settling}

Handled(n) == {c \in Copies(n) : job[c] \in Settling /\ msg[c].queue = "main"}

InSend(n) == {c \in Copies(n) : job[c] \in {"read", "save", "send"}}

Bound(n) == (published[n] + faults) * Tripled[outages]

Bounded(n) ==
    IF app \in {"up", "down"}
    THEN /\ delivered[n] + Cardinality(Unsent(n)) <= Bound(n)
         /\ Cardinality(Unsent(n)) + Cardinality(Handled(n)) <= Bound(n)
    ELSE delivered[n] + Cardinality(Copies(n)) + Cardinality(InSend(n)) <= Bound(n)

\* One goroutine handles the DLQ.
OneInDLQ ==
    \A c, d \in Copy :
        /\ job[c] # "idle" /\ msg[c].queue = "dlq"
        /\ job[d] # "idle" /\ msg[d].queue = "dlq"
        => c = d

StoredCopies == {c \in Copy : Stored(c)}

DInv ==
    /\ LInv /\ HandsHeld /\ OneInDLQ /\ IsFiniteSet(StoredCopies)
    /\ \A n \in Notification : Bounded(n)

\* 1 if c is in S.
Count(c, S) == IF c \in S THEN 1 ELSE 0

LEMMA OneMoved ==
    ASSUME NEW S, NEW T, NEW c, IsFiniteSet(S), S \ {c} = T \ {c}
    PROVE  /\ IsFiniteSet(T) /\ Cardinality(S) \in Nat /\ Cardinality(T) \in Nat
           /\ Cardinality(T) = Cardinality(S) - Count(c, S) + Count(c, T)
<1> DEFINE R == S \ {c}
<1>1. IsFiniteSet(R) /\ Cardinality(R) \in Nat
  BY FS_RemoveElement, FS_CardinalityType
<1>2. R = T \ {c} /\ c \notin R /\ (c \notin T => T = R) /\ (c \in T => T = R \cup {c})
  OBVIOUS
<1>3. (c \notin S => S = R) /\ (c \in S => S = R \cup {c})
  OBVIOUS
<1> HIDE DEF R
<1>4. IsFiniteSet(R \cup {c}) /\ Cardinality(R \cup {c}) = Cardinality(R) + 1
  BY <1>1, <1>2, FS_AddElement
<1>5. IsFiniteSet(S) /\ Cardinality(S) = Cardinality(R) + Count(c, S)
  <2>1. CASE c \in S
    <3>1. S = R \cup {c} /\ Count(c, S) = 1
      BY <1>3, <2>1 DEF Count
    <3> QED
      BY <1>4, <3>1
  <2>2. CASE c \notin S
    <3>1. S = R /\ Count(c, S) = 0
      BY <1>3, <2>2 DEF Count
    <3> QED
      BY <1>1, <3>1
  <2> QED
    BY <2>1, <2>2
<1>6. IsFiniteSet(T) /\ Cardinality(T) = Cardinality(R) + Count(c, T)
  BY <1>1, <1>2, <1>4 DEF Count
<1>7. Count(c, S) \in 0 .. 1 /\ Count(c, T) \in 0 .. 1
  BY DEF Count
<1> QED
  BY <1>1, <1>5, <1>6, <1>7

\* The sets of copies, finite as only so many are stored.
LEMMA CopiesFinite ==
    ASSUME IsFiniteSet(StoredCopies), NEW n
    PROVE  /\ IsFiniteSet(Copies(n)) /\ IsFiniteSet(Unsent(n))
           /\ IsFiniteSet(Handled(n)) /\ IsFiniteSet(InSend(n))
           /\ Cardinality(Copies(n)) \in Nat /\ Cardinality(Unsent(n)) \in Nat
           /\ Cardinality(Handled(n)) \in Nat /\ Cardinality(InSend(n)) \in Nat
<1>1. /\ Copies(n) \subseteq StoredCopies /\ Unsent(n) \subseteq StoredCopies
      /\ Handled(n) \subseteq StoredCopies /\ InSend(n) \subseteq StoredCopies
  BY DEF Copies, Unsent, Handled, InSend, StoredCopies
<1> QED
  BY <1>1, FS_Subset, FS_CardinalityType

LEMMA CountsMove ==
    ASSUME IsFiniteSet(StoredCopies), NEW n, NEW c \in Copy,
           \A d \in Copy : d # c => msg'[d] = msg[d] /\ job'[d] = job[d]
    PROVE  /\ Cardinality(Copies(n)') =
                  Cardinality(Copies(n)) - Count(c, Copies(n)) + Count(c, Copies(n)')
           /\ Cardinality(Unsent(n)') =
                  Cardinality(Unsent(n)) - Count(c, Unsent(n)) + Count(c, Unsent(n)')
           /\ Cardinality(Handled(n)') =
                  Cardinality(Handled(n)) - Count(c, Handled(n)) + Count(c, Handled(n)')
           /\ Cardinality(InSend(n)') =
                  Cardinality(InSend(n)) - Count(c, InSend(n)) + Count(c, InSend(n)')
           /\ IsFiniteSet(StoredCopies')
<1>1. /\ Copies(n) \ {c} = Copies(n)' \ {c} /\ Unsent(n) \ {c} = Unsent(n)' \ {c}
      /\ Handled(n) \ {c} = Handled(n)' \ {c} /\ InSend(n) \ {c} = InSend(n)' \ {c}
      /\ StoredCopies \ {c} = StoredCopies' \ {c}
  BY DEF Copies, Unsent, Handled, InSend, StoredCopies, Stored
<1> QED
  BY <1>1, CopiesFinite, OneMoved

\* Every publish and every failing call adds at least one to the bound.
LEMMA Product ==
    ASSUME NEW a \in Nat, NEW b \in Nat, NEW k \in Nat, NEW t \in Nat, t >= 1, b >= a + k
    PROVE  a * t \in Nat /\ b * t \in Nat /\ b * t >= a * t + k
<1>1. \A x, y \in Nat : x * y \in Nat
  OBVIOUS
<1>2. PICK r \in Nat : b = a + k + r
  <2>1. b - a - k \in Nat /\ b = a + k + (b - a - k)
    OBVIOUS
  <2> QED
    BY <2>1
<1>3. b * t = a * t + k * t + r * t
  BY <1>2
<1>4. k * t >= k
  <2>1. PICK u \in Nat : t = u + 1
    <3>1. t - 1 \in Nat /\ t = (t - 1) + 1
      OBVIOUS
    <3> QED
      BY <3>1
  <2>2. k * t = k * u + k
    BY <2>1
  <2> QED
    BY <1>1, <2>2
<1>5. a * t \in Nat /\ b * t \in Nat /\ k * t \in Nat /\ r * t \in Nat
  BY <1>1
<1> QED
  BY <1>3, <1>4, <1>5

LEMMA BoundGrows ==
    ASSUME TypeOK, TypeOK', NEW n \in Notification, NEW k \in Nat, UNCHANGED outages,
           published'[n] + faults' >= published[n] + faults + k
    PROVE  Bound(n) \in Nat /\ Bound(n)' \in Nat /\ Bound(n)' >= Bound(n) + k
<1>1. /\ published[n] + faults \in Nat /\ published'[n] + faults' \in Nat /\ outages \in Nat
  BY DEF TypeOK
<1>2. Tripled[outages] \in Nat /\ Tripled[outages] >= 1
  BY <1>1, TripledType
<1>3. Tripled' = Tripled
  BY DEF Tripled
<1> QED
  BY <1>1, <1>2, <1>3, Product DEF Bound

\* An outage triples it.
LEMMA BoundTriples ==
    ASSUME TypeOK, NEW n \in Notification, outages' = outages + 1, UNCHANGED <<published, faults>>
    PROVE  Bound(n) \in Nat /\ Bound(n)' = 3 * Bound(n)
<1>1. published[n] + faults \in Nat /\ outages \in Nat
  BY DEF TypeOK
<1>2. /\ Tripled[outages] \in Nat /\ Tripled[outages] >= 1
      /\ Tripled[outages'] = 3 * Tripled[outages]
  BY <1>1, TripledType
<1>3. Tripled' = Tripled
  BY DEF Tripled
<1>4. \A x, y \in Nat : x * y \in Nat /\ x * (3 * y) = 3 * (x * y)
  OBVIOUS
<1> QED
  BY <1>1, <1>2, <1>3, <1>4 DEF Bound

\* A step that changes copy c alone and delivers n d times: what it delivers and adds,
\* it takes from what was there, or k publishes and failing calls pay for it.
Paid(c, n, d, k) ==
    /\ app \in {"up", "down"} =>
          /\ d + Count(c, Unsent(n)') <= Count(c, Unsent(n)) + k
          /\ Count(c, Unsent(n)') + Count(c, Handled(n)')
                 <= Count(c, Unsent(n)) + Count(c, Handled(n)) + k
    /\ app \notin {"up", "down"} =>
          d + Count(c, Copies(n)') + Count(c, InSend(n)')
              <= Count(c, Copies(n)) + Count(c, InSend(n)) + k

LEMMA StepBounded ==
    ASSUME DInv, TypeOK', NEW n \in Notification, NEW c \in Copy,
           \A e \in Copy : e # c => msg'[e] = msg[e] /\ job'[e] = job[e],
           UNCHANGED <<app, outages>>,
           NEW d \in Nat, delivered'[n] = delivered[n] + d,
           NEW k \in Nat, published'[n] + faults' >= published[n] + faults + k,
           Paid(c, n, d, k)
    PROVE  Bounded(n)'
<1>1. /\ TypeOK /\ IsFiniteSet(StoredCopies) /\ Bounded(n) /\ delivered[n] \in Nat
  BY DEF DInv, LInv, TInv, TypeOK
<1>2. Bound(n) \in Nat /\ Bound(n)' \in Nat /\ Bound(n)' >= Bound(n) + k
  BY <1>1, BoundGrows
<1>3. /\ Cardinality(Copies(n)) \in Nat /\ Cardinality(Unsent(n)) \in Nat
      /\ Cardinality(Handled(n)) \in Nat /\ Cardinality(InSend(n)) \in Nat
  BY <1>1, CopiesFinite
<1>4. /\ Cardinality(Copies(n)') =
              Cardinality(Copies(n)) - Count(c, Copies(n)) + Count(c, Copies(n)')
      /\ Cardinality(Unsent(n)') =
              Cardinality(Unsent(n)) - Count(c, Unsent(n)) + Count(c, Unsent(n)')
      /\ Cardinality(Handled(n)') =
              Cardinality(Handled(n)) - Count(c, Handled(n)) + Count(c, Handled(n)')
      /\ Cardinality(InSend(n)') =
              Cardinality(InSend(n)) - Count(c, InSend(n)) + Count(c, InSend(n)')
  BY <1>1, CountsMove
<1>5. \A S : Count(c, S) \in {0, 1}
  BY DEF Count
<1> DEFINE C == Count(c, Copies(n))    Cn == Count(c, Copies(n)')
           U == Count(c, Unsent(n))    Un == Count(c, Unsent(n)')
           H == Count(c, Handled(n))   Hn == Count(c, Handled(n)')
           I == Count(c, InSend(n))    In == Count(c, InSend(n)')
<1>6. /\ C \in {0, 1} /\ Cn \in {0, 1} /\ U \in {0, 1} /\ Un \in {0, 1}
      /\ H \in {0, 1} /\ Hn \in {0, 1} /\ I \in {0, 1} /\ In \in {0, 1}
  BY <1>5
<1>7. CASE app \in {"up", "down"}
  <2>1. /\ delivered[n] + Cardinality(Unsent(n)) <= Bound(n)
        /\ Cardinality(Unsent(n)) + Cardinality(Handled(n)) <= Bound(n)
    BY <1>1, <1>7 DEF Bounded
  <2>2. d + Un <= U + k /\ Un + Hn <= U + H + k
    BY <1>7 DEF Paid
  <2>3. /\ Cardinality(Unsent(n)') = Cardinality(Unsent(n)) - U + Un
        /\ Cardinality(Handled(n)') = Cardinality(Handled(n)) - H + Hn
    BY <1>4
  <2> HIDE DEF U, Un, H, Hn
  <2>4. /\ delivered'[n] + Cardinality(Unsent(n)') <= Bound(n)'
        /\ Cardinality(Unsent(n)') + Cardinality(Handled(n)') <= Bound(n)'
    BY <1>1, <1>2, <1>3, <1>6, <2>1, <2>2, <2>3
  <2> QED
    BY <1>7, <2>4 DEF Bounded
<1>8. CASE app \notin {"up", "down"}
  <2>1. delivered[n] + Cardinality(Copies(n)) + Cardinality(InSend(n)) <= Bound(n)
    BY <1>1, <1>8 DEF Bounded
  <2>2. d + Cn + In <= C + I + k
    BY <1>8 DEF Paid
  <2>3. /\ Cardinality(Copies(n)') = Cardinality(Copies(n)) - C + Cn
        /\ Cardinality(InSend(n)') = Cardinality(InSend(n)) - I + In
    BY <1>4
  <2> HIDE DEF C, Cn, I, In
  <2>4. delivered'[n] + Cardinality(Copies(n)') + Cardinality(InSend(n)') <= Bound(n)'
    BY <1>1, <1>2, <1>3, <1>6, <2>1, <2>2, <2>3
  <2> QED
    BY <1>8, <2>4 DEF Bounded
<1> QED
  BY <1>7, <1>8

\* Copies of other notifications do not count.
LEMMA OtherBounded ==
    ASSUME DInv, TypeOK', NEW n \in Notification, NEW c \in Copy,
           \A e \in Copy : e # c => msg'[e] = msg[e] /\ job'[e] = job[e],
           msg[c] # NoMessage => msg[c].id # n, msg'[c] # NoMessage => msg'[c].id # n,
           UNCHANGED <<app, outages>>, delivered'[n] = delivered[n],
           published'[n] >= published[n], faults' >= faults
    PROVE  Bounded(n)'
<1>1. delivered[n] \in Nat /\ published[n] \in Nat /\ published'[n] \in Nat
      /\ faults \in Nat /\ faults' \in Nat
  BY DEF DInv, LInv, TInv, TypeOK
<1>2. /\ Count(c, Copies(n)) = 0 /\ Count(c, Copies(n)') = 0
      /\ Count(c, Unsent(n)) = 0 /\ Count(c, Unsent(n)') = 0
      /\ Count(c, Handled(n)) = 0 /\ Count(c, Handled(n)') = 0
      /\ Count(c, InSend(n)) = 0 /\ Count(c, InSend(n)') = 0
  BY DEF Count, Copies, Unsent, Handled, InSend, Stored
<1>3. delivered'[n] = delivered[n] + 0 /\ published'[n] + faults' >= published[n] + faults + 0
  BY <1>1
<1>4. Paid(c, n, 0, 0)
  BY <1>2 DEF Paid
<1> QED
  BY <1>3, <1>4, StepBounded

\* Nor do steps that leave the copies alone.
LEMMA StillBounded ==
    ASSUME DInv, TypeOK', NEW n \in Notification, UNCHANGED <<msg, job, app, outages>>,
           delivered'[n] = delivered[n], published'[n] >= published[n], faults' >= faults
    PROVE  Bounded(n)'
<1>1. /\ Copies(n)' = Copies(n) /\ Unsent(n)' = Unsent(n) /\ Handled(n)' = Handled(n)
      /\ InSend(n)' = InSend(n)
  BY DEF Copies, Unsent, Handled, InSend, Stored
<1>2. /\ TypeOK /\ IsFiniteSet(StoredCopies) /\ Bounded(n) /\ delivered[n] \in Nat
  BY DEF DInv, LInv, TInv, TypeOK
<1>3. published'[n] + faults' >= published[n] + faults + 0
  BY <1>2 DEF TypeOK
<1>4. Bound(n) \in Nat /\ Bound(n)' \in Nat /\ Bound(n)' >= Bound(n) + 0
  BY <1>2, <1>3, BoundGrows
<1>5. /\ Cardinality(Copies(n)) \in Nat /\ Cardinality(Unsent(n)) \in Nat
      /\ Cardinality(Handled(n)) \in Nat /\ Cardinality(InSend(n)) \in Nat
  BY <1>2, CopiesFinite
<1> QED
  BY <1>1, <1>2, <1>4, <1>5 DEF Bounded

LEMMA CountsNow ==
    ASSUME NEW c \in Copy, Stored(c), NEW n, n = msg[c].id
    PROVE  /\ Count(c, Copies(n)) = 1
           /\ Count(c, Unsent(n)) = IF job[c] \in Settling THEN 0 ELSE 1
           /\ Count(c, Handled(n)) =
                  IF job[c] \in Settling /\ msg[c].queue = "main" THEN 1 ELSE 0
           /\ Count(c, InSend(n)) = IF job[c] \in {"read", "save", "send"} THEN 1 ELSE 0
BY DEF Count, Copies, Unsent, Handled, InSend

LEMMA CountsThen ==
    ASSUME NEW c \in Copy, msg'[c] # NoMessage, NEW n, n = msg'[c].id
    PROVE  /\ Count(c, Copies(n)') = 1
           /\ Count(c, Unsent(n)') = IF job'[c] \in Settling THEN 0 ELSE 1
           /\ Count(c, Handled(n)') =
                  IF job'[c] \in Settling /\ msg'[c].queue = "main" THEN 1 ELSE 0
           /\ Count(c, InSend(n)') = IF job'[c] \in {"read", "save", "send"} THEN 1 ELSE 0
BY DEF Count, Copies, Unsent, Handled, InSend, Stored

LEMMA CountsGone ==
    ASSUME NEW c \in Copy, NEW n
    PROVE  /\ ~Stored(c) => /\ Count(c, Copies(n)) = 0 /\ Count(c, Unsent(n)) = 0
                            /\ Count(c, Handled(n)) = 0 /\ Count(c, InSend(n)) = 0
           /\ msg'[c] = NoMessage =>
                  /\ Count(c, Copies(n)') = 0 /\ Count(c, Unsent(n)') = 0
                  /\ Count(c, Handled(n)') = 0 /\ Count(c, InSend(n)') = 0
BY DEF Count, Copies, Unsent, Handled, InSend, Stored

LEMMA OneInDLQKept ==
    ASSUME OneInDLQ,
           \A d \in Copy : job'[d] # "idle" /\ msg'[d].queue = "dlq" =>
                              job[d] # "idle" /\ msg[d].queue = "dlq"
    PROVE  OneInDLQ'
BY DEF OneInDLQ

LEMMA PublishBounded ==
    ASSUME DInv, TypeOK', NEW m \in Notification, PublishReturnsNil("main", m, 0),
           published' = [published EXCEPT ![m] = @ + 1],
           UNCHANGED <<job, app, outages, delivered>>
    PROVE  /\ OneInDLQ' /\ IsFiniteSet(StoredCopies')
           /\ \A n \in Notification : Bounded(n)'
<1>i. TInv /\ TypeOK /\ OneInDLQ /\ IsFiniteSet(StoredCopies) /\ HandsHeld
  BY DEF DInv, LInv, TInv
<1>p. "main" \in Queue /\ 0 \in 0 .. MaxRetries
  BY MaxRetriesAssumption DEF Queue
<1>t. /\ published'[m] = published[m] + 1
      /\ \A n \in Notification : n # m => published'[n] = published[n]
      /\ \A n \in Notification : published[n] \in Nat /\ delivered[n] \in Nat
      /\ faults \in Nat /\ faults' \in Nat /\ faults' >= faults
  BY <1>i DEF TypeOK, PublishReturnsNil, PublishAccepted, PublishVanishes, Fault
<1>1. CASE PublishAccepted("main", m, 0)
  <2> PICK e \in Copy : /\ ~Stored(e) /\ job[e] = "idle"
                        /\ msg'[e] = Enqueued("main", m, 0) /\ msg'[e] # NoMessage
                        /\ \A d \in Copy : d # e => msg'[d] = msg[d]
    BY <1>i, <1>p, <1>1, AcceptedCopy
  <2>1. msg'[e].id = m /\ msg'[e].queue = "main"
    BY DEF Enqueued
  <2>2. /\ OneInDLQ'
        /\ \A d \in Copy : d # e => msg'[d] = msg[d] /\ job'[d] = job[d]
    BY <1>i, OneInDLQKept
  <2>3. IsFiniteSet(StoredCopies')
    BY <1>i, <2>2, CountsMove
  <2>4. ASSUME NEW n \in Notification, n # m PROVE Bounded(n)'
    BY <1>t, <2>1, <2>2, <2>4, OtherBounded DEF Stored
  <2>5. /\ Count(e, Copies(m)) = 0 /\ Count(e, Unsent(m)) = 0
        /\ Count(e, Handled(m)) = 0 /\ Count(e, InSend(m)) = 0
    BY CountsGone
  <2>6. /\ Count(e, Copies(m)') = 1 /\ Count(e, Unsent(m)') = 1
        /\ Count(e, Handled(m)') = 0 /\ Count(e, InSend(m)') = 0
    BY <2>1, CountsThen DEF Settling
  <2>7. /\ delivered'[m] = delivered[m] + 0
        /\ published'[m] + faults' >= published[m] + faults + 1
    BY <1>t
  <2>8. Paid(e, m, 0, 1) /\ 0 \in Nat /\ 1 \in Nat
    BY <2>5, <2>6 DEF Paid
  <2>9. Bounded(m)'
    BY <2>2, <2>7, <2>8, StepBounded
  <2> QED
    BY <2>2, <2>3, <2>4, <2>9
<1>2. CASE UNCHANGED msg
  <2>1. OneInDLQ' /\ StoredCopies' = StoredCopies
    BY <1>i, <1>2, OneInDLQKept DEF StoredCopies, Stored
  <2>2. \A n \in Notification : published'[n] >= published[n]
    BY <1>t
  <2> QED
    BY <1>i, <1>2, <1>t, <2>1, <2>2, StillBounded
<1> QED
  BY <1>1, <1>2 DEF PublishReturnsNil, PublishVanishes

\* Creators, cancellers, the clock and the ticker.
LEMMA WriterBounded ==
    ASSUME DInv, TypeOK',
           \/ \E r \in Request : CreateRows(r) \/ Creator(r)
           \/ \E n \in Notification : CancelRead(n) \/ CancelSave(n) \/ Ripen(n)
           \/ Ticker
    PROVE  /\ OneInDLQ' /\ IsFiniteSet(StoredCopies')
           /\ \A n \in Notification : Bounded(n)'
<1>i. TInv /\ TypeOK /\ OneInDLQ /\ IsFiniteSet(StoredCopies)
  BY DEF DInv, LInv, TInv
<1>f. faults \in Nat /\ \A n \in Notification : published[n] \in Nat
  BY <1>i DEF TypeOK
<1>1. ASSUME UNCHANGED <<msg, job, app, outages, published, delivered>>, faults' >= faults
      PROVE  /\ OneInDLQ' /\ IsFiniteSet(StoredCopies')
             /\ \A n \in Notification : Bounded(n)'
  <2>1. OneInDLQ' /\ StoredCopies' = StoredCopies
    BY <1>i, <1>1, OneInDLQKept DEF StoredCopies, Stored
  <2> QED
    BY <1>i, <1>1, <1>f, <2>1, StillBounded
<1>2. ASSUME NEW r \in Request, CreateRows(r) \/ CreatorMark(r)
      PROVE  UNCHANGED <<msg, job, app, outages, published, delivered>> /\ faults' >= faults
  BY <1>2, <1>f DEF CreateRows, CreatorMark, Fault
<1>3. ASSUME NEW r \in Request, CreatorPublish(r)
      PROVE  \/ /\ UNCHANGED <<msg, job, app, outages, published, delivered>>
                /\ faults' >= faults
             \/ /\ UNCHANGED <<job, app, outages, delivered>>
                /\ \E m \in Notification : /\ PublishReturnsNil("main", m, 0)
                                           /\ published' = [published EXCEPT ![m] = @ + 1]
  <2>1. creator[r].publish \subseteq Notification
    BY <1>i DEF TypeOK, Work
  <2> QED
    BY <1>3, <1>f, <2>1 DEF CreatorPublish, PublishFails, Fault
<1>4. ASSUME NEW n \in Notification, CancelRead(n) \/ CancelSave(n) \/ Ripen(n)
      PROVE  UNCHANGED <<msg, job, app, outages, published, delivered>> /\ faults' >= faults
  BY <1>4, <1>f DEF CancelRead, CancelSave, Ripen, Fault
<1>5. ASSUME TickerMark \/ \E s \in {"pending", "scheduled"} : TickerRead(s)
      PROVE  UNCHANGED <<msg, job, app, outages, published, delivered>> /\ faults' >= faults
  BY <1>5, <1>f DEF TickerRead, TickerMark, Succeeds, Fails, Fault
<1>6. ASSUME TickerPublish
      PROVE  \/ /\ UNCHANGED <<msg, job, app, outages, published, delivered>>
                /\ faults' >= faults
             \/ /\ UNCHANGED <<job, app, outages, delivered>>
                /\ \E m \in Notification : /\ PublishReturnsNil("main", m, 0)
                                           /\ published' = [published EXCEPT ![m] = @ + 1]
  <2>1. ticker.publish \subseteq Notification
    BY <1>i DEF TypeOK, Work
  <2> QED
    BY <1>6, <1>f, <2>1 DEF TickerPublish, PublishFails, Fault
<1> QED
  BY <1>1, <1>2, <1>3, <1>4, <1>5, <1>6, PublishBounded DEF Creator, Ticker

LEMMA DeliveryBounded ==
    ASSUME DInv, TypeOK', NEW c \in Copy, DeliverMain(c) \/ DeliverDLQ(c) \/ BrokerExpire(c)
    PROVE  /\ OneInDLQ' /\ IsFiniteSet(StoredCopies')
           /\ \A n \in Notification : Bounded(n)'
<1>i. TInv /\ TypeOK /\ OneInDLQ /\ IsFiniteSet(StoredCopies) /\ HandsHeld
  BY DEF DInv, LInv, TInv
<1>t. /\ faults \in Nat
      /\ \A n \in Notification : published[n] \in Nat /\ delivered[n] \in Nat
  BY <1>i DEF TypeOK
<1>1. UNCHANGED <<app, outages, published, delivered, faults>>
  BY DEF DeliverMain, DeliverDLQ, Take, BrokerExpire
<1>2. /\ Stored(c) /\ job[c] = "idle" /\ msg'[c] # NoMessage /\ msg'[c].id = msg[c].id
      /\ job'[c] \in {"idle", "read", "mark"}
      /\ job'[c] = "read" => app \in {"up", "down"}
      /\ \A d \in Copy : d # c => msg'[d] = msg[d] /\ job'[d] = job[d]
  <2>1. CASE BrokerExpire(c)
    BY <1>i, <2>1, ExpireFacts DEF HandsHeld
  <2>2. ASSUME NEW j \in {"read", "mark"}, Take(c, j), j = "read" => app = "up"
        PROVE  /\ Stored(c) /\ job[c] = "idle" /\ msg'[c] # NoMessage
               /\ msg'[c].id = msg[c].id /\ job'[c] = j
               /\ \A d \in Copy : d # c => msg'[d] = msg[d] /\ job'[d] = job[d]
    BY <1>i, <2>2, TakeFacts DEF Take, HandsHeld
  <2> QED
    BY <2>1, <2>2 DEF DeliverMain, DeliverDLQ
<1>3. IsFiniteSet(StoredCopies')
  BY <1>i, <1>2, CountsMove
<1>4. OneInDLQ'
  <2>1. CASE DeliverMain(c)
    <3>1. msg'[c].queue = "main"
      BY <1>i, <2>1, TakeFacts DEF DeliverMain
    <3> QED
      BY <1>i, <1>2, <3>1, OneInDLQKept
  <2>2. CASE DeliverDLQ(c)
    <3>1. \A d \in Copy : ~(job[d] # "idle" /\ msg[d].queue = "dlq")
      BY <2>2 DEF DeliverDLQ, InHand
    <3> QED
      BY <1>2, <3>1 DEF OneInDLQ
  <2>3. CASE BrokerExpire(c)
    <3>1. job'[c] = "idle"
      BY <1>i, <1>2, <2>3, ExpireFacts
    <3> QED
      BY <1>i, <1>2, <3>1, OneInDLQKept
  <2> QED
    BY <2>1, <2>2, <2>3
<1>5. ASSUME NEW n \in Notification PROVE Bounded(n)'
  <2>1. CASE n # msg[c].id
    <3>1. published'[n] >= published[n] /\ faults' >= faults /\ delivered'[n] = delivered[n]
      BY <1>1, <1>t
    <3> QED
      BY <1>1, <1>2, <2>1, <3>1, OtherBounded
  <2>2. CASE n = msg[c].id
    <3>1. /\ Count(c, Copies(n)) = 1 /\ Count(c, Unsent(n)) = 1
          /\ Count(c, Handled(n)) = 0 /\ Count(c, InSend(n)) = 0
      BY <1>2, <2>2, CountsNow DEF Settling
    <3>2. /\ Count(c, Copies(n)') = 1 /\ Count(c, Unsent(n)') = 1
          /\ Count(c, Handled(n)') = 0
          /\ app \notin {"up", "down"} => Count(c, InSend(n)') = 0
      BY <1>2, <2>2, CountsThen DEF Settling
    <3>3. /\ delivered'[n] = delivered[n] + 0
          /\ published'[n] + faults' >= published[n] + faults + 0
      BY <1>1, <1>t
    <3>4. Paid(c, n, 0, 0) /\ 0 \in Nat
      BY <3>1, <3>2 DEF Paid
    <3> QED
      BY <1>1, <1>2, <3>3, <3>4, StepBounded
  <2> QED
    BY <2>1, <2>2
<1> QED
  BY <1>3, <1>4, <1>5

\* A nack moves the copy to the DLQ, where it can still be sent, or discards it.
LEMMA NackPaid ==
    ASSUME TInv, HandsHeld, NEW c \in Copy, job[c] # "idle", Nack(c),
           NEW d \in Nat, NEW k \in Nat,
           app \in {"up", "down"} =>
               d + (IF job[c] \in Settling /\ msg[c].queue = "main" THEN 1 ELSE 0) <= k,
           app \notin {"up", "down"} =>
               d <= k + (IF job[c] \in {"read", "save", "send"} THEN 1 ELSE 0)
    PROVE  Paid(c, msg[c].id, d, k)
<1> DEFINE n == msg[c].id
<1>h. Stored(c) /\ msg[c].queue \in {"main", "dlq"}
  BY HandledCopy DEF HandsHeld
<1>1. /\ Count(c, Copies(n)) = 1
      /\ Count(c, Unsent(n)) = IF job[c] \in Settling THEN 0 ELSE 1
      /\ Count(c, Handled(n)) =
             IF job[c] \in Settling /\ msg[c].queue = "main" THEN 1 ELSE 0
      /\ Count(c, InSend(n)) = IF job[c] \in {"read", "save", "send"} THEN 1 ELSE 0
  BY <1>h, CountsNow
<1>2. job'[c] = "idle" /\ (msg'[c] # NoMessage => msg'[c].id = n)
  BY NackFacts
<1>3. CASE msg'[c] = NoMessage
  <2>1. /\ Count(c, Copies(n)') = 0 /\ Count(c, Unsent(n)') = 0
        /\ Count(c, Handled(n)') = 0 /\ Count(c, InSend(n)') = 0
    BY <1>3, CountsGone
  <2>2. msg[c].queue = "dlq"
    BY <1>3, <1>h, NackFacts
  <2>3. job[c] \notin {"read", "save", "send"}
    BY <2>2 DEF TInv, JobsFit, MainJob
  <2> QED
    BY <1>1, <2>1, <2>2, <2>3 DEF Paid
<1>4. CASE msg'[c] # NoMessage
  <2>1. /\ Count(c, Copies(n)') = 1 /\ Count(c, Unsent(n)') = 1
        /\ Count(c, Handled(n)') = 0 /\ Count(c, InSend(n)') = 0
    BY <1>2, <1>4, CountsThen DEF Settling
  <2>2. app \in {"up", "down"} => msg[c].queue = "main"
    BY <1>h, <1>4 DEF Nack, Settle, DeadLettered, TInv, TypeOK, BrokerTypeOK
  <2> QED
    BY <1>1, <2>1, <2>2 DEF Paid
<1> QED
  BY <1>3, <1>4

LEMMA GotoPaid ==
    ASSUME TInv, NEW c \in Copy, job[c] # "idle", NEW j \in Job, Goto(c, j),
           job[c] \in Settling => j \in Settling,
           j \in {"read", "save", "send"} => job[c] \in {"read", "save", "send"},
           NEW d \in Nat, NEW k \in Nat,
           d <= k \/ (d = 1 /\ job[c] = "send" /\ j = "markSent")
    PROVE  Paid(c, msg[c].id, d, k)
<1> DEFINE n == msg[c].id
<1>1. /\ Count(c, Copies(n)) = 1
      /\ Count(c, Unsent(n)) = IF job[c] \in Settling THEN 0 ELSE 1
      /\ Count(c, Handled(n)) =
             IF job[c] \in Settling /\ msg[c].queue = "main" THEN 1 ELSE 0
      /\ Count(c, InSend(n)) = IF job[c] \in {"read", "save", "send"} THEN 1 ELSE 0
  BY HandledCopy, CountsNow
<1>2. msg'[c] = msg[c] /\ msg'[c] # NoMessage /\ job'[c] = j
  BY GotoFacts DEF Goto
<1>3. /\ Count(c, Copies(n)') = 1
      /\ Count(c, Unsent(n)') = IF j \in Settling THEN 0 ELSE 1
      /\ Count(c, Handled(n)') =
             IF j \in Settling /\ msg[c].queue = "main" THEN 1 ELSE 0
      /\ Count(c, InSend(n)') = IF j \in {"read", "save", "send"} THEN 1 ELSE 0
  BY <1>2, CountsThen
<1>4. job[c] = "send" => job[c] \notin Settling
  BY DEF Settling
<1>5. CASE d <= k
  BY <1>1, <1>3, <1>5 DEF Paid
<1>6. CASE d = 1 /\ job[c] = "send" /\ j = "markSent"
  <2>1. j \in Settling /\ j \notin {"read", "save", "send"}
    BY <1>6 DEF Settling
  <2> QED
    BY <1>1, <1>3, <1>4, <1>6, <2>1 DEF Paid
<1> QED
  BY <1>5, <1>6

LEMMA AckPaid ==
    ASSUME TInv, HandsHeld, NEW c \in Copy, job[c] = "ack", Ack(c)
    PROVE  Paid(c, msg[c].id, 0, 0)
<1> DEFINE n == msg[c].id
<1>h. Stored(c) /\ msg[c] \in Message
  BY HandledCopy
<1>1. /\ Count(c, Copies(n)) = 1 /\ Count(c, Unsent(n)) = 0
      /\ Count(c, Handled(n)) \in {0, 1} /\ Count(c, InSend(n)) = 0
  BY <1>h, CountsNow DEF Settling
<1>2. CASE app = "cut"
  <2>1. msg'[c] = Requeued(msg[c]) /\ job'[c] = "idle"
    BY <1>2 DEF Ack, Settle, TInv, TypeOK, BrokerTypeOK
  <2>2. msg'[c] # NoMessage /\ msg'[c].id = n
    BY <1>h, <2>1, RequeuedType, NoMessageAssumption
  <2>3. Count(c, Copies(n)') = 1 /\ Count(c, InSend(n)') = 0
    BY <2>1, <2>2, CountsThen
  <2> QED
    BY <1>1, <1>2, <2>3 DEF Paid
<1>3. CASE app # "cut"
  <2>1. msg'[c] = NoMessage
    BY <1>3 DEF Ack, Settle, TInv, TypeOK, BrokerTypeOK
  <2>2. /\ Count(c, Copies(n)') = 0 /\ Count(c, Unsent(n)') = 0
        /\ Count(c, Handled(n)') = 0 /\ Count(c, InSend(n)') = 0
    BY <2>1, CountsGone
  <2> QED
    BY <1>1, <2>2 DEF Paid
<1> QED
  BY <1>2, <1>3

\* What the handler of a copy does to the deliveries of its notification is paid for.
LEMMA HandlePaid ==
    ASSUME DInv, NEW c \in Copy, Handle(c), ~Retry(c)
    PROVE  \E d, k \in Nat :
               /\ delivered' = [delivered EXCEPT ![msg[c].id] = @ + d]
               /\ faults' = faults + k
               /\ Paid(c, msg[c].id, d, k)
<1>i. TInv /\ HandsHeld /\ faults \in Nat /\ delivered \in [Notification -> Nat]
  BY DEF DInv, LInv, TInv, TypeOK
<1>h. job[c] # "idle" /\ msg[c].id \in Notification
  BY <1>i, HandleFacts
<1>n. 0 \in Nat /\ 1 \in Nat
  OBVIOUS
<1>0. UNCHANGED delivered => delivered' = [delivered EXCEPT ![msg[c].id] = @ + 0]
  BY <1>i, <1>h
<1>f. ASSUME NEW kind, Fails(kind)
      PROVE  \E k \in {0, 1} : faults' = faults + k /\ (app \in {"up", "down"} => k = 1)
  BY <1>f, <1>i DEF Fails, Fault, ContextAlive
<1>s. ASSUME NEW n, NEW s, Succeeds \/ UNCHANGED faults
      PROVE  faults' = faults + 0
  BY <1>s, <1>i DEF Succeeds
<1>j. /\ {"save", "send", "markSent", "announceSent", "ack", "retry", "report",
          "announceFailed"} \subseteq Job
      /\ \A s : Verdict(s) \in {"announceFailed", "ack"}
  BY DEF Job, MainJob, DLQJob, Verdict
<1>g. ASSUME NEW j \in Job, Goto(c, j), UNCHANGED <<delivered, faults>>,
             job[c] \in Settling => j \in Settling,
             j \in {"read", "save", "send"} => job[c] \in {"read", "save", "send"}
      PROVE  \E d, k \in Nat :
               /\ delivered' = [delivered EXCEPT ![msg[c].id] = @ + d]
               /\ faults' = faults + k
               /\ Paid(c, msg[c].id, d, k)
  <2>1. Paid(c, msg[c].id, 0, 0)
    BY <1>i, <1>h, <1>g, <1>n, GotoPaid
  <2> QED
    BY <1>0, <1>g, <1>i, <1>n, <2>1
<1>k. ASSUME Nack(c), NEW kind, Fails(kind), UNCHANGED delivered
      PROVE  \E d, k \in Nat :
               /\ delivered' = [delivered EXCEPT ![msg[c].id] = @ + d]
               /\ faults' = faults + k
               /\ Paid(c, msg[c].id, d, k)
  <2>1. PICK k \in {0, 1} : faults' = faults + k /\ (app \in {"up", "down"} => k = 1)
    BY <1>f, <1>k
  <2>2. Paid(c, msg[c].id, 0, k)
    BY <1>i, <1>h, <1>k, <1>n, <2>1, NackPaid
  <2> QED
    BY <1>0, <1>k, <1>n, <2>1, <2>2
<1>1. CASE ProcessRead(c)
  <2>1. job[c] = "read" /\ UNCHANGED delivered
    BY <1>1 DEF ProcessRead
  <2>2. CASE Succeeds /\ Nack(c)
    <3>1. Paid(c, msg[c].id, 0, 0)
      BY <1>i, <1>h, <1>n, <2>1, <2>2, NackPaid DEF Settling
    <3> QED
      BY <1>0, <1>n, <1>s, <2>1, <2>2, <3>1
  <2>3. CASE Succeeds /\ (Goto(c, "ack") \/ Goto(c, "save"))
    BY <1>g, <1>j, <2>1, <2>3 DEF Succeeds, Settling
  <2> QED
    BY <1>1, <1>k, <2>1, <2>2, <2>3 DEF ProcessRead
<1>2. CASE ProcessSave(c)
  <2>1. job[c] = "save" /\ UNCHANGED delivered
    BY <1>2 DEF ProcessSave
  <2> QED
    BY <1>2, <1>g, <1>j, <1>k, <2>1 DEF ProcessSave, Succeeds, Settling
<1>3. CASE Send(c)
  <2>1. job[c] = "send"
    BY <1>3 DEF Send
  <2>2. CASE Succeeds /\ Goto(c, "markSent")
             /\ delivered' = [delivered EXCEPT ![msg[c].id] = @ + 1]
    <3>1. Paid(c, msg[c].id, 1, 0)
      BY <1>i, <1>h, <1>j, <1>n, <2>1, <2>2, GotoPaid DEF Settling
    <3> QED
      BY <1>n, <1>s, <2>2, <3>1
  <2>3. CASE Fault("timeout") /\ Goto(c, "send")
             /\ delivered' = [delivered EXCEPT ![msg[c].id] = @ + 1]
    <3>1. Paid(c, msg[c].id, 1, 1)
      BY <1>i, <1>h, <1>j, <1>n, <2>1, <2>3, GotoPaid DEF Settling
    <3> QED
      BY <1>n, <2>3, <3>1 DEF Fault
  <2>4. CASE Fails("timeout") /\ Nack(c)
             /\ delivered' = [delivered EXCEPT ![msg[c].id] = @ + 1]
    <3>1. PICK k \in {0, 1} : faults' = faults + k /\ (app \in {"up", "down"} => k = 1)
      BY <1>f, <2>4
    <3>2. Paid(c, msg[c].id, 1, k)
      BY <1>i, <1>h, <1>n, <2>1, <2>4, <3>1, NackPaid DEF Settling
    <3> QED
      BY <1>n, <2>4, <3>1, <3>2
  <2>5. CASE Fault("redirected") /\ Goto(c, "markSent") /\ UNCHANGED delivered
    <3>1. Paid(c, msg[c].id, 0, 1)
      BY <1>i, <1>h, <1>j, <1>n, <2>1, <2>5, GotoPaid DEF Settling
    <3> QED
      BY <1>0, <1>n, <2>5, <3>1 DEF Fault
  <2> QED
    BY <1>3, <1>k, <2>2, <2>3, <2>4, <2>5 DEF Send
<1>4. CASE MarkSent(c)
  <2>1. job[c] = "markSent" /\ UNCHANGED delivered
    BY <1>4 DEF MarkSent
  <2> QED
    BY <1>4, <1>g, <1>j, <1>k, <2>1 DEF MarkSent, Succeeds, Settling
<1>5. CASE AnnounceSent(c) \/ AnnounceFailed(c)
  BY <1>5, <1>g, <1>j DEF AnnounceSent, AnnounceFailed, Settling
<1>6. CASE Acknowledge(c)
  <2>1. Paid(c, msg[c].id, 0, 0)
    BY <1>i, <1>6, AckPaid DEF Acknowledge
  <2>2. UNCHANGED <<delivered, faults>>
    BY <1>6 DEF Acknowledge
  <2> QED
    BY <1>0, <1>i, <1>n, <2>1, <2>2
<1>7. CASE MarkFailure(c)
  <2>1. job[c] = "mark" /\ UNCHANGED delivered
    BY <1>7 DEF MarkFailure
  <2> QED
    BY <1>7, <1>g, <1>j, <1>k, <2>1 DEF MarkFailure, Succeeds, Settling
<1>8. CASE Report(c)
  <2>1. job[c] = "report" /\ UNCHANGED delivered
    BY <1>8 DEF Report
  <2> QED
    BY <1>8, <1>g, <1>j, <1>k, <2>1 DEF Report, Succeeds, Settling
<1> QED
  BY <1>1, <1>2, <1>3, <1>4, <1>5, <1>6, <1>7, <1>8 DEF Handle

\* A retry takes the place of the copy in the DLQ whose handler published it.
LEMMA RetryBounded ==
    ASSUME DInv, TypeOK', NEW c \in Copy, Retry(c), app \in {"up", "down"},
           PublishAccepted("retry", msg[c].id, msg[c].retry + 1),
           job' = [job EXCEPT ![c] = Verdict(row[msg[c].id])]
    PROVE  /\ OneInDLQ' /\ IsFiniteSet(StoredCopies')
           /\ \A n \in Notification : Bounded(n)'
<1> DEFINE m == msg[c].id
<1>i. TInv /\ TypeOK /\ OneInDLQ /\ IsFiniteSet(StoredCopies) /\ HandsHeld
  BY DEF DInv, LInv, TInv
<1>h. /\ job[c] = "retry" /\ Stored(c) /\ msg[c] \in Message /\ m \in Notification
      /\ msg[c].queue = "dlq" /\ job[c] \notin Settling
      /\ UNCHANGED <<app, outages, published, delivered, faults>>
  <2>1. job[c] = "retry"
    BY DEF Retry
  <2> QED
    BY <1>i, <2>1, HandledCopy DEF HandsHeld, DLQJob, Retry, Settling, PublishAccepted
<1>v. "retry" \in Queue /\ msg[c].retry + 1 \in 0 .. MaxRetries
  BY <1>i, <1>h, MaxRetriesAssumption DEF Queue, TInv, JobsFit, Message, RetriesLeft
<1> PICK e \in Copy : /\ ~Stored(e) /\ job[e] = "idle"
                      /\ msg'[e] = Enqueued("retry", m, msg[c].retry + 1)
                      /\ msg'[e] # NoMessage
                      /\ \A d \in Copy : d # e => msg'[d] = msg[d]
  BY <1>i, <1>h, <1>v, AcceptedCopy
<1>1. /\ msg'[e].id = m /\ msg'[e].queue = "retry" /\ e # c
      /\ job'[c] \in Settling /\ job'[c] \in {"announceFailed", "ack"}
      /\ \A d \in Copy : d # c => job'[d] = job[d]
  BY <1>h, <1>i DEF Enqueued, TypeOK, Settling, Verdict
<1>2. OneInDLQ'
  BY <1>1, <1>i, <1>h, OneInDLQKept
<1>3. IsFiniteSet(StoredCopies')
  <2>1. StoredCopies' = StoredCopies \cup {e}
    BY DEF StoredCopies, Stored
  <2> QED
    BY <1>i, <2>1, FS_AddElement
<1>4. ASSUME NEW n \in Notification PROVE Bounded(n)'
  <2>1. /\ Cardinality(Unsent(n)') = Cardinality(Unsent(n))
        /\ Cardinality(Handled(n)') = Cardinality(Handled(n))
    <3>1. Handled(n)' = Handled(n)
      BY <1>1, <1>h DEF Handled, Copies, Stored
    <3>2. CASE n # m
      <4>1. Unsent(n)' = Unsent(n)
        BY <1>1, <1>h, <3>2 DEF Unsent, Copies, Stored
      <4> QED
        BY <3>1, <4>1
    <3>3. CASE n = m
      <4> DEFINE R == Unsent(n) \ {c}
      <4>1. c \in Unsent(n) /\ e \notin Unsent(n)
        BY <1>h, <3>3 DEF Unsent, Copies
      <4>2. Unsent(n)' = R \cup {e}
        BY <1>1, <1>h, <3>3 DEF Unsent, Copies, Stored, Settling
      <4>3. IsFiniteSet(R) /\ Cardinality(R) = Cardinality(Unsent(n)) - 1
            /\ Cardinality(Unsent(n)) \in Nat
        BY <1>i, <4>1, CopiesFinite, FS_RemoveElement
      <4>4. e \notin R
        BY <4>1
      <4> HIDE DEF R
      <4>5. Cardinality(R \cup {e}) = Cardinality(R) + 1
        BY <4>3, <4>4, FS_AddElement
      <4> QED
        BY <3>1, <4>2, <4>3, <4>5
    <3> QED
      BY <3>2, <3>3
  <2>2. /\ Bounded(n) /\ delivered'[n] = delivered[n] /\ app' \in {"up", "down"}
    BY <1>h DEF DInv
  <2>3. Bound(n)' = Bound(n)
    BY <1>h DEF Bound, Tripled
  <2> QED
    BY <2>1, <2>2, <2>3 DEF Bounded
<1> QED
  BY <1>2, <1>3, <1>4

LEMMA HandlerBounded ==
    ASSUME DInv, TypeOK', NEW c \in Copy, Handle(c)
    PROVE  /\ OneInDLQ' /\ IsFiniteSet(StoredCopies')
           /\ \A n \in Notification : Bounded(n)'
<1>i. TInv /\ TypeOK /\ OneInDLQ /\ IsFiniteSet(StoredCopies) /\ HandsHeld
      /\ faults \in Nat /\ delivered \in [Notification -> Nat]
      /\ \A n \in Notification : published[n] \in Nat
  BY DEF DInv, LInv, TInv, TypeOK
<1>n. 0 \in Nat
  OBVIOUS
\* A step that changes copy c alone and pays for what it delivers.
<1>1. ASSUME \A d \in Copy : d # c => msg'[d] = msg[d] /\ job'[d] = job[d],
             job[c] # "idle", msg[c].id \in Notification,
             msg'[c] # NoMessage => msg'[c].id = msg[c].id,
             job'[c] # "idle" /\ msg'[c].queue = "dlq" => msg[c].queue = "dlq",
             NEW d \in Nat, NEW k \in Nat,
             delivered' = [delivered EXCEPT ![msg[c].id] = @ + d], faults' = faults + k,
             Paid(c, msg[c].id, d, k), UNCHANGED <<app, outages, published>>
      PROVE  /\ OneInDLQ' /\ IsFiniteSet(StoredCopies')
             /\ \A n \in Notification : Bounded(n)'
  <2>1. OneInDLQ'
    BY <1>i, <1>1, OneInDLQKept
  <2>2. IsFiniteSet(StoredCopies')
    BY <1>i, <1>1, CountsMove
  <2>3. ASSUME NEW n \in Notification PROVE Bounded(n)'
    <3>1. CASE n # msg[c].id
      <4>1. delivered'[n] = delivered[n] /\ published'[n] >= published[n] /\ faults' >= faults
        BY <1>i, <1>1, <3>1
      <4> QED
        BY <1>1, <3>1, <4>1, OtherBounded
    <3>2. CASE n = msg[c].id
      <4>1. /\ delivered'[n] = delivered[n] + d
            /\ published'[n] + faults' >= published[n] + faults + k
        BY <1>i, <1>1, <3>2
      <4>2. Paid(c, n, d, k)
        BY <1>1, <3>2
      <4> QED
        BY <1>1, <4>1, <4>2, StepBounded
    <3> QED
      BY <3>1, <3>2
  <2> QED
    BY <2>1, <2>2, <2>3
<1>2. CASE ~Retry(c)
  <2>1. /\ \A d \in Copy : d # c => msg'[d] = msg[d] /\ job'[d] = job[d]
        /\ job[c] # "idle" /\ msg[c].id \in Notification
        /\ msg'[c] # NoMessage => msg'[c].id = msg[c].id
    BY <1>i, <1>2, HandleFacts
  <2>2. job'[c] # "idle" /\ msg'[c].queue = "dlq" => msg[c].queue = "dlq"
    BY <1>i, <1>2, HandleFacts, NackFacts DEF Acknowledge, Ack, Settle, TypeOK
  <2>3. UNCHANGED <<app, outages, published>>
    BY <1>2 DEF Handle, ProcessRead, ProcessSave, Send, MarkSent, AnnounceSent, MarkFailure,
           Report, AnnounceFailed, Acknowledge
  <2>4. PICK d \in Nat, k \in Nat :
           /\ delivered' = [delivered EXCEPT ![msg[c].id] = @ + d]
           /\ faults' = faults + k
           /\ Paid(c, msg[c].id, d, k)
    BY <1>2, HandlePaid
  <2> QED
    BY <1>1, <2>1, <2>2, <2>3, <2>4
<1>3. CASE Retry(c)
  <2>1. job[c] = "retry" /\ UNCHANGED <<app, outages, published, delivered>>
    BY <1>3 DEF Retry
  <2>2. /\ Stored(c) /\ msg[c].id \in Notification /\ msg[c].queue = "dlq"
        /\ delivered' = [delivered EXCEPT ![msg[c].id] = @ + 0]
    BY <1>i, <2>1, HandledCopy DEF HandsHeld, DLQJob
  <2>3. ASSUME Nack(c), Fails("database") \/ PublishFails
        PROVE  /\ OneInDLQ' /\ IsFiniteSet(StoredCopies')
               /\ \A n \in Notification : Bounded(n)'
    <3>1. PICK k \in {0, 1} : faults' = faults + k
      BY <1>i, <2>3 DEF Fails, PublishFails, Fault
    <3>2. Paid(c, msg[c].id, 0, k)
      BY <1>i, <1>n, <2>1, <2>2, <2>3, <3>1, NackPaid DEF Settling
    <3>3. /\ \A d \in Copy : d # c => msg'[d] = msg[d] /\ job'[d] = job[d]
          /\ job'[c] = "idle"
          /\ msg'[c] # NoMessage => msg'[c].id = msg[c].id
      BY <1>i, <2>1, <2>3, NackFacts
    <3> QED
      BY <1>1, <1>n, <2>1, <2>2, <3>1, <3>2, <3>3
  <2>4. ASSUME PublishVanishes(msg[c].id), job' = [job EXCEPT ![c] = Verdict(row[msg[c].id])]
        PROVE  /\ OneInDLQ' /\ IsFiniteSet(StoredCopies')
               /\ \A n \in Notification : Bounded(n)'
    <3>1. PICK k \in {0, 1} : faults' = faults + k
      BY <1>i, <2>4 DEF PublishVanishes, Fault
    <3>2. Verdict(row[msg[c].id]) \in Settling \cap Job
          /\ Verdict(row[msg[c].id]) \notin {"read", "save", "send"}
      BY DEF Verdict, Settling, Job, DLQJob
    <3>3. Goto(c, Verdict(row[msg[c].id]))
      BY <2>4 DEF Goto, PublishVanishes
    <3>4. Paid(c, msg[c].id, 0, k)
      <4> DEFINE j == Verdict(row[msg[c].id])
      <4>1. j \in Job /\ j \in Settling /\ j \notin {"read", "save", "send"} /\ Goto(c, j)
            /\ k \in Nat /\ 0 <= k
        BY <3>2, <3>3
      <4> HIDE DEF j
      <4> QED
        BY <1>i, <1>n, <2>1, <4>1, GotoPaid
    <3>5. /\ \A d \in Copy : d # c => msg'[d] = msg[d] /\ job'[d] = job[d]
          /\ msg'[c] = msg[c]
      BY <1>i, <2>1, <3>2, <3>3, GotoFacts DEF Goto
    <3> QED
      BY <1>1, <1>n, <2>1, <2>2, <3>1, <3>4, <3>5
  <2>5. ASSUME ContextAlive, PublishAccepted("retry", msg[c].id, msg[c].retry + 1),
               job' = [job EXCEPT ![c] = Verdict(row[msg[c].id])]
        PROVE  /\ OneInDLQ' /\ IsFiniteSet(StoredCopies')
               /\ \A n \in Notification : Bounded(n)'
    <3>1. app \in {"up", "down"}
      BY <1>i, <2>5 DEF ContextAlive, PublishAccepted, TypeOK, AppState
    <3> QED
      BY <1>3, <2>5, <3>1, RetryBounded
  <2> QED
    BY <1>3, <2>3, <2>4, <2>5 DEF Retry, PublishReturnsNil
<1> QED
  BY <1>2, <1>3

\* Every copy can still be sent, follows one that was, or is the one in the DLQ's hand.
LEMMA CopiesCounted ==
    ASSUME DInv, NEW n \in Notification
    PROVE  /\ Cardinality(Copies(n)) \in Nat /\ Cardinality(Unsent(n)) \in Nat
           /\ Cardinality(Handled(n)) \in Nat /\ Cardinality(InSend(n)) \in Nat
           /\ Cardinality(Copies(n))
                  <= Cardinality(Unsent(n)) + Cardinality(Handled(n)) + 1
           /\ Cardinality(InSend(n)) <= Cardinality(Unsent(n))
           /\ Bound(n) \in Nat
           /\ Cardinality(Copies(n)) > 0 => Bound(n) >= 1
<1> DEFINE U == Unsent(n)
           H == Handled(n)
           D == {c \in Copies(n) : job[c] \in Settling /\ msg[c].queue = "dlq"}
<1>i. TypeOK /\ IsFiniteSet(StoredCopies) /\ HandsHeld /\ OneInDLQ /\ CopyPublished
  BY DEF DInv, LInv, TInv
<1>1. /\ IsFiniteSet(Copies(n)) /\ IsFiniteSet(U) /\ IsFiniteSet(H) /\ IsFiniteSet(InSend(n))
      /\ Cardinality(Copies(n)) \in Nat /\ Cardinality(U) \in Nat
      /\ Cardinality(H) \in Nat /\ Cardinality(InSend(n)) \in Nat
  BY <1>i, CopiesFinite
<1>2. IsFiniteSet(D) /\ Cardinality(D) \in 0 .. 1
  <2>1. "idle" \notin Settling
    BY DEF Settling
  <2>2. \A c, d \in D : c = d
    BY <1>i, <2>1 DEF OneInDLQ, Copies
  <2>3. D = {} \/ \E c : D = {c}
    BY <2>2
  <2> HIDE DEF D
  <2>4. CASE D = {}
    BY <2>4, FS_EmptySet
  <2>5. ASSUME NEW c, D = {c} PROVE IsFiniteSet(D) /\ Cardinality(D) \in 0 .. 1
    <3>1. IsFiniteSet(D) /\ Cardinality(D) = 1
      BY <2>5, FS_Singleton
    <3> QED
      BY <3>1
  <2> QED
    BY <2>3, <2>4, <2>5
<1>3. Copies(n) = (U \cup H) \cup D
  <2>1. "idle" \notin Settling
    BY DEF Settling
  <2> QED
    BY <1>i, <2>1 DEF HandsHeld, Copies, Unsent, Handled
<1>4. InSend(n) \subseteq U
  BY DEF InSend, Unsent, Settling
<1>5. Cardinality(InSend(n)) <= Cardinality(U)
  BY <1>1, <1>4, FS_Subset
<1>6. Cardinality(Copies(n)) > 0 => \E c \in Copies(n) : TRUE
  BY <1>1, FS_EmptySet
<1>7. ASSUME NEW c \in Copies(n) PROVE published[n] >= 1
  <2>1. published[n] > 0 /\ published[n] \in Nat
    BY <1>i DEF CopyPublished, Copies, TypeOK
  <2> QED
    BY <2>1
<1>8. Bound(n) \in Nat /\ (published[n] >= 1 => Bound(n) >= 1)
  <2>1. published[n] \in Nat /\ faults \in Nat /\ outages \in Nat
    BY <1>i DEF TypeOK
  <2>2. Tripled[outages] \in Nat /\ Tripled[outages] >= 1
    BY <2>1, TripledType
  <2> DEFINE a == published[n] + faults
             t == Tripled[outages]
  <2>3. a \in Nat /\ t \in Nat /\ t >= 1 /\ (published[n] >= 1 => a >= 0 + 1) /\ a >= 0 + 0
        /\ 0 \in Nat /\ 1 \in Nat
    BY <2>1, <2>2
  <2>4. Bound(n) = a * t
    BY DEF Bound
  <2> HIDE DEF a, t
  <2>5. a * t \in Nat
    BY <2>3, Product
  <2>6. a >= 0 + 1 => a * t >= 0 * t + 1
    BY <2>3, Product
  <2>7. 0 * t = 0
    BY <2>3
  <2> QED
    BY <2>3, <2>4, <2>5, <2>6, <2>7
<1> HIDE DEF U, H, D
<1>9. /\ IsFiniteSet(U \cup H)
      /\ Cardinality(U \cup H) \in Nat
      /\ Cardinality(U \cup H) <= Cardinality(U) + Cardinality(H)
  <2>1. IsFiniteSet(U \cup H)
        /\ Cardinality(U \cup H) = Cardinality(U) + Cardinality(H) - Cardinality(U \cap H)
    BY <1>1, FS_Union
  <2>2. Cardinality(U \cap H) \in Nat
    <3>1. U \cap H \in SUBSET U
      OBVIOUS
    <3> QED
      BY <1>1, <3>1, FS_Subset, FS_CardinalityType
  <2>3. Cardinality(U \cup H) \in Nat
    BY <2>1, FS_CardinalityType
  <2> QED
    BY <1>1, <2>1, <2>2, <2>3
<1>10. Cardinality((U \cup H) \cup D) <= Cardinality(U \cup H) + 1
  <2>1. Cardinality((U \cup H) \cup D)
            = Cardinality(U \cup H) + Cardinality(D) - Cardinality((U \cup H) \cap D)
    BY <1>2, <1>9, FS_Union
  <2>2. Cardinality((U \cup H) \cap D) \in Nat
    <3>1. (U \cup H) \cap D \in SUBSET D
      OBVIOUS
    <3> QED
      BY <1>2, <3>1, FS_Subset, FS_CardinalityType
  <2> QED
    BY <1>2, <1>9, <2>1, <2>2
<1>11. Cardinality(Copies(n)) <= Cardinality(U) + Cardinality(H) + 1
  BY <1>1, <1>3, <1>9, <1>10
<1> QED
  BY <1>1, <1>5, <1>6, <1>7, <1>8, <1>11 DEF U, H

\* When the process is gone every copy waits to be sent.
LEMMA DieCounts ==
    ASSUME TInv, Die, NEW n
    PROVE  /\ OneInDLQ' /\ StoredCopies' = StoredCopies
           /\ Copies(n)' = Copies(n) /\ Unsent(n)' = Copies(n)
           /\ Handled(n)' = {}
<1>1. \A c \in Copy : job'[c] = "idle"
  BY DEF Die
<1>2. \A c \in Copy : (msg'[c] # NoMessage <=> Stored(c))
                      /\ (Stored(c) => msg'[c].id = msg[c].id)
  BY StoredType, RequeuedType, NoMessageAssumption DEF Die, AllRequeued, TInv, Stored
<1>3. "idle" \notin Settling
  BY DEF Settling
<1> QED
  BY <1>1, <1>2, <1>3 DEF OneInDLQ, StoredCopies, Copies, Unsent, Handled, Stored

LEMMA ProcessBounded ==
    ASSUME DInv, TypeOK', Crash \/ Stop \/ Cut \/ Exit \/ Restart
    PROVE  /\ OneInDLQ' /\ IsFiniteSet(StoredCopies')
           /\ \A n \in Notification : Bounded(n)'
<1>i. TInv /\ TypeOK /\ OneInDLQ /\ IsFiniteSet(StoredCopies)
      /\ \A n \in Notification : Bounded(n) /\ delivered[n] \in Nat
  BY DEF DInv, LInv, TInv, TypeOK
<1>a. app \in {"up", "down", "stopping", "cut"}
  BY <1>i DEF TypeOK, AppState
<1>1. CASE Stop \/ Cut
  <2>1. /\ UNCHANGED <<msg, job, published, delivered, faults>> /\ outages' = outages + 1
        /\ app = "up" /\ app' \notin {"up", "down"}
    BY <1>1 DEF Stop, Cut, Disturbed
  <2>2. OneInDLQ' /\ StoredCopies' = StoredCopies
    BY <1>i, <2>1 DEF OneInDLQ, StoredCopies, Stored
  <2>3. ASSUME NEW n \in Notification PROVE Bounded(n)'
    <3>1. Copies(n)' = Copies(n) /\ InSend(n)' = InSend(n) /\ delivered'[n] = delivered[n]
      BY <2>1 DEF Copies, InSend, Stored
    <3>2. Bound(n) \in Nat /\ Bound(n)' = 3 * Bound(n)
      BY <1>i, <2>1, BoundTriples
    <3>3. /\ delivered[n] + Cardinality(Unsent(n)) <= Bound(n)
          /\ Cardinality(Unsent(n)) + Cardinality(Handled(n)) <= Bound(n)
      BY <1>i, <2>1 DEF Bounded
    <3>4. delivered[n] + Cardinality(Copies(n)) + Cardinality(InSend(n)) <= Bound(n)'
      <4>1. CASE Bound(n) >= 1
        BY <1>i, <3>2, <3>3, <4>1, CopiesCounted
      <4>2. CASE ~(Bound(n) >= 1)
        BY <1>i, <3>2, <3>3, <4>2, CopiesCounted
      <4> QED
        BY <4>1, <4>2
    <3> QED
      BY <2>1, <3>1, <3>4 DEF Bounded
  <2> QED
    BY <1>i, <2>2, <2>3
<1>2. CASE Die
  <2>1. app' = "down" /\ UNCHANGED <<published, delivered, faults>>
    BY <1>2 DEF Die
  <2>2. OneInDLQ' /\ IsFiniteSet(StoredCopies')
    BY <1>i, <1>2, DieCounts
  <2>3. ASSUME NEW n \in Notification,
               delivered[n] + Cardinality(Copies(n)) <= Bound(n)'
        PROVE  Bounded(n)'
    <3>1. Unsent(n)' = Copies(n) /\ Handled(n)' = {} /\ delivered'[n] = delivered[n]
      BY <1>i, <1>2, <2>1, DieCounts
    <3>2. Cardinality({}) = 0
      BY FS_EmptySet
    <3>3. Cardinality(Copies(n)) \in Nat /\ delivered[n] \in Nat
      BY <1>i, CopiesCounted
    <3>4. Cardinality(Unsent(n)') = Cardinality(Copies(n)) /\ Cardinality(Handled(n)') = 0
      BY <3>1, <3>2
    <3>5. Bound(n)' \in Nat
      <4>1. published'[n] + faults' \in Nat /\ outages' \in Nat
        BY DEF TypeOK
      <4>2. Tripled[outages'] \in Nat /\ Tripled' = Tripled
        BY <4>1, TripledType DEF Tripled
      <4>3. \A x, y \in Nat : x * y \in Nat
        OBVIOUS
      <4> QED
        BY <4>1, <4>2, <4>3 DEF Bound
    <3>6. /\ delivered'[n] + Cardinality(Unsent(n)') <= Bound(n)'
          /\ Cardinality(Unsent(n)') + Cardinality(Handled(n)') <= Bound(n)'
      BY <2>3, <3>1, <3>3, <3>4, <3>5
    <3> QED
      BY <2>1, <3>6 DEF Bounded
  <2>4. CASE Crash
    <3>1. outages' = outages + 1
      BY <2>4 DEF Crash, Disturbed
    <3>2. ASSUME NEW n \in Notification
          PROVE  delivered[n] + Cardinality(Copies(n)) <= Bound(n)'
      <4>1. Bound(n) \in Nat /\ Bound(n)' = 3 * Bound(n) /\ delivered[n] \in Nat
        BY <1>i, <2>1, <3>1, BoundTriples
      <4>2. CASE app \in {"up", "down"}
        <5>1. /\ delivered[n] + Cardinality(Unsent(n)) <= Bound(n)
              /\ Cardinality(Unsent(n)) + Cardinality(Handled(n)) <= Bound(n)
          BY <1>i, <4>2 DEF Bounded
        <5>2. CASE Bound(n) >= 1
          BY <4>1, <5>1, <5>2, CopiesCounted
        <5>3. CASE ~(Bound(n) >= 1)
          BY <4>1, <5>1, <5>3, CopiesCounted
        <5> QED
          BY <5>2, <5>3
      <4>3. CASE app \notin {"up", "down"}
        <5>1. delivered[n] + Cardinality(Copies(n)) + Cardinality(InSend(n)) <= Bound(n)
          BY <1>i, <4>3 DEF Bounded
        <5> QED
          BY <4>1, <5>1, CopiesCounted
      <4> QED
        BY <4>2, <4>3
    <3> QED
      BY <2>2, <2>3, <3>2
  <2>5. CASE Exit
    <3>1. app \notin {"up", "down"} /\ UNCHANGED outages
      BY <2>5 DEF Exit
    <3>2. ASSUME NEW n \in Notification
          PROVE  delivered[n] + Cardinality(Copies(n)) <= Bound(n)'
      <4>1. delivered[n] + Cardinality(Copies(n)) + Cardinality(InSend(n)) <= Bound(n)
        BY <1>i, <3>1 DEF Bounded
      <4>2. Bound(n)' = Bound(n)
        BY <2>1, <3>1 DEF Bound, Tripled
      <4> QED
        BY <1>i, <4>1, <4>2, CopiesCounted
    <3> QED
      BY <2>2, <2>3, <3>2
  <2>6. ~(Stop \/ Cut \/ Restart)
    BY <2>1 DEF Stop, Cut, Restart
  <2> QED
    BY <2>4, <2>5, <2>6
<1>3. CASE Restart
  <2>1. app = "down" /\ app' = "up"
        /\ UNCHANGED <<msg, job, outages, published, delivered, faults>>
    BY <1>3 DEF Restart
  <2>2. OneInDLQ' /\ StoredCopies' = StoredCopies
    BY <1>i, <2>1 DEF OneInDLQ, StoredCopies, Stored
  <2>3. ASSUME NEW n \in Notification PROVE Bounded(n)'
    <3>1. Unsent(n)' = Unsent(n) /\ Handled(n)' = Handled(n) /\ Bound(n)' = Bound(n)
      BY <2>1 DEF Unsent, Handled, Copies, Stored, Bound, Tripled
    <3> QED
      BY <1>i, <2>1, <3>1 DEF Bounded
  <2> QED
    BY <1>i, <2>2, <2>3
<1> QED
  BY <1>1, <1>2, <1>3 DEF Crash, Exit

LEMMA DInvInit == Init => DInv
<1> SUFFICES ASSUME Init PROVE DInv
  OBVIOUS
<1>1. LInv /\ HandsHeld /\ OneInDLQ
  BY LInvInit DEF Init, HandsHeld, DLQJob, OneInDLQ
<1>2. /\ StoredCopies = {}
      /\ \A n \in Notification : Unsent(n) = {} /\ Handled(n) = {}
  BY DEF Init, BrokerInit, StoredCopies, Unsent, Handled, Copies, Stored
<1>3. IsFiniteSet({}) /\ Cardinality({}) = 0
  BY FS_EmptySet
<1>4. ASSUME NEW n \in Notification PROVE Bounded(n)
  <2>1. app = "up" /\ delivered[n] = 0 /\ Bound(n) = 0 * Tripled[0]
    BY DEF Init, Bound
  <2>2. 0 * Tripled[0] = 0
    <3>1. 0 \in Nat
      OBVIOUS
    <3>2. Tripled[0] \in Nat
      BY <3>1, TripledType
    <3> QED
      BY <3>2
  <2> QED
    BY <1>2, <1>3, <2>1, <2>2 DEF Bounded
<1> QED
  BY <1>1, <1>2, <1>3, <1>4 DEF DInv

LEMMA DInvNext == DInv /\ [Next]_vars => DInv'
<1> SUFFICES ASSUME DInv, [Next]_vars PROVE DInv'
  OBVIOUS
<1>1. LInv' /\ HandsHeld' /\ TypeOK'
  BY LInvNext, HandsHeldNext DEF DInv, LInv, TInv
<1>2. OneInDLQ' /\ IsFiniteSet(StoredCopies') /\ \A n \in Notification : Bounded(n)'
  <2>1. CASE UNCHANGED vars
    <3>1. UNCHANGED <<msg, job, app, outages, published, delivered, faults>>
      BY <2>1 DEF vars
    <3>2. OneInDLQ' /\ StoredCopies' = StoredCopies
      BY <3>1 DEF DInv, OneInDLQ, StoredCopies, Stored
    <3>3. faults \in Nat /\ \A n \in Notification : published[n] \in Nat
      BY DEF DInv, LInv, TInv, TypeOK
    <3>4. faults' >= faults /\ \A n \in Notification :
              published'[n] >= published[n] /\ delivered'[n] = delivered[n]
      BY <3>1, <3>3
    <3> QED
      BY <1>1, <3>1, <3>2, <3>4, StillBounded DEF DInv
  <2> QED
    BY <1>1, <2>1, WriterBounded, DeliveryBounded, HandlerBounded, ProcessBounded DEF Next
<1> QED
  BY <1>1, <1>2 DEF DInv

LEMMA DInvImplies == DInv => DuplicatesBounded
<1> SUFFICES ASSUME DInv, NEW n \in Notification PROVE delivered[n] <= Bound(n)
  BY DEF DuplicatesBounded, Bound
<1>1. Bounded(n) /\ delivered[n] \in Nat
  BY DEF DInv, LInv, TInv, TypeOK
<1> QED
  BY <1>1, CopiesCounted DEF Bounded

\* The bound on duplicates, for any notifications, copies, requests, consumers and
\* retries and any number of failing calls and outages: the provider gets a notification
\* at most once for every publish and every failing call, three times as often with each
\* outage (consumer.go acknowledges after the send and after the retry's publish).
THEOREM DuplicatesStayBounded == Spec => []DuplicatesBounded
BY DInvInit, DInvNext, DInvImplies, PTL DEF Spec

-----------------------------------------------------------------------------
(* Publishes *)

\* What creator and ticker may still publish of their own accord, and what the outage
\* underway may yet make the ticker publish again: the row it published and cannot mark.
CreatorOwes(n) ==
    IF row[n] = "none" \/ \E r \in Request : n \in creator[r].publish THEN 1 ELSE 0

TickerOwes(n) ==
    IF row[n] = "none" \/ n \in ticker.publish \/ (Recoverable(n) /\ n \notin ticker.mark)
    THEN 1 ELSE 0

OutageOwes(n) ==
    IF app = "cut" \/ (app = "stopping" /\ n \in ticker.publish \cup ticker.mark)
    THEN 1 ELSE 0

Paced(n) ==
    published[n] + CreatorOwes(n) + TickerOwes(n) + OutageOwes(n) <= 2 + faults + outages

OneCreator ==
    \A r, q \in Request : \A n \in creator[r].publish \cap creator[q].publish : r = q

OneMark == \A m, n \in ticker.mark : m = n

PubInv == RInv /\ OneCreator /\ OneMark /\ \A n \in Notification : Paced(n)

LEMMA PubInvInit == Init => PubInv
<1> SUFFICES ASSUME Init PROVE PubInv
  OBVIOUS
<1>1. RInv /\ OneCreator /\ OneMark
  BY RInvInit DEF Init, OneCreator, OneMark, NoWork
<1>2. ASSUME NEW n \in Notification PROVE Paced(n)
  <2>1. /\ published[n] = 0 /\ faults = 0 /\ outages = 0
        /\ CreatorOwes(n) = 1 /\ TickerOwes(n) = 1 /\ OutageOwes(n) = 0
    BY DEF Init, CreatorOwes, TickerOwes, OutageOwes
  <2> QED
    BY <2>1 DEF Paced
<1> QED
  BY <1>1, <1>2 DEF PubInv

LEMMA OwesType ==
    ASSUME NEW n \in Notification
    PROVE  /\ CreatorOwes(n) \in {0, 1} /\ CreatorOwes(n)' \in {0, 1}
           /\ TickerOwes(n) \in {0, 1} /\ TickerOwes(n)' \in {0, 1}
           /\ OutageOwes(n) \in {0, 1} /\ OutageOwes(n)' \in {0, 1}
BY DEF CreatorOwes, TickerOwes, OutageOwes

LEMMA PubTypes ==
    ASSUME PubInv
    PROVE  /\ TypeOK /\ faults \in Nat /\ outages \in Nat
           /\ \A n \in Notification : published[n] \in Nat
           /\ creator \in [Request -> Work] /\ ticker \in Work
BY FaultsAssumption, OutagesAssumption DEF PubInv, RInv, LInv, TInv, TypeOK

\* Rows only leave "none" and the statuses the ticker looks for.
LEMMA RowsOwe ==
    ASSUME PubInv, UNCHANGED <<creator, ticker, app, published, outages>>,
           faults' \in Nat, faults' >= faults,
           \A n \in Notification :
               row'[n] = row[n] \/ row'[n] \notin {"none", "pending", "scheduled"}
    PROVE  OneCreator' /\ OneMark' /\ \A n \in Notification : Paced(n)'
<1>1. OneCreator' /\ OneMark'
  BY DEF PubInv, OneCreator, OneMark
<1>2. ASSUME NEW n \in Notification PROVE Paced(n)'
  <2>1. /\ CreatorOwes(n)' <= CreatorOwes(n) /\ TickerOwes(n)' <= TickerOwes(n)
        /\ OutageOwes(n)' = OutageOwes(n)
    BY DEF CreatorOwes, TickerOwes, OutageOwes, Recoverable
  <2>2. Paced(n) /\ faults \in Nat /\ outages \in Nat /\ published[n] \in Nat
    BY PubTypes DEF PubInv
  <2> QED
    BY <2>1, <2>2, OwesType DEF Paced
<1> QED
  BY <1>1, <1>2

LEMMA FaultsGrow ==
    ASSUME PubInv, NEW kind, Fault(kind) \/ Fails(kind) \/ Succeeds \/ UNCHANGED faults
    PROVE  faults' \in Nat /\ faults' >= faults
BY PubTypes DEF Fault, Fails, Succeeds

LEMMA SaveLeaves ==
    ASSUME TInv, NEW n \in Notification, NEW s \in Status \ {"pending", "scheduled"},
           NEW what, Save(n, s, what) \/ SaveFails(n, s, what)
    PROVE  \A m \in Notification :
               row'[m] = row[m] \/ row'[m] \notin {"none", "pending", "scheduled"}
BY DEF Save, SaveFails, TInv, TypeOK, Status

LEMMA CreatorPaced ==
    ASSUME PubInv, NEW r \in Request, CreateRows(r) \/ Creator(r)
    PROVE  OneCreator' /\ OneMark' /\ \A n \in Notification : Paced(n)'
<1>t. /\ TInv /\ Known /\ faults \in Nat /\ outages \in Nat
      /\ \A n \in Notification : published[n] \in Nat /\ Paced(n)
      /\ creator \in [Request -> Work] /\ OneCreator /\ OneMark
  BY PubTypes DEF PubInv, RInv, LInv
<1>1. CASE CreateRows(r)
  <2>1. UNCHANGED <<ticker, app, published, outages>> /\ faults' \in Nat /\ faults' >= faults
    BY <1>1, <1>t, FaultsGrow DEF CreateRows
  <2>2. /\ \A n \in Notification \ r : row'[n] = row[n]
        /\ \A n \in r : row[n] = "none" /\ row'[n] # "none"
    BY <1>1, RequestAssumption DEF CreateRows
  <2>3. /\ \A q \in Request : q # r => creator'[q] = creator[q]
        /\ creator' = creator \/ creator'[r].publish \subseteq r
    BY <1>1, <1>t DEF CreateRows, Work
  <2>4. \A q \in Request : r \cap creator[q].publish = {}
    BY <1>t, <2>2 DEF Known, Accepted
  <2>5. OneCreator' /\ OneMark'
    BY <1>t, <2>1, <2>3, <2>4 DEF OneCreator, OneMark
  <2>6. ASSUME NEW n \in Notification PROVE Paced(n)'
    <3>1. CreatorOwes(n)' <= CreatorOwes(n)
      <4>1. CASE n \in r
        BY <2>2, <4>1, OwesType DEF CreatorOwes
      <4>2. CASE n \notin r
        BY <2>2, <2>3, <4>2 DEF CreatorOwes
      <4> QED
        BY <4>1, <4>2
    <3>2. TickerOwes(n)' <= TickerOwes(n)
      <4>1. CASE n \in r
        BY <2>2, <4>1, OwesType DEF TickerOwes
      <4>2. CASE n \notin r
        BY <2>1, <2>2, <4>2 DEF TickerOwes, Recoverable
      <4> QED
        BY <4>1, <4>2
    <3>3. OutageOwes(n)' = OutageOwes(n)
      BY <2>1 DEF OutageOwes
    <3> QED
      BY <1>t, <2>1, <3>1, <3>2, <3>3, OwesType DEF Paced
  <2> QED
    BY <2>5, <2>6
<1>2. CASE CreatorPublish(r)
  <2>1. /\ UNCHANGED <<row, ticker, app, outages>>
        /\ faults' \in Nat /\ faults' >= faults
    BY <1>2, <1>t, FaultsGrow
    DEF CreatorPublish, PublishReturnsNil, PublishAccepted, PublishVanishes, PublishFails
  <2>2. PICK n \in creator[r].publish :
           \/ /\ published' = [published EXCEPT ![n] = @ + 1]
              /\ creator' = [creator EXCEPT ![r].publish = @ \ {n},
                                            ![r].mark = @ \cup {n}]
           \/ /\ UNCHANGED published
              /\ creator' = [creator EXCEPT ![r] = AfterFailedPublish(@, n)]
    BY <1>2 DEF CreatorPublish
  <2>3. n \in Notification /\ row[n] # "none"
    BY <1>t DEF Work, Known, Accepted
  <2>4. /\ n \notin creator'[r].publish /\ creator'[r].publish \subseteq creator[r].publish
        /\ \A q \in Request : q # r => creator'[q] = creator[q]
    BY <1>t, <2>2 DEF AfterFailedPublish, NoWork, Work
  <2>5. OneCreator' /\ OneMark'
    BY <1>t, <2>1, <2>4 DEF OneCreator, OneMark
  <2>6. CreatorOwes(n) = 1 /\ CreatorOwes(n)' = 0
    BY <1>t, <2>1, <2>3, <2>4 DEF CreatorOwes, OneCreator
  <2>7. /\ published'[n] <= published[n] + 1 /\ published'[n] \in Nat
        /\ \A m \in Notification : m # n => published'[m] = published[m]
    BY <1>t, <2>2, <2>3 DEF TInv, TypeOK
  <2>8. ASSUME NEW m \in Notification PROVE Paced(m)'
    <3>1. TickerOwes(m)' = TickerOwes(m) /\ OutageOwes(m)' = OutageOwes(m)
      BY <2>1 DEF TickerOwes, OutageOwes, Recoverable
    <3>2. CASE m = n
      BY <1>t, <2>1, <2>6, <2>7, <3>1, <3>2, OwesType DEF Paced
    <3>3. CASE m # n
      <4>1. CreatorOwes(m)' <= CreatorOwes(m)
        BY <2>1, <2>4 DEF CreatorOwes
      <4> QED
        BY <1>t, <2>1, <2>7, <3>1, <3>3, <4>1, OwesType DEF Paced
    <3> QED
      BY <3>2, <3>3
  <2> QED
    BY <2>5, <2>8
<1>3. CASE CreatorMark(r)
  <2>1. PICK n \in creator[r].mark :
           /\ Save(n, "queued", {}) \/ SaveFails(n, "queued", {})
           /\ Fault("database") \/ UNCHANGED faults
           /\ creator' = [creator EXCEPT ![r].mark = @ \ {n}]
    BY <1>3 DEF CreatorMark
  <2>2. n \in Notification
    BY <1>t DEF Work
  <2>3. UNCHANGED <<ticker, app, published, outages>> /\ faults' \in Nat /\ faults' >= faults
    BY <1>3, <1>t, <2>1, FaultsGrow DEF CreatorMark
  <2>4. \A m \in Notification :
            row'[m] = row[m] \/ row'[m] \notin {"none", "pending", "scheduled"}
    BY <1>t, <2>1, <2>2, SaveLeaves DEF Status
  <2>5. \A q \in Request : creator'[q].publish = creator[q].publish
    BY <1>t, <2>1 DEF Work
  <2>6. OneCreator' /\ OneMark'
    BY <1>t, <2>3, <2>5 DEF OneCreator, OneMark
  <2>7. ASSUME NEW m \in Notification PROVE Paced(m)'
    <3>1. /\ CreatorOwes(m)' <= CreatorOwes(m) /\ TickerOwes(m)' <= TickerOwes(m)
          /\ OutageOwes(m)' = OutageOwes(m)
      BY <2>3, <2>4, <2>5 DEF CreatorOwes, TickerOwes, OutageOwes, Recoverable
    <3> QED
      BY <1>t, <2>3, <3>1, OwesType DEF Paced
  <2> QED
    BY <2>6, <2>7
<1> QED
  BY <1>1, <1>2, <1>3 DEF Creator

LEMMA TickerPaced ==
    ASSUME PubInv, Ticker
    PROVE  OneCreator' /\ OneMark' /\ \A n \in Notification : Paced(n)'
<1>t. /\ TInv /\ Known /\ faults \in Nat /\ outages \in Nat
      /\ \A n \in Notification : published[n] \in Nat /\ Paced(n)
      /\ ticker \in Work /\ OneCreator /\ OneMark
  BY PubTypes DEF PubInv, RInv, LInv
<1>u. UNCHANGED <<creator, app, outages>> /\ faults' \in Nat /\ faults' >= faults
  BY <1>t, FaultsGrow
  DEF Ticker, TickerRead, TickerPublish, TickerMark, PublishReturnsNil, PublishAccepted,
      PublishVanishes, PublishFails
<1>o. OneCreator' /\ OneMark'
  BY <1>t, <1>u
  DEF OneCreator, OneMark, Ticker, TickerRead, TickerPublish, TickerMark, NoWork,
      AfterFailedRepublish, Work
<1>1. ASSUME NEW s \in {"pending", "scheduled"}, TickerRead(s), NEW n \in Notification
      PROVE  Paced(n)'
  <2>1. /\ UNCHANGED <<row, published>> /\ app \in {"up", "cut"}
        /\ ticker.publish = {} /\ ticker.mark = {}
        /\ ticker'.mark = {}
        /\ n \in ticker'.publish => Recoverable(n)
    BY <1>1 DEF TickerRead, NoWork, Found, Recoverable
  <2>2. /\ CreatorOwes(n)' = CreatorOwes(n) /\ TickerOwes(n)' <= TickerOwes(n)
        /\ OutageOwes(n)' = OutageOwes(n)
    BY <1>u, <2>1 DEF CreatorOwes, TickerOwes, OutageOwes, Recoverable
  <2> QED
    BY <1>t, <1>u, <2>1, <2>2, OwesType DEF Paced
<1>2. ASSUME TickerPublish, NEW m \in Notification
      PROVE  Paced(m)'
  <2>1. PICK n \in ticker.publish :
           \/ /\ published' = [published EXCEPT ![n] = @ + 1]
              /\ ticker' = [publish |-> ticker.publish \ {n}, mark |-> {n}]
           \/ /\ UNCHANGED published
              /\ ticker' = [ticker EXCEPT !.publish = @ \ {n}]
    BY <1>2 DEF TickerPublish, AfterFailedRepublish
  <2>2. n \in Notification /\ row[n] # "none" /\ ticker.mark = {} /\ UNCHANGED row
    BY <1>2, <1>t DEF Work, Known, Accepted, TickerPublish
  <2>3. CreatorOwes(m)' = CreatorOwes(m) /\ OutageOwes(m)' <= OutageOwes(m)
    BY <1>t, <1>u, <2>1, <2>2 DEF CreatorOwes, OutageOwes, Work
  <2>4. CASE published' = [published EXCEPT ![n] = @ + 1] /\ m = n
    <3>1. TickerOwes(m) = 1 /\ TickerOwes(m)' = 0 /\ published'[m] = published[m] + 1
      BY <1>t, <2>1, <2>2, <2>4 DEF TickerOwes, TInv, TypeOK
    <3> QED
      BY <1>t, <1>u, <2>3, <3>1, OwesType DEF Paced
  <2>5. CASE published'[m] = published[m]
    <3>1. TickerOwes(m)' <= TickerOwes(m)
      BY <1>t, <2>1, <2>2, <2>5 DEF TickerOwes, Recoverable, Work
    <3> QED
      BY <1>t, <1>u, <2>3, <2>5, <3>1, OwesType DEF Paced
  <2> QED
    BY <1>t, <2>1, <2>2, <2>4, <2>5 DEF TInv, TypeOK
<1>3. ASSUME TickerMark, NEW m \in Notification
      PROVE  Paced(m)'
  <2>1. PICK n \in ticker.mark :
           \/ Save(n, "queued", {}) /\ Succeeds
           \/ SaveFails(n, "queued", {}) /\ Fails("database")
    BY <1>3 DEF TickerMark
  <2>2. /\ UNCHANGED published
        /\ ticker'.mark = {} /\ ticker'.publish = ticker.publish
    BY <1>3, <1>t DEF TickerMark, Work
  <2>3. n \in Notification
    BY <1>t DEF Work
  <2>4. /\ \A k \in Notification :
               row'[k] = row[k] \/ row'[k] \notin {"none", "pending", "scheduled"}
        /\ Save(n, "queued", {}) => row'[n] = "queued"
    BY <1>t, <2>1, <2>3, SaveLeaves DEF Status, Save, TInv, TypeOK
  <2>5. CreatorOwes(m)' <= CreatorOwes(m) /\ OutageOwes(m)' <= OutageOwes(m)
    BY <1>u, <2>2, <2>4 DEF CreatorOwes, OutageOwes
  <2>6. CASE TickerOwes(m)' <= TickerOwes(m)
    BY <1>t, <1>u, <2>2, <2>5, <2>6, OwesType DEF Paced
  <2>7. CASE ~(TickerOwes(m)' <= TickerOwes(m))
    <3>1. /\ m \in ticker.mark /\ m \notin ticker.publish /\ row[m] # "none"
          /\ Recoverable(m)' /\ TickerOwes(m) = 0 /\ TickerOwes(m)' = 1
      BY <2>2, <2>4, <2>7, OwesType DEF TickerOwes, Recoverable
    <3>2. CASE Fault("database")
      BY <1>t, <1>u, <2>2, <2>5, <3>1, <3>2, OwesType DEF Paced, Fault
    <3>3. CASE app = "stopping"
      <4>1. OutageOwes(m) = 1 /\ OutageOwes(m)' = 0
        BY <1>u, <2>2, <3>1, <3>3 DEF OutageOwes
      <4> QED
        BY <1>t, <1>u, <2>2, <2>5, <3>1, <4>1, OwesType DEF Paced
    <3>4. m = n
      BY <1>t, <3>1 DEF OneMark
    <3>5. ~Recoverable(m)' \/ Fails("database")
      BY <2>1, <2>4, <3>4 DEF Recoverable
    <3> QED
      BY <3>1, <3>2, <3>3, <3>5 DEF Fails, ContextAlive
  <2> QED
    BY <2>6, <2>7
<1> QED
  BY <1>o, <1>1, <1>2, <1>3 DEF Ticker

LEMMA HandlePaced ==
    ASSUME PubInv,
           \/ \E n \in Notification : CancelRead(n) \/ CancelSave(n) \/ Ripen(n)
           \/ \E c \in Copy :
                 DeliverMain(c) \/ DeliverDLQ(c) \/ Handle(c) \/ BrokerExpire(c)
    PROVE  OneCreator' /\ OneMark' /\ \A n \in Notification : Paced(n)'
<1>t. TInv /\ faults \in Nat
  BY PubTypes DEF PubInv, RInv, LInv
<1>1. UNCHANGED <<creator, ticker, app, published, outages>>
  BY DEF CancelRead, CancelSave, Ripen, DeliverMain, DeliverDLQ, Take, BrokerExpire,
         Handle, ProcessRead, ProcessSave, Send, MarkSent, AnnounceSent, MarkFailure,
         Retry, Report, AnnounceFailed, Acknowledge
<1>2. faults' \in Nat /\ faults' >= faults
  BY <1>t
  DEF CancelRead, CancelSave, Ripen, DeliverMain, DeliverDLQ, Take, BrokerExpire,
      Handle, ProcessRead, ProcessSave, Send, MarkSent, AnnounceSent, MarkFailure,
      Retry, Report, AnnounceFailed, Acknowledge, Fault, Fails, Succeeds,
      PublishReturnsNil, PublishAccepted, PublishVanishes, PublishFails
<1>3. \/ UNCHANGED row
      \/ \E n \in Notification, s \in Status \ {"pending", "scheduled"}, what \in SUBSET Event :
             Save(n, s, what) \/ SaveFails(n, s, what)
  <2>1. ASSUME NEW n \in Notification, CancelRead(n) \/ CancelSave(n) \/ Ripen(n)
        PROVE  \/ UNCHANGED row
               \/ Save(n, "cancelled", {}) \/ SaveFails(n, "cancelled", {})
    BY <2>1 DEF CancelRead, CancelSave, Ripen
  <2>2. ASSUME NEW c \in Copy,
               \/ DeliverMain(c) \/ DeliverDLQ(c) \/ BrokerExpire(c) \/ ProcessRead(c)
               \/ Send(c) \/ AnnounceSent(c) \/ Retry(c) \/ Report(c)
               \/ AnnounceFailed(c) \/ Acknowledge(c)
        PROVE  UNCHANGED row
    BY <2>2
    DEF DeliverMain, DeliverDLQ, Take, BrokerExpire, ProcessRead, Send, AnnounceSent, Retry,
        Report, AnnounceFailed, Acknowledge
  <2>3. ASSUME NEW c \in Copy, ProcessSave(c) \/ MarkSent(c) \/ MarkFailure(c)
        PROVE  \E n \in Notification, s \in Status \ {"pending", "scheduled"},
                  what \in SUBSET Event : Save(n, s, what) \/ SaveFails(n, s, what)
    <3>1. msg[c].id \in Notification
      BY <1>t, <2>3 DEF ProcessSave, MarkSent, MarkFailure, TInv, TypeOK, BrokerTypeOK,
                        JobsFit, Stored, Message
    <3>2. PICK s \in {"processing", "sent", "retrying", "failed"}, what \in SUBSET Event :
             Save(msg[c].id, s, what) \/ SaveFails(msg[c].id, s, what)
      BY <2>3 DEF ProcessSave, MarkSent, MarkFailure, Discarding, Event
    <3> QED
      BY <3>1, <3>2 DEF Status
  <2> QED
    BY <2>1, <2>2, <2>3 DEF Handle, Status
<1>4. \A m \in Notification :
          row'[m] = row[m] \/ row'[m] \notin {"none", "pending", "scheduled"}
  BY <1>t, <1>3, SaveLeaves
<1> QED
  BY <1>1, <1>2, <1>4, RowsOwe

LEMMA ProcessPaced ==
    ASSUME PubInv, Crash \/ Stop \/ Cut \/ Exit \/ Restart
    PROVE  OneCreator' /\ OneMark' /\ \A n \in Notification : Paced(n)'
<1>t. /\ TInv /\ faults \in Nat /\ outages \in Nat
      /\ \A n \in Notification : published[n] \in Nat /\ Paced(n)
      /\ OneCreator /\ OneMark
  BY PubTypes DEF PubInv, RInv, LInv
<1>1. CASE Stop \/ Cut
  <2>1. /\ UNCHANGED <<row, creator, ticker, faults, published>>
        /\ outages' = outages + 1 /\ app = "up"
    BY <1>1 DEF Stop, Cut, Disturbed
  <2>2. ASSUME NEW n \in Notification PROVE Paced(n)'
    <3>1. /\ CreatorOwes(n)' = CreatorOwes(n) /\ TickerOwes(n)' = TickerOwes(n)
          /\ OutageOwes(n) = 0
      BY <2>1 DEF CreatorOwes, TickerOwes, OutageOwes, Recoverable
    <3> QED
      BY <1>t, <2>1, <3>1, OwesType DEF Paced
  <2> QED
    BY <1>t, <2>1, <2>2 DEF OneCreator, OneMark
<1>2. CASE Crash \/ Exit
  <2>1. /\ UNCHANGED <<row, faults, published>> /\ app' = "down"
        /\ creator' = [r \in Request |-> NoWork] /\ ticker' = NoWork
        /\ \/ outages' = outages + 1
           \/ outages' = outages /\ app \in {"stopping", "cut"}
    BY <1>2 DEF Crash, Exit, Die, Disturbed
  <2>2. ASSUME NEW n \in Notification PROVE Paced(n)'
    <3>1. /\ CreatorOwes(n)' <= CreatorOwes(n) /\ OutageOwes(n)' = 0
      BY <2>1 DEF CreatorOwes, OutageOwes, NoWork
    <3>2. \/ TickerOwes(n)' <= TickerOwes(n)
          \/ n \in ticker.mark
      BY <2>1 DEF TickerOwes, Recoverable, NoWork
    <3>3. n \in ticker.mark /\ outages' = outages => OutageOwes(n) = 1
      BY <1>t, <2>1 DEF OutageOwes
    <3> QED
      BY <1>t, <2>1, <3>1, <3>2, <3>3, OwesType DEF Paced
  <2> QED
    BY <2>1, <2>2 DEF OneCreator, OneMark, NoWork
<1>3. CASE Restart
  <2>1. /\ UNCHANGED <<row, creator, ticker, faults, outages, published>>
        /\ app = "down" /\ app' = "up"
    BY <1>3 DEF Restart
  <2>2. ASSUME NEW n \in Notification PROVE Paced(n)'
    <3>1. /\ CreatorOwes(n)' = CreatorOwes(n) /\ TickerOwes(n)' = TickerOwes(n)
          /\ OutageOwes(n)' = OutageOwes(n)
      BY <2>1 DEF CreatorOwes, TickerOwes, OutageOwes, Recoverable
    <3> QED
      BY <1>t, <2>1, <3>1 DEF Paced
  <2> QED
    BY <1>t, <2>1, <2>2 DEF OneCreator, OneMark
<1> QED
  BY <1>1, <1>2, <1>3

LEMMA PubInvNext == PubInv /\ [Next]_vars => PubInv'
<1> SUFFICES ASSUME PubInv, [Next]_vars PROVE PubInv'
  OBVIOUS
<1>1. RInv'
  BY RInvNext DEF PubInv
<1>2. OneCreator' /\ OneMark' /\ \A n \in Notification : Paced(n)'
  <2>1. CASE UNCHANGED vars
    <3>1. UNCHANGED <<row, creator, ticker, app, faults, outages, published>>
      BY <2>1 DEF vars
    <3>2. faults' \in Nat /\ faults' >= faults
      BY <3>1, PubTypes
    <3> QED
      BY <3>1, <3>2, RowsOwe
  <2> QED
    BY <2>1, CreatorPaced, TickerPaced, HandlePaced, ProcessPaced DEF Next
<1> QED
  BY <1>1, <1>2 DEF PubInv

LEMMA PubInvImplies == PubInv => PublishesBounded
<1> SUFFICES ASSUME PubInv, NEW n \in Notification
             PROVE  published[n] <= 2 + faults + outages
  BY DEF PublishesBounded
<1> QED
  BY PubTypes, OwesType DEF PubInv, Paced

\* For any notifications, requests and consumers and any number of failing calls and
\* outages: creator and ticker publish a notification twice at most, and once more for
\* each call that failed and each outage (RecoverStuckNotifications publishes a pending
\* row again only when its MarkAsQueued did not come through).
THEOREM PublishesStayBounded == Spec => []PublishesBounded
<1>1. PubInv /\ [Next]_vars => PubInv'
  BY PubInvNext
<1>2. Init => PubInv
  BY PubInvInit
<1>3. PubInv => PublishesBounded
  BY PubInvImplies
<1> QED
  BY <1>1, <1>2, <1>3, PTL DEF Spec

=============================================================================
