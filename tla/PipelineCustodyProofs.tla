----------------------- MODULE PipelineCustodyProofs -----------------------
(***************************************************************************)
(* TypeOK, NoNotificationLost, and that the pipeline implements            *)
(* AtLeastOnce, for every set of notifications, of copies and of requests, *)
(* every number of retries, consumers, faults and outages.                 *)
(*                                                                         *)
(* TypeOK is not inductive: that a handler settles or republishes a        *)
(* message of the right type needs to know that it holds one, in which     *)
(* queue, and with which retry count (JobsFit).                            *)
(*                                                                         *)
(* NoNotificationLost is not inductive: a queued row says nothing of a     *)
(* message.  What carries the induction is that whoever may still write    *)
(* "queued" has published (MarkPublished), that every copy stands for a    *)
(* publish (CopyPublished), and that what was ever published is concluded, *)
(* lost or carried (PublishedKept).                                        *)
(*                                                                         *)
(* The refinement.  A step changes at most one notification, and then it   *)
(* hands over, delivers or closes (OneNotification); only an insert and    *)
(* the end of the process touch several, and they accept and reclaim.      *)
(* That the last custodian stays until the notification is settled is      *)
(* NoNotificationLost, before and after the step.  Besides, everything the *)
(* handlers are at work on, and everything published, has a row (Known).   *)
(***************************************************************************)
EXTENDS PipelineRefinement, TLAPS

-----------------------------------------------------------------------------
(* Types *)

\* What the job of a copy says of the copy.
JobsFit ==
    \A c \in Copy :
        /\ job[c] # "idle" => Stored(c)
        /\ job[c] \in MainJob => msg[c].queue = "main"
        /\ job[c] = "retry" => RetriesLeft(msg[c])

TInv == TypeOK /\ JobsFit

LEMMA DeadLetteredType ==
    ASSUME NEW m \in Message
    PROVE  DeadLettered(m) \in Message \cup {NoMessage}
BY DEF Message, Queue, DeadLettered

LEMMA EnqueuedType ==
    ASSUME NEW q \in Queue, NEW n \in Notification, NEW r \in 0 .. MaxRetries
    PROVE  Enqueued(q, n, r) \in Message
BY DEF Message, Enqueued

LEMMA RequeuedType ==
    ASSUME NEW m \in Message
    PROVE  Requeued(m) \in Message /\ Requeued(m).queue = m.queue
             /\ Requeued(m).retry = m.retry /\ Requeued(m).id = m.id
BY DEF Message, Requeued

LEMMA StoredType ==
    ASSUME TypeOK, NEW c \in Copy, Stored(c)
    PROVE  msg[c] \in Message
BY DEF TypeOK, BrokerTypeOK, Stored

\* Settling one copy keeps the others.
LEMMA SettleInv ==
    ASSUME TInv, NEW c \in Copy, Stored(c),
           NEW m \in Message \cup {NoMessage}, Settle(c, m)
    PROVE  /\ BrokerTypeOK'
           /\ job' \in [Copy -> Job]
           /\ JobsFit'
<1>1. Requeued(msg[c]) \in Message
  BY StoredType, RequeuedType DEF TInv
<1>2. BrokerTypeOK' /\ job' \in [Copy -> Job]
  BY <1>1 DEF TInv, TypeOK, BrokerTypeOK, Settle, Job
<1>3. ASSUME NEW d \in Copy, d # c PROVE msg'[d] = msg[d] /\ job'[d] = job[d]
  BY <1>3 DEF TInv, TypeOK, BrokerTypeOK, Settle
<1>4. job'[c] = "idle"
  BY DEF TInv, TypeOK, Settle
<1> QED
  BY <1>2, <1>3, <1>4 DEF TInv, JobsFit, MainJob, Stored, RetriesLeft

LEMMA GotoInv ==
    ASSUME TInv, NEW c \in Copy, Stored(c), NEW j \in Job, Goto(c, j),
           j \in MainJob => msg[c].queue = "main",
           j = "retry" => RetriesLeft(msg[c])
    PROVE  /\ BrokerTypeOK'
           /\ job' \in [Copy -> Job]
           /\ JobsFit'
BY DEF TInv, TypeOK, BrokerTypeOK, Goto, JobsFit, Stored, RetriesLeft

LEMMA TInvInit == Init => TInv
BY MaxRetriesAssumption, FaultsAssumption, OutagesAssumption
DEF Init, TInv, TypeOK, JobsFit, BrokerInit, BrokerTypeOK, Status, Work, NoWork,
    Job, AppState, MainJob, Stored


\* What every handler of a consumer's copy starts from.
LEMMA HandledCopy ==
    ASSUME TInv, NEW c \in Copy, job[c] # "idle"
    PROVE  Stored(c) /\ msg[c] \in Message /\ msg[c].id \in Notification
BY StoredType DEF TInv, JobsFit, Message

LEMMA NackInv ==
    ASSUME TInv, NEW c \in Copy, job[c] # "idle", Nack(c)
    PROVE  BrokerTypeOK' /\ job' \in [Copy -> Job] /\ JobsFit'
BY HandledCopy, DeadLetteredType, SettleInv DEF Nack

LEMMA AckInv ==
    ASSUME TInv, NEW c \in Copy, job[c] # "idle", Ack(c)
    PROVE  BrokerTypeOK' /\ job' \in [Copy -> Job] /\ JobsFit'
BY HandledCopy, SettleInv DEF Ack

LEMMA SaveType ==
    ASSUME TypeOK, NEW n \in Notification, NEW s \in Status,
           NEW what \in SUBSET Event, Save(n, s, what) \/ SaveFails(n, s, what)
    PROVE  /\ row' \in [Notification -> Status \cup {"none"}]
           /\ events' \in [Notification -> SUBSET Event]
<1>1. \A E \in SUBSET Event :
         Note(n, E) => events' \in [Notification -> SUBSET Event]
  BY DEF TypeOK, Note
<1>2. what \cup ({s} \cap {"cancelled", "failed"}) \in SUBSET Event
  BY DEF Event
<1>3. CASE Save(n, s, what)
  BY <1>1, <1>2, <1>3 DEF Save, TypeOK
<1>4. CASE row' = row /\ Note(n, what)
  BY <1>1, <1>4 DEF TypeOK
<1> QED
  BY <1>3, <1>4 DEF SaveFails

LEMMA FaultType ==
    ASSUME TypeOK, NEW kind, Fault(kind) \/ Succeeds \/ Fails(kind)
    PROVE  faults' \in 0 .. MaxFaults
BY FaultsAssumption DEF TypeOK, Fault, Fails, Succeeds

\* A publish fills a free place, whose job is idle, and no other.
LEMMA PublishInv ==
    ASSUME TInv, NEW q \in Queue, NEW n \in Notification, NEW r \in 0 .. MaxRetries,
           PublishReturnsNil(q, n, r)
    PROVE  /\ BrokerTypeOK'
           /\ faults' \in 0 .. MaxFaults
           /\ events' \in [Notification -> SUBSET Event]
           /\ \A c \in Copy : Stored(c) => msg'[c] = msg[c]
<1>1. CASE PublishAccepted(q, n, r)
  <2>1. Enqueued(q, n, r) \in Message
    BY EnqueuedType
  <2> QED
    BY <1>1, <2>1 DEF PublishAccepted, TInv, TypeOK, BrokerTypeOK, Stored
<1>2. CASE PublishVanishes(n)
  BY <1>2, FaultsAssumption
  DEF PublishVanishes, Fault, Note, TInv, TypeOK, BrokerTypeOK, Event
<1> QED
  BY <1>1, <1>2 DEF PublishReturnsNil

\* Storing more copies keeps the jobs in place.
LEMMA JobsFitKept ==
    ASSUME TInv, UNCHANGED job, \A c \in Copy : Stored(c) => msg'[c] = msg[c]
    PROVE  JobsFit'
BY DEF TInv, JobsFit, MainJob, Stored, RetriesLeft

-----------------------------------------------------------------------------
(* One lemma per part of Next *)

LEMMA CreatorTInv ==
    ASSUME TInv, NEW r \in Request, CreateRows(r) \/ CreatorPublish(r) \/ CreatorMark(r)
    PROVE  TInv'
<1> USE DEF TInv
<1>1. CASE CreateRows(r)
  <2>1. JobsFit'
    BY <1>1, JobsFitKept DEF CreateRows
  <2>2. row' \in [Notification -> Status \cup {"none"}]
    BY <1>1 DEF CreateRows, TypeOK, Status
  <2>3. creator' \in [Request -> Work]
    BY <1>1, RequestAssumption DEF CreateRows, TypeOK, Work
  <2>4. faults' \in 0 .. MaxFaults
    BY <1>1, FaultType DEF CreateRows, TypeOK
  <2> QED
    BY <1>1, <2>1, <2>2, <2>3, <2>4 DEF CreateRows, TypeOK, BrokerTypeOK
<1>2. CASE CreatorPublish(r)
  <2> PICK n \in creator[r].publish :
         \/ /\ PublishReturnsNil("main", n, 0)
            /\ published' = [published EXCEPT ![n] = @ + 1]
            /\ creator' = [creator EXCEPT ![r].publish = @ \ {n},
                                          ![r].mark = @ \cup {n}]
         \/ /\ PublishFails
            /\ creator' = [creator EXCEPT ![r] = AfterFailedPublish(@, n)]
            /\ UNCHANGED <<msg, published, events>>
    BY <1>2 DEF CreatorPublish
  <2>n. n \in Notification
    BY DEF TypeOK, Work
  <2>1. CASE PublishReturnsNil("main", n, 0) /\ published' = [published EXCEPT ![n] = @ + 1]
               /\ creator' = [creator EXCEPT ![r].publish = @ \ {n},
                                             ![r].mark = @ \cup {n}]
    <3>1. BrokerTypeOK' /\ faults' \in 0 .. MaxFaults
             /\ events' \in [Notification -> SUBSET Event] /\ JobsFit'
      BY <1>2, <2>1, <2>n, PublishInv, JobsFitKept, MaxRetriesAssumption
      DEF CreatorPublish, Queue
    <3>2. creator' \in [Request -> Work] /\ published' \in [Notification -> Nat]
      BY <2>1, <2>n DEF TypeOK, Work
    <3> QED
      BY <1>2, <3>1, <3>2 DEF CreatorPublish, TypeOK
  <2>2. CASE PublishFails /\ creator' = [creator EXCEPT ![r] = AfterFailedPublish(@, n)]
               /\ UNCHANGED <<msg, published, events>>
    <3>1. JobsFit' /\ BrokerTypeOK'
      BY <1>2, <2>2, JobsFitKept DEF CreatorPublish, TypeOK, BrokerTypeOK
    <3>2. creator' \in [Request -> Work]
      BY <2>2 DEF AfterFailedPublish, NoWork, TypeOK, Work
    <3>3. faults' \in 0 .. MaxFaults
      BY <2>2, FaultType DEF PublishFails, TypeOK
    <3> QED
      BY <1>2, <2>2, <3>1, <3>2, <3>3 DEF CreatorPublish, TypeOK
  <2> QED
    BY <2>1, <2>2
<1>3. CASE CreatorMark(r)
  <2> PICK n \in creator[r].mark :
         /\ \/ Save(n, "queued", {}) /\ UNCHANGED faults
            \/ SaveFails(n, "queued", {}) /\ Fault("database")
         /\ creator' = [creator EXCEPT ![r].mark = @ \ {n}]
    BY <1>3 DEF CreatorMark
  <2>n. n \in Notification
    BY DEF TypeOK, Work
  <2>1. row' \in [Notification -> Status \cup {"none"}]
           /\ events' \in [Notification -> SUBSET Event]
    BY <2>n, SaveType DEF Status
  <2>2. creator' \in [Request -> Work]
    BY DEF TypeOK, Work
  <2>3. faults' \in 0 .. MaxFaults
    BY FaultType DEF TypeOK
  <2>4. JobsFit'
    BY <1>3, JobsFitKept DEF CreatorMark
  <2> QED
    BY <1>3, <2>1, <2>2, <2>3, <2>4 DEF CreatorMark, TypeOK, BrokerTypeOK
<1> QED
  BY <1>1, <1>2, <1>3

LEMMA CancelTInv ==
    ASSUME TInv, NEW n \in Notification, CancelRead(n) \/ CancelSave(n) \/ Ripen(n)
    PROVE  TInv'
<1> USE DEF TInv
<1>1. JobsFit'
  BY JobsFitKept DEF CancelRead, CancelSave, Ripen
<1>2. CASE CancelRead(n) \/ Ripen(n)
  BY <1>1, <1>2 DEF CancelRead, Ripen, TypeOK, BrokerTypeOK
<1>3. CASE CancelSave(n)
  <2>1. row' \in [Notification -> Status \cup {"none"}]
           /\ events' \in [Notification -> SUBSET Event]
    BY <1>3, SaveType DEF CancelSave, Status
  <2>2. faults' \in 0 .. MaxFaults
    BY <1>3, FaultType DEF CancelSave, TypeOK
  <2> QED
    BY <1>1, <1>3, <2>1, <2>2 DEF CancelSave, TypeOK, BrokerTypeOK
<1> QED
  BY <1>2, <1>3

LEMMA TickerTInv ==
    ASSUME TInv, Ticker
    PROVE  TInv'
<1> USE DEF TInv
<1>1. ASSUME NEW s \in {"pending", "scheduled"}, TickerRead(s) PROVE TInv'
  <2>1. JobsFit'
    BY <1>1, JobsFitKept DEF TickerRead
  <2> QED
    BY <1>1, <2>1 DEF TickerRead, Found, NoWork, Work, TypeOK, BrokerTypeOK
<1>2. CASE TickerPublish
  <2> PICK n \in ticker.publish :
         \/ /\ PublishReturnsNil("main", n, 0)
            /\ published' = [published EXCEPT ![n] = @ + 1]
            /\ ticker' = [publish |-> ticker.publish \ {n}, mark |-> {n}]
         \/ /\ PublishFails
            /\ ticker' = AfterFailedRepublish(n)
            /\ UNCHANGED <<msg, published, events>>
    BY <1>2 DEF TickerPublish
  <2>n. n \in Notification
    BY DEF TypeOK, Work
  <2>1. CASE PublishReturnsNil("main", n, 0) /\ published' = [published EXCEPT ![n] = @ + 1]
               /\ ticker' = [publish |-> ticker.publish \ {n}, mark |-> {n}]
    <3>1. BrokerTypeOK' /\ faults' \in 0 .. MaxFaults
             /\ events' \in [Notification -> SUBSET Event] /\ JobsFit'
      BY <1>2, <2>1, <2>n, PublishInv, JobsFitKept, MaxRetriesAssumption
      DEF TickerPublish, Queue
    <3>2. ticker' \in Work /\ published' \in [Notification -> Nat]
      BY <2>1, <2>n DEF TypeOK, Work
    <3> QED
      BY <1>2, <3>1, <3>2 DEF TickerPublish, TypeOK
  <2>2. CASE PublishFails /\ ticker' = AfterFailedRepublish(n)
               /\ UNCHANGED <<msg, published, events>>
    <3>1. JobsFit' /\ BrokerTypeOK'
      BY <1>2, <2>2, JobsFitKept DEF TickerPublish, TypeOK, BrokerTypeOK
    <3>2. ticker' \in Work
      BY <2>2 DEF AfterFailedRepublish, TypeOK, Work
    <3>3. faults' \in 0 .. MaxFaults
      BY <2>2, FaultType DEF PublishFails, TypeOK
    <3> QED
      BY <1>2, <2>2, <3>1, <3>2, <3>3 DEF TickerPublish, TypeOK
  <2> QED
    BY <2>1, <2>2
<1>3. CASE TickerMark
  <2> PICK n \in ticker.mark :
         \/ Save(n, "queued", {}) /\ Succeeds
         \/ SaveFails(n, "queued", {}) /\ Fails("database")
    BY <1>3 DEF TickerMark
  <2>n. n \in Notification
    BY DEF TypeOK, Work
  <2>1. row' \in [Notification -> Status \cup {"none"}]
           /\ events' \in [Notification -> SUBSET Event]
    BY <2>n, SaveType DEF Status
  <2>2. ticker' \in Work
    BY <1>3 DEF TickerMark, TypeOK, Work
  <2>3. faults' \in 0 .. MaxFaults
    BY FaultType
  <2>4. JobsFit'
    BY <1>3, JobsFitKept DEF TickerMark
  <2> QED
    BY <1>3, <2>1, <2>2, <2>3, <2>4 DEF TickerMark, TypeOK, BrokerTypeOK
<1> QED
  BY <1>1, <1>2, <1>3 DEF Ticker

LEMMA TakeTInv ==
    ASSUME TInv, NEW c \in Copy, Stored(c), NEW j \in Job, Take(c, j),
           j \in MainJob => msg[c].queue = "main", j # "retry"
    PROVE  TInv'
<1> USE DEF TInv
<1>s. msg[c] \in Message
  BY StoredType
<1>m. [msg[c] EXCEPT !.unacked = TRUE] \in Message
         /\ [msg[c] EXCEPT !.unacked = TRUE].queue = msg[c].queue
  BY <1>s DEF Message
<1>1. /\ msg'[c] = [msg[c] EXCEPT !.unacked = TRUE] /\ job'[c] = j
      /\ \A d \in Copy : d # c => msg'[d] = msg[d] /\ job'[d] = job[d]
      /\ BrokerTypeOK' /\ job' \in [Copy -> Job]
  BY <1>m DEF Take, TypeOK, BrokerTypeOK
<1>2. JobsFit'
  BY <1>1, <1>m, NoMessageAssumption DEF JobsFit, Stored, RetriesLeft
<1> QED
  BY <1>1, <1>2 DEF Take, TypeOK

LEMMA DeliveryTInv ==
    ASSUME TInv, NEW c \in Copy, DeliverMain(c) \/ DeliverDLQ(c) \/ BrokerExpire(c)
    PROVE  TInv'
<1> USE DEF TInv
<1>s. Stored(c) /\ msg[c] \in Message
  BY StoredType DEF DeliverMain, DeliverDLQ, BrokerExpire, Expire
<1>1. CASE DeliverMain(c)
  <2>1. Take(c, "read") /\ msg[c].queue = "main" /\ "read" \in Job
    BY <1>1 DEF DeliverMain, Job, MainJob
  <2> QED
    BY <1>1, <1>s, <2>1, TakeTInv DEF DeliverMain
<1>2. CASE DeliverDLQ(c)
  <2>1. Take(c, "mark") /\ "mark" \notin MainJob /\ "mark" \in Job
    BY <1>2 DEF DeliverDLQ, Job, MainJob, DLQJob
  <2> QED
    BY <1>2, <1>s, <2>1, TakeTInv DEF DeliverDLQ
<1>3. CASE BrokerExpire(c)
  <2>1. DeadLettered(msg[c]) \in Message
           /\ DeadLettered(msg[c]).retry = msg[c].retry
    BY <1>3, <1>s DEF BrokerExpire, Expire, DeadLettered, Message, Queue
  <2>2. job[c] \notin MainJob
    BY <1>3 DEF BrokerExpire, Expire, JobsFit
  <2>3. BrokerTypeOK' /\ job' = job /\ msg'[c] = DeadLettered(msg[c])
           /\ \A d \in Copy : d # c => msg'[d] = msg[d]
    BY <1>3, <2>1 DEF BrokerExpire, Expire, TypeOK, BrokerTypeOK
  <2>4. JobsFit'
    BY <2>1, <2>2, <2>3, <1>s, NoMessageAssumption DEF JobsFit, Stored, RetriesLeft
  <2> QED
    BY <1>3, <2>3, <2>4 DEF BrokerExpire, TypeOK
<1> QED
  BY <1>1, <1>2, <1>3

LEMMA ProcessTInv ==
    ASSUME TInv, Crash \/ Stop \/ Cut \/ Exit \/ Restart
    PROVE  TInv'
<1> USE DEF TInv
<1>1. ASSUME Die, outages' \in 0 .. MaxOutages PROVE TInv'
  <2>1. BrokerTypeOK'
    BY <1>1, RequeuedType DEF Die, AllRequeued, TypeOK, BrokerTypeOK, Stored
  <2>2. JobsFit'
    BY <1>1 DEF Die, JobsFit, MainJob
  <2>3. creator' \in [Request -> Work] /\ ticker' \in Work /\ job' \in [Copy -> Job]
    BY <1>1 DEF Die, NoWork, Work, Job
  <2> QED
    BY <1>1, <2>1, <2>2, <2>3 DEF Die, TypeOK, AppState
<1>2. ASSUME NEW kind, Disturbed(kind) PROVE outages' \in 0 .. MaxOutages
  BY <1>2, OutagesAssumption DEF Disturbed, TypeOK
<1>3. CASE Crash \/ Exit
  BY <1>1, <1>2, <1>3 DEF Crash, Exit, TypeOK
<1>4. CASE Stop \/ Cut
  <2>1. JobsFit' /\ outages' \in 0 .. MaxOutages
    BY <1>2, <1>4, JobsFitKept DEF Stop, Cut
  <2> QED
    BY <1>4, <2>1 DEF Stop, Cut, TypeOK, BrokerTypeOK, AppState
<1>5. CASE Restart
  <2>1. JobsFit'
    BY <1>5, JobsFitKept DEF Restart
  <2> QED
    BY <1>5, <2>1 DEF Restart, TypeOK, BrokerTypeOK, AppState
<1> QED
  BY <1>3, <1>4, <1>5

LEMMA MainTInv ==
    ASSUME TInv, NEW c \in Copy,
           \/ ProcessRead(c) \/ ProcessSave(c) \/ Send(c) \/ MarkSent(c)
           \/ AnnounceSent(c) \/ Acknowledge(c)
    PROVE  TInv'
<1> USE DEF TInv
<1>h. job[c] # "idle"
  BY DEF ProcessRead, ProcessSave, Send, MarkSent, AnnounceSent, Acknowledge
<1>s. Stored(c) /\ msg[c].id \in Notification
  BY <1>h, HandledCopy
<1>j. "ack" \in Job \ MainJob /\ MainJob \subseteq Job /\ "retry" \notin MainJob
  BY DEF Job, MainJob
<1>g. ASSUME NEW j \in MainJob \cup {"ack"}, job[c] \in MainJob, Goto(c, j)
      PROVE  BrokerTypeOK' /\ job' \in [Copy -> Job] /\ JobsFit'
  <2>1. j \in Job /\ j # "retry" /\ msg[c].queue = "main"
    BY <1>g, <1>j DEF JobsFit
  <2> QED
    BY <1>g, <1>s, <2>1, GotoInv
<1>n. ASSUME Nack(c) PROVE BrokerTypeOK' /\ job' \in [Copy -> Job] /\ JobsFit'
  BY <1>n, <1>h, NackInv
<1>1. CASE ProcessRead(c)
  <2>1. BrokerTypeOK' /\ job' \in [Copy -> Job] /\ JobsFit'
    BY <1>1, <1>g, <1>n DEF ProcessRead, MainJob
  <2>2. faults' \in 0 .. MaxFaults
    BY <1>1, FaultType DEF ProcessRead
  <2> QED
    BY <1>1, <2>1, <2>2 DEF ProcessRead, TypeOK
<1>2. CASE ProcessSave(c)
  <2>1. BrokerTypeOK' /\ job' \in [Copy -> Job] /\ JobsFit'
    BY <1>2, <1>g, <1>n DEF ProcessSave, MainJob
  <2>2. faults' \in 0 .. MaxFaults
    BY <1>2, FaultType DEF ProcessSave
  <2>3. row' \in [Notification -> Status \cup {"none"}]
           /\ events' \in [Notification -> SUBSET Event]
    BY <1>2, <1>s, SaveType DEF ProcessSave, Status
  <2> QED
    BY <1>2, <2>1, <2>2, <2>3 DEF ProcessSave, TypeOK
<1>3. CASE Send(c)
  <2>1. BrokerTypeOK' /\ job' \in [Copy -> Job] /\ JobsFit'
    BY <1>3, <1>g, <1>n DEF Send, MainJob
  <2>2. faults' \in 0 .. MaxFaults
    BY <1>3, FaultType DEF Send
  <2>3. delivered' \in [Notification -> Nat]
    BY <1>3, <1>s DEF Send, TypeOK
  <2>4. events' \in [Notification -> SUBSET Event]
    BY <1>3, <1>s DEF Send, Note, TypeOK, Event
  <2> QED
    BY <1>3, <2>1, <2>2, <2>3, <2>4 DEF Send, TypeOK
<1>4. CASE MarkSent(c)
  <2>1. BrokerTypeOK' /\ job' \in [Copy -> Job] /\ JobsFit'
    BY <1>4, <1>g, <1>n DEF MarkSent, MainJob
  <2>2. faults' \in 0 .. MaxFaults
    BY <1>4, FaultType DEF MarkSent
  <2>3. row' \in [Notification -> Status \cup {"none"}]
           /\ events' \in [Notification -> SUBSET Event]
    BY <1>4, <1>s, SaveType DEF MarkSent, Status
  <2> QED
    BY <1>4, <2>1, <2>2, <2>3 DEF MarkSent, TypeOK
<1>5. CASE AnnounceSent(c)
  <2>1. BrokerTypeOK' /\ job' \in [Copy -> Job] /\ JobsFit'
    BY <1>5, <1>g DEF AnnounceSent, MainJob
  <2>2. events' \in [Notification -> SUBSET Event]
    BY <1>5 DEF AnnounceSent, Note, TypeOK, Event
  <2> QED
    BY <1>5, <2>1, <2>2 DEF AnnounceSent, TypeOK
<1>6. CASE Acknowledge(c)
  <2>1. BrokerTypeOK' /\ job' \in [Copy -> Job] /\ JobsFit'
    BY <1>6, <1>h, AckInv DEF Acknowledge
  <2> QED
    BY <1>6, <2>1 DEF Acknowledge, TypeOK
<1> QED
  BY <1>1, <1>2, <1>3, <1>4, <1>5, <1>6

LEMMA DLQTInv ==
    ASSUME TInv, NEW c \in Copy,
           MarkFailure(c) \/ Retry(c) \/ Report(c) \/ AnnounceFailed(c)
    PROVE  TInv'
<1> USE DEF TInv
<1>h. job[c] # "idle"
  BY DEF MarkFailure, Retry, Report, AnnounceFailed
<1>s. Stored(c) /\ msg[c] \in Message /\ msg[c].id \in Notification
  BY <1>h, HandledCopy
<1>d. Discarding(c) \in SUBSET Event
  BY DEF Discarding, Event
<1>n. ASSUME Nack(c) PROVE BrokerTypeOK' /\ job' \in [Copy -> Job] /\ JobsFit'
  BY <1>n, <1>h, NackInv
<1>v. \A s : Verdict(s) \in Job \ MainJob /\ Verdict(s) # "retry"
               /\ Verdict(s) # "idle"
  BY DEF Verdict, Job, MainJob, DLQJob
<1>1. CASE MarkFailure(c)
  <2> DEFINE s == IF RetriesLeft(msg[c]) THEN "retrying" ELSE "failed"
             j == IF RetriesLeft(msg[c]) THEN "retry" ELSE "report"
  <2>1. \/ Save(msg[c].id, s, {}) /\ Succeeds /\ Goto(c, j)
        \/ SaveFails(msg[c].id, s, Discarding(c)) /\ Fails("database") /\ Nack(c)
    BY <1>1 DEF MarkFailure
  <2>2. s \in Status /\ j \in Job \ MainJob /\ (j = "retry" => RetriesLeft(msg[c]))
    BY DEF Status, Job, DLQJob, MainJob
  <2> HIDE DEF s, j
  <2>3. row' \in [Notification -> Status \cup {"none"}]
           /\ events' \in [Notification -> SUBSET Event]
    BY <2>1, <2>2, <1>s, <1>d, SaveType
  <2>4. BrokerTypeOK' /\ job' \in [Copy -> Job] /\ JobsFit'
    BY <2>1, <2>2, <1>s, <1>n, GotoInv
  <2>5. faults' \in 0 .. MaxFaults
    BY <2>1, FaultType
  <2> QED
    BY <1>1, <2>3, <2>4, <2>5 DEF MarkFailure, TypeOK
<1>2. CASE Retry(c)
  <2> DEFINE n == msg[c].id
  <2>1. CASE /\ PublishReturnsNil("retry", n, msg[c].retry + 1)
             /\ job' = [job EXCEPT ![c] = Verdict(row[n])]
    <3>1. msg[c].retry + 1 \in 0 .. MaxRetries
      BY <1>2, <1>s, MaxRetriesAssumption DEF Retry, JobsFit, RetriesLeft, Message
    <3>2. BrokerTypeOK' /\ faults' \in 0 .. MaxFaults
             /\ events' \in [Notification -> SUBSET Event]
             /\ \A d \in Copy : Stored(d) => msg'[d] = msg[d]
      BY <2>1, <3>1, <1>s, PublishInv DEF Queue
    <3>3. job' \in [Copy -> Job]
      BY <2>1, <1>v DEF TypeOK
    <3>4. JobsFit'
      BY <2>1, <3>2, <1>s, <1>v DEF JobsFit, MainJob, Stored, RetriesLeft, TypeOK
    <3> QED
      BY <1>2, <3>2, <3>3, <3>4 DEF Retry, TypeOK
  <2>2. CASE (Fails("database") \/ PublishFails) /\ Nack(c) /\ Note(n, Discarding(c))
    <3>1. events' \in [Notification -> SUBSET Event]
      BY <2>2, <1>d, <1>s DEF Note, TypeOK
    <3>2. faults' \in 0 .. MaxFaults
      BY <2>2, FaultType DEF PublishFails, TypeOK
    <3> QED
      BY <1>2, <2>2, <1>n, <3>1, <3>2 DEF Retry, TypeOK
  <2> QED
    BY <1>2, <2>1, <2>2 DEF Retry
<1>3. CASE Report(c)
  <2>1. BrokerTypeOK' /\ job' \in [Copy -> Job] /\ JobsFit'
    BY <1>3, <1>s, <1>n, <1>v, GotoInv DEF Report
  <2>2. faults' \in 0 .. MaxFaults
    BY <1>3, FaultType DEF Report
  <2> QED
    BY <1>3, <2>1, <2>2 DEF Report, TypeOK
<1>4. CASE AnnounceFailed(c)
  <2>1. "ack" \in Job \ MainJob
    BY DEF Job, MainJob
  <2>2. BrokerTypeOK' /\ job' \in [Copy -> Job] /\ JobsFit'
    BY <1>4, <1>s, <2>1, GotoInv DEF AnnounceFailed
  <2>3. events' \in [Notification -> SUBSET Event]
    BY <1>4 DEF AnnounceFailed, Note, TypeOK, Event
  <2> QED
    BY <1>4, <2>2, <2>3 DEF AnnounceFailed, TypeOK
<1> QED
  BY <1>1, <1>2, <1>3, <1>4

LEMMA TInvNext == TInv /\ [Next]_vars => TInv'
<1> SUFFICES ASSUME TInv, [Next]_vars PROVE TInv'
  OBVIOUS
<1>1. CASE UNCHANGED vars
  BY <1>1 DEF vars, TInv, TypeOK, BrokerTypeOK, JobsFit, Stored, RetriesLeft
<1>2. CASE Next
  BY <1>2, CreatorTInv, CancelTInv, TickerTInv, DeliveryTInv, MainTInv, DLQTInv,
     ProcessTInv
  DEF Next, Creator, Handle
<1> QED
  BY <1>1, <1>2

\* Every variable keeps its type; in particular no message on its way through the
\* queues ever carries an x-retry-count above WORKER_MAX_RETRIES.
THEOREM TypeCorrect == Spec => []TypeOK
<1>1. Spec => []TInv
  BY TInvInit, TInvNext, PTL DEF Spec
<1>2. TInv => TypeOK
  BY DEF TInv
<1> QED
  BY <1>1, <1>2, PTL

-----------------------------------------------------------------------------
(* Custody *)

Lost(n) == "lost" \in events[n]

\* What a status says of the history of its notification.
RowTrue ==
    \A n \in Notification :
        /\ row[n] \in {"queued", "processing", "retrying"} => published[n] > 0
        /\ row[n] = "sent" => delivered[n] > 0 \/ Lost(n)
        /\ row[n] \in {"cancelled", "failed"} => row[n] \in events[n]

MarkPublished ==
    /\ \A r \in Request : \A n \in creator[r].mark : published[n] > 0
    /\ \A n \in ticker.mark : published[n] > 0

CopyPublished == \A c \in Copy : Stored(c) => published[msg[c].id] > 0

SentDelivered ==
    \A c \in Copy : job[c] = "markSent" => delivered[msg[c].id] > 0 \/ Lost(msg[c].id)

PublishedKept ==
    \A n \in Notification :
        published[n] > 0 => Concluded(n) \/ Lost(n) \/ Carried(n)

LInv ==
    TInv /\ RowTrue /\ MarkPublished /\ CopyPublished /\ SentDelivered
         /\ PublishedKept

LEMMA LInvInit == Init => LInv
<1> SUFFICES ASSUME Init PROVE LInv
  OBVIOUS
<1>1. TInv
  BY TInvInit
<1>2. RowTrue /\ MarkPublished /\ CopyPublished /\ SentDelivered /\ PublishedKept
  BY DEF Init, BrokerInit, RowTrue, MarkPublished, CopyPublished, SentDelivered,
         PublishedKept, NoWork, Stored
<1> QED
  BY <1>1, <1>2 DEF LInv

LEMMA LInvImplies == LInv => NoNotificationLost
<1> SUFFICES ASSUME LInv, NEW n \in Notification, ~Lost(n), Accepted(n)
             PROVE  Concluded(n) \/ Recoverable(n) \/ Carried(n)
  BY DEF NoNotificationLost, Kept, Lost
<1>1. row[n] \in Status
  BY DEF LInv, TInv, TypeOK, Accepted
<1>2. CASE row[n] \in {"pending", "scheduled"}
  BY <1>2 DEF Recoverable
<1>3. CASE row[n] \in {"sent", "cancelled", "failed"}
  BY <1>3 DEF LInv, RowTrue, Concluded
<1>4. CASE row[n] \in {"queued", "processing", "retrying"}
  BY <1>4 DEF LInv, RowTrue, PublishedKept
<1> QED
  BY <1>1, <1>2, <1>3, <1>4 DEF Status

-----------------------------------------------------------------------------
(* What steps have in common *)

\* The histories only grow.
Grows ==
    \A n \in Notification :
        /\ published'[n] \in Nat /\ delivered'[n] \in Nat
        /\ published'[n] >= published[n]
        /\ delivered'[n] >= delivered[n]
        /\ events[n] \subseteq events'[n]

LEMMA NoteGrows ==
    ASSUME TInv, NEW n \in Notification, NEW what \in SUBSET Event, Note(n, what)
    PROVE  /\ \A m \in Notification : events[m] \subseteq events'[m]
           /\ what \subseteq events'[n]
BY DEF TInv, TypeOK, Note

\* A save changes one row, and the history of that notification says so.
LEMMA SaveFacts ==
    ASSUME TInv, NEW n \in Notification, NEW s \in Status, NEW what \in SUBSET Event,
           Save(n, s, what) \/ SaveFails(n, s, what)
    PROVE  /\ \A m \in Notification : events[m] \subseteq events'[m]
           /\ what \subseteq events'[n]
           /\ \A m \in Notification \ {n} : row'[m] = row[m]
           /\ row'[n] # row[n] => row'[n] = s
           /\ row'[n] # row[n] /\ s \in {"cancelled", "failed"} => s \in events'[n]
           /\ Save(n, s, what) => row'[n] = s
           /\ Save(n, s, what) /\ s \in {"cancelled", "failed"} => s \in events'[n]
<1>1. what \cup ({s} \cap {"cancelled", "failed"}) \in SUBSET Event
  BY DEF Event
<1>2. CASE Save(n, s, what)
  <2>1. /\ \A m \in Notification : events[m] \subseteq events'[m]
        /\ what \cup ({s} \cap {"cancelled", "failed"}) \subseteq events'[n]
    BY <1>1, <1>2, NoteGrows DEF Save
  <2>2. row'[n] = s /\ \A m \in Notification \ {n} : row'[m] = row[m]
    BY <1>2 DEF Save, TInv, TypeOK
  <2> QED
    BY <2>1, <2>2
<1>3. CASE row' = row /\ Note(n, what) /\ ~Save(n, s, what)
  BY <1>3, NoteGrows
<1> QED
  BY <1>2, <1>3 DEF SaveFails

\* The rows stay true when a save does not lie.
LEMMA SaveRowTrue ==
    ASSUME LInv, Grows, NEW n \in Notification, NEW s \in Status,
           NEW what \in SUBSET Event, Save(n, s, what) \/ SaveFails(n, s, what),
           s \in {"queued", "processing", "retrying"} => published[n] > 0,
           s = "sent" => delivered[n] > 0 \/ Lost(n)
    PROVE  RowTrue'
<1> SUFFICES ASSUME NEW m \in Notification
             PROVE  /\ row'[m] \in {"queued", "processing", "retrying"} => published'[m] > 0
                    /\ row'[m] = "sent" => delivered'[m] > 0 \/ Lost(m)'
                    /\ row'[m] \in {"cancelled", "failed"} => row'[m] \in events'[m]
  BY DEF RowTrue
<1>1. published[m] \in Nat /\ delivered[m] \in Nat
  BY DEF LInv, TInv, TypeOK
<1>2. CASE row'[m] = row[m]
  BY <1>1, <1>2 DEF LInv, RowTrue, Grows, Lost
<1>3. CASE row'[m] # row[m]
  <2>1. m = n /\ row'[m] = s /\ (s \in {"cancelled", "failed"} => s \in events'[n])
    BY <1>3, SaveFacts DEF LInv
  <2> QED
    BY <1>1, <2>1 DEF Grows, Lost
<1> QED
  BY <1>2, <1>3

\* Nothing happens to the copies.
LEMMA CopiesKept ==
    ASSUME LInv, Grows, UNCHANGED <<msg, job, published>>
    PROVE  CopyPublished' /\ SentDelivered' /\ PublishedKept'
<1>1. \A c \in Copy : job[c] = "markSent" => msg[c].id \in Notification
  BY HandledCopy DEF LInv
<1>2. \A n \in Notification : delivered[n] \in Nat
  BY DEF LInv, TInv, TypeOK
<1>3. SentDelivered'
  BY <1>1, <1>2 DEF LInv, SentDelivered, Grows, Lost
<1>4. \A n \in Notification : Carried(n)' <=> Carried(n)
  BY DEF Carried, Carrying, Stored
<1>5. PublishedKept'
  BY <1>2, <1>4 DEF LInv, PublishedKept, Concluded, Lost, Grows
<1>6. CopyPublished'
  BY DEF LInv, CopyPublished, Stored
<1> QED
  BY <1>3, <1>5, <1>6

\* Something happens to one copy: what it may still lead to is not forgotten.
LEMMA OneCopy ==
    ASSUME LInv, Grows, UNCHANGED published, NEW c \in Copy, Stored(c),
           NEW i \in Notification, i = msg[c].id,
           \A d \in Copy : d # c => msg'[d] = msg[d] /\ job'[d] = job[d],
           msg'[c] # NoMessage => msg'[c].id = i,
           job'[c] = "markSent" => msg'[c] # NoMessage /\ (delivered'[i] > 0 \/ Lost(i)'),
           \/ msg'[c] # NoMessage /\ job'[c] \notin Settling
           \/ ~Carrying(c)
           \/ Concluded(i)'
           \/ Lost(i)'
    PROVE  CopyPublished' /\ SentDelivered' /\ PublishedKept'
<1>1. \A d \in Copy : Stored(d) => msg[d].id \in Notification
  BY StoredType DEF LInv, TInv, Message
<1>2. \A n \in Notification : delivered[n] \in Nat
  BY DEF LInv, TInv, TypeOK
<1>3. \A d \in Copy : job[d] = "markSent" => Stored(d)
  BY DEF LInv, TInv, JobsFit
<1>4. SentDelivered'
  <2> SUFFICES ASSUME NEW d \in Copy, job'[d] = "markSent"
               PROVE  delivered'[msg'[d].id] > 0 \/ Lost(msg[d].id)'
    BY DEF SentDelivered, Lost
  <2> QED
    BY <1>1, <1>2, <1>3 DEF LInv, SentDelivered, Grows, Lost
<1>5. CopyPublished'
  BY DEF LInv, CopyPublished, Stored
<1>6. PublishedKept'
  <2> SUFFICES ASSUME NEW n \in Notification, published[n] > 0,
                      ~Concluded(n)', ~Lost(n)'
               PROVE  Carried(n)'
    BY DEF PublishedKept
  <2>1. ~Concluded(n) /\ ~Lost(n)
    BY <1>2 DEF Concluded, Lost, Grows
  <2>2. PICK d \in Copy : Carrying(d) /\ msg[d].id = n
    BY <2>1 DEF LInv, PublishedKept, Carried
  <2>3. Carrying(d)' /\ msg'[d].id = n
    <3>1. CASE d = c
      BY <2>2, <3>1 DEF Carrying, Stored
    <3>2. CASE d # c
      BY <2>2, <3>2 DEF Carrying, Stored
    <3> QED
      BY <3>1, <3>2
  <2> QED
    BY <2>3 DEF Carried
<1> QED
  BY <1>4, <1>5, <1>6

\* A publish that returns nil leaves its notification carried or lost.  Job'
\* may change only for copies of the same notification (Retry).
LEMMA PublishKeeps ==
    ASSUME LInv, NEW q \in Queue, NEW n \in Notification, NEW r \in 0 .. MaxRetries,
           PublishReturnsNil(q, n, r), UNCHANGED delivered,
           \A m \in Notification : published'[m] \in Nat /\ published'[m] >= published[m],
           \A m \in Notification \ {n} : published'[m] = published[m],
           published'[n] > 0,
           \A d \in Copy : job'[d] # job[d] =>
                            Stored(d) /\ msg[d].id = n /\ job'[d] # "markSent"
    PROVE  Grows /\ CopyPublished' /\ SentDelivered' /\ PublishedKept'
<1> DEFINE Rest == \A d \in Copy : Stored(d) => msg'[d] = msg[d]
<1>1. Rest
  BY PublishInv DEF LInv
<1>2. \A m \in Notification : published[m] \in Nat /\ delivered[m] \in Nat
  BY DEF LInv, TInv, TypeOK
<1>3. \A m \in Notification : published'[m] \in Nat /\ published'[m] >= published[m]
                                /\ (m # n => published'[m] = published[m])
  OBVIOUS
<1>4. \A m \in Notification : events[m] \subseteq events'[m]
  BY NoteGrows DEF PublishReturnsNil, PublishAccepted, PublishVanishes, LInv, Event
<1>5. Grows
  BY <1>2, <1>3, <1>4 DEF Grows
<1>6. \A d \in Copy : Stored(d) => msg[d].id \in Notification
  BY StoredType DEF LInv, TInv, Message
<1>7. \A d \in Copy : ~Stored(d) => job[d] = "idle" /\ job'[d] = "idle"
  BY DEF LInv, TInv, JobsFit
<1>8. SentDelivered'
  BY <1>1, <1>4, <1>6, <1>7 DEF LInv, SentDelivered, Lost
<1>9. ASSUME NEW m \in Notification, m # n, Carried(m) PROVE Carried(m)'
  <2>1. PICK d \in Copy : Carrying(d) /\ msg[d].id = m
    BY <1>9 DEF Carried
  <2>2. Carrying(d)' /\ msg'[d].id = m
    BY <1>1, <1>9, <2>1 DEF Carrying, Stored
  <2> QED
    BY <2>2 DEF Carried
<1>10. CASE PublishAccepted(q, n, r)
  <2>1. PICK e \in Copy : ~Stored(e) /\ msg' = [msg EXCEPT ![e] = Enqueued(q, n, r)]
    BY <1>10 DEF PublishAccepted
  <2>2. msg'[e] \in Message /\ msg'[e].id = n /\ Stored(e)'
    BY <2>1, EnqueuedType, NoMessageAssumption
    DEF Enqueued, LInv, TInv, TypeOK, BrokerTypeOK, Stored
  <2>3. Carried(n)'
    BY <1>7, <2>1, <2>2 DEF Carried, Carrying, Settling
  <2>4. CopyPublished'
    <3> SUFFICES ASSUME NEW d \in Copy, Stored(d)' PROVE published'[msg'[d].id] > 0
      BY DEF CopyPublished
    <3>1. CASE d = e
      BY <2>2, <3>1
    <3>2. CASE d # e
      <4>1. Stored(d) /\ msg'[d] = msg[d]
        BY <2>1, <3>2 DEF Stored, LInv, TInv, TypeOK, BrokerTypeOK
      <4> QED
        BY <1>2, <1>3, <1>6, <4>1 DEF LInv, CopyPublished
    <3> QED
      BY <3>1, <3>2
  <2>5. PublishedKept'
    <3> SUFFICES ASSUME NEW m \in Notification, m # n, published'[m] > 0
                 PROVE  Concluded(m)' \/ Lost(m)' \/ Carried(m)'
      BY <2>3 DEF PublishedKept
    <3>1. Concluded(m) \/ Lost(m) \/ Carried(m)
      BY <1>3 DEF LInv, PublishedKept
    <3> QED
      BY <1>4, <1>9, <3>1 DEF Concluded, Lost
  <2> QED
    BY <1>5, <1>8, <2>4, <2>5
<1>11. CASE PublishVanishes(n)
  <2>1. Lost(n)'
    BY <1>11, NoteGrows DEF PublishVanishes, Lost, LInv, Event
  <2>2. CopyPublished'
    BY <1>2, <1>3, <1>6, <1>11 DEF PublishVanishes, LInv, CopyPublished, Stored
  <2>3. PublishedKept'
    <3> SUFFICES ASSUME NEW m \in Notification, m # n, published'[m] > 0
                 PROVE  Concluded(m)' \/ Lost(m)' \/ Carried(m)'
      BY <2>1 DEF PublishedKept
    <3>1. Concluded(m) \/ Lost(m) \/ Carried(m)
      BY <1>3 DEF LInv, PublishedKept
    <3> QED
      BY <1>4, <1>9, <3>1 DEF Concluded, Lost
  <2> QED
    BY <1>5, <1>8, <2>2, <2>3
<1> QED
  BY <1>10, <1>11 DEF PublishReturnsNil

\* Rows are left alone.
LEMMA RowsKept ==
    ASSUME LInv, Grows, UNCHANGED row
    PROVE  RowTrue'
BY DEF LInv, TInv, TypeOK, RowTrue, Grows, Lost

\* Marks are left alone, or forgotten.
LEMMA MarksKept ==
    ASSUME LInv, Grows,
           \A r \in Request : creator'[r].mark \subseteq creator[r].mark,
           ticker'.mark \subseteq ticker.mark
    PROVE  MarkPublished'
<1>1. /\ \A r \in Request : creator[r].mark \subseteq Notification
      /\ ticker.mark \subseteq Notification
      /\ \A n \in Notification : published[n] \in Nat
  BY DEF LInv, TInv, TypeOK, Work
<1> QED
  BY <1>1 DEF LInv, MarkPublished, Grows

LEMMA StutterGrows ==
    ASSUME LInv, UNCHANGED <<published, delivered>>,
           \A n \in Notification : events[n] \subseteq events'[n]
    PROVE  Grows
BY DEF LInv, TInv, TypeOK, Grows

-----------------------------------------------------------------------------
(* One lemma per part of Next *)

LEMMA CreatorLInv ==
    ASSUME LInv, NEW r \in Request, CreateRows(r) \/ CreatorPublish(r) \/ CreatorMark(r)
    PROVE  LInv'
<1>t. TInv /\ TInv'
  BY CreatorTInv DEF LInv
<1>1. CASE CreateRows(r)
  <2>1. Grows
    BY <1>1, StutterGrows DEF CreateRows
  <2>2. RowTrue'
    <3>1. \A n \in Notification : row'[n] = row[n] \/ row'[n] \in {"pending", "scheduled"}
      BY <1>1 DEF CreateRows
    <3> QED
      BY <1>1, <3>1 DEF CreateRows, LInv, RowTrue, Lost
  <2>3. MarkPublished'
    <3>1. \A q \in Request : creator'[q].mark \subseteq creator[q].mark
      BY <1>t, <1>1 DEF CreateRows, TInv, TypeOK, Work
    <3> QED
      BY <1>1, <2>1, <3>1, MarksKept DEF CreateRows
  <2>4. CopyPublished' /\ SentDelivered' /\ PublishedKept'
    BY <1>1, <2>1, CopiesKept DEF CreateRows
  <2> QED
    BY <1>t, <2>2, <2>3, <2>4 DEF LInv
<1>2. CASE CreatorPublish(r)
  <2>p. PICK n \in creator[r].publish :
         \/ /\ PublishReturnsNil("main", n, 0)
            /\ published' = [published EXCEPT ![n] = @ + 1]
            /\ creator' = [creator EXCEPT ![r].publish = @ \ {n},
                                          ![r].mark = @ \cup {n}]
         \/ /\ PublishFails
            /\ creator' = [creator EXCEPT ![r] = AfterFailedPublish(@, n)]
            /\ UNCHANGED <<msg, published, events>>
    BY <1>2 DEF CreatorPublish
  <2>n. n \in Notification
    BY <2>p, <1>t DEF TInv, TypeOK, Work
  <2>1. CASE /\ PublishReturnsNil("main", n, 0)
             /\ published' = [published EXCEPT ![n] = @ + 1]
             /\ creator' = [creator EXCEPT ![r].publish = @ \ {n},
                                           ![r].mark = @ \cup {n}]
    <3>1. published'[n] > 0
      BY <1>t, <2>1, <2>n DEF TInv, TypeOK
    <3>2. Grows /\ CopyPublished' /\ SentDelivered' /\ PublishedKept'
      <4>1. "main" \in Queue /\ 0 \in 0 .. MaxRetries
        BY MaxRetriesAssumption DEF Queue
      <4>2. /\ PublishReturnsNil("main", n, 0) /\ delivered' = delivered
            /\ \A d \in Copy : job'[d] # job[d] =>
                            Stored(d) /\ msg[d].id = n /\ job'[d] # "markSent"
            /\ \A m \in Notification :
                  published'[m] \in Nat /\ published'[m] >= published[m]
            /\ \A m \in Notification \ {n} : published'[m] = published[m]
        <5>1. delivered' = delivered /\ job' = job
          BY <1>2 DEF CreatorPublish
        <5>2. \A m \in Notification : published[m] \in Nat
          BY <1>t DEF TInv, TypeOK
        <5>3. published' = [published EXCEPT ![n] = @ + 1]
                 /\ published \in [Notification -> Nat]
          BY <1>t, <2>1 DEF TInv, TypeOK
        <5> QED
          BY <2>1, <2>n, <5>1, <5>2, <5>3
      <4> QED
        BY <2>n, <3>1, <4>1, <4>2, PublishKeeps
    <3>3. RowTrue'
      BY <1>2, <3>2, RowsKept DEF CreatorPublish
    <3>4. MarkPublished'
      <4>1. \A q \in Request : creator'[q].mark \subseteq creator[q].mark \cup {n}
        BY <1>t, <2>1 DEF TInv, TypeOK, Work
      <4>2. /\ \A q \in Request : creator[q].mark \subseteq Notification
            /\ ticker.mark \subseteq Notification /\ ticker' = ticker
            /\ \A m \in Notification : published[m] \in Nat
        BY <1>t, <1>2 DEF CreatorPublish, TInv, TypeOK, Work
      <4> QED
        BY <2>n, <3>1, <3>2, <4>1, <4>2 DEF LInv, MarkPublished, Grows
    <3> QED
      BY <1>t, <3>2, <3>3, <3>4 DEF LInv
  <2>2. CASE /\ PublishFails
             /\ creator' = [creator EXCEPT ![r] = AfterFailedPublish(@, n)]
             /\ UNCHANGED <<msg, published, events>>
    <3>1. Grows
      BY <1>2, <2>2, StutterGrows DEF CreatorPublish
    <3>2. CopyPublished' /\ SentDelivered' /\ PublishedKept' /\ RowTrue'
      BY <1>2, <2>2, <3>1, CopiesKept, RowsKept DEF CreatorPublish
    <3>3. \A q \in Request : creator'[q].mark \subseteq creator[q].mark
      BY <1>t, <2>2 DEF AfterFailedPublish, NoWork, TInv, TypeOK
    <3>4. MarkPublished'
      BY <1>2, <3>1, <3>3, MarksKept DEF CreatorPublish
    <3> QED
      BY <1>t, <3>2, <3>4 DEF LInv
  <2> QED
    BY <2>p, <2>1, <2>2
<1>3. CASE CreatorMark(r)
  <2> PICK n \in creator[r].mark :
         /\ \/ Save(n, "queued", {}) /\ UNCHANGED faults
            \/ SaveFails(n, "queued", {}) /\ Fault("database")
         /\ creator' = [creator EXCEPT ![r].mark = @ \ {n}]
    BY <1>3 DEF CreatorMark
  <2>n. n \in Notification /\ published[n] > 0
    BY <1>t DEF TInv, TypeOK, Work, LInv, MarkPublished
  <2>1. Grows
    BY <1>t, <1>3, <2>n, SaveFacts, StutterGrows DEF CreatorMark, Status
  <2>2. RowTrue'
    BY <2>1, <2>n, SaveRowTrue DEF Status
  <2>3. CopyPublished' /\ SentDelivered' /\ PublishedKept'
    BY <1>3, <2>1, CopiesKept DEF CreatorMark
  <2>4. MarkPublished'
    <3>1. \A q \in Request : creator'[q].mark \subseteq creator[q].mark
      BY <1>t DEF TInv, TypeOK, Work
    <3> QED
      BY <1>3, <2>1, <3>1, MarksKept DEF CreatorMark
  <2> QED
    BY <1>t, <2>2, <2>3, <2>4 DEF LInv
<1> QED
  BY <1>1, <1>2, <1>3

LEMMA CancelLInv ==
    ASSUME LInv, NEW n \in Notification, CancelRead(n) \/ CancelSave(n) \/ Ripen(n)
    PROVE  LInv'
<1>t. TInv /\ TInv'
  BY CancelTInv DEF LInv
<1>1. CASE CancelRead(n) \/ Ripen(n)
  <2>1. Grows
    BY <1>1, StutterGrows DEF CancelRead, Ripen
  <2>2. RowTrue' /\ MarkPublished'
    BY <1>1, <2>1, RowsKept, MarksKept DEF CancelRead, Ripen
  <2>3. CopyPublished' /\ SentDelivered' /\ PublishedKept'
    BY <1>1, <2>1, CopiesKept DEF CancelRead, Ripen
  <2> QED
    BY <1>t, <2>2, <2>3 DEF LInv
<1>2. CASE CancelSave(n)
  <2>1. Grows
    BY <1>t, <1>2, SaveFacts, StutterGrows DEF CancelSave, Status
  <2>2. RowTrue'
    BY <1>2, <2>1, SaveRowTrue DEF CancelSave, Status
  <2>3. CopyPublished' /\ SentDelivered' /\ PublishedKept' /\ MarkPublished'
    BY <1>2, <2>1, CopiesKept, MarksKept DEF CancelSave
  <2> QED
    BY <1>t, <2>2, <2>3 DEF LInv
<1> QED
  BY <1>1, <1>2

LEMMA TickerLInv ==
    ASSUME LInv, Ticker
    PROVE  LInv'
<1>t. TInv /\ TInv'
  BY TickerTInv DEF LInv
<1>1. ASSUME NEW s \in {"pending", "scheduled"}, TickerRead(s) PROVE LInv'
  <2>1. Grows
    BY <1>1, StutterGrows DEF TickerRead
  <2>2. RowTrue' /\ CopyPublished' /\ SentDelivered' /\ PublishedKept'
    BY <1>1, <2>1, RowsKept, CopiesKept DEF TickerRead
  <2>3. MarkPublished'
    BY <1>1, <2>1, MarksKept DEF TickerRead, NoWork
  <2> QED
    BY <1>t, <2>2, <2>3 DEF LInv
<1>2. CASE TickerPublish
  <2>p. PICK n \in ticker.publish :
         \/ /\ PublishReturnsNil("main", n, 0)
            /\ published' = [published EXCEPT ![n] = @ + 1]
            /\ ticker' = [publish |-> ticker.publish \ {n}, mark |-> {n}]
         \/ /\ PublishFails
            /\ ticker' = AfterFailedRepublish(n)
            /\ UNCHANGED <<msg, published, events>>
    BY <1>2 DEF TickerPublish
  <2>n. n \in Notification
    BY <2>p, <1>t DEF TInv, TypeOK, Work
  <2>1. CASE /\ PublishReturnsNil("main", n, 0)
             /\ published' = [published EXCEPT ![n] = @ + 1]
             /\ ticker' = [publish |-> ticker.publish \ {n}, mark |-> {n}]
    <3>1. published'[n] > 0
      BY <1>t, <2>1, <2>n DEF TInv, TypeOK
    <3>2. Grows /\ CopyPublished' /\ SentDelivered' /\ PublishedKept'
      <4>1. "main" \in Queue /\ 0 \in 0 .. MaxRetries
        BY MaxRetriesAssumption DEF Queue
      <4>2. /\ PublishReturnsNil("main", n, 0) /\ delivered' = delivered
            /\ \A d \in Copy : job'[d] # job[d] =>
                            Stored(d) /\ msg[d].id = n /\ job'[d] # "markSent"
            /\ \A m \in Notification :
                  published'[m] \in Nat /\ published'[m] >= published[m]
            /\ \A m \in Notification \ {n} : published'[m] = published[m]
        <5>1. delivered' = delivered /\ job' = job
          BY <1>2 DEF TickerPublish
        <5>2. \A m \in Notification : published[m] \in Nat
          BY <1>t DEF TInv, TypeOK
        <5>3. published' = [published EXCEPT ![n] = @ + 1]
                 /\ published \in [Notification -> Nat]
          BY <1>t, <2>1 DEF TInv, TypeOK
        <5> QED
          BY <2>1, <2>n, <5>1, <5>2, <5>3
      <4> QED
        BY <2>n, <3>1, <4>1, <4>2, PublishKeeps
    <3>3. RowTrue'
      BY <1>2, <3>2, RowsKept DEF TickerPublish
    <3>4. MarkPublished'
      <4>1. /\ \A q \in Request : creator[q].mark \subseteq Notification
            /\ creator' = creator /\ ticker'.mark = {n}
            /\ \A m \in Notification : published[m] \in Nat
        BY <1>t, <1>2, <2>1 DEF TickerPublish, TInv, TypeOK, Work
      <4> QED
        BY <2>n, <3>1, <3>2, <4>1 DEF LInv, MarkPublished, Grows
    <3> QED
      BY <1>t, <3>2, <3>3, <3>4 DEF LInv
  <2>2. CASE /\ PublishFails
             /\ ticker' = AfterFailedRepublish(n)
             /\ UNCHANGED <<msg, published, events>>
    <3>1. Grows
      BY <1>2, <2>2, StutterGrows DEF TickerPublish
    <3>2. CopyPublished' /\ SentDelivered' /\ PublishedKept' /\ RowTrue'
      BY <1>2, <2>2, <3>1, CopiesKept, RowsKept DEF TickerPublish
    <3>3. ticker'.mark \subseteq ticker.mark
      BY <1>t, <2>2 DEF AfterFailedRepublish, TInv, TypeOK, Work
    <3>4. MarkPublished'
      BY <1>2, <3>1, <3>3, MarksKept DEF TickerPublish
    <3> QED
      BY <1>t, <3>2, <3>4 DEF LInv
  <2> QED
    BY <2>p, <2>1, <2>2
<1>3. CASE TickerMark
  <2> PICK n \in ticker.mark :
         \/ Save(n, "queued", {}) /\ Succeeds
         \/ SaveFails(n, "queued", {}) /\ Fails("database")
    BY <1>3 DEF TickerMark
  <2>n. n \in Notification /\ published[n] > 0
    BY <1>t DEF TInv, TypeOK, Work, LInv, MarkPublished
  <2>1. Grows
    BY <1>t, <1>3, <2>n, SaveFacts, StutterGrows DEF TickerMark, Status
  <2>2. RowTrue'
    BY <2>1, <2>n, SaveRowTrue DEF Status
  <2>3. CopyPublished' /\ SentDelivered' /\ PublishedKept'
    BY <1>3, <2>1, CopiesKept DEF TickerMark
  <2>4. MarkPublished'
    <3>1. ticker'.mark \subseteq ticker.mark
      BY <1>t, <1>3 DEF TickerMark, TInv, TypeOK, Work
    <3> QED
      BY <1>3, <2>1, <3>1, MarksKept DEF TickerMark
  <2> QED
    BY <1>t, <2>2, <2>3, <2>4 DEF LInv
<1> QED
  BY <1>1, <1>2, <1>3 DEF Ticker

\* Deliveries and expiry: the copy stays, and nothing ends its job.
LEMMA DeliveryLInv ==
    ASSUME LInv, NEW c \in Copy, DeliverMain(c) \/ DeliverDLQ(c) \/ BrokerExpire(c)
    PROVE  LInv'
<1>t. TInv /\ TInv'
  BY DeliveryTInv DEF LInv
<1>s. Stored(c) /\ msg[c] \in Message /\ msg[c].id \in Notification
  BY <1>t, StoredType DEF DeliverMain, DeliverDLQ, BrokerExpire, Expire, TInv, Message
<1>1. Grows
  BY StutterGrows DEF DeliverMain, DeliverDLQ, Take, BrokerExpire
<1>2. RowTrue' /\ MarkPublished'
  BY <1>1, RowsKept, MarksKept DEF DeliverMain, DeliverDLQ, Take, BrokerExpire
<1>3. CASE DeliverMain(c) \/ DeliverDLQ(c)
  <2>1. PICK j \in {"read", "mark"} : Take(c, j)
    BY <1>3 DEF DeliverMain, DeliverDLQ
  <2>2. msg'[c] \in Message /\ msg'[c].id = msg[c].id /\ job'[c] = j
           /\ \A d \in Copy : d # c => msg'[d] = msg[d] /\ job'[d] = job[d]
    BY <1>t, <1>s, <2>1 DEF Take, TInv, TypeOK, BrokerTypeOK, Message
  <2>3. msg'[c] # NoMessage /\ job'[c] # "markSent" /\ job'[c] \notin Settling
           /\ published' = published
    BY <2>1, <2>2, NoMessageAssumption DEF Settling, Take
  <2>4. CopyPublished' /\ SentDelivered' /\ PublishedKept'
    BY <1>1, <1>s, <2>2, <2>3, OneCopy
  <2> QED
    BY <1>t, <1>2, <2>4 DEF LInv
<1>4. CASE BrokerExpire(c)
  <2>1. DeadLettered(msg[c]) \in Message /\ DeadLettered(msg[c]).id = msg[c].id
    BY <1>4, <1>s DEF BrokerExpire, Expire, DeadLettered, Message, Queue
  <2>2. msg'[c] # NoMessage /\ msg'[c].id = msg[c].id /\ published' = published
           /\ job'[c] = job[c]
           /\ \A d \in Copy : d # c => msg'[d] = msg[d] /\ job'[d] = job[d]
    BY <1>t, <1>4, <2>1, NoMessageAssumption
    DEF BrokerExpire, Expire, TInv, TypeOK, BrokerTypeOK
  <2>3. job[c] # "markSent"
    BY <1>4, <1>t DEF BrokerExpire, Expire, TInv, JobsFit, MainJob
  <2>4. CASE job[c] \in Settling
    <3>1. ~Carrying(c)
      BY <2>4 DEF Carrying
    <3>2. CopyPublished' /\ SentDelivered' /\ PublishedKept'
      BY <1>1, <1>s, <2>2, <2>3, <3>1, OneCopy
    <3> QED
      BY <1>t, <1>2, <3>2 DEF LInv
  <2>5. CASE job[c] \notin Settling
    <3>1. CopyPublished' /\ SentDelivered' /\ PublishedKept'
      BY <1>1, <1>s, <2>2, <2>3, <2>5, OneCopy
    <3> QED
      BY <1>t, <1>2, <3>1 DEF LInv
  <2> QED
    BY <2>4, <2>5
<1> QED
  BY <1>3, <1>4

\* What Goto and Nack do to the copy in hand.
LEMMA GotoFacts ==
    ASSUME TInv, NEW c \in Copy, job[c] # "idle", NEW j \in Job, Goto(c, j)
    PROVE  /\ msg'[c] # NoMessage /\ msg'[c].id = msg[c].id /\ job'[c] = j
           /\ \A d \in Copy : d # c => msg'[d] = msg[d] /\ job'[d] = job[d]
BY HandledCopy DEF Goto, Stored, TInv, TypeOK

LEMMA SettleFacts ==
    ASSUME TInv, NEW c \in Copy, job[c] # "idle",
           NEW m \in Message \cup {NoMessage}, m # NoMessage => m.id = msg[c].id,
           Settle(c, m)
    PROVE  /\ job'[c] = "idle"
           /\ msg'[c] # NoMessage => msg'[c].id = msg[c].id
           /\ m # NoMessage \/ app = "cut" => msg'[c] # NoMessage
           /\ \A d \in Copy : d # c => msg'[d] = msg[d] /\ job'[d] = job[d]
<1>1. msg[c] \in Message
  BY HandledCopy
<1>2. Requeued(msg[c]) \in Message /\ Requeued(msg[c]).id = msg[c].id
  BY <1>1, RequeuedType
<1> QED
  BY <1>2, NoMessageAssumption DEF Settle, TInv, TypeOK, BrokerTypeOK

\* After a nack the copy waits in the DLQ, or it came from there.
LEMMA NackFacts ==
    ASSUME TInv, NEW c \in Copy, job[c] # "idle", Nack(c)
    PROVE  /\ job'[c] = "idle"
           /\ msg'[c] # NoMessage => msg'[c].id = msg[c].id
           /\ msg'[c] # NoMessage \/ Discarding(c) = {"lost"}
           /\ msg[c].queue = "main" => msg'[c] # NoMessage
           /\ \A d \in Copy : d # c => msg'[d] = msg[d] /\ job'[d] = job[d]
<1>1. msg[c] \in Message
  BY HandledCopy
<1>2. /\ DeadLettered(msg[c]) \in Message \cup {NoMessage}
      /\ DeadLettered(msg[c]) # NoMessage => DeadLettered(msg[c]).id = msg[c].id
      /\ msg[c].queue # "dlq" => DeadLettered(msg[c]) # NoMessage
  <2>1. CASE msg[c].queue = "dlq"
    BY <2>1 DEF DeadLettered
  <2>2. CASE msg[c].queue # "dlq"
    BY <1>1, <2>2, NoMessageAssumption DEF DeadLettered, Message, Queue
  <2> QED
    BY <2>1, <2>2
<1>3. Settle(c, DeadLettered(msg[c]))
  BY DEF Nack
<1> QED
  BY <1>1, <1>2, <1>3, SettleFacts DEF Discarding

\* A main handler's nack leaves its copy with the broker.
LEMMA MainNack ==
    ASSUME LInv, Grows, UNCHANGED published, NEW c \in Copy, job[c] \in MainJob, Nack(c)
    PROVE  CopyPublished' /\ SentDelivered' /\ PublishedKept'
<1>1. job[c] # "idle" /\ TInv /\ msg[c].queue = "main"
  BY DEF MainJob, LInv, TInv, JobsFit
<1>2. Stored(c) /\ msg[c].id \in Notification
  BY <1>1, HandledCopy
<1>3. /\ job'[c] = "idle" /\ msg'[c] # NoMessage /\ msg'[c].id = msg[c].id
      /\ \A d \in Copy : d # c => msg'[d] = msg[d] /\ job'[d] = job[d]
  BY <1>1, NackFacts
<1>4. job'[c] \notin Settling /\ job'[c] # "markSent"
  BY <1>3 DEF Settling
<1> QED
  BY <1>2, <1>3, <1>4, OneCopy

LEMMA MainLInv ==
    ASSUME LInv, NEW c \in Copy,
           \/ ProcessRead(c) \/ ProcessSave(c) \/ Send(c) \/ MarkSent(c)
           \/ AnnounceSent(c) \/ Acknowledge(c)
    PROVE  LInv'
<1> DEFINE CopiesRight == CopyPublished' /\ SentDelivered' /\ PublishedKept'
<1>t. TInv /\ TInv'
  BY MainTInv DEF LInv
<1>h. job[c] # "idle"
  BY DEF ProcessRead, ProcessSave, Send, MarkSent, AnnounceSent, Acknowledge
<1> PICK n \in Notification : n = msg[c].id
  BY <1>t, <1>h, HandledCopy
<1>s. Stored(c) /\ n \in Notification /\ published[n] > 0
  BY <1>t, <1>h, HandledCopy DEF LInv, CopyPublished
<1>d. \A m \in Notification : delivered[m] \in Nat
  BY <1>t DEF TInv, TypeOK
\* Going on to a step that is not a settling one, or from one to the next.
<1>g. ASSUME Grows, UNCHANGED published, NEW j \in Job, Goto(c, j),
             j = "markSent" => delivered'[n] > 0 \/ Lost(n)',
             j \notin Settling \/ job[c] \in Settling \/ Concluded(n)' \/ Lost(n)'
      PROVE  CopiesRight
  <2>1. /\ msg'[c] # NoMessage /\ msg'[c].id = n /\ job'[c] = j
        /\ \A d \in Copy : d # c => msg'[d] = msg[d] /\ job'[d] = job[d]
    BY <1>g, <1>t, <1>h, GotoFacts
  <2>2. job[c] \in Settling => ~Carrying(c)
    BY DEF Carrying
  <2> QED
    BY <1>g, <1>s, <2>1, <2>2, OneCopy
<1>1. CASE ProcessRead(c)
  <2>1. Grows
    BY <1>1, StutterGrows DEF ProcessRead
  <2>2. RowTrue' /\ MarkPublished'
    BY <1>1, <2>1, RowsKept, MarksKept DEF ProcessRead
  <2>3. CASE row[n] \in Skipped /\ Goto(c, "ack")
    <3>1. Concluded(n) \/ Lost(n)
      BY <1>s, <2>3 DEF Skipped, LInv, RowTrue, Concluded
    <3>2. Concluded(n)' \/ Lost(n)'
      BY <1>1, <1>s, <2>3, <3>1 DEF ProcessRead, Goto, Concluded, Lost
    <3>3. CopiesRight
      BY <1>1, <1>g, <2>1, <2>3, <3>2 DEF ProcessRead, Job
    <3> QED
      BY <1>t, <2>2, <3>3 DEF LInv
  <2>4. CASE Goto(c, "save")
    <3>1. CopiesRight
      BY <1>1, <1>g, <2>1, <2>4 DEF ProcessRead, Job, MainJob, Settling
    <3> QED
      BY <1>t, <2>2, <3>1 DEF LInv
  <2>5. CASE Nack(c)
    <3>1. CopiesRight
      BY <1>1, <2>1, <2>5, MainNack DEF ProcessRead, MainJob
    <3> QED
      BY <1>t, <2>2, <3>1 DEF LInv
  <2> QED
    BY <1>1, <2>3, <2>4, <2>5 DEF ProcessRead
<1>2. CASE ProcessSave(c)
  <2>1. Save(n, "processing", {}) \/ SaveFails(n, "processing", {})
    BY <1>2 DEF ProcessSave
  <2>2. Grows
    BY <1>t, <1>s, <1>2, <2>1, SaveFacts, StutterGrows DEF ProcessSave, Status
  <2>3. RowTrue' /\ MarkPublished'
    BY <1>s, <1>2, <2>1, <2>2, SaveRowTrue, MarksKept DEF ProcessSave, Status
  <2>4. CASE Goto(c, "send")
    <3>1. CopiesRight
      BY <1>2, <1>g, <2>2, <2>4 DEF ProcessSave, Job, MainJob, Settling
    <3> QED
      BY <1>t, <2>3, <3>1 DEF LInv
  <2>5. CASE Nack(c)
    <3>1. CopiesRight
      BY <1>2, <2>2, <2>5, MainNack DEF ProcessSave, MainJob
    <3> QED
      BY <1>t, <2>3, <3>1 DEF LInv
  <2> QED
    BY <1>2, <2>4, <2>5 DEF ProcessSave
<1>3. CASE Send(c)
  <2>1. Grows
    <3>1. delivered' = delivered \/ delivered' = [delivered EXCEPT ![n] = @ + 1]
      BY <1>3 DEF Send
    <3>2. \A m \in Notification : delivered'[m] \in Nat /\ delivered'[m] >= delivered[m]
      BY <1>t, <1>s, <3>1 DEF TInv, TypeOK
    <3>3. \A m \in Notification : events[m] \subseteq events'[m]
      BY <1>t, <1>s, <1>3, NoteGrows DEF Send, Event
    <3> QED
      BY <1>t, <1>3, <3>2, <3>3 DEF Send, Grows, TInv, TypeOK
  <2>2. RowTrue' /\ MarkPublished'
    BY <1>3, <2>1, RowsKept, MarksKept DEF Send
  <2>3. CASE Goto(c, "markSent") /\ delivered' = [delivered EXCEPT ![n] = @ + 1]
    <3>1. delivered'[n] > 0
      BY <1>t, <1>s, <2>3 DEF TInv, TypeOK
    <3>2. Concluded(n)'
      BY <2>3, <3>1 DEF Concluded, Goto
    <3>3. CopiesRight
      BY <1>3, <1>g, <2>1, <2>3, <3>1, <3>2 DEF Send, Job, MainJob
    <3> QED
      BY <1>t, <2>2, <3>3 DEF LInv
  <2>4. CASE Goto(c, "send")
    <3>1. CopiesRight
      BY <1>3, <1>g, <2>1, <2>4 DEF Send, Job, MainJob, Settling
    <3> QED
      BY <1>t, <2>2, <3>1 DEF LInv
  <2>5. CASE Nack(c)
    <3>1. CopiesRight
      BY <1>3, <2>1, <2>5, MainNack DEF Send, MainJob
    <3> QED
      BY <1>t, <2>2, <3>1 DEF LInv
  <2>6. CASE Goto(c, "markSent") /\ Note(n, {"lost"})
    <3>1. Lost(n)'
      BY <1>t, <1>s, <2>6, NoteGrows DEF Lost, Event
    <3>2. CopiesRight
      BY <1>3, <1>g, <2>1, <2>6, <3>1 DEF Send, Job, MainJob
    <3> QED
      BY <1>t, <2>2, <3>2 DEF LInv
  <2> QED
    BY <1>3, <2>3, <2>4, <2>5, <2>6 DEF Send
<1>4. CASE MarkSent(c)
  <2>0. delivered[n] > 0 \/ Lost(n)
    BY <1>4 DEF MarkSent, LInv, SentDelivered
  <2>1. Save(n, "sent", {}) \/ SaveFails(n, "sent", {})
    BY <1>4 DEF MarkSent
  <2>2. Grows
    BY <1>t, <1>s, <1>4, <2>1, SaveFacts, StutterGrows DEF MarkSent, Status
  <2>3. RowTrue' /\ MarkPublished'
    BY <1>s, <1>4, <2>0, <2>1, <2>2, SaveRowTrue, MarksKept DEF MarkSent, Status
  <2>4. CASE Goto(c, "announceSent")
    <3>1. CopiesRight
      BY <1>4, <1>g, <2>2, <2>4 DEF MarkSent, Job, MainJob, Settling
    <3> QED
      BY <1>t, <2>3, <3>1 DEF LInv
  <2>5. CASE Nack(c)
    <3>1. CopiesRight
      BY <1>4, <2>2, <2>5, MainNack DEF MarkSent, MainJob
    <3> QED
      BY <1>t, <2>3, <3>1 DEF LInv
  <2> QED
    BY <1>4, <2>4, <2>5 DEF MarkSent
<1>5. CASE AnnounceSent(c)
  <2>1. Grows
    BY <1>t, <1>s, <1>5, NoteGrows, StutterGrows DEF AnnounceSent, Event
  <2>2. RowTrue' /\ MarkPublished'
    BY <1>5, <2>1, RowsKept, MarksKept DEF AnnounceSent
  <2>3. CopiesRight
    BY <1>5, <1>g, <2>1 DEF AnnounceSent, Job, Settling
  <2> QED
    BY <1>t, <2>2, <2>3 DEF LInv
<1>6. CASE Acknowledge(c)
  <2>1. Grows
    BY <1>6, StutterGrows DEF Acknowledge
  <2>2. RowTrue' /\ MarkPublished'
    BY <1>6, <2>1, RowsKept, MarksKept DEF Acknowledge
  <2>3. ~Carrying(c)
    BY <1>6 DEF Acknowledge, Carrying, Settling
  <2>4. /\ job'[c] = "idle"
        /\ msg'[c] # NoMessage => msg'[c].id = msg[c].id
        /\ \A d \in Copy : d # c => msg'[d] = msg[d] /\ job'[d] = job[d]
    BY <1>t, <1>h, <1>6, SettleFacts DEF Acknowledge, Ack
  <2>5. CopiesRight
    BY <1>6, <1>s, <2>1, <2>3, <2>4, OneCopy DEF Acknowledge
  <2> QED
    BY <1>t, <2>2, <2>5 DEF LInv
<1> QED
  BY <1>1, <1>2, <1>3, <1>4, <1>5, <1>6

LEMMA DLQLInv ==
    ASSUME LInv, NEW c \in Copy,
           MarkFailure(c) \/ Retry(c) \/ Report(c) \/ AnnounceFailed(c)
    PROVE  LInv'
<1> DEFINE CopiesRight == CopyPublished' /\ SentDelivered' /\ PublishedKept'
<1>t. TInv /\ TInv'
  BY DLQTInv DEF LInv
<1>h. job[c] # "idle"
  BY DEF MarkFailure, Retry, Report, AnnounceFailed
<1> PICK n \in Notification : n = msg[c].id
  BY <1>t, <1>h, HandledCopy
<1>s. Stored(c) /\ msg[c] \in Message /\ published[n] > 0
  BY <1>t, <1>h, HandledCopy DEF LInv, CopyPublished
<1>d. Discarding(c) \in SUBSET Event
  BY DEF Discarding, Event
<1>g. ASSUME Grows, UNCHANGED published, NEW j \in Job, Goto(c, j), j # "markSent",
             j \notin Settling \/ job[c] \in Settling \/ Concluded(n)'
      PROVE  CopiesRight
  <2>1. /\ msg'[c] # NoMessage /\ msg'[c].id = n /\ job'[c] = j
        /\ \A d \in Copy : d # c => msg'[d] = msg[d] /\ job'[d] = job[d]
    BY <1>g, <1>t, <1>h, GotoFacts
  <2>2. job[c] \in Settling => ~Carrying(c)
    BY DEF Carrying
  <2> QED
    BY <1>g, <1>s, <2>1, <2>2, OneCopy
\* A nack from the DLQ discards the copy, and the history says so.
<1>n. ASSUME Grows, UNCHANGED published, Nack(c),
             job[c] \in Settling \/ Discarding(c) \subseteq events'[n]
      PROVE  CopiesRight
  <2>1. /\ job'[c] = "idle" /\ (msg'[c] # NoMessage => msg'[c].id = n)
        /\ msg'[c] # NoMessage \/ Discarding(c) = {"lost"}
        /\ \A d \in Copy : d # c => msg'[d] = msg[d] /\ job'[d] = job[d]
    BY <1>n, <1>t, <1>h, NackFacts
  <2>2. job'[c] # "markSent" /\ job'[c] \notin Settling
    BY <2>1 DEF Settling
  <2>3. job[c] \in Settling => ~Carrying(c)
    BY DEF Carrying
  <2>4. Discarding(c) = {"lost"} /\ Discarding(c) \subseteq events'[n] => Lost(n)'
    BY DEF Lost
  <2> QED
    BY <1>n, <1>s, <2>1, <2>2, <2>3, <2>4, OneCopy
<1>1. CASE MarkFailure(c)
  <2> DEFINE s == IF RetriesLeft(msg[c]) THEN "retrying" ELSE "failed"
             j == IF RetriesLeft(msg[c]) THEN "retry" ELSE "report"
  <2>1. \/ Save(n, s, {}) /\ Goto(c, j)
        \/ SaveFails(n, s, Discarding(c)) /\ Nack(c)
    BY <1>1 DEF MarkFailure
  <2>2. s \in {"retrying", "failed"} /\ s \in Status /\ j \in Job /\ j # "markSent"
           /\ (s = "retrying" => j \notin Settling)
    BY DEF Status, Job, DLQJob, Settling
  <2> HIDE DEF s, j
  <2>3. \A m \in Notification : events[m] \subseteq events'[m]
    BY <1>t, <1>d, <2>1, <2>2, SaveFacts
  <2>4. Grows
    BY <1>1, <2>3, StutterGrows DEF MarkFailure
  <2>5. RowTrue'
    BY <1>s, <1>d, <2>1, <2>2, <2>4, SaveRowTrue
  <2>6. MarkPublished'
    BY <1>1, <2>4, MarksKept DEF MarkFailure
  <2>7. CASE Save(n, s, {}) /\ Goto(c, j)
    <3>1. s = "failed" => "failed" \in events'[n]
      BY <1>t, <1>d, <2>2, <2>7, SaveFacts
    <3>2. s = "failed" => Concluded(n)'
      BY <3>1 DEF Concluded
    <3>3. published' = published
      BY <1>1 DEF MarkFailure
    <3>4. CopiesRight
      BY <1>g, <2>2, <2>4, <2>7, <3>2, <3>3
    <3> QED
      BY <1>t, <2>5, <2>6, <3>4 DEF LInv
  <2>8. CASE SaveFails(n, s, Discarding(c)) /\ Nack(c)
    <3>1. Discarding(c) \subseteq events'[n]
      BY <1>t, <1>d, <2>2, <2>8, SaveFacts
    <3>2. published' = published
      BY <1>1 DEF MarkFailure
    <3>3. CopiesRight
      BY <1>n, <2>4, <2>8, <3>1, <3>2
    <3> QED
      BY <1>t, <2>5, <2>6, <3>3 DEF LInv
  <2> QED
    BY <2>1, <2>7, <2>8
<1>2. CASE Retry(c)
  <2>0. published' = published /\ delivered' = delivered /\ row' = row
           /\ creator' = creator /\ ticker' = ticker
    BY <1>2 DEF Retry
  <2>1. CASE /\ PublishReturnsNil("retry", n, msg[c].retry + 1)
             /\ job' = [job EXCEPT ![c] = Verdict(row[n])]
    <3>1. msg[c].retry + 1 \in 0 .. MaxRetries /\ "retry" \in Queue
      BY <1>2, <1>t, <1>s, MaxRetriesAssumption
      DEF Retry, TInv, JobsFit, RetriesLeft, Message, Queue
    <3>2. /\ \A m \in Notification : published'[m] \in Nat /\ published'[m] >= published[m]
          /\ \A m \in Notification \ {n} : published'[m] = published[m]
          /\ published'[n] > 0
      BY <1>t, <1>s, <2>0 DEF TInv, TypeOK
    <3>3. \A d \in Copy : job'[d] # job[d] =>
                            Stored(d) /\ msg[d].id = n /\ job'[d] # "markSent"
      BY <1>t, <1>s, <2>1 DEF Verdict, TInv, TypeOK
    <3>4. Grows /\ CopiesRight
      BY <2>0, <2>1, <3>1, <3>2, <3>3, PublishKeeps
    <3>5. RowTrue' /\ MarkPublished'
      BY <2>0, <3>4, RowsKept, MarksKept
    <3> QED
      BY <1>t, <3>4, <3>5 DEF LInv
  <2>2. CASE Nack(c) /\ Note(n, Discarding(c))
    <3>1. Discarding(c) \subseteq events'[n]
             /\ \A m \in Notification : events[m] \subseteq events'[m]
      BY <1>t, <1>d, <2>2, NoteGrows
    <3>2. Grows
      BY <2>0, <3>1, StutterGrows
    <3>3. CopiesRight
      BY <1>n, <2>0, <2>2, <3>1, <3>2
    <3>4. RowTrue' /\ MarkPublished'
      BY <2>0, <3>2, RowsKept, MarksKept
    <3> QED
      BY <1>t, <3>3, <3>4 DEF LInv
  <2> QED
    BY <1>2, <2>1, <2>2 DEF Retry
<1>3. CASE Report(c)
  <2>1. Grows /\ published' = published /\ job[c] \in Settling
    BY <1>3, StutterGrows DEF Report, Settling
  <2>2. RowTrue' /\ MarkPublished'
    BY <1>3, <2>1, RowsKept, MarksKept DEF Report
  <2>3. Verdict(row[n]) \in Job /\ Verdict(row[n]) # "markSent"
    BY DEF Verdict, Job, DLQJob
  <2>4. Goto(c, Verdict(row[n])) \/ Nack(c)
    BY <1>3 DEF Report
  <2>5. CopiesRight
    BY <1>g, <1>n, <2>1, <2>3, <2>4
  <2> QED
    BY <1>t, <2>2, <2>5 DEF LInv
<1>4. CASE AnnounceFailed(c)
  <2>1. Grows
    BY <1>t, <1>4, NoteGrows, StutterGrows DEF AnnounceFailed, Event
  <2>2. RowTrue' /\ MarkPublished'
    BY <1>4, <2>1, RowsKept, MarksKept DEF AnnounceFailed
  <2>3. CopiesRight
    BY <1>4, <1>g, <2>1 DEF AnnounceFailed, Job, Settling
  <2> QED
    BY <1>t, <2>2, <2>3 DEF LInv
<1> QED
  BY <1>1, <1>2, <1>3, <1>4

LEMMA ProcessLInv ==
    ASSUME LInv, Crash \/ Stop \/ Cut \/ Exit \/ Restart
    PROVE  LInv'
<1>t. TInv /\ TInv'
  BY ProcessTInv DEF LInv
<1>1. Grows
  BY StutterGrows DEF Crash, Exit, Die, Stop, Cut, Restart
<1>2. RowTrue'
  BY <1>1, RowsKept DEF Crash, Exit, Die, Stop, Cut, Restart
<1>3. CASE Die
  <2>1. MarkPublished'
    BY <1>1, <1>3, MarksKept DEF Die, NoWork
  <2>2. \A c \in Copy : /\ Stored(c)' <=> Stored(c)
                        /\ Stored(c) => msg'[c].id = msg[c].id
    <3> TAKE c \in Copy
    <3>1. CASE Stored(c)
      <4>1. msg'[c] = Requeued(msg[c]) /\ msg[c] \in Message
        BY <1>t, <1>3, <3>1, StoredType DEF Die, AllRequeued, TInv
      <4> QED
        BY <3>1, <4>1, RequeuedType, NoMessageAssumption DEF Stored
    <3>2. CASE ~Stored(c)
      BY <1>3, <3>2 DEF Die, AllRequeued, Stored
    <3> QED
      BY <3>1, <3>2
  <2>3. CopyPublished'
    BY <1>3, <2>2 DEF Die, LInv, CopyPublished
  <2>4. SentDelivered'
    BY <1>3 DEF Die, SentDelivered
  <2>5. ASSUME NEW n \in Notification, Carried(n) PROVE Carried(n)'
    <3>1. PICK c \in Copy : Carrying(c) /\ msg[c].id = n
      BY <2>5 DEF Carried
    <3>2. Carrying(c)' /\ msg'[c].id = n
      BY <1>3, <2>2, <3>1 DEF Die, Carrying, Settling
    <3> QED
      BY <3>2 DEF Carried
  <2>6. PublishedKept'
    BY <1>3, <2>5 DEF Die, LInv, PublishedKept, Concluded, Lost
  <2> QED
    BY <1>t, <1>2, <2>1, <2>3, <2>4, <2>6 DEF LInv
<1>4. CASE Stop \/ Cut \/ Restart
  <2>1. MarkPublished' /\ CopyPublished' /\ SentDelivered' /\ PublishedKept'
    BY <1>1, <1>4, MarksKept, CopiesKept DEF Stop, Cut, Restart
  <2> QED
    BY <1>t, <1>2, <2>1 DEF LInv
<1> QED
  BY <1>3, <1>4 DEF Crash, Exit

LEMMA LInvNext == LInv /\ [Next]_vars => LInv'
<1> SUFFICES ASSUME LInv, [Next]_vars PROVE LInv'
  OBVIOUS
<1>1. CASE UNCHANGED vars
  <2>1. TInv'
    BY <1>1, TInvNext DEF LInv
  <2>2. Grows
    BY <1>1, StutterGrows DEF vars
  <2>3. RowTrue' /\ MarkPublished' /\ CopyPublished' /\ SentDelivered' /\ PublishedKept'
    BY <1>1, <2>2, RowsKept, MarksKept, CopiesKept DEF vars
  <2> QED
    BY <2>1, <2>3 DEF LInv
<1>2. CASE Next
  BY <1>2, CreatorLInv, CancelLInv, TickerLInv, DeliveryLInv, MainLInv, DLQLInv,
     ProcessLInv
  DEF Next, Creator, Handle
<1> QED
  BY <1>1, <1>2

\* An accepted notification without a conclusion is always in a status the ticker
\* looks for or carried by a message, unless a copy of it was lost: for every
\* number of notifications, copies, requests, consumers, retries, faults and
\* outages.
THEOREM NothingLostUnnoticed == Spec => []NoNotificationLost
<1>1. Spec => []LInv
  BY LInvInit, LInvNext, PTL DEF Spec
<1> QED
  BY <1>1, LInvImplies, PTL

-----------------------------------------------------------------------------
(* NothingLost *)

\* Nothing fails but sends, which say so, and the process may only crash.
SafeSetting ==
    /\ Faults \subseteq {"rejected", "timeout"}
    /\ Outages \subseteq {"crash"}

Unlost == app \in {"up", "down"} /\ \A n \in Notification : ~Lost(n)

LEMMA UnlostNext ==
    ASSUME SafeSetting, TInv, Unlost, [Next]_vars
    PROVE  Unlost'
<1>f. /\ app # "cut" /\ ContextAlive
      /\ ~Fault("database") /\ ~Fault("publish") /\ ~Fault("unconfirmed")
      /\ ~Fault("redirected")
  BY DEF SafeSetting, Unlost, Fault, ContextAlive
<1>a. app' \in {"up", "down"}
  BY DEF SafeSetting, Unlost, Next, vars, CreateRows, Creator, CreatorPublish, CreatorMark,
         CancelRead, CancelSave, Ripen, Ticker, TickerRead, TickerPublish, TickerMark,
         DeliverMain, DeliverDLQ, Take, Handle, ProcessRead, ProcessSave, Send, MarkSent,
         AnnounceSent, MarkFailure, Retry, Report, AnnounceFailed, Acknowledge, BrokerExpire,
         Crash, Stop, Cut, Exit, Restart, Die, Disturbed
<1>n. ASSUME NEW n \in Notification, NEW s \in Status, Save(n, s, {})
      PROVE  \A m \in Notification : ~Lost(m)'
  BY <1>n DEF Save, Note, Lost, Unlost, TInv, TypeOK
<1>p. ASSUME NEW q, NEW n, NEW r, PublishReturnsNil(q, n, r)
      PROVE  UNCHANGED events
  BY <1>f, <1>p DEF PublishReturnsNil, PublishAccepted, PublishVanishes
<1>q. ~PublishFails
  BY <1>f DEF PublishFails
<1>d. ~Fails("database")
  BY <1>f DEF Fails
<1> SUFFICES \A m \in Notification : ~Lost(m)'
  BY <1>a DEF Unlost
<1>1. ASSUME UNCHANGED events PROVE \A m \in Notification : ~Lost(m)'
  BY <1>1 DEF Unlost, Lost
<1>2. CASE UNCHANGED vars
  BY <1>1, <1>2 DEF vars
<1>3. ASSUME NEW r \in Request, CreateRows(r) \/ Creator(r)
      PROVE  \A m \in Notification : ~Lost(m)'
  <2>1. CASE CreatorMark(r)
    <3>1. \A n \in creator[r].mark : n \in Notification
      BY DEF TInv, TypeOK, Work
    <3> QED
      BY <1>f, <1>n, <2>1, <3>1 DEF CreatorMark, Status
  <2> QED
    BY <1>1, <1>3, <1>p, <2>1 DEF CreateRows, Creator, CreatorPublish
<1>4. ASSUME NEW n \in Notification, CancelRead(n) \/ CancelSave(n) \/ Ripen(n)
      PROVE  \A m \in Notification : ~Lost(m)'
  BY <1>1, <1>4, <1>f, <1>n DEF CancelRead, CancelSave, Ripen, Status
<1>5. CASE Ticker
  <2>1. CASE TickerMark
    <3>1. \A n \in ticker.mark : n \in Notification
      BY DEF TInv, TypeOK, Work
    <3> QED
      BY <1>d, <1>n, <2>1, <3>1 DEF TickerMark, Status
  <2> QED
    BY <1>1, <1>5, <1>p, <2>1 DEF Ticker, TickerRead, TickerPublish
<1>6. ASSUME NEW c \in Copy, DeliverMain(c) \/ DeliverDLQ(c) \/ BrokerExpire(c)
      PROVE  \A m \in Notification : ~Lost(m)'
  BY <1>1, <1>6 DEF DeliverMain, DeliverDLQ, Take, BrokerExpire
<1>7. ASSUME NEW c \in Copy, Handle(c)
      PROVE  \A m \in Notification : ~Lost(m)'
  <2>1. CASE ProcessSave(c) \/ MarkSent(c) \/ MarkFailure(c)
    <3>1. msg[c].id \in Notification
      BY <2>1, HandledCopy DEF ProcessSave, MarkSent, MarkFailure
    <3> QED
      BY <1>d, <1>n, <2>1, <3>1 DEF ProcessSave, MarkSent, MarkFailure, Status
  <2>2. CASE Retry(c)
    BY <1>1, <1>d, <1>p, <1>q, <2>2 DEF Retry
  <2> QED
    BY <1>1, <1>7, <1>f, <2>1, <2>2
    DEF Handle, ProcessRead, Send, AnnounceSent, Report, AnnounceFailed, Acknowledge
<1>8. CASE Crash \/ Stop \/ Cut \/ Exit \/ Restart
  BY <1>1, <1>8 DEF Crash, Stop, Cut, Exit, Restart, Die
<1> QED
  BY <1>2, <1>3, <1>4, <1>5, <1>6, <1>7, <1>8 DEF Next

\* Where only sends fail, no accepted notification is lost by a crash, at whatever step
\* of creators, ticker and consumers, however often, and with any number of retries: the
\* ticker republishes what the handlers left pending (RecoverStuckNotifications), the
\* broker hands out again what was not acknowledged.
THEOREM NothingLostInCrashes ==
    ASSUME SafeSetting
    PROVE  Spec => []NothingLost
<1>1. Init => TInv /\ LInv /\ Unlost
  BY TInvInit, LInvInit DEF Init, Unlost, Lost
<1>2. LInv /\ Unlost /\ [Next]_vars => LInv' /\ Unlost'
  BY LInvNext, UnlostNext DEF LInv
<1>3. LInv /\ Unlost => NothingLost
  BY LInvImplies DEF NoNotificationLost, NothingLost, Unlost, Lost
<1> QED
  BY <1>1, <1>2, <1>3, PTL DEF Spec

-----------------------------------------------------------------------------
(* The refinement *)


Known ==
    /\ \A r \in Request : \A n \in creator[r].publish \cup creator[r].mark : Accepted(n)
    /\ \A n \in ticker.publish \cup ticker.mark \cup cancelling : Accepted(n)
    /\ \A n \in Notification : published[n] > 0 => Accepted(n)

RInv == LInv /\ Known

LEMMA RInvInit == Init => RInv
BY LInvInit DEF Init, RInv, Known, NoWork

AStep == Promise!ANext \/ UNCHANGED Promise!avars

Closed(n) == events[n] \cap {"cancelled", "failed", "lost"} # {}

-----------------------------------------------------------------------------
(* Custody *)

LEMMA CustodyIs ==
    ASSUME NEW n \in Notification
    PROVE  /\ Custody(n) \subseteq {"database", "broker"}
           /\ "database" \in Custody(n) <=> Recoverable(n)
           /\ "broker" \in Custody(n) <=> Carried(n)
BY DEF Custody

LEMMA CustodyIsNext ==
    ASSUME NEW n \in Notification
    PROVE  /\ Custody(n)' \subseteq {"database", "broker"}
           /\ "database" \in Custody(n)' <=> Recoverable(n)'
           /\ "broker" \in Custody(n)' <=> Carried(n)'
BY DEF Custody

\* The last custodian stays.
LEMMA CustodyStays ==
    ASSUME LInv, NEW n \in Notification, Accepted(n), Custody(n) = {}
    PROVE  delivered[n] > 0 \/ Closed(n)
<1>1. ~Recoverable(n) /\ ~Carried(n)
  BY CustodyIs
<1>2. "lost" \in events[n] \/ Kept(n)
  BY LInvImplies DEF NoNotificationLost
<1> QED BY <1>1, <1>2 DEF Kept, Concluded, Closed

LEMMA CustodyStaysNext ==
    ASSUME LInv', NEW n \in Notification, Accepted(n)', Custody(n)' = {}
    PROVE  delivered'[n] > 0 \/ Closed(n)'
<1>1. ~Recoverable(n)' /\ ~Carried(n)'
  BY CustodyIsNext
<1>2. (NoNotificationLost)'
  BY LInvImplies, PTL
<1>3. "lost" \in events'[n] \/ Kept(n)'
  BY <1>2 DEF NoNotificationLost
<1> QED BY <1>1, <1>3 DEF Kept, Concluded, Closed

\* A step that touches one notification hands it over, delivers it or closes it.
LEMMA OneNotification ==
    ASSUME RInv, LInv', Grows, NEW n \in Notification, Accepted(n), Accepted(n)',
           \A m \in Notification \ {n} :
               /\ row'[m] = row[m] /\ delivered'[m] = delivered[m] /\ events'[m] = events[m]
               /\ Carried(m)' <=> Carried(m),
           Recoverable(n)' => Recoverable(n),
           delivered'[n] # delivered[n] =>
               Carried(n) /\ row'[n] = row[n] /\ events'[n] = events[n],
           events'[n] # events[n] => delivered'[n] = delivered[n] /\ (Carried(n)' => Carried(n))
    PROVE  AStep
<1> DEFINE accepted == {m \in Notification : Accepted(m)}
           custody == [m \in Notification |-> Custody(m)]
           sent == {m \in Notification : delivered[m] > 0}
           closed == {m \in Notification : Closed(m)}
<1>1. accepted' = accepted
  BY DEF Accepted
<1>2. custody' = [custody EXCEPT ![n] = Custody(n)']
  <2>1. \A m \in Notification \ {n} : Custody(m)' = Custody(m)
    <3> SUFFICES ASSUME NEW m \in Notification \ {n}
                 PROVE  Custody(m)' = Custody(m)
      OBVIOUS
    <3>1. (Recoverable(m)' <=> Recoverable(m)) /\ (Carried(m)' <=> Carried(m))
      BY DEF Recoverable
    <3> QED BY <3>1 DEF Custody
  <2> QED BY <2>1
<1>3. /\ \A m \in Notification : delivered[m] \in Nat /\ delivered'[m] \in Nat
      /\ events[n] \in SUBSET Event /\ events'[n] \in SUBSET Event
  BY DEF RInv, LInv, TInv, TypeOK
<1>4. "database" \in Custody(n)' => "database" \in Custody(n)
  BY CustodyIs, CustodyIsNext
<1>5. CASE delivered'[n] # delivered[n]
  <2>1. sent' = sent \cup {n}
    BY <1>3, <1>5 DEF Grows
  <2>2. closed' = closed
    BY <1>5 DEF Closed
  <2>3. "broker" \in custody[n] /\ Custody(n)' \in {Custody(n), Custody(n) \ {"broker"}}
    BY <1>5, CustodyIs, CustodyIsNext DEF Recoverable
  <2>4. custody' \in {custody, [custody EXCEPT ![n] = @ \ {"broker"}]}
    BY <1>2, <2>3
  <2>5. Promise!Deliver(n)
    BY <1>1, <2>1, <2>2, <2>3, <2>4 DEF Promise!Deliver, Closed
  <2> QED BY <2>5 DEF AStep, Promise!ANext
<1>6. CASE events'[n] # events[n]
  <2>1. closed' = closed \cup {n}
    BY <1>3, <1>6 DEF Closed, Grows, Event
  <2>2. sent' = sent
    BY <1>6
  <2>3. Custody(n)' \in SUBSET custody[n]
    BY <1>4, <1>6, CustodyIs, CustodyIsNext
  <2>4. Promise!Close(n)
    BY <1>1, <1>2, <2>1, <2>2, <2>3 DEF Promise!Close, Closed
  <2> QED BY <2>4 DEF AStep, Promise!ANext
<1>7. CASE delivered'[n] = delivered[n] /\ events'[n] = events[n]
  <2>1. sent' = sent /\ closed' = closed
    BY <1>7 DEF Closed
  <2>2. custody[n] # {} \/ n \in sent \cup closed
    BY CustodyStays DEF RInv
  <2>3. Custody(n)' # {} \/ n \in sent \cup closed
    BY <1>7, CustodyStaysNext DEF Closed
  <2>4. Custody(n)' \in SUBSET (custody[n] \cup {"broker"})
    BY <1>4, CustodyIsNext
  <2>5. Promise!HandOver(n)
    BY <1>1, <1>2, <2>1, <2>2, <2>3, <2>4 DEF Promise!HandOver, Promise!Settled, Closed
  <2> QED BY <2>5 DEF AStep, Promise!ANext
<1> QED BY <1>5, <1>6, <1>7

\* A step that touches one copy.  Its notification has a row.
LEMMA CopyCustody ==
    ASSUME RInv, LInv', Grows, NEW c \in Copy, Stored(c),
           NEW n \in Notification, n = msg[c].id,
           \A d \in Copy : d # c => msg'[d] = msg[d] /\ job'[d] = job[d],
           msg'[c] # NoMessage => msg'[c].id = n,
           \A m \in Notification : m # n =>
               row'[m] = row[m] /\ delivered'[m] = delivered[m] /\ events'[m] = events[m],
           Accepted(n) => Accepted(n)',
           Recoverable(n)' => Recoverable(n),
           delivered'[n] # delivered[n] =>
               Carrying(c) /\ row'[n] = row[n] /\ events'[n] = events[n],
           events'[n] # events[n] =>
               delivered'[n] = delivered[n] /\ (Carrying(c)' => Carrying(c))
    PROVE  AStep
<1>1. Accepted(n)
  BY DEF RInv, LInv, CopyPublished, Known
<1>2. ASSUME NEW m \in Notification \ {n}
      PROVE  Carried(m)' <=> Carried(m)
  <2>1. \A d \in Copy : Carrying(d) /\ msg[d].id = m <=> Carrying(d)' /\ msg'[d].id = m
    BY <1>2 DEF Carrying, Stored
  <2> QED BY <2>1 DEF Carried
<1>3. Carrying(c) => Carried(n)
  BY DEF Carried
<1>4. (Carrying(c)' => Carrying(c)) => (Carried(n)' => Carried(n))
  <2> SUFFICES ASSUME Carrying(c)' => Carrying(c), Carried(n)' PROVE Carried(n)
    OBVIOUS
  <2>1. PICK d \in Copy : Carrying(d)' /\ msg'[d].id = n
    BY DEF Carried
  <2>2. Carrying(d) /\ msg[d].id = n
    BY <2>1 DEF Carrying, Stored
  <2> QED BY <2>2 DEF Carried
<1> QED BY <1>1, <1>2, <1>3, <1>4, OneNotification

\* A save, without anything happening to the copies.
LEMMA RowCustody ==
    ASSUME RInv, LInv', Grows, UNCHANGED <<msg, job, delivered>>,
           NEW n \in Notification, Accepted(n),
           NEW s \in Status \ {"pending", "scheduled"}, NEW what \in SUBSET Event,
           Save(n, s, what) \/ SaveFails(n, s, what)
    PROVE  AStep /\ (\A m \in Notification : Accepted(m) => Accepted(m)')
<1>1. /\ \A m \in Notification \ {n} : row'[m] = row[m] /\ events'[m] = events[m]
      /\ row'[n] # row[n] => row'[n] = s
  BY SaveFacts DEF RInv, LInv, TInv, TypeOK, Save, SaveFails, Note
<1>2. \A m \in Notification : Carried(m)' <=> Carried(m)
  BY DEF Carried, Carrying, Stored
<1>3. "none" \notin Status
  BY DEF Status
<1>4. \A m \in Notification : Accepted(m) => Accepted(m)'
  BY <1>1, <1>3 DEF Accepted
<1>5. Recoverable(n)' => Recoverable(n)
  BY <1>1 DEF Recoverable
<1>6. AStep
  BY <1>1, <1>2, <1>4, <1>5, OneNotification
<1> QED BY <1>4, <1>6

\* A publish that returns nil hands the notification to the broker, or closes it.
LEMMA PublishCustody ==
    ASSUME RInv, LInv', Grows, NEW q \in Queue, NEW n \in Notification,
           NEW r \in 0 .. MaxRetries, PublishReturnsNil(q, n, r), Accepted(n),
           UNCHANGED <<row, delivered>>,
           \A d \in Copy : job'[d] # job[d] =>
                            Stored(d) /\ msg[d].id = n /\ job'[d] \in Settling
    PROVE  AStep
<1>1. \A d \in Copy : Stored(d) => msg'[d] = msg[d]
  BY PublishInv DEF RInv, LInv
<1>2. \A m \in Notification \ {n} : events'[m] = events[m]
  BY DEF PublishReturnsNil, PublishAccepted, PublishVanishes, Note, RInv, LInv, TInv, TypeOK
<1>3. ASSUME NEW m \in Notification \ {n}
      PROVE  Carried(m)' <=> Carried(m)
  <2>1. \A d \in Copy : ~Stored(d) => msg'[d] = msg[d] \/ msg'[d].id = n
    <3>1. \A d \in Copy : Enqueued(q, n, r).id = n
      BY DEF Enqueued
    <3> QED
      BY <3>1 DEF PublishReturnsNil, PublishAccepted, PublishVanishes, RInv, LInv, TInv,
                  TypeOK, BrokerTypeOK
  <2>2. \A d \in Copy : Carrying(d) /\ msg[d].id = m <=> Carrying(d)' /\ msg'[d].id = m
    BY <1>1, <1>3, <2>1 DEF Carrying, Stored
  <2> QED BY <2>2 DEF Carried
<1>4. events'[n] # events[n] => (Carried(n)' => Carried(n))
  <2>1. events'[n] # events[n] => msg' = msg
    BY DEF PublishReturnsNil, PublishAccepted, PublishVanishes
  <2>2. ASSUME msg' = msg, NEW d \in Copy, Carrying(d)' PROVE Carrying(d)
    BY <2>2 DEF Carrying, Stored
  <2> QED BY <2>1, <2>2 DEF Carried
<1>5. Accepted(n)' /\ (Recoverable(n)' <=> Recoverable(n))
  BY DEF Accepted, Recoverable
<1> QED BY <1>2, <1>3, <1>4, <1>5, OneNotification

\* Nothing that custody depends on changes.
LEMMA StutterCustody ==
    ASSUME UNCHANGED <<row, delivered, events>>,
           \A n \in Notification : Carried(n)' <=> Carried(n)
    PROVE  AStep
<1>1. \A n \in Notification :
         /\ Accepted(n)' <=> Accepted(n)
         /\ Custody(n)' = Custody(n)
  BY DEF Accepted, Custody, Recoverable
<1>2. UNCHANGED Promise!avars
  BY <1>1 DEF Promise!avars
<1> QED BY <1>2 DEF AStep

LEMMA CopiesStutter ==
    ASSUME UNCHANGED <<row, delivered, events, msg, job>>
    PROVE  AStep
BY StutterCustody DEF Carried, Carrying, Stored

\* What was known stays known.
LEMMA KnownKept ==
    ASSUME RInv, \A n \in Notification : Accepted(n) => Accepted(n)',
           \A r \in Request : \A n \in creator'[r].publish \cup creator'[r].mark :
              n \in Notification /\ Accepted(n)',
           \A n \in ticker'.publish \cup ticker'.mark \cup cancelling' :
              n \in Notification /\ Accepted(n)',
           \A n \in Notification : published'[n] > 0 => published[n] > 0 \/ Accepted(n)'
    PROVE  Known'
BY DEF RInv, Known

LEMMA KnownUnchanged ==
    ASSUME RInv, \A n \in Notification : Accepted(n) => Accepted(n)',
           UNCHANGED <<creator, ticker, cancelling, published>>
    PROVE  Known'
BY DEF RInv, LInv, TInv, TypeOK, Work, Known

-----------------------------------------------------------------------------
(* One lemma per part of Next *)

LEMMA CreateRefines ==
    ASSUME RInv, LInv', NEW r \in Request, CreateRows(r)
    PROVE  AStep /\ Known'
<1> DEFINE accepted == {m \in Notification : Accepted(m)}
<1>t. TypeOK /\ r \subseteq Notification
  BY RequestAssumption DEF RInv, LInv, TInv
<1>1. \A n \in Notification :
         row'[n] = IF n \in r THEN row'[n] ELSE row[n]
  BY <1>t DEF CreateRows
<1>2. \A n \in r : row[n] = "none" /\ row'[n] \in {"pending", "scheduled"}
  BY <1>t DEF CreateRows
<1>3. \A n \in Notification : Carried(n)' <=> Carried(n)
  BY DEF CreateRows, Carried, Carrying, Stored
<1>4. \A n \in r : ~Carried(n)
  BY <1>t, <1>2 DEF RInv, LInv, CopyPublished, Known, Accepted, Carried, Carrying
<1>5. \A n \in Notification : Accepted(n) => Accepted(n)'
  BY <1>1, <1>2 DEF Accepted
<1>6. accepted' = accepted \cup r /\ r \cap accepted = {}
  BY <1>t, <1>1, <1>2 DEF Accepted
<1>7. ASSUME NEW n \in Notification
      PROVE  Custody(n)' = IF n \in r THEN {"database"} ELSE Custody(n)
  <2>1. CASE n \in r
    <3>1. Recoverable(n)' /\ ~Carried(n)'
      BY <1>2, <1>3, <1>4, <2>1 DEF Recoverable
    <3> QED BY <2>1, <3>1 DEF Custody
  <2>2. CASE n \notin r
    <3>1. (Recoverable(n)' <=> Recoverable(n)) /\ (Carried(n)' <=> Carried(n))
      BY <1>1, <1>3, <2>2 DEF Recoverable
    <3> QED BY <2>2, <3>1 DEF Custody
  <2> QED BY <2>1, <2>2
<1>8. Promise!Accept(r)
  BY <1>t, <1>6, <1>7 DEF Promise!Accept, CreateRows
<1>9. AStep
  BY <1>t, <1>8 DEF AStep, Promise!ANext
<1>10. \A q \in Request : \A n \in creator'[q].publish \cup creator'[q].mark :
          n \in Notification /\ Accepted(n)'
  <2>1. \A q \in Request : \A n \in creator'[q].publish \cup creator'[q].mark :
           n \in creator[q].publish \cup creator[q].mark \cup r
    BY <1>t DEF CreateRows, TypeOK, Work
  <2>2. \A n \in r : Accepted(n)'
    BY <1>2 DEF Accepted
  <2> QED BY <1>t, <1>5, <2>1, <2>2 DEF RInv, Known, TypeOK, Work
<1>11. \A n \in ticker'.publish \cup ticker'.mark \cup cancelling' :
          n \in Notification /\ Accepted(n)'
  BY <1>t, <1>5 DEF CreateRows, RInv, Known, TypeOK, Work
<1>12. published' = published
  BY DEF CreateRows
<1>13. Known'
  BY <1>5, <1>10, <1>11, <1>12, KnownKept
<1> QED BY <1>9, <1>13

LEMMA CreatorRefines ==
    ASSUME RInv, LInv', NEW r \in Request, CreatorPublish(r) \/ CreatorMark(r)
    PROVE  AStep /\ Known'
<1>t. TypeOK
  BY DEF RInv, LInv, TInv
<1>k. \A n \in creator[r].publish \cup creator[r].mark : n \in Notification /\ Accepted(n)
  BY <1>t DEF RInv, Known, TypeOK, Work
<1>c. /\ UNCHANGED <<ticker, cancelling>>
      /\ \A q \in Request : creator'[q].publish \cup creator'[q].mark
                              \subseteq creator[q].publish \cup creator[q].mark
  <2>1. UNCHANGED <<ticker, cancelling>>
    BY DEF CreatorPublish, CreatorMark
  <2>2. \E n \in creator[r].publish \cup creator[r].mark :
           \/ creator' = [creator EXCEPT ![r].publish = @ \ {n}, ![r].mark = @ \cup {n}]
           \/ creator' = [creator EXCEPT ![r] = NoWork]
           \/ creator' = [creator EXCEPT ![r].mark = @ \ {n}]
    BY DEF CreatorPublish, CreatorMark, AfterFailedPublish
  <2>3. creator \in [Request -> Work]
    BY <1>t DEF TypeOK
  <2>4. \A q \in Request \ {r} : creator'[q] = creator[q]
    BY <2>2, <2>3
  <2>5. creator'[r].publish \cup creator'[r].mark \subseteq creator[r].publish \cup creator[r].mark
    BY <2>2, <2>3 DEF Work, NoWork
  <2> QED BY <2>1, <2>4, <2>5
<1>w. ASSUME \A n \in Notification : Accepted(n) => Accepted(n)',
             \A n \in Notification : published'[n] > 0 => published[n] > 0 \/ Accepted(n)
      PROVE  Known'
  <2>1. /\ \A q \in Request : \A n \in creator'[q].publish \cup creator'[q].mark :
              n \in Notification /\ Accepted(n)'
        /\ \A n \in ticker'.publish \cup ticker'.mark \cup cancelling' :
              n \in Notification /\ Accepted(n)'
    BY <1>t, <1>c, <1>w DEF RInv, Known, TypeOK, Work
  <2> QED BY <1>w, <2>1, KnownKept
<1>1. CASE CreatorPublish(r)
  <2>p. PICK n \in creator[r].publish :
           \/ /\ PublishReturnsNil("main", n, 0)
              /\ published' = [published EXCEPT ![n] = @ + 1]
           \/ UNCHANGED <<msg, published, events>>
    BY <1>1 DEF CreatorPublish
  <2>n. n \in Notification /\ Accepted(n)
    BY <1>k
  <2>u. UNCHANGED <<row, job, delivered>>
    BY <1>1 DEF CreatorPublish
  <2>a. \A m \in Notification : Accepted(m) => Accepted(m)'
    BY <2>u DEF Accepted
  <2>1. CASE /\ PublishReturnsNil("main", n, 0)
             /\ published' = [published EXCEPT ![n] = @ + 1]
    <3>1. \A m \in Notification : published'[m] > 0 => published[m] > 0 \/ Accepted(m)
      BY <1>t, <2>1, <2>n DEF TypeOK
    <3>2. Known'
      BY <1>w, <2>a, <3>1
    <3>3. \A m \in Notification : events[m] \subseteq events'[m]
      BY <2>1, <2>n, NoteGrows
      DEF PublishReturnsNil, PublishAccepted, PublishVanishes, RInv, LInv, Event
    <3>4. Grows
      BY <1>t, <2>1, <2>n, <2>u, <3>3 DEF Grows, TypeOK
    <3>5. "main" \in Queue /\ 0 \in 0 .. MaxRetries
      BY MaxRetriesAssumption DEF Queue
    <3>6. AStep
      BY <2>1, <2>n, <2>u, <3>4, <3>5, PublishCustody
    <3> QED BY <3>2, <3>6
  <2>2. CASE UNCHANGED <<msg, published, events>>
    BY <1>w, <2>2, <2>u, <2>a, CopiesStutter
  <2> QED BY <2>p, <2>1, <2>2
<1>2. CASE CreatorMark(r)
  <2>1. PICK n \in creator[r].mark : Save(n, "queued", {}) \/ SaveFails(n, "queued", {})
    BY <1>2 DEF CreatorMark
  <2>2. UNCHANGED <<msg, job, delivered, published>>
    BY <1>2 DEF CreatorMark
  <2>3. Grows
    BY <1>k, <2>1, <2>2, SaveFacts, StutterGrows DEF RInv, LInv, Status
  <2>4. AStep /\ \A m \in Notification : Accepted(m) => Accepted(m)'
    BY <1>k, <2>1, <2>2, <2>3, RowCustody DEF Status
  <2> QED BY <1>w, <2>2, <2>4
<1> QED BY <1>1, <1>2

LEMMA CancelRefines ==
    ASSUME RInv, LInv', NEW n \in Notification, CancelRead(n) \/ CancelSave(n) \/ Ripen(n)
    PROVE  AStep /\ Known'
<1>t. TypeOK
  BY DEF RInv, LInv, TInv
<1>w. ASSUME \A m \in Notification : Accepted(m) => Accepted(m)',
             cancelling' \subseteq cancelling \cup {m \in Notification : Accepted(m)}
      PROVE  Known'
  <2>1. UNCHANGED <<creator, ticker, published>>
    BY DEF CancelRead, CancelSave, Ripen
  <2>2. /\ \A q \in Request : \A m \in creator'[q].publish \cup creator'[q].mark :
              m \in Notification /\ Accepted(m)'
        /\ \A m \in ticker'.publish \cup ticker'.mark \cup cancelling' :
              m \in Notification /\ Accepted(m)'
    BY <1>t, <1>w, <2>1 DEF RInv, Known, TypeOK, Work
  <2> QED BY <1>w, <2>1, <2>2, KnownKept
<1>1. CASE CancelRead(n) \/ Ripen(n)
  <2>1. UNCHANGED <<row, delivered, events, msg, job>>
    BY <1>1 DEF CancelRead, Ripen
  <2>2. cancelling' \subseteq cancelling \cup {m \in Notification : Accepted(m)}
    BY <1>1 DEF CancelRead, Ripen, Cancellable, Accepted
  <2>3. \A m \in Notification : Accepted(m) => Accepted(m)'
    BY <2>1 DEF Accepted
  <2> QED BY <1>w, <2>1, <2>2, <2>3, CopiesStutter
<1>2. CASE CancelSave(n)
  <2>1. Save(n, "cancelled", {}) \/ SaveFails(n, "cancelled", {})
    BY <1>2 DEF CancelSave
  <2>2. UNCHANGED <<msg, job, delivered, published>> /\ Accepted(n)
    BY <1>2 DEF CancelSave, RInv, Known
  <2>3. Grows
    BY <2>1, <2>2, SaveFacts, StutterGrows DEF RInv, LInv, Status
  <2>4. AStep /\ \A m \in Notification : Accepted(m) => Accepted(m)'
    BY <2>1, <2>2, <2>3, RowCustody DEF Status
  <2>5. cancelling' \subseteq cancelling
    BY <1>2 DEF CancelSave
  <2> QED BY <1>w, <2>4, <2>5
<1> QED BY <1>1, <1>2

LEMMA TickerRefines ==
    ASSUME RInv, LInv', Ticker
    PROVE  AStep /\ Known'
<1>t. TypeOK
  BY DEF RInv, LInv, TInv
<1>k. \A n \in ticker.publish \cup ticker.mark : n \in Notification /\ Accepted(n)
  BY <1>t DEF RInv, Known, TypeOK, Work
<1>w. ASSUME \A n \in Notification : Accepted(n) => Accepted(n)',
             ticker'.publish \cup ticker'.mark \subseteq {m \in Notification : Accepted(m)},
             \A n \in Notification : published'[n] > 0 => published[n] > 0 \/ Accepted(n)
      PROVE  Known'
  <2>1. UNCHANGED <<creator, cancelling>>
    BY DEF Ticker, TickerRead, TickerPublish, TickerMark
  <2>2. /\ \A q \in Request : \A n \in creator'[q].publish \cup creator'[q].mark :
              n \in Notification /\ Accepted(n)'
        /\ \A n \in ticker'.publish \cup ticker'.mark \cup cancelling' :
              n \in Notification /\ Accepted(n)'
    BY <1>t, <1>w, <2>1 DEF RInv, Known, TypeOK, Work
  <2> QED BY <1>w, <2>2, KnownKept
<1>1. ASSUME NEW s \in {"pending", "scheduled"}, TickerRead(s) PROVE AStep /\ Known'
  <2>1. UNCHANGED <<row, delivered, events, msg, job, published>>
    BY <1>1 DEF TickerRead
  <2>2. ticker'.publish \cup ticker'.mark \subseteq {m \in Notification : Accepted(m)}
    BY <1>1, <1>t DEF TickerRead, NoWork, Found, Accepted, TypeOK
  <2>3. \A m \in Notification : Accepted(m) => Accepted(m)'
    BY <2>1 DEF Accepted
  <2> QED BY <1>w, <2>1, <2>2, <2>3, CopiesStutter
<1>2. CASE TickerPublish
  <2>p. PICK n \in ticker.publish :
           \/ /\ PublishReturnsNil("main", n, 0)
              /\ published' = [published EXCEPT ![n] = @ + 1]
              /\ ticker' = [publish |-> ticker.publish \ {n}, mark |-> {n}]
           \/ /\ ticker' = AfterFailedRepublish(n)
              /\ UNCHANGED <<msg, published, events>>
    BY <1>2 DEF TickerPublish
  <2>n. n \in Notification /\ Accepted(n)
    BY <1>k
  <2>u. UNCHANGED <<row, job, delivered>>
    BY <1>2 DEF TickerPublish
  <2>a. \A m \in Notification : Accepted(m) => Accepted(m)'
    BY <2>u DEF Accepted
  <2>b. ticker'.publish \cup ticker'.mark \subseteq {m \in Notification : Accepted(m)}
    BY <1>t, <1>k, <2>p DEF AfterFailedRepublish, TypeOK, Work
  <2>1. CASE /\ PublishReturnsNil("main", n, 0)
             /\ published' = [published EXCEPT ![n] = @ + 1]
    <3>1. \A m \in Notification : published'[m] > 0 => published[m] > 0 \/ Accepted(m)
      BY <1>t, <2>1, <2>n DEF TypeOK
    <3>2. Known'
      BY <1>w, <2>a, <2>b, <3>1
    <3>3. \A m \in Notification : events[m] \subseteq events'[m]
      BY <2>1, <2>n, NoteGrows
      DEF PublishReturnsNil, PublishAccepted, PublishVanishes, RInv, LInv, Event
    <3>4. Grows
      BY <1>t, <2>1, <2>n, <2>u, <3>3 DEF Grows, TypeOK
    <3>5. "main" \in Queue /\ 0 \in 0 .. MaxRetries
      BY MaxRetriesAssumption DEF Queue
    <3>6. AStep
      BY <2>1, <2>n, <2>u, <3>4, <3>5, PublishCustody
    <3> QED BY <3>2, <3>6
  <2>2. CASE UNCHANGED <<msg, published, events>>
    BY <1>w, <2>2, <2>u, <2>a, <2>b, CopiesStutter
  <2> QED BY <2>p, <2>1, <2>2
<1>3. CASE TickerMark
  <2>1. PICK n \in ticker.mark : Save(n, "queued", {}) \/ SaveFails(n, "queued", {})
    BY <1>3 DEF TickerMark
  <2>2. UNCHANGED <<msg, job, delivered, published>>
    BY <1>3 DEF TickerMark
  <2>3. Grows
    BY <1>k, <2>1, <2>2, SaveFacts, StutterGrows DEF RInv, LInv, Status
  <2>4. AStep /\ \A m \in Notification : Accepted(m) => Accepted(m)'
    BY <1>k, <2>1, <2>2, <2>3, RowCustody DEF Status
  <2>5. ticker'.publish \cup ticker'.mark \subseteq {m \in Notification : Accepted(m)}
    BY <1>t, <1>k, <1>3 DEF TickerMark, TypeOK, Work
  <2> QED BY <1>w, <2>2, <2>4, <2>5
<1> QED BY <1>1, <1>2, <1>3 DEF Ticker

\* What a save, successful or not, does to rows and histories.
LEMMA SaveEffect ==
    ASSUME TInv, NEW n \in Notification, NEW s \in Status \ {"pending", "scheduled"},
           NEW what \in SUBSET Event, Save(n, s, what) \/ SaveFails(n, s, what)
    PROVE  /\ \A m \in Notification : m # n => row'[m] = row[m] /\ events'[m] = events[m]
           /\ \A m \in Notification : Accepted(m) => Accepted(m)'
           /\ \A m \in Notification : events[m] \subseteq events'[m]
           /\ Recoverable(n)' => Recoverable(n)
           /\ what = {} /\ s \notin {"cancelled", "failed"} => events'[n] = events[n]
<1>1. /\ \A m \in Notification \ {n} : row'[m] = row[m]
      /\ row'[n] # row[n] => row'[n] = s
      /\ \A m \in Notification : events[m] \subseteq events'[m]
  BY SaveFacts
<1>2. \A m \in Notification \ {n} : events'[m] = events[m]
  BY DEF Save, SaveFails, Note, TInv, TypeOK
<1>3. what = {} /\ s \notin {"cancelled", "failed"} => events'[n] = events[n]
  BY DEF Save, SaveFails, Note, TInv, TypeOK
<1>4. "none" \notin Status
  BY DEF Status
<1> QED BY <1>1, <1>2, <1>3, <1>4 DEF Accepted, Recoverable

\* A step of the handler of one copy, of which nothing is delivered or closed.
LEMMA QuietCopy ==
    ASSUME RInv, LInv', UNCHANGED <<row, delivered, events, published>>,
           NEW c \in Copy, Stored(c), NEW n \in Notification, n = msg[c].id,
           \A d \in Copy : d # c => msg'[d] = msg[d] /\ job'[d] = job[d],
           msg'[c] # NoMessage => msg'[c].id = n
    PROVE  AStep /\ (\A m \in Notification : Accepted(m) => Accepted(m)')
<1>1. Grows
  BY StutterGrows DEF RInv
<1>2. \A m \in Notification : (Accepted(m) => Accepted(m)') /\ (Recoverable(m)' => Recoverable(m))
  BY DEF Accepted, Recoverable
<1>3. \A m \in Notification : m # n =>
         row'[m] = row[m] /\ delivered'[m] = delivered[m] /\ events'[m] = events[m]
  OBVIOUS
<1>4. AStep
  BY <1>1, <1>2, <1>3, CopyCustody
<1> QED BY <1>2, <1>4

LEMMA DeliveryRefines ==
    ASSUME RInv, LInv', NEW c \in Copy, DeliverMain(c) \/ DeliverDLQ(c) \/ BrokerExpire(c)
    PROVE  AStep /\ Known'
<1>t. TInv
  BY DEF RInv, LInv
<1>s. Stored(c) /\ msg[c] \in Message /\ msg[c].id \in Notification
  BY <1>t, StoredType DEF DeliverMain, DeliverDLQ, BrokerExpire, Expire, TInv, Message
<1>u. UNCHANGED <<row, delivered, events, published, creator, ticker, cancelling>>
  BY DEF DeliverMain, DeliverDLQ, Take, BrokerExpire
<1>1. /\ msg'[c] # NoMessage => msg'[c].id = msg[c].id
      /\ \A d \in Copy : d # c => msg'[d] = msg[d] /\ job'[d] = job[d]
  <2>1. CASE DeliverMain(c) \/ DeliverDLQ(c)
    <3>1. PICK j \in {"read", "mark"} : Take(c, j)
      BY <2>1 DEF DeliverMain, DeliverDLQ
    <3> QED BY <1>t, <1>s, <3>1 DEF Take, TInv, TypeOK, BrokerTypeOK, Message
  <2>2. CASE BrokerExpire(c)
    <3>1. DeadLettered(msg[c]).id = msg[c].id
      BY <2>2, <1>s DEF BrokerExpire, Expire, DeadLettered, Message, Queue
    <3> QED BY <1>t, <2>2, <3>1 DEF BrokerExpire, Expire, TInv, TypeOK, BrokerTypeOK
  <2> QED BY <2>1, <2>2
<1>2. AStep /\ \A m \in Notification : Accepted(m) => Accepted(m)'
  BY <1>s, <1>u, <1>1, QuietCopy
<1> QED BY <1>u, <1>2, KnownUnchanged

LEMMA MainRefines ==
    ASSUME RInv, LInv', NEW c \in Copy,
           \/ ProcessRead(c) \/ ProcessSave(c) \/ Send(c) \/ MarkSent(c)
           \/ AnnounceSent(c) \/ Acknowledge(c)
    PROVE  AStep /\ Known'
<1>t. TInv /\ LInv
  BY DEF RInv, LInv
<1>h. job[c] # "idle"
  BY DEF ProcessRead, ProcessSave, Send, MarkSent, AnnounceSent, Acknowledge
<1> PICK n \in Notification : n = msg[c].id
  BY <1>t, <1>h, HandledCopy
<1>s. Stored(c)
  BY <1>t, <1>h, HandledCopy
<1>u. UNCHANGED <<published, creator, ticker, cancelling>>
  BY DEF ProcessRead, ProcessSave, Send, MarkSent, AnnounceSent, Acknowledge
<1>j. {"save", "send", "markSent", "announceSent", "ack"} \subseteq Job
  BY DEF Job, MainJob
<1>c. /\ msg'[c] # NoMessage => msg'[c].id = n
      /\ \A d \in Copy : d # c => msg'[d] = msg[d] /\ job'[d] = job[d]
  <2>1. \/ Nack(c) \/ Ack(c)
        \/ \E j \in {"save", "send", "markSent", "announceSent", "ack"} : Goto(c, j)
    BY DEF ProcessRead, ProcessSave, Send, MarkSent, AnnounceSent, Acknowledge
  <2>2. CASE Ack(c)
    BY <1>t, <1>h, <2>2, SettleFacts DEF Ack
  <2> QED BY <1>t, <1>h, <1>j, <2>1, <2>2, GotoFacts, NackFacts
<1>1. CASE ProcessRead(c) \/ AnnounceSent(c) \/ Acknowledge(c)
  <2>1. UNCHANGED <<row, delivered, events, published>>
    BY <1>1 DEF ProcessRead, AnnounceSent, Acknowledge
  <2>2. AStep /\ \A m \in Notification : Accepted(m) => Accepted(m)'
    BY <1>s, <1>c, <2>1, QuietCopy
  <2> QED BY <1>u, <2>2, KnownUnchanged
<1>2. CASE ProcessSave(c) \/ MarkSent(c)
  <2>1. PICK s \in {"processing", "sent"} : Save(n, s, {}) \/ SaveFails(n, s, {})
    BY <1>2 DEF ProcessSave, MarkSent
  <2>2. UNCHANGED delivered
    BY <1>2 DEF ProcessSave, MarkSent
  <2>3. /\ \A m \in Notification : m # n => row'[m] = row[m] /\ events'[m] = events[m]
        /\ \A m \in Notification : Accepted(m) => Accepted(m)'
        /\ \A m \in Notification : events[m] \subseteq events'[m]
        /\ Recoverable(n)' => Recoverable(n)
        /\ events'[n] = events[n]
    BY <1>t, <2>1, SaveEffect DEF Status
  <2>4. Grows
    BY <1>t, <1>u, <2>2, <2>3, StutterGrows
  <2>5. AStep
    BY <1>s, <1>c, <2>2, <2>3, <2>4, CopyCustody
  <2> QED BY <1>u, <2>3, <2>5, KnownUnchanged
<1>3. CASE Send(c)
  <2>1. UNCHANGED row /\ Carrying(c)
    BY <1>3, <1>s DEF Send, Carrying, Settling
  <2>2. /\ delivered' = delivered \/ delivered' = [delivered EXCEPT ![n] = @ + 1]
        /\ UNCHANGED events \/ (Note(n, {"lost"}) /\ UNCHANGED delivered)
    BY <1>3 DEF Send
  <2>3. /\ \A m \in Notification : m # n => delivered'[m] = delivered[m] /\ events'[m] = events[m]
        /\ Grows
    BY <1>t, <1>u, <2>1, <2>2 DEF TInv, TypeOK, Grows, Note
  <2>4. \A m \in Notification : (Accepted(m) => Accepted(m)') /\ (Recoverable(m)' => Recoverable(m))
    BY <2>1 DEF Accepted, Recoverable
  <2>5. AStep
    BY <1>s, <1>c, <2>1, <2>2, <2>3, <2>4, CopyCustody
  <2> QED BY <1>u, <2>4, <2>5, KnownUnchanged
<1> QED BY <1>1, <1>2, <1>3

LEMMA DLQRefines ==
    ASSUME RInv, LInv', NEW c \in Copy,
           MarkFailure(c) \/ Retry(c) \/ Report(c) \/ AnnounceFailed(c)
    PROVE  AStep /\ Known'
<1>t. TInv /\ LInv
  BY DEF RInv, LInv
<1>h. job[c] # "idle"
  BY DEF MarkFailure, Retry, Report, AnnounceFailed
<1> PICK n \in Notification : n = msg[c].id
  BY <1>t, <1>h, HandledCopy
<1>s. Stored(c) /\ msg[c] \in Message /\ Accepted(n)
  BY <1>t, <1>h, HandledCopy DEF LInv, CopyPublished, RInv, Known
<1>u. UNCHANGED <<published, delivered, creator, ticker, cancelling>>
  BY DEF MarkFailure, Retry, Report, AnnounceFailed
<1>d. Discarding(c) \in SUBSET Event
  BY DEF Discarding, Event
<1>v. Verdict(row[n]) \in Job \cap Settling /\ {"retry", "report", "ack"} \subseteq Job
  BY DEF Verdict, Job, DLQJob, Settling
<1>c. ASSUME Nack(c) \/ \E j \in Job : Goto(c, j)
      PROVE  /\ msg'[c] # NoMessage => msg'[c].id = n
             /\ \A d \in Copy : d # c => msg'[d] = msg[d] /\ job'[d] = job[d]
  BY <1>c, <1>t, <1>h, GotoFacts, NackFacts
<1>1. CASE MarkFailure(c)
  <2>1. PICK s \in {"retrying", "failed"}, what \in {{}, Discarding(c)} :
           Save(n, s, what) \/ SaveFails(n, s, what)
    BY <1>1 DEF MarkFailure
  <2>2. Nack(c) \/ \E j \in Job : Goto(c, j)
    BY <1>1, <1>v DEF MarkFailure
  <2>3. Carrying(c)
    BY <1>1, <1>s DEF MarkFailure, Carrying, Settling
  <2>4. /\ \A m \in Notification : m # n => row'[m] = row[m] /\ events'[m] = events[m]
        /\ \A m \in Notification : Accepted(m) => Accepted(m)'
        /\ \A m \in Notification : events[m] \subseteq events'[m]
        /\ Recoverable(n)' => Recoverable(n)
    BY <1>t, <1>d, <2>1, SaveEffect DEF Status
  <2>5. Grows
    BY <1>t, <1>u, <2>4, StutterGrows
  <2>6. AStep
    BY <1>s, <1>u, <1>c, <2>2, <2>3, <2>4, <2>5, CopyCustody
  <2> QED BY <1>u, <2>4, <2>6, KnownUnchanged
<1>2. CASE Retry(c)
  <2>1. row' = row
    BY <1>2 DEF Retry
  <2>2. \A m \in Notification : (Accepted(m) => Accepted(m)') /\ (Recoverable(m)' => Recoverable(m))
    BY <2>1 DEF Accepted, Recoverable
  <2>3. CASE /\ PublishReturnsNil("retry", n, msg[c].retry + 1)
             /\ job' = [job EXCEPT ![c] = Verdict(row[n])]
    <3>1. msg[c].retry + 1 \in 0 .. MaxRetries /\ "retry" \in Queue
      BY <1>2, <1>t, <1>s, MaxRetriesAssumption
      DEF Retry, TInv, JobsFit, RetriesLeft, Message, Queue
    <3>2. \A d \in Copy : job'[d] # job[d] =>
                             Stored(d) /\ msg[d].id = n /\ job'[d] \in Settling
      BY <1>t, <1>s, <1>v, <2>3 DEF TInv, TypeOK
    <3>3. \A m \in Notification : events[m] \subseteq events'[m]
      BY <1>t, <2>3, NoteGrows
      DEF PublishReturnsNil, PublishAccepted, PublishVanishes, Event
    <3>4. Grows
      BY <1>t, <1>u, <3>3, StutterGrows
    <3>5. AStep
      BY <1>s, <1>u, <2>1, <2>3, <3>1, <3>2, <3>4, PublishCustody
    <3> QED BY <1>u, <2>2, <3>5, KnownUnchanged
  <2>4. CASE Nack(c) /\ Note(n, Discarding(c))
    <3>1. \A m \in Notification : events[m] \subseteq events'[m]
      BY <1>t, <1>d, <2>4, NoteGrows
    <3>2. \A m \in Notification : m # n => events'[m] = events[m]
      BY <1>t, <2>4 DEF Note, TInv, TypeOK
    <3>3. Grows
      BY <1>t, <1>u, <3>1, StutterGrows
    <3>4. Carrying(c)
      BY <1>2, <1>s DEF Retry, Carrying, Settling
    <3>5. AStep
      BY <1>s, <1>u, <1>c, <2>1, <2>2, <2>4, <3>2, <3>3, <3>4, CopyCustody
    <3> QED BY <1>u, <2>2, <3>5, KnownUnchanged
  <2> QED BY <1>2, <2>3, <2>4 DEF Retry
<1>3. CASE Report(c) \/ AnnounceFailed(c)
  <2>1. UNCHANGED <<row, delivered, events, published>>
    BY <1>3 DEF Report, AnnounceFailed
  <2>2. Nack(c) \/ \E j \in Job : Goto(c, j)
    BY <1>3, <1>v DEF Report, AnnounceFailed
  <2>3. AStep /\ \A m \in Notification : Accepted(m) => Accepted(m)'
    BY <1>s, <1>c, <2>1, <2>2, QuietCopy
  <2> QED BY <1>u, <2>3, KnownUnchanged
<1> QED BY <1>1, <1>2, <1>3

\* With the process, what handlers had done with goes back to the broker.
LEMMA ProcessRefines ==
    ASSUME RInv, LInv', Crash \/ Stop \/ Cut \/ Exit \/ Restart
    PROVE  AStep /\ Known'
<1>u. UNCHANGED <<row, delivered, events, published>>
  BY DEF Crash, Exit, Die, Stop, Cut, Restart
<1>a. \A m \in Notification : Accepted(m)' <=> Accepted(m)
  BY <1>u DEF Accepted
<1>1. CASE Die
  <2> DEFINE N == {m \in Notification : Carried(m)' /\ ~Carried(m)}
  <2>1. \A c \in Copy : (Stored(c)' <=> Stored(c)) /\ (Stored(c) => msg'[c].id = msg[c].id)
    <3> TAKE c \in Copy
    <3>1. CASE Stored(c)
      <4>1. msg'[c] = Requeued(msg[c]) /\ msg[c] \in Message
        BY <1>1, <3>1, StoredType DEF Die, AllRequeued, RInv, LInv, TInv
      <4> QED BY <3>1, <4>1, RequeuedType, NoMessageAssumption DEF Stored
    <3>2. CASE ~Stored(c)
      BY <1>1, <3>2 DEF Die, AllRequeued, Stored
    <3> QED BY <3>1, <3>2
  <2>2. \A m \in Notification : Carried(m) => Carried(m)'
    BY <1>1, <2>1 DEF Die, Carried, Carrying, Settling
  <2>3. ASSUME NEW m \in N PROVE delivered[m] > 0 \/ Closed(m)
    <3>1. PICK c \in Copy : Stored(c) /\ msg[c].id = m
      BY <2>1 DEF Carried, Carrying
    <3>2. published[m] > 0
      BY <3>1 DEF RInv, LInv, CopyPublished
    <3> QED BY <3>2 DEF RInv, LInv, PublishedKept, Concluded, Lost, Closed
  <2>4. \A m \in Notification :
           Custody(m)' = IF m \in N THEN Custody(m) \cup {"broker"} ELSE Custody(m)
    BY <1>u, <2>2 DEF Custody, Recoverable
  <2>5. Promise!Reclaim(N)
    BY <1>u, <1>a, <2>3, <2>4 DEF Promise!Reclaim, Promise!Settled, Closed
  <2>6. AStep
    BY <2>5 DEF AStep, Promise!ANext
  <2>7. Known'
    BY <1>1, <1>u, <1>a, KnownKept DEF Die, NoWork
  <2> QED BY <2>6, <2>7
<1>2. CASE Stop \/ Cut \/ Restart
  BY <1>2, <1>a, CopiesStutter, KnownUnchanged DEF Stop, Cut, Restart
<1> QED BY <1>1, <1>2 DEF Crash, Exit

-----------------------------------------------------------------------------

LEMMA RInvNext == RInv /\ [Next]_vars => RInv' /\ AStep
<1> SUFFICES ASSUME RInv, [Next]_vars PROVE RInv' /\ AStep
  OBVIOUS
<1>1. LInv'
  BY LInvNext DEF RInv
<1>2. CASE UNCHANGED vars
  <2>1. \A m \in Notification : Accepted(m) => Accepted(m)'
    BY <1>2 DEF vars, Accepted
  <2> QED BY <1>1, <1>2, <2>1, CopiesStutter, KnownUnchanged DEF vars, RInv
<1>3. CASE Next
  BY <1>1, <1>3, CreateRefines, CreatorRefines, CancelRefines, TickerRefines,
     DeliveryRefines, MainRefines, DLQRefines, ProcessRefines
  DEF Next, Creator, Handle, RInv
<1> QED BY <1>2, <1>3

LEMMA InitRefines == Init => Promise!AInit
BY DEF Init, BrokerInit, Promise!AInit, Accepted, Custody, Recoverable, Carried, Carrying,
       Stored

\* Until a notification is settled, the database or the broker answers for it: every
\* step of creators, ticker, consumers, cancellers and outages is a step of
\* AtLeastOnce, for every number of notifications, copies, faults and outages.
THEOREM PipelineKeepsCustody == Spec => ImplementsAtLeastOnce
<1>1. RInv /\ [Next]_vars => [Promise!ANext]_(Promise!avars)
  BY RInvNext DEF AStep
<1>2. Spec => []RInv
  BY RInvInit, RInvNext, PTL DEF Spec
<1> QED
  BY <1>1, <1>2, InitRefines, PTL DEF Spec, ImplementsAtLeastOnce, Promise!ASpec
=============================================================================
