--------------------- MODULE NotificationCreationProofs ---------------------
(***************************************************************************)
(* What becomes of idempotency keys and of requests, for any number of     *)
(* requests, editors and database failures; none of that depends on what   *)
(* the editors do to the templates.  What an update of a template may      *)
(* write over.  And what the rows say: one substitution in what their      *)
(* template said at one moment, with TemplateRenderProofs.                 *)
(***************************************************************************)
EXTENDS NotificationCreation, TemplateRenderProofs, TLAPS

\* Rows come from the insert of their request, which knows all its contents.
Inserted ==
    \A r \in Request :
        /\ request[r].step # "done" => Sent(r) = {} /\ request[r].answer = "none"
        /\ \A n \in notification : n.request = r => n.key = request[r].key

\* The loop has resolved every item before the next one.
InOrder ==
    \A r \in Request :
        /\ request[r].resolved = 1 .. request[r].next - 1
        /\ request[r].next <= Len(request[r].items) + 1
        /\ request[r].step \in {"ready", "check"} => request[r].next = 1
        /\ Len(request[r].items) <= MaxBatch

KeyHasOneItem ==
    \A r \in Request : request[r].key # NoKey => Len(request[r].items) = 1

CreationTypeOK ==
    /\ notification \subseteq Notification
    /\ request \in [Request -> Progress]

CreationInv ==
    /\ CreationTypeOK
    /\ Inserted
    /\ InOrder
    /\ KeyHasOneItem
    /\ KeyOnce
    /\ RejectedHasTwin
    /\ AllOrNothing

-----------------------------------------------------------------------------
\* A step that leaves the rows alone and takes one request on, without an
\* answer that needs rows, keeps the invariant.
LEMMA RequestGoesOn ==
    ASSUME CreationInv, NEW r \in Request, NEW p \in Progress,
           request[r].step # "done",
           notification' = notification,
           request' = [request EXCEPT ![r] = p],
           p.resolved = 1 .. p.next - 1,
           p.next <= Len(p.items) + 1,
           p.step \in {"ready", "check"} => p.next = 1,
           Len(p.items) <= MaxBatch,
           p.key # NoKey => Len(p.items) = 1,
           p.step # "done" => p.answer = "none",
           p.answer # "created",
           p.answer = "duplicate" => KeyTaken(p.key)
    PROVE  CreationInv'
<1>1. CreationTypeOK'
  BY DEF CreationInv, CreationTypeOK
<1>2. /\ request'[r] = p
      /\ \A q \in Request : q # r => request'[q] = request[q]
      /\ \A q \in Request : Sent(q)' = Sent(q)
      /\ Sent(r) = {}
      /\ \A n \in notification : n.request # r
  <2>1. /\ request'[r] = p
        /\ \A q \in Request : q # r => request'[q] = request[q]
    BY DEF CreationInv, CreationTypeOK
  <2>2. \A q \in Request : Sent(q)' = Sent(q)
    BY DEF Sent
  <2>3. Sent(r) = {}
    BY DEF CreationInv, Inserted
  <2>4. \A n \in notification : n.request # r
    BY <2>3 DEF Sent
  <2> QED
    BY <2>1, <2>2, <2>3, <2>4
<1>3. Inserted'
  BY <1>2 DEF CreationInv, Inserted
<1>4. InOrder' /\ KeyHasOneItem'
  BY <1>2 DEF CreationInv, InOrder, KeyHasOneItem
<1>5. KeyOnce'
  BY DEF CreationInv, KeyOnce
<1>6. RejectedHasTwin'
  BY <1>2 DEF CreationInv, RejectedHasTwin, KeyTaken
<1>7. AllOrNothing'
  BY <1>2 DEF CreationInv, AllOrNothing
<1> QED
  BY <1>1, <1>3, <1>4, <1>5, <1>6, <1>7 DEF CreationInv

LEMMA CreationInit == Init => CreationInv
<1> SUFFICES ASSUME Init PROVE CreationInv
  OBVIOUS
<1> DEFINE fresh == [step |-> "ready", key |-> NoKey, items |-> <<>>,
                     next |-> 1, resolved |-> {}, answer |-> "none"]
<1>1. fresh \in Progress
  BY MaxBatchAssumption DEF Progress
<1>2. notification = {} /\ request = [r \in Request |-> fresh]
  BY DEF Init
<1>3. CreationTypeOK
  BY <1>1, <1>2 DEF CreationTypeOK
<1>4. \A r \in Request : request[r] = fresh /\ Sent(r) = {}
  BY <1>2 DEF Sent
<1>5. /\ fresh.resolved = 1 .. fresh.next - 1 /\ fresh.next <= Len(fresh.items) + 1
      /\ fresh.next = 1 /\ Len(fresh.items) <= MaxBatch
  BY MaxBatchAssumption
<1>6. Inserted /\ KeyOnce
  BY <1>2, <1>4 DEF Inserted, KeyOnce
<1>7. InOrder
  <2> HIDE DEF fresh
  <2> QED
    BY <1>4, <1>5 DEF InOrder
<1>8. KeyHasOneItem /\ RejectedHasTwin /\ AllOrNothing
  BY <1>4 DEF KeyHasOneItem, RejectedHasTwin, AllOrNothing
<1> QED
  BY <1>3, <1>6, <1>7, <1>8 DEF CreationInv

LEMMA ReceiveKeeps ==
    ASSUME CreationInv, NEW r \in Request, NEW input \in Input, Receive(r, input)
    PROVE  CreationInv'
<1> DEFINE old == request[r]
<1>1. /\ old \in Progress /\ old.step = "ready" /\ old.answer = "none"
      /\ old.resolved = 1 .. old.next - 1 /\ old.next = 1
      /\ old.next <= Len(old.items) + 1
      /\ notification' = notification
  BY DEF CreationInv, CreationTypeOK, Inserted, InOrder, Receive
<1>2. CASE Valid(input)
  <2> DEFINE p == [old EXCEPT !.step = IF input.key = NoKey THEN "resolve" ELSE "check",
                              !.key = input.key, !.items = input.items]
  <2>1. /\ input.key \in Key \cup {NoKey} /\ input.items \in Seq(Item)
        /\ input.key # NoKey => Len(input.items) = 1
    BY InputAssumption
  <2>2. p \in Progress
    BY <1>1, <2>1 DEF Progress
  <2>3. /\ p.resolved = old.resolved /\ p.next = old.next /\ p.answer = old.answer
        /\ p.step \in {"resolve", "check"} /\ p.key = input.key /\ p.items = input.items
    BY <1>1 DEF Progress
  <2>4. request' = [request EXCEPT ![r] = p]
    BY <1>2 DEF Receive
  <2>5. p.next <= Len(p.items) + 1 /\ Len(p.items) <= MaxBatch
    BY <1>1, <1>2, <2>1, <2>3, MaxBatchAssumption DEF Valid, SizeWithin
  <2> HIDE DEF p
  <2> QED
    BY <1>1, <2>1, <2>2, <2>3, <2>4, <2>5, RequestGoesOn
<1>3. CASE ~Valid(input)
  <2> DEFINE p == [old EXCEPT !.step = "done", !.answer = "invalid"]
  <2>1. p \in Progress
    BY <1>1 DEF Progress
  <2>2. request' = [request EXCEPT ![r] = p]
    BY <1>3 DEF Receive, Respond
  <2>3. /\ p.resolved = old.resolved /\ p.next = old.next /\ p.answer = "invalid"
        /\ p.step = "done" /\ p.key = old.key /\ p.items = old.items
    BY <1>1 DEF Progress
  <2>4. (p.key # NoKey => Len(p.items) = 1) /\ Len(p.items) <= MaxBatch
    BY <2>3 DEF CreationInv, InOrder, KeyHasOneItem
  <2> HIDE DEF p
  <2> QED
    BY <1>1, <2>1, <2>2, <2>3, <2>4, RequestGoesOn
<1> QED
  BY <1>2, <1>3

\* A request that ends without rows.
LEMMA RespondKeeps ==
    ASSUME CreationInv, NEW r \in Request,
           NEW a \in {"invalid", "notFound", "duplicate", "error"},
           request[r].step # "done", Respond(r, a), notification' = notification,
           a = "duplicate" => KeyTaken(request[r].key)
    PROVE  CreationInv'
<1> DEFINE p == [request[r] EXCEPT !.step = "done", !.answer = a]
<1>1. request[r] \in Progress
  BY DEF CreationInv, CreationTypeOK
<1>2. p \in Progress
  BY <1>1 DEF Progress
<1>3. request' = [request EXCEPT ![r] = p]
  BY DEF Respond
<1>4. /\ p.resolved = request[r].resolved /\ p.next = request[r].next /\ p.answer = a
      /\ p.step = "done" /\ p.key = request[r].key /\ p.items = request[r].items
  BY <1>1 DEF Progress
<1>5. /\ p.resolved = 1 .. p.next - 1 /\ p.next <= Len(p.items) + 1
      /\ p.key # NoKey => Len(p.items) = 1
      /\ Len(p.items) <= MaxBatch
  BY <1>4 DEF CreationInv, InOrder, KeyHasOneItem
<1> HIDE DEF p
<1> QED
  BY <1>2, <1>3, <1>4, <1>5, RequestGoesOn

LEMMA CheckKeyKeeps ==
    ASSUME CreationInv, NEW r \in Request, CheckKey(r)
    PROVE  CreationInv'
<1> DEFINE old == request[r]
           p == [old EXCEPT !.step = "resolve"]
<1>1. /\ old \in Progress /\ old.step = "check" /\ notification' = notification
  BY DEF CreationInv, CreationTypeOK, CheckKey
<1>2. CASE request' = [request EXCEPT ![r].step = "resolve"]
  <2>1. p \in Progress
    BY <1>1 DEF Progress
  <2>2. request' = [request EXCEPT ![r] = p]
    BY <1>2
  <2>3. /\ p.resolved = old.resolved /\ p.next = old.next /\ p.answer = old.answer
        /\ p.step = "resolve" /\ p.key = old.key /\ p.items = old.items
    BY <1>1 DEF Progress
  <2>4. /\ p.resolved = 1 .. p.next - 1 /\ p.next <= Len(p.items) + 1
        /\ p.key # NoKey => Len(p.items) = 1
        /\ p.answer = "none" /\ Len(p.items) <= MaxBatch
    BY <1>1, <2>3 DEF CreationInv, InOrder, KeyHasOneItem, Inserted
  <2> HIDE DEF p
  <2> QED
    BY <1>1, <2>1, <2>2, <2>3, <2>4, RequestGoesOn
<1>3. CASE Respond(r, "duplicate") /\ KeyTaken(old.key)
  BY <1>1, <1>3, RespondKeeps
<1>4. CASE Respond(r, "error")
  BY <1>1, <1>4, RespondKeeps
<1> QED
  BY <1>2, <1>3, <1>4 DEF CheckKey

LEMMA ResolveKeeps ==
    ASSUME CreationInv, NEW r \in Request, Resolve(r)
    PROVE  CreationInv'
<1> DEFINE old == request[r]
           i == old.next
           p == [old EXCEPT !.next = i + 1, !.resolved = @ \cup {i}]
<1>1. /\ old \in Progress /\ old.step = "resolve" /\ notification' = notification
      /\ i <= Len(old.items)
  BY DEF CreationInv, CreationTypeOK, Resolve
<1>2. CASE request' = [request EXCEPT ![r].next = i + 1, ![r].resolved = @ \cup {i}]
  <2>1. request' = [request EXCEPT ![r] = p]
    BY <1>2
  <2>2. /\ p.resolved = old.resolved \cup {i} /\ p.next = i + 1 /\ p.answer = old.answer
        /\ p.step = "resolve" /\ p.key = old.key /\ p.items = old.items
    BY <1>1 DEF Progress
  <2>3. /\ old.resolved = 1 .. i - 1 /\ old.answer = "none"
        /\ Len(old.items) <= MaxBatch
        /\ old.key # NoKey => Len(old.items) = 1
    BY <1>1 DEF CreationInv, InOrder, KeyHasOneItem, Inserted
  <2>4. i \in Nat /\ i >= 1 /\ Len(old.items) \in Nat
    BY <1>1 DEF Progress
  <2>5. p.resolved = 1 .. p.next - 1 /\ p.next <= Len(p.items) + 1
    BY <1>1, <2>2, <2>3, <2>4
  <2>6. p \in Progress
    <3>1. i \in 1 .. MaxBatch /\ i + 1 \in 1 .. MaxBatch + 1
      BY <1>1, <2>3, <2>4, MaxBatchAssumption
    <3> QED
      BY <1>1, <3>1 DEF Progress
  <2> HIDE DEF p
  <2> QED
    BY <1>1, <2>1, <2>2, <2>3, <2>5, <2>6, RequestGoesOn
<1>3. CASE Respond(r, "notFound")
  BY <1>1, <1>3, RespondKeeps
<1> QED
  BY <1>2, <1>3 DEF Resolve, RenderFailed

\* The only step that adds rows: all the items of r, none of which was there,
\* under a key no row has.
LEMMA InsertKeeps ==
    ASSUME CreationInv, NEW r \in Request, Insert(r)
    PROVE  CreationInv'
<1> DEFINE old == request[r]
<1>1. /\ old \in Progress /\ old.step = "resolve" /\ old.next > Len(old.items)
      /\ Sent(r) = {} /\ Len(old.items) \in Nat
      /\ old.key # NoKey => Len(old.items) = 1
  BY DEF CreationInv, CreationTypeOK, Inserted, KeyHasOneItem, Insert, Progress
<1>2. old.resolved = 1 .. Len(old.items) /\ Len(old.items) <= MaxBatch
  BY <1>1 DEF CreationInv, InOrder, Progress
<1>3. ASSUME NEW a \in {"created", "error"}, Respond(r, a), ~KeyRejected(r),
             notification' = notification \cup RowsOf(r)
      PROVE  CreationInv'
  <2> DEFINE p == [old EXCEPT !.step = "done", !.answer = a]
  <2>1. /\ p \in Progress /\ p.step = "done" /\ p.answer = a /\ p.key = old.key
        /\ p.items = old.items /\ p.next = old.next /\ p.resolved = old.resolved
    BY <1>1 DEF Progress
  <2>2. /\ request' \in [Request -> Progress] /\ request'[r] = p
        /\ \A q \in Request : q # r => request'[q] = request[q]
    BY <1>3, <2>1 DEF Respond, CreationInv, CreationTypeOK
  <2> HIDE DEF p
  <2>3. \A n \in RowsOf(r) :
            /\ n \in Notification /\ n.request = r /\ n.key = old.key
            /\ n = [request |-> r, item |-> n.item, key |-> old.key]
            /\ n.item \in 1 .. Len(old.items)
    BY <1>1, <1>2, MaxBatchAssumption DEF RowsOf, Notification, Progress
  <2>4. \A n \in notification : n.request # r
    BY <1>1 DEF Sent
  <2>5. CreationTypeOK'
    BY <1>3, <2>2, <2>3 DEF CreationInv, CreationTypeOK
  <2>6. Sent(r)' = 1 .. Len(old.items)
    <3>1. ASSUME NEW i \in 1 .. Len(old.items)
          PROVE  \E n \in RowsOf(r) : n.item = i /\ n.request = r
      <4> DEFINE n == [request |-> r, item |-> i, key |-> old.key]
      <4>1. n \in RowsOf(r)
        BY <1>2 DEF RowsOf
      <4> QED
        BY <4>1
    <3> QED
      BY <1>3, <2>3, <2>4, <3>1 DEF Sent
  <2>7. \A q \in Request : q # r => Sent(q)' = Sent(q)
    BY <1>3, <2>3 DEF Sent
  <2>8. Inserted'
    BY <1>3, <2>1, <2>2, <2>3, <2>4, <2>7 DEF CreationInv, Inserted
  <2>9. InOrder' /\ KeyHasOneItem'
    BY <2>1, <2>2 DEF CreationInv, InOrder, KeyHasOneItem
  <2>10. KeyOnce'
    <3>1. \A m, n \in RowsOf(r) : m.key = n.key /\ m.key # NoKey => m = n
      <4> SUFFICES ASSUME NEW m \in RowsOf(r), NEW n \in RowsOf(r), m.key # NoKey
                   PROVE  m = n
        OBVIOUS
      <4>1. Len(old.items) = 1
        BY <1>1, <2>3
      <4>2. m.item = 1 /\ n.item = 1
        BY <2>3, <4>1
      <4> QED
        BY <2>3, <4>2
    <3>2. \A m \in notification, n \in RowsOf(r) : m.key = n.key => m.key = NoKey
      BY <1>3, <2>3 DEF KeyRejected, KeyTaken
    <3> QED
      BY <1>3, <3>1, <3>2 DEF CreationInv, KeyOnce
  <2>11. RejectedHasTwin'
    BY <1>3, <2>1, <2>2 DEF CreationInv, RejectedHasTwin
  <2>12. AllOrNothing'
    BY <1>3, <2>1, <2>2, <2>6, <2>7 DEF CreationInv, AllOrNothing
  <2> QED
    BY <2>5, <2>8, <2>9, <2>10, <2>11, <2>12 DEF CreationInv
<1>4. ASSUME NEW a \in {"duplicate", "error"}, Respond(r, a), notification' = notification,
             a = "duplicate" => KeyRejected(r)
      PROVE  CreationInv'
  BY <1>1, <1>4, RespondKeeps DEF KeyRejected
<1> QED
  BY <1>3, <1>4 DEF Insert, InsertFailed

LEMMA CreationStep == CreationInv /\ [Next]_vars => CreationInv'
<1> SUFFICES ASSUME CreationInv, [Next]_vars PROVE CreationInv'
  OBVIOUS
<1>1. CASE UNCHANGED <<notification, request>>
  BY <1>1 DEF CreationInv, CreationTypeOK, Inserted, InOrder, KeyHasOneItem, KeyOnce,
     RejectedHasTwin, AllOrNothing, Sent
<1>2. ASSUME NEW r \in Request, NEW input \in Input, Receive(r, input)
      PROVE  CreationInv'
  BY <1>2, ReceiveKeeps
<1>3. ASSUME NEW r \in Request, CheckKey(r) \/ Resolve(r) \/ Insert(r)
      PROVE  CreationInv'
  BY <1>3, CheckKeyKeeps, ResolveKeeps, InsertKeeps
<1> QED
  BY <1>1, <1>2, <1>3 DEF Next, vars

-----------------------------------------------------------------------------
THEOREM CreationInvariant == Spec => []CreationInv
  BY CreationInit, CreationStep, PTL DEF Spec

\* At most one notification is made for an idempotency key, although Create
\* looks the key up long before it inserts (service.go:57 and :117).
THEOREM KeyMadeOnce == Spec => []KeyOnce
<1>1. CreationInv => KeyOnce
  BY DEF CreationInv
<1> QED
  BY <1>1, CreationInvariant, PTL

\* Nobody is told duplicate unless another request with the key has made its
\* notification (repository.go:42 maps no other failure to it).
THEOREM RejectedOnlyForTwin == Spec => []RejectedHasTwin
<1>1. CreationInv => RejectedHasTwin
  BY DEF CreationInv
<1> QED
  BY <1>1, CreationInvariant, PTL

\* CreateBatch inserts all of a batch or nothing (repository.go:51), whatever
\* becomes of templates while it renders.
THEOREM BatchAllOrNothing == Spec => []AllOrNothing
<1>1. CreationInv => AllOrNothing
  BY DEF CreationInv
<1> QED
  BY <1>1, CreationInvariant, PTL

-----------------------------------------------------------------------------
(* Templates *)

\* Whoever is about to save has read a row that stands as it was read, unless
\* another handler wrote it since.
CopiesFresh ==
    \A e \in Editor :
        edit[e].step \in {"save", "upsert"} /\ ~edit[e].raced =>
            Live(edit[e].id) /\ edit[e].copy = Changed(template[edit[e].id], edit[e].change)

\* And it is a row.
SaversReady ==
    \A e \in Editor :
        edit[e].step \in {"save", "upsert"} =>
            edit[e].id \in Template /\ edit[e].copy \in Row

StoreInv == StoreTypeOK /\ SaversReady /\ CopiesFresh

LEMMA EditType ==
    ASSUME StoreTypeOK, NEW e \in Editor
    PROVE  /\ edit[e] \in Edit /\ DOMAIN edit = Editor
           /\ edit[e].raced \in BOOLEAN
  BY DEF StoreTypeOK, Edit

\* The handlers but e, and the table, are what they were.
LEMMA SaversStay ==
    ASSUME StoreInv, NEW e \in Editor, UNCHANGED template,
           \A f \in Editor : f # e => edit'[f] = edit[f],
           edit'[e].step \in {"save", "upsert"} =>
               /\ edit'[e].id \in Template /\ edit'[e].copy \in Row
               /\ ~edit'[e].raced =>
                      /\ Live(edit'[e].id)
                      /\ edit'[e].copy = Changed(template[edit'[e].id], edit'[e].change)
    PROVE  SaversReady' /\ CopiesFresh'
<1>1. SaversReady'
  BY DEF StoreInv, SaversReady
<1>2. ASSUME NEW f \in Editor, edit'[f].step \in {"save", "upsert"}, ~edit'[f].raced
      PROVE  /\ Live(edit'[f].id)
             /\ edit'[f].copy = Changed(template[edit'[f].id], edit'[f].change)
  <2>1. CASE f = e
    BY <1>2, <2>1
  <2>2. CASE f # e
    BY <1>2, <2>2 DEF StoreInv, CopiesFresh
  <2> QED
    BY <2>1, <2>2
<1>3. \A f \in Editor : Live(edit[f].id)' <=> Live(edit'[f].id)
  BY DEF Live
<1>4. \A f \in Editor : Changed(template[edit[f].id], edit[f].change)'
                            = Changed(template[edit'[f].id], edit'[f].change)
  BY DEF Changed
<1>5. CopiesFresh'
  BY <1>2, <1>3, <1>4 DEF CopiesFresh
<1> QED
  BY <1>1, <1>5

LEMMA TableType ==
    ASSUME StoreTypeOK
    PROVE  /\ template \in [DOMAIN template -> Row] /\ DOMAIN template \subseteq Template
           /\ \A t \in DOMAIN template : template[t] \in Row
  BY DEF StoreTypeOK

LEMMA TableGrows ==
    ASSUME StoreTypeOK, NEW t \in Template, NEW row \in Row,
           template' = [u \in DOMAIN template \cup {t} |-> IF u = t THEN row ELSE template[u]]
    PROVE  template' \in UNION {[T -> Row] : T \in SUBSET Template}
<1> DEFINE T == DOMAIN template \cup {t}
<1>1. template' \in [T -> Row]
  BY TableType
<1>2. T \in SUBSET Template
  BY TableType
<1> HIDE DEF T
<1> QED
  BY <1>1, <1>2

LEMMA FailuresCounted ==
    ASSUME StoreTypeOK, DBFails \/ UNCHANGED dbFailures
    PROVE  dbFailures' \in 0 .. MaxDBFailures
  BY MaxDBFailuresAssumption DEF StoreTypeOK, DBFails

\* A handler ends and the table stands.
LEMMA AnswerKeeps ==
    ASSUME StoreInv, NEW e \in Editor,
           NEW a \in {"ok", "notFound", "conflict", "error"}, Answer(e, a),
           UNCHANGED template, DBFails \/ UNCHANGED dbFailures
    PROVE  StoreInv'
<1> DEFINE q == [edit[e] EXCEPT !.step = "done", !.answer = a]
<1>1. edit[e] \in Edit /\ q \in Edit /\ q.step = "done" /\ edit' = [edit EXCEPT ![e] = q]
  BY DEF StoreInv, StoreTypeOK, Edit, Answer
<1> HIDE DEF q
<1>2. StoreTypeOK'
  BY <1>1, FailuresCounted DEF StoreInv, StoreTypeOK
<1>3. edit'[e].step = "done" /\ \A f \in Editor : f # e => edit'[f] = edit[f]
  BY <1>1 DEF StoreInv, StoreTypeOK
<1> QED
  BY <1>2, <1>3, SaversStay DEF StoreInv

\* A handler ends and has written a row: those who have read it are raced.
LEMMA WrittenKeeps ==
    ASSUME StoreInv, NEW e \in Editor, NEW t \in Template, NEW row \in Row, Written(e, t, row)
    PROVE  StoreInv'
<1>1. PICK a \in {"ok", "error"} :
          /\ edit' = [f \in Editor |->
                         IF f = e
                         THEN [edit[e] EXCEPT !.step = "done", !.id = t, !.answer = a]
                         ELSE [edit[f] EXCEPT !.raced = @ \/ edit[f].id = t]]
          /\ DBFails \/ UNCHANGED dbFailures
  BY DEF Written
<1>2. /\ edit'[e] = [edit[e] EXCEPT !.step = "done", !.id = t, !.answer = a]
      /\ \A f \in Editor : f # e => edit'[f] = [edit[f] EXCEPT !.raced = @ \/ edit[f].id = t]
  BY <1>1
<1>3. edit'[e] \in Edit /\ edit'[e].step = "done"
  <2>1. edit[e] \in Edit
    BY EditType DEF StoreInv
  <2> QED
    BY <1>2, <2>1 DEF Edit
<1>4. ASSUME NEW f \in Editor, f # e
      PROVE  /\ edit'[f] \in Edit
             /\ edit'[f].step = edit[f].step /\ edit'[f].id = edit[f].id
             /\ edit'[f].copy = edit[f].copy /\ edit'[f].change = edit[f].change
             /\ edit'[f].raced \in BOOLEAN
             /\ ~edit'[f].raced => ~edit[f].raced /\ edit[f].id # t
  <2> DEFINE b == edit[f].raced \/ edit[f].id = t
  <2>1. edit[f] \in Edit /\ edit[f].raced \in BOOLEAN /\ b \in BOOLEAN
    BY EditType DEF StoreInv
  <2>2. edit'[f] = [edit[f] EXCEPT !.raced = b]
    BY <1>2, <1>4
  <2>3. ~b => ~edit[f].raced /\ edit[f].id # t
    OBVIOUS
  <2> HIDE DEF b
  <2>4. edit'[f] \in Edit /\ edit'[f].raced = b
    BY <2>1, <2>2 DEF Edit
  <2>5. /\ edit'[f].step = edit[f].step /\ edit'[f].id = edit[f].id
        /\ edit'[f].copy = edit[f].copy /\ edit'[f].change = edit[f].change
    BY <2>1, <2>2 DEF Edit
  <2> QED
    BY <2>1, <2>3, <2>4, <2>5
<1>5. \A u \in DOMAIN template \cup {t} : u # t => template'[u] = template[u]
  BY DEF Written
<1>6. StoreTypeOK'
  <2>1. template' \in UNION {[T -> Row] : T \in SUBSET Template}
    BY TableGrows DEF Written, StoreInv
  <2>2. edit' \in [Editor -> Edit]
    BY <1>1, <1>3, <1>4
  <2>3. dbFailures' \in 0 .. MaxDBFailures
    BY <1>1, FailuresCounted DEF StoreInv
  <2> QED
    BY <2>1, <2>2, <2>3 DEF StoreTypeOK
<1>7. ASSUME NEW f \in Editor, edit'[f].step \in {"save", "upsert"}, ~edit'[f].raced
      PROVE  /\ Live(edit[f].id)'
             /\ edit'[f].copy = Changed(template'[edit'[f].id], edit'[f].change)
  <2>1. f # e
    BY <1>3, <1>7
  <2>2. edit[f].step \in {"save", "upsert"} /\ ~edit[f].raced /\ edit[f].id # t
    BY <1>4, <1>7, <2>1
  <2>3. Live(edit[f].id) /\ edit[f].copy = Changed(template[edit[f].id], edit[f].change)
    BY <2>2 DEF StoreInv, CopiesFresh
  <2>4. edit[f].id \in DOMAIN template /\ template'[edit[f].id] = template[edit[f].id]
    BY <1>5, <2>2, <2>3 DEF Live
  <2>5. edit[f].id \in DOMAIN template'
    BY <2>4 DEF Written
  <2>6. edit'[f].id = edit[f].id
    BY <1>4, <2>1
  <2>7. Live(edit[f].id)'
    BY <2>3, <2>4, <2>5, <2>6 DEF Live
  <2>8. edit'[f].copy = edit[f].copy /\ edit'[f].change = edit[f].change
    BY <1>4, <2>1
  <2>9. template'[edit'[f].id] = template[edit[f].id]
    BY <2>4, <2>6
  <2> QED
    BY <2>3, <2>7, <2>8, <2>9
<1>8. CopiesFresh'
  BY <1>7 DEF CopiesFresh
<1>9. SaversReady'
  <2> SUFFICES ASSUME NEW f \in Editor, edit'[f].step \in {"save", "upsert"}
               PROVE  edit'[f].id \in Template /\ edit'[f].copy \in Row
    BY DEF SaversReady
  <2>1. f # e
    BY <1>3
  <2> QED
    BY <1>4, <2>1 DEF StoreInv, SaversReady
<1> QED
  BY <1>6, <1>8, <1>9 DEF StoreInv

LEMMA ChangedType ==
    ASSUME NEW row \in Row, NEW change \in Change
    PROVE  Changed(row, change) \in Row
  BY DEF Changed, Row, Change

LEMMA StoreInitInv == StoreInit => StoreInv
<1> SUFFICES ASSUME StoreInit PROVE StoreInv
  OBVIOUS
<1>1. edit \in [Editor -> Edit]
  BY DEF StoreInit, Edit, NoChange, Change
<1>2. StoreTypeOK
  <2>1. template \in UNION {[T -> Row] : T \in SUBSET Template}
    BY StoredAssumption DEF StoreInit
  <2>2. dbFailures \in 0 .. MaxDBFailures
    BY MaxDBFailuresAssumption DEF StoreInit
  <2> QED
    BY <1>1, <2>1, <2>2 DEF StoreTypeOK
<1>3. SaversReady /\ CopiesFresh
  BY DEF StoreInit, SaversReady, CopiesFresh
<1> QED
  BY <1>2, <1>3 DEF StoreInv

\* What an update is about to save.
LEMMA SaverHolds ==
    ASSUME StoreInv, NEW e \in Editor, edit[e].step \in {"save", "upsert"}
    PROVE  edit[e] \in Edit /\ edit[e].id \in Template /\ edit[e].copy \in Row
  BY EditType DEF StoreInv, SaversReady

LEMMA UpdateReadKeeps ==
    ASSUME StoreInv, NEW e \in Editor, NEW t \in Template, NEW change \in Change,
           UpdateRead(e, t, change)
    PROVE  StoreInv'
<1>1. CASE Found(t) /\ UNCHANGED dbFailures
           /\ edit' = [edit EXCEPT ![e].step = "save", ![e].id = t, ![e].change = change,
                                   ![e].copy = Changed(template[t], change)]
  <2> DEFINE c == Changed(template[t], change)
             q == [edit[e] EXCEPT !.step = "save", !.id = t, !.change = change, !.copy = c]
  <2>1. c \in Row
    BY <1>1, TableType, ChangedType DEF StoreInv, Found, Live
  <2>2. UNCHANGED template
    BY DEF UpdateRead
  <2> HIDE DEF c
  <2>0. edit[e] \in Edit
    BY EditType DEF StoreInv
  <2>3. /\ q \in Edit /\ q.id = t /\ q.change = change /\ q.copy = c
        /\ edit' = [edit EXCEPT ![e] = q]
    <3>1. edit' = [edit EXCEPT ![e] = q]
      BY <1>1 DEF c
    <3> QED
      BY <2>0, <2>1, <3>1 DEF Edit
  <2> HIDE DEF q
  <2>4. edit'[e] = q /\ \A f \in Editor : f # e => edit'[f] = edit[f]
    BY <2>3 DEF StoreInv, StoreTypeOK
  <2>5. StoreTypeOK'
    <3>1. edit \in [Editor -> Edit] /\ template' = template
      BY <2>2 DEF StoreInv, StoreTypeOK
    <3>2. edit' \in [Editor -> Edit]
      BY <2>3, <3>1
    <3>3. dbFailures' \in 0 .. MaxDBFailures
      BY <1>1, FailuresCounted DEF StoreInv
    <3> QED
      BY <3>1, <3>2, <3>3 DEF StoreInv, StoreTypeOK
  <2>6. Live(t) /\ c = Changed(template[t], change)
    BY <1>1 DEF Found, c
  <2>7. SaversReady' /\ CopiesFresh'
    BY <2>1, <2>2, <2>3, <2>4, <2>6, SaversStay
  <2> QED
    BY <2>5, <2>7 DEF StoreInv
<1>2. CASE Answer(e, "notFound")
  BY <1>2, AnswerKeeps DEF UpdateRead
<1> QED
  BY <1>1, <1>2 DEF UpdateRead

LEMMA UpdateSaveKeeps ==
    ASSUME StoreInv, NEW e \in Editor, UpdateSave(e) \/ UpdateUpsert(e)
    PROVE  StoreInv'
<1> DEFINE t == edit[e].id
           row == edit[e].copy
<1>1. edit[e] \in Edit /\ edit[e].step \in {"save", "upsert"}
  BY SaverHolds DEF UpdateSave, UpdateUpsert
<1>2. CASE Written(e, t, row)
  <2>1. t \in Template /\ row \in Row
    BY <1>1, SaverHolds
  <2> HIDE DEF t, row
  <2> QED
    BY <1>2, <2>1, WrittenKeeps
<1>3. CASE NotWritten(e, t, row, "error")
  BY <1>3, AnswerKeeps DEF NotWritten
<1>4. CASE ~Live(t) /\ edit' = [edit EXCEPT ![e].step = "upsert"]
           /\ UNCHANGED <<template, dbFailures>>
  <2> DEFINE q == [edit[e] EXCEPT !.step = "upsert"]
  <2>1. /\ q \in Edit /\ q.id = t /\ q.copy = row /\ q.raced = edit[e].raced
        /\ edit' = [edit EXCEPT ![e] = q]
    BY <1>1, <1>4 DEF Edit
  <2> HIDE DEF q
  <2>2. edit'[e] = q /\ \A f \in Editor : f # e => edit'[f] = edit[f]
    BY <2>1 DEF StoreInv, StoreTypeOK
  <2>3. StoreTypeOK'
    BY <1>4, <2>1 DEF StoreInv, StoreTypeOK
  <2>4. edit[e].raced
    BY <1>1, <1>4 DEF StoreInv, CopiesFresh
  <2>5. SaversReady' /\ CopiesFresh'
    BY <1>1, <1>4, <2>1, <2>2, <2>4, SaverHolds, SaversStay
  <2> QED
    BY <2>3, <2>5 DEF StoreInv
<1>5. CASE Answer(e, "error") /\ DBFails /\ UNCHANGED template
  BY <1>5, AnswerKeeps
<1> QED
  BY <1>2, <1>3, <1>4, <1>5 DEF UpdateSave, UpdateUpsert


LEMMA StoreInvNext ==
    ASSUME StoreInv, [Next]_vars
    PROVE  StoreInv'
<1>1. CASE UNCHANGED storeVars
  BY <1>1 DEF storeVars, StoreInv, StoreTypeOK, SaversReady, CopiesFresh, Live, Changed
<1>2. ASSUME NEW e \in Editor, NEW t \in Template, NEW n \in Name, NEW x \in Text,
             CreateTemplate(e, t, n, x)
      PROVE  StoreInv'
  <2> DEFINE row == [name |-> n, text |-> x, deleted |-> FALSE]
  <2>1. row \in Row
    BY DEF Row
  <2>2. CASE Written(e, t, row)
    BY <2>1, <2>2, WrittenKeeps
  <2>3. CASE NotWritten(e, t, row, "conflict")
    BY <2>3, AnswerKeeps DEF NotWritten
  <2> QED
    BY <1>2, <2>2, <2>3 DEF CreateTemplate
<1>3. ASSUME NEW e \in Editor, NEW t \in Template, DeleteTemplate(e, t) PROVE StoreInv'
  <2>1. CASE Live(t) /\ Written(e, t, [template[t] EXCEPT !.deleted = TRUE])
    <3> DEFINE row == [template[t] EXCEPT !.deleted = TRUE]
    <3>1. template[t] \in Row
      BY <2>1, TableType DEF StoreInv, Live
    <3>2. row \in Row
      BY <3>1 DEF Row
    <3> HIDE DEF row
    <3>3. Written(e, t, row)
      BY <2>1 DEF row
    <3> QED
      BY <3>2, <3>3, WrittenKeeps
  <2> QED
    BY <1>3, <2>1, AnswerKeeps DEF DeleteTemplate
<1>4. CASE StoreNext
  BY <1>2, <1>3, <1>4, UpdateReadKeeps, UpdateSaveKeeps DEF StoreNext
<1>5. CASE ~StoreNext
  <2>1. ASSUME NEW r \in Request, CheckKey(r) \/ Resolve(r) \/ Insert(r)
        PROVE  UNCHANGED <<template, edit>> /\ (DBFails \/ UNCHANGED dbFailures)
    BY <2>1 DEF CheckKey, Resolve, Insert
  <2>2. ASSUME UNCHANGED <<template, edit>>, DBFails \/ UNCHANGED dbFailures
        PROVE  StoreInv'
    <3>1. StoreTypeOK'
      BY <2>2, FailuresCounted DEF StoreInv, StoreTypeOK
    <3>2. SaversReady' /\ CopiesFresh'
      BY <2>2 DEF StoreInv, SaversReady, CopiesFresh, Live, Changed
    <3> QED
      BY <3>1, <3>2 DEF StoreInv
  <2> QED
    BY <1>1, <1>5, <2>1, <2>2 DEF Next, vars, Receive
<1> QED
  BY <1>4, <1>5

\* A save that meets the row it has read puts the fields of the request into it.
LEMMA SavesItsFields ==
    ASSUME StoreInv, [Next]_vars, NEW e \in Editor, Overwrites(e), ~edit[e].raced
    PROVE  /\ Live(edit[e].id)
           /\ template' = [template EXCEPT
                              ![edit[e].id] = Changed(template[edit[e].id], edit[e].change)]
<1> DEFINE t == edit[e].id
           c == Changed(template[t], edit[e].change)
<1>1. Live(t) /\ edit[e].copy = c /\ edit[e].step \in {"save", "upsert"}
  BY DEF Overwrites, StoreInv, CopiesFresh
<1>2. edit'[e] # edit[e] /\ template' # template /\ edit \in [Editor -> Edit]
  BY DEF Overwrites, StoreInv, StoreTypeOK
<1>3. \A f \in Editor : edit[f] \in Edit /\ (f # e => \A p :
          edit' = [edit EXCEPT ![f] = p] => edit'[e] = edit[e])
  BY <1>2
<1>4. ASSUME NEW f \in Editor, f # e, NEW u, NEW row, Written(f, u, row)
      PROVE  edit'[e].step = edit[e].step
  BY <1>2, <1>4 DEF Written
<1>5. edit'[e].step = "done"
  BY DEF Overwrites
<1>6. ASSUME NEW f \in Editor, NEW u, NEW row, Written(f, u, row)
      PROVE  f = e
  BY <1>1, <1>4, <1>5, <1>6
<1>7. UpdateSave(e) \/ UpdateUpsert(e)
  <2>1. StoreNext
    BY <1>2 DEF Next, vars, storeVars, Receive, CheckKey, Resolve, Insert
  <2>2. ASSUME NEW f \in Editor, NEW u \in Template, NEW n \in Name, NEW x \in Text
        PROVE  ~CreateTemplate(f, u, n, x)
    BY <1>1, <1>2, <1>6 DEF CreateTemplate, NotWritten
  <2>3. ASSUME NEW f \in Editor, NEW u \in Template, NEW change \in Change
        PROVE  ~UpdateRead(f, u, change)
    BY <1>2 DEF UpdateRead
  <2>4. ASSUME NEW f \in Editor, NEW u \in Template
        PROVE  ~DeleteTemplate(f, u)
    BY <1>1, <1>2, <1>6 DEF DeleteTemplate
  <2>5. ASSUME NEW f \in Editor, UpdateSave(f) \/ UpdateUpsert(f)
        PROVE  f = e
    BY <1>2, <1>6, <2>5 DEF UpdateSave, UpdateUpsert, NotWritten
  <2> QED
    BY <2>1, <2>2, <2>3, <2>4, <2>5 DEF StoreNext
<1>8. Written(e, t, edit[e].copy)
  BY <1>2, <1>7 DEF UpdateSave, UpdateUpsert, NotWritten
<1>9. template' = [u \in DOMAIN template \cup {t} |-> IF u = t THEN c ELSE template[u]]
  BY <1>1, <1>8 DEF Written
<1>10. t \in DOMAIN template /\ template \in [DOMAIN template -> Row]
  BY <1>1, TableType DEF Live, StoreInv
<1> HIDE DEF c, t
<1>11. template' = [template EXCEPT ![t] = c]
  BY <1>9, <1>10
<1> QED
  BY <1>1, <1>11 DEF c, t

\* Save of the template service writes over nothing but the fields its request names,
\* and brings no deleted template back, unless another handler wrote the row since
\* GetByID (service.go of notificationtemplate): for any templates, names, texts,
\* editors, database failures and tables to begin with.
THEOREM UpdatesLostInRacesOnly == Spec => OnlyRacesLoseUpdates
<1>1. Init => StoreInv
  BY StoreInitInv DEF Init
<1>2. StoreInv /\ [Next]_vars => StoreInv'
  BY StoreInvNext
<1>3. StoreInv /\ [Next]_vars =>
          [\A e \in Editor :
              LET t == edit[e].id
              IN  Overwrites(e) /\ ~edit[e].raced =>
                  /\ Live(t)
                  /\ template' = [template EXCEPT
                                     ![t] = Changed(template[t], edit[e].change)]]_storeVars
  BY SavesItsFields
<1> QED
  BY <1>1, <1>2, <1>3, PTL DEF Spec, OnlyRacesLoseUpdates

-----------------------------------------------------------------------------
(* Contents *)

ContentType == content \in [Request -> [1 .. MaxBatch -> Content]]

\* What a template gave to an item is what Render may make of that template.
Rendered ==
    \A r \in Request : \A i \in request[r].resolved :
        request[r].items[i].template # NoTemplate =>
            content[r][i].text
                \in Renderings(content[r][i].template, request[r].items[i].variables)

RowsResolved == \A n \in notification : n.item \in request[n.request].resolved

ContentInv ==
    /\ StoreInv
    /\ CreationInv
    /\ ContentType
    /\ Rendered
    /\ RowsResolved

\* An item that is resolved, or about to be.
LEMMA ItemIs ==
    ASSUME CreationInv, NEW r \in Request, NEW i \in 1 .. Len(request[r].items)
    PROVE  /\ request[r].items[i] \in Item
           /\ \E K \in SUBSET Seq(Symbol) :
                 IsFiniteSet(K) /\ request[r].items[i].variables \in [K -> Seq(Symbol)]
<1>1. request[r].items[i] \in Item
  <2>1. request[r].items \in Seq(Item)
    BY DEF CreationInv, CreationTypeOK, Progress
  <2> QED
    BY <2>1, ElementOfSeq
<1>2. PICK K \in {J \in SUBSET Variable : IsFiniteSet(J)} :
         request[r].items[i].variables \in [K -> Value]
  BY <1>1 DEF Item
<1>3. K \in SUBSET Seq(Symbol) /\ request[r].items[i].variables \in [K -> Seq(Symbol)]
  BY <1>2, TextAssumption
<1> QED
  BY <1>1, <1>2, <1>3

LEMMA ResolvedIs ==
    ASSUME CreationInv, NEW r \in Request
    PROVE  request[r].resolved \subseteq 1 .. Len(request[r].items)
<1>1. /\ request[r].resolved = 1 .. request[r].next - 1
      /\ request[r].next <= Len(request[r].items) + 1
  BY DEF CreationInv, InOrder
<1>2. request[r].next \in Nat /\ Len(request[r].items) \in Nat
  BY MaxBatchAssumption, LenProperties DEF CreationInv, CreationTypeOK, Progress
<1> QED
  BY <1>1, <1>2

LEMMA ContentInit == Init => ContentInv
<1> SUFFICES ASSUME Init PROVE ContentInv
  OBVIOUS
<1>1. StoreInv /\ CreationInv
  BY StoreInitInv, CreationInit DEF Init
<1>2. NoContent \in Content
  BY EmptySeq DEF NoContent, Content
<1>3. ContentType
  BY <1>2 DEF Init, ContentType
<1>4. \A r \in Request : request[r].resolved = {}
  BY DEF Init
<1> QED
  BY <1>1, <1>3, <1>4 DEF ContentInv, Rendered, RowsResolved, Init

\* A step that resolves nothing: what is resolved stays, with its content.
LEMMA ContentStays ==
    ASSUME ContentInv, StoreInv', CreationInv', UNCHANGED content,
           \A r \in Request :
               /\ request'[r].resolved = request[r].resolved
               /\ request[r].resolved # {} => request'[r].items = request[r].items,
           \A n \in notification' :
               n \in notification \/ n.item \in request[n.request].resolved
    PROVE  ContentInv'
<1>1. ContentType'
  BY DEF ContentInv, ContentType
<1>2. Rendered'
  <2> SUFFICES ASSUME NEW r \in Request, NEW i \in request'[r].resolved,
                      request'[r].items[i].template # NoTemplate
               PROVE  content[r][i].text
                         \in Renderings(content[r][i].template, request'[r].items[i].variables)
    BY Zenon DEF Rendered
  <2>1. i \in request[r].resolved /\ request'[r].items = request[r].items
    OBVIOUS
  <2> QED
    BY <2>1 DEF ContentInv, Rendered
<1>3. RowsResolved'
  <2> SUFFICES ASSUME NEW n \in notification'
               PROVE  n.item \in request'[n.request].resolved
    BY DEF RowsResolved
  <2>1. n.request \in Request
    BY DEF CreationInv, CreationTypeOK, Notification
  <2>2. n.item \in request[n.request].resolved
    BY DEF ContentInv, RowsResolved
  <2> QED
    BY <2>1, <2>2
<1> QED
  BY <1>1, <1>2, <1>3 DEF ContentInv

LEMMA ResolveContent ==
    ASSUME ContentInv, StoreInv', CreationInv', NEW r \in Request,
           LET i == request[r].next
               t == request[r].items[i].template
           IN  /\ i <= Len(request[r].items)
               /\ t = NoTemplate \/ Found(t)
               /\ \E x \in Contents(r, i) : content' = [content EXCEPT ![r][i] = x]
               /\ request' = [request EXCEPT ![r].next = i + 1,
                                             ![r].resolved = @ \cup {i}],
           UNCHANGED <<template, notification>>
    PROVE  ContentInv'
<1> DEFINE i == request[r].next
           item == request[r].items[i]
           t == item.template
<1>1. i \in 1 .. Len(request[r].items) /\ i \in 1 .. MaxBatch
  <2>1. i \in Nat /\ i >= 1 /\ Len(request[r].items) \in Nat /\ MaxBatch \in Nat
    BY MaxBatchAssumption, LenProperties DEF ContentInv, CreationInv, CreationTypeOK, Progress
  <2>2. i <= Len(request[r].items) /\ Len(request[r].items) <= MaxBatch
    BY DEF ContentInv, CreationInv, InOrder
  <2> QED
    BY <2>1, <2>2
<1>2. item \in Item
  BY <1>1, ItemIs DEF ContentInv
<1>3. PICK K \in SUBSET Seq(Symbol) : IsFiniteSet(K) /\ item.variables \in [K -> Seq(Symbol)]
  BY <1>1, ItemIs DEF ContentInv
<1>4. PICK x \in Contents(r, i) : content' = [content EXCEPT ![r][i] = x]
  OBVIOUS
<1>5. x \in Content /\ (t # NoTemplate => x.text \in Renderings(x.template, item.variables))
  <2>1. CASE t = NoTemplate
    <3>1. x = [text |-> item.content, template |-> <<>>]
      BY <1>4, <2>1 DEF Contents
    <3>2. item.content \in Seq(Symbol) /\ <<>> \in Seq(Symbol)
      BY <1>2, EmptySeq DEF Item
    <3> QED
      BY <2>1, <3>1, <3>2 DEF Content
  <2>2. CASE t # NoTemplate
    <3> DEFINE source == template[t].text
    <3>1. PICK text \in Renderings(source, item.variables) :
             x = [text |-> text, template |-> source]
      BY <1>4, <2>2 DEF Contents, VariablesOf
    <3>2. template[t] \in Row
      BY <2>2, TableType DEF Found, Live, ContentInv, StoreInv
    <3>3. source \in Seq(Symbol)
      BY <3>2, TextAssumption DEF Row
    <3> HIDE DEF source, item
    <3>4. text \in Seq(Symbol)
      BY <1>3, <3>1, <3>3, RenderingType
    <3> QED
      BY <3>1, <3>3, <3>4 DEF Content
  <2> QED
    BY <2>1, <2>2
<1>6. /\ content \in [Request -> [1 .. MaxBatch -> Content]]
      /\ request \in [Request -> Progress]
  BY DEF ContentInv, ContentType, CreationInv, CreationTypeOK
<1>7. /\ content' \in [Request -> [1 .. MaxBatch -> Content]]
      /\ content'[r][i] = x
      /\ \A q \in Request, j \in 1 .. MaxBatch :
            q # r \/ j # i => content'[q][j] = content[q][j]
  BY <1>1, <1>4, <1>5, <1>6
<1>8. /\ request'[r].resolved = request[r].resolved \cup {i}
      /\ \A q \in Request : request'[q].items = request[q].items
      /\ \A q \in Request : q # r => request'[q].resolved = request[q].resolved
  BY <1>6 DEF Progress
<1>9. Rendered'
  <2> SUFFICES ASSUME NEW q \in Request, NEW j \in request'[q].resolved,
                      request'[q].items[j].template # NoTemplate
               PROVE  content'[q][j].text
                         \in Renderings(content'[q][j].template, request'[q].items[j].variables)
    BY Zenon DEF Rendered
  <2>1. CASE q = r /\ j = i
    BY <1>5, <1>7, <1>8, <2>1
  <2>2. CASE q # r \/ j # i
    <3>1. j \in request[q].resolved
      BY <1>8, <2>2
    <3>2. j \in 1 .. MaxBatch
      BY <1>6, <3>1 DEF Progress
    <3>3. content'[q][j] = content[q][j] /\ request'[q].items = request[q].items
      BY <1>7, <1>8, <2>2, <3>2
    <3> QED
      BY <3>1, <3>3 DEF ContentInv, Rendered
  <2> QED
    BY <2>1, <2>2
<1>10. RowsResolved'
  <2> SUFFICES ASSUME NEW n \in notification
               PROVE  n.item \in request'[n.request].resolved
    BY DEF RowsResolved
  <2>1. n.request \in Request /\ n.item \in request[n.request].resolved
    BY DEF ContentInv, RowsResolved, CreationInv, CreationTypeOK, Notification
  <2> QED
    BY <1>8, <2>1
<1> QED
  BY <1>7, <1>9, <1>10 DEF ContentInv, ContentType

LEMMA ContentStep == ContentInv /\ [Next]_vars => ContentInv'
<1> SUFFICES ASSUME ContentInv, [Next]_vars PROVE ContentInv'
  OBVIOUS
<1>0. StoreInv' /\ CreationInv' /\ request \in [Request -> Progress]
  BY StoreInvNext, CreationStep DEF ContentInv, CreationInv, CreationTypeOK
<1>1. CASE UNCHANGED <<notification, request, content>>
  BY <1>0, <1>1, ContentStays
<1>2. ASSUME NEW r \in Request, NEW a, Respond(r, a), UNCHANGED content,
             \A n \in notification' :
                 n \in notification \/ n.item \in request[n.request].resolved
      PROVE  ContentInv'
  <2>1. \A q \in Request : /\ request'[q].resolved = request[q].resolved
                           /\ request'[q].items = request[q].items
    BY <1>0, <1>2 DEF Respond, Progress
  <2> QED
    BY <1>0, <1>2, <2>1, ContentStays
<1>3. ASSUME NEW r \in Request, NEW input \in Input, Receive(r, input)
      PROVE  ContentInv'
  <2>1. CASE Respond(r, "invalid")
    BY <1>2, <1>3, <2>1 DEF Receive
  <2>2. CASE ~Respond(r, "invalid")
    <3>1. request[r].resolved = {}
      <4>1. request[r].resolved = 1 .. request[r].next - 1 /\ request[r].next = 1
        BY <1>3 DEF Receive, ContentInv, CreationInv, InOrder
      <4> QED
        BY <4>1
    <3>2. \A q \in Request : /\ request'[q].resolved = request[q].resolved
                             /\ q # r => request'[q].items = request[q].items
      BY <1>0, <1>3, <2>2 DEF Receive, Progress
    <3> QED
      BY <1>0, <1>3, <3>1, <3>2, ContentStays DEF Receive
  <2> QED
    BY <2>1, <2>2
<1>4. ASSUME NEW r \in Request, CheckKey(r) PROVE ContentInv'
  <2>1. CASE request' = [request EXCEPT ![r].step = "resolve"]
    <3>1. \A q \in Request : /\ request'[q].resolved = request[q].resolved
                             /\ request'[q].items = request[q].items
      BY <1>0, <2>1 DEF Progress
    <3> QED
      BY <1>0, <1>4, <3>1, ContentStays DEF CheckKey
  <2> QED
    BY <1>2, <1>4, <2>1 DEF CheckKey
<1>5. ASSUME NEW r \in Request, Resolve(r) PROVE ContentInv'
  <2>1. CASE Respond(r, "notFound") /\ UNCHANGED content
    BY <1>2, <1>5, <2>1 DEF Resolve
  <2>2. CASE ~(Respond(r, "notFound") /\ UNCHANGED content)
    BY <1>0, <1>5, <2>2, ResolveContent DEF Resolve, RenderFailed
  <2> QED
    BY <2>1, <2>2
<1>6. ASSUME NEW r \in Request, Insert(r) PROVE ContentInv'
  <2>1. \A n \in RowsOf(r) : n.item \in request[n.request].resolved
    BY DEF RowsOf
  <2>2. \A n \in notification' :
            n \in notification \/ n.item \in request[n.request].resolved
    BY <1>6, <2>1 DEF Insert
  <2> QED
    BY <1>2, <1>6, <2>2 DEF Insert
<1> QED
  BY <1>1, <1>3, <1>4, <1>5, <1>6 DEF Next, vars

LEMMA SpecContentInv == Spec => []ContentInv
  BY ContentInit, ContentStep, PTL DEF Spec

\* Requests, contents, rows, templates and the handlers of both keep their types; in
\* particular Render returns texts, whatever the variables and the texts of templates.
THEOREM CreationTypes == Spec => []TypeOK
<1>1. ContentInv => TypeOK
  BY DEF ContentInv, StoreInv, CreationInv, CreationTypeOK, ContentType, TypeOK
<1> QED
  BY <1>1, SpecContentInv, PTL

\* What the rows of a request say is what their template said at one moment with the
\* variables of their own item put in all at once (resolveContent of the notification
\* service, Render of the template service), where that is defined: for any templates,
\* texts, variables, requests, editors and database failures.
THEOREM ContentSubstituted == Spec => []ContentIsSubstitution
<1>1. ContentInv => ContentIsSubstitution
  <2> SUFFICES ASSUME ContentInv, NEW n \in notification
               PROVE  LET item == request[n.request].items[n.item]
                          made == content[n.request][n.item]
                      IN  item.template # NoTemplate
                          /\ Unambiguous(made.template, item.variables) =>
                              made.text = Substituted(made.template, item.variables)
    BY Zenon DEF ContentIsSubstitution
  <2> DEFINE r == n.request
             i == n.item
             item == request[r].items[i]
             made == content[r][i]
  <2>1. r \in Request /\ i \in request[r].resolved
    BY DEF ContentInv, RowsResolved, CreationInv, CreationTypeOK, Notification
  <2>2. i \in 1 .. Len(request[r].items) /\ i \in 1 .. MaxBatch
    <3>1. i \in 1 .. MaxBatch
      BY DEF ContentInv, CreationInv, CreationTypeOK, Notification
    <3> HIDE DEF r, i
    <3> QED
      BY <2>1, <3>1, ResolvedIs DEF ContentInv
  <2>3. PICK K \in SUBSET Seq(Symbol) : IsFiniteSet(K) /\ item.variables \in [K -> Seq(Symbol)]
    <3> HIDE DEF r, i
    <3> QED
      BY <2>1, <2>2, ItemIs DEF ContentInv
  <2>4. made.template \in Seq(Symbol)
    BY <2>1, <2>2 DEF ContentInv, ContentType, Content
  <2>5. item.template # NoTemplate => made.text \in Renderings(made.template, item.variables)
    BY <2>1 DEF ContentInv, Rendered
  <2> HIDE DEF item, made
  <2>6. ASSUME item.template # NoTemplate, Unambiguous(made.template, item.variables)
        PROVE  made.text = Substituted(made.template, item.variables)
    <3>1. Renderings(made.template, item.variables)
             = {Substituted(made.template, item.variables)}
      BY <2>3, <2>4, <2>6, RenderIsSubstitution
    <3> QED
      BY <2>5, <2>6, <3>1
  <2> QED
    BY <2>6 DEF item, made, r, i
<1> QED
  BY <1>1, SpecContentInv, PTL

=============================================================================
