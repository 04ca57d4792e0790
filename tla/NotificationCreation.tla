------------------------ MODULE NotificationCreation ------------------------
(***************************************************************************)
(* How a request becomes rows (Create and CreateBatch of the controller    *)
(* and of the notification service): validate, look the idempotency key    *)
(* up, resolve each content, insert all rows.  Handlers run beside each    *)
(* other and beside those that write templates (TemplateStore).  What      *)
(* happens to the rows afterwards is the subject of NotificationPipeline.  *)
(*                                                                         *)
(* Recipient, channel and priority are abstracted to whether they pass     *)
(* validation, and the keys that the server makes up, which never meet, to *)
(* NoKey.                                                                  *)
(***************************************************************************)
EXTENDS TemplateStore, TemplateRender

CONSTANTS
    Request,     \* handlers of requests, each runs once
    Input,       \* what they are sent: [key, items]
    Key,         \* values of X-Idempotency-Key
    NoKey,       \* the header is missing; a batch has none
    MaxContent,  \* the limit on the length of a content, of one channel
    MaxBatch,    \* the most items of a batch
    Variable,    \* keys of variables, texts as their values are
    Value

\* An item names a template or has a content; <<>> is none.  Its variables are
\* a map of Go, hence finite.
Item == [valid     : BOOLEAN,
         template  : Template \cup {NoTemplate},
         content   : Seq(Symbol),
         variables : UNION {[K -> Value] : K \in {J \in SUBSET Variable : IsFiniteSet(J)}}]

ASSUME NoKeyAssumption == NoKey \notin Key
ASSUME TextAssumption == Text \cup Variable \cup Value \subseteq Seq(Symbol)
ASSUME MaxBatchAssumption == MaxBatch \in Nat \ {0}

\* A request with a key has one item.
ASSUME InputAssumption ==
    \A input \in Input :
        /\ input.key \in Key \cup {NoKey}
        /\ input.items \in Seq(Item)
        /\ input.key # NoKey => Len(input.items) = 1

VARIABLES
    notification,  \* the rows of the notifications table
    request,       \* what each handler is doing
    content        \* of each row of a request, and what it was made of

vars == <<storeVars, notification, request, content>>

Notification == [request : Request, item : 1 .. MaxBatch, key : Key \cup {NoKey}]

Progress == [step     : {"ready", "check", "resolve", "done"},
             key      : Key \cup {NoKey},
             items    : Seq(Item),
             next     : 1 .. MaxBatch + 1,     \* the item to resolve
             resolved : SUBSET (1 .. MaxBatch),   \* appended to the rows to insert
             answer   : {"none", "created", "invalid", "notFound", "duplicate", "error"}]

\* The text of the template is history.
Content == [text : Seq(Symbol), template : Seq(Symbol)]

NoContent == [text |-> <<>>, template |-> <<>>]

TypeOK ==
    /\ StoreTypeOK
    /\ notification \subseteq Notification
    /\ request \in [Request -> Progress]
    /\ content \in [Request -> [1 .. MaxBatch -> Content]]

Init ==
    /\ StoreInit
    /\ notification = {}
    /\ request = [r \in Request |->
                     [step |-> "ready", key |-> NoKey, items |-> <<>>,
                      next |-> 1, resolved |-> {}, answer |-> "none"]]
    /\ content = [r \in Request |-> [i \in 1 .. MaxBatch |-> NoContent]]

Respond(r, a) ==
    request' = [request EXCEPT ![r].step = "done", ![r].answer = a]

-----------------------------------------------------------------------------
(* Validation *)

\* A content or a template, and not both; a content within its limit.  What a
\* template renders to has none.
ValidItem(item) ==
    /\ item.valid
    /\ (item.content # <<>>) # (item.template # NoTemplate)
    /\ Len(item.content) <= MaxContent

\* validate:"required,min=1,max=1000".  A plausible bug drops the maximum.
SizeAtLeastOne(items) == Len(items) >= 1

SizeWithin(items) == Len(items) \in 1 .. MaxBatch

Valid(input) ==
    /\ SizeWithin(input.items)
    /\ \A i \in 1 .. Len(input.items) : ValidItem(input.items[i])

Receive(r, input) ==
    /\ request[r].step = "ready"
    /\ IF Valid(input)
       THEN request' = [request EXCEPT ![r].step = IF input.key = NoKey THEN "resolve" ELSE "check",
                                       ![r].key = input.key,
                                       ![r].items = input.items]
       ELSE Respond(r, "invalid")
    /\ UNCHANGED <<storeVars, notification, content>>

-----------------------------------------------------------------------------
(* Create and CreateBatch of the notification service *)

KeyTaken(k) == k # NoKey /\ \E n \in notification : n.key = k

\* GetByIdempotencyKey
CheckKey(r) ==
    /\ request[r].step = "check"
    /\ \/ /\ ~KeyTaken(request[r].key)
          /\ request' = [request EXCEPT ![r].step = "resolve"]
          /\ UNCHANGED dbFailures
       \/ KeyTaken(request[r].key) /\ Respond(r, "duplicate") /\ UNCHANGED dbFailures
       \/ Respond(r, "error") /\ DBFails
    /\ UNCHANGED <<template, edit, notification, content>>

\* The content of the next item: its own, or its template rendered.  An error
\* ends the request.  A plausible bug in the loop leaves the item out.
LeaveOut(r) == request' = [request EXCEPT ![r].next = @ + 1]

RenderFailed(r) == Respond(r, "notFound")

\* Its own variables fill the template of an item.  A plausible bug takes
\* those of the first.
VariablesOfFirst(r, i) == request[r].items[1].variables

VariablesOf(r, i) == request[r].items[i].variables

Contents(r, i) ==
    LET item == request[r].items[i]
        source == template[item.template].text
    IN  IF item.template = NoTemplate
        THEN {[text |-> item.content, template |-> <<>>]}
        ELSE {[text |-> x, template |-> source] : x \in Renderings(source, VariablesOf(r, i))}

Resolve(r) ==
    LET i == request[r].next
        t == request[r].items[i].template
    IN  /\ request[r].step = "resolve"
        /\ i <= Len(request[r].items)
        /\ \/ /\ t = NoTemplate \/ Found(t)
              /\ \E x \in Contents(r, i) : content' = [content EXCEPT ![r][i] = x]
              /\ request' = [request EXCEPT ![r].next = i + 1,
                                            ![r].resolved = @ \cup {i}]
              /\ UNCHANGED dbFailures
           \/ /\ t # NoTemplate /\ ~Found(t)
              /\ RenderFailed(r)
              /\ UNCHANGED <<content, dbFailures>>
           \/ t # NoTemplate /\ RenderFailed(r) /\ DBFails /\ UNCHANGED content
        /\ UNCHANGED <<template, edit, notification>>

RowsOf(r) ==
    {[request |-> r, item |-> i, key |-> request[r].key] : i \in request[r].resolved}

\* The unique index on idempotency_key.  Plausible bugs: no index, because the
\* lookup has answered already; every failure is taken for a duplicate.
KeyUnchecked(r) == FALSE

KeyRejected(r) == KeyTaken(request[r].key)

InsertFailedAsDuplicate == "duplicate"

InsertFailed == "error"

\* One INSERT of all the rows.
Insert(r) ==
    /\ request[r].step = "resolve"
    /\ request[r].next > Len(request[r].items)
    /\ \/ /\ ~KeyRejected(r)
          /\ notification' = notification \cup RowsOf(r)
          /\ \/ Respond(r, "created") /\ UNCHANGED dbFailures
             \/ Respond(r, InsertFailed) /\ DBFails      \* the answer is lost
       \/ /\ KeyRejected(r)
          /\ Respond(r, "duplicate")
          /\ UNCHANGED <<notification, dbFailures>>
       \/ Respond(r, InsertFailed) /\ DBFails /\ UNCHANGED notification
    /\ UNCHANGED <<template, edit, content>>

Next ==
    \/ StoreNext /\ UNCHANGED <<notification, request, content>>
    \/ \E r \in Request, input \in Input : Receive(r, input)
    \/ \E r \in Request : CheckKey(r)
    \/ \E r \in Request : Resolve(r)
    \/ \E r \in Request : Insert(r)

Spec == Init /\ [][Next]_vars

-----------------------------------------------------------------------------
(* Properties *)

\* "Optional client-provided key with unique DB constraint" (README.md:372):
\* of the requests with one key, however they overlap and fail, at most one
\* becomes a notification.
KeyOnce ==
    \A m, n \in notification : m.key = n.key /\ m.key # NoKey => m = n

\* A request turned away as a duplicate has a twin that became a notification:
\* the client may take the answer for a success.
RejectedHasTwin ==
    \A r \in Request :
        request[r].answer = "duplicate" =>
            \E n \in notification : n.key = request[r].key /\ n.request # r

\* A request becomes all of its notifications or none; created says all, a
\* rejection none, and only an error leaves it open.
Sent(r) == {n.item : n \in {n \in notification : n.request = r}}

AllOrNothing ==
    \A r \in Request :
        /\ Sent(r) # {} => request[r].answer \in {"created", "error"}
        /\ Sent(r) # {} \/ request[r].answer = "created" =>
               Sent(r) = 1 .. Len(request[r].items)

\* A notification says what its template said at one moment, with the
\* variables of its own item put in all at once and other placeholders left,
\* where neither keys nor values have braces and the text has a "}}" between
\* any two "{{".  Elsewhere the order in which Render walks a map decides.
ContentIsSubstitution ==
    \A n \in notification :
        LET item == request[n.request].items[n.item]
            made == content[n.request][n.item]
        IN  item.template # NoTemplate /\ Unambiguous(made.template, item.variables) =>
                made.text = Substituted(made.template, item.variables)

=============================================================================
