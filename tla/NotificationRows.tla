-------------------------- MODULE NotificationRows --------------------------
(***************************************************************************)
(* The rows of notifications beyond their status, and of the templates     *)
(* they refer to (notification/service, notification/repository,           *)
(* notificationtemplate/repository, migrations).                           *)
(*                                                                         *)
(* Every method of the service reads a whole row and later saves a whole   *)
(* row; here any caller may call any method on any row, in any order, as   *)
(* the methods know nothing of their callers.  Save is an UPDATE of every  *)
(* column and, when that meets no row, an INSERT: a save that comes after  *)
(* a DELETE brings the row back, unless the row would now break the        *)
(* foreign key or the unique index.                                        *)
(*                                                                         *)
(* PostgreSQL and gorm are external: a statement is one step.  Timestamps  *)
(* are taken from the clock of whoever writes, so that of a new row may be *)
(* any.                                                                    *)
(***************************************************************************)
EXTENDS NotificationStatus, Naturals

CONSTANTS
    Id,             \* of notifications
    Outside,        \* those that requests make
    Template,       \* ids of templates
    NoTemplate,
    Key,            \* idempotency keys
    NoKey,
    Stamp,          \* values of created_at
    Writer,         \* calls of service methods
    Methods,        \* of the service, those the instance keeps
    MaxSaves,       \* bound on the calls of a behaviour
    MaxDBFailures   \* bound on the statements that fail

ASSUME OutsideAssumption == Outside \subseteq Id
ASSUME NothingAssumption == NoTemplate \notin Template /\ NoKey \notin Key
ASSUME StampAssumption == Stamp \subseteq Nat

VARIABLES
    row,         \* the table notifications
    template,    \* the table templates: whether each is deleted (softly)
    writer,      \* what each call has read
    editor,      \* the template an update has read, or NoTemplate
    saves, dbFailures,
    marked,      \* history: MarkAsSent or MarkAsFailed was saved
    overtaken,   \* history: rows saved from a copy that was out of date
    revived,     \* history: notifications that a save brought back
    revivedTemplates

tables == <<row, template>>
rowHistory == <<marked, overtaken, revived, revivedTemplates>>
rowVars == <<tables, writer, editor, saves, dbFailures, rowHistory>>

\* sent_at, and failed_at with its reason, are set or not.
RowOf(templates) ==
    [status : Status, sentAt : BOOLEAN, failedAt : BOOLEAN,
     template : templates \cup {NoTemplate}, key : Key \cup {NoKey}, created : Stamp]

Row == RowOf(Template)

Method == {"Cancel", "MarkAsQueued", "MarkAsProcessing", "MarkAsSent", "MarkAsFailed",
           "MarkAsRetrying"}

ASSUME RowBoundsAssumption ==
    Methods \subseteq Method /\ MaxSaves \in Nat /\ MaxDBFailures \in Nat

Idle == [busy |-> FALSE]

Call == [busy : {TRUE}, id : Id, method : Method, copy : Row]

Init ==
    /\ row = [n \in {} |-> {}]
    /\ template = [t \in {} |-> {}]
    /\ writer = [w \in Writer |-> Idle]
    /\ editor = NoTemplate
    /\ saves = 0 /\ dbFailures = 0
    /\ marked = {} /\ overtaken = {} /\ revived = {} /\ revivedTemplates = {}

DBFails == dbFailures < MaxDBFailures /\ dbFailures' = dbFailures + 1

With(table, k, v) == [x \in DOMAIN table \cup {k} |-> IF x = k THEN v ELSE table[x]]

-----------------------------------------------------------------------------
(* Notifications *)

\* Create or CreateBatch of the service, one row; to what is done with it here it
\* is the same whether it is scheduled.  The template was found by a SELECT before,
\* when it need not yet have been deleted.
CreateRow(n, t, stamp) ==
    /\ n \notin DOMAIN row
    /\ t \in DOMAIN template \cup {NoTemplate}
    /\ row' = With(row, n, [status |-> "pending", sentAt |-> FALSE, failedAt |-> FALSE,
                            template |-> t, key |-> NoKey, created |-> stamp])
    /\ UNCHANGED <<template, writer, editor, saves, dbFailures, rowHistory>>

\* What each method does to the row it has read.  A plausible bug starts a new
\* attempt with a clean slate.
MarkedAnew(method, r) ==
    CASE method = "MarkAsSent"     -> [r EXCEPT !.status = "sent", !.sentAt = TRUE]
      [] method = "MarkAsFailed"   -> [r EXCEPT !.status = "failed", !.failedAt = TRUE]
      [] method = "MarkAsRetrying" -> [r EXCEPT !.status = "retrying", !.failedAt = FALSE]
      [] method = "MarkAsQueued"   -> [r EXCEPT !.status = "queued"]
      [] method = "MarkAsProcessing" -> [r EXCEPT !.status = "processing"]
      [] method = "Cancel"         -> [r EXCEPT !.status = "cancelled"]

Marked(method, r) ==
    CASE method = "MarkAsSent"       -> [r EXCEPT !.status = "sent", !.sentAt = TRUE]
      [] method = "MarkAsFailed"     -> [r EXCEPT !.status = "failed", !.failedAt = TRUE]
      [] method = "MarkAsRetrying"   -> [r EXCEPT !.status = "retrying"]
      [] method = "MarkAsQueued"     -> [r EXCEPT !.status = "queued"]
      [] method = "MarkAsProcessing" -> [r EXCEPT !.status = "processing"]
      [] method = "Cancel"           -> [r EXCEPT !.status = "cancelled"]

\* Only these two methods look at what they have read.
Allowed(method, status) ==
    /\ method = "Cancel" => status \in {"pending", "scheduled", "queued", "failed"}
    /\ method = "MarkAsProcessing" => CanTransitionTo(status, "processing")

ReadRow(w, n, method) ==
    /\ ~writer[w].busy /\ saves < MaxSaves
    /\ n \in DOMAIN row /\ Allowed(method, row[n].status)
    /\ writer' = [writer EXCEPT ![w] = [busy |-> TRUE, id |-> n, method |-> method,
                                        copy |-> row[n]]]
    /\ saves' = saves + 1
    /\ UNCHANGED <<tables, editor, dbFailures, rowHistory>>

\* Whether the foreign key and the unique index admit a new row.
Admitted(r) ==
    /\ r.template \in DOMAIN template \cup {NoTemplate}
    /\ r.key = NoKey \/ \A n \in DOMAIN row : row[n].key # r.key

SaveRow(w) ==
    /\ writer[w].busy
    /\ writer' = [writer EXCEPT ![w] = Idle]
    /\ LET n == writer[w].id
           r == Marked(writer[w].method, writer[w].copy)
           stale == n \notin DOMAIN row \/ row[n] # writer[w].copy
       IN  \/ /\ n \in DOMAIN row \/ Admitted(r)
              /\ row' = With(row, n, r)
              /\ marked' = marked \cup ({<<n, writer[w].method>>}
                                          \cap (Id \X {"MarkAsSent", "MarkAsFailed"}))
              /\ overtaken' = IF stale THEN overtaken \cup {n} ELSE overtaken
              /\ revived' = IF n \in DOMAIN row THEN revived ELSE revived \cup {n}
              /\ UNCHANGED <<dbFailures, revivedTemplates>>
           \/ /\ n \notin DOMAIN row /\ ~Admitted(r)
              /\ UNCHANGED <<row, dbFailures, rowHistory>>
           \/ DBFails /\ UNCHANGED <<row, rowHistory>>
    /\ UNCHANGED <<template, editor, saves>>

-----------------------------------------------------------------------------
(* Templates: one update of a text at a time, and deletions.  An id is the seeding *)
(* that made it and its name *)

EditRead(t) ==
    /\ editor = NoTemplate /\ saves < MaxSaves
    /\ t \in DOMAIN template /\ ~template[t].deleted
    /\ editor' = t /\ saves' = saves + 1
    /\ UNCHANGED <<tables, writer, dbFailures, rowHistory>>

SameName(t, u) == t[2] = u[2]

\* The unique index on the name does not ask for deleted_at.
EditSave ==
    LET t == editor
        taken == \E u \in DOMAIN template \ {t} : SameName(t, u)
    IN  /\ t # NoTemplate
        /\ editor' = NoTemplate
        /\ \/ /\ ~taken
              /\ template' = With(template, t, [deleted |-> FALSE])
              /\ revivedTemplates' = IF t \in DOMAIN template THEN revivedTemplates
                                     ELSE revivedTemplates \cup {t}
              /\ UNCHANGED dbFailures
           \/ taken /\ UNCHANGED <<template, dbFailures, revivedTemplates>>
           \/ DBFails /\ UNCHANGED <<template, revivedTemplates>>
        /\ UNCHANGED <<row, writer, saves, marked, overtaken, revived>>

DeleteTemplate(t) ==
    /\ t \in DOMAIN template /\ ~template[t].deleted
    /\ saves < MaxSaves /\ saves' = saves + 1
    /\ template' = [template EXCEPT ![t].deleted = TRUE]
    /\ UNCHANGED <<row, writer, editor, dbFailures, rowHistory>>

Serve ==
    \/ \E n \in Outside, t \in Template \cup {NoTemplate}, stamp \in Stamp :
          CreateRow(n, t, stamp)
    \/ \E w \in Writer, n \in Id, method \in Methods : ReadRow(w, n, method)
    \/ \E w \in Writer : SaveRow(w)
    \/ \E t \in Template : EditRead(t) \/ DeleteTemplate(t)
    \/ EditSave

-----------------------------------------------------------------------------
(* Properties *)

\* That a notification was handed over or given up stays in its row (sent_at;
\* failed_at and failure_reason) through whatever methods come later, unless one
\* of them saved a copy that was out of date (repository.go:109 writes every
\* column).
EvidenceKept ==
    \A e \in marked :
        LET n == e[1]
        IN  n \in DOMAIN row \ overtaken =>
                IF e[2] = "MarkAsSent" THEN row[n].sentAt ELSE row[n].failedAt

=============================================================================
