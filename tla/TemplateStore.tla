---------------------------- MODULE TemplateStore ----------------------------
(***************************************************************************)
(* The templates table and the handlers that write to it (controller,      *)
(* service and repository of notificationtemplate).  Each handler runs on  *)
(* its own; a statement to the database is one step, and nothing holds a   *)
(* transaction over two of them.                                           *)
(*                                                                         *)
(* The database and gorm are external.  A row deleted by gorm stays in the *)
(* table with deleted_at set: SELECT, UPDATE and DELETE pass it over, the  *)
(* unique index on name does not.  Save updates the row, and when the      *)
(* UPDATE meets none it inserts it, or overwrites every column of the row  *)
(* with that id, deleted_at included.                                      *)
(*                                                                         *)
(* The channel of a template behaves as its text does and is left out.     *)
(***************************************************************************)
EXTENDS Naturals

CONSTANTS
    Template,       \* ids
    Name,
    Text,
    Kept,           \* a field that an update leaves out
    NoTemplate,
    Editor,         \* handlers of template requests, each runs once
    Stored,         \* the tables a behaviour may begin with
    MaxDBFailures   \* bound on the statements that fail or whose answer is lost

Row == [name : Name, text : Text, deleted : BOOLEAN]

ASSUME KeptAssumption == Kept \notin Name \cup Text
ASSUME NoTemplateAssumption == NoTemplate \notin Template
ASSUME StoredAssumption ==
    Stored \subseteq UNION {[T -> Row] : T \in SUBSET Template}
ASSUME MaxDBFailuresAssumption == MaxDBFailures \in Nat

VARIABLES
    template,    \* the table: rows by id, the deleted ones included
    edit,        \* what each handler is doing
    dbFailures   \* so far

storeVars == <<template, edit, dbFailures>>

Change == [name : Name \cup {Kept}, text : Text \cup {Kept}]

NoChange == [name |-> Kept, text |-> Kept]

\* "save" and "upsert" are the two statements of Save.
Edit == [step   : {"ready", "save", "upsert", "done"},
         id     : Template \cup {NoTemplate},
         change : Change,
         copy   : Row \cup {NoTemplate},   \* the row as read and then changed
         raced  : BOOLEAN,   \* history: others wrote the row since it was read
         answer : {"none", "ok", "notFound", "conflict", "error"}]

StoreTypeOK ==
    /\ template \in UNION {[T -> Row] : T \in SUBSET Template}
    /\ edit \in [Editor -> Edit]
    /\ dbFailures \in 0 .. MaxDBFailures

StoreInit ==
    /\ template \in Stored
    /\ edit = [e \in Editor |->
                  [step |-> "ready", id |-> NoTemplate, change |-> NoChange,
                   copy |-> NoTemplate, raced |-> FALSE, answer |-> "none"]]
    /\ dbFailures = 0

-----------------------------------------------------------------------------
(* Statements *)

Live(t) == t \in DOMAIN template /\ ~template[t].deleted

\* What GetByID finds.  A plausible bug forgets about the soft delete.
FoundUnscoped(t) == t \in DOMAIN template

Found(t) == Live(t)

\* The unique index: name UNIQUE NOT NULL, whatever deleted_at says.
NameTaken(t, n) == \E u \in DOMAIN template \ {t} : template[u].name = n

DBFails ==
    /\ dbFailures < MaxDBFailures
    /\ dbFailures' = dbFailures + 1

Answer(e, a) ==
    edit' = [edit EXCEPT ![e].step = "done", ![e].answer = a]

\* The statement writes row to id t; its answer may be lost on the way back.
Written(e, t, row) ==
    /\ template' = [u \in DOMAIN template \cup {t} |->
                       IF u = t THEN row ELSE template[u]]
    /\ \E a \in {"ok", "error"} :
          /\ edit' = [f \in Editor |->
                         IF f = e
                         THEN [edit[e] EXCEPT !.step = "done", !.id = t, !.answer = a]
                         ELSE [edit[f] EXCEPT !.raced = @ \/ edit[f].id = t]]
          /\ IF a = "ok" THEN UNCHANGED dbFailures ELSE DBFails

\* The statement changes nothing: a duplicate name, or a failure.
NotWritten(e, t, row, conflictAnswer) ==
    /\ \/ NameTaken(t, row.name) /\ Answer(e, conflictAnswer) /\ UNCHANGED dbFailures
       \/ DBFails /\ Answer(e, "error")
    /\ UNCHANGED template

-----------------------------------------------------------------------------
(* Handlers *)

\* Only Create tells a duplicate name from a failure.
CreateTemplate(e, t, n, x) ==
    /\ edit[e].step = "ready"
    /\ t \notin DOMAIN template
    /\ LET row == [name |-> n, text |-> x, deleted |-> FALSE]
       IN  \/ ~NameTaken(t, n) /\ Written(e, t, row)
           \/ NotWritten(e, t, row, "conflict")

\* The fields of the request that are present.
Changed(row, change) ==
    [row EXCEPT !.name = IF change.name = Kept THEN @ ELSE change.name,
                !.text = IF change.text = Kept THEN @ ELSE change.text]

\* GetByID answers not found to a failure as well.
UpdateRead(e, t, change) ==
    /\ edit[e].step = "ready"
    /\ change # NoChange
    /\ \/ /\ Found(t)
          /\ edit' = [edit EXCEPT ![e].step = "save", ![e].id = t, ![e].change = change,
                                  ![e].copy = Changed(template[t], change)]
          /\ UNCHANGED dbFailures
       \/ ~Found(t) /\ Answer(e, "notFound") /\ UNCHANGED dbFailures
       \/ Answer(e, "notFound") /\ DBFails
    /\ UNCHANGED template

\* UPDATE ... WHERE id = ? AND deleted_at IS NULL
UpdateSave(e) ==
    /\ edit[e].step = "save"
    /\ LET t == edit[e].id
           row == edit[e].copy
       IN  \/ Live(t) /\ ~NameTaken(t, row.name) /\ Written(e, t, row)
           \/ Live(t) /\ NotWritten(e, t, row, "error")
           \/ /\ ~Live(t)
              /\ \/ edit' = [edit EXCEPT ![e].step = "upsert"] /\ UNCHANGED dbFailures
                 \/ Answer(e, "error") /\ DBFails
              /\ UNCHANGED template

\* INSERT ... ON CONFLICT (id) DO UPDATE SET every column
UpdateUpsert(e) ==
    /\ edit[e].step = "upsert"
    /\ LET row == edit[e].copy
       IN  \/ ~NameTaken(edit[e].id, row.name) /\ Written(e, edit[e].id, row)
           \/ NotWritten(e, edit[e].id, row, "error")

\* UPDATE ... SET deleted_at = now() WHERE id = ? AND deleted_at IS NULL
DeleteTemplate(e, t) ==
    /\ edit[e].step = "ready"
    /\ \/ Live(t) /\ Written(e, t, [template[t] EXCEPT !.deleted = TRUE])
       \/ ~Live(t) /\ Answer(e, "notFound") /\ UNCHANGED <<template, dbFailures>>
       \/ Answer(e, "error") /\ DBFails /\ UNCHANGED template

StoreNext ==
    \/ \E e \in Editor, t \in Template, n \in Name, x \in Text : CreateTemplate(e, t, n, x)
    \/ \E e \in Editor, t \in Template, change \in Change : UpdateRead(e, t, change)
    \/ \E e \in Editor : UpdateSave(e)
    \/ \E e \in Editor : UpdateUpsert(e)
    \/ \E e \in Editor, t \in Template : DeleteTemplate(e, t)

-----------------------------------------------------------------------------
(* Properties *)

\* What a step of e makes of the table.
Overwrites(e) ==
    /\ edit[e].step \in {"save", "upsert"}
    /\ edit'[e].step = "done"
    /\ template' # template

\* An update writes over a row more than the fields its request names, or
\* brings a deleted template back, only when another handler wrote the row
\* between the read and the save of Update.
OnlyRacesLoseUpdates ==
    [][\A e \in Editor :
          LET t == edit[e].id
          IN  Overwrites(e) /\ ~edit[e].raced =>
                  /\ Live(t)
                  /\ template' = [template EXCEPT
                                     ![t] = Changed(template[t], edit[e].change)]]_storeVars

=============================================================================
