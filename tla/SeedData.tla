------------------------------ MODULE SeedData ------------------------------
(***************************************************************************)
(* The seeder (seed/seeder.go), which deletes what an earlier seeding left *)
(* and inserts its templates and notifications, beside a running           *)
(* application.  It looks at the error of each INSERT and ends on it; it   *)
(* does not look at the errors of the two DELETEs.  It may be killed       *)
(* between any two statements, and run again.                              *)
(*                                                                         *)
(* Seeds are told by their recipients and names, which begin with "seed-". *)
(* Users are taken not to choose such ones.  A seed's id is the seeding    *)
(* and its number in the seeder's lists.                                   *)
(***************************************************************************)
EXTENDS NotificationRows

CONSTANTS
    MaxSeedings,   \* bound on the seedings of a behaviour
    SeedName,      \* of the templates "seed-<name>", those the instance keeps
    SeedNumber     \* of the notifications, those the instance keeps

SeedId(k) == {<<k, i>> : i \in SeedNumber}
SeedTemplate(k) == {<<k, name>> : name \in SeedName}

ASSUME SeedingsAssumption == MaxSeedings \in Nat
ASSUME SeedAssumption ==
    /\ SeedName \subseteq {"sms", "email", "push"} /\ SeedNumber \subseteq 1 .. 15
    /\ Id = Outside \cup UNION {SeedId(k) : k \in 1 .. MaxSeedings}
    /\ Template = UNION {SeedTemplate(k) : k \in 1 .. MaxSeedings}
    /\ \A k \in 1 .. MaxSeedings : Outside \cap SeedId(k) = {}
    /\ {1, 2} \subseteq Key

VARIABLES
    seeder,      \* its next statement
    seeding,     \* which seeding it is
    disturbed    \* history: a statement of this seeding failed

seedVars == <<seeder, seeding, disturbed>>

SeedInit == seeder = "off" /\ seeding = 0 /\ disturbed = FALSE

Ended == {"off", "done", "failed"}

\* The lists of the seeder: status, sent_at, failed_at, template, key.
Seed(status, sentAt, failedAt, name, key) ==
    [status |-> status, sentAt |-> sentAt, failedAt |-> failedAt, name |-> name, key |-> key]

SeedSingle ==
    << Seed("pending", FALSE, FALSE, "none", 0),
       Seed("sent", TRUE, FALSE, "email", 0),
       Seed("failed", FALSE, TRUE, "sms", 0),
       Seed("queued", FALSE, FALSE, "push", 0),
       Seed("scheduled", FALSE, FALSE, "none", 0),
       Seed("processing", FALSE, FALSE, "none", 0),
       Seed("sent", TRUE, FALSE, "none", 1),
       Seed("retrying", FALSE, FALSE, "none", 2),
       Seed("cancelled", FALSE, FALSE, "none", 0),
       Seed("pending", FALSE, FALSE, "none", 0) >>

SeedBatch ==
    << Seed("sent", TRUE, FALSE, "none", 0), Seed("sent", TRUE, FALSE, "none", 0),
       Seed("pending", FALSE, FALSE, "none", 0), Seed("pending", FALSE, FALSE, "none", 0),
       Seed("failed", FALSE, TRUE, "none", 0) >>

\* The instance keeps a seed that refers to a template, as the lists do.
ASSUME SeedRefersAssumption ==
    \E i \in SeedNumber : i <= 10 /\ SeedSingle[i].name \in SeedName

SeedRow(n, stamp) ==
    LET seed == IF n[2] <= 10 THEN SeedSingle[n[2]] ELSE SeedBatch[n[2] - 10]
    IN  [status |-> seed.status, sentAt |-> seed.sentAt, failedAt |-> seed.failedAt,
         template |-> IF seed.name \in SeedName THEN <<n[1], seed.name>> ELSE NoTemplate,
         key |-> IF seed.key = 0 THEN NoKey ELSE seed.key, created |-> stamp]

SeederLeaves == UNCHANGED <<writer, editor, saves, marked, overtaken>>

BeginSeeding ==
    /\ seeder \in Ended /\ seeding < MaxSeedings
    /\ seeder' = "cleanNotifications" /\ seeding' = seeding + 1 /\ disturbed' = FALSE
    /\ UNCHANGED rowVars

\* A DELETE, whose error is dropped.
Clean(next, success) ==
    /\ seeder' = next
    /\ \/ success /\ UNCHANGED <<dbFailures, disturbed>>
       \/ DBFails /\ disturbed' = TRUE /\ UNCHANGED <<tables, revived, revivedTemplates>>
    /\ UNCHANGED seeding /\ SeederLeaves

CleanNotifications ==
    /\ seeder = "cleanNotifications"
    /\ Clean("cleanTemplates",
             /\ row' = [n \in DOMAIN row \cap Outside |-> row[n]]
             /\ revived' = {}
             /\ UNCHANGED <<template, revivedTemplates>>)

\* The foreign key: fk_notifications_template.  A plausible bug leaves it out.
NeverReferred == FALSE

Referred == \E n \in DOMAIN row : row[n].template \in DOMAIN template

\* Unscoped: the rows are gone, and with them their names.  A plausible bug lets
\* gorm mark them deleted.
CleanedSoftly == template' = [t \in DOMAIN template |-> [deleted |-> TRUE]]

Cleaned == template' = [t \in {} |-> {}]

\* One statement: it deletes all templates of the seeder, deleted ones included,
\* or none.
CleanTemplates ==
    /\ seeder = "cleanTemplates"
    /\ Clean("createTemplates",
             /\ IF Referred THEN UNCHANGED <<template, revivedTemplates>>
                ELSE Cleaned /\ revivedTemplates' = {}
             /\ UNCHANGED <<row, revived>>)

\* log.Fatalf.  A plausible bug logs and goes on.
AfterFailedInsertGoOn(next) == next

AfterFailedInsert(next) == "failed"

\* An INSERT of all rows or none.
InsertAll(next, possible, insert) ==
    /\ \/ possible /\ insert /\ seeder' = next /\ UNCHANGED <<dbFailures, disturbed>>
       \/ /\ ~possible
          /\ seeder' = AfterFailedInsert(next)
          /\ UNCHANGED <<tables, dbFailures, disturbed>>
       \/ DBFails /\ disturbed' = TRUE /\ seeder' = "failed" /\ UNCHANGED tables
    /\ UNCHANGED <<seeding, revived, revivedTemplates>> /\ SeederLeaves

CreateTemplates ==
    /\ seeder = "createTemplates"
    /\ InsertAll("createNotifications",
                 \A t \in SeedTemplate(seeding), u \in DOMAIN template : ~SameName(t, u),
                 /\ template' = [t \in DOMAIN template \cup SeedTemplate(seeding) |->
                                    IF t \in DOMAIN template THEN template[t]
                                    ELSE [deleted |-> FALSE]]
                 /\ UNCHANGED row)

\* gorm gives all rows of one Create the same created_at.
InsertSeeds(next, ids) ==
    \E stamp \in Stamp :
        InsertAll(next,
                  \A n \in ids : Admitted(SeedRow(n, stamp)),
                  /\ row' = [n \in DOMAIN row \cup ids |->
                                IF n \in ids THEN SeedRow(n, stamp) ELSE row[n]]
                  /\ UNCHANGED template)

CreateNotifications ==
    /\ seeder = "createNotifications"
    /\ InsertSeeds("createBatch", {n \in SeedId(seeding) : n[2] <= 10})

CreateBatch ==
    /\ seeder = "createBatch"
    /\ InsertSeeds("done", {n \in SeedId(seeding) : n[2] > 10})

KillSeeder ==
    /\ seeder \notin Ended
    /\ seeder' = "off"
    /\ UNCHANGED <<rowVars, seeding, disturbed>>

Seeding ==
    BeginSeeding \/ CleanNotifications \/ CleanTemplates \/ CreateTemplates
        \/ CreateNotifications \/ CreateBatch \/ KillSeeder

-----------------------------------------------------------------------------
(* Properties *)

\* Every notification refers to a template that is there; the rest is types.
TypeOK ==
    /\ DOMAIN row \subseteq Id /\ DOMAIN template \subseteq Template
    /\ \A n \in DOMAIN row : row[n] \in RowOf(DOMAIN template)
    /\ \A t \in DOMAIN template : template[t] \in [deleted : BOOLEAN]
    /\ \A w \in Writer : writer[w] = Idle \/ writer[w] \in Call
    /\ editor \in Template \cup {NoTemplate}
    /\ saves \in 0 .. MaxSaves /\ dbFailures \in 0 .. MaxDBFailures
    /\ marked \subseteq Id \X Method /\ overtaken \subseteq Id
    /\ revived \subseteq Id /\ revivedTemplates \subseteq Template
    /\ seeder \in Ended \cup {"cleanNotifications", "cleanTemplates", "createTemplates",
                              "createNotifications", "createBatch"}
    /\ seeding \in 0 .. MaxSeedings
    /\ disturbed \in BOOLEAN

\* seeder.go:35, "to make seeder idempotent": a seeding fails only if one of its
\* statements did, if a notification that is no seed refers to a seed template,
\* or if a request that was underway saved a seed, or a seed template, after it
\* had been deleted.  What earlier seedings left, whole, half done or deleted by
\* users, is in nobody's way.
Obstructed ==
    \/ disturbed'
    \/ \E n \in DOMAIN row \cap (Outside \cup revived) : row[n].template # NoTemplate
    \/ \E n \in DOMAIN row \cap revived : row[n].key # NoKey
    \/ revivedTemplates # {}

SeedFailsExplained ==
    [][seeder' = "failed" /\ seeder # "failed" => Obstructed]_seedVars

\* A seeding that came to its end leaves its own templates and notifications and
\* those of no other, although it looks at no error of its DELETEs; only a
\* request that was underway may have brought back a notification.
SeedsWhole ==
    seeder = "done" =>
        /\ DOMAIN row \ Outside = SeedId(seeding) \cup revived
        /\ DOMAIN template = SeedTemplate(seeding)

=============================================================================
