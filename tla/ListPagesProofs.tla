-------------------------- MODULE ListPagesProofs --------------------------
(***************************************************************************)
(* What `SeedData` and `ListPages` state, for any number of notifications, *)
(* templates, service calls, seedings, failures and limits.                *)
(*                                                                         *)
(* The rows.  No method changes what a row was made with (Origins), so     *)
(* that a saved copy fits the row it overwrites, and an id is used once    *)
(* (Unseen).  The seeder.  Whoever finds a seed that no save brought back  *)
(* finds beside it those that refer to the templates of its seeding        *)
(* (Together); as these keep the templates from being deleted, and their   *)
(* names from being used again, a seeding that comes past its templates    *)
(* has met no older seed (Stages).  The client.  What it is owed stands    *)
(* behind its offset in every order the database may answer with           *)
(* (OwedAhead).                                                            *)
(***************************************************************************)
EXTENDS ListPages, FiniteSetTheorems, TLAPS

\* What no method changes.
SameOrigin(a, b) ==
    a.template = b.template /\ a.key = b.key /\ a.created = b.created

OriginFits(n, r) ==
    IF n \in Outside THEN r.key = NoKey ELSE SameOrigin(r, SeedRow(n, r.created))

Busy(w, n) == writer[w].busy /\ writer[w].id = n

Origins ==
    /\ \A n \in DOMAIN row : OriginFits(n, row[n])
    /\ \A w \in Writer : writer[w].busy => OriginFits(writer[w].id, writer[w].copy)
    /\ \A w \in Writer, n \in DOMAIN row :
          Busy(w, n) => SameOrigin(writer[w].copy, row[n])
    /\ \A v, w \in Writer :
          writer[v].busy /\ Busy(w, writer[v].id) =>
              SameOrigin(writer[v].copy, writer[w].copy)

\* The seeds a seeding inserts with its first and with its second statement.
FirstSeeds(k) == {n \in SeedId(k) : n[2] <= 10}
LastSeeds(k) == {n \in SeedId(k) : n[2] > 10}

BeforeTemplates == {"cleanNotifications", "cleanTemplates", "createTemplates"}

Unborn(n) ==
    \/ n[1] > seeding
    \/ n[1] = seeding /\ seeder \in BeforeTemplates \cup {"createNotifications"}
    \/ n \in LastSeeds(seeding) /\ seeder = "createBatch"

Seen(n) ==
    \/ n \in DOMAIN row
    \/ \E w \in Writer : Busy(w, n)
    \/ \E e \in marked : e[1] = n

Unseen == \A n \in Id \ Outside : Unborn(n) => ~Seen(n)

\* Nothing deletes a notification that is no seed.
OutsideStays ==
    /\ \A n \in Outside : Seen(n) => n \in DOMAIN row
    /\ revived \subseteq DOMAIN row \ Outside

Original == DOMAIN row \ (Outside \cup revived)

Together == \A n \in Original : FirstSeeds(n[1]) \subseteq Original

Stages ==
    /\ seeder # "off" => seeding # 0
    /\ seeder \in {"createNotifications", "createBatch", "done"} =>
           DOMAIN template = SeedTemplate(seeding)
    /\ seeder = "createNotifications" => Original = {}
    /\ seeder = "createBatch" => Original = FirstSeeds(seeding)
    /\ seeder = "done" => Original = SeedId(seeding)

\* What may keep an undisturbed seeding from its templates.
Reference ==
    \/ \E n \in DOMAIN row \cap (Outside \cup revived) : row[n].template # NoTemplate
    \/ revivedTemplates # {}

CleanStages ==
    /\ seeder = "cleanTemplates" /\ ~disturbed => Original = {}
    /\ seeder = "createTemplates" /\ ~disturbed => DOMAIN template = {} \/ Reference

DataInv ==
    /\ TypeOK
    /\ DOMAIN writer = Writer
    /\ IsFiniteSet(DOMAIN row)
    /\ Origins
    /\ Unseen
    /\ OutsideStays
    /\ EvidenceKept
    /\ Together
    /\ Stages
    /\ CleanStages

OwedAhead ==
    client.step = "page" =>
        LET rows == Matching(row, client.filter)
        IN  \A n \in client.owed :
                /\ n \in rows /\ Alone(n, row, rows)
                /\ Cardinality(Newer(n, row, rows)) >= client.offset

ListInv ==
    /\ DataInv
    /\ client = Resting \/ client \in Asking
    /\ OwedAhead
    /\ StandingRowsListed

-----------------------------------------------------------------------------
(* The seeder's lists and ids *)

SeedType == [status : Status, sentAt : BOOLEAN, failedAt : BOOLEAN,
             name : {"none", "sms", "email", "push"}, key : 0 .. 2]

LEMMA SeedsListed ==
    /\ \A i \in 1 .. 10 : SeedSingle[i] \in SeedType
    /\ \A i \in 1 .. 5 :
          SeedBatch[i] \in SeedType /\ SeedBatch[i].name = "none" /\ SeedBatch[i].key = 0
<1>1. /\ SeedSingle[1] \in SeedType /\ SeedSingle[2] \in SeedType
      /\ SeedSingle[3] \in SeedType /\ SeedSingle[4] \in SeedType
      /\ SeedSingle[5] \in SeedType /\ SeedSingle[6] \in SeedType
      /\ SeedSingle[7] \in SeedType /\ SeedSingle[8] \in SeedType
      /\ SeedSingle[9] \in SeedType /\ SeedSingle[10] \in SeedType
  BY DEF SeedSingle, Seed, SeedType, Status
<1>2. /\ SeedBatch[1] \in SeedType /\ SeedBatch[2] \in SeedType
      /\ SeedBatch[3] \in SeedType /\ SeedBatch[4] \in SeedType
      /\ SeedBatch[5] \in SeedType
  BY DEF SeedBatch, Seed, SeedType, Status
<1>3. /\ SeedBatch[1].name = "none" /\ SeedBatch[2].name = "none" /\ SeedBatch[3].name = "none"
      /\ SeedBatch[4].name = "none" /\ SeedBatch[5].name = "none"
      /\ SeedBatch[1].key = 0 /\ SeedBatch[2].key = 0 /\ SeedBatch[3].key = 0
      /\ SeedBatch[4].key = 0 /\ SeedBatch[5].key = 0
  BY DEF SeedBatch, Seed
<1>4. ASSUME NEW i \in 1 .. 10 PROVE i \in {1, 2, 3, 4, 5, 6, 7, 8, 9, 10}
  OBVIOUS
<1>5. ASSUME NEW i \in 1 .. 5 PROVE i \in {1, 2, 3, 4, 5}
  OBVIOUS
<1> QED
  BY <1>1, <1>2, <1>3, <1>4, <1>5

LEMMA SeedIds ==
    ASSUME NEW n \in Id \ Outside
    PROVE  /\ n[1] \in 1 .. MaxSeedings /\ n[2] \in SeedNumber /\ n[2] \in 1 .. 15
           /\ n \in SeedId(n[1])
           /\ \A k : n \in SeedId(k) => k = n[1]
BY SeedAssumption DEF SeedId

LEMMA SeedIdsAre ==
    ASSUME NEW k \in 1 .. MaxSeedings
    PROVE  /\ SeedId(k) \subseteq Id \ Outside
           /\ SeedTemplate(k) \subseteq Template
           /\ FirstSeeds(k) \cup LastSeeds(k) = SeedId(k)
           /\ \A n \in SeedId(k) : n[1] = k
           /\ \A n \in LastSeeds(k) : n \notin FirstSeeds(k)
BY SeedAssumption, SeedIds DEF SeedId, SeedTemplate, FirstSeeds, LastSeeds

\* What the seeder inserts has the type of a row, refers to templates of its own
\* seeding, and has neither template nor key in the last statement.
LEMMA SeedRowFits ==
    ASSUME NEW n \in Id \ Outside, NEW stamp \in Stamp
    PROVE  /\ SeedRow(n, stamp) \in RowOf(SeedTemplate(n[1]))
           /\ OriginFits(n, SeedRow(n, stamp))
           /\ n[2] > 10 => SeedRow(n, stamp).template = NoTemplate
                             /\ SeedRow(n, stamp).key = NoKey
<1> DEFINE seed == IF n[2] <= 10 THEN SeedSingle[n[2]] ELSE SeedBatch[n[2] - 10]
<1>1. n[2] \in 1 .. 15
  BY SeedIds
<1>2. seed \in SeedType /\ (n[2] > 10 => seed.name = "none" /\ seed.key = 0)
  BY <1>1, SeedsListed
<1> HIDE DEF seed
<1>3. SeedRow(n, stamp) =
          [status |-> seed.status, sentAt |-> seed.sentAt, failedAt |-> seed.failedAt,
           template |-> IF seed.name \in SeedName THEN <<n[1], seed.name>> ELSE NoTemplate,
           key |-> IF seed.key = 0 THEN NoKey ELSE seed.key, created |-> stamp]
  BY DEF SeedRow, seed
<1>4. seed.key \in 0 .. 2 /\ (seed.key # 0 => seed.key \in Key)
  BY <1>2, SeedAssumption DEF SeedType
<1>5. seed.name \in SeedName => <<n[1], seed.name>> \in SeedTemplate(n[1])
  BY DEF SeedTemplate
<1>6. "none" \notin SeedName
  BY SeedAssumption
<1>7. SeedRow(n, stamp) \in RowOf(SeedTemplate(n[1]))
  BY <1>2, <1>3, <1>4, <1>5 DEF RowOf, SeedType
<1>8. OriginFits(n, SeedRow(n, stamp))
  BY <1>3 DEF OriginFits, SameOrigin
<1> QED
  BY <1>2, <1>3, <1>6, <1>7, <1>8

\* One of the first seeds of each seeding refers to a template.
LEMMA SeedRefers ==
    ASSUME NEW k \in 1 .. MaxSeedings
    PROVE  \E n \in FirstSeeds(k) :
               \A stamp : SeedRow(n, stamp).template \in SeedTemplate(k)
<1> PICK i \in SeedNumber : i <= 10 /\ SeedSingle[i].name \in SeedName
  BY SeedRefersAssumption
<1>1. <<k, i>> \in FirstSeeds(k)
  BY DEF FirstSeeds, SeedId
<1>2. \A stamp : SeedRow(<<k, i>>, stamp).template = <<k, SeedSingle[i].name>>
  BY DEF SeedRow
<1> QED
  BY <1>1, <1>2 DEF SeedTemplate

-----------------------------------------------------------------------------
(* The steps of the service *)

\* A method keeps the type and the origin of a row, and what it shows of earlier
\* ones.
LEMMA MarkedFits ==
    ASSUME NEW method \in Method, NEW T, NEW r \in RowOf(T)
    PROVE  /\ Marked(method, r) \in RowOf(T)
           /\ SameOrigin(Marked(method, r), r)
           /\ r.sentAt \/ method = "MarkAsSent" => Marked(method, r).sentAt
           /\ r.failedAt \/ method = "MarkAsFailed" => Marked(method, r).failedAt
BY DEF Method, Marked, RowOf, SameOrigin, Status

LEMMA CallIs ==
    ASSUME TypeOK, NEW w \in Writer, writer[w].busy
    PROVE  writer[w] \in Call
BY DEF TypeOK, Idle

LEMMA FailuresBounded ==
    ASSUME TypeOK, UNCHANGED dbFailures \/ DBFails
    PROVE  dbFailures' \in 0 .. MaxDBFailures
<1>1. dbFailures \in 0 .. MaxDBFailures /\ MaxDBFailures \in Nat
  BY RowBoundsAssumption DEF TypeOK
<1>2. CASE UNCHANGED dbFailures
  BY <1>1, <1>2
<1>3. CASE DBFails
  BY <1>1, <1>3 DEF DBFails
<1> QED
  BY <1>2, <1>3

\* Steps that touch neither rows nor calls.
LEMMA RowsUntouched ==
    ASSUME DataInv, UNCHANGED <<row, writer, marked, revived, overtaken>>,
           \A n \in Id \ Outside : Unborn(n)' => Unborn(n)
    PROVE  /\ Origins' /\ Unseen' /\ OutsideStays' /\ EvidenceKept' /\ Together'
           /\ IsFiniteSet(DOMAIN row)' /\ (DOMAIN writer = Writer)'
           /\ Original' = Original
<1>1. Original' = Original
  BY DEF Original
<1>2. Together'
  BY <1>1 DEF DataInv, Together
<1>3. \A n : Seen(n)' <=> Seen(n)
  BY DEF Seen, Busy
<1>4. Unseen' /\ OutsideStays'
  BY <1>3 DEF DataInv, Unseen, OutsideStays
<1>5. Origins'
  BY DEF DataInv, Origins, Busy, OriginFits
<1>6. EvidenceKept'
  BY DEF DataInv, EvidenceKept
<1> QED
  BY <1>1, <1>2, <1>4, <1>5, <1>6 DEF DataInv

\* Without the seeder, an unborn id stays one and the stages depend on the rest only.
LEMMA SeederIdle ==
    ASSUME DataInv, UNCHANGED seedVars, Original' = Original,
           DOMAIN template' = DOMAIN template \/ revivedTemplates' # {},
           DOMAIN template = SeedTemplate(seeding) => DOMAIN template' = DOMAIN template,
           Reference => Reference'
    PROVE  /\ Stages' /\ CleanStages'
           /\ \A n : Unborn(n)' <=> Unborn(n)
<1>1. Stages'
  BY DEF DataInv, Stages, seedVars
<1>2. CleanStages'
  BY DEF DataInv, CleanStages, seedVars, Reference
<1> QED
  BY <1>1, <1>2 DEF seedVars, Unborn

LEMMA CreateRowKeeps ==
    ASSUME DataInv, NEW n \in Outside, NEW t \in Template \cup {NoTemplate},
           NEW stamp \in Stamp, CreateRow(n, t, stamp), UNCHANGED seedVars
    PROVE  DataInv'
<1> DEFINE new == [status |-> "pending", sentAt |-> FALSE, failedAt |-> FALSE,
                   template |-> t, key |-> NoKey, created |-> stamp]
<1>1. /\ n \notin DOMAIN row /\ n \in Id
      /\ new \in RowOf(DOMAIN template) /\ OriginFits(n, new)
      /\ DOMAIN row' = DOMAIN row \cup {n} /\ row'[n] = new
      /\ \A m \in DOMAIN row : row'[m] = row[m]
      /\ UNCHANGED <<template, writer, editor, saves, dbFailures, rowHistory>>
  BY OutsideAssumption DEF CreateRow, With, RowOf, Status, OriginFits
<1> HIDE DEF new
<1>2. TypeOK' /\ (DOMAIN writer = Writer)'
  BY <1>1 DEF DataInv, TypeOK, rowHistory, seedVars
<1>3. IsFiniteSet(DOMAIN row)'
  BY <1>1, FS_AddElement DEF DataInv
<1>4. ~Seen(n)
  BY <1>1 DEF DataInv, OutsideStays
<1>5. \A m : m # n => (Seen(m)' <=> Seen(m))
  BY <1>1 DEF Seen, Busy, rowHistory
<1>6. Original' = Original
  BY <1>1 DEF Original, rowHistory
<1>7. Reference => Reference'
  BY <1>1 DEF Reference, rowHistory
<1>8. Stages' /\ CleanStages' /\ \A m : Unborn(m)' <=> Unborn(m)
  BY <1>1, <1>6, <1>7, SeederIdle
<1>9. Together'
  BY <1>6 DEF DataInv, Together
<1>10. Unseen' /\ OutsideStays'
  BY <1>1, <1>5, <1>8 DEF DataInv, Unseen, OutsideStays, rowHistory
<1>11. Origins'
  BY <1>1, <1>4 DEF DataInv, Origins, Busy, Seen, OriginFits
<1>12. EvidenceKept'
  BY <1>1, <1>4 DEF DataInv, EvidenceKept, Seen, rowHistory
<1> QED
  BY <1>2, <1>3, <1>8, <1>9, <1>10, <1>11, <1>12 DEF DataInv

LEMMA ReadRowKeeps ==
    ASSUME DataInv, NEW w \in Writer, NEW n \in Id, NEW method \in Methods,
           ReadRow(w, n, method), UNCHANGED seedVars
    PROVE  DataInv'
<1> DEFINE call == [busy |-> TRUE, id |-> n, method |-> method, copy |-> row[n]]
<1>1. /\ n \in DOMAIN row /\ row[n] \in Row /\ method \in Method /\ saves < MaxSaves
      /\ saves' = saves + 1
      /\ writer'[w] = call /\ \A v \in Writer : v # w => writer'[v] = writer[v]
      /\ DOMAIN writer' = Writer
      /\ UNCHANGED <<row, template, editor, dbFailures, rowHistory>>
  BY RowBoundsAssumption DEF ReadRow, DataInv, TypeOK, Row, RowOf, tables
<1>2. call \in Call
  BY <1>1 DEF Call
<1>3. TypeOK'
  <2>1. \A v \in Writer : writer'[v] = Idle \/ writer'[v] \in Call
    BY <1>1, <1>2 DEF DataInv, TypeOK
  <2>2. saves' \in 0 .. MaxSaves
    BY <1>1, RowBoundsAssumption DEF DataInv, TypeOK
  <2> QED
    BY <1>1, <2>1, <2>2 DEF DataInv, TypeOK, rowHistory, seedVars
<1>4. \A m : Seen(m)' => Seen(m)
  BY <1>1 DEF Seen, Busy, rowHistory
<1>5. Original' = Original /\ (Reference => Reference')
  BY <1>1 DEF Original, Reference, rowHistory
<1>6. Stages' /\ CleanStages' /\ \A m : Unborn(m)' <=> Unborn(m)
  BY <1>1, <1>5, SeederIdle
<1>7. Unseen' /\ OutsideStays' /\ Together'
  BY <1>1, <1>4, <1>5, <1>6 DEF DataInv, Unseen, OutsideStays, Together, rowHistory
<1>8. EvidenceKept' /\ IsFiniteSet(DOMAIN row)'
  BY <1>1 DEF DataInv, EvidenceKept, rowHistory
<1>9. Origins'
  <2>1. \A v \in Writer : writer'[v].busy =>
           \/ v # w /\ writer'[v] = writer[v]
           \/ writer'[v].id = n /\ writer'[v].copy = row[n]
    BY <1>1
  <2>2. \A a, b, c : SameOrigin(a, a) /\ (SameOrigin(a, b) => SameOrigin(b, a))
    BY DEF SameOrigin
  <2> QED
    BY <1>1, <2>1, <2>2 DEF DataInv, Origins, Busy, OriginFits
<1> QED
  BY <1>1, <1>3, <1>6, <1>7, <1>8, <1>9 DEF DataInv

\* A save overwrites the row, brings it back, or fails.
LEMMA SaveRowKeeps ==
    ASSUME DataInv, NEW w \in Writer, SaveRow(w), UNCHANGED seedVars
    PROVE  DataInv'
<1> DEFINE n == writer[w].id
           old == writer[w].copy
           new == Marked(writer[w].method, old)
           stale == n \notin DOMAIN row \/ row[n] # old
<1>1. /\ writer[w].busy /\ writer[w] \in Call
      /\ n \in Id /\ old \in Row /\ writer[w].method \in Method
      /\ writer'[w] = Idle /\ ~writer'[w].busy
      /\ \A v \in Writer : v # w => writer'[v] = writer[v]
      /\ DOMAIN writer' = Writer
      /\ UNCHANGED <<template, editor, saves>>
  <2>1. writer[w].busy
    BY DEF SaveRow
  <2>2. writer[w] \in Call
    BY <2>1, CallIs DEF DataInv
  <2>3. n \in Id /\ old \in Row /\ writer[w].method \in Method
    BY <2>2 DEF Call
  <2>4. /\ writer'[w] = Idle /\ DOMAIN writer' = Writer
        /\ \A v \in Writer : v # w => writer'[v] = writer[v]
        /\ UNCHANGED <<template, editor, saves>>
    BY DEF SaveRow, DataInv
  <2> QED
    BY <2>1, <2>2, <2>3, <2>4 DEF Idle
<1>2. /\ new \in Row /\ SameOrigin(new, old)
      /\ old.sentAt \/ writer[w].method = "MarkAsSent" => new.sentAt
      /\ old.failedAt \/ writer[w].method = "MarkAsFailed" => new.failedAt
  BY <1>1, MarkedFits DEF Row
<1>3. CASE /\ n \in DOMAIN row \/ Admitted(new)
           /\ row' = With(row, n, new)
           /\ marked' = marked \cup ({<<n, writer[w].method>>}
                                       \cap (Id \X {"MarkAsSent", "MarkAsFailed"}))
           /\ overtaken' = IF stale THEN overtaken \cup {n} ELSE overtaken
           /\ revived' = IF n \in DOMAIN row THEN revived ELSE revived \cup {n}
           /\ UNCHANGED <<dbFailures, revivedTemplates>>
  <2>1. /\ DOMAIN row' = DOMAIN row \cup {n} /\ row'[n] = new
        /\ \A m \in DOMAIN row : m # n => row'[m] = row[m]
    BY <1>3 DEF With
  <2> HIDE DEF new
  <2>2. n \in DOMAIN row => SameOrigin(old, row[n])
    BY <1>1 DEF DataInv, Origins, Busy
  <2>3. OriginFits(n, old)
    BY <1>1 DEF DataInv, Origins
  <2>4. Seen(n)
    BY <1>1 DEF Seen, Busy
  <2>5. TypeOK'
    <3>1. new.template \in DOMAIN template \cup {NoTemplate}
      <4>1. n \in DOMAIN row => row[n] \in RowOf(DOMAIN template)
        BY DEF DataInv, TypeOK
      <4> QED
        BY <1>2, <1>3, <2>2, <4>1 DEF SameOrigin, RowOf, Admitted
    <3>2. new \in RowOf(DOMAIN template)
      BY <1>2, <3>1 DEF Row, RowOf
    <3>3. \A m \in DOMAIN row' : row'[m] \in RowOf(DOMAIN template')
      BY <1>1, <2>1, <3>2 DEF DataInv, TypeOK
    <3>4. marked' \subseteq Id \X Method /\ overtaken' \subseteq Id /\ revived' \subseteq Id
      BY <1>1, <1>3 DEF DataInv, TypeOK, Method
    <3>5. \A v \in Writer : writer'[v] = Idle \/ writer'[v] \in Call
      BY <1>1 DEF DataInv, TypeOK
    <3>6. DOMAIN row' \subseteq Id
      BY <1>1, <2>1 DEF DataInv, TypeOK
    <3> QED
      BY <1>1, <1>3, <3>3, <3>4, <3>5, <3>6 DEF DataInv, TypeOK, seedVars
  <2>6. IsFiniteSet(DOMAIN row)'
    BY <2>1, FS_AddElement DEF DataInv
  <2>7. \A m : Seen(m)' => Seen(m)
    BY <1>1, <1>3, <2>1, <2>4 DEF Seen, Busy
  <2>8. Original' = Original
    BY <1>3, <2>1 DEF Original
  <2>9. Reference => Reference'
    <3> SUFFICES ASSUME NEW m \in DOMAIN row \cap (Outside \cup revived),
                        row[m].template # NoTemplate
                 PROVE  \E k \in DOMAIN row' \cap (Outside \cup revived') :
                            row'[k].template # NoTemplate
      BY <1>3 DEF Reference
    <3>1. m \in DOMAIN row' \cap (Outside \cup revived')
      BY <1>3, <2>1
    <3>2. row'[m].template = row[m].template
      BY <1>2, <2>1, <2>2 DEF SameOrigin
    <3> QED
      BY <3>1, <3>2
  <2>10. Stages' /\ CleanStages' /\ \A m : Unborn(m)' <=> Unborn(m)
    BY <1>1, <1>3, <2>8, <2>9, SeederIdle
  <2>11. Together'
    BY <2>8 DEF DataInv, Together
  <2>12. Unseen'
    BY <2>7, <2>10 DEF DataInv, Unseen
  <2>13. OutsideStays'
    BY <1>3, <2>1, <2>4, <2>7 DEF DataInv, OutsideStays
  <2>14. Origins'
    <3>1. \A a, b, c : (SameOrigin(a, b) => SameOrigin(b, a))
             /\ (SameOrigin(a, b) /\ SameOrigin(b, c) => SameOrigin(a, c))
      BY DEF SameOrigin
    <3>2. OriginFits(n, new)
      BY <1>2, <2>3 DEF OriginFits, SameOrigin, SeedRow
    <3>3. \A m \in DOMAIN row' : OriginFits(m, row'[m])
      BY <2>1, <3>2 DEF DataInv, Origins
    <3>4. ASSUME NEW v \in Writer, NEW m \in DOMAIN row', Busy(v, m)'
          PROVE  SameOrigin(writer'[v].copy, row'[m])
      <4>1. v # w /\ writer'[v] = writer[v] /\ Busy(v, m)
        BY <1>1, <3>4 DEF Busy
      <4>2. CASE m = n
        <5>1. SameOrigin(writer[v].copy, old)
          BY <1>1, <4>1, <4>2 DEF DataInv, Origins, Busy
        <5> QED
          BY <1>2, <2>1, <3>1, <4>1, <4>2, <5>1
      <4>3. CASE m # n
        BY <2>1, <4>1, <4>3 DEF DataInv, Origins
      <4> QED
        BY <4>2, <4>3
    <3>5. \A v \in Writer : writer'[v].busy => v # w /\ writer'[v] = writer[v]
      BY <1>1
    <3> QED
      BY <3>3, <3>4, <3>5 DEF DataInv, Origins, Busy
  <2>15. EvidenceKept'
    <3> SUFFICES ASSUME NEW e \in marked', e[1] \in DOMAIN row' \ overtaken'
                 PROVE  IF e[2] = "MarkAsSent" THEN row'[e[1]].sentAt ELSE row'[e[1]].failedAt
      BY DEF EvidenceKept
    <3>1. \/ e \in marked
          \/ e = <<n, writer[w].method>> /\ e[2] \in {"MarkAsSent", "MarkAsFailed"}
      BY <1>3
    <3>2. e[1] \notin overtaken
      BY <1>3
    <3>3. CASE e[1] # n
      <4>1. e \in marked /\ e[1] \in DOMAIN row /\ row'[e[1]] = row[e[1]]
        BY <2>1, <3>1, <3>3
      <4> QED
        BY <3>2, <4>1 DEF DataInv, EvidenceKept
    <3>4. CASE e[1] = n /\ e \in marked
      <4>1. n \in DOMAIN row /\ old = row[n]
        BY <1>3, <3>4
      <4>2. IF e[2] = "MarkAsSent" THEN old.sentAt ELSE old.failedAt
        BY <3>2, <3>4, <4>1 DEF DataInv, EvidenceKept
      <4> QED
        BY <1>2, <2>1, <3>4, <4>2
    <3>5. CASE e[1] = n /\ e = <<n, writer[w].method>> /\ e[2] \in {"MarkAsSent", "MarkAsFailed"}
      BY <1>2, <2>1, <3>5
    <3> QED
      BY <3>1, <3>3, <3>4, <3>5
  <2> QED
    BY <1>1, <2>5, <2>6, <2>10, <2>11, <2>12, <2>13, <2>14, <2>15 DEF DataInv
<1>4. CASE UNCHANGED <<row, rowHistory>> /\ (UNCHANGED dbFailures \/ DBFails)
  <2>1. TypeOK'
    <3>1. dbFailures' \in 0 .. MaxDBFailures
      BY <1>4, RowBoundsAssumption DEF DBFails, DataInv, TypeOK
    <3>2. \A v \in Writer : writer'[v] = Idle \/ writer'[v] \in Call
      BY <1>1 DEF DataInv, TypeOK
    <3> QED
      BY <1>1, <1>4, <3>1, <3>2 DEF DataInv, TypeOK, rowHistory, seedVars
  <2>2. \A m : Seen(m)' => Seen(m)
    BY <1>1, <1>4 DEF Seen, Busy, rowHistory
  <2>3. Original' = Original /\ (Reference => Reference')
    BY <1>4 DEF Original, Reference, rowHistory
  <2>4. Stages' /\ CleanStages' /\ \A m : Unborn(m)' <=> Unborn(m)
    BY <1>1, <1>4, <2>3, SeederIdle DEF rowHistory
  <2>5. Unseen' /\ OutsideStays' /\ Together'
    BY <1>4, <2>2, <2>3, <2>4 DEF DataInv, Unseen, OutsideStays, Together, rowHistory
  <2>6. EvidenceKept' /\ IsFiniteSet(DOMAIN row)'
    BY <1>4 DEF DataInv, EvidenceKept, rowHistory
  <2>7. \A v \in Writer : writer'[v].busy => v # w /\ writer'[v] = writer[v]
    BY <1>1
  <2>8. Origins'
    BY <1>4, <2>7 DEF DataInv, Origins, Busy, OriginFits
  <2> QED
    BY <1>1, <2>1, <2>4, <2>5, <2>6, <2>8 DEF DataInv
<1> QED
  BY <1>3, <1>4 DEF SaveRow

LEMMA TemplatesKeep ==
    ASSUME DataInv, UNCHANGED seedVars,
           EditSave \/ \E t \in Template : EditRead(t) \/ DeleteTemplate(t)
    PROVE  DataInv'
<1>1. UNCHANGED <<row, writer, marked, overtaken, revived>>
  BY DEF EditSave, EditRead, DeleteTemplate, tables, rowHistory
<1>2. /\ DOMAIN template \subseteq DOMAIN template'
      /\ \/ DOMAIN template' = DOMAIN template
         \/ /\ revivedTemplates' # {}
            /\ \E t \in DOMAIN template' : \A u \in DOMAIN template : ~SameName(t, u)
      /\ Reference => Reference'
      /\ TypeOK'
  <2>1. CASE \E t \in Template : EditRead(t)
    <3>1. saves' \in 0 .. MaxSaves
      BY <2>1, RowBoundsAssumption DEF EditRead, DataInv, TypeOK
    <3>2. TypeOK'
      BY <2>1, <3>1 DEF EditRead, DataInv, TypeOK, tables, rowHistory, seedVars
    <3> QED
      BY <2>1, <3>2 DEF EditRead, tables, rowHistory, Reference
  <2>2. CASE \E t \in Template : DeleteTemplate(t)
    <3> PICK t \in Template : DeleteTemplate(t)
      BY <2>2
    <3>1. saves' \in 0 .. MaxSaves
      BY RowBoundsAssumption DEF DeleteTemplate, DataInv, TypeOK
    <3>2. DOMAIN template' = DOMAIN template
             /\ \A u \in DOMAIN template' : template'[u] \in [deleted : BOOLEAN]
      BY DEF DeleteTemplate, DataInv, TypeOK
    <3>3. TypeOK'
      BY <3>1, <3>2 DEF DeleteTemplate, DataInv, TypeOK, rowHistory, seedVars
    <3> QED
      BY <3>2, <3>3 DEF DeleteTemplate, rowHistory, Reference
  <2>3. CASE EditSave
    <3> DEFINE t == editor
               taken == \E u \in DOMAIN template \ {t} : SameName(t, u)
    <3>1. t \in Template /\ editor' = NoTemplate
             /\ UNCHANGED <<row, writer, saves, marked, overtaken, revived>>
      BY <2>3 DEF EditSave, DataInv, TypeOK
    <3>2. CASE /\ ~taken
               /\ template' = With(template, t, [deleted |-> FALSE])
               /\ revivedTemplates' = IF t \in DOMAIN template THEN revivedTemplates
                                      ELSE revivedTemplates \cup {t}
               /\ UNCHANGED dbFailures
      <4>1. DOMAIN template' = DOMAIN template \cup {t}
               /\ \A u \in DOMAIN template' : template'[u] \in [deleted : BOOLEAN]
        BY <3>2 DEF With, DataInv, TypeOK
      <4>2. \A m \in DOMAIN row : row[m] \in RowOf(DOMAIN template')
        BY <4>1 DEF DataInv, TypeOK, RowOf
      <4>3. TypeOK'
        BY <3>1, <3>2, <4>1, <4>2 DEF DataInv, TypeOK, seedVars
      <4>4. \A u \in DOMAIN template : u # t => ~SameName(t, u)
        BY <3>2
      <4> QED
        BY <3>1, <3>2, <4>1, <4>3, <4>4 DEF Reference
    <3>3. CASE UNCHANGED <<template, revivedTemplates>> /\ (UNCHANGED dbFailures \/ DBFails)
      <4>1. dbFailures' \in 0 .. MaxDBFailures
        BY <3>3, RowBoundsAssumption DEF DBFails, DataInv, TypeOK
      <4>2. TypeOK'
        BY <3>1, <3>3, <4>1 DEF DataInv, TypeOK, seedVars
      <4> QED
        BY <3>1, <3>3, <4>2 DEF Reference
    <3> QED
      BY <2>3, <3>2, <3>3 DEF EditSave
  <2> QED
    BY <2>1, <2>2, <2>3
<1>3. DOMAIN template = SeedTemplate(seeding) => DOMAIN template' = DOMAIN template
  <2> SUFFICES ASSUME DOMAIN template = SeedTemplate(seeding), NEW t \in DOMAIN template'
               PROVE  \E u \in DOMAIN template : SameName(t, u)
    BY <1>2
  <2>1. t \in Template
    BY <1>2 DEF TypeOK
  <2>2. PICK name \in SeedName : t[2] = name
    BY <2>1, SeedAssumption DEF SeedTemplate
  <2>3. <<seeding, name>> \in DOMAIN template
    BY DEF SeedTemplate
  <2> QED
    BY <2>2, <2>3 DEF SameName
<1>4. Original' = Original
  BY <1>1 DEF Original
<1>5. Stages' /\ CleanStages' /\ \A m : Unborn(m)' <=> Unborn(m)
  BY <1>2, <1>3, <1>4, SeederIdle
<1> QED
  BY <1>1, <1>2, <1>5, RowsUntouched DEF DataInv

-----------------------------------------------------------------------------
(* The steps of the seeder *)

LEMMA BeginSeedingKeeps ==
    ASSUME DataInv, BeginSeeding
    PROVE  DataInv'
<1>1. /\ seeding' = seeding + 1 /\ seeding \in Nat
      /\ seeding' \in 1 .. MaxSeedings /\ seeding' \in 0 .. MaxSeedings
  BY SeedingsAssumption DEF BeginSeeding, DataInv, TypeOK
<1>2. \A n \in Id \ Outside : Unborn(n)' => Unborn(n)
  <2>1. \A n \in Id \ Outside : n[1] \in Nat
    BY SeedIds
  <2> QED
    BY <1>1, <2>1 DEF BeginSeeding, Unborn
<1>3. TypeOK'
  BY <1>1 DEF BeginSeeding, DataInv, TypeOK, rowVars, tables, rowHistory
<1>4. Stages' /\ CleanStages'
  BY <1>1 DEF BeginSeeding, Stages, CleanStages, BeforeTemplates
<1> QED
  BY <1>2, <1>3, <1>4, RowsUntouched DEF BeginSeeding, DataInv, rowVars, tables, rowHistory

LEMMA KillSeederKeeps ==
    ASSUME DataInv, KillSeeder
    PROVE  DataInv'
<1>1. \A n \in Id \ Outside : Unborn(n)' => Unborn(n)
  BY DEF KillSeeder, Unborn, BeforeTemplates
<1>2. TypeOK'
  BY DEF KillSeeder, DataInv, TypeOK, rowVars, tables, rowHistory, Ended
<1>3. Stages' /\ CleanStages'
  BY DEF KillSeeder, Stages, CleanStages
<1> QED
  BY <1>1, <1>2, <1>3, RowsUntouched DEF KillSeeder, DataInv, rowVars, tables, rowHistory

LEMMA CleanNotificationsKeeps ==
    ASSUME DataInv, CleanNotifications
    PROVE  DataInv'
<1>1. /\ seeder = "cleanNotifications" /\ seeder' = "cleanTemplates"
      /\ UNCHANGED <<seeding, writer, editor, saves, marked, overtaken>>
  BY DEF CleanNotifications, Clean, SeederLeaves
<1>2. \A n : Unborn(n)' => Unborn(n)
  BY <1>1 DEF Unborn, BeforeTemplates
<1>3. CASE /\ row' = [n \in DOMAIN row \cap Outside |-> row[n]]
           /\ revived' = {}
           /\ UNCHANGED <<template, revivedTemplates, dbFailures, disturbed>>
  <2>1. /\ DOMAIN row' = DOMAIN row \cap Outside
        /\ \A n \in DOMAIN row' : n \in DOMAIN row /\ row'[n] = row[n]
    BY <1>3
  <2>2. TypeOK'
    BY <1>1, <1>3, <2>1 DEF DataInv, TypeOK
  <2>3. IsFiniteSet(DOMAIN row)'
    BY <2>1, FS_Subset DEF DataInv
  <2>4. \A n : Seen(n)' => Seen(n)
    BY <1>1, <2>1 DEF Seen, Busy
  <2>5. Unseen'
    BY <1>2, <2>4 DEF DataInv, Unseen
  <2>6. OutsideStays'
    BY <1>3, <2>1, <2>4 DEF DataInv, OutsideStays
  <2>7. Original' = {}
    BY <2>1 DEF Original
  <2>8. Together' /\ Stages' /\ CleanStages'
    BY <1>1, <2>7 DEF Together, Stages, CleanStages, DataInv
  <2>9. Origins'
    BY <1>1, <2>1 DEF DataInv, Origins, Busy, OriginFits
  <2>10. EvidenceKept'
    BY <1>1, <2>1 DEF DataInv, EvidenceKept
  <2> QED
    BY <1>1, <2>2, <2>3, <2>5, <2>6, <2>8, <2>9, <2>10 DEF DataInv
<1>4. CASE DBFails /\ disturbed' = TRUE /\ UNCHANGED <<tables, revived, revivedTemplates>>
  <2>1. dbFailures' \in 0 .. MaxDBFailures
    BY <1>4, RowBoundsAssumption DEF DBFails, DataInv, TypeOK
  <2>2. TypeOK'
    BY <1>1, <1>4, <2>1 DEF DataInv, TypeOK, tables
  <2>3. Stages' /\ CleanStages'
    BY <1>1, <1>4 DEF Stages, CleanStages, DataInv
  <2> QED
    BY <1>1, <1>2, <1>4, <2>2, <2>3, RowsUntouched DEF DataInv, tables
<1> QED
  BY <1>3, <1>4 DEF CleanNotifications, Clean

LEMMA CleanTemplatesKeeps ==
    ASSUME DataInv, CleanTemplates
    PROVE  DataInv'
<1>1. /\ seeder = "cleanTemplates" /\ seeder' = "createTemplates"
      /\ UNCHANGED <<row, revived, seeding, writer, editor, saves, marked, overtaken>>
  BY DEF CleanTemplates, Clean, SeederLeaves, tables
<1>2. \A n : Unborn(n)' => Unborn(n)
  BY <1>1 DEF Unborn, BeforeTemplates
<1>3. Stages'
  BY <1>1 DEF DataInv, Stages
<1>4. TypeOK' /\ CleanStages'
  <2>1. CASE UNCHANGED <<dbFailures, disturbed, template, revivedTemplates>> /\ Referred
    <3>1. TypeOK'
      BY <1>1, <2>1 DEF DataInv, TypeOK
    <3>2. ~disturbed => Reference
      <4> SUFFICES ASSUME Original = {} PROVE Reference
        BY <1>1 DEF DataInv, CleanStages
      <4> PICK n \in DOMAIN row : row[n].template \in DOMAIN template
        BY <2>1 DEF Referred
      <4>1. row[n].template # NoTemplate
        BY NothingAssumption DEF DataInv, TypeOK
      <4> QED
        BY <4>1 DEF Original, Reference
    <3>3. Reference => Reference'
      BY <1>1, <2>1 DEF Reference
    <3> QED
      BY <1>1, <2>1, <3>1, <3>2, <3>3 DEF CleanStages
  <2>2. CASE /\ UNCHANGED <<dbFailures, disturbed>>
             /\ ~Referred /\ Cleaned /\ revivedTemplates' = {}
    <3>1. DOMAIN template' = {}
      BY <2>2 DEF Cleaned
    <3>2. \A n \in DOMAIN row : row[n] \in RowOf({})
      BY <2>2 DEF Referred, DataInv, TypeOK, RowOf
    <3>3. TypeOK'
      BY <1>1, <2>2, <3>1, <3>2 DEF DataInv, TypeOK
    <3> QED
      BY <1>1, <3>1, <3>3 DEF CleanStages
  <2>3. CASE DBFails /\ disturbed' = TRUE /\ UNCHANGED <<template, revivedTemplates>>
    <3>1. dbFailures' \in 0 .. MaxDBFailures
      BY <2>3, RowBoundsAssumption DEF DBFails, DataInv, TypeOK
    <3>2. TypeOK'
      BY <1>1, <2>3, <3>1 DEF DataInv, TypeOK
    <3> QED
      BY <1>1, <2>3, <3>2 DEF CleanStages
  <2> QED
    BY <2>1, <2>2, <2>3 DEF CleanTemplates, Clean, tables
<1> QED
  BY <1>1, <1>2, <1>3, <1>4, RowsUntouched DEF DataInv

\* An INSERT that inserts nothing ends the seeding.
LEMMA FailedInsertKeeps ==
    ASSUME DataInv, seeder \notin Ended, seeder' = "failed",
           UNCHANGED <<tables, writer, editor, saves, rowHistory, seeding>>,
           dbFailures' \in 0 .. MaxDBFailures, disturbed' \in BOOLEAN
    PROVE  DataInv'
<1>1. \A n : Unborn(n)' => Unborn(n)
  BY DEF Unborn, BeforeTemplates
<1>2. TypeOK'
  BY DEF DataInv, TypeOK, tables, rowHistory, Ended
<1>3. Stages' /\ CleanStages'
  BY DEF Stages, CleanStages, DataInv, Ended
<1> QED
  BY <1>1, <1>2, <1>3, RowsUntouched DEF DataInv, tables, rowHistory

\* As long as names are taken by templates that are there, only an empty table
\* admits those of a seeding; then there is no seed whose template is gone.
LEMMA CreateTemplatesKeeps ==
    ASSUME DataInv, CreateTemplates
    PROVE  DataInv'
<1> DEFINE possible == \A t \in SeedTemplate(seeding), u \in DOMAIN template : ~SameName(t, u)
<1>1. /\ seeder = "createTemplates" /\ seeding \in 1 .. MaxSeedings
      /\ UNCHANGED <<row, revived, revivedTemplates, seeding, writer, editor, saves,
                     marked, overtaken>>
  BY DEF CreateTemplates, InsertAll, SeederLeaves, tables, DataInv, TypeOK, Stages
<1>2. CASE /\ possible /\ seeder' = "createNotifications" /\ UNCHANGED <<dbFailures, disturbed>>
           /\ template' = [t \in DOMAIN template \cup SeedTemplate(seeding) |->
                              IF t \in DOMAIN template THEN template[t]
                              ELSE [deleted |-> FALSE]]
  <2>1. DOMAIN template = {}
    <3> SUFFICES ASSUME NEW u \in DOMAIN template PROVE FALSE
      OBVIOUS
    <3>1. u \in Template
      BY DEF DataInv, TypeOK
    <3>2. PICK name \in SeedName : u[2] = name
      BY <3>1, SeedAssumption DEF SeedTemplate
    <3>3. <<seeding, name>> \in SeedTemplate(seeding)
      BY DEF SeedTemplate
    <3> QED
      BY <1>2, <3>2, <3>3 DEF SameName
  <2>2. /\ DOMAIN template' = SeedTemplate(seeding)
        /\ \A t \in DOMAIN template' : template'[t] \in [deleted : BOOLEAN]
    BY <1>2, <2>1
  <2>3. Original = {}
    <3> SUFFICES ASSUME NEW n \in Original PROVE FALSE
      OBVIOUS
    <3>1. n \in Id \ Outside
      BY DEF Original, DataInv, TypeOK
    <3>2. n[1] \in 1 .. MaxSeedings /\ FirstSeeds(n[1]) \subseteq Original
      BY <3>1, SeedIds DEF DataInv, Together
    <3>3. PICK m \in FirstSeeds(n[1]) : \A stamp : SeedRow(m, stamp).template \in SeedTemplate(n[1])
      BY <3>2, SeedRefers
    <3>4. m \in DOMAIN row /\ m \notin Outside
      BY <3>2 DEF Original
    <3>5. row[m].template \in SeedTemplate(n[1])
      BY <3>3, <3>4 DEF DataInv, Origins, OriginFits, SameOrigin
    <3>6. row[m].template = NoTemplate
      BY <2>1, <3>4 DEF DataInv, TypeOK, RowOf
    <3> QED
      BY <3>2, <3>5, <3>6, SeedIdsAre, NothingAssumption
  <2>4. \A n \in DOMAIN row : row[n] \in RowOf(DOMAIN template')
    BY <2>1 DEF DataInv, TypeOK, RowOf
  <2>5. TypeOK'
    BY <1>1, <1>2, <2>2, <2>4, SeedIdsAre DEF DataInv, TypeOK
  <2>6. Original' = Original
    BY <1>1 DEF Original
  <2>7. Stages' /\ CleanStages'
    BY <1>1, <1>2, <2>2, <2>3, <2>6 DEF Stages, CleanStages, DataInv
  <2>8. \A n : Unborn(n)' => Unborn(n)
    BY <1>1, <1>2 DEF Unborn, BeforeTemplates
  <2> QED
    BY <1>1, <2>5, <2>7, <2>8, RowsUntouched DEF DataInv
<1>3. CASE seeder' = "failed"
  <2>1. /\ UNCHANGED template
        /\ \/ UNCHANGED <<dbFailures, disturbed>>
           \/ DBFails /\ disturbed' = TRUE
    BY <1>3 DEF CreateTemplates, InsertAll, tables
  <2>2. dbFailures' \in 0 .. MaxDBFailures /\ disturbed' \in BOOLEAN
    BY <2>1, FailuresBounded DEF DataInv, TypeOK
  <2> QED
    BY <1>1, <1>3, <2>1, <2>2, FailedInsertKeeps DEF Ended, tables, rowHistory
<1> QED
  BY <1>2, <1>3 DEF CreateTemplates, InsertAll, AfterFailedInsert

\* The seeds of one statement are inserted: no call knew of their ids.
LEMMA InsertKeeps ==
    ASSUME DataInv, NEW ids \in SUBSET SeedId(seeding), NEW stamp \in Stamp,
           seeding \in 1 .. MaxSeedings, \A n \in ids : Unborn(n),
           DOMAIN template = SeedTemplate(seeding),
           row' = [n \in DOMAIN row \cup ids |->
                      IF n \in ids THEN SeedRow(n, stamp) ELSE row[n]],
           seeder' \in {"createBatch", "done"},
           \A n : Unborn(n)' => Unborn(n) /\ n \notin ids,
           UNCHANGED <<template, writer, editor, saves, dbFailures, rowHistory, seeding,
                       disturbed>>
    PROVE  /\ TypeOK' /\ IsFiniteSet(DOMAIN row)' /\ Origins' /\ Unseen'
           /\ OutsideStays' /\ EvidenceKept'
           /\ Original' = Original \cup ids
<1>1. \A n \in ids : n \in Id \ Outside /\ n[1] = seeding /\ n[2] \in SeedNumber
  BY SeedIdsAre, SeedIds
<1>2. \A n \in ids : ~Seen(n)
  BY <1>1 DEF DataInv, Unseen
<1>3. /\ DOMAIN row' = DOMAIN row \cup ids
      /\ \A n \in ids : n \notin DOMAIN row /\ row'[n] = SeedRow(n, stamp)
      /\ \A n \in DOMAIN row : n \notin ids /\ row'[n] = row[n]
  BY <1>2 DEF Seen
<1>4. TypeOK'
  <2>1. \A n \in ids : SeedRow(n, stamp) \in RowOf(DOMAIN template)
    BY <1>1, SeedRowFits
  <2>2. \A n \in DOMAIN row' : row'[n] \in RowOf(DOMAIN template')
    BY <1>3, <2>1 DEF DataInv, TypeOK
  <2> QED
    BY <1>1, <1>3, <2>2 DEF DataInv, TypeOK, rowHistory, Ended
<1>5. IsFiniteSet(DOMAIN row)'
  <2> DEFINE f == [i \in SeedNumber |-> <<seeding, i>>]
  <2>1. IsFiniteSet(SeedNumber)
    <3>1. IsFiniteSet(1 .. 15)
      BY 1 \in Int, 15 \in Int, FS_Interval
    <3> QED
      BY <3>1, SeedAssumption, FS_Subset
  <2>2. f \in Surjection(SeedNumber, SeedId(seeding))
    BY DEF Surjection, SeedId
  <2>3. IsFiniteSet(SeedId(seeding))
    BY <2>1, <2>2, FS_Surjection
  <2> QED
    BY <1>3, <2>3, FS_Subset, FS_Union DEF DataInv
<1>6. Original' = Original \cup ids
  BY <1>1, <1>3 DEF Original, rowHistory, DataInv, OutsideStays
<1>7. \A n : n \notin ids => (Seen(n)' <=> Seen(n))
  BY <1>3 DEF Seen, Busy, rowHistory
<1>8. Unseen'
  BY <1>7 DEF DataInv, Unseen
<1>9. OutsideStays'
  BY <1>1, <1>3, <1>7 DEF DataInv, OutsideStays, rowHistory
<1>10. EvidenceKept'
  BY <1>2, <1>3 DEF DataInv, EvidenceKept, Seen, rowHistory
<1>11. Origins'
  <2>1. \A n \in ids : OriginFits(n, SeedRow(n, stamp))
    BY <1>1, SeedRowFits
  <2>2. \A w \in Writer, n \in ids : ~Busy(w, n)
    BY <1>2 DEF Seen
  <2> QED
    BY <1>3, <2>1, <2>2 DEF DataInv, Origins, Busy, OriginFits
<1> QED
  BY <1>4, <1>5, <1>6, <1>8, <1>9, <1>10, <1>11

LEMMA CreateNotificationsKeeps ==
    ASSUME DataInv, CreateNotifications
    PROVE  DataInv'
<1> DEFINE ids == {n \in SeedId(seeding) : n[2] <= 10}
<1>1. /\ seeder = "createNotifications" /\ seeding \in 1 .. MaxSeedings
      /\ DOMAIN template = SeedTemplate(seeding) /\ Original = {}
      /\ ids = FirstSeeds(seeding)
      /\ UNCHANGED <<template, revived, revivedTemplates, seeding, writer, editor, saves,
                     marked, overtaken>>
  BY DEF CreateNotifications, InsertSeeds, InsertAll, SeederLeaves, tables, DataInv, TypeOK,
         Stages, FirstSeeds
<1> PICK stamp \in Stamp :
        InsertAll("createBatch",
                  \A n \in ids : Admitted(SeedRow(n, stamp)),
                  /\ row' = [n \in DOMAIN row \cup ids |->
                                IF n \in ids THEN SeedRow(n, stamp) ELSE row[n]]
                  /\ UNCHANGED template)
  BY DEF CreateNotifications, InsertSeeds
<1> HIDE DEF ids
<1>2. CASE /\ seeder' = "createBatch" /\ UNCHANGED <<dbFailures, disturbed>>
           /\ row' = [n \in DOMAIN row \cup ids |->
                         IF n \in ids THEN SeedRow(n, stamp) ELSE row[n]]
  <2>1. /\ ids \in SUBSET SeedId(seeding) /\ \A n \in ids : n[1] = seeding
        /\ \A n \in LastSeeds(seeding) : n[1] = seeding /\ n \notin ids
    BY <1>1, SeedIdsAre
  <2>2. \A n \in ids : Unborn(n)
    BY <1>1, <2>1 DEF Unborn
  <2>3. \A n : Unborn(n)' => Unborn(n) /\ n \notin ids
    <3> SUFFICES ASSUME NEW n, Unborn(n)' PROVE Unborn(n) /\ n \notin ids
      OBVIOUS
    <3>1. n[1] > seeding \/ n \in LastSeeds(seeding)
      BY <1>1, <1>2 DEF Unborn, BeforeTemplates
    <3> QED
      BY <1>1, <2>1, <3>1 DEF Unborn
  <2>4. /\ TypeOK' /\ IsFiniteSet(DOMAIN row)' /\ Origins' /\ Unseen'
        /\ OutsideStays' /\ EvidenceKept'
        /\ Original' = Original \cup ids
    BY <1>1, <1>2, <2>1, <2>2, <2>3, InsertKeeps DEF rowHistory
  <2>5. Together'
    BY <1>1, <2>1, <2>4 DEF Together
  <2>6. Stages' /\ CleanStages'
    BY <1>1, <1>2, <2>4 DEF Stages, CleanStages
  <2> QED
    BY <1>1, <2>4, <2>5, <2>6 DEF DataInv
<1>3. CASE seeder' = "failed"
  <2>1. /\ UNCHANGED row
        /\ \/ UNCHANGED <<dbFailures, disturbed>>
           \/ DBFails /\ disturbed' = TRUE
    BY <1>3 DEF InsertAll, tables
  <2>2. dbFailures' \in 0 .. MaxDBFailures /\ disturbed' \in BOOLEAN
    BY <2>1, FailuresBounded DEF DataInv, TypeOK
  <2> QED
    BY <1>1, <1>3, <2>1, <2>2, FailedInsertKeeps DEF Ended, tables, rowHistory
<1> QED
  BY <1>2, <1>3 DEF InsertAll, AfterFailedInsert

LEMMA CreateBatchKeeps ==
    ASSUME DataInv, CreateBatch
    PROVE  DataInv'
<1> DEFINE ids == {n \in SeedId(seeding) : n[2] > 10}
<1>1. /\ seeder = "createBatch" /\ seeding \in 1 .. MaxSeedings
      /\ DOMAIN template = SeedTemplate(seeding) /\ Original = FirstSeeds(seeding)
      /\ ids = LastSeeds(seeding)
      /\ UNCHANGED <<template, revived, revivedTemplates, seeding, writer, editor, saves,
                     marked, overtaken>>
  BY DEF CreateBatch, InsertSeeds, InsertAll, SeederLeaves, tables, DataInv, TypeOK,
         Stages, LastSeeds
<1> PICK stamp \in Stamp :
        InsertAll("done",
                  \A n \in ids : Admitted(SeedRow(n, stamp)),
                  /\ row' = [n \in DOMAIN row \cup ids |->
                                IF n \in ids THEN SeedRow(n, stamp) ELSE row[n]]
                  /\ UNCHANGED template)
  BY DEF CreateBatch, InsertSeeds
<1> HIDE DEF ids
<1>2. CASE /\ seeder' = "done" /\ UNCHANGED <<dbFailures, disturbed>>
           /\ row' = [n \in DOMAIN row \cup ids |->
                         IF n \in ids THEN SeedRow(n, stamp) ELSE row[n]]
  <2>1. /\ ids \in SUBSET SeedId(seeding) /\ \A n \in SeedId(seeding) : n[1] = seeding
        /\ FirstSeeds(seeding) \cup ids = SeedId(seeding)
    BY <1>1, SeedIdsAre
  <2>2. \A n \in ids : Unborn(n)
    BY <1>1, <2>1 DEF Unborn
  <2>3. \A n : Unborn(n)' => Unborn(n) /\ n \notin ids
    <3> SUFFICES ASSUME NEW n, Unborn(n)' PROVE Unborn(n) /\ n \notin ids
      OBVIOUS
    <3>1. n[1] > seeding
      BY <1>1, <1>2 DEF Unborn, BeforeTemplates
    <3> QED
      BY <1>1, <2>1, <3>1 DEF Unborn
  <2>4. /\ TypeOK' /\ IsFiniteSet(DOMAIN row)' /\ Origins' /\ Unseen'
        /\ OutsideStays' /\ EvidenceKept'
        /\ Original' = Original \cup ids
    BY <1>1, <1>2, <2>1, <2>2, <2>3, InsertKeeps DEF rowHistory
  <2>5. Together'
    BY <1>1, <2>1, <2>4 DEF Together
  <2>6. Stages' /\ CleanStages'
    BY <1>1, <1>2, <2>1, <2>4 DEF Stages, CleanStages
  <2> QED
    BY <1>1, <2>4, <2>5, <2>6 DEF DataInv
<1>3. CASE seeder' = "failed"
  <2>1. /\ UNCHANGED row
        /\ \/ UNCHANGED <<dbFailures, disturbed>>
           \/ DBFails /\ disturbed' = TRUE
    BY <1>3 DEF InsertAll, tables
  <2>2. dbFailures' \in 0 .. MaxDBFailures /\ disturbed' \in BOOLEAN
    BY <2>1, FailuresBounded DEF DataInv, TypeOK
  <2> QED
    BY <1>1, <1>3, <2>1, <2>2, FailedInsertKeeps DEF Ended, tables, rowHistory
<1> QED
  BY <1>2, <1>3 DEF InsertAll, AfterFailedInsert

LEMMA DataInit == ListInit => DataInv
<1> SUFFICES ASSUME ListInit PROVE DataInv
  OBVIOUS
<1>1. /\ DOMAIN row = {} /\ DOMAIN template = {} /\ revived = {} /\ marked = {}
      /\ seeder = "off" /\ DOMAIN writer = Writer /\ \A w \in Writer : ~writer[w].busy
  BY DEF ListInit, Init, SeedInit, Idle
<1>2. TypeOK
  <2>1. 0 \in 0 .. MaxSaves /\ 0 \in 0 .. MaxDBFailures /\ 0 \in 0 .. MaxSeedings
    BY RowBoundsAssumption, SeedingsAssumption
  <2> QED
    BY <1>1, <2>1 DEF TypeOK, ListInit, Init, SeedInit, Ended
<1>3. Origins /\ Unseen /\ OutsideStays /\ EvidenceKept /\ Together
  BY <1>1 DEF Origins, Unseen, OutsideStays, EvidenceKept, Together, Original, Seen, Busy
<1>4. Stages /\ CleanStages
  BY <1>1 DEF Stages, CleanStages
<1> QED
  BY <1>1, <1>2, <1>3, <1>4, FS_EmptySet DEF DataInv

\* Reading takes at most a failed statement.
LEMMA ReadingKeeps ==
    ASSUME DataInv,
           UNCHANGED <<tables, writer, editor, saves, rowHistory, seedVars>>,
           dbFailures' \in 0 .. MaxDBFailures
    PROVE  DataInv'
<1>1. TypeOK'
  BY DEF DataInv, TypeOK, tables, rowHistory, seedVars
<1>2. Original' = Original /\ (Reference => Reference')
  BY DEF Original, Reference, tables, rowHistory
<1>3. Stages' /\ CleanStages' /\ \A n : Unborn(n)' <=> Unborn(n)
  BY <1>2, SeederIdle DEF tables
<1> QED
  BY <1>1, <1>3, RowsUntouched DEF DataInv, tables, rowHistory

LEMMA ServeKeeps ==
    ASSUME DataInv, Serve, UNCHANGED seedVars
    PROVE  DataInv'
BY CreateRowKeeps, ReadRowKeeps, SaveRowKeeps, TemplatesKeep DEF Serve

LEMMA SeedingKeeps ==
    ASSUME DataInv, Seeding
    PROVE  DataInv'
BY BeginSeedingKeeps, CleanNotificationsKeeps, CleanTemplatesKeeps, CreateTemplatesKeeps,
   CreateNotificationsKeeps, CreateBatchKeeps, KillSeederKeeps DEF Seeding

LEMMA DataStep ==
    ASSUME DataInv, [Next]_vars
    PROVE  DataInv'
<1>1. dbFailures \in 0 .. MaxDBFailures
  BY DEF DataInv, TypeOK
<1>2. ASSUME UNCHANGED <<rowVars, seedVars>> PROVE DataInv'
  BY <1>1, <1>2, ReadingKeeps DEF rowVars
<1>3. CASE UNCHANGED vars
  BY <1>2, <1>3 DEF vars
<1>4. CASE Serve /\ UNCHANGED seedVars
  BY <1>4, ServeKeeps
<1>5. CASE Seeding
  BY <1>5, SeedingKeeps
<1>6. CASE \E limit \in Limits, offset \in Offsets, filter \in Filters :
              StartListing(limit, offset, filter)
  BY <1>2, <1>6 DEF StartListing
<1>7. CASE Page
  BY <1>2, <1>7 DEF Page
<1>8. CASE ListFails
  <2>1. dbFailures' \in 0 .. MaxDBFailures
    BY <1>1, <1>8, RowBoundsAssumption DEF ListFails, DBFails
  <2> QED
    BY <1>8, <2>1, ReadingKeeps DEF ListFails
<1> QED
  BY <1>3, <1>4, <1>5, <1>6, <1>7, <1>8 DEF Next

\* Why a seeding fails, step by step: names are taken by what is there, keys by what
\* was brought back, and the last statement asks for neither.
LEMMA SeedFailure ==
    ASSUME DataInv, Next, seeder' = "failed", seeder # "failed"
    PROVE  Obstructed
<1>1. \/ CreateTemplates \/ CreateNotifications \/ CreateBatch
  BY DEF Next, Seeding, StartListing, Page, ListFails, seedVars, BeginSeeding, Clean,
         CleanNotifications, CleanTemplates, KillSeeder
<1>2. CASE CreateTemplates
  <2> SUFFICES ASSUME ~disturbed' PROVE Obstructed
    BY DEF Obstructed
  <2>1. /\ seeder = "createTemplates" /\ UNCHANGED disturbed
        /\ \E t \in SeedTemplate(seeding), u \in DOMAIN template : SameName(t, u)
    BY <1>2 DEF CreateTemplates, InsertAll
  <2>2. Reference
    BY <2>1 DEF DataInv, CleanStages
  <2> QED
    BY <2>2 DEF Reference, Obstructed
<1>3. CASE CreateNotifications
  <2> SUFFICES ASSUME ~disturbed' PROVE Obstructed
    BY DEF Obstructed
  <2>1. seeder = "createNotifications" /\ seeding \in 1 .. MaxSeedings
           /\ DOMAIN template = SeedTemplate(seeding) /\ Original = {}
    BY <1>3 DEF CreateNotifications, DataInv, TypeOK, Stages
  <2> PICK stamp \in Stamp, n \in SeedId(seeding) : ~Admitted(SeedRow(n, stamp))
    BY <1>3 DEF CreateNotifications, InsertSeeds, InsertAll
  <2>2. SeedRow(n, stamp).template \in DOMAIN template \cup {NoTemplate}
    BY <2>1, SeedIdsAre, SeedIds, SeedRowFits DEF RowOf
  <2> PICK m \in DOMAIN row : row[m].key # NoKey
    BY <2>2 DEF Admitted
  <2>3. m \notin Outside
    BY DEF DataInv, Origins, OriginFits
  <2>4. m \in revived
    BY <2>1, <2>3 DEF Original
  <2> QED
    BY <2>4 DEF Obstructed
<1>4. CASE CreateBatch
  <2> SUFFICES ASSUME ~disturbed' PROVE FALSE
    BY DEF Obstructed
  <2>1. seeder = "createBatch" /\ seeding \in 1 .. MaxSeedings
    BY <1>4 DEF CreateBatch, DataInv, TypeOK, Stages
  <2> PICK stamp \in Stamp, n \in LastSeeds(seeding) : ~Admitted(SeedRow(n, stamp))
    BY <1>4 DEF CreateBatch, InsertSeeds, InsertAll, LastSeeds
  <2>2. SeedRow(n, stamp).template = NoTemplate /\ SeedRow(n, stamp).key = NoKey
    BY <2>1, SeedIdsAre, SeedIds, SeedRowFits DEF LastSeeds
  <2> QED
    BY <2>2 DEF Admitted
<1> QED
  BY <1>1, <1>2, <1>3, <1>4

-----------------------------------------------------------------------------
(* The client *)

LEMMA SmallestSubset ==
    ASSUME NEW S, IsFiniteSet(S), NEW F \in SUBSET (SUBSET S), F # {}
    PROVE  \E x \in F : \A y \in F : y \subseteq x => y = x
<1>1. IsWellFoundedOn(StrictSubsetOrdering(S), SUBSET S)
  BY FS_StrictSubsetOrderingWellFounded, FS_FiniteSubsetsOfFinite
<1>2. \E x \in F : \A y \in F : <<y, x>> \notin StrictSubsetOrdering(S)
  BY <1>1, WFMin
<1> QED
  BY <1>2 DEF StrictSubsetOrdering

Peers(n, rows) == {m \in rows : row[m].created = row[n].created}

LEMMA RowsCounted ==
    ASSUME DataInv, NEW rows \in SUBSET DOMAIN row
    PROVE  /\ IsFiniteSet(rows)
           /\ \A n \in rows : row[n].created \in Nat
           /\ \A part \in SUBSET rows : IsFiniteSet(part) /\ Cardinality(part) \in Nat
           /\ \A n \in rows : /\ Newer(n, row, rows) \in SUBSET rows
                              /\ Cardinality(Newer(n, row, rows)) \in Nat
                              /\ Peers(n, rows) \in SUBSET rows
                              /\ Cardinality(Peers(n, rows)) \in Nat
<1>1. IsFiniteSet(rows)
  BY FS_Subset DEF DataInv
<1>2. \A part \in SUBSET rows : IsFiniteSet(part) /\ Cardinality(part) \in Nat
  BY <1>1, FS_Subset, FS_CardinalityType
<1>3. \A n \in rows : row[n].created \in Nat
  BY StampAssumption DEF DataInv, TypeOK, RowOf
<1>4. \A n \in rows : Newer(n, row, rows) \in SUBSET rows /\ Peers(n, rows) \in SUBSET rows
  BY DEF Newer, Peers
<1> QED
  BY <1>1, <1>2, <1>3, <1>4

\* The rows before one are, unless there is none, those of the oldest of them and
\* those before that.
LEMMA NextNewer ==
    ASSUME DataInv, NEW rows \in SUBSET DOMAIN row, NEW n \in rows,
           Newer(n, row, rows) # {}
    PROVE  \E m \in Newer(n, row, rows) :
               /\ Newer(n, row, rows) = Newer(m, row, rows) \cup Peers(m, rows)
               /\ Newer(m, row, rows) \cap Peers(m, rows) = {}
<1> DEFINE Before(m) == Newer(m, row, rows)
           Left(m) == Before(n) \ Before(m)
<1>1. /\ \A m \in rows : row[m].created \in Nat
      /\ Before(n) \in SUBSET rows /\ IsFiniteSet(Before(n))
  BY RowsCounted
<1>2. PICK x \in {Left(m) : m \in Before(n)} : \A y \in {Left(m) : m \in Before(n)} :
          y \subseteq x => y = x
  <2> DEFINE all == {Left(m) : m \in Before(n)}
  <2>1. all \in SUBSET (SUBSET Before(n))
    OBVIOUS
  <2>2. all # {}
    OBVIOUS
  <2> HIDE DEF all, Before
  <2>3. \E x \in all : \A y \in all : y \subseteq x => y = x
    BY <1>1, <2>1, <2>2, SmallestSubset
  <2> QED
    BY <2>3 DEF all
<1>3. PICK m \in Before(n) : x = Left(m)
  OBVIOUS
<1>4. ASSUME NEW k \in Before(n), row[k].created < row[m].created
      PROVE  FALSE
  <2>1. m \in rows /\ k \in rows
    BY <1>1
  <2>2. Left(k) \subseteq Left(m)
    BY <1>1, <1>4, <2>1 DEF Newer
  <2>3. m \in Left(m) /\ m \notin Left(k)
    BY <1>1, <1>4, <2>1 DEF Newer
  <2> QED
    BY <1>2, <1>3, <2>2, <2>3
<1>5. Before(n) = Before(m) \cup Peers(m, rows)
  <2>1. row[m].created > row[n].created /\ m \in rows
    BY DEF Newer
  <2> QED
    BY <1>1, <1>4, <2>1 DEF Newer, Peers
<1>6. Before(m) \cap Peers(m, rows) = {}
  BY <1>1 DEF Newer, Peers
<1> QED
  BY <1>5, <1>6

\* Those of b places from a on that are on the page.
Places(a, b, offset, limit) == {i \in a .. a + b - 1 : offset <= i /\ i < offset + limit}

LEMMA PlacesCounted ==
    ASSUME NEW a \in Nat, NEW b \in Nat, NEW offset \in Nat, NEW limit \in Nat,
           NEW c, c = Cardinality(Places(a, b, offset, limit))
    PROVE  /\ c \in Nat
           /\ c >= (IF a + b <= offset + limit THEN a + b ELSE offset + limit)
                     - (IF a >= offset THEN a ELSE offset)
<1> DEFINE low == IF a >= offset THEN a ELSE offset
           high == IF a + b <= offset + limit THEN a + b - 1 ELSE offset + limit - 1
<1>1. low \in Int /\ high \in Int
  OBVIOUS
<1>2. Places(a, b, offset, limit) = low .. high
  BY DEF Places
<1>3. c = IF low > high THEN 0 ELSE high - low + 1
  <2> HIDE DEF low, high
  <2> QED
    BY <1>1, <1>2, FS_Interval
<1> QED
  BY <1>3

LEMMA PageOf ==
    ASSUME DataInv, NEW filter, NEW offset \in Nat, NEW limit \in Nat,
           NEW page \in Pages(filter, offset, limit), NEW n \in Matching(row, filter)
    PROVE  LET rows == Matching(row, filter)
               first == Cardinality(Newer(n, row, rows))
           IN  /\ page \subseteq rows
               /\ Cardinality(page \cap Peers(n, rows)) =
                      Cardinality(Places(first, Cardinality(Peers(n, rows)), offset, limit))
BY DEF Pages, Peers, Places

\* Of the rows before one, all those from the offset on are on the page, up to its
\* limit.
LEMMA PageFills ==
    ASSUME DataInv, NEW filter, NEW offset \in Nat, NEW limit \in Nat,
           NEW page \in Pages(filter, offset, limit)
    PROVE  \A n \in Matching(row, filter) :
               LET before == Newer(n, row, Matching(row, filter))
                   first == Cardinality(before)
               IN  Cardinality(page \cap before) >=
                       (IF first <= offset + limit THEN first ELSE offset + limit) - offset
<1> DEFINE rows == Matching(row, filter)
           Before(n) == Newer(n, row, rows)
           First(n) == Cardinality(Before(n))
           Shown(n) == Cardinality(page \cap Before(n))
           Filled(n) == Shown(n) >= (IF First(n) <= offset + limit THEN First(n)
                                     ELSE offset + limit) - offset
           Short == {n \in rows : ~Filled(n)}
<1>1. rows \in SUBSET DOMAIN row
  BY DEF Matching
<1> HIDE DEF rows
<1>2. SUFFICES ASSUME Short # {} PROVE FALSE
  BY DEF rows
<1>3. PICK n \in Short : \A m \in Short : Before(m) \subseteq Before(n) => Before(m) = Before(n)
  <2> DEFINE all == {Before(m) : m \in Short}
  <2>1. all \in SUBSET (SUBSET rows) /\ all # {}
    BY <1>2 DEF Newer
  <2>2. IsFiniteSet(rows)
    BY <1>1, RowsCounted
  <2>3. PICK x \in all : \A y \in all : y \subseteq x => y = x
    <3> HIDE DEF all
    <3> QED
      BY <2>1, <2>2, SmallestSubset
  <2> HIDE DEF Before, Short
  <2>4. PICK k \in Short : x = Before(k)
    BY DEF all
  <2> QED
    BY <2>3, <2>4 DEF all
<1>4. /\ n \in rows /\ First(n) \in Nat /\ Shown(n) \in Nat
  BY <1>1, RowsCounted
<1>5. Before(n) # {}
  BY <1>4, FS_EmptySet
<1>6. PICK m \in Before(n) : /\ Before(n) = Before(m) \cup Peers(m, rows)
                             /\ Before(m) \cap Peers(m, rows) = {}
  BY <1>1, <1>5, NextNewer
<1>7. m \in rows /\ m \notin Before(m) /\ Before(m) \subseteq Before(n)
  BY <1>1, <1>6, RowsCounted DEF Newer, Peers
<1>8. Filled(m)
  BY <1>3, <1>7
<1> DEFINE p == Cardinality(Peers(m, rows))
           c == Cardinality(page \cap Peers(m, rows))
<1>9. /\ First(m) \in Nat /\ p \in Nat /\ Shown(m) \in Nat
      /\ First(n) = First(m) + p
      /\ Shown(n) = Shown(m) + c
  <2>1. IsFiniteSet(Before(m)) /\ IsFiniteSet(Peers(m, rows))
    BY <1>1, <1>7, RowsCounted
  <2>2. First(n) = First(m) + p
    BY <1>1, <1>6, <1>7, <2>1, RowsCounted, FS_Union, FS_EmptySet
  <2>3. /\ page \cap Before(n) = (page \cap Before(m)) \cup (page \cap Peers(m, rows))
        /\ (page \cap Before(m)) \cap (page \cap Peers(m, rows)) = {}
    BY <1>6
  <2>4. IsFiniteSet(page \cap Before(m)) /\ IsFiniteSet(page \cap Peers(m, rows))
    BY <2>1, FS_Intersection
  <2>5. Shown(m) \in Nat /\ c \in Nat
    BY <2>4, FS_CardinalityType
  <2>6. Shown(n) = Shown(m) + c
    <3> HIDE DEF Before
    <3> QED
      BY <2>3, <2>4, <2>5, FS_Union, FS_EmptySet
  <2> QED
    BY <1>1, <1>7, <2>2, <2>5, <2>6, RowsCounted
<1>10. /\ c \in Nat
       /\ c >= (IF First(m) + p <= offset + limit THEN First(m) + p ELSE offset + limit)
                 - (IF First(m) >= offset THEN First(m) ELSE offset)
  <2>1. c = Cardinality(Places(First(m), p, offset, limit))
    BY <1>7, PageOf DEF rows
  <2> DEFINE f == First(m)
  <2>2. f \in Nat /\ p \in Nat /\ c = Cardinality(Places(f, p, offset, limit))
    BY <1>9, <2>1
  <2> HIDE DEF f, p, c
  <2>3. /\ c \in Nat
        /\ c >= (IF f + p <= offset + limit THEN f + p ELSE offset + limit)
                  - (IF f >= offset THEN f ELSE offset)
    BY <2>2, PlacesCounted
  <2> QED
    BY <2>3 DEF f
<1>11. ~Filled(n)
  OBVIOUS
<1> HIDE DEF First, p, c, Shown
<1> QED
  BY <1>8, <1>9, <1>10, <1>11

\* No statement changes the created_at of a row that is there before and after it.
LEMMA CreatedStays ==
    ASSUME DataInv, Serve \/ Seeding, NEW n \in DOMAIN row, n \in DOMAIN row'
    PROVE  row'[n].created = row[n].created
<1>1. ASSUME NEW m, NEW t, NEW stamp, CreateRow(m, t, stamp)
      PROVE  row'[n].created = row[n].created
  BY <1>1 DEF CreateRow, With
<1>2. ASSUME NEW w \in Writer, SaveRow(w)
      PROVE  row'[n].created = row[n].created
  <2> DEFINE m == writer[w].id
             old == writer[w].copy
             new == Marked(writer[w].method, old)
  <2>1. writer[w].busy /\ (row' = row \/ row' = With(row, m, new))
    BY <1>2 DEF SaveRow
  <2>2. old \in Row /\ writer[w].method \in Method
    BY <2>1, CallIs DEF DataInv, Call
  <2>3. new.created = old.created
    BY <2>2, MarkedFits DEF Row, SameOrigin
  <2>4. m = n => old.created = row[n].created
    BY <2>1 DEF DataInv, Origins, Busy, SameOrigin
  <2> HIDE DEF new
  <2> QED
    BY <2>1, <2>3, <2>4 DEF With
<1>3. CASE Serve
  <2>1. ASSUME UNCHANGED row PROVE row'[n].created = row[n].created
    BY <2>1
  <2> QED
    BY <1>1, <1>2, <1>3, <2>1 DEF Serve, ReadRow, EditRead, EditSave, DeleteTemplate, tables
<1>4. CASE CreateNotifications \/ CreateBatch
  <2>1. seeding \in 1 .. MaxSeedings
    BY <1>4 DEF CreateNotifications, CreateBatch, DataInv, TypeOK, Stages
  <2>2. PICK ids \in SUBSET SeedId(seeding), stamp \in Stamp :
            /\ \A m \in ids : Unborn(m)
            /\ \/ UNCHANGED row
               \/ row' = [m \in DOMAIN row \cup ids |->
                             IF m \in ids THEN SeedRow(m, stamp) ELSE row[m]]
    <3>1. CASE CreateNotifications
      <4>1. \A m \in {m \in SeedId(seeding) : m[2] <= 10} : Unborn(m)
        BY <3>1, <2>1, SeedIdsAre DEF CreateNotifications, Unborn
      <4> QED
        BY <3>1, <4>1 DEF CreateNotifications, InsertSeeds, InsertAll, tables
    <3>2. CASE CreateBatch
      <4>1. \A m \in {m \in SeedId(seeding) : m[2] > 10} : Unborn(m)
        BY <3>2 DEF CreateBatch, Unborn, LastSeeds
      <4> QED
        BY <3>2, <4>1 DEF CreateBatch, InsertSeeds, InsertAll, tables
    <3> QED
      BY <1>4, <3>1, <3>2
  <2>3. n \notin ids
    BY <2>1, <2>2, SeedIdsAre DEF DataInv, Unseen, Seen
  <2> QED
    BY <2>2, <2>3
<1>5. CASE CleanNotifications
  BY <1>5 DEF CleanNotifications, Clean, tables
<1>6. CASE BeginSeeding \/ CleanTemplates \/ CreateTemplates \/ KillSeeder
  BY <1>6 DEF BeginSeeding, CleanTemplates, Clean, CreateTemplates, InsertAll, KillSeeder,
              rowVars, tables
<1> QED
  BY <1>3, <1>4, <1>5, <1>6 DEF Seeding

ClientOK ==
    /\ client = Resting \/ client \in Asking
    /\ OwedAhead
    /\ StandingRowsListed

\* A row that stays owed has, after a write, as many newer ones as it had.
LEMMA WatchesKeeps ==
    ASSUME DataInv, DataInv', ClientOK, Serve \/ Seeding, Watches
    PROVE  ClientOK'
<1>1. CASE client.step # "page"
  BY <1>1 DEF Watches, ClientOK, Resting, OwedAhead, StandingRowsListed
<1>2. CASE client.step = "page"
  <2> DEFINE before == Matching(row, client.filter)
             after == Matching(row', client.filter)
             owed == {n \in client.owed \cap after :
                         /\ \A m \in before \ after : row[m].created < row[n].created
                         /\ Alone(n, row', after)}
  <2>1. client \in Asking /\ client' = [client EXCEPT !.owed = owed]
    BY <1>2 DEF ClientOK, Resting, Watches
  <2>2. /\ client' \in Asking /\ client'.step = "page" /\ client'.owed = owed
        /\ client'.filter = client.filter /\ client'.offset = client.offset
        /\ client.offset \in Nat
    BY <1>2, <2>1 DEF Asking
  <2>3. before \in SUBSET DOMAIN row /\ after \in SUBSET DOMAIN row'
    BY DEF Matching
  <2> HIDE DEF before, after
  <2>4. ASSUME NEW n \in owed
        PROVE  Cardinality(Newer(n, row', after)) >= client.offset
    <3>1. n \in before /\ n \in after /\ Cardinality(Newer(n, row, before)) >= client.offset
      BY <1>2 DEF ClientOK, OwedAhead, before
    <3>2. \A m \in before \cap after : row'[m].created = row[m].created
      BY <2>3, CreatedStays
    <3>3. \A m \in before : row[m].created \in Nat
      BY <2>3, RowsCounted
    <3>4. Newer(n, row, before) \in SUBSET Newer(n, row', after)
      BY <3>1, <3>2, <3>3 DEF Newer
    <3>5. IsFiniteSet(after)
      BY <2>3, FS_Subset DEF DataInv
    <3>6. IsFiniteSet(Newer(n, row', after))
      BY <3>5, FS_Subset DEF Newer
    <3>7. /\ Cardinality(Newer(n, row, before)) <= Cardinality(Newer(n, row', after))
          /\ Cardinality(Newer(n, row', after)) \in Nat
          /\ Cardinality(Newer(n, row, before)) \in Nat
      BY <3>4, <3>6, FS_Subset, FS_CardinalityType
    <3> QED
      BY <2>2, <3>1, <3>7
  <2>5. OwedAhead'
    BY <2>2, <2>4 DEF OwedAhead, after
  <2> QED
    BY <2>2, <2>5 DEF ClientOK, StandingRowsListed
<1> QED
  BY <1>1, <1>2

LEMMA LimitIs ==
    ASSUME NEW limit \in Int
    PROVE  Normalized(limit) \in Nat /\ Normalized(limit) > 0
BY LimitAssumption DEF Normalized

LEMMA StartListingKeeps ==
    ASSUME DataInv, NEW limit \in Limits, NEW offset \in Offsets, NEW filter \in Filters,
           StartListing(limit, offset, filter)
    PROVE  ClientOK'
<1> DEFINE rows == Matching(row, filter)
           from == IF offset < 0 THEN 0 ELSE offset
           owed == {n \in rows : Alone(n, row, rows) /\ Cardinality(Newer(n, row, rows)) >= from}
<1>1. /\ client' = [step |-> "page", filter |-> filter, limit |-> limit, offset |-> from,
                    owed |-> owed]
      /\ UNCHANGED row
  BY DEF StartListing, rowVars, tables
<1>2. from \in Nat /\ limit \in Int
  BY LimitAssumption
<1>3. rows \subseteq Id
  BY DEF Matching, DataInv, TypeOK
<1>4. client' \in Asking
  BY <1>1, <1>2, <1>3 DEF Asking
<1>5. OwedAhead'
  BY <1>1 DEF OwedAhead
<1> QED
  BY <1>1, <1>4, <1>5 DEF ClientOK, StandingRowsListed

\* A row that is owed is alone on its place, which is not before the page: it is on
\* the page, or the page is full.
LEMMA PageKeeps ==
    ASSUME DataInv, ClientOK, Page
    PROVE  ClientOK'
<1> DEFINE rows == Matching(row, client.filter)
           limit == Normalized(client.limit)
           offset == client.offset
           First(n) == Cardinality(Newer(n, row, rows))
<1>1. client \in Asking /\ client.step = "page" /\ UNCHANGED row
  BY DEF Page, ClientOK, Resting, rowVars, tables
<1>2. limit \in Nat /\ limit > 0 /\ offset \in Nat /\ client.owed \subseteq Id
  BY <1>1, LimitIs DEF Asking
<1> PICK page \in Pages(client.filter, offset, limit) :
        client' = [client EXCEPT
                      !.step = IF Cardinality(page) < limit THEN "done" ELSE @,
                      !.limit = limit, !.offset = @ + limit, !.owed = @ \ page]
  BY DEF Page, Echo
<1> HIDE DEF limit
<1>3. /\ client' \in Asking /\ client'.filter = client.filter
      /\ client'.step = IF Cardinality(page) < limit THEN "done" ELSE "page"
      /\ client'.offset = offset + limit /\ client'.owed = client.owed \ page
  <2>1. offset + limit \in Nat /\ limit \in Int
    BY <1>2
  <2>2. client' = [step |-> IF Cardinality(page) < limit THEN "done" ELSE "page",
                   filter |-> client.filter, limit |-> limit, offset |-> offset + limit,
                   owed |-> client.owed \ page]
    BY <1>1 DEF Asking
  <2> QED
    BY <1>1, <2>1, <2>2 DEF Asking
<1>4. rows \in SUBSET DOMAIN row /\ page \subseteq rows
  BY DEF Matching, Pages
<1>5. ASSUME NEW n \in client.owed
      PROVE  n \in rows /\ Alone(n, row, rows) /\ First(n) \in Nat /\ First(n) >= offset
  BY <1>1, <1>4, RowsCounted DEF ClientOK, OwedAhead
<1> HIDE DEF rows
<1>6. ASSUME NEW n \in client.owed, First(n) < offset + limit
      PROVE  n \in page
  <2>1. Peers(n, rows) = {n}
    BY <1>5 DEF Peers, Alone
  <2>2. Cardinality(Peers(n, rows)) = 1
    BY <2>1, FS_Singleton
  <2>3. Places(First(n), 1, offset, limit) = {First(n)}
    <3> DEFINE f == First(n)
    <3>1. f \in Nat /\ f >= offset /\ f < offset + limit
      BY <1>5, <1>6
    <3> HIDE DEF f
    <3>2. Places(f, 1, offset, limit) = {f}
      BY <1>2, <3>1 DEF Places
    <3> QED
      BY <3>2 DEF f
  <2>4. Cardinality(Places(First(n), 1, offset, limit)) = 1
    BY <2>3, FS_Singleton
  <2>5. Cardinality(page \cap Peers(n, rows)) = 1
    BY <1>2, <1>5, <2>2, <2>4, PageOf DEF rows
  <2> QED
    BY <2>1, <2>5, FS_EmptySet
<1>7. ASSUME NEW n \in client.owed, First(n) >= offset + limit
      PROVE  Cardinality(page) >= limit
  <2>1. Cardinality(page \cap Newer(n, row, rows)) >=
            (IF First(n) <= offset + limit THEN First(n) ELSE offset + limit) - offset
    BY <1>2, <1>5, PageFills DEF rows
  <2>2. IsFiniteSet(page)
    BY <1>4, RowsCounted
  <2>3. /\ Cardinality(page \cap Newer(n, row, rows)) <= Cardinality(page)
        /\ Cardinality(page \cap Newer(n, row, rows)) \in Nat
        /\ Cardinality(page) \in Nat
    BY <2>2, FS_Intersection, FS_CardinalityType
  <2> QED
    BY <1>2, <1>5, <1>7, <2>1, <2>3
<1>8. Cardinality(page) \in Nat
  BY <1>4, RowsCounted
<1>9. OwedAhead'
  <2> SUFFICES ASSUME NEW n \in client.owed \ page PROVE First(n) >= offset + limit
    BY <1>1, <1>3, <1>5 DEF OwedAhead, rows
  <2> QED
    BY <1>2, <1>5, <1>6
<1>10. StandingRowsListed'
  <2> SUFFICES ASSUME Cardinality(page) < limit, NEW n \in client.owed \ page PROVE FALSE
    BY <1>3 DEF StandingRowsListed
  <2> QED
    BY <1>2, <1>5, <1>6, <1>7, <1>8
<1> QED
  BY <1>3, <1>9, <1>10 DEF ClientOK

LEMMA ListStep ==
    ASSUME ListInv, [Next]_vars
    PROVE  ListInv'
<1>1. DataInv /\ ClientOK
  BY DEF ListInv, ClientOK
<1>2. DataInv'
  BY <1>1, DataStep
<1> SUFFICES ClientOK'
  BY <1>2 DEF ListInv, ClientOK
<1>3. CASE UNCHANGED vars
  BY <1>1, <1>3 DEF ClientOK, vars, rowVars, tables, OwedAhead, StandingRowsListed
<1>4. CASE (Serve \/ Seeding) /\ Watches
  BY <1>1, <1>2, <1>4, WatchesKeeps
<1>5. CASE \E limit \in Limits, offset \in Offsets, filter \in Filters :
              StartListing(limit, offset, filter)
  BY <1>1, <1>5, StartListingKeeps
<1>6. CASE Page
  BY <1>1, <1>6, PageKeeps
<1>7. CASE ListFails
  BY <1>7 DEF ListFails, ClientOK, Resting, OwedAhead, StandingRowsListed
<1> QED
  BY <1>3, <1>4, <1>5, <1>6, <1>7 DEF Next

LEMMA ListStart == ListInit => ListInv
BY DataInit DEF ListInit, ListInv, Resting, OwedAhead, StandingRowsListed

-----------------------------------------------------------------------------
(* Theorems *)

LEMMA AlwaysListInv == Spec => []ListInv
BY ListStart, ListStep, PTL DEF Spec

\* Every notification refers to a template that is there: neither a save that comes
\* after a DELETE (repository.go:109) nor the seeder (seeder.go) leaves a reference
\* without its template, whatever they overtake; the rest is types.
THEOREM ListTypes == Spec => []ListTypeOK
<1>1. ListInv => ListTypeOK
  BY DEF ListInv, DataInv, ListTypeOK
<1> QED
  BY <1>1, AlwaysListInv, PTL

\* That a notification was handed over or given up is in its row (sent_at, failed_at)
\* for good, however many calls of the service, unless one of them saved a copy that
\* was out of date (repository.go:109 writes every column).
THEOREM EvidenceStays == Spec => []EvidenceKept
<1>1. ListInv => EvidenceKept
  BY DEF ListInv, DataInv
<1> QED
  BY <1>1, AlwaysListInv, PTL

\* A seeding that ends well leaves its own templates and notifications and, of earlier
\* ones, only what a request brought back, although it drops the errors of its two
\* DELETEs and may have been killed at any statement before (seeder.go:35-120).
THEOREM SeedsComplete == Spec => []SeedsWhole
<1>1. ListInv => SeedsWhole
  <2> SUFFICES ASSUME DataInv, seeder = "done"
               PROVE  /\ DOMAIN row \ Outside = SeedId(seeding) \cup revived
                      /\ DOMAIN template = SeedTemplate(seeding)
    BY DEF ListInv, SeedsWhole
  <2> QED
    BY DEF DataInv, Stages, OutsideStays, Original
<1> QED
  BY <1>1, AlwaysListInv, PTL

\* What earlier seedings left never makes a seeding fail (seeder.go:35): one of its own
\* statements failed, a notification that is no seed refers to a seed template, or a
\* request brought back a row.
THEOREM SeedingsExplained == Spec => SeedFailsExplained
<1>1. ASSUME ListInv, [Next]_vars
      PROVE  [seeder' = "failed" /\ seeder # "failed" => Obstructed]_seedVars
  <2>1. CASE UNCHANGED vars
    BY <2>1 DEF vars
  <2>2. CASE Next
    BY <1>1, <2>2, SeedFailure DEF ListInv
  <2> QED
    BY <1>1, <2>1, <2>2
<1> QED
  BY <1>1, AlwaysListInv, PTL DEF Spec, SeedFailsExplained

\* A client that follows the limits and offsets of the answers to a page that is not
\* full has been shown every row that stayed in its filter, alone with its created_at
\* and overtaken by no departure, for every table, limit and offset, and whatever the
\* database does with rows of one created_at (repository.go:101, controller.go:240-255).
THEOREM StandingRowsAreListed == Spec => []StandingRowsListed
<1>1. ListInv => StandingRowsListed
  BY DEF ListInv
<1> QED
  BY <1>1, AlwaysListInv, PTL

====
