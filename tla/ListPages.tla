----------------------------- MODULE ListPages -----------------------------
(***************************************************************************)
(* A client that lists notifications page by page (List of the controller, *)
(* the service and the repository; the list of templates is the same code) *)
(* while requests, handlers and the seeder write to the table.  Each page  *)
(* is a SELECT with LIMIT and OFFSET ordered by created_at alone: rows of  *)
(* one INSERT share theirs, and each SELECT may put them in another order. *)
(*                                                                         *)
(* The client is external.  It goes on by the limit and the offset of each *)
(* answer until a page is not full, and pays no heed to the total, which   *)
(* comes from a COUNT before.  Filters by channel and date, which no write *)
(* changes, are left out.                                                  *)
(***************************************************************************)
EXTENDS SeedData, Integers, FiniteSets

CONSTANTS
    DefaultLimit, MaxLimit,   \* 20 and 100 in the code
    Limits, Offsets,          \* that the client asks for
    Filters                   \* sets of statuses: all, or the one asked for

ASSUME LimitAssumption ==
    /\ DefaultLimit \in Nat \ {0} /\ MaxLimit \in Nat \ {0}
    /\ DefaultLimit <= MaxLimit
    /\ Limits \subseteq Int /\ Offsets \subseteq Int
ASSUME FilterAssumption == Filters \subseteq SUBSET Status

VARIABLE client   \* what the client asks for next

vars == <<rowVars, seedVars, client>>

Resting == [step |-> "rest"]

\* owed: history: the rows the client has not been shown and is to be shown.
Asking == [step : {"page", "done"}, filter : Filters, limit : Int, offset : Nat,
           owed : SUBSET Id]

ListTypeOK == TypeOK /\ (client = Resting \/ client \in Asking)

ListInit == Init /\ SeedInit /\ client = Resting

-----------------------------------------------------------------------------
(* Normalize; the response names the limit and the offset it used *)

Normalized(limit) ==
    IF limit <= 0 THEN DefaultLimit ELSE IF limit > MaxLimit THEN MaxLimit ELSE limit

\* A plausible bug answers with the limit of the request.
EchoRequested(limit) == limit

Echo(limit) == Normalized(limit)

Matching(table, filter) == {n \in DOMAIN table : table[n].status \in filter}

Alone(n, table, ids) == \A m \in ids \ {n} : table[m].created # table[n].created

Newer(n, table, ids) == {m \in ids : table[m].created > table[n].created}

\* What SELECT ... ORDER BY created_at DESC LIMIT OFFSET may answer: of the rows
\* of one created_at, which share some places of the order, as many as of these
\* places are on the page.
Pages(filter, offset, limit) ==
    LET rows == Matching(row, filter)
        First(n) == Cardinality(Newer(n, row, rows))
        Peers(n) == {m \in rows : row[m].created = row[n].created}
        OnPage(n) == {i \in First(n) .. First(n) + Cardinality(Peers(n)) - 1 :
                          offset <= i /\ i < offset + limit}
    IN  {page \in SUBSET rows :
            \A n \in rows : Cardinality(page \cap Peers(n)) = Cardinality(OnPage(n))}

StartListing(limit, offset, filter) ==
    /\ client = Resting
    /\ LET rows == Matching(row, filter)
           from == IF offset < 0 THEN 0 ELSE offset
       IN  client' = [step |-> "page", filter |-> filter, limit |-> limit, offset |-> from,
                      owed |-> {n \in rows : Alone(n, row, rows)
                                                /\ Cardinality(Newer(n, row, rows)) >= from}]
    /\ UNCHANGED <<rowVars, seedVars>>

Page ==
    /\ client.step = "page"
    /\ \E page \in Pages(client.filter, client.offset, Normalized(client.limit)) :
          client' = [client EXCEPT
                        !.step = IF Cardinality(page) < Echo(client.limit) THEN "done" ELSE @,
                        !.limit = Echo(@),
                        !.offset = @ + Echo(client.limit),
                        !.owed = @ \ page]
    /\ UNCHANGED <<rowVars, seedVars>>

\* One of the statements fails: status 500, and the client gives up.
ListFails ==
    /\ client.step = "page"
    /\ DBFails
    /\ client' = Resting
    /\ UNCHANGED <<tables, writer, editor, saves, rowHistory, seedVars>>

\* A write to the table leaves owed to the client what is still in the filter,
\* alone with its created_at, and has not moved up because a newer row left.  A
\* client that has been shown all rests, and may list again.
Watches ==
    IF client.step # "page" THEN client' = Resting
    ELSE LET before == Matching(row, client.filter)
             after == Matching(row', client.filter)
         IN  client' = [client EXCEPT !.owed =
                           {n \in @ \cap after :
                               /\ \A m \in before \ after : row[m].created < row[n].created
                               /\ Alone(n, row', after)}]

Next ==
    \/ Serve /\ UNCHANGED seedVars /\ Watches
    \/ Seeding /\ Watches
    \/ \E limit \in Limits, offset \in Offsets, filter \in Filters :
          StartListing(limit, offset, filter)
    \/ Page \/ ListFails

Spec == ListInit /\ [][Next]_vars

-----------------------------------------------------------------------------
(* Properties *)

\* A client that has paged to the end, by the limits and offsets of the answers,
\* has been shown every row that was in its filter all the time and not before the
\* offset it began with, whatever the limit, unless a newer row left the filter
\* meanwhile (each row after it moves up one place, and one is passed over), or the
\* row shared its created_at with another (controller.go:240-255, repository.go:101).
StandingRowsListed == client.step = "done" => client.owed = {}

=============================================================================
