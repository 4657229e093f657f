------------------------------- MODULE Listing -------------------------------
(***************************************************************************)
(* Cursor pagination (app/core/pagination.py): one client walks through    *)
(* the pages of a listing while others insert, change and hide its rows.   *)
(* Each listing of the API is the column it is sorted by and the direction;*)
(* ties are broken by id.                                                  *)
(*                                                                         *)
(* Values are even: an odd number lies between two of them.                *)
(***************************************************************************)
EXTENDS Integers, FiniteSets

CONSTANTS
  Rows,        \* a set of ids, compared as integers
  Values,      \* of the column sorted by, even
  Null,
  PageSize,
  Wholly       \* FALSE: listings that lose rows are walked too

VARIABLES
  rows,        \* of one listing: the value of its column, by row
  shown,       \* rows the listing's filter lets through
  walk

vars == <<rows, shown, walk>>

-----------------------------------------------------------------------------
(* Listings *)

By(column) == [by |-> column, ascending |-> FALSE]

Latest == By("created_at")
Trending == By("view_count")
Mine == By("created_at")
Directory == By("rating_average")
Saved == By("added_at")
Collections == By("created_at")
Items == [by |-> "sort_order", ascending |-> TRUE]
Messages == By("created_at")
Conversations == By("created_at")
Notifications == By("created_at")
Generated == By("created_at")
ModerationQueue == By("created_at")
AuditEntries == By("created_at")
ReviewQueue == By("created_at")
DuplicateQueue == By("created_at")

\* Oldest submission first; without a submission the column is NULL.
VerificationQueue == [by |-> "submitted_at", ascending |-> TRUE]

\* The rank is a single precision number; the cursor carries it in decimal.
Relevance == By("rank")

\* Columns whose value a row keeps.
Fixed == {"created_at", "added_at", "rank"}

Exact == {Latest, Trending, Mine, Directory, Saved, Collections, Items, Messages, Conversations,
          Notifications, Generated, ModerationQueue, AuditEntries, ReviewQueue, DuplicateQueue}

Lossy == {VerificationQueue, Relevance}

Walked == IF Wholly THEN Exact ELSE Exact \cup Lossy

Domain(listing) == IF listing = VerificationQueue THEN Values \cup {Null} ELSE Values

-----------------------------------------------------------------------------
(* Order and pages *)

Less(a, x, b, y) == a < b \/ (a = b /\ x < y)

\* The order of rows: NULL sorts last in an ascending listing.
Before(listing, r, q) ==
  IF rows[r] = Null \/ rows[q] = Null
  THEN rows[q] = Null /\ (rows[r] # Null \/ r < q)
  ELSE IF listing.ascending THEN Less(rows[r], r, rows[q], q) ELSE Less(rows[q], q, rows[r], r)

\* Variant: rows that tie with the cursor are not compared by id.
BeyondValue(listing, cursor, r) ==
  \/ cursor = Null
  \/ rows[r] # Null /\ IF listing.ascending THEN cursor.value < rows[r] ELSE rows[r] < cursor.value

\* Variant: the row of the cursor comes again.
BeyondAgain(listing, cursor, r) ==
  \/ cursor = Null
  \/ rows[r] # Null /\
       IF listing.ascending THEN ~Less(rows[r], r, cursor.value, cursor.id)
                            ELSE ~Less(cursor.value, cursor.id, rows[r], r)

\* The comparison of pairs with the cursor; with NULL it is not true.
Beyond(listing, cursor, r) ==
  \/ cursor = Null
  \/ rows[r] # Null /\
       IF listing.ascending THEN Less(cursor.value, cursor.id, rows[r], r)
                            ELSE Less(rows[r], r, cursor.value, cursor.id)

Remaining(listing, cursor) == {r \in shown : Beyond(listing, cursor, r)}

\* ORDER BY: whether the rows of a page come before the rest.
Leads(listing, page, rest) == \A r \in page, q \in rest : Before(listing, r, q)

\* Variant: the cursor is the row that was read to see whether there are more.
LastRead(listing, page, rest) == {q \in rest : Leads(listing, {q}, rest \ {q})}

LastShown(listing, page, rest) == {r \in page : Leads(listing, page \ {r}, {r})}

\* What encode_cursor is given: of a row that was never submitted, when it was created.
CursorValues(listing, r) ==
  IF rows[r] = Null THEN Values
  ELSE IF listing = Relevance THEN {rows[r] - 1, rows[r], rows[r] + 1} ELSE {rows[r]}

-----------------------------------------------------------------------------

Idle == [at |-> "idle"]

Init ==
  /\ rows = [r \in Rows |-> CHOOSE v \in Values : TRUE]
  /\ shown = {}
  /\ walk = Idle

\* The first request has no cursor.
Begin ==
  /\ walk = Idle
  /\ \E listing \in Walked :
       /\ \A r \in shown : rows[r] \in Domain(listing)
       /\ walk' = [at |-> "paging", listing |-> listing, cursor |-> Null,
                   listed |-> [r \in Rows |-> 0], steady |-> shown]
  /\ UNCHANGED <<rows, shown>>

\* How often each row was listed, with a page more.
Listed(page) == [r \in Rows |-> walk.listed[r] + (IF r \in page THEN 1 ELSE 0)]

\* One row more than a page is read, to see whether there are more.
NextPage ==
  /\ walk.at = "paging"
  /\ LET found == Remaining(walk.listing, walk.cursor) IN
     \/ /\ Cardinality(found) > PageSize
        /\ \E page \in SUBSET found :
             /\ Cardinality(page) = PageSize /\ Leads(walk.listing, page, found \ page)
             /\ \E last \in LastShown(walk.listing, page, found \ page) :
                \E value \in CursorValues(walk.listing, last) :
                  walk' = [walk EXCEPT !.listed = Listed(page),
                                       !.cursor = [value |-> value, id |-> last]]
     \/ /\ Cardinality(found) <= PageSize
        /\ walk' = [walk EXCEPT !.at = "done", !.listed = Listed(found)]
  /\ UNCHANGED <<rows, shown>>

\* The client starts afresh.
Leave ==
  /\ walk.at = "done"
  /\ walk' = Idle
  /\ UNCHANGED <<rows, shown>>

Unsettle(r) == walk' = IF walk.at = "paging" THEN [walk EXCEPT !.steady = @ \ {r}] ELSE walk

ColumnDomain == IF walk.at = "paging" THEN Domain(walk.listing) ELSE Values

\* A row appears; what it is sorted by may lie anywhere (created_at is when its
\* transaction began).
Insert(r) ==
  /\ r \notin shown
  /\ shown' = shown \cup {r}
  /\ \E v \in ColumnDomain : rows' = [rows EXCEPT ![r] = v]
  /\ UNCHANGED walk

Hide(r) ==
  /\ r \in shown
  /\ shown' = shown \ {r}
  /\ Unsettle(r)
  /\ UNCHANGED rows

Change(r) ==
  /\ r \in shown
  /\ walk.at = "paging" /\ walk.listing.by \notin Fixed
  /\ \E v \in ColumnDomain : rows' = [rows EXCEPT ![r] = v]
  /\ Unsettle(r)
  /\ UNCHANGED shown

Next == Begin \/ NextPage \/ Leave \/ \E r \in Rows : Insert(r) \/ Hide(r) \/ Change(r)

Spec == Init /\ [][Next]_vars

-----------------------------------------------------------------------------

TypeOK ==
  /\ rows \in [Rows -> Values \cup {Null}]
  /\ shown \subseteq Rows
  /\ walk.at \in {"idle", "paging", "done"}

\* Whatever else is inserted, changed or hidden between two pages, a row that stays
\* as it is while a client walks through the listing is shown to it once, not twice ...
ListedOnce == walk # Idle => \A r \in walk.steady : walk.listed[r] <= 1

\* ... and not left out.
NoneLeftOut == walk.at = "done" => \A r \in walk.steady : walk.listed[r] >= 1
=============================================================================
