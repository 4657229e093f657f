------------------------------ MODULE Booking ------------------------------
(***************************************************************************)
(* The booking lifecycle of app/services/booking.py as concurrent HTTP     *)
(* requests run it.                                                        *)
(*                                                                         *)
(* Every request has a database session of its own (app/db/session.py).    *)
(* It reads the booking row once, with db.get, takes its decision on that  *)
(* copy, and writes the columns it changed when it commits: nothing is     *)
(* re-read and no row version is compared.  At PostgreSQL's READ COMMITTED *)
(* isolation other requests may commit between the read and the commit.    *)
(* Only accepting a quote and moving a booking that already occupies the   *)
(* calendar lock a row, the artist's profile.                              *)
(*                                                                         *)
(* A request whose later checks fail is rolled back by Refuse; a client or  *)
(* a server process that goes away in mid-request is Abort.                *)
(***************************************************************************)
EXTENDS Integers

CONSTANTS
  Artists, Bookings, Quotes, Services, Dates, Times,
  Sessions,        \* the requests that can be in flight at one time
  None,            \* NULL in a column
  ArtistOf,        \* booking -> the artist it is addressed to
  Duration,        \* service -> minutes
  Gap,             \* service -> effective buffer + travel buffer, minutes
  DepositRequired, \* the services that ask for a deposit
  DaysOff,         \* artist -> dates with a whole-day block
  TimeBlocks,      \* artist -> blocked parts of a day
  Hours,           \* artist -> working hours
  Forms,           \* the contents a customer may give the booking form
  Offered,         \* the requests that are made at all (bounds a run)
  Races            \* the requests that may run beside another on the same booking

MinutesPerDay == 24 * 60

Form == [date : Dates \cup {None}, time : Times \cup {None},
         service : Services \cup {None}, contact : BOOLEAN]

Interval == [date : Dates, from : Nat, to : Nat]

\* The endpoints that change a booking; "settle" is a payment webhook.
Ops == {"patch", "submit", "review", "quote", "accept", "reject", "cancel",
        "reschedule", "dispute", "resolve", "settle"}

ASSUME BookingAssumption ==
  /\ None \notin Bookings /\ None \notin Quotes /\ None \notin Sessions
  /\ None \notin Services /\ None \notin Dates /\ None \notin Times
  /\ Times \subseteq 0 .. MinutesPerDay - 1
  /\ ArtistOf \in [Bookings -> Artists]
  /\ Duration \in [Services -> Nat \ {0}]
  /\ Gap \in [Services -> Nat]
  /\ DepositRequired \subseteq Services
  /\ DaysOff \in [Artists -> SUBSET Dates]
  /\ TimeBlocks \in [Artists -> SUBSET Interval]
  /\ Hours \in [Artists -> SUBSET Interval]
  /\ Forms \subseteq Form
  /\ Offered \subseteq Ops
  /\ Races \subseteq Ops

VARIABLES
  bookings,  \* the bookings table
  quotes,    \* the booking_quotes table
  history,   \* the newest booking_status_history row of each booking
  tx,        \* what each request has read and how far it is
  lock       \* the session holding an artist's profile row, or None

vars == <<bookings, quotes, history, tx, lock>>

-----------------------------------------------------------------------------
(* Statuses and the transition table *)

Status == {"none", "draft", "requested", "artist_reviewing", "quotation_sent",
           "customer_reviewing", "confirmed", "deposit_pending",
           "deposit_paid", "in_progress", "completed", "cancelled",
           "rejected", "refund_requested", "refunded", "disputed"}

Transitions ==
  [none |-> {"draft"},
   draft |-> {"requested", "cancelled"},
   requested |-> {"artist_reviewing", "quotation_sent", "rejected", "cancelled"},
   artist_reviewing |-> {"quotation_sent", "rejected", "cancelled"},
   quotation_sent |-> {"customer_reviewing", "confirmed", "deposit_pending",
                       "rejected", "cancelled"},
   customer_reviewing |-> {"confirmed", "deposit_pending", "rejected", "cancelled"},
   confirmed |-> {"deposit_pending", "in_progress", "cancelled", "disputed"},
   deposit_pending |-> {"deposit_paid", "cancelled", "disputed"},
   deposit_paid |-> {"in_progress", "cancelled", "disputed"},
   in_progress |-> {"completed", "cancelled", "disputed"},
   completed |-> {"refund_requested"},
   cancelled |-> {}, rejected |-> {}, refunded |-> {},
   refund_requested |-> {"refunded", "completed"},
   disputed |-> {"completed", "cancelled", "refunded"}]

CanMove(from, to) == to \in Transitions[from]

Terminal == {"cancelled", "rejected", "refunded"}

Occupying == {"confirmed", "deposit_pending", "deposit_paid", "in_progress",
              "completed", "disputed", "refund_requested", "refunded"}

Quotable == {"requested", "artist_reviewing", "quotation_sent", "customer_reviewing"}

Deciding == {"quotation_sent", "customer_reviewing"}

\* Variant: request_reschedule without its status check.
ReschedulableAlways == Status \ {"none", "draft"}

Reschedulable == Quotable \cup {"confirmed", "deposit_pending", "deposit_paid"}

Disputable == {"confirmed", "deposit_pending", "deposit_paid", "in_progress"}

QuoteStatus == {"unused", "pending", "accepted", "declined", "superseded"}

-----------------------------------------------------------------------------
(* Time ranges, the overlap test and availability *)

Row == [status : Status, date : Dates \cup {None}, time : Times \cup {None},
        service : Services \cup {None}, contact : BOOLEAN,
        total : Quotes \cup {None}, deposit : BOOLEAN]

Minutes(service) == IF service = None THEN 60 ELSE Duration[service]

GapOf(service) == IF service = None THEN 0 ELSE Gap[service]

StartOf(row) == IF row.time = None THEN 0 ELSE row.time

EndOf(row) ==
  LET end == row.time + Minutes(row.service) + GapOf(row.service)
  IN  IF row.time = None \/ end > MinutesPerDay THEN MinutesPerDay ELSE end

\* The place of a booking in the calendar.
Slot == [date : Dates \cup {None}, time : Times \cup {None},
         service : Services \cup {None}]

SlotOf(row) == [date |-> row.date, time |-> row.time, service |-> row.service]

Overlaps(r1, r2) ==
  /\ r1.date = r2.date
  /\ StartOf(r1) < EndOf(r2)
  /\ StartOf(r2) < EndOf(r1)

Available(a, row) ==
  /\ row.date # None
  /\ row.date \notin DaysOff[a]
  /\ row.time # None =>
       /\ ~ \E k \in TimeBlocks[a] :
              k.date = row.date /\ k.from <= row.time /\ row.time < k.to
       /\ \E h \in Hours[a] :
              /\ h.date = row.date
              /\ h.from <= row.time
              /\ row.time + Minutes(row.service) <= h.to

\* No other booking of the same artist holds time that row would take.
NoConflict(b, row) ==
  \A o \in Bookings \ {b} :
    ArtistOf[o] = ArtistOf[b] /\ bookings[o].status \in Occupying
      => ~ Overlaps(row, bookings[o])

\* missing_submission_requirements is empty; contact stands for the location
\* type, the address it may need and the three contact columns.
Complete(row) == row.service # None /\ row.date # None /\ row.contact

-----------------------------------------------------------------------------
(* Requests *)

NoForm == [date |-> None, time |-> None, service |-> None, contact |-> FALSE]

NewRow == [status |-> "none", date |-> None, time |-> None, service |-> None,
           contact |-> FALSE, total |-> None, deposit |-> FALSE]

Idle == [pc |-> "idle", op |-> "none", b |-> None, row |-> NewRow,
         form |-> NoForm, q |-> None, pend |-> {}]

\* Variant: update_draft_booking while the booking is still open.
EditableWhileOpen == {"draft"} \cup Reschedulable

Editable == {"draft"}

\* The statuses from which each request passes the checks it makes on the
\* booking row it has just read.
Admits ==
  [patch |-> Editable,
   submit |-> {st \in Status : CanMove(st, "requested")},
   review |-> {st \in Status \ {"draft"} : CanMove(st, "artist_reviewing")},
   quote |-> Quotable,
   accept |-> Deciding,
   reject |-> Deciding,
   cancel |-> {st \in Status : CanMove(st, "cancelled")},
   reschedule |-> Reschedulable,
   dispute |-> Disputable,
   resolve |-> {"disputed"},
   settle |-> {"deposit_pending"}]

\* The requests that write a booking's place, or move it from one occupying
\* status to another, by a row read before or without the calendar lock.
Unlocked == {"patch", "reschedule", "dispute", "resolve", "settle"}

Resolutions == {"completed", "cancelled", "refunded"}

\* The row as the request leaves it, before it is flushed.
Proposed(t) ==
  IF t.op = "reschedule"
    THEN [t.row EXCEPT !.date = t.form.date, !.time = t.form.time]
    ELSE t.row

-----------------------------------------------------------------------------
(* What the session does at commit *)

\* An UPDATE sets only the columns whose value the request changed.
Column(stored, read, new) == IF new = read THEN stored ELSE new

Flush(stored, read, new) ==
  [status |-> Column(stored.status, read.status, new.status),
   date |-> Column(stored.date, read.date, new.date),
   time |-> Column(stored.time, read.time, new.time),
   service |-> Column(stored.service, read.service, new.service),
   contact |-> Column(stored.contact, read.contact, new.contact),
   total |-> Column(stored.total, read.total, new.total),
   deposit |-> Column(stored.deposit, read.deposit, new.deposit)]

Write(s, new) ==
  bookings' = [bookings EXCEPT ![tx[s].b] = Flush(@, tx[s].row, new)]

Audit(b, from, to) == history' = [history EXCEPT ![b] = [from |-> from, to |-> to]]

\* Variant: a transition that leaves no audit row.
MoveToUnaudited(s, new, to) ==
  /\ CanMove(tx[s].row.status, to)
  /\ Write(s, [new EXCEPT !.status = to])
  /\ UNCHANGED history

\* Variant: from_status taken after booking.status was assigned.
MoveToLateFrom(s, new, to) ==
  /\ CanMove(tx[s].row.status, to)
  /\ Write(s, [new EXCEPT !.status = to])
  /\ Audit(tx[s].b, to, to)

\* transition_booking, on top of the other columns the request changes.
MoveTo(s, new, to) ==
  /\ CanMove(tx[s].row.status, to)
  /\ Write(s, [new EXCEPT !.status = to])
  /\ Audit(tx[s].b, tx[s].row.status, to)

\* record_history_note
Note(s) == Audit(tx[s].b, tx[s].row.status, tx[s].row.status)

\* Variant: the row lock outlives the session.
EndKeepingLock(s) ==
  /\ tx' = [tx EXCEPT ![s] = Idle]
  /\ UNCHANGED lock

\* COMMIT or ROLLBACK: the session is over and its row lock is gone.
End(s) ==
  /\ tx' = [tx EXCEPT ![s] = Idle]
  /\ lock' = [a \in Artists |-> IF lock[a] = s THEN None ELSE lock[a]]

At(s, op, pc) == tx[s].op = op /\ tx[s].pc = pc

Goto(s, pc) == tx' = [tx EXCEPT ![s].pc = pc]

-----------------------------------------------------------------------------
(* Actions *)

Init ==
  /\ bookings = [b \in Bookings |-> NewRow]
  /\ quotes = [q \in Quotes |-> [booking |-> None, status |-> "unused"]]
  /\ history = [b \in Bookings |-> [from |-> "none", to |-> "none"]]
  /\ tx = [s \in Sessions |-> Idle]
  /\ lock = [a \in Artists |-> None]

\* POST /bookings
CreateDraft(b) ==
  /\ bookings[b].status = "none"
  /\ bookings' = [bookings EXCEPT ![b].status = "draft"]
  /\ Audit(b, "none", "draft")
  /\ UNCHANGED <<quotes, tx, lock>>

\* The handler's db.get(Booking, ...) and the checks it makes on the row.
ReadBooking(s, op, b, form) ==
  /\ tx[s].pc = "idle"
  /\ \A t \in Sessions : tx[t].b = b => {op, tx[t].op} \subseteq Races
  /\ bookings[b].status \in Admits[op]
  /\ op = "submit" => Complete(bookings[b])
  /\ op = "reschedule" => form.date # None
  /\ op \notin {"patch", "reschedule"} => form = NoForm
  /\ tx' = [tx EXCEPT ![s] = [Idle EXCEPT !.pc = "read", !.op = op, !.b = b,
                                          !.row = bookings[b], !.form = form]]
  /\ UNCHANGED <<bookings, quotes, history, lock>>

\* PATCH /bookings/{id}
CommitPatch(s) ==
  /\ At(s, "patch", "read")
  /\ Write(s, [tx[s].row EXCEPT !.date = tx[s].form.date,
                                !.time = tx[s].form.time,
                                !.service = tx[s].form.service,
                                !.contact = tx[s].form.contact])
  /\ End(s)
  /\ UNCHANGED <<quotes, history>>

\* POST /bookings/{id}/submit
CommitSubmit(s) ==
  /\ At(s, "submit", "read")
  /\ MoveTo(s, tx[s].row, "requested")
  /\ End(s)
  /\ UNCHANGED quotes

\* POST /artist/bookings/{id}/review
CommitReview(s) ==
  /\ At(s, "review", "read")
  /\ MoveTo(s, tx[s].row, "artist_reviewing")
  /\ End(s)
  /\ UNCHANGED quotes

\* POST /artist/bookings/{id}/quotes: the query for the pending quotes ...
ReadPendingQuotes(s) ==
  /\ At(s, "quote", "read")
  /\ tx' = [tx EXCEPT ![s].pc = "pending_read",
              ![s].pend = {q \in Quotes : /\ quotes[q].booking = tx[s].b
                                          /\ quotes[q].status = "pending"}]
  /\ UNCHANGED <<bookings, quotes, history, lock>>

\* Variant: a new quote beside the pending one.
CommitQuoteBeside(s, q) ==
  /\ At(s, "quote", "pending_read")
  /\ quotes[q].status = "unused"
  /\ quotes' = [quotes EXCEPT ![q] = [booking |-> tx[s].b, status |-> "pending"]]
  /\ IF tx[s].row.status \in Deciding THEN Note(s) /\ UNCHANGED bookings
     ELSE MoveTo(s, tx[s].row, "quotation_sent")
  /\ End(s)

\* ... and the rest: they are superseded, the new quote q is inserted, and
\* the booking moves unless this revises an earlier quote.
CommitQuote(s, q) ==
  /\ At(s, "quote", "pending_read")
  /\ quotes[q].status = "unused"
  /\ quotes' = [p \in Quotes |->
                  IF p = q THEN [booking |-> tx[s].b, status |-> "pending"]
                  ELSE IF p \in tx[s].pend THEN [quotes[p] EXCEPT !.status = "superseded"]
                  ELSE quotes[p]]
  /\ \/ /\ tx[s].row.status \in Deciding
        /\ Note(s)
        /\ UNCHANGED bookings
     \/ /\ tx[s].row.status \notin Deciding
        /\ MoveTo(s, tx[s].row, "quotation_sent")
  /\ End(s)

\* Variant: any booking's quote will do.
ReadQuoteOfAny(s, q) ==
  /\ tx[s].op \in {"accept", "reject"} /\ tx[s].pc = "read"
  /\ quotes[q].status = "pending"
  /\ tx' = [tx EXCEPT ![s].pc = "quote_read", ![s].q = q]
  /\ UNCHANGED <<bookings, quotes, history, lock>>

\* POST /bookings/{id}/quotes/{q}/accept or .../reject: db.get of the quote.
ReadQuote(s, q) ==
  /\ tx[s].op \in {"accept", "reject"} /\ tx[s].pc = "read"
  /\ quotes[q].booking = tx[s].b
  /\ quotes[q].status = "pending"
  /\ tx' = [tx EXCEPT ![s].pc = "quote_read", ![s].q = q]
  /\ UNCHANGED <<bookings, quotes, history, lock>>

CommitReject(s) ==
  /\ At(s, "reject", "quote_read")
  /\ quotes' = [quotes EXCEPT ![tx[s].q].status = "declined"]
  /\ MoveTo(s, tx[s].row, "rejected")
  /\ End(s)

\* Variant: SELECT without FOR UPDATE, which waits for nobody.
LockCalendarShared(s) ==
  /\ \/ At(s, "accept", "quote_read")
     \/ At(s, "reschedule", "read") /\ tx[s].row.status \in Occupying
  /\ lock' = [lock EXCEPT ![ArtistOf[tx[s].b]] = s]
  /\ Goto(s, "locked")
  /\ UNCHANGED <<bookings, quotes, history>>

\* _lock_artist_calendar: SELECT ... FOR UPDATE waits while another session
\* holds the row.  A reschedule takes the lock only when the status it read
\* occupies the calendar.
LockCalendar(s) ==
  /\ \/ At(s, "accept", "quote_read")
     \/ At(s, "reschedule", "read") /\ tx[s].row.status \in Occupying
  /\ lock[ArtistOf[tx[s].b]] = None
  /\ lock' = [lock EXCEPT ![ArtistOf[tx[s].b]] = s]
  /\ Goto(s, "locked")
  /\ UNCHANGED <<bookings, quotes, history>>

\* Variants: only one of the two checks.
FitsAtAnyHour(s) == NoConflict(tx[s].b, Proposed(tx[s]))

FitsBesideAnyone(s) == Available(ArtistOf[tx[s].b], Proposed(tx[s]))

\* validate_availability_for_confirmation and
\* check_no_overlapping_confirmed_booking, on the row as the session sees it
\* and the other bookings as they are stored now.
Fits(s) ==
  /\ Available(ArtistOf[tx[s].b], Proposed(tx[s]))
  /\ NoConflict(tx[s].b, Proposed(tx[s]))

Validate(s) ==
  /\ tx[s].pc = "locked"
  /\ Fits(s)
  /\ Goto(s, "validated")
  /\ UNCHANGED <<bookings, quotes, history, lock>>

\* Variant: the quote is given the booking's new status.
CommitAcceptMixed(s) ==
  LET asks == tx[s].row.service \in DepositRequired
      to == IF asks THEN "deposit_pending" ELSE "confirmed"
  IN  /\ At(s, "accept", "validated")
      /\ quotes' = [quotes EXCEPT ![tx[s].q].status = to]
      /\ MoveTo(s, [tx[s].row EXCEPT !.total = tx[s].q, !.deposit = asks \/ @], to)
      /\ End(s)

CommitAccept(s) ==
  LET asks == tx[s].row.service \in DepositRequired
  IN  /\ At(s, "accept", "validated")
      /\ quotes' = [quotes EXCEPT ![tx[s].q].status = "accepted"]
      /\ MoveTo(s, [tx[s].row EXCEPT !.total = tx[s].q,
                                     !.deposit = IF asks THEN TRUE ELSE @],
                IF asks THEN "deposit_pending" ELSE "confirmed")
      /\ End(s)

\* Variant: a booking on the calendar moves without being validated.
CommitRescheduleUnvalidated(s) ==
  /\ tx[s].op = "reschedule" /\ tx[s].pc \in {"read", "validated"}
  /\ Write(s, Proposed(tx[s]))
  /\ Note(s)
  /\ End(s)
  /\ UNCHANGED quotes

\* POST /bookings/{id}/reschedule
CommitReschedule(s) ==
  /\ \/ At(s, "reschedule", "validated")
     \/ At(s, "reschedule", "read") /\ tx[s].row.status \notin Occupying
  /\ Write(s, Proposed(tx[s]))
  /\ Note(s)
  /\ End(s)
  /\ UNCHANGED quotes

\* POST /bookings/{id}/cancel
CommitCancel(s) ==
  /\ At(s, "cancel", "read")
  /\ MoveTo(s, tx[s].row, "cancelled")
  /\ End(s)
  /\ UNCHANGED quotes

\* POST /admin/bookings/{id}/dispute
CommitDispute(s) ==
  /\ At(s, "dispute", "read")
  /\ MoveTo(s, tx[s].row, "disputed")
  /\ End(s)
  /\ UNCHANGED quotes

\* POST /admin/bookings/{id}/resolve-dispute
CommitResolve(s, to) ==
  /\ At(s, "resolve", "read")
  /\ MoveTo(s, tx[s].row, to)
  /\ End(s)
  /\ UNCHANGED quotes

\* The payment service settles a deposit: deposit_pending -> deposit_paid.
CommitSettle(s) ==
  /\ At(s, "settle", "read")
  /\ MoveTo(s, tx[s].row, "deposit_paid")
  /\ End(s)
  /\ UNCHANGED quotes

\* The checks that come after the booking was read and fail: the quote is not
\* this booking's, not pending or expired; the time is not open or is taken.
\* (No quote id left is the bound of the model, not a check of the code.)
Refuse(s) ==
  /\ \/ tx[s].op \in {"accept", "reject"} /\ tx[s].pc = "read"
     \/ tx[s].pc = "locked" /\ ~ Fits(s)
     \/ tx[s].pc = "pending_read" /\ \A q \in Quotes : quotes[q].status # "unused"
  /\ End(s)
  /\ UNCHANGED <<bookings, quotes, history>>

\* The client or the server process goes away in mid-request: ROLLBACK.
Abort(s) ==
  /\ tx[s].pc # "idle"
  /\ End(s)
  /\ UNCHANGED <<bookings, quotes, history>>

\* One step of the handler that session s runs.
Advance(s) ==
  \/ CommitPatch(s) \/ CommitSubmit(s) \/ CommitReview(s)
  \/ ReadPendingQuotes(s)
  \/ \E q \in Quotes : CommitQuote(s, q) \/ ReadQuote(s, q)
  \/ CommitReject(s)
  \/ LockCalendar(s) \/ Validate(s) \/ CommitAccept(s) \/ CommitReschedule(s)
  \/ CommitCancel(s) \/ CommitDispute(s) \/ CommitSettle(s)
  \/ \E to \in Resolutions : CommitResolve(s, to)

Next ==
  \/ \E b \in Bookings : CreateDraft(b)
  \/ \E s \in Sessions, op \in Offered, b \in Bookings, form \in Forms \cup {NoForm} :
       ReadBooking(s, op, b, form)
  \/ \E s \in Sessions : Advance(s) \/ Refuse(s) \/ Abort(s)

Spec == Init /\ [][Next]_vars

-----------------------------------------------------------------------------
(* Properties *)

PC == {"idle", "read", "pending_read", "quote_read", "locked", "validated"}

Tx == [pc : PC, op : Ops \cup {"none"}, b : Bookings \cup {None}, row : Row,
       form : Form, q : Quotes \cup {None}, pend : SUBSET Quotes]

\* Every row, request and lock holder is of the kind the schema allows.
TypeOK ==
  /\ bookings \in [Bookings -> Row]
  /\ quotes \in [Quotes -> [booking : Bookings \cup {None}, status : QuoteStatus]]
  /\ history \in [Bookings -> [from : Status, to : Status]]
  /\ tx \in [Sessions -> Tx]
  /\ lock \in [Artists -> Sessions \cup {None}]

QuotesOf(b, st) == {q \in Quotes : quotes[q].booking = b /\ quotes[q].status = st}

\* Two bookings that occupy an artist's calendar never overlap, whatever
\* acceptances and reschedules of different bookings run at the same time
\* (docs/booking-lifecycle.md section 6, _lock_artist_calendar).
NoDoubleBooking ==
  \A b, o \in Bookings :
    /\ b # o
    /\ ArtistOf[b] = ArtistOf[o]
    /\ bookings[b].status \in Occupying
    /\ bookings[o].status \in Occupying
    => ~ Overlaps(bookings[b], bookings[o])

\* A booking occupies only time the artist works and has not blocked: both
\* ways into the calendar validate the very row they store
\* (validate_availability_for_confirmation).
OccupiesOpenTime ==
  \A b \in Bookings :
    bookings[b].status \in Occupying => Available(ArtistOf[b], bookings[b])

\* The quotes of a booking agree with its status: a customer who may decide has
\* exactly one quote to decide on; a booking on the calendar was bought by
\* exactly one accepted quote, whose price it carries, and none is left open.
QuotesAgree ==
  \A b \in Bookings :
    /\ bookings[b].status \in Deciding =>
         \E q \in Quotes : QuotesOf(b, "pending") = {q}
    /\ bookings[b].status \in Occupying =>
         /\ QuotesOf(b, "accepted") = {bookings[b].total}
         /\ QuotesOf(b, "pending") = {}

\* The newest audit row of a booking names the status it has: the audit trail
\* and the status never drift apart (docs/booking-lifecycle.md section 3).
AuditMatchesStatus ==
  \A b \in Bookings : history[b].to = bookings[b].status

\* Consecutive audit rows of a booking join up: each starts where the last ended.
AuditIsChained ==
  [][\A b \in Bookings :
       history'[b] # history[b] => history'[b].from = history[b].to]_history

\* Whatever the artist gets to see has every field submit_booking asks for: no
\* later edit of the draft can take one away.
SubmittedIsComplete ==
  \A b \in Bookings :
    bookings[b].status \notin {"none", "draft", "cancelled"} => Complete(bookings[b])

\* Nothing changes a cancelled, rejected or refunded booking any more.
TerminalIsFinal ==
  [][\A b \in Bookings :
       bookings[b].status \in Terminal => bookings'[b] = bookings[b]]_bookings

\* Once a quote has been accepted, the agreed price and the service stand.
AgreementStands ==
  [][\A b \in Bookings :
       bookings[b].status \in Occupying =>
         /\ bookings'[b].total = bookings[b].total
         /\ bookings'[b].service = bookings[b].service
         /\ bookings'[b].status \in Occupying \cup {"cancelled"}]_bookings

\* However requests interleave, a booking that occupies the calendar carries the
\* price of a quote the artist made for it, and waits for or has paid a deposit
\* only if one was agreed.
PricedByOwnQuote ==
  \A b \in Bookings :
    /\ bookings[b].status \in Occupying =>
         \E q \in Quotes : bookings[b].total = q /\ quotes[q].booking = b
    /\ bookings[b].status \in {"deposit_pending", "deposit_paid"} => bookings[b].deposit

\* Why the lock is enough as long as no request of Unlocked races: the place a
\* session read is still the stored one; the session whose overlap check passed
\* holds its artist's row, and what it validated keeps fitting until it commits.
ReadsAreCurrent ==
  \A s \in Sessions : tx[s].pc # "idle" =>
    /\ tx[s].b \in Bookings
    /\ tx[s].row.status \in Admits[tx[s].op]
    /\ SlotOf(tx[s].row) = SlotOf(bookings[tx[s].b])
    /\ tx[s].op \in Unlocked => tx[s].row.status = bookings[tx[s].b].status

OnlyRacesOverlap ==
  \A s, t \in Sessions :
    /\ s # t
    /\ tx[s].pc # "idle" /\ tx[t].pc # "idle"
    /\ tx[s].b = tx[t].b
    => {tx[s].op, tx[t].op} \subseteq Races

ValidatedStillFits ==
  \A s \in Sessions :
    /\ tx[s].pc \in {"locked", "validated"} => lock[ArtistOf[tx[s].b]] = s
    /\ tx[s].pc = "validated" => NoConflict(tx[s].b, Proposed(tx[s]))

CalendarInv ==
  ReadsAreCurrent /\ OnlyRacesOverlap /\ ValidatedStillFits /\ NoDoubleBooking

\* PostgreSQL queues the waiters of a row lock, so a request that keeps finding
\* the calendar locked gets it in the end, and each statement of a handler is
\* answered.  Nothing is assumed of Abort: a request may never be lost.
Fairness ==
  \A s \in Sessions :
    /\ WF_vars(Advance(s) \/ Refuse(s))
    /\ SF_vars(LockCalendar(s))

FairSpec == Spec /\ Fairness

\* Every request is answered.
RequestsEnd == \A s \in Sessions : (tx[s].pc # "idle") ~> (tx[s].pc = "idle")

\* The calendar alone: seen as the places of the occupying bookings, the service
\* does only what ArtistCalendar allows.
Calendar == INSTANCE ArtistCalendar WITH
  Slots <- Slot, Free <- None, Clash <- Overlaps,
  booked <- [b \in Bookings |->
               IF bookings[b].status \in Occupying THEN SlotOf(bookings[b]) ELSE None]

ImplementsCalendar == Calendar!Spec
=============================================================================
