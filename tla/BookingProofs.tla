---------------------------- MODULE BookingProofs ----------------------------
(***************************************************************************)
(* Theorems about Booking.tla, for every set of bookings, requests,        *)
(* quotes, artists, services and times: types, no double booking, the      *)
(* abstract calendar it implements; then what it stores beside the         *)
(* calendar: open time, completeness, price and audit trail.               *)
(* Each is stated for the races under which it holds; MCBooking shows      *)
(* that some condition is needed.                                          *)
(***************************************************************************)
EXTENDS Booking, TLAPS

(***************************************************************************)
(* Type correctness                                                        *)
(***************************************************************************)

\* An UPDATE of a row by a row leaves a row.
LEMMA FlushType ==
  ASSUME NEW x \in Row, NEW y \in Row, NEW z \in Row
  PROVE  Flush(x, y, z) \in Row
BY DEF Flush, Column, Row

\* Writing a row keeps the bookings table well formed.
LEMMA WriteType ==
  ASSUME TypeOK, NEW s \in Sessions, NEW new \in Row, Write(s, new)
  PROVE  bookings' \in [Bookings -> Row]
<1>1. tx[s].row \in Row
  BY DEF TypeOK, Tx
<1>2. \A x \in Row : Flush(x, tx[s].row, new) \in Row
  BY <1>1, FlushType
<1>3. QED
  BY <1>2 DEF TypeOK, Write

\* A transition and its audit row keep both tables well formed.
LEMMA MoveToType ==
  ASSUME TypeOK, NEW s \in Sessions, NEW new \in Row, NEW to \in Status,
         MoveTo(s, new, to)
  PROVE  /\ bookings' \in [Bookings -> Row]
         /\ history' \in [Bookings -> [from : Status, to : Status]]
<1>1. [new EXCEPT !.status = to] \in Row
  BY DEF Row
<1>2. bookings' \in [Bookings -> Row]
  BY <1>1, WriteType DEF MoveTo
<1>3. tx[s].row.status \in Status
  BY DEF TypeOK, Tx, Row
<1>4. history' \in [Bookings -> [from : Status, to : Status]]
  BY <1>3 DEF MoveTo, Audit, TypeOK
<1>5. QED
  BY <1>2, <1>4

\* A same-status audit row is well formed.
LEMMA NoteType ==
  ASSUME TypeOK, NEW s \in Sessions, Note(s)
  PROVE  history' \in [Bookings -> [from : Status, to : Status]]
BY DEF Note, Audit, TypeOK, Tx, Row

\* An idle session is a session.
LEMMA IdleType == Idle \in Tx
BY DEF Idle, Tx, PC, NewRow, NoForm, Row, Form, Status

\* Ending a session keeps sessions and locks well formed.
LEMMA EndType ==
  ASSUME TypeOK, NEW s \in Sessions, End(s)
  PROVE  tx' \in [Sessions -> Tx] /\ lock' \in [Artists -> Sessions \cup {None}]
BY IdleType DEF End, TypeOK

\* The row a reschedule leaves is a row.
LEMMA ProposedType ==
  ASSUME NEW t \in Tx
  PROVE  Proposed(t) \in Row
BY DEF Proposed, Tx, Row, Form

\* A session that goes on to pc, with a quote and a set of quotes, is a session.
LEMMA GotoType ==
  ASSUME NEW t \in Tx, NEW pc \in PC, NEW q \in Quotes \cup {None}, NEW pend \in SUBSET Quotes
  PROVE  /\ [t EXCEPT !.pc = pc] \in Tx
         /\ [t EXCEPT !.pc = pc, !.q = q] \in Tx
         /\ [t EXCEPT !.pc = pc, !.pend = pend] \in Tx
BY DEF Tx

\* Every step of a session keeps the type invariant.
LEMMA AdvanceType ==
  ASSUME TypeOK, NEW s \in Sessions, Advance(s)
  PROVE  TypeOK'
<1> DEFINE T == tx[s]
<1>1. T \in Tx /\ T.row \in Row /\ T.form \in Form
  BY DEF TypeOK, Tx
<1>2. CASE CommitPatch(s)
  <2>1. [T.row EXCEPT !.date = T.form.date, !.time = T.form.time,
                      !.service = T.form.service, !.contact = T.form.contact] \in Row
    BY <1>1 DEF Row, Form
  <2>2. bookings' \in [Bookings -> Row]
    BY <1>2, <2>1, WriteType DEF CommitPatch
  <2>3. QED
    BY <1>2, <2>2, EndType DEF CommitPatch, TypeOK
<1>3. CASE CommitSubmit(s)
  BY <1>1, <1>3, MoveToType, EndType DEF CommitSubmit, TypeOK, Status
<1>4. CASE CommitReview(s)
  BY <1>1, <1>4, MoveToType, EndType DEF CommitReview, TypeOK, Status
<1>5. CASE CommitCancel(s)
  BY <1>1, <1>5, MoveToType, EndType DEF CommitCancel, TypeOK, Status
<1>6. CASE CommitDispute(s)
  BY <1>1, <1>6, MoveToType, EndType DEF CommitDispute, TypeOK, Status
<1>7. CASE CommitSettle(s)
  BY <1>1, <1>7, MoveToType, EndType DEF CommitSettle, TypeOK, Status
<1>8. CASE \E to \in Resolutions : CommitResolve(s, to)
  <2>1. PICK to \in Resolutions : CommitResolve(s, to)
    BY <1>8
  <2>2. to \in Status
    BY DEF Resolutions, Status
  <2>3. QED
    BY <1>1, <2>1, <2>2, MoveToType, EndType DEF CommitResolve, TypeOK
<1>9. CASE ReadPendingQuotes(s)
  <2> DEFINE pend == {q \in Quotes : quotes[q].booking = T.b /\ quotes[q].status = "pending"}
  <2>1. pend \in SUBSET Quotes
    OBVIOUS
  <2>2. tx' = [tx EXCEPT ![s].pc = "pending_read", ![s].pend = pend]
    BY <1>9 DEF ReadPendingQuotes
  <2> HIDE DEF pend
  <2>3. tx' \in [Sessions -> Tx]
    <3>1. [T EXCEPT !.pc = "pending_read", !.pend = pend] \in Tx
      BY <1>1, <2>1, GotoType DEF PC
    <3>2. QED
      BY <2>2, <3>1 DEF TypeOK
  <2>4. QED
    BY <1>9, <2>3 DEF ReadPendingQuotes, TypeOK
<1>10. CASE \E q \in Quotes : CommitQuote(s, q)
  <2>1. PICK q \in Quotes : CommitQuote(s, q)
    BY <1>10
  <2>2. T.b \in Bookings \cup {None}
    BY <1>1 DEF Tx
  <2>3. quotes' \in [Quotes -> [booking : Bookings \cup {None}, status : QuoteStatus]]
    BY <2>1, <2>2 DEF CommitQuote, TypeOK, QuoteStatus
  <2>4. CASE Note(s) /\ UNCHANGED bookings
    BY <2>1, <2>3, <2>4, NoteType, EndType DEF CommitQuote, TypeOK
  <2>5. CASE MoveTo(s, T.row, "quotation_sent")
    BY <1>1, <2>1, <2>3, <2>5, MoveToType, EndType DEF CommitQuote, TypeOK, Status
  <2>6. QED
    BY <2>1, <2>4, <2>5 DEF CommitQuote
<1>11. CASE \E q \in Quotes : ReadQuote(s, q)
  <2>1. PICK q \in Quotes : ReadQuote(s, q)
    BY <1>11
  <2>2. [T EXCEPT !.pc = "quote_read", !.q = q] \in Tx
    BY <1>1, GotoType DEF PC
  <2>3. QED
    BY <2>1, <2>2 DEF ReadQuote, TypeOK
<1>12. CASE CommitReject(s)
  <2>1. quotes' \in [Quotes -> [booking : Bookings \cup {None}, status : QuoteStatus]]
    BY <1>12 DEF CommitReject, TypeOK, QuoteStatus
  <2>2. QED
    BY <1>1, <1>12, <2>1, MoveToType, EndType DEF CommitReject, TypeOK, Status
<1>13. CASE LockCalendar(s)
  <2>1. [T EXCEPT !.pc = "locked"] \in Tx
    BY <1>1, GotoType DEF PC
  <2>2. QED
    BY <1>13, <2>1 DEF LockCalendar, Goto, TypeOK
<1>14. CASE Validate(s)
  <2>1. [T EXCEPT !.pc = "validated"] \in Tx
    BY <1>1, GotoType DEF PC
  <2>2. QED
    BY <1>14, <2>1 DEF Validate, Goto, TypeOK
<1>15. CASE CommitAccept(s)
  <2> DEFINE asks == T.row.service \in DepositRequired
             new == [T.row EXCEPT !.total = T.q, !.deposit = IF asks THEN TRUE ELSE @]
             to == IF asks THEN "deposit_pending" ELSE "confirmed"
  <2>1. quotes' \in [Quotes -> [booking : Bookings \cup {None}, status : QuoteStatus]]
    BY <1>15 DEF CommitAccept, TypeOK, QuoteStatus
  <2>2. new \in Row
    BY <1>1 DEF Row, Tx
  <2>3. to \in Status
    BY DEF Status
  <2>4. MoveTo(s, new, to) /\ End(s)
    BY <1>15 DEF CommitAccept
  <2> HIDE DEF new, to
  <2>5. QED
    BY <2>1, <2>2, <2>3, <2>4, MoveToType, EndType DEF TypeOK
<1>16. CASE CommitReschedule(s)
  <2>1. Proposed(T) \in Row
    BY <1>1, ProposedType
  <2>2. bookings' \in [Bookings -> Row]
    BY <1>16, <2>1, WriteType DEF CommitReschedule
  <2>3. QED
    BY <1>16, <2>2, NoteType, EndType DEF CommitReschedule, TypeOK
<1>17. QED
  BY <1>2, <1>3, <1>4, <1>5, <1>6, <1>7, <1>8, <1>9, <1>10, <1>11, <1>12, <1>13, <1>14, <1>15, <1>16 DEF Advance

\* The type invariant holds throughout, whatever races are allowed.
THEOREM TypeCorrect == Spec => []TypeOK
<1>1. Init => TypeOK
  BY IdleType DEF Init, TypeOK, NewRow, Row, Status, QuoteStatus
<1>2. TypeOK /\ [Next]_vars => TypeOK'
  <2> SUFFICES ASSUME TypeOK, [Next]_vars
               PROVE  TypeOK'
    OBVIOUS
  <2>1. ASSUME NEW b \in Bookings, CreateDraft(b)
        PROVE  TypeOK'
    <3>1. [bookings[b] EXCEPT !.status = "draft"] \in Row
      <4>1. bookings[b] \in Row /\ "draft" \in Status
        BY DEF TypeOK, Status
      <4>2. QED
        BY <4>1 DEF Row
    <3>2. QED
      BY <2>1, <3>1 DEF CreateDraft, Audit, TypeOK, Status
  <2>2. ASSUME NEW s \in Sessions, NEW op \in Offered, NEW b \in Bookings,
               NEW form \in Forms \cup {NoForm}, ReadBooking(s, op, b, form)
        PROVE  TypeOK'
    <3>1. form \in Form
      <4>1. NoForm \in Form
        BY DEF NoForm, Form
      <4>2. QED
        BY <4>1, BookingAssumption
    <3>2. op \in Ops
      BY BookingAssumption
    <3>3. [Idle EXCEPT !.pc = "read", !.op = op, !.b = b,
                       !.row = bookings[b], !.form = form] \in Tx
      BY <3>1, <3>2, IdleType DEF TypeOK, Tx, PC, Idle
    <3>4. QED
      BY <2>2, <3>3 DEF ReadBooking, TypeOK
  <2>3. ASSUME NEW s \in Sessions, Advance(s)
        PROVE  TypeOK'
    BY <2>3, AdvanceType
  <2>4. ASSUME NEW s \in Sessions, Refuse(s) \/ Abort(s)
        PROVE  TypeOK'
    BY <2>4, EndType DEF Refuse, Abort, TypeOK
  <2>5. CASE UNCHANGED vars
    BY <2>5 DEF vars, TypeOK
  <2>6. QED
    BY <2>1, <2>2, <2>3, <2>4, <2>5 DEF Next
<1>3. QED
  BY <1>1, <1>2, PTL DEF Spec

(***************************************************************************)
(* No double booking                                                       *)
(*                                                                         *)
(* A step of a session either leaves the bookings alone or commits, and a   *)
(* commit has one of three effects on its booking (Effect): the booking is  *)
(* not on the calendar afterwards; or it was on it and keeps its place; or  *)
(* it takes a place that was validated under the artist's lock.  Effect     *)
(* keeps CalendarInv, which contains NoDoubleBooking.                      *)
(***************************************************************************)

SafeRaces == Races \cap Unlocked = {}

Effect(s) ==
  LET b == tx[s].b
  IN  /\ \A o \in Bookings \ {b} : bookings'[o] = bookings[o]
      /\ tx[s].op \notin Unlocked => SlotOf(bookings'[b]) = SlotOf(bookings[b])
      /\ \/ bookings'[b].status \notin Occupying
         \/ /\ bookings[b].status \in Occupying
            /\ SlotOf(bookings'[b]) = SlotOf(bookings[b])
         \/ /\ tx[s].pc = "validated"
            /\ NoConflict(b, bookings'[b])

\* Whether two bookings overlap depends on their places alone.
LEMMA OverlapsBySlot ==
  ASSUME NEW x, NEW y, NEW z, SlotOf(x) = SlotOf(y)
  PROVE  /\ Overlaps(x, z) <=> Overlaps(y, z)
         /\ Overlaps(z, x) <=> Overlaps(z, y)
<1>1. x.date = y.date /\ x.time = y.time /\ x.service = y.service
  BY DEF SlotOf
<1>2. StartOf(x) = StartOf(y) /\ EndOf(x) = EndOf(y)
  BY <1>1 DEF StartOf, EndOf
<1>3. QED
  BY <1>1, <1>2 DEF Overlaps

\* Overlapping is symmetric.
LEMMA OverlapsSymmetric ==
  ASSUME NEW x, NEW y
  PROVE  Overlaps(x, y) <=> Overlaps(y, x)
BY DEF Overlaps

\* No status leads to itself.
LEMMA NoSelfLoop ==
  ASSUME NEW st \in Status, NEW to, CanMove(st, to)
  PROVE  st # to
BY DEF CanMove, Transitions, Status

\* Which statuses the unlocked requests start from.
LEMMA AdmitsFacts ==
  /\ Admits["patch"] = {"draft"}
  /\ Admits["dispute"] \subseteq Occupying
  /\ Admits["resolve"] \subseteq Occupying
  /\ Admits["settle"] \subseteq Occupying
  /\ Admits["reschedule"] = Reschedulable
BY DEF Admits, Editable, Disputable, Occupying

\* What an UPDATE does to a booking whose place the session read as it is stored.
LEMMA FlushEffect ==
  ASSUME NEW x \in Row, NEW y \in Row, NEW z \in Row, SlotOf(x) = SlotOf(y)
  PROVE  /\ SlotOf(Flush(x, y, z)) = SlotOf(z)
         /\ z.status = y.status => Flush(x, y, z).status = x.status
         /\ z.status # y.status => Flush(x, y, z).status = z.status
<1>1. x.date = y.date /\ x.time = y.time /\ x.service = y.service
  BY DEF SlotOf
<1>2. QED
  BY <1>1 DEF Flush, Column, SlotOf

\* The same for the bookings table, in a session whose reads are current.
LEMMA WriteEffect ==
  ASSUME TypeOK, ReadsAreCurrent, NEW s \in Sessions, tx[s].pc # "idle",
         NEW new \in Row, Write(s, new)
  PROVE  /\ tx[s].b \in Bookings
         /\ \A o \in Bookings \ {tx[s].b} : bookings'[o] = bookings[o]
         /\ SlotOf(bookings'[tx[s].b]) = SlotOf(new)
         /\ new.status = tx[s].row.status =>
              bookings'[tx[s].b].status = bookings[tx[s].b].status
         /\ new.status # tx[s].row.status =>
              bookings'[tx[s].b].status = new.status
<1> DEFINE b == tx[s].b
<1>1. b \in Bookings /\ SlotOf(bookings[b]) = SlotOf(tx[s].row)
  BY DEF ReadsAreCurrent
<1>2. bookings[b] \in Row /\ tx[s].row \in Row
  BY <1>1 DEF TypeOK, Tx
<1>3. bookings'[b] = Flush(bookings[b], tx[s].row, new)
  BY <1>1 DEF Write, TypeOK
<1>4. \A o \in Bookings \ {b} : bookings'[o] = bookings[o]
  BY DEF Write, TypeOK
<1>5. QED
  BY <1>1, <1>2, <1>3, <1>4, FlushEffect

\* A transition that leaves the place alone stores the new status.
LEMMA MoveToEffect ==
  ASSUME TypeOK, ReadsAreCurrent, NEW s \in Sessions, tx[s].pc # "idle",
         NEW new \in Row, new.status = tx[s].row.status,
         SlotOf(new) = SlotOf(tx[s].row), NEW to \in Status, MoveTo(s, new, to)
  PROVE  /\ tx[s].b \in Bookings
         /\ \A o \in Bookings \ {tx[s].b} : bookings'[o] = bookings[o]
         /\ SlotOf(bookings'[tx[s].b]) = SlotOf(bookings[tx[s].b])
         /\ bookings'[tx[s].b].status = to
<1> DEFINE moved == [new EXCEPT !.status = to]
<1>1. moved \in Row /\ moved.status = to /\ SlotOf(moved) = SlotOf(new)
  BY DEF Row, SlotOf
<1>2. tx[s].row.status \in Status
  BY DEF TypeOK, Tx, Row
<1>3. tx[s].row.status # to
  BY <1>2, NoSelfLoop DEF MoveTo
<1>4. Write(s, moved)
  BY DEF MoveTo
<1> HIDE DEF moved
<1>5. SlotOf(tx[s].row) = SlotOf(bookings[tx[s].b])
  BY DEF ReadsAreCurrent
<1>6. QED
  BY <1>1, <1>3, <1>4, <1>5, WriteEffect

\* A transition off the calendar, or of a booking already on it, is an Effect.
LEMMA MoveIsEffect ==
  ASSUME TypeOK, ReadsAreCurrent, NEW s \in Sessions, tx[s].pc # "idle",
         NEW to \in Status, MoveTo(s, tx[s].row, to),
         to \notin Occupying \/ bookings[tx[s].b].status \in Occupying
  PROVE  Effect(s)
<1>1. tx[s].row \in Row
  BY DEF TypeOK, Tx
<1>2. QED
  BY <1>1, MoveToEffect DEF Effect

\* Leaving the bookings alone is an Effect.
LEMMA NoteIsEffect ==
  ASSUME NEW s \in Sessions, UNCHANGED bookings
  PROVE  Effect(s)
BY DEF Effect

\* The requests of Unlocked find the status they read.
LEMMA UnlockedStatus ==
  ASSUME ReadsAreCurrent, NEW s \in Sessions, tx[s].pc # "idle", tx[s].op \in Unlocked
  PROVE  bookings[tx[s].b].status \in Admits[tx[s].op]
BY DEF ReadsAreCurrent

\* The commits of the handlers, one by one.
Commits(s) ==
  \/ CommitPatch(s) \/ CommitSubmit(s) \/ CommitReview(s)
  \/ \E q \in Quotes : CommitQuote(s, q)
  \/ CommitReject(s) \/ CommitAccept(s) \/ CommitReschedule(s)
  \/ CommitCancel(s) \/ CommitDispute(s) \/ CommitSettle(s)
  \/ \E to \in Resolutions : CommitResolve(s, to)

\* Every commit has one of the three effects.
LEMMA CommitIsEffect ==
  ASSUME TypeOK, ReadsAreCurrent, ValidatedStillFits, NEW s \in Sessions, Commits(s)
  PROVE  Effect(s)
<1> DEFINE T == tx[s]
<1>0. T \in Tx /\ T.row \in Row /\ T.form \in Form
  BY DEF TypeOK, Tx
<1>1. ASSUME CommitSubmit(s)
     PROVE  Effect(s)
    <2>1. tx[s].pc # "idle" /\ MoveTo(s, tx[s].row, "requested")
      BY <1>1 DEF CommitSubmit, At
    <2>2. QED
      BY <2>1, MoveIsEffect DEF Status, Occupying
<1>2. ASSUME CommitReview(s)
     PROVE  Effect(s)
    <2>1. tx[s].pc # "idle" /\ MoveTo(s, tx[s].row, "artist_reviewing")
      BY <1>2 DEF CommitReview, At
    <2>2. QED
      BY <2>1, MoveIsEffect DEF Status, Occupying
<1>3. ASSUME CommitReject(s)
     PROVE  Effect(s)
    <2>1. tx[s].pc # "idle" /\ MoveTo(s, tx[s].row, "rejected")
      BY <1>3 DEF CommitReject, At
    <2>2. QED
      BY <2>1, MoveIsEffect DEF Status, Occupying
<1>4. ASSUME CommitCancel(s)
     PROVE  Effect(s)
    <2>1. tx[s].pc # "idle" /\ MoveTo(s, tx[s].row, "cancelled")
      BY <1>4 DEF CommitCancel, At
    <2>2. QED
      BY <2>1, MoveIsEffect DEF Status, Occupying
<1>5. ASSUME CommitDispute(s)
     PROVE  Effect(s)
    <2>1. tx[s].pc # "idle" /\ MoveTo(s, tx[s].row, "disputed")
      BY <1>5 DEF CommitDispute, At
    <2>2. bookings[tx[s].b].status \in Occupying
      BY <1>5, <2>1, UnlockedStatus, AdmitsFacts DEF CommitDispute, At, Unlocked
    <2>3. QED
      BY <2>1, <2>2, MoveIsEffect DEF Status
<1>6. ASSUME CommitSettle(s)
     PROVE  Effect(s)
    <2>1. tx[s].pc # "idle" /\ MoveTo(s, tx[s].row, "deposit_paid")
      BY <1>6 DEF CommitSettle, At
    <2>2. bookings[tx[s].b].status \in Occupying
      BY <1>6, <2>1, UnlockedStatus, AdmitsFacts DEF CommitSettle, At, Unlocked
    <2>3. QED
      BY <2>1, <2>2, MoveIsEffect DEF Status
<1>7. ASSUME NEW to \in Resolutions, CommitResolve(s, to)
     PROVE  Effect(s)
    <2>1. T.pc # "idle" /\ MoveTo(s, T.row, to) /\ to \in Status
      BY <1>7 DEF CommitResolve, At, Resolutions, Status
    <2>2. bookings[T.b].status \in Occupying
      BY <1>7, <2>1, UnlockedStatus, AdmitsFacts DEF CommitResolve, At, Unlocked
    <2>3. QED
      BY <2>1, <2>2, MoveIsEffect
<1>8. ASSUME NEW q \in Quotes, CommitQuote(s, q)
     PROVE  Effect(s)
    <2>1. CASE UNCHANGED bookings
      BY <2>1, NoteIsEffect
    <2>2. CASE MoveTo(s, T.row, "quotation_sent")
      BY <1>8, <2>2, MoveIsEffect DEF CommitQuote, At, Status, Occupying
    <2>3. QED
      BY <1>8, <2>1, <2>2 DEF CommitQuote
<1>9. ASSUME CommitPatch(s)
     PROVE  Effect(s)
    <2> DEFINE new == [T.row EXCEPT !.date = T.form.date, !.time = T.form.time,
                             !.service = T.form.service, !.contact = T.form.contact]
    <2>1. new \in Row /\ new.status = T.row.status
      BY <1>0 DEF Row, Form
    <2>2. T.pc # "idle" /\ T.op = "patch" /\ Write(s, new)
      BY <1>9 DEF CommitPatch, At
    <2> HIDE DEF new
    <2>3. bookings[T.b].status = "draft"
      BY <2>2, UnlockedStatus, AdmitsFacts DEF Unlocked
    <2>4. bookings'[T.b].status = "draft"
      BY <2>1, <2>2, <2>3, WriteEffect
    <2>5. QED
      BY <2>1, <2>2, <2>4, WriteEffect DEF Effect, Occupying, Unlocked
<1>10. ASSUME CommitReschedule(s)
      PROVE  Effect(s)
    <2> DEFINE new == Proposed(T)
    <2>1. T.pc # "idle" /\ T.op = "reschedule" /\ Write(s, new)
      BY <1>10 DEF CommitReschedule, At
    <2>2. new \in Row /\ new.status = T.row.status
      BY <1>0, <2>1, ProposedType DEF Proposed, Row
    <2>3. /\ \A o \in Bookings \ {T.b} : bookings'[o] = bookings[o]
          /\ SlotOf(bookings'[T.b]) = SlotOf(new)
          /\ bookings'[T.b].status = bookings[T.b].status
      BY <2>1, <2>2, WriteEffect
    <2>4. CASE T.row.status \notin Occupying
      <3>1. bookings[T.b].status = T.row.status
        BY <2>1 DEF ReadsAreCurrent, Unlocked
      <3>2. QED
        BY <2>1, <2>3, <2>4, <3>1 DEF Effect, Unlocked
    <2>5. CASE T.pc = "validated"
      <3>1. NoConflict(T.b, new)
        BY <2>5 DEF ValidatedStillFits
      <3>2. NoConflict(T.b, bookings'[T.b])
        BY <2>3, <3>1, OverlapsBySlot DEF NoConflict
      <3>3. QED
        BY <2>1, <2>3, <2>5, <3>2 DEF Effect, Unlocked
    <2>6. QED
      BY <1>10, <2>4, <2>5 DEF CommitReschedule, At
<1>11. ASSUME CommitAccept(s)
      PROVE  Effect(s)
    <2> DEFINE asks == T.row.service \in DepositRequired
               new == [T.row EXCEPT !.total = T.q, !.deposit = IF asks THEN TRUE ELSE @]
               to == IF asks THEN "deposit_pending" ELSE "confirmed"
    <2>1. T.pc = "validated" /\ T.op = "accept" /\ MoveTo(s, new, to)
      BY <1>11 DEF CommitAccept, At
    <2>2. new \in Row /\ new.status = T.row.status /\ SlotOf(new) = SlotOf(T.row)
      BY <1>0 DEF Row, Tx, SlotOf
    <2>3. to \in Status
      BY DEF Status
    <2> HIDE DEF new, to
    <2>4. /\ \A o \in Bookings \ {T.b} : bookings'[o] = bookings[o]
          /\ SlotOf(bookings'[T.b]) = SlotOf(bookings[T.b])
      BY <2>1, <2>2, <2>3, MoveToEffect
    <2>5. NoConflict(T.b, T.row)
      BY <2>1 DEF ValidatedStillFits, Proposed
    <2>6. SlotOf(bookings[T.b]) = SlotOf(T.row)
      BY <2>1 DEF ReadsAreCurrent
    <2>7. NoConflict(T.b, bookings'[T.b])
      BY <2>4, <2>5, <2>6, OverlapsBySlot DEF NoConflict
    <2>8. QED
      BY <2>1, <2>4, <2>7 DEF Effect
<1>12. QED
  BY <1>1, <1>2, <1>3, <1>4, <1>5, <1>6, <1>7, <1>8, <1>9, <1>10, <1>11 DEF Commits

\* Whatever has an Effect and ends its session keeps the calendar invariant.
LEMMA EffectKeeps ==
  ASSUME TypeOK, CalendarInv, SafeRaces, NEW s \in Sessions, tx[s].pc # "idle",
         Effect(s), End(s)
  PROVE  CalendarInv'
<1> DEFINE b == tx[s].b
<1>1. b \in Bookings /\ ArtistOf[b] \in Artists
  BY BookingAssumption DEF CalendarInv, ReadsAreCurrent
<1>2. /\ tx'[s].pc = "idle"
      /\ \A t \in Sessions \ {s} : tx'[t] = tx[t]
      /\ \A a \in Artists : lock[a] # s => lock'[a] = lock[a]
  BY DEF End, TypeOK, Idle
<1>3. ASSUME NEW t \in Sessions, t # s, tx[t].pc # "idle", tx[t].b = b
      PROVE  tx[t].op \notin Unlocked /\ SlotOf(bookings'[b]) = SlotOf(bookings[b])
  <2>1. {tx[s].op, tx[t].op} \subseteq Races
    BY <1>3 DEF CalendarInv, OnlyRacesOverlap
  <2>2. QED
    BY <2>1 DEF SafeRaces, Effect
<1>4. ReadsAreCurrent'
  <2> SUFFICES ASSUME NEW t \in Sessions, tx'[t].pc # "idle"
               PROVE  /\ tx'[t].b \in Bookings
                      /\ tx'[t].row.status \in Admits[tx'[t].op]
                      /\ SlotOf(tx'[t].row) = SlotOf(bookings'[tx'[t].b])
                      /\ tx'[t].op \in Unlocked => tx'[t].row.status = bookings'[tx'[t].b].status
    BY DEF ReadsAreCurrent
  <2>1. t # s /\ tx'[t] = tx[t]
    BY <1>2
  <2>2. CASE tx[t].b = b
    BY <1>1, <1>3, <2>1, <2>2 DEF CalendarInv, ReadsAreCurrent
  <2>3. CASE tx[t].b # b
    BY <2>1, <2>3 DEF CalendarInv, ReadsAreCurrent, Effect
  <2>4. QED
    BY <2>2, <2>3
<1>5. OnlyRacesOverlap'
  BY <1>2 DEF CalendarInv, OnlyRacesOverlap
<1>6. ValidatedStillFits'
  <2> SUFFICES ASSUME NEW t \in Sessions
               PROVE  /\ tx'[t].pc \in {"locked", "validated"} => lock'[ArtistOf[tx'[t].b]] = t
                      /\ tx'[t].pc = "validated" =>
                           \A o \in Bookings \ {tx'[t].b} :
                             ArtistOf[o] = ArtistOf[tx'[t].b] /\ bookings'[o].status \in Occupying
                               => ~ Overlaps(Proposed(tx'[t]), bookings'[o])
    BY DEF ValidatedStillFits, NoConflict
  <2>1. CASE t = s
    BY <1>2, <2>1
  <2>2. CASE t # s
    <3>1. tx'[t] = tx[t]
      BY <1>2, <2>2
    <3>2. ASSUME tx[t].pc \in {"locked", "validated"}
          PROVE  /\ tx[t].b \in Bookings
                 /\ lock[ArtistOf[tx[t].b]] = t
                 /\ lock'[ArtistOf[tx[t].b]] = t
      <4>1. tx[t].b \in Bookings /\ lock[ArtistOf[tx[t].b]] = t
        BY <3>2 DEF CalendarInv, ReadsAreCurrent, ValidatedStillFits
      <4>2. ArtistOf[tx[t].b] \in Artists
        BY <4>1, BookingAssumption
      <4>3. QED
        BY <1>2, <2>2, <4>1, <4>2
    <3>3. ASSUME tx[t].pc = "validated", NEW o \in Bookings \ {tx[t].b},
                 ArtistOf[o] = ArtistOf[tx[t].b], bookings'[o].status \in Occupying
          PROVE  ~ Overlaps(Proposed(tx[t]), bookings'[o])
      <4>1. NoConflict(tx[t].b, Proposed(tx[t]))
        BY <3>3 DEF CalendarInv, ValidatedStillFits
      <4>2. CASE o # b
        BY <3>3, <4>1, <4>2 DEF Effect, NoConflict
      <4>3. CASE o = b
        <5>1. tx[s].pc # "validated"
          BY <2>2, <3>2, <3>3, <4>3 DEF CalendarInv, ValidatedStillFits
        <5>2. bookings[b].status \in Occupying /\ SlotOf(bookings'[b]) = SlotOf(bookings[b])
          BY <3>3, <4>3, <5>1 DEF Effect
        <5>3. ~ Overlaps(Proposed(tx[t]), bookings[b])
          BY <3>3, <4>1, <4>3, <5>2 DEF NoConflict
        <5>4. QED
          BY <4>3, <5>2, <5>3, OverlapsBySlot
      <4>4. QED
        BY <4>2, <4>3
    <3>4. QED
      BY <3>1, <3>2, <3>3
  <2>3. QED
    BY <2>1, <2>2
<1>7. NoDoubleBooking'
  <2>1. ASSUME NEW o \in Bookings \ {b}, ArtistOf[o] = ArtistOf[b],
               bookings'[b].status \in Occupying, bookings'[o].status \in Occupying
        PROVE  ~ Overlaps(bookings'[b], bookings'[o])
    <3>1. bookings'[o] = bookings[o]
      BY DEF Effect
    <3>2. CASE bookings[b].status \in Occupying /\ SlotOf(bookings'[b]) = SlotOf(bookings[b])
      <4>1. ~ Overlaps(bookings[b], bookings[o])
        BY <1>1, <2>1, <3>1, <3>2 DEF CalendarInv, NoDoubleBooking
      <4>2. QED
        BY <3>1, <3>2, <4>1, OverlapsBySlot
    <3>3. CASE NoConflict(b, bookings'[b])
      BY <2>1, <3>1, <3>3 DEF NoConflict
    <3>4. QED
      BY <2>1, <3>2, <3>3 DEF Effect
  <2>2. ASSUME NEW x \in Bookings, NEW y \in Bookings, x # y, ArtistOf[x] = ArtistOf[y],
               bookings'[x].status \in Occupying, bookings'[y].status \in Occupying
        PROVE  ~ Overlaps(bookings'[x], bookings'[y])
    <3>1. CASE x = b
      BY <2>1, <2>2, <3>1
    <3>2. CASE y = b
      BY <2>1, <2>2, <3>2, OverlapsSymmetric
    <3>3. CASE x # b /\ y # b
      BY <2>2, <3>3 DEF CalendarInv, NoDoubleBooking, Effect
    <3>4. QED
      BY <3>1, <3>2, <3>3
  <2>3. QED
    BY <2>2 DEF NoDoubleBooking
<1>8. QED
  BY <1>4, <1>5, <1>6, <1>7 DEF CalendarInv

\* A session that goes on without writing a booking keeps the calendar
\* invariant if, locked or validated afterwards, it holds its artist's row, and
\* if it has found no conflict when it is validated.
LEMMA ReadStepKeeps ==
  ASSUME TypeOK, CalendarInv, NEW s \in Sessions, tx[s].pc # "idle",
         UNCHANGED bookings,
         \A t \in Sessions \ {s} : tx'[t] = tx[t],
         tx'[s].b = tx[s].b, tx'[s].op = tx[s].op,
         tx'[s].row = tx[s].row, tx'[s].form = tx[s].form,
         \A a \in Artists : lock[a] \in Sessions => lock'[a] = lock[a],
         tx'[s].pc \in {"locked", "validated"} => lock'[ArtistOf[tx[s].b]] = s,
         tx'[s].pc = "validated" => NoConflict(tx[s].b, Proposed(tx[s]))
  PROVE  CalendarInv'
<1>1. ReadsAreCurrent'
  BY DEF CalendarInv, ReadsAreCurrent
<1>2. OnlyRacesOverlap'
  BY DEF CalendarInv, OnlyRacesOverlap
<1>3. Proposed(tx'[s]) = Proposed(tx[s])
  BY DEF Proposed
<1>4. ValidatedStillFits'
  <2>1. ASSUME NEW t \in Sessions, tx'[t].pc \in {"locked", "validated"}
        PROVE  lock'[ArtistOf[tx'[t].b]] = t
    <3>1. CASE t = s
      BY <2>1, <3>1
    <3>2. CASE t # s
      <4>1. tx[t].b \in Bookings /\ lock[ArtistOf[tx[t].b]] = t
        BY <2>1, <3>2 DEF CalendarInv, ReadsAreCurrent, ValidatedStillFits
      <4>2. QED
        BY <3>2, <4>1, BookingAssumption
    <3>3. QED
      BY <3>1, <3>2
  <2>2. ASSUME NEW t \in Sessions, tx'[t].pc = "validated",
               NEW o \in Bookings \ {tx'[t].b},
               ArtistOf[o] = ArtistOf[tx'[t].b], bookings'[o].status \in Occupying
        PROVE  ~ Overlaps(Proposed(tx'[t]), bookings'[o])
    <3>1. CASE t = s
      BY <1>3, <2>2, <3>1 DEF NoConflict
    <3>2. CASE t # s
      BY <2>2, <3>2 DEF CalendarInv, ValidatedStillFits, NoConflict
    <3>3. QED
      BY <3>1, <3>2
  <2>3. QED
    BY <2>1, <2>2 DEF ValidatedStillFits, NoConflict
<1>5. NoDoubleBooking'
  BY DEF CalendarInv, NoDoubleBooking
<1>6. QED
  BY <1>1, <1>2, <1>4, <1>5 DEF CalendarInv

\* A new draft is not on the calendar, and no request has read it yet.
LEMMA CreateKeeps ==
  ASSUME TypeOK, CalendarInv, NEW b \in Bookings, CreateDraft(b)
  PROVE  CalendarInv'
<1>1. /\ \A o \in Bookings \ {b} : bookings'[o] = bookings[o]
      /\ bookings'[b].status = "draft"
      /\ SlotOf(bookings'[b]) = SlotOf(bookings[b])
      /\ bookings[b].status = "none"
      /\ UNCHANGED <<tx, lock>>
  BY DEF CreateDraft, TypeOK, Row, SlotOf
<1>2. "draft" \notin Occupying
  BY DEF Occupying
<1>3. \A op \in Unlocked : "none" \notin Admits[op]
  BY DEF Unlocked, Admits, Editable, Reschedulable, Quotable, Disputable
<1>4. ReadsAreCurrent'
  BY <1>1, <1>3 DEF CalendarInv, ReadsAreCurrent
<1>5. OnlyRacesOverlap'
  BY <1>1 DEF CalendarInv, OnlyRacesOverlap
<1>6. ValidatedStillFits'
  <2>1. ASSUME NEW t \in Sessions, tx'[t].pc = "validated"
        PROVE  NoConflict(tx[t].b, Proposed(tx[t]))'
    BY <1>1, <1>2, <2>1 DEF CalendarInv, ValidatedStillFits, NoConflict
  <2>2. QED
    BY <1>1, <2>1 DEF CalendarInv, ValidatedStillFits
<1>7. NoDoubleBooking'
  BY <1>1, <1>2 DEF CalendarInv, NoDoubleBooking
<1>8. QED
  BY <1>4, <1>5, <1>6, <1>7 DEF CalendarInv

\* A request that starts has read what is stored, beside none but its races.
LEMMA ReadKeeps ==
  ASSUME TypeOK, CalendarInv, NEW s \in Sessions, NEW op \in Offered,
         NEW b \in Bookings, NEW form, ReadBooking(s, op, b, form)
  PROVE  CalendarInv'
<1>1. /\ tx'[s].pc = "read" /\ tx'[s].op = op
      /\ tx'[s].b = b /\ tx'[s].row = bookings[b]
      /\ \A t \in Sessions \ {s} : tx'[t] = tx[t]
      /\ tx[s].pc = "idle"
      /\ UNCHANGED <<bookings, lock>>
  BY DEF ReadBooking, TypeOK, Idle
<1>2. ReadsAreCurrent'
  BY <1>1 DEF ReadBooking, CalendarInv, ReadsAreCurrent
<1>3. OnlyRacesOverlap'
  <2> SUFFICES ASSUME NEW t \in Sessions, NEW u \in Sessions, t # u,
                      tx'[t].pc # "idle", tx'[u].pc # "idle", tx'[t].b = tx'[u].b
               PROVE  {tx'[t].op, tx'[u].op} \subseteq Races
    BY DEF OnlyRacesOverlap
  <2>1. \A v \in Sessions : tx[v].b = b => {op, tx[v].op} \subseteq Races
    BY DEF ReadBooking
  <2>2. CASE t = s
    BY <1>1, <2>1, <2>2
  <2>3. CASE u = s
    BY <1>1, <2>1, <2>3
  <2>4. CASE t # s /\ u # s
    BY <1>1, <2>4 DEF CalendarInv, OnlyRacesOverlap
  <2>5. QED
    BY <2>2, <2>3, <2>4
<1>4. ValidatedStillFits'
  <2>1. ASSUME NEW t \in Sessions, tx'[t].pc \in {"locked", "validated"}
        PROVE  t # s /\ tx'[t] = tx[t]
    BY <1>1, <2>1
  <2>2. ASSUME NEW t \in Sessions, tx'[t].pc = "validated",
               NEW o \in Bookings \ {tx'[t].b},
               ArtistOf[o] = ArtistOf[tx'[t].b], bookings'[o].status \in Occupying
        PROVE  ~ Overlaps(Proposed(tx'[t]), bookings'[o])
    BY <1>1, <2>1, <2>2 DEF CalendarInv, ValidatedStillFits, NoConflict
  <2>3. QED
    BY <1>1, <2>1, <2>2 DEF CalendarInv, ValidatedStillFits, NoConflict
<1>5. NoDoubleBooking'
  BY <1>1 DEF CalendarInv, NoDoubleBooking
<1>6. QED
  BY <1>2, <1>3, <1>4, <1>5 DEF CalendarInv

\* A request that waits, checks or looks something up.
LEMMA WaitKeeps ==
  ASSUME TypeOK, CalendarInv, NEW s \in Sessions,
         \/ ReadPendingQuotes(s)
         \/ \E q \in Quotes : ReadQuote(s, q)
         \/ LockCalendar(s)
         \/ Validate(s)
  PROVE  CalendarInv'
<1>1. tx[s] \in Tx /\ tx[s].b \in Bookings \cup {None}
  BY DEF TypeOK, Tx
<1>2. CASE ReadPendingQuotes(s)
  BY <1>1, <1>2, ReadStepKeeps DEF ReadPendingQuotes, At, TypeOK, Tx
<1>3. CASE \E q \in Quotes : ReadQuote(s, q)
  <2>1. PICK q \in Quotes : ReadQuote(s, q)
    BY <1>3
  <2>2. tx' = [tx EXCEPT ![s] = [tx[s] EXCEPT !.pc = "quote_read", !.q = q]]
    BY <2>1 DEF ReadQuote
  <2>3. /\ tx'[s] = [tx[s] EXCEPT !.pc = "quote_read", !.q = q]
        /\ \A t \in Sessions \ {s} : tx'[t] = tx[t]
    BY <2>2 DEF TypeOK
  <2>4. /\ tx'[s].pc = "quote_read" /\ tx'[s].b = tx[s].b /\ tx'[s].op = tx[s].op
        /\ tx'[s].row = tx[s].row /\ tx'[s].form = tx[s].form
    BY <1>1, <2>3 DEF Tx
  <2>5. tx[s].pc # "idle" /\ UNCHANGED <<bookings, lock>>
    BY <2>1 DEF ReadQuote
  <2>6. QED
    BY <2>3, <2>4, <2>5, ReadStepKeeps
<1>4. CASE LockCalendar(s)
  <2>1. tx[s].pc # "idle"
    BY <1>4 DEF LockCalendar, At
  <2>2. ArtistOf[tx[s].b] \in Artists
    BY <2>1, BookingAssumption DEF CalendarInv, ReadsAreCurrent
  <2>3. lock'[ArtistOf[tx[s].b]] = s
    BY <1>4, <2>2 DEF LockCalendar, TypeOK
  <2>4. \A a \in Artists : lock[a] \in Sessions => lock'[a] = lock[a]
    BY <1>4, <2>2, BookingAssumption DEF LockCalendar, TypeOK
  <2>5. QED
    BY <1>1, <1>4, <2>1, <2>3, <2>4, ReadStepKeeps DEF LockCalendar, Goto, TypeOK, Tx
<1>5. CASE Validate(s)
  <2>1. tx[s].pc = "locked" /\ lock[ArtistOf[tx[s].b]] = s
    BY <1>5 DEF Validate, CalendarInv, ValidatedStillFits
  <2>2. QED
    BY <1>1, <1>5, <2>1, ReadStepKeeps DEF Validate, Fits, Goto, TypeOK, Tx
<1>6. QED
  BY <1>2, <1>3, <1>4, <1>5

\* A commit is the last step of a request.
LEMMA CommitEnds ==
  ASSUME NEW s \in Sessions, Commits(s)
  PROVE  tx[s].pc # "idle" /\ End(s)
BY DEF Commits, At, CommitPatch, CommitSubmit, CommitReview, CommitQuote,
       CommitReject, CommitAccept, CommitReschedule, CommitCancel,
       CommitDispute, CommitSettle, CommitResolve

\* Every step of the service keeps the calendar invariant.
LEMMA StepKeeps ==
  ASSUME TypeOK, CalendarInv, SafeRaces, [Next]_vars
  PROVE  CalendarInv'
<1>1. ASSUME NEW b \in Bookings, CreateDraft(b)
      PROVE  CalendarInv'
  BY <1>1, CreateKeeps
<1>2. ASSUME NEW s \in Sessions, NEW op \in Offered, NEW b \in Bookings,
             NEW form \in Forms \cup {NoForm}, ReadBooking(s, op, b, form)
      PROVE  CalendarInv'
  BY <1>2, ReadKeeps
<1>3. ASSUME NEW s \in Sessions, Advance(s)
      PROVE  CalendarInv'
  <2>1. CASE Commits(s)
    <3>1. tx[s].pc # "idle" /\ End(s)
      BY <2>1, CommitEnds
    <3>2. Effect(s)
      BY <2>1, CommitIsEffect DEF CalendarInv
    <3>3. QED
      BY <3>1, <3>2, EffectKeeps
  <2>2. QED
    BY <1>3, <2>1, WaitKeeps DEF Advance, Commits
<1>4. ASSUME NEW s \in Sessions, Refuse(s) \/ Abort(s)
      PROVE  CalendarInv'
  <2>1. tx[s].pc # "idle" /\ End(s) /\ UNCHANGED bookings
    BY <1>4 DEF Refuse, Abort
  <2>2. QED
    BY <2>1, NoteIsEffect, EffectKeeps
<1>5. CASE UNCHANGED vars
  BY <1>5 DEF vars, CalendarInv, ReadsAreCurrent, OnlyRacesOverlap,
              ValidatedStillFits, NoDoubleBooking, NoConflict
<1>6. QED
  BY <1>1, <1>2, <1>3, <1>4, <1>5 DEF Next

\* As long as no request races that writes a booking's place without the lock,
\* what a session has read stays true enough for its overlap check to count.
THEOREM CalendarStaysInOrder ==
  ASSUME SafeRaces
  PROVE  Spec => []CalendarInv
<1>1. Init => CalendarInv
  BY DEF Init, Idle, NewRow, Occupying, CalendarInv, ReadsAreCurrent,
         OnlyRacesOverlap, ValidatedStillFits, NoDoubleBooking
<1>2. TypeOK /\ CalendarInv /\ [Next]_vars => CalendarInv'
  BY StepKeeps
<1>3. QED
  BY <1>1, <1>2, TypeCorrect, PTL DEF Spec

\* Under the same condition no artist is ever booked twice for the same time,
\* however many bookings, artists and concurrent requests there are.
THEOREM NeverDoubleBooked ==
  ASSUME SafeRaces
  PROVE  Spec => []NoDoubleBooking
<1>1. CalendarInv => NoDoubleBooking
  BY DEF CalendarInv
<1>2. QED
  BY <1>1, CalendarStaysInOrder, PTL

(***************************************************************************)
(* The service implements ArtistCalendar                                   *)
(***************************************************************************)

\* The place of a booking on the calendar, or None.
Place(row) == IF row.status \in Occupying THEN SlotOf(row) ELSE None

\* An Effect is a step of the abstract calendar, or none at all.
LEMMA EffectRefines ==
  ASSUME TypeOK, TypeOK', NEW s \in Sessions, tx[s].b \in Bookings, Effect(s)
  PROVE  \/ \E b \in Bookings : Calendar!Release(b)
         \/ \E b \in Bookings, place \in Slot : Calendar!Book(b, place)
         \/ UNCHANGED [b \in Bookings |-> Place(bookings[b])]
<1> DEFINE b == tx[s].b
           booked == [x \in Bookings |-> Place(bookings[x])]
<1>1. booked' = [booked EXCEPT ![b] = Place(bookings'[b])]
  BY DEF Effect, Place, SlotOf
<1>2. CASE bookings'[b].status \notin Occupying
  <2>1. booked' = [booked EXCEPT ![b] = None]
    BY <1>1, <1>2 DEF Place
  <2>2. CASE booked[b] = None
    BY <2>1, <2>2
  <2>3. CASE booked[b] # None
    BY <2>1, <2>3 DEF Calendar!Release, Place
  <2>4. QED
    BY <2>2, <2>3
<1>3. CASE /\ bookings'[b].status \in Occupying
           /\ bookings[b].status \in Occupying
           /\ SlotOf(bookings'[b]) = SlotOf(bookings[b])
  BY <1>1, <1>3 DEF Place
<1>4. CASE /\ bookings'[b].status \in Occupying
           /\ NoConflict(b, bookings'[b])
  <2>1. PICK place \in Slot : place = SlotOf(bookings'[b])
    <3>1. bookings'[b] \in Row
      BY DEF TypeOK
    <3>2. QED
      BY <3>1 DEF Row, SlotOf, Slot
  <2>2. booked' = [booked EXCEPT ![b] = place]
    BY <1>1, <1>4, <2>1 DEF Place
  <2>3. ASSUME NEW o \in Bookings \ {b}, ArtistOf[o] = ArtistOf[b], booked[o] # None
        PROVE  ~ Overlaps(place, booked[o])
    <3>1. bookings[o].status \in Occupying /\ booked[o] = SlotOf(bookings[o])
      BY <2>3 DEF Place
    <3>2. ~ Overlaps(bookings'[b], bookings[o])
      BY <1>4, <2>3, <3>1 DEF NoConflict
    <3>3. SlotOf(place) = SlotOf(bookings'[b]) /\ SlotOf(booked[o]) = SlotOf(bookings[o])
      BY <2>1, <3>1 DEF SlotOf
    <3>4. QED
      BY <3>2, <3>3, OverlapsBySlot
  <2>4. Calendar!Fits(b, place)
    BY <2>3 DEF Calendar!Fits, Place
  <2>5. Calendar!Book(b, place)
    BY <2>2, <2>4 DEF Calendar!Book, Place
  <2>6. QED
    BY <2>5
<1>5. QED
  BY <1>2, <1>3, <1>4 DEF Effect

\* Under SafeRaces the service implements the abstract calendar.
THEOREM ServiceImplementsCalendar ==
  ASSUME SafeRaces
  PROVE  Spec => ImplementsCalendar
<1>1. Init => Calendar!Init
  BY DEF Init, NewRow, Occupying, Calendar!Init
<1>2. /\ TypeOK /\ CalendarInv
      /\ TypeOK'
      /\ [Next]_vars
      => [Calendar!Next]_[b \in Bookings |-> Place(bookings[b])]
  <2> SUFFICES ASSUME TypeOK, CalendarInv, TypeOK', [Next]_vars
               PROVE  [Calendar!Next]_[b \in Bookings |-> Place(bookings[b])]
    OBVIOUS
  <2>1. ASSUME NEW b \in Bookings, CreateDraft(b)
        PROVE  UNCHANGED [x \in Bookings |-> Place(bookings[x])]
    <3>1. /\ \A o \in Bookings \ {b} : bookings'[o] = bookings[o]
          /\ bookings'[b].status = "draft" /\ bookings[b].status = "none"
      BY <2>1 DEF CreateDraft, TypeOK, Row
    <3>2. QED
      BY <3>1 DEF Place, Occupying
  <2>2. ASSUME UNCHANGED bookings
        PROVE  UNCHANGED [x \in Bookings |-> Place(bookings[x])]
    BY <2>2
  <2>3. ASSUME NEW s \in Sessions, Commits(s)
        PROVE  [Calendar!Next]_[b \in Bookings |-> Place(bookings[b])]
    <3>1. tx[s].b \in Bookings
      BY <2>3, CommitEnds DEF CalendarInv, ReadsAreCurrent
    <3>2. Effect(s)
      BY <2>3, CommitIsEffect DEF CalendarInv
    <3>3. QED
      BY <3>1, <3>2, EffectRefines DEF Calendar!Next
  <2>4. ASSUME NEW s \in Sessions, Advance(s), ~ Commits(s)
        PROVE  UNCHANGED bookings
    BY <2>4 DEF Advance, Commits, ReadPendingQuotes, ReadQuote, LockCalendar, Validate
  <2>5. ASSUME NEW s \in Sessions, Refuse(s) \/ Abort(s)
        PROVE  UNCHANGED bookings
    BY <2>5 DEF Refuse, Abort
  <2>6. ASSUME NEW s \in Sessions, NEW op \in Offered, NEW b \in Bookings,
               NEW form \in Forms \cup {NoForm}, ReadBooking(s, op, b, form)
        PROVE  UNCHANGED bookings
    BY <2>6 DEF ReadBooking
  <2>7. CASE UNCHANGED vars
    BY <2>2, <2>7 DEF vars
  <2>8. QED
    BY <2>1, <2>2, <2>3, <2>4, <2>5, <2>6, <2>7 DEF Next
<1>3. QED
  BY <1>1, <1>2, TypeCorrect, CalendarStaysInOrder, PTL
     DEF Spec, ImplementsCalendar, Calendar!Spec, Place

(***************************************************************************)
(* Records                                                                 *)
(*                                                                         *)
(* A commit is described once (Stores), for all handlers, by the row it    *)
(* flushes; each invariant then needs one step for all commits.            *)
(***************************************************************************)

(***************************************************************************)
(* What a commit stores                                                    *)
(***************************************************************************)

\* The ways onto the calendar, or from one of its statuses to another.
Occupies == {"accept", "dispute", "resolve", "settle"}

\* The statuses a request may move its booking to.
Target ==
  [submit |-> {"requested"}, review |-> {"artist_reviewing"}, quote |-> {"quotation_sent"},
   accept |-> {"confirmed", "deposit_pending"}, reject |-> {"rejected"},
   cancel |-> {"cancelled"}, dispute |-> {"disputed"}, resolve |-> Resolutions,
   settle |-> {"deposit_paid"}]

\* The columns of the row that session s flushes.
Columns(t, new) ==
  /\ t.op # "patch" => new.service = t.row.service /\ new.contact = t.row.contact
  /\ t.op \notin {"patch", "reschedule"} => new.date = t.row.date /\ new.time = t.row.time
  /\ t.op = "reschedule" => /\ new.date = t.form.date /\ new.time = t.form.time
                            /\ t.row.status \in Occupying => t.pc = "validated"
  /\ t.op # "accept" => new.total = t.row.total /\ new.deposit = t.row.deposit
  /\ t.op = "accept" => /\ t.pc = "validated" /\ new.total = t.q
                        /\ t.row.deposit => new.deposit
                        /\ new.status = "deposit_pending" => new.deposit

\* Its status and the audit row.
Audited(s, new) ==
  LET t == tx[s] IN
  \/ /\ new.status = t.row.status
     /\ \/ t.op = "patch" /\ UNCHANGED history
        \/ t.op \in {"quote", "reschedule"} /\ Note(s)
     /\ t.op = "quote" => t.row.status \in Deciding
  \/ /\ t.op \notin {"patch", "reschedule"}
     /\ CanMove(t.row.status, new.status)
     /\ Audit(t.b, t.row.status, new.status)
     /\ new.status \in Target[t.op]

Stores(s, new) ==
  /\ Write(s, new) /\ End(s) /\ tx[s].pc # "idle"
  /\ Columns(tx[s], new) /\ Audited(s, new)

(***************************************************************************)
(* Invariants                                                              *)
(***************************************************************************)

\* A request under way is about a booking whose status it may start from.
Sound(t) ==
  t.pc # "idle" =>
    /\ t.b \in Bookings /\ t.op \in Ops
    /\ t.row.status \in Admits[t.op]
    /\ t.op = "submit" => Complete(t.row)
    /\ t.op = "reschedule" => t.form.date # None

SessionInv == OnlyRacesOverlap /\ \A s \in Sessions : Sound(tx[s])

\* Requests that write an audit row with the status they read race with nobody.
NotesAlone == Races \cap {"quote", "reschedule"} = {}

NotesAreCurrent ==
  \A s \in Sessions :
    tx[s].pc # "idle" /\ tx[s].op \in {"quote", "reschedule"} =>
      tx[s].row.status = bookings[tx[s].b].status

\* Only requests race that leave a booking's status alone.
Calm == Races \subseteq {"patch", "reschedule"}

StatusIsCurrent ==
  \A s \in Sessions :
    tx[s].pc # "idle" => tx[s].row.status = bookings[tx[s].b].status

\* What a request validated is open; the contact it read is the stored one, and the row
\* is complete unless it is a draft's or about to be cancelled.
RowInv ==
  /\ \A s \in Sessions :
       tx[s].pc # "idle" =>
         /\ tx[s].pc = "validated" => Available(ArtistOf[tx[s].b], Proposed(tx[s]))
         /\ tx[s].row.contact = bookings[tx[s].b].contact
         /\ tx[s].op \notin {"patch", "cancel"} => Complete(tx[s].row)
  /\ OccupiesOpenTime /\ SubmittedIsComplete

\* A quote somebody may accept is of the booking, and so is the quote that priced it; a
\* price or a deposit that was agreed on is never taken back.
QuoteOf(q, b) == q \in Quotes /\ quotes[q].status # "unused" /\ quotes[q].booking = b

PriceInv ==
  /\ \A s \in Sessions :
       tx[s].pc # "idle" =>
         /\ tx[s].op = "accept" /\ tx[s].pc # "read" => QuoteOf(tx[s].q, tx[s].b)
         /\ tx[s].row.total # None => bookings[tx[s].b].total # None
         /\ tx[s].row.deposit => bookings[tx[s].b].deposit
  /\ \A b \in Bookings :
       /\ bookings[b].total # None => QuoteOf(bookings[b].total, b)
       /\ bookings[b].status \in Occupying => bookings[b].total # None
       /\ bookings[b].status \in {"deposit_pending", "deposit_paid"} => bookings[b].deposit

(***************************************************************************)
(* Steps                                                                   *)
(***************************************************************************)

\* A transition that leaves the other columns alone stores the row it moved.
LEMMA MoveStores ==
  ASSUME TypeOK, NEW s \in Sessions, tx[s].pc # "idle",
         tx[s].op \notin {"patch", "reschedule", "accept"},
         NEW to \in Status, MoveTo(s, tx[s].row, to), End(s),
         to \in Target[tx[s].op]
  PROVE  \E new \in Row : Stores(s, new)
<1> DEFINE new == [tx[s].row EXCEPT !.status = to]
<1>1. tx[s].row \in Row
  BY DEF TypeOK, Tx
<1>2. /\ new \in Row /\ new.status = to
      /\ new.date = tx[s].row.date /\ new.time = tx[s].row.time
      /\ new.service = tx[s].row.service /\ new.contact = tx[s].row.contact
      /\ new.total = tx[s].row.total /\ new.deposit = tx[s].row.deposit
  BY <1>1 DEF Row
<1>3. /\ Write(s, new) /\ CanMove(tx[s].row.status, to)
      /\ Audit(tx[s].b, tx[s].row.status, to)
  BY DEF MoveTo
<1> HIDE DEF new
<1>4. Columns(tx[s], new) /\ Audited(s, new)
  BY <1>2, <1>3 DEF Columns, Audited
<1>5. QED
  BY <1>2, <1>3, <1>4 DEF Stores

\* Writing back what was read changes nothing.
LEMMA WriteBack ==
  ASSUME TypeOK, NEW s \in Sessions, UNCHANGED bookings, tx[s].b \in Bookings
  PROVE  Write(s, tx[s].row)
<1>1. \A x \in Row : Flush(x, tx[s].row, tx[s].row) = x
  BY DEF Flush, Column, Row
<1>2. Flush(bookings[tx[s].b], tx[s].row, tx[s].row) = bookings[tx[s].b]
  BY <1>1 DEF TypeOK
<1>3. QED
  BY <1>2 DEF Write, TypeOK

\* Every commit is described by the row it flushes.
LEMMA CommitStores ==
  ASSUME TypeOK, NEW s \in Sessions, Sound(tx[s]), Commits(s)
  PROVE  \E new \in Row : Stores(s, new)
<1> DEFINE t == tx[s]
<1>0. /\ t \in Tx /\ t.row \in Row /\ t.form \in Form /\ t.b \in Bookings
      /\ t.pc # "idle" /\ End(s)
  BY CommitEnds DEF TypeOK, Tx, Sound
<1>1. CASE CommitPatch(s)
  <2> DEFINE new == [t.row EXCEPT !.date = t.form.date, !.time = t.form.time,
                                  !.service = t.form.service, !.contact = t.form.contact]
  <2>1. /\ new \in Row /\ new.status = t.row.status
        /\ new.total = t.row.total /\ new.deposit = t.row.deposit
    BY <1>0 DEF Row, Form
  <2>2. Write(s, new) /\ UNCHANGED history /\ t.op = "patch"
    BY <1>1 DEF CommitPatch, At
  <2> HIDE DEF new
  <2>3. QED
    BY <1>0, <2>1, <2>2 DEF Stores, Columns, Audited
<1>2. CASE CommitSubmit(s) \/ CommitReview(s) \/ CommitReject(s) \/ CommitCancel(s)
  <2>1. CASE CommitSubmit(s)
    BY <1>0, <2>1, MoveStores DEF CommitSubmit, At, Status, Target
  <2>2. CASE CommitReview(s)
    BY <1>0, <2>2, MoveStores DEF CommitReview, At, Status, Target
  <2>3. CASE CommitReject(s)
    BY <1>0, <2>3, MoveStores DEF CommitReject, At, Status, Target
  <2>4. CASE CommitCancel(s)
    BY <1>0, <2>4, MoveStores DEF CommitCancel, At, Status, Target
  <2>5. QED
    BY <1>2, <2>1, <2>2, <2>3, <2>4
<1>3. CASE CommitDispute(s) \/ CommitSettle(s)
  <2>1. CASE CommitDispute(s)
    BY <1>0, <2>1, MoveStores DEF CommitDispute, At, Status, Target
  <2>2. CASE CommitSettle(s)
    BY <1>0, <2>2, MoveStores DEF CommitSettle, At, Status, Target
  <2>3. QED
    BY <1>3, <2>1, <2>2
<1>4. CASE \E to \in Resolutions : CommitResolve(s, to)
  <2>1. PICK to \in Resolutions : CommitResolve(s, to)
    BY <1>4
  <2>2. to \in Status
    BY DEF Resolutions, Status
  <2>3. QED
    BY <1>0, <2>1, <2>2, MoveStores DEF CommitResolve, At, Target
<1>5. CASE \E q \in Quotes : CommitQuote(s, q)
  <2>1. PICK q \in Quotes : CommitQuote(s, q)
    BY <1>5
  <2>2. t.op = "quote"
    BY <2>1 DEF CommitQuote, At
  <2>3. CASE Note(s) /\ UNCHANGED bookings /\ t.row.status \in Deciding
    <3>1. Write(s, t.row)
      BY <1>0, <2>3, WriteBack
    <3>2. Columns(t, t.row) /\ Audited(s, t.row)
      BY <2>2, <2>3 DEF Columns, Audited
    <3>3. QED
      BY <1>0, <3>1, <3>2 DEF Stores
  <2>4. CASE MoveTo(s, t.row, "quotation_sent")
    BY <1>0, <2>2, <2>4, MoveStores DEF Status, Target
  <2>5. QED
    BY <2>1, <2>3, <2>4 DEF CommitQuote
<1>6. CASE CommitReschedule(s)
  <2> DEFINE new == [t.row EXCEPT !.date = t.form.date, !.time = t.form.time]
  <2>1. /\ new \in Row /\ new.status = t.row.status
        /\ new.date = t.form.date /\ new.time = t.form.time
        /\ new.service = t.row.service /\ new.contact = t.row.contact
        /\ new.total = t.row.total /\ new.deposit = t.row.deposit
    BY <1>0 DEF Row, Form
  <2>2. /\ Write(s, new) /\ Note(s) /\ t.op = "reschedule"
        /\ t.row.status \in Occupying => t.pc = "validated"
    BY <1>6 DEF CommitReschedule, Proposed, At
  <2> HIDE DEF new
  <2>3. QED
    BY <1>0, <2>1, <2>2 DEF Stores, Columns, Audited
<1>7. CASE CommitAccept(s)
  <2> DEFINE asks == t.row.service \in DepositRequired
             to == IF asks THEN "deposit_pending" ELSE "confirmed"
             new == [t.row EXCEPT !.total = t.q, !.deposit = IF asks THEN TRUE ELSE @,
                                  !.status = to]
  <2>1. t.op = "accept" /\ t.pc = "validated"
    BY <1>7 DEF CommitAccept, At
  <2>2. Write(s, new) /\ CanMove(t.row.status, to) /\ Audit(t.b, t.row.status, to)
    BY <1>7 DEF CommitAccept, MoveTo
  <2>3. /\ new \in Row /\ new.status = to
        /\ new.date = t.row.date /\ new.time = t.row.time
        /\ new.service = t.row.service /\ new.contact = t.row.contact
        /\ new.total = t.q
        /\ t.row.deposit => new.deposit
        /\ to = "deposit_pending" => new.deposit
        /\ to \in Target["accept"]
    <3>1. t.row \in Row /\ t.q \in Quotes \cup {None} /\ to \in Status
      BY <1>0 DEF Tx, Status
    <3>2. new \in Row
      BY <3>1 DEF Row
    <3>3. /\ new.status = to /\ new.date = t.row.date /\ new.time = t.row.time
          /\ new.service = t.row.service /\ new.contact = t.row.contact
          /\ new.total = t.q /\ new.deposit = IF asks THEN TRUE ELSE t.row.deposit
      BY <3>1 DEF Row
    <3>4. to \in Target["accept"]
      BY DEF Target
    <3>5. QED
      BY <3>2, <3>3, <3>4
  <2> HIDE DEF new, to
  <2>4. QED
    BY <1>0, <2>1, <2>2, <2>3 DEF Stores, Columns, Audited
<1>8. QED
  BY <1>1, <1>2, <1>3, <1>4, <1>5, <1>6, <1>7 DEF Commits

Others(s) == \A u \in Sessions \ {s} : tx'[u] = tx[u]

\* A request that waits, checks or looks something up: no table changes.
Waits(s) ==
  LET t == tx[s]  u == tx'[s] IN
  /\ t.pc # "idle" /\ u.pc \notin {"idle", "read"} /\ Others(s)
  /\ u.b = t.b /\ u.op = t.op /\ u.row = t.row /\ u.form = t.form
  /\ UNCHANGED <<bookings, quotes, history>>
  /\ u.pc = "pending_read" => u.op = "quote" /\ u.pend = QuotesOf(t.b, "pending")
  /\ t.op \in {"accept", "reject"} =>
       u.q \in QuotesOf(t.b, "pending") \/ (t.pc # "read" /\ u.q = t.q)
  /\ u.pc = "validated" => Fits(s)

\* A request that is refused or lost.
Leaves(s) == tx[s].pc # "idle" /\ End(s) /\ UNCHANGED <<bookings, quotes, history>>

\* What comes of a request's session when it is over.
LEMMA Ended ==
  ASSUME TypeOK, NEW s \in Sessions, End(s)
  PROVE  tx'[s] = Idle /\ tx'[s].pc = "idle" /\ Others(s)
BY DEF End, TypeOK, Idle, Others

\* What a request that begins has read.
LEMMA Begun ==
  ASSUME TypeOK, NEW s \in Sessions, NEW op, NEW b, NEW form, ReadBooking(s, op, b, form)
  PROVE  /\ tx'[s].pc = "read" /\ tx'[s].op = op /\ tx'[s].b = b
         /\ tx'[s].row = bookings[b] /\ tx'[s].form = form
         /\ Others(s) /\ tx[s].pc = "idle" /\ UNCHANGED <<bookings, quotes, history>>
BY DEF ReadBooking, TypeOK, Idle, Others

\* A step that is no commit and no end only goes on.
LEMMA WaitingSteps ==
  ASSUME TypeOK, NEW s \in Sessions,
         \/ ReadPendingQuotes(s)
         \/ \E q \in Quotes : ReadQuote(s, q)
         \/ LockCalendar(s) \/ Validate(s)
  PROVE  Waits(s)
<1> DEFINE t == tx[s]
<1>0. t \in Tx /\ DOMAIN tx = Sessions
  BY DEF TypeOK
<1>1. CASE ReadPendingQuotes(s)
  <2> DEFINE u == [t EXCEPT !.pc = "pending_read", !.pend = QuotesOf(t.b, "pending")]
  <2>1. tx' = [tx EXCEPT ![s] = u]
    BY <1>1 DEF ReadPendingQuotes, QuotesOf
  <2>2. /\ u.pc = "pending_read" /\ u.b = t.b /\ u.op = t.op /\ u.row = t.row
        /\ u.form = t.form /\ u.pend = QuotesOf(t.b, "pending")
    BY <1>0 DEF Tx
  <2>3. t.pc = "read" /\ t.op = "quote" /\ UNCHANGED <<bookings, quotes, history>>
    BY <1>1 DEF ReadPendingQuotes, At
  <2> HIDE DEF u
  <2>4. tx'[s] = u /\ Others(s)
    BY <1>0, <2>1 DEF Others
  <2>5. QED
    BY <2>2, <2>3, <2>4 DEF Waits
<1>2. ASSUME NEW q \in Quotes, ReadQuote(s, q)
      PROVE  Waits(s)
  <2> DEFINE u == [t EXCEPT !.pc = "quote_read", !.q = q]
  <2>1. tx' = [tx EXCEPT ![s] = u]
    BY <1>2 DEF ReadQuote
  <2>2. /\ u.pc = "quote_read" /\ u.b = t.b /\ u.op = t.op /\ u.row = t.row
        /\ u.form = t.form /\ u.q = q
    BY <1>0 DEF Tx
  <2>3. t.pc = "read" /\ q \in QuotesOf(t.b, "pending") /\ UNCHANGED <<bookings, quotes, history>>
    BY <1>2 DEF ReadQuote, QuotesOf
  <2> HIDE DEF u
  <2>4. tx'[s] = u /\ Others(s)
    BY <1>0, <2>1 DEF Others
  <2>5. QED
    BY <2>2, <2>3, <2>4 DEF Waits
<1>3. ASSUME NEW pc \in {"locked", "validated"}, Goto(s, pc),
             UNCHANGED <<bookings, quotes, history>>, t.pc # "idle",
             t.op \in {"accept", "reject"} => t.pc # "read",
             pc = "validated" => Fits(s)
      PROVE  Waits(s)
  <2> DEFINE u == [t EXCEPT !.pc = pc]
  <2>1. tx'[s] = u /\ Others(s)
    BY <1>0, <1>3 DEF Goto, Others
  <2>2. /\ u.pc = pc /\ u.b = t.b /\ u.op = t.op /\ u.row = t.row
        /\ u.form = t.form /\ u.q = t.q
    BY <1>0 DEF Tx
  <2> HIDE DEF u
  <2>3. QED
    BY <1>3, <2>1, <2>2 DEF Waits
<1>4. CASE LockCalendar(s)
  BY <1>3, <1>4 DEF LockCalendar, At
<1>5. CASE Validate(s)
  BY <1>3, <1>5 DEF Validate
<1>6. QED
  BY <1>1, <1>2, <1>4, <1>5

\* The kinds of steps there are.
LEMMA StepKinds ==
  ASSUME TypeOK, [Next]_vars
  PROVE  \/ UNCHANGED vars
         \/ \E b \in Bookings : CreateDraft(b)
         \/ \E s \in Sessions, op \in Offered, b \in Bookings, form \in Forms \cup {NoForm} :
              ReadBooking(s, op, b, form)
         \/ \E s \in Sessions : Waits(s) \/ Leaves(s) \/ Commits(s)
<1>1. ASSUME NEW s \in Sessions, Advance(s)
      PROVE  Waits(s) \/ Commits(s)
  BY <1>1, WaitingSteps DEF Advance, Commits
<1>2. ASSUME NEW s \in Sessions, Refuse(s) \/ Abort(s)
      PROVE  Leaves(s)
  BY <1>2 DEF Refuse, Abort, Leaves
<1>3. QED
  BY <1>1, <1>2 DEF Next

(***************************************************************************)
(* Requests                                                                *)
(***************************************************************************)

\* Requests under way stay sound, and beside none but their races.
LEMMA SessionsStep ==
  ASSUME TypeOK, SessionInv, [Next]_vars
  PROVE  SessionInv'
<1>1. CASE UNCHANGED vars
  BY <1>1 DEF vars, SessionInv, OnlyRacesOverlap
<1>2. ASSUME NEW b \in Bookings, CreateDraft(b)
      PROVE  SessionInv'
  BY <1>2 DEF CreateDraft, SessionInv, OnlyRacesOverlap
<1>3. ASSUME NEW s \in Sessions, NEW op \in Offered, NEW b \in Bookings,
             NEW form \in Forms \cup {NoForm}, ReadBooking(s, op, b, form)
      PROVE  SessionInv'
  <2>1. /\ tx'[s].pc = "read" /\ tx'[s].op = op /\ tx'[s].b = b
        /\ tx'[s].row = bookings[b] /\ tx'[s].form = form /\ Others(s)
    BY <1>3, Begun
  <2>2. /\ \A u \in Sessions : tx[u].b = b => {op, tx[u].op} \subseteq Races
        /\ bookings[b].status \in Admits[op]
        /\ op = "submit" => Complete(bookings[b])
        /\ op = "reschedule" => form.date # None
    BY <1>3 DEF ReadBooking
  <2>3. Sound(tx'[s])
    BY <2>1, <2>2, BookingAssumption DEF Sound
  <2>4. \A u \in Sessions : Sound(tx'[u])
    BY <2>1, <2>3 DEF SessionInv, Others
  <2>5. OnlyRacesOverlap'
    BY <2>1, <2>2 DEF SessionInv, OnlyRacesOverlap, Others
  <2>6. QED
    BY <2>4, <2>5 DEF SessionInv
<1>4. ASSUME NEW s \in Sessions, Waits(s)
      PROVE  SessionInv'
  <2>1. Sound(tx'[s])
    BY <1>4 DEF Waits, SessionInv, Sound
  <2>2. \A u \in Sessions : Sound(tx'[u])
    BY <1>4, <2>1 DEF Waits, Others, SessionInv
  <2>3. OnlyRacesOverlap'
    BY <1>4 DEF Waits, Others, SessionInv, OnlyRacesOverlap
  <2>4. QED
    BY <2>2, <2>3 DEF SessionInv
<1>5. ASSUME NEW s \in Sessions, End(s)
      PROVE  SessionInv'
  <2>1. tx'[s].pc = "idle" /\ Others(s)
    BY <1>5, Ended
  <2>2. \A u \in Sessions : Sound(tx'[u])
    BY <2>1 DEF Others, SessionInv, Sound
  <2>3. OnlyRacesOverlap'
    BY <2>1 DEF Others, SessionInv, OnlyRacesOverlap
  <2>4. QED
    BY <2>2, <2>3 DEF SessionInv
<1>6. QED
  BY <1>1, <1>2, <1>3, <1>4, <1>5, StepKinds, CommitEnds DEF Leaves

\* In every reachable state, whatever races are allowed.
LEMMA SessionsStay == Spec => [](TypeOK /\ SessionInv)
<1>1. Init => SessionInv
  BY DEF Init, SessionInv, OnlyRacesOverlap, Sound, Idle
<1>2. TypeOK /\ SessionInv /\ [Next]_vars => SessionInv'
  BY SessionsStep
<1>3. QED
  BY <1>1, <1>2, TypeCorrect, PTL DEF Spec

\* What a commit leaves in the bookings table, column by column.
LEMMA Stored ==
  ASSUME TypeOK, NEW s \in Sessions, Sound(tx[s]), NEW new \in Row, Stores(s, new)
  PROVE  LET t == tx[s]  x == bookings[t.b]  y == bookings'[t.b] IN
         /\ t.b \in Bookings /\ \A o \in Bookings : o # t.b => bookings'[o] = bookings[o]
         /\ x \in Row /\ t.row \in Row /\ y \in Row
         /\ y.status = Column(x.status, t.row.status, new.status)
         /\ y.date = Column(x.date, t.row.date, new.date)
         /\ y.time = Column(x.time, t.row.time, new.time)
         /\ y.service = Column(x.service, t.row.service, new.service)
         /\ y.contact = Column(x.contact, t.row.contact, new.contact)
         /\ y.total = Column(x.total, t.row.total, new.total)
         /\ y.deposit = Column(x.deposit, t.row.deposit, new.deposit)
<1> DEFINE t == tx[s]
<1>1. t.b \in Bookings /\ bookings[t.b] \in Row /\ t.row \in Row
  BY DEF Sound, Stores, TypeOK, Tx
<1>2. bookings' = [bookings EXCEPT ![t.b] = Flush(@, t.row, new)]
  BY DEF Stores, Write
<1>3. /\ bookings'[t.b] = Flush(bookings[t.b], t.row, new)
      /\ \A o \in Bookings : o # t.b => bookings'[o] = bookings[o]
  BY <1>1, <1>2 DEF TypeOK
<1>4. Flush(bookings[t.b], t.row, new) \in Row
  BY <1>1, FlushType
<1>5. QED
  BY <1>1, <1>3, <1>4 DEF Flush

\* A status that is moved changes, and one that is kept does not.
LEMMA StatusStored ==
  ASSUME TypeOK, NEW s \in Sessions, Sound(tx[s]), NEW new \in Row, Stores(s, new)
  PROVE  LET b == tx[s].b IN
         /\ CanMove(tx[s].row.status, new.status) => bookings'[b].status = new.status
         /\ new.status = tx[s].row.status => bookings'[b].status = bookings[b].status
<1>1. tx[s].row.status \in Status
  BY DEF TypeOK, Tx, Row
<1>2. QED
  BY <1>1, Stored, NoSelfLoop DEF Column

\* Which requests lead where.
LEMMA TargetFacts ==
  /\ \A op \in Ops \ {"patch", "reschedule"} : \A st \in Target[op] :
       st \in Occupying => op \in Occupies
  /\ Target["cancel"] = {"cancelled"}
  /\ \A op \in {"dispute", "resolve", "settle"} :
       Target[op] \cap {"deposit_pending", "deposit_paid"} =
         IF op = "settle" THEN {"deposit_paid"} ELSE {}
BY DEF Ops, Target, Occupying, Occupies, Resolutions

(***************************************************************************)
(* The audit trail                                                         *)
(***************************************************************************)

\* Requests that write notes go on knowing the status when they race with nobody.
LEMMA NotesStep ==
  ASSUME TypeOK, SessionInv, NotesAlone, NotesAreCurrent, [Next]_vars
  PROVE  NotesAreCurrent'
<1>1. CASE UNCHANGED vars
  BY <1>1 DEF vars, NotesAreCurrent
<1>2. ASSUME NEW b \in Bookings, CreateDraft(b)
      PROVE  NotesAreCurrent'
  <2>1. /\ bookings[b].status = "none" /\ UNCHANGED tx
        /\ \A o \in Bookings : o # b => bookings'[o] = bookings[o]
    BY <1>2 DEF CreateDraft, TypeOK
  <2>2. \A op \in {"quote", "reschedule"} : "none" \notin Admits[op]
    BY DEF Admits, Reschedulable, Quotable
  <2>3. QED
    BY <2>1, <2>2 DEF NotesAreCurrent, SessionInv, Sound
<1>3. ASSUME NEW s \in Sessions, NEW op \in Offered, NEW b \in Bookings,
             NEW form \in Forms \cup {NoForm}, ReadBooking(s, op, b, form)
      PROVE  NotesAreCurrent'
  BY <1>3, Begun DEF Others, NotesAreCurrent
<1>4. ASSUME NEW s \in Sessions, Waits(s)
      PROVE  NotesAreCurrent'
  BY <1>4 DEF Waits, Others, NotesAreCurrent
<1>5. ASSUME NEW s \in Sessions, Leaves(s)
      PROVE  NotesAreCurrent'
  <2>1. tx'[s].pc = "idle" /\ Others(s) /\ UNCHANGED bookings
    BY <1>5, Ended DEF Leaves
  <2>2. QED
    BY <2>1 DEF Others, NotesAreCurrent
<1>6. ASSUME NEW s \in Sessions, Commits(s)
      PROVE  NotesAreCurrent'
  <2> DEFINE b == tx[s].b
  <2>1. /\ b \in Bookings /\ \A o \in Bookings : o # b => bookings'[o] = bookings[o]
        /\ tx[s].pc # "idle" /\ tx'[s].pc = "idle" /\ Others(s)
    BY <1>6, CommitStores, Stored, CommitEnds, Ended DEF SessionInv
  <2>2. ASSUME NEW u \in Sessions, tx'[u].pc # "idle", tx'[u].op \in {"quote", "reschedule"}
        PROVE  tx'[u].row.status = bookings'[tx'[u].b].status
    <3>1. u # s /\ tx'[u] = tx[u]
      BY <2>1, <2>2 DEF Others
    <3>2. tx[u].b # b
      BY <2>1, <2>2, <3>1 DEF SessionInv, OnlyRacesOverlap, NotesAlone
    <3>3. tx[u].b \in Bookings
      BY <2>2, <3>1 DEF SessionInv, Sound
    <3>4. QED
      BY <2>1, <2>2, <3>1, <3>2, <3>3 DEF NotesAreCurrent
  <2>3. QED
    BY <2>2 DEF NotesAreCurrent
<1>7. QED
  BY <1>1, <1>2, <1>3, <1>4, <1>5, <1>6, StepKinds

\* Every step keeps the newest audit row in step with the status.
LEMMA AuditStep ==
  ASSUME TypeOK, SessionInv, NotesAreCurrent, AuditMatchesStatus, [Next]_vars
  PROVE  AuditMatchesStatus'
<1>1. ASSUME UNCHANGED <<bookings, history>>
      PROVE  AuditMatchesStatus'
  BY <1>1 DEF AuditMatchesStatus
<1>2. ASSUME NEW b \in Bookings, CreateDraft(b)
      PROVE  AuditMatchesStatus'
  BY <1>2 DEF CreateDraft, Audit, TypeOK, Row, AuditMatchesStatus
<1>3. ASSUME NEW s \in Sessions, Commits(s)
      PROVE  AuditMatchesStatus'
  <2> DEFINE b == tx[s].b
  <2>1. PICK new \in Row : Stores(s, new)
    BY <1>3, CommitStores DEF SessionInv
  <2>2. /\ b \in Bookings /\ \A o \in Bookings : o # b => bookings'[o] = bookings[o]
        /\ CanMove(tx[s].row.status, new.status) => bookings'[b].status = new.status
        /\ new.status = tx[s].row.status => bookings'[b].status = bookings[b].status
    BY <2>1, Stored, StatusStored DEF SessionInv
  <2>3. tx[s].pc # "idle" /\ Audited(s, new)
    BY <2>1 DEF Stores
  <2>4. /\ history'[b].to = bookings'[b].status
        /\ \A o \in Bookings : o # b => history'[o] = history[o]
    <3>1. CASE new.status = tx[s].row.status /\ UNCHANGED history
      BY <2>2, <3>1 DEF AuditMatchesStatus
    <3>2. CASE /\ new.status = tx[s].row.status
               /\ tx[s].op \in {"quote", "reschedule"} /\ Note(s)
      BY <2>2, <2>3, <3>2 DEF NotesAreCurrent, Note, Audit, TypeOK
    <3>3. CASE CanMove(tx[s].row.status, new.status) /\ Audit(b, tx[s].row.status, new.status)
      BY <2>2, <3>3 DEF Audit, TypeOK
    <3>4. QED
      BY <2>3, <3>1, <3>2, <3>3 DEF Audited
  <2>5. QED
    BY <2>2, <2>4 DEF AuditMatchesStatus
<1>4. QED
  BY <1>1, <1>2, <1>3, StepKinds DEF vars, ReadBooking, Waits, Leaves

(***************************************************************************)
(* The audit trail where no status changes under a request                 *)
(***************************************************************************)

\* Every step keeps what requests know of the status, if only requests race that do not
\* change it.
LEMMA CalmStep ==
  ASSUME TypeOK, SessionInv, Calm, StatusIsCurrent, [Next]_vars
  PROVE  StatusIsCurrent'
<1>1. CASE UNCHANGED vars
  BY <1>1 DEF vars, StatusIsCurrent
<1>2. ASSUME NEW b \in Bookings, CreateDraft(b)
      PROVE  StatusIsCurrent'
  <2>1. /\ bookings[b].status = "none" /\ UNCHANGED tx
        /\ \A o \in Bookings : o # b => bookings'[o] = bookings[o]
    BY <1>2 DEF CreateDraft, TypeOK
  <2>2. \A op \in Ops : "none" \notin Admits[op]
    BY DEF Ops, Admits, Editable, Reschedulable, Quotable, Disputable, Deciding, CanMove,
           Transitions, Status
  <2>3. QED
    BY <2>1, <2>2 DEF StatusIsCurrent, SessionInv, Sound
<1>3. ASSUME NEW s \in Sessions, NEW op \in Offered, NEW b \in Bookings,
             NEW form \in Forms \cup {NoForm}, ReadBooking(s, op, b, form)
      PROVE  StatusIsCurrent'
  BY <1>3, Begun DEF Others, StatusIsCurrent
<1>4. ASSUME NEW s \in Sessions, Waits(s)
      PROVE  StatusIsCurrent'
  BY <1>4 DEF Waits, Others, StatusIsCurrent
<1>5. ASSUME NEW s \in Sessions, Leaves(s)
      PROVE  StatusIsCurrent'
  <2>1. tx'[s].pc = "idle" /\ Others(s) /\ UNCHANGED bookings
    BY <1>5, Ended DEF Leaves
  <2>2. QED
    BY <2>1 DEF Others, StatusIsCurrent
<1>6. ASSUME NEW s \in Sessions, Commits(s)
      PROVE  StatusIsCurrent'
  <2> DEFINE b == tx[s].b
  <2>1. PICK new \in Row : Stores(s, new)
    BY <1>6, CommitStores DEF SessionInv
  <2>2. /\ b \in Bookings /\ \A o \in Bookings : o # b => bookings'[o] = bookings[o]
        /\ new.status = tx[s].row.status => bookings'[b].status = bookings[b].status
    BY <2>1, Stored, StatusStored DEF SessionInv
  <2>3. /\ tx[s].pc # "idle" /\ tx'[s].pc = "idle" /\ Others(s)
        /\ Audited(s, new) /\ Columns(tx[s], new)
    BY <2>1, Ended DEF Stores
  <2>4. ASSUME NEW u \in Sessions, tx'[u].pc # "idle"
        PROVE  tx'[u].row.status = bookings'[tx'[u].b].status
    <3>1. u # s /\ tx'[u] = tx[u] /\ tx[u].b \in Bookings
      BY <2>3, <2>4 DEF Others, SessionInv, Sound
    <3>2. CASE tx[u].b = b
      <4>1. tx[s].op \in {"patch", "reschedule"}
        BY <2>3, <2>4, <3>1, <3>2 DEF SessionInv, OnlyRacesOverlap, Calm
      <4>2. new.status = tx[s].row.status
        BY <2>3, <4>1 DEF Audited, Columns
      <4>3. QED
        BY <2>2, <2>4, <3>1, <3>2, <4>2 DEF StatusIsCurrent
    <3>3. CASE tx[u].b # b
      BY <2>2, <2>4, <3>1, <3>3 DEF StatusIsCurrent
    <3>4. QED
      BY <3>2, <3>3
  <2>5. QED
    BY <2>4 DEF StatusIsCurrent
<1>7. QED
  BY <1>1, <1>2, <1>3, <1>4, <1>5, <1>6, StepKinds

\* In every reachable state.
LEMMA CalmStays ==
  ASSUME Calm
  PROVE  Spec => [](TypeOK /\ SessionInv /\ StatusIsCurrent)
<1>1. Init => StatusIsCurrent
  BY DEF Init, Idle, StatusIsCurrent
<1>2. TypeOK /\ SessionInv /\ StatusIsCurrent /\ [Next]_vars => StatusIsCurrent'
  BY CalmStep
<1>3. QED
  BY <1>1, <1>2, SessionsStay, PTL DEF Spec

\* The newest audit row of a booking names its status, if the requests that write a note,
\* which repeats the status they read, run beside none on the same booking, or beside
\* none that changes the status.
THEOREM AuditNamesStatus ==
  ASSUME NotesAlone \/ Calm
  PROVE  Spec => []AuditMatchesStatus
<1>1. Init => AuditMatchesStatus
  BY DEF Init, NewRow, AuditMatchesStatus
<1>2. TypeOK /\ SessionInv /\ NotesAreCurrent /\ AuditMatchesStatus /\ [Next]_vars
        => AuditMatchesStatus'
  BY AuditStep
<1>3. CASE NotesAlone
  <2>1. Init => NotesAreCurrent
    BY DEF Init, Idle, NotesAreCurrent
  <2>2. TypeOK /\ SessionInv /\ NotesAreCurrent /\ [Next]_vars => NotesAreCurrent'
    BY <1>3, NotesStep
  <2>3. QED
    BY <1>1, <1>2, <2>1, <2>2, SessionsStay, PTL DEF Spec
<1>4. CASE Calm
  <2>1. StatusIsCurrent => NotesAreCurrent
    BY DEF StatusIsCurrent, NotesAreCurrent
  <2>2. Spec => [](TypeOK /\ SessionInv /\ StatusIsCurrent)
    BY <1>4, CalmStays
  <2>3. QED
    BY <1>1, <1>2, <2>1, <2>2, PTL DEF Spec
<1>5. QED
  BY <1>3, <1>4

(***************************************************************************)
(* Open time and complete forms                                            *)
(***************************************************************************)

\* Whether a place is open depends on the place alone.
LEMMA AvailableBySlot ==
  ASSUME NEW a, NEW x, NEW y, x.date = y.date, x.time = y.time, x.service = y.service
  PROVE  Available(a, x) <=> Available(a, y)
BY DEF Available

\* Requests on booking b beside a commit on it are ones the lock makes harmless.
LEMMA BesideCommit ==
  ASSUME TypeOK, SessionInv, SafeRaces, NEW s \in Sessions, NEW u \in Sessions, u # s,
         tx[s].pc # "idle", tx[u].pc # "idle", tx[s].b = tx[u].b
  PROVE  tx[s].op \notin Unlocked
<1>1. {tx[s].op, tx[u].op} \subseteq Races
  BY DEF SessionInv, OnlyRacesOverlap
<1>2. QED
  BY <1>1 DEF SafeRaces

\* A commit leaves its booking open where it occupies the calendar, and complete.
LEMMA CommitKeepsRow ==
  ASSUME TypeOK, SessionInv, CalendarInv, SafeRaces, RowInv,
         NEW s \in Sessions, NEW new \in Row, Stores(s, new)
  PROVE  LET b == tx[s].b  y == bookings'[b] IN
         /\ y.status \in Occupying => Available(ArtistOf[b], y)
         /\ y.status \notin {"none", "draft", "cancelled"} => Complete(y)
<1> DEFINE t == tx[s]  b == t.b  x == bookings[b]  y == bookings'[b]
<1>1. /\ t.pc # "idle" /\ b \in Bookings /\ t.op \in Ops
      /\ t.row.status \in Admits[t.op]
      /\ t.op = "reschedule" => t.form.date # None
      /\ Audited(s, new) /\ Columns(t, new)
  BY DEF Stores, SessionInv, Sound
<1>2. /\ x.date = t.row.date /\ x.time = t.row.time /\ x.service = t.row.service
      /\ t.op \in Unlocked => t.row.status = x.status
      /\ x.contact = t.row.contact
      /\ t.pc = "validated" => Available(ArtistOf[b], Proposed(t))
      /\ t.op \notin {"patch", "cancel"} => Complete(t.row)
      /\ x.status \in Occupying => Available(ArtistOf[b], x)
  BY <1>1 DEF CalendarInv, ReadsAreCurrent, SlotOf, RowInv, OccupiesOpenTime
<1>3. /\ y.date = new.date /\ y.time = new.time /\ y.service = new.service
      /\ y.contact = new.contact
      /\ new.status = t.row.status => y.status = x.status
      /\ CanMove(t.row.status, new.status) => y.status = new.status
  BY <1>2, Stored, StatusStored DEF SessionInv, Column
<1>4. CASE t.op = "patch"
  <2>1. y.status = "draft"
    BY <1>1, <1>2, <1>3, <1>4, AdmitsFacts DEF Audited, Unlocked
  <2>2. QED
    BY <2>1 DEF Occupying
<1>5. CASE t.op = "reschedule"
  <2>1. y.status = x.status /\ t.row.status = x.status
    BY <1>1, <1>2, <1>3, <1>5 DEF Audited, Unlocked
  <2>2. /\ Proposed(t).date = y.date /\ Proposed(t).time = y.time
        /\ Proposed(t).service = y.service
    <3>1. t.row \in Row
      BY DEF TypeOK, Tx
    <3>2. QED
      BY <1>1, <1>3, <1>5, <3>1 DEF Proposed, Columns, Row
  <2>3. y.status \in Occupying => Available(ArtistOf[b], y)
    BY <1>1, <1>2, <1>5, <2>1, <2>2, AvailableBySlot DEF Columns
  <2>4. Complete(y)
    BY <1>1, <1>2, <1>3, <1>5 DEF Columns, Complete
  <2>5. QED
    BY <2>3, <2>4
<1>6. CASE t.op \notin {"patch", "reschedule"}
  <2>1. /\ y.date = t.row.date /\ y.time = t.row.time
        /\ y.service = t.row.service /\ y.contact = t.row.contact
    BY <1>1, <1>3, <1>6 DEF Columns
  <2>2. ASSUME y.status \in Occupying
        PROVE  Available(ArtistOf[b], y)
    <3>1. CASE x.status \in Occupying
      BY <1>2, <2>1, <3>1, AvailableBySlot
    <3>2. CASE t.op = "accept"
      <4>1. Proposed(t) = t.row /\ t.pc = "validated"
        BY <1>1, <3>2 DEF Proposed, Columns
      <4>2. QED
        BY <1>2, <2>1, <4>1, AvailableBySlot
    <3>3. CASE x.status \notin Occupying /\ t.op # "accept"
      <4>1. CanMove(t.row.status, new.status) /\ t.op \in {"dispute", "resolve", "settle"}
        BY <1>1, <1>3, <1>6, <2>2, <3>3, TargetFacts DEF Audited, Occupies
      <4>2. t.row.status = x.status /\ t.row.status \in Occupying
        BY <1>1, <1>2, <4>1, AdmitsFacts DEF Unlocked
      <4>3. QED
        BY <3>3, <4>2
    <3>4. QED
      BY <3>1, <3>2, <3>3
  <2>3. ASSUME y.status # "cancelled"
        PROVE  Complete(y)
    <3>1. t.op # "cancel"
      <4>1. CASE t.op = "cancel"
        <5>1. CanMove(t.row.status, new.status) /\ new.status = "cancelled"
          BY <1>1, <4>1, TargetFacts DEF Audited
        <5>2. QED
          BY <1>3, <2>3, <5>1
      <4>2. QED
        BY <4>1
    <3>2. QED
      BY <1>2, <1>6, <2>1, <3>1 DEF Complete
  <2>4. QED
    BY <2>2, <2>3
<1>7. QED
  BY <1>4, <1>5, <1>6

\* Every step keeps what is stored open and complete.
LEMMA RowStep ==
  ASSUME TypeOK, SessionInv, CalendarInv, SafeRaces, RowInv, [Next]_vars
  PROVE  RowInv'
<1> DEFINE SessionPart(t, row) ==
             /\ t.pc = "validated" => Available(ArtistOf[t.b], Proposed(t))
             /\ t.row.contact = row.contact
             /\ t.op \notin {"patch", "cancel"} => Complete(t.row)
<1>1. CASE UNCHANGED vars
  BY <1>1 DEF vars, RowInv, OccupiesOpenTime, SubmittedIsComplete
<1>2. ASSUME NEW b \in Bookings, CreateDraft(b)
      PROVE  RowInv'
  <2>1. /\ \A o \in Bookings : o # b => bookings'[o] = bookings[o]
        /\ bookings'[b].status = "draft" /\ bookings'[b].contact = bookings[b].contact
        /\ UNCHANGED tx
    BY <1>2 DEF CreateDraft, TypeOK, Row
  <2>2. OccupiesOpenTime' /\ SubmittedIsComplete'
    BY <2>1 DEF RowInv, OccupiesOpenTime, SubmittedIsComplete, Occupying
  <2>3. \A o \in Bookings : bookings'[o].contact = bookings[o].contact
    BY <2>1
  <2>4. QED
    BY <2>1, <2>2, <2>3 DEF RowInv, SessionInv, Sound
<1>3. ASSUME NEW s \in Sessions, NEW op \in Offered, NEW b \in Bookings,
             NEW form \in Forms \cup {NoForm}, ReadBooking(s, op, b, form)
      PROVE  RowInv'
  <2>1. /\ tx'[s].pc = "read" /\ tx'[s].op = op /\ tx'[s].b = b
        /\ tx'[s].row = bookings[b] /\ Others(s) /\ UNCHANGED bookings
    BY <1>3, Begun
  <2>2. op \in Ops /\ bookings[b].status \in Admits[op]
        /\ (op = "submit" => Complete(bookings[b]))
    BY <1>3, BookingAssumption DEF ReadBooking
  <2>3. op \notin {"patch", "cancel"} => Complete(bookings[b])
    <3>1. \A o \in Ops \ {"patch", "cancel", "submit"} :
            Admits[o] \cap {"none", "draft", "cancelled"} = {}
      BY DEF Ops, Admits, Reschedulable, Quotable, Disputable, Deciding, CanMove,
             Transitions, Status
    <3>2. QED
      BY <2>2, <3>1 DEF RowInv, SubmittedIsComplete
  <2>4. QED
    BY <2>1, <2>3 DEF Others, RowInv, OccupiesOpenTime, SubmittedIsComplete
<1>4. ASSUME NEW s \in Sessions, Waits(s)
      PROVE  RowInv'
  <2>1. Proposed(tx'[s]) = Proposed(tx[s])
    BY <1>4 DEF Waits, Proposed
  <2>2. tx'[s].pc = "validated" => Available(ArtistOf[tx[s].b], Proposed(tx[s]))
    BY <1>4 DEF Waits, Fits
  <2>3. OccupiesOpenTime' /\ SubmittedIsComplete'
    BY <1>4 DEF Waits, RowInv, OccupiesOpenTime, SubmittedIsComplete
  <2>4. ASSUME NEW u \in Sessions, tx'[u].pc # "idle"
        PROVE  SessionPart(tx'[u], bookings'[tx'[u].b])
    <3>1. CASE u = s
      BY <1>4, <2>1, <2>2, <3>1 DEF Waits, RowInv
    <3>2. CASE u # s
      BY <1>4, <2>4, <3>2 DEF Waits, Others, RowInv
    <3>3. QED
      BY <3>1, <3>2
  <2>5. QED
    BY <2>3, <2>4 DEF RowInv
<1>5. ASSUME NEW s \in Sessions, Leaves(s)
      PROVE  RowInv'
  <2>1. tx'[s].pc = "idle" /\ Others(s) /\ UNCHANGED bookings
    BY <1>5, Ended DEF Leaves
  <2>2. QED
    BY <2>1 DEF Others, RowInv, OccupiesOpenTime, SubmittedIsComplete
<1>6. ASSUME NEW s \in Sessions, Commits(s)
      PROVE  RowInv'
  <2> DEFINE b == tx[s].b
  <2>1. PICK new \in Row : Stores(s, new)
    BY <1>6, CommitStores DEF SessionInv
  <2>2. /\ b \in Bookings /\ \A o \in Bookings : o # b => bookings'[o] = bookings[o]
        /\ new.contact = tx[s].row.contact => bookings'[b].contact = bookings[b].contact
    BY <2>1, Stored DEF SessionInv, Column
  <2>3. tx[s].pc # "idle" /\ tx'[s].pc = "idle" /\ Others(s) /\ Columns(tx[s], new)
    BY <2>1, Ended DEF Stores
  <2>4. OccupiesOpenTime' /\ SubmittedIsComplete'
    <3>1. /\ bookings'[b].status \in Occupying => Available(ArtistOf[b], bookings'[b])
          /\ bookings'[b].status \notin {"none", "draft", "cancelled"} => Complete(bookings'[b])
      BY <2>1, CommitKeepsRow
    <3>2. QED
      BY <2>2, <3>1 DEF RowInv, OccupiesOpenTime, SubmittedIsComplete
  <2>5. ASSUME NEW u \in Sessions, tx'[u].pc # "idle"
        PROVE  SessionPart(tx'[u], bookings'[tx'[u].b])
    <3>1. u # s /\ tx'[u] = tx[u] /\ tx[u].b \in Bookings
      BY <2>3, <2>5 DEF Others, SessionInv, Sound
    <3>2. tx[u].b = b => new.contact = tx[s].row.contact
      BY <2>3, <2>5, <3>1, BesideCommit DEF Columns, Unlocked
    <3>3. bookings'[tx[u].b].contact = bookings[tx[u].b].contact
      BY <2>2, <3>1, <3>2
    <3>4. QED
      BY <2>5, <3>1, <3>3 DEF RowInv
  <2>6. QED
    BY <2>4, <2>5 DEF RowInv
<1>7. QED
  BY <1>1, <1>2, <1>3, <1>4, <1>5, <1>6, StepKinds

\* In every reachable state.
LEMMA RowsStay ==
  ASSUME SafeRaces
  PROVE  Spec => []RowInv
<1>1. Init => RowInv
  <2> SUFFICES ASSUME Init
               PROVE  RowInv
    OBVIOUS
  <2>1. \A s \in Sessions : tx[s].pc = "idle"
    BY DEF Init, Idle
  <2>2. \A b \in Bookings : bookings[b].status = "none"
    BY DEF Init, NewRow
  <2>3. "none" \notin Occupying
    BY DEF Occupying
  <2>4. QED
    BY <2>1, <2>2, <2>3 DEF RowInv, OccupiesOpenTime, SubmittedIsComplete
<1>2. TypeOK /\ SessionInv /\ CalendarInv /\ RowInv /\ [Next]_vars => RowInv'
  BY RowStep
<1>3. QED
  BY <1>1, <1>2, SessionsStay, CalendarStaysInOrder, PTL DEF Spec

\* As long as no request of Unlocked races on its own booking, a booking occupies only
\* time that is open: what was validated is what is stored.
THEOREM OnlyOpenTimeOccupied ==
  ASSUME SafeRaces
  PROVE  Spec => []OccupiesOpenTime
<1>1. RowInv => OccupiesOpenTime
  BY DEF RowInv
<1>2. QED
  BY <1>1, RowsStay, PTL

\* Under the same condition what the artist gets to see is complete: neither a race of
\* submissions and quotes nor a reschedule takes a field away.
THEOREM SubmittedStaysComplete ==
  ASSUME SafeRaces
  PROVE  Spec => []SubmittedIsComplete
<1>1. RowInv => SubmittedIsComplete
  BY DEF RowInv
<1>2. QED
  BY <1>1, RowsStay, PTL
(***************************************************************************)
(* The price                                                               *)
(***************************************************************************)

\* A quote that was made stays a quote of its booking.
LEMMA QuotesKept ==
  ASSUME TypeOK, [Next]_vars, NEW q, NEW b, QuoteOf(q, b)
  PROVE  QuoteOf(q, b)'
<1>1. ASSUME NEW s \in Sessions, NEW p \in Quotes, CommitQuote(s, p)
      PROVE  QuoteOf(q, b)'
  <2>1. quotes'[q] \in {quotes[q], [quotes[q] EXCEPT !.status = "superseded"]}
    BY <1>1 DEF CommitQuote, QuoteOf
  <2>2. quotes[q] \in [booking : Bookings \cup {None}, status : QuoteStatus]
    BY DEF TypeOK, QuoteOf
  <2>3. QED
    BY <2>1, <2>2 DEF QuoteOf
<1>2. ASSUME NEW p, NEW st \in {"accepted", "declined"},
             quotes' = [quotes EXCEPT ![p].status = st]
      PROVE  QuoteOf(q, b)'
  BY <1>2 DEF QuoteOf, TypeOK
<1>3. ASSUME NEW s \in Sessions, CommitAccept(s) \/ CommitReject(s)
      PROVE  QuoteOf(q, b)'
  BY <1>2, <1>3 DEF CommitAccept, CommitReject
<1>4. ASSUME UNCHANGED quotes
      PROVE  QuoteOf(q, b)'
  BY <1>4 DEF QuoteOf
<1>5. ASSUME NEW s \in Sessions, Commits(s)
      PROVE  QuoteOf(q, b)'
  BY <1>1, <1>3, <1>4, <1>5 DEF Commits, CommitPatch, CommitSubmit, CommitReview,
     CommitReschedule, CommitCancel, CommitDispute, CommitSettle, CommitResolve
<1>6. QED
  BY <1>4, <1>5, StepKinds DEF vars, CreateDraft, ReadBooking, Waits, Leaves

\* A commit takes neither a price nor a deposit back, and stores both where they are due.
LEMMA CommitKeepsPrice ==
  ASSUME TypeOK, SessionInv, CalendarInv, PriceInv,
         NEW s \in Sessions, NEW new \in Row, Stores(s, new)
  PROVE  LET t == tx[s]  b == t.b  x == bookings[b]  y == bookings'[b] IN
         /\ x.total # None => y.total # None
         /\ x.deposit => y.deposit
         /\ y.total \in {x.total} \cup {q \in Quotes : QuoteOf(q, b)}
         /\ y.status \in Occupying => y.total # None
         /\ y.status \in {"deposit_pending", "deposit_paid"} => y.deposit
<1> DEFINE t == tx[s]  b == t.b  x == bookings[b]  y == bookings'[b]
<1>1. /\ t.pc # "idle" /\ b \in Bookings /\ t.op \in Ops
      /\ t.row.status \in Admits[t.op]
      /\ Audited(s, new) /\ Columns(t, new)
  BY DEF Stores, SessionInv, Sound
<1>2. /\ t.op = "accept" => QuoteOf(t.q, b)
      /\ t.row.total # None => x.total # None
      /\ t.row.deposit => x.deposit
      /\ x.status \in Occupying => x.total # None
      /\ x.status \in {"deposit_pending", "deposit_paid"} => x.deposit
      /\ t.op \in Unlocked => t.row.status = x.status
  BY <1>1 DEF PriceInv, Columns, CalendarInv, ReadsAreCurrent
<1>3. /\ y.total = IF new.total = t.row.total THEN x.total ELSE new.total
      /\ y.deposit = IF new.deposit = t.row.deposit THEN x.deposit ELSE new.deposit
      /\ new.status = t.row.status => y.status = x.status
      /\ CanMove(t.row.status, new.status) => y.status = new.status
      /\ {x.deposit, t.row.deposit, new.deposit} \subseteq BOOLEAN
  BY <1>1, Stored, StatusStored DEF SessionInv, Column, Row
<1>4. t.op = "accept" => new.total # None /\ new.total = t.q
  BY <1>1, <1>2, BookingAssumption DEF Columns, QuoteOf
<1>5. x.total # None => y.total # None
  BY <1>1, <1>3, <1>4 DEF Columns
<1>6. x.deposit => y.deposit
  BY <1>1, <1>3 DEF Columns
<1>7. y.total \in {x.total} \cup {q \in Quotes : QuoteOf(q, b)}
  BY <1>1, <1>2, <1>3, <1>4 DEF Columns, QuoteOf
<1>8. y.status = x.status \/ (y.status \in Target[t.op] /\ t.op \notin {"patch", "reschedule"})
  BY <1>1, <1>3 DEF Audited
<1>9. ASSUME y.status \in Occupying
      PROVE  y.total # None
  <2>1. CASE x.status \in Occupying
    BY <1>2, <1>5, <2>1
  <2>2. CASE t.op = "accept"
    BY <1>2, <1>3, <1>4, <2>2
  <2>3. x.status \in Occupying \/ t.op = "accept"
    BY <1>1, <1>2, <1>8, <1>9, TargetFacts, AdmitsFacts DEF Occupies, Unlocked
  <2>4. QED
    BY <2>1, <2>2, <2>3
<1>10. ASSUME y.status \in {"deposit_pending", "deposit_paid"}
       PROVE  y.deposit
  <2>1. CASE y.status = x.status
    BY <1>2, <1>6, <1>10, <2>1
  <2>2. CASE y.status # x.status
    <3>1. /\ y.status \in Target[t.op] /\ t.op \in {"accept", "settle"}
          /\ new.status = y.status
      <4>1. y.status \in Occupying
        BY <1>10 DEF Occupying
      <4>2. y.status \in Target[t.op] /\ t.op \in Occupies /\ new.status = y.status
        BY <1>1, <1>3, <1>8, <2>2, <4>1, TargetFacts DEF Audited
      <4>3. QED
        BY <1>10, <4>2, TargetFacts DEF Occupies
    <3>2. CASE t.op = "settle"
      <4>1. x.status = "deposit_pending"
        BY <1>1, <1>2, <3>2 DEF Admits, Unlocked
      <4>2. QED
        BY <1>2, <1>6, <4>1
    <3>3. CASE t.op = "accept"
      <4>1. new.status = "deposit_pending"
        BY <1>10, <3>1, <3>3 DEF Target
      <4>2. new.deposit
        BY <1>1, <3>3, <4>1 DEF Columns
      <4>3. QED
        BY <1>2, <1>3, <4>2
    <3>4. QED
      BY <3>1, <3>2, <3>3
  <2>3. QED
    BY <2>1, <2>2
<1>11. QED
  BY <1>5, <1>6, <1>7, <1>9, <1>10

\* Every step keeps prices, deposits and the quotes they come from.
LEMMA PriceStep ==
  ASSUME TypeOK, SessionInv, CalendarInv, PriceInv, [Next]_vars
  PROVE  PriceInv'
<1> DEFINE SessionPart(t, row) ==
             /\ t.row.total # None => row.total # None
             /\ t.row.deposit => row.deposit
           Decides(t) == t.op = "accept" /\ t.pc # "read"
           BookingPart(row) ==
             /\ row.status \in Occupying => row.total # None
             /\ row.status \in {"deposit_pending", "deposit_paid"} => row.deposit
<1>1. \A q, b : QuoteOf(q, b) => QuoteOf(q, b)'
  BY QuotesKept
<1>2. CASE UNCHANGED vars
  BY <1>2 DEF vars, PriceInv, QuoteOf
<1>3. ASSUME NEW b \in Bookings, CreateDraft(b)
      PROVE  PriceInv'
  <2>1. /\ \A o \in Bookings : bookings'[o].total = bookings[o].total
        /\ \A o \in Bookings : bookings'[o].deposit = bookings[o].deposit
        /\ \A o \in Bookings : bookings'[o].status \in {bookings[o].status, "draft"}
        /\ UNCHANGED <<tx, quotes>>
    BY <1>3 DEF CreateDraft, TypeOK, Row
  <2>2. \A o \in Bookings : BookingPart(bookings'[o])
    BY <2>1 DEF PriceInv, Occupying
  <2>3. \A o \in Bookings : bookings'[o].total # None => QuoteOf(bookings[o].total, o)'
    BY <2>1 DEF PriceInv, QuoteOf
  <2>4. QED
    BY <2>1, <2>2, <2>3 DEF PriceInv, QuoteOf, SessionInv, Sound
<1>4. ASSUME NEW s \in Sessions, NEW op \in Offered, NEW b \in Bookings,
             NEW form \in Forms \cup {NoForm}, ReadBooking(s, op, b, form)
      PROVE  PriceInv'
  BY <1>4, Begun DEF Others, PriceInv, QuoteOf
<1>5. ASSUME NEW s \in Sessions, Waits(s)
      PROVE  PriceInv'
  <2>1. Decides(tx'[s]) => QuoteOf(tx'[s].q, tx'[s].b)
    BY <1>5 DEF Waits, QuotesOf, QuoteOf, PriceInv
  <2>2. UNCHANGED <<bookings, quotes>> /\ Others(s)
    BY <1>5 DEF Waits
  <2>3. \A u \in Sessions : tx'[u].pc # "idle" =>
          /\ Decides(tx'[u]) => QuoteOf(tx'[u].q, tx'[u].b)
          /\ SessionPart(tx'[u], bookings[tx'[u].b])
    BY <1>5, <2>1, <2>2 DEF Waits, Others, PriceInv
  <2>4. QED
    BY <2>2, <2>3 DEF PriceInv, QuoteOf
<1>6. ASSUME NEW s \in Sessions, Leaves(s)
      PROVE  PriceInv'
  <2>1. tx'[s].pc = "idle" /\ Others(s) /\ UNCHANGED <<bookings, quotes>>
    BY <1>6, Ended DEF Leaves
  <2>2. QED
    BY <2>1 DEF Others, PriceInv, QuoteOf
<1>7. ASSUME NEW s \in Sessions, Commits(s)
      PROVE  PriceInv'
  <2> DEFINE b == tx[s].b
  <2>1. PICK new \in Row : Stores(s, new)
    BY <1>7, CommitStores DEF SessionInv
  <2>2. b \in Bookings /\ \A o \in Bookings : o # b => bookings'[o] = bookings[o]
    BY <2>1, Stored DEF SessionInv
  <2>3. tx'[s].pc = "idle" /\ Others(s)
    BY <2>1, Ended DEF Stores
  <2>4. /\ SessionPart([row |-> bookings[b]], bookings'[b])
        /\ bookings'[b].total \in {bookings[b].total} \cup {q \in Quotes : QuoteOf(q, b)}
        /\ BookingPart(bookings'[b])
    BY <2>1, CommitKeepsPrice
  <2>5. ASSUME NEW o \in Bookings
        PROVE  /\ SessionPart([row |-> bookings[o]], bookings'[o])
               /\ bookings'[o].total # None => QuoteOf(bookings[o].total, o)'
               /\ BookingPart(bookings'[o])
    <3>1. CASE o = b
      BY <1>1, <2>4, <3>1 DEF PriceInv
    <3>2. CASE o # b
      BY <1>1, <2>2, <3>2 DEF PriceInv
    <3>3. QED
      BY <3>1, <3>2
  <2>6. ASSUME NEW u \in Sessions, tx'[u].pc # "idle"
        PROVE  /\ Decides(tx'[u]) => QuoteOf(tx[u].q, tx[u].b)'
               /\ SessionPart(tx'[u], bookings'[tx'[u].b])
    <3>1. u # s /\ tx'[u] = tx[u] /\ tx[u].b \in Bookings
      BY <2>3, <2>6 DEF Others, SessionInv, Sound
    <3>2. SessionPart(tx[u], bookings[tx[u].b])
      BY <2>6, <3>1 DEF PriceInv
    <3>3. SessionPart(tx'[u], bookings'[tx'[u].b])
      BY <2>5, <3>1, <3>2
    <3>4. Decides(tx[u]) => QuoteOf(tx[u].q, tx[u].b)
      BY <2>6, <3>1 DEF PriceInv
    <3>5. Decides(tx[u]) => QuoteOf(tx[u].q, tx[u].b)'
      BY <1>1, <3>1, <3>4 DEF QuoteOf
    <3>6. QED
      BY <3>1, <3>3, <3>5
  <2>7. QED
    BY <2>5, <2>6 DEF PriceInv, QuoteOf
<1>8. QED
  BY <1>2, <1>3, <1>4, <1>5, <1>6, <1>7, StepKinds

\* As long as no request of Unlocked races on its own booking, a booking on the calendar
\* carries the price of a quote made for it, and a deposit is waited for, or paid, only
\* if one was agreed: also where two acceptances meet.
THEOREM PricedByAQuoteOfItsOwn ==
  ASSUME SafeRaces
  PROVE  Spec => []PricedByOwnQuote
<1>1. Init => PriceInv
  <2> SUFFICES ASSUME Init
               PROVE  PriceInv
    OBVIOUS
  <2>1. \A s \in Sessions : tx[s].pc = "idle"
    BY DEF Init, Idle
  <2>2. \A b \in Bookings : bookings[b].status = "none" /\ bookings[b].total = None
    BY DEF Init, NewRow
  <2>3. "none" \notin Occupying
    BY DEF Occupying
  <2>4. QED
    BY <2>1, <2>2, <2>3 DEF PriceInv
<1>2. TypeOK /\ SessionInv /\ CalendarInv /\ PriceInv /\ [Next]_vars => PriceInv'
  BY PriceStep
<1>3. PriceInv => PricedByOwnQuote
  BY DEF PriceInv, PricedByOwnQuote, QuoteOf
<1>4. QED
  BY <1>1, <1>2, <1>3, SessionsStay, CalendarStaysInOrder, PTL DEF Spec
=============================================================================
