------------------------------- MODULE Reviews -------------------------------
(***************************************************************************)
(* Reviews of an artist's completed bookings and the artist's rating       *)
(* (app/services/reviews.py, routes/admin_reviews.py).                     *)
(*                                                                         *)
(* A request checks, then writes its review and computes the aggregate     *)
(* from what it and the committed transactions have written, and then      *)
(* updates the profile and commits.  A review it has written is locked     *)
(* until then.  A rating is the sum and the number of the stars: the       *)
(* average the profile holds, before its rounding.                         *)
(***************************************************************************)
EXTENDS Integers, FiniteSets, FiniteSetsExt

CONSTANTS
  Bookings,    \* the completed bookings, each with a customer of its own
  Sessions,
  Stars,       \* MIN_RATING..MAX_RATING
  None

VARIABLES
  review,      \* the table reviews, by booking (its unique key)
  blocked,     \* the customers (by booking) on a blocked pair with the artist
  rating,      \* rating_average and rating_count of the profile
  session,
  solo         \* history: the last to write the rating ran with nobody beside it

vars == <<review, blocked, rating, session, solo>>

NoReview == [rating |-> None, flagged |-> FALSE, deleted |-> FALSE]

Review == [rating : Stars \cup {None}, flagged : BOOLEAN, deleted : BOOLEAN]

Actions == {"flag", "unflag", "remove", "restore"}

Idle == [at |-> "idle"]

Init ==
  /\ review = [b \in Bookings |-> NoReview]
  /\ blocked = {}
  /\ rating = [sum |-> 0, count |-> 0]
  /\ session = [s \in Sessions |-> Idle]
  /\ solo = TRUE

\* The aggregate query over a state of the table.
Aggregate(table) ==
  LET counted == {b \in Bookings : table[b].rating # None /\ ~table[b].deleted} IN
  [sum |-> MapThenSumSet(LAMBDA b : table[b].rating, counted),
   count |-> Cardinality(counted)]

Block(b) ==
  /\ blocked' = IF b \in blocked THEN blocked \ {b} ELSE blocked \cup {b}
  /\ UNCHANGED <<review, rating, session, solo>>

\* A session that begins; whoever is under way is no longer alone.
Begin(s, b, insert, row, next) ==
  /\ session[s] = Idle
  /\ session' = [u \in Sessions |->
       IF u = s THEN [at |-> "checked", of |-> b, insert |-> insert, row |-> row, next |-> next,
                      alone |-> \A v \in Sessions : session[v] = Idle, rating |-> None]
       ELSE IF session[u] = Idle THEN Idle ELSE [session[u] EXCEPT !.alone = FALSE]]
  /\ UNCHANGED <<review, blocked, rating, solo>>

\* create_review: not yet reviewed, nobody blocked.
CheckCreate(s, b, stars) ==
  /\ review[b].rating = None /\ b \notin blocked
  /\ Begin(s, b, TRUE, NoReview, [NoReview EXCEPT !.rating = stars])

Moderated(row, action) ==
  CASE action = "flag" -> [row EXCEPT !.flagged = TRUE]
    [] action = "unflag" -> [row EXCEPT !.flagged = FALSE]
    [] action = "remove" -> [row EXCEPT !.deleted = TRUE]
    [] action = "restore" -> [row EXCEPT !.deleted = FALSE]

\* moderate_review reads the review.
CheckModerate(s, b, action) ==
  /\ review[b].rating # None
  /\ Begin(s, b, FALSE, review[b], Moderated(review[b], action))

\* Only a column that is set to another value is written.
Written(t, stored) ==
  [f \in DOMAIN stored |-> IF t.next[f] = t.row[f] THEN stored[f] ELSE t.next[f]]

Writes(t) == t.next # t.row

Locked(b) ==
  \E s \in Sessions : session[s].at = "computed" /\ session[s].of = b /\ Writes(session[s])

\* Variant: the aggregate is adjusted, not computed anew.
Adjusted(t, table) ==
  LET after == Aggregate([table EXCEPT ![t.of] = Written(t, @)])  before == Aggregate(table) IN
  [sum |-> rating.sum + after.sum - before.sum, count |-> rating.count + after.count - before.count]

\* recompute_artist_rating
Recomputed(t, table) == Aggregate([table EXCEPT ![t.of] = Written(t, @)])

\* The review is flushed, which waits for its lock; then the aggregate is queried.
Compute(s) ==
  LET t == session[s] IN
  /\ t.at = "checked"
  /\ Writes(t) => ~Locked(t.of)
  /\ t.insert => review[t.of].rating = None
  /\ session' = [session EXCEPT ![s].at = "computed", ![s].rating = Recomputed(t, review)]
  /\ UNCHANGED <<review, blocked, rating, solo>>

Commit(s) ==
  LET t == session[s] IN
  /\ t.at = "computed"
  /\ review' = [review EXCEPT ![t.of] = Written(t, @)]
  /\ rating' = t.rating
  /\ solo' = t.alone
  /\ session' = [session EXCEPT ![s] = Idle]
  /\ UNCHANGED blocked

\* The unique key refuses a second review of the booking, or the server is lost.
Abort(s) ==
  /\ session[s] # Idle
  /\ session' = [session EXCEPT ![s] = Idle]
  /\ UNCHANGED <<review, blocked, rating, solo>>

Next ==
  \/ \E b \in Bookings : Block(b)
  \/ \E s \in Sessions :
       \/ \E b \in Bookings, stars \in Stars : CheckCreate(s, b, stars)
       \/ \E b \in Bookings, action \in Actions : CheckModerate(s, b, action)
       \/ Compute(s) \/ Commit(s) \/ Abort(s)

Spec == Init /\ [][Next]_vars

-----------------------------------------------------------------------------

TypeOK ==
  /\ review \in [Bookings -> Review]
  /\ blocked \subseteq Bookings
  /\ rating \in [sum : Nat, count : 0..Cardinality(Bookings)]
  /\ solo \in BOOLEAN

\* A rating that went astray comes right with the next review or decision that has
\* the table to itself: it is computed from the reviews, not adjusted.
SoloRepairs == solo => rating = Aggregate(review)

\* The rating is that of the reviews that are shown, always.
RatingExact == rating = Aggregate(review)
=============================================================================
