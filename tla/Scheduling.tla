----------------------------- MODULE Scheduling -----------------------------
(***************************************************************************)
(* One day of one artist's calendar: the weekly rules and the blocks the   *)
(* artist keeps, the times customers are offered, and the bookings these   *)
(* become (app/services/scheduling.py, routes/artist_scheduling.py; the    *)
(* checks of a booking are those of app/services/booking.py).              *)
(*                                                                         *)
(* Time is counted in units from the start of the day, at a fixed offset   *)
(* from UTC.                                                               *)
(***************************************************************************)
EXTENDS Integers, Sequences, FiniteSets, SequencesExt

CONSTANTS
  Rules, Blocks,     \* ids of the rows of artist_availability and artist_blocked_dates
  DayEnd,            \* bound: units of a day
  Duration, Gap,     \* of the service; Gap is its buffer and travel buffer
  MaxBookings,       \* bound: bookings at once
  Overtaking         \* whether an overlap check may be out of date when its row is written

VARIABLES
  rules, blocks,     \* the rows, NoRow where there is none
  taken              \* the starts of the bookings that occupy the calendar

vars == <<rules, blocks, taken>>

NoRow == [kind |-> "none"]

Intervals == {i \in (0..DayEnd - 1) \X (1..DayEnd) : i[1] < i[2]}

Rule == [kind : {"rule"}, at : Intervals, active : BOOLEAN]

\* A block of the whole day, or of several, has no times.
Block == [kind : {"day"}] \cup [kind : {"part"}, at : Intervals]

Init ==
  /\ rules = [r \in Rules |-> NoRow]
  /\ blocks = [b \in Blocks |-> NoRow]
  /\ taken = {}

Overlap(i, j) == i[1] < j[2] /\ j[1] < i[2]

-----------------------------------------------------------------------------
(* What the artist keeps *)

\* Variant: only a rule that lies within another is refused.
RuleWithin(r, rule) ==
  \E o \in Rules \ {r} : rules[o] # NoRow /\ rules[o].at[1] <= rule.at[1] /\ rule.at[2] <= rules[o].at[2]

\* find_overlapping_rule: active or not.
RuleOverlaps(r, rule) == \E o \in Rules \ {r} : rules[o] # NoRow /\ Overlap(rules[o].at, rule.at)

\* create_my_availability_rule, update_my_availability_rule
PutRule(r, rule) ==
  /\ Overtaking \/ ~RuleOverlaps(r, rule)
  /\ rules' = [rules EXCEPT ![r] = rule]
  /\ UNCHANGED <<blocks, taken>>

DropRule(r) ==
  /\ rules[r] # NoRow
  /\ rules' = [rules EXCEPT ![r] = NoRow]
  /\ UNCHANGED <<blocks, taken>>

\* _blocks_conflict: two parts of the day may be side by side, a whole day with nothing.
BlockOverlaps(b, block) ==
  \E o \in Blocks \ {b} :
    /\ blocks[o] # NoRow
    /\ blocks[o].kind = "part" /\ block.kind = "part" => Overlap(blocks[o].at, block.at)

\* create_my_blocked_date, update_my_blocked_date: bookings stay as they are.
PutBlock(b, block) ==
  /\ Overtaking \/ ~BlockOverlaps(b, block)
  /\ blocks' = [blocks EXCEPT ![b] = block]
  /\ UNCHANGED <<rules, taken>>

DropBlock(b) ==
  /\ blocks[b] # NoRow
  /\ blocks' = [blocks EXCEPT ![b] = NoRow]
  /\ UNCHANGED <<rules, taken>>

-----------------------------------------------------------------------------
(* What the customer is offered: compute_available_slots *)

\* Variant: a rule that is switched off counts, too.
OpenAnyway == {rules[r].at : r \in {q \in Rules : rules[q] # NoRow}}

Open == {rules[r].at : r \in {q \in Rules : rules[q] # NoRow /\ rules[q].active}}

Busy ==
  {IF blocks[b].kind = "day" THEN <<0, DayEnd>> ELSE blocks[b].at :
     b \in {c \in Blocks : blocks[c] # NoRow}}
  \cup {<<t, t + Duration>> : t \in taken}

Earlier(i, j) == i[1] < j[1] \/ (i[1] = j[1] /\ i[2] < j[2])

\* One turn of the loop over the busy times, in order: what is free before it is kept.
Cut(state, busy, open) ==
  IF busy[2] <= state.cursor \/ busy[1] >= open[2] THEN state
  ELSE [cursor |-> IF busy[2] > state.cursor THEN busy[2] ELSE state.cursor,
        free |-> state.free \cup
          (IF busy[1] > state.cursor THEN {<<state.cursor, busy[1]>>} ELSE {})]

\* Variant: nothing is free after the last busy time.
RestLost(state, open) == state.free

\* What is free after the last busy time.
Rest(state, open) ==
  state.free \cup (IF state.cursor < open[2] THEN {<<state.cursor, open[2]>>} ELSE {})

\* _subtract_intervals
Subtract(open, busy) ==
  Rest(FoldLeft(LAMBDA state, b : Cut(state, b, open), [cursor |-> open[1], free |-> {}],
                SetToSortSeq(busy, Earlier)), open)

Free == UNION {Subtract(open, Busy) : open \in Open}

\* The starts of the times offered.
Offered ==
  {t \in 0..DayEnd :
     \E w \in Free : t >= w[1] /\ (t - w[1]) % (Duration + Gap) = 0 /\ t + Duration <= w[2]}

-----------------------------------------------------------------------------
(* What a booking needs: validate_availability_for_confirmation and            *)
(* check_no_overlapping_confirmed_booking                                      *)

Bookable(t) ==
  /\ \A b \in Blocks : blocks[b] # NoRow =>
       blocks[b].kind = "part" /\ ~(blocks[b].at[1] <= t /\ t < blocks[b].at[2])
  /\ \E r \in Rules : rules[r] # NoRow /\ rules[r].active
       /\ rules[r].at[1] <= t /\ t + Duration <= rules[r].at[2]
  /\ \A o \in taken : ~Overlap(<<t, t + Duration + Gap>>, <<o, o + Duration + Gap>>)

Confirm(t) ==
  /\ Bookable(t) /\ t \notin taken /\ Cardinality(taken) < MaxBookings
  /\ taken' = taken \cup {t}
  /\ UNCHANGED <<rules, blocks>>

Cancel(t) ==
  /\ t \in taken
  /\ taken' = taken \ {t}
  /\ UNCHANGED <<rules, blocks>>

Next ==
  \/ \E r \in Rules : (\E rule \in Rule : PutRule(r, rule)) \/ DropRule(r)
  \/ \E b \in Blocks : (\E block \in Block : PutBlock(b, block)) \/ DropBlock(b)
  \/ \E t \in 0..DayEnd - 1 : Confirm(t) \/ Cancel(t)

Spec == Init /\ [][Next]_vars

-----------------------------------------------------------------------------

TypeOK ==
  /\ \A r \in Rules : rules[r] = NoRow \/ rules[r] \in Rule
  /\ \A b \in Blocks : blocks[b] = NoRow \/ blocks[b] \in Block
  /\ taken \subseteq 0..DayEnd - 1 /\ Cardinality(taken) <= MaxBookings

Units(intervals) == {t \in 0..DayEnd - 1 : \E i \in intervals : i[1] <= t /\ t < i[2]}

\* Cutting the busy times out of the open ones leaves the units that are open and not
\* busy, in stretches as long as they can be (_subtract_intervals).
FreeIsExact ==
  \A open \in Open :
    LET free == Subtract(open, Busy) IN
    /\ Units(free) = Units({open}) \ Units(Busy)
    /\ \A i, j \in free : i # j => ~(i[1] <= j[2] /\ j[1] <= i[2])

\* No two of the times offered get in each other's way, however often rules are
\* added, moved, switched off and on again.
OfferedApart ==
  \A t, o \in Offered : t < o => t + Duration <= o

\* What the customer is offered can be booked: what the calculator leaves free is what
\* the checks of the confirmation accept.  It holds of a service without buffers only:
\* the calculator asks for none before and after a booking, the confirmation does.
OfferedIsBookable == \A t \in Offered : Bookable(t)
=============================================================================
