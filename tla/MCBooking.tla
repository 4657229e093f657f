------------------------------ MODULE MCBooking ------------------------------
(* Booking on one artist with a handful of bookings, requests and quotes. *)
EXTENDS Booking, TLC

CONSTANTS b1, b2, s1, s2, q1, q2, q3

MCArtists == {"asha"}

MCArtistOf == [b \in Bookings |-> "asha"]

MCDates == {"sat"}

MCTimes == {600, 660, 705}

MCServices == {"bridal", "party"}

MCDuration == [bridal |-> 60, party |-> 30]

\* party at 600 keeps the artist until 645 exactly.
MCGap == [bridal |-> 0, party |-> 15]

MCDeposit == {"bridal"}

MCDaysOff == [a \in MCArtists |-> {}]

MCTimeBlocks == [a \in MCArtists |-> {[date |-> "sat", from |-> 700, to |-> 710]}]

MCHours == [a \in MCArtists |-> {[date |-> "sat", from |-> 540, to |-> 780]}]

At600 == [date |-> "sat", time |-> 600, service |-> "bridal", contact |-> TRUE]

AllDay == [date |-> "sat", time |-> None, service |-> "party", contact |-> TRUE]

Blocked == [date |-> "sat", time |-> 705, service |-> "bridal", contact |-> TRUE]

ThreeForms == {At600, AllDay, Blocked}

At660 == [date |-> "sat", time |-> 660, service |-> "party", contact |-> TRUE]

\* Two places that fit beside each other: 600-660 and 660-705.
TwoForms == {At600, At660}


TwoTimes == {600, 660}

AllOps == Ops

\* What it takes to bring bookings onto the calendar and move them there.
BookAndMove == {"patch", "submit", "quote", "accept", "reschedule"}

Cancellable == BookAndMove \cup {"cancel"}

\* The ways into the calendar, out of it and about in it.
Occupy == Cancellable \cup {"settle"}

\* The requests whose races with each other the calendar lock makes harmless.
LockSafe == Ops \ Unlocked

NoRaces == {}

RescheduleRace == {"accept", "reschedule"}

CancelRace == {"accept", "cancel"}

Symmetry == Permutations(Bookings) \cup Permutations(Sessions) \cup Permutations(Quotes)
=============================================================================
