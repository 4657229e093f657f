--------------------------- MODULE ArtistCalendar ---------------------------
(***************************************************************************)
(* What the booking service promises of an artist's calendar: bookings take *)
(* places in it one at a time, each only where it fits between the others.  *)
(* Booking.tla implements this specification.                              *)
(***************************************************************************)
CONSTANTS
  Bookings,
  ArtistOf,    \* booking -> artist
  Slots,       \* the places a booking can take
  Free,        \* the place of a booking that is not on the calendar
  Clash(_, _)  \* do two places of one artist get in each other's way?

VARIABLE booked  \* booking -> its place, or Free

Fits(b, place) ==
  \A o \in Bookings \ {b} :
    ArtistOf[o] = ArtistOf[b] /\ booked[o] # Free => ~ Clash(place, booked[o])

Init == booked = [b \in Bookings |-> Free]

\* A booking enters the calendar, or moves to another place in it.
Book(b, place) ==
  /\ Fits(b, place)
  /\ booked' = [booked EXCEPT ![b] = place]

Release(b) ==
  /\ booked[b] # Free
  /\ booked' = [booked EXCEPT ![b] = Free]

Next ==
  \E b \in Bookings :
    \/ \E place \in Slots : Book(b, place)
    \/ Release(b)

Spec == Init /\ [][Next]_booked
=============================================================================
