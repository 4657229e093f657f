SPECIFICATION Spec
CONSTANTS
  b1 = b1  b2 = b2  s1 = s1  s2 = s2  q1 = q1  q2 = q2  q3 = q3
  None = None
  Artists <- MCArtists
  ArtistOf <- MCArtistOf
  Bookings = {b1, b2}
  Sessions = {s1, s2}
  Quotes = {q1, q2}
  Dates <- MCDates
  Times <- TwoTimes
  Services <- MCServices
  Duration <- MCDuration
  Gap <- MCGap
  DepositRequired <- MCDeposit
  DaysOff <- MCDaysOff
  TimeBlocks <- MCTimeBlocks
  Hours <- MCHours
  Forms <- TwoForms
  Offered <- Occupy
  Races <- LockSafe
SYMMETRY Symmetry
INVARIANTS TypeOK NoDoubleBooking CalendarInv PricedByOwnQuote
PROPERTIES ImplementsCalendar
CHECK_DEADLOCK FALSE
