SPECIFICATION Spec

CONSTANTS
  None = None
  b1 = b1
  a1 = a1
  Bookings <- ModelBookings
  Artists <- ModelArtists
  ArtistOf <- ModelArtistOf
  Total <- ModelTotal
  Deposit <- ModelDeposit
  Orders = {o1, o2}
  Refunds = {r1}
  Payouts = {p1, p2}
  ProviderRefunds = {x1}
  Sessions = {s1, s2}
  Keys = {}
  MaxAttempts = 1
  Offered <- Ops
  Races <- AnyPair

SYMMETRY Symmetric

\* The rows and attempts of the model run out.
CHECK_DEADLOCK FALSE

INVARIANTS
  CreditIsBacked
  CreditInv
  EarningMatchesCredit
  HandledIsCredited
  OneLiveOrder
  NeverOvercharged
  PaidOutOnce

PROPERTIES ImplementsPaymentLife
