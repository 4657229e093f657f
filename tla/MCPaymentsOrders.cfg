SPECIFICATION Spec

CONSTANTS
  None = None
  b1 = b1
  a1 = a1
  Bookings <- ModelBookings
  Artists <- ModelArtists
  ArtistOf <- ModelArtistOf
  Total <- ModelTotal
  Deposit <- ModelDeposit
  Orders = {o1, o2}
  Refunds = {}
  Payouts = {}
  ProviderRefunds = {}
  Sessions = {s1, s2}
  Keys = {}
  MaxAttempts = 1
  Offered <- Charging
  Races <- RacingOrders

SYMMETRY Symmetric

\* The rows and attempts of the model run out.
CHECK_DEADLOCK FALSE

INVARIANTS
  OneLiveOrder
