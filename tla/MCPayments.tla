----------------------------- MODULE MCPayments -----------------------------
(***************************************************************************)
(* Payments for TLC: one booking of one artist, with a price of three      *)
(* units and a deposit of one.                                             *)
(***************************************************************************)
EXTENDS Payments, TLC

CONSTANTS b1, a1

ModelBookings == {b1}
ModelArtists == {a1}
ModelArtistOf == b1 :> a1
ModelTotal == b1 :> 3
ModelDeposit == b1 :> 1

Charging == {"order", "webhook", "reconcile"}

\* Nothing runs beside anything else.
Serial == {}

\* Server processes and the reconciliation command side by side; but orders and payouts
\* are made one at a time, and nobody rejects a refund that is being approved.
AnyPair == {{o, p} : o, p \in Ops} \ {{"order"}, {"payout"}, {"approve", "reject"}}

RacingOrders == {{"order"}}

\* Rows and sessions are interchangeable.
Symmetric ==
  Permutations(Orders) \cup Permutations(Refunds) \cup Permutations(Payouts)
  \cup Permutations(ProviderRefunds) \cup Permutations(Sessions)
=============================================================================
