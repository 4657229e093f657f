------------------------------ MODULE Payments ------------------------------
(***************************************************************************)
(* Booking payments, refunds and payouts of app/services/payments/         *)
(* service.py, beside the payment provider they talk to.                   *)
(*                                                                         *)
(* A request, a webhook delivery or a run of the reconciliation command is *)
(* one database transaction.  It reads its rows once (the session's        *)
(* identity map keeps the first copy), may call the provider, and writes   *)
(* when it commits; other transactions commit in between.                  *)
(*                                                                         *)
(* The provider keeps the attempts customers make to pay an order.  Its    *)
(* notices are never withdrawn here, so that a notice may arrive late, out *)
(* of order, many times or never.  An attempt that succeeds is first       *)
(* authorized; then it is captured, or it lapses: it was never captured,   *)
(* and the customer has the money back.  A "mismatched" attempt is one for *)
(* another amount than the order's.                                        *)
(***************************************************************************)
EXTENDS Integers, Sequences, FiniteSetsExt

CONSTANTS
  Bookings, Artists,
  Orders,        \* payment rows, each with the provider order made for it
  Refunds, Payouts,
  ProviderRefunds,
  Sessions, Keys,
  None,          \* NULL in a column
  ArtistOf, Total, Deposit,
  MaxAttempts,   \* bound: attempts a customer makes on one order
  Offered,       \* the operations that are run at all (bounds a run)
  Races          \* sets of operations that may be under way together

Ops == {"order", "webhook", "reconcile", "request", "approve", "reject",
        "refund_webhook", "payout"}

ASSUME PaymentsAssumption ==
  /\ None \notin Bookings /\ None \notin Orders /\ None \notin Refunds
  /\ None \notin ProviderRefunds /\ None \notin Keys
  /\ {"none", "unpaid"} \cap Payouts = {}
  /\ ArtistOf \in [Bookings -> Artists]
  /\ Total \in [Bookings -> Nat]
  /\ Deposit \in [Bookings -> Nat]
  /\ MaxAttempts \in Nat
  /\ Offered \subseteq Ops
  /\ Races \subseteq SUBSET Ops

VARIABLES
  booking,   \* the status of each booking, as far as payments look at it
  payments,  \* the payments table
  earnings,  \* artist_earnings by payment: none, unpaid or the payout's id
  refunds,   \* the refunds table
  payouts,   \* payout -> the payments whose earnings it was summed from
  ledger,    \* payment_webhook_events
  tx,        \* the transactions under way
  attempts,  \* provider: the attempts made on each order
  prefunds   \* provider: the refunds it was asked for

app == <<booking, payments, earnings, refunds, payouts, ledger>>
provider == <<attempts, prefunds>>
vars == <<booking, payments, earnings, refunds, payouts, ledger, tx, attempts, prefunds>>

-----------------------------------------------------------------------------
(* Tables *)

BookingStatus == {"deposit_pending", "deposit_paid", "confirmed", "cancelled"}
Kinds == {"deposit", "balance", "full"}
PaymentStatus == {"none", "pending", "succeeded", "failed", "refunded", "partially_refunded"}
RefundStatus == {"none", "pending", "approved", "rejected", "processed"}
Outcomes == {"authorized", "captured", "lapsed", "mismatched", "failed"}

Payment == [status : PaymentStatus, booking : Bookings \cup {None},
            kind : Kinds \cup {"none"}, amount : Nat, key : Keys \cup {None}, ref : Nat]

Refund == [status : RefundStatus, order : Orders \cup {None}, amount : Nat,
           ref : ProviderRefunds \cup {None}]

ProviderRefund == [status : {"none", "pending", "processed"},
                   order : Orders \cup {None}, attempt : Nat, amount : Nat]

\* A notice of the provider, identified as the ledger identifies it.
Event == [type : {"authorized", "captured", "failed", "refund"},
          order : Orders, attempt : Nat]

\* The notices an attempt gives rise to.
Notices == [authorized |-> {"authorized"},
            captured |-> {"authorized", "captured"},
            lapsed |-> {"authorized"},
            mismatched |-> {"authorized", "captured"},
            failed |-> {"failed"}]

\* What is reported of these is a success: they are, or were when the notice was
\* written, authorized or captured, for the amount of the order.
Successes == {"authorized", "captured", "lapsed"}

OrdersOf(b, statuses) ==
  {o \in Orders : payments[o].booking = b /\ payments[o].status \in statuses}

OpenRefunds(o) ==
  {r \in Refunds : refunds[r].order = o /\ refunds[r].status \in {"pending", "approved"}}

Paid(set) == MapThenSumSet(LAMBDA o : payments[o].amount, set)

ProcessedOf(o, more) ==
  MapThenSumSet(LAMBDA r : refunds[r].amount,
    {r \in Refunds : refunds[r].order = o /\ (refunds[r].status = "processed" \/ r = more)})

\* Variant: only a failure is final.
FinalIfFailed == {"failed"}

\* Statuses in which _settle_payment leaves a payment alone.
Final == {"succeeded", "failed"}

Credited == {"succeeded", "refunded", "partially_refunded"}

-----------------------------------------------------------------------------
(* Transactions *)

Idle == [op |-> "none"]

NoReport == [o \in Orders |-> 0]

\* What determine_payment_amount_minor lets a booking be charged for, and how much.
Chargeable(b, kind) ==
  booking[b] = [deposit |-> "deposit_pending", full |-> "confirmed",
                balance |-> "deposit_paid"][kind]

\* Variant: the balance forgets the deposit.
DueInFull(b, kind) == IF kind = "deposit" THEN Deposit[b] ELSE Total[b]

Due(b, kind) ==
  CASE kind = "deposit" -> Deposit[b]
    [] kind = "full" -> Total[b]
    [] kind = "balance" -> Total[b] - Paid(OrdersOf(b, {"succeeded"}))

\* The orders whose booking the transaction moves to deposit_paid if it credits them.
Opens(o) ==
  {p \in {o} : payments[p].kind = "deposit" /\ booking[payments[p].booking] = "deposit_pending"}

Begin(s, op, t) ==
  /\ op \in Offered
  /\ tx[s] = Idle
  /\ \A u \in Sessions : tx[u] # Idle => {op, tx[u].op} \in Races
  /\ tx' = [tx EXCEPT ![s] = t]
  /\ UNCHANGED <<app, provider>>

End(s) == tx' = [tx EXCEPT ![s] = Idle]

\* The ledger's unique index: an event is handled once, and a second delivery
\* waits for the transaction that is handling the first.
Unhandled(e) ==
  /\ e \notin ledger
  /\ \A u \in Sessions : tx[u].op \in {"webhook", "refund_webhook"} => tx[u].event # e

Init ==
  /\ booking \in [Bookings -> {"deposit_pending", "confirmed"}]
  /\ payments = [o \in Orders |-> [status |-> "none", booking |-> None, kind |-> "none",
                                   amount |-> 0, key |-> None, ref |-> 0]]
  /\ earnings = [o \in Orders |-> "none"]
  /\ refunds = [r \in Refunds |-> [status |-> "none", order |-> None, amount |-> 0,
                                   ref |-> None]]
  /\ payouts = [k \in Payouts |-> {}]
  /\ ledger = {}
  /\ tx = [s \in Sessions |-> Idle]
  /\ attempts = [o \in Orders |-> <<>>]
  /\ prefunds = [x \in ProviderRefunds |-> [status |-> "none", order |-> None,
                                            attempt |-> 0, amount |-> 0]]

-----------------------------------------------------------------------------
(* Customers and the provider *)

\* The customer pays, or fails to pay, an order; the checkout may be tried again
\* until a payment has been captured, whatever the service thinks of the order.
Attempt(o, outcome) ==
  /\ payments[o].status # "none"
  /\ Len(attempts[o]) < MaxAttempts
  /\ \A n \in DOMAIN attempts[o] : attempts[o][n] \notin {"captured", "mismatched"}
  /\ attempts' = [attempts EXCEPT ![o] = Append(@, outcome)]
  /\ UNCHANGED <<app, tx, prefunds>>

\* What was authorized is captured, once for an order, or is not captured in time.
Resolve(o, n, outcome) ==
  /\ n \in DOMAIN attempts[o] /\ attempts[o][n] = "authorized"
  /\ outcome = "captured" =>
       \A m \in DOMAIN attempts[o] : attempts[o][m] \notin {"captured", "mismatched"}
  /\ attempts' = [attempts EXCEPT ![o][n] = outcome]
  /\ UNCHANGED <<app, tx, prefunds>>

ProcessRefund(x) ==
  /\ prefunds[x].status = "pending"
  /\ prefunds' = [prefunds EXCEPT ![x].status = "processed"]
  /\ UNCHANGED <<app, tx, attempts>>

\* A party cancels the booking, or staff marks it disputed.
Cancel(b) ==
  /\ booking[b] # "cancelled"
  /\ booking' = [booking EXCEPT ![b] = "cancelled"]
  /\ UNCHANGED <<payments, earnings, refunds, payouts, ledger, tx, provider>>

-----------------------------------------------------------------------------
(* create_payment_order *)

\* Variant: no look at the orders there are.
StartOrderAgain(s, b, kind, key) ==
  /\ Chargeable(b, kind)
  /\ Due(b, kind) \in Nat \ {0}
  /\ Begin(s, "order", [op |-> "order", booking |-> b, kind |-> kind, key |-> key,
                        amount |-> Due(b, kind)])

\* The row to be: no row with this key, none pending or paid for this purpose, and
\* the amount the booking says, which must be positive.  (A row that is there is
\* handed back, and nothing changes.)
StartOrder(s, b, kind, key) ==
  /\ key # None => \A o \in Orders : payments[o].key # key
  /\ \A o \in OrdersOf(b, {"pending", "succeeded"}) : payments[o].kind # kind
  /\ Chargeable(b, kind)
  /\ Due(b, kind) \in Nat \ {0}
  /\ Begin(s, "order", [op |-> "order", booking |-> b, kind |-> kind, key |-> key,
                        amount |-> Due(b, kind)])

\* The provider has made order o, and the row is inserted.
CommitOrder(s, o) ==
  /\ tx[s].op = "order"
  /\ payments[o].status = "none"
  /\ tx[s].key # None => \A p \in Orders : payments[p].key # tx[s].key
  /\ payments' = [payments EXCEPT ![o] =
       [status |-> "pending", booking |-> tx[s].booking, kind |-> tx[s].kind,
        amount |-> tx[s].amount, key |-> tx[s].key, ref |-> 0]]
  /\ End(s)
  /\ UNCHANGED <<booking, earnings, refunds, payouts, ledger, provider>>

-----------------------------------------------------------------------------
(* _settle_payment: report[o] is the attempt the transaction was told of, or 0 *)

Reported(s, o) == attempts[o][tx[s].report[o]]

\* Variant: the amount is not compared.
CreditsAnyAmount(s, o) ==
  tx[s].report[o] # 0 /\ Reported(s, o) \in Successes \cup {"mismatched"}

\* An authorization is as good as a capture (_SUCCESS_STATUSES).
Credits(s, o) == tx[s].report[o] # 0 /\ Reported(s, o) \in Successes

\* Variant: a payment is marked paid when its failure is reported.
SettledAlways(s, o) == [payments[o] EXCEPT !.status = "succeeded", !.ref = tx[s].report[o]]

\* Variant: the provider's word for the outcome is stored as it is.
SettledVerbatim(s, o) ==
  [payments[o] EXCEPT !.status = Reported(s, o), !.ref = tx[s].report[o]]

\* A mismatch fails the payment without recording the attempt.
Settled(s, o) ==
  IF Reported(s, o) = "mismatched" THEN [payments[o] EXCEPT !.status = "failed"]
  ELSE [payments[o] EXCEPT !.status = IF Credits(s, o) THEN "succeeded" ELSE "failed",
                           !.ref = tx[s].report[o]]

\* An earning is inserted with each payment credited (one per payment, by its
\* unique index), and the booking whose deposit it is moves on.
Settle(s) ==
  /\ \A o \in Orders : Credits(s, o) => earnings[o] = "none"
  /\ payments' = [o \in Orders |-> IF tx[s].report[o] = 0 THEN payments[o] ELSE Settled(s, o)]
  /\ earnings' = [o \in Orders |-> IF Credits(s, o) THEN "unpaid" ELSE earnings[o]]
  /\ booking' = [b \in Bookings |->
       IF \E o \in tx[s].opens : payments[o].booking = b /\ Credits(s, o)
         THEN "deposit_paid" ELSE booking[b]]

\* Variant: an authorization is recorded and not settled.
StartWebhookCaptureOnly(s, e) ==
  LET o == e.order IN
  /\ e.attempt \in DOMAIN attempts[o] /\ e.type \in Notices[attempts[o][e.attempt]]
  /\ Unhandled(e)
  /\ Begin(s, "webhook",
       [op |-> "webhook", event |-> e, opens |-> Opens(o),
        report |-> IF payments[o].status \in Final \/ e.type = "authorized" THEN NoReport
                   ELSE [NoReport EXCEPT ![o] = e.attempt]])

\* A payment notice is delivered.  (One that was handled before changes nothing.)
StartWebhook(s, e) ==
  LET o == e.order IN
  /\ e.attempt \in DOMAIN attempts[o] /\ e.type \in Notices[attempts[o][e.attempt]]
  /\ Unhandled(e)
  /\ Begin(s, "webhook",
       [op |-> "webhook", event |-> e, opens |-> Opens(o),
        report |-> IF payments[o].status \in Final THEN NoReport
                   ELSE [NoReport EXCEPT ![o] = e.attempt]])

CommitWebhook(s) ==
  /\ tx[s].op = "webhook"
  /\ Settle(s)
  /\ ledger' = ledger \cup {tx[s].event}
  /\ End(s)
  /\ UNCHANGED <<refunds, payouts, provider>>

\* reconcile_pending_payments: the pending payments old enough to be asked about ...
StartReconcile(s, batch) ==
  /\ batch # {}
  /\ \A o \in batch : payments[o].status = "pending"
  /\ Begin(s, "reconcile", [op |-> "reconcile", batch |-> batch, opens |-> {},
                            report |-> NoReport])

\* Variant: only failures are taken over.
PollFailuresOnly(s, o) ==
  /\ tx[s].op = "reconcile"
  /\ o \in tx[s].batch
  /\ tx' = [tx EXCEPT ![s].batch = @ \ {o},
                      ![s].report[o] = IF attempts[o] = <<"failed">> THEN 1 ELSE 0,
                      ![s].opens = @ \cup Opens(o)]
  /\ UNCHANGED <<app, provider>>

\* The attempt the provider's answer is about: the latest one.  The status of one that
\* lapsed is neither a success nor a failure, and settles nothing.
Latest(o) ==
  LET n == Len(attempts[o])
  IN  IF n # 0 /\ attempts[o][n] = "lapsed" THEN 0 ELSE n

\* ... each is asked about, one after the other; the latest attempt is believed ...
Poll(s, o) ==
  /\ tx[s].op = "reconcile"
  /\ o \in tx[s].batch
  /\ tx' = [tx EXCEPT ![s].batch = @ \ {o},
                      ![s].report[o] = Latest(o),
                      ![s].opens = @ \cup Opens(o)]
  /\ UNCHANGED <<app, provider>>

\* ... and the command commits once, for all of them.
CommitReconcile(s) ==
  /\ tx[s].op = "reconcile"
  /\ tx[s].batch = {}
  /\ Settle(s)
  /\ End(s)
  /\ UNCHANGED <<refunds, payouts, ledger, provider>>

-----------------------------------------------------------------------------
(* Refunds *)

\* Variant: any payment may be given back.
StartRequestAny(s, o) ==
  /\ payments[o].status # "none"
  /\ OpenRefunds(o) = {}
  /\ payments[o].amount - ProcessedOf(o, None) \in Nat \ {0}
  /\ Begin(s, "request", [op |-> "request", order |-> o,
                          amount |-> payments[o].amount - ProcessedOf(o, None)])

StartRequest(s, o) ==
  /\ payments[o].status \in {"succeeded", "partially_refunded"}
  /\ OpenRefunds(o) = {}
  /\ payments[o].amount - ProcessedOf(o, None) \in Nat \ {0}
  /\ Begin(s, "request", [op |-> "request", order |-> o,
                          amount |-> payments[o].amount - ProcessedOf(o, None)])

CommitRequest(s, r) ==
  /\ tx[s].op = "request"
  /\ refunds[r].status = "none"
  /\ refunds' = [refunds EXCEPT ![r] = [status |-> "pending", order |-> tx[s].order,
                                        amount |-> tx[s].amount, ref |-> None]]
  /\ End(s)
  /\ UNCHANGED <<booking, payments, earnings, payouts, ledger, provider>>

StartApprove(s, r) ==
  /\ refunds[r].status = "pending"
  /\ payments[refunds[r].order].ref # 0
  /\ Begin(s, "approve", [op |-> "approve", refund |-> r, order |-> refunds[r].order,
                          attempt |-> payments[refunds[r].order].ref,
                          amount |-> refunds[r].amount, ref |-> None])

\* The provider pays back what it captured, and no more.
Refundable(o, n, amount) ==
  /\ attempts[o][n] = "captured"
  /\ amount <= payments[o].amount
       - MapThenSumSet(LAMBDA x : prefunds[x].amount,
                       {x \in ProviderRefunds : prefunds[x].order = o})

\* provider.create_refund: from here on the money moves, whatever becomes of us.
CallProvider(s, x) ==
  /\ tx[s].op = "approve" /\ tx[s].ref = None
  /\ Refundable(tx[s].order, tx[s].attempt, tx[s].amount)
  /\ prefunds[x].status = "none"
  /\ prefunds' = [prefunds EXCEPT ![x] = [status |-> "pending", order |-> tx[s].order,
                                          attempt |-> tx[s].attempt,
                                          amount |-> tx[s].amount]]
  /\ tx' = [tx EXCEPT ![s].ref = x]
  /\ UNCHANGED <<app, attempts>>

CommitApprove(s) ==
  /\ tx[s].op = "approve" /\ tx[s].ref # None
  /\ refunds' = [refunds EXCEPT ![tx[s].refund].status = "approved",
                                ![tx[s].refund].ref = tx[s].ref]
  /\ End(s)
  /\ UNCHANGED <<booking, payments, earnings, payouts, ledger, provider>>

\* Variant: any refund can be rejected.
StartRejectAny(s, r) ==
  /\ refunds[r].status # "none"
  /\ Begin(s, "reject", [op |-> "reject", refund |-> r])

StartReject(s, r) ==
  /\ refunds[r].status = "pending"
  /\ Begin(s, "reject", [op |-> "reject", refund |-> r])

CommitReject(s) ==
  /\ tx[s].op = "reject"
  /\ refunds' = [refunds EXCEPT ![tx[s].refund].status = "rejected"]
  /\ End(s)
  /\ UNCHANGED <<booking, payments, earnings, payouts, ledger, provider>>

\* Variant: a refund is always taken for a partial one.
AfterPartial(r) == "partially_refunded"

\* The status of the payment once refund r is processed too.
After(r) ==
  LET o == refunds[r].order
  IN  IF ProcessedOf(o, r) >= payments[o].amount THEN "refunded" ELSE "partially_refunded"

\* The ledger names a refund event by the payment it pays back.
RefundEvent(x) ==
  [type |-> "refund", order |-> prefunds[x].order, attempt |-> prefunds[x].attempt]

\* refund.processed is delivered: the refund with this reference, if there is one
\* that is not processed yet.
StartRefundWebhook(s, x) ==
  /\ prefunds[x].status = "processed"
  /\ Unhandled(RefundEvent(x))
  /\ \/ \E r \in Refunds :
          /\ refunds[r].ref = x /\ refunds[r].status # "processed"
          /\ Begin(s, "refund_webhook",
               [op |-> "refund_webhook", event |-> RefundEvent(x), refund |-> r,
                after |-> After(r)])
     \/ /\ \A r \in Refunds : refunds[r].ref = x => refunds[r].status = "processed"
        /\ Begin(s, "refund_webhook",
             [op |-> "refund_webhook", event |-> RefundEvent(x), refund |-> None,
              after |-> "none"])

CommitRefundWebhook(s) ==
  /\ tx[s].op = "refund_webhook"
  /\ \/ /\ tx[s].refund # None
        /\ refunds' = [refunds EXCEPT ![tx[s].refund].status = "processed"]
        /\ payments' = [payments EXCEPT ![refunds[tx[s].refund].order].status = tx[s].after]
     \/ /\ tx[s].refund = None
        /\ UNCHANGED <<refunds, payments>>
  /\ ledger' = ledger \cup {tx[s].event}
  /\ End(s)
  /\ UNCHANGED <<booking, earnings, payouts, provider>>

-----------------------------------------------------------------------------
(* Payouts *)

\* Variant: earnings that were paid out before are paid out again.
OwedEver(a) ==
  {o \in Orders : earnings[o] # "none" /\ ArtistOf[payments[o].booking] = a}

Owed(a) ==
  {o \in Orders : earnings[o] = "unpaid" /\ ArtistOf[payments[o].booking] = a}

StartPayout(s, a) ==
  /\ Owed(a) # {}
  /\ Begin(s, "payout", [op |-> "payout", owed |-> Owed(a)])

CommitPayout(s, k) ==
  /\ tx[s].op = "payout"
  /\ payouts[k] = {}
  /\ payouts' = [payouts EXCEPT ![k] = tx[s].owed]
  /\ earnings' = [o \in Orders |-> IF o \in tx[s].owed THEN k ELSE earnings[o]]
  /\ End(s)
  /\ UNCHANGED <<booking, payments, refunds, ledger, provider>>

-----------------------------------------------------------------------------
(* Transactions that do not commit *)

\* A unique index or the provider says no: ROLLBACK.
Refuse(s) ==
  /\ \/ /\ tx[s].op = "order" /\ tx[s].key # None
        /\ \E p \in Orders : payments[p].key = tx[s].key
     \/ /\ \/ tx[s].op = "webhook"
           \/ tx[s].op = "reconcile" /\ tx[s].batch = {}
        /\ \E o \in Orders : Credits(s, o) /\ earnings[o] # "none"
     \/ /\ tx[s].op = "approve" /\ tx[s].ref = None
        /\ ~ Refundable(tx[s].order, tx[s].attempt, tx[s].amount)
  /\ End(s)
  /\ UNCHANGED <<app, provider>>

\* The process goes away, or a call to the provider fails: ROLLBACK.
Abort(s) ==
  /\ tx[s] # Idle
  /\ End(s)
  /\ UNCHANGED <<app, provider>>

Starts(s) ==
  \/ \E b \in Bookings, kind \in Kinds, key \in Keys \cup {None} : StartOrder(s, b, kind, key)
  \/ \E o \in Orders : \/ StartRequest(s, o)
                       \/ \E n \in 1 .. MaxAttempts, type \in {"authorized", "captured", "failed"} :
                            StartWebhook(s, [type |-> type, order |-> o, attempt |-> n])
  \/ \E batch \in SUBSET Orders : StartReconcile(s, batch)
  \/ \E r \in Refunds : StartApprove(s, r) \/ StartReject(s, r)
  \/ \E x \in ProviderRefunds : StartRefundWebhook(s, x)
  \/ \E a \in Artists : StartPayout(s, a)

Advance(s) ==
  \/ \E o \in Orders : CommitOrder(s, o) \/ Poll(s, o)
  \/ CommitWebhook(s) \/ CommitReconcile(s)
  \/ \E r \in Refunds : CommitRequest(s, r)
  \/ \E x \in ProviderRefunds : CallProvider(s, x)
  \/ CommitApprove(s) \/ CommitReject(s) \/ CommitRefundWebhook(s)
  \/ \E k \in Payouts : CommitPayout(s, k)

Next ==
  \/ \E o \in Orders :
       \/ \E outcome \in {"authorized", "mismatched", "failed"} : Attempt(o, outcome)
       \/ \E n \in 1 .. MaxAttempts, outcome \in {"captured", "lapsed"} : Resolve(o, n, outcome)
  \/ \E x \in ProviderRefunds : ProcessRefund(x)
  \/ \E b \in Bookings : Cancel(b)
  \/ \E s \in Sessions : Starts(s) \/ Advance(s) \/ Refuse(s) \/ Abort(s)

Spec == Init /\ [][Next]_vars

-----------------------------------------------------------------------------
(* Properties *)

OrderTx == [op : {"order"}, booking : Bookings, kind : Kinds, key : Keys \cup {None},
            amount : Nat]
WebhookTx == [op : {"webhook"}, event : Event, opens : SUBSET Orders,
              report : [Orders -> Nat]]
ReconcileTx == [op : {"reconcile"}, batch : SUBSET Orders, opens : SUBSET Orders,
                report : [Orders -> Nat]]
RequestTx == [op : {"request"}, order : Orders, amount : Nat]
ApproveTx == [op : {"approve"}, refund : Refunds, order : Orders, attempt : Nat,
              amount : Nat, ref : ProviderRefunds \cup {None}]
RejectTx == [op : {"reject"}, refund : Refunds]
RefundWebhookTx == [op : {"refund_webhook"}, event : Event, refund : Refunds \cup {None},
                    after : PaymentStatus]
PayoutTx == [op : {"payout"}, owed : SUBSET Orders]

Tx == {Idle} \cup OrderTx \cup WebhookTx \cup ReconcileTx \cup RequestTx \cup ApproveTx
      \cup RejectTx \cup RefundWebhookTx \cup PayoutTx

\* Every row and transaction is of the kind the schema and the handlers allow.
TypeOK ==
  /\ booking \in [Bookings -> BookingStatus]
  /\ payments \in [Orders -> Payment]
  /\ earnings \in [Orders -> {"none", "unpaid"} \cup Payouts]
  /\ refunds \in [Refunds -> Refund]
  /\ payouts \in [Payouts -> SUBSET Orders]
  /\ ledger \subseteq Event
  /\ tx \in [Sessions -> Tx]
  /\ attempts \in [Orders -> Seq(Outcomes)]
  /\ prefunds \in [ProviderRefunds -> ProviderRefund]

Captured(o) == \E n \in DOMAIN attempts[o] : attempts[o][n] = "captured"
Accepted(o) == \E n \in DOMAIN attempts[o] : attempts[o][n] \in Successes

\* Whatever is lost, repeated, reordered or crashes: a payment counts as paid, or its
\* booking's deposit does, only if the artist has an earning for it, and an artist has
\* one only if the provider authorized or captured exactly the amount of the order
\* (docs/payments.md section 4).  That the money is captured in the end is not promised:
\* what was credited on an authorization stays credited when the authorization lapses.
CreditIsBacked ==
  /\ \A o \in Orders :
       /\ payments[o].status \in Credited => earnings[o] # "none"
       /\ earnings[o] # "none" => Accepted(o)
  /\ \A b \in Bookings :
       booking[b] = "deposit_paid" =>
         \E o \in Orders :
           payments[o].booking = b /\ payments[o].kind = "deposit" /\ earnings[o] # "none"

\* Nobody is paid, and nothing is given back, for an order without an earning: every
\* refund, and every request and payout under way, is of one that has it, although it was
\* looked at earlier, and what a settlement is about to write was reported of an attempt.
Backed(t) ==
  /\ t.op \in {"webhook", "reconcile"} =>
       /\ \A o \in Orders : t.report[o] # 0 => t.report[o] \in DOMAIN attempts[o]
       /\ \A o \in t.opens : payments[o].status # "none" /\ payments[o].kind = "deposit"
  /\ t.op = "reconcile" => \A o \in t.batch : payments[o].status # "none"
  /\ t.op = "request" => earnings[t.order] # "none"
  /\ t.op = "payout" => \A o \in t.owed : earnings[o] # "none"
  /\ t.op \in {"approve", "reject"} => refunds[t.refund].status # "none"
  /\ t.op = "refund_webhook" /\ t.refund # None =>
       refunds[t.refund].status # "none" /\ t.after \in Credited

CreditInv ==
  /\ \A s \in Sessions : Backed(tx[s])
  /\ \A o \in Orders : attempts[o] # <<>> => payments[o].status # "none"
  /\ \A r \in Refunds :
       /\ refunds[r].status # "none" =>
            refunds[r].order \in Orders /\ earnings[refunds[r].order] # "none"
       /\ refunds[r].ref # None => refunds[r].status # "none"
  /\ \A x \in ProviderRefunds : prefunds[x].status # "none" => prefunds[x].order \in Orders
  /\ CreditIsBacked

\* A booking never has two orders pending or paid for the same purpose
\* (create_payment_order: double-tapping Pay makes no second live order).
OneLiveOrder ==
  \A b \in Bookings : \A o, p \in OrdersOf(b, {"pending", "succeeded"}) :
    payments[o].kind = payments[p].kind => o = p

\* What a booking has paid and may still be asked for never exceeds its price.
NeverOvercharged ==
  \A b \in Bookings : Paid(OrdersOf(b, {"pending", "succeeded"})) <= Total[b]

\* The artist has an earning for exactly the payments that were credited.
EarningMatchesCredit ==
  \A o \in Orders : (earnings[o] # "none") <=> (payments[o].status \in Credited)

\* A notice that was acknowledged took effect: an order whose success was reported is
\* credited (docs/payments.md sections 3a and 10).
HandledIsCredited ==
  \A e \in ledger :
    e.type \in {"authorized", "captured"} /\ attempts[e.order][e.attempt] \in Successes
      => earnings[e.order] # "none"

\* A payment is fully refunded exactly when the refunds processed add up to it, and
\* they never add up to more, although refunds may be requested side by side.
RefundsAddUp ==
  \A o \in Orders :
    LET sum == ProcessedOf(o, None)
    IN  /\ sum <= payments[o].amount
        /\ payments[o].status = "refunded" <=> sum > 0 /\ sum = payments[o].amount

\* No refund that staff rejected was approved, whatever notices, repeated approvals
\* and lost calls there were: it carries no reference of the provider's
\* (approve_refund, reject_refund).
RejectedIsUnpaid ==
  \A r \in Refunds : refunds[r].status = "rejected" => refunds[r].ref = None

\* Refunds agree with what the provider returned, a rejected one pays nothing, and orders
\* ask for no more than the price, also where a deposit was given back.
MoneyAddsUp == NeverOvercharged /\ RefundsAddUp /\ RejectedIsUnpaid

\* An earning is part of the payout it names and of no other one.
PaidOutOnce ==
  \A o \in Orders, k \in Payouts : o \in payouts[k] <=> earnings[o] = k

\* A credited payment is never taken back to pending or failed, and an artist's
\* earning is never taken away (_settle_payment: "already settled").
SettledStaysSo ==
  \A o \in Orders :
    /\ payments[o].status \in Credited => payments'[o].status \in Credited
    /\ earnings[o] # "none" => earnings'[o] # "none"
SettledIsFinal == [][SettledStaysSo]_<<payments, earnings>>

-----------------------------------------------------------------------------
(* The life of a payment *)

Stage(o) ==
  CASE payments[o].status = "none" -> "none"
    [] payments[o].status = "pending" -> "open"
    [] payments[o].status = "failed" -> "closed"
    [] payments[o].status = "succeeded" -> "credited"
    [] OTHER -> "returned"

\* Whatever notices, reconciliations, refunds and payouts meet, an order that is
\* attempted once lives as PaymentLife says: a success, and only a success, is
\* credited, once and with its earning, and no decision is taken back but by a refund.
Life == INSTANCE PaymentLife WITH
  stage <- [o \in Orders |-> Stage(o)],
  accepted <- {o \in Orders : Accepted(o)},
  owed <- {o \in Orders : earnings[o] # "none"}

ImplementsPaymentLife == Life!Spec

-----------------------------------------------------------------------------
(* Reconciliation *)

\* A transaction's statements are answered.  An operator runs the command again and
\* again, old orders included, and it is not broken off at the same point for ever.
\* Nothing is assumed of webhooks: all may be lost.
Fairness ==
  \A s \in Sessions :
    /\ WF_vars(Advance(s))
    /\ \A o \in Orders :
         /\ SF_vars(\E batch \in SUBSET Orders : o \in batch /\ StartReconcile(s, batch))
         /\ \A batch \in SUBSET Orders :
              SF_vars(tx[s].op = "reconcile" /\ tx[s].batch = batch /\ Poll(s, o))
    /\ SF_vars(CommitReconcile(s))

FairSpec == Spec /\ Fairness

\* Money the provider captured for a pending payment is credited in the end, even
\* if no webhook ever arrives (docs/payments.md section 10).
CapturedIsCredited ==
  \A o \in Orders :
    (payments[o].status = "pending" /\ Captured(o)) ~> (payments[o].status \in Credited)
=============================================================================
