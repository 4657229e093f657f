--------------------------- MODULE PaymentsProofs ---------------------------
(***************************************************************************)
(* Theorems about Payments.tla: whatever transactions run side by side,    *)
(* whatever notices are lost, late or repeated and whatever crashes,       *)
(* nothing counts as paid whose amount the provider did not authorize.     *)
(* Then how the service settles: earnings and credits agree, acknowledged  *)
(* notices took effect, earnings are paid out once, a booking has one      *)
(* live order for a purpose, and a rejected refund was not paid.  Last the *)
(* sums: no booking is charged more than its price, and the refunds of a   *)
(* payment add up to it.  Each names the races, or the attempts on an      *)
(* order, that it assumes; MCPayments shows what happens without.          *)
(***************************************************************************)
EXTENDS Payments, FiniteSetTheorems, TLAPS

(***************************************************************************)
(* Transactions                                                            *)
(***************************************************************************)

\* The operation of a transaction tells its kind.
LEMMA TxKinds ==
  ASSUME NEW t \in Tx
  PROVE  /\ t.op = "order" => t \in OrderTx
         /\ t.op = "webhook" => t \in WebhookTx
         /\ t.op = "reconcile" => t \in ReconcileTx
         /\ t.op = "request" => t \in RequestTx
         /\ t.op = "approve" => t \in ApproveTx
         /\ t.op = "reject" => t \in RejectTx
         /\ t.op = "refund_webhook" => t \in RefundWebhookTx
         /\ t.op = "payout" => t \in PayoutTx
BY DEF Tx, Idle, OrderTx, WebhookTx, ReconcileTx, RequestTx, ApproveTx, RejectTx,
       RefundWebhookTx, PayoutTx

\* A session without a transaction claims nothing.
LEMMA IdleBacked == Idle \in Tx /\ Backed(Idle)
BY DEF Idle, Tx, Backed

\* A step that only changes what one session is doing keeps types and invariant.
LEMMA TxOnly ==
  ASSUME TypeOK, CreditInv, NEW s \in Sessions,
         \E t \in Tx : Backed(t) /\ tx' = [tx EXCEPT ![s] = t],
         UNCHANGED <<app, provider>>
  PROVE  TypeOK' /\ CreditInv'
<1>1. PICK t \in Tx : Backed(t) /\ tx' = [tx EXCEPT ![s] = t]
  OBVIOUS
<1>2. TypeOK'
  BY <1>1 DEF TypeOK, app, provider
<1>3. \A u \in Sessions : tx'[u] = t \/ tx'[u] = tx[u]
  BY <1>1 DEF TypeOK
<1>4. \A u \in Sessions : Backed(tx[u])'
  <2>1. Backed(t)'
    BY <1>1 DEF Backed, Accepted, app, provider
  <2>2. \A u \in Sessions : tx'[u] = tx[u] => Backed(tx[u])'
    BY DEF CreditInv, Backed, Accepted, app, provider
  <2>3. \A u \in Sessions : tx'[u] = t => Backed(tx[u])'
    BY <2>1 DEF Backed, Accepted
  <2>4. QED
    BY <1>3, <2>2, <2>3
<1>5. QED
  BY <1>2, <1>4 DEF CreditInv, CreditIsBacked, Accepted, app, provider

\* The orders a transaction may open are orders of deposits that exist.
LEMMA OpensDeposits ==
  ASSUME NEW o \in Orders, payments[o].status # "none"
  PROVE  /\ Opens(o) \subseteq Orders
         /\ \A p \in Opens(o) : payments[p].status # "none" /\ payments[p].kind = "deposit"
BY DEF Opens

(***************************************************************************)
(* Starting a transaction                                                  *)
(***************************************************************************)

\* An order request: the amount is a number, and nothing is claimed yet.
LEMMA StartOrderKeeps ==
  ASSUME TypeOK, CreditInv, NEW s \in Sessions, NEW b \in Bookings, NEW kind \in Kinds,
         NEW key \in Keys \cup {None}, StartOrder(s, b, kind, key)
  PROVE  TypeOK' /\ CreditInv'
<1> DEFINE t == [op |-> "order", booking |-> b, kind |-> kind, key |-> key,
                 amount |-> Due(b, kind)]
<1>1. t \in Tx
  BY DEF StartOrder, Tx, OrderTx
<1>2. Backed(t)
  BY DEF Backed
<1>3. tx' = [tx EXCEPT ![s] = t] /\ UNCHANGED <<app, provider>>
  BY DEF StartOrder, Begin
<1>4. QED
  <2> HIDE DEF t
  <2> QED BY <1>1, <1>2, <1>3, TxOnly

\* A webhook: the attempt it reports was made, so its order exists.
LEMMA StartWebhookKeeps ==
  ASSUME TypeOK, CreditInv, NEW s \in Sessions, NEW e \in Event, StartWebhook(s, e)
  PROVE  TypeOK' /\ CreditInv'
<1> DEFINE o == e.order
           rep == IF payments[o].status \in Final THEN NoReport
                  ELSE [NoReport EXCEPT ![o] = e.attempt]
           t == [op |-> "webhook", event |-> e, opens |-> Opens(o), report |-> rep]
<1>1. o \in Orders /\ e.attempt \in Nat /\ e.attempt \in DOMAIN attempts[o]
  BY DEF StartWebhook, Event
<1>2. attempts[o] # <<>>
  BY <1>1 DEF TypeOK
<1>3. payments[o].status # "none"
  BY <1>1, <1>2 DEF CreditInv
<1>4. /\ rep \in [Orders -> Nat]
      /\ \A p \in Orders : rep[p] # 0 => rep[p] \in DOMAIN attempts[p]
  BY <1>1 DEF NoReport
<1>5. t \in Tx
  BY <1>1, <1>3, <1>4, OpensDeposits DEF Tx, WebhookTx
<1>6. Backed(t)
  <2>1. t.op = "webhook" /\ t.report = rep /\ t.opens = Opens(o)
    OBVIOUS
  <2> HIDE DEF t, rep, o
  <2>2. QED
    BY <1>1, <1>3, <1>4, <2>1, OpensDeposits DEF Backed
<1>7. tx' = [tx EXCEPT ![s] = t] /\ UNCHANGED <<app, provider>>
  BY DEF StartWebhook, Begin
<1>8. QED
  <2> HIDE DEF t
  <2> QED BY <1>5, <1>6, <1>7, TxOnly

\* A run of the reconciliation command: it has reports of nothing yet.
LEMMA StartReconcileKeeps ==
  ASSUME TypeOK, CreditInv, NEW s \in Sessions, NEW batch \in SUBSET Orders,
         StartReconcile(s, batch)
  PROVE  TypeOK' /\ CreditInv'
<1> DEFINE t == [op |-> "reconcile", batch |-> batch, opens |-> {}, report |-> NoReport]
<1>1. t \in Tx
  BY DEF Tx, ReconcileTx, NoReport
<1>2. Backed(t)
  BY DEF Backed, NoReport, StartReconcile
<1>3. tx' = [tx EXCEPT ![s] = t] /\ UNCHANGED <<app, provider>>
  BY DEF StartReconcile, Begin
<1>4. QED
  <2> HIDE DEF t
  <2> QED BY <1>1, <1>2, <1>3, TxOnly

\* A refund request: only a payment that counts as paid can be refunded.
LEMMA StartRequestKeeps ==
  ASSUME TypeOK, CreditInv, NEW s \in Sessions, NEW o \in Orders, StartRequest(s, o)
  PROVE  TypeOK' /\ CreditInv'
<1> DEFINE t == [op |-> "request", order |-> o,
                 amount |-> payments[o].amount - ProcessedOf(o, None)]
<1>1. t \in Tx
  BY DEF StartRequest, Tx, RequestTx
<1>2. earnings[o] # "none"
  BY DEF StartRequest, CreditInv, CreditIsBacked, Credited
<1>3. Backed(t)
  BY <1>2 DEF Backed
<1>4. tx' = [tx EXCEPT ![s] = t] /\ UNCHANGED <<app, provider>>
  BY DEF StartRequest, Begin
<1>5. QED
  <2> HIDE DEF t
  <2> QED BY <1>1, <1>3, <1>4, TxOnly

\* Approving a refund: it names the payment it is of.
LEMMA StartApproveKeeps ==
  ASSUME TypeOK, CreditInv, NEW s \in Sessions, NEW r \in Refunds, StartApprove(s, r)
  PROVE  TypeOK' /\ CreditInv'
<1> DEFINE o == refunds[r].order
           t == [op |-> "approve", refund |-> r, order |-> o, attempt |-> payments[o].ref,
                 amount |-> refunds[r].amount, ref |-> None]
<1>1. o \in Orders
  BY DEF StartApprove, CreditInv
<1>2. payments[o].ref \in Nat /\ refunds[r].amount \in Nat
  BY <1>1 DEF TypeOK, Payment, Refund
<1>3. t \in Tx
  BY <1>1, <1>2 DEF Tx, ApproveTx
<1>4. Backed(t)
  BY DEF Backed, StartApprove
<1>5. tx' = [tx EXCEPT ![s] = t] /\ UNCHANGED <<app, provider>>
  BY DEF StartApprove, Begin
<1>6. QED
  <2> HIDE DEF t
  <2> QED BY <1>3, <1>4, <1>5, TxOnly

\* Rejecting a refund.
LEMMA StartRejectKeeps ==
  ASSUME TypeOK, CreditInv, NEW s \in Sessions, NEW r \in Refunds, StartReject(s, r)
  PROVE  TypeOK' /\ CreditInv'
<1> DEFINE t == [op |-> "reject", refund |-> r]
<1>1. t \in Tx
  BY DEF Tx, RejectTx
<1>2. Backed(t)
  BY DEF Backed, StartReject
<1>3. tx' = [tx EXCEPT ![s] = t] /\ UNCHANGED <<app, provider>>
  BY DEF StartReject, Begin
<1>4. QED
  <2> HIDE DEF t
  <2> QED BY <1>1, <1>2, <1>3, TxOnly

\* A refund notice: the refund it finds is one that was requested.
LEMMA StartRefundWebhookKeeps ==
  ASSUME TypeOK, CreditInv, NEW s \in Sessions, NEW x \in ProviderRefunds,
         StartRefundWebhook(s, x)
  PROVE  TypeOK' /\ CreditInv'
<1> DEFINE e == RefundEvent(x)
<1>1. e \in Event
  BY DEF RefundEvent, Event, StartRefundWebhook, CreditInv, TypeOK, ProviderRefund
<1>2. CASE \E r \in Refunds :
             /\ refunds[r].ref = x /\ refunds[r].status # "processed"
             /\ Begin(s, "refund_webhook",
                  [op |-> "refund_webhook", event |-> e, refund |-> r, after |-> After(r)])
  <2>1. PICK r \in Refunds :
             /\ refunds[r].ref = x /\ refunds[r].status # "processed"
             /\ Begin(s, "refund_webhook",
                  [op |-> "refund_webhook", event |-> e, refund |-> r, after |-> After(r)])
    BY <1>2
  <2> DEFINE t == [op |-> "refund_webhook", event |-> e, refund |-> r, after |-> After(r)]
  <2>2. After(r) \in {"refunded", "partially_refunded"}
    BY DEF After
  <2>3. t \in Tx
    <3> HIDE DEF e
    <3> QED BY <1>1, <2>2 DEF Tx, RefundWebhookTx, PaymentStatus
  <2>4. refunds[r].status # "none"
    BY <2>1, PaymentsAssumption DEF CreditInv, TypeOK
  <2>5. Backed(t)
    BY <2>2, <2>4 DEF Backed, Credited
  <2>6. tx' = [tx EXCEPT ![s] = t] /\ UNCHANGED <<app, provider>>
    BY <2>1 DEF Begin
  <2>7. QED
    <3> HIDE DEF t
    <3> QED BY <2>3, <2>5, <2>6, TxOnly
<1>3. CASE Begin(s, "refund_webhook",
                 [op |-> "refund_webhook", event |-> e, refund |-> None, after |-> "none"])
  <2> DEFINE t == [op |-> "refund_webhook", event |-> e, refund |-> None, after |-> "none"]
  <2>1. t \in Tx
    <3> HIDE DEF e
    <3> QED BY <1>1 DEF Tx, RefundWebhookTx, PaymentStatus
  <2>2. Backed(t)
    BY DEF Backed
  <2>3. tx' = [tx EXCEPT ![s] = t] /\ UNCHANGED <<app, provider>>
    BY <1>3 DEF Begin
  <2>4. QED
    <3> HIDE DEF t
    <3> QED BY <2>1, <2>2, <2>3, TxOnly
<1>4. QED
  BY <1>2, <1>3 DEF StartRefundWebhook

\* A payout batch.
LEMMA StartPayoutKeeps ==
  ASSUME TypeOK, CreditInv, NEW s \in Sessions, NEW a \in Artists, StartPayout(s, a)
  PROVE  TypeOK' /\ CreditInv'
<1> DEFINE t == [op |-> "payout", owed |-> Owed(a)]
<1>1. t \in Tx
  BY DEF Tx, PayoutTx, Owed
<1>2. Backed(t)
  BY DEF Backed, Owed
<1>3. tx' = [tx EXCEPT ![s] = t] /\ UNCHANGED <<app, provider>>
  BY DEF StartPayout, Begin
<1>4. QED
  <2> HIDE DEF t
  <2> QED BY <1>1, <1>2, <1>3, TxOnly

(***************************************************************************)
(* Committing                                                              *)
(***************************************************************************)

\* What no step takes back: attempts and their successes, earnings, the rows there are
\* and what they are for.
Grows ==
  /\ \A o \in Orders : \A n \in DOMAIN attempts[o] :
       /\ n \in DOMAIN attempts'[o]
       /\ attempts[o][n] \in Successes => attempts'[o][n] \in Successes
  /\ \A o \in Orders : earnings[o] # "none" => earnings'[o] # "none"
  /\ \A o \in Orders : payments[o].status # "none" =>
       /\ payments'[o].status # "none"
       /\ payments'[o].booking = payments[o].booking
       /\ payments'[o].kind = payments[o].kind
  /\ \A r \in Refunds : refunds[r].status # "none" =>
       /\ refunds'[r].status # "none"
       /\ refunds'[r].order = refunds[r].order

\* What was accepted stays accepted.
LEMMA AcceptedStays ==
  ASSUME Grows, NEW o \in Orders, Accepted(o)
  PROVE  Accepted(o)'
BY DEF Grows, Accepted

\* What a transaction claims stays true while others commit.
LEMMA ClaimsStay ==
  ASSUME Grows, NEW t \in Tx, Backed(t)
  PROVE  Backed(t)'
<1>1. CASE t.op \in {"webhook", "reconcile"}
  <2>1. t.opens \subseteq Orders /\ (t.op = "reconcile" => t.batch \subseteq Orders)
    BY <1>1, TxKinds DEF WebhookTx, ReconcileTx
  <2>2. \A o \in Orders : t.report[o] # 0 => t.report[o] \in DOMAIN attempts'[o]
    BY <1>1 DEF Backed, Grows
  <2>3. \A o \in t.opens : payments'[o].status # "none" /\ payments'[o].kind = "deposit"
    BY <1>1, <2>1 DEF Backed, Grows
  <2>4. t.op = "reconcile" => \A o \in t.batch : payments'[o].status # "none"
    BY <1>1, <2>1 DEF Backed, Grows
  <2>5. QED
    BY <1>1, <2>2, <2>3, <2>4 DEF Backed
<1>2. CASE t.op = "request"
  <2>1. t.order \in Orders
    BY <1>2, TxKinds DEF RequestTx
  <2>2. earnings'[t.order] # "none"
    BY <1>2, <2>1 DEF Backed, Grows
  <2>3. QED
    BY <1>2, <2>2 DEF Backed, Accepted
<1>3. CASE t.op \in {"approve", "reject"}
  BY <1>3, TxKinds DEF Backed, Grows, ApproveTx, RejectTx
<1>4. CASE t.op = "refund_webhook"
  BY <1>4, TxKinds DEF Backed, Grows, RefundWebhookTx
<1>5. CASE t.op = "payout"
  <2>1. t.owed \subseteq Orders
    BY <1>5, TxKinds DEF PayoutTx
  <2>2. \A o \in t.owed : earnings'[o] # "none"
    BY <1>5, <2>1 DEF Backed, Grows
  <2>3. QED
    BY <1>5, <2>2 DEF Backed, Accepted
<1>6. CASE t.op \notin {"webhook", "reconcile", "request", "approve", "reject",
                        "refund_webhook", "payout"}
  BY <1>6 DEF Backed
<1>7. QED
  BY <1>1, <1>2, <1>3, <1>4, <1>5, <1>6

\* When one transaction ends, or none, the others' claims stay true.
LEMMA OthersStay ==
  ASSUME TypeOK, CreditInv, Grows,
         \A u \in Sessions : tx'[u] = Idle \/ tx'[u] = tx[u]
  PROVE  \A u \in Sessions : Backed(tx[u])'
<1> SUFFICES ASSUME NEW u \in Sessions
             PROVE  Backed(tx[u])'
  OBVIOUS
<1>1. CASE tx'[u] = Idle
  BY <1>1 DEF Idle, Backed
<1>2. CASE tx'[u] = tx[u]
  <2>1. PICK t \in Tx : t = tx[u]
    BY DEF TypeOK
  <2>2. Backed(t)
    BY <2>1 DEF CreditInv, Backed, Accepted
  <2>3. Backed(t)'
    BY <2>2, ClaimsStay
  <2>4. QED
    BY <1>2, <2>1, <2>3 DEF Backed, Accepted
<1>3. QED
  BY <1>1, <1>2

\* Ending a transaction.
LEMMA EndFacts ==
  ASSUME TypeOK, NEW s \in Sessions, End(s)
  PROVE  /\ tx' \in [Sessions -> Tx]
         /\ \A u \in Sessions : tx'[u] = Idle \/ tx'[u] = tx[u]
BY IdleBacked DEF End, TypeOK

\* Settling credits only payments whose report was of a success, each with its earning,
\* and neither forgets a payment or an earning nor changes what a payment is for.
LEMMA SettleFacts ==
  ASSUME TypeOK, CreditInv, NEW s \in Sessions, tx[s].op \in {"webhook", "reconcile"},
         Settle(s)
  PROVE  /\ payments' \in [Orders -> Payment]
         /\ earnings' \in [Orders -> {"none", "unpaid"} \cup Payouts]
         /\ booking' \in [Bookings -> BookingStatus]
         /\ \A o \in Orders :
              /\ payments'[o].booking = payments[o].booking
              /\ payments'[o].kind = payments[o].kind
              /\ payments[o].status # "none" => payments'[o].status # "none"
              /\ payments'[o].status \in Credited => earnings'[o] # "none"
              /\ earnings[o] # "none" => earnings'[o] # "none"
              /\ earnings'[o] # "none" => Accepted(o)
         /\ \A b \in Bookings : booking'[b] = "deposit_paid" =>
              \E o \in Orders : /\ payments[o].booking = b /\ payments[o].kind = "deposit"
                                /\ earnings'[o] # "none"
<1>1. /\ tx[s].report \in [Orders -> Nat]
      /\ tx[s].opens \subseteq Orders
  BY TxKinds DEF TypeOK, WebhookTx, ReconcileTx
<1>2. \A o \in Orders : tx[s].report[o] # 0 => tx[s].report[o] \in DOMAIN attempts[o]
  BY DEF CreditInv, Backed
<1>3. \A o \in Orders : Credits(s, o) => Accepted(o)
  BY <1>2 DEF Credits, Accepted, Reported
<1>4. ASSUME NEW o \in Orders
      PROVE  /\ Settled(s, o) \in Payment
             /\ Settled(s, o).booking = payments[o].booking
             /\ Settled(s, o).kind = payments[o].kind
             /\ Settled(s, o).status \in {"succeeded", "failed"}
             /\ tx[s].report[o] # 0 /\ Settled(s, o).status = "succeeded" => Credits(s, o)
  <2>1. payments[o] \in Payment /\ tx[s].report[o] \in Nat
    BY <1>1 DEF TypeOK
  <2>2. CASE Reported(s, o) = "mismatched"
    <3>1. Settled(s, o) = [payments[o] EXCEPT !.status = "failed"]
      BY <2>2 DEF Settled
    <3>2. QED
      BY <2>1, <3>1 DEF Payment, PaymentStatus
  <2>3. CASE Reported(s, o) # "mismatched"
    <3>1. Settled(s, o) = [payments[o] EXCEPT
            !.status = IF Credits(s, o) THEN "succeeded" ELSE "failed",
            !.ref = tx[s].report[o]]
      BY <2>3 DEF Settled
    <3>2. QED
      BY <2>1, <3>1 DEF Payment, PaymentStatus
  <2>4. QED
    BY <2>2, <2>3
<1>5. \A o \in Orders :
        payments'[o] = IF tx[s].report[o] = 0 THEN payments[o] ELSE Settled(s, o)
  BY DEF Settle
<1>6. \A o \in Orders : earnings'[o] = IF Credits(s, o) THEN "unpaid" ELSE earnings[o]
  BY DEF Settle
<1>7. payments' \in [Orders -> Payment]
  <2>1. \A o \in Orders :
          (IF tx[s].report[o] = 0 THEN payments[o] ELSE Settled(s, o)) \in Payment
    BY <1>4 DEF TypeOK
  <2>2. QED
    BY <2>1 DEF Settle
<1>8. earnings' \in [Orders -> {"none", "unpaid"} \cup Payouts]
  BY DEF Settle, TypeOK
<1>9. booking' \in [Bookings -> BookingStatus]
  BY DEF Settle, TypeOK, BookingStatus
<1>10. ASSUME NEW o \in Orders
       PROVE  /\ payments'[o].booking = payments[o].booking
              /\ payments'[o].kind = payments[o].kind
              /\ payments[o].status # "none" => payments'[o].status # "none"
              /\ payments'[o].status \in Credited => earnings'[o] # "none"
              /\ earnings[o] # "none" => earnings'[o] # "none"
              /\ earnings'[o] # "none" => Accepted(o)
  <2>1. /\ payments[o].status \in Credited => earnings[o] # "none"
        /\ earnings[o] # "none" => Accepted(o)
    BY DEF CreditInv, CreditIsBacked
  <2>2. CASE tx[s].report[o] = 0
    BY <1>5, <1>6, <2>1, <2>2 DEF Credits
  <2>3. CASE tx[s].report[o] # 0
    BY <1>3, <1>4, <1>5, <1>6, <2>1, <2>3 DEF Credited
  <2>4. QED
    BY <2>2, <2>3
<1>11. ASSUME NEW b \in Bookings, booking'[b] = "deposit_paid"
       PROVE  \E o \in Orders : /\ payments[o].booking = b /\ payments[o].kind = "deposit"
                                /\ earnings'[o] # "none"
  <2>1. CASE \E o \in tx[s].opens : payments[o].booking = b /\ Credits(s, o)
    <3>1. PICK o \in tx[s].opens : payments[o].booking = b /\ Credits(s, o)
      BY <2>1
    <3>2. o \in Orders /\ payments[o].kind = "deposit"
      BY <1>1, <3>1 DEF CreditInv, Backed
    <3>3. QED
      BY <1>6, <3>1, <3>2
  <2>2. CASE ~ \E o \in tx[s].opens : payments[o].booking = b /\ Credits(s, o)
    <3>1. booking[b] = "deposit_paid"
      BY <1>11, <2>2 DEF Settle
    <3>2. PICK o \in Orders : /\ payments[o].booking = b /\ payments[o].kind = "deposit"
                              /\ earnings[o] # "none"
      BY <3>1 DEF CreditInv, CreditIsBacked
    <3>3. QED
      BY <1>10, <3>2
  <2>3. QED
    BY <2>1, <2>2
<1>12. QED
  BY <1>7, <1>8, <1>9, <1>10, <1>11

\* A settlement keeps types and invariant, whether a webhook's or reconciliation's.
LEMMA SettleKeeps ==
  ASSUME TypeOK, CreditInv, NEW s \in Sessions, tx[s].op \in {"webhook", "reconcile"},
         Settle(s), End(s), ledger' \subseteq Event,
         UNCHANGED <<refunds, payouts, provider>>
  PROVE  TypeOK' /\ CreditInv'
<1>1. TypeOK'
  BY SettleFacts, EndFacts DEF TypeOK, provider
<1>2. Grows
  BY SettleFacts DEF Grows, provider
<1>3. \A u \in Sessions : Backed(tx[u])'
  BY <1>2, OthersStay, EndFacts
<1>4. CreditIsBacked'
  <2>1. \A o \in Orders : Accepted(o) => Accepted(o)'
    BY <1>2, AcceptedStays
  <2>2. \A o \in Orders : /\ payments'[o].status \in Credited => earnings'[o] # "none"
                          /\ earnings'[o] # "none" => Accepted(o)'
    BY <2>1, SettleFacts
  <2>3. ASSUME NEW b \in Bookings, booking'[b] = "deposit_paid"
        PROVE  \E o \in Orders : /\ payments'[o].booking = b /\ payments'[o].kind = "deposit"
                                 /\ earnings'[o] # "none"
    BY <2>3, SettleFacts
  <2>4. QED
    BY <2>2, <2>3 DEF CreditIsBacked
<1>5. \A o \in Orders : attempts'[o] # <<>> => payments'[o].status # "none"
  BY SettleFacts DEF CreditInv, provider
<1>6. (\A r \in Refunds :
         /\ refunds[r].status # "none" =>
              refunds[r].order \in Orders /\ earnings[refunds[r].order] # "none"
         /\ refunds[r].ref # None => refunds[r].status # "none")'
  BY <1>2 DEF CreditInv, Grows
<1>7. (\A x \in ProviderRefunds : prefunds[x].status # "none" => prefunds[x].order \in Orders)'
  BY DEF CreditInv, provider
<1>8. QED
  BY <1>1, <1>3, <1>4, <1>5, <1>6, <1>7 DEF CreditInv

\* A webhook credits only what its event, which the provider sent, reports.
LEMMA CommitWebhookKeeps ==
  ASSUME TypeOK, CreditInv, NEW s \in Sessions, CommitWebhook(s)
  PROVE  TypeOK' /\ CreditInv'
<1>1. tx[s].event \in Event
  BY TxKinds DEF CommitWebhook, TypeOK, WebhookTx
<1>2. ledger' \subseteq Event
  BY <1>1 DEF CommitWebhook, TypeOK
<1>3. QED
  BY <1>2, SettleKeeps DEF CommitWebhook

\* Reconciliation credits only what the provider answered when it was polled.
LEMMA CommitReconcileKeeps ==
  ASSUME TypeOK, CreditInv, NEW s \in Sessions, CommitReconcile(s)
  PROVE  TypeOK' /\ CreditInv'
<1>1. ledger' \subseteq Event
  BY DEF CommitReconcile, TypeOK
<1>2. QED
  BY <1>1, SettleKeeps DEF CommitReconcile

\* Asking the provider about an order: the answer is of the latest attempt made.
LEMMA PollKeeps ==
  ASSUME TypeOK, CreditInv, NEW s \in Sessions, NEW o \in Orders, Poll(s, o)
  PROVE  TypeOK' /\ CreditInv'
<1> DEFINE t == [tx[s] EXCEPT !.batch = @ \ {o}, !.report[o] = Latest(o),
                              !.opens = @ \cup Opens(o)]
<1>1. tx[s] \in ReconcileTx /\ o \in tx[s].batch
  BY TxKinds DEF Poll, TypeOK
<1>2. payments[o].status # "none" /\ attempts[o] \in Seq(Outcomes)
  BY <1>1 DEF CreditInv, Backed, ReconcileTx, TypeOK
<1>3. Latest(o) \in Nat /\ (Latest(o) # 0 => Latest(o) \in DOMAIN attempts[o])
  BY <1>2 DEF Latest
<1>4. /\ t.op = "reconcile"
      /\ t.batch = tx[s].batch \ {o}
      /\ t.report = [tx[s].report EXCEPT ![o] = Latest(o)]
      /\ t.opens = tx[s].opens \cup Opens(o)
  BY <1>1 DEF ReconcileTx
<1>5. t \in Tx
  BY <1>1, <1>2, <1>3, OpensDeposits DEF Tx, ReconcileTx
<1>6. Backed(t)
  <2>1. Backed(tx[s])
    BY DEF CreditInv
  <2> HIDE DEF t
  <2>2. \A p \in Orders : t.report[p] # 0 => t.report[p] \in DOMAIN attempts[p]
    BY <1>1, <1>3, <1>4, <2>1 DEF Backed, ReconcileTx
  <2>3. \A p \in t.opens : payments[p].status # "none" /\ payments[p].kind = "deposit"
    BY <1>1, <1>2, <1>4, <2>1, OpensDeposits DEF Backed, ReconcileTx
  <2>4. \A p \in t.batch : payments[p].status # "none"
    BY <1>1, <1>4, <2>1 DEF Backed, ReconcileTx
  <2>5. QED
    BY <1>4, <2>2, <2>3, <2>4 DEF Backed
<1>7. tx' = [tx EXCEPT ![s] = t] /\ UNCHANGED <<app, provider>>
  BY DEF Poll
<1>8. QED
  <2> HIDE DEF t
  <2> QED BY <1>5, <1>6, <1>7, TxOnly

\* A new order has no attempts and is nobody's yet.
LEMMA CommitOrderKeeps ==
  ASSUME TypeOK, CreditInv, NEW s \in Sessions, NEW o \in Orders, CommitOrder(s, o)
  PROVE  TypeOK' /\ CreditInv'
<1> DEFINE row == [status |-> "pending", booking |-> tx[s].booking, kind |-> tx[s].kind,
                   amount |-> tx[s].amount, key |-> tx[s].key, ref |-> 0]
<1>1. row \in Payment /\ row.status = "pending"
  BY TxKinds DEF CommitOrder, TypeOK, OrderTx, Payment, PaymentStatus
<1>2. payments[o].status = "none" /\ payments' = [payments EXCEPT ![o] = row]
  BY DEF CommitOrder
<1> HIDE DEF row
<1>3. /\ \A p \in Orders \ {o} : payments'[p] = payments[p]
      /\ payments'[o] = row
      /\ payments' \in [Orders -> Payment]
  BY <1>1, <1>2 DEF TypeOK
<1>4. End(s) /\ UNCHANGED <<booking, earnings, refunds, payouts, ledger, provider>>
  BY DEF CommitOrder
<1>5. TypeOK'
  BY <1>3, <1>4, EndFacts DEF TypeOK, provider
<1>6. Grows
  BY <1>2, <1>3, <1>4 DEF Grows, provider
<1>7. \A u \in Sessions : Backed(tx[u])'
  BY <1>4, <1>6, OthersStay, EndFacts
<1>8. earnings[o] = "none"
  BY <1>2 DEF Accepted, CreditInv, CreditIsBacked
<1>9. CreditIsBacked'
  <2>1. \A p \in Orders : /\ payments'[p].status \in Credited => earnings'[p] # "none"
                          /\ earnings'[p] # "none" => Accepted(p)'
    BY <1>1, <1>3, <1>4 DEF CreditInv, CreditIsBacked, Credited, Accepted, provider
  <2>2. ASSUME NEW b \in Bookings, booking'[b] = "deposit_paid"
        PROVE  \E p \in Orders : /\ payments'[p].booking = b /\ payments'[p].kind = "deposit"
                                 /\ earnings'[p] # "none"
    <3>1. PICK p \in Orders : /\ payments[p].booking = b /\ payments[p].kind = "deposit"
                              /\ earnings[p] # "none"
      BY <1>4, <2>2 DEF CreditInv, CreditIsBacked
    <3>2. p # o
      BY <1>8, <3>1
    <3>3. QED
      BY <1>3, <1>4, <3>1, <3>2
  <2>3. QED
    BY <2>1, <2>2 DEF CreditIsBacked
<1>10. \A p \in Orders : attempts'[p] # <<>> => payments'[p].status # "none"
  BY <1>1, <1>3, <1>4 DEF CreditInv, provider
<1>11. QED
  BY <1>4, <1>5, <1>7, <1>9, <1>10 DEF CreditInv, Accepted, provider

\* Rows with some columns changed are rows.
LEMMA RefundUpdate ==
  ASSUME NEW row \in Refund, NEW st \in RefundStatus, NEW x \in ProviderRefunds \cup {None}
  PROVE  /\ [row EXCEPT !.status = st] \in Refund
         /\ [row EXCEPT !.status = st].status = st
         /\ [row EXCEPT !.status = st].order = row.order
         /\ [row EXCEPT !.status = st].ref = row.ref
         /\ [row EXCEPT !.status = st, !.ref = x] \in Refund
         /\ [row EXCEPT !.status = st, !.ref = x].status = st
         /\ [row EXCEPT !.status = st, !.ref = x].order = row.order
BY DEF Refund

\* A payment with another status is a payment.
LEMMA PaymentUpdate ==
  ASSUME NEW row \in Payment, NEW st \in PaymentStatus
  PROVE  /\ [row EXCEPT !.status = st] \in Payment
         /\ [row EXCEPT !.status = st].status = st
         /\ [row EXCEPT !.status = st].booking = row.booking
         /\ [row EXCEPT !.status = st].kind = row.kind
BY DEF Payment

\* A commit that leaves payments, earnings, bookings and the provider alone keeps the
\* invariant if the refunds it leaves behind are of payments with an earning.
LEMMA RefundRowKeeps ==
  ASSUME TypeOK, CreditInv, NEW s \in Sessions, NEW r \in Refunds, NEW row \in Refund,
         refunds' = [refunds EXCEPT ![r] = row], End(s),
         row.status # "none", row.order \in Orders, earnings[row.order] # "none",
         refunds[r].status # "none" => row.order = refunds[r].order,
         UNCHANGED <<booking, payments, earnings, payouts, ledger, provider>>
  PROVE  TypeOK' /\ CreditInv'
<1>1. /\ \A q \in Refunds \ {r} : refunds'[q] = refunds[q]
      /\ refunds'[r] = row
      /\ refunds' \in [Refunds -> Refund]
  BY DEF TypeOK
<1>2. TypeOK'
  BY <1>1, EndFacts DEF TypeOK, provider
<1>3. Grows
  BY <1>1 DEF Grows, provider
<1>4. \A u \in Sessions : Backed(tx[u])'
  BY <1>3, OthersStay, EndFacts
<1>5. CreditIsBacked'
  BY DEF CreditInv, CreditIsBacked, Accepted, provider
<1>6. (\A q \in Refunds :
         /\ refunds[q].status # "none" =>
              refunds[q].order \in Orders /\ earnings[refunds[q].order] # "none"
         /\ refunds[q].ref # None => refunds[q].status # "none")'
  BY <1>1 DEF CreditInv, Accepted, provider
<1>7. QED
  BY <1>2, <1>4, <1>5, <1>6 DEF CreditInv, provider

\* A refund is asked for a payment with an earning.
LEMMA CommitRequestKeeps ==
  ASSUME TypeOK, CreditInv, NEW s \in Sessions, NEW r \in Refunds, CommitRequest(s, r)
  PROVE  TypeOK' /\ CreditInv'
<1>1. PICK row \in Refund :
        /\ row = [status |-> "pending", order |-> tx[s].order, amount |-> tx[s].amount,
                  ref |-> None]
        /\ row.status = "pending" /\ row.order = tx[s].order
  BY TxKinds DEF CommitRequest, TypeOK, RequestTx, Refund, RefundStatus
<1>2. tx[s].order \in Orders /\ earnings[tx[s].order] # "none"
  BY TxKinds DEF CommitRequest, TypeOK, RequestTx, CreditInv, Backed
<1>3. QED
  BY <1>1, <1>2, RefundRowKeeps DEF CommitRequest, Accepted

\* An approval changes the row of its refund only.
LEMMA CommitApproveKeeps ==
  ASSUME TypeOK, CreditInv, NEW s \in Sessions, CommitApprove(s)
  PROVE  TypeOK' /\ CreditInv'
<1> DEFINE r == tx[s].refund
           row == [refunds[r] EXCEPT !.status = "approved", !.ref = tx[s].ref]
<1>1. r \in Refunds /\ tx[s].ref \in ProviderRefunds \cup {None} /\ refunds[r].status # "none"
  BY TxKinds DEF CommitApprove, TypeOK, ApproveTx, CreditInv, Backed
<1>2. refunds[r] \in Refund /\ refunds[r].order \in Orders
      /\ earnings[refunds[r].order] # "none"
  BY <1>1 DEF TypeOK, CreditInv
<1>3. "approved" \in RefundStatus
  BY DEF RefundStatus
<1>4. row \in Refund /\ row.status = "approved" /\ row.order = refunds[r].order
  <2>1. ASSUME NEW old \in Refund, NEW x \in ProviderRefunds \cup {None}
        PROVE  /\ [old EXCEPT !.status = "approved", !.ref = x] \in Refund
               /\ [old EXCEPT !.status = "approved", !.ref = x].status = "approved"
               /\ [old EXCEPT !.status = "approved", !.ref = x].order = old.order
    BY <2>1, <1>3 DEF Refund
  <2>2. QED
    BY <1>1, <1>2, <2>1
<1>5. refunds' = [refunds EXCEPT ![r] = row]
  BY <1>1 DEF CommitApprove, TypeOK
<1>6. End(s) /\ UNCHANGED <<booking, payments, earnings, payouts, ledger, provider>>
  BY DEF CommitApprove
<1>7. QED
  <2> HIDE DEF r, row
  <2> QED BY <1>1, <1>2, <1>4, <1>5, <1>6, RefundRowKeeps

\* So does a rejection.
LEMMA CommitRejectKeeps ==
  ASSUME TypeOK, CreditInv, NEW s \in Sessions, CommitReject(s)
  PROVE  TypeOK' /\ CreditInv'
<1> DEFINE r == tx[s].refund
           row == [refunds[r] EXCEPT !.status = "rejected"]
<1>1. r \in Refunds /\ refunds[r].status # "none"
  BY TxKinds DEF CommitReject, TypeOK, RejectTx, CreditInv, Backed
<1>2. refunds[r] \in Refund /\ refunds[r].order \in Orders
      /\ earnings[refunds[r].order] # "none"
  BY <1>1 DEF TypeOK, CreditInv
<1>3. "rejected" \in RefundStatus
  BY DEF RefundStatus
<1>4. row \in Refund /\ row.status = "rejected" /\ row.order = refunds[r].order
  BY <1>2, <1>3, RefundUpdate
<1>5. refunds' = [refunds EXCEPT ![r] = row]
  BY <1>1 DEF CommitReject, TypeOK
<1>6. End(s) /\ UNCHANGED <<booking, payments, earnings, payouts, ledger, provider>>
  BY DEF CommitReject
<1>7. QED
  <2> HIDE DEF r, row
  <2> QED BY <1>1, <1>2, <1>4, <1>5, <1>6, RefundRowKeeps

\* A refund notice: the payment it turns into a refunded one has an earning.
LEMMA CommitRefundWebhookKeeps ==
  ASSUME TypeOK, CreditInv, NEW s \in Sessions, CommitRefundWebhook(s)
  PROVE  TypeOK' /\ CreditInv'
<1> DEFINE r == tx[s].refund
           o == refunds[r].order
           row == [payments[o] EXCEPT !.status = tx[s].after]
           done == [refunds[r] EXCEPT !.status = "processed"]
<1>1. tx[s] \in RefundWebhookTx
  BY TxKinds DEF CommitRefundWebhook, TypeOK
<1>2. ledger' \subseteq Event
  BY <1>1 DEF CommitRefundWebhook, TypeOK, RefundWebhookTx
<1>3. End(s) /\ UNCHANGED <<booking, earnings, payouts, provider>>
  BY DEF CommitRefundWebhook
<1>4. CASE r = None
  <2>1. UNCHANGED <<refunds, payments>>
    BY <1>4 DEF CommitRefundWebhook
  <2>2. TypeOK'
    BY <1>2, <1>3, <2>1, EndFacts DEF TypeOK, provider
  <2>3. Grows
    BY <1>3, <2>1 DEF Grows, provider
  <2>4. \A u \in Sessions : Backed(tx[u])'
    BY <1>3, <2>3, OthersStay, EndFacts
  <2>5. QED
    BY <1>3, <2>1, <2>2, <2>4 DEF CreditInv, CreditIsBacked, Accepted, provider
<1>5. CASE r # None
  <2>1. r \in Refunds /\ refunds[r].status # "none" /\ tx[s].after \in Credited
    BY <1>1, <1>5 DEF RefundWebhookTx, CreditInv, Backed, CommitRefundWebhook
  <2>2. o \in Orders /\ earnings[o] # "none" /\ payments[o] \in Payment /\ refunds[r] \in Refund
    BY <2>1 DEF CreditInv, TypeOK
  <2>3. payments[o].status # "none"
    BY <2>2 DEF Accepted, CreditInv, CreditIsBacked
  <2>4. /\ refunds' = [refunds EXCEPT ![r].status = "processed"]
        /\ payments' = [payments EXCEPT ![o].status = tx[s].after]
    BY <1>5 DEF CommitRefundWebhook
  <2>5. /\ row \in Payment
        /\ row.status = tx[s].after
        /\ row.booking = payments[o].booking /\ row.kind = payments[o].kind
    <3>1. tx[s].after \in PaymentStatus
      BY <2>1 DEF Credited, PaymentStatus
    <3>2. QED
      BY <2>2, <3>1, PaymentUpdate
  <2>6. done \in Refund /\ done.status = "processed" /\ done.order = o
    <3>1. "processed" \in RefundStatus
      BY DEF RefundStatus
    <3>2. QED
      BY <2>2, <3>1, RefundUpdate
  <2>7. payments' = [payments EXCEPT ![o] = row] /\ refunds' = [refunds EXCEPT ![r] = done]
    BY <2>1, <2>2, <2>4 DEF TypeOK
  <2> HIDE DEF o, r, row, done
  <2>8. /\ \A p \in Orders \ {o} : payments'[p] = payments[p]
        /\ payments'[o] = row
        /\ \A q \in Refunds \ {r} : refunds'[q] = refunds[q]
        /\ refunds'[r] = done
        /\ payments' \in [Orders -> Payment]
        /\ refunds' \in [Refunds -> Refund]
    <3>1. /\ \A p \in Orders \ {o} : payments'[p] = payments[p]
          /\ payments'[o] = row
          /\ payments' \in [Orders -> Payment]
      BY <2>2, <2>5, <2>7 DEF TypeOK
    <3>2. /\ \A q \in Refunds \ {r} : refunds'[q] = refunds[q]
          /\ refunds'[r] = done
          /\ refunds' \in [Refunds -> Refund]
      BY <2>1, <2>6, <2>7 DEF TypeOK
    <3>3. QED
      BY <3>1, <3>2
  <2>9. TypeOK'
    BY <1>2, <1>3, <2>8, EndFacts DEF TypeOK, provider
  <2>10. row.status \in Credited /\ row.status # "none" /\ o = refunds[r].order
    BY <2>1, <2>5 DEF Credited, o
  <2>11. Grows
    BY <1>3, <2>2, <2>3, <2>5, <2>6, <2>8, <2>10 DEF Grows, provider
  <2>12. \A u \in Sessions : Backed(tx[u])'
    BY <1>3, <2>11, OthersStay, EndFacts
  <2>13. \A p \in Orders : Accepted(p)' <=> Accepted(p)
    BY <1>3 DEF Accepted, provider
  <2>14. CreditIsBacked'
    <3>1. \A p \in Orders :
            /\ payments'[p].status \in Credited => earnings'[p] # "none"
            /\ earnings'[p] # "none" => Accepted(p)'
      BY <1>3, <2>2, <2>8, <2>13 DEF CreditInv, CreditIsBacked
    <3>2. ASSUME NEW b \in Bookings, booking'[b] = "deposit_paid"
          PROVE  \E p \in Orders : /\ payments'[p].booking = b /\ payments'[p].kind = "deposit"
                                   /\ earnings'[p] # "none"
      <4>1. PICK p \in Orders : /\ payments[p].booking = b /\ payments[p].kind = "deposit"
                                /\ earnings[p] # "none"
        BY <1>3, <3>2 DEF CreditInv, CreditIsBacked
      <4>2. payments'[p].booking = b /\ payments'[p].kind = "deposit"
        BY <2>5, <2>8, <4>1
      <4>3. QED
        BY <1>3, <4>1, <4>2
    <3>3. QED
      BY <3>1, <3>2 DEF CreditIsBacked
  <2>15. (\A q \in Refunds :
            /\ refunds[q].status # "none" =>
                 refunds[q].order \in Orders /\ earnings[refunds[q].order] # "none"
            /\ refunds[q].ref # None => refunds[q].status # "none")'
    <3>1. ASSUME NEW q \in Refunds
          PROVE  /\ refunds'[q].status # "none" =>
                      /\ refunds'[q].order \in Orders
                      /\ earnings[refunds'[q].order] # "none"
                 /\ refunds'[q].ref # None => refunds'[q].status # "none"
      <4>1. CASE q = r
        BY <2>2, <2>6, <2>8, <4>1 DEF Accepted
      <4>2. CASE q # r
        BY <2>8, <4>2 DEF CreditInv, Accepted
      <4>3. QED
        BY <4>1, <4>2
    <3>2. QED
      BY <1>3, <3>1
  <2>16. (\A p \in Orders : attempts[p] # <<>> => payments[p].status # "none")'
    BY <1>3, <2>8, <2>10 DEF CreditInv, provider
  <2>17. QED
    BY <1>3, <2>9, <2>12, <2>14, <2>15, <2>16 DEF CreditInv, provider
<1>6. QED
  BY <1>4, <1>5

\* The provider notes a refund for the payment the approval names.
LEMMA CallProviderKeeps ==
  ASSUME TypeOK, CreditInv, NEW s \in Sessions, NEW x \in ProviderRefunds,
         CallProvider(s, x)
  PROVE  TypeOK' /\ CreditInv'
<1> DEFINE t == [tx[s] EXCEPT !.ref = x]
           row == [status |-> "pending", order |-> tx[s].order, attempt |-> tx[s].attempt,
                   amount |-> tx[s].amount]
<1>1. tx[s] \in ApproveTx
  BY TxKinds DEF CallProvider, TypeOK
<1>2. t \in Tx /\ t.op = "approve" /\ t.refund = tx[s].refund
  BY <1>1 DEF Tx, ApproveTx
<1>3. row \in ProviderRefund /\ row.order \in Orders
  BY <1>1 DEF ApproveTx, ProviderRefund
<1>4. /\ tx' = [tx EXCEPT ![s] = t]
      /\ prefunds' = [prefunds EXCEPT ![x] = row]
      /\ UNCHANGED <<app, attempts>>
  BY <1>1 DEF CallProvider, TypeOK
<1> HIDE DEF t, row
<1>5. TypeOK'
  BY <1>2, <1>3, <1>4 DEF TypeOK, app
<1>6. Backed(t)
  BY <1>1, <1>2 DEF CreditInv, Backed, ApproveTx
<1>7. \A u \in Sessions : Backed(tx[u])'
  <2>1. \A u \in Sessions : tx'[u] = IF u = s THEN t ELSE tx[u]
    BY <1>4 DEF TypeOK
  <2>2. \A u \in Sessions \ {s} : Backed(tx[u])'
    BY <1>4, <2>1 DEF CreditInv, Backed, Accepted, app
  <2>3. Backed(tx[s])'
    BY <1>2, <1>4, <1>6, <2>1 DEF Backed, app
  <2>4. QED
    BY <2>2, <2>3
<1>8. \A y \in ProviderRefunds : prefunds'[y].status # "none" => prefunds'[y].order \in Orders
  BY <1>3, <1>4 DEF CreditInv, TypeOK
<1>9. QED
  BY <1>4, <1>5, <1>7, <1>8 DEF CreditInv, CreditIsBacked, Accepted, app

\* A payout marks earnings that exist.
LEMMA CommitPayoutKeeps ==
  ASSUME TypeOK, CreditInv, NEW s \in Sessions, NEW k \in Payouts, CommitPayout(s, k)
  PROVE  TypeOK' /\ CreditInv'
<1>1. tx[s].owed \subseteq Orders /\ \A o \in tx[s].owed : earnings[o] # "none"
  BY TxKinds DEF CommitPayout, TypeOK, PayoutTx, CreditInv, Backed
<1>2. /\ payouts' \in [Payouts -> SUBSET Orders]
      /\ earnings' \in [Orders -> {"none", "unpaid"} \cup Payouts]
  BY <1>1 DEF CommitPayout, TypeOK
<1>3. End(s) /\ UNCHANGED <<booking, payments, refunds, ledger, provider>>
  BY DEF CommitPayout
<1>4. TypeOK'
  BY <1>2, <1>3, EndFacts DEF TypeOK, provider
<1>5. \A o \in Orders : earnings'[o] # "none" <=> earnings[o] # "none"
  BY <1>1, PaymentsAssumption DEF CommitPayout
<1>6. Grows
  BY <1>3, <1>5 DEF Grows, provider
<1>7. \A u \in Sessions : Backed(tx[u])'
  BY <1>3, <1>6, OthersStay, EndFacts
<1>8. CreditIsBacked'
  BY <1>3, <1>5 DEF CreditInv, CreditIsBacked, Accepted, provider
<1>9. QED
  BY <1>3, <1>4, <1>5, <1>7, <1>8 DEF CreditInv, provider

(***************************************************************************)
(* Customers, the provider and transactions that do not commit             *)
(***************************************************************************)

\* Another attempt takes nothing back.
LEMMA AttemptKeeps ==
  ASSUME TypeOK, CreditInv, NEW o \in Orders, NEW outcome \in Outcomes, Attempt(o, outcome)
  PROVE  TypeOK' /\ CreditInv'
<1>1. /\ attempts' = [attempts EXCEPT ![o] = Append(@, outcome)]
      /\ UNCHANGED <<app, tx, prefunds>>
      /\ payments[o].status # "none"
  BY DEF Attempt
<1>2. /\ attempts[o] \in Seq(Outcomes)
      /\ attempts'[o] = Append(attempts[o], outcome)
      /\ \A p \in Orders \ {o} : attempts'[p] = attempts[p]
  BY <1>1 DEF TypeOK
<1>3. /\ attempts'[o] \in Seq(Outcomes)
      /\ \A n \in DOMAIN attempts[o] :
           n \in DOMAIN attempts'[o] /\ attempts'[o][n] = attempts[o][n]
  BY <1>2
<1>4. TypeOK'
  BY <1>1, <1>3 DEF TypeOK, app
<1>5. Grows
  BY <1>1, <1>2, <1>3 DEF Grows, app
<1>6. \A u \in Sessions : Backed(tx[u])'
  BY <1>1, <1>5, OthersStay
<1>7. \A p \in Orders : Accepted(p) => Accepted(p)'
  BY <1>5, AcceptedStays
<1>8. CreditIsBacked'
  BY <1>1, <1>7 DEF CreditInv, CreditIsBacked, app
<1>9. (\A p \in Orders : attempts[p] # <<>> => payments[p].status # "none")'
  BY <1>1, <1>2 DEF CreditInv, app
<1>10. QED
  BY <1>1, <1>4, <1>6, <1>8, <1>9 DEF CreditInv, app

\* A capture, or that there is none, takes back no success.
LEMMA ResolveKeeps ==
  ASSUME TypeOK, CreditInv, NEW o \in Orders, NEW n, NEW outcome \in {"captured", "lapsed"},
         Resolve(o, n, outcome)
  PROVE  TypeOK' /\ CreditInv'
<1>1. /\ attempts' = [attempts EXCEPT ![o][n] = outcome]
      /\ UNCHANGED <<app, tx, prefunds>>
      /\ n \in DOMAIN attempts[o]
  BY DEF Resolve
<1>2. /\ attempts[o] \in Seq(Outcomes)
      /\ attempts'[o] = [attempts[o] EXCEPT ![n] = outcome]
      /\ \A p \in Orders \ {o} : attempts'[p] = attempts[p]
      /\ outcome \in Outcomes \cap Successes
  BY <1>1 DEF TypeOK, Outcomes, Successes
<1>3. /\ attempts'[o] \in Seq(Outcomes)
      /\ DOMAIN attempts'[o] = DOMAIN attempts[o]
      /\ \A m \in DOMAIN attempts[o] : attempts'[o][m] \in {outcome, attempts[o][m]}
  <2>1. /\ Len(attempts[o]) \in Nat
        /\ attempts[o] \in [1 .. Len(attempts[o]) -> Outcomes]
    BY <1>2
  <2>2. attempts'[o] \in [1 .. Len(attempts[o]) -> Outcomes]
    BY <1>2, <2>1
  <2>3. attempts'[o] \in Seq(Outcomes)
    BY <2>1, <2>2
  <2>4. QED
    BY <1>2, <2>1, <2>2, <2>3
<1>4. TypeOK'
  BY <1>1, <1>3 DEF TypeOK, app
<1>5. Grows
  BY <1>1, <1>2, <1>3 DEF Grows, app
<1>6. \A u \in Sessions : Backed(tx[u])'
  BY <1>1, <1>5, OthersStay
<1>7. \A p \in Orders : Accepted(p) => Accepted(p)'
  BY <1>5, AcceptedStays
<1>8. CreditIsBacked'
  BY <1>1, <1>7 DEF CreditInv, CreditIsBacked, app
<1>9. (\A p \in Orders : attempts[p] # <<>> => payments[p].status # "none")'
  BY <1>1, <1>2, <1>3 DEF CreditInv, app
<1>10. QED
  BY <1>1, <1>4, <1>6, <1>8, <1>9 DEF CreditInv, app

\* The provider carries out a refund it was asked for.
LEMMA ProcessRefundKeeps ==
  ASSUME TypeOK, CreditInv, NEW x \in ProviderRefunds, ProcessRefund(x)
  PROVE  TypeOK' /\ CreditInv'
<1> DEFINE row == [prefunds[x] EXCEPT !.status = "processed"]
<1>1. prefunds[x].status = "pending" /\ prefunds[x] \in ProviderRefund
  BY DEF ProcessRefund, TypeOK
<1>2. row \in ProviderRefund /\ row.order = prefunds[x].order
  BY <1>1 DEF ProviderRefund
<1>3. prefunds' = [prefunds EXCEPT ![x] = row] /\ UNCHANGED <<app, tx, attempts>>
  BY DEF ProcessRefund
<1> HIDE DEF row
<1>4. TypeOK'
  BY <1>2, <1>3 DEF TypeOK, app
<1>5. \A u \in Sessions : Backed(tx[u])'
  BY <1>3 DEF CreditInv, Backed, Accepted, app
<1>6. \A y \in ProviderRefunds : prefunds'[y].status # "none" => prefunds'[y].order \in Orders
  BY <1>1, <1>2, <1>3 DEF CreditInv, TypeOK
<1>7. QED
  BY <1>3, <1>4, <1>5, <1>6 DEF CreditInv, CreditIsBacked, Accepted, app

\* A cancellation touches no money.
LEMMA CancelKeeps ==
  ASSUME TypeOK, CreditInv, NEW b \in Bookings, Cancel(b)
  PROVE  TypeOK' /\ CreditInv'
<1>1. booking' = [booking EXCEPT ![b] = "cancelled"]
      /\ UNCHANGED <<payments, earnings, refunds, payouts, ledger, tx, provider>>
  BY DEF Cancel
<1>2. TypeOK'
  BY <1>1 DEF TypeOK, BookingStatus, provider
<1>3. \A u \in Sessions : Backed(tx[u])'
  BY <1>1 DEF CreditInv, Backed, Accepted, provider
<1>4. \A c \in Bookings : booking'[c] = "deposit_paid" => booking[c] = "deposit_paid"
  BY <1>1 DEF TypeOK
<1>5. QED
  BY <1>1, <1>2, <1>3, <1>4 DEF CreditInv, CreditIsBacked, Accepted, provider

\* A transaction that is rolled back claims nothing any more.
LEMMA RollbackKeeps ==
  ASSUME TypeOK, CreditInv, NEW s \in Sessions, End(s), UNCHANGED <<app, provider>>
  PROVE  TypeOK' /\ CreditInv'
BY IdleBacked, TxOnly DEF End

(***************************************************************************)
(* Theorems                                                                *)
(***************************************************************************)

\* What one session does keeps types and invariant.
LEMMA SessionKeeps ==
  ASSUME TypeOK, CreditInv, NEW s \in Sessions,
         Starts(s) \/ Advance(s) \/ Refuse(s) \/ Abort(s)
  PROVE  TypeOK' /\ CreditInv'
<1>1. CASE Starts(s)
  <2>1. ASSUME NEW o \in Orders, NEW n \in 1 .. MaxAttempts,
               NEW type \in {"authorized", "captured", "failed"},
               StartWebhook(s, [type |-> type, order |-> o, attempt |-> n])
        PROVE  TypeOK' /\ CreditInv'
    <3>1. [type |-> type, order |-> o, attempt |-> n] \in Event
      BY PaymentsAssumption DEF Event
    <3>2. QED
      BY <2>1, <3>1, StartWebhookKeeps
  <2>2. QED
    BY <1>1, <2>1, StartOrderKeeps, StartRequestKeeps, StartReconcileKeeps,
       StartApproveKeeps, StartRejectKeeps, StartRefundWebhookKeeps, StartPayoutKeeps
    DEF Starts
<1>2. CASE Advance(s)
  BY <1>2, CommitOrderKeeps, PollKeeps, CommitWebhookKeeps, CommitReconcileKeeps,
     CommitRequestKeeps, CallProviderKeeps, CommitApproveKeeps, CommitRejectKeeps,
     CommitRefundWebhookKeeps, CommitPayoutKeeps
  DEF Advance
<1>3. CASE Refuse(s)
  BY <1>3, RollbackKeeps DEF Refuse
<1>4. CASE Abort(s)
  BY <1>4, RollbackKeeps DEF Abort
<1>5. QED
  BY <1>1, <1>2, <1>3, <1>4

\* The invariant of the module: tables are well formed; what counts as paid has an
\* earning, every refund and every transaction on the way to one is of such a payment,
\* and an earning is of an amount the provider authorized.
THEOREM CreditStaysBacked == Spec => [](TypeOK /\ CreditInv)
<1>1. Init => TypeOK /\ CreditInv
  <2> SUFFICES ASSUME Init
               PROVE  TypeOK /\ CreditInv
    OBVIOUS
  <2>1. TypeOK
    BY IdleBacked DEF Init, TypeOK, BookingStatus, Payment, PaymentStatus, Refund,
       RefundStatus, ProviderRefund
  <2>2. \A s \in Sessions : Backed(tx[s])
    BY DEF Init, Backed, Idle
  <2>3. CreditIsBacked
    BY PaymentsAssumption DEF Init, CreditIsBacked, Credited
  <2>4. QED
    BY <2>1, <2>2, <2>3 DEF Init, CreditInv
<1>2. TypeOK /\ CreditInv /\ [Next]_vars => TypeOK' /\ CreditInv'
  <2> SUFFICES ASSUME TypeOK, CreditInv, [Next]_vars
               PROVE  TypeOK' /\ CreditInv'
    OBVIOUS
  <2>1. CASE Next
    BY <2>1, AttemptKeeps, ResolveKeeps, ProcessRefundKeeps, CancelKeeps, SessionKeeps DEF Next, Outcomes
  <2>2. CASE UNCHANGED vars
    BY <2>2 DEF TypeOK, CreditInv, CreditIsBacked, Backed, Accepted, vars
  <2>3. QED
    BY <2>1, <2>2
<1>3. QED
  BY <1>1, <1>2, PTL DEF Spec

\* Every table and every transaction keeps its type (the schema of db/models/payment.py).
THEOREM TypeCorrect == Spec => []TypeOK
BY CreditStaysBacked, PTL

\* However transactions interleave, however often an order is attempted and whatever is
\* lost, repeated, late or broken off: no payment or deposit counts as paid without an
\* earning, and no earning is made without the provider having authorized or captured
\* exactly the order's amount (docs/payments.md section 4).
THEOREM NeverCreditsUnaccepted == Spec => []CreditIsBacked
<1>1. CreditInv => CreditIsBacked
  BY DEF CreditInv
<1>2. QED
  BY <1>1, CreditStaysBacked, PTL

(***************************************************************************)
(* Settlement                                                              *)
(*                                                                         *)
(* Steps are sorted by what they may write (StepKinds); each invariant     *)
(* then needs one step for each kind.                                      *)
(***************************************************************************)

(***************************************************************************)
(* What the steps do                                                       *)
(***************************************************************************)

\* The tables, and the attempts made, stay as they are.
Quiet == UNCHANGED <<payments, earnings, refunds, payouts, ledger, attempts>>

Others(s) == \A u \in Sessions \ {s} : tx'[u] = tx[u]

\* A transaction that goes on asking or calling the provider, or is rolled back.
GoesOn(s) ==
  /\ Quiet /\ Others(s)
  /\ tx'[s] = Idle \/ (tx'[s].op = tx[s].op /\ tx[s].op \in {"reconcile", "approve"})

\* A webhook or the reconciliation command settles.
Settles(s) ==
  /\ tx[s].op \in {"webhook", "reconcile"}
  /\ Settle(s) /\ End(s)
  /\ ledger' = IF tx[s].op = "webhook" THEN ledger \cup {tx[s].event} ELSE ledger
  /\ UNCHANGED <<refunds, payouts, attempts>>

\* The customer attempts to pay, or the provider captures or gives back.
Pays ==
  \E o \in Orders :
    \/ \E outcome \in Outcomes : Attempt(o, outcome)
    \/ \E n \in Nat, outcome \in {"captured", "lapsed"} : Resolve(o, n, outcome)

\* A staff decision on a refund is stored.
Decides(s) == CommitApprove(s) \/ CommitReject(s)

\* A transaction that ends leaves its session idle and the others as they were.
LEMMA EndIdles ==
  ASSUME TypeOK, NEW s \in Sessions, End(s)
  PROVE  tx'[s] = Idle /\ Others(s)
BY DEF End, TypeOK, Others

\* Starting a transaction changes nothing but what the session does.
LEMMA StartIsQuiet ==
  ASSUME TypeOK, NEW s \in Sessions, Starts(s)
  PROVE  Quiet /\ Others(s)
<1>1. ASSUME NEW op, NEW t, Begin(s, op, t)
      PROVE  Quiet /\ Others(s)
  BY <1>1 DEF Begin, TypeOK, Quiet, Others, app, provider
<1>2. \E op, t : Begin(s, op, t)
  <2>1. ASSUME NEW b \in Bookings, NEW kind \in Kinds, NEW key \in Keys \cup {None},
               StartOrder(s, b, kind, key)
        PROVE  \E op, t : Begin(s, op, t)
    BY <2>1 DEF StartOrder
  <2>2. ASSUME NEW e, StartWebhook(s, e)
        PROVE  \E op, t : Begin(s, op, t)
    BY <2>2 DEF StartWebhook
  <2>3. ASSUME NEW batch \in SUBSET Orders, StartReconcile(s, batch)
        PROVE  \E op, t : Begin(s, op, t)
    BY <2>3 DEF StartReconcile
  <2>4. ASSUME NEW o \in Orders, StartRequest(s, o)
        PROVE  \E op, t : Begin(s, op, t)
    BY <2>4 DEF StartRequest
  <2>5. ASSUME NEW r \in Refunds, StartApprove(s, r) \/ StartReject(s, r)
        PROVE  \E op, t : Begin(s, op, t)
    BY <2>5 DEF StartApprove, StartReject
  <2>6. ASSUME NEW x \in ProviderRefunds, StartRefundWebhook(s, x)
        PROVE  \E op, t : Begin(s, op, t)
    BY <2>6 DEF StartRefundWebhook
  <2>7. ASSUME NEW a \in Artists, StartPayout(s, a)
        PROVE  \E op, t : Begin(s, op, t)
    BY <2>7 DEF StartPayout
  <2>8. QED
    BY <2>1, <2>2, <2>3, <2>4, <2>5, <2>6, <2>7 DEF Starts
<1>3. QED
  BY <1>1, <1>2

\* The kinds of steps there are.
LEMMA StepKinds ==
  ASSUME TypeOK, [Next]_vars
  PROVE  \/ Quiet /\ UNCHANGED tx
         \/ Pays
         \/ \E s \in Sessions : \/ Starts(s) \/ GoesOn(s) \/ Settles(s) \/ Decides(s)
                                \/ \E o \in Orders : CommitOrder(s, o)
                                \/ \E r \in Refunds : CommitRequest(s, r)
                                \/ CommitRefundWebhook(s)
                                \/ \E k \in Payouts : CommitPayout(s, k)
<1>1. CASE UNCHANGED vars
  BY <1>1 DEF vars, Quiet
<1>2. ASSUME NEW x \in ProviderRefunds, ProcessRefund(x)
      PROVE  Quiet /\ UNCHANGED tx
  BY <1>2 DEF ProcessRefund, Quiet, app
<1>3. ASSUME NEW b \in Bookings, Cancel(b)
      PROVE  Quiet /\ UNCHANGED tx
  BY <1>3 DEF Cancel, Quiet, provider
<1>4. ASSUME NEW s \in Sessions, Refuse(s) \/ Abort(s)
      PROVE  GoesOn(s)
  <2>1. End(s) /\ UNCHANGED <<app, provider>>
    BY <1>4 DEF Refuse, Abort
  <2>2. QED
    BY <2>1, EndIdles DEF GoesOn, Quiet, app, provider
<1>5. ASSUME NEW s \in Sessions, NEW o \in Orders, Poll(s, o)
      PROVE  GoesOn(s)
  <2>1. tx[s] \in ReconcileTx
    BY <1>5, TxKinds DEF Poll, TypeOK
  <2>2. tx'[s].op = "reconcile" /\ Others(s)
    BY <1>5, <2>1 DEF Poll, TypeOK, Others, ReconcileTx
  <2>3. QED
    BY <1>5, <2>2 DEF Poll, GoesOn, Quiet, app, provider
<1>6. ASSUME NEW s \in Sessions, NEW x \in ProviderRefunds, CallProvider(s, x)
      PROVE  GoesOn(s)
  <2>1. tx[s] \in ApproveTx
    BY <1>6, TxKinds DEF CallProvider, TypeOK
  <2>2. tx'[s].op = "approve" /\ Others(s)
    BY <1>6, <2>1 DEF CallProvider, TypeOK, Others, ApproveTx
  <2>3. QED
    BY <1>6, <2>2 DEF CallProvider, GoesOn, Quiet, app
<1>7. ASSUME NEW s \in Sessions, CommitWebhook(s) \/ CommitReconcile(s)
      PROVE  Settles(s)
  BY <1>7 DEF CommitWebhook, CommitReconcile, Settles, provider
<1>8. ASSUME NEW o \in Orders,
             \/ \E outcome \in {"authorized", "mismatched", "failed"} : Attempt(o, outcome)
             \/ \E n \in 1 .. MaxAttempts, outcome \in {"captured", "lapsed"} :
                  Resolve(o, n, outcome)
      PROVE  Pays
  BY <1>8, PaymentsAssumption DEF Pays, Outcomes
<1>9. QED
  BY <1>1, <1>2, <1>3, <1>4, <1>5, <1>6, <1>7, <1>8 DEF Next, Advance, Decides

\* What settling does to an order: nothing, credit it, or fail it.
LEMMA SettleOrder ==
  ASSUME TypeOK, CreditInv, NEW s \in Sessions, Settles(s), NEW o \in Orders
  PROVE  LET n == tx[s].report[o] IN
         /\ payments'[o].booking = payments[o].booking /\ payments'[o].kind = payments[o].kind
         /\ n # 0 => n \in DOMAIN attempts[o]
         /\ \/ n = 0 /\ payments'[o] = payments[o] /\ earnings'[o] = earnings[o]
            \/ /\ n # 0 /\ attempts[o][n] \in Successes /\ earnings[o] = "none"
               /\ payments'[o].status = "succeeded" /\ earnings'[o] = "unpaid"
            \/ /\ n # 0 /\ attempts[o][n] \notin Successes
               /\ payments'[o].status = "failed" /\ earnings'[o] = earnings[o]
<1> DEFINE n == tx[s].report[o]
<1>1. /\ payments'[o].booking = payments[o].booking /\ payments'[o].kind = payments[o].kind
      /\ n # 0 => n \in DOMAIN attempts[o]
  BY SettleFacts DEF Settles, CreditInv, Backed
<1>2. /\ payments'[o] = IF n = 0 THEN payments[o] ELSE Settled(s, o)
      /\ earnings'[o] = IF Credits(s, o) THEN "unpaid" ELSE earnings[o]
      /\ Credits(s, o) => earnings[o] = "none"
      /\ Credits(s, o) <=> n # 0 /\ attempts[o][n] \in Successes
  BY DEF Settles, Settle, Credits, Reported
<1>3. ASSUME n # 0
      PROVE  Settled(s, o).status = IF attempts[o][n] \in Successes THEN "succeeded" ELSE "failed"
  <2>1. payments[o] \in Payment
    BY DEF TypeOK
  <2>2. \A st, k : /\ [payments[o] EXCEPT !.status = st].status = st
                   /\ [payments[o] EXCEPT !.status = st, !.ref = k].status = st
    BY <2>1 DEF Payment
  <2>3. QED
    BY <1>2, <1>3, <2>2 DEF Settled, Reported, Successes
<1>4. QED
  BY <1>1, <1>2, <1>3

\* A new order is a row of its own.
LEMMA OrderInserted ==
  ASSUME TypeOK, NEW s \in Sessions, NEW o \in Orders, CommitOrder(s, o)
  PROVE  /\ payments[o].status = "none" /\ payments'[o].status = "pending"
         /\ payments'[o].booking = tx[s].booking /\ payments'[o].kind = tx[s].kind
         /\ \A p \in Orders \ {o} : payments'[p] = payments[p]
         /\ tx'[s] = Idle /\ Others(s)
         /\ UNCHANGED <<earnings, refunds, payouts, ledger, attempts>>
BY EndIdles DEF CommitOrder, TypeOK, provider

\* A request for a refund, and a decision on one.
LEMMA RefundRequested ==
  ASSUME TypeOK, NEW s \in Sessions, NEW r \in Refunds, CommitRequest(s, r)
  PROVE  /\ tx[s].op = "request"
         /\ refunds'[r].status = "pending" /\ refunds'[r].ref = None
         /\ refunds'[r].order = tx[s].order
         /\ \A q \in Refunds \ {r} : refunds'[q] = refunds[q]
         /\ tx'[s] = Idle /\ Others(s)
         /\ UNCHANGED <<payments, earnings, payouts, ledger, attempts>>
BY EndIdles DEF CommitRequest, TypeOK, provider

\* A decision changes the row of one refund, which keeps the order it is for.
LEMMA RefundDecided ==
  ASSUME TypeOK, CreditInv, NEW s \in Sessions, Decides(s)
  PROVE  LET r == tx[s].refund IN
         /\ r \in Refunds /\ refunds[r].status # "none"
         /\ refunds'[r].order = refunds[r].order
         /\ \/ tx[s].op = "approve" /\ refunds'[r].status = "approved"
            \/ /\ tx[s].op = "reject" /\ refunds'[r].status = "rejected"
               /\ refunds'[r].ref = refunds[r].ref
         /\ \A q \in Refunds \ {r} : refunds'[q] = refunds[q]
         /\ tx'[s] = Idle /\ Others(s)
         /\ UNCHANGED <<payments, earnings, payouts, ledger, attempts>>
<1> DEFINE r == tx[s].refund
<1>1. r \in Refunds /\ refunds[r].status # "none" /\ refunds[r] \in Refund
  BY TxKinds DEF Decides, CommitApprove, CommitReject, TypeOK, ApproveTx, RejectTx,
     CreditInv, Backed
<1>2. \A q \in Refunds \ {r} : refunds'[q] = refunds[q]
  BY DEF Decides, CommitApprove, CommitReject, TypeOK
<1>3. tx'[s] = Idle /\ Others(s) /\ UNCHANGED <<payments, earnings, payouts, ledger, attempts>>
  BY EndIdles DEF Decides, CommitApprove, CommitReject, provider
<1>4. CASE CommitApprove(s)
  <2>1. /\ tx[s].op = "approve"
        /\ refunds' = [refunds EXCEPT ![r].status = "approved", ![r].ref = tx[s].ref]
    BY <1>4 DEF CommitApprove
  <2>2. refunds'[r].status = "approved" /\ refunds'[r].order = refunds[r].order
    BY <1>1, <2>1 DEF TypeOK, Refund
  <2>3. QED
    BY <1>1, <1>2, <1>3, <2>1, <2>2
<1>5. CASE CommitReject(s)
  <2>1. tx[s].op = "reject" /\ refunds' = [refunds EXCEPT ![r].status = "rejected"]
    BY <1>5 DEF CommitReject
  <2>2. /\ refunds'[r].status = "rejected" /\ refunds'[r].order = refunds[r].order
        /\ refunds'[r].ref = refunds[r].ref
    BY <1>1, <2>1 DEF TypeOK, Refund
  <2>3. QED
    BY <1>1, <1>2, <1>3, <2>1, <2>2
<1>6. QED
  BY <1>4, <1>5 DEF Decides

\* A refund notice: the refund is processed, its payment refunded, fully or in part.
LEMMA RefundNoticed ==
  ASSUME TypeOK, CreditInv, NEW s \in Sessions, CommitRefundWebhook(s)
  PROVE  LET r == tx[s].refund  o == refunds[r].order IN
         /\ tx[s].op = "refund_webhook" /\ ledger' = ledger \cup {tx[s].event}
         /\ \/ UNCHANGED <<refunds, payments>>
            \/ /\ r \in Refunds /\ refunds[r].status # "none" /\ o \in Orders
               /\ refunds'[r].status = "processed" /\ refunds'[r].order = o
               /\ refunds'[r].ref = refunds[r].ref
               /\ \A q \in Refunds \ {r} : refunds'[q] = refunds[q]
               /\ tx[s].refund # None
               /\ payments'[o].status = tx[s].after /\ tx[s].after \in Credited
               /\ payments'[o].booking = payments[o].booking
               /\ payments'[o].kind = payments[o].kind
               /\ \A p \in Orders \ {o} : payments'[p] = payments[p]
         /\ tx'[s] = Idle /\ Others(s)
         /\ UNCHANGED <<earnings, payouts, attempts>>
<1> DEFINE r == tx[s].refund  o == refunds[r].order
<1>1. /\ tx[s].op = "refund_webhook" /\ ledger' = ledger \cup {tx[s].event}
      /\ tx'[s] = Idle /\ Others(s) /\ UNCHANGED <<earnings, payouts, attempts>>
  BY EndIdles DEF CommitRefundWebhook, provider
<1>2. CASE r = None
  BY <1>1, <1>2 DEF CommitRefundWebhook
<1>3. CASE r # None
  <2>1. r \in Refunds /\ refunds[r].status # "none" /\ tx[s].after \in Credited
    BY <1>1, <1>3, TxKinds DEF RefundWebhookTx, CreditInv, Backed, TypeOK
  <2>2. /\ o \in Orders
        /\ refunds' = [refunds EXCEPT ![r].status = "processed"]
        /\ payments' = [payments EXCEPT ![o].status = tx[s].after]
    BY <1>3, <2>1 DEF CreditInv, CommitRefundWebhook
  <2>3. /\ refunds'[r].status = "processed" /\ refunds'[r].order = o
        /\ refunds'[r].ref = refunds[r].ref
        /\ \A q \in Refunds \ {r} : refunds'[q] = refunds[q]
    BY <2>1, <2>2 DEF TypeOK, Refund
  <2>4. /\ payments'[o].status = tx[s].after
        /\ payments'[o].booking = payments[o].booking /\ payments'[o].kind = payments[o].kind
        /\ \A p \in Orders \ {o} : payments'[p] = payments[p]
    BY <2>2 DEF TypeOK, Payment
  <2>5. QED
    BY <1>1, <1>3, <2>1, <2>2, <2>3, <2>4
<1>4. QED
  BY <1>2, <1>3

(***************************************************************************)
(* Credits, earnings and notices                                           *)
(***************************************************************************)

\* An order that was attempted in vain: a failure, or another amount.
Failing(o) == \E n \in DOMAIN attempts[o] : attempts[o][n] \notin Successes

\* A webhook under way will credit what it was told of, unless the order has its earning
\* already or had an attempt that failed.
Informed(t) ==
  LET o == t.event.order  n == t.event.attempt IN
  /\ o \in Orders /\ n \in DOMAIN attempts[o]
  /\ t.report[o] = n \/ earnings[o] # "none" \/ Failing(o)

\* What a transaction under way relies on.
Claims(t) ==
  /\ t.op = "webhook" => Informed(t)
  /\ t.op = "refund_webhook" =>
       /\ t.event.type = "refund"
       /\ t.refund # None => t.after \in {"refunded", "partially_refunded"}

FailedHadAFailure == \A o \in Orders : payments[o].status = "failed" => Failing(o)

EarningIsCredited ==
  \A o \in Orders : earnings[o] # "none" => payments[o].status \in Credited \/ Failing(o)

\* The ledger names attempts that were made.
LedgerIsAttempted ==
  \A e \in ledger : e.type # "refund" => e.order \in Orders /\ e.attempt \in DOMAIN attempts[e.order]

\* A success that was reported and acknowledged has its earning, unless another attempt
\* of the order was in vain.
LostToFailureOnly ==
  \A e \in ledger :
    e.type \in {"authorized", "captured"} => earnings[e.order] # "none" \/ Failing(e.order)

KeptInv ==
  /\ FailedHadAFailure
  /\ EarningIsCredited
  /\ LedgerIsAttempted
  /\ LostToFailureOnly
  /\ \A s \in Sessions : Claims(tx[s])

\* What a step takes back: no earning, and a credit only of an order that had a failure.
TakenToFailureOnly ==
  \A o \in Orders :
    /\ earnings[o] # "none" => earnings'[o] # "none"
    /\ payments[o].status \in Credited => payments'[o].status \in Credited \/ Failing(o)

\* What tables and claims rest on: attempts are added, and failures stay.
AttemptsKept ==
  \A o \in Orders :
    /\ \A n \in DOMAIN attempts[o] : n \in DOMAIN attempts'[o]
    /\ Failing(o) => Failing(o)'

\* What transactions rely on outlasts the steps of others.
LEMMA ClaimsOutlast ==
  ASSUME TypeOK, NEW s, Others(s), AttemptsKept, TakenToFailureOnly,
         \A u \in Sessions : Claims(tx[u]),
         \/ tx'[s] = Idle \/ tx'[s].op \in {"reconcile", "approve"} \/ tx'[s] = tx[s]
  PROVE  \A u \in Sessions : Claims(tx[u])'
<1> SUFFICES ASSUME NEW u \in Sessions
             PROVE  Claims(tx[u])'
  OBVIOUS
<1>1. CASE tx'[u] = Idle \/ tx'[u].op \in {"reconcile", "approve"}
  BY <1>1 DEF Idle, Claims
<1>2. CASE tx'[u] = tx[u]
  <2> DEFINE t == tx[u]  o == t.event.order  n == t.event.attempt
  <2>1. Claims(t)
    OBVIOUS
  <2>2. ASSUME t.op = "webhook"
        PROVE  /\ o \in Orders /\ n \in DOMAIN attempts'[o]
               /\ t.report[o] = n \/ earnings'[o] # "none" \/ Failing(o)'
    <3>1. PICK p : p = o
      OBVIOUS
    <3>2. /\ p \in Orders /\ n \in DOMAIN attempts[p]
          /\ t.report[p] = n \/ earnings[p] # "none" \/ Failing(p)
      BY <2>1, <2>2, <3>1 DEF Claims, Informed
    <3>3. n \in DOMAIN attempts'[p] /\ (Failing(p) => Failing(p)')
      BY <3>2 DEF AttemptsKept
    <3>4. earnings[p] # "none" => earnings'[p] # "none"
      BY <3>2 DEF TakenToFailureOnly
    <3>5. Failing(p)' => Failing(o)'
      BY <1>2, <3>1 DEF Failing
    <3>6. QED
      BY <3>1, <3>2, <3>3, <3>4, <3>5
  <2>3. QED
    BY <1>2, <2>1, <2>2 DEF Claims, Informed, Failing
<1>3. QED
  BY <1>1, <1>2 DEF Others

\* What a transaction relies on when it starts.
LEMMA ClaimsBegin ==
  ASSUME TypeOK, CreditInv, KeptInv, NEW s \in Sessions, Starts(s)
  PROVE  \A u \in Sessions : Claims(tx[u])'
<1>0. Quiet /\ Others(s)
  BY StartIsQuiet
<1>1. ASSUME NEW t, Claims(t)
      PROVE  Claims(t)'
  BY <1>0, <1>1 DEF Quiet, Claims, Informed, Failing
<1>2. ASSUME NEW op, NEW t, Begin(s, op, t), Claims(t)
      PROVE  Claims(tx[s])'
  <2>1. tx'[s] = t
    BY <1>2 DEF Begin, TypeOK
  <2>2. Claims(t)'
    BY <1>1, <1>2
  <2>3. QED
    BY <2>1, <2>2 DEF Claims, Informed, Failing
<1>3. ASSUME NEW b \in Bookings, NEW kind, NEW key, StartOrder(s, b, kind, key)
      PROVE  Claims(tx[s])'
  BY <1>2, <1>3 DEF StartOrder, Claims
<1>4. ASSUME NEW o \in Orders, StartRequest(s, o)
      PROVE  Claims(tx[s])'
  BY <1>2, <1>4 DEF StartRequest, Claims
<1>5. ASSUME NEW e, e.order \in Orders, StartWebhook(s, e)
      PROVE  Claims(tx[s])'
  <2> DEFINE o == e.order
             t == [op |-> "webhook", event |-> e, opens |-> Opens(o),
                   report |-> IF payments[o].status \in Final THEN NoReport
                              ELSE [NoReport EXCEPT ![o] = e.attempt]]
  <2>1. e.attempt \in DOMAIN attempts[o] /\ Begin(s, "webhook", t)
    BY <1>5 DEF StartWebhook
  <2>2. CASE payments[o].status \in Final
    <3>1. earnings[o] # "none" \/ Failing(o)
      BY <1>5, <2>2 DEF Final, KeptInv, FailedHadAFailure, CreditInv, CreditIsBacked, Credited
    <3>2. QED
      BY <1>2, <1>5, <2>1, <3>1 DEF Claims, Informed
  <2>3. CASE payments[o].status \notin Final
    <3>1. t.report[o] = e.attempt
      BY <1>5, <2>3 DEF NoReport
    <3>2. QED
      BY <1>2, <1>5, <2>1, <3>1 DEF Claims, Informed
  <2>4. QED
    BY <2>2, <2>3
<1>6. ASSUME NEW batch, StartReconcile(s, batch)
      PROVE  Claims(tx[s])'
  BY <1>2, <1>6 DEF StartReconcile, Claims
<1>7. ASSUME NEW r \in Refunds, StartApprove(s, r) \/ StartReject(s, r)
      PROVE  Claims(tx[s])'
  BY <1>2, <1>7 DEF StartApprove, StartReject, Claims
<1>8. ASSUME NEW x \in ProviderRefunds, StartRefundWebhook(s, x)
      PROVE  Claims(tx[s])'
  <2>1. \A r : After(r) \in {"refunded", "partially_refunded"}
    BY DEF After
  <2>2. RefundEvent(x).type = "refund"
    BY DEF RefundEvent
  <2>3. QED
    BY <1>2, <1>8, <2>1, <2>2 DEF StartRefundWebhook, Claims
<1>9. ASSUME NEW a \in Artists, StartPayout(s, a)
      PROVE  Claims(tx[s])'
  BY <1>2, <1>9 DEF StartPayout, Claims
<1>10. Claims(tx[s])'
  BY <1>3, <1>4, <1>5, <1>6, <1>7, <1>8, <1>9 DEF Starts
<1>11. \A u \in Sessions \ {s} : Claims(tx[u])'
  BY <1>0 DEF Others, Quiet, KeptInv, Claims, Informed, Failing
<1>12. QED
  BY <1>10, <1>11

\* The parts of the invariant that are about tables.
TablesKept == FailedHadAFailure /\ EarningIsCredited /\ LedgerIsAttempted /\ LostToFailureOnly

\* The rest follows from the tables and what they keep.
LEMMA KeptFrom ==
  ASSUME TypeOK, KeptInv, NEW s, Others(s), tx'[s] = Idle, UNCHANGED attempts,
         TakenToFailureOnly, TablesKept'
  PROVE  KeptInv' /\ TakenToFailureOnly
<1>1. AttemptsKept
  BY DEF AttemptsKept, Failing
<1>2. \A u \in Sessions : Claims(tx[u])'
  BY <1>1, ClaimsOutlast DEF KeptInv
<1>3. QED
  BY <1>2 DEF KeptInv, TablesKept

\* A settlement: what it credits has its earning, and what it fails had a failure.
LEMMA SettlesKeeps ==
  ASSUME TypeOK, CreditInv, KeptInv, NEW s \in Sessions, Settles(s)
  PROVE  KeptInv' /\ TakenToFailureOnly
<1>1. tx'[s] = Idle /\ Others(s) /\ UNCHANGED attempts
  BY EndIdles DEF Settles
<1>2. ASSUME NEW o \in Orders
      PROVE  /\ earnings[o] # "none" => earnings'[o] # "none"
             /\ \/ payments'[o] = payments[o] /\ earnings'[o] = earnings[o]
                \/ payments'[o].status = "succeeded" /\ earnings'[o] # "none"
                \/ payments'[o].status = "failed" /\ Failing(o)
  BY SettleOrder DEF Failing
<1>3. "succeeded" \in Credited
  BY DEF Credited
<1>4. TakenToFailureOnly
  BY <1>2, <1>3 DEF TakenToFailureOnly
<1>5. \A o \in Orders : Failing(o)' <=> Failing(o)
  BY <1>1 DEF Failing
<1>6. FailedHadAFailure'
  BY <1>2, <1>5 DEF KeptInv, FailedHadAFailure
<1>7. EarningIsCredited'
  BY <1>2, <1>3, <1>5 DEF KeptInv, EarningIsCredited
<1>8. ASSUME tx[s].op = "webhook"
      PROVE  LET e == tx[s].event IN
             /\ e.order \in Orders /\ e.attempt \in DOMAIN attempts[e.order]
             /\ earnings'[e.order] # "none" \/ Failing(e.order)
  <2> DEFINE e == tx[s].event  o == e.order  n == e.attempt
  <2>1. /\ o \in Orders /\ n \in DOMAIN attempts[o]
        /\ tx[s].report[o] = n \/ earnings[o] # "none" \/ Failing(o)
    BY <1>8 DEF KeptInv, Claims, Informed
  <2>2. attempts[o] \in Seq(Outcomes)
    BY <2>1 DEF TypeOK
  <2>3. n # 0
    BY <2>1, <2>2
  <2>4. CASE tx[s].report[o] = n
    BY <2>1, <2>3, <2>4, SettleOrder DEF Failing
  <2>5. QED
    BY <1>2, <2>1, <2>4
<1>9. LedgerIsAttempted' /\ LostToFailureOnly'
  <2>1. ASSUME NEW e \in ledger
        PROVE  /\ e.type # "refund" => e.order \in Orders /\ e.attempt \in DOMAIN attempts[e.order]
               /\ e.type \in {"authorized", "captured"} =>
                    earnings'[e.order] # "none" \/ Failing(e.order)
    BY <1>2 DEF KeptInv, LedgerIsAttempted, LostToFailureOnly
  <2>2. \A e \in ledger' : e \in ledger \/ (tx[s].op = "webhook" /\ e = tx[s].event)
    BY DEF Settles
  <2>3. QED
    BY <1>1, <1>8, <2>1, <2>2 DEF LedgerIsAttempted, LostToFailureOnly, Failing
<1>10. QED
  BY <1>1, <1>4, <1>6, <1>7, <1>9, KeptFrom DEF TablesKept

\* A new order is nobody's yet.
LEMMA OrderKept ==
  ASSUME TypeOK, CreditInv, KeptInv, NEW s \in Sessions, NEW o \in Orders, CommitOrder(s, o)
  PROVE  KeptInv' /\ TakenToFailureOnly
<1>1. /\ payments[o].status = "none" /\ payments'[o].status = "pending"
      /\ \A p \in Orders \ {o} : payments'[p] = payments[p]
      /\ tx'[s] = Idle /\ Others(s) /\ UNCHANGED <<earnings, ledger, attempts>>
  BY OrderInserted
<1>2. earnings[o] = "none"
  BY <1>1 DEF CreditInv, CreditIsBacked, Accepted
<1>3. "none" \notin Credited
  BY DEF Credited
<1>4. TakenToFailureOnly
  BY <1>1, <1>3 DEF TakenToFailureOnly
<1>5. TablesKept'
  BY <1>1, <1>2 DEF TablesKept, KeptInv, FailedHadAFailure, EarningIsCredited, LedgerIsAttempted,
     LostToFailureOnly, Failing
<1>6. QED
  BY <1>1, <1>4, <1>5, KeptFrom

\* Requests for refunds, and decisions on them, touch no payment.
LEMMA RefundKept ==
  ASSUME TypeOK, CreditInv, KeptInv, NEW s \in Sessions,
         Decides(s) \/ \E r \in Refunds : CommitRequest(s, r)
  PROVE  KeptInv' /\ TakenToFailureOnly
<1>1. /\ tx'[s] = Idle /\ Others(s)
      /\ UNCHANGED <<payments, earnings, payouts, ledger, attempts>>
  BY RefundDecided, RefundRequested
<1>2. TakenToFailureOnly /\ TablesKept'
  BY <1>1 DEF TakenToFailureOnly, TablesKept, KeptInv, FailedHadAFailure, EarningIsCredited,
     LedgerIsAttempted, LostToFailureOnly, Failing
<1>3. QED
  BY <1>1, <1>2, KeptFrom

\* A refund notice gives a payment another credited status, and is no payment notice.
LEMMA NoticeKept ==
  ASSUME TypeOK, CreditInv, KeptInv, NEW s \in Sessions, CommitRefundWebhook(s)
  PROVE  KeptInv' /\ TakenToFailureOnly
<1>1. /\ tx[s].op = "refund_webhook" /\ ledger' = ledger \cup {tx[s].event}
      /\ tx'[s] = Idle /\ Others(s) /\ UNCHANGED <<earnings, attempts>>
      /\ \A p \in Orders : payments'[p] = payments[p] \/ payments'[p].status \in Credited
  BY RefundNoticed
<1>2. tx[s].event.type = "refund"
  BY <1>1 DEF KeptInv, Claims
<1>3. "failed" \notin Credited
  BY DEF Credited
<1>4. TakenToFailureOnly
  BY <1>1 DEF TakenToFailureOnly
<1>5. FailedHadAFailure' /\ EarningIsCredited'
  BY <1>1, <1>3 DEF KeptInv, FailedHadAFailure, EarningIsCredited, Failing
<1>6. LedgerIsAttempted' /\ LostToFailureOnly'
  BY <1>1, <1>2 DEF KeptInv, LedgerIsAttempted, LostToFailureOnly, Failing
<1>7. QED
  BY <1>1, <1>4, <1>5, <1>6, KeptFrom DEF TablesKept

\* A payout is of earnings there are.
LEMMA PayoutKept ==
  ASSUME TypeOK, CreditInv, KeptInv, NEW s \in Sessions, NEW k \in Payouts, CommitPayout(s, k)
  PROVE  KeptInv' /\ TakenToFailureOnly
<1>1. /\ tx[s].op = "payout" /\ tx'[s] = Idle /\ Others(s)
      /\ UNCHANGED <<payments, ledger, attempts>>
      /\ \A o \in Orders : earnings'[o] = IF o \in tx[s].owed THEN k ELSE earnings[o]
  BY EndIdles DEF CommitPayout, provider
<1>2. \A o \in tx[s].owed : earnings[o] # "none"
  BY <1>1 DEF CreditInv, Backed
<1>3. \A o \in Orders : earnings'[o] # "none" <=> earnings[o] # "none"
  BY <1>1, <1>2, PaymentsAssumption
<1>4. TakenToFailureOnly
  BY <1>1, <1>3 DEF TakenToFailureOnly
<1>5. FailedHadAFailure' /\ EarningIsCredited' /\ LedgerIsAttempted'
  BY <1>1, <1>3 DEF KeptInv, FailedHadAFailure, EarningIsCredited, LedgerIsAttempted, Failing
<1>6. LostToFailureOnly'
  BY <1>1, <1>3 DEF KeptInv, LostToFailureOnly, LedgerIsAttempted, Failing
<1>7. QED
  BY <1>1, <1>4, <1>5, <1>6, KeptFrom DEF TablesKept

\* A new attempt, a capture or a lapse makes no failure undone.
LEMMA PaysKeeps ==
  ASSUME TypeOK, CreditInv, KeptInv, Pays
  PROVE  KeptInv' /\ TakenToFailureOnly /\ AttemptsKept
<1>1. UNCHANGED <<app, tx, prefunds>>
  BY DEF Pays, Attempt, Resolve
<1>2. AttemptsKept
  <2>1. ASSUME NEW o \in Orders, NEW outcome \in Outcomes, Attempt(o, outcome)
        PROVE  AttemptsKept
    <3>1. \A p \in Orders : /\ attempts[p] \in Seq(Outcomes)
                            /\ attempts'[p] = IF p = o THEN Append(attempts[p], outcome)
                                              ELSE attempts[p]
      BY <2>1 DEF Attempt, TypeOK
    <3>2. ASSUME NEW p \in Orders, NEW n \in DOMAIN attempts[p]
          PROVE  n \in DOMAIN attempts'[p] /\ attempts'[p][n] = attempts[p][n]
      <4>1. /\ attempts[p] \in Seq(Outcomes)
            /\ attempts'[p] = Append(attempts[p], outcome) \/ attempts'[p] = attempts[p]
        BY <3>1
      <4>2. \A a \in Seq(Outcomes) : \A m \in DOMAIN a :
              m \in DOMAIN Append(a, outcome) /\ Append(a, outcome)[m] = a[m]
        OBVIOUS
      <4>3. QED
        BY <4>1, <4>2
    <3>3. QED
      BY <3>2 DEF AttemptsKept, Failing
  <2>2. ASSUME NEW o \in Orders, NEW n, NEW outcome, Resolve(o, n, outcome)
        PROVE  AttemptsKept
    <3>1. \A p \in Orders :
            attempts'[p] = IF p = o THEN [attempts[p] EXCEPT ![n] = outcome] ELSE attempts[p]
      BY <2>2 DEF Resolve, TypeOK
    <3>2. \A p \in Orders : DOMAIN attempts'[p] = DOMAIN attempts[p]
      BY <3>1
    <3>3. \A p \in Orders : \A m \in DOMAIN attempts[p] :
            attempts[p][m] \notin Successes => attempts'[p][m] = attempts[p][m]
      BY <2>2, <3>1 DEF Resolve, Successes
    <3>4. QED
      BY <3>2, <3>3 DEF AttemptsKept, Failing
  <2>3. QED
    BY <2>1, <2>2 DEF Pays
<1>3. TakenToFailureOnly
  BY <1>1 DEF TakenToFailureOnly, app
<1>4. TablesKept'
  <2>1. ASSUME NEW e \in ledger, e.type # "refund"
        PROVE  /\ e.order \in Orders /\ e.attempt \in DOMAIN attempts'[e.order]
               /\ e.type \in {"authorized", "captured"} =>
                    earnings[e.order] # "none" \/ Failing(e.order)'
    BY <1>2, <2>1 DEF KeptInv, LedgerIsAttempted, LostToFailureOnly, AttemptsKept
  <2>2. LedgerIsAttempted' /\ LostToFailureOnly'
    BY <1>1, <2>1 DEF LedgerIsAttempted, LostToFailureOnly, app, Failing
  <2>3. FailedHadAFailure' /\ EarningIsCredited'
    BY <1>1, <1>2 DEF KeptInv, FailedHadAFailure, EarningIsCredited, AttemptsKept, app
  <2>4. QED
    BY <2>2, <2>3 DEF TablesKept
<1>5. \A u \in Sessions : Claims(tx[u])'
  <2>1. ASSUME NEW u \in Sessions
        PROVE  Claims(tx[u])'
    <3>1. Others(u) /\ tx'[u] = tx[u]
      BY <1>1 DEF Others
    <3>2. QED
      BY <1>2, <1>3, <3>1, ClaimsOutlast DEF KeptInv
  <2>2. QED
    BY <2>1
<1>6. QED
  BY <1>2, <1>3, <1>4, <1>5 DEF KeptInv, TablesKept

\* Every step keeps credits, earnings and notices in agreement but for failures.
LEMMA KeptStep ==
  ASSUME TypeOK, CreditInv, KeptInv, [Next]_vars
  PROVE  KeptInv' /\ TakenToFailureOnly
<1>1. ASSUME Quiet, \A u \in Sessions : Claims(tx[u])'
      PROVE  KeptInv' /\ TakenToFailureOnly
  BY <1>1 DEF Quiet, KeptInv, FailedHadAFailure, EarningIsCredited, LedgerIsAttempted,
     LostToFailureOnly, Failing, TakenToFailureOnly
<1>2. CASE Quiet /\ UNCHANGED tx
  <2>1. \A u \in Sessions : Claims(tx[u])'
    BY <1>2 DEF Quiet, KeptInv, Claims, Informed, Failing
  <2>2. QED
    BY <1>1, <1>2, <2>1
<1>3. ASSUME NEW s \in Sessions, GoesOn(s)
      PROVE  KeptInv' /\ TakenToFailureOnly
  <2>1. TakenToFailureOnly /\ AttemptsKept
    BY <1>3 DEF GoesOn, Quiet, TakenToFailureOnly, AttemptsKept, Failing
  <2>2. \A u \in Sessions : Claims(tx[u])'
    BY <1>3, <2>1, ClaimsOutlast DEF GoesOn, KeptInv
  <2>3. QED
    BY <1>1, <1>3, <2>2 DEF GoesOn
<1>4. ASSUME NEW s \in Sessions, Starts(s)
      PROVE  KeptInv' /\ TakenToFailureOnly
  BY <1>1, <1>4, StartIsQuiet, ClaimsBegin
<1>5. QED
  BY <1>2, <1>3, <1>4, StepKinds, PaysKeeps, SettlesKeeps, OrderKept, RefundKept, NoticeKept,
     PayoutKept

\* In every reachable state, and along every step.
LEMMA KeptStays == Spec => [](TypeOK /\ CreditInv /\ KeptInv) /\ [][TakenToFailureOnly]_vars
<1>1. Init => KeptInv
  BY DEF Init, Idle, KeptInv, FailedHadAFailure, EarningIsCredited, LedgerIsAttempted,
     LostToFailureOnly, Claims
<1>2. TypeOK /\ CreditInv /\ KeptInv /\ [Next]_vars => KeptInv' /\ TakenToFailureOnly
  BY KeptStep
<1>3. QED
  BY <1>1, <1>2, CreditStaysBacked, PTL DEF Spec

\* Whatever races and however often an order is attempted: a notice of a success that was
\* acknowledged took effect, unless another attempt of the same order was in vain.
\* (payments_lost_retry shows how the failure of one attempt loses another's success.)
THEOREM NoticesTakeEffect == Spec => []LostToFailureOnly
<1>1. KeptInv => LostToFailureOnly
  BY DEF KeptInv
<1>2. QED
  BY <1>1, KeptStays, PTL

\* Under no condition either: no step takes an earning away, and none takes a credit back
\* but of an order that had an attempt in vain (_settle_payment: "already settled").
THEOREM TakenBackByFailures == Spec => [][TakenToFailureOnly]_<<payments, earnings>>
<1>1. TakenToFailureOnly \/ UNCHANGED vars
        => TakenToFailureOnly \/ UNCHANGED <<payments, earnings>>
  BY DEF vars
<1>2. QED
  BY <1>1, KeptStays, PTL

(***************************************************************************)
(* Orders with one kind of outcome                                         *)
(*                                                                         *)
(* The rest is about what a failure beside a success would spoil, so it    *)
(* assumes of a behaviour that no order has both: what docs/payments.md    *)
(* section 3a allows and the service does not handle.  An order may be     *)
(* authorized any number of times, or fail any number of times.            *)
(***************************************************************************)

Steady == \A o \in Orders : Accepted(o) => ~ Failing(o)

FailedIsUnaccepted == \A o \in Orders : payments[o].status = "failed" => ~ Accepted(o)

RefundsAreOfCredits ==
  \A r \in Refunds : refunds[r].status # "none" => payments[refunds[r].order].status \in Credited

SettledInv ==
  /\ Steady
  /\ EarningMatchesCredit
  /\ FailedHadAFailure /\ FailedIsUnaccepted
  /\ RefundsAreOfCredits
  /\ \A s \in Sessions : Claims(tx[s])

\* Without failures beside successes, the exceptions of the invariant are void.
LEMMA SettledFrom ==
  ASSUME CreditInv, KeptInv, Steady
  PROVE  SettledInv
<1>1. EarningMatchesCredit
  BY DEF CreditInv, CreditIsBacked, KeptInv, EarningIsCredited, Steady, EarningMatchesCredit
<1>2. FailedIsUnaccepted
  BY DEF KeptInv, FailedHadAFailure, Steady, FailedIsUnaccepted
<1>3. RefundsAreOfCredits
  BY <1>1 DEF CreditInv, EarningMatchesCredit, RefundsAreOfCredits
<1>4. QED
  BY <1>1, <1>2, <1>3 DEF SettledInv, KeptInv

\* Settling leaves alone what was credited before, and fails only what was not accepted.
LEMMA SettleOnce ==
  ASSUME TypeOK, CreditInv, SettledInv, NEW s \in Sessions, Settles(s), NEW o \in Orders
  PROVE  LET n == tx[s].report[o] IN
         \/ n = 0 /\ payments'[o] = payments[o] /\ earnings'[o] = earnings[o]
         \/ /\ n # 0 /\ n \in DOMAIN attempts[o] /\ attempts[o][n] \in Successes
            /\ payments[o].status \notin Credited /\ payments[o].status # "failed"
            /\ earnings[o] = "none"
            /\ payments'[o].status = "succeeded" /\ earnings'[o] = "unpaid"
         \/ /\ n # 0 /\ n \in DOMAIN attempts[o] /\ ~ Accepted(o)
            /\ payments[o].status \notin Credited /\ earnings[o] = "none"
            /\ payments'[o].status = "failed" /\ earnings'[o] = "none"
<1> DEFINE n == tx[s].report[o]
<1>1. CASE n = 0
  BY <1>1, SettleOrder
<1>2. CASE n # 0 /\ attempts[o][n] \in Successes
  <2>1. n \in DOMAIN attempts[o] /\ earnings[o] = "none"
        /\ payments'[o].status = "succeeded" /\ earnings'[o] = "unpaid"
    BY <1>2, SettleOrder
  <2>2. Accepted(o)
    BY <1>2, <2>1 DEF Accepted
  <2>3. QED
    BY <1>2, <2>1, <2>2 DEF SettledInv, EarningMatchesCredit, FailedIsUnaccepted
<1>3. CASE n # 0 /\ attempts[o][n] \notin Successes
  <2>1. n \in DOMAIN attempts[o] /\ payments'[o].status = "failed" /\ earnings'[o] = earnings[o]
    BY <1>3, SettleOrder
  <2>2. ~ Accepted(o)
    BY <1>3, <2>1 DEF SettledInv, Steady, Failing
  <2>3. payments[o].status \notin Credited /\ earnings[o] = "none"
    BY <2>2 DEF CreditInv, CreditIsBacked
  <2>4. QED
    BY <1>3, <2>1, <2>2, <2>3
<1>4. QED
  BY <1>1, <1>2, <1>3

\* A step keeps it, and takes neither a credit nor an earning back.
LEMMA SettledStep ==
  ASSUME TypeOK, CreditInv, SettledInv, [Next]_vars
  PROVE  SettledStaysSo
<1> SUFFICES ASSUME NEW o \in Orders
             PROVE  /\ payments[o].status \in Credited => payments'[o].status \in Credited
                    /\ earnings[o] # "none" => earnings'[o] # "none"
  BY DEF SettledStaysSo
<1>1. ASSUME NEW s \in Sessions, Settles(s)
      PROVE  /\ payments[o].status \in Credited => payments'[o].status \in Credited
             /\ earnings[o] # "none" => earnings'[o] # "none"
  BY <1>1, SettleOnce
<1>2. ASSUME NEW s \in Sessions, NEW p \in Orders, CommitOrder(s, p)
      PROVE  /\ payments[o].status \in Credited => payments'[o].status \in Credited
             /\ earnings[o] # "none" => earnings'[o] # "none"
  BY <1>2, OrderInserted DEF Credited
<1>3. ASSUME NEW s \in Sessions, CommitRefundWebhook(s)
      PROVE  /\ payments[o].status \in Credited => payments'[o].status \in Credited
             /\ earnings[o] # "none" => earnings'[o] # "none"
  BY <1>3, RefundNoticed
<1>4. ASSUME NEW s \in Sessions, NEW k \in Payouts, CommitPayout(s, k)
      PROVE  /\ payments[o].status \in Credited => payments'[o].status \in Credited
             /\ earnings[o] # "none" => earnings'[o] # "none"
  BY <1>4, PaymentsAssumption DEF CommitPayout
<1>5. ASSUME UNCHANGED <<payments, earnings>>
      PROVE  /\ payments[o].status \in Credited => payments'[o].status \in Credited
             /\ earnings[o] # "none" => earnings'[o] # "none"
  BY <1>5
<1>6. Pays => UNCHANGED <<payments, earnings>>
  BY DEF Pays, Attempt, Resolve, app
<1>7. QED
  BY <1>1, <1>2, <1>3, <1>4, <1>5, <1>6, StepKinds, StartIsQuiet, RefundRequested, RefundDecided
  DEF Quiet, GoesOn

\* In every reachable state, and along every step.
LEMMA SettledStays ==
  Spec /\ []Steady => [](TypeOK /\ CreditInv /\ SettledInv) /\ [][SettledStaysSo]_vars
<1>1. CreditInv /\ KeptInv /\ Steady => SettledInv
  BY SettledFrom
<1>2. TypeOK /\ CreditInv /\ SettledInv /\ [Next]_vars => SettledStaysSo
  BY SettledStep
<1>3. QED
  BY <1>1, <1>2, KeptStays, PTL DEF Spec

\* If no order has a failed attempt beside a successful one, the artist has an earning for
\* exactly the payments that were credited, whatever webhooks, reconciliation, refunds and
\* payouts run together.
THEOREM EarningsMatchCredits == Spec /\ []Steady => []EarningMatchesCredit
<1>1. SettledInv => EarningMatchesCredit
  BY DEF SettledInv
<1>2. QED
  BY <1>1, SettledStays, PTL

(***************************************************************************)
(* Transactions side by side                                               *)
(***************************************************************************)

\* Only operations that may race are under way together.
Beside ==
  \A s, u \in Sessions :
    s # u /\ tx[s] # Idle /\ tx[u] # Idle => {tx[s].op, tx[u].op} \in Races

\* A transaction starts with the operation it was checked for.
LEMMA StartsBegin ==
  ASSUME NEW s \in Sessions, Starts(s)
  PROVE  \E op, t : t.op = op /\ Begin(s, op, t)
<1>1. ASSUME NEW e, StartWebhook(s, e)
      PROVE  \E op, t : t.op = op /\ Begin(s, op, t)
  BY <1>1 DEF StartWebhook
<1>2. ASSUME NEW x, StartRefundWebhook(s, x)
      PROVE  \E op, t : t.op = op /\ Begin(s, op, t)
  BY <1>2 DEF StartRefundWebhook
<1>3. QED
  BY <1>1, <1>2 DEF Starts, StartOrder, StartReconcile, StartRequest, StartApprove,
     StartReject, StartPayout

\* A session's operation tells which request it has started.
LEMMA StartsAs ==
  ASSUME TypeOK, NEW s \in Sessions, Starts(s)
  PROVE  /\ tx'[s].op = "payout" => \E a \in Artists : StartPayout(s, a)
         /\ tx'[s].op = "reject" => \E r \in Refunds : StartReject(s, r)
         /\ tx'[s].op = "order" =>
              \E b \in Bookings, kind \in Kinds, key \in Keys \cup {None} :
                StartOrder(s, b, kind, key)
<1>1. ASSUME NEW op, NEW t, Begin(s, op, t), t.op = op
      PROVE  tx'[s].op = op
  BY <1>1 DEF Begin, TypeOK
<1>2. ASSUME NEW e, StartWebhook(s, e)
      PROVE  tx'[s].op = "webhook"
  BY <1>1, <1>2 DEF StartWebhook
<1>3. ASSUME NEW x, StartRefundWebhook(s, x)
      PROVE  tx'[s].op = "refund_webhook"
  <2>1. \E t : t.op = "refund_webhook" /\ Begin(s, "refund_webhook", t)
    BY <1>3 DEF StartRefundWebhook
  <2>2. QED
    BY <1>1, <2>1
<1>4. ASSUME NEW batch, StartReconcile(s, batch)
      PROVE  tx'[s].op = "reconcile"
  BY <1>1, <1>4 DEF StartReconcile
<1>5. ASSUME NEW o, StartRequest(s, o)
      PROVE  tx'[s].op = "request"
  BY <1>1, <1>5 DEF StartRequest
<1>6. ASSUME NEW r, StartApprove(s, r)
      PROVE  tx'[s].op = "approve"
  BY <1>1, <1>6 DEF StartApprove
<1>7. ASSUME NEW r, StartReject(s, r)
      PROVE  tx'[s].op = "reject"
  BY <1>1, <1>7 DEF StartReject
<1>8. ASSUME NEW a, StartPayout(s, a)
      PROVE  tx'[s].op = "payout"
  BY <1>1, <1>8 DEF StartPayout
<1>9. ASSUME NEW b, NEW kind, NEW key, StartOrder(s, b, kind, key)
      PROVE  tx'[s].op = "order"
  BY <1>1, <1>9 DEF StartOrder
<1>10. QED
  BY <1>2, <1>3, <1>4, <1>5, <1>6, <1>7, <1>8, <1>9 DEF Starts

\* What a step does to the transactions: one begins, goes on or ends, or none does.
LEMMA TxStep ==
  ASSUME TypeOK, CreditInv, [Next]_vars
  PROVE  \/ UNCHANGED tx
         \/ \E s \in Sessions :
              /\ Others(s)
              /\ \/ Starts(s) \/ tx'[s] = Idle
                 \/ tx'[s].op = tx[s].op /\ tx[s].op \in {"reconcile", "approve"}
<1>1. ASSUME Pays
      PROVE  UNCHANGED tx
  BY <1>1 DEF Pays, Attempt, Resolve
<1>2. ASSUME NEW s \in Sessions, Settles(s)
      PROVE  Others(s) /\ tx'[s] = Idle
  BY <1>2, EndIdles DEF Settles
<1>3. ASSUME NEW s \in Sessions, NEW k \in Payouts, CommitPayout(s, k)
      PROVE  Others(s) /\ tx'[s] = Idle
  BY <1>3, EndIdles DEF CommitPayout
<1>4. QED
  BY <1>1, <1>2, <1>3, StepKinds, StartIsQuiet, OrderInserted, RefundRequested, RefundDecided,
     RefundNoticed DEF GoesOn

\* In every reachable state.
LEMMA OnlyRacesBeside == Spec => []Beside
<1>1. Init => Beside
  BY DEF Init, Beside
<1>2. TypeOK /\ CreditInv /\ Beside /\ [Next]_vars => Beside'
  <2> SUFFICES ASSUME TypeOK, CreditInv, Beside, [Next]_vars
               PROVE  Beside'
    OBVIOUS
  <2>1. ASSUME NEW s \in Sessions, Others(s), Starts(s)
        PROVE  Beside'
    <3>1. PICK op, t : t.op = op /\ Begin(s, op, t)
      BY <2>1, StartsBegin
    <3>2. /\ tx'[s].op = op
          /\ \A u \in Sessions : tx[u] # Idle => {op, tx[u].op} \in Races
      BY <3>1 DEF Begin, TypeOK
    <3>3. QED
      BY <2>1, <3>2 DEF Beside, Others
  <2>2. ASSUME NEW s \in Sessions, Others(s),
               \/ tx'[s] = Idle
               \/ tx'[s].op = tx[s].op /\ tx[s].op \in {"reconcile", "approve"}
        PROVE  Beside'
    <3>1. tx'[s] # Idle => tx[s] # Idle /\ tx'[s].op = tx[s].op
      BY <2>2 DEF Idle
    <3>2. QED
      BY <2>2, <3>1 DEF Beside, Others
  <2>3. CASE UNCHANGED tx
    BY <2>3 DEF Beside
  <2>4. QED
    BY <2>1, <2>2, <2>3, TxStep
<1>3. QED
  BY <1>1, <1>2, CreditStaysBacked, PTL DEF Spec

(***************************************************************************)
(* Payouts                                                                 *)
(***************************************************************************)

\* What a payout was summed from is still to be paid.
StillOwed == \A s \in Sessions : tx[s].op = "payout" => \A o \in tx[s].owed : earnings[o] = "unpaid"

PayoutInv == PaidOutOnce /\ StillOwed

\* The payout commits what it was summed from, and nothing of it was paid out before.
LEMMA PayoutPays ==
  ASSUME TypeOK, Beside, {"payout"} \notin Races, PayoutInv,
         NEW s \in Sessions, NEW k \in Payouts, CommitPayout(s, k)
  PROVE  PayoutInv'
<1>1. /\ tx[s].op = "payout" /\ tx'[s] = Idle /\ Others(s) /\ payouts[k] = {}
      /\ \A o \in Orders : earnings'[o] = IF o \in tx[s].owed THEN k ELSE earnings[o]
      /\ payouts'[k] = tx[s].owed
      /\ \A l \in Payouts \ {k} : payouts'[l] = payouts[l]
  BY EndIdles DEF CommitPayout, TypeOK
<1>2. tx[s].owed \subseteq Orders /\ \A o \in tx[s].owed : earnings[o] = "unpaid"
  BY <1>1, TxKinds DEF TypeOK, PayoutTx, PayoutInv, StillOwed
<1>3. ASSUME NEW o \in Orders, NEW l \in Payouts
      PROVE  o \in payouts'[l] <=> earnings'[o] = l
  <2>1. o \in payouts[l] <=> earnings[o] = l
    BY DEF PayoutInv, PaidOutOnce
  <2>2. earnings[o] # k
    BY <1>1 DEF PayoutInv, PaidOutOnce
  <2>3. QED
    BY <1>1, <1>2, <2>1, <2>2, PaymentsAssumption
<1>4. \A u \in Sessions : tx'[u].op # "payout"
  BY <1>1 DEF Others, Beside, Idle
<1>5. QED
  BY <1>3, <1>4 DEF PayoutInv, PaidOutOnce, StillOwed

\* Every step keeps payouts and earnings in agreement, if one payout is made at a time.
LEMMA PayoutStep ==
  ASSUME TypeOK, CreditInv, Beside, {"payout"} \notin Races, PayoutInv, [Next]_vars
  PROVE  PayoutInv'
<1>1. ASSUME NEW s \in Sessions, Others(s), tx'[s].op # "payout", UNCHANGED payouts,
             \A o \in Orders : earnings'[o] = earnings[o]
                                 \/ (earnings[o] = "none" /\ earnings'[o] = "unpaid")
      PROVE  PayoutInv'
  <2>1. PaidOutOnce'
    BY <1>1, PaymentsAssumption DEF PayoutInv, PaidOutOnce
  <2>2. ASSUME NEW u \in Sessions, tx'[u].op = "payout"
        PROVE  \A o \in tx'[u].owed : earnings'[o] = "unpaid"
    <3>1. tx'[u] = tx[u] /\ tx[u].owed \subseteq Orders
      BY <1>1, <2>2, TxKinds DEF Others, TypeOK, PayoutTx
    <3>2. QED
      BY <1>1, <2>2, <3>1 DEF PayoutInv, StillOwed
  <2>3. QED
    BY <2>1, <2>2 DEF PayoutInv, StillOwed
<1>2. CASE UNCHANGED <<earnings, payouts, tx>>
  BY <1>2 DEF PayoutInv, PaidOutOnce, StillOwed
<1>3. ASSUME NEW s \in Sessions, tx'[s] = Idle, Others(s), UNCHANGED <<earnings, payouts>>
      PROVE  PayoutInv'
  BY <1>1, <1>3 DEF Idle
<1>4. ASSUME NEW s \in Sessions, GoesOn(s)
      PROVE  PayoutInv'
  BY <1>1, <1>4 DEF GoesOn, Quiet, Idle
<1>5. ASSUME NEW s \in Sessions, Settles(s)
      PROVE  PayoutInv'
  <2>1. tx'[s] = Idle /\ Others(s) /\ UNCHANGED payouts
    BY <1>5, EndIdles DEF Settles
  <2>2. \A o \in Orders : earnings'[o] = earnings[o]
                            \/ (earnings[o] = "none" /\ earnings'[o] = "unpaid")
    BY <1>5, SettleOrder
  <2>3. QED
    BY <1>1, <2>1, <2>2 DEF Idle
<1>6. ASSUME NEW s \in Sessions, Starts(s)
      PROVE  PayoutInv'
  <2>1. Quiet /\ Others(s)
    BY <1>6, StartIsQuiet
  <2>2. CASE tx'[s].op # "payout"
    BY <1>1, <2>1, <2>2 DEF Quiet
  <2>3. CASE tx'[s].op = "payout"
    <3>1. ASSUME NEW op, NEW t, Begin(s, op, t)
          PROVE  tx'[s] = t
      BY <3>1 DEF Begin, TypeOK
    <3>2. \E a \in Artists : StartPayout(s, a)
      BY <1>6, <2>3, StartsAs
    <3>3. \A o \in tx'[s].owed : earnings[o] = "unpaid"
      BY <3>1, <3>2 DEF StartPayout, Owed
    <3>4. QED
      BY <2>1, <3>3 DEF Quiet, Others, PayoutInv, PaidOutOnce, StillOwed
  <2>4. QED
    BY <2>2, <2>3
<1>7. ASSUME Pays
      PROVE  PayoutInv'
  BY <1>2, <1>7 DEF Pays, Attempt, Resolve, app
<1>8. QED
  BY <1>2, <1>3, <1>4, <1>5, <1>6, <1>7, StepKinds, PayoutPays, OrderInserted, RefundRequested,
     RefundDecided, RefundNoticed DEF Quiet

\* An earning is part of the payout it names and of no other, if payouts are made one at a
\* time, whatever else runs beside them and however often orders are attempted.
LEMMA EarningsPaidOutOnce ==
  ASSUME {"payout"} \notin Races
  PROVE  Spec => []PaidOutOnce
<1>1. Init => PayoutInv
  BY PaymentsAssumption DEF Init, Idle, PayoutInv, PaidOutOnce, StillOwed
<1>2. TypeOK /\ CreditInv /\ Beside /\ PayoutInv /\ [Next]_vars => PayoutInv'
  BY PayoutStep
<1>3. PayoutInv => PaidOutOnce
  BY DEF PayoutInv
<1>4. QED
  BY <1>1, <1>2, <1>3, CreditStaysBacked, OnlyRacesBeside, PTL DEF Spec

(***************************************************************************)
(* Orders                                                                  *)
(***************************************************************************)

Live(o) == payments[o].status \in {"pending", "succeeded"}

\* Nothing live stands where a transaction is about to insert an order.
IsFree(t) ==
  \A o \in Orders : Live(o) /\ payments[o].booking = t.booking => payments[o].kind # t.kind

LiveInv == OneLiveOrder /\ \A s \in Sessions : tx[s].op = "order" => IsFree(tx[s])

\* A live order stays live or stops being so; only an insertion makes one.
LEMMA NoRevival ==
  ASSUME TypeOK, CreditInv, SettledInv, [Next]_vars, NEW o \in Orders, Live(o)',
         \A s \in Sessions : ~ CommitOrder(s, o)
  PROVE  Live(o) /\ payments'[o].booking = payments[o].booking
                 /\ payments'[o].kind = payments[o].kind
<1>1. CASE payments'[o] = payments[o]
  BY <1>1 DEF Live
<1>2. ASSUME NEW s \in Sessions, Settles(s), payments'[o] # payments[o]
      PROVE  /\ Live(o) /\ payments'[o].booking = payments[o].booking
             /\ payments'[o].kind = payments[o].kind
  <2>1. /\ payments'[o].booking = payments[o].booking /\ payments'[o].kind = payments[o].kind
    BY <1>2, SettleOrder
  <2>2. payments'[o].status # "failed"
    BY DEF Live
  <2>3. /\ payments[o].status \notin Credited /\ payments[o].status # "failed"
        /\ \E n \in DOMAIN attempts[o] : attempts[o][n] \in Successes
    BY <1>2, <2>2, SettleOnce
  <2>4. payments[o].status # "none"
    BY <2>3 DEF CreditInv
  <2>5. payments[o].status = "pending"
    BY <2>3, <2>4 DEF TypeOK, Payment, PaymentStatus, Credited
  <2>6. QED
    BY <2>1, <2>5 DEF Live
<1>3. ASSUME NEW s \in Sessions, CommitRefundWebhook(s), payments'[o] # payments[o]
      PROVE  FALSE
  <2>1. /\ tx[s].op = "refund_webhook" /\ tx[s].refund # None
        /\ payments'[o].status = tx[s].after
    BY <1>3, RefundNoticed
  <2>2. payments'[o].status \in {"refunded", "partially_refunded"}
    BY <2>1 DEF SettledInv, Claims
  <2>3. QED
    BY <2>2 DEF Live
<1>4. ASSUME NEW s \in Sessions, NEW p \in Orders, CommitOrder(s, p)
      PROVE  payments'[o] = payments[o]
  BY <1>4, OrderInserted
<1>5. ASSUME UNCHANGED payments
      PROVE  payments'[o] = payments[o]
  BY <1>5
<1>6. QED
  BY <1>1, <1>2, <1>3, <1>4, <1>5, StepKinds, RefundRequested, RefundDecided, StartIsQuiet
  DEF Quiet, GoesOn, Pays, Attempt, Resolve, app, CommitPayout

\* An order is inserted where its transaction saw none, and no other transaction inserts.
LEMMA InsertIsFree ==
  ASSUME TypeOK, CreditInv, Beside, {"order"} \notin Races, LiveInv,
         NEW s \in Sessions, NEW o \in Orders, CommitOrder(s, o)
  PROVE  LiveInv'
<1>1. /\ payments'[o].booking = tx[s].booking /\ payments'[o].kind = tx[s].kind
      /\ \A p \in Orders \ {o} : payments'[p] = payments[p]
      /\ tx'[s] = Idle /\ Others(s) /\ tx[s].op = "order"
  BY OrderInserted DEF CommitOrder
<1>2. ASSUME NEW p \in Orders, p # o, Live(p)', payments'[p].booking = payments'[o].booking
      PROVE  payments'[p].kind # payments'[o].kind
  BY <1>1, <1>2 DEF LiveInv, IsFree, Live
<1>3. ASSUME NEW b \in Bookings, NEW p \in Orders, NEW q \in Orders, Live(p)', Live(q)',
             payments'[p].booking = b, payments'[q].booking = b,
             payments'[p].kind = payments'[q].kind
      PROVE  p = q
  <2>1. CASE p # o /\ q # o
    <3>1. payments'[p] = payments[p] /\ payments'[q] = payments[q]
      BY <1>1, <2>1
    <3>2. Live(p) /\ Live(q) /\ payments[p].booking = b /\ payments[q].booking = b
      BY <1>3, <3>1 DEF Live
    <3>3. QED
      BY <1>3, <3>1, <3>2 DEF LiveInv, OneLiveOrder, OrdersOf, Live
  <2>2. CASE p = o \/ q = o
    BY <1>2, <1>3, <2>2
  <2>3. QED
    BY <2>1, <2>2
<1>4. OneLiveOrder'
  BY <1>3 DEF OneLiveOrder, OrdersOf, Live
<1>5. \A u \in Sessions : tx'[u].op # "order"
  BY <1>1 DEF Others, Beside, Idle
<1>6. QED
  BY <1>4, <1>5 DEF LiveInv

\* Every step keeps a booking's live orders apart, if orders are made one at a time.
LEMMA LiveStep ==
  ASSUME TypeOK, CreditInv, SettledInv, Beside, {"order"} \notin Races, LiveInv,
         [Next]_vars
  PROVE  LiveInv'
<1>1. CASE \E s \in Sessions, o \in Orders : CommitOrder(s, o)
  BY <1>1, InsertIsFree
<1>2. CASE \A s \in Sessions, o \in Orders : ~ CommitOrder(s, o)
  <2>1. \A o \in Orders : Live(o)' =>
          /\ Live(o) /\ payments'[o].booking = payments[o].booking
          /\ payments'[o].kind = payments[o].kind
    BY <1>2, NoRevival
  <2>2. OneLiveOrder'
    BY <2>1 DEF LiveInv, OneLiveOrder, OrdersOf, Live
  <2>3. ASSUME NEW t, IsFree(t)
        PROVE  IsFree(t)'
    BY <2>1, <2>3 DEF IsFree
  <2>4. ASSUME NEW u \in Sessions, tx'[u] = tx[u], tx'[u].op = "order"
        PROVE  IsFree(tx[u])'
    BY <2>3, <2>4 DEF LiveInv, IsFree
  <2>5. ASSUME NEW s \in Sessions, Starts(s), tx'[s].op = "order"
        PROVE  IsFree(tx[s])'
    <3>1. PICK b \in Bookings, kind \in Kinds, key \in Keys \cup {None} :
            StartOrder(s, b, kind, key)
      BY <2>5, StartsAs
    <3>2. tx'[s].booking = b /\ tx'[s].kind = kind
      BY <3>1 DEF StartOrder, Begin, TypeOK
    <3>3. \A o \in Orders : Live(o) /\ payments[o].booking = b => payments[o].kind # kind
      BY <3>1 DEF StartOrder, OrdersOf, Live
    <3>4. UNCHANGED payments
      BY <2>5, StartIsQuiet DEF Quiet
    <3>5. QED
      BY <3>2, <3>3, <3>4 DEF IsFree, Live
  <2>6. \A u \in Sessions : tx'[u].op = "order" => IsFree(tx[u])'
    BY <2>4, <2>5, TxStep DEF Others, Idle
  <2>7. QED
    BY <2>2, <2>6 DEF LiveInv
<1>3. QED
  BY <1>1, <1>2

\* A booking never has two orders pending or paid for one purpose, if its orders are made
\* one at a time and none has a failed attempt beside a successful one: no notice or refund
\* brings a closed order back to life.  (payments_orders shows two requests that both find
\* none.)
LEMMA OneLiveOrderForGood ==
  ASSUME {"order"} \notin Races
  PROVE  Spec /\ []Steady => []OneLiveOrder
<1>1. Init => LiveInv
  <2>1. Init => \A o \in Orders : ~ Live(o)
    BY DEF Init, Live
  <2>2. QED
    BY <2>1 DEF Init, Idle, LiveInv, IsFree, OneLiveOrder, OrdersOf, Live
<1>2. TypeOK /\ CreditInv /\ SettledInv /\ Beside /\ LiveInv /\ [Next]_vars => LiveInv'
  BY LiveStep
<1>3. LiveInv => OneLiveOrder
  BY DEF LiveInv
<1>4. QED
  BY <1>1, <1>2, <1>3, SettledStays, OnlyRacesBeside, PTL DEF Spec

(***************************************************************************)
(* Rejected refunds                                                        *)
(***************************************************************************)

\* A refund nobody approved, and one that is being rejected, carries no reference.
RejectInv ==
  /\ \A r \in Refunds : refunds[r].status \in {"pending", "rejected"} => refunds[r].ref = None
  /\ \A s \in Sessions : tx[s].op = "reject" => refunds[tx[s].refund].ref = None

\* Every step keeps it, if no refund is approved beside a rejection.
LEMMA RejectStep ==
  ASSUME TypeOK, CreditInv, Beside, {"approve", "reject"} \notin Races, RejectInv, [Next]_vars
  PROVE  RejectInv'
<1>1. ASSUME UNCHANGED refunds, NEW s \in Sessions, Others(s),
             tx'[s].op = "reject" => refunds[tx'[s].refund].ref = None
      PROVE  RejectInv'
  BY <1>1 DEF RejectInv, Others
<1>2. CASE UNCHANGED <<refunds, tx>>
  BY <1>2 DEF RejectInv
<1>3. ASSUME NEW s \in Sessions, Starts(s)
      PROVE  RejectInv'
  <2>1. Quiet /\ Others(s)
    BY <1>3, StartIsQuiet
  <2>2. ASSUME tx'[s].op = "reject"
        PROVE  refunds[tx'[s].refund].ref = None
    <3>1. PICK r \in Refunds : StartReject(s, r)
      BY <1>3, <2>2, StartsAs
    <3>2. tx'[s].refund = r /\ refunds[r].status = "pending"
      BY <3>1 DEF StartReject, Begin, TypeOK
    <3>3. QED
      BY <3>2 DEF RejectInv
  <2>3. QED
    BY <1>1, <2>1, <2>2 DEF Quiet
<1>4. ASSUME NEW s \in Sessions, tx'[s] = Idle, Others(s),
             \A r \in Refunds :
               /\ refunds'[r].status \in {"pending", "rejected"} => refunds'[r].ref = None
               /\ refunds[r].ref = None => refunds'[r].ref = None
      PROVE  RejectInv'
  <2>1. ASSUME NEW u \in Sessions, tx'[u].op = "reject"
        PROVE  refunds'[tx'[u].refund].ref = None
    <3>1. tx'[u] = tx[u]
      BY <1>4, <2>1 DEF Others, Idle
    <3>2. tx[u].refund \in Refunds
      BY <2>1, <3>1, TxKinds DEF TypeOK, RejectTx
    <3>3. QED
      BY <1>4, <2>1, <3>1, <3>2 DEF RejectInv
  <2>2. QED
    BY <1>4, <2>1 DEF RejectInv
<1>5. ASSUME NEW s \in Sessions, NEW r \in Refunds, CommitRequest(s, r)
      PROVE  RejectInv'
  <2>1. /\ refunds'[r].ref = None /\ \A q \in Refunds \ {r} : refunds'[q] = refunds[q]
        /\ tx'[s] = Idle /\ Others(s)
    BY <1>5, RefundRequested
  <2>2. QED
    BY <1>4, <2>1 DEF RejectInv
<1>6. ASSUME NEW s \in Sessions, Decides(s)
      PROVE  RejectInv'
  <2> DEFINE r == tx[s].refund
  <2>1. /\ r \in Refunds /\ tx'[s] = Idle /\ Others(s)
        /\ \A q \in Refunds \ {r} : refunds'[q] = refunds[q]
        /\ \/ tx[s].op = "approve" /\ refunds'[r].status = "approved"
           \/ tx[s].op = "reject" /\ refunds'[r].ref = refunds[r].ref
    BY <1>6, RefundDecided
  <2>2. CASE tx[s].op = "reject"
    <3>1. refunds'[r].ref = None
      BY <2>1, <2>2 DEF RejectInv
    <3>2. QED
      BY <1>4, <2>1, <3>1 DEF RejectInv
  <2>3. CASE tx[s].op = "approve"
    <3>1. \A u \in Sessions : tx'[u].op # "reject"
      BY <2>1, <2>3 DEF Others, Beside, Idle
    <3>2. \A q \in Refunds :
            refunds'[q].status \in {"pending", "rejected"} => refunds'[q].ref = None
      BY <2>1, <2>3 DEF RejectInv
    <3>3. QED
      BY <3>1, <3>2 DEF RejectInv
  <2>4. QED
    BY <2>1, <2>2, <2>3
<1>7. ASSUME NEW s \in Sessions, CommitRefundWebhook(s)
      PROVE  RejectInv'
  <2>1. /\ tx'[s] = Idle /\ Others(s)
        /\ \A q \in Refunds : \/ refunds'[q] = refunds[q]
                              \/ /\ refunds'[q].status = "processed"
                                 /\ refunds'[q].ref = refunds[q].ref
    BY <1>7, RefundNoticed
  <2>2. QED
    BY <1>4, <2>1 DEF RejectInv
<1>8. ASSUME NEW s \in Sessions, tx'[s] = Idle, Others(s), UNCHANGED refunds
      PROVE  RejectInv'
  BY <1>1, <1>8 DEF Idle
<1>9. ASSUME NEW s \in Sessions, GoesOn(s)
      PROVE  RejectInv'
  BY <1>1, <1>9 DEF GoesOn, Quiet, Idle
<1>10. ASSUME NEW s \in Sessions, Settles(s) \/ \E k \in Payouts : CommitPayout(s, k)
       PROVE  RejectInv'
  BY <1>8, <1>10, EndIdles DEF Settles, CommitPayout
<1>11. ASSUME Pays
       PROVE  RejectInv'
  BY <1>2, <1>11 DEF Pays, Attempt, Resolve, app
<1>12. QED
  BY <1>2, <1>3, <1>5, <1>6, <1>7, <1>8, <1>9, <1>10, <1>11, StepKinds, OrderInserted DEF Quiet

\* No refund that staff rejected was approved, if rejections and approvals do not run
\* together; two approvals may, and notices, as they like.
LEMMA RejectedStaysUnpaid ==
  ASSUME {"approve", "reject"} \notin Races
  PROVE  Spec => []RejectedIsUnpaid
<1>1. Init => RejectInv
  BY DEF Init, Idle, RejectInv
<1>2. TypeOK /\ CreditInv /\ Beside /\ RejectInv /\ [Next]_vars => RejectInv'
  BY RejectStep
<1>3. RejectInv => RejectedIsUnpaid
  BY DEF RejectInv, RejectedIsUnpaid
<1>4. QED
  BY <1>1, <1>2, <1>3, CreditStaysBacked, OnlyRacesBeside, PTL DEF Spec

(***************************************************************************)
(* Payments implements PaymentLife                                         *)
(***************************************************************************)

\* The stage of an order, told from its status.
LEMMA StageOf ==
  ASSUME NEW o \in Orders, payments[o].status \in PaymentStatus
  PROVE  /\ Stage(o) = "none" <=> payments[o].status = "none"
         /\ Stage(o) = "open" <=> payments[o].status = "pending"
         /\ Stage(o) = "closed" <=> payments[o].status = "failed"
         /\ Stage(o) = "credited" <=> payments[o].status = "succeeded"
         /\ Stage(o) = "returned" <=> payments[o].status \in {"refunded", "partially_refunded"}
BY DEF Stage, PaymentStatus

\* The same, before and after a step.
LEMMA Stages ==
  ASSUME TypeOK, TypeOK', NEW o \in Orders
  PROVE  /\ payments[o].status \in PaymentStatus /\ payments'[o].status \in PaymentStatus
         /\ payments'[o].status = payments[o].status => Stage(o)' = Stage(o)
         /\ payments'[o].status = "pending" => Stage(o)' = "open"
         /\ payments'[o].status = "failed" => Stage(o)' = "closed"
         /\ payments'[o].status = "succeeded" => Stage(o)' = "credited"
         /\ payments'[o].status \in {"refunded", "partially_refunded"} => Stage(o)' = "returned"
BY DEF TypeOK, Payment, Stage, PaymentStatus

\* A step that moves no money.
LEMMA LifeGoesOn ==
  ASSUME UNCHANGED <<payments, attempts>>,
         \A o \in Orders : earnings'[o] # "none" <=> earnings[o] # "none"
  PROVE  UNCHANGED Life!life
<1>1. \A o \in Orders : Stage(o)' = Stage(o) /\ (Accepted(o)' <=> Accepted(o))
  BY DEF Stage, Accepted
<1>2. QED
  BY <1>1 DEF Life!life

\* An order is made.
LEMMA LifeOpens ==
  ASSUME TypeOK, TypeOK', NEW s \in Sessions, NEW o \in Orders, CommitOrder(s, o)
  PROVE  Life!Open(o)
<1>1. /\ payments[o].status = "none" /\ payments'[o].status = "pending"
      /\ \A p \in Orders \ {o} : payments'[p] = payments[p]
      /\ UNCHANGED <<earnings, attempts>>
  BY OrderInserted
<1>2. Stage(o) = "none" /\ Stage(o)' = "open"
  BY <1>1, StageOf, Stages
<1>3. \A p \in Orders \ {o} : Stage(p)' = Stage(p)
  BY <1>1, Stages
<1>4. \A p \in Orders : Accepted(p)' <=> Accepted(p)
  BY <1>1 DEF Accepted
<1>5. QED
  BY <1>1, <1>2, <1>3, <1>4 DEF Life!Open, Life!At

\* A customer pays, or fails to: the first success of an order is its acceptance.
LEMMA LifePays ==
  ASSUME TypeOK, CreditInv, SettledInv, Steady', Pays
  PROVE  (\E o \in Orders : Life!Accept(o)) \/ UNCHANGED Life!life
<1>1. UNCHANGED <<payments, earnings>> /\ \A p \in Orders : Stage(p)' = Stage(p)
  BY DEF Pays, Attempt, Resolve, app, Stage
<1>2. ASSUME \A p \in Orders : Accepted(p)' <=> Accepted(p)
      PROVE  UNCHANGED Life!life
  BY <1>1, <1>2 DEF Life!life
<1>3. ASSUME NEW o \in Orders, NEW outcome \in Outcomes, Attempt(o, outcome)
      PROVE  Life!Accept(o) \/ UNCHANGED Life!life
  <2>1. /\ payments[o].status # "none" /\ attempts[o] \in Seq(Outcomes)
        /\ attempts'[o] = Append(attempts[o], outcome)
        /\ \A p \in Orders \ {o} : attempts'[p] = attempts[p]
    BY <1>3 DEF Attempt, TypeOK
  <2>2. /\ \A n \in DOMAIN attempts[o] : n \in DOMAIN attempts'[o] /\ attempts'[o][n] = attempts[o][n]
        /\ \A n \in DOMAIN attempts'[o] : n \in DOMAIN attempts[o] \/ attempts'[o][n] = outcome
        /\ \E n \in DOMAIN attempts'[o] : attempts'[o][n] = outcome
    <3>1. \E n \in DOMAIN attempts'[o] : attempts'[o][n] = outcome
      <4>1. /\ Len(attempts[o]) + 1 \in DOMAIN Append(attempts[o], outcome)
            /\ Append(attempts[o], outcome)[Len(attempts[o]) + 1] = outcome
        BY <2>1
      <4>2. QED
        BY <2>1, <4>1
    <3>2. QED
      BY <2>1, <3>1
  <2>3. \A p \in Orders \ {o} : Accepted(p)' <=> Accepted(p)
    BY <2>1 DEF Accepted
  <2>4. Accepted(o)' <=> Accepted(o) \/ outcome \in Successes
    BY <2>2 DEF Accepted
  <2>5. CASE Accepted(o) \/ outcome \notin Successes
    BY <1>2, <2>3, <2>4, <2>5
  <2>6. CASE ~ Accepted(o) /\ outcome \in Successes
    <3>1. ~ Failing(o)
      BY <2>2, <2>4, <2>6 DEF Steady, Failing
    <3>2. payments[o].status \in PaymentStatus /\ payments[o].status \notin Credited
      BY <2>6 DEF CreditInv, CreditIsBacked, TypeOK, Payment
    <3>3. payments[o].status = "pending"
      BY <2>1, <3>1, <3>2 DEF SettledInv, FailedHadAFailure, Credited, PaymentStatus
    <3>4. Stage(o) = "open"
      BY <3>3 DEF Stage
    <3>5. QED
      BY <1>1, <2>3, <2>4, <2>6, <3>4 DEF Life!Accept, Life!At
  <2>7. QED
    BY <2>5, <2>6
<1>4. ASSUME NEW o \in Orders, NEW n, NEW outcome \in {"captured", "lapsed"},
             Resolve(o, n, outcome)
      PROVE  UNCHANGED Life!life
  <2>1. /\ n \in DOMAIN attempts[o] /\ attempts[o][n] = "authorized"
        /\ \A p \in Orders :
             attempts'[p] = IF p = o THEN [attempts[p] EXCEPT ![n] = outcome] ELSE attempts[p]
    BY <1>4 DEF Resolve, TypeOK
  <2>2. \A p \in Orders :
          /\ DOMAIN attempts'[p] = DOMAIN attempts[p]
          /\ \A m \in DOMAIN attempts[p] :
               \/ attempts'[p][m] = attempts[p][m]
               \/ attempts'[p][m] \in Successes /\ attempts[p][m] \in Successes
    BY <2>1 DEF Successes
  <2>3. \A p \in Orders : Accepted(p)' <=> Accepted(p)
    BY <2>2 DEF Accepted
  <2>4. QED
    BY <1>2, <2>3
<1>5. QED
  BY <1>3, <1>4 DEF Pays

\* A settlement credits what was accepted and closes what was not.
LEMMA LifeDecides ==
  ASSUME TypeOK, TypeOK', CreditInv, SettledInv, NEW s \in Sessions, Settles(s)
  PROVE  \E credits, closes \in SUBSET Orders : Life!Decide(credits, closes)
<1> DEFINE n(o) == tx[s].report[o]
           gains == {o \in Orders : n(o) # 0 /\ Accepted(o)}
           fails == {o \in Orders : n(o) # 0 /\ ~ Accepted(o) /\ payments[o].status = "pending"}
<1>1. \A o \in Orders : Accepted(o)' <=> Accepted(o)
  BY DEF Settles, Accepted
<1>2. ASSUME NEW o \in Orders, o \in gains
      PROVE  /\ Stage(o) = "open" /\ Accepted(o) /\ Stage(o)' = "credited"
             /\ earnings'[o] # "none"
  <2>1. /\ payments[o].status \notin Credited /\ payments[o].status # "failed"
        /\ payments'[o].status = "succeeded" /\ earnings'[o] = "unpaid"
    BY <1>2, SettleOnce
  <2>2. payments[o].status # "none"
    BY <1>2 DEF CreditInv, Accepted
  <2>3. payments[o].status = "pending"
    BY <2>1, <2>2, Stages DEF PaymentStatus, Credited
  <2>4. QED
    BY <1>2, <2>1, <2>3, StageOf, Stages
<1>3. ASSUME NEW o \in Orders, o \in fails
      PROVE  /\ Stage(o) = "open" /\ ~ Accepted(o) /\ Stage(o)' = "closed"
             /\ earnings'[o] # "none" <=> earnings[o] # "none"
  <2>1. payments'[o].status = "failed" /\ earnings[o] = "none" /\ earnings'[o] = "none"
    BY <1>3, SettleOnce DEF Accepted
  <2>2. QED
    BY <1>3, <2>1, StageOf, Stages
<1>4. ASSUME NEW o \in Orders, o \notin gains, o \notin fails
      PROVE  /\ Stage(o)' = Stage(o)
             /\ earnings'[o] # "none" <=> earnings[o] # "none"
  <2>1. CASE n(o) = 0
    <3>1. payments'[o] = payments[o] /\ earnings'[o] = earnings[o]
      BY <2>1, SettleOnce
    <3>2. QED
      BY <3>1, Stages
  <2>2. CASE n(o) # 0
    <3>1. ~ Accepted(o) /\ payments[o].status # "pending"
      BY <1>4, <2>2
    <3>2. /\ n(o) \in DOMAIN attempts[o] /\ payments[o].status \notin Credited
          /\ payments'[o].status = "failed" /\ earnings[o] = "none" /\ earnings'[o] = "none"
      BY <2>2, <3>1, SettleOnce DEF Accepted
    <3>3. payments[o].status # "none"
      <4>1. attempts[o] # <<>>
        BY <3>2
      <4>2. QED
        BY <4>1 DEF CreditInv
    <3>4. payments[o].status = "failed"
      BY <3>1, <3>2, <3>3, Stages DEF PaymentStatus, Credited
    <3>5. QED
      BY <3>2, <3>4, Stages
  <2>3. QED
    BY <2>1, <2>2
<1>5. gains \in SUBSET Orders /\ fails \in SUBSET Orders /\ gains \cap fails = {}
  OBVIOUS
<1>6. Life!Decide(gains, fails)
  <2> HIDE DEF gains, fails
  <2>1. gains \subseteq Life!At("open") \cap {o \in Orders : Accepted(o)}
    BY <1>2, <1>5 DEF Life!At
  <2>2. fails \subseteq Life!At("open") \ {o \in Orders : Accepted(o)}
    BY <1>3, <1>5 DEF Life!At
  <2>3. [o \in Orders |-> Stage(o)]' =
          [o \in Orders |-> IF o \in gains THEN "credited"
                            ELSE IF o \in fails THEN "closed" ELSE [p \in Orders |-> Stage(p)][o]]
    BY <1>2, <1>3, <1>4
  <2>4. {o \in Orders : earnings'[o] # "none"} = {o \in Orders : earnings[o] # "none"} \cup gains
    BY <1>2, <1>3, <1>4, <1>5
  <2>5. {o \in Orders : Accepted(o)}' = {o \in Orders : Accepted(o)}
    BY <1>1
  <2>6. QED
    BY <2>1, <2>2, <2>3, <2>4, <2>5 DEF Life!Decide
<1>7. QED
  <2> HIDE DEF gains, fails
  <2> QED  BY <1>5, <1>6 DEF Life!Decide

\* A refund notice returns what was credited; a further one changes no stage.
LEMMA LifeReturns ==
  ASSUME TypeOK, TypeOK', CreditInv, SettledInv, NEW s \in Sessions, CommitRefundWebhook(s)
  PROVE  (\E o \in Orders : Life!Return(o)) \/ UNCHANGED Life!life
<1> DEFINE r == tx[s].refund
<1>1. tx[s].op = "refund_webhook" /\ UNCHANGED <<earnings, attempts>>
  BY RefundNoticed
<1>2. CASE UNCHANGED payments
  BY <1>1, <1>2, LifeGoesOn
<1>3. CASE ~ UNCHANGED payments
  <2>1. PICK o \in Orders :
          /\ r \in Refunds /\ r # None /\ refunds[r].status # "none" /\ o = refunds[r].order
          /\ payments'[o].status = tx[s].after
          /\ \A p \in Orders \ {o} : payments'[p] = payments[p]
    BY <1>3, RefundNoticed
  <2>2. payments'[o].status \in {"refunded", "partially_refunded"}
    BY <1>1, <2>1 DEF SettledInv, Claims
  <2>3. payments[o].status \in Credited
    BY <2>1 DEF SettledInv, RefundsAreOfCredits
  <2>4. Stage(o) \in {"credited", "returned"} /\ Stage(o)' = "returned"
    BY <2>1, <2>2, <2>3, StageOf, Stages DEF Credited
  <2>5. \A p \in Orders : Accepted(p)' <=> Accepted(p)
    BY <1>1 DEF Accepted
  <2>6. \A p \in Orders \ {o} : Stage(p)' = Stage(p)
    BY <2>1, Stages
  <2>7. CASE Stage(o) = "credited"
    BY <1>1, <2>1, <2>4, <2>5, <2>6, <2>7 DEF Life!Return, Life!At
  <2>8. CASE Stage(o) = "returned"
    BY <1>1, <2>4, <2>5, <2>6, <2>8 DEF Life!life
  <2>9. QED
    BY <2>4, <2>7, <2>8
<1>4. QED
  BY <1>2, <1>3

\* If no order has a failed attempt beside a successful one, the service implements
\* PaymentLife, whatever webhooks, reconciliations, refunds and payouts race, and however
\* late or often their notices come.
THEOREM ServiceImplementsPaymentLife == Spec /\ []Steady => ImplementsPaymentLife
<1>1. Init => Life!Init
  <2> SUFFICES ASSUME Init
               PROVE  Life!Init
    OBVIOUS
  <2>1. \A o \in Orders : payments[o].status = "none" /\ earnings[o] = "none" /\ attempts[o] = <<>>
    BY DEF Init
  <2>2. \A o \in Orders : Stage(o) = "none" /\ ~ Accepted(o)
    BY <2>1 DEF Stage, Accepted
  <2>3. QED
    BY <2>1, <2>2 DEF Life!Init
<1>2. /\ TypeOK /\ CreditInv /\ SettledInv
      /\ TypeOK' /\ SettledInv'
      /\ [Next]_vars
      => [Life!Next]_(Life!life)
  <2> SUFFICES ASSUME TypeOK, CreditInv, SettledInv, TypeOK', SettledInv', [Next]_vars
               PROVE  Life!Next \/ UNCHANGED Life!life
    OBVIOUS
  <2>1. CASE UNCHANGED <<payments, earnings, attempts>>
    BY <2>1, LifeGoesOn
  <2>2. ASSUME NEW s \in Sessions, NEW k \in Payouts, CommitPayout(s, k)
        PROVE  UNCHANGED Life!life
    <3>1. /\ tx[s].op = "payout" /\ UNCHANGED <<payments, attempts>>
          /\ \A o \in Orders : earnings'[o] = IF o \in tx[s].owed THEN k ELSE earnings[o]
      BY <2>2 DEF CommitPayout, provider
    <3>2. \A o \in tx[s].owed : earnings[o] # "none"
      BY <3>1 DEF CreditInv, Backed
    <3>3. \A o \in Orders : earnings'[o] # "none" <=> earnings[o] # "none"
      BY <3>1, <3>2, PaymentsAssumption
    <3>4. QED
      BY <3>1, <3>3, LifeGoesOn
  <2>3. ASSUME NEW s \in Sessions, Starts(s) \/ GoesOn(s) \/ Decides(s)
                                   \/ \E r \in Refunds : CommitRequest(s, r)
        PROVE  UNCHANGED <<payments, earnings, attempts>>
    BY <2>3, StartIsQuiet, RefundDecided, RefundRequested DEF GoesOn, Quiet
  <2>4. QED
    BY <2>1, <2>2, <2>3, StepKinds, LifeOpens, LifePays, LifeDecides, LifeReturns
    DEF Quiet, Life!Next, SettledInv
<1>3. QED
  BY <1>1, <1>2, TypeCorrect, SettledStays, PTL DEF Spec, ImplementsPaymentLife, Life!Spec

(***************************************************************************)
(* Sums over rows                                                          *)
(***************************************************************************)

\* g sums rows over the subsets of S, as the folds of FiniteSetsExt do.
Sums(g, rows, S) ==
  g = [s \in SUBSET S |->
         IF s = {} THEN 0 ELSE rows[CHOOSE x \in s : TRUE].amount + g[s \ {CHOOSE x \in s : TRUE}]]

\* What fails for some subset of a finite set fails for a smallest one.
LEMMA Smallest ==
  ASSUME NEW S, IsFiniteSet(S), NEW T \in SUBSET (SUBSET S), T # {}
  PROVE  \E s \in T : \A t \in SUBSET s : t \in T => t = s
<1>1. IsWellFoundedOn(StrictSubsetOrdering(S), SUBSET S)
  BY FS_StrictSubsetOrderingWellFounded, FS_FiniteSubsetsOfFinite
<1>2. PICK s \in T : \A t \in T : ~ (<<t, s>> \in StrictSubsetOrdering(S))
  BY <1>1, WFMin
<1>3. ASSUME NEW t \in SUBSET s, t \in T
      PROVE  t = s
  BY <1>2, <1>3 DEF StrictSubsetOrdering
<1>4. QED
  BY <1>2, <1>3

LEMMA ChosenFrom ==
  ASSUME NEW s, s # {}
  PROVE  (CHOOSE x \in s : TRUE) \in s
  OBVIOUS

\* Two sums over two sets agree on the subsets of both.
LEMMA SumsAgree ==
  ASSUME NEW S, NEW R, IsFiniteSet(S), NEW rows, NEW g, NEW h, Sums(g, rows, S), Sums(h, rows, R),
         NEW t \in SUBSET S, t \in SUBSET R
  PROVE  g[t] = h[t]
<1> DEFINE T == {s \in SUBSET S : s \in SUBSET R /\ g[s] # h[s]}
<1>1. SUFFICES ASSUME T # {}
               PROVE  FALSE
  OBVIOUS
<1>2. PICK s \in T : \A u \in SUBSET s : u \in T => u = s
  <2>1. T \in SUBSET (SUBSET S)
    OBVIOUS
  <2> HIDE DEF T
  <2>2. QED
    BY <1>1, <2>1, Smallest
<1>3. CASE s = {}
  BY <1>2, <1>3 DEF Sums
<1>4. CASE s # {}
  <2>1. PICK x \in s : x = CHOOSE y \in s : TRUE
    BY <1>4, ChosenFrom
  <2>2. g[s] = rows[x].amount + g[s \ {x}] /\ h[s] = rows[x].amount + h[s \ {x}]
    BY <1>2, <1>4, <2>1 DEF Sums
  <2>3. g[s \ {x}] = h[s \ {x}]
    BY <1>2, <2>1
  <2>4. QED
    BY <1>2, <2>2, <2>3
<1>5. QED
  BY <1>3, <1>4

\* A function can be summed over a finite set.
LEMMA SumsExist ==
  ASSUME NEW S, IsFiniteSet(S), NEW rows
  PROVE  \E g : Sums(g, rows, S)
<1> DEFINE T == {s \in SUBSET S : ~ \E g : Sums(g, rows, s)}
<1>1. SUFFICES ASSUME T # {}
               PROVE  FALSE
  OBVIOUS
<1>2. PICK s \in T : \A u \in SUBSET s : u \in T => u = s
  <2>1. T \in SUBSET (SUBSET S)
    OBVIOUS
  <2> HIDE DEF T
  <2>2. QED
    BY <1>1, <2>1, Smallest
<1>3. \A u \in SUBSET s : u # s => IsFiniteSet(u) /\ \E g : Sums(g, rows, u)
  BY <1>2, FS_Subset
<1> DEFINE part(u) == CHOOSE g : Sums(g, rows, u)
           low(u) == IF u = {} THEN 0 ELSE part(u)[u]
           x == CHOOSE y \in s : TRUE
           whole == [u \in SUBSET s |-> IF u = {} THEN 0 ELSE IF u = s THEN rows[x].amount + low(s \ {x}) ELSE low(u)]
<1>4. \A u \in SUBSET s : u # s => Sums(part(u), rows, u)
  BY <1>3
<1>5. ASSUME NEW u \in SUBSET s, u # s, u # {}, NEW y \in u, y = CHOOSE z \in u : TRUE
      PROVE  low(u) = rows[y].amount + low(u \ {y})
  <2>1. Sums(part(u), rows, u) /\ Sums(part(u \ {y}), rows, u \ {y}) /\ IsFiniteSet(u \ {y})
    BY <1>3, <1>4, <1>5
  <2>2. part(u)[u] = rows[y].amount + part(u)[u \ {y}]
    BY <2>1, <1>5 DEF Sums
  <2>3. part(u)[u \ {y}] = part(u \ {y})[u \ {y}]
    <3>1. PICK v, g, h : v = u \ {y} /\ g = part(v) /\ h = part(u)
      OBVIOUS
    <3>2. /\ v \in SUBSET v /\ v \in SUBSET u /\ IsFiniteSet(v)
          /\ Sums(g, rows, v) /\ Sums(h, rows, u)
      BY <2>1, <3>1
    <3>3. g[v] = h[v]
      BY <3>2, SumsAgree
    <3>4. QED
      BY <3>1, <3>3
  <2>4. u \ {y} = {} => part(u \ {y})[u \ {y}] = 0
    BY <2>1 DEF Sums
  <2>5. QED
    BY <1>5, <2>2, <2>3, <2>4
<1>6. ASSUME NEW u \in SUBSET s, u # {}
      PROVE  whole[u] = rows[CHOOSE z \in u : TRUE].amount + whole[u \ {CHOOSE z \in u : TRUE}]
  <2>1. PICK y \in u : y = CHOOSE z \in u : TRUE
    BY <1>6, ChosenFrom
  <2>2. whole[u \ {y}] = low(u \ {y})
    BY <2>1
  <2>3. whole[u] = rows[y].amount + low(u \ {y})
    <3>1. CASE u = s
      <4>1. y = x
        BY <2>1, <3>1
      <4> HIDE DEF x, low
      <4>2. QED
        BY <1>6, <3>1, <4>1
    <3>2. CASE u # s
      <4>1. low(u) = rows[y].amount + low(u \ {y})
        BY <1>5, <1>6, <2>1, <3>2
      <4> HIDE DEF x, low
      <4>2. QED
        BY <1>6, <3>2, <4>1
    <3>3. QED
      BY <3>1, <3>2
  <2>4. QED
    BY <2>1, <2>2, <2>3
<1>7. Sums(whole, rows, s)
  <2>1. whole[{}] = 0 /\ whole = [u \in SUBSET s |-> whole[u]]
    OBVIOUS
  <2> HIDE DEF whole
  <2>2. QED
    BY <1>6, <2>1 DEF Sums
<1>8. QED
  BY <1>2, <1>7

HasAmounts(rows, S) == \A x \in S : rows[x].amount \in Int

\* A sum can be taken apart at any of its terms.
Splits(g, rows, S) ==
  /\ g[{}] = 0
  /\ \A t \in SUBSET S : g[t] \in Int
  /\ \A t \in SUBSET S : \A x \in t : g[t] = rows[x].amount + g[t \ {x}]

LEMMA SumsSplit ==
  ASSUME NEW S, IsFiniteSet(S), NEW rows, HasAmounts(rows, S), NEW g, Sums(g, rows, S)
  PROVE  Splits(g, rows, S)
<1> USE DEF HasAmounts
<1>1. g[{}] = 0
  BY DEF Sums
<1> DEFINE T == {t \in SUBSET S : ~ (g[t] \in Int /\ \A x \in t : g[t] = rows[x].amount + g[t \ {x}])}
<1>2. SUFFICES ASSUME T # {}
               PROVE  FALSE
  BY <1>1 DEF Splits
<1>3. PICK s \in T : \A u \in SUBSET s : u \in T => u = s
  <2>1. T \in SUBSET (SUBSET S)
    OBVIOUS
  <2> HIDE DEF T
  <2>2. QED
    BY <1>2, <2>1, Smallest
<1>4. s # {}
  <2> SUFFICES ASSUME s = {}
               PROVE  FALSE
    OBVIOUS
  <2>1. g[s] \in Int /\ \A x \in s : g[s] = rows[x].amount + g[s \ {x}]
    BY <1>1
  <2>2. QED
    BY <1>3, <2>1
<1>5. PICK c \in s : c = CHOOSE z \in s : TRUE
  BY <1>4, ChosenFrom
<1>6. g[s] = rows[c].amount + g[s \ {c}]
  BY <1>4, <1>5 DEF Sums
<1>7. ASSUME NEW u \in SUBSET s, u # s
      PROVE  g[u] \in Int /\ \A x \in u : g[u] = rows[x].amount + g[u \ {x}]
  BY <1>3, <1>7
<1>8. g[s] \in Int
  <2>1. g[s \ {c}] \in Int
    BY <1>5, <1>7
  <2>2. QED
    BY <1>5, <1>6, <2>1
<1>9. ASSUME NEW x \in s
      PROVE  g[s] = rows[x].amount + g[s \ {x}]
  <2>1. CASE x = c
    BY <1>6, <2>1
  <2>2. CASE x # c
    <3>1. g[s \ {c}] = rows[x].amount + g[(s \ {c}) \ {x}]
      BY <1>5, <1>7, <2>2
    <3>2. g[s \ {x}] = rows[c].amount + g[(s \ {x}) \ {c}]
      BY <1>5, <1>7, <1>9, <2>2
    <3>3. (s \ {c}) \ {x} = (s \ {x}) \ {c}
      OBVIOUS
    <3>4. PICK rest : rest = g[(s \ {x}) \ {c}]
      OBVIOUS
    <3>5. rest \in Int /\ rows[x].amount \in Int /\ rows[c].amount \in Int
      <4>1. (s \ {x}) \ {c} \in SUBSET s /\ (s \ {x}) \ {c} # s /\ x \in S /\ c \in S
        BY <1>3, <1>5
      <4>2. QED
        BY <1>7, <3>4, <4>1
    <3>6. g[s] = rows[c].amount + (rows[x].amount + rest) /\ g[s \ {x}] = rows[c].amount + rest
      BY <1>6, <3>1, <3>2, <3>3, <3>4
    <3>7. rows[c].amount + (rows[x].amount + rest) = rows[x].amount + (rows[c].amount + rest)
      BY <3>5
    <3>8. QED
      BY <3>6, <3>7
  <2>3. QED
    BY <2>1, <2>2
<1>10. QED
  BY <1>3, <1>8, <1>9 DEF Splits

\* The fold of the model, over the rows of a table.
Amounts(rows, S) == MapThenSumSet(LAMBDA r : rows[r].amount, S)

LEMMA AmountsAreSums ==
  ASSUME NEW S, IsFiniteSet(S), NEW rows
  PROVE  \E g : Sums(g, rows, S) /\ Amounts(rows, S) = g[S]
<1> DEFINE iter == CHOOSE g : Sums(g, rows, S)
<1>1. Sums(iter, rows, S)
  BY SumsExist
<1>2. Amounts(rows, S) = iter[S]
  BY DEF Amounts, MapThenSumSet, MapThenFoldSet, Sums
<1>3. QED
  BY <1>1, <1>2

\* The sum over a table's rows, one row after the other.
AddUp(rows, S) ==
  /\ Amounts(rows, {}) = 0
  /\ \A t \in SUBSET S : Amounts(rows, t) \in Int
  /\ \A t \in SUBSET S : \A x \in t :
       Amounts(rows, t) = rows[x].amount + Amounts(rows, t \ {x})

LEMMA AmountsSplit ==
  ASSUME NEW S, IsFiniteSet(S), NEW rows, HasAmounts(rows, S)
  PROVE  AddUp(rows, S)
<1>1. PICK g : Sums(g, rows, S)
  BY SumsExist
<1>2. ASSUME NEW t \in SUBSET S
      PROVE  Amounts(rows, t) = g[t]
  <2>1. IsFiniteSet(t)
    BY FS_Subset
  <2>2. PICK h : Sums(h, rows, t) /\ Amounts(rows, t) = h[t]
    BY <2>1, AmountsAreSums
  <2>3. QED
    BY <1>1, <2>1, <2>2, SumsAgree
<1>3. /\ g[{}] = 0
      /\ \A t \in SUBSET S : g[t] \in Int
      /\ \A t \in SUBSET S : \A x \in t : g[t] = rows[x].amount + g[t \ {x}]
  <2>1. Splits(g, rows, S)
    BY <1>1, SumsSplit
  <2>2. QED
    BY <2>1 DEF Splits
<1>4. Amounts(rows, {}) = 0 /\ \A t \in SUBSET S : Amounts(rows, t) \in Int
  <2>1. {} \in SUBSET S
    OBVIOUS
  <2>2. QED
    BY <1>2, <1>3, <2>1
<1>5. ASSUME NEW t \in SUBSET S, NEW x \in t
      PROVE  Amounts(rows, t) = rows[x].amount + Amounts(rows, t \ {x})
  <2>1. t \ {x} \in SUBSET S
    OBVIOUS
  <2>2. QED
    BY <1>2, <1>3, <2>1
<1>6. QED
  BY <1>4, <1>5 DEF AddUp

\* A sum of natural numbers is one, and at least each of its terms.
LEMMA AmountsBound ==
  ASSUME NEW S, IsFiniteSet(S), NEW rows, \A x \in S : rows[x].amount \in Nat
  PROVE  /\ Amounts(rows, S) \in Nat
         /\ \A x \in S : Amounts(rows, S) >= rows[x].amount
<1> DEFINE T == {t \in SUBSET S : Amounts(rows, t) \notin Nat}
<1>0. AddUp(rows, S)
  <2>1. HasAmounts(rows, S)
    BY DEF HasAmounts
  <2>2. QED
    BY <2>1, AmountsSplit
<1>1. T = {}
  <2> SUFFICES ASSUME T # {}
               PROVE  FALSE
    OBVIOUS
  <2>1. PICK s \in T : \A u \in SUBSET s : u \in T => u = s
    <3>1. T \in SUBSET (SUBSET S)
      OBVIOUS
    <3> HIDE DEF T
    <3>2. QED
      BY <3>1, Smallest
  <2>2. s # {}
    <3>1. Amounts(rows, {}) \in Nat
      BY <1>0 DEF AddUp
    <3>2. QED
      BY <2>1, <3>1
  <2>3. PICK x : x \in s
    BY <2>2
  <2>4. Amounts(rows, s \ {x}) \in Nat
    BY <2>1, <2>3
  <2>5. Amounts(rows, s) = rows[x].amount + Amounts(rows, s \ {x})
    BY <1>0, <2>1, <2>3 DEF AddUp
  <2>6. QED
    BY <2>1, <2>3, <2>4, <2>5
<1>2. \A t \in SUBSET S : Amounts(rows, t) \in Nat
  BY <1>1
<1>3. ASSUME NEW x \in S
      PROVE  Amounts(rows, S) >= rows[x].amount
  <2>1. Amounts(rows, S) = rows[x].amount + Amounts(rows, S \ {x})
    BY <1>0 DEF AddUp
  <2>2. Amounts(rows, S \ {x}) \in Nat
    BY <1>2
  <2>3. QED
    BY <2>1, <2>2
<1>4. QED
  BY <1>2, <1>3
(***************************************************************************)
(* What a booking is charged                                               *)
(***************************************************************************)

\* No deposit exceeds the price.  (Nothing in the code sees to it: the columns are only
\* kept from being negative.)
DepositsFit == \A b \in Bookings : Deposit[b] <= Total[b]

Deposited(o, b) == Live(o) /\ payments[o].booking = b /\ payments[o].kind = "deposit"

\* What may be asked of a booking: its deposit, before it is paid; its price, if it takes
\* no deposit; or what is left of the price beside a deposit that is paid and not returned.
WellPriced(b, kind, amount) ==
  /\ b \in Bookings /\ kind \in Kinds /\ amount \in Nat
  /\ \A o \in Orders : payments[o].status # "none" /\ payments[o].booking = b =>
       (payments[o].kind = "full" <=> kind = "full")
  /\ kind = "full" => amount = Total[b] /\ booking[b] \in {"confirmed", "cancelled"}
  /\ kind = "deposit" => amount = Deposit[b] /\ booking[b] # "confirmed"
  /\ kind = "balance" =>
       /\ booking[b] \in {"deposit_paid", "cancelled"} /\ amount <= Total[b]
       /\ \A o \in Orders : Deposited(o, b) => amount + payments[o].amount <= Total[b]

\* A deposit is asked for before it is paid, and before the balance is.
Early(b, kind) ==
  kind = "deposit" =>
    /\ booking[b] # "deposit_paid"
    /\ \A o \in Orders : payments[o].status # "none" /\ payments[o].booking = b =>
         payments[o].kind # "balance"

RowPriced(o) == WellPriced(payments[o].booking, payments[o].kind, payments[o].amount)

TxPriced(t) == WellPriced(t.booking, t.kind, t.amount) /\ Early(t.booking, t.kind)

DepositsOpen ==
  \A o \in Orders : payments[o].status = "pending" /\ payments[o].kind = "deposit" =>
    booking[payments[o].booking] # "deposit_paid"

ChargeInv ==
  /\ \A o \in Orders : payments[o].status # "none" => RowPriced(o)
  /\ DepositsOpen
  /\ \A s \in Sessions : tx[s].op = "order" => TxPriced(tx[s])

\* What an order is for, and for how much, is never changed.
LEMMA PurposeStays ==
  ASSUME TypeOK, CreditInv, [Next]_vars, NEW o \in Orders,
         \A s \in Sessions : ~ CommitOrder(s, o)
  PROVE  /\ payments'[o].booking = payments[o].booking /\ payments'[o].kind = payments[o].kind
         /\ payments'[o].amount = payments[o].amount
         /\ payments'[o].status = "none" <=> payments[o].status = "none"
<1>0. payments[o] \in Payment
  BY DEF TypeOK
<1>2. ASSUME NEW s \in Sessions, Settles(s)
      PROVE  \/ payments'[o] = payments[o]
             \/ /\ payments[o].status # "none"
                /\ \E st \in {"succeeded", "failed"} : \E k :
                     payments'[o] \in {[payments[o] EXCEPT !.status = st],
                                       [payments[o] EXCEPT !.status = st, !.ref = k]}
  <2>1. payments'[o] = IF tx[s].report[o] = 0 THEN payments[o] ELSE Settled(s, o)
    BY <1>2 DEF Settles, Settle
  <2>2. tx[s].report[o] # 0 => payments[o].status # "none"
    <3>1. tx[s].report[o] # 0 => tx[s].report[o] \in DOMAIN attempts[o]
      BY <1>2 DEF Settles, CreditInv, Backed
    <3>2. tx[s].report[o] # 0 => attempts[o] # <<>>
      BY <3>1
    <3>3. QED
      BY <3>2 DEF CreditInv
  <2>3. QED
    BY <2>1, <2>2 DEF Settled
<1>3. ASSUME NEW s \in Sessions, CommitRefundWebhook(s)
      PROVE  \/ payments'[o] = payments[o]
             \/ /\ payments[o].status # "none"
                /\ \E st \in Credited : payments'[o] = [payments[o] EXCEPT !.status = st]
  <2>1. CASE UNCHANGED payments
    BY <2>1
  <2>2. CASE ~ UNCHANGED payments
    <3>1. /\ tx[s].op = "refund_webhook" /\ tx[s].refund # None
          /\ payments' = [payments EXCEPT ![refunds[tx[s].refund].order].status = tx[s].after]
      BY <1>3, <2>2 DEF CommitRefundWebhook
    <3>2. tx[s].refund \in Refunds
      BY <3>1, TxKinds DEF TypeOK, RefundWebhookTx
    <3>3. PICK p : p = refunds[tx[s].refund].order
      OBVIOUS
    <3>4. tx[s].after \in Credited /\ p \in Orders /\ earnings[p] # "none"
      BY <3>1, <3>2, <3>3 DEF CreditInv, Backed
    <3>5. Accepted(p)
      BY <3>4 DEF CreditInv, CreditIsBacked
    <3>6. payments[p].status # "none"
      BY <3>4, <3>5 DEF CreditInv, Accepted
    <3>7. QED
      BY <3>1, <3>3, <3>4, <3>6 DEF TypeOK
  <2>3. QED
    BY <2>1, <2>2
<1>4. ASSUME NEW s \in Sessions, NEW p \in Orders, CommitOrder(s, p)
      PROVE  payments'[o] = payments[o]
  BY <1>4, OrderInserted
<1>5. CASE payments'[o] = payments[o]
  BY <1>5
<1>6. CASE /\ payments[o].status # "none"
           /\ \E st \in {"succeeded", "failed"} \cup Credited : \E k :
                payments'[o] \in {[payments[o] EXCEPT !.status = st],
                                  [payments[o] EXCEPT !.status = st, !.ref = k]}
  <2>0. PICK st \in {"succeeded", "failed"} \cup Credited :
          \E k : \/ payments'[o] = [payments[o] EXCEPT !.status = st]
                \/ payments'[o] = [payments[o] EXCEPT !.status = st, !.ref = k]
    BY <1>6
  <2>1. PICK k : \/ payments'[o] = [payments[o] EXCEPT !.status = st]
                 \/ payments'[o] = [payments[o] EXCEPT !.status = st, !.ref = k]
    BY <2>0
  <2>2. st # "none"
    BY DEF Credited
  <2>3. /\ payments'[o].booking = payments[o].booking /\ payments'[o].kind = payments[o].kind
        /\ payments'[o].amount = payments[o].amount /\ payments'[o].status = st
    <3>1. CASE payments'[o] = [payments[o] EXCEPT !.status = st]
      BY <1>0, <3>1 DEF Payment
    <3>2. CASE payments'[o] = [payments[o] EXCEPT !.status = st, !.ref = k]
      BY <1>0, <3>2 DEF Payment
    <3>3. QED
      BY <2>1, <3>1, <3>2
  <2>4. QED
    BY <1>6, <2>2, <2>3
<1>7. \/ payments'[o] = payments[o]
      \/ \E s \in Sessions : Settles(s) \/ CommitRefundWebhook(s)
  BY <1>4, StepKinds, RefundRequested, RefundDecided, StartIsQuiet
  DEF Quiet, GoesOn, Pays, Attempt, Resolve, app, CommitPayout
<1>8. QED
  BY <1>2, <1>3, <1>5, <1>6, <1>7

\* A booking's status stays, or it is cancelled, or an order of its deposit is credited.
LEMMA BookingStep ==
  ASSUME TypeOK, CreditInv, SettledInv, [Next]_vars, NEW b \in Bookings
  PROVE  \/ booking'[b] = booking[b] \/ booking'[b] = "cancelled"
         \/ /\ booking'[b] = "deposit_paid"
            /\ \E o \in Orders : /\ payments[o].status = "pending" /\ payments[o].booking = b
                                 /\ payments[o].kind = "deposit"
                                 /\ payments'[o].status = "succeeded"
<1>1. ASSUME NEW s \in Sessions, Settles(s), booking'[b] # booking[b]
      PROVE  /\ booking'[b] = "deposit_paid"
             /\ \E o \in Orders : /\ payments[o].status = "pending" /\ payments[o].booking = b
                                  /\ payments[o].kind = "deposit"
                                  /\ payments'[o].status = "succeeded"
  <2>1. /\ booking'[b] = "deposit_paid"
        /\ \E o \in tx[s].opens : payments[o].booking = b /\ Credits(s, o)
    BY <1>1 DEF Settles, Settle
  <2>2. PICK o \in tx[s].opens : payments[o].booking = b /\ Credits(s, o)
    BY <2>1
  <2>3. /\ o \in Orders /\ payments[o].status # "none" /\ payments[o].kind = "deposit"
    <3>1. tx[s].opens \subseteq Orders
      BY <1>1, TxKinds DEF Settles, TypeOK, WebhookTx, ReconcileTx
    <3>2. QED
      BY <1>1, <2>2, <3>1 DEF Settles, CreditInv, Backed
  <2>4. /\ payments[o].status \notin Credited /\ payments[o].status # "failed"
        /\ payments'[o].status = "succeeded"
    <3>1. tx[s].report[o] # 0 /\ attempts[o][tx[s].report[o]] \in Successes
      BY <2>2 DEF Credits, Reported
    <3>2. tx[s].report[o] \in DOMAIN attempts[o]
      BY <1>1, <2>3, <3>1 DEF Settles, CreditInv, Backed
    <3>3. Accepted(o)
      BY <3>1, <3>2 DEF Accepted
    <3>4. QED
      BY <1>1, <2>3, <3>1, <3>3, SettleOnce
  <2>5. payments[o].status = "pending"
    BY <2>3, <2>4 DEF TypeOK, Payment, PaymentStatus, Credited
  <2>6. QED
    BY <2>1, <2>2, <2>3, <2>4, <2>5
<1>2. ASSUME NEW c \in Bookings, Cancel(c)
      PROVE  booking'[b] = booking[b] \/ booking'[b] = "cancelled"
  BY <1>2 DEF Cancel, TypeOK
<1>3. ASSUME NEW s \in Sessions, Starts(s)
      PROVE  UNCHANGED booking
  <2>1. \E op, t : Begin(s, op, t)
    BY <1>3, StartsBegin
  <2>2. QED
    BY <2>1 DEF Begin, app
<1>4. ASSUME NEW s \in Sessions, Advance(s), booking'[b] # booking[b]
      PROVE  Settles(s)
  BY <1>4 DEF Advance, CommitOrder, Poll, CommitWebhook, CommitReconcile, CommitRequest,
     CallProvider, CommitApprove, CommitReject, CommitRefundWebhook, CommitPayout, Settles,
     app, provider
<1>5. ASSUME NEW s \in Sessions, Refuse(s) \/ Abort(s)
      PROVE  UNCHANGED booking
  BY <1>5 DEF Refuse, Abort, app
<1>6. ASSUME \/ \E o \in Orders : \E outcome : Attempt(o, outcome)
             \/ \E o \in Orders : \E n, outcome : Resolve(o, n, outcome)
             \/ \E x \in ProviderRefunds : ProcessRefund(x)
             \/ UNCHANGED vars
      PROVE  UNCHANGED booking
  BY <1>6 DEF Attempt, Resolve, ProcessRefund, app, vars
<1>7. QED
  BY <1>1, <1>2, <1>3, <1>4, <1>5, <1>6 DEF Next

\* What was rightly priced stays so while no order is inserted.
LEMMA WellPricedStays ==
  ASSUME TypeOK, CreditInv, SettledInv, ChargeInv, [Next]_vars,
         \A s \in Sessions, o \in Orders : ~ CommitOrder(s, o),
         NEW b, NEW kind, NEW amount, WellPriced(b, kind, amount)
  PROVE  WellPriced(b, kind, amount)'
<1>1. \A o \in Orders :
        /\ payments'[o].booking = payments[o].booking /\ payments'[o].kind = payments[o].kind
        /\ payments'[o].amount = payments[o].amount
        /\ payments'[o].status = "none" <=> payments[o].status = "none"
  BY PurposeStays
<1>2. b \in Bookings /\ kind \in Kinds /\ amount \in Nat
  BY DEF WellPriced
<1>3. \A o \in Orders : Deposited(o, b)' => Deposited(o, b)
  BY NoRevival DEF Deposited
<1>4. /\ \A o \in Orders : payments'[o].status # "none" /\ payments'[o].booking = b =>
           (payments'[o].kind = "full" <=> kind = "full")
  BY <1>1 DEF WellPriced
<1>5. \/ booking'[b] = booking[b] \/ booking'[b] = "cancelled"
      \/ booking'[b] = "deposit_paid" /\ kind # "full"
  BY <1>2, BookingStep DEF WellPriced
<1>6. kind = "full" => amount = Total[b] /\ booking'[b] \in {"confirmed", "cancelled"}
  BY <1>5 DEF WellPriced
<1>7. kind = "deposit" => amount = Deposit[b] /\ booking'[b] # "confirmed"
  BY <1>5 DEF WellPriced
<1>8. ASSUME kind = "balance"
      PROVE  /\ booking'[b] \in {"deposit_paid", "cancelled"} /\ amount <= Total[b]
             /\ \A o \in Orders : Deposited(o, b)' => amount + payments'[o].amount <= Total[b]
  BY <1>1, <1>3, <1>5, <1>8 DEF WellPriced
<1>9. QED
  BY <1>2, <1>4, <1>6, <1>7, <1>8 DEF WellPriced

\* An order request prices what it asks for, from the orders there are.
LEMMA StartPrices ==
  ASSUME TypeOK, IsFiniteSet(Orders), ChargeInv, NEW s \in Sessions, NEW b \in Bookings,
         NEW kind \in Kinds, NEW key, StartOrder(s, b, kind, key)
  PROVE  WellPriced(b, kind, Due(b, kind)) /\ Early(b, kind)
<1>1. booking[b] = [deposit |-> "deposit_pending", full |-> "confirmed",
                    balance |-> "deposit_paid"][kind] /\ Due(b, kind) \in Nat
  BY DEF StartOrder, Chargeable
<1>2. ASSUME NEW o \in Orders, payments[o].status # "none", payments[o].booking = b
      PROVE  /\ payments[o].kind \in Kinds
             /\ payments[o].kind = "full" => booking[b] \in {"confirmed", "cancelled"}
             /\ payments[o].kind = "deposit" => booking[b] # "confirmed"
             /\ payments[o].kind = "balance" => booking[b] \in {"deposit_paid", "cancelled"}
  BY <1>2 DEF ChargeInv, RowPriced, WellPriced
<1>3. \A o \in Orders : payments[o].status # "none" /\ payments[o].booking = b =>
        (payments[o].kind = "full" <=> kind = "full")
  BY <1>1, <1>2 DEF Kinds
<1>4. Early(b, kind)
  BY <1>1, <1>2 DEF Early
<1>5. kind = "full" => Due(b, kind) = Total[b] /\ booking[b] = "confirmed"
  BY <1>1 DEF Due
<1>6. kind = "deposit" => Due(b, kind) = Deposit[b] /\ booking[b] = "deposit_pending"
  BY <1>1 DEF Due
<1>7. ASSUME kind = "balance"
      PROVE  /\ booking[b] = "deposit_paid" /\ Due(b, kind) <= Total[b]
             /\ \A o \in Orders : Deposited(o, b) => Due(b, kind) + payments[o].amount <= Total[b]
  <2>1. PICK paid : paid = OrdersOf(b, {"succeeded"})
    OBVIOUS
  <2>2. paid \subseteq Orders /\ IsFiniteSet(paid)
    BY <2>1, FS_Subset DEF OrdersOf
  <2>3. \A o \in paid : payments[o].amount \in Nat
    BY <2>2 DEF TypeOK, Payment
  <2>4. Amounts(payments, paid) \in Nat
        /\ \A o \in paid : Amounts(payments, paid) >= payments[o].amount
    BY <2>2, <2>3, AmountsBound
  <2>5. Due(b, kind) = Total[b] - Amounts(payments, paid)
    BY <1>7, <2>1 DEF Due, Paid, Amounts
  <2>6. Total[b] \in Nat /\ booking[b] = "deposit_paid"
    BY <1>1, <1>7, PaymentsAssumption
  <2>7. ASSUME NEW o \in Orders, Deposited(o, b)
        PROVE  o \in paid
    BY <2>1, <2>6, <2>7 DEF ChargeInv, DepositsOpen, Deposited, Live, OrdersOf
  <2>8. QED
    BY <2>3, <2>4, <2>5, <2>6, <2>7
<1>8. QED
  BY <1>1, <1>3, <1>4, <1>5, <1>6, <1>7 DEF WellPriced

\* An order is inserted as its transaction priced it, and fits the ones there are.
LEMMA InsertPrices ==
  ASSUME TypeOK, CreditInv, Beside, {"order"} \notin Races, LiveInv, ChargeInv, [Next]_vars,
         NEW s \in Sessions, NEW o \in Orders, CommitOrder(s, o)
  PROVE  ChargeInv'
<1>0. PICK b, kind, amount : b = tx[s].booking /\ kind = tx[s].kind /\ amount = tx[s].amount
  OBVIOUS
<1>1. /\ payments[o].status = "none" /\ payments'[o].status = "pending"
      /\ payments'[o].booking = b /\ payments'[o].kind = kind /\ payments'[o].amount = amount
      /\ \A p \in Orders \ {o} : payments'[p] = payments[p]
      /\ tx'[s] = Idle /\ Others(s) /\ UNCHANGED booking /\ tx[s].op = "order"
  BY <1>0, OrderInserted DEF CommitOrder, TypeOK
<1>2. WellPriced(b, kind, amount) /\ Early(b, kind)
  BY <1>0, <1>1 DEF ChargeInv, TxPriced
<1>3. \A u \in Sessions : tx'[u].op # "order"
  BY <1>1 DEF Others, Beside, Idle
<1>4. DepositsOpen'
  <2> SUFFICES ASSUME NEW p \in Orders, payments'[p].status = "pending",
                      payments'[p].kind = "deposit"
               PROVE  booking'[payments'[p].booking] # "deposit_paid"
    BY DEF DepositsOpen
  <2>1. CASE p = o
    BY <1>1, <1>2, <2>1 DEF Early
  <2>2. CASE p # o
    BY <1>1, <2>2 DEF ChargeInv, DepositsOpen
  <2>3. QED
    BY <2>1, <2>2
<1>5. WellPriced(b, kind, amount)'
  <2>1. \A p \in Orders : payments'[p].status # "none" /\ payments'[p].booking = b =>
          (payments'[p].kind = "full" <=> kind = "full")
    BY <1>1, <1>2 DEF WellPriced
  <2>2. ASSUME kind = "balance", NEW p \in Orders, Deposited(p, b)'
        PROVE  amount + payments'[p].amount <= Total[b]
    <3>1. p # o
      BY <1>1, <2>2 DEF Deposited
    <3>2. payments'[p] = payments[p] /\ Deposited(p, b)
      BY <1>1, <2>2, <3>1 DEF Deposited, Live
    <3>3. QED
      BY <1>2, <2>2, <3>2 DEF WellPriced
  <2>3. QED
    BY <1>1, <1>2, <2>1, <2>2 DEF WellPriced
<1>6. ASSUME NEW p \in Orders, p # o, payments[p].status # "none"
      PROVE  RowPriced(p)'
  <2>1. PICK c, k, a : c = payments[p].booking /\ k = payments[p].kind /\ a = payments[p].amount
    OBVIOUS
  <2>2. WellPriced(c, k, a)
    BY <1>6, <2>1 DEF ChargeInv, RowPriced
  <2>3. c = b => (k = "full" <=> kind = "full") /\ (k = "balance" => kind # "deposit")
    BY <1>2, <1>6, <2>1 DEF WellPriced, Early
  <2>4. \A q \in Orders : payments'[q].status # "none" /\ payments'[q].booking = c =>
          (payments'[q].kind = "full" <=> k = "full")
    BY <1>1, <2>2, <2>3 DEF WellPriced
  <2>5. ASSUME k = "balance", NEW q \in Orders, Deposited(q, c)'
        PROVE  a + payments'[q].amount <= Total[c]
    <3>1. q # o
      BY <1>1, <2>3, <2>5 DEF Deposited
    <3>2. payments'[q] = payments[q] /\ Deposited(q, c)
      BY <1>1, <2>5, <3>1 DEF Deposited, Live
    <3>3. QED
      BY <2>2, <2>5, <3>2 DEF WellPriced
  <2>6. WellPriced(c, k, a)'
    BY <1>1, <2>2, <2>4, <2>5 DEF WellPriced
  <2>7. c = payments'[p].booking /\ k = payments'[p].kind /\ a = payments'[p].amount
    BY <1>1, <1>6, <2>1
  <2>8. QED
    BY <2>6, <2>7 DEF RowPriced, WellPriced, Deposited
<1>7. RowPriced(o)'
  BY <1>1, <1>5 DEF RowPriced, WellPriced, Deposited
<1>8. QED
  BY <1>3, <1>4, <1>6, <1>7, <1>1 DEF ChargeInv

\* Every step keeps the prices right.
LEMMA ChargeStep ==
  ASSUME TypeOK, CreditInv, SettledInv, Beside, {"order"} \notin Races, LiveInv,
         IsFiniteSet(Orders), ChargeInv, [Next]_vars
  PROVE  ChargeInv'
<1>1. CASE \E s \in Sessions, o \in Orders : CommitOrder(s, o)
  BY <1>1, InsertPrices
<1>2. CASE \A s \in Sessions, o \in Orders : ~ CommitOrder(s, o)
  <2>1. \A o \in Orders :
          /\ payments'[o].booking = payments[o].booking /\ payments'[o].kind = payments[o].kind
          /\ payments'[o].amount = payments[o].amount
          /\ payments'[o].status = "none" <=> payments[o].status = "none"
    BY <1>2, PurposeStays
  <2>2. ASSUME NEW o \in Orders, payments'[o].status # "none"
        PROVE  RowPriced(o)'
    <3>1. PICK b, kind, amount : /\ b = payments[o].booking /\ kind = payments[o].kind
                                 /\ amount = payments[o].amount
      OBVIOUS
    <3>2. WellPriced(b, kind, amount)
      BY <2>1, <2>2, <3>1 DEF ChargeInv, RowPriced
    <3>3. WellPriced(b, kind, amount)'
      BY <1>2, <3>2, WellPricedStays
    <3>4. /\ b = payments'[o].booking /\ kind = payments'[o].kind
          /\ amount = payments'[o].amount
      BY <2>1, <3>1
    <3>5. QED
      BY <3>3, <3>4 DEF RowPriced, WellPriced, Deposited
  <2>3. ASSUME NEW b \in Bookings, booking'[b] = "deposit_paid", booking[b] # "deposit_paid"
        PROVE  \E o \in Orders : Deposited(o, b) /\ payments'[o].status # "pending"
    BY <2>3, BookingStep DEF Deposited, Live
  <2>4. DepositsOpen'
    <3> SUFFICES ASSUME NEW p \in Orders, payments'[p].status = "pending",
                        payments'[p].kind = "deposit",
                        booking'[payments'[p].booking] = "deposit_paid"
                 PROVE  FALSE
      BY DEF DepositsOpen
    <3>1. PICK b : b = payments[p].booking
      OBVIOUS
    <3>2. Live(p) /\ payments[p].kind = "deposit" /\ payments'[p].booking = b
      BY <1>2, <2>1, <3>1, NoRevival DEF Live
    <3>3. b \in Bookings
      BY <3>1, <3>2 DEF ChargeInv, RowPriced, WellPriced, Live
    <3>4. CASE booking[b] = "deposit_paid"
      <4>1. payments[p].status = "succeeded"
        BY <3>1, <3>2, <3>4 DEF ChargeInv, DepositsOpen, Live
      <4>2. payments'[p].status # "pending"
        BY <4>1, SettledStep DEF SettledStaysSo, Credited
      <4>3. QED
        BY <4>2
    <3>5. CASE booking[b] # "deposit_paid"
      <4>1. PICK o \in Orders : Deposited(o, b) /\ payments'[o].status # "pending"
        BY <2>3, <3>2, <3>3, <3>5
      <4>2. o = p
        BY <3>1, <3>2, <3>3, <4>1 DEF LiveInv, OneLiveOrder, OrdersOf, Deposited, Live
      <4>3. QED
        BY <4>1, <4>2
    <3>6. QED
      BY <3>4, <3>5
  <2>5. ASSUME NEW u \in Sessions, tx[u].op = "order", tx'[u] = tx[u]
        PROVE  TxPriced(tx[u])'
    <3>1. PICK b, kind, amount : b = tx[u].booking /\ kind = tx[u].kind /\ amount = tx[u].amount
      OBVIOUS
    <3>2. WellPriced(b, kind, amount) /\ Early(b, kind) /\ IsFree(tx[u])
      BY <2>5, <3>1 DEF ChargeInv, TxPriced, LiveInv
    <3>3. WellPriced(b, kind, amount)'
      BY <1>2, <3>2, WellPricedStays
    <3>4. Early(b, kind)'
      <4>1. b \in Bookings
        BY <3>2 DEF WellPriced
      <4>2. kind = "deposit" => \A o \in Orders : ~ Deposited(o, b)
        BY <3>1, <3>2 DEF IsFree, Deposited
      <4>3. kind = "deposit" => booking'[b] # "deposit_paid"
        BY <2>3, <3>2, <4>1, <4>2 DEF Early
      <4>4. QED
        BY <2>1, <3>2, <4>3 DEF Early
    <3>5. QED
      BY <2>5, <3>1, <3>3, <3>4 DEF TxPriced, WellPriced, Deposited, Early
  <2>6. ASSUME NEW s \in Sessions, Starts(s), tx'[s].op = "order"
        PROVE  TxPriced(tx[s])'
    <3>1. PICK b \in Bookings, kind \in Kinds, key \in Keys \cup {None} :
            StartOrder(s, b, kind, key)
      BY <2>6, StartsAs
    <3>2. PICK amount : amount = Due(b, kind)
      OBVIOUS
    <3>3. tx'[s].booking = b /\ tx'[s].kind = kind /\ tx'[s].amount = amount
          /\ UNCHANGED <<booking, payments>>
      BY <3>1, <3>2 DEF StartOrder, Begin, TypeOK, app
    <3>4. WellPriced(b, kind, amount) /\ Early(b, kind)
      BY <3>1, <3>2, StartPrices
    <3>5. QED
      BY <3>3, <3>4 DEF TxPriced, WellPriced, Early, Deposited, Live
  <2>7. \A u \in Sessions : tx'[u].op = "order" =>
          \/ tx[u].op = "order" /\ tx'[u] = tx[u]
          \/ Starts(u)
    BY TxStep DEF Others, Idle
  <2>8. QED
    BY <2>2, <2>4, <2>5, <2>6, <2>7 DEF ChargeInv
<1>3. QED
  BY <1>1, <1>2

\* Two live orders of a booking are for its deposit and what is left; one is within the price.
LEMMA PricesFit ==
  ASSUME TypeOK, IsFiniteSet(Orders), DepositsFit, LiveInv, ChargeInv
  PROVE  NeverOvercharged
<1> SUFFICES ASSUME NEW b \in Bookings
             PROVE  Paid(OrdersOf(b, {"pending", "succeeded"})) <= Total[b]
  BY DEF NeverOvercharged
<1>1. PICK live : live = OrdersOf(b, {"pending", "succeeded"})
  OBVIOUS
<1>2. /\ live \subseteq Orders /\ IsFiniteSet(live) /\ Total[b] \in Nat /\ Deposit[b] \in Nat
      /\ \A o \in live : payments[o].amount \in Nat
      /\ \A o \in live : Live(o) /\ payments[o].booking = b
  BY <1>1, FS_Subset, PaymentsAssumption DEF OrdersOf, Live, TypeOK, Payment
<1>3. \A o \in live : RowPriced(o) /\ payments[o].kind \in Kinds
  BY <1>2 DEF ChargeInv, RowPriced, WellPriced, Live
<1>4. \A o, p \in live : payments[o].kind = payments[p].kind => o = p
  BY <1>1 DEF LiveInv, OneLiveOrder
<1>5. /\ Amounts(payments, {}) = 0
      /\ \A set \in SUBSET live : Amounts(payments, set) \in Int
      /\ \A set \in SUBSET live : \A o \in set :
           Amounts(payments, set) = payments[o].amount + Amounts(payments, set \ {o})
  <2>1. HasAmounts(payments, live)
    BY <1>2 DEF HasAmounts
  <2>2. AddUp(payments, live)
    BY <1>2, <2>1, AmountsSplit
  <2>3. QED
    BY <2>2 DEF AddUp
<1>6. ASSUME NEW o \in live, live \ {o} = {}
      PROVE  Amounts(payments, live) = payments[o].amount
  BY <1>2, <1>5, <1>6
<1>7. ASSUME NEW o \in live
      PROVE  payments[o].amount <= Total[b]
  BY <1>2, <1>3, <1>7 DEF RowPriced, WellPriced, Kinds, DepositsFit
<1>8. Amounts(payments, live) <= Total[b]
  <2>1. CASE live = {}
    BY <1>2, <1>5, <2>1
  <2>2. CASE \E o \in live : live \ {o} = {}
    BY <1>6, <1>7, <2>2
  <2>3. CASE live # {} /\ ~ \E o \in live : live \ {o} = {}
    <3>1. \A o \in live : payments[o].kind # "full"
      BY <1>2, <1>3, <1>4, <2>3 DEF RowPriced, WellPriced, Live
    <3>2. PICK o \in live : payments[o].kind = "balance"
      BY <1>3, <1>4, <2>3, <3>1 DEF Kinds
    <3>3. PICK p \in live \ {o} : payments[p].kind = "deposit"
      BY <1>3, <1>4, <2>3, <3>1, <3>2 DEF Kinds
    <3>4. live \ {o} = {p} /\ (live \ {o}) \ {p} = {}
      BY <1>3, <1>4, <3>1, <3>2, <3>3 DEF Kinds
    <3>5. Amounts(payments, live) = payments[o].amount + payments[p].amount
      <4>1. Amounts(payments, live) = payments[o].amount + Amounts(payments, live \ {o})
        BY <1>5
      <4>2. Amounts(payments, live \ {o}) = payments[p].amount + Amounts(payments, (live \ {o}) \ {p})
        BY <1>5, <3>3
      <4>3. QED
        BY <1>2, <1>5, <3>4, <4>1, <4>2
    <3>6. Deposited(p, b)
      BY <1>2, <3>3 DEF Deposited
    <3>7. QED
      BY <1>2, <1>3, <3>2, <3>5, <3>6 DEF RowPriced, WellPriced
  <2>4. QED
    BY <2>1, <2>2, <2>3
<1>9. QED
  BY <1>1, <1>8 DEF Paid, Amounts

\* What a booking has paid and may still be asked for never exceeds its price, if its orders
\* are made one at a time and none has a failed attempt beside a successful one, however
\* they race with notices, refunds and cancellations (determine_payment_amount_minor).
THEOREM NeverOverchargedForGood ==
  ASSUME {"order"} \notin Races, IsFiniteSet(Orders), DepositsFit
  PROVE  Spec /\ []Steady => []NeverOvercharged
<1>1. Init => LiveInv /\ ChargeInv
  <2>1. Init => \A o \in Orders : payments[o].status = "none"
    BY DEF Init
  <2>2. QED
    BY <2>1 DEF Init, Idle, LiveInv, Live, IsFree, OneLiveOrder, OrdersOf, ChargeInv, DepositsOpen
<1>2. /\ TypeOK /\ CreditInv /\ SettledInv /\ Beside /\ LiveInv /\ ChargeInv /\ [Next]_vars
      => LiveInv' /\ ChargeInv'
  BY LiveStep, ChargeStep
<1>3. TypeOK /\ LiveInv /\ ChargeInv => NeverOvercharged
  BY PricesFit
<1>4. QED
  BY <1>1, <1>2, <1>3, SettledStays, OnlyRacesBeside, PTL DEF Spec

(***************************************************************************)
(* What a payment gives back                                               *)
(***************************************************************************)

\* A refund is of the whole payment: whoever asks finds nothing given back yet.
Whole(o, amount) ==
  payments[o].status # "none" /\ amount = payments[o].amount /\ amount \in Nat \ {0}

\* The provider was asked for a refund of this order.
Calls(x, o) == prefunds[x].status # "none" /\ prefunds[x].order = o

\* What a transaction about a refund relies on.
Refunding(t) ==
  /\ t.op = "request" => Whole(t.order, t.amount)
  /\ t.op = "approve" =>
       /\ Whole(t.order, t.amount) /\ refunds[t.refund].order = t.order
       /\ t.ref # None => Calls(t.ref, t.order) /\ \A r \in Refunds : refunds[r].ref # t.ref
  /\ t.op = "refund_webhook" /\ t.refund # None =>
       t.after = "refunded" /\ refunds[t.refund].ref # None

Processed(r) == refunds[r].status = "processed"

RefundsWhole ==
  \A r \in Refunds : refunds[r].status # "none" => Whole(refunds[r].order, refunds[r].amount)

\* A refund that carries a reference is the only one of its payment, and so is the call.
CalledOnce ==
  /\ \A x \in ProviderRefunds : prefunds[x].status # "none" =>
       Whole(prefunds[x].order, prefunds[x].amount)
  /\ \A x, y \in ProviderRefunds :
       prefunds[x].status # "none" /\ Calls(y, prefunds[x].order) => x = y
  /\ \A r \in Refunds : refunds[r].ref # None => Calls(refunds[r].ref, refunds[r].order)
  /\ \A r, q \in Refunds : refunds[r].ref # None /\ refunds[r].ref = refunds[q].ref => r = q

\* The references of approvals under way differ.
RefsDiffer ==
  \A s, u \in Sessions :
    tx[s].op = "approve" /\ tx[u].op = "approve" /\ tx[s].ref # None /\ tx[s].ref = tx[u].ref
      => s = u

RefundedIsProcessed ==
  /\ \A r \in Refunds : Processed(r) =>
       refunds[r].ref # None /\ payments[refunds[r].order].status = "refunded"
  /\ \A o \in Orders : payments[o].status = "refunded" =>
       \E r \in Refunds : Processed(r) /\ refunds[r].order = o

RefundInv ==
  /\ RefundsWhole /\ CalledOnce /\ RefundedIsProcessed /\ RefsDiffer
  /\ \A s \in Sessions : Refunding(tx[s])

\* The whole of a payment, or nothing, is what its processed refunds add up to.
LEMMA WholeAddsUp ==
  ASSUME TypeOK, IsFiniteSet(Refunds), CreditInv, RefundsWhole, CalledOnce,
         RefundedIsProcessed, NEW o \in Orders
  PROVE  LET sum == ProcessedOf(o, None) IN
         /\ sum = IF payments[o].status = "refunded" THEN payments[o].amount ELSE 0
         /\ payments[o].status = "refunded" => sum > 0
<1>1. PICK given : given = {r \in Refunds : refunds[r].order = o /\ (Processed(r) \/ r = None)}
  OBVIOUS
<1>2. given = {r \in Refunds : refunds[r].order = o /\ Processed(r)}
  BY <1>1, PaymentsAssumption
<1>3. ProcessedOf(o, None) = Amounts(refunds, given)
  BY <1>1 DEF ProcessedOf, Amounts, Processed
<1>4. /\ IsFiniteSet(given)
      /\ \A r \in given : refunds[r].amount = payments[o].amount /\ refunds[r].amount \in Nat \ {0}
  BY <1>2, FS_Subset DEF RefundsWhole, Whole, Processed
<1>5. \A r, q \in given : r = q
  <2> SUFFICES ASSUME NEW r \in given, NEW q \in given
               PROVE  r = q
    OBVIOUS
  <2>1. refunds[r].ref # None /\ refunds[q].ref # None
    BY <1>2 DEF RefundedIsProcessed
  <2>2. Calls(refunds[r].ref, o) /\ Calls(refunds[q].ref, o)
    BY <1>2, <2>1 DEF CalledOnce
  <2>3. refunds[r].ref \in ProviderRefunds /\ refunds[q].ref \in ProviderRefunds
    BY <1>2, <2>1 DEF TypeOK, Refund
  <2>4. refunds[r].ref = refunds[q].ref
    BY <2>2, <2>3 DEF CalledOnce, Calls
  <2>5. QED
    BY <1>2, <2>1, <2>4 DEF CalledOnce
<1>6. /\ Amounts(refunds, {}) = 0
      /\ \A set \in SUBSET given : Amounts(refunds, set) \in Int
      /\ \A set \in SUBSET given : \A r \in set :
           Amounts(refunds, set) = refunds[r].amount + Amounts(refunds, set \ {r})
  <2>1. HasAmounts(refunds, given)
    BY <1>4 DEF HasAmounts
  <2>2. AddUp(refunds, given)
    BY <1>4, <2>1, AmountsSplit
  <2>3. QED
    BY <2>2 DEF AddUp
<1>7. CASE payments[o].status = "refunded"
  <2>1. PICK r \in given : TRUE
    BY <1>2, <1>7 DEF RefundedIsProcessed
  <2>2. given \ {r} = {} /\ given \in SUBSET given
    BY <1>5
  <2>3. Amounts(refunds, given) = refunds[r].amount + 0
    BY <1>6, <2>1, <2>2
  <2>4. QED
    BY <1>3, <1>4, <1>7, <2>3
<1>8. CASE payments[o].status # "refunded"
  <2>1. given = {}
    BY <1>2, <1>8 DEF RefundedIsProcessed
  <2>2. QED
    BY <1>3, <1>6, <1>8, <2>1
<1>9. QED
  BY <1>7, <1>8

\* The status that a refund leads to is that of a payment given back.
LEMMA AfterIsRefunded ==
  ASSUME TypeOK, IsFiniteSet(Refunds), CreditInv, RefundsWhole,
         NEW r \in Refunds, refunds[r].status # "none"
  PROVE  After(r) = "refunded"
<1>1. PICK o : o = refunds[r].order
  OBVIOUS
<1>2. PICK given : given = {q \in Refunds : refunds[q].order = o /\ (refunds[q].status = "processed" \/ q = r)}
  OBVIOUS
<1>3. /\ IsFiniteSet(given) /\ r \in given
      /\ \A q \in given : refunds[q].amount \in Nat
  BY <1>1, <1>2, FS_Subset DEF TypeOK, Refund
<1>4. Amounts(refunds, given) \in Nat /\ Amounts(refunds, given) >= refunds[r].amount
  BY <1>3, AmountsBound
<1>5. ProcessedOf(o, r) = Amounts(refunds, given)
  BY <1>2 DEF ProcessedOf, Amounts
<1>6. refunds[r].amount = payments[o].amount
  BY <1>1 DEF RefundsWhole, Whole
<1>7. QED
  BY <1>1, <1>4, <1>5, <1>6 DEF After

\* No second call is made for a payment: the provider would pay back more than it has.
LEMMA CallIsFirst ==
  ASSUME TypeOK, IsFiniteSet(ProviderRefunds), CalledOnce, NEW o \in Orders, NEW n, NEW amount,
         Whole(o, amount), Refundable(o, n, amount), NEW x \in ProviderRefunds
  PROVE  ~ Calls(x, o)
<1> SUFFICES ASSUME Calls(x, o)
             PROVE  FALSE
  OBVIOUS
<1>1. PICK calls : calls = {y \in ProviderRefunds : prefunds[y].order = o}
  OBVIOUS
<1>2. IsFiniteSet(calls) /\ x \in calls /\ \A y \in calls : prefunds[y].amount \in Nat
  BY <1>1, FS_Subset DEF Calls, TypeOK, ProviderRefund
<1>3. Amounts(prefunds, calls) \in Nat /\ Amounts(prefunds, calls) >= prefunds[x].amount
  BY <1>2, AmountsBound
<1>4. amount <= payments[o].amount - Amounts(prefunds, calls)
  BY <1>1 DEF Refundable, Amounts
<1>5. prefunds[x].amount = payments[o].amount /\ payments[o].amount = amount /\ amount \in Nat \ {0}
  BY DEF CalledOnce, Calls, Whole
<1>6. QED
  BY <1>3, <1>4, <1>5

\* What a payment is for, and what it is of, stays; a refunded payment stays refunded and
\* only a refund notice makes one.
LEMMA WholeStays ==
  ASSUME TypeOK, CreditInv, SettledInv, [Next]_vars, NEW o \in Orders
  PROVE  /\ \A amount : Whole(o, amount) => Whole(o, amount)'
         /\ (\A s \in Sessions : ~ CommitRefundWebhook(s)) =>
              (payments'[o].status = "refunded" <=> payments[o].status = "refunded")
<1>1. ASSUME NEW amount, Whole(o, amount)
      PROVE  Whole(o, amount)'
  <2>1. \A s \in Sessions : ~ CommitOrder(s, o)
    BY <1>1 DEF Whole, CommitOrder
  <2>2. QED
    BY <1>1, <2>1, PurposeStays DEF Whole
<1>2. ASSUME \A s \in Sessions : ~ CommitRefundWebhook(s)
      PROVE  payments'[o].status = "refunded" <=> payments[o].status = "refunded"
  <2>1. ASSUME NEW s \in Sessions, Settles(s)
        PROVE  payments'[o].status = "refunded" <=> payments[o].status = "refunded"
    <3>1. \/ payments'[o] = payments[o]
          \/ payments'[o].status \in {"succeeded", "failed"} /\ payments[o].status \notin Credited
      BY <2>1, SettleOnce
    <3>2. QED
      BY <3>1 DEF Credited
  <2>2. ASSUME NEW s \in Sessions, NEW p \in Orders, CommitOrder(s, p)
        PROVE  payments'[o].status = "refunded" <=> payments[o].status = "refunded"
    <3>1. CASE p = o
      BY <2>2, <3>1, OrderInserted
    <3>2. CASE p # o
      BY <2>2, <3>2, OrderInserted
    <3>3. QED
      BY <3>1, <3>2
  <2>3. ASSUME UNCHANGED payments
        PROVE  payments'[o].status = "refunded" <=> payments[o].status = "refunded"
    BY <2>3
  <2>4. QED
    BY <1>2, <2>1, <2>2, <2>3, StepKinds, RefundRequested, RefundDecided, StartIsQuiet
    DEF Quiet, GoesOn, Pays, Attempt, Resolve, app, CommitPayout
<1>3. QED
  BY <1>1, <1>2

\* What a transaction relies on outlasts the steps of others.
LEMMA RefundingStays ==
  ASSUME TypeOK, CreditInv, SettledInv, [Next]_vars, NEW t \in Tx, Refunding(t),
         t.op = "approve" => refunds[t.refund].status # "none",
         \A r \in Refunds : refunds[r].status # "none" => refunds'[r].order = refunds[r].order,
         \A r \in Refunds : refunds[r].ref # None => refunds'[r].ref # None,
         t.op = "approve" /\ t.ref # None => \A r \in Refunds : refunds'[r].ref # t.ref,
         \A x \in ProviderRefunds, o \in Orders : Calls(x, o) => Calls(x, o)'
  PROVE  Refunding(t)'
<1>1. CASE t.op = "request"
  <2>1. t.order \in Orders
    BY <1>1, TxKinds DEF RequestTx
  <2>2. Whole(t.order, t.amount)'
    BY <1>1, <2>1, WholeStays DEF Refunding
  <2>3. QED
    BY <1>1, <2>2 DEF Refunding, Whole
<1>2. CASE t.op = "approve"
  <2>1. t.order \in Orders /\ t.refund \in Refunds /\ t.ref \in ProviderRefunds \cup {None}
    BY <1>2, TxKinds DEF ApproveTx
  <2>2. Whole(t.order, t.amount)' /\ refunds'[t.refund].order = t.order
    BY <1>2, <2>1, WholeStays DEF Refunding
  <2>3. t.ref # None => Calls(t.ref, t.order)'
    BY <1>2, <2>1 DEF Refunding
  <2>4. QED
    BY <1>2, <2>2, <2>3 DEF Refunding, Whole, Calls
<1>3. CASE t.op = "refund_webhook"
  <2>1. t.refund \in Refunds \cup {None}
    BY <1>3, TxKinds DEF RefundWebhookTx
  <2>2. QED
    BY <1>3, <2>1 DEF Refunding
<1>4. CASE t.op \notin {"request", "approve", "refund_webhook"}
  BY <1>4 DEF Refunding
<1>5. QED
  BY <1>1, <1>2, <1>3, <1>4

\* A step of one transaction that takes no reference away.
LEMMA OthersRefund ==
  ASSUME TypeOK, CreditInv, SettledInv, RefundInv, [Next]_vars,
         NEW s \in Sessions, Others(s), Refunding(tx[s])',
         tx'[s].op = "approve" /\ tx'[s].ref # None =>
           \A u \in Sessions \ {s} : tx[u].op = "approve" => tx[u].ref # tx'[s].ref,
         \A r \in Refunds : refunds[r].status # "none" => refunds'[r].order = refunds[r].order,
         \A r \in Refunds : refunds[r].ref # None => refunds'[r].ref # None,
         \A u \in Sessions \ {s} : tx[u].op = "approve" /\ tx[u].ref # None =>
           \A r \in Refunds : refunds'[r].ref # tx[u].ref,
         \A x \in ProviderRefunds, o \in Orders : Calls(x, o) => Calls(x, o)'
  PROVE  (\A u \in Sessions : Refunding(tx[u])') /\ RefsDiffer'
<1>1. ASSUME NEW u \in Sessions \ {s}
      PROVE  Refunding(tx[u])'
  <2>1. PICK t \in Tx : t = tx[u]
    BY DEF TypeOK
  <2>2. /\ Refunding(t)
        /\ t.op = "approve" => refunds[t.refund].status # "none"
        /\ t.op = "approve" /\ t.ref # None => \A r \in Refunds : refunds'[r].ref # t.ref
    BY <2>1 DEF RefundInv, CreditInv, Backed
  <2>3. Refunding(t)'
    BY <2>2, RefundingStays
  <2>4. t = tx'[u]
    BY <2>1 DEF Others
  <2>5. QED
    BY <2>3, <2>4 DEF Refunding, Whole, Calls
<1>2. RefsDiffer'
  BY DEF RefundInv, RefsDiffer, Others
<1>3. QED
  BY <1>1, <1>2

\* The tables of refunds stay in order while no refund, and no call for one, is changed.
LEMMA RefundTablesStay ==
  ASSUME TypeOK, CreditInv, SettledInv, RefundInv, [Next]_vars,
         UNCHANGED <<refunds, prefunds>>, \A s \in Sessions : ~ CommitRefundWebhook(s)
  PROVE  RefundsWhole' /\ CalledOnce' /\ RefundedIsProcessed'
<1>1. RefundsWhole'
  <2> SUFFICES ASSUME NEW r \in Refunds, refunds[r].status # "none"
               PROVE  Whole(refunds[r].order, refunds[r].amount)'
    BY DEF RefundsWhole
  <2>1. PICK o, amount : o = refunds[r].order /\ amount = refunds[r].amount
    OBVIOUS
  <2>2. o \in Orders /\ Whole(o, amount)
    BY <2>1 DEF RefundInv, RefundsWhole, CreditInv
  <2>3. Whole(o, amount)'
    BY <2>2, WholeStays
  <2>4. QED
    BY <2>1, <2>3 DEF Whole
<1>2. CalledOnce'
  <2>1. ASSUME NEW x \in ProviderRefunds, prefunds[x].status # "none"
        PROVE  Whole(prefunds[x].order, prefunds[x].amount)'
    <3>1. PICK o, amount : o = prefunds[x].order /\ amount = prefunds[x].amount
      OBVIOUS
    <3>2. o \in Orders /\ Whole(o, amount)
      BY <2>1, <3>1 DEF RefundInv, CalledOnce, CreditInv
    <3>3. Whole(o, amount)'
      BY <3>2, WholeStays
    <3>4. QED
      BY <3>1, <3>3 DEF Whole
  <2>2. QED
    BY <2>1 DEF RefundInv, CalledOnce, Calls
<1>3. RefundedIsProcessed'
  <2>1. \A r \in Refunds : Processed(r) => refunds[r].order \in Orders
    BY DEF Processed, CreditInv
  <2>2. QED
    BY <2>1, WholeStays DEF RefundInv, RefundedIsProcessed, Processed
<1>4. QED
  BY <1>1, <1>2, <1>3

\* A transaction that starts relies on what it has just read.
LEMMA RefundingStarts ==
  ASSUME TypeOK, IsFiniteSet(Refunds), CreditInv, RefundInv, NEW s \in Sessions, Starts(s)
  PROVE  /\ Refunding(tx[s])'
         /\ tx'[s].op = "approve" => tx'[s].ref = None
<1>0. PICK op, t : Begin(s, op, t)
  BY StartsBegin
<1>1. /\ UNCHANGED <<payments, refunds, prefunds>>
      /\ \A w, v : Begin(s, w, v) => tx'[s] = v
  BY <1>0 DEF Begin, TypeOK, app, provider
<1>2. ASSUME NEW o \in Orders, StartRequest(s, o)
      PROVE  tx'[s].op = "request" /\ Whole(tx'[s].order, tx'[s].amount)
  <2>1. /\ payments[o].status \in {"succeeded", "partially_refunded"}
        /\ payments[o].amount - ProcessedOf(o, None) \in Nat \ {0}
        /\ tx'[s].op = "request" /\ tx'[s].order = o
        /\ tx'[s].amount = payments[o].amount - ProcessedOf(o, None)
    BY <1>1, <1>2 DEF StartRequest
  <2>2. ProcessedOf(o, None) = 0 /\ payments[o].amount \in Nat
    BY <2>1, WholeAddsUp DEF RefundInv, TypeOK, Payment
  <2>3. QED
    BY <2>1, <2>2 DEF Whole
<1>3. ASSUME NEW r \in Refunds, StartApprove(s, r)
      PROVE  /\ tx'[s].op = "approve" /\ tx'[s].ref = None /\ tx'[s].refund = r
             /\ Whole(tx'[s].order, tx'[s].amount) /\ refunds[r].order = tx'[s].order
  <2>1. /\ refunds[r].status = "pending"
        /\ tx'[s].op = "approve" /\ tx'[s].ref = None /\ tx'[s].refund = r
        /\ tx'[s].order = refunds[r].order /\ tx'[s].amount = refunds[r].amount
    BY <1>1, <1>3 DEF StartApprove
  <2>2. QED
    BY <2>1 DEF RefundInv, RefundsWhole
<1>4. ASSUME NEW x \in ProviderRefunds, StartRefundWebhook(s, x)
      PROVE  /\ tx'[s].op = "refund_webhook"
             /\ tx'[s].refund # None =>
                  tx'[s].after = "refunded" /\ refunds[tx'[s].refund].ref # None
  <2>1. \/ tx'[s].op = "refund_webhook" /\ tx'[s].refund = None
        \/ \E r \in Refunds : /\ refunds[r].ref = x
                              /\ tx'[s].op = "refund_webhook" /\ tx'[s].refund = r
                              /\ tx'[s].after = After(r)
    <3>1. ASSUME NEW r, NEW after,
                 Begin(s, "refund_webhook", [op |-> "refund_webhook", event |-> RefundEvent(x),
                                             refund |-> r, after |-> after])
          PROVE  tx'[s].op = "refund_webhook" /\ tx'[s].refund = r /\ tx'[s].after = after
      <4>1. tx'[s] = [op |-> "refund_webhook", event |-> RefundEvent(x),
                      refund |-> r, after |-> after]
        BY <1>1, <3>1
      <4>2. QED
        BY <4>1
    <3>2. CASE \E r \in Refunds :
                 /\ refunds[r].ref = x
                 /\ Begin(s, "refund_webhook",
                      [op |-> "refund_webhook", event |-> RefundEvent(x), refund |-> r,
                       after |-> After(r)])
      BY <3>1, <3>2
    <3>3. CASE Begin(s, "refund_webhook",
                 [op |-> "refund_webhook", event |-> RefundEvent(x), refund |-> None,
                  after |-> "none"])
      BY <3>1, <3>3
    <3>4. QED
      BY <1>4, <3>2, <3>3 DEF StartRefundWebhook
  <2>2. ASSUME NEW r \in Refunds, refunds[r].ref = x
        PROVE  refunds[r].ref # None /\ After(r) = "refunded"
    <3>1. refunds[r].ref # None
      BY <2>2, PaymentsAssumption
    <3>2. refunds[r].status # "none"
      BY <3>1 DEF CreditInv
    <3>3. QED
      BY <3>1, <3>2, AfterIsRefunded DEF RefundInv
  <2>3. QED
    BY <2>1, <2>2
<1>5. tx'[s].op \notin {"request", "approve", "refund_webhook"} =>
        Refunding(tx[s])' /\ (tx'[s].op = "approve" => tx'[s].ref = None)
  BY DEF Refunding
<1>6. \/ tx'[s].op \notin {"request", "approve", "refund_webhook"}
      \/ \E o \in Orders : StartRequest(s, o)
      \/ \E r \in Refunds : StartApprove(s, r)
      \/ \E x \in ProviderRefunds : StartRefundWebhook(s, x)
  <2>1. ASSUME NEW e, StartWebhook(s, e)
        PROVE  tx'[s].op = "webhook"
    BY <1>1, <2>1 DEF StartWebhook
  <2>2. ASSUME NEW batch, StartReconcile(s, batch)
        PROVE  tx'[s].op = "reconcile"
    BY <1>1, <2>2 DEF StartReconcile
  <2>3. ASSUME NEW r, StartReject(s, r)
        PROVE  tx'[s].op = "reject"
    BY <1>1, <2>3 DEF StartReject
  <2>4. ASSUME NEW a, StartPayout(s, a)
        PROVE  tx'[s].op = "payout"
    BY <1>1, <2>4 DEF StartPayout
  <2>5. ASSUME NEW b, NEW kind, NEW key, StartOrder(s, b, kind, key)
        PROVE  tx'[s].op = "order"
    BY <1>1, <2>5 DEF StartOrder
  <2>6. QED
    BY <2>1, <2>2, <2>3, <2>4, <2>5 DEF Starts
<1>7. QED
  BY <1>1, <1>2, <1>3, <1>4, <1>5, <1>6 DEF Refunding, Whole

\* An idle session relies on nothing.
LEMMA IdleRefunds ==
  ASSUME NEW s \in Sessions, tx'[s] = Idle
  PROVE  Refunding(tx[s])' /\ tx'[s].op # "approve"
BY DEF Idle, Refunding

\* A request makes a row for what it found.
LEMMA RequestRefunds ==
  ASSUME TypeOK, CreditInv, SettledInv, RefundInv, [Next]_vars,
         NEW s \in Sessions, NEW r \in Refunds, CommitRequest(s, r)
  PROVE  RefundInv'
<1>1. /\ tx[s].op = "request" /\ refunds[r].status = "none"
      /\ refunds'[r].status = "pending" /\ refunds'[r].ref = None
      /\ refunds'[r].order = tx[s].order /\ refunds'[r].amount = tx[s].amount
      /\ \A q \in Refunds \ {r} : refunds'[q] = refunds[q]
      /\ tx'[s] = Idle /\ Others(s) /\ UNCHANGED <<payments, prefunds>>
  BY RefundRequested DEF CommitRequest, TypeOK, provider
<1>2. refunds[r].ref = None /\ Whole(tx[s].order, tx[s].amount)
  BY <1>1 DEF CreditInv, RefundInv, Refunding
<1>3. \A x, o : Calls(x, o)' <=> Calls(x, o)
  BY <1>1 DEF Calls
<1>4. \A o, amount : Whole(o, amount)' <=> Whole(o, amount)
  BY <1>1 DEF Whole
<1>5. (\A u \in Sessions : Refunding(tx[u])') /\ RefsDiffer'
  <2>1. Refunding(tx[s])' /\ tx'[s].op # "approve"
    BY <1>1, IdleRefunds
  <2>2. ASSUME NEW u \in Sessions, tx[u].op = "approve", tx[u].ref # None
        PROVE  \A q \in Refunds : refunds'[q].ref # tx[u].ref
    BY <1>1, <2>2 DEF RefundInv, Refunding
  <2>3. QED
    BY <1>1, <1>2, <1>3, <2>1, <2>2, OthersRefund
<1>6. RefundsWhole'
  BY <1>1, <1>2 DEF RefundInv, RefundsWhole, Whole
<1>7. CalledOnce'
  BY <1>1, <1>2 DEF RefundInv, CalledOnce, Calls, Whole
<1>8. RefundedIsProcessed'
  BY <1>1 DEF RefundInv, RefundedIsProcessed, Processed
<1>9. QED
  BY <1>5, <1>6, <1>7, <1>8 DEF RefundInv

\* An approval stores the reference of its call, which no refund carries yet.
LEMMA ApproveRefunds ==
  ASSUME TypeOK, CreditInv, SettledInv, RefundInv, [Next]_vars,
         NEW s \in Sessions, CommitApprove(s)
  PROVE  RefundInv'
<1>1. PICK r, x : r = tx[s].refund /\ x = tx[s].ref
  OBVIOUS
<1>2. /\ r \in Refunds /\ refunds[r] \in Refund /\ x \in ProviderRefunds /\ x # None
      /\ tx[s].op = "approve" /\ refunds[r].status # "none"
      /\ refunds' = [refunds EXCEPT ![r].status = "approved", ![r].ref = x]
      /\ tx'[s] = Idle /\ Others(s) /\ UNCHANGED <<payments, prefunds>>
  BY <1>1, TxKinds, EndIdles DEF CommitApprove, TypeOK, ApproveTx, CreditInv, Backed, provider
<1>3. /\ refunds'[r].status = "approved" /\ refunds'[r].ref = x
      /\ refunds'[r].order = refunds[r].order /\ refunds'[r].amount = refunds[r].amount
      /\ \A q \in Refunds \ {r} : refunds'[q] = refunds[q]
  BY <1>2 DEF TypeOK, Refund
<1>4. Calls(x, refunds[r].order) /\ \A q \in Refunds : refunds[q].ref # x
  BY <1>1, <1>2 DEF RefundInv, Refunding
<1>5. \A y, o : Calls(y, o)' <=> Calls(y, o)
  BY <1>2 DEF Calls
<1>6. ~ Processed(r)
  <2> SUFFICES ASSUME Processed(r)
               PROVE  FALSE
    OBVIOUS
  <2>1. refunds[r].ref # None /\ refunds[r].ref \in ProviderRefunds
    BY <1>2 DEF RefundInv, RefundedIsProcessed, Refund
  <2>2. Calls(refunds[r].ref, refunds[r].order)
    BY <1>2, <2>1 DEF RefundInv, CalledOnce
  <2>3. refunds[r].ref = x
    BY <1>2, <1>4, <2>1, <2>2 DEF RefundInv, CalledOnce, Calls
  <2>4. QED
    BY <1>2, <1>4, <2>3
<1>7. (\A u \in Sessions : Refunding(tx[u])') /\ RefsDiffer'
  <2>1. Refunding(tx[s])' /\ tx'[s].op # "approve"
    BY <1>2, IdleRefunds
  <2>2. ASSUME NEW u \in Sessions \ {s}, tx[u].op = "approve", tx[u].ref # None
        PROVE  \A q \in Refunds : refunds'[q].ref # tx[u].ref
    <3>1. tx[u].ref # x
      BY <1>1, <1>2, <2>2 DEF RefundInv, RefsDiffer
    <3>2. \A q \in Refunds : refunds[q].ref # tx[u].ref
      BY <2>2 DEF RefundInv, Refunding
    <3>3. QED
      BY <1>3, <3>1, <3>2
  <2>3. /\ \A q \in Refunds : refunds[q].status # "none" => refunds'[q].order = refunds[q].order
        /\ \A q \in Refunds : refunds[q].ref # None => refunds'[q].ref # None
    BY <1>2, <1>3
  <2>4. QED
    BY <1>2, <1>5, <2>1, <2>2, <2>3, OthersRefund
<1>8. RefundsWhole'
  <2>1. \A q \in Refunds : refunds'[q].status # "none" =>
          /\ refunds[q].status # "none"
          /\ refunds'[q].order = refunds[q].order /\ refunds'[q].amount = refunds[q].amount
    BY <1>2, <1>3
  <2>2. QED
    BY <1>2, <2>1 DEF RefundInv, RefundsWhole, Whole
<1>9. CalledOnce'
  <2>1. \A q \in Refunds : refunds[q].ref # None => Calls(refunds[q].ref, refunds[q].order)
    BY DEF RefundInv, CalledOnce
  <2>2. ASSUME NEW q \in Refunds, refunds'[q].ref # None
        PROVE  Calls(refunds'[q].ref, refunds'[q].order)
    BY <1>3, <1>4, <2>1, <2>2
  <2>3. ASSUME NEW q \in Refunds, NEW p \in Refunds,
               refunds'[q].ref # None, refunds'[q].ref = refunds'[p].ref
        PROVE  q = p
    <3>1. CASE q = r \/ p = r
      BY <1>3, <1>4, <2>3, <3>1
    <3>2. CASE q # r /\ p # r
      BY <1>3, <2>3, <3>2 DEF RefundInv, CalledOnce
    <3>3. QED
      BY <3>1, <3>2
  <2>4. (\A q \in Refunds : refunds[q].ref # None => Calls(refunds[q].ref, refunds[q].order))'
    BY <1>5, <2>2
  <2>5. (\A y \in ProviderRefunds : prefunds[y].status # "none" =>
           Whole(prefunds[y].order, prefunds[y].amount))'
    BY <1>2 DEF RefundInv, CalledOnce, Whole
  <2>6. QED
    BY <1>2, <2>3, <2>4, <2>5 DEF RefundInv, CalledOnce, Calls
<1>10. RefundedIsProcessed'
  <2>1. \A q \in Refunds : Processed(q)' => Processed(q) /\ q # r
    BY <1>3 DEF Processed
  <2>2. ASSUME NEW q \in Refunds, Processed(q)'
        PROVE  refunds'[q].ref # None /\ payments'[refunds'[q].order].status = "refunded"
    <3>1. Processed(q) /\ refunds'[q] = refunds[q]
      BY <1>3, <2>1, <2>2
    <3>2. refunds[q].ref # None /\ payments[refunds[q].order].status = "refunded"
      BY <3>1 DEF RefundInv, RefundedIsProcessed
    <3>3. QED
      BY <1>2, <3>1, <3>2
  <2>3. ASSUME NEW o \in Orders, payments'[o].status = "refunded"
        PROVE  \E q \in Refunds : Processed(q)' /\ refunds'[q].order = o
    <3>1. PICK q \in Refunds : Processed(q) /\ refunds[q].order = o
      BY <1>2, <2>3 DEF RefundInv, RefundedIsProcessed
    <3>2. refunds'[q] = refunds[q]
      BY <1>3, <1>6, <3>1
    <3>3. QED
      BY <3>1, <3>2 DEF Processed
  <2>4. QED
    BY <2>2, <2>3 DEF RefundedIsProcessed
<1>11. QED
  BY <1>7, <1>8, <1>9, <1>10 DEF RefundInv

\* A rejection is of a refund that carries no reference, and so is not processed.
LEMMA RejectRefunds ==
  ASSUME TypeOK, CreditInv, SettledInv, RejectInv, RefundInv, [Next]_vars,
         NEW s \in Sessions, CommitReject(s)
  PROVE  RefundInv'
<1>1. PICK r : r = tx[s].refund
  OBVIOUS
<1>2. /\ r \in Refunds /\ refunds[r] \in Refund /\ tx[s].op = "reject"
      /\ refunds[r].status # "none" /\ refunds[r].ref = None
      /\ refunds' = [refunds EXCEPT ![r].status = "rejected"]
      /\ tx'[s] = Idle /\ Others(s) /\ UNCHANGED <<payments, prefunds>>
  BY <1>1, TxKinds, EndIdles DEF CommitReject, TypeOK, RejectTx, CreditInv, Backed, RejectInv,
     provider
<1>3. /\ refunds'[r].status = "rejected" /\ refunds'[r].ref = refunds[r].ref
      /\ refunds'[r].order = refunds[r].order /\ refunds'[r].amount = refunds[r].amount
      /\ \A q \in Refunds \ {r} : refunds'[q] = refunds[q]
  BY <1>2 DEF TypeOK, Refund
<1>4. \A y, o : Calls(y, o)' <=> Calls(y, o)
  BY <1>2 DEF Calls
<1>5. ~ Processed(r)
  BY <1>2 DEF RefundInv, RefundedIsProcessed
<1>6. (\A u \in Sessions : Refunding(tx[u])') /\ RefsDiffer'
  <2>1. Refunding(tx[s])' /\ tx'[s].op # "approve"
    BY <1>2, IdleRefunds
  <2>2. ASSUME NEW u \in Sessions \ {s}, tx[u].op = "approve", tx[u].ref # None
        PROVE  \A q \in Refunds : refunds'[q].ref # tx[u].ref
    BY <1>2, <1>3, <2>2 DEF RefundInv, Refunding
  <2>3. /\ \A q \in Refunds : refunds[q].status # "none" => refunds'[q].order = refunds[q].order
        /\ \A q \in Refunds : refunds[q].ref # None => refunds'[q].ref # None
    BY <1>2, <1>3
  <2>4. QED
    BY <1>2, <1>4, <2>1, <2>2, <2>3, OthersRefund
<1>7. RefundsWhole'
  BY <1>2, <1>3 DEF RefundInv, RefundsWhole, Whole
<1>8. CalledOnce'
  BY <1>2, <1>3 DEF RefundInv, CalledOnce, Calls, Whole
<1>9. RefundedIsProcessed'
  BY <1>2, <1>3, <1>5 DEF RefundInv, RefundedIsProcessed, Processed
<1>10. QED
  BY <1>6, <1>7, <1>8, <1>9 DEF RefundInv

\* A refund that is processed is the only one of its payment, which is refunded with it.
LEMMA NoticeRefunds ==
  ASSUME TypeOK, CreditInv, SettledInv, RefundInv, [Next]_vars,
         NEW s \in Sessions, CommitRefundWebhook(s)
  PROVE  RefundInv'
<1>1. /\ tx'[s] = Idle /\ Others(s) /\ UNCHANGED prefunds
      /\ Refunding(tx[s])' /\ tx'[s].op # "approve"
  BY RefundNoticed, IdleRefunds DEF CommitRefundWebhook, provider
<1>2. \A y, o : Calls(y, o)' <=> Calls(y, o)
  BY <1>1 DEF Calls
<1>3. ASSUME \A q \in Refunds : /\ refunds[q].status # "none" => refunds'[q].order = refunds[q].order
                                /\ refunds'[q].ref = refunds[q].ref
      PROVE  (\A u \in Sessions : Refunding(tx[u])') /\ RefsDiffer'
  <2>1. ASSUME NEW u \in Sessions \ {s}, tx[u].op = "approve", tx[u].ref # None
        PROVE  \A q \in Refunds : refunds'[q].ref # tx[u].ref
    BY <1>3, <2>1 DEF RefundInv, Refunding
  <2>2. QED
    BY <1>1, <1>2, <1>3, <2>1, OthersRefund
<1>4. CASE UNCHANGED <<refunds, payments>>
  <2>1. (\A u \in Sessions : Refunding(tx[u])') /\ RefsDiffer'
    BY <1>3, <1>4
  <2>2. RefundsWhole' /\ CalledOnce' /\ RefundedIsProcessed'
    BY <1>1, <1>4 DEF RefundInv, RefundsWhole, CalledOnce, RefundedIsProcessed, Processed,
       Calls, Whole
  <2>3. QED
    BY <2>1, <2>2 DEF RefundInv
<1>5. CASE ~ UNCHANGED <<refunds, payments>>
  <2>1. PICK r, o : r = tx[s].refund /\ o = refunds[r].order
    OBVIOUS
  <2>2. /\ tx[s].op = "refund_webhook" /\ r # None /\ r \in Refunds
        /\ refunds[r] \in Refund /\ refunds[r].status # "none" /\ o \in Orders
        /\ refunds' = [refunds EXCEPT ![r].status = "processed"]
        /\ payments' = [payments EXCEPT ![o].status = tx[s].after]
    BY <1>5, <2>1, RefundNoticed DEF CommitRefundWebhook, TypeOK
  <2>3. refunds[r].ref # None /\ tx[s].after = "refunded"
    BY <2>1, <2>2 DEF RefundInv, Refunding
  <2>4. /\ refunds'[r].status = "processed" /\ refunds'[r].ref = refunds[r].ref
        /\ refunds'[r].order = o /\ refunds'[r].amount = refunds[r].amount
        /\ \A q \in Refunds \ {r} : refunds'[q] = refunds[q]
    BY <2>1, <2>2 DEF TypeOK, Refund
  <2>5. /\ payments'[o].status = "refunded"
        /\ \A p \in Orders \ {o} : payments'[p] = payments[p]
    BY <2>2, <2>3 DEF TypeOK, Payment
  <2>6. (\A u \in Sessions : Refunding(tx[u])') /\ RefsDiffer'
    BY <1>3, <2>1, <2>2, <2>4
  <2>7. \A p \in Orders : \A amount : Whole(p, amount) => Whole(p, amount)'
    BY WholeStays
  <2>8. RefundsWhole'
    <3> SUFFICES ASSUME NEW q \in Refunds, refunds'[q].status # "none"
                 PROVE  Whole(refunds[q].order, refunds[q].amount)'
      BY DEF RefundsWhole
    <3>1. PICK p, amount : p = refunds[q].order /\ amount = refunds[q].amount
      OBVIOUS
    <3>2. /\ p \in Orders /\ Whole(p, amount)
          /\ p = refunds'[q].order /\ amount = refunds'[q].amount
      BY <2>1, <2>2, <2>4, <3>1 DEF RefundInv, RefundsWhole, CreditInv
    <3>3. Whole(p, amount)'
      BY <2>7, <3>2
    <3>4. QED
      BY <3>2, <3>3 DEF Whole
  <2>9. CalledOnce'
    <3>1. ASSUME NEW x \in ProviderRefunds, prefunds[x].status # "none"
          PROVE  Whole(prefunds[x].order, prefunds[x].amount)'
      <4>1. PICK p, amount : p = prefunds[x].order /\ amount = prefunds[x].amount
        OBVIOUS
      <4>2. p \in Orders /\ Whole(p, amount)
        BY <3>1, <4>1 DEF RefundInv, CalledOnce, CreditInv
      <4>3. Whole(p, amount)'
        BY <2>7, <4>2
      <4>4. QED
        BY <1>1, <4>1, <4>3 DEF Whole
    <3>2. \A q \in Refunds : refunds'[q].ref = refunds[q].ref /\ refunds'[q].order = refunds[q].order
      BY <2>1, <2>4
    <3>3. QED
      BY <1>1, <3>1, <3>2 DEF RefundInv, CalledOnce, Calls
  <2>10. RefundedIsProcessed'
    <3>1. ASSUME NEW q \in Refunds, Processed(q)'
          PROVE  refunds'[q].ref # None /\ payments'[refunds'[q].order].status = "refunded"
      <4>1. CASE q = r
        BY <2>3, <2>4, <2>5, <4>1
      <4>2. CASE q # r
        <5>1. Processed(q) /\ refunds'[q] = refunds[q]
          BY <2>4, <3>1, <4>2 DEF Processed
        <5>2. /\ refunds[q].ref # None /\ payments[refunds[q].order].status = "refunded"
              /\ refunds[q].order \in Orders
          BY <5>1 DEF RefundInv, RefundedIsProcessed, CreditInv, Processed
        <5>3. QED
          BY <2>5, <5>1, <5>2
      <4>3. QED
        BY <4>1, <4>2
    <3>2. ASSUME NEW p \in Orders, payments'[p].status = "refunded"
          PROVE  \E q \in Refunds : Processed(q)' /\ refunds'[q].order = p
      <4>1. CASE p = o
        BY <2>2, <2>4, <4>1 DEF Processed
      <4>2. CASE p # o
        <5>1. PICK q \in Refunds : Processed(q) /\ refunds[q].order = p
          BY <2>5, <3>2, <4>2 DEF RefundInv, RefundedIsProcessed
        <5>2. q # r
          BY <2>1, <4>2, <5>1
        <5>3. QED
          BY <2>4, <5>1, <5>2 DEF Processed
      <4>3. QED
        BY <4>1, <4>2
    <3>3. QED
      BY <3>1, <3>2 DEF RefundedIsProcessed
  <2>11. QED
    BY <2>6, <2>8, <2>9, <2>10 DEF RefundInv
<1>6. QED
  BY <1>4, <1>5

\* The first call for a payment, and the only one.
LEMMA CallRefunds ==
  ASSUME TypeOK, IsFiniteSet(ProviderRefunds), CreditInv, SettledInv, RefundInv,
         [Next]_vars, NEW s \in Sessions, NEW x \in ProviderRefunds, CallProvider(s, x)
  PROVE  RefundInv'
<1>1. PICK o, n, amount : o = tx[s].order /\ n = tx[s].attempt /\ amount = tx[s].amount
  OBVIOUS
<1>2. /\ tx[s] \in ApproveTx /\ o \in Orders /\ tx[s].op = "approve" /\ tx[s].ref = None
      /\ Refundable(o, n, amount) /\ prefunds[x].status = "none"
      /\ prefunds' = [prefunds EXCEPT ![x] = [status |-> "pending", order |-> o,
                                              attempt |-> n, amount |-> amount]]
      /\ tx' = [tx EXCEPT ![s].ref = x] /\ UNCHANGED <<payments, refunds>>
  BY <1>1, TxKinds DEF CallProvider, TypeOK, ApproveTx, app
<1>3. /\ prefunds'[x].status = "pending" /\ prefunds'[x].order = o /\ prefunds'[x].amount = amount
      /\ \A y \in ProviderRefunds \ {x} : prefunds'[y] = prefunds[y]
  BY <1>2 DEF TypeOK
<1>4. /\ tx'[s].op = "approve" /\ tx'[s].order = o /\ tx'[s].amount = amount
      /\ tx'[s].refund = tx[s].refund /\ tx'[s].ref = x /\ Others(s)
  BY <1>1, <1>2 DEF TypeOK, ApproveTx, Others
<1>5. Whole(o, amount) /\ refunds[tx[s].refund].order = o
  BY <1>1, <1>2 DEF RefundInv, Refunding
<1>6. \A y \in ProviderRefunds : ~ Calls(y, o)
  BY <1>2, <1>5, CallIsFirst DEF RefundInv
<1>7. /\ Calls(x, o)' /\ \A p : ~ Calls(x, p)
      /\ \A y \in ProviderRefunds \ {x} : \A p : Calls(y, p)' <=> Calls(y, p)
  BY <1>2, <1>3 DEF Calls
<1>8. \A r \in Refunds : refunds[r].ref # x
  BY <1>7, PaymentsAssumption DEF RefundInv, CalledOnce
<1>9. (\A u \in Sessions : Refunding(tx[u])') /\ RefsDiffer'
  <2>1. Refunding(tx[s])'
    BY <1>2, <1>4, <1>5, <1>7, <1>8 DEF Refunding, Whole, Calls
  <2>2. ASSUME NEW u \in Sessions \ {s}, tx[u].op = "approve"
        PROVE  tx[u].ref # x
    <3>1. tx[u].ref # None => Calls(tx[u].ref, tx[u].order)
      BY <2>2 DEF RefundInv, Refunding
    <3>2. QED
      BY <1>7, <3>1, PaymentsAssumption
  <2>3. ASSUME NEW u \in Sessions \ {s}, tx[u].op = "approve", tx[u].ref # None
        PROVE  \A q \in Refunds : refunds'[q].ref # tx[u].ref
    BY <1>2, <2>3 DEF RefundInv, Refunding
  <2>4. \A y \in ProviderRefunds, p \in Orders : Calls(y, p) => Calls(y, p)'
    BY <1>7
  <2>5. QED
    BY <1>2, <1>4, <2>1, <2>2, <2>3, <2>4, OthersRefund
<1>10. RefundsWhole' /\ RefundedIsProcessed'
  BY <1>2 DEF RefundInv, RefundsWhole, RefundedIsProcessed, Processed, Whole
<1>11. CalledOnce'
  <2>1. ASSUME NEW y \in ProviderRefunds, prefunds'[y].status # "none"
        PROVE  Whole(prefunds[y].order, prefunds[y].amount)'
    <3>1. CASE y = x
      BY <1>2, <1>3, <1>5, <3>1 DEF Whole
    <3>2. CASE y # x
      BY <1>2, <1>3, <2>1, <3>2 DEF Whole, RefundInv, CalledOnce
    <3>3. QED
      BY <3>1, <3>2
  <2>2. ASSUME NEW y \in ProviderRefunds, NEW z \in ProviderRefunds,
               prefunds'[y].status # "none", prefunds'[z].status # "none",
               prefunds'[z].order = prefunds'[y].order
        PROVE  y = z
    <3>1. CASE y = x \/ z = x
      BY <1>3, <1>6, <2>2, <3>1 DEF Calls
    <3>2. CASE y # x /\ z # x
      BY <1>3, <2>2, <3>2 DEF RefundInv, CalledOnce, Calls
    <3>3. QED
      BY <3>1, <3>2
  <2>3. \A r \in Refunds : refunds[r].ref # None =>
          refunds[r].ref \in ProviderRefunds \ {x} /\ Calls(refunds[r].ref, refunds[r].order)
    BY <1>8 DEF RefundInv, CalledOnce, TypeOK, Refund
  <2>4. (\A r \in Refunds : refunds[r].ref # None => Calls(refunds[r].ref, refunds[r].order))'
    BY <1>2, <1>3, <2>3 DEF Calls
  <2>5. QED
    BY <1>2, <2>1, <2>2, <2>4 DEF RefundInv, CalledOnce, Calls
<1>12. QED
  BY <1>9, <1>10, <1>11 DEF RefundInv

\* A refund that the provider has processed is still the call it was.
LEMMA ProcessRefunds ==
  ASSUME TypeOK, RefundInv, NEW x \in ProviderRefunds, ProcessRefund(x)
  PROVE  RefundInv'
<1>1. /\ prefunds[x].status = "pending" /\ prefunds'[x].status = "processed"
      /\ prefunds'[x].order = prefunds[x].order /\ prefunds'[x].amount = prefunds[x].amount
      /\ \A y \in ProviderRefunds \ {x} : prefunds'[y] = prefunds[y]
      /\ UNCHANGED <<payments, refunds, tx>>
  BY DEF ProcessRefund, TypeOK, ProviderRefund, app
<1>2. \A y \in ProviderRefunds :
        /\ prefunds'[y].status # "none" <=> prefunds[y].status # "none"
        /\ prefunds'[y].order = prefunds[y].order /\ prefunds'[y].amount = prefunds[y].amount
  BY <1>1
<1>3. \A y \in ProviderRefunds : \A o : Calls(y, o)' <=> Calls(y, o)
  BY <1>2 DEF Calls
<1>4. \A o, amount : Whole(o, amount)' <=> Whole(o, amount)
  BY <1>1 DEF Whole
<1>5. RefundsWhole' /\ RefundedIsProcessed' /\ RefsDiffer'
  BY <1>1 DEF RefundInv, RefundsWhole, RefundedIsProcessed, RefsDiffer, Processed, Whole
<1>6. CalledOnce'
  <2>1. (\A y \in ProviderRefunds : prefunds[y].status # "none" =>
           Whole(prefunds[y].order, prefunds[y].amount))'
    BY <1>1, <1>2 DEF RefundInv, CalledOnce, Whole
  <2>2. (\A y, z \in ProviderRefunds :
           prefunds[y].status # "none" /\ Calls(z, prefunds[y].order) => y = z)'
    BY <1>2 DEF RefundInv, CalledOnce, Calls
  <2>3. (\A r \in Refunds : refunds[r].ref # None => Calls(refunds[r].ref, refunds[r].order))'
    <3>1. \A r \in Refunds : refunds[r].ref # None =>
            refunds[r].ref \in ProviderRefunds /\ Calls(refunds[r].ref, refunds[r].order)
      BY DEF RefundInv, CalledOnce, TypeOK, Refund
    <3>2. QED
      BY <1>1, <1>2, <3>1 DEF Calls
  <2>4. QED
    BY <1>1, <2>1, <2>2, <2>3 DEF RefundInv, CalledOnce
<1>7. ASSUME NEW s \in Sessions
      PROVE  Refunding(tx[s])'
  <2>1. PICK t \in Tx : t = tx[s] /\ Refunding(t)
    BY DEF RefundInv, TypeOK
  <2>2. CASE t.op = "approve"
    <3>1. t.ref \in ProviderRefunds \cup {None}
      BY <2>2, TxKinds DEF ApproveTx
    <3>2. t.ref # None => Calls(t.ref, t.order)'
      BY <1>3, <2>1, <2>2, <3>1 DEF Refunding
    <3>3. QED
      BY <1>1, <2>1, <2>2, <3>2 DEF Refunding, Whole, Calls
  <2>3. CASE t.op # "approve"
    BY <1>1, <2>1, <2>3 DEF Refunding, Whole
  <2>4. QED
    BY <2>2, <2>3
<1>8. QED
  BY <1>5, <1>6, <1>7 DEF RefundInv

\* A step that touches neither refunds nor calls for them.
LEMMA RefundsRest ==
  ASSUME TypeOK, CreditInv, SettledInv, RefundInv, [Next]_vars,
         UNCHANGED <<refunds, prefunds>>, \A s \in Sessions : ~ CommitRefundWebhook(s)
  PROVE  /\ UNCHANGED tx => RefundInv'
         /\ \A s \in Sessions :
              /\ Others(s)
              /\ Refunding(tx[s])'
              /\ tx'[s].op = "approve" => tx'[s].ref = None
              => RefundInv'
<1>1. RefundsWhole' /\ CalledOnce' /\ RefundedIsProcessed'
  BY RefundTablesStay
<1>2. /\ \A x, o : Calls(x, o) <=> Calls(x, o)'
      /\ \A u \in Sessions : tx[u].op = "approve" /\ tx[u].ref # None =>
           \A r \in Refunds : refunds'[r].ref # tx[u].ref
  BY DEF Calls, RefundInv, Refunding
<1>3. ASSUME UNCHANGED tx
      PROVE  RefundInv'
  <2>1. ASSUME NEW u \in Sessions
        PROVE  Refunding(tx[u])'
    <3>1. PICK t \in Tx : t = tx[u]
      BY DEF TypeOK
    <3>2. /\ Refunding(t)
          /\ t.op = "approve" => refunds[t.refund].status # "none"
          /\ t.op = "approve" /\ t.ref # None => \A r \in Refunds : refunds'[r].ref # t.ref
      BY <1>2, <3>1 DEF RefundInv, CreditInv, Backed
    <3>3. Refunding(t)'
      BY <1>2, <3>2, RefundingStays
    <3>4. QED
      BY <1>3, <3>1, <3>3 DEF Refunding, Whole, Calls
  <2>2. RefsDiffer'
    BY <1>3 DEF RefundInv, RefsDiffer
  <2>3. QED
    BY <1>1, <2>1, <2>2 DEF RefundInv
<1>4. ASSUME NEW s \in Sessions, Others(s), Refunding(tx[s])',
             tx'[s].op = "approve" => tx'[s].ref = None
      PROVE  RefundInv'
  BY <1>1, <1>2, <1>4, OthersRefund DEF RefundInv
<1>5. QED
  BY <1>3, <1>4

\* Every step keeps it, if no refund is approved beside a rejection.
LEMMA RefundStep ==
  ASSUME TypeOK, IsFiniteSet(Refunds), IsFiniteSet(ProviderRefunds), CreditInv, SettledInv,
         RejectInv, RefundInv, [Next]_vars
  PROVE  RefundInv'
<1>1. CASE \E s \in Sessions : CommitRefundWebhook(s)
  BY <1>1, NoticeRefunds
<1>2. CASE \A s \in Sessions : ~ CommitRefundWebhook(s)
  <2>1. ASSUME UNCHANGED <<refunds, prefunds, tx>>
        PROVE  RefundInv'
    BY <1>2, <2>1, RefundsRest
  <2>2. ASSUME NEW s \in Sessions, Others(s), UNCHANGED <<refunds, prefunds>>,
               tx'[s] = Idle \/ tx'[s].op = "reconcile"
        PROVE  RefundInv'
    <3>1. Refunding(tx[s])' /\ tx'[s].op # "approve"
      BY <2>2, IdleRefunds DEF Refunding
    <3>2. QED
      BY <1>2, <2>2, <3>1, RefundsRest
  <2>3. ASSUME NEW s \in Sessions, Starts(s)
        PROVE  RefundInv'
    <3>1. Others(s) /\ UNCHANGED <<refunds, prefunds>>
      BY <2>3, StartsBegin DEF Begin, Others, TypeOK, app, provider
    <3>2. Refunding(tx[s])' /\ (tx'[s].op = "approve" => tx'[s].ref = None)
      BY <2>3, RefundingStarts
    <3>3. QED
      BY <1>2, <3>1, <3>2, RefundsRest
  <2>4. ASSUME NEW s \in Sessions, Refuse(s) \/ Abort(s)
        PROVE  RefundInv'
    <3>1. End(s) /\ UNCHANGED <<refunds, prefunds>>
      BY <2>4 DEF Refuse, Abort, app, provider
    <3>2. QED
      BY <2>2, <3>1, EndIdles
  <2>5. ASSUME NEW s \in Sessions, NEW o \in Orders, Poll(s, o)
        PROVE  RefundInv'
    <3>1. tx[s] \in ReconcileTx
      BY <2>5, TxKinds DEF Poll, TypeOK
    <3>2. tx'[s].op = "reconcile" /\ Others(s) /\ UNCHANGED <<refunds, prefunds>>
      BY <2>5, <3>1 DEF Poll, TypeOK, Others, ReconcileTx, app, provider
    <3>3. QED
      BY <2>2, <3>2
  <2>6. ASSUME NEW s \in Sessions,
               \/ \E o \in Orders : CommitOrder(s, o)
               \/ CommitWebhook(s) \/ CommitReconcile(s)
               \/ \E k \in Payouts : CommitPayout(s, k)
        PROVE  RefundInv'
    <3>1. End(s) /\ UNCHANGED <<refunds, prefunds>>
      BY <2>6 DEF CommitOrder, CommitWebhook, CommitReconcile, CommitPayout, provider
    <3>2. QED
      BY <2>2, <3>1, EndIdles
  <2>7. ASSUME NEW s \in Sessions, Advance(s)
        PROVE  RefundInv'
    BY <1>2, <2>5, <2>6, <2>7, RequestRefunds, ApproveRefunds, RejectRefunds, CallRefunds
    DEF Advance
  <2>8. ASSUME \/ UNCHANGED vars
               \/ \E o \in Orders : \E outcome : Attempt(o, outcome)
               \/ \E o \in Orders : \E n, outcome : Resolve(o, n, outcome)
               \/ \E b \in Bookings : Cancel(b)
        PROVE  RefundInv'
    <3>1. UNCHANGED <<refunds, prefunds, tx>>
      BY <2>8 DEF vars, Attempt, Resolve, Cancel, app, provider
    <3>2. QED
      BY <2>1, <3>1
  <2>9. QED
    BY <2>3, <2>4, <2>7, <2>8, ProcessRefunds DEF Next
<1>3. QED
  BY <1>1, <1>2

\* Whatever requests, approvals, notices and payouts meet, the processed refunds of a
\* payment add up to it exactly when it is refunded, and never to more, if no order has a
\* failed attempt beside a successful one and no refund is approved beside a rejection;
\* two approvals may run together, and two requests.
THEOREM RefundsAddUpForGood ==
  ASSUME {"approve", "reject"} \notin Races,
         IsFiniteSet(Refunds), IsFiniteSet(ProviderRefunds)
  PROVE  Spec /\ []Steady => []RefundsAddUp
<1>1. Init => RejectInv /\ RefundInv
  <2> SUFFICES ASSUME Init
               PROVE  RejectInv /\ RefundInv
    OBVIOUS
  <2>1. /\ \A r \in Refunds : refunds[r].status = "none" /\ refunds[r].ref = None
        /\ \A x \in ProviderRefunds : prefunds[x].status = "none"
        /\ \A o \in Orders : payments[o].status = "none"
        /\ \A s \in Sessions : tx[s].op = "none"
    BY DEF Init, Idle
  <2>2. QED
    BY <2>1 DEF RejectInv, RefundInv, RefundsWhole, CalledOnce, Calls, RefundedIsProcessed,
       Processed, RefsDiffer, Refunding
<1>2. TypeOK /\ CreditInv /\ SettledInv /\ Beside /\ RejectInv /\ RefundInv /\ [Next]_vars
        => RejectInv' /\ RefundInv'
  BY RejectStep, RefundStep
<1>3. TypeOK /\ CreditInv /\ RefundInv => RefundsAddUp
  <2> SUFFICES ASSUME TypeOK, CreditInv, RefundInv, NEW o \in Orders
               PROVE  LET sum == ProcessedOf(o, None)
                      IN  /\ sum <= payments[o].amount
                          /\ payments[o].status = "refunded"
                               <=> sum > 0 /\ sum = payments[o].amount
    BY DEF RefundsAddUp
  <2>1. PICK sum : sum = ProcessedOf(o, None)
    OBVIOUS
  <2>2. /\ sum = IF payments[o].status = "refunded" THEN payments[o].amount ELSE 0
        /\ payments[o].status = "refunded" => sum > 0
    BY <2>1, WholeAddsUp DEF RefundInv
  <2>3. payments[o].amount \in Nat
    BY DEF TypeOK, Payment
  <2>4. QED
    BY <2>1, <2>2, <2>3
<1>4. QED
  BY <1>1, <1>2, <1>3, SettledStays, OnlyRacesBeside, PTL DEF Spec

\* What the run checks of orders and refunds that come one after the other, under the
\* conditions of all three parts.
THEOREM MoneyAddsUpForGood ==
  ASSUME {"order"} \notin Races, {"approve", "reject"} \notin Races, DepositsFit,
         IsFiniteSet(Orders), IsFiniteSet(Refunds), IsFiniteSet(ProviderRefunds)
  PROVE  Spec /\ []Steady => []MoneyAddsUp
<1>1. NeverOvercharged /\ RefundsAddUp /\ RejectedIsUnpaid => MoneyAddsUp
  BY DEF MoneyAddsUp
<1>2. QED
  BY <1>1, NeverOverchargedForGood, RefundsAddUpForGood, RejectedStaysUnpaid, PTL
=============================================================================
