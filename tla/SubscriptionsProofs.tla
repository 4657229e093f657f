------------------------- MODULE SubscriptionsProofs -------------------------
(***************************************************************************)
(* Theorems about Subscriptions.tla, for any number of users, memberships, *)
(* payments and transactions: nobody is entitled who has not paid, when    *)
(* checkouts come one at a time and no failure is settled beside another   *)
(* notice of its payment; and the counter of a coupon never runs ahead of  *)
(* its uses, whatever overlaps.                                            *)
(***************************************************************************)
EXTENDS Subscriptions, FiniteSetTheorems, TLAPS

\* Two checkouts are not under way together; whatever else may be.
InTurn == {"checkout"} \notin Races

(***************************************************************************)
(* The invariant                                                           *)
(***************************************************************************)

Statuses == {"none", "trialing", "active", "past_due", "expired"}

HasStatus(row) == "status" \in DOMAIN row /\ row.status \in Statuses

Shaped ==
  /\ DOMAIN tx = Sessions /\ DOMAIN membership = Memberships
  /\ \A m \in Memberships : HasStatus(membership[m])
  /\ payment \in [Payments -> Payment]

\* A payment is for a membership that is there.
PaymentsHaveOne ==
  \A p \in Payments : payment[p].status # "none" =>
    payment[p].of \in Memberships /\ membership[payment[p].of].status # "none"

\* A membership waits for one payment at most; for none when it ended unpaid.
OnePending ==
  \A p, q \in Payments :
    payment[p].status = "pending" /\ payment[q].status = "pending"
      /\ payment[p].of = payment[q].of => p = q

EndedUnpaid(m) == membership[m].status = "expired" /\ Settled(m) = {}

UnpaidIsOver == \A m \in Memberships : EndedUnpaid(m) => PendingOf(m) = {}

\* A checkout adds a payment only to a membership that waits for none and may yet be paid.
CheckoutKnows(t) ==
  t.op = "checkout" =>
    /\ t.of \in Memberships /\ t.plan \in Plans /\ HasStatus(t.row)
    /\ t.row.status # "none" =>
         /\ membership[t.of].status # "none"
         /\ ~ t.pending => PendingOf(t.of) = {} /\ ~ EndedUnpaid(t.of)

\* A settlement has read a payment that is still pending, or that another one has settled
\* with the same success; what fails was read in its trial, or paid before.
SettleKnows(t) ==
  t.op = "settle" =>
    /\ DOMAIN t = {"op", "pay", "paid", "told", "row"}
    /\ t.pay \in Payments /\ t.told \in {"success", "mismatch", "failure"}
    /\ payment[t.pay].of = t.paid.of
    /\ \/ payment[t.pay].status = "pending"
       \/ t.told = "success" /\ payment[t.pay].status = "succeeded"
    /\ t.row # None =>
         /\ HasStatus(t.row)
         /\ t.told = "failure" => t.row.status = "trialing" \/ Settled(t.paid.of) # {}

\* Cancellations and the batch are about memberships that were paid.
OthersKnow(t) ==
  /\ t.op = "cancel" => t.of \in Memberships /\ HasStatus(t.row)
  /\ t.op = "batch" =>
       \A m \in DOMAIN t.rows : /\ m \in Memberships /\ HasStatus(t.rows[m])
                               /\ Settled(m) # {}

TxKnows(t) == CheckoutKnows(t) /\ SettleKnows(t) /\ OthersKnow(t)

Alone ==
  \A s, u \in Sessions :
    tx[s].op = "checkout" /\ tx[u].op = "checkout" => s = u

PaidInv ==
  /\ Shaped /\ PaymentsHaveOne /\ OnePending /\ UnpaidIsOver /\ Alone
  /\ \A s \in Sessions : TxKnows(tx[s])
  /\ EntitledIsPaid

(***************************************************************************)
(* Lemmas                                                                  *)
(***************************************************************************)

\* The status a session leaves: the stored one, unless it read another than it sets.
LEMMA StatusWritten ==
  ASSUME NEW row, NEW next, NEW stored, HasStatus(stored), next.status \in Statuses
  PROVE  /\ HasStatus(Written(row, next, stored))
         /\ Written(row, next, stored).status =
              IF next.status = row.status THEN stored.status ELSE next.status
BY DEF Written, Emit, HasStatus

\* The statuses that the operations set.
LEMMA StatusSet ==
  ASSUME NEW row, HasStatus(row), NEW t, t.row = row, NEW at
  PROVE  /\ Kept(t).status = IF row.status # "none" THEN row.status ELSE "trialing"
         /\ Renewed(row).status = "active"
         /\ Lapsed(row).status = IF row.status = "trialing" THEN "expired" ELSE "past_due"
         /\ Overdue(row, at).status \in {"past_due", "expired"}
         /\ [row EXCEPT !.cancel = TRUE].status = row.status
BY DEF Kept, Reuses, Renewed, Lapsed, Overdue, HasStatus

\* What settlement t knows of its payment is still so after a step.
PaymentStays(t) ==
  /\ payment'[t.pay].of = payment[t.pay].of
  /\ \/ payment'[t.pay].status = payment[t.pay].status
     \/ t.told = "success" /\ payment'[t.pay].status = "succeeded"

\* What a session has read stays good while others write, if no payment is taken back,
\* no membership unmade, and nothing comes between a checkout or settlement and its rows.
LEMMA TxStays ==
  ASSUME NEW t, TxKnows(t),
         \A m \in Memberships :
           /\ Settled(m) # {} => Settled(m)' # {}
           /\ membership[m].status # "none" => membership'[m].status # "none",
         t.op = "checkout" /\ t.row.status # "none" /\ ~ t.pending =>
           PendingOf(t.of)' = {} /\ ~ EndedUnpaid(t.of)',
         t.op = "settle" => t.paid.of \in Memberships /\ PaymentStays(t)
  PROVE  TxKnows(t)'
BY DEF TxKnows, CheckoutKnows, SettleKnows, OthersKnow, PaymentStays

\* The rows of the tables are as the invariant wants them, and so is what each
\* transaction that goes on has read.
LEMMA TxEnds ==
  ASSUME PaidInv, NEW s \in Sessions, End(s),
         \A u \in Sessions \ {s} : tx'[u] = tx[u] => TxKnows(tx[u])'
  PROVE  DOMAIN tx' = Sessions /\ Alone' /\ \A u \in Sessions : TxKnows(tx[u])'
<1>1. DOMAIN tx' = Sessions /\ \A u \in Sessions : tx'[u] = IF u = s THEN Idle ELSE tx[u]
  BY DEF PaidInv, Shaped, End
<1>2. TxKnows(tx[s])'
  BY <1>1 DEF TxKnows, CheckoutKnows, SettleKnows, OthersKnow, Idle
<1>3. Alone'
  BY <1>1 DEF PaidInv, Alone, Idle
<1>4. QED
  BY <1>1, <1>2, <1>3

\* The transaction of another session, as it stays.
LEMMA OthersStay ==
  ASSUME PaidInv, NEW u \in Sessions, tx'[u] = tx[u],
         \A m \in Memberships :
           /\ Settled(m) # {} => Settled(m)' # {}
           /\ membership[m].status # "none" => membership'[m].status # "none",
         tx[u].op = "checkout" /\ tx[u].row.status # "none" /\ ~ tx[u].pending =>
           \A m \in Memberships : m = tx[u].of => PendingOf(m)' = {} /\ ~ EndedUnpaid(m)',
         tx[u].op = "settle" => PaymentStays(tx[u])
  PROVE  TxKnows(tx[u])'
<1>1. PICK t : t = tx[u]
  OBVIOUS
<1>2. TxKnows(t)
  BY <1>1 DEF PaidInv
<1>3. t.op = "checkout" => t.of \in Memberships
  BY <1>2 DEF TxKnows, CheckoutKnows
<1>4. t.op = "settle" => t.paid.of \in Memberships
  BY <1>2 DEF TxKnows, SettleKnows, PaidInv, PaymentsHaveOne
<1>5. TxKnows(t)'
  BY <1>1, <1>2, <1>3, <1>4, TxStays
<1>6. QED
  BY <1>1, <1>5

\* A transaction goes on, or begins, having read the rows as they are.
LEMMA GoesOn ==
  ASSUME PaidInv, NEW s \in Sessions, NEW t, TxKnows(t), tx' = [tx EXCEPT ![s] = t],
         UNCHANGED <<membership, payment>>,
         t.op = "checkout" => \A u \in Sessions \ {s} : tx[u].op # "checkout"
  PROVE  PaidInv'
<1>1. DOMAIN tx' = Sessions /\ \A u \in Sessions : tx'[u] = IF u = s THEN t ELSE tx[u]
  BY DEF PaidInv, Shaped
<1>2. /\ Shaped' /\ PaymentsHaveOne' /\ OnePending' /\ UnpaidIsOver' /\ EntitledIsPaid'
  BY <1>1
     DEF PaidInv, Shaped, PaymentsHaveOne, OnePending, UnpaidIsOver, EndedUnpaid, EntitledIsPaid,
         Settled, PendingOf
<1>3. \A v : TxKnows(v) => TxKnows(v)'
  BY DEF TxKnows, CheckoutKnows, SettleKnows, OthersKnow, EndedUnpaid, Settled, PendingOf
<1>4. \A u \in Sessions : TxKnows(tx[u])'
  BY <1>1, <1>3 DEF PaidInv
<1>5. Alone'
  BY <1>1 DEF PaidInv, Alone
<1>6. QED
  BY <1>2, <1>4, <1>5 DEF PaidInv

LEMMA BeginKeeps ==
  ASSUME InTurn, PaidInv, NEW s \in Sessions, NEW t, Begin(s, t), TxKnows(t)
  PROVE  PaidInv'
<1>1. /\ tx' = [tx EXCEPT ![s] = t] /\ UNCHANGED <<membership, payment>>
      /\ \A u \in Sessions : tx[u] # Idle => {t.op, tx[u].op} \in Races
  BY DEF Begin, tables
<1>2. ASSUME t.op = "checkout", NEW u \in Sessions \ {s}, tx[u].op = "checkout"
      PROVE  FALSE
  <2>1. tx[u] # Idle
    BY <1>2 DEF Idle
  <2>2. {t.op, tx[u].op} = {"checkout"}
    BY <1>2
  <2>3. QED
    BY <1>1, <2>1, <2>2 DEF InTurn
<1>3. QED
  BY <1>1, <1>2, GoesOn

\* Which of the statuses may entitle, wait or be over, before any step.
LEMMA ReadsKnow ==
  ASSUME PaidInv
  PROVE  /\ \A s \in Sessions, u \in Users, plan \in Plans, coupon \in BOOLEAN :
              ReadCheckout(s, u, plan, coupon) => \E t : Begin(s, t) /\ TxKnows(t)
         /\ \A s \in Sessions, p \in Payments :
              ReadSettle(s, p) => \E t : Begin(s, t) /\ TxKnows(t)
         /\ \A s \in Sessions, u \in Users :
              ReadCancel(s, u) => \E t : Begin(s, t) /\ TxKnows(t)
         /\ \A s \in Sessions : ReadBatch(s) => \E t : Begin(s, t) /\ TxKnows(t)
<1>1. ASSUME NEW s \in Sessions, NEW u \in Users, NEW plan \in Plans, NEW coupon \in BOOLEAN,
             ReadCheckout(s, u, plan, coupon)
      PROVE  \E t : Begin(s, t) /\ TxKnows(t)
  <2>1. PICK m \in Candidates(u) :
          Begin(s, [op |-> "checkout", user |-> u, plan |-> plan, coupon |-> coupon,
                    of |-> m, row |-> membership[m], pending |-> PendingOf(m) # {},
                    used |-> redeemed, count |-> redemptions])
    BY <1>1 DEF ReadCheckout
  <2>2. m \in Memberships /\ membership[m].status # "expired"
    BY <2>1 DEF Candidates, Of, Live
  <2>3. TxKnows([op |-> "checkout", user |-> u, plan |-> plan, coupon |-> coupon,
                 of |-> m, row |-> membership[m], pending |-> PendingOf(m) # {},
                 used |-> redeemed, count |-> redemptions])
    BY <2>2
       DEF PaidInv, Shaped, TxKnows, CheckoutKnows, SettleKnows, OthersKnow, EndedUnpaid
  <2>4. QED
    BY <2>1, <2>3
<1>2. ASSUME NEW s \in Sessions, NEW p \in Payments, ReadSettle(s, p)
      PROVE  \E t : Begin(s, t) /\ TxKnows(t)
  <2>1. PICK told \in {"success", "mismatch", "failure"} :
          Begin(s, [op |-> "settle", pay |-> p, paid |-> payment[p], told |-> told, row |-> None])
    BY <1>2 DEF ReadSettle
  <2>2. payment[p].status = "pending"
    BY <1>2 DEF ReadSettle
  <2>3. TxKnows([op |-> "settle", pay |-> p, paid |-> payment[p], told |-> told, row |-> None])
    BY <2>2 DEF TxKnows, CheckoutKnows, SettleKnows, OthersKnow
  <2>4. QED
    BY <2>1, <2>3
<1>3. ASSUME NEW s \in Sessions, NEW u \in Users, ReadCancel(s, u)
      PROVE  \E t : Begin(s, t) /\ TxKnows(t)
  <2>1. PICK m \in Of(u, Entitled) :
          Begin(s, [op |-> "cancel", of |-> m, row |-> membership[m]])
    BY <1>3 DEF ReadCancel
  <2>2. TxKnows([op |-> "cancel", of |-> m, row |-> membership[m]])
    BY <2>1 DEF Of, PaidInv, Shaped, TxKnows, CheckoutKnows, SettleKnows, OthersKnow
  <2>3. QED
    BY <2>1, <2>2
<1>4. ASSUME NEW s \in Sessions, ReadBatch(s)
      PROVE  \E t : Begin(s, t) /\ TxKnows(t)
  <2>1. \A m \in Due : m \in Memberships /\ HasStatus(membership[m]) /\ Settled(m) # {}
    BY DEF Due, PaidInv, Shaped, EntitledIsPaid, Entitled
  <2>2. TxKnows([op |-> "batch", rows |-> [m \in Due |-> membership[m]], at |-> now])
    BY <2>1 DEF TxKnows, CheckoutKnows, SettleKnows, OthersKnow
  <2>3. QED
    BY <1>4, <2>2 DEF ReadBatch
<1>5. QED
  BY <1>1, <1>2, <1>3, <1>4

\* A settlement that reads the membership, which is in its trial or was paid before as
\* long as the payment is pending.
LEMMA MembershipIsRead ==
  ASSUME PaidInv, NEW s \in Sessions, ReadMembership(s)
  PROVE  PaidInv'
<1>1. PICK t, m, row : t = tx[s] /\ m = t.paid.of /\ row = membership[m]
  OBVIOUS
<1>2. t.op = "settle" /\ tx' = [tx EXCEPT ![s].row = row] /\ UNCHANGED <<membership, payment>>
  BY <1>1 DEF ReadMembership, tables
<1>3. SettleKnows(t)
  BY <1>1 DEF PaidInv, TxKnows
<1>4. PICK w : w = [t EXCEPT !.row = row]
  OBVIOUS
<1>5. /\ DOMAIN w = {"op", "pay", "paid", "told", "row"} /\ w.op = "settle" /\ w.row = row
      /\ w.pay = t.pay /\ w.paid = t.paid /\ w.told = t.told
  BY <1>2, <1>3, <1>4 DEF SettleKnows
<1>6. m \in Memberships /\ row.status # "none" /\ HasStatus(row)
  BY <1>1, <1>2, <1>3 DEF SettleKnows, PaidInv, PaymentsHaveOne, Shaped
<1>7. payment[t.pay].status = "pending" => row.status = "trialing" \/ Settled(m) # {}
  <2>1. payment[t.pay].status = "pending" => t.pay \in PendingOf(m)
    BY <1>1, <1>2, <1>3 DEF SettleKnows, PendingOf
  <2>2. QED
    BY <1>1, <1>6, <2>1
       DEF PaidInv, UnpaidIsOver, EndedUnpaid, EntitledIsPaid, Entitled, HasStatus, Statuses
<1>8. SettleKnows(w)
  BY <1>1, <1>2, <1>3, <1>5, <1>6, <1>7 DEF SettleKnows
<1>9. TxKnows(w)
  BY <1>5, <1>8 DEF TxKnows, CheckoutKnows, OthersKnow
<1>10. tx' = [tx EXCEPT ![s] = w]
  BY <1>1, <1>2, <1>4 DEF PaidInv, Shaped
<1>11. QED
  BY <1>2, <1>5, <1>9, <1>10, GoesOn

\* A step that leaves the payments: whose membership changes had paid, or begins a trial.
LEMMA PaidChange ==
  ASSUME PaidInv, NEW s \in Sessions, End(s), UNCHANGED payment,
         DOMAIN membership' = Memberships,
         \A m \in Memberships :
           /\ HasStatus(membership'[m])
           /\ membership[m].status # "none" => membership'[m].status # "none"
           /\ \/ membership'[m].status = membership[m].status
              \/ Settled(m) # {}
              \/ membership[m].status = "none" /\ membership'[m].status = "trialing"
  PROVE  PaidInv'
<1>1. \A m : Settled(m)' = Settled(m) /\ PendingOf(m)' = PendingOf(m)
  BY DEF Settled, PendingOf
<1>2. \A m \in Memberships : EndedUnpaid(m)' => EndedUnpaid(m)
  BY <1>1 DEF EndedUnpaid
<1>3. PaymentsHaveOne' /\ OnePending' /\ UnpaidIsOver' /\ EntitledIsPaid'
  <2>1. PaymentsHaveOne' /\ OnePending'
    BY DEF PaidInv, PaymentsHaveOne, OnePending
  <2>2. UnpaidIsOver'
    BY <1>1, <1>2 DEF PaidInv, UnpaidIsOver
  <2>3. EntitledIsPaid'
    BY <1>1 DEF PaidInv, EntitledIsPaid, Entitled
  <2>4. QED
    BY <2>1, <2>2, <2>3
<1>4. ASSUME NEW u \in Sessions \ {s}, tx'[u] = tx[u]
      PROVE  TxKnows(tx[u])'
  <2>1. CheckoutKnows(tx[u])
    BY DEF PaidInv, TxKnows
  <2>2. tx[u].op = "checkout" /\ tx[u].row.status # "none" /\ ~ tx[u].pending =>
           \A m \in Memberships : m = tx[u].of => PendingOf(m)' = {} /\ ~ EndedUnpaid(m)'
    BY <1>1, <1>2, <2>1 DEF CheckoutKnows
  <2>3. QED
    BY <1>1, <1>4, <2>2, OthersStay DEF PaymentStays
<1>5. DOMAIN tx' = Sessions /\ Alone' /\ \A u \in Sessions : TxKnows(tx[u])'
  BY <1>4, TxEnds
<1>6. QED
  BY <1>3, <1>5 DEF PaidInv, Shaped

\* What a checkout does to its membership.
LEMMA CheckoutWrites ==
  ASSUME PaidInv, NEW s \in Sessions, CommitCheckout(s)
  PROVE  /\ DOMAIN membership' = Memberships /\ tx[s].of \in Memberships
         /\ membership'[tx[s].of].status # "none"
         /\ \A m \in Memberships :
              /\ HasStatus(membership'[m])
              /\ \/ membership'[m].status = membership[m].status
                 \/ membership[m].status = "none" /\ membership'[m].status = "trialing"
         /\ tx[s].row.status = "none" => membership[tx[s].of].status = "none"
<1>1. PICK t : t = tx[s]
  OBVIOUS
<1>2. /\ t.op = "checkout"
      /\ t.row.status # "none" \/ membership[t.of].status = "none"
      /\ membership' = [membership EXCEPT ![t.of] = Written(t.row, Kept(t), @)]
  BY <1>1 DEF CommitCheckout, Reuses
<1>3. /\ t.of \in Memberships /\ HasStatus(t.row) /\ HasStatus(membership[t.of])
      /\ t.row.status # "none" => membership[t.of].status # "none"
  BY <1>1, <1>2 DEF PaidInv, TxKnows, CheckoutKnows, Shaped
<1>4. Kept(t).status = IF t.row.status # "none" THEN t.row.status ELSE "trialing"
  BY <1>3, StatusSet
<1>5. /\ HasStatus(Written(t.row, Kept(t), membership[t.of]))
      /\ Written(t.row, Kept(t), membership[t.of]).status =
           IF Kept(t).status = t.row.status THEN membership[t.of].status ELSE Kept(t).status
  BY <1>3, <1>4, StatusWritten DEF HasStatus, Statuses
<1>6. /\ DOMAIN membership' = Memberships
      /\ membership'[t.of] = Written(t.row, Kept(t), membership[t.of])
      /\ \A m \in Memberships \ {t.of} : membership'[m] = membership[m]
  BY <1>2, <1>3 DEF PaidInv, Shaped
<1>7. QED
  BY <1>1, <1>2, <1>3, <1>4, <1>5, <1>6 DEF PaidInv, Shaped

\* A checkout begins a trial or keeps a membership, with a payment if none is pending.
LEMMA CheckoutKeeps ==
  ASSUME PaidInv, NEW s \in Sessions, CommitCheckout(s)
  PROVE  PaidInv'
<1>1. PICK t : t = tx[s]
  OBVIOUS
<1>2. PICK m : m = t.of
  OBVIOUS
<1>3. /\ DOMAIN membership' = Memberships /\ m \in Memberships
      /\ membership'[m].status # "none"
      /\ \A n \in Memberships :
           /\ HasStatus(membership'[n])
           /\ \/ membership'[n].status = membership[n].status
              \/ membership[n].status = "none" /\ membership'[n].status = "trialing"
      /\ t.row.status = "none" => membership[m].status = "none"
  BY <1>1, <1>2, CheckoutWrites
<1>4. \A n \in Memberships : membership[n].status # "none" => membership'[n].status # "none"
  BY <1>3
<1>5. End(s) /\ t.op = "checkout"
  BY <1>1 DEF CommitCheckout
<1>6. CASE UNCHANGED payment
  BY <1>3, <1>4, <1>5, <1>6, PaidChange
<1>7. CASE ~ UNCHANGED payment
  <2>1. /\ ~ t.pending
        /\ \E p \in Payments :
             /\ payment[p].status = "none"
             /\ payment' = [payment EXCEPT
                  ![p] = [status |-> "pending", of |-> m, priced |-> t.plan]]
    BY <1>1, <1>2, <1>7 DEF CommitCheckout
  <2>2. PICK p \in Payments :
          /\ payment[p].status = "none"
          /\ payment' = [payment EXCEPT
               ![p] = [status |-> "pending", of |-> m, priced |-> t.plan]]
    BY <2>1
  <2>3. /\ payment'[p].status = "pending" /\ payment'[p].of = m
        /\ \A q \in Payments \ {p} : payment'[q] = payment[q]
    BY <2>2 DEF PaidInv, Shaped
  <2>4. PendingOf(m) = {} /\ ~ EndedUnpaid(m)
    <3>1. CASE t.row.status = "none"
      BY <1>3, <3>1 DEF PaidInv, PaymentsHaveOne, PendingOf, EndedUnpaid
    <3>2. CASE t.row.status # "none"
      BY <1>1, <1>2, <1>5, <2>1, <3>2 DEF PaidInv, TxKnows, CheckoutKnows
    <3>3. QED
      BY <3>1, <3>2
  <2>5. /\ \A n : Settled(n)' = Settled(n)
        /\ \A n : n # m => PendingOf(n)' = PendingOf(n)
    BY <2>2, <2>3 DEF Settled, PendingOf
  <2>6. \A n \in Memberships : EndedUnpaid(n)' => EndedUnpaid(n)
    BY <1>3, <2>5 DEF EndedUnpaid
  <2>7. PaymentsHaveOne' /\ OnePending'
    BY <1>3, <1>4, <2>3, <2>4 DEF PaidInv, PaymentsHaveOne, OnePending, PendingOf
  <2>8. UnpaidIsOver'
    BY <2>4, <2>5, <2>6 DEF PaidInv, UnpaidIsOver
  <2>9. EntitledIsPaid'
    BY <1>3, <2>5 DEF PaidInv, EntitledIsPaid, Entitled
  <2>10. ASSUME NEW u \in Sessions \ {s}, tx'[u] = tx[u]
         PROVE  TxKnows(tx[u])'
    <3>1. tx[u].op # "checkout"
      BY <1>1, <1>5 DEF PaidInv, Alone
    <3>2. tx[u].op = "settle" => PaymentStays(tx[u])
      BY <2>2, <2>3 DEF PaidInv, TxKnows, SettleKnows, PaymentStays
    <3>3. QED
      BY <1>4, <2>5, <2>10, <3>1, <3>2, OthersStay
  <2>11. DOMAIN tx' = Sessions /\ Alone' /\ \A u \in Sessions : TxKnows(tx[u])'
    BY <1>5, <2>10, TxEnds
  <2>12. payment' \in [Payments -> Payment]
    <3>1. t.plan \in Plans
      BY <1>1, <1>5 DEF PaidInv, TxKnows, CheckoutKnows
    <3>2. QED
      BY <1>3, <2>2, <3>1 DEF PaidInv, Shaped, Payment
  <2>13. QED
    BY <1>3, <2>7, <2>8, <2>9, <2>11, <2>12 DEF PaidInv, Shaped
<1>8. QED
  BY <1>6, <1>7

\* What a settlement does to its payment and its membership.
LEMMA SettleWrites ==
  ASSUME PaidInv, NEW s \in Sessions, CommitSettle(s)
  PROVE  \E p \in Payments, m \in Memberships :
           /\ tx[s].op = "settle" /\ tx[s].pay = p /\ payment[p].of = m /\ End(s)
           /\ DOMAIN membership' = Memberships
           /\ \A n \in Memberships \ {m} : membership'[n] = membership[n]
           /\ HasStatus(membership'[m])
           /\ membership[m].status # "none" => membership'[m].status # "none"
           /\ \/ /\ payment' = [payment EXCEPT ![p].status = "succeeded"]
                 /\ payment[p].status \in {"pending", "succeeded"} /\ tx[s].told = "success"
              \/ /\ payment' = [payment EXCEPT ![p].status = "failed"]
                 /\ payment[p].status = "pending" /\ tx[s].told # "success"
                 /\ \/ membership'[m].status \in {membership[m].status, "expired"}
                    \/ Settled(m) # {}
<1>1. PICK t, m : t = tx[s] /\ m = t.paid.of
  OBVIOUS
<1>2. /\ t.op = "settle" /\ End(s)
      /\ payment' = [payment EXCEPT
           ![t.pay].status = IF t.told = "success" THEN "succeeded" ELSE "failed"]
  BY <1>1 DEF CommitSettle
<1>3. SettleKnows(t)
  BY <1>1 DEF PaidInv, TxKnows
<1>4. /\ t.pay \in Payments /\ payment[t.pay].of = m /\ m \in Memberships
      /\ HasStatus(membership[m]) /\ DOMAIN membership = Memberships
  BY <1>1, <1>2, <1>3 DEF SettleKnows, PaidInv, PaymentsHaveOne, Shaped
<1>5. \A row : membership' = [membership EXCEPT ![m] = row] =>
        /\ DOMAIN membership' = Memberships /\ membership'[m] = row
        /\ \A n \in Memberships \ {m} : membership'[n] = membership[n]
  BY <1>4
<1>6. CASE t.told = "success" /\ t.row # None /\ Renews(t)
  <2>1. PICK row : row = Written(t.row, Renewed(t.row), membership[m])
    OBVIOUS
  <2>2. membership' = [membership EXCEPT ![m] = row]
    BY <1>1, <1>6, <2>1 DEF Renews
  <2>3. HasStatus(t.row)
    BY <1>2, <1>3, <1>6 DEF SettleKnows
  <2>4. Renewed(t.row).status = "active"
    BY <2>3, StatusSet
  <2>5. HasStatus(row) /\ row.status \in {membership[m].status, "active"}
    BY <1>4, <2>1, <2>4, StatusWritten DEF Statuses
  <2>6. payment[t.pay].status \in {"pending", "succeeded"}
    BY <1>2, <1>3 DEF SettleKnows
  <2>7. /\ DOMAIN membership' = Memberships /\ membership'[m] = row
        /\ \A n \in Memberships \ {m} : membership'[n] = membership[n]
    BY <1>5, <2>2
  <2>8. membership[m].status # "none" => row.status # "none"
    BY <2>5
  <2>9. payment' = [payment EXCEPT ![t.pay].status = "succeeded"]
    BY <1>2, <1>6
  <2>10. QED
    BY <1>1, <1>2, <1>4, <1>6, <2>5, <2>6, <2>7, <2>8, <2>9
<1>7. ASSUME t.told # "success"
      PROVE  /\ payment' = [payment EXCEPT ![t.pay].status = "failed"]
             /\ payment[t.pay].status = "pending"
  BY <1>2, <1>3, <1>7 DEF SettleKnows
<1>8. CASE t.told = "failure" /\ t.row # None /\ Lapses(t)
  <2>1. PICK row : row = Written(t.row, Lapsed(t.row), membership[m])
    OBVIOUS
  <2>2. membership' = [membership EXCEPT ![m] = row]
    BY <1>1, <1>8, <2>1 DEF Lapses
  <2>3. HasStatus(t.row) /\ (t.row.status = "trialing" \/ Settled(m) # {})
    BY <1>1, <1>2, <1>3, <1>8 DEF SettleKnows
  <2>4. Lapsed(t.row).status = IF t.row.status = "trialing" THEN "expired" ELSE "past_due"
    BY <2>3, StatusSet
  <2>5. HasStatus(row) /\ row.status \in {membership[m].status, Lapsed(t.row).status}
    BY <1>4, <2>1, <2>4, StatusWritten DEF Statuses
  <2>6. row.status \in {membership[m].status, "expired"} \/ Settled(m) # {}
    BY <2>3, <2>4, <2>5
  <2>7. /\ DOMAIN membership' = Memberships /\ membership'[m] = row
        /\ \A n \in Memberships \ {m} : membership'[n] = membership[n]
    BY <1>5, <2>2
  <2>8. membership[m].status # "none" => row.status # "none"
    BY <2>4, <2>5
  <2>9. QED
    BY <1>1, <1>2, <1>4, <1>7, <1>8, <2>5, <2>6, <2>7, <2>8
<1>9. CASE t.told = "mismatch" /\ UNCHANGED <<membership, anchor>>
  BY <1>1, <1>2, <1>4, <1>7, <1>9
<1>10. QED
  BY <1>1, <1>6, <1>8, <1>9 DEF CommitSettle

\* What succeeds entitles, once more or again; what fails ends a trial or lapses what was
\* paid before, and no other settlement of that payment is under way.
LEMMA SettleKeeps ==
  ASSUME PaidInv, SettledAlike, NEW s \in Sessions, CommitSettle(s)
  PROVE  PaidInv'
<1>1. PICK p \in Payments, m \in Memberships :
        /\ tx[s].op = "settle" /\ tx[s].pay = p /\ payment[p].of = m /\ End(s)
        /\ DOMAIN membership' = Memberships
        /\ \A n \in Memberships \ {m} : membership'[n] = membership[n]
        /\ HasStatus(membership'[m])
        /\ membership[m].status # "none" => membership'[m].status # "none"
        /\ \/ /\ payment' = [payment EXCEPT ![p].status = "succeeded"]
              /\ payment[p].status \in {"pending", "succeeded"} /\ tx[s].told = "success"
           \/ /\ payment' = [payment EXCEPT ![p].status = "failed"]
              /\ payment[p].status = "pending" /\ tx[s].told # "success"
              /\ \/ membership'[m].status \in {membership[m].status, "expired"}
                 \/ Settled(m) # {}
  BY SettleWrites
<1>2. /\ payment'[p].status = IF tx[s].told = "success" THEN "succeeded" ELSE "failed"
      /\ payment'[p].of = m
      /\ \A q \in Payments \ {p} : payment'[q] = payment[q]
      /\ payment' \in [Payments -> Payment]
  BY <1>1 DEF PaidInv, Shaped, Payment
<1>3. /\ \A n : PendingOf(n)' \subseteq PendingOf(n)
      /\ payment[p].status = "pending" => PendingOf(m)' = {} /\ p \in PendingOf(m)
  BY <1>1, <1>2 DEF PendingOf, PaidInv, OnePending
<1>4. /\ \A n : Settled(n) \subseteq Settled(n)'
      /\ \A n : n # m => Settled(n)' = Settled(n)
      /\ tx[s].told = "success" => Settled(m)' # {}
  BY <1>1, <1>2 DEF Settled
<1>5. \A n \in Memberships :
        /\ HasStatus(membership'[n])
        /\ membership[n].status # "none" => membership'[n].status # "none"
  BY <1>1 DEF PaidInv, Shaped
<1>6. PaymentsHaveOne' /\ OnePending'
  BY <1>1, <1>2, <1>5 DEF PaidInv, PaymentsHaveOne, OnePending
<1>7. EndedUnpaid(m)' => PendingOf(m)' = {}
  BY <1>1, <1>3, <1>4 DEF EndedUnpaid
<1>8. UnpaidIsOver'
  <2>1. \A n \in Memberships \ {m} : EndedUnpaid(n)' => EndedUnpaid(n)
    BY <1>1, <1>4 DEF EndedUnpaid
  <2>2. QED
    BY <1>3, <1>7, <2>1 DEF PaidInv, UnpaidIsOver
<1>9. EntitledIsPaid'
  <2>1. \A n \in Memberships \ {m} :
          membership'[n].status \in Entitled => Settled(n)' # {}
    BY <1>1, <1>4 DEF PaidInv, EntitledIsPaid
  <2>2. membership'[m].status \in Entitled => Settled(m)' # {}
    <3>1. CASE tx[s].told = "success"
      BY <1>4, <3>1
    <3>2. CASE \/ membership'[m].status \in {membership[m].status, "expired"}
               \/ Settled(m) # {}
      BY <1>4, <3>2 DEF PaidInv, EntitledIsPaid, Entitled
    <3>3. QED
      BY <1>1, <3>1, <3>2
  <2>3. QED
    BY <2>1, <2>2 DEF EntitledIsPaid
<1>10. ASSUME NEW u \in Sessions \ {s}, tx'[u] = tx[u]
       PROVE  TxKnows(tx[u])'
  <2>1. CheckoutKnows(tx[u]) /\ SettleKnows(tx[u])
    BY DEF PaidInv, TxKnows
  <2>2. tx[u].op = "settle" => PaymentStays(tx[u])
    <3>1. CASE tx[u].op = "settle" /\ tx[u].pay = p
      <4>1. tx[s].told = "success" /\ tx[u].told = "success"
        BY <1>1, <3>1 DEF SettledAlike
      <4>2. QED
        BY <1>1, <1>2, <3>1, <4>1 DEF PaymentStays
    <3>2. CASE tx[u].op = "settle" /\ tx[u].pay # p
      BY <1>2, <2>1, <3>2 DEF SettleKnows, PaymentStays
    <3>3. QED
      BY <3>1, <3>2
  <2>3. tx[u].op = "checkout" /\ tx[u].row.status # "none" /\ ~ tx[u].pending =>
           \A n \in Memberships : n = tx[u].of => PendingOf(n)' = {} /\ ~ EndedUnpaid(n)'
    <3>1. SUFFICES ASSUME tx[u].op = "checkout", tx[u].row.status # "none", ~ tx[u].pending,
                          NEW n \in Memberships, n = tx[u].of
                   PROVE  PendingOf(n)' = {} /\ ~ EndedUnpaid(n)'
      OBVIOUS
    <3>2. PendingOf(n) = {} /\ ~ EndedUnpaid(n)
      BY <2>1, <3>1 DEF CheckoutKnows
    <3>3. CASE n = m
      <4>1. tx[s].told = "success"
        BY <1>1, <1>3, <3>2, <3>3
      <4>2. QED
        BY <1>3, <1>4, <3>2, <3>3, <4>1 DEF EndedUnpaid
    <3>4. CASE n # m
      BY <1>1, <1>3, <1>4, <3>2, <3>4 DEF EndedUnpaid
    <3>5. QED
      BY <3>3, <3>4
  <2>4. QED
    BY <1>4, <1>5, <1>10, <2>2, <2>3, OthersStay
<1>11. DOMAIN tx' = Sessions /\ Alone' /\ \A u \in Sessions : TxKnows(tx[u])'
  BY <1>1, <1>10, TxEnds
<1>12. QED
  BY <1>1, <1>2, <1>5, <1>6, <1>8, <1>9, <1>11 DEF PaidInv, Shaped

\* Cancellations and the batch change only memberships that were paid.
LEMMA OthersKeep ==
  ASSUME PaidInv, NEW s \in Sessions, CommitCancel(s) \/ CommitBatch(s)
  PROVE  PaidInv'
<1>1. PICK t : t = tx[s]
  OBVIOUS
<1>2. OthersKnow(t) /\ \A m \in Memberships : HasStatus(membership[m])
  BY <1>1 DEF PaidInv, TxKnows, Shaped
<1>3. CASE CommitCancel(s)
  <2>1. /\ t.op = "cancel" /\ End(s) /\ UNCHANGED payment
        /\ membership' = [membership EXCEPT
             ![t.of] = Written(t.row, [t.row EXCEPT !.cancel = TRUE], @)]
    BY <1>1, <1>3 DEF CommitCancel
  <2>2. t.of \in Memberships /\ HasStatus(t.row) /\ HasStatus(membership[t.of])
    BY <1>2, <2>1 DEF OthersKnow
  <2>3. [t.row EXCEPT !.cancel = TRUE].status = t.row.status
    BY <2>2, StatusSet
  <2>4. /\ HasStatus(Written(t.row, [t.row EXCEPT !.cancel = TRUE], membership[t.of]))
        /\ Written(t.row, [t.row EXCEPT !.cancel = TRUE], membership[t.of]).status =
             membership[t.of].status
    BY <2>2, <2>3, StatusWritten DEF HasStatus
  <2>5. /\ DOMAIN membership' = Memberships
        /\ \A m \in Memberships : HasStatus(membership'[m])
                                  /\ membership'[m].status = membership[m].status
    BY <1>2, <2>1, <2>2, <2>4 DEF PaidInv, Shaped
  <2>6. QED
    BY <2>1, <2>5, PaidChange
<1>4. CASE CommitBatch(s)
  <2>1. /\ t.op = "batch" /\ End(s) /\ UNCHANGED payment
        /\ membership' = [m \in Memberships |-> IF m \in DOMAIN t.rows
             THEN Written(t.rows[m], Overdue(t.rows[m], t.at), membership[m])
             ELSE membership[m]]
    BY <1>1, <1>4 DEF CommitBatch
  <2>2. ASSUME NEW m \in DOMAIN t.rows
        PROVE  /\ m \in Memberships /\ Settled(m) # {}
               /\ HasStatus(membership'[m])
               /\ membership[m].status # "none" => membership'[m].status # "none"
    <3>1. m \in Memberships /\ HasStatus(t.rows[m]) /\ Settled(m) # {}
      BY <1>2, <2>1 DEF OthersKnow
    <3>2. Overdue(t.rows[m], t.at).status \in {"past_due", "expired"}
      <4>1. PICK v : v = [row |-> t.rows[m]]
        OBVIOUS
      <4>2. QED
        BY <3>1, <4>1, StatusSet
    <3>3. /\ HasStatus(Written(t.rows[m], Overdue(t.rows[m], t.at), membership[m]))
          /\ Written(t.rows[m], Overdue(t.rows[m], t.at), membership[m]).status
               \in {membership[m].status, "past_due", "expired"}
      BY <1>2, <3>1, <3>2, StatusWritten DEF Statuses
    <3>4. QED
      BY <2>1, <3>1, <3>3
  <2>3. \A m \in Memberships : m \notin DOMAIN t.rows => membership'[m] = membership[m]
    BY <2>1
  <2>4. QED
    BY <1>2, <2>1, <2>2, <2>3, PaidChange
<1>5. QED
  BY <1>3, <1>4

\* Every step keeps the invariant.
LEMMA PaidNext ==
  ASSUME InTurn, PaidInv, SettledAlike, [Next]_vars
  PROVE  PaidInv'
<1>1. CASE UNCHANGED <<membership, payment, tx>>
  BY <1>1
     DEF PaidInv, Shaped, PaymentsHaveOne, OnePending, UnpaidIsOver, EndedUnpaid, EntitledIsPaid,
         Alone, TxKnows, CheckoutKnows, SettleKnows, OthersKnow, Settled, PendingOf
<1>2. ASSUME NEW s \in Sessions, Abort(s)
      PROVE  PaidInv'
  BY <1>2, PaidChange DEF Abort, tables, PaidInv, Shaped
<1>3. ASSUME NEW s \in Sessions, Commit(s)
      PROVE  PaidInv'
  BY <1>3, CheckoutKeeps, SettleKeeps, OthersKeep DEF Commit
<1>4. ASSUME NEW s \in Sessions,
             \/ \E u \in Users, plan \in Plans, coupon \in BOOLEAN : ReadCheckout(s, u, plan, coupon)
             \/ \E p \in Payments : ReadSettle(s, p)
             \/ \E u \in Users : ReadCancel(s, u)
             \/ ReadBatch(s)
      PROVE  PaidInv'
  BY <1>4, ReadsKnow, BeginKeeps
<1>5. QED
  BY <1>1, <1>2, <1>3, <1>4, MembershipIsRead DEF Next, Tick, vars, tables

\* Nothing is asked for yet.
LEMMA InitPaid ==
  ASSUME Init
  PROVE  PaidInv
BY DEF Init, Idle, PaidInv, Shaped, HasStatus, Statuses, Payment, PaymentsHaveOne, OnePending,
       UnpaidIsOver, EndedUnpaid, EntitledIsPaid, Entitled, Alone, TxKnows, CheckoutKnows,
       SettleKnows, OthersKnow

\* Nobody is entitled to anything who has not paid, whatever notices, reconciliations,
\* cancellations, batches and a checkout overlap, if checkouts come one at a time and no
\* failure is settled beside another notice of its payment.
THEOREM OnlyPaidAreEntitled ==
  ASSUME InTurn
  PROVE  Spec /\ []SettledAlike => []EntitledIsPaid
<1>1. Init => PaidInv
  BY InitPaid
<1>2. PaidInv /\ SettledAlike /\ [Next]_vars => PaidInv'
  BY PaidNext
<1>3. PaidInv => EntitledIsPaid
  BY DEF PaidInv
<1>4. QED
  BY <1>1, <1>2, <1>3, PTL DEF Spec

(***************************************************************************)
(* The coupon                                                              *)
(***************************************************************************)

\* A checkout has read a count that the uses there are still cover.
UseInv ==
  /\ IsFiniteSet(redeemed) /\ redemptions \in Nat /\ NothingOvercounted
  /\ DOMAIN tx = Sessions
  /\ \A s \in Sessions :
       /\ "op" \in DOMAIN tx[s]
       /\ tx[s].op = "checkout" => tx[s].count \in Nat /\ tx[s].count <= Cardinality(redeemed)

\* A transaction begins, goes on or ends without using the coupon.
LEMMA CouponRests ==
  ASSUME UseInv, NEW s \in Sessions, NEW t, tx' = [tx EXCEPT ![s] = t],
         UNCHANGED <<redeemed, redemptions>>, "op" \in DOMAIN t,
         t.op = "checkout" => t.count = redemptions
  PROVE  UseInv'
BY DEF UseInv, NothingOvercounted

\* One use more, and at most one counted more than was read.
LEMMA CouponIsUsed ==
  ASSUME UseInv, NEW s \in Sessions, CommitCheckout(s), ~ UNCHANGED <<redeemed, redemptions>>
  PROVE  UseInv'
<1>1. PICK t : t = tx[s]
  OBVIOUS
<1>2. /\ t.op = "checkout" /\ End(s) /\ t.user \notin redeemed
      /\ redeemed' = redeemed \cup {t.user} /\ redemptions' = t.count + 1
  BY <1>1 DEF CommitCheckout, Redeem
<1>3. /\ IsFiniteSet(redeemed) /\ Cardinality(redeemed) \in Nat
      /\ IsFiniteSet(redeemed') /\ Cardinality(redeemed') = Cardinality(redeemed) + 1
  BY <1>2, FS_CardinalityType, FS_AddElement DEF UseInv
<1>4. t.count \in Nat /\ t.count <= Cardinality(redeemed)
  BY <1>1, <1>2 DEF UseInv
<1>5. /\ DOMAIN tx' = Sessions
      /\ \A u \in Sessions : tx'[u] = IF u = s THEN Idle ELSE tx[u]
  BY <1>2 DEF UseInv, End
<1>6. redemptions' \in Nat /\ NothingOvercounted'
  BY <1>2, <1>3, <1>4 DEF NothingOvercounted
<1>7. ASSUME NEW u \in Sessions
      PROVE  /\ "op" \in DOMAIN tx'[u]
             /\ tx'[u].op = "checkout" =>
                  tx'[u].count \in Nat /\ tx'[u].count <= Cardinality(redeemed')
  <2>1. CASE u = s
    BY <1>5, <2>1 DEF Idle
  <2>2. CASE u # s
    BY <1>3, <1>5, <2>2 DEF UseInv
  <2>3. QED
    BY <2>1, <2>2
<1>8. QED
  BY <1>3, <1>5, <1>6, <1>7 DEF UseInv

\* Every step keeps it, whatever overlaps.
LEMMA CouponNext ==
  ASSUME UseInv, [Next]_vars
  PROVE  UseInv'
<1>1. CASE UNCHANGED <<redeemed, redemptions, tx>>
  BY <1>1 DEF UseInv, NothingOvercounted
<1>2. "op" \in DOMAIN Idle /\ Idle.op # "checkout"
  BY DEF Idle
<1>3. ASSUME NEW s \in Sessions, Commit(s) \/ Abort(s)
      PROVE  UseInv'
  <2>1. End(s)
    BY <1>3 DEF Commit, CommitCheckout, CommitSettle, CommitCancel, CommitBatch, Abort
  <2>2. CASE UNCHANGED <<redeemed, redemptions>>
    BY <1>2, <2>1, <2>2, CouponRests DEF End
  <2>3. CASE CommitCheckout(s) /\ ~ UNCHANGED <<redeemed, redemptions>>
    BY <2>3, CouponIsUsed
  <2>4. QED
    BY <1>3, <2>2, <2>3
    DEF Commit, CommitSettle, CommitCancel, CommitBatch, Abort, tables
<1>4. ASSUME NEW s \in Sessions, NEW t, Begin(s, t), "op" \in DOMAIN t,
             t.op = "checkout" => t.count = redemptions
      PROVE  UseInv'
  BY <1>4, CouponRests DEF Begin, tables
<1>5. ASSUME NEW s \in Sessions, NEW u \in Users, NEW p \in Plans, NEW coupon \in BOOLEAN,
             ReadCheckout(s, u, p, coupon)
      PROVE  UseInv'
  <2>1. PICK m, t :
          /\ t = [op |-> "checkout", user |-> u, plan |-> p, coupon |-> coupon,
                  of |-> m, row |-> membership[m], pending |-> PendingOf(m) # {},
                  used |-> redeemed, count |-> redemptions]
          /\ Begin(s, t)
    BY <1>5 DEF ReadCheckout
  <2>2. "op" \in DOMAIN t /\ t.count = redemptions
    BY <2>1
  <2>3. QED
    BY <1>4, <2>1, <2>2
<1>6. ASSUME NEW s \in Sessions, NEW p \in Payments, ReadSettle(s, p)
      PROVE  UseInv'
  <2>1. PICK told, t :
          /\ t = [op |-> "settle", pay |-> p, paid |-> payment[p], told |-> told, row |-> None]
          /\ Begin(s, t)
    BY <1>6 DEF ReadSettle
  <2>2. "op" \in DOMAIN t /\ t.op # "checkout"
    BY <2>1
  <2>3. QED
    BY <1>4, <2>1, <2>2
<1>7. ASSUME NEW s \in Sessions, NEW u \in Users, ReadCancel(s, u)
      PROVE  UseInv'
  <2>1. PICK m, t : t = [op |-> "cancel", of |-> m, row |-> membership[m]] /\ Begin(s, t)
    BY <1>7 DEF ReadCancel
  <2>2. "op" \in DOMAIN t /\ t.op # "checkout"
    BY <2>1
  <2>3. QED
    BY <1>4, <2>1, <2>2
<1>8. ASSUME NEW s \in Sessions, ReadBatch(s)
      PROVE  UseInv'
  <2>1. PICK t : t = [op |-> "batch", rows |-> [m \in Due |-> membership[m]], at |-> now]
                 /\ Begin(s, t)
    BY <1>8 DEF ReadBatch
  <2>2. "op" \in DOMAIN t /\ t.op # "checkout"
    BY <2>1
  <2>3. QED
    BY <1>4, <2>1, <2>2
<1>9. ASSUME NEW s \in Sessions, ReadMembership(s)
      PROVE  UseInv'
  <2>1. PICK t, row : t = tx[s] /\ row = membership[t.paid.of]
    OBVIOUS
  <2>2. PICK w : w = [t EXCEPT !.row = row]
    OBVIOUS
  <2>3. /\ t.op = "settle" /\ tx' = [tx EXCEPT ![s] = w] /\ UNCHANGED <<redeemed, redemptions>>
    BY <1>9, <2>1, <2>2 DEF ReadMembership, tables, UseInv
  <2>4. "op" \in DOMAIN w /\ w.op # "checkout"
    BY <2>1, <2>2, <2>3 DEF UseInv
  <2>5. QED
    BY <2>3, <2>4, CouponRests
<1>10. QED
  BY <1>1, <1>3, <1>5, <1>6, <1>7, <1>8, <1>9 DEF Next, Tick, vars, tables

\* The counter of a coupon never runs ahead of the users who used it, so that its limit
\* refuses nobody early, whatever checkouts overlap or are lost.
THEOREM CouponNeverOvercounted == Spec => []NothingOvercounted
<1>1. Init => UseInv
  BY FS_EmptySet DEF Init, Idle, UseInv, NothingOvercounted
<1>2. UseInv /\ [Next]_vars => UseInv'
  BY CouponNext
<1>3. UseInv => NothingOvercounted
  BY DEF UseInv
<1>4. QED
  BY <1>1, <1>2, <1>3, PTL DEF Spec
=============================================================================
