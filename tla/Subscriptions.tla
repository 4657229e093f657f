--------------------------- MODULE Subscriptions ---------------------------
(***************************************************************************)
(* Memberships, their payments and a coupon: app/services/subscriptions.py *)
(* and coupons.py, with the branch of payments/service.py that settles the *)
(* payment of a membership.                                                *)
(*                                                                         *)
(* Requests, webhook deliveries and runs of process_subscriptions are      *)
(* transactions that read their rows, then write them when they commit.  A *)
(* column is written only if it is set to another value than the one read  *)
(* (Emit).  A settlement reads its payment first and the membership later. *)
(* A plan is known by the length of its period; the grace period, like the *)
(* periods, is counted in ticks of the clock.                              *)
(***************************************************************************)
EXTENDS Integers, FiniteSets

CONSTANTS
  Users, Memberships, Payments, Sessions,
  None,
  Plans,          \* the lengths of the plans' periods
  GraceDays,      \* subscription_grace_period_days
  MaxRedemptions, \* of the one coupon
  Horizon,        \* bound: the clock stops here
  Races           \* sets of operations that may be under way together

VARIABLES
  membership,   \* the table subscriptions
  payment,      \* the payments of memberships
  redeemed,     \* the users with a row in coupon_redemptions
  redemptions,  \* coupons.redemption_count
  now,
  tx,
  anchor        \* history: when each membership was first activated

tables == <<membership, payment, redeemed, redemptions>>
vars == <<membership, payment, redeemed, redemptions, now, tx, anchor>>

-----------------------------------------------------------------------------
(* Tables *)

Membership == [status : {"none", "trialing", "active", "past_due", "expired"},
               user : Users \cup {None}, plan : Plans \cup {None},
               end : Nat, grace : Nat \cup {None}, cancel : BOOLEAN]

Payment == [status : {"none", "pending", "succeeded", "failed"},
            of : Memberships \cup {None}, priced : Plans \cup {None}]

Live == {"trialing", "active", "past_due"}
Entitled == {"active", "past_due"}

Of(u, statuses) == {m \in Memberships : membership[m].user = u /\ membership[m].status \in statuses}

PendingOf(m) == {p \in Payments : payment[p].of = m /\ payment[p].status = "pending"}

Settled(m) == {p \in Payments : payment[p].of = m /\ payment[p].status = "succeeded"}

Emit(seen, new, stored) == IF new = seen THEN stored ELSE new

\* The stored row after a session that read row has made it next.
Written(row, next, stored) == [f \in DOMAIN stored |-> Emit(row[f], next[f], stored[f])]

Idle == [op |-> "none"]

Init ==
  /\ membership = [m \in Memberships |-> [status |-> "none", user |-> None, plan |-> None,
                                          end |-> 0, grace |-> None, cancel |-> FALSE]]
  /\ payment = [p \in Payments |-> [status |-> "none", of |-> None, priced |-> None]]
  /\ redeemed = {} /\ redemptions = 0
  /\ now = 0
  /\ tx = [s \in Sessions |-> Idle]
  /\ anchor = [m \in Memberships |-> None]

Begin(s, t) ==
  /\ tx[s] = Idle
  /\ \A u \in Sessions : tx[u] # Idle => {t.op, tx[u].op} \in Races
  /\ tx' = [tx EXCEPT ![s] = t]
  /\ UNCHANGED <<tables, now, anchor>>

End(s) == tx' = [tx EXCEPT ![s] = Idle]

-----------------------------------------------------------------------------
(* Checkout *)

\* Memberships to reuse: the first that is live, in no stated order, or else a new one.
Candidates(u) == IF Of(u, Live) # {} THEN Of(u, Live)
                 ELSE {m \in Memberships : membership[m].status = "none"}

ReadCheckout(s, u, plan, coupon) ==
  \E m \in Candidates(u) :
    Begin(s, [op |-> "checkout", user |-> u, plan |-> plan, coupon |-> coupon,
              of |-> m, row |-> membership[m], pending |-> PendingOf(m) # {},
              used |-> redeemed, count |-> redemptions])

\* price_coupon: the limit, and the user's earlier use, as they were read.
Redeemable(t) == t.count < MaxRedemptions /\ t.user \notin t.used

Reuses(t) == t.row.status # "none"

\* _get_or_create_pending_subscription: a membership that is reused changes its plan here.
Kept(t) ==
  IF Reuses(t) THEN [t.row EXCEPT !.plan = t.plan]
  ELSE [t.row EXCEPT !.status = "trialing", !.user = t.user, !.plan = t.plan,
                     !.end = now + t.plan]

\* Variant: the redemption is not counted.
RedeemUncounted(t) ==
  IF t.coupon
  THEN /\ Redeemable(t) /\ t.user \notin redeemed
       /\ redeemed' = redeemed \cup {t.user}
       /\ UNCHANGED redemptions
  ELSE UNCHANGED <<redeemed, redemptions>>

\* The unique key of coupon_redemptions refuses what the read did not see.
Redeem(t) ==
  IF t.coupon
  THEN /\ Redeemable(t) /\ t.user \notin redeemed
       /\ redeemed' = redeemed \cup {t.user}
       /\ redemptions' = t.count + 1
  ELSE UNCHANGED <<redeemed, redemptions>>

\* A membership with a pending payment gets that payment back, whatever plan it is for.
CommitCheckout(s) ==
  LET t == tx[s] IN
  /\ t.op = "checkout"
  /\ Reuses(t) \/ membership[t.of].status = "none"
  /\ membership' = [membership EXCEPT ![t.of] = Written(t.row, Kept(t), @)]
  /\ IF t.pending
     THEN UNCHANGED <<payment, redeemed, redemptions>>
     ELSE /\ \E p \in Payments :
               /\ payment[p].status = "none"
               /\ payment' = [payment EXCEPT
                    ![p] = [status |-> "pending", of |-> t.of, priced |-> t.plan]]
          /\ Redeem(t)
  /\ End(s)
  /\ UNCHANGED <<now, anchor>>

-----------------------------------------------------------------------------
(* Settlement *)

\* _settle_payment finds the payment and is done unless it is pending.  The ledger of
\* notices keeps out the same notice twice, but not two notices of one payment (authorized
\* and captured, failed and captured), nor reconciliation beside a notice.
ReadSettle(s, p) ==
  /\ payment[p].status = "pending"
  /\ \E told \in {"success", "mismatch", "failure"} :
       Begin(s, [op |-> "settle", pay |-> p, paid |-> payment[p], told |-> told, row |-> None])

\* The membership is read once the payment is written, unless the amount is wrong.
ReadMembership(s) ==
  LET t == tx[s] IN
  /\ t.op = "settle" /\ t.told # "mismatch" /\ t.row = None
  /\ tx' = [tx EXCEPT ![s].row = membership[t.paid.of]]
  /\ UNCHANGED <<tables, now, anchor>>

\* Variant: a renewal starts when it is paid.
RenewedFromNow(row) ==
  [row EXCEPT !.status = "active", !.end = now + row.plan, !.grace = None, !.cancel = FALSE]

\* activate_or_renew_subscription
Renewed(row) ==
  [row EXCEPT !.status = "active", !.grace = None, !.cancel = FALSE,
              !.end = row.plan + IF row.status = "trialing" THEN now ELSE row.end]

\* Variant: a first payment that fails is given a grace period as well.
LapsedWithGrace(row) == [row EXCEPT !.status = "past_due", !.grace = now + GraceDays]

\* handle_failed_subscription_payment
Lapsed(row) ==
  IF row.status = "trialing" THEN [row EXCEPT !.status = "expired"]
  ELSE [row EXCEPT !.status = "past_due", !.grace = now + GraceDays]

\* What each settlement leaves of its membership and of the day it was first activated.
Renews(t) ==
  /\ membership' = [membership EXCEPT ![t.paid.of] = Written(t.row, Renewed(t.row), @)]
  /\ anchor' = IF t.row.status = "trialing" THEN [anchor EXCEPT ![t.paid.of] = now] ELSE anchor

Lapses(t) ==
  /\ membership' = [membership EXCEPT ![t.paid.of] = Written(t.row, Lapsed(t.row), @)]
  /\ UNCHANGED anchor

CommitSettle(s) ==
  LET t == tx[s] IN
  /\ t.op = "settle"
  /\ payment' = [payment EXCEPT
       ![t.pay].status = IF t.told = "success" THEN "succeeded" ELSE "failed"]
  /\ \/ t.told = "success" /\ t.row # None /\ Renews(t)
     \/ t.told = "failure" /\ t.row # None /\ Lapses(t)
     \/ t.told = "mismatch" /\ UNCHANGED <<membership, anchor>>
  /\ End(s)
  /\ UNCHANGED <<redeemed, redemptions, now>>

-----------------------------------------------------------------------------
(* Cancellation and the batch *)

ReadCancel(s, u) ==
  \E m \in Of(u, Entitled) :
    /\ \A n \in Of(u, Entitled) : membership[n].end <= membership[m].end
    /\ Begin(s, [op |-> "cancel", of |-> m, row |-> membership[m]])

CommitCancel(s) ==
  LET t == tx[s] IN
  /\ t.op = "cancel"
  /\ membership' = [membership EXCEPT
       ![t.of] = Written(t.row, [t.row EXCEPT !.cancel = TRUE], @)]
  /\ End(s)
  /\ UNCHANGED <<payment, redeemed, redemptions, now, anchor>>

\* Variant: the grace period is not looked for.
DueUngraced == {m \in Memberships : membership[m].status = "active" /\ membership[m].end <= now}

\* The two queries of process_due_subscriptions.
Due ==
  {m \in Memberships :
     \/ membership[m].status = "active" /\ membership[m].end <= now
     \/ /\ membership[m].status = "past_due" /\ membership[m].grace # None
        /\ membership[m].grace <= now}

ReadBatch(s) ==
  /\ Due # {}
  /\ Begin(s, [op |-> "batch", rows |-> [m \in Due |-> membership[m]], at |-> now])

Overdue(row, at) ==
  IF row.status = "active" /\ ~row.cancel
  THEN [row EXCEPT !.status = "past_due", !.grace = at + GraceDays]
  ELSE [row EXCEPT !.status = "expired"]

CommitBatch(s) ==
  LET t == tx[s] IN
  /\ t.op = "batch"
  /\ membership' = [m \in Memberships |-> IF m \in DOMAIN t.rows
       THEN Written(t.rows[m], Overdue(t.rows[m], t.at), membership[m]) ELSE membership[m]]
  /\ End(s)
  /\ UNCHANGED <<payment, redeemed, redemptions, now, anchor>>

\* Refused (a coupon that may not be used), a dry run,
\* or the process is lost before its commit.
Abort(s) ==
  /\ tx[s] # Idle
  /\ End(s)
  /\ UNCHANGED <<tables, now, anchor>>

Tick ==
  /\ now < Horizon
  /\ now' = now + 1
  /\ UNCHANGED <<tables, tx, anchor>>

Commit(s) == CommitCheckout(s) \/ CommitSettle(s) \/ CommitCancel(s) \/ CommitBatch(s)

Next ==
  \/ \E s \in Sessions :
       \/ \E u \in Users, plan \in Plans, coupon \in BOOLEAN : ReadCheckout(s, u, plan, coupon)
       \/ (\E p \in Payments : ReadSettle(s, p)) \/ ReadMembership(s)
       \/ \E u \in Users : ReadCancel(s, u)
       \/ ReadBatch(s)
       \/ Commit(s) \/ Abort(s)
  \/ Tick

Spec == Init /\ [][Next]_vars

\* The command is run again and again and is not killed every time; time passes.
Fairness ==
  /\ WF_vars(Tick)
  /\ SF_vars(\E s \in Sessions : ReadBatch(s))
  /\ \A s \in Sessions : SF_vars(CommitBatch(s)) /\ WF_vars(ReadMembership(s) \/ Commit(s) \/ Abort(s))

FairSpec == Spec /\ Fairness

-----------------------------------------------------------------------------
(* Properties *)

TypeOK ==
  /\ membership \in [Memberships -> Membership]
  /\ payment \in [Payments -> Payment]
  /\ redeemed \subseteq Users /\ redemptions \in Nat
  /\ now \in 0..Horizon
  /\ anchor \in [Memberships -> Nat \cup {None}]

\* Settlements of one payment that are under way together were all told of a success: one
\* that fails beside another overwrites what it did, or fails an unpaid membership twice.
SettledAlike ==
  \A s, u \in Sessions :
    tx[s].op = "settle" /\ tx[u].op = "settle" /\ s # u /\ tx[s].pay = tx[u].pay =>
      tx[s].told = "success"

\* Nobody is entitled to anything who has not paid, whatever notices, reconciliations,
\* batches, cancellations and a checkout run side by side, if settlements of one payment
\* are alike and checkouts of one user come one at a time.
EntitledIsPaid ==
  \A m \in Memberships : membership[m].status \in Entitled => Settled(m) # {}

\* The grace period protects a membership that runs (docs/subscriptions-and-entitlements.md,
\* "Failed renewal"): who is past due was active before.
GraceIsForMembers ==
  \A m \in Memberships :
    membership[m].status # "past_due" /\ membership'[m].status = "past_due" =>
      membership[m].status = "active"

\* Renewals never shift the billing date: a membership that was activated ends as
\* many periods after that as payments have succeeded (with one plan for all).
AnchorKept ==
  \A m \in Memberships : anchor[m] # None =>
    membership[m].end = anchor[m] + membership[m].plan * Cardinality(Settled(m))

\* One after the other, the coupon is used by as many users as its counter says, and its
\* limit allows.
CouponCounted ==
  redemptions = Cardinality(redeemed) /\ redemptions <= MaxRedemptions

\* Whatever checkouts overlap or are lost, no use is counted that was not made, so that the
\* limit refuses nobody early (increments may be lost: the counter is read, then written).
NothingOvercounted == redemptions <= Cardinality(redeemed)

\* A membership that entitles was paid for, renewals keep the billing date, and
\* coupons are redeemed as often as is counted, one request at a time.
MembershipsArePaid == EntitledIsPaid /\ AnchorKept /\ CouponCounted

\* Nobody stays entitled for nothing: a membership whose period is over is renewed,
\* or given its grace period, and ends with that.
Overstays(m) ==
  /\ membership[m].status \in Entitled /\ membership[m].end <= now
  /\ membership[m].status = "past_due" =>
       membership[m].grace = None \/ membership[m].grace <= now

LapsedIsNoticed == \A m \in Memberships : Overstays(m) ~> ~Overstays(m)

\* A membership gives what was paid for: entitlements follow a plan only once a
\* payment for it has succeeded.
PlanIsPaid ==
  \A m \in Memberships : membership[m].status \in Entitled =>
    \E p \in Settled(m) : payment[p].priced = membership[m].plan
=============================================================================
