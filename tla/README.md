# MehndiVerse in TLA+

MehndiVerse is a marketplace between customers and mehndi artists. All state is
kept by one FastAPI service (`apps/api`) in PostgreSQL; the web, admin and
mobile clients call its HTTP endpoints, a payment provider (Razorpay) calls its
webhook, and operators run a few command-line jobs. This directory holds TLA+
models of that service, TLC configurations that check them, and TLAPS proofs.

Paths below are relative to `apps/api/app`, documents to the repository.

## 1. Inventory

Every request has one SQLAlchemy session of its own (`db/session.py`): it reads
rows when it first needs them, decides on those copies, and writes the columns
it changed when it commits. PostgreSQL runs at its default isolation, READ
COMMITTED, no row carries a version, and rows are locked in two places only: the
artist's calendar (`services/booking.py::_lock_artist_calendar`) and the claim
of background jobs (`services/ai/jobs.py::claim_due_jobs`). So most of what is
hard in this code is what two requests do to rows both have read.

| Component | State | Operations | What is hard | What makes it correct |
|---|---|---|---|---|
| Booking lifecycle: `services/booking.py`, `db/enums.py`, `routes/bookings.py`, `artist_bookings.py`, `admin_bookings.py` | booking, its quotes, audit rows; the row lock of the artist | create, edit, submit, review, quote, accept, reject, cancel, reschedule, dispute, resolve, settle the deposit | stale reads, the calendar lock, time ranges | no double booking; only open time; one quote decides; audit trail and status agree; terminal stays terminal |
| Payments: `services/payments/*`, `routes/payments.py`, `payment_webhooks.py`, `admin_payments.py`, `cli/reconcile_payments.py` | payments, refunds, earnings, payouts, the webhook ledger; the provider's orders | create order, webhook, reconcile, request/approve/reject refund, payout batch | duplicated and reordered webhooks, reconciliation racing them, a crash between a provider call and its commit | a payment is credited once, for an amount the provider accepted; never refund more than was paid; an earning is paid out once |
| Subscriptions, coupons, quotas: `services/subscriptions.py`, `coupons.py`, `entitlements.py`, `cli/process_subscriptions.py` | subscription, its history, redemptions and their counter, monthly usage counters | checkout, activate/renew, fail, cancel, expire; redeem; count usage | plan changed before it is paid, lost counter updates | entitlement only for who has paid; nothing counted that was not used |
| AI jobs: `services/ai/jobs.py`, `cli/process_ai_jobs.py`, `services/ai/design_generation.py` | jobs, generations, design requests; the workers' claims | enqueue, claim, complete, fail, requeue; request, retry, review, share, delete | a worker slower than the stuck threshold, a crash in a job, backoff | a job ends, within its attempts; a result is not undone; the user sees where the request stands |
| AI capabilities: `services/ai/tagging.py`, `embeddings.py`, `duplicates.py`, `moderation.py`, `review.py` | embeddings, suggestions, matches | run, detect, decide | two runs of one design, an image that changed meanwhile, two designs embedded at once | no duplicate is missed; a person's decision stands |
| Resilience: `core/resilience.py` | per-process circuit breakers | call, retry | concurrent half-open trials, retrying what has arrived | opens after repeated failures, tries with one call, recovers; a call is not sent twice |
| Scheduling: `services/scheduling.py`, `routes/artist_scheduling.py` | availability rules and blocks | edit rules and blocks, compute free slots | interval arithmetic, overlap checks that are out of date | an offered slot is free and can be booked |
| Engagement: `services/engagement.py`, `routes/collections.py`; audience: `artist_directory.py`, `view_tracking.py` | likes, collections, follows, Redis keys, counters | like, unlike, save, move, delete; follow; view | counters beside unique rows, waits for other transactions' keys | counters of likes, saves and followers equal rows, views are not counted twice; one default collection |
| Reviews: `services/reviews.py` | reviews, aggregate ratings | create, moderate | an aggregate computed from what was committed | the rating is repaired by whoever runs alone |
| Comments, reports, blocking: `services/comments.py`, `reports.py` | comments, reports | write, reply, report, decide | insert races, evidence that changes | one open report; verdicts stand |
| Messaging: `services/messaging.py` | conversation, members, messages | send, read, list | a conversation made by whoever is first | one conversation per booking |
| Notifications and campaigns: `services/notifications.py`, `routes/admin_notification_campaigns.py` | notifications, campaigns | send, read | a send lost half way and repeated | each recipient is told once |
| Artist verification: `services/artist_verification.py`, `routes/artist_onboarding.py` | profile status, documents, audit log | edit, submit, decide, suspend | edits racing a review | what was approved is what was reviewed |
| Accounts: `routes/auth.py`, `profile.py`, `admin_users.py`, `services/account_deletion.py` | accounts, profiles, consents; the identity provider | register, edit, request deletion, cancel, suspend, delete | edits racing the deletion run | a deleted account shows nothing of its user |
| Login lockout: `services/login_security.py` | a Redis counter with a time to live | count a failure, slide, clear | commands that interleave or are cut off | a lockout is recorded once |
| Designs: `routes/designs.py`, `admin_designs.py`, `services/design_image_processing.py` | designs, images; stored objects | draft, publish, archive, moderate; upload | a capacity checked before the write, a storage service that fails | within the plan's limit; a ready image is whole; a ruling stands |
| Previews: `services/previews.py` | preview projects; a private bucket | upload, replace, export, delete | objects and rows change at different moments | paths name stored objects; what is deleted is erased |
| Listings: `core/pagination.py` and its callers | the client's cursor | next page | rows that come, go and move between pages, ties, nulls | nothing twice, nothing left out |
| Analytics and recommendations: `services/analytics/*` | the event log | record, compute a feed | several queries while rows change | consent is kept; nobody sees an empty feed |
| Search, directory, similar designs, authorization, audit log, administration routes | none of their own, or appended rows | read, rank, decide, edit one row | little concurrency | functional |
| Web, admin, mobile clients; infrastructure; migrations | no authoritative state | call the API | | |

The components meet in few places. A deposit that is settled moves its booking
(`services/payments/service.py:367`); a subscription payment goes through the
same settlement as a booking payment and activates the subscription; checkout
redeems coupons; design generation counts usage and queues AI jobs; the plan
limits the portfolio; blocking is asked by reviews, messages and follows; a
booking's availability check reads what scheduling keeps. Everything else they
share is the session discipline described above.

`PROJECT.json` lists the hazards line by line.

## 2. Plan

1. **Booking** with `ArtistCalendar`, the abstract calendar it implements, and
   `BookingProofs`, which also proves what it stores beside the calendar. Done.
2. **Payments**: orders, webhooks, reconciliation, refunds and payouts, with the
   provider as an external component that delivers events late, twice and in any
   order, `PaymentLife`, the abstract life of one order's money it implements, and
   `PaymentsProofs`. Done for booking payments.
3. **Subscriptions** with its coupon and `SubscriptionsProofs`, and **Quotas**. Done.
4. **AiJobs** and **DesignAi**: workers, crashes, the stuck threshold; what jobs
   write and people decide; `AiJobsProofs`. Done.
5. **CircuitBreaker** and **LoginLockout**: threads, Redis commands;
   `CircuitBreakerProofs`. Done.
6. **Scheduling**: interval arithmetic against a reference definition, rule and
   block edits, offers that become bookings. Done.
7. Counters and aggregates: **Engagement** with `EngagementProofs`, **Audience**,
   **Reviews**, **Campaigns**. Done.
8. Decisions and lives of rows: **Verification** with `VerificationProofs`,
   **Community**, **Messaging**, **Catalogue**, **Accounts**. Done.
9. Rows beside objects of a storage service: **DesignImages**, **Previews**.
   Done.
10. Reads that span several queries: **Listing**, **Recommendations**. Done.
11. `PlatformProofs`: theorems about the small services of 3 to 5 and 7 to 10. Done.
12. Open: a composition of Booking and Payments (money and calendar
    together), and abstract paid periods that Subscriptions implements.

Theorems that could follow those below: `SettledIsFinal` where no payment is refunded,
`Scheduling!OfferedIsBookable`, and the consent of `Recommendations`, once its feeds are defined without a fold.

## 3. Booking

`Booking.tla` models `services/booking.py` and all endpoints that reach it.

| Model | Code |
|---|---|
| `bookings[b]` | row of `bookings`; status `none` is "no row yet" |
| `quotes[q]` | row of `booking_quotes` |
| `history[b]` | the newest `booking_status_history` row |
| `tx[s]` | a request's session: handler position, operation, the row it read, its form and quote |
| `lock[a]` | who holds `SELECT ... FOR UPDATE` on the artist's profile |

A request is three to five steps, cut where another transaction's commit can
become visible: the read of the booking and the checks on it (`ReadBooking`),
the second query of the handlers that make one (`ReadPendingQuotes`,
`ReadQuote`), waiting for the lock (`LockCalendar`), the availability and
overlap queries (`Validate`), and the commit (`Commit...`), which writes only the
changed columns (`Flush`). SQLAlchemy may send an UPDATE before the commit (an
autoflush); nobody else sees it, so the commit is the step. Checks that fail
after the booking was read are `Refuse`, a lost client or worker is `Abort`;
both roll back. A request refused by its first check changes nothing and is not
a step.

Data kept: status, date, time, service, the agreed quote (`total`) and whether a
deposit is set. Data abstracted: all contact and location columns are one
Boolean (`contact`: everything `missing_submission_requirements` asks for is
there); amounts are the quote they come from; quote expiry is a `Refuse`; who
may call what is left to the authorization layer. `Races` says which operations
may run beside another on the *same* booking: with `{}` each booking has one
request at a time, with `Ops` anything overlaps. Requests on different bookings
always interleave. `Offered` and `Forms` bound a run.

### Runs

One artist, open 9:00-13:00 with 11:40-11:50 blocked; two services, one of 60
minutes with a deposit, one of 30 with a 15-minute gap; two bookings; two
requests at a time. Two bookings are what an overlap takes, and two requests what
a race takes; three quotes give a revision beside another booking's quote. The
times let bookings collide, touch exactly (660), hit the block (705) and take the
whole day (no time).

| Run | What is allowed | What it shows |
|---|---|---|
| `booking_serial` | everything, one request per booking at a time | only open time is occupied; exactly one quote decides and its price is carried; audit rows match and chain; what was submitted stays complete; terminal is final; agreed price and service stand |
| `booking_lock` | accept, quote, submit and cancel race on one booking; patch, reschedule and settle race with requests on the other booking only; review, reject, dispute and resolve are not offered | no double booking, the inductive invariant, refinement of `ArtistCalendar`; a booking on the calendar carries the price of a quote made for it |
| `booking_overlap` | accept and reschedule race | violated: double booking |
| `booking_resurrect` | accept and cancel race | violated: a cancelled booking is confirmed |

That every request is answered (`RequestsEnd`) is checked in `platform_fair`
(section 5), with accept and reschedule racing for one calendar. Symmetry under
permutations of bookings, sessions and quotes is used in the safety runs only. Deadlock is not checked: when all bookings are in a terminal
status, or no quote is left, nothing need happen. `booking_lock` leaves out
review, reject, dispute and resolve, which write no place and which
`booking_serial` and the theorems cover.

Fairness (`Fairness`): PostgreSQL queues those who wait for a row lock, so a
session that can take it again and again does (strong fairness of
`LockCalendar`); every statement is answered (weak fairness of a handler's next
step). `Abort` has no fairness: nothing relies on a request being lost.

### Where code and documents differ

The two violation runs are disagreements with `docs/booking-lifecycle.md`,
quoted in `PROJECT.json`. Two more follow from wider `Races` on the properties of
`booking_serial`: with `{"cancel", "reschedule"}` TLC finds `AuditMatchesStatus`
violated (`record_history_note` writes the status it read), with `{"quote"}`
`QuotesAgree` (two concurrent `send_quote` leave two pending quotes). They have
one cause: status and quotes are read without a lock and written without a check
that they are still what was read. The calendar lock protects only what is read
after it is taken.

### Proofs

`BookingProofs.tla`, for every set of artists, bookings, requests, quotes,
services and times that satisfies `BookingAssumption`:

- `TypeCorrect`: `Spec => []TypeOK`.
- `CalendarStaysInOrder` and `NeverDoubleBooked`: if no operation of `Unlocked`
  races on its own booking (`SafeRaces`), then `[]CalendarInv`, hence
  `[]NoDoubleBooking`. `booking_overlap` shows that the condition cannot be
  dropped for reschedule.
- `ServiceImplementsCalendar`: under the same condition `Spec` implements
  `ArtistCalendar`.

`NoDoubleBooking` alone is not inductive: an acceptance stores what it validated
earlier. `CalendarInv` adds that the place a session read is still the stored
one (`ReadsAreCurrent`), that sessions on one booking are allowed to race
(`OnlyRacesOverlap`), and that a validated session holds its artist's lock and
still fits (`ValidatedStillFits`). The argument: every commit is an `Effect`
(`CommitIsEffect`), which takes a booking off the calendar, leaves it in place, or
puts it where it was validated under the lock; two validated sessions of one
artist cannot exist; so an `Effect` keeps the invariant (`EffectKeeps`), and is a
step of the abstract calendar or none (`EffectRefines`).

The second half of `BookingProofs.tla` proves the rest of what the runs check of a
booking, each for the widest set of races we could prove it for:

| Theorem | Property | `Races` |
|---|---|---|
| `OnlyOpenTimeOccupied`, `SubmittedStaysComplete` | `OccupiesOpenTime`, `SubmittedIsComplete` | `SafeRaces`: whatever the calendar lock makes harmless |
| `PricedByAQuoteOfItsOwn` | `PricedByOwnQuote` | `SafeRaces` |
| `AuditNamesStatus` | `AuditMatchesStatus` | `NotesAlone`: neither `quote` nor `reschedule`; or `Calm` |

`booking_overlap` and the instance named above for the audit trail show that such a
condition is needed. `TerminalIsFinal`, `AgreementStands`, `AuditIsChained` and
`QuotesAgree` are checked for serial requests only: races of
requests that change the status break them (`booking_resurrect`), so a proof would have
to assume away what is hard about them.

A commit is described once for all eleven handlers, by the row it flushes
(`Stores`), so each invariant needs one step for commits instead of one for every
handler. `SessionInv` says what a session knows of itself, whatever races: the status
it read admits its operation, a submission was complete. `StatusIsCurrent`, under `Calm` (only
`patch` and `reschedule` race, which leave the status alone), says the status and the
price a session read are the stored ones. `RowInv` adds that a validated place is
open and that contact is never taken back while somebody relies on it. `PriceInv`
adds that an acceptance holds a quote of its own booking and that an agreed price
or deposit, once there, stays, so a commit that flushes an older row cannot lose it.

Liveness (`RequestsEnd`) is model-checked only.

## 4. Payments

`Payments.tla` models `services/payments/service.py`, the endpoints that call it
and the reconciliation command, for payments of bookings, beside the provider.

| Model | Code |
|---|---|
| `booking[b]` | `bookings.status`, as far as `determine_payment_amount_minor` tells values apart; everything else is `cancelled` |
| `payments[o]` | row of `payments` with its provider order; `ref` is `provider_payment_id`, as the number of the attempt |
| `earnings[o]` | row of `artist_earnings` of a payment: none, unpaid or the payout it is stamped with |
| `refunds[r]`, `payouts[k]` | rows of `refunds` and `artist_payouts`; a payout is the set of earnings it was summed from |
| `ledger` | `payment_webhook_events`, keyed as its unique index is |
| `tx[s]` | a transaction under way: what it read and what it was told |
| `attempts[o]`, `prefunds[x]` | external: the provider's attempts on an order and the refunds it was asked for |

Every operation is a `Start...`, which reads and decides, and a `Commit...`,
which writes. Reconciliation asks about one payment after the other (`Poll`) and
commits once for all; an approval calls the provider in between
(`CallProvider`), and that call is not undone by a rollback. `Refuse` is a
unique index or the provider saying no, `Abort` a process or a provider call
that is lost. `Settle` is the whole of `_settle_payment`: status, attempt,
earning and the booking's `deposit_paid` change in one commit. Its early return
for settled payments is decided at the start, from the copy the transaction
read, and its writes go to the row of the commit: the session does not refresh
what it has loaded.

The provider's notices are never withdrawn, so any may arrive late, out of
order, again, or never. An attempt that succeeds is first `authorized` and gives
rise to the notice of that; later it is `captured`, with a notice of its own, or it
`lapsed`: it was never captured, and the customer keeps the money. The service
settles an authorization like a capture (`_SUCCESS_STATUSES`), by notice as well as
by reconciliation, before there is a capture and whether or not one follows. A
`mismatched` attempt is one for another amount. The customer may try again on the
same order until an attempt is captured, as the provider allows.

So the properties speak of what the provider *accepted*: authorized or captured for
the order's amount (`Accepted`). That what counts as paid was captured is not a
property of this code. An authorization that lapses stays credited, nothing looks at
it again, and `docs/payments.md` does not say what should become of it.

`Races` is a set of sets of operations that may be under way together. The
webhook endpoint is an `async def` that never awaits between its read and its
commit, so one server process handles one webhook at a time; several processes
and the command-line job do not wait for each other, and the races of the runs
are those.

### Runs

One booking with a price of 3 and a deposit of 1, so that deposit and balance
differ and neither divides the other; two orders are what a double charge or a
deposit beside a balance takes, a third follows a refund; two transactions are
what a race takes; two attempts a retry; two refunds and two payouts what a
duplicate takes. Rows and attempts run out, so deadlock is not checked.

| Run | What is allowed | What it shows |
|---|---|---|
| `payments_races` | nearly every pair of operations side by side, one attempt, two payouts | the inductive invariant, nothing credited that was not authorized or captured for its amount, nothing refunded or paid out without an earning, earnings follow credit, acknowledged successes are credited, one live order per purpose, never more charged than the price, an earning in one payout only, refinement of `PaymentLife` |
| `payments_orders` | two order requests race | violated: two live orders for one purpose |
| `payments_lost_retry` | a failed attempt, then a captured one | violated: an acknowledged capture is never credited |

Three instances of this module are parts of `platform` (section 5): `retrying`
has two attempts per order, one transaction at a time, no refunds, and shows that a
credited payment stays credited (`SettledStaysSo`, in `DecisionsStand`); `charging`
has three orders and a refund, one transaction at a time, and shows that no more than
the price is charged after a deposit was given back; `refunding` has two refunds of one
payment and an idempotency key for its order beside everything else, and shows that what is processed adds up to the payment's
status and to no more, and that nothing rejected was approved. The only pairs
`payments_races` and `refunding` leave out are two orders, two payouts and an approval
beside a rejection, whose outcome the next section tells. Orders, refunds, payouts and
transactions are interchangeable, so the safety runs use symmetry. That captured
money is credited in the end though every webhook may be lost
(`CapturedIsCredited`) is checked in `platform_fair`.

Fairness (`Fairness`): a transaction's next statement is answered (weak fairness
of `Advance`); the operator runs reconciliation again and again until each
pending order has been asked about and a batch has committed (strong fairness of
`StartReconcile`, `Poll`, `CommitReconcile`). That is what docs/payments.md
section 10 asks of the operator; no scheduler is in the code. Strong fairness is
needed because a lost process may break any one run off. Webhooks have no
fairness.

### Where code and documents differ

The two violation runs are quoted with their documents in `PROJECT.json`. Wider
instances of the passing runs differ from what the code's comments and
`docs/payments.md` say as well:

- `Races = {{"payout"}}` violates `PaidOutOnce`: two batches sum the same
  earnings (`create_payout_batch`).
- `Races = {{"approve", "reject"}}` violates `RejectedIsUnpaid`: both read a
  pending refund, and the rejection commits last.
- `Races = {{"webhook", "reconcile"}}` with two attempts violates
  `EarningMatchesCredit`: reconciliation writes failed over a payment that a
  webhook credited since it was read.
- Refunds and two attempts together, in any order and without races, violate
  `SettledStaysSo`: the late notice of the failed attempt turns a refunded
  payment into a failed one.
- A refund notice that overtakes the commit of its approval, or follows a lost
  one, is acknowledged as unknown and never looked at again, so the refund stays
  approved or pending.

Most have the cause the booking runs have: a row is read, decided on and written
without a lock or a condition on the write. `payments_lost_retry` and the late
notice need no concurrency: the settlement treats the report of one attempt as
the outcome of the order.

### Proofs

`PaymentsProofs.tla`, for every set of bookings, orders, refunds, payouts and
transactions, every number of attempts and every `Races`:

- `CreditStaysBacked`: `Spec => [](TypeOK /\ CreditInv)`;
- `TypeCorrect`: `Spec => []TypeOK`;
- `NeverCreditsUnaccepted`: `Spec => []CreditIsBacked`: a payment, or a deposit,
  counts as paid only if the artist has an earning for it, and an artist has one only
  if the provider authorized or captured the order's amount.

`CreditIsBacked` is not inductive: a commit writes what its transaction was told
or read earlier, and the notice of a refund or a payout speaks of a payment
indirectly. `CreditInv` adds what each open transaction may rely on (`Backed`)
and that orders attempted exist and that refunds are of payments with an earning. The
argument is monotonicity: no step takes back an earning, a row, what a row is for, or
that an attempt was accepted (`Grows`), so what a transaction claims stays true while others commit
(`ClaimsStay`). This is why no condition on races is needed, in contrast to
Booking. The proof has a lemma for each operation; an operation that only starts
a transaction changes no table (`TxOnly`).

Two more hold without any condition, for every number of attempts:

- `NoticesTakeEffect`: `Spec => []LostToFailureOnly`: an acknowledged notice of a
  success left its order credited, unless another attempt of the order failed or was
  for another amount;
- `TakenBackByFailures`: `Spec => [][TakenToFailureOnly]_...`: no step takes an earning
  away, and one that takes a credit back is for an order with such an attempt.

They say precisely how far `HandledIsCredited` and `SettledIsFinal` can fail:
`payments_lost_retry` is the case they leave. The others assume `[]Steady`, that no order
has an attempt in vain (failed, or for another amount) beside one that succeeded, which
is about what customers do and not about the order of steps; authorizations, captures,
lapses and several successful attempts are all within it:

| Theorem | Property | Conditions, and what shows that they are needed |
|---|---|---|
| `EarningsMatchCredits` | `EarningMatchesCredit` | `Steady`; without, reconciliation writes failed over a credit |
| `ServiceImplementsPaymentLife` | `ImplementsPaymentLife` | `Steady` |
| `NeverOverchargedForGood` | `NeverOvercharged` | `Steady`, orders one at a time (`payments_orders`), no deposit above its price (`DepositsFit`) |
| `RefundsAddUpForGood` | `RefundsAddUp` | `Steady`, no approval beside a rejection (the pair violates `RejectedIsUnpaid`) |
| `MoneyAddsUpForGood` | `MoneyAddsUp` | those of the two above |

`KeptInv`, the invariant behind the two unconditional theorems, says that a payment marked
failed had an attempt in vain, that an earning is of a credited payment but for such
orders, that the ledger names attempts that were made, and what a settlement under way
relies on (`Claims`): one that was told of a success will settle it unless somebody else
has. Under `Steady` this becomes `SettledInv`: an order that is settled any other way
than its transaction expects has been credited already, so it does not matter which
transaction commits last. `LiveInv` adds that nothing live stands where an order is about
to be inserted, `RejectInv` that a refund being rejected has no reference; both follow
from `Beside`: who is under way together may race. (Lemmas of the same kind,
`OneLiveOrderForGood`, `RejectedStaysUnpaid` and `EarningsPaidOutOnce`, state
`OneLiveOrder`, `RejectedIsUnpaid` and `PaidOutOnce` where the one race that breaks each
is excluded; they are steps of these proofs and no results to rely on.)

`PaymentLife.tla` is what that amounts to: an order is opened, its amount is
accepted (authorized or captured) or not, what was accepted is credited with its earning
in one step, for several orders at once where reconciliation settles a batch, what was
not is closed, and a credit can only be given back. The refinement maps payments,
earnings and attempts to these stages.

`MoneyAddsUpForGood` puts charges, refunds and rejections together: the property
`MoneyAddsUp` of `platform`. `RefundsAddUp` and `NeverOvercharged` are about sums over rows, which the code takes with `SUM` and the model
with folds over sets. A fold is some function `g` over the subsets of a set, with
`g[{}] = 0` and each other value made from a smaller one (`Sums`). What holds of
every subset is proved by taking a smallest one for which it does not
(`FS_StrictSubsetOrderingWellFounded`, `WFMin`), so no induction theorem with an
operator parameter is needed: a sum over rows that share no amount with another is
split (`AmountsSplit`), bounded (`AmountsBound`), and equal to its one row where there
is one. For this the rows there will ever be are a finite set; how many is open.

`ChargeInv` says of each row, and of each order about to be inserted, what it was
priced by: its deposit before it was paid, the whole price of a booking without
deposit, or what a deposit that stands left of the price. With one live order for a
purpose (`LiveInv`) a booking has a full payment, or a deposit and a balance that
fit. `DepositsFit` is an assumption on the data: the deposit and the price come from
different forms, and the columns are kept from being negative, no more.

`RefundInv` says that a refund is of the whole payment, since whoever asks finds
nothing given back yet; that the provider was asked for one refund of an order at
most, however many refunds staff approve at once; and that the reference of that call
stands on one refund only. So of the refunds of a payment one is processed, or none.

The liveness property is model-checked only.

### What is left out

Payments of subscriptions, which settle through the same function (their own
branch of it is in `Subscriptions`); notices of a
refund that is not final (`refund.created` changes nothing the properties see);
the commission arithmetic; notifications. A deposit above the price is possible
in the code, whose two amounts come from different forms, and is not in the
instances.

## 5. The other services

Most parts of the platform share no rows with each other, so each has a module of
its own, in the manner of the first two: a request is a session that reads what
the code reads, decides, and writes what it has set to another value (`Emit`),
with a step boundary wherever another commit, a call to an external service or a
Redis command can come between.

| Module | Code | State | What may happen between its steps |
|---|---|---|---|
| `Subscriptions` | `services/subscriptions.py`, `coupons.py`, `cli/process_subscriptions.py`, a branch of `payments/service.py` | memberships, their payments, one coupon, the clock | checkouts, settlements, cancellations and the batch overlap as `Races` allows |
| `Quotas` | `services/entitlements.py` and the routes that call it | a limit per user, a counter per user and month | requests overlap; the plan and the month change |
| `AiJobs` | `services/ai/jobs.py`, `design_generation.py` | jobs, design requests, generations | workers claim, crash, raise; jobs age; users and staff act |
| `DesignAi` | `services/ai/tagging.py`, `embeddings.py`, `duplicates.py`, `moderation.py`, `review.py` | embeddings, suggestions, matches, decisions | runs overlap, images change, people decide |
| `CircuitBreaker` | `core/resilience.py` | failure counter, `_opened_at` | threads, at every call of a function; the provider goes up and down |
| `LoginLockout` | `services/login_security.py`, `routes/auth.py` | the Redis counter and its time to live | Redis commands of overlapping logins; `Faults`: Redis or the server fails |
| `Scheduling` | `services/scheduling.py`, `routes/artist_scheduling.py` | weekly rules, blocks, occupied times of a day | edits and bookings in any order |
| `Engagement` | `services/engagement.py`, `routes/collections.py` | likes, collections, items, counters | check, row (which locks its key), counter and commit |
| `Audience` | `services/artist_directory.py`, `view_tracking.py` | follows, follower counter, view keys and counter | the same, and between the Redis key and the update |
| `Reviews` | `services/reviews.py`, `routes/admin_reviews.py` | reviews, the aggregate of the artist | between the review with its aggregate and the commit |
| `Verification` | `services/artist_verification.py`, two route files | profile, identity documents, audit log | artist and reviewer, each from what was read |
| `Community` | `services/comments.py`, `reports.py` | comments, reports | insert races, moderators |
| `Messaging` | `services/messaging.py` | conversations, members, messages, notifications | uploads inside the transaction, blocks |
| `Campaigns` | `services/notifications.py`, `routes/admin_notification_campaigns.py` | campaigns, notifications, preferences | a send over many users, lost and repeated |
| `Accounts` | `routes/auth.py`, `profile.py`, `services/account_deletion.py` | identity, account, profile, consent | sessions, days, the deletion run |
| `Catalogue` | `routes/designs.py`, `admin_designs.py` | status of designs, the plan's limit | owner and staff |
| `DesignImages` | `routes/designs.py`, `services/design_image_processing.py` | image rows, stored objects | each upload to the storage service; `Losing`: the server is lost |
| `Previews` | `services/previews.py` | project rows, a private bucket | each object operation; `Failing`: deletions refused, requests lost |
| `Listing` | `core/pagination.py` and 22 endpoints that page | rows by sort value, the client's walk | rows are inserted, hidden and changed between pages |
| `Recommendations` | `services/analytics/*` | event log, consent, published designs | each query of the home feed |

Definitions that begin `Variant:` are the same operation with a plausible bug, for
every property at least one: dropping a guard, counting too early, resetting too
little. They are not used by any specification; with one in the place of the
original, the property fails.

### How they are run

`MCPlatform` holds 32 small instances, the *parts*. A behaviour is one of one
part: the initial state chooses it, `x1` to `x9` are the variables of the part's
module in the order it declares them. So the state spaces add up and are not
multiplied, and each conjunct `part = "..." => ...` of a property is about one
instance. Model values that a part uses as a set of rows, sessions or contents
are interchangeable there, and one symmetry set serves all parts. Parts share a run for economy only; that they
share no state is the reason they can. The 32 have about 3 million states together.

`doubling` lets two retries of one request overlap (`Together`); it takes a third job
for both to be granted, which `retries_doubled` has and `platform` has not
(`DoubledJobs`). `renewals` has two payments of one membership and lets everything
about them overlap but two checkouts of the user, two settlements of one payment
included; `notified` has one payment whose notices come side by side. Nothing keeps these
apart: the ledger's key is the type of the event and its reference, so the notices of an
authorization and of a capture have keys of their own, and reconciliation has none. In
both parts a failure is not settled beside another notice of the same payment
(`SettledAlike`, a constraint on their steps): there the code entitles who has not paid,
see below. `couponed` has two users who check out with one coupon; a membership that
follows another is in `orderly`. The runs that expect a violation explore one part each.

`MCProgress` does the same for seven parts whose scheduling one can be fair about,
without symmetry.

| Run | Property | What it says, by part |
|---|---|---|
| `platform` | `TypesOK` | every part keeps its types |
| | `QueueIsHonest` | `AttemptsBounded`, `ShownStatusAgrees`, `RetriesCounted` of the queue; `NoDuplicateMissed`: when the jobs of two designs that look alike are done, the staff was told |
| | `DecisionsStand` | completed jobs, reviews of generated designs, suggestions, duplicates and closed reports stay as they are, and a credited payment and its earning while the customer fails and tries again, whatever comes late |
| | `BreakerIsSafe` | `SentOnce`: a mutating call reaches the provider once; `ClosedIsBelowThreshold` |
| | `CountersHold` | counters that agree with their rows: `LikesCounted`, `SavesCounted`, `FollowersCounted`, `RecipientsCounted`; counters that never run ahead, though they may fall behind: `NothingOvercounted` (quotas, coupons), `VisitCountedOnce`; a rating that may drift, and is right again after a write that nothing overlaps: `SoloRepairs` |
| | `MadeOnce` | one default collection, one open report of a user about a thing, one conversation of a booking, one audit entry of a lockout, one notification of a campaign |
| | `VerificationIsSound` | approved is what was submitted; no reason of an earlier review is shown; the audit log chains |
| | `StorageAgrees` | a ready image has all its sizes of one file; a preview's paths name stored objects and its result shows its source; a deleted preview leaves nothing, while the bucket answers |
| | `CatalogueHolds` | the staff's ruling on a design stands whatever its owner does; no publication exceeds the plan; nobody gets an empty feed while something is published |
| | `DeletedIsGone` | a finalized account shows nothing of its user and was finalized once |
| | `SlotsAreHonest` | `FreeIsExact` (interval subtraction against sets of points), `OfferedApart`, `OfferedIsBookable` |
| | `ListsAreHonest` | a walk shows nothing twice that kept its value and misses nothing that stayed; feeds ask for consent, and recommend nothing seen in the days they look back to |
| | `MembershipsArePaid` | `EntitledIsPaid` with overlapping settlements, cancellations, batches and a checkout; `AnchorKept`, `CouponCounted` for one request at a time |
| | `MoneyAddsUp` | processed refunds add up to the payment's status; a rejected refund was never sent; orders ask for no more than the price |
| `platform_fair` | `RequestsEnd` | two requests for one calendar are both answered |
| | `RequestAnswered` | a design request ends as completed or failed however often workers crash |
| | `ServiceResumes` | the breaker follows the provider in the end; a lockout ends though logins go on |
| | `LapsedIsNoticed` | a membership does not stay entitled past its period and grace |
| | `DeletionEnds` | a requested deletion takes place unless the staff rules otherwise |
| | `CapturedIsCredited` | captured money is credited though no notice of it arrives, if reconciliation is run again and again |
| `imaging_stuck` | `ProcessingIsWorkedOn` | violated: an image stays in processing with nobody working on it |
| `retries_doubled` | `RetriesAreCapped` | violated: two retries at once are counted as one, so a design is generated more often than its cap |
| `grace_revived` | `GraceProtects` | violated: a late failure revives a membership that was cancelled and has expired |

Bounds. Two of everything that races, three sessions where a third must see what
two have done (quota, lockout, forum, chat), two designs for duplicates and three
for a limit of two. Two attempts and one retry, a threshold of two, pages of one
row over three rows, a day of five units with services of two: the least at which
a retry, an opening, a tie on a page boundary or an interval cut in two happen.
Clocks run to three ticks with periods of one or two, which holds two renewals;
months to two. Counters of failures, views, lockouts, log entries and requests
saturate or stop at the bounds named in each module. Since rows and days run out
deadlock is not checked.

Fairness (stated in each module and again in `MCProgress` with the part as a
guard): the calendar lock as in section 3; the commands `process_ai_jobs`,
`process_subscriptions` and `process_account_deletions` are run again and again,
as their docstrings and the documents ask of the operator; their steps are
strongly fair where a request may disable them for a moment; handlers return or
raise since every client has a timeout; time passes; calls go on while a breaker
is watched. Crashes, lost requests and users have no fairness.

### Proofs

Each proof module states what it asks of the constants as `Constants`; the
theorems assume it.

`AiJobsProofs.tla`, for any number of jobs, requests, workers and sessions, where a
backoff (and, without `Late`, a retry) does not fall between the query and the commit of
one `fail_job` (`NoPass`, see the end of this section):

- `TypeCorrect` and `TriedWithinBound`: `Spec => []TypeOK`,
  `Spec => []AttemptsBounded`, whether or not workers outlast the threshold.
- `CompletedForGood`: without `Late`, `Spec => CompletedIsFinal`. TLC finds it
  violated with `Late`, so the condition is needed.

`AttemptsBounded` is not inductive: a claim adds an attempt to whatever waits, and
a pass puts back what it judged by a row read earlier. `QueueInv` adds that a job
that waits has an attempt left (`WaitingHasAttempt`) and that a row read while its
job was not waiting still has its attempts (`RowsAreCurrent`). For the second
theorem `Owned` says that a job some worker holds is running and not old enough
for a pass (`HeldRuns`), that one worker holds it (`HeldByOne`), and that a pass
has read no job that anybody holds or has completed (`ReadersAreCareful`): so
nothing writes a job after it was completed.

- `ShownAsItIs` and `DecidedForGood`: without `Late` and `Together`,
  `Spec => []ShownStatusAgrees` and `Spec => DecisionStands`. TLC finds each violated
  with either. (The lemma `EveryRetryCounted` says that the retries of a request are
  counted where they do not overlap; `retries_doubled` shows that they are not where
  they do.) The argument (`ShownInv`): at most one job of a request is open and all
  others have failed (`OneOpen`); a failed job is spent, so nothing brings it back;
  what a retry or a review read still holds when it commits.

`CircuitBreakerProofs.tla`, for any number of threads:

- `MutationsReachOnce`: `Spec => []SentOnce`. The invariant adds that a mutating
  call about to try has not reached the provider (`Unsent`).
- `ClosedWithinThreshold`: `Spec => []ClosedIsBelowThreshold`.
- `BreakerStaysSafe`: both, `Spec => []BreakerIsSafe`.

`SubscriptionsProofs.tla`, for any number of users, memberships, payments, plans and
sessions:

- `OnlyPaidAreEntitled`: if checkouts come one at a time (`InTurn`) and no failure is
  settled beside another notice of its payment (`[]SettledAlike`), `[]EntitledIsPaid`,
  whatever settlements (of one payment, too), cancellations, batches, lost requests and
  the clock do. `PaidInv` adds that a membership waits for one payment at most
  (`OnePending`), that one which ended unpaid waits for none (`UnpaidIsOver`), that a
  settlement under way has its payment still pending, or was told of a success of one
  that succeeded, and that a failure about to give a grace period has read a membership
  that was paid (`SettleKnows`). TLC finds `EntitledIsPaid` violated without either condition.
- `CouponNeverOvercounted`: `Spec => []NothingOvercounted`, with no condition on what
  overlaps: what a checkout read of the counter is backed by the users who had redeemed
  the coupon by then (`UseInv`).

That renewals keep the billing date and that the coupon's counter is exact is not
proved: both hold one request at a time only, where `platform` checks them.

`VerificationProofs.tla`, for any number of requests, documents and answers:

- `TypeCorrect`: `Spec => []TypeOK`.
- `VerificationStaysSound`: if the artist has one request under way and one reviewer
  decides (`OneEach`), `Spec => []VerificationIsSound`.
  `SoundInv` adds that what a request read and judged is still so when it commits
  (`ReadsCurrent`), although the artist and the reviewer act side by side: the
  statuses in which one may write exclude the other, so there is one writer at a
  time (`OneWriter`), and what either changes does not matter to the other's checks.

`EngagementProofs.tla`, for any number of sessions, users, designs and collections:

- `TypeCorrect`: `Spec => []TypeOK`.
- `LikesAndSavesAreCounted`: `Spec => [](LikesCounted /\ SavesCounted)`, whatever
  requests race or are broken off. The counters are changed by what a request saw when
  it wrote its row, and read by nobody, so what matters is that the row is still there,
  or not there, when it commits: the unique keys are locks (`Exclusive`), a session that
  wrote found the row as it says (`LikeHeld`, `ItemHeld`), and a default collection made
  on the way is one nobody else can see (`MakesDefault`). `CountInv` puts these together.
- `OneDefaultForGood`: `Spec => []OneDefault`.

`PlatformProofs.tla` has the small services, each with variables of its own, and puts
them together to the properties the run checks. The composites are stated as they are in
`MCPlatform`, with the parts' specifications side by side instead of one chosen.

| Theorem | What holds, in every state or step | Condition beside types |
|---|---|---|
| `NeverOvercounted` | `Quotas!NothingOvercounted` | none |
| `RatingsComeRight` | `Reviews!SoloRepairs` | none |
| `FollowersAreCounted`, `VisitsCountOnce` | `Audience!FollowersCounted`, `VisitCountedOnce` | finitely many users |
| `RecipientsAreCounted`, `CampaignsShownOnce` | `Campaigns!RecipientsCounted`, `CampaignShownOnce` | `OneAtATime`: two sends of a campaign do not overlap |
| `CountersHoldForGood` | the conjuncts of `CountersHold` but the coupon's, with the theorems on `Engagement` | `OneAtATime` |
| `OneOpenReportForGood` | `Community!OneOpenReport` | none |
| `OneConversationForGood` | `Messaging!OneConversation` | none |
| `LockoutsRecordedOnce` | `LoginLockout!LockoutRecordedOnce` | finitely many logins |
| `MadeOnceForGood` | `MadeOnce` | `OneAtATime` |
| `FinalizedOnceForGood` | `Accounts!FinalizedOnce` | none |
| `ReadyIsWholeForGood` | `DesignImages!ReadyIsWhole` | `OneUpload`: an image is uploaded once at a time |
| `PreviewsAreWhole` | `Previews!PathsAreStored`, `ResultShowsSource`, `DeletedIsErased` | `OneAtAProject`; the last unless `Failing` |
| `StorageAgreesForGood` | `StorageAgrees` | both |
| `NoDuplicateMissedForGood` | `DesignAi!NoDuplicateMissed` | none |
| `DecidedStayDecided` | `DesignAi!DecidedStaysSo` | `OneDecider`: one person decides at a time |
| `QueueStaysHonest` | `QueueIsHonest`, with the theorems on `AiJobs` | `Unhurried`: neither `Late` nor overlapping retries |
| `ListedOnceForGood` | `Listing!ListedOnce`, `NoneLeftOut` | `Sorted`: a column never NULL, carried exactly |

Where a condition excludes a race, the table at the end of this section names what TLC
finds without it. The conditions on types say that a marker such as "none" is no count,
id or object (`Countable`, `Ids`), and that the features are the three there are
(`Switches`). The inductive invariants:

- Counters. A request writes the count it read plus one: what it read is backed by what
  was done in that month (`UsageInv`). A review or decision that has the table to itself
  computed the aggregate of the table its commit makes (`RatingInv`). Of the requests on
  one follow at most one has written, since the unique key is a lock, and its row is
  there or not as its counter assumes (`FollowInv`); a view about to be counted set the
  key itself, and for that key nothing was counted yet (`VisitInv`). No campaign but
  those sent has rows anybody sees, and of these as many users as were counted have one
  (`CampaignInv`).
- Made once. Reports are inserted against a unique index, so `ReportInv` adds little to
  the property; one session at most has an uncommitted conversation, and only while there
  is no other (`ChatInv`); lockouts recorded and about to be are no more than the times
  the counter came to the threshold, and exactly as many while Redis answers
  (`LockoutInv`).
- Lives of rows. Whom the deletion run has chosen is not deleted yet (`AccountInv`).
- Objects. What an upload says it has stored is stored (`PhotoInv`). A project with no
  request under way names objects that are there and shows its photo, and a request has
  done to the bucket what its position says (`PreviewInv`).
- AI. Two designs that look alike were compared, or a detection of one of them is still
  to run, or one runs that read both vectors (`VisionInv`): so it does not matter which
  run ends first. What somebody is about to decide is still undecided, and a job that is
  not done has nothing to review (`DecidingInv`).
- Pages. What has been listed of the steady rows lies behind the cursor, once, and what
  was not lies ahead (`PagesInv`). The cursor is the last row shown, so moving it takes
  the page and nothing else behind it, in either direction, by a lemma on the order of
  pairs (`CursorMoves`).

Model-checked only, and why:

- `SlotsAreHonest` and the feeds in `ListsAreHonest`: free intervals and feeds are folds
  over sequences, and what a fold computes takes induction over data.
- `DecisionsStand` as a whole: its parts are proved (`CompletedForGood`,
  `DecidedForGood`, `DecidedStayDecided`), but for a moderator's verdicts, where what
  could go wrong takes a second moderator, and does, and for `SettledStaysSo`, which takes
  one transaction at a time and no refund; what holds of every race is
  `TakenBackByFailures`.
- `DeletedIsGone`, but for `FinalizedOnce`, and `CatalogueHolds`: the instances let no
  request be overtaken (`Overtaking`), and a proof would have to assume the same.
- `TypesOK` as a whole: five modules have a theorem of types; the invariants of the others
  say of their types what they need.
- `platform_fair` and every liveness property: the provers have no fairness.

### Where code and documents differ, and what is excluded

`imaging_stuck`: the processing function raises what it does not expect before it
marks the image, so the row stays in processing. `retries_doubled`: the cap on
retries is a read and a write of one counter without a lock. `grace_revived`:
a failed payment gives a grace period to every membership but a trial, also to one
that was cancelled and is over, with one request at a time. All three are quoted
with their documents in `PROJECT.json`.

Three more promises do not hold when their operations overlap; no run is kept for them,
but TLC shows each when the property named is made an invariant of the part named:

- `AnchorKept` in `notified`. Two settlements of a subscription payment both find it
  pending, and each chains a period, where a booking payment has its unique earning.
  `service.py:308` calls the second one an "idempotent no-op".
- `RatingExact` in `rating`. The rating is recomputed from the rows one transaction sees,
  so of two reviews at once one is left out until the next write. The docstring in
  `reviews.py` says that a recomputed rating cannot drift, "by construction".
- `OneTrial` in `breaker`. The half-open state is not marked, so every call that comes
  before the first has ended is a trial; `resilience.py:109` and
  `docs/performance-and-reliability.md:49` speak of one.

The instances leave out what the code does not prevent. In each case the property
is stated in its module and TLC finds it violated once the exclusion is lifted:

| Property | Violated when | Why |
|---|---|---|
| `Subscriptions!PlanIsPaid` | there are two plans | checkout changes the plan before it is paid |
| `Subscriptions!EntitledIsPaid` | two checkouts of one user overlap | a trial gets two payments; the first failure ends it, the second gives it a grace period |
| `Subscriptions!EntitledIsPaid` | not `SettledAlike`: a failure is settled beside another notice of its payment | both find the payment pending: two failures end the trial and then give it a grace period, and a success that is overwritten entitles with a payment that failed |
| `Subscriptions!AnchorKept` | two notices of one payment are settled side by side (part `notified`) | each chains a period |
| `Subscriptions!CouponCounted` | two checkouts with one coupon overlap | read, compare, write back |
| `Quotas!QuotaKept` | every plan has a limit and two requests overlap at it | read, compare, write back |
| `AiJobs!CompletedIsFinal` | `Late`: a worker outlasts the stuck threshold | its job was given to another |
| `AiJobs!ShownStatusAgrees`, `AiJobs!DecisionStands` | `Late`, or `Together` | the late job of a retried request reports over the newer one; two open jobs report over each other |
| `AiJobs!RetriesCounted` | `Together`: two retries overlap | both write the count they read plus one |
| `AiJobs!AttemptsBounded`, `ShownStatusAgrees`, `CompletedIsFinal`, `DecisionStands` | not `NoPass`: a user retries, or a backoff ends, while `fail_job` has decided and not committed | it calls `send_alert` in between, once for each exhausted job, which may wait for an HTTP call; the retry, or a backoff of two minutes, would have to fall into that time |
| `CircuitBreaker!OneTrial` | two threads call when the breaker half-opens (part `breaker`) | the state is not changed by the trial |
| `LoginLockout!LockoutEnds` | `Faults`: Redis fails between increment and expiry | the counter never expires |
| `Engagement!NameIsFree` | a collection is named like the default one | the default can then not be made |
| `Reviews!RatingExact` | two reviews overlap (part `rating`) | each aggregate misses the other |
| `Verification!AuditChained` | there are two reviewers | both decide from the same status |
| `Community!VerdictStands` | there are two moderators | both read an open report; the later verdict replaces the earlier |
| `DesignImages!ReadyIsWhole` | `Together`: two uploads of one image overlap | both find it pending; a ready row names sizes of two files |
| `Community!EvidenceKept` | a comment is edited after it was reported | the snapshot is taken when the queue is read |
| `Messaging!ReadWasSeen` | a message commits after a read that began later | times are of the transaction's begin |
| `Accounts!ElapsedIsDue` | suspension and reactivation of a user who asked to be deleted | the status is overwritten |
| `Listing!NoneLeftOut` | `Wholly = FALSE`: listings by rank or with nulls | the cursor is rounded, or compares with NULL |
| `Scheduling!OfferedIsBookable` | a gap around bookings | offers and checks use it differently |
| `Previews!ResultShowsSource` | `Together`: an export overlaps a new photo | the later commit wins |
| `Previews!DeletedIsErased` | `Failing`: the bucket refuses | deletion is best effort |
| `Catalogue!RulingStands`, `Accounts!GoneIsAnonymous` | `Overtaking`: a request is overtaken | stale reads |
| `Campaigns!CampaignShownOnce` | `Together`: two admins send one campaign | both find it a draft |
| `DesignAi!DecidedStaysSo` | two people decide about one row | the later commit wins |

## 6. Not modelled

- Who may call what: roles, tokens, rate limits. The models let anybody call who
  could in some role.
- The order of items in a collection, cover images, sharing links, signed URLs,
  attachments.
- Formatting, wording and layout; the calendar arithmetic of month ends; time
  zones and blocks that cross midnight; money's decimals and the commission.
- Search, directory, similarity and the reports of the analytics dashboard, which
  write nothing; their pagination is `Listing`. How good a ranking is.
- Sending push notifications and mail: what left the system is not recorded in it.
  Booking reminders, which nothing schedules.
- Administration endpoints that edit one row of one table (categories, coupons'
  fields, settings, feature flags: a flag is fixed for a run).
- Vectors and scores: two images look alike or not.
- Consent is read and the event written in one step in `Recommendations`; a
  withdrawal between the two leaves one event with its name.
- Web, admin and mobile clients, which hold no authoritative state: that they call
  twice, late or never is modelled at the service. Infrastructure and migrations.
