----------------------------- MODULE MCPlatform -----------------------------
(***************************************************************************)
(* The parts of the platform that share no state, each on a small          *)
(* instance of its own.  A behaviour is one of one part: the initial state *)
(* chooses it, and x1 to x9 are the variables of that part, in the order   *)
(* in which its module declares them; those it does not need are None.     *)
(*                                                                         *)
(* Model values stand for whatever a part needs two or three of, so that   *)
(* one symmetry set does for all.                                          *)
(***************************************************************************)
EXTENDS Integers, TLC

CONSTANTS
  None,
  Parts,                           \* the parts that are checked
  DoubledJobs,                     \* the jobs there may be of the part "doubling"
  s1, s2, s3,                      \* sessions, threads, uploads
  a1, a2, b1, b2, c1, c2, d3, e3   \* rows, workers and contents

VARIABLES part, x1, x2, x3, x4, x5, x6, x7, x8, x9

vars == <<part, x1, x2, x3, x4, x5, x6, x7, x8, x9>>

Sessions == {s1, s2}
ThreeSessions == {s1, s2, s3}
TwoRows == {a1, a2}

-----------------------------------------------------------------------------
(* The parts *)

Queue == INSTANCE AiJobs WITH
  Jobs <- {b1, b2}, Requests <- {d3}, Workers <- {a1, a2},
  MaxAttempts <- 2, MaxRetries <- 1, Limit <- 2, Late <- FALSE, Together <- FALSE,
  jobs <- x1, due <- x2, aged <- x3, requests <- x4, generation <- x5,
  worker <- x6, session <- x7

\* A user sends a retry twice.
Doubling == INSTANCE AiJobs WITH
  Jobs <- DoubledJobs, Requests <- {e3}, Workers <- {s3},
  MaxAttempts <- 1, MaxRetries <- 1, Limit <- 2, Late <- FALSE, Together <- TRUE,
  jobs <- x1, due <- x2, aged <- x3, requests <- x4, generation <- x5,
  worker <- x6, session <- x7

Breaker == INSTANCE CircuitBreaker WITH
  Threads <- Sessions, Threshold <- 2, MaxTries <- 2, MaxCount <- 3,
  count <- x1, opened <- x2, up <- x3, thread <- x4

\* Requests about memberships overlap as they like, but a user checks out once at a time
\* and a failure is never settled beside another notice of its payment (SettledAlike).
SubscriptionOps == {"checkout", "settle", "cancel", "batch"}
AnyTwo == {{o, p} : o, p \in SubscriptionOps} \ {{"checkout"}}

Renewals == INSTANCE Subscriptions WITH
  Users <- {d3}, Memberships <- {a1}, Payments <- {b1, b2},
  Plans <- {2}, GraceDays <- 1, MaxRedemptions <- 1, Horizon <- 3, Races <- AnyTwo,
  membership <- x1, payment <- x2, redeemed <- x3, redemptions <- x4, now <- x5, tx <- x6,
  anchor <- x7

\* Two successful notices of one payment, and nothing else side by side.
Notified == INSTANCE Subscriptions WITH
  Users <- {d3}, Memberships <- {a1}, Payments <- {b1},
  Plans <- {1}, GraceDays <- 1, MaxRedemptions <- 1, Horizon <- 1, Races <- {{"settle"}},
  membership <- x1, payment <- x2, redeemed <- x3, redemptions <- x4, now <- x5, tx <- x6,
  anchor <- x7

\* Two users check out with one coupon, side by side.
Couponed == INSTANCE Subscriptions WITH
  Users <- {c1, c2}, Memberships <- TwoRows, Payments <- {b1, b2},
  Plans <- {1}, GraceDays <- 1, MaxRedemptions <- 2, Horizon <- 1,
  Races <- {{"checkout"}, {"checkout", "settle"}},
  membership <- x1, payment <- x2, redeemed <- x3, redemptions <- x4, now <- x5, tx <- x6,
  anchor <- x7

\* One request at a time.
Orderly == INSTANCE Subscriptions WITH
  Users <- {c1, c2}, Memberships <- TwoRows, Payments <- {b1, b2}, Sessions <- {s1},
  Plans <- {1}, GraceDays <- 1, MaxRedemptions <- 1, Horizon <- 3, Races <- {},
  membership <- x1, payment <- x2, redeemed <- x3, redemptions <- x4, now <- x5, tx <- x6,
  anchor <- x7

Quota == INSTANCE Quotas WITH
  Users <- {d3}, Sessions <- ThreeSessions, Limits <- {2, None}, MaxMonth <- 2, MaxUses <- 4,
  plan <- x1, usage <- x2, uses <- x3, month <- x4, request <- x5

Rating == INSTANCE Reviews WITH
  Bookings <- TwoRows, Stars <- {1, 5},
  review <- x1, blocked <- x2, rating <- x3, session <- x4, solo <- x5

Social == INSTANCE Engagement WITH
  Users <- TwoRows, Designs <- {d3}, Collections <- {b1, b2},
  Names <- {"Saved Designs", "Bridal"}, SavedDesigns <- "Saved Designs",
  published <- x1, liked <- x2, likeCount <- x3, saveCount <- x4, collection <- x5,
  items <- x6, session <- x7

Onboarding == INSTANCE Verification WITH
  Artist <- {s3}, Reviewers <- {s1}, Documents <- TwoRows, Contents <- {b1, b2}, MaxEntries <- 7,
  profile <- x1, document <- x2, log <- x3, session <- x4, submitted <- x5

Imaging == INSTANCE DesignImages WITH
  Images <- TwoRows, Uploads <- Sessions, Files <- {b1, b2}, Together <- FALSE,
  Losing <- TRUE, image <- x1, stored <- x2, upload <- x3

\* The server stays: whatever fails is the storage service.
Storing == INSTANCE DesignImages WITH
  Images <- TwoRows, Uploads <- Sessions, Files <- {b1, b2}, Together <- FALSE,
  Losing <- FALSE, image <- x1, stored <- x2, upload <- x3

Portfolio == INSTANCE Catalogue WITH
  Designs <- {a1, a2, d3}, Owner <- {s3}, Staff <- {s1}, Limits <- {1, 2}, Overtaking <- FALSE,
  status <- x1, limit <- x2, request <- x3, ruling <- x4

Deletion == INSTANCE Accounts WITH
  Users <- TwoRows, Grace <- 1, Overtaking <- FALSE,
  identity <- x1, account <- x2, profile <- x3, consented <- x4, age <- x5, finalized <- x6,
  session <- x7, run <- x8

Lockout == INSTANCE LoginLockout WITH
  Logins <- ThreeSessions, Threshold <- 2, Faults <- FALSE, MaxFails <- 5, MaxLockouts <- 3,
  fails <- x1, expiring <- x2, login <- x3, lockouts <- x4, reached <- x5

\* Redis, or the server, may fail between two commands.
Flaky == INSTANCE LoginLockout WITH
  Logins <- ThreeSessions, Threshold <- 2, Faults <- TRUE, MaxFails <- 5, MaxLockouts <- 3,
  fails <- x1, expiring <- x2, login <- x3, lockouts <- x4, reached <- x5

Calendar == INSTANCE Scheduling WITH
  Rules <- TwoRows, Blocks <- {d3}, DayEnd <- 5, Duration <- 2, Gap <- 0, MaxBookings <- 1,
  Overtaking <- FALSE,
  rules <- x1, blocks <- x2, taken <- x3

Pages == INSTANCE Listing WITH
  Rows <- 1..3, Values <- {0, 2}, Null <- None, PageSize <- 1, Wholly <- TRUE,
  rows <- x1, shown <- x2, walk <- x3

Preview == INSTANCE Previews WITH
  Previews <- TwoRows, Photos <- {b1, b2}, Formats <- {c1, c2}, Together <- FALSE,
  Failing <- FALSE,
  project <- x1, bucket <- x2, session <- x3, interrupted <- x4

\* The bucket refuses deletions and requests are lost.
Outages == INSTANCE Previews WITH
  Previews <- {a1}, Photos <- {b1, b2}, Formats <- {c1, c2}, Together <- FALSE,
  Failing <- TRUE,
  project <- x1, bucket <- x2, session <- x3, interrupted <- x4

Forum == INSTANCE Community WITH
  Comments <- TwoRows, Bodies <- {b1, b2}, Reports <- {c1, c2}, Reporters <- {d3},
  Sessions <- ThreeSessions, Moderators <- {s3},
  comment <- x1, report <- x2, session <- x3

Chat == INSTANCE Messaging WITH
  Conversations <- TwoRows, Parties <- {b1, b2}, Messages <- {c1, c2}, Sessions <- ThreeSessions,
  conversation <- x1, members <- x2, message <- x3, notified <- x4, passed <- x5,
  blocked <- x6, session <- x7

\* Two designs embedded and compared again and again by two workers.
Vision == INSTANCE DesignAi WITH
  Designs <- TwoRows, Looks <- {b1, b2}, Tags <- {}, Workers <- Sessions, Deciders <- {},
  Features <- {"embedding"}, MaxRequests <- 3,
  ready <- x1, embedding <- x2, suggestion <- x3, match <- x4, jobs <- x5, run <- x6,
  decision <- x7

\* The staff decides about duplicates meanwhile.
Verdicts == INSTANCE DesignAi WITH
  Designs <- TwoRows, Looks <- {b1, b2}, Tags <- {}, Workers <- Sessions, Deciders <- {s3},
  Features <- {"embedding"}, MaxRequests <- 2,
  ready <- x1, embedding <- x2, suggestion <- x3, match <- x4, jobs <- x5, run <- x6,
  decision <- x7

\* One design: suggested tags and moderation.
Tagging == INSTANCE DesignAi WITH
  Designs <- {d3}, Looks <- {e3}, Tags <- {c1}, Workers <- Sessions, Deciders <- {s3},
  Features <- {"tags", "moderation"}, MaxRequests <- 3,
  ready <- x1, embedding <- x2, suggestion <- x3, match <- x4, jobs <- x5, run <- x6,
  decision <- x7

Following == INSTANCE Audience WITH
  Users <- TwoRows, MaxViews <- 2,
  follows <- x1, followers <- x2, blocked <- x3, published <- x4, key <- x5, views <- x6,
  counted <- x7, session <- x8

Campaign == INSTANCE Campaigns WITH
  Users <- TwoRows, Campaigns <- {d3}, Admins <- Sessions, Together <- FALSE,
  active <- x1, switchedOn <- x2, campaign <- x3, inbox <- x4, sending <- x5

\* The newest design shares a category with the next one.
Feed == INSTANCE Recommendations WITH
  Designs <- 1..3, CategoryOf <- <<{"arabic"}, {"arabic", "bridal"}, {"bridal"}>>, Viewer <- d3,
  Window <- 0, Lookback <- 0, Limit <- 1, TopCategories <- 1,
  Types <- {"design_viewed", "design_liked"}, MaxEvents <- 2, LastDay <- 1,
  enabled <- x1, published <- x2, consent <- x3, asked <- x4, events <- x5, today <- x6,
  feed <- x7

\* One booking of one artist, with a price of three units and a deposit of one.
PaymentOps == {"order", "webhook", "reconcile", "request", "approve", "reject",
               "refund_webhook", "payout"}

\* A customer fails and tries again; nothing runs beside anything else.
Retrying == INSTANCE Payments WITH
  Bookings <- {d3}, Artists <- {d3}, ArtistOf <- d3 :> d3, Total <- d3 :> 3, Deposit <- d3 :> 1,
  Orders <- TwoRows, Refunds <- {}, Payouts <- {}, ProviderRefunds <- {}, Sessions <- {s1},
  Keys <- {}, MaxAttempts <- 2, Offered <- {"order", "webhook", "reconcile"}, Races <- {},
  booking <- x1, payments <- x2, earnings <- x3, refunds <- x4, payouts <- x5, ledger <- x6,
  tx <- x7, attempts <- x8, prefunds <- x9

\* Orders and refunds, one after the other; a third order follows a
\* deposit that was refunded.
Charging == INSTANCE Payments WITH
  Bookings <- {d3}, Artists <- {d3}, ArtistOf <- d3 :> d3, Total <- d3 :> 3, Deposit <- d3 :> 1,
  Orders <- {b1, b2, e3}, Refunds <- {s3}, Payouts <- {}, ProviderRefunds <- {c1},
  Sessions <- {s1}, Keys <- {}, MaxAttempts <- 1,
  Offered <- {"order", "webhook", "request", "approve", "refund_webhook"}, Races <- {},
  booking <- x1, payments <- x2, earnings <- x3, refunds <- x4, payouts <- x5, ledger <- x6,
  tx <- x7, attempts <- x8, prefunds <- x9

\* Refunds race with everything, orders are asked for again with an idempotency key; but
\* nobody rejects a refund that is being approved.
Refunding == INSTANCE Payments WITH
  Bookings <- {d3}, Artists <- {d3}, ArtistOf <- d3 :> d3, Total <- d3 :> 3, Deposit <- d3 :> 1,
  Orders <- {e3}, Refunds <- TwoRows, Payouts <- {c1}, ProviderRefunds <- {b1, b2},
  Keys <- {a1}, MaxAttempts <- 1, Offered <- PaymentOps,
  Races <- {{o, p} : o, p \in PaymentOps} \ {{"payout"}, {"approve", "reject"}},
  booking <- x1, payments <- x2, earnings <- x3, refunds <- x4, payouts <- x5, ledger <- x6,
  tx <- x7, attempts <- x8, prefunds <- x9

-----------------------------------------------------------------------------

\* The variables a part does not use, the last ones first.
Unused1 == x9 = None
Unused2 == Unused1 /\ x8 = None
Unused4 == Unused2 /\ x7 = None /\ x6 = None
Unused5 == Unused4 /\ x5 = None
Unused6 == Unused5 /\ x4 = None

Init ==
  /\ part \in Parts
  /\ \/ part = "queue" /\ Queue!Init /\ Unused2
     \/ part = "doubling" /\ Doubling!Init /\ Unused2
     \/ part = "breaker" /\ Breaker!Init /\ Unused5
     \/ part = "renewals" /\ Renewals!Init /\ Unused2
     \/ part = "notified" /\ Notified!Init /\ Unused2
     \/ part = "couponed" /\ Couponed!Init /\ Unused2
     \/ part = "orderly" /\ Orderly!Init /\ Unused2
     \/ part = "quota" /\ Quota!Init /\ Unused4
     \/ part = "rating" /\ Rating!Init /\ Unused4
     \/ part = "social" /\ Social!Init /\ Unused2
     \/ part = "onboarding" /\ Onboarding!Init /\ Unused4
     \/ part = "imaging" /\ Imaging!Init /\ Unused6
     \/ part = "storing" /\ Storing!Init /\ Unused6
     \/ part = "portfolio" /\ Portfolio!Init /\ Unused5
     \/ part = "deletion" /\ Deletion!Init /\ Unused1
     \/ part = "lockout" /\ Lockout!Init /\ Unused4
     \/ part = "flaky" /\ Flaky!Init /\ Unused4
     \/ part = "calendar" /\ Calendar!Init /\ Unused6
     \/ part = "pages" /\ Pages!Init /\ Unused6
     \/ part = "preview" /\ Preview!Init /\ Unused5
     \/ part = "outages" /\ Outages!Init /\ Unused5
     \/ part = "forum" /\ Forum!Init /\ Unused6
     \/ part = "chat" /\ Chat!Init /\ Unused2
     \/ part = "vision" /\ Vision!Init /\ Unused2
     \/ part = "verdicts" /\ Verdicts!Init /\ Unused2
     \/ part = "tagging" /\ Tagging!Init /\ Unused2
     \/ part = "following" /\ Following!Init /\ Unused1
     \/ part = "campaign" /\ Campaign!Init /\ Unused4
     \/ part = "feed" /\ Feed!Init /\ Unused2
     \/ part = "retrying" /\ Retrying!Init
     \/ part = "charging" /\ Charging!Init
     \/ part = "refunding" /\ Refunding!Init

Next ==
  \/ part = "queue" /\ Queue!Next /\ UNCHANGED <<part, x8, x9>>
  \/ part = "doubling" /\ Doubling!Next /\ UNCHANGED <<part, x8, x9>>
  \/ part = "breaker" /\ Breaker!Next /\ UNCHANGED <<part, x5, x6, x7, x8, x9>>
  \/ part = "renewals" /\ Renewals!Next /\ Renewals!SettledAlike' /\ UNCHANGED <<part, x8, x9>>
  \/ part = "notified" /\ Notified!Next /\ Notified!SettledAlike' /\ UNCHANGED <<part, x8, x9>>
  \/ part = "couponed" /\ Couponed!Next /\ UNCHANGED <<part, x8, x9>>
  \/ part = "orderly" /\ Orderly!Next /\ UNCHANGED <<part, x8, x9>>
  \/ part = "quota" /\ Quota!Next /\ UNCHANGED <<part, x6, x7, x8, x9>>
  \/ part = "rating" /\ Rating!Next /\ UNCHANGED <<part, x6, x7, x8, x9>>
  \/ part = "social" /\ Social!Next /\ UNCHANGED <<part, x8, x9>>
  \/ part = "onboarding" /\ Onboarding!Next /\ UNCHANGED <<part, x6, x7, x8, x9>>
  \/ part = "imaging" /\ Imaging!Next /\ UNCHANGED <<part, x4, x5, x6, x7, x8, x9>>
  \/ part = "storing" /\ Storing!Next /\ UNCHANGED <<part, x4, x5, x6, x7, x8, x9>>
  \/ part = "portfolio" /\ Portfolio!Next /\ UNCHANGED <<part, x5, x6, x7, x8, x9>>
  \/ part = "deletion" /\ Deletion!Next /\ UNCHANGED <<part, x9>>
  \/ part = "lockout" /\ Lockout!Next /\ UNCHANGED <<part, x6, x7, x8, x9>>
  \/ part = "flaky" /\ Flaky!Next /\ UNCHANGED <<part, x6, x7, x8, x9>>
  \/ part = "calendar" /\ Calendar!Next /\ UNCHANGED <<part, x4, x5, x6, x7, x8, x9>>
  \/ part = "pages" /\ Pages!Next /\ UNCHANGED <<part, x4, x5, x6, x7, x8, x9>>
  \/ part = "preview" /\ Preview!Next /\ UNCHANGED <<part, x5, x6, x7, x8, x9>>
  \/ part = "outages" /\ Outages!Next /\ UNCHANGED <<part, x5, x6, x7, x8, x9>>
  \/ part = "forum" /\ Forum!Next /\ UNCHANGED <<part, x4, x5, x6, x7, x8, x9>>
  \/ part = "chat" /\ Chat!Next /\ UNCHANGED <<part, x8, x9>>
  \/ part = "vision" /\ Vision!Next /\ UNCHANGED <<part, x8, x9>>
  \/ part = "verdicts" /\ Verdicts!Next /\ UNCHANGED <<part, x8, x9>>
  \/ part = "tagging" /\ Tagging!Next /\ UNCHANGED <<part, x8, x9>>
  \/ part = "following" /\ Following!Next /\ UNCHANGED <<part, x9>>
  \/ part = "campaign" /\ Campaign!Next /\ UNCHANGED <<part, x6, x7, x8, x9>>
  \/ part = "feed" /\ Feed!Next /\ UNCHANGED <<part, x8, x9>>
  \/ part = "retrying" /\ Retrying!Next /\ UNCHANGED part
  \/ part = "charging" /\ Charging!Next /\ UNCHANGED part
  \/ part = "refunding" /\ Refunding!Next /\ UNCHANGED part

Spec == Init /\ [][Next]_vars

AllParts ==
  {"queue", "doubling", "breaker", "renewals", "notified", "couponed", "orderly", "quota",
   "rating", "social", "onboarding", "imaging", "storing", "portfolio", "deletion", "lockout",
   "flaky", "calendar", "pages", "preview", "outages", "forum", "chat", "vision", "verdicts",
   "tagging", "following", "campaign", "retrying", "charging", "refunding", "feed"}

StoringOnly == {"storing"}
DoublingOnly == {"doubling"}
ThreeJobs == {a1, a2, d3}
OrderlyOnly == {"orderly"}

\* Whatever is interchangeable in every part that uses it.
Interchangeable ==
  Permutations({s1, s2}) \cup Permutations({a1, a2}) \cup Permutations({b1, b2})

-----------------------------------------------------------------------------
(* What is checked; the parts of each are stated where they are defined. *)

\* Every part keeps its types.
TypesOK ==
  /\ part = "queue" => Queue!TypeOK
  /\ part = "doubling" => Doubling!TypeOK
  /\ part = "breaker" => Breaker!TypeOK
  /\ part = "renewals" => Renewals!TypeOK
  /\ part = "notified" => Notified!TypeOK
  /\ part = "couponed" => Couponed!TypeOK
  /\ part = "orderly" => Orderly!TypeOK
  /\ part = "quota" => Quota!TypeOK
  /\ part = "rating" => Rating!TypeOK
  /\ part = "social" => Social!TypeOK
  /\ part = "onboarding" => Onboarding!TypeOK
  /\ part = "imaging" => Imaging!TypeOK
  /\ part = "storing" => Storing!TypeOK
  /\ part = "portfolio" => Portfolio!TypeOK
  /\ part = "deletion" => Deletion!TypeOK
  /\ part = "lockout" => Lockout!TypeOK
  /\ part = "flaky" => Flaky!TypeOK
  /\ part = "calendar" => Calendar!TypeOK
  /\ part = "pages" => Pages!TypeOK
  /\ part = "preview" => Preview!TypeOK
  /\ part = "outages" => Outages!TypeOK
  /\ part = "forum" => Forum!TypeOK
  /\ part = "chat" => Chat!TypeOK
  /\ part = "vision" => Vision!TypeOK
  /\ part = "verdicts" => Verdicts!TypeOK
  /\ part = "tagging" => Tagging!TypeOK
  /\ part = "following" => Following!TypeOK
  /\ part = "campaign" => Campaign!TypeOK
  /\ part = "feed" => Feed!TypeOK
  /\ part = "retrying" => Retrying!TypeOK
  /\ part = "charging" => Charging!TypeOK
  /\ part = "refunding" => Refunding!TypeOK

\* The queue never tries a job too often, shows each user where the request stands
\* and counts each retry (worker crashes, stuck jobs put back, concurrent users); and
\* when the jobs of two designs that look alike are done, the staff was told.
QueueIsHonest ==
  /\ part = "queue" => Queue!AttemptsBounded /\ Queue!ShownStatusAgrees /\ Queue!RetriesCounted
  /\ part = "doubling" => Doubling!AttemptsBounded
  /\ part = "vision" => Vision!NoDuplicateMissed

\* Nobody has a design generated more often than its first request and its retries.
RetriesAreCapped == part = "doubling" => Doubling!RetriesCapped

\* What is done or decided stays so: a completed job, a review of a generated
\* design, of a suggested tag or of a duplicate, a moderator's verdict on a report, the credit
\* of a payment whose customer failed and tried again.
DecisionsStand ==
  [][ /\ part = "queue" => Queue!CompletedStaysSo /\ Queue!DecidedStaysSo
      /\ part = "doubling" => Doubling!CompletedStaysSo
      /\ part = "forum" => Forum!ClosedStaysSo
      /\ part = "verdicts" => Verdicts!DecidedStaysSo
      /\ part = "tagging" => Tagging!DecidedStaysSo
      /\ part = "retrying" => Retrying!SettledStaysSo ]_vars

\* A call that may have arrived is not sent again, and threads that fail at once
\* never leave the breaker closed at its threshold.
BreakerIsSafe == part = "breaker" => Breaker!BreakerIsSafe

\* A membership that entitles was paid for, also when its payment is settled twice at a
\* time; and one request after the other, renewals keep the billing date and coupons are
\* redeemed as often as is counted.
MembershipsArePaid ==
  /\ part = "renewals" => Renewals!EntitledIsPaid
  /\ part = "notified" => Notified!EntitledIsPaid
  /\ part = "orderly" => Orderly!MembershipsArePaid

\* A payment that fails gives a grace period only to who has a membership to protect.
GraceProtects == [][part = "orderly" => Orderly!GraceIsForMembers]_vars

\* Counters kept beside the rows they count.  Likes, saves, followers and recipients agree
\* with the rows; views, uses of a month and redemptions of a coupon are never counted that
\* were not made; and a rating that overlapping reviews left wrong is right again after the
\* next one that nothing overlaps.
CountersHold ==
  /\ part = "social" => Social!LikesCounted /\ Social!SavesCounted
  /\ part = "following" => Following!FollowersCounted /\ Following!VisitCountedOnce
  /\ part = "campaign" => Campaign!RecipientsCounted
  /\ part = "quota" => Quota!NothingOvercounted
  /\ part = "couponed" => Couponed!NothingOvercounted
  /\ part = "rating" => Rating!SoloRepairs

\* What requests that overlap all find missing is made once: the default collection,
\* an open report, a conversation, the audit entry of a lockout, a campaign's
\* notification of each user.
MadeOnce ==
  /\ part = "social" => Social!OneDefault
  /\ part = "forum" => Forum!OneOpenReport
  /\ part = "chat" => Chat!OneConversation
  /\ part = "campaign" => Campaign!CampaignShownOnce
  /\ part = "lockout" => Lockout!LockoutRecordedOnce
  /\ part = "flaky" => Flaky!LockoutRecordedOnce

\* An artist was approved for what the reviewer saw, is shown no reason of a review
\* that is over, and each audit entry starts where the one before ended.
VerificationIsSound == part = "onboarding" => Onboarding!VerificationIsSound

\* Rows and the objects they name agree, whatever upload, deletion or process fails.
StorageAgrees ==
  /\ part = "imaging" => Imaging!ReadyIsWhole
  /\ part = "preview" => Preview!PathsAreStored /\ Preview!ResultShowsSource /\ Preview!DeletedIsErased
  /\ part = "outages" => Outages!PathsAreStored /\ Outages!ResultShowsSource

\* Whatever the storage service does, no image is left in processing.
ProcessingIsWorkedOn == part = "storing" => Storing!ProcessingIsWorkedOn

\* What the staff ruled about a design stands whatever its owner does, no publication
\* takes a portfolio over its limit, and nobody gets an empty feed of what is published.
CatalogueHolds ==
  [][ /\ part = "portfolio" => Portfolio!RulingStands' /\ Portfolio!AddsWithinLimit
      /\ part = "feed" => Feed!NobodySeesEmpty ]_vars

\* An account that was deleted shows nothing of its user, and was deleted once.
DeletedIsGone == part = "deletion" => Deletion!GoneIsAnonymous /\ Deletion!FinalizedOnce

\* The slots a customer is offered are the artist's free time, do not overlap and
\* are accepted by the booking that follows.
SlotsAreHonest ==
  part = "calendar" =>
    Calendar!FreeIsExact /\ Calendar!OfferedApart /\ Calendar!OfferedIsBookable

\* Who turns pages while rows come, go and change sees none twice and none left out; a
\* feed shows nothing personal without consent and recommends nothing just seen.
ListsAreHonest ==
  /\ part = "pages" => Pages!ListedOnce /\ Pages!NoneLeftOut
  /\ part = "feed" => Feed!PersonalNeedsConsent /\ Feed!SeenIsNotRecommended

\* Refunds agree with what the provider returned, and a rejected one pays nothing; orders
\* ask for no more than the price, also where a deposit was given back.
MoneyAddsUp ==
  /\ part = "refunding" => Refunding!RefundsAddUp /\ Refunding!RejectedIsUnpaid
  /\ part = "charging" => Charging!MoneyAddsUp
=============================================================================
