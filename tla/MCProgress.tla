----------------------------- MODULE MCProgress -----------------------------
(***************************************************************************)
(* What must come about, in the parts whose scheduling the code lets one   *)
(* be fair about.  As in MCPlatform a behaviour is one of one part, and x1 *)
(* to x9 are the variables of that part in the order of its module.        *)
(*                                                                         *)
(* The fairness of a part is that of its module, stated again with the     *)
(* part as a guard: WF of an action that can never be taken asks nothing.  *)
(* One SF serves an action of each part: the part never changes, so it is   *)
(* SF of the one action that can be taken.                                  *)
(***************************************************************************)
EXTENDS Integers, TLC

CONSTANTS None, s1, s2, a1, a2, b1, b2

VARIABLES part, x1, x2, x3, x4, x5, x6, x7, x8, x9

vars == <<part, x1, x2, x3, x4, x5, x6, x7, x8, x9>>

Sessions == {s1, s2}
Ordered == {b1, b2}

-----------------------------------------------------------------------------
(* The parts *)

Sat600 == [date |-> "sat", time |-> 600, service |-> "bridal", contact |-> TRUE]
Hours == [date |-> "sat", from |-> 540, to |-> 780]

Desk == INSTANCE Booking WITH
  Artists <- {"asha"}, Bookings <- {b1, b2}, Quotes <- {a1, a2},
  Services <- {"bridal"}, Dates <- {"sat"}, Times <- {600, 660},
  ArtistOf <- [b \in {b1, b2} |-> "asha"], Duration <- [bridal |-> 60], Gap <- [bridal |-> 0],
  DepositRequired <- {"bridal"}, DaysOff <- [asha |-> {}], TimeBlocks <- [asha |-> {}],
  Hours <- [asha |-> {Hours}], Forms <- {Sat600},
  Offered <- {"patch", "submit", "quote", "accept", "reschedule"},
  Races <- {"accept", "reschedule"},
  bookings <- x1, quotes <- x2, history <- x3, tx <- x4, lock <- x5

Queue == INSTANCE AiJobs WITH
  Jobs <- {b1, b2}, Requests <- {a1}, Workers <- {s2}, Sessions <- {s1},
  MaxAttempts <- 2, MaxRetries <- 1, Limit <- 2, Late <- FALSE, Together <- FALSE,
  jobs <- x1, due <- x2, aged <- x3, requests <- x4, generation <- x5, worker <- x6, session <- x7

Breaker == INSTANCE CircuitBreaker WITH
  Threads <- Sessions, Threshold <- 2, MaxTries <- 2, MaxCount <- 2,
  count <- x1, opened <- x2, up <- x3, thread <- x4

Memberships == INSTANCE Subscriptions WITH
  Users <- {s2}, Memberships <- {a1}, Payments <- {b1, b2}, Sessions <- {s1},
  Plans <- {1}, GraceDays <- 1, MaxRedemptions <- 1, Horizon <- 3, Races <- {},
  membership <- x1, payment <- x2, redeemed <- x3, redemptions <- x4, now <- x5, tx <- x6,
  anchor <- x7

Deletion == INSTANCE Accounts WITH
  Users <- {a1}, Grace <- 2, Overtaking <- TRUE,
  identity <- x1, account <- x2, profile <- x3, consented <- x4, age <- x5, finalized <- x6,
  session <- x7, run <- x8

Lockout == INSTANCE LoginLockout WITH
  Logins <- Sessions, Threshold <- 2, Faults <- FALSE, MaxFails <- 4, MaxLockouts <- 2,
  fails <- x1, expiring <- x2, login <- x3, lockouts <- x4, reached <- x5

\* Every notice of the provider may be lost.
Charging == INSTANCE Payments WITH
  Bookings <- {a1}, Artists <- {a1}, ArtistOf <- a1 :> a1, Total <- a1 :> 3, Deposit <- a1 :> 1,
  Orders <- Ordered, Refunds <- {}, Payouts <- {}, ProviderRefunds <- {}, Sessions <- {s1},
  Keys <- {}, MaxAttempts <- 1, Offered <- {"order", "webhook", "reconcile"}, Races <- {},
  booking <- x1, payments <- x2, earnings <- x3, refunds <- x4, payouts <- x5, ledger <- x6,
  tx <- x7, attempts <- x8, prefunds <- x9

-----------------------------------------------------------------------------

\* The variables a part does not use, the last ones first.
Unused1 == x9 = None
Unused2 == Unused1 /\ x8 = None
Unused4 == Unused2 /\ x7 = None /\ x6 = None
Unused5 == Unused4 /\ x5 = None

Init ==
  \/ part = "desk" /\ Desk!Init /\ Unused4
  \/ part = "queue" /\ Queue!Init /\ Unused2
  \/ part = "breaker" /\ Breaker!Init /\ Unused5
  \/ part = "memberships" /\ Memberships!Init /\ Unused2
  \/ part = "deletion" /\ Deletion!Init /\ Unused1
  \/ part = "lockout" /\ Lockout!Init /\ Unused4
  \/ part = "charging" /\ Charging!Init

Next ==
  \/ part = "desk" /\ Desk!Next /\ UNCHANGED <<part, x6, x7, x8, x9>>
  \/ part = "queue" /\ Queue!Next /\ UNCHANGED <<part, x8, x9>>
  \/ part = "breaker" /\ Breaker!Next /\ UNCHANGED <<part, x5, x6, x7, x8, x9>>
  \/ part = "memberships" /\ Memberships!Next /\ UNCHANGED <<part, x8, x9>>
  \/ part = "deletion" /\ Deletion!Next /\ UNCHANGED <<part, x9>>
  \/ part = "lockout" /\ Lockout!Next /\ UNCHANGED <<part, x6, x7, x8, x9>>
  \/ part = "charging" /\ Charging!Next /\ UNCHANGED part

Four == <<x1, x2, x3, x4>>
Five == <<x1, x2, x3, x4, x5>>
Seven == <<x1, x2, x3, x4, x5, x6, x7>>
Eight == <<x1, x2, x3, x4, x5, x6, x7, x8>>
Nine == <<x1, x2, x3, x4, x5, x6, x7, x8, x9>>

\* What is taken if it can be taken again and again: the lock of the calendar, and the
\* steps of the commands an operator runs.
Lock(s) == part = "desk" /\ Desk!LockCalendar(s) /\ UNCHANGED <<x6, x7, x8, x9>>
Notice == part = "memberships" /\ Memberships!ReadBatch(s1) /\ UNCHANGED <<x8, x9>>
Noticed == part = "memberships" /\ Memberships!CommitBatch(s1) /\ UNCHANGED <<x8, x9>>
Delete == part = "deletion" /\ Deletion!StartRun /\ UNCHANGED x9
Deleted == part = "deletion" /\ Deletion!EndRun /\ UNCHANGED x9
Reconcile(o) ==
  part = "charging" /\ \E batch \in SUBSET Ordered :
                         o \in batch /\ Charging!StartReconcile(s1, batch)
Ask(o, batch) ==
  part = "charging" /\ x7[s1].op = "reconcile" /\ x7[s1].batch = batch /\ Charging!Poll(s1, o)
Reconciled == part = "charging" /\ Charging!CommitReconcile(s1)

\* Each as in the module of the part.
Fairness ==
  /\ \A s \in Sessions : WF_Five(part = "desk" /\ (Desk!Advance(s) \/ Desk!Refuse(s)))
  /\ WF_Seven(part = "queue" /\ Queue!Work(s2))
  /\ \A j \in {b1, b2} : WF_Seven(part = "queue" /\ Queue!BackoffOver(j))
  /\ WF_Seven(part = "queue" /\ Queue!Age)
  /\ \A s \in Sessions : WF_Four(part = "breaker" /\ Breaker!Call(s))
  /\ WF_Four(part = "breaker" /\ Breaker!ResetTimeout)
  /\ WF_Seven(part = "memberships" /\ Memberships!Tick)
  /\ WF_Seven(part = "memberships" /\
       (Memberships!ReadMembership(s1) \/ Memberships!Commit(s1) \/ Memberships!Abort(s1)))
  /\ WF_Eight(part = "deletion" /\ Deletion!Day)
  /\ \A s \in Sessions : WF_Eight(part = "deletion" /\
       (Deletion!Edit(s) \/ Deletion!Request(s) \/ Deletion!Rule(s) \/ Deletion!Register(s)
          \/ Deletion!Abort(s)))
  /\ WF_Five(part = "lockout" /\ Lockout!Expire)
  /\ \A s \in Sessions : WF_Five(part = "lockout" /\
       (Lockout!SignIn(s) \/ Lockout!Slide(s) \/ Lockout!Audit(s) \/ Lockout!Clear(s)))
  /\ WF_Nine(part = "charging" /\ Charging!Advance(s1))
  /\ SF_Nine(Lock(s1) \/ Notice \/ Delete \/ Reconcile(b1))
  /\ SF_Nine(Lock(s2) \/ Noticed \/ Deleted \/ Reconcile(b2))
  /\ \A o \in Ordered : SF_Nine(Ask(o, {o})) /\ SF_Nine(Ask(o, Ordered))
  /\ SF_Nine(Reconciled)

FairSpec == Init /\ [][Next]_vars /\ Fairness

-----------------------------------------------------------------------------
(* What is checked; each is stated where it is defined. *)

\* Every request about a booking is answered, also when two wait for one calendar.
RequestsEnd ==
  \A s \in Sessions :
    (part = "desk" /\ x4[s].pc # "idle") ~> (part = "desk" /\ x4[s].pc = "idle")

\* Every request for a generated design is completed or failed, whatever workers crash.
RequestAnswered ==
  (part = "queue" /\ x4[a1].made) ~> (part = "queue" /\ Queue!Answered(a1))

\* What is closed for a while opens again once the reason is gone: the breaker is
\* closed when the provider stays up (and open while it stays down), and a lockout
\* ends although logins go on.
ServiceResumes ==
  /\ <>[](part = "breaker" /\ x3) => <>[](part = "breaker" /\ x2 = "none")
  /\ <>[](part = "breaker" /\ ~x3) => <>[](part = "breaker" /\ x2 # "none")
  /\ (part = "lockout" /\ Lockout!LockedOut) ~> (part = "lockout" /\ ~Lockout!LockedOut)

\* No membership stays entitled after its period, or its grace period, is over.
LapsedIsNoticed ==
  (part = "memberships" /\ Memberships!Overstays(a1))
    ~> (part = "memberships" /\ ~Memberships!Overstays(a1))

\* An account that is to be deleted is, unless the staff rules otherwise before.
DeletionEnds ==
  (part = "deletion" /\ Deletion!Leaving(a1)) ~> (part = "deletion" /\ ~Deletion!Leaving(a1))

\* Captured money is credited although no notice ever arrives, if the operator goes on
\* reconciling (docs/payments.md section 10).
CapturedIsCredited ==
  \A o \in Ordered :
    (part = "charging" /\ x2[o].status = "pending" /\ Charging!Captured(o))
      ~> (part = "charging" /\ x2[o].status \in Charging!Credited)
=============================================================================
