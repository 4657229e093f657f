----------------------------- MODULE Catalogue ------------------------------
(***************************************************************************)
(* The portfolio of one artist: designs drafted, published and archived by *)
(* their owner, and moderated by the staff (app/api/routes/designs.py,     *)
(* app/api/routes/admin_designs.py, app/services/entitlements.py).         *)
(*                                                                         *)
(* A request is a session that reads and checks, then writes the status.   *)
(***************************************************************************)
EXTENDS Integers, FiniteSets

CONSTANTS
  Designs,
  Owner, Staff,   \* sessions: sets of requests that may be under way at once
  Limits,         \* what portfolio_limit of the artist's plan may be
  Overtaking      \* whether a request may be overtaken by another or by a change of plan

VARIABLES
  status,    \* designs.status
  limit,     \* the portfolio_limit of the artist's plan
  request,
  ruling     \* history: the status the staff last gave a design, "none" if it has not

vars == <<status, limit, request, ruling>>

Sessions == Owner \cup Staff
Statuses == {"draft", "published", "archived", "flagged"}
Idle == [at |-> "idle"]

Alone == Overtaking \/ \A s \in Sessions : request[s] = Idle

Init ==
  /\ status = [d \in Designs |-> "none"]
  /\ limit \in Limits
  /\ request = [s \in Sessions |-> Idle]
  /\ ruling = [d \in Designs |-> "none"]

\* create_design: a draft, as many as one likes.
Create(d) ==
  /\ status[d] = "none"
  /\ status' = [status EXCEPT ![d] = "draft"]
  /\ UNCHANGED <<limit, request, ruling>>

\* The artist's subscription starts, ends or changes plan: designs stay as they are.
ChangePlan ==
  /\ limit' \in Limits
  /\ Alone
  /\ UNCHANGED <<status, request, ruling>>

Begin(s, d, to) ==
  /\ request[s] = Idle
  /\ Alone
  /\ request' = [request EXCEPT ![s] = [at |-> "write", design |-> d, to |-> to]]
  /\ UNCHANGED <<status, limit, ruling>>

Published == {d \in Designs : status[d] = "published"}

\* Variant: the design to be published is not counted.
CapacityOffByOne == Cardinality(Published) <= limit

\* require_portfolio_capacity
Capacity == Cardinality(Published) < limit

\* DESIGN_OWNER_STATUS_TRANSITIONS, by update_design
Toggle(s, d) ==
  \/ status[d] = "draft" /\ Capacity /\ Begin(s, d, "published")
  \/ status[d] = "published" /\ Begin(s, d, "draft")

\* Variant: all that is not archived may be.
ArchivableLive == Statuses \ {"archived"}

Archivable == {"draft", "published"}

Archive(s, d) ==
  /\ status[d] \in Archivable
  /\ Begin(s, d, "archived")

\* moderate_design: publish, unpublish, archive and flag, each with its audit log.
Moderate(s, d, to) ==
  /\ status[d] \notin {"none", to}
  /\ Begin(s, d, to)

\* The session's commit.
Commit(s) ==
  LET t == request[s] IN
  /\ t # Idle
  /\ status' = [status EXCEPT ![t.design] = t.to]
  /\ ruling' = IF s \in Staff THEN [ruling EXCEPT ![t.design] = t.to] ELSE ruling
  /\ request' = [request EXCEPT ![s] = Idle]
  /\ UNCHANGED limit

Abort(s) ==
  /\ request[s] # Idle
  /\ request' = [request EXCEPT ![s] = Idle]
  /\ UNCHANGED <<status, limit, ruling>>

Next ==
  \/ \E d \in Designs : Create(d)
  \/ ChangePlan
  \/ \E s \in Owner, d \in Designs : Toggle(s, d) \/ Archive(s, d)
  \/ \E s \in Staff, d \in Designs, to \in Statuses : Moderate(s, d, to)
  \/ \E s \in Sessions : Commit(s) \/ Abort(s)

Spec == Init /\ [][Next]_vars

-----------------------------------------------------------------------------

TypeOK ==
  /\ status \in [Designs -> Statuses \cup {"none"}]
  /\ limit \in Limits

\* What the staff has flagged or archived stays as the staff ruled until it rules
\* again: no sequence of requests of the owner brings it back or hides the flag.
\* A request of the owner that is overtaken by the ruling breaks it.
RulingStands ==
  \A d \in Designs : ruling[d] \in {"flagged", "archived"} => status[d] = ruling[d]

\* Publishing never takes a portfolio over the limit: of the designs over it each
\* was there when the plan shrank or was published by the staff.  Two requests
\* that publish at once both read the count of before and break it.
AddsWithinLimit ==
  (\E s \in Owner : request'[s] # request[s]) /\ Cardinality(Published) < Cardinality(Published')
    => Cardinality(Published') <= limit
StaysWithinLimit == [][AddsWithinLimit]_vars
=============================================================================
