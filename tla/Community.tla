----------------------------- MODULE Community -----------------------------
(***************************************************************************)
(* The comments of one design (app/services/comments.py), the reports      *)
(* about them and the moderation queue (app/services/reports.py).          *)
(* Requests are sessions that read rows and write when they commit.        *)
(***************************************************************************)
EXTENDS FiniteSets

CONSTANTS
  Comments, Bodies, None,
  Reports, Reporters,
  Sessions,
  Moderators   \* the sessions of staff

VARIABLES
  comment,     \* comments: status, body and the comment replied to
  report,      \* reports: status, reporter, and what was reported as it was then
  session

vars == <<comment, report, session>>

Open == {"pending", "reviewing"}
Closed == {"resolved", "dismissed"}

Idle == [at |-> "idle"]

Init ==
  /\ comment = [c \in Comments |-> [status |-> "none", body |-> None, parent |-> None]]
  /\ report = [r \in Reports |-> [status |-> "none", by |-> None, on |-> None, body |-> None]]
  /\ session = [s \in Sessions |-> Idle]

Go(s, state) == session' = [session EXCEPT ![s] = state]
End(s) == Go(s, Idle)

-----------------------------------------------------------------------------
(* Comments *)

\* A reply is to a live comment that is not itself a reply.
Repliable(c) == comment[c].status = "live" /\ comment[c].parent = None

ReadParent(s, c, p) ==
  /\ session[s] = Idle /\ s \notin Moderators
  /\ comment[c].status = "none"
  /\ p # None => Repliable(p)
  /\ Go(s, [at |-> "commenting", on |-> c, parent |-> p])
  /\ UNCHANGED <<comment, report>>

Create(s) ==
  LET t == session[s] IN
  /\ t.at = "commenting" /\ comment[t.on].status = "none"
  /\ \E b \in Bodies :
       comment' = [comment EXCEPT ![t.on] = [status |-> "live", body |-> b, parent |-> t.parent]]
  /\ End(s)
  /\ UNCHANGED report

\* The author's request reads the comment; one that is deleted is refused.
ReadOwn(s, c, op) ==
  /\ session[s] = Idle /\ s \notin Moderators
  /\ comment[c].status = "live"
  /\ Go(s, [at |-> op, on |-> c])
  /\ UNCHANGED <<comment, report>>

Update(s) ==
  /\ session[s].at = "editing"
  /\ \E b \in Bodies : comment' = [comment EXCEPT ![session[s].on].body = b]
  /\ End(s)
  /\ UNCHANGED report

SoftDelete(s) ==
  /\ session[s].at = "deleting"
  /\ comment' = [comment EXCEPT ![session[s].on].status = "deleted"]
  /\ End(s)
  /\ UNCHANGED report

-----------------------------------------------------------------------------
(* Reports *)

Pending(u, c) == \E r \in Reports : report[r].status = "pending" /\ report[r].by = u /\ report[r].on = c

\* A deleted comment may still be reported.
LookForPending(s, u, c) ==
  /\ session[s] = Idle /\ s \notin Moderators
  /\ comment[c].status # "none"
  /\ ~Pending(u, c)
  /\ Go(s, [at |-> "reporting", on |-> c, by |-> u])
  /\ UNCHANGED <<comment, report>>

\* Variant: the query alone keeps a second report out.
InsertableAnyway(u, c) == TRUE

\* uq_reports_one_pending_per_reporter_and_target
Insertable(u, c) == ~Pending(u, c)

File(s) ==
  LET t == session[s] IN
  /\ t.at = "reporting" /\ Insertable(t.by, t.on)
  /\ \E r \in Reports :
       /\ report[r].status = "none"
       /\ report' = [report EXCEPT ![r] =
            [status |-> "pending", by |-> t.by, on |-> t.on, body |-> comment[t.on].body]]
  /\ End(s)
  /\ UNCHANGED comment

ReadReport(s, r) ==
  /\ session[s] = Idle /\ s \in Moderators
  /\ report[r].status # "none"
  /\ Go(s, [at |-> "deciding", on |-> r, status |-> report[r].status])
  /\ UNCHANGED <<comment, report>>

\* Variant: a closed report may be decided again.
DecidableAgain(status) == status \in Open \cup Closed

Decidable(status) == status \in Open

Decide(s) ==
  LET t == session[s] IN
  /\ t.at = "deciding" /\ Decidable(t.status)
  /\ \E verdict \in Closed : report' = [report EXCEPT ![t.on].status = verdict]
  /\ End(s)
  /\ UNCHANGED comment

\* Refused, or lost before the commit.
Abort(s) ==
  /\ session[s] # Idle
  /\ End(s)
  /\ UNCHANGED <<comment, report>>

Serve(s) ==
  \/ \E c \in Comments, p \in Comments \cup {None} : ReadParent(s, c, p)
  \/ \E c \in Comments, op \in {"editing", "deleting"} : ReadOwn(s, c, op)
  \/ Create(s) \/ Update(s) \/ SoftDelete(s)
  \/ \E u \in Reporters, c \in Comments : LookForPending(s, u, c)
  \/ File(s)
  \/ \E r \in Reports : ReadReport(s, r)
  \/ Decide(s) \/ Abort(s)

Next == \E s \in Sessions : Serve(s)

Spec == Init /\ [][Next]_vars

-----------------------------------------------------------------------------

TypeOK ==
  /\ comment \in [Comments -> [status : {"none", "live", "deleted"}, body : Bodies \cup {None},
                               parent : Comments \cup {None}]]
  /\ report \in [Reports -> [status : Open \cup Closed \cup {"none"}, by : Reporters \cup {None},
                             on : Comments \cup {None}, body : Bodies \cup {None}]]

\* However their requests overlap, nobody has two open reports of one comment.
OneOpenReport ==
  \A r, q \in Reports :
    report[r].status = "pending" /\ report[q].status = "pending" /\ r # q =>
      <<report[r].by, report[r].on>> # <<report[q].by, report[q].on>>

\* What a moderator decided is not decided again.
ClosedStaysSo ==
  \A r \in Reports : report[r].status \in Closed => report'[r].status = report[r].status
VerdictStands == [][ClosedStaysSo]_vars

\* Staff who review an open report see what was reported.
EvidenceKept ==
  \A r \in Reports : report[r].status \in Open => comment[report[r].on].body = report[r].body
=============================================================================
