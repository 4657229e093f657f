---------------------------- MODULE Verification ----------------------------
(***************************************************************************)
(* The application of one artist and its review by the staff               *)
(* (app/services/artist_verification.py, routes/artist_onboarding.py,      *)
(* routes/admin_artist_verification.py).                                   *)
(*                                                                         *)
(* Requests of the artist and of reviewers are sessions that read and      *)
(* check, then write what they have set to another value than they read    *)
(* (Emit), each with a row of the audit log.                               *)
(***************************************************************************)
EXTENDS Integers, Sequences

CONSTANTS
  Artist, Reviewers,   \* sessions: sets of requests that may be under way at once
  Documents,           \* identity documents
  None,
  Contents,            \* what the profile may say; the fields required are there in all but None
  MaxEntries           \* bound: status changes in the audit log

VARIABLES
  profile,     \* the row of artist_profiles
  document,    \* artist_documents: the status of each identity document
  log,         \* audit_logs: the changes of the status, before and after
  session,
  submitted    \* history: the content that was last submitted

vars == <<profile, document, log, session, submitted>>

Sessions == Artist \cup Reviewers

Status == {"none", "draft", "submitted", "under_review", "more_information_required",
           "approved", "rejected", "suspended"}

\* A reason or request for information is there or not; its text is left out.
Profile == [status : Status, content : Contents \cup {None}, reason : BOOLEAN, info : BOOLEAN]

SelfTransitions == {"draft", "rejected", "more_information_required"} \X {"submitted"}

\* Variant: staff may also decide on what they have sent back.
StaffTransitionsReopened ==
  {<<"submitted", "under_review">>, <<"approved", "suspended">>, <<"suspended", "approved">>}
    \cup ({"under_review", "more_information_required"}
            \X {"approved", "rejected", "more_information_required"})

StaffTransitions ==
  {<<"submitted", "under_review">>, <<"approved", "suspended">>, <<"suspended", "approved">>}
    \cup ({"under_review"} \X {"approved", "rejected", "more_information_required"})

\* Variant: an application may be edited until its review begins.
EditableUntilReviewed == {"draft", "submitted", "rejected", "more_information_required"}

Editable == {"draft", "rejected", "more_information_required"}

Idle == [at |-> "idle"]

Init ==
  /\ profile = [status |-> "none", content |-> None, reason |-> FALSE, info |-> FALSE]
  /\ document = [d \in Documents |-> "none"]
  /\ log = << >>
  /\ session = [s \in Sessions |-> Idle]
  /\ submitted = None

Emit(seen, new, now) == IF new = seen THEN now ELSE new

Go(s, t) == session' = [session EXCEPT ![s] = t]

Begin(s, t) ==
  /\ session[s] = Idle
  /\ Go(s, t)
  /\ UNCHANGED <<profile, document, log, submitted>>

\* The session commits the profile it has made of the one it read.
Write(s, next) ==
  LET row == session[s].row IN
  /\ profile' = [f \in DOMAIN profile |-> Emit(row[f], next[f], profile[f])]
  /\ Go(s, Idle)

-----------------------------------------------------------------------------
(* The artist *)

\* get_or_create_draft_profile, on the first visit; the customer becomes an artist.
Start ==
  /\ profile.status = "none"
  /\ profile' = [profile EXCEPT !.status = "draft"]
  /\ UNCHANGED <<document, log, session, submitted>>

CheckEdit(s, content) ==
  /\ profile.status \in Editable
  /\ Begin(s, [at |-> "edit", row |-> profile, content |-> content])

Edit(s) ==
  /\ session[s].at = "edit"
  /\ Write(s, [session[s].row EXCEPT !.content = session[s].content])
  /\ UNCHANGED <<document, log, submitted>>

CheckUpload(s, d) ==
  /\ profile.status \in Editable /\ document[d] = "none"
  /\ Begin(s, [at |-> "upload", document |-> d])

\* The file is stored first; the row may be written long after the check.
Upload(s) ==
  /\ session[s].at = "upload" /\ document[session[s].document] = "none"
  /\ document' = [document EXCEPT ![session[s].document] = "pending"]
  /\ Go(s, Idle)
  /\ UNCHANGED <<profile, log, submitted>>

\* missing_submission_requirements
Complete == profile.content # None /\ \E d \in Documents : document[d] \in {"pending", "approved"}

CheckSubmit(s) ==
  /\ <<profile.status, "submitted">> \in SelfTransitions
  /\ Complete
  /\ Begin(s, [at |-> "submit", row |-> profile])

\* Variant: the answer of the last review is left on the profile.
SubmittedAsIs(row) == [row EXCEPT !.status = "submitted"]

Submitted(row) == [row EXCEPT !.status = "submitted", !.reason = FALSE, !.info = FALSE]

Record(from, to) ==
  /\ Len(log) < MaxEntries
  /\ log' = Append(log, <<from, to>>)

Submit(s) ==
  LET row == session[s].row IN
  /\ session[s].at = "submit"
  /\ Write(s, Submitted(row))
  /\ Record(row.status, "submitted")
  /\ submitted' = row.content
  /\ UNCHANGED document

-----------------------------------------------------------------------------
(* The staff *)

\* start-review, approve, reject, request-more-information, suspend and reactivate
\* differ in the status they set; reactivate and approve set the same.
CheckDecide(s, to) ==
  /\ <<profile.status, to>> \in StaffTransitions
  /\ Begin(s, [at |-> "decide", row |-> profile, to |-> to])

\* apply_staff_transition
Decided(row, to) ==
  [row EXCEPT !.status = to,
              !.reason = to \in {"rejected", "suspended"},
              !.info = (to = "more_information_required")]

Decide(s) ==
  LET t == session[s] IN
  /\ t.at = "decide"
  /\ Write(s, Decided(t.row, t.to))
  /\ Record(t.row.status, t.to)
  /\ UNCHANGED <<document, submitted>>

\* review_document: at any time, and as often as one likes.
ReviewDocument(d) ==
  /\ document[d] # "none"
  /\ \E verdict \in {"approved", "rejected"} : document' = [document EXCEPT ![d] = verdict]
  /\ UNCHANGED <<profile, log, session, submitted>>

\* Refused, or the server is lost before the commit.
Abort(s) ==
  /\ session[s] # Idle
  /\ Go(s, Idle)
  /\ UNCHANGED <<profile, document, log, submitted>>

Next ==
  \/ Start
  \/ \E s \in Artist :
       \/ \E c \in Contents \cup {None} : CheckEdit(s, c)
       \/ \E d \in Documents : CheckUpload(s, d)
       \/ CheckSubmit(s) \/ Edit(s) \/ Upload(s) \/ Submit(s)
  \/ \E s \in Reviewers : (\E to \in Status : CheckDecide(s, to)) \/ Decide(s)
  \/ \E d \in Documents : ReviewDocument(d)
  \/ \E s \in Sessions : Abort(s)

Spec == Init /\ [][Next]_vars

-----------------------------------------------------------------------------

TypeOK ==
  /\ profile \in Profile
  /\ document \in [Documents -> {"none", "pending", "approved", "rejected"}]
  /\ Len(log) <= MaxEntries
  /\ submitted \in Contents \cup {None}

\* What the staff decides on, and what the public then sees as approved, is what
\* the artist submitted: nothing of it changes until the staff sends it back.
ReviewedAsSubmitted ==
  profile.status \notin Editable \cup {"none"} =>
    profile.content = submitted /\ submitted # None

\* The artist reads the answer of the last decision, and none that is out of date.
NoStaleReason ==
  /\ profile.reason <=> profile.status \in {"rejected", "suspended"}
  /\ profile.info <=> profile.status = "more_information_required"

\* The audit log tells the history: it starts at the draft, each entry begins where
\* the one before it ended, and the last ends at the status of now.
AuditChained ==
  LET before(i) == IF i = 1 THEN "draft" ELSE log[i - 1][2] IN
  /\ \A i \in 1..Len(log) : log[i][1] = before(i)
  /\ profile.status # "none" => profile.status = before(Len(log) + 1)

\* An artist was approved for what the reviewer saw, is shown no reason of a review
\* that is over, and each audit entry starts where the one before ended.
VerificationIsSound == ReviewedAsSubmitted /\ NoStaleReason /\ AuditChained
=============================================================================
