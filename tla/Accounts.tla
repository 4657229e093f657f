------------------------------ MODULE Accounts ------------------------------
(***************************************************************************)
(* Accounts: registration, consent, suspension by the staff, and deletion  *)
(* after a period of grace (app/api/routes/auth.py, profile.py,            *)
(* admin_users.py, app/api/deps.py, app/services/account_deletion.py,      *)
(* app/cli/process_account_deletions.py).                                  *)
(*                                                                         *)
(* The identity itself is kept by the authentication service.  A request   *)
(* is a session that reads and checks, then writes what it has changed.    *)
(***************************************************************************)
EXTENDS Integers

CONSTANTS
  Users,
  Sessions,     \* requests that may be under way at once
  Grace,        \* account_deletion_grace_period_days
  Overtaking    \* whether the deletion run may overtake requests of the accounts it deletes

VARIABLES
  identity,     \* users known to the authentication service
  account,      \* the rows of users, "none" where there is none
  profile,      \* profiles: what is in the row of each user
  consented,    \* users with consent_records of the terms
  age,          \* days since deletion was requested, up to Grace
  finalized,    \* audit_logs: entries account.deletion_finalized, up to 2
  session,
  run           \* the deletion run: the accounts it has read, or {}

vars == <<identity, account, profile, consented, age, finalized, session, run>>

NoRow == [status |-> "none"]
Idle == [at |-> "idle"]

Row == [status : {"active", "suspended", "pending_deletion"},
        requested : BOOLEAN,   \* deletion_requested_at is set
        deleted : BOOLEAN,     \* deleted_at is set
        personal : BOOLEAN]    \* email and phone are the person's

New == [status |-> "active", requested |-> FALSE, deleted |-> FALSE, personal |-> TRUE]

Init ==
  /\ identity = {}
  /\ account = [u \in Users |-> NoRow]
  /\ profile = [u \in Users |-> "none"]
  /\ consented = {}
  /\ age = [u \in Users |-> 0]
  /\ finalized = [u \in Users |-> 0]
  /\ session = [s \in Sessions |-> Idle]
  /\ run = {}

Go(s, t) == session' = [session EXCEPT ![s] = t]

Begin(s, t) ==
  /\ session[s] = Idle
  /\ Overtaking \/ run = {}
  /\ Go(s, t)
  /\ UNCHANGED <<identity, account, profile, consented, age, finalized, run>>

\* The session commits the columns of user u's row in which `next` differs from
\* the row it has read.
Write(s, u, next) ==
  /\ account' = [account EXCEPT ![u] =
       [c \in DOMAIN @ |-> IF next[c] = session[s].row[c] THEN @[c] ELSE next[c]]]
  /\ Go(s, Idle)
  /\ UNCHANGED <<identity, profile, consented, age, finalized, run>>

-----------------------------------------------------------------------------
(* The user *)

\* register signs up with the authentication service; the rows follow.
SignUp(s, u) ==
  /\ u \notin identity
  /\ session[s] = Idle
  /\ identity' = identity \cup {u}
  /\ Go(s, [at |-> "register", user |-> u])
  /\ UNCHANGED <<account, profile, consented, age, finalized, run>>

\* User, Profile, UserPreference and two consents in one transaction, unless the
\* first request with a token of the user came before.
Register(s) ==
  LET u == session[s].user IN
  /\ session[s].at = "register"
  /\ Go(s, Idle)
  /\ IF account[u] = NoRow
       THEN /\ account' = [account EXCEPT ![u] = New]
            /\ profile' = [profile EXCEPT ![u] = "personal"]
            /\ consented' = consented \cup {u}
       ELSE UNCHANGED <<account, profile, consented>>
  /\ UNCHANGED <<identity, age, finalized, run>>

\* get_current_user, where the authentication service has a user and we have none.
Provision(u) ==
  /\ u \in identity /\ account[u] = NoRow
  /\ account' = [account EXCEPT ![u] = New]
  /\ UNCHANGED <<identity, profile, consented, age, finalized, session, run>>

\* Variant: any account with a token is admitted.
HasAccount(u) == account[u] # NoRow

\* get_current_user: neither a suspended account nor one to be deleted is refused.
Admitted(u) == account[u] # NoRow /\ ~account[u].deleted

\* update_my_profile and upload_my_avatar (the photograph is stored in between)
\* make the row where there is none.
CheckEdit(s, u) ==
  /\ Admitted(u)
  /\ Begin(s, [at |-> "edit", user |-> u])

Edit(s) ==
  /\ session[s].at = "edit"
  /\ profile' = [profile EXCEPT ![session[s].user] = "personal"]
  /\ Go(s, Idle)
  /\ UNCHANGED <<identity, account, consented, age, finalized, run>>

\* request_account_deletion, the password being verified in between.
CheckRequest(s, u) ==
  /\ Admitted(u)
  /\ ~account[u].requested
  /\ Begin(s, [at |-> "request", user |-> u, row |-> account[u]])

Request(s) ==
  LET t == session[s] IN
  /\ t.at = "request"
  /\ Write(s, t.user, [t.row EXCEPT !.requested = TRUE, !.status = "pending_deletion"])

-----------------------------------------------------------------------------
(* The staff *)

CheckSuspend(s, u) ==
  /\ account[u] # NoRow /\ ~account[u].deleted
  /\ account[u].status # "suspended"
  /\ Begin(s, [at |-> "staff", user |-> u, row |-> account[u], to |-> "suspended"])

\* reactivate_user makes the account active, whatever it was when it was suspended.
CheckReactivate(s, u) ==
  /\ account[u] # NoRow /\ ~account[u].deleted
  /\ account[u].status = "suspended"
  /\ Begin(s, [at |-> "staff", user |-> u, row |-> account[u], to |-> "active"])

Rule(s) ==
  LET t == session[s] IN
  /\ t.at = "staff"
  /\ Write(s, t.user, [t.row EXCEPT !.status = t.to])

\* Refused later on, or the server is lost.
Abort(s) ==
  /\ session[s] # Idle
  /\ Go(s, Idle)
  /\ UNCHANGED <<identity, account, profile, consented, age, finalized, run>>

-----------------------------------------------------------------------------
(* The deletion run *)

\* Variant: whether the account is gone already is not asked.
DueAgain(u) ==
  account[u] # NoRow /\ account[u].status = "pending_deletion"
    /\ account[u].requested /\ age[u] >= Grace

Due(u) ==
  account[u] # NoRow /\ account[u].status = "pending_deletion"
    /\ account[u].requested /\ age[u] >= Grace /\ ~account[u].deleted

StartRun ==
  /\ run = {}
  /\ Overtaking \/ \A s \in Sessions : session[s] = Idle
  /\ run' = {u \in Users : Due(u)}
  /\ run' # {}
  /\ UNCHANGED <<identity, account, profile, consented, age, finalized, session>>

\* Variant: the row is scrubbed and not marked as gone.
Scrubbed(row) == [row EXCEPT !.personal = FALSE]

\* _anonymize
Anonymized(row) == [row EXCEPT !.personal = FALSE, !.deleted = TRUE]

\* One transaction for all accounts: it commits, or nothing is done (a dry run, too).
EndRun ==
  /\ run # {}
  /\ run' = {}
  /\ account' = [u \in Users |-> IF u \in run THEN Anonymized(account[u]) ELSE account[u]]
  /\ profile' = [u \in Users |->
       IF u \in run /\ profile[u] # "none" THEN "anonymous" ELSE profile[u]]
  /\ finalized' = [u \in Users |->
       IF u \in run /\ finalized[u] < 2 THEN finalized[u] + 1 ELSE finalized[u]]
  /\ UNCHANGED <<identity, consented, age, session>>

LoseRun ==
  /\ run # {}
  /\ run' = {}
  /\ UNCHANGED <<identity, account, profile, consented, age, finalized, session>>

Day ==
  /\ \E u \in Users : account[u] # NoRow /\ account[u].requested /\ age[u] < Grace
  /\ age' = [u \in Users |-> IF account[u] # NoRow /\ account[u].requested /\ age[u] < Grace
                               THEN age[u] + 1 ELSE age[u]]
  /\ UNCHANGED <<identity, account, profile, consented, finalized, session, run>>

Next ==
  \/ \E s \in Sessions :
       \/ \E u \in Users :
            SignUp(s, u) \/ CheckEdit(s, u) \/ CheckRequest(s, u)
              \/ CheckSuspend(s, u) \/ CheckReactivate(s, u)
       \/ Register(s) \/ Edit(s) \/ Request(s) \/ Rule(s) \/ Abort(s)
  \/ \E u \in Users : Provision(u)
  \/ StartRun \/ EndRun \/ LoseRun \/ Day

Spec == Init /\ [][Next]_vars

\* Days pass, the run is started every so often and not lost forever, requests end.
Fairness ==
  /\ WF_vars(Day) /\ SF_vars(StartRun) /\ SF_vars(EndRun)
  /\ \A s \in Sessions : WF_vars(Edit(s) \/ Request(s) \/ Rule(s) \/ Register(s) \/ Abort(s))

FairSpec == Spec /\ Fairness

-----------------------------------------------------------------------------

TypeOK ==
  /\ identity \subseteq Users /\ consented \subseteq Users /\ run \subseteq Users
  /\ \A u \in Users : account[u] = NoRow \/ account[u] \in Row
  /\ profile \in [Users -> {"none", "personal", "anonymous"}]
  /\ age \in [Users -> 0..Grace] /\ finalized \in [Users -> 0..2]

\* Of a person who has left nothing personal is kept, in the account or in the
\* profile, whatever requests of theirs came late.  A request the run overtakes
\* breaks it.
GoneIsAnonymous ==
  \A u \in Users : account[u] # NoRow =>
    (account[u].deleted => ~account[u].personal /\ profile[u] # "personal")

\* A deletion is finalized, and entered in the audit log, once.
FinalizedOnce == \A u \in Users : finalized[u] <= 1

\* process_pending_deletions finalizes every account whose grace period has elapsed:
\* the next run finds each one that has not been suspended.
ElapsedIsDue ==
  \A u \in Users : account[u] # NoRow =>
    (account[u].requested /\ age[u] >= Grace /\ ~account[u].deleted
       /\ account[u].status # "suspended" => Due(u))

Leaving(u) == account[u].status = "pending_deletion" /\ ~account[u].deleted

\* An account that is to be deleted is, unless the staff rules otherwise before.
DeletionEnds == \A u \in Users : Leaving(u) ~> ~Leaving(u)
=============================================================================
