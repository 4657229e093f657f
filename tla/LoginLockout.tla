---------------------------- MODULE LoginLockout ----------------------------
(***************************************************************************)
(* The lockout of an account after failed logins                           *)
(* (app/services/login_security.py, app/api/routes/auth.py).               *)
(*                                                                         *)
(* The counter is one key of Redis with a time to live; each command on it *)
(* is atomic, the login as a whole is not.                                 *)
(***************************************************************************)
EXTENDS Integers, FiniteSets

CONSTANTS
  Logins,      \* sessions: logins that may be under way at once
  Threshold,   \* login_lockout_threshold
  Faults,      \* whether a login may be cut off between two commands
  MaxFails, MaxLockouts   \* bounds: the counter, and how often it comes to the threshold

VARIABLES
  fails,       \* the value of the key, 0 where there is none
  expiring,    \* whether the key has a time to live
  login,
  lockouts,    \* audit_logs: entries login.lockout_triggered
  reached      \* history: how often the counter came to the threshold

vars == <<fails, expiring, login, lockouts, reached>>

Init ==
  /\ fails = 0 /\ expiring = FALSE
  /\ login = [l \in Logins |-> [at |-> "idle"]]
  /\ lockouts = 0 /\ reached = 0

Go(l, t) == login' = [login EXCEPT ![l] = t]

\* is_locked_out
LockedOut == fails >= Threshold

Check(l) ==
  /\ login[l].at = "idle" /\ ~LockedOut
  /\ Go(l, [at |-> "signIn"])
  /\ UNCHANGED <<fails, expiring, lockouts, reached>>

\* sign_in_with_password: right, or wrong; any other failure ends the request.
SignIn(l) ==
  /\ login[l].at = "signIn"
  /\ \E next \in {"clear", "count", "idle"} : Go(l, [at |-> next])
  /\ UNCHANGED <<fails, expiring, lockouts, reached>>

\* record_failed_login: INCR makes the key if need be, then EXPIRE.
Increment(l) ==
  /\ login[l].at = "count" /\ fails < MaxFails
  /\ fails + 1 = Threshold => reached < MaxLockouts
  /\ fails' = fails + 1
  /\ reached' = IF fails' = Threshold THEN reached + 1 ELSE reached
  /\ Go(l, [at |-> "expire", count |-> fails'])
  /\ UNCHANGED <<expiring, lockouts>>

\* Variant: every failure beyond the threshold triggers.
TriggersFrom(count) == count >= Threshold

Triggers(count) == count = Threshold

\* Variant: the key is left without a time to live.
SlideNot(l) ==
  /\ login[l].at = "expire"
  /\ Go(l, [at |-> IF Triggers(login[l].count) THEN "audit" ELSE "idle"])
  /\ UNCHANGED <<fails, expiring, lockouts, reached>>

\* EXPIRE does nothing to a key that is gone by now.
Slide(l) ==
  LET count == login[l].count IN
  /\ login[l].at = "expire"
  /\ expiring' = (fails > 0)
  /\ Go(l, [at |-> IF Triggers(count) THEN "audit" ELSE "idle"])
  /\ UNCHANGED <<fails, lockouts, reached>>

Audit(l) ==
  /\ login[l].at = "audit"
  /\ lockouts' = lockouts + 1
  /\ Go(l, [at |-> "idle"])
  /\ UNCHANGED <<fails, expiring, reached>>

\* clear_failed_logins
Clear(l) ==
  /\ login[l].at = "clear"
  /\ fails' = 0 /\ expiring' = FALSE
  /\ Go(l, [at |-> "idle"])
  /\ UNCHANGED <<lockouts, reached>>

\* Redis answers too late, or the server is lost.
CutOff(l) ==
  /\ Faults /\ login[l].at # "idle"
  /\ Go(l, [at |-> "idle"])
  /\ UNCHANGED <<fails, expiring, lockouts, reached>>

Expire ==
  /\ expiring
  /\ fails' = 0 /\ expiring' = FALSE
  /\ UNCHANGED <<login, lockouts, reached>>

Next ==
  \/ \E l \in Logins : Check(l) \/ SignIn(l) \/ Increment(l) \/ Slide(l) \/ Audit(l) \/ Clear(l)
                       \/ CutOff(l)
  \/ Expire

Spec == Init /\ [][Next]_vars

Fairness ==
  /\ WF_vars(Expire)
  /\ \A l \in Logins : WF_vars(SignIn(l) \/ Slide(l) \/ Audit(l) \/ Clear(l))

FairSpec == Spec /\ Fairness

-----------------------------------------------------------------------------

TypeOK ==
  /\ fails \in 0..MaxFails /\ expiring \in BOOLEAN
  /\ lockouts \in Nat /\ reached \in 0..MaxLockouts
  /\ \A l \in Logins : login[l].at \in {"idle", "signIn", "count", "expire", "audit", "clear"}

\* However many logins fail at once, a lockout is entered in the audit log once: by
\* the login whose failure brought the counter to the threshold, unless it is cut off.
LockoutRecordedOnce ==
  LET recording == {l \in Logins : \/ login[l].at = "expire" /\ login[l].count = Threshold
                                   \/ login[l].at = "audit"}
      entries == lockouts + Cardinality(recording)
  IN entries <= reached /\ (~Faults => entries = reached)

\* A lockout ends by itself.  If Redis fails between INCR and EXPIRE it need not.
LockoutEnds == LockedOut ~> ~LockedOut
=============================================================================
