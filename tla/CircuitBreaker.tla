--------------------------- MODULE CircuitBreaker ---------------------------
(***************************************************************************)
(* A circuit breaker of app/core/resilience.py, shared by the threads of   *)
(* one server process, and the retries each call makes under it.           *)
(*                                                                         *)
(* A thread may lose the interpreter at a call of a function and nowhere   *)
(* else, so what lies between two calls is one step: the two reads of      *)
(* _opened_at in _is_open are apart (time.monotonic() lies between), and   *)
(* so are the test and the setting of _opened_at in _record_failure.       *)
(***************************************************************************)
EXTENDS Integers, FiniteSets

CONSTANTS
  Threads,
  Threshold,     \* failure_threshold
  MaxTries,      \* max_attempts of _run_with_retry
  MaxCount       \* bound: the failure counter saturates here

VARIABLES
  count,   \* _consecutive_failures
  opened,  \* _opened_at: none, recent, or past (reset_timeout_seconds ago)
  up,      \* whether the provider answers
  thread

vars == <<count, opened, up, thread>>

Outcomes == {"ok", "unreachable", "lost", "error", "broken"}

Idle == [at |-> "idle"]

Init ==
  /\ count = 0 /\ opened = "none" /\ up = TRUE
  /\ thread = [t \in Threads |-> Idle]

Go(t, state) == thread' = [thread EXCEPT ![t] = state]

Calling(kind, trial) ==
  [at |-> "calling", kind |-> kind, tries |-> 0, sent |-> 0, trial |-> trial]

\* _is_open reads _opened_at once; unless it is None it is read again.
Enter(t, kind) ==
  /\ thread[t] = Idle
  /\ Go(t, IF opened = "none" THEN Calling(kind, FALSE) ELSE [at |-> "checked", kind |-> kind])
  /\ UNCHANGED <<count, opened, up>>

Admit(t) ==
  /\ thread[t].at = "checked" /\ opened = "past"
  /\ Go(t, Calling(thread[t].kind, TRUE))
  /\ UNCHANGED <<count, opened, up>>

\* CircuitOpenError; or, if the breaker was reset between the two reads, the
\* subtraction of None raises before anything is called.
Refuse(t) ==
  /\ thread[t].at = "checked" /\ opened # "past"
  /\ Go(t, Idle)
  /\ UNCHANGED <<count, opened, up>>

\* Variant: whatever failed is tried again.
RetryAnything(kind, outcome) == outcome \in {"unreachable", "lost", "error"}

\* Which outcomes each policy tries again: retry_connect_only for mutating calls,
\* retry_idempotent for those that may be repeated.
Retries(kind, outcome) ==
  outcome \in IF kind = "mutating" THEN {"unreachable"} ELSE {"unreachable", "lost", "error"}

Try(t) ==
  LET c == thread[t] IN
  /\ c.at = "calling"
  /\ \E outcome \in IF up THEN {"ok"} ELSE Outcomes \ {"ok"} :
       Go(t, [c EXCEPT
         !.tries = @ + 1,
         !.sent = IF outcome = "unreachable" THEN @ ELSE @ + 1,
         !.at = CASE outcome = "ok" -> "succeeded"
                  [] Retries(c.kind, outcome) /\ c.tries + 1 < MaxTries -> "calling"
                  [] OTHER -> "failed"])
  /\ UNCHANGED <<count, opened, up>>

\* Variant: the reset leaves the counter.
ResetKeepingCount(t) ==
  /\ thread[t].at = "succeeded"
  /\ opened' = "none"
  /\ Go(t, Idle)
  /\ UNCHANGED <<count, up>>

\* Variant: the reset leaves the breaker open.
ResetKeepingOpen(t) ==
  /\ thread[t].at = "succeeded"
  /\ count' = 0
  /\ Go(t, Idle)
  /\ UNCHANGED <<opened, up>>

Reset(t) ==
  /\ thread[t].at = "succeeded"
  /\ count' = 0 /\ opened' = "none"
  /\ Go(t, Idle)
  /\ UNCHANGED up

RecordFailure(t) ==
  /\ thread[t].at = "failed"
  /\ count' = IF count = MaxCount THEN count ELSE count + 1
  /\ Go(t, IF count + 1 >= Threshold THEN [at |-> "opening"] ELSE Idle)
  /\ UNCHANGED <<opened, up>>

Open(t) ==
  /\ thread[t].at = "opening"
  /\ opened' = "recent"
  /\ Go(t, Idle)
  /\ UNCHANGED <<count, up>>

ResetTimeout ==
  /\ opened = "recent"
  /\ opened' = "past"
  /\ UNCHANGED <<count, up, thread>>

ProviderChanges == up' = ~up /\ UNCHANGED <<count, opened, thread>>

Call(t) ==
  \/ \E kind \in {"mutating", "idempotent"} : Enter(t, kind)
  \/ Admit(t) \/ Refuse(t) \/ Try(t) \/ Reset(t) \/ RecordFailure(t) \/ Open(t)

Next == (\E t \in Threads : Call(t)) \/ ResetTimeout \/ ProviderChanges

Spec == Init /\ [][Next]_vars

\* Traffic goes on, every call ends (clients have timeouts), and time passes.
Fairness == (\A t \in Threads : WF_vars(Call(t))) /\ WF_vars(ResetTimeout)

FairSpec == Spec /\ Fairness

-----------------------------------------------------------------------------

TypeOK ==
  /\ count \in 0..MaxCount
  /\ opened \in {"none", "recent", "past"}
  /\ up \in BOOLEAN

\* A call that creates something (a signup, an order, a refund) reaches the
\* provider at most once, however often it is retried.
SentOnce ==
  \A t \in Threads :
    thread[t].at \in {"calling", "succeeded", "failed"} /\ thread[t].kind = "mutating" =>
      thread[t].sent <= 1

\* While nobody is about to open it, a closed breaker has counted fewer failures than open it.
ClosedIsBelowThreshold ==
  opened = "none" /\ (\A t \in Threads : thread[t].at # "opening") => count < Threshold

\* A call that may have arrived is not sent again, and threads that fail at once never
\* leave the breaker closed at its threshold.
BreakerIsSafe == SentOnce /\ ClosedIsBelowThreshold

\* The breaker ends up as the provider does: closed once it stays up, open once it stays down.
FollowsProvider ==
  /\ <>[]up => <>[](opened = "none")
  /\ <>[]~up => <>[](opened # "none")

\* Half-open, one call is let through to try the provider.
OneTrial ==
  Cardinality({t \in Threads : thread[t].at = "calling" /\ thread[t].trial}) <= 1
=============================================================================
