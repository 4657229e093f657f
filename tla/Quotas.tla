------------------------------- MODULE Quotas -------------------------------
(***************************************************************************)
(* Monthly usage quotas (app/services/entitlements.py) as the routes use   *)
(* them: a download (routes/designs.py), or a request to the AI, takes one *)
(* unit in the transaction of the action that it gates.                    *)
(*                                                                         *)
(* A request reads the limit of the plan of now and the counter of the     *)
(* month; it writes when it commits.                                       *)
(***************************************************************************)
EXTENDS Integers, FiniteSets

CONSTANTS
  Users, Sessions, None,
  Limits,      \* the limits of the plans; None for a plan without one
  MaxMonth,    \* bound: the calendar stops here
  MaxUses      \* bound: uses per user and month

VARIABLES
  plan,      \* the limit of each user's plan
  usage,     \* usage_records: the count by user and month, None without a row
  uses,      \* history: the actions done
  month,
  request

ledger == <<plan, usage, uses>>
vars == <<plan, usage, uses, month, request>>

Months == 1..MaxMonth

Idle == [at |-> "idle"]

Init ==
  /\ plan = [u \in Users |-> CHOOSE l \in Limits : l # None]
  /\ usage = [u \in Users |-> [m \in Months |-> None]]
  /\ uses = [u \in Users |-> [m \in Months |-> 0]]
  /\ month = 1
  /\ request = [s \in Sessions |-> Idle]

ChangePlan(u) ==
  /\ \E l \in Limits \ {plan[u]} : plan' = [plan EXCEPT ![u] = l]
  /\ UNCHANGED <<usage, uses, month, request>>

NextMonth ==
  /\ month < MaxMonth
  /\ month' = month + 1
  /\ UNCHANGED <<ledger, request>>

\* get_effective_features and the record of the month.
Check(s, u) ==
  /\ request[s] = Idle
  /\ request' = [request EXCEPT
       ![s] = [at |-> "checked", user |-> u, limit |-> plan[u], month |-> month,
               count |-> usage[u][month]]]
  /\ UNCHANGED <<ledger, month>>

Current(r) == IF r.count = None THEN 0 ELSE r.count

AtLimit(r) == r.limit # None /\ Current(r) >= r.limit

End(s) == request' = [request EXCEPT ![s] = Idle]

\* Variant: the unit stays taken when the action it gates fails.
ChargeAlways(s) ==
  LET r == request[s] IN
  /\ r.at = "checked" /\ ~AtLimit(r) /\ uses[r.user][r.month] < MaxUses
  /\ r.count = None => usage[r.user][r.month] = None
  /\ usage' = [usage EXCEPT ![r.user][r.month] = Current(r) + 1]
  /\ \/ uses' = [uses EXCEPT ![r.user][r.month] = @ + 1]
     \/ UNCHANGED uses
  /\ End(s)
  /\ UNCHANGED <<plan, month>>

\* The action is done and committed.  Of two first uses in a month the unique key
\* lets one through.
Use(s) ==
  LET r == request[s] IN
  /\ r.at = "checked" /\ ~AtLimit(r) /\ uses[r.user][r.month] < MaxUses
  /\ IF r.limit = None THEN UNCHANGED usage
     ELSE /\ r.count = None => usage[r.user][r.month] = None
          /\ usage' = [usage EXCEPT ![r.user][r.month] = Current(r) + 1]
  /\ uses' = [uses EXCEPT ![r.user][r.month] = @ + 1]
  /\ End(s)
  /\ UNCHANGED <<plan, month>>

\* At the limit, or the action fails, or the server is lost: all is rolled back.
Refuse(s) ==
  /\ request[s].at = "checked"
  /\ End(s)
  /\ UNCHANGED <<ledger, month>>

Next ==
  \/ \E u \in Users : ChangePlan(u)
  \/ NextMonth
  \/ \E s \in Sessions : (\E u \in Users : Check(s, u)) \/ Use(s) \/ Refuse(s)

Spec == Init /\ [][Next]_vars

-----------------------------------------------------------------------------

TypeOK ==
  /\ plan \in [Users -> Limits]
  /\ usage \in [Users -> [Months -> Nat \cup {None}]]
  /\ uses \in [Users -> [Months -> 0..MaxUses]]
  /\ month \in Months

\* Nobody pays for what was not delivered: whatever requests run side by side, fail
\* or are lost, no more is counted than was done, and so nobody is refused early.
NothingOvercounted ==
  \A u \in Users, m \in Months : usage[u][m] # None => usage[u][m] <= uses[u][m]

\* Nobody does more in a month than the largest of the plans allows, when all have a limit.
QuotaKept ==
  None \notin Limits =>
    \A u \in Users, m \in Months : \E l \in Limits : uses[u][m] <= l
=============================================================================
