------------------------- MODULE CircuitBreakerProofs -------------------------
(***************************************************************************)
(* Theorems about CircuitBreaker.tla, for any number of threads: types,    *)
(* that a closed breaker has counted too few failures to open it, and that *)
(* a mutating call reaches the provider at most once.                      *)
(***************************************************************************)
EXTENDS CircuitBreaker, TLAPS

\* What the proofs ask of the constants: a threshold of at least one failure that the
\* saturated counter still reaches.
Constants ==
  /\ Threshold \in Nat \ {0} /\ MaxTries \in Nat /\ MaxCount \in Nat
  /\ Threshold <= MaxCount + 1

Calls == {"calling", "succeeded", "failed"}

\* A mutating call is tried again only while nothing of it has reached the provider.
Unsent(c) ==
  c.at \in Calls /\ c.kind = "mutating" =>
    /\ c.sent \in {0, 1}
    /\ c.at = "calling" => c.sent = 0

Inv ==
  /\ TypeOK /\ DOMAIN thread = Threads
  /\ \A t \in Threads : Unsent(thread[t])
  /\ ClosedIsBelowThreshold

(***************************************************************************)
(* Steps                                                                   *)
(***************************************************************************)

\* A closed breaker that nobody has used satisfies it.
LEMMA InitBreaker ==
  ASSUME Constants, Init
  PROVE  Inv
BY DEF Constants, Init, Inv, TypeOK, Unsent, Calls, ClosedIsBelowThreshold, Idle

\* A thread that goes to a state which is right by itself, and was not about to open the
\* breaker, leaves the rest as it was.
LEMMA BreakerByGo ==
  ASSUME Constants, Inv, NEW t \in Threads, NEW c, Go(t, c), Unsent(c),
         UNCHANGED <<count, opened, up>>, thread[t].at # "opening"
  PROVE  Inv'
<1>1. DOMAIN thread' = Threads /\ \A u \in Threads : thread'[u] = IF u = t THEN c ELSE thread[u]
  BY DEF Inv, Go
<1>2. TypeOK'
  BY DEF Inv, TypeOK
<1>3. \A u \in Threads : Unsent(thread'[u])
  BY <1>1 DEF Inv
<1>4. ClosedIsBelowThreshold'
  BY <1>1 DEF Inv, ClosedIsBelowThreshold
<1>5. QED
  BY <1>1, <1>2, <1>3, <1>4 DEF Inv

\* A try answers, is tried again or fails.
LEMMA BreakerByTry ==
  ASSUME Constants, Inv, NEW t \in Threads, Try(t)
  PROVE  Inv'
<1> DEFINE c == thread[t]
<1>1. PICK outcome \in Outcomes :
        Go(t, [c EXCEPT
          !.tries = @ + 1,
          !.sent = IF outcome = "unreachable" THEN @ ELSE @ + 1,
          !.at = CASE outcome = "ok" -> "succeeded"
                   [] Retries(c.kind, outcome) /\ c.tries + 1 < MaxTries -> "calling"
                   [] OTHER -> "failed"])
  BY DEF Try, Outcomes
<1> DEFINE d == [c EXCEPT
          !.tries = @ + 1,
          !.sent = IF outcome = "unreachable" THEN @ ELSE @ + 1,
          !.at = CASE outcome = "ok" -> "succeeded"
                   [] Retries(c.kind, outcome) /\ c.tries + 1 < MaxTries -> "calling"
                   [] OTHER -> "failed"]
<1>2. c.at = "calling" /\ Unsent(c) /\ UNCHANGED <<count, opened, up>>
  BY DEF Try, Inv
<1>3. Unsent(d)
  BY <1>2 DEF Unsent, Calls, Retries
<1>4. QED
  <2>1. Go(t, d)
    BY <1>1
  <2> HIDE DEF d
  <2>2. QED
    BY <1>2, <1>3, <2>1, BreakerByGo

\* Every step keeps the invariant.
LEMMA BreakerNext ==
  ASSUME Constants, Inv, [Next]_vars
  PROVE  Inv'
<1>1. CASE UNCHANGED vars
  BY <1>1 DEF vars, Inv, TypeOK, Unsent, Calls, ClosedIsBelowThreshold
<1>2. ASSUME NEW t \in Threads, Call(t)
      PROVE  Inv'
  <2>1. DOMAIN thread = Threads /\ Unsent(Idle)
    BY DEF Inv, Unsent, Idle, Calls
  <2>2. ASSUME NEW kind \in {"mutating", "idempotent"}, Enter(t, kind)
        PROVE  Inv'
    <3>1. /\ Unsent(Calling(kind, FALSE)) /\ Unsent([at |-> "checked", kind |-> kind])
          /\ thread[t].at # "opening"
      BY <2>2 DEF Unsent, Calls, Calling, Enter, Idle
    <3>2. QED
      BY <2>2, <3>1, BreakerByGo DEF Enter
  <2>3. CASE Admit(t)
    <3>1. Unsent(Calling(thread[t].kind, TRUE))
      BY DEF Unsent, Calls, Calling
    <3>2. QED
      BY <2>3, <3>1, BreakerByGo DEF Admit
  <2>4. CASE Refuse(t)
    BY <2>1, <2>4, BreakerByGo DEF Refuse
  <2>5. CASE Try(t)
    BY <2>5, BreakerByTry
  <2>6. CASE Reset(t)
    <3>1. /\ count' = 0 /\ opened' = "none" /\ UNCHANGED up /\ DOMAIN thread' = Threads
          /\ \A u \in Threads : thread'[u] = IF u = t THEN Idle ELSE thread[u]
      BY <2>1, <2>6 DEF Reset, Go
    <3>2. TypeOK' /\ ClosedIsBelowThreshold'
      BY <3>1 DEF Constants, Inv, TypeOK, ClosedIsBelowThreshold
    <3>3. \A u \in Threads : Unsent(thread'[u])
      BY <2>1, <3>1 DEF Inv
    <3>4. QED
      BY <3>1, <3>2, <3>3 DEF Inv
  <2>7. CASE RecordFailure(t)
    <3>1. count \in 0..MaxCount
      BY DEF Inv, TypeOK
    <3>2. count' \in 0..MaxCount /\ (count + 1 < Threshold => count' < Threshold)
      BY <2>7, <3>1 DEF Constants, RecordFailure
    <3>3. /\ UNCHANGED <<opened, up>> /\ DOMAIN thread' = Threads
          /\ \A u \in Threads : u # t => thread'[u] = thread[u]
          /\ thread'[t] = IF count + 1 >= Threshold THEN [at |-> "opening"] ELSE Idle
      BY <2>1, <2>7 DEF RecordFailure, Go
    <3>4. TypeOK'
      BY <3>2, <3>3 DEF Inv, TypeOK
    <3>5. Unsent([at |-> "opening"])
      BY DEF Unsent, Calls
    <3>6. \A u \in Threads : Unsent(thread'[u])
      BY <2>1, <3>3, <3>5 DEF Inv
    <3>7. ClosedIsBelowThreshold'
      <4>1. CASE count + 1 >= Threshold
        BY <3>3, <4>1 DEF ClosedIsBelowThreshold
      <4>2. CASE ~ (count + 1 >= Threshold)
        BY <3>1, <3>2, <4>2 DEF Constants, ClosedIsBelowThreshold
      <4>3. QED
        BY <4>1, <4>2
    <3>8. QED
      BY <3>3, <3>4, <3>6, <3>7 DEF Inv
  <2>8. CASE Open(t)
    <3>1. /\ opened' = "recent" /\ UNCHANGED <<count, up>> /\ DOMAIN thread' = Threads
          /\ \A u \in Threads : thread'[u] = IF u = t THEN Idle ELSE thread[u]
      BY <2>1, <2>8 DEF Open, Go
    <3>2. TypeOK' /\ ClosedIsBelowThreshold'
      BY <3>1 DEF Inv, TypeOK, ClosedIsBelowThreshold
    <3>3. \A u \in Threads : Unsent(thread'[u])
      BY <2>1, <3>1 DEF Inv
    <3>4. QED
      BY <3>1, <3>2, <3>3 DEF Inv
  <2>9. QED
    BY <1>2, <2>2, <2>3, <2>4, <2>5, <2>6, <2>7, <2>8 DEF Call
<1>3. CASE ResetTimeout
  BY <1>3 DEF ResetTimeout, Inv, TypeOK, Unsent, Calls, ClosedIsBelowThreshold
<1>4. CASE ProviderChanges
  BY <1>4 DEF ProviderChanges, Inv, TypeOK, Unsent, Calls, ClosedIsBelowThreshold
<1>5. QED
  BY <1>1, <1>2, <1>3, <1>4 DEF Next

\* It holds in every reachable state.
LEMMA BreakerStays ==
  ASSUME Constants
  PROVE  Spec => []Inv
<1>1. Init => Inv
  BY InitBreaker
<1>2. Inv /\ [Next]_vars => Inv'
  BY BreakerNext
<1>3. QED
  BY <1>1, <1>2, PTL DEF Spec

\* A call that creates something reaches the provider at most once, for any number of
\* threads, tries and openings of the breaker.
THEOREM MutationsReachOnce ==
  ASSUME Constants
  PROVE  Spec => []SentOnce
<1>1. Inv => SentOnce
  BY DEF Inv, SentOnce, Unsent, Calls
<1>2. QED
  BY <1>1, BreakerStays, PTL

\* Unless a thread is on its way to open it, a closed breaker has counted fewer failures
\* than the threshold: the test and the setting of _opened_at may be far apart, but no
\* failure that should open it is forgotten.
THEOREM ClosedWithinThreshold ==
  ASSUME Constants
  PROVE  Spec => []ClosedIsBelowThreshold
<1>1. Inv => ClosedIsBelowThreshold
  BY DEF Inv
<1>2. QED
  BY <1>1, BreakerStays, PTL

\* Both together, as the run checks them.
THEOREM BreakerStaysSafe ==
  ASSUME Constants
  PROVE  Spec => []BreakerIsSafe
<1>1. SentOnce /\ ClosedIsBelowThreshold => BreakerIsSafe
  BY DEF BreakerIsSafe
<1>2. QED
  BY <1>1, MutationsReachOnce, ClosedWithinThreshold, PTL
=============================================================================
