--------------------------- MODULE PlatformProofs ---------------------------
(***************************************************************************)
(* Theorems about the parts of the platform that share no state, as        *)
(* MCPlatform.tla checks them: the counters kept beside rows (Quotas,      *)
(* Reviews, Audience, Campaigns; Engagement has proofs of its own), what   *)
(* overlapping requests make once (Community, Messaging, LoginLockout),    *)
(* the finalizing of accounts (Accounts), the objects that rows name       *)
(* (DesignImages, Previews), what AI jobs leave behind (DesignAi beside    *)
(* AiJobs) and listings that are paged through (Listing).  Each has        *)
(* variables of its own here.                                              *)
(***************************************************************************)
EXTENDS Integers, FiniteSetTheorems, SequenceTheorems, TLAPS

CONSTANTS Users, Sessions, None

(***************************************************************************)
(* Usage of a month                                                        *)
(***************************************************************************)

CONSTANTS Limits, MaxMonth, MaxUses

VARIABLES plan, usage, uses, month, request

Quota == INSTANCE Quotas

\* What the proof asks of the constants: the mark of a missing row is no number.
Countable == MaxMonth \in Nat \ {0} /\ MaxUses \in Nat /\ None \notin Nat

\* A count of a month that is no more than what was done in it; None for no row.
Backed(n, u, m) == n \in Nat \cup {None} /\ (n # None => n <= uses[u][m])

\* What a request has read is still backed when it writes: what was done stays done.
ReadsAreBacked ==
  \A s \in Sessions :
    request[s].at = "checked" =>
      /\ request[s].user \in Users /\ request[s].month \in Quota!Months
      /\ Backed(request[s].count, request[s].user, request[s].month)

UsageInv ==
  /\ DOMAIN request = Sessions /\ month \in Quota!Months
  /\ usage \in [Users -> [Quota!Months -> Nat \cup {None}]]
  /\ uses \in [Users -> [Quota!Months -> 0..MaxUses]]
  /\ ReadsAreBacked
  /\ Quota!NothingOvercounted

\* With nothing used and no rows, all of it holds.
LEMMA InitQuotas ==
  ASSUME Countable, Quota!Init
  PROVE  UsageInv
<1>1. 1 \in Quota!Months /\ 0 \in 0..MaxUses
  BY DEF Countable, Quota!Months
<1>2. QED
  BY <1>1 DEF Quota!Init, UsageInv, ReadsAreBacked, Quota!NothingOvercounted, Quota!Idle

\* Taking a unit for an action that is done leaves every count backed.
LEMMA BackedByUse ==
  ASSUME Countable, UsageInv, NEW s \in Sessions, Quota!Use(s)
  PROVE  UsageInv'
<1> DEFINE r == request[s]
<1>1. /\ r.user \in Users /\ r.month \in Quota!Months /\ Backed(r.count, r.user, r.month)
      /\ uses[r.user][r.month] \in 0..MaxUses /\ uses[r.user][r.month] < MaxUses
  BY DEF UsageInv, ReadsAreBacked, Quota!Use
<1>2. Quota!Current(r) \in Nat /\ Quota!Current(r) <= uses[r.user][r.month]
  BY <1>1 DEF Backed, Quota!Current
<1>3. /\ uses' = [uses EXCEPT ![r.user][r.month] = @ + 1]
      /\ uses' \in [Users -> [Quota!Months -> 0..MaxUses]]
  BY <1>1 DEF Quota!Use, UsageInv, Countable
<1>4. \A u \in Users, m \in Quota!Months :
        /\ uses[u][m] \in Nat /\ uses'[u][m] \in Nat /\ uses[u][m] <= uses'[u][m]
        /\ u = r.user /\ m = r.month => uses'[u][m] = uses[u][m] + 1
  BY <1>1, <1>3 DEF UsageInv
<1>5. \/ UNCHANGED usage
      \/ usage' = [usage EXCEPT ![r.user][r.month] = Quota!Current(r) + 1]
  BY DEF Quota!Use
<1>6. usage' \in [Users -> [Quota!Months -> Nat \cup {None}]]
  <2>1. Quota!Current(r) + 1 \in Nat
    BY <1>2
  <2>2. CASE UNCHANGED usage
    BY <2>2 DEF UsageInv
  <2>3. ASSUME NEW n \in Nat, usage' = [usage EXCEPT ![r.user][r.month] = n]
        PROVE  usage' \in [Users -> [Quota!Months -> Nat \cup {None}]]
    <3> HIDE DEF r
    <3> QED  BY <1>1, <2>3 DEF UsageInv
  <2>4. QED
    BY <1>5, <2>1, <2>2, <2>3
<1>7. Quota!NothingOvercounted'
  <2>1. SUFFICES ASSUME NEW u \in Users, NEW m \in Quota!Months, usage'[u][m] # None
                 PROVE  usage'[u][m] <= uses'[u][m]
    BY DEF Quota!NothingOvercounted
  <2>2. CASE usage'[u][m] = usage[u][m]
    BY <1>4, <2>1, <2>2 DEF UsageInv, Quota!NothingOvercounted
  <2>3. CASE u = r.user /\ m = r.month /\ usage'[u][m] = Quota!Current(r) + 1
    BY <1>2, <1>4, <2>3
  <2>4. usage'[u][m] = usage[u][m] \/ (u = r.user /\ m = r.month /\ usage'[u][m] = Quota!Current(r) + 1)
    <3> HIDE DEF r
    <3> QED  BY <1>1, <1>5 DEF UsageInv
  <2>5. QED
    BY <2>2, <2>3, <2>4
<1>8. /\ DOMAIN request' = Sessions /\ UNCHANGED month
      /\ \A q \in Sessions : request'[q] = IF q = s THEN Quota!Idle ELSE request[q]
  BY DEF Quota!Use, Quota!End, UsageInv
<1>9. ReadsAreBacked'
  <2>1. ASSUME NEW q \in Sessions, request'[q].at = "checked"
        PROVE  /\ request'[q].user \in Users /\ request'[q].month \in Quota!Months
               /\ request'[q].count \in Nat \cup {None}
               /\ request'[q].count # None =>
                    request'[q].count <= uses'[request'[q].user][request'[q].month]
    <3>1. request'[q] = request[q] /\ request[q].at = "checked"
      BY <1>8, <2>1 DEF Quota!Idle
    <3> DEFINE c == request[q].count  u == request[q].user  m == request[q].month
    <3>2. /\ u \in Users /\ m \in Quota!Months /\ c \in Nat \cup {None}
          /\ c # None => c <= uses[u][m]
      BY <3>1 DEF UsageInv, ReadsAreBacked, Backed
    <3>3. c # None => c <= uses'[u][m]
      <4> HIDE DEF c, u, m
      <4> QED  BY <1>4, <3>2
    <3>4. QED
      BY <3>1, <3>2, <3>3
  <2>2. QED
    BY <1>8, <2>1 DEF ReadsAreBacked, Backed, UsageInv
<1>10. QED
  BY <1>3, <1>6, <1>7, <1>8, <1>9 DEF UsageInv

\* Every step keeps the counts backed.
LEMMA QuotasNext ==
  ASSUME Countable, UsageInv, [Quota!Next]_Quota!vars
  PROVE  UsageInv'
<1>1. CASE UNCHANGED Quota!vars
  BY <1>1 DEF Quota!vars, UsageInv, ReadsAreBacked, Quota!NothingOvercounted, Backed
<1>2. ASSUME NEW u \in Users, Quota!ChangePlan(u)
      PROVE  UsageInv'
  BY <1>2 DEF Quota!ChangePlan, UsageInv, ReadsAreBacked, Quota!NothingOvercounted, Backed
<1>3. CASE Quota!NextMonth
  <2>1. month' \in Quota!Months
    BY <1>3 DEF Quota!NextMonth, UsageInv, Quota!Months, Countable
  <2>2. QED
    BY <1>3, <2>1 DEF Quota!NextMonth, Quota!ledger, UsageInv, ReadsAreBacked, Quota!NothingOvercounted, Backed
<1>4. ASSUME NEW s \in Sessions, NEW u \in Users, Quota!Check(s, u)
      PROVE  UsageInv'
  <2> DEFINE t == [at |-> "checked", user |-> u, limit |-> plan[u], month |-> month,
                   count |-> usage[u][month]]
  <2>1. /\ UNCHANGED <<usage, uses, month>> /\ DOMAIN request' = Sessions
        /\ \A q \in Sessions : request'[q] = IF q = s THEN t ELSE request[q]
    BY <1>4 DEF Quota!Check, Quota!ledger, UsageInv
  <2>2. t.user = u /\ t.month = month /\ t.count = usage[u][month]
    OBVIOUS
  <2>3. u \in Users /\ month \in Quota!Months /\ Backed(usage[u][month], u, month)
    BY <1>4 DEF UsageInv, Quota!NothingOvercounted, Backed
  <2>4. ReadsAreBacked'
    <3> HIDE DEF t
    <3> QED  BY <2>1, <2>2, <2>3 DEF UsageInv, ReadsAreBacked, Backed
  <2>5. Quota!NothingOvercounted'
    BY <2>1 DEF UsageInv, Quota!NothingOvercounted
  <2>6. QED
    BY <2>1, <2>4, <2>5 DEF UsageInv
<1>5. ASSUME NEW s \in Sessions, Quota!Refuse(s)
      PROVE  UsageInv'
  <2>1. /\ UNCHANGED <<usage, uses, month>> /\ DOMAIN request' = Sessions
        /\ \A q \in Sessions : request'[q] = IF q = s THEN Quota!Idle ELSE request[q]
    BY <1>5 DEF Quota!Refuse, Quota!End, Quota!ledger, UsageInv
  <2>2. ReadsAreBacked'
    BY <2>1 DEF UsageInv, ReadsAreBacked, Backed, Quota!Idle
  <2>3. QED
    BY <2>1, <2>2 DEF UsageInv, Quota!NothingOvercounted
<1>6. QED
  BY <1>1, <1>2, <1>3, <1>4, <1>5, BackedByUse DEF Quota!Next

\* Whatever requests run side by side, fail or are lost, and however plans change
\* meanwhile: no unit of a month is counted for which nothing was done.
THEOREM NeverOvercounted ==
  ASSUME Countable
  PROVE  Quota!Spec => []Quota!NothingOvercounted
<1>1. Quota!Init => UsageInv
  BY InitQuotas
<1>2. UsageInv /\ [Quota!Next]_Quota!vars => UsageInv'
  BY QuotasNext
<1>3. UsageInv => Quota!NothingOvercounted
  BY DEF UsageInv
<1>4. QED
  BY <1>1, <1>2, <1>3, PTL DEF Quota!Spec

(***************************************************************************)
(* Ratings                                                                 *)
(***************************************************************************)

CONSTANTS Bookings, Stars

VARIABLES review, barred, rating, reviewing, solo

Rating == INSTANCE Reviews WITH blocked <- barred, session <- reviewing

Asks(t) == DOMAIN t = {"at", "of", "insert", "row", "next", "alone", "rating"}

\* Who began with nobody beside it, and was joined by nobody, is alone.
Alone(t) == t # Rating!Idle /\ t.alone

\* The aggregate of a session that is alone is that of the table it leaves.
RatingInv ==
  /\ DOMAIN reviewing = Sessions
  /\ \A s \in Sessions : reviewing[s] # Rating!Idle => Asks(reviewing[s])
  /\ \A s \in Sessions : Alone(reviewing[s]) =>
       /\ \A v \in Sessions \ {s} : reviewing[v] = Rating!Idle
       /\ reviewing[s].at = "computed" =>
            reviewing[s].rating = Rating!Recomputed(reviewing[s], review)
  /\ Rating!SoloRepairs

LEMMA Joined ==
  ASSUME NEW t, Asks(t)
  PROVE  Asks([t EXCEPT !.alone = FALSE]) /\ ~ Alone([t EXCEPT !.alone = FALSE])
BY DEF Asks, Alone

\* Whoever begins ends the solitude of the others.
LEMMA RatingBegins ==
  ASSUME RatingInv, NEW s \in Sessions, NEW b, NEW insert, NEW row, NEW next,
         Rating!Begin(s, b, insert, row, next)
  PROVE  RatingInv'
<1>1. PICK t : t = [at |-> "checked", of |-> b, insert |-> insert, row |-> row, next |-> next,
                    alone |-> \A v \in Sessions : reviewing[v] = Rating!Idle, rating |-> None]
  OBVIOUS
<1>2. Asks(t) /\ t.at = "checked" /\ t.alone = \A v \in Sessions : reviewing[v] = Rating!Idle
  BY <1>1 DEF Asks
<1>3. /\ DOMAIN reviewing' = Sessions /\ reviewing'[s] = t
      /\ UNCHANGED <<review, rating, solo>>
  BY <1>1 DEF Rating!Begin
<1>4. ASSUME NEW u \in Sessions \ {s}
      PROVE  \/ reviewing[u] = Rating!Idle /\ reviewing'[u] = Rating!Idle
             \/ Asks(reviewing'[u]) /\ ~ Alone(reviewing'[u]) /\ reviewing[u] # Rating!Idle
  BY Joined DEF Rating!Begin, RatingInv
<1>5. QED
  BY <1>2, <1>3, <1>4 DEF RatingInv, Alone, Rating!SoloRepairs, Rating!Recomputed

\* The review is written and the reviews are added up.
LEMMA RatingComputes ==
  ASSUME RatingInv, NEW s \in Sessions, Rating!Compute(s)
  PROVE  RatingInv'
<1>1. PICK t, total : t = reviewing[s] /\ total = Rating!Recomputed(t, review)
  OBVIOUS
<1>2. PICK c : c = [t EXCEPT !.at = "computed", !.rating = total]
  OBVIOUS
<1>3. reviewing[s] # Rating!Idle /\ Asks(t)
  BY <1>1 DEF Rating!Compute, Rating!Idle, RatingInv
<1>4. /\ Asks(c) /\ c.rating = total /\ c.alone = t.alone
      /\ Rating!Recomputed(c, review) = Rating!Recomputed(t, review)
  <2>1. /\ Asks(c) /\ c.rating = total /\ c.alone = t.alone
        /\ c.of = t.of /\ c.row = t.row /\ c.next = t.next
    BY <1>2, <1>3 DEF Asks
  <2>2. \A stored : Rating!Written(c, stored) = Rating!Written(t, stored)
    BY <2>1 DEF Rating!Written
  <2>3. QED
    BY <2>1, <2>2 DEF Rating!Recomputed
<1>5. /\ DOMAIN reviewing' = Sessions /\ UNCHANGED <<review, rating, solo>>
      /\ \A u \in Sessions : reviewing'[u] = IF u = s THEN c ELSE reviewing[u]
  BY <1>1, <1>2 DEF Rating!Compute, RatingInv
<1>6. \A r : Rating!Recomputed(r, review)' = Rating!Recomputed(r, review)
  BY <1>5 DEF Rating!Recomputed
<1>7. QED
  BY <1>1, <1>3, <1>4, <1>5, <1>6 DEF RatingInv, Alone, Rating!SoloRepairs

\* What a session that is alone has added up is what it leaves.
LEMMA RatingCommits ==
  ASSUME RatingInv, NEW s \in Sessions, Rating!Commit(s)
  PROVE  RatingInv'
<1>1. PICK t : t = reviewing[s]
  OBVIOUS
<1>2. /\ t # Rating!Idle /\ t.at = "computed" /\ rating' = t.rating /\ solo' = t.alone
      /\ review' = [review EXCEPT ![t.of] = Rating!Written(t, @)]
      /\ DOMAIN reviewing' = Sessions
      /\ \A u \in Sessions : reviewing'[u] = IF u = s THEN Rating!Idle ELSE reviewing[u]
  BY <1>1 DEF Rating!Commit, Rating!Idle, RatingInv
<1>3. ASSUME t.alone
      PROVE  /\ rating' = Rating!Aggregate(review')
             /\ \A u \in Sessions : reviewing'[u] = Rating!Idle
  <2>1. Alone(t)
    BY <1>2, <1>3 DEF Alone
  <2>2. QED
    BY <1>1, <1>2, <2>1 DEF RatingInv, Rating!Recomputed
<1>4. ASSUME ~ t.alone, NEW u \in Sessions, reviewing'[u] # Rating!Idle
      PROVE  ~ Alone(reviewing'[u])
  BY <1>1, <1>2, <1>4 DEF RatingInv, Alone
<1>5. \A u \in Sessions : Alone(reviewing'[u]) => FALSE
  BY <1>3, <1>4 DEF Alone
<1>6. Rating!SoloRepairs'
  BY <1>2, <1>3 DEF Rating!SoloRepairs
<1>7. \A u \in Sessions : reviewing'[u] # Rating!Idle => Asks(reviewing'[u])
  BY <1>2 DEF RatingInv
<1>8. QED
  BY <1>2, <1>5, <1>6, <1>7 DEF RatingInv

\* A session that is rolled back leaves the table and the rating as they are.
LEMMA RatingEnds ==
  ASSUME RatingInv, NEW s \in Sessions, Rating!Abort(s)
  PROVE  RatingInv'
<1>1. /\ DOMAIN reviewing' = Sessions /\ UNCHANGED <<review, rating, solo>>
      /\ \A u \in Sessions : reviewing'[u] = IF u = s THEN Rating!Idle ELSE reviewing[u]
  BY DEF Rating!Abort, RatingInv
<1>2. QED
  BY <1>1 DEF RatingInv, Alone, Rating!SoloRepairs, Rating!Recomputed

\* No review adds up to nothing.
LEMMA RatingStart ==
  ASSUME Rating!Init
  PROVE  RatingInv
<1> DEFINE S == {b \in Bookings : review[b].rating # None /\ ~review[b].deleted}
           total == Rating!MapThenSumSet(LAMBDA b : review[b].rating, S)
<1>1. S = {}
  BY DEF Rating!Init, Rating!NoReview
<1>2. total = 0
  BY <1>1 DEF Rating!MapThenSumSet, Rating!MapThenFoldSet
<1>3. Rating!Cardinality(S) = 0
  <2>1. Rating!Cardinality(S) = Cardinality(S)
    BY DEF Rating!Cardinality, Cardinality
  <2>2. QED
    BY <1>1, <2>1, FS_EmptySet
<1>4. Rating!Aggregate(review) = [sum |-> total, count |-> Rating!Cardinality(S)]
  BY DEF Rating!Aggregate
<1>5. Rating!Aggregate(review) = [sum |-> 0, count |-> 0]
  <2> HIDE DEF S, total
  <2> QED  BY <1>2, <1>3, <1>4
<1>6. QED
  BY <1>5 DEF Rating!Init, RatingInv, Alone, Rating!SoloRepairs

LEMMA RatingStep ==
  ASSUME RatingInv, [Rating!Next]_Rating!vars
  PROVE  RatingInv'
<1>1. ASSUME UNCHANGED <<review, rating, reviewing, solo>>
      PROVE  RatingInv'
  BY <1>1 DEF RatingInv, Alone, Rating!SoloRepairs, Rating!Recomputed
<1>2. ASSUME NEW b \in Bookings, Rating!Block(b)
      PROVE  RatingInv'
  BY <1>1, <1>2 DEF Rating!Block
<1>3. ASSUME NEW s \in Sessions, NEW b \in Bookings, NEW stars \in Stars,
             Rating!CheckCreate(s, b, stars)
      PROVE  RatingInv'
  BY <1>3, RatingBegins DEF Rating!CheckCreate
<1>4. ASSUME NEW s \in Sessions, NEW b \in Bookings, NEW action \in Rating!Actions,
             Rating!CheckModerate(s, b, action)
      PROVE  RatingInv'
  BY <1>4, RatingBegins DEF Rating!CheckModerate
<1>5. QED
  BY <1>1, <1>2, <1>3, <1>4, RatingComputes, RatingCommits, RatingEnds DEF Rating!Next, Rating!vars

\* A rating that went astray comes right with the next review or decision that has the
\* table to itself, whatever reviews, moderation and refusals overlap before.
THEOREM RatingsComeRight == Rating!Spec => []Rating!SoloRepairs
<1>1. Rating!Init => RatingInv
  BY RatingStart
<1>2. RatingInv /\ [Rating!Next]_Rating!vars => RatingInv'
  BY RatingStep
<1>3. RatingInv => Rating!SoloRepairs
  BY DEF RatingInv
<1>4. QED
  BY <1>1, <1>2, <1>3, PTL DEF Rating!Spec

(***************************************************************************)
(* Followers and views                                                     *)
(***************************************************************************)

CONSTANT MaxViews

VARIABLES follows, followers, blocked, published, key, views, counted, session

Following == INSTANCE Audience

\* A row that is not committed is as its session found it; for it the counter changes.
Writes(t) == t.at = "written" /\ t.change # 0

RowHeld(t) ==
  /\ t.at \in {"begun", "written"} => t.user \in Users
  /\ t.at = "written" =>
       \/ t.change = 1 /\ t.user \notin follows
       \/ t.change = -1 /\ t.user \in follows
       \/ t.change = 0

FollowInv ==
  /\ DOMAIN session = Sessions /\ follows \subseteq Users
  /\ \A s \in Sessions : RowHeld(session[s])
  /\ \A s, v \in Sessions :
       s # v /\ Writes(session[s]) /\ Writes(session[v]) => session[s].user # session[v].user
  /\ followers = Cardinality(follows)

LEMMA FollowBegins ==
  ASSUME FollowInv, NEW s \in Sessions, NEW t, RowHeld(t), ~ Writes(t),
         UNCHANGED <<follows, followers>>, session' = [session EXCEPT ![s] = t]
  PROVE  FollowInv'
<1>1. \A r : RowHeld(r)' <=> RowHeld(r)
  BY DEF RowHeld
<1>2. /\ DOMAIN session' = Sessions
      /\ \A v \in Sessions : session'[v] = IF v = s THEN t ELSE session[v]
  BY DEF FollowInv
<1>3. \A v \in Sessions : RowHeld(session'[v])
  BY <1>2 DEF FollowInv
<1>4. QED
  BY <1>1, <1>2, <1>3 DEF FollowInv

\* An insert waits for whoever holds the row, a delete if there is one to delete.
LEMMA FollowWrites ==
  ASSUME FollowInv, NEW s \in Sessions, Following!Write(s)
  PROVE  FollowInv'
<1>1. PICK o, t : o = session[s] /\ t = session'[s]
  OBVIOUS
<1>2. /\ o.at = "begun" /\ o.user \in Users
      /\ o.op = "follow" \/ o.user \in follows => ~ Following!Held(s, o.user)
      /\ t.at = "written" /\ t.user = o.user /\ t.change = Following!Effect(o.op, o.user)
      /\ UNCHANGED <<follows, followers>> /\ DOMAIN session' = Sessions
      /\ \A v \in Sessions : session'[v] = IF v = s THEN t ELSE session[v]
  BY <1>1 DEF Following!Write, Following!Go, FollowInv, RowHeld
<1>3. RowHeld(t) /\ (Writes(t) => o.op = "follow" \/ o.user \in follows)
  BY <1>2 DEF Following!Effect, RowHeld, Writes
<1>4. ASSUME Writes(t), NEW v \in Sessions \ {s}, Writes(session[v])
      PROVE  session[v].user # t.user
  BY <1>2, <1>3, <1>4 DEF Following!Held, Writes
<1>5. \A r : RowHeld(r)' <=> RowHeld(r)
  BY DEF RowHeld, Following!Write
<1>6. \A v \in Sessions : RowHeld(session'[v])
  BY <1>2, <1>3 DEF FollowInv
<1>7. QED
  BY <1>2, <1>4, <1>5, <1>6 DEF FollowInv

\* The row of the session, and the counter, change together.
LEMMA FollowCommits ==
  ASSUME IsFiniteSet(Users), FollowInv, NEW s \in Sessions, Following!CommitFollow(s)
  PROVE  FollowInv'
<1>1. PICK t, u : t = session[s] /\ u = t.user
  OBVIOUS
<1>2. /\ t.at = "written" /\ u \in Users /\ IsFiniteSet(follows)
      /\ \/ t.change = 1 /\ u \notin follows
         \/ t.change = -1 /\ u \in follows
         \/ t.change = 0
  BY <1>1, FS_Subset DEF Following!CommitFollow, FollowInv, RowHeld
<1>3. /\ Cardinality(follows) \in Nat
      /\ u \in follows => Cardinality(follows) > 0
  BY <1>2, FS_CardinalityType, FS_EmptySet
<1>4. followers' = Cardinality(follows')
  <2>1. CASE t.change = 1 /\ u \notin follows
    <3>1. follows' = follows \cup {u} /\ followers' = followers + 1
      BY <1>1, <1>3, <2>1 DEF Following!CommitFollow, FollowInv
    <3>2. QED
      BY <1>2, <2>1, <3>1, FS_AddElement DEF FollowInv
  <2>2. CASE t.change = -1 /\ u \in follows
    <3>1. follows' = follows \ {u} /\ followers' = followers - 1
      BY <1>1, <1>3, <2>2 DEF Following!CommitFollow, FollowInv
    <3>2. QED
      BY <1>2, <2>2, <3>1, FS_RemoveElement DEF FollowInv
  <2>3. CASE t.change = 0
    BY <1>1, <1>3, <2>3 DEF Following!CommitFollow, FollowInv
  <2>4. QED
    BY <1>2, <2>1, <2>2, <2>3
<1>5. /\ DOMAIN session' = Sessions /\ follows' \subseteq Users
      /\ \A v \in Sessions : session'[v] = IF v = s THEN Following!Idle ELSE session[v]
      /\ follows' = follows \/ Writes(t)
      /\ \A w : w # u => (w \in follows' <=> w \in follows)
  BY <1>1, <1>2 DEF Following!CommitFollow, Following!Go, FollowInv, Writes
<1>6. ASSUME NEW v \in Sessions
      PROVE  RowHeld(session[v])' /\ (Writes(session'[v]) => v # s)
  <2>1. CASE v = s
    BY <1>5, <2>1 DEF RowHeld, Following!Idle, Writes
  <2>2. CASE v # s
    <3>1. RowHeld(session[v]) /\ session'[v] = session[v]
      BY <1>5, <2>2 DEF FollowInv
    <3>2. Writes(t) /\ Writes(session[v]) => session[v].user # u
      BY <1>1, <2>2 DEF FollowInv
    <3>3. QED
      BY <1>5, <2>2, <3>1, <3>2 DEF RowHeld, Writes
  <2>3. QED
    BY <2>1, <2>2
<1>7. QED
  BY <1>4, <1>5, <1>6 DEF FollowInv

LEMMA FollowStep ==
  ASSUME IsFiniteSet(Users), FollowInv, [Following!Next]_Following!vars
  PROVE  FollowInv'
<1>1. ASSUME UNCHANGED <<follows, followers, session>>
      PROVE  FollowInv'
  BY <1>1 DEF FollowInv, RowHeld
<1>2. ASSUME NEW s \in Sessions, NEW u \in Users, NEW op \in {"follow", "unfollow"},
             Following!Begin(s, op, u)
      PROVE  FollowInv'
  <2>1. PICK t : t = [at |-> "begun", op |-> op, user |-> u]
    OBVIOUS
  <2>2. RowHeld(t) /\ ~ Writes(t)
    BY <2>1 DEF RowHeld, Writes
  <2>3. QED
    BY <1>2, <2>1, <2>2, FollowBegins DEF Following!Begin, Following!Go
<1>3. ASSUME NEW s \in Sessions, NEW u \in Users, Following!View(s, u)
      PROVE  FollowInv'
  <2>1. PICK t : t.at = "viewing" /\ session' = [session EXCEPT ![s] = t]
    <3>1. PICK keyed : session' = [session EXCEPT ![s] = [at |-> "viewing", user |-> u, keyed |-> keyed]]
      BY <1>3 DEF Following!View, Following!Go
    <3>2. [at |-> "viewing", user |-> u, keyed |-> keyed].at = "viewing"
      OBVIOUS
    <3>3. QED
      BY <3>1, <3>2
  <2>2. RowHeld(t) /\ ~ Writes(t)
    BY <2>1 DEF RowHeld, Writes
  <2>3. QED
    BY <1>3, <2>1, <2>2, FollowBegins DEF Following!View
<1>4. ASSUME NEW s \in Sessions, Following!CommitView(s) \/ Following!Abort(s)
      PROVE  FollowInv'
  <2>1. RowHeld(Following!Idle) /\ ~ Writes(Following!Idle)
    BY DEF RowHeld, Writes, Following!Idle
  <2>2. QED
    BY <1>4, <2>1, FollowBegins DEF Following!CommitView, Following!Abort, Following!Go
<1>5. ASSUME NEW u \in Users, Following!Block(u) \/ Following!Expire(u)
      PROVE  FollowInv'
  BY <1>1, <1>5 DEF Following!Block, Following!Expire
<1>6. QED
  BY <1>1, <1>2, <1>3, <1>4, <1>5, FollowWrites, FollowCommits
  DEF Following!Next, Following!vars, Following!Publish

\* The number of followers shown is the number of rows, whatever follows and unfollows of
\* a user overlap, are repeated or are lost.
THEOREM FollowersAreCounted ==
  ASSUME IsFiniteSet(Users)
  PROVE  Following!Spec => []Following!FollowersCounted
<1>1. Following!Init => FollowInv
  BY FS_EmptySet DEF Following!Init, Following!Idle, FollowInv, RowHeld, Writes
<1>2. FollowInv /\ [Following!Next]_Following!vars => FollowInv'
  BY FollowStep
<1>3. FollowInv => Following!FollowersCounted
  <2>1. Following!Cardinality(follows) = Cardinality(follows)
    BY DEF Following!Cardinality, Cardinality
  <2>2. QED
    BY <2>1 DEF FollowInv, Following!FollowersCounted
<1>4. QED
  BY <1>1, <1>2, <1>3, PTL DEF Following!Spec

\* A view that set a key is the only one of that user, and the key has counted nothing yet.
Keyed(t) == t.at = "viewing" /\ t.keyed

VisitInv ==
  /\ DOMAIN session = Sessions /\ counted \in [Users -> Nat]
  /\ \A s \in Sessions :
       /\ session[s].at = "viewing" => session[s].user \in Users
       /\ Keyed(session[s]) => session[s].user \in key /\ counted[session[s].user] = 0
  /\ \A s, v \in Sessions :
       s # v /\ Keyed(session[s]) /\ Keyed(session[v]) => session[s].user # session[v].user
  /\ \A u \in Users : counted[u] <= 1 /\ (u \notin key => counted[u] = 0)

\* A session that does nothing to keys and counts goes on, or ends.
LEMMA VisitRests ==
  ASSUME VisitInv, NEW s \in Sessions, NEW t, ~ Keyed(t), t.at = "viewing" => t.user \in Users,
         UNCHANGED <<key, counted>>, session' = [session EXCEPT ![s] = t]
  PROVE  VisitInv'
<1>1. /\ DOMAIN session' = Sessions
      /\ \A v \in Sessions : session'[v] = IF v = s THEN t ELSE session[v]
  BY DEF VisitInv
<1>2. QED
  BY <1>1 DEF VisitInv

\* Of two requests of one visit only one sets the key.
LEMMA VisitViews ==
  ASSUME VisitInv, NEW s \in Sessions, NEW u \in Users, Following!View(s, u)
  PROVE  VisitInv'
<1>1. PICK keyed, t :
        /\ keyed \in BOOLEAN /\ t = [at |-> "viewing", user |-> u, keyed |-> keyed]
        /\ session' = [session EXCEPT ![s] = t]
        /\ IF keyed THEN u \notin key /\ key' = key \cup {u} ELSE UNCHANGED key
  BY DEF Following!View, Following!Go, Following!NewVisit
<1>2. t.at = "viewing" /\ t.user = u /\ t.keyed = keyed /\ UNCHANGED counted
  BY <1>1 DEF Following!View
<1>3. CASE ~ keyed
  BY <1>1, <1>2, <1>3, VisitRests DEF Keyed
<1>4. CASE keyed
  <2>1. /\ DOMAIN session' = Sessions
        /\ \A v \in Sessions : session'[v] = IF v = s THEN t ELSE session[v]
    BY <1>1 DEF VisitInv
  <2>2. counted[u] = 0
    BY <1>1, <1>4 DEF VisitInv
  <2>3. ASSUME NEW v \in Sessions \ {s}, Keyed(session[v])
        PROVE  session[v].user # u
    BY <1>1, <1>4, <2>3 DEF VisitInv
  <2>4. QED
    BY <1>1, <1>2, <1>4, <2>1, <2>2, <2>3 DEF VisitInv
<1>5. QED
  BY <1>3, <1>4

LEMMA VisitCommits ==
  ASSUME VisitInv, NEW s \in Sessions, Following!CommitView(s)
  PROVE  VisitInv'
<1>1. PICK t : t = session[s]
  OBVIOUS
<1>2. /\ t.at = "viewing" /\ t.user \in Users /\ UNCHANGED key
      /\ session' = [session EXCEPT ![s] = Following!Idle]
      /\ Following!Idle.at = "idle"
  BY <1>1 DEF Following!CommitView, Following!Go, Following!Idle, VisitInv
<1>3. CASE UNCHANGED counted
  BY <1>2, <1>3, VisitRests DEF Keyed
<1>4. CASE Keyed(t) /\ counted' = [counted EXCEPT ![t.user] = @ + 1]
  <2>1. /\ DOMAIN session' = Sessions
        /\ \A v \in Sessions : session'[v] = IF v = s THEN Following!Idle ELSE session[v]
    BY <1>2 DEF VisitInv
  <2>2. /\ counted[t.user] = 0 /\ t.user \in key
        /\ counted' \in [Users -> Nat] /\ counted'[t.user] = 1
        /\ \A u \in Users \ {t.user} : counted'[u] = counted[u]
    BY <1>1, <1>2, <1>4 DEF VisitInv
  <2>3. ASSUME NEW v \in Sessions \ {s}, Keyed(session[v])
        PROVE  session[v].user # t.user
    BY <1>1, <1>4, <2>3 DEF VisitInv
  <2>4. ASSUME NEW v \in Sessions
        PROVE  /\ session'[v].at = "viewing" => session'[v].user \in Users
               /\ Keyed(session'[v]) =>
                    session'[v].user \in key /\ counted'[session'[v].user] = 0
    BY <1>2, <2>1, <2>2, <2>3 DEF VisitInv, Keyed
  <2>5. QED
    BY <1>2, <2>1, <2>2, <2>4 DEF VisitInv, Keyed
<1>5. counted' = counted \/ (Keyed(t) /\ counted' = [counted EXCEPT ![t.user] = @ + 1])
  <2>1. t.keyed \/ counted' = counted
    BY <1>1, <1>2 DEF Following!CommitView, VisitInv
  <2>2. QED
    BY <1>1, <1>2, <2>1 DEF Following!CommitView, Keyed
<1>6. QED
  BY <1>3, <1>4, <1>5

LEMMA VisitStep ==
  ASSUME VisitInv, [Following!Next]_Following!vars
  PROVE  VisitInv'
<1>1. ASSUME UNCHANGED <<key, counted, session>>
      PROVE  VisitInv'
  BY <1>1 DEF VisitInv
<1>2. ASSUME NEW s \in Sessions, NEW u \in Users, NEW op \in {"follow", "unfollow"},
             Following!Begin(s, op, u)
      PROVE  VisitInv'
  <2>1. PICK t : t.at = "begun" /\ session' = [session EXCEPT ![s] = t]
    <3>1. [at |-> "begun", op |-> op, user |-> u].at = "begun"
      OBVIOUS
    <3>2. QED
      BY <1>2, <3>1 DEF Following!Begin, Following!Go
  <2>2. QED
    BY <1>2, <2>1, VisitRests DEF Keyed, Following!Begin
<1>3. ASSUME NEW s \in Sessions, Following!Write(s)
      PROVE  VisitInv'
  <2>1. PICK t, o, change : /\ o = session[s] /\ session' = [session EXCEPT ![s] = t]
                            /\ t = [at |-> "written", op |-> o.op, user |-> o.user, change |-> change]
    BY <1>3 DEF Following!Write, Following!Go
  <2>2. t.at = "written"
    BY <2>1
  <2>3. QED
    BY <1>3, <2>1, <2>2, VisitRests DEF Keyed, Following!Write
<1>4. ASSUME NEW s \in Sessions, Following!CommitFollow(s) \/ Following!Abort(s)
      PROVE  VisitInv'
  <2>1. ~ Keyed(Following!Idle) /\ Following!Idle.at # "viewing"
    BY DEF Keyed, Following!Idle
  <2>2. QED
    BY <1>4, <2>1, VisitRests DEF Following!CommitFollow, Following!Abort, Following!Go
<1>5. ASSUME NEW u \in Users, Following!Expire(u)
      PROVE  VisitInv'
  <2>1. /\ key' = key \ {u} /\ counted' = [counted EXCEPT ![u] = 0] /\ UNCHANGED session
        /\ \A s \in Sessions : session[s].at = "viewing" => session[s].user # u
    BY <1>5 DEF Following!Expire
  <2>2. QED
    BY <2>1 DEF VisitInv, Keyed
<1>6. ASSUME NEW u \in Users, Following!Block(u)
      PROVE  VisitInv'
  BY <1>1, <1>6 DEF Following!Block
<1>7. QED
  BY <1>1, <1>2, <1>3, <1>4, <1>5, <1>6, VisitViews, VisitCommits
  DEF Following!Next, Following!vars, Following!Publish

\* Two requests of one visit never both count for the key that was set.
THEOREM VisitsCountOnce == Following!Spec => []Following!VisitCountedOnce
<1>1. Following!Init => VisitInv
  BY DEF Following!Init, Following!Idle, VisitInv, Keyed
<1>2. VisitInv /\ [Following!Next]_Following!vars => VisitInv'
  BY VisitStep
<1>3. VisitInv => Following!VisitCountedOnce
  BY DEF VisitInv, Following!VisitCountedOnce
<1>4. QED
  BY <1>1, <1>2, <1>3, PTL DEF Following!Spec

(***************************************************************************)
(* Recipients of campaigns                                                 *)
(***************************************************************************)

CONSTANTS Campaigns, Admins, Together

VARIABLES active, switchedOn, campaign, inbox, sending

Campaign == INSTANCE Campaigns

OneAtATime == ~ Together /\ IsFiniteSet(Users)

Notification == Campaign!Notification

Sending == [campaign : Campaigns, to : SUBSET Users, left : SUBSET Users, rows : SUBSET Notification]

\* A send has made rows of its own for whom it has notified, and nobody has sent before.
Sends(a, t) ==
  /\ t \in Sending /\ t.left \subseteq t.to /\ campaign[t.campaign].status = "draft"
  /\ \A r \in t.rows : r.of = t.campaign /\ r.by = a /\ ~ r.is_read /\ r.user \in t.to
  /\ \A u \in t.to \ t.left : \E r \in t.rows : r.user = u /\ r.channel = "in_app"

Reached(c) == {r.user : r \in Campaign!InApp(c)}

CampaignTyped ==
  /\ active \subseteq Users
  /\ switchedOn \in [Users -> SUBSET Campaign!Optional]
  /\ campaign \in [Campaigns -> Campaign!Campaign]
  /\ inbox \subseteq Notification
  /\ DOMAIN sending = Admins

CampaignInv ==
  /\ CampaignTyped
  /\ \A a \in Admins : sending[a] # Campaign!Idle => Sends(a, sending[a])
  /\ \A a, b \in Admins :
       sending[a] # Campaign!Idle /\ sending[b] # Campaign!Idle => a = b
  /\ \A r \in inbox : campaign[r.of].status = "sent"
  /\ \A c \in Campaigns : campaign[c].status = "sent" =>
       Cardinality(Reached(c)) = campaign[c].recipient_count
  /\ Campaign!CampaignShownOnce

\* A send that begins, goes on or ends without a commit.
LEMMA SendGoesOn ==
  ASSUME CampaignInv, NEW a \in Admins, NEW t, t = Campaign!Idle \/ Sends(a, t),
         sending' = [sending EXCEPT ![a] = t],
         t # Campaign!Idle => \A b \in Admins \ {a} : sending[b] = Campaign!Idle,
         UNCHANGED <<campaign, inbox>>, active' \subseteq Users,
         switchedOn' \in [Users -> SUBSET Campaign!Optional]
  PROVE  CampaignInv'
<1>1. /\ DOMAIN sending' = Admins
      /\ \A b \in Admins : sending'[b] = IF b = a THEN t ELSE sending[b]
  BY DEF CampaignInv, CampaignTyped
<1>2. \A b, r : Sends(b, r)' <=> Sends(b, r)
  BY DEF Sends
<1>3. \A b \in Admins : sending'[b] # Campaign!Idle => Sends(b, sending'[b])
  BY <1>1 DEF CampaignInv
<1>4. \A c : Reached(c)' = Reached(c)
  BY DEF Reached, Campaign!InApp
<1>5. Campaign!CampaignShownOnce'
  BY DEF CampaignInv, Campaign!CampaignShownOnce
<1>6. QED
  BY <1>1, <1>2, <1>3, <1>4, <1>5 DEF CampaignInv, CampaignTyped

LEMMA SendStarts ==
  ASSUME OneAtATime, CampaignInv, NEW a \in Admins, NEW c \in Campaigns, Campaign!StartSend(a, c)
  PROVE  CampaignInv'
<1>1. PICK t : t = [campaign |-> c, to |-> active, left |-> active, rows |-> {}]
  OBVIOUS
<1>2. t \in Sending /\ t.campaign = c /\ t.to = active /\ t.left = active /\ t.rows = {}
  BY <1>1 DEF Sending, CampaignInv, CampaignTyped
<1>3. Sends(a, t)
  BY <1>2 DEF Sends, Campaign!StartSend, Campaign!Sendable
<1>4. /\ sending' = [sending EXCEPT ![a] = t] /\ UNCHANGED <<active, switchedOn, campaign, inbox>>
      /\ \A b \in Admins : sending[b] = Campaign!Idle
  BY <1>1 DEF Campaign!StartSend, OneAtATime
<1>5. QED
  BY <1>3, <1>4, SendGoesOn DEF CampaignInv, CampaignTyped

\* The rows of one user: one in the app, and one for every channel left on.
LEMMA RowsOfUser ==
  ASSUME CampaignTyped, NEW a \in Admins, NEW u \in Users, NEW c \in Campaigns
  PROVE  /\ Campaign!notify_user(a, u, c) \subseteq Notification
         /\ \A r \in Campaign!notify_user(a, u, c) :
              r.of = c /\ r.by = a /\ ~ r.is_read /\ r.user = u
         /\ \E r \in Campaign!notify_user(a, u, c) : r.user = u /\ r.channel = "in_app"
<1> DEFINE row(channel) == [user |-> u, of |-> c, channel |-> channel, by |-> a, is_read |-> FALSE]
<1>1. \A channel \in {"in_app"} \cup switchedOn[u] :
        /\ row(channel) \in Notification
        /\ row(channel).of = c /\ row(channel).by = a /\ ~ row(channel).is_read
        /\ row(channel).user = u /\ row(channel).channel = channel
  BY DEF CampaignTyped, Notification, Campaign!Notification, Campaign!Optional
<1>2. Campaign!notify_user(a, u, c) = {row(channel) : channel \in {"in_app"} \cup switchedOn[u]}
  BY DEF Campaign!notify_user
<1>3. QED
  <2> HIDE DEF row
  <2> QED  BY <1>1, <1>2

LEMMA SendNotifies ==
  ASSUME CampaignInv, NEW a \in Admins, NEW u \in Users, Campaign!Notify(a, u)
  PROVE  CampaignInv'
<1>1. PICK o, new, t : /\ o = sending[a] /\ new = Campaign!notify_user(a, u, o.campaign)
                       /\ t = [o EXCEPT !.left = @ \ {u}, !.rows = @ \cup new]
  OBVIOUS
<1>2. o # Campaign!Idle /\ Sends(a, o) /\ u \in o.left
  BY <1>1 DEF Campaign!Notify, CampaignInv
<1>3. /\ new \subseteq Notification
      /\ \A r \in new : r.of = o.campaign /\ r.by = a /\ ~ r.is_read /\ r.user = u
      /\ \E r \in new : r.user = u /\ r.channel = "in_app"
  BY <1>1, <1>2, RowsOfUser DEF CampaignInv, Sends, Sending
<1>4. /\ t \in Sending /\ t.campaign = o.campaign /\ t.to = o.to
      /\ t.left = o.left \ {u} /\ t.rows = o.rows \cup new
  BY <1>1, <1>2, <1>3 DEF Sends, Sending
<1>5. Sends(a, t)
  BY <1>2, <1>3, <1>4 DEF Sends
<1>6. sending' = [sending EXCEPT ![a] = t] /\ UNCHANGED <<active, switchedOn, campaign, inbox>>
  BY <1>1 DEF Campaign!Notify, CampaignInv, CampaignTyped
<1>7. QED
  BY <1>1, <1>2, <1>5, <1>6, SendGoesOn DEF CampaignInv, CampaignTyped

\* The rows become visible together with the status and the count.
LEMMA SendCommits ==
  ASSUME OneAtATime, CampaignInv, NEW a \in Admins, Campaign!CommitSend(a)
  PROVE  CampaignInv'
<1>1. PICK t, c : t = sending[a] /\ c = t.campaign
  OBVIOUS
<1>2. /\ t # Campaign!Idle /\ Sends(a, t) /\ t.left = {} /\ inbox' = inbox \cup t.rows
      /\ campaign' = [campaign EXCEPT ![c] =
           [status |-> "sent", recipient_count |-> Campaign!Recipients(t)]]
      /\ sending' = [sending EXCEPT ![a] = Campaign!Idle]
      /\ UNCHANGED <<active, switchedOn>>
  BY <1>1 DEF Campaign!CommitSend, CampaignInv
<1>3. /\ t.to \subseteq Users /\ c \in Campaigns /\ campaign[c].status = "draft"
      /\ t.rows \subseteq Notification
      /\ \A r \in t.rows : r.of = c /\ r.by = a /\ ~ r.is_read /\ r.user \in t.to
      /\ \A u \in t.to : \E r \in t.rows : r.user = u /\ r.channel = "in_app"
  BY <1>1, <1>2 DEF Sends, Sending
<1>4. Campaign!Recipients(t) = Cardinality(t.to) /\ Cardinality(t.to) \in Nat
  <2>1. Cardinality(t.to) \in Nat
    BY <1>3, FS_Subset, FS_CardinalityType DEF OneAtATime
  <2>2. QED
    BY <2>1 DEF Campaign!Recipients, Campaign!Cardinality, Cardinality
<1>5. /\ campaign' \in [Campaigns -> Campaign!Campaign]
      /\ campaign'[c].status = "sent" /\ campaign'[c].recipient_count = Cardinality(t.to)
      /\ \A k \in Campaigns \ {c} : campaign'[k] = campaign[k]
  BY <1>2, <1>3, <1>4 DEF CampaignInv, CampaignTyped, Campaign!Campaign
<1>6. \A r \in inbox : r.of # c /\ r.of \in Campaigns
  BY <1>3 DEF CampaignInv, CampaignTyped, Notification, Campaign!Notification
<1>7. CampaignTyped'
  BY <1>2, <1>3, <1>5 DEF CampaignInv, CampaignTyped
<1>8. \A b \in Admins : sending'[b] = Campaign!Idle
  BY <1>1, <1>2 DEF CampaignInv, CampaignTyped
<1>9. \A r \in inbox' : campaign'[r.of].status = "sent"
  BY <1>2, <1>3, <1>5, <1>6 DEF CampaignInv
<1>10. ASSUME NEW k \in Campaigns, campaign'[k].status = "sent"
       PROVE  Cardinality(Reached(k)') = campaign'[k].recipient_count
  <2>1. CASE k = c
    <3>1. Reached(k)' = t.to
      BY <1>2, <1>3, <1>6, <2>1 DEF Reached, Campaign!InApp
    <3>2. QED
      BY <1>5, <2>1, <3>1
  <2>2. CASE k # c
    <3>1. Reached(k)' = Reached(k)
      BY <1>2, <1>3, <2>2 DEF Reached, Campaign!InApp
    <3>2. QED
      BY <1>5, <1>10, <2>2, <3>1 DEF CampaignInv
  <2>3. QED
    BY <2>1, <2>2
<1>11. Campaign!CampaignShownOnce'
  <2>1. SUFFICES ASSUME NEW r \in inbox', NEW q \in inbox',
                        r.of = q.of, r.channel = q.channel, r.user = q.user
                 PROVE  r.by = q.by /\ r.is_read = q.is_read
    BY DEF Campaign!CampaignShownOnce
  <2>2. CASE r.of = c
    <3>1. r \in t.rows /\ q \in t.rows
      BY <1>2, <1>6, <2>1, <2>2
    <3>2. r \in Notification /\ q \in Notification
      BY <1>3, <3>1
    <3>3. r.is_read = FALSE /\ q.is_read = FALSE
      BY <1>3, <3>1, <3>2 DEF Notification, Campaign!Notification
    <3>4. QED
      BY <1>3, <3>1, <3>3
  <2>3. CASE r.of # c
    <3>1. r \in inbox /\ q \in inbox
      BY <1>2, <1>3, <2>1, <2>3
    <3>2. QED
      BY <2>1, <3>1 DEF CampaignInv, Campaign!CampaignShownOnce
  <2>4. QED
    BY <2>2, <2>3
<1>12. QED
  BY <1>7, <1>8, <1>9, <1>10, <1>11 DEF CampaignInv

Same(r, q) == r.of = q.of /\ r.channel = q.channel /\ r.user = q.user

Seen(r) == [r EXCEPT !.is_read = TRUE]

\* Reading changes no row but for its mark, and marks what is alike alike.
LEMMA ReadKeeps ==
  ASSUME CampaignInv, NEW rows \in SUBSET inbox, Campaign!Read(rows),
         \A r \in rows, q \in inbox : Same(r, q) => q \in rows
  PROVE  CampaignInv'
<1>1. \A r \in inbox :
        /\ Seen(r) \in Notification /\ Same(Seen(r), r) /\ Seen(r).by = r.by /\ Seen(r).is_read
  BY DEF CampaignInv, CampaignTyped, Notification, Campaign!Notification, Seen, Same
<1>2. /\ inbox' = (inbox \ rows) \cup {Seen(r) : r \in rows}
      /\ UNCHANGED <<active, switchedOn, campaign, sending>>
  BY DEF Campaign!Read, Seen
<1>3. ASSUME NEW r \in inbox'
      PROVE  \E q \in inbox : /\ Same(r, q) /\ r.by = q.by /\ r \in Notification
                              /\ IF q \in rows THEN r.is_read /\ r = Seen(q) ELSE r = q
  <2>1. CASE r \in inbox \ rows
    BY <2>1 DEF Same, CampaignInv, CampaignTyped
  <2>2. CASE r \in {Seen(q) : q \in rows}
    BY <1>1, <2>2
  <2>3. QED
    BY <1>2, <2>1, <2>2
<1>4. ASSUME NEW q \in inbox
      PROVE  \E r \in inbox' : Same(r, q)
  BY <1>1, <1>2 DEF Same
<1>5. CampaignTyped'
  BY <1>2, <1>3 DEF CampaignInv, CampaignTyped
<1>6. \A b, t : Sends(b, t)' <=> Sends(b, t)
  BY <1>2 DEF Sends
<1>7. \A k : Reached(k)' = Reached(k)
  BY <1>3, <1>4 DEF Reached, Campaign!InApp, Same
<1>8. \A r \in inbox' : campaign[r.of].status = "sent"
  BY <1>3 DEF CampaignInv, Same
<1>9. ASSUME NEW r \in inbox', NEW q \in inbox', Same(r, q)
      PROVE  r.by = q.by /\ r.is_read = q.is_read
  <2>1. PICK r0, q0 : /\ r0 \in inbox /\ Same(r, r0) /\ r.by = r0.by
                      /\ IF r0 \in rows THEN r.is_read /\ r = Seen(r0) ELSE r = r0
                      /\ q0 \in inbox /\ Same(q, q0) /\ q.by = q0.by
                      /\ IF q0 \in rows THEN q.is_read /\ q = Seen(q0) ELSE q = q0
    BY <1>3
  <2>2. Same(r0, q0) /\ Same(q0, r0)
    BY <1>9, <2>1 DEF Same
  <2>3. r0.by = q0.by /\ r0.is_read = q0.is_read /\ (r0 \in rows <=> q0 \in rows)
    BY <2>1, <2>2 DEF CampaignInv, Campaign!CampaignShownOnce, Same
  <2>4. CASE r0 \in rows
    <3>1. r.is_read = TRUE /\ q.is_read = TRUE
      BY <2>1, <2>3, <2>4 DEF Seen, CampaignInv, CampaignTyped, Notification, Campaign!Notification
    <3>2. QED
      BY <2>1, <2>3, <3>1
  <2>5. CASE r0 \notin rows
    BY <2>1, <2>3, <2>5
  <2>6. QED
    BY <2>4, <2>5
<1>10. Campaign!CampaignShownOnce'
  BY <1>9 DEF Campaign!CampaignShownOnce, Same
<1>11. QED
  BY <1>2, <1>5, <1>6, <1>7, <1>8, <1>10 DEF CampaignInv

LEMMA CampaignStep ==
  ASSUME OneAtATime, CampaignInv, [Campaign!Next]_Campaign!vars
  PROVE  CampaignInv'
<1>1. CASE UNCHANGED Campaign!vars
  BY <1>1 DEF Campaign!vars, CampaignInv, CampaignTyped, Sends, Reached, Campaign!InApp,
              Campaign!CampaignShownOnce
<1>2. ASSUME NEW c \in Campaigns, Campaign!create_campaign(c)
      PROVE  CampaignInv'
  <2>1. /\ UNCHANGED <<active, switchedOn, inbox, sending>>
        /\ campaign' \in [Campaigns -> Campaign!Campaign]
        /\ campaign[c].status = "none" /\ campaign'[c].status = "draft"
        /\ \A k \in Campaigns \ {c} : campaign'[k] = campaign[k]
    BY <1>2 DEF Campaign!create_campaign, CampaignInv, CampaignTyped, Campaign!Campaign
  <2>2. ASSUME NEW a \in Admins, sending[a] # Campaign!Idle
        PROVE  Sends(a, sending[a])'
    BY <2>1, <2>2 DEF CampaignInv, Sends, Sending
  <2>3. \A r \in inbox : r.of \in Campaigns \ {c}
    BY <2>1 DEF CampaignInv, CampaignTyped, Notification, Campaign!Notification
  <2>4. \A k : Reached(k)' = Reached(k)
    BY <2>1 DEF Reached, Campaign!InApp
  <2>5. QED
    BY <2>1, <2>2, <2>3, <2>4 DEF CampaignInv, CampaignTyped, Campaign!CampaignShownOnce
<1>3. ASSUME NEW a \in Admins, Campaign!LoseSend(a)
      PROVE  CampaignInv'
  BY <1>3, SendGoesOn DEF Campaign!LoseSend, CampaignInv, CampaignTyped
<1>4. ASSUME NEW u \in Users, Campaign!ChangeStatus(u)
      PROVE  CampaignInv'
  <2>1. UNCHANGED <<switchedOn, campaign, inbox, sending>> /\ active' \subseteq Users
    BY <1>4 DEF Campaign!ChangeStatus, CampaignInv, CampaignTyped
  <2>2. QED
    BY <2>1 DEF CampaignInv, CampaignTyped, Sends, Reached, Campaign!InApp, Campaign!CampaignShownOnce
<1>5. ASSUME NEW u \in Users, NEW channel \in Campaign!Optional, Campaign!SwitchChannel(u, channel)
      PROVE  CampaignInv'
  <2>1. /\ UNCHANGED <<active, campaign, inbox, sending>>
        /\ switchedOn' \in [Users -> SUBSET Campaign!Optional]
    BY <1>5 DEF Campaign!SwitchChannel, CampaignInv, CampaignTyped
  <2>2. QED
    BY <2>1 DEF CampaignInv, CampaignTyped, Sends, Reached, Campaign!InApp, Campaign!CampaignShownOnce
<1>6. ASSUME NEW u \in Users, Campaign!mark_all_notifications_read(u)
      PROVE  CampaignInv'
  <2>1. PICK rows : rows = {r \in inbox : r.user = u /\ ~ r.is_read}
    OBVIOUS
  <2>2. rows \in SUBSET inbox /\ Campaign!Read(rows)
    BY <1>6, <2>1 DEF Campaign!mark_all_notifications_read
  <2>3. \A r \in rows, q \in inbox : Same(r, q) => q \in rows
    BY <2>1 DEF CampaignInv, Campaign!CampaignShownOnce, Same
  <2>4. QED
    BY <2>2, <2>3, ReadKeeps
<1>7. ASSUME NEW r \in inbox, Campaign!mark_notification_read(r)
      PROVE  CampaignInv'
  <2>1. PICK rows : rows = {r}
    OBVIOUS
  <2>2. rows \in SUBSET inbox /\ Campaign!Read(rows)
    BY <1>7, <2>1 DEF Campaign!mark_notification_read
  <2>3. ASSUME NEW q \in inbox, Same(r, q)
        PROVE  q = r
    <3>1. r.by = q.by /\ r.is_read = q.is_read
      BY <2>3 DEF CampaignInv, Campaign!CampaignShownOnce, Same
    <3>2. r \in Notification /\ q \in Notification
      BY DEF CampaignInv, CampaignTyped
    <3>3. QED
      BY <2>3, <3>1, <3>2 DEF Notification, Campaign!Notification, Same
  <2>4. QED
    BY <2>1, <2>2, <2>3, ReadKeeps
<1>8. QED
  BY <1>1, <1>2, <1>3, <1>4, <1>5, <1>6, <1>7, SendStarts, SendNotifies, SendCommits
  DEF Campaign!Next

LEMMA CampaignsStay ==
  ASSUME OneAtATime
  PROVE  Campaign!Spec => []CampaignInv
<1>1. Campaign!Init => CampaignInv
  BY DEF Campaign!Init, CampaignInv, CampaignTyped, Campaign!Campaign, Campaign!CampaignShownOnce
<1>2. CampaignInv /\ [Campaign!Next]_Campaign!vars => CampaignInv'
  BY CampaignStep
<1>3. QED
  BY <1>1, <1>2, PTL DEF Campaign!Spec

\* A campaign that counts as sent reached as many users as it says, and one that does not
\* reached nobody, whoever joins, leaves, reads or switches a channel, and whatever send is
\* lost, if a campaign is sent at a time.
THEOREM RecipientsAreCounted ==
  ASSUME OneAtATime
  PROVE  Campaign!Spec => []Campaign!RecipientsCounted
<1>1. ASSUME CampaignInv
      PROVE  Campaign!RecipientsCounted
  <2>1. SUFFICES ASSUME NEW c \in Campaigns
                 PROVE  Cardinality(Reached(c)) =
                          IF campaign[c].status = "sent" THEN campaign[c].recipient_count ELSE 0
    BY DEF Campaign!RecipientsCounted, Reached, Campaign!Cardinality, Cardinality
  <2>2. campaign[c].status # "sent" => Reached(c) = {}
    BY <1>1 DEF CampaignInv, Reached, Campaign!InApp
  <2>3. QED
    BY <1>1, <2>2, FS_EmptySet DEF CampaignInv
<1>2. QED
  BY <1>1, CampaignsStay, PTL

\* Whatever send is lost and repeated, no user finds a campaign twice in the app, under
\* the same condition.
THEOREM CampaignsShownOnce ==
  ASSUME OneAtATime
  PROVE  Campaign!Spec => []Campaign!CampaignShownOnce
<1>1. CampaignInv => Campaign!CampaignShownOnce
  BY DEF CampaignInv
<1>2. QED
  BY <1>1, CampaignsStay, PTL

(***************************************************************************)
(* All of them                                                             *)
(***************************************************************************)

CONSTANTS Designs, Collections, Names, SavedDesigns

VARIABLES shown, liked, likeCount, saveCount, collection, items, saving

Social == INSTANCE EngagementProofs WITH published <- shown, session <- saving

\* Likes, saves, followers and recipients agree with their rows; uses and views are never
\* counted that were not made; a rating is right after a write that nothing overlaps.
CountersHold ==
  /\ Quota!NothingOvercounted
  /\ Rating!SoloRepairs
  /\ Social!LikesCounted /\ Social!SavesCounted
  /\ Following!FollowersCounted /\ Following!VisitCountedOnce
  /\ Campaign!RecipientsCounted

\* All of that side by side, whatever requests overlap, if a campaign is sent at a time.
\* Lost uses, and a rating that drifts until the next write, are not ruled out.
THEOREM CountersHoldForGood ==
  ASSUME Countable, Social!Constants, OneAtATime
  PROVE  Quota!Spec /\ Rating!Spec /\ Social!Spec /\ Following!Spec /\ Campaign!Spec
           => []CountersHold
<1>1. IsFiniteSet(Users)
  BY DEF OneAtATime
<1>2. Following!Spec => []Following!FollowersCounted
  BY <1>1, FollowersAreCounted
<1>3. Social!Spec => [](Social!LikesCounted /\ Social!SavesCounted)
  BY Social!LikesAndSavesAreCounted
<1>4. QED
  BY <1>2, <1>3, NeverOvercounted, RatingsComeRight, VisitsCountOnce, RecipientsAreCounted, PTL
  DEF CountersHold
(***************************************************************************)
(* Reports                                                                 *)
(***************************************************************************)

CONSTANTS Comments, Bodies, Reports, Reporters, Moderators

VARIABLES comment, report, hearing

Forum == INSTANCE Community WITH session <- hearing

\* The rows of reports, of which a user has one open at a time for a comment.
ReportInv ==
  /\ DOMAIN report = Reports /\ DOMAIN hearing = Sessions
  /\ \A r \in Reports : DOMAIN report[r] = {"status", "by", "on", "body"}
  /\ Forum!OneOpenReport

\* A session goes on and no report changes.
LEMMA HearingGoesOn ==
  ASSUME ReportInv, NEW s \in Sessions, NEW t, hearing' = [hearing EXCEPT ![s] = t],
         UNCHANGED report
  PROVE  ReportInv'
BY DEF ReportInv, Forum!OneOpenReport

LEMMA ReportIsFiled ==
  ASSUME ReportInv, NEW s \in Sessions, Forum!File(s)
  PROVE  ReportInv'
<1>1. PICK t, row, r :
        /\ r \in Reports /\ t = hearing[s]
        /\ row = [status |-> "pending", by |-> t.by, on |-> t.on, body |-> comment[t.on].body]
        /\ ~ Forum!Pending(t.by, t.on)
        /\ report' = [report EXCEPT ![r] = row]
        /\ hearing' = [hearing EXCEPT ![s] = Forum!Idle]
  <2>1. PICK t : t = hearing[s]
    OBVIOUS
  <2>2. PICK row : row = [status |-> "pending", by |-> t.by, on |-> t.on, body |-> comment[t.on].body]
    OBVIOUS
  <2>3. PICK r \in Reports : report' = [report EXCEPT ![r] = row]
    BY <2>1, <2>2 DEF Forum!File
  <2>4. QED
    BY <2>1, <2>2, <2>3 DEF Forum!File, Forum!Insertable, Forum!End, Forum!Go
<1>2. /\ DOMAIN row = {"status", "by", "on", "body"} /\ row.status = "pending"
      /\ row.by = t.by /\ row.on = t.on
  BY <1>1
<1>3. /\ DOMAIN report' = Reports /\ DOMAIN hearing' = Sessions
      /\ \A q \in Reports : report'[q] = IF q = r THEN row ELSE report[q]
  BY <1>1 DEF ReportInv
<1>4. Forum!OneOpenReport'
  BY <1>1, <1>2, <1>3 DEF ReportInv, Forum!OneOpenReport, Forum!Pending
<1>5. QED
  BY <1>2, <1>3, <1>4 DEF ReportInv

LEMMA ReportIsDecided ==
  ASSUME ReportInv, NEW s \in Sessions, Forum!Decide(s)
  PROVE  ReportInv'
<1>1. PICK t, verdict :
        /\ t = hearing[s] /\ verdict \in Forum!Closed
        /\ report' = [report EXCEPT ![t.on].status = verdict]
        /\ hearing' = [hearing EXCEPT ![s] = Forum!Idle]
  BY DEF Forum!Decide, Forum!End, Forum!Go
<1>2. /\ DOMAIN report' = Reports /\ DOMAIN hearing' = Sessions
      /\ \A q \in Reports : q # t.on => report'[q] = report[q]
  BY <1>1 DEF ReportInv
<1>3. ASSUME NEW q \in Reports, q = t.on
      PROVE  /\ DOMAIN report'[q] = {"status", "by", "on", "body"}
             /\ report'[q].status = verdict
  <2>1. PICK row : row = report[q]
    OBVIOUS
  <2>2. DOMAIN row = {"status", "by", "on", "body"} /\ report'[q] = [row EXCEPT !.status = verdict]
    BY <1>1, <1>3, <2>1 DEF ReportInv
  <2>3. QED
    BY <2>2
<1>4. verdict # "pending"
  BY <1>1 DEF Forum!Closed
<1>5. QED
  BY <1>2, <1>3, <1>4 DEF ReportInv, Forum!OneOpenReport

LEMMA ReportStep ==
  ASSUME ReportInv, [Forum!Next]_Forum!vars
  PROVE  ReportInv'
<1>1. CASE UNCHANGED Forum!vars
  BY <1>1 DEF Forum!vars, ReportInv, Forum!OneOpenReport
<1>2. ASSUME NEW s \in Sessions,
             \/ Forum!Create(s) \/ Forum!Update(s) \/ Forum!SoftDelete(s) \/ Forum!Abort(s)
      PROVE  ReportInv'
  BY <1>2, HearingGoesOn
  DEF Forum!Create, Forum!Update, Forum!SoftDelete, Forum!Abort, Forum!End, Forum!Go
<1>3. ASSUME NEW s \in Sessions, NEW c \in Comments, NEW p \in Comments \cup {None},
             Forum!ReadParent(s, c, p)
      PROVE  ReportInv'
  BY <1>3, HearingGoesOn DEF Forum!ReadParent, Forum!Go
<1>4. ASSUME NEW s \in Sessions, NEW c \in Comments, NEW op \in {"editing", "deleting"},
             Forum!ReadOwn(s, c, op)
      PROVE  ReportInv'
  BY <1>4, HearingGoesOn DEF Forum!ReadOwn, Forum!Go
<1>5. ASSUME NEW s \in Sessions, NEW u \in Reporters, NEW c \in Comments,
             Forum!LookForPending(s, u, c)
      PROVE  ReportInv'
  BY <1>5, HearingGoesOn DEF Forum!LookForPending, Forum!Go
<1>6. ASSUME NEW s \in Sessions, NEW r \in Reports, Forum!ReadReport(s, r)
      PROVE  ReportInv'
  BY <1>6, HearingGoesOn DEF Forum!ReadReport, Forum!Go
<1>7. QED
  BY <1>1, <1>2, <1>3, <1>4, <1>5, <1>6, ReportIsFiled, ReportIsDecided
  DEF Forum!Next, Forum!Serve

\* However their requests overlap, nobody has two open reports of one comment.
THEOREM OneOpenReportForGood == Forum!Spec => []Forum!OneOpenReport
<1>1. Forum!Init => ReportInv
  BY DEF Forum!Init, ReportInv, Forum!OneOpenReport
<1>2. ReportInv /\ [Forum!Next]_Forum!vars => ReportInv'
  BY ReportStep
<1>3. ReportInv => Forum!OneOpenReport
  BY DEF ReportInv
<1>4. QED
  BY <1>1, <1>2, <1>3, PTL DEF Forum!Spec

(***************************************************************************)
(* The conversation of a booking                                           *)
(***************************************************************************)

CONSTANTS Conversations, Parties, Messages

VARIABLES conversation, members, message, notified, passed, cutOff, talking

Chat == INSTANCE Messaging WITH blocked <- cutOff, session <- talking

\* NULL is no id of a conversation, and no row.
Ids == None \notin Conversations

Talk == [at : {"begun", "missing", "found", "flushed"}, party : Parties,
         purpose : Chat!Purposes, message : Messages \cup {None},
         in : Conversations \cup {None}, made : BOOLEAN]

\* Who has a conversation has made it, where nobody else can see it, or has found it.
Has(t) ==
  /\ t.at \in {"found", "flushed"} => t.made \/ t.in \in conversation
  /\ t.made => t.in \in Conversations /\ conversation = {}

Making(s) == talking[s] # Chat!Idle /\ talking[s].made

ChatInv ==
  /\ talking \in [Sessions -> {Chat!Idle} \cup Talk] /\ conversation \subseteq Conversations
  /\ DOMAIN message = Messages
  /\ \A s \in Sessions : talking[s] # Chat!Idle => Has(talking[s])
  /\ \A s, v \in Sessions : Making(s) /\ Making(v) => s = v
  /\ \A c, d \in conversation : c = d
  /\ \A i \in Messages : message[i] # None => message[i].in \in conversation

\* A request goes on, and makes no conversation.
LEMMA TalkGoesOn ==
  ASSUME ChatInv, NEW s \in Sessions, NEW t \in {Chat!Idle} \cup Talk,
         talking' = [talking EXCEPT ![s] = t],
         t # Chat!Idle => Has(t) /\ (t.made => Making(s)),
         UNCHANGED <<conversation, message>>
  PROVE  ChatInv'
<1>1. /\ talking' \in [Sessions -> {Chat!Idle} \cup Talk]
      /\ \A v \in Sessions : talking'[v] = IF v = s THEN t ELSE talking[v]
  BY DEF ChatInv
<1>2. \A r : Has(r)' <=> Has(r)
  BY DEF Has
<1>3. \A v \in Sessions : talking'[v] # Chat!Idle => Has(talking'[v])
  BY <1>1 DEF ChatInv
<1>4. \A v \in Sessions : Making(v)' => Making(v)
  BY <1>1 DEF Making
<1>5. QED
  BY <1>1, <1>2, <1>3, <1>4 DEF ChatInv

LEMMA Busy ==
  ASSUME ChatInv, NEW s \in Sessions, talking[s].at # "idle"
  PROVE  talking[s] # Chat!Idle /\ talking[s] \in Talk /\ Has(talking[s])
BY DEF ChatInv, Chat!Idle

\* Of two that find no conversation one makes it; the other waits.
LEMMA ChatInserted ==
  ASSUME ChatInv, NEW s \in Sessions, Chat!Insert(s)
  PROVE  ChatInv'
<1>1. PICK o, c, t : /\ o = talking[s] /\ c \in Conversations
                     /\ t = [o EXCEPT !.at = "found", !.in = c, !.made = TRUE]
                     /\ talking' = [talking EXCEPT ![s] = t]
  BY DEF Chat!Insert, Chat!Go
<1>2. /\ o \in Talk /\ t \in Talk /\ t.in = c /\ t.made /\ t.at = "found"
  BY <1>1, Busy DEF Chat!Insert, Talk
<1>3. /\ conversation = {} /\ UNCHANGED <<conversation, message>>
      /\ \A v \in Sessions : ~ Making(v)
  BY DEF Chat!Insert, Chat!Unique, Chat!Uncommitted, Chat!tables, Making
<1>4. /\ talking' \in [Sessions -> {Chat!Idle} \cup Talk]
      /\ \A v \in Sessions : talking'[v] = IF v = s THEN t ELSE talking[v]
  BY <1>1, <1>2 DEF ChatInv
<1>5. \A r : Has(r)' <=> Has(r)
  BY <1>3 DEF Has
<1>6. Has(t)
  BY <1>1, <1>2, <1>3 DEF Has
<1>7. \A v \in Sessions : talking'[v] # Chat!Idle => Has(talking'[v])
  BY <1>4, <1>6 DEF ChatInv
<1>8. \A v \in Sessions : Making(v)' => v = s
  BY <1>3, <1>4 DEF Making
<1>9. QED
  BY <1>3, <1>4, <1>5, <1>7, <1>8 DEF ChatInv

\* A commit publishes the conversation that was made; nobody else has made one.
LEMMA ChatPublished ==
  ASSUME Ids, ChatInv, NEW s \in Sessions, talking[s].at \in {"found", "flushed"},
         Chat!Publish(s), Chat!End(s), DOMAIN message' = Messages,
         \A i \in Messages : message'[i] = message[i] \/ message'[i].in = talking[s].in
  PROVE  ChatInv'
<1>1. PICK t : t = talking[s]
  OBVIOUS
<1>2. t # Chat!Idle /\ t \in Talk /\ Has(t)
  BY <1>1, Busy
<1>3. /\ talking' \in [Sessions -> {Chat!Idle} \cup Talk]
      /\ \A v \in Sessions : talking'[v] = IF v = s THEN Chat!Idle ELSE talking[v]
  BY DEF ChatInv, Chat!End, Chat!Go
<1>4. /\ conversation' = IF t.made THEN conversation \cup {t.in} ELSE conversation
      /\ t.in \in conversation'
      /\ conversation \subseteq conversation' /\ conversation' \subseteq Conversations
      /\ \A c, d \in conversation' : c = d
  BY <1>1, <1>2 DEF Chat!Publish, Has, ChatInv
<1>5. ASSUME NEW v \in Sessions \ {s}, talking[v] # Chat!Idle
      PROVE  Has(talking[v])'
  <2>1. Has(talking[v]) /\ (t.made => ~ talking[v].made)
    BY <1>1, <1>2, <1>5 DEF ChatInv, Making
  <2>2. talking[v].made => conversation' = conversation
    BY <1>4, <2>1 DEF ChatInv, Talk
  <2>3. talking'[v] = talking[v]
    BY <1>3
  <2>4. QED
    BY <1>4, <2>1, <2>2, <2>3 DEF Has
<1>6. \A v \in Sessions : talking'[v] # Chat!Idle => Has(talking[v])'
  BY <1>3, <1>5
<1>7. \A i \in Messages : message'[i] # None => message'[i].in \in conversation'
  BY <1>1, <1>4 DEF ChatInv
<1>8. \A v \in Sessions : Making(v)' => Making(v)
  BY <1>3 DEF Making
<1>9. QED
  BY <1>3, <1>4, <1>6, <1>7, <1>8 DEF ChatInv

LEMMA ChatStep ==
  ASSUME Ids, ChatInv, [Chat!Next]_Chat!vars
  PROVE  ChatInv'
<1>1. ASSUME UNCHANGED <<conversation, message, talking>>
      PROVE  ChatInv'
  BY <1>1 DEF ChatInv, Has, Making
<1>2. ASSUME NEW s \in Sessions, NEW u \in Parties, NEW p \in Chat!Purposes,
             NEW i \in Messages \cup {None}, Chat!Begin(s, u, p, i)
      PROVE  ChatInv'
  <2>1. PICK t : t = [at |-> "begun", party |-> u, purpose |-> p, message |-> i,
                      in |-> None, made |-> FALSE]
    OBVIOUS
  <2>2. t \in Talk /\ Has(t) /\ ~ t.made
    BY <2>1 DEF Talk, Has
  <2>3. QED
    BY <1>2, <2>1, <2>2, TalkGoesOn DEF Chat!Begin, Chat!Go, Chat!tables
<1>3. ASSUME NEW s \in Sessions, NEW c \in conversation, talking[s].at \in {"begun", "missing"},
             talking' = [talking EXCEPT ![s] = [talking[s] EXCEPT !.at = "found", !.in = c]],
             UNCHANGED <<conversation, message>>
      PROVE  ChatInv'
  <2>1. PICK o, t : o = talking[s] /\ t = [o EXCEPT !.at = "found", !.in = c]
    OBVIOUS
  <2>2. o # Chat!Idle /\ o \in Talk /\ Has(o) /\ c \in Conversations
    BY <1>3, <2>1, Busy DEF ChatInv
  <2>3. t \in Talk /\ t.in = c /\ t.made = o.made /\ Has(t)
    BY <2>1, <2>2 DEF Talk, Has
  <2>4. QED
    BY <1>3, <2>1, <2>2, <2>3, TalkGoesOn DEF Making
<1>4. ASSUME NEW s \in Sessions, NEW at \in {"missing", "flushed"},
             at = "missing" => talking[s].at = "begun",
             at = "flushed" => talking[s].at = "found",
             talking' = [talking EXCEPT ![s] = [talking[s] EXCEPT !.at = at]],
             UNCHANGED <<conversation, message>>
      PROVE  ChatInv'
  <2>1. PICK o, t : o = talking[s] /\ t = [o EXCEPT !.at = at]
    OBVIOUS
  <2>2. o # Chat!Idle /\ o \in Talk /\ Has(o)
    BY <1>4, <2>1, Busy
  <2>3. t \in Talk /\ t.in = o.in /\ t.made = o.made /\ t.at = at /\ Has(t)
    BY <1>4, <2>1, <2>2 DEF Talk, Has
  <2>4. QED
    BY <1>4, <2>1, <2>2, <2>3, TalkGoesOn DEF Making
<1>5. ASSUME NEW s \in Sessions, Chat!Find(s)
      PROVE  ChatInv'
  BY <1>3, <1>4, <1>5 DEF Chat!Find, Chat!Go, Chat!tables
<1>6. ASSUME NEW s \in Sessions, Chat!Lose(s)
      PROVE  ChatInv'
  BY <1>3, <1>6 DEF Chat!Lose, Chat!Go, Chat!tables
<1>7. ASSUME NEW s \in Sessions, Chat!CheckBlock(s)
      PROVE  ChatInv'
  BY <1>4, <1>7 DEF Chat!CheckBlock, Chat!Go, Chat!tables
<1>8. ASSUME NEW s \in Sessions, Chat!Send(s)
      PROVE  ChatInv'
  <2>1. PICK t, row : /\ t = talking[s] /\ row = [by |-> t.party, in |-> t.in]
                      /\ message' = [message EXCEPT ![t.message] = row]
    BY <1>8 DEF Chat!Send
  <2>2. row.in = t.in
    BY <2>1
  <2>3. /\ DOMAIN message' = Messages
        /\ \A i \in Messages : message'[i] = message[i] \/ message'[i].in = t.in
    BY <2>1, <2>2 DEF ChatInv
  <2>4. QED
    BY <1>8, <2>1, <2>3, ChatPublished DEF Chat!Send
<1>9. ASSUME NEW s \in Sessions, Chat!MarkRead(s) \/ Chat!List(s)
      PROVE  ChatInv'
  BY <1>9, ChatPublished DEF Chat!MarkRead, Chat!List, ChatInv
<1>10. ASSUME NEW s \in Sessions, Chat!Abort(s)
       PROVE  ChatInv'
  BY <1>10, TalkGoesOn DEF Chat!Abort, Chat!End, Chat!Go
<1>11. QED
  BY <1>1, <1>2, <1>5, <1>6, <1>7, <1>8, <1>9, <1>10, ChatInserted
  DEF Chat!Next, Chat!Serve, Chat!Block, Chat!vars

\* The parties' first messages meet in one conversation, and what either has sent is in it.
THEOREM OneConversationForGood ==
  ASSUME Ids
  PROVE  Chat!Spec => []Chat!OneConversation
<1>1. Chat!Init => ChatInv
  BY DEF Chat!Init, ChatInv, Making
<1>2. ChatInv /\ [Chat!Next]_Chat!vars => ChatInv'
  BY ChatStep
<1>3. ASSUME ChatInv
      PROVE  Chat!OneConversation
  <2>1. Cardinality(conversation) <= 1
    <3>1. CASE conversation = {}
      BY <3>1, FS_EmptySet
    <3>2. CASE conversation # {}
      <4>1. PICK c : conversation = {c}
        BY <1>3, <3>2 DEF ChatInv
      <4>2. QED
        BY <4>1, FS_Singleton
    <3>3. QED
      BY <3>1, <3>2
  <2>2. Chat!Cardinality(conversation) = Cardinality(conversation)
    BY DEF Chat!Cardinality, Cardinality
  <2>3. \A i \in Chat!Sent : message[i].in \in conversation
    BY <1>3 DEF ChatInv, Chat!Sent
  <2>4. QED
    BY <2>1, <2>2, <2>3 DEF Chat!OneConversation
<1>4. QED
  BY <1>1, <1>2, <1>3, PTL DEF Chat!Spec

(***************************************************************************)
(* Lockouts                                                                *)
(***************************************************************************)

CONSTANTS Logins, Threshold, Faults, MaxFails, MaxLockouts

VARIABLES fails, expiring, login, lockouts, reached

Lockout == INSTANCE LoginLockout

\* The logins that are about to enter a lockout in the audit log.
Recording == {l \in Logins : \/ login[l].at = "expire" /\ login[l].count = Threshold
                             \/ login[l].at = "audit"}

LockoutInv ==
  /\ DOMAIN login = Logins
  /\ lockouts \in Nat /\ reached \in Nat
  /\ lockouts + Cardinality(Recording) <= reached
  /\ ~ Faults => lockouts + Cardinality(Recording) = reached

\* A login goes on that is recording after as before.
LEMMA LoginGoesOn ==
  ASSUME LockoutInv, NEW l \in Logins, NEW t, login' = [login EXCEPT ![l] = t],
         UNCHANGED <<lockouts, reached>>,
         ((t.at = "expire" /\ t.count = Threshold) \/ t.at = "audit") <=> l \in Recording
  PROVE  LockoutInv'
<1>1. DOMAIN login' = Logins /\ \A k \in Logins : login'[k] = IF k = l THEN t ELSE login[k]
  BY DEF LockoutInv
<1>2. Recording' = Recording
  BY <1>1 DEF Recording
<1>3. QED
  BY <1>1, <1>2 DEF LockoutInv

\* A login is the last that records, or begins to.
LEMMA OneMore ==
  ASSUME IsFiniteSet(Logins)
  PROVE  /\ IsFiniteSet(Recording) /\ Cardinality(Recording) \in Nat
         /\ \A l \in Logins \ Recording : Cardinality(Recording \cup {l}) = Cardinality(Recording) + 1
         /\ \A l \in Recording : Cardinality(Recording \ {l}) = Cardinality(Recording) - 1
<1>1. IsFiniteSet(Recording)
  BY FS_Subset DEF Recording
<1>2. QED
  BY <1>1, FS_CardinalityType, FS_AddElement, FS_RemoveElement

LEMMA LoginEnds ==
  ASSUME IsFiniteSet(Logins), LockoutInv, NEW l \in Logins,
         login' = [login EXCEPT ![l] = [at |-> "idle"]],
         UNCHANGED reached, lockouts' \in Nat,
         IF l \in Recording THEN lockouts' = lockouts + 1 \/ (Faults /\ lockouts' = lockouts)
         ELSE lockouts' = lockouts
  PROVE  LockoutInv'
<1>1. PICK t : t = [at |-> "idle"]
  OBVIOUS
<1>2. t.at = "idle" /\ DOMAIN login' = Logins
      /\ \A k \in Logins : login'[k] = IF k = l THEN t ELSE login[k]
  BY <1>1 DEF LockoutInv
<1>3. Recording' = Recording \ {l}
  BY <1>2 DEF Recording
<1>4. CASE l \in Recording
  BY <1>2, <1>3, <1>4, OneMore DEF LockoutInv
<1>5. CASE l \notin Recording
  <2>1. Recording' = Recording
    BY <1>3, <1>5
  <2>2. QED
    BY <1>2, <1>5, <2>1 DEF LockoutInv
<1>6. QED
  BY <1>4, <1>5

LEMMA LockoutStep ==
  ASSUME IsFiniteSet(Logins), LockoutInv, [Lockout!Next]_Lockout!vars
  PROVE  LockoutInv'
<1>1. ASSUME UNCHANGED <<login, lockouts, reached>>
      PROVE  LockoutInv'
  BY <1>1 DEF LockoutInv, Recording
<1>2. ASSUME NEW l \in Logins, NEW at \in {"idle", "signIn", "clear", "count"},
             login' = [login EXCEPT ![l] = [at |-> at]], UNCHANGED <<lockouts, reached>>,
             l \notin Recording
      PROVE  LockoutInv'
  <2>1. PICK t : t = [at |-> at]
    OBVIOUS
  <2>2. t.at \notin {"expire", "audit"}
    BY <2>1
  <2>3. QED
    BY <1>2, <2>1, <2>2, LoginGoesOn
<1>3. ASSUME NEW l \in Logins, Lockout!Check(l) \/ Lockout!SignIn(l) \/ Lockout!Clear(l)
      PROVE  LockoutInv'
  <2>1. l \notin Recording
    BY <1>3 DEF Lockout!Check, Lockout!SignIn, Lockout!Clear, Recording
  <2>2. QED
    BY <1>2, <1>3, <2>1 DEF Lockout!Check, Lockout!SignIn, Lockout!Clear, Lockout!Go
<1>4. ASSUME NEW l \in Logins, Lockout!Increment(l)
      PROVE  LockoutInv'
  <2>1. PICK t : t = [at |-> "expire", count |-> fails']
    OBVIOUS
  <2>2. /\ t.at = "expire" /\ t.count = fails' /\ login' = [login EXCEPT ![l] = t]
        /\ UNCHANGED lockouts /\ l \notin Recording
        /\ reached' = IF fails' = Threshold THEN reached + 1 ELSE reached
    BY <1>4, <2>1 DEF Lockout!Increment, Lockout!Go, Recording
  <2>3. CASE fails' # Threshold
    BY <2>2, <2>3, LoginGoesOn
  <2>4. CASE fails' = Threshold
    <3>1. DOMAIN login' = Logins /\ \A k \in Logins : login'[k] = IF k = l THEN t ELSE login[k]
      BY <2>2 DEF LockoutInv
    <3>2. Recording' = Recording \cup {l}
      BY <2>2, <2>4, <3>1 DEF Recording
    <3>3. QED
      BY <2>2, <2>4, <3>1, <3>2, OneMore DEF LockoutInv
  <2>5. QED
    BY <2>3, <2>4
<1>5. ASSUME NEW l \in Logins, Lockout!Slide(l)
      PROVE  LockoutInv'
  <2>1. PICK t : t = [at |-> IF login[l].count = Threshold THEN "audit" ELSE "idle"]
    OBVIOUS
  <2>2. /\ t.at = IF login[l].count = Threshold THEN "audit" ELSE "idle"
        /\ login' = [login EXCEPT ![l] = t] /\ login[l].at = "expire"
        /\ UNCHANGED <<lockouts, reached>>
    BY <1>5, <2>1 DEF Lockout!Slide, Lockout!Go, Lockout!Triggers
  <2>3. QED
    BY <2>2, LoginGoesOn DEF Recording
<1>6. ASSUME NEW l \in Logins, Lockout!Audit(l)
      PROVE  LockoutInv'
  <2>1. l \in Recording /\ lockouts' = lockouts + 1 /\ lockouts' \in Nat
    BY <1>6 DEF Lockout!Audit, Recording, LockoutInv
  <2>2. QED
    BY <1>6, <2>1, LoginEnds DEF Lockout!Audit, Lockout!Go
<1>7. ASSUME NEW l \in Logins, Lockout!CutOff(l)
      PROVE  LockoutInv'
  BY <1>7, LoginEnds DEF Lockout!CutOff, Lockout!Go, LockoutInv
<1>8. QED
  BY <1>1, <1>3, <1>4, <1>5, <1>6, <1>7 DEF Lockout!Next, Lockout!Expire, Lockout!vars

\* However many logins fail at once, a lockout is entered in the audit log once, by the login
\* that brought the counter to the threshold; and not at all only if that one is cut off.
THEOREM LockoutsRecordedOnce ==
  ASSUME IsFiniteSet(Logins)
  PROVE  Lockout!Spec => []Lockout!LockoutRecordedOnce
<1>1. ASSUME Lockout!Init
      PROVE  LockoutInv
  <2>1. Recording = {}
    BY <1>1 DEF Lockout!Init, Recording
  <2>2. QED
    BY <1>1, <2>1, FS_EmptySet DEF Lockout!Init, LockoutInv
<1>2. LockoutInv /\ [Lockout!Next]_Lockout!vars => LockoutInv'
  BY LockoutStep
<1>3. ASSUME LockoutInv
      PROVE  Lockout!LockoutRecordedOnce
  <2>1. Lockout!Cardinality(Recording) = Cardinality(Recording)
    BY DEF Lockout!Cardinality, Cardinality
  <2> DEFINE entries == lockouts + Lockout!Cardinality(Recording)
  <2>2. entries <= reached /\ (~ Faults => entries = reached)
    BY <1>3, <2>1 DEF LockoutInv
  <2>3. QED
    BY <2>2 DEF Lockout!LockoutRecordedOnce, Recording
<1>4. QED
  BY <1>1, <1>2, <1>3, PTL DEF Lockout!Spec

(***************************************************************************)
(* What overlapping requests make once                                     *)
(***************************************************************************)

\* What requests that overlap all find missing is made once.
MadeOnce ==
  /\ Social!OneDefault
  /\ Forum!OneOpenReport
  /\ Chat!OneConversation
  /\ Campaign!CampaignShownOnce
  /\ Lockout!LockoutRecordedOnce

\* The default collection, an open report, a conversation, a campaign's notification of
\* each user and the audit entry of a lockout: each is made once, however requests, retries
\* and failures interleave, if a campaign is sent at a time.
THEOREM MadeOnceForGood ==
  ASSUME Social!Constants, OneAtATime, Ids, IsFiniteSet(Logins)
  PROVE  Social!Spec /\ Forum!Spec /\ Chat!Spec /\ Campaign!Spec /\ Lockout!Spec
           => []MadeOnce
<1>1. Social!Spec => []Social!OneDefault
  BY Social!OneDefaultForGood
<1>2. QED
  BY <1>1, OneOpenReportForGood, OneConversationForGood, CampaignsShownOnce,
     LockoutsRecordedOnce, PTL DEF MadeOnce

(***************************************************************************)
(* Deleted accounts                                                        *)
(***************************************************************************)

CONSTANTS Grace, Overtaking

VARIABLES identity, account, profile, consented, age, finalized, serving, run

Deletion == INSTANCE Accounts WITH session <- serving

Alive(u) == account[u] # Deletion!NoRow /\ ~ account[u].deleted

\* What a request has read of an account, which exists, has its columns.
ServingTyped(t) ==
  /\ t.at \in {"register", "edit", "request", "staff"} => t.user \in Users
  /\ t.at \in {"request", "staff"} => t.row \in Deletion!Row /\ account[t.user] # Deletion!NoRow
  /\ t.at = "staff" => t.to \in {"suspended", "active"}

AccountInv ==
  /\ account \in [Users -> {Deletion!NoRow} \cup Deletion!Row]
  /\ profile \in [Users -> {"none", "personal", "anonymous"}]
  /\ finalized \in [Users -> 0..2] /\ run \subseteq Users /\ DOMAIN serving = Sessions
  /\ \A s \in Sessions : ServingTyped(serving[s])
  /\ \A u \in run : Alive(u)
  /\ \A u \in Users : finalized[u] <= 1 /\ (finalized[u] = 1 => ~ Alive(u) /\ account[u] # Deletion!NoRow)

LEMMA NoRowIsNone ==
  /\ Deletion!NoRow \notin Deletion!Row
  /\ Deletion!New \in Deletion!Row /\ ~ Deletion!New.deleted
BY DEF Deletion!NoRow, Deletion!Row, Deletion!New

\* A request begins, or ends without a write.
LEMMA ServingGoesOn ==
  ASSUME AccountInv, NEW s \in Sessions, NEW t, ServingTyped(t),
         serving' = [serving EXCEPT ![s] = t], UNCHANGED <<account, profile, finalized, run>>
  PROVE  AccountInv'
<1>1. /\ DOMAIN serving' = Sessions
      /\ \A v \in Sessions : serving'[v] = IF v = s THEN t ELSE serving[v]
  BY DEF AccountInv
<1>2. \A r : ServingTyped(r)' <=> ServingTyped(r)
  BY DEF ServingTyped
<1>3. \A u : Alive(u)' <=> Alive(u)
  BY DEF Alive
<1>4. \A v \in Sessions : ServingTyped(serving'[v])
  BY <1>1 DEF AccountInv
<1>5. QED
  BY <1>1, <1>2, <1>3, <1>4 DEF AccountInv

\* Accounts are made, or written but for the mark that the deletion run sets.
Kept(u) ==
  /\ account[u] # Deletion!NoRow =>
       account'[u] # Deletion!NoRow /\ account'[u].deleted = account[u].deleted
  /\ account[u] = Deletion!NoRow => account'[u] = Deletion!NoRow \/ ~ account'[u].deleted

LEMMA AccountsKept ==
  ASSUME AccountInv, account' \in [Users -> {Deletion!NoRow} \cup Deletion!Row],
         profile' \in [Users -> {"none", "personal", "anonymous"}], \A u \in Users : Kept(u),
         UNCHANGED <<finalized, run>>, DOMAIN serving' = Sessions,
         \A v \in Sessions : serving'[v] = serving[v] \/ serving'[v] = Deletion!Idle
  PROVE  AccountInv'
<1>1. Deletion!Idle.at = "idle"
  BY DEF Deletion!Idle
<1>2. \A u \in Users : /\ Alive(u) => Alive(u)'
                       /\ account[u] # Deletion!NoRow => (Alive(u)' <=> Alive(u))
  BY DEF Kept, Alive
<1>3. \A v \in Sessions : ServingTyped(serving[v])'
  BY <1>1 DEF AccountInv, ServingTyped, Kept
<1>4. QED
  BY <1>2, <1>3 DEF AccountInv, Kept

\* A request of the user, or of the staff, writes the columns it has changed.
LEMMA AccountIsWritten ==
  ASSUME AccountInv, NEW s \in Sessions, NEW u \in Users, NEW old \in Deletion!Row,
         NEW next \in Deletion!Row, serving[s].row = old, account[u] # Deletion!NoRow,
         next.deleted = old.deleted, Deletion!Write(s, u, next)
  PROVE  AccountInv'
<1>1. PICK row, new : /\ row = account[u]
                      /\ new = [c \in DOMAIN row |-> IF next[c] = old[c] THEN row[c] ELSE next[c]]
  OBVIOUS
<1>2. /\ account' = [account EXCEPT ![u] = new]
      /\ UNCHANGED <<profile, finalized, run>>
      /\ serving' = [serving EXCEPT ![s] = Deletion!Idle]
  BY <1>1 DEF Deletion!Write, Deletion!Go, AccountInv
<1>3. row \in Deletion!Row
  BY <1>1 DEF AccountInv
<1>4. new \in Deletion!Row /\ new.deleted = row.deleted
  <2>1. DOMAIN row = {"status", "requested", "deleted", "personal"}
    BY <1>3 DEF Deletion!Row
  <2>2. /\ new.status \in {next.status, row.status} /\ new.requested \in {next.requested, row.requested}
        /\ new.deleted = row.deleted /\ new.personal \in {next.personal, row.personal}
    BY <1>1, <2>1
  <2>3. new = [status |-> new.status, requested |-> new.requested, deleted |-> new.deleted,
               personal |-> new.personal]
    BY <1>1, <2>1
  <2>4. /\ new.status \in {"active", "suspended", "pending_deletion"}
        /\ new.requested \in BOOLEAN /\ new.deleted \in BOOLEAN /\ new.personal \in BOOLEAN
    BY <1>3, <2>2 DEF Deletion!Row
  <2>5. QED
    BY <2>2, <2>3, <2>4 DEF Deletion!Row
<1>5. /\ account' \in [Users -> {Deletion!NoRow} \cup Deletion!Row]
      /\ \A w \in Users : Kept(w)
  BY <1>1, <1>2, <1>4, NoRowIsNone DEF AccountInv, Kept
<1>6. profile' \in [Users -> {"none", "personal", "anonymous"}] /\ DOMAIN serving' = Sessions
      /\ \A v \in Sessions : serving'[v] = serving[v] \/ serving'[v] = Deletion!Idle
  BY <1>2 DEF AccountInv
<1>7. QED
  BY <1>2, <1>5, <1>6, AccountsKept

LEMMA RequestOrRule ==
  ASSUME AccountInv, NEW s \in Sessions, Deletion!Request(s) \/ Deletion!Rule(s)
  PROVE  AccountInv'
<1>1. PICK t, old : t = serving[s] /\ old = t.row
  OBVIOUS
<1>2. /\ t.user \in Users /\ old \in Deletion!Row /\ account[t.user] # Deletion!NoRow
      /\ t.at = "staff" => t.to \in {"suspended", "active"}
  BY <1>1 DEF Deletion!Request, Deletion!Rule, AccountInv, ServingTyped
<1>3. PICK next : /\ Deletion!Write(s, t.user, next)
                  /\ \/ next = [old EXCEPT !.requested = TRUE, !.status = "pending_deletion"]
                     \/ t.at = "staff" /\ next = [old EXCEPT !.status = t.to]
  BY <1>1 DEF Deletion!Request, Deletion!Rule
<1>4. next \in Deletion!Row /\ next.deleted = old.deleted
  BY <1>2, <1>3 DEF Deletion!Row
<1>5. QED
  BY <1>1, <1>2, <1>3, <1>4, AccountIsWritten

\* A row is made for a user who has none.
LEMMA AccountIsMade ==
  ASSUME AccountInv, NEW u \in Users, account[u] = Deletion!NoRow,
         account' = [account EXCEPT ![u] = Deletion!New],
         profile' = profile \/ profile' = [profile EXCEPT ![u] = "personal"],
         UNCHANGED <<finalized, run>>, DOMAIN serving' = Sessions,
         \A v \in Sessions : serving'[v] = serving[v] \/ serving'[v] = Deletion!Idle
  PROVE  AccountInv'
<1>1. /\ account' \in [Users -> {Deletion!NoRow} \cup Deletion!Row]
      /\ account'[u] = Deletion!New /\ \A w \in Users \ {u} : account'[w] = account[w]
      /\ profile' \in [Users -> {"none", "personal", "anonymous"}]
      /\ \A w \in Users \ {u} : profile'[w] = profile[w]
  BY NoRowIsNone DEF AccountInv
<1>2. \A w \in Users : Kept(w)
  BY <1>1, NoRowIsNone DEF Kept
<1>3. QED
  BY <1>1, <1>2, AccountsKept

LEMMA RegisterOrProvision ==
  ASSUME AccountInv,
         \/ \E s \in Sessions : Deletion!Register(s)
         \/ \E u \in Users : Deletion!Provision(u)
  PROVE  AccountInv'
<1>1. CASE \E u \in Users : Deletion!Provision(u)
  BY <1>1, AccountIsMade DEF Deletion!Provision, AccountInv
<1>2. CASE \E s \in Sessions : Deletion!Register(s)
  <2>1. PICK s \in Sessions : Deletion!Register(s)
    BY <1>2
  <2>2. PICK u : u = serving[s].user
    OBVIOUS
  <2>3. /\ u \in Users /\ UNCHANGED <<finalized, run>>
        /\ serving' = [serving EXCEPT ![s] = Deletion!Idle]
        /\ \/ /\ account[u] = Deletion!NoRow
              /\ account' = [account EXCEPT ![u] = Deletion!New]
              /\ profile' = [profile EXCEPT ![u] = "personal"]
           \/ UNCHANGED <<account, profile>>
    BY <2>1, <2>2 DEF Deletion!Register, Deletion!Go, AccountInv, ServingTyped
  <2>4. /\ DOMAIN serving' = Sessions
        /\ \A v \in Sessions : serving'[v] = serving[v] \/ serving'[v] = Deletion!Idle
    BY <2>3 DEF AccountInv
  <2>5. CASE UNCHANGED <<account, profile>>
    BY <2>3, <2>4, <2>5, AccountsKept DEF AccountInv, Kept
  <2>6. QED
    BY <2>3, <2>4, <2>5, AccountIsMade
<1>3. QED
  BY <1>1, <1>2

\* A person who is there changes their profile.
LEMMA ProfileIsEdited ==
  ASSUME AccountInv, NEW s \in Sessions, Deletion!Edit(s)
  PROVE  AccountInv'
<1>1. PICK u : u = serving[s].user
  OBVIOUS
<1>2. /\ u \in Users /\ serving[s].at = "edit"
      /\ profile' = [profile EXCEPT ![u] = "personal"]
      /\ serving' = [serving EXCEPT ![s] = Deletion!Idle]
      /\ UNCHANGED <<account, finalized, run>>
  BY <1>1 DEF Deletion!Edit, Deletion!Go, AccountInv, ServingTyped
<1>3. /\ profile' \in [Users -> {"none", "personal", "anonymous"}]
      /\ \A w \in Users \ {u} : profile'[w] = profile[w]
      /\ DOMAIN serving' = Sessions
      /\ \A v \in Sessions : serving'[v] = serving[v] \/ serving'[v] = Deletion!Idle
  BY <1>2 DEF AccountInv
<1>4. /\ account' \in [Users -> {Deletion!NoRow} \cup Deletion!Row]
      /\ \A w \in Users : Kept(w)
  BY <1>2 DEF AccountInv, Kept
<1>5. QED
  BY <1>2, <1>3, <1>4, AccountsKept

\* The run reads accounts that are there, and marks each as gone.
LEMMA RunReads ==
  ASSUME AccountInv, Deletion!StartRun \/ Deletion!LoseRun \/ Deletion!Day
  PROVE  AccountInv'
<1>1. UNCHANGED <<account, profile, finalized, serving>>
  BY DEF Deletion!StartRun, Deletion!LoseRun, Deletion!Day
<1>2. run' \subseteq Users /\ \A u \in run' : Alive(u)
  BY DEF Deletion!StartRun, Deletion!LoseRun, Deletion!Day, Deletion!Due, AccountInv, Alive
<1>3. \A u : Alive(u)' <=> Alive(u)
  BY <1>1 DEF Alive
<1>4. \A s \in Sessions : ServingTyped(serving[s])'
  BY <1>1 DEF ServingTyped, AccountInv
<1>5. QED
  BY <1>1, <1>2, <1>3, <1>4 DEF AccountInv

LEMMA RunDeletes ==
  ASSUME AccountInv, Deletion!EndRun
  PROVE  AccountInv'
<1>1. /\ run' = {} /\ UNCHANGED serving
      /\ account' = [u \in Users |-> IF u \in run THEN Deletion!Anonymized(account[u])
                                                    ELSE account[u]]
      /\ profile' = [u \in Users |->
                       IF u \in run /\ profile[u] # "none" THEN "anonymous" ELSE profile[u]]
      /\ finalized' = [u \in Users |->
                         IF u \in run /\ finalized[u] < 2 THEN finalized[u] + 1 ELSE finalized[u]]
      /\ run # {}
  BY DEF Deletion!EndRun
<1>2. \A row \in Deletion!Row : /\ Deletion!Anonymized(row) \in Deletion!Row
                                /\ Deletion!Anonymized(row).deleted
                                /\ ~ Deletion!Anonymized(row).personal
  BY DEF Deletion!Row, Deletion!Anonymized
<1>3. \A u \in run : u \in Users /\ account[u] \in Deletion!Row /\ account[u] # Deletion!NoRow
  BY DEF AccountInv, Alive
<1>4. /\ account' \in [Users -> {Deletion!NoRow} \cup Deletion!Row]
      /\ profile' \in [Users -> {"none", "personal", "anonymous"}]
      /\ finalized' \in [Users -> 0..2]
  BY <1>1, <1>2, <1>3 DEF AccountInv
<1>5. \A u \in Users : u \notin run =>
        account'[u] = account[u] /\ profile'[u] = profile[u] /\ finalized'[u] = finalized[u]
  BY <1>1
<1>6. \A u \in run : /\ account'[u] \in Deletion!Row /\ account'[u].deleted
                    /\ ~ account'[u].personal /\ profile'[u] # "personal"
                    /\ finalized'[u] = 1
  <2>1. TAKE u \in run
  <2>2. u \in Users /\ account[u] \in Deletion!Row /\ finalized[u] = 0
    BY <1>3 DEF AccountInv
  <2>3. QED
    BY <1>1, <1>2, <2>2
<1>7. \A u \in Users : account[u] # Deletion!NoRow <=> account'[u] # Deletion!NoRow
  BY <1>3, <1>5, <1>6, NoRowIsNone
<1>8. \A s \in Sessions : ServingTyped(serving[s])'
  BY <1>1, <1>7 DEF ServingTyped, AccountInv
<1>9. \A u \in Users : finalized'[u] <= 1 /\ (finalized'[u] = 1 => ~ Alive(u)')
  BY <1>5, <1>6 DEF AccountInv, Alive
<1>10. AccountInv'
  <2>1. run' \subseteq Users /\ DOMAIN serving' = Sessions /\ \A u \in run' : Alive(u)'
    BY <1>1 DEF AccountInv
  <2>2. ASSUME NEW u \in Users, finalized'[u] = 1
        PROVE  account'[u] # Deletion!NoRow
    <3>1. CASE u \in run
      BY <1>3, <1>7, <3>1
    <3>2. CASE u \notin run
      BY <1>5, <2>2, <3>2 DEF AccountInv
    <3>3. QED
      BY <3>1, <3>2
  <2>3. QED
    BY <1>4, <1>8, <1>9, <2>1, <2>2 DEF AccountInv
<1>11. QED
  BY <1>10

LEMMA RequestBegins ==
  ASSUME AccountInv, NEW s \in Sessions, NEW u \in Users,
         \/ Deletion!SignUp(s, u) \/ Deletion!CheckEdit(s, u) \/ Deletion!CheckRequest(s, u)
         \/ Deletion!CheckSuspend(s, u) \/ Deletion!CheckReactivate(s, u)
  PROVE  AccountInv'
<1>1. CASE Deletion!SignUp(s, u)
  <2>1. PICK t : t = [at |-> "register", user |-> u]
    OBVIOUS
  <2>2. /\ serving' = [serving EXCEPT ![s] = t]
        /\ UNCHANGED <<account, profile, finalized, run>>
    BY <1>1, <2>1 DEF Deletion!SignUp, Deletion!Go
  <2>3. ServingTyped(t) /\ t.at # "edit"
    BY <2>1 DEF ServingTyped
  <2>4. QED
    BY <2>2, <2>3, ServingGoesOn
<1>2. CASE Deletion!CheckEdit(s, u)
  <2>1. PICK t : t = [at |-> "edit", user |-> u]
    OBVIOUS
  <2>2. /\ serving' = [serving EXCEPT ![s] = t]
        /\ UNCHANGED <<account, profile, finalized, run>>
        /\ Alive(u) /\ (Overtaking \/ run = {})
    BY <1>2, <2>1 DEF Deletion!CheckEdit, Deletion!Begin, Deletion!Go, Deletion!Admitted, Alive
  <2>3. ServingTyped(t) /\ t.user = u
    BY <2>1 DEF ServingTyped
  <2>4. QED
    BY <2>2, <2>3, ServingGoesOn
<1>3. CASE Deletion!CheckRequest(s, u)
  <2>1. PICK t : t = [at |-> "request", user |-> u, row |-> account[u]]
    OBVIOUS
  <2>2. /\ serving' = [serving EXCEPT ![s] = t]
        /\ UNCHANGED <<account, profile, finalized, run>>
        /\ account[u] # Deletion!NoRow
    BY <1>3, <2>1 DEF Deletion!CheckRequest, Deletion!Begin, Deletion!Go, Deletion!Admitted
  <2>3. ServingTyped(t) /\ t.at # "edit"
    BY <2>1, <2>2 DEF ServingTyped, AccountInv
  <2>4. QED
    BY <2>2, <2>3, ServingGoesOn
<1>4. CASE Deletion!CheckSuspend(s, u) \/ Deletion!CheckReactivate(s, u)
  <2>1. PICK t, to : t = [at |-> "staff", user |-> u, row |-> account[u], to |-> to]
                     /\ to \in {"suspended", "active"}
                     /\ Deletion!Begin(s, t) /\ account[u] # Deletion!NoRow
    BY <1>4 DEF Deletion!CheckSuspend, Deletion!CheckReactivate
  <2>2. /\ serving' = [serving EXCEPT ![s] = t]
        /\ UNCHANGED <<account, profile, finalized, run>>
    BY <2>1 DEF Deletion!Begin, Deletion!Go
  <2>3. ServingTyped(t) /\ t.at # "edit"
    BY <2>1 DEF ServingTyped, AccountInv
  <2>4. QED
    BY <2>2, <2>3, ServingGoesOn
<1>5. QED
  BY <1>1, <1>2, <1>3, <1>4

LEMMA RequestIsLost ==
  ASSUME AccountInv, NEW s \in Sessions, Deletion!Abort(s)
  PROVE  AccountInv'
<1>1. ServingTyped(Deletion!Idle) /\ Deletion!Idle.at # "edit"
  BY DEF ServingTyped, Deletion!Idle
<1>2. QED
  BY <1>1, ServingGoesOn DEF Deletion!Abort, Deletion!Go

LEMMA AccountInit == Deletion!Init => AccountInv
BY NoRowIsNone DEF Deletion!Init, AccountInv, ServingTyped, Alive, Deletion!Idle

LEMMA AccountStep ==
  ASSUME AccountInv, [Deletion!Next]_Deletion!vars
  PROVE  AccountInv'
<1>1. CASE UNCHANGED Deletion!vars
  <2>1. \A u : Alive(u)' <=> Alive(u)
    BY <1>1 DEF Alive, Deletion!vars
  <2>2. \A s : ServingTyped(serving[s])' <=> ServingTyped(serving[s])
    BY <1>1 DEF ServingTyped, Deletion!vars
  <2>3. QED
    BY <1>1, <2>1, <2>2 DEF AccountInv, Deletion!vars
<1>2. CASE \E s \in Sessions, u \in Users :
             \/ Deletion!SignUp(s, u) \/ Deletion!CheckEdit(s, u) \/ Deletion!CheckRequest(s, u)
             \/ Deletion!CheckSuspend(s, u) \/ Deletion!CheckReactivate(s, u)
  BY <1>2, RequestBegins
<1>3. CASE \E s \in Sessions :
             \/ Deletion!Register(s) \/ Deletion!Edit(s) \/ Deletion!Request(s)
             \/ Deletion!Rule(s) \/ Deletion!Abort(s)
  BY <1>3, RegisterOrProvision, ProfileIsEdited, RequestOrRule, RequestIsLost
<1>4. CASE \E u \in Users : Deletion!Provision(u)
  BY <1>4, RegisterOrProvision
<1>5. CASE Deletion!StartRun \/ Deletion!EndRun \/ Deletion!LoseRun \/ Deletion!Day
  BY <1>5, RunReads, RunDeletes
<1>6. QED
  BY <1>1, <1>2, <1>3, <1>4, <1>5 DEF Deletion!Next

(***************************************************************************)
(* A deletion is finalized, and entered in the audit log, once, whatever   *)
(* requests the run overtakes (process_pending_deletions).                 *)
(***************************************************************************)
THEOREM FinalizedOnceForGood == Deletion!Spec => []Deletion!FinalizedOnce
<1>1. Deletion!Init => AccountInv
  BY AccountInit
<1>2. AccountInv /\ [Deletion!Next]_Deletion!vars => AccountInv'
  BY AccountStep
<1>3. AccountInv => Deletion!FinalizedOnce
  BY DEF AccountInv, Deletion!FinalizedOnce
<1>4. QED
  BY <1>1, <1>2, <1>3, PTL DEF Deletion!Spec

(***************************************************************************)
(* Photographs of designs                                                  *)
(***************************************************************************)

CONSTANTS Images, Uploads, Files, Twice, Losing

VARIABLES image, stored, upload

Imaging == INSTANCE DesignImages WITH Together <- Twice

\* NULL is no content of a file, and each image is sent by one request at a time.
OneUpload == ~ Twice /\ None \notin Files

\* The sizes a session has stored when it stands at `at`.
SizesSent(at) ==
  CASE at = "small" -> {"original"}
    [] at = "medium" -> {"original", "small"}
    [] at = "finish" -> Imaging!Sizes
    [] OTHER -> {}

Stage == {"describe", "mark", "original", "small", "medium", "finish", "fail"}

Upload == [at : Stage, image : Images, file : Files, read : Imaging!Image]

\* What a session read or wrote last is what is in the row.
UploadOk(t) ==
  /\ t \in Upload
  /\ t.read = image[t.image] /\ t.read.status \in {"pending", "processing"}
  /\ t.at # "describe" => t.read.file = t.file
  /\ \A z \in SizesSent(t.at) : stored[t.image][z] = t.file

PhotoInv ==
  /\ Imaging!TypeOK
  /\ DOMAIN upload = Uploads
  /\ \A u \in Uploads : upload[u] # Imaging!Idle => UploadOk(upload[u])
  /\ \A u, v \in Uploads :
       upload[u] # Imaging!Idle /\ upload[v] # Imaging!Idle /\ upload[u].image = upload[v].image
         => u = v
  /\ Imaging!ReadyIsWhole

LEMMA Uploading ==
  ASSUME PhotoInv, NEW u \in Uploads, upload[u].at # "idle"
  PROVE  upload[u] # Imaging!Idle /\ UploadOk(upload[u])
BY DEF PhotoInv, Imaging!Idle

\* A session that has an image to itself writes the row and the sizes of it, and goes on
\* with the same image or ends.
LEMMA UploadGoesOn ==
  ASSUME PhotoInv, NEW u \in Uploads, NEW i \in Images, NEW t, Imaging!TypeOK',
         upload' = [upload EXCEPT ![u] = t],
         \A v \in Uploads \ {u} : upload[v] # Imaging!Idle => upload[v].image # i,
         \A j \in Images \ {i} : image'[j] = image[j] /\ stored'[j] = stored[j],
         t # Imaging!Idle => t.image = i /\ UploadOk(t)',
         image'[i].status = "ready" =>
           /\ image'[i].urls /\ image'[i].file # None
           /\ \A z \in Imaging!Sizes : stored'[i][z] = image'[i].file
  PROVE  PhotoInv'
<1>1. /\ DOMAIN upload' = Uploads /\ upload'[u] = t
      /\ \A v \in Uploads \ {u} : upload'[v] = upload[v]
  BY DEF PhotoInv
<1>2. ASSUME NEW v \in Uploads, upload'[v] # Imaging!Idle
      PROVE  UploadOk(upload[v])'
  <2>1. CASE v = u
    <3>1. UploadOk(t)' /\ t = upload'[v]
      BY <1>1, <1>2, <2>1
    <3>2. QED
      BY <3>1 DEF UploadOk
  <2>2. CASE v # u
    <3>1. PICK r : r = upload[v] /\ r = upload'[v]
      BY <1>1, <2>2
    <3>2. UploadOk(r) /\ r.image \in Images \ {i}
      BY <1>2, <2>2, <3>1 DEF PhotoInv, UploadOk, Upload
    <3>3. QED
      BY <3>1, <3>2 DEF UploadOk
  <2>3. QED
    BY <2>1, <2>2
<1>3. \A v, w \in Uploads :
        upload'[v] # Imaging!Idle /\ upload'[w] # Imaging!Idle /\ upload'[v].image = upload'[w].image
          => v = w
  BY <1>1 DEF PhotoInv
<1>4. Imaging!ReadyIsWhole'
  BY DEF PhotoInv, Imaging!ReadyIsWhole
<1>5. QED
  BY <1>1, <1>2, <1>3, <1>4 DEF PhotoInv

\* What a session has read is what it overwrites.
LEMMA RowIsWritten ==
  ASSUME PhotoInv, NEW u \in Uploads, UploadOk(upload[u]), NEW next \in Imaging!Image,
         Imaging!Write(u, next)
  PROVE  /\ image' = [image EXCEPT ![upload[u].image] = next]
         /\ image' \in [Images -> Imaging!Image]
<1>1. PICK t, i, row : t = upload[u] /\ i = t.image /\ row = image[i]
  OBVIOUS
<1>2. i \in Images /\ row \in Imaging!Image /\ t.read = row
  BY <1>1 DEF UploadOk, Upload, PhotoInv, Imaging!TypeOK
<1>3. image' = [image EXCEPT ![i] = [c \in DOMAIN row |-> IF next[c] = row[c] THEN row[c] ELSE next[c]]]
  BY <1>1, <1>2 DEF Imaging!Write, PhotoInv, Imaging!TypeOK
<1>4. DOMAIN row = {"status", "file", "urls"} /\ DOMAIN next = {"status", "file", "urls"}
  BY <1>2 DEF Imaging!Image
<1>5. next = [c \in DOMAIN row |-> IF next[c] = row[c] THEN row[c] ELSE next[c]]
  BY <1>4 DEF Imaging!Image
<1>6. QED
  BY <1>1, <1>2, <1>3, <1>5 DEF PhotoInv, Imaging!TypeOK

LEMMA AuthorizedOrReceived ==
  ASSUME OneUpload, PhotoInv, NEW i \in Images,
         \/ Imaging!Authorize(i)
         \/ \E u \in Uploads, f \in Files : Imaging!Receive(u, i, f)
  PROVE  PhotoInv'
<1>1. CASE Imaging!Authorize(i)
  <2>1. PICK row : row = image[i] /\ row.status = "none"
    BY <1>1 DEF Imaging!Authorize
  <2>2. /\ image' = [image EXCEPT ![i] = [row EXCEPT !.status = "pending"]]
        /\ UNCHANGED <<stored, upload>>
    BY <1>1, <2>1 DEF Imaging!Authorize, PhotoInv, Imaging!TypeOK
  <2>3. /\ row \in Imaging!Image /\ [row EXCEPT !.status = "pending"] \in Imaging!Image
        /\ [row EXCEPT !.status = "pending"].status = "pending"
    BY <2>1 DEF PhotoInv, Imaging!TypeOK, Imaging!Image
  <2>4. /\ image' \in [Images -> Imaging!Image] /\ image'[i].status = "pending"
        /\ \A j \in Images \ {i} : image'[j] = image[j]
    BY <2>2, <2>3 DEF PhotoInv, Imaging!TypeOK
  <2>5. Imaging!TypeOK' /\ Imaging!ReadyIsWhole'
    BY <2>2, <2>4 DEF PhotoInv, Imaging!TypeOK, Imaging!ReadyIsWhole
  <2>6. ASSUME NEW v \in Uploads, upload[v] # Imaging!Idle
        PROVE  UploadOk(upload[v])'
    <3>1. PICK t : t = upload[v]
      OBVIOUS
    <3>2. UploadOk(t) /\ t.image # i
      BY <2>1, <2>6, <3>1 DEF PhotoInv, UploadOk, Upload
    <3>3. QED
      BY <2>2, <2>4, <3>1, <3>2 DEF UploadOk
  <2>7. QED
    BY <2>2, <2>5, <2>6 DEF PhotoInv
<1>2. ASSUME NEW u \in Uploads, NEW f \in Files, Imaging!Receive(u, i, f)
      PROVE  PhotoInv'
  <2>1. PICK t : t = [at |-> "describe", image |-> i, file |-> f, read |-> image[i]]
    OBVIOUS
  <2>2. /\ upload' = [upload EXCEPT ![u] = t] /\ UNCHANGED <<image, stored>>
        /\ image[i].status = "pending"
        /\ \A v \in Uploads : upload[v] # Imaging!Idle => upload[v].image # i
    BY <1>2, <2>1 DEF Imaging!Receive, Imaging!Go, Imaging!Uploadable, Imaging!WorkedOn, OneUpload
  <2>3. UploadOk(t)
    BY <2>1, <2>2 DEF UploadOk, Upload, Stage, SizesSent, PhotoInv, Imaging!TypeOK
  <2>4. UploadOk(t)' /\ Imaging!TypeOK'
    BY <2>2, <2>3 DEF UploadOk, PhotoInv, Imaging!TypeOK
  <2>5. /\ t.image = i /\ image'[i].status # "ready"
        /\ \A j \in Images \ {i} : image'[j] = image[j] /\ stored'[j] = stored[j]
        /\ \A v \in Uploads \ {u} : upload[v] # Imaging!Idle => upload[v].image # i
    BY <2>1, <2>2
  <2>6. upload' = [upload EXCEPT ![u] = t] /\ Imaging!TypeOK' /\ UploadOk(t)'
    BY <2>2, <2>4
  <2>7. QED
    BY <2>5, <2>6, UploadGoesOn
<1>3. QED
  BY <1>1, <1>2

\* The columns of the row are written: what the file is, that it is processed, or the end.
LEMMA RowGoesOn ==
  ASSUME OneUpload, PhotoInv, NEW u \in Uploads,
         \/ Imaging!Describe(u) \/ Imaging!Mark(u) \/ Imaging!Fail(u) \/ Imaging!Finish(u)
  PROVE  PhotoInv'
<1>1. PICK t, i, row : t = upload[u] /\ i = t.image /\ row = t.read
  OBVIOUS
<1>2. /\ t # Imaging!Idle /\ UploadOk(t) /\ i \in Images /\ row = image[i]
      /\ row \in Imaging!Image
  BY <1>1, Uploading DEF Imaging!Describe, Imaging!Mark, Imaging!Fail, Imaging!Finish, PhotoInv,
     UploadOk, Upload, Imaging!TypeOK
<1>3. \A v \in Uploads \ {u} : upload[v] # Imaging!Idle => upload[v].image # i
  BY <1>1, <1>2 DEF PhotoInv
<1>4. ASSUME NEW next \in Imaging!Image, Imaging!Write(u, next), UNCHANGED stored, NEW s,
             upload' = [upload EXCEPT ![u] = s],
             s # Imaging!Idle => s.image = i /\ UploadOk(s)',
             next.status = "ready" =>
               next.urls /\ next.file # None /\ \A z \in Imaging!Sizes : stored[i][z] = next.file
      PROVE  PhotoInv'
  <2>1. image' = [image EXCEPT ![i] = next] /\ image' \in [Images -> Imaging!Image]
    BY <1>1, <1>2, <1>4, RowIsWritten
  <2>2. image'[i] = next /\ \A j \in Images \ {i} : image'[j] = image[j]
    BY <1>2, <2>1 DEF PhotoInv, Imaging!TypeOK
  <2>3. Imaging!TypeOK'
    BY <1>4, <2>1 DEF PhotoInv, Imaging!TypeOK
  <2>4. \A j \in Images \ {i} : image'[j] = image[j] /\ stored'[j] = stored[j]
    BY <1>4, <2>2
  <2>5. image'[i].status = "ready" =>
          /\ image'[i].urls /\ image'[i].file # None
          /\ \A z \in Imaging!Sizes : stored'[i][z] = image'[i].file
    BY <1>4, <2>2
  <2>6. QED
    BY <1>2, <1>3, <1>4, <2>3, <2>4, <2>5, UploadGoesOn
<1>5. ASSUME NEW next \in Imaging!Image, Imaging!Write(u, next), UNCHANGED stored
      PROVE  image'[i] = next
  BY <1>1, <1>2, <1>5, RowIsWritten DEF PhotoInv, Imaging!TypeOK
<1>6. CASE Imaging!Describe(u)
  <2>1. PICK next, s : /\ next = [row EXCEPT !.file = t.file]
                       /\ s = [t EXCEPT !.at = "mark", !.read = next]
                       /\ Imaging!Write(u, next) /\ UNCHANGED stored
                       /\ upload' = [upload EXCEPT ![u] = s]
    BY <1>1, <1>6 DEF Imaging!Describe, Imaging!Go
  <2>2. /\ next \in Imaging!Image /\ next.file = t.file
        /\ next.status \in {"pending", "processing"}
    BY <1>1, <1>2, <2>1 DEF UploadOk, Upload, Imaging!Image
  <2>3. s \in Upload /\ s.at = "mark" /\ s.image = i /\ s.file = t.file /\ s.read = next
    BY <1>1, <1>2, <2>1, <2>2 DEF UploadOk, Upload, Stage
  <2>4. UploadOk(s)'
    BY <1>5, <2>1, <2>2, <2>3 DEF UploadOk, SizesSent
  <2>5. QED
    BY <1>4, <2>1, <2>2, <2>3, <2>4
<1>7. CASE Imaging!Mark(u)
  <2>1. PICK next, s : /\ next = [row EXCEPT !.status = "processing"]
                       /\ s = [t EXCEPT !.at = "original", !.read = next]
                       /\ Imaging!Write(u, next) /\ UNCHANGED stored
                       /\ upload' = [upload EXCEPT ![u] = s]
    BY <1>1, <1>7 DEF Imaging!Mark, Imaging!Go
  <2>2. /\ next \in Imaging!Image /\ next.file = row.file /\ next.status = "processing"
        /\ row.file = t.file
    BY <1>1, <1>2, <1>7, <2>1 DEF UploadOk, Imaging!Image, Imaging!Mark
  <2>3. s \in Upload /\ s.at = "original" /\ s.image = i /\ s.file = t.file /\ s.read = next
    BY <1>1, <1>2, <2>1, <2>2 DEF UploadOk, Upload, Stage
  <2>4. UploadOk(s)'
    BY <1>5, <2>1, <2>2, <2>3 DEF UploadOk, SizesSent
  <2>5. QED
    BY <1>4, <2>1, <2>2, <2>3, <2>4
<1>8. CASE Imaging!Fail(u)
  <2>1. PICK next : /\ next = [row EXCEPT !.status = "failed"]
                    /\ Imaging!Write(u, next) /\ UNCHANGED stored
                    /\ upload' = [upload EXCEPT ![u] = Imaging!Idle]
    BY <1>1, <1>8 DEF Imaging!Fail, Imaging!Go
  <2>2. next \in Imaging!Image /\ next.status = "failed"
    BY <1>2, <2>1 DEF Imaging!Image
  <2>3. QED
    BY <1>4, <2>1, <2>2
<1>9. CASE Imaging!Finish(u)
  <2>1. PICK next : /\ next = [row EXCEPT !.status = "ready", !.urls = TRUE]
                    /\ Imaging!Write(u, next) /\ UNCHANGED stored
                    /\ upload' = [upload EXCEPT ![u] = Imaging!Idle]
    BY <1>1, <1>9 DEF Imaging!Finish, Imaging!Go
  <2>2. /\ next \in Imaging!Image /\ next.urls /\ next.file = row.file
        /\ row.file = t.file /\ t.file # None
    BY <1>1, <1>2, <1>9, <2>1 DEF UploadOk, Upload, Imaging!Image, Imaging!Finish, OneUpload
  <2>3. \A z \in Imaging!Sizes : stored[i][z] = t.file
    BY <1>1, <1>2, <1>9 DEF UploadOk, SizesSent, Imaging!Finish
  <2>4. QED
    BY <1>4, <2>1, <2>2, <2>3
<1>10. QED
  BY <1>6, <1>7, <1>8, <1>9

LEMMA SizeIsStored ==
  ASSUME PhotoInv, NEW u \in Uploads, Imaging!Put(u)
  PROVE  PhotoInv'
<1>1. PICK t, i, at : t = upload[u] /\ i = t.image /\ at = t.at /\ at \in Imaging!Sizes
  BY DEF Imaging!Put
<1>2. t # Imaging!Idle /\ UploadOk(t) /\ i \in Images
  BY <1>1, Uploading DEF Imaging!Sizes, UploadOk, Upload
<1>3. \A v \in Uploads \ {u} : upload[v] # Imaging!Idle => upload[v].image # i
  BY <1>1, <1>2 DEF PhotoInv
<1>4. PICK s : /\ upload' = [upload EXCEPT ![u] = s] /\ UNCHANGED image
               /\ stored' = [stored EXCEPT ![i][at] = t.file] \/ UNCHANGED stored
               /\ \/ /\ s = [t EXCEPT !.at = Imaging!After[at]]
                     /\ stored' = [stored EXCEPT ![i][at] = t.file]
                  \/ s = [t EXCEPT !.at = "fail"] /\ UNCHANGED stored
                  \/ s = Imaging!Idle
  BY <1>1 DEF Imaging!Put, Imaging!Go
<1>5. PICK sizes : sizes = stored[i] /\ sizes \in [Imaging!Sizes -> Files \cup {None}]
  BY <1>2 DEF PhotoInv, Imaging!TypeOK
<1>6. /\ stored' \in [Images -> [Imaging!Sizes -> Files \cup {None}]]
      /\ \A j \in Images \ {i} : stored'[j] = stored[j]
      /\ stored' = [stored EXCEPT ![i][at] = t.file] =>
           stored'[i][at] = t.file /\ \A z \in Imaging!Sizes \ {at} : stored'[i][z] = stored[i][z]
  <2>1. CASE UNCHANGED stored /\ stored' # [stored EXCEPT ![i][at] = t.file]
    BY <2>1 DEF PhotoInv, Imaging!TypeOK
  <2>2. CASE stored' = [stored EXCEPT ![i][at] = t.file]
    <3>1. PICK new : new = [sizes EXCEPT ![at] = t.file]
      OBVIOUS
    <3>2. stored' = [stored EXCEPT ![i] = new]
      BY <1>2, <1>5, <2>2, <3>1 DEF PhotoInv, Imaging!TypeOK
    <3>3. /\ new \in [Imaging!Sizes -> Files \cup {None}] /\ new[at] = t.file
          /\ \A z \in Imaging!Sizes \ {at} : new[z] = sizes[z]
      BY <1>1, <1>2, <1>5, <3>1 DEF UploadOk, Upload
    <3>4. QED
      BY <1>2, <1>5, <3>2, <3>3 DEF PhotoInv, Imaging!TypeOK
  <2>3. QED
    BY <1>4, <2>1, <2>2
<1>7. Imaging!TypeOK' /\ image'[i].status # "ready"
      /\ \A j \in Images \ {i} : image'[j] = image[j] /\ stored'[j] = stored[j]
  BY <1>1, <1>2, <1>4, <1>6 DEF PhotoInv, Imaging!TypeOK, UploadOk
<1>8. s # Imaging!Idle => s.image = i /\ UploadOk(s)'
  <2>1. CASE s = [t EXCEPT !.at = "fail"] /\ UNCHANGED stored
    <3>1. s \in Upload /\ s.at = "fail" /\ s.image = i /\ s.file = t.file /\ s.read = t.read
      BY <1>1, <1>2, <2>1 DEF UploadOk, Upload, Stage
    <3>2. QED
      BY <1>1, <1>2, <1>4, <3>1 DEF UploadOk, SizesSent, Imaging!Sizes
  <2>2. CASE s = [t EXCEPT !.at = Imaging!After[at]]
             /\ stored' = [stored EXCEPT ![i][at] = t.file]
    <3>1. PICK next : next = Imaging!After[at]
      OBVIOUS
    <3>2. /\ next \in {"small", "medium", "finish"}
          /\ SizesSent(next) = SizesSent(at) \cup {at} /\ at \notin SizesSent(at)
          /\ SizesSent(at) \subseteq Imaging!Sizes
      BY <1>1, <3>1 DEF Imaging!After, Imaging!Sizes, SizesSent
    <3>3. s \in Upload /\ s.at = next /\ s.image = i /\ s.file = t.file /\ s.read = t.read
      BY <1>1, <1>2, <2>2, <3>1, <3>2 DEF UploadOk, Upload, Stage
    <3>4. \A z \in SizesSent(at) : stored[i][z] = t.file
      BY <1>1, <1>2 DEF UploadOk
    <3>5. \A z \in SizesSent(next) : stored'[i][z] = t.file
      BY <1>6, <2>2, <3>2, <3>4
    <3>6. t.read = image[i] /\ t.read.status \in {"pending", "processing"} /\ t.read.file = t.file
      BY <1>1, <1>2 DEF UploadOk, Imaging!Sizes
    <3>7. QED
      BY <1>4, <3>3, <3>5, <3>6 DEF UploadOk
  <2>3. QED
    BY <1>4, <2>1, <2>2
<1>9. QED
  BY <1>2, <1>3, <1>4, <1>7, <1>8, UploadGoesOn

LEMMA PhotoStep ==
  ASSUME OneUpload, PhotoInv, [Imaging!Next]_Imaging!vars
  PROVE  PhotoInv'
<1>1. CASE UNCHANGED Imaging!vars
  <2>1. \A t : UploadOk(t)' <=> UploadOk(t)
    BY <1>1 DEF UploadOk, Imaging!vars
  <2>2. QED
    BY <1>1, <2>1 DEF PhotoInv, Imaging!TypeOK, Imaging!ReadyIsWhole, Imaging!vars
<1>2. ASSUME NEW u \in Uploads, Imaging!Crash(u)
      PROVE  PhotoInv'
  <2>1. PICK t, i : t = upload[u] /\ i = t.image
    OBVIOUS
  <2>2. /\ upload' = [upload EXCEPT ![u] = Imaging!Idle] /\ UNCHANGED <<image, stored>>
        /\ t # Imaging!Idle /\ UploadOk(t) /\ i \in Images
    BY <1>2, <2>1 DEF Imaging!Crash, Imaging!Go, PhotoInv, UploadOk, Upload
  <2>3. /\ \A v \in Uploads \ {u} : upload[v] # Imaging!Idle => upload[v].image # i
        /\ Imaging!TypeOK' /\ image'[i].status # "ready"
    BY <2>1, <2>2 DEF PhotoInv, UploadOk, Imaging!TypeOK
  <2>4. QED
    BY <2>2, <2>3, UploadGoesOn
<1>3. QED
  BY <1>1, <1>2, AuthorizedOrReceived, RowGoesOn, SizeIsStored DEF Imaging!Next

\* What the public is shown is one photograph, its metadata and three sizes of the same file,
\* whatever the storage service and the server fail in, if each is uploaded once at a time.
THEOREM ReadyIsWholeForGood ==
  ASSUME OneUpload
  PROVE  Imaging!Spec => []Imaging!ReadyIsWhole
<1>1. Imaging!Init => PhotoInv
  BY DEF Imaging!Init, PhotoInv, Imaging!TypeOK, Imaging!Image, Imaging!ReadyIsWhole
<1>2. PhotoInv /\ [Imaging!Next]_Imaging!vars => PhotoInv'
  BY PhotoStep
<1>3. PhotoInv => Imaging!ReadyIsWhole
  BY DEF PhotoInv
<1>4. QED
  BY <1>1, <1>2, <1>3, PTL DEF Imaging!Spec
(***************************************************************************)
(* Previews                                                                *)
(***************************************************************************)

CONSTANTS Projects, Photos, Formats, Mixing, Failing

VARIABLES project, bucket, previewing, interrupted

Preview == INSTANCE Previews WITH
  Previews <- Projects, Together <- Mixing, session <- previewing

\* NULL is no photo and no format, and requests about one project do not overlap.
OneAtAProject == ~ Mixing /\ None \notin Photos /\ None \notin Formats

Project == [status : {"none", "live", "deleted"},
            source : Formats \cup {None}, result : Formats \cup {None}]

Ending == [at : {"committing"}, of : Projects, row : Project, new : Project,
           doomed : SUBSET Preview!Paths]

\* The paths a row names.
Named(p, row) ==
  IF row.status = "live"
  THEN Preview!Doomed(p, "source", row.source) \cup Preview!Doomed(p, "result", row.result)
  ELSE {}

\* Nothing is stored for a project but at these paths.
Accounted(p, paths) ==
  \A k \in Preview!Kinds, f \in Formats : bucket[<<p, k, f>>] # None => <<p, k, f>> \in paths

Whole(p, row) ==
  /\ Preview!Shown(p, "source", row.source) # None
  /\ row.result # None =>
       Preview!Shown(p, "result", row.result) = Preview!Shown(p, "source", row.source)

Rested(p) ==
  /\ p \notin interrupted /\ project[p].status = "live" => Whole(p, project[p])
  /\ ~ Failing => Accounted(p, Named(p, project[p]))

Inserting(t) ==
  /\ t.at = "inserting" /\ t.of \in Projects /\ t.new \in Formats
  /\ project[t.of].status = "none" /\ bucket[<<t.of, "source", t.new>>] # None
  /\ ~ Failing => Accounted(t.of, {<<t.of, "source", t.new>>})

Reading(t) ==
  /\ t.at \in {"update", "export", "delete"} /\ t.of \in Projects
  /\ t.row = project[t.of] /\ t.row.status = "live"
  /\ t.photo = bucket[<<t.of, "source", t.row.source>>]
  /\ Rested(t.of)

PathsOf(p) == {p} \X Preview!Kinds \X Formats

\* What will be named is not to be deleted, and is one photo.
Committing(t) ==
  /\ t \in Ending
  /\ t.row = project[t.of] /\ t.row.status = "live" /\ t.new.status \in {"live", "deleted"}
  /\ t.doomed \subseteq PathsOf(t.of) /\ t.doomed \cap Named(t.of, t.new) = {}
  /\ t.new.status = "live" =>
       /\ t.new.source # None
       /\ t.of \notin interrupted \/ t.new.result = None => Whole(t.of, t.new)
  /\ ~ Failing => Accounted(t.of, t.doomed \cup Named(t.of, t.new))

AtWork(t) == Inserting(t) \/ Reading(t) \/ Committing(t)

ProjectTyped ==
  /\ project \in [Projects -> Project]
  /\ \A p \in Projects : project[p].status = "live" => project[p].source # None
  /\ bucket \in [Preview!Paths -> Photos \cup {None}]

PreviewInv ==
  /\ ProjectTyped /\ DOMAIN previewing = Sessions
  /\ \A s \in Sessions : previewing[s] # Preview!Idle => AtWork(previewing[s])
  /\ \A s, v \in Sessions :
       previewing[s] # Preview!Idle /\ previewing[v] # Preview!Idle
         /\ previewing[s].of = previewing[v].of => s = v
  /\ \A p \in Projects : Preview!Alone(p) => Rested(p)

\* What is said of a project depends on nothing that concerns another.
LEMMA ProjectsAreApart ==
  ASSUME ProjectTyped, NEW q \in Projects, project'[q] = project[q],
         q \in interrupted' <=> q \in interrupted,
         \A k \in Preview!Kinds, f \in Formats : bucket'[<<q, k, f>>] = bucket[<<q, k, f>>]
  PROVE  /\ Rested(q)' <=> Rested(q)
         /\ \A t : t.of = q => (AtWork(t) => AtWork(t)')
<1>1. \A row \in Project : (Whole(q, row))' <=> Whole(q, row)
  BY DEF Whole, Preview!Shown, Preview!Kinds, Project
<1>2. \A paths : Accounted(q, paths)' <=> Accounted(q, paths)
  BY DEF Accounted
<1>3. Rested(q)' <=> Rested(q)
  BY <1>1, <1>2 DEF Rested, ProjectTyped
<1>4. ASSUME NEW t, t.of = q
      PROVE  /\ Inserting(t) => Inserting(t)'
             /\ Reading(t) => Reading(t)'
             /\ Committing(t) => Committing(t)'
  <2>1. Inserting(t) => Inserting(t)'
    BY <1>2, <1>4 DEF Inserting, Preview!Kinds
  <2>2. Reading(t) => Reading(t)'
    <3>1. t.row = project[q] /\ t.row.status = "live" => t.row.source \in Formats
      BY DEF ProjectTyped, Project
    <3>2. QED
      BY <1>3, <1>4, <3>1 DEF Reading, Preview!Kinds
  <2>3. Committing(t) => Committing(t)'
    BY <1>1, <1>2, <1>4 DEF Committing, Ending, Named
  <2>4. QED
    BY <2>1, <2>2, <2>3
<1>5. QED
  BY <1>3, <1>4 DEF AtWork

Goes(s, t) == previewing' = [previewing EXCEPT ![s] = t]

Own(s, p) == \A v \in Sessions \ {s} : previewing[v] # Preview!Idle => previewing[v].of # p

\* The step concerns no project but p.
Concerns(p) ==
  \A q \in Projects \ {p} :
    /\ project'[q] = project[q] /\ (q \in interrupted' <=> q \in interrupted)
    /\ \A k \in Preview!Kinds, f \in Formats : bucket'[<<q, k, f>>] = bucket[<<q, k, f>>]

\* A request that has a project to itself goes on with it or ends.
LEMMA PreviewGoesOn ==
  ASSUME PreviewInv, NEW s \in Sessions, NEW p \in Projects, NEW t, ProjectTyped',
         Goes(s, t), Own(s, p), Concerns(p),
         previewing[s] # Preview!Idle => previewing[s].of = p,
         \/ t # Preview!Idle /\ t.of = p /\ AtWork(t)'
         \/ t = Preview!Idle /\ Rested(p)'
  PROVE  PreviewInv'
<1>1. /\ DOMAIN previewing' = Sessions /\ previewing'[s] = t
      /\ \A v \in Sessions \ {s} : previewing'[v] = previewing[v]
  BY DEF PreviewInv, Goes
<1>2. \A q \in Projects \ {p} : (Rested(q)' <=> Rested(q))
                                /\ \A r : r.of = q => (AtWork(r) => AtWork(r)')
  BY ProjectsAreApart DEF PreviewInv, Concerns
<1>3. ASSUME NEW v \in Sessions, previewing'[v] # Preview!Idle
      PROVE  AtWork(previewing[v])'
  <2>1. PICK r : r = previewing'[v]
    OBVIOUS
  <2>2. AtWork(r)'
    <3>1. CASE v = s
      BY <1>1, <1>3, <2>1, <3>1
    <3>2. CASE v # s
      <4>1. previewing[v] = r /\ AtWork(r) /\ r.of # p
        BY <1>1, <1>3, <2>1, <3>2 DEF PreviewInv, Own
      <4>2. r.of \in Projects
        BY <4>1 DEF AtWork, Inserting, Reading, Committing, Ending
      <4>3. QED
        BY <1>2, <4>1, <4>2
    <3>3. QED
      BY <3>1, <3>2
  <2>3. QED
    BY <2>1, <2>2 DEF AtWork, Inserting, Reading, Committing
<1>4. \A v, w \in Sessions :
        previewing'[v] # Preview!Idle /\ previewing'[w] # Preview!Idle
          /\ previewing'[v].of = previewing'[w].of => v = w
  BY <1>1 DEF PreviewInv, Own
<1>5. ASSUME NEW q \in Projects, Preview!Alone(q)'
      PROVE  Rested(q)'
  <2>1. CASE q = p
    BY <1>1, <1>5, <2>1 DEF Preview!Alone
  <2>2. CASE q # p
    <3>1. Preview!Alone(q)
      BY <1>1, <1>5, <2>2 DEF Preview!Alone, Own
    <3>2. QED
      BY <1>2, <2>2, <3>1 DEF PreviewInv
  <2>3. QED
    BY <2>1, <2>2
<1>6. QED
  BY <1>1, <1>3, <1>4, <1>5 DEF PreviewInv

\* A request under way has its project to itself.
LEMMA OfProject ==
  ASSUME PreviewInv, NEW s \in Sessions, previewing[s].at # "idle"
  PROVE  AtWork(previewing[s]) /\ previewing[s].of \in Projects /\ Own(s, previewing[s].of)
<1>1. previewing[s] # Preview!Idle /\ AtWork(previewing[s])
  BY DEF PreviewInv, Preview!Idle
<1>2. QED
  BY <1>1 DEF PreviewInv, AtWork, Inserting, Reading, Committing, Ending, Own

\* One object is written, and no row.
Store(p, k, f, photo) ==
  bucket' = [bucket EXCEPT ![<<p, k, f>>] = photo] /\ project' = project

LEMMA ObjectIsStored ==
  ASSUME ProjectTyped, NEW p \in Projects, NEW k \in Preview!Kinds, NEW f \in Formats,
         NEW photo \in Photos \cup {None}, Store(p, k, f, photo), interrupted' = interrupted
  PROVE  /\ ProjectTyped' /\ Concerns(p) /\ bucket'[<<p, k, f>>] = photo
         /\ \A path \in Preview!Paths : path # <<p, k, f>> => bucket'[path] = bucket[path]
<1>1. <<p, k, f>> \in Preview!Paths
  BY DEF Preview!Paths
<1>2. /\ ProjectTyped' /\ bucket'[<<p, k, f>>] = photo
      /\ \A path \in Preview!Paths : path # <<p, k, f>> => bucket'[path] = bucket[path]
  BY <1>1 DEF ProjectTyped, Store
<1>3. \A q \in Projects, j \in Preview!Kinds, g \in Formats : <<q, j, g>> \in Preview!Paths
  BY DEF Preview!Paths
<1>4. \A q \in Projects \ {p}, j \in Preview!Kinds, g \in Formats :
        bucket'[<<q, j, g>>] = bucket[<<q, j, g>>]
  BY <1>2, <1>3
<1>5. QED
  BY <1>2, <1>4 DEF Concerns, Store

LEMMA AccountedFor ==
  ASSUME NEW p \in Projects, NEW k \in Preview!Kinds, NEW f \in Formats, NEW paths, NEW more,
         \A path \in Preview!Paths : path # <<p, k, f>> => bucket'[path] = bucket[path],
         Accounted(p, paths), paths \subseteq more, <<p, k, f>> \in more
  PROVE  Accounted(p, more)'
<1>1. \A j \in Preview!Kinds, g \in Formats : <<p, j, g>> \in Preview!Paths
  BY DEF Preview!Paths
<1>2. QED
  BY <1>1 DEF Accounted

LEMMA PreviewIsMade ==
  ASSUME OneAtAProject, PreviewInv, NEW s \in Sessions, NEW p \in Projects,
         Preview!StartCreate(s, p)
  PROVE  PreviewInv'
<1>1. PICK f \in Formats, k \in Photos :
        /\ bucket' = [bucket EXCEPT ![<<p, "source", f>>] = k]
        /\ Goes(s, [at |-> "inserting", of |-> p, new |-> f])
  BY DEF Preview!StartCreate, Preview!Go, Goes
<1>2. PICK t : t = [at |-> "inserting", of |-> p, new |-> f]
  OBVIOUS
<1>3. /\ project' = project /\ interrupted' = interrupted /\ previewing[s] = Preview!Idle
      /\ project[p].status = "none" /\ k # None /\ "source" \in Preview!Kinds
      /\ Own(s, p) /\ Accounted(p, {}) /\ ProjectTyped
  BY DEF Preview!StartCreate, Preview!Alone, OneAtAProject, Accounted, Own, Preview!Kinds,
     PreviewInv
<1>4. Store(p, "source", f, k)
  BY <1>1, <1>3 DEF Store
<1>5. /\ ProjectTyped' /\ Concerns(p) /\ bucket'[<<p, "source", f>>] = k
      /\ \A path \in Preview!Paths : path # <<p, "source", f>> => bucket'[path] = bucket[path]
  BY <1>3, <1>4, ObjectIsStored
<1>6. Accounted(p, {<<p, "source", f>>})'
  BY <1>3, <1>5, AccountedFor
<1>7. t.of = p /\ Inserting(t)'
  BY <1>2, <1>3, <1>5, <1>6 DEF Inserting
<1>8. t # Preview!Idle /\ AtWork(t)'
  BY <1>2, <1>7 DEF AtWork, Preview!Idle
<1>9. QED
  BY <1>1, <1>2, <1>3, <1>5, <1>7, <1>8, PreviewGoesOn

LEMMA PreviewIsInserted ==
  ASSUME OneAtAProject, PreviewInv, NEW s \in Sessions, Preview!Insert(s)
  PROVE  PreviewInv'
<1>1. PICK t, p, row : t = previewing[s] /\ p = t.of
                       /\ row = [status |-> "live", source |-> t.new, result |-> None]
  OBVIOUS
<1>2. /\ t.at = "inserting" /\ project' = [project EXCEPT ![p] = row]
      /\ Goes(s, Preview!Idle) /\ bucket' = bucket /\ interrupted' = interrupted
  BY <1>1 DEF Preview!Insert, Preview!End, Preview!Go, Goes
<1>3. AtWork(t) /\ p \in Projects /\ Own(s, p)
  BY <1>1, <1>2, OfProject
<1>4. Inserting(t)
  BY <1>2, <1>3 DEF AtWork, Reading, Committing, Ending
<1>5. row \in Project /\ row.source = t.new /\ t.new # None /\ row.status = "live"
      /\ row.result = None
  BY <1>1, <1>4 DEF Inserting, Project, OneAtAProject
<1>6. ProjectTyped' /\ project'[p] = row /\ Concerns(p)
  BY <1>2, <1>3, <1>5 DEF PreviewInv, ProjectTyped, Concerns
<1>7. Named(p, row) = {<<p, "source", t.new>>}
  BY <1>5 DEF Named, Preview!Doomed
<1>8. Whole(p, row)'
  BY <1>1, <1>2, <1>4, <1>5 DEF Whole, Preview!Shown, Inserting
<1>9. ~ Failing => Accounted(p, Named(p, row))'
  BY <1>1, <1>2, <1>4, <1>7 DEF Inserting, Accounted
<1>10. Rested(p)'
  BY <1>6, <1>8, <1>9 DEF Rested
<1>11. QED
  BY <1>1, <1>2, <1>3, <1>6, <1>10, PreviewGoesOn

\* A request reads a project that rests, or is refused and has changed nothing.
LEMMA PreviewIsReadOrRefused ==
  ASSUME OneAtAProject, PreviewInv, NEW s \in Sessions,
         \/ Preview!Refuse(s)
         \/ \E p \in Projects, op \in {"update", "export", "delete"} : Preview!Read(s, p, op)
  PROVE  PreviewInv'
<1>1. UNCHANGED <<project, bucket, interrupted>>
  BY DEF Preview!Refuse, Preview!Read
<1>2. ProjectTyped' /\ \A q : Rested(q)' <=> Rested(q)
  BY <1>1 DEF PreviewInv, ProjectTyped, Rested, Whole, Preview!Shown, Accounted
<1>3. \A p : Concerns(p)
  BY <1>1 DEF Concerns
<1>4. CASE Preview!Refuse(s)
  <2>1. PICK t, p : t = previewing[s] /\ p = t.of
    OBVIOUS
  <2>2. t.at \in {"update", "export"} /\ Goes(s, Preview!Idle)
    BY <1>4, <2>1 DEF Preview!Refuse, Preview!End, Preview!Go, Goes
  <2>3. AtWork(t) /\ p \in Projects /\ Own(s, p)
    BY <2>1, <2>2, OfProject
  <2>4. Rested(p)'
    BY <1>2, <2>1, <2>2, <2>3 DEF AtWork, Inserting, Reading, Committing, Ending
  <2>5. QED
    BY <1>2, <1>3, <2>1, <2>2, <2>3, <2>4, PreviewGoesOn
<1>5. ASSUME NEW p \in Projects, NEW op \in {"update", "export", "delete"}, Preview!Read(s, p, op)
      PROVE  PreviewInv'
  <2>1. PICK t : t = [at |-> op, of |-> p, row |-> project[p],
                      photo |-> bucket[<<p, "source", project[p].source>>]]
    OBVIOUS
  <2>2. Goes(s, t) /\ project[p].status = "live" /\ previewing[s] = Preview!Idle /\ Preview!Alone(p)
    BY <1>5, <2>1 DEF Preview!Read, Preview!Go, OneAtAProject, Goes
  <2>3. Rested(p)' /\ Own(s, p)
    BY <1>2, <2>2 DEF PreviewInv, Preview!Alone, Own
  <2>4. t.of = p /\ Reading(t)'
    BY <1>1, <2>1, <2>2, <2>3 DEF Reading
  <2>5. t # Preview!Idle /\ AtWork(t)'
    BY <2>1, <2>4 DEF Preview!Idle, AtWork
  <2>6. QED
    BY <1>2, <1>3, <2>2, <2>3, <2>4, <2>5, PreviewGoesOn
<1>6. QED
  BY <1>4, <1>5

LEMMA ReadingIts ==
  ASSUME PreviewInv, NEW s \in Sessions, previewing[s].at \in {"update", "export", "delete"}
  PROVE  /\ Reading(previewing[s]) /\ previewing[s].of \in Projects /\ Own(s, previewing[s].of)
         /\ previewing[s].row \in Project /\ previewing[s].row.source \in Formats
<1>1. AtWork(previewing[s]) /\ previewing[s].of \in Projects /\ Own(s, previewing[s].of)
  BY OfProject
<1>2. Reading(previewing[s])
  BY <1>1 DEF AtWork, Inserting, Committing, Ending
<1>3. QED
  BY <1>1, <1>2 DEF Reading, PreviewInv, ProjectTyped, Project

\* A request has stored what it has to, and says what is to be deleted and written.
LEMMA PreviewIsToCommit ==
  ASSUME OneAtAProject, PreviewInv, NEW s \in Sessions, NEW t, t = previewing[s],
         t.at \in {"update", "export", "delete"},
         NEW next \in Project, next.status \in {"live", "deleted"},
         NEW doomed \in SUBSET PathsOf(t.of), Goes(s, Preview!Commit(t, next, doomed)),
         ProjectTyped', Concerns(t.of), project' = project, interrupted' = interrupted,
         doomed \cap Named(t.of, next) = {},
         next.status = "live" =>
           /\ next.source # None
           /\ t.of \notin interrupted \/ next.result = None => Whole(t.of, next)',
         ~ Failing => Accounted(t.of, doomed \cup Named(t.of, next))'
  PROVE  PreviewInv'
<1>1. PICK r, p : r = Preview!Commit(t, next, doomed) /\ p = t.of
  OBVIOUS
<1>2. /\ Reading(t) /\ p \in Projects /\ Own(s, p) /\ t.row \in Project
  BY <1>1, ReadingIts
<1>3. /\ r \in Ending /\ r.at = "committing" /\ r.of = p /\ r.row = t.row /\ r.new = next
      /\ r.doomed = doomed
  <2>1. doomed \in SUBSET Preview!Paths
    BY <1>1, <1>2 DEF PathsOf, Preview!Paths
  <2>2. QED
    BY <1>1, <1>2, <2>1 DEF Preview!Commit, Ending
<1>4. t.row = project[p] /\ t.row.status = "live"
  BY <1>1, <1>2 DEF Reading
<1>5. Committing(r)'
  BY <1>1, <1>3, <1>4 DEF Committing, Named, PathsOf
<1>6. r # Preview!Idle /\ AtWork(r)'
  BY <1>3, <1>5 DEF AtWork, Preview!Idle
<1>7. QED
  BY <1>1, <1>2, <1>3, <1>6, PreviewGoesOn

LEMMA PhotoIsReplaced ==
  ASSUME OneAtAProject, PreviewInv, NEW s \in Sessions, Preview!ReplacePhoto(s)
  PROVE  PreviewInv'
<1>1. PICK t, p, row : t = previewing[s] /\ p = t.of /\ row = t.row
  OBVIOUS
<1>2. PICK f \in Formats, k \in Photos :
        /\ Store(p, "source", f, k) /\ interrupted' = interrupted
        /\ Goes(s, Preview!Commit(t, Preview!Replaced(t, f), Preview!Superseded(t, f)))
  BY <1>1 DEF Preview!ReplacePhoto, Store, Goes, Preview!Go
<1>3. t.at = "update" /\ k # None /\ f # None
  BY <1>1 DEF Preview!ReplacePhoto, OneAtAProject
<1>4. Reading(t) /\ p \in Projects /\ row \in Project /\ row.source \in Formats
  BY <1>1, <1>3, ReadingIts
<1>5. PICK next, doomed : next = Preview!Replaced(t, f) /\ doomed = Preview!Superseded(t, f)
  OBVIOUS
<1>6. next \in Project /\ next.status = "live" /\ next.source = f /\ next.result = None
  BY <1>1, <1>4, <1>5 DEF Preview!Replaced, Project, Reading
<1>7. Named(p, next) = {<<p, "source", f>>}
  BY <1>3, <1>6 DEF Named, Preview!Doomed
<1>8. /\ doomed = (IF row.source = f THEN {} ELSE Preview!Doomed(p, "source", row.source))
                    \cup Preview!Doomed(p, "result", row.result)
      /\ Named(p, row) = Preview!Doomed(p, "source", row.source)
                           \cup Preview!Doomed(p, "result", row.result)
  BY <1>1, <1>4, <1>5 DEF Preview!Superseded, Named, Reading
<1>9. doomed \in SUBSET PathsOf(p) /\ doomed \cap Named(p, next) = {}
      /\ Named(p, row) \subseteq doomed \cup Named(p, next)
  <2>1. row.result \in Formats \cup {None} /\ {"source", "result"} = Preview!Kinds
    BY <1>4 DEF Project, Preview!Kinds
  <2>2. QED
    BY <1>4, <1>7, <1>8, <2>1 DEF Preview!Doomed, PathsOf
<1>10. /\ ProjectTyped' /\ Concerns(p) /\ bucket'[<<p, "source", f>>] = k
       /\ \A path \in Preview!Paths : path # <<p, "source", f>> => bucket'[path] = bucket[path]
  <2>1. "source" \in Preview!Kinds /\ k \in Photos \cup {None} /\ ProjectTyped
    BY DEF Preview!Kinds, PreviewInv
  <2>2. QED
    BY <1>2, <1>4, <2>1, ObjectIsStored
<1>11. Whole(p, next)'
  BY <1>3, <1>6, <1>10 DEF Whole, Preview!Shown
<1>12. ~ Failing => Accounted(p, doomed \cup Named(p, next))'
  <2>1. ~ Failing => Accounted(p, Named(p, row))
    BY <1>1, <1>4 DEF Reading, Rested
  <2>2. "source" \in Preview!Kinds /\ <<p, "source", f>> \in doomed \cup Named(p, next)
    BY <1>7 DEF Preview!Kinds
  <2>3. ~ Failing => \A more : Named(p, row) \subseteq more /\ <<p, "source", f>> \in more
                                 => Accounted(p, more)'
    BY <1>4, <1>10, <2>1, <2>2, AccountedFor
  <2>4. PICK more : more = doomed \cup Named(p, next)
    OBVIOUS
  <2>5. ~ Failing => Accounted(p, more)'
    BY <1>9, <2>2, <2>3, <2>4
  <2>6. QED
    BY <2>4, <2>5 DEF Accounted, Named
<1>13. /\ project' = project /\ interrupted' = interrupted
       /\ Goes(s, Preview!Commit(t, next, doomed))
       /\ t.at \in {"update", "export", "delete"} /\ next.source # None
       /\ next.status \in {"live", "deleted"}
  BY <1>2, <1>3, <1>5, <1>6 DEF Store
<1>14. QED
  BY <1>1, <1>6, <1>9, <1>10, <1>11, <1>12, <1>13, PreviewIsToCommit

LEMMA CompositeIsStored ==
  ASSUME OneAtAProject, PreviewInv, NEW s \in Sessions, Preview!Export(s)
  PROVE  PreviewInv'
<1>1. PICK t, p, row : t = previewing[s] /\ p = t.of /\ row = t.row
  OBVIOUS
<1>2. PICK f \in Formats :
        /\ Store(p, "result", f, t.photo) /\ interrupted' = interrupted
        /\ Goes(s, Preview!Commit(t, [row EXCEPT !.result = f],
                     IF row.result = f THEN {} ELSE Preview!Doomed(p, "result", row.result)))
  BY <1>1 DEF Preview!Export, Store, Goes, Preview!Go
<1>3. t.at = "export" /\ f # None
  BY <1>1 DEF Preview!Export, OneAtAProject
<1>4. Reading(t) /\ p \in Projects /\ row \in Project /\ row.source \in Formats
  BY <1>1, <1>3, ReadingIts
<1>5. PICK next, doomed :
        /\ next = [row EXCEPT !.result = f]
        /\ doomed = IF row.result = f THEN {} ELSE Preview!Doomed(p, "result", row.result)
  OBVIOUS
<1>6. next \in Project /\ next.status = "live" /\ next.source = row.source /\ next.result = f
      /\ next.source # None
  BY <1>1, <1>4, <1>5 DEF Project, Reading, OneAtAProject
<1>7. Named(p, next) = {<<p, "source", row.source>>, <<p, "result", f>>}
  BY <1>3, <1>6 DEF Named, Preview!Doomed
<1>8. Named(p, row) = {<<p, "source", row.source>>} \cup Preview!Doomed(p, "result", row.result)
  BY <1>1, <1>4, <1>6 DEF Named, Reading, Preview!Doomed
<1>9. doomed \in SUBSET PathsOf(p) /\ doomed \cap Named(p, next) = {}
      /\ Named(p, row) \subseteq doomed \cup Named(p, next)
  <2>1. row.result \in Formats \cup {None} /\ {"source", "result"} = Preview!Kinds
    BY <1>4 DEF Project, Preview!Kinds
  <2>2. QED
    BY <1>4, <1>5, <1>7, <1>8, <2>1 DEF Preview!Doomed, PathsOf
<1>10. PICK path : path = <<p, "source", row.source>> /\ path \in Preview!Paths
                   /\ path # <<p, "result", f>>
  <2>1. /\ <<p, "source", row.source>> \in Preview!Paths
        /\ <<p, "source", row.source>> # <<p, "result", f>>
    BY <1>4 DEF Preview!Paths, Preview!Kinds
  <2>2. QED
    BY <2>1
<1>11. t.photo = bucket[path] /\ t.photo \in Photos \cup {None}
  BY <1>1, <1>4, <1>10 DEF Reading, PreviewInv, ProjectTyped
<1>12. /\ ProjectTyped' /\ Concerns(p) /\ bucket'[<<p, "result", f>>] = t.photo
       /\ \A q \in Preview!Paths : q # <<p, "result", f>> => bucket'[q] = bucket[q]
  <2>1. "result" \in Preview!Kinds /\ ProjectTyped
    BY DEF Preview!Kinds, PreviewInv
  <2>2. QED
    BY <1>2, <1>4, <1>11, <2>1, ObjectIsStored
<1>13. p \notin interrupted => Whole(p, next)'
  <2>1. p \notin interrupted => bucket[path] # None
    BY <1>1, <1>4, <1>6, <1>10 DEF Reading, Rested, Whole, Preview!Shown
  <2>2. QED
    BY <1>3, <1>6, <1>10, <1>11, <1>12, <2>1 DEF Whole, Preview!Shown
<1>14. ~ Failing => Accounted(p, doomed \cup Named(p, next))'
  <2>1. ~ Failing => Accounted(p, Named(p, row))
    BY <1>1, <1>4 DEF Reading, Rested
  <2>2. "result" \in Preview!Kinds /\ <<p, "result", f>> \in doomed \cup Named(p, next)
    BY <1>7 DEF Preview!Kinds
  <2>3. ~ Failing => \A more : Named(p, row) \subseteq more /\ <<p, "result", f>> \in more
                                 => Accounted(p, more)'
    BY <1>4, <1>12, <2>1, <2>2, AccountedFor
  <2>4. PICK more : more = doomed \cup Named(p, next)
    OBVIOUS
  <2>5. ~ Failing => Accounted(p, more)'
    BY <1>9, <2>2, <2>3, <2>4
  <2>6. QED
    BY <2>4, <2>5 DEF Accounted, Named
<1>15. /\ next.result # None /\ t.at \in {"update", "export", "delete"}
       /\ next.status \in {"live", "deleted"}
  BY <1>3, <1>6
<1>16. /\ project' = project /\ interrupted' = interrupted
       /\ Goes(s, Preview!Commit(t, next, doomed))
  BY <1>2, <1>5 DEF Store
<1>17. QED
  BY <1>1, <1>6, <1>9, <1>12, <1>13, <1>14, <1>15, <1>16, PreviewIsToCommit

LEMMA PreviewIsToDelete ==
  ASSUME OneAtAProject, PreviewInv, NEW s \in Sessions, Preview!Delete(s)
  PROVE  PreviewInv'
<1>1. PICK t, p, row, next, doomed :
        /\ t = previewing[s] /\ p = t.of /\ row = t.row
        /\ next = [row EXCEPT !.status = "deleted"] /\ doomed = Preview!Erased(t)
  OBVIOUS
<1>2. /\ t.at = "delete" /\ UNCHANGED <<project, bucket, interrupted>>
      /\ Goes(s, Preview!Commit(t, next, doomed))
  BY <1>1 DEF Preview!Delete, Goes, Preview!Go
<1>3. Reading(t) /\ p \in Projects /\ row \in Project
  BY <1>1, <1>2, ReadingIts
<1>4. next \in Project /\ next.status = "deleted"
  BY <1>1, <1>3 DEF Project
<1>5. Named(p, next) = {} /\ doomed = Named(p, row)
  BY <1>1, <1>3, <1>4 DEF Named, Preview!Erased, Reading
<1>6. doomed \in SUBSET PathsOf(p)
  <2>1. row.source \in Formats \cup {None} /\ row.result \in Formats \cup {None}
        /\ {"source", "result"} = Preview!Kinds
    BY <1>3 DEF Project, Preview!Kinds
  <2>2. QED
    BY <1>3, <1>5, <2>1 DEF Named, Preview!Doomed, PathsOf
<1>7. ProjectTyped' /\ Concerns(p)
  BY <1>2 DEF PreviewInv, ProjectTyped, Concerns
<1>8. ~ Failing => Accounted(p, doomed \cup Named(p, next))'
  <2>1. doomed \cup Named(p, next) = Named(p, row)
    BY <1>5
  <2>2. ~ Failing => Accounted(p, Named(p, row))
    BY <1>1, <1>3 DEF Reading, Rested
  <2>3. QED
    BY <1>2, <2>1, <2>2 DEF Accounted, Named
<1>9. QED
  BY <1>1, <1>2, <1>4, <1>5, <1>6, <1>7, <1>8, PreviewIsToCommit

LEMMA CommittingIts ==
  ASSUME PreviewInv, NEW s \in Sessions, previewing[s].at = "committing"
  PROVE  Committing(previewing[s]) /\ previewing[s].of \in Projects /\ Own(s, previewing[s].of)
<1>1. AtWork(previewing[s]) /\ previewing[s].of \in Projects /\ Own(s, previewing[s].of)
  BY OfProject
<1>2. QED
  BY <1>1 DEF AtWork, Inserting, Reading

\* An object that the row will not name is deleted, or stays where the bucket refuses.
LEMMA ObjectIsRemoved ==
  ASSUME OneAtAProject, PreviewInv, NEW s \in Sessions, Preview!Remove(s)
  PROVE  PreviewInv'
<1>1. PICK t, p : t = previewing[s] /\ p = t.of
  OBVIOUS
<1>2. PICK path \in t.doomed :
        /\ bucket' = [bucket EXCEPT ![path] = None] \/ (Failing /\ UNCHANGED bucket)
        /\ Goes(s, [t EXCEPT !.doomed = t.doomed \ {path}])
        /\ project' = project /\ interrupted' = interrupted /\ t.at = "committing"
  <2>1. PICK path \in t.doomed :
        /\ bucket' = [bucket EXCEPT ![path] = None] \/ (Failing /\ UNCHANGED bucket)
        /\ Goes(s, [t EXCEPT !.doomed = @ \ {path}])
    BY <1>1 DEF Preview!Remove, Goes, Preview!Go
  <2>2. project' = project /\ interrupted' = interrupted /\ t.at = "committing"
    BY <1>1 DEF Preview!Remove
  <2>3. QED
    BY <2>1, <2>2
<1>3. Committing(t) /\ p \in Projects /\ Own(s, p)
  BY <1>1, <1>2, CommittingIts
<1>4. PICK r : r = [t EXCEPT !.doomed = t.doomed \ {path}]
  OBVIOUS
<1>5. /\ r \in Ending /\ r.at = "committing" /\ r.of = p /\ r.row = t.row /\ r.new = t.new
      /\ r.doomed = t.doomed \ {path}
  BY <1>1, <1>3, <1>4 DEF Committing, Ending
<1>6. PICK k \in Preview!Kinds, f \in Formats : path = <<p, k, f>>
  BY <1>1, <1>3 DEF Committing, PathsOf
<1>7. ProjectTyped
  BY DEF PreviewInv
<1>8. /\ ProjectTyped' /\ Concerns(p)
      /\ \A q \in Preview!Paths : q # path => bucket'[q] = bucket[q]
      /\ ~ Failing => bucket'[path] = None
  <2>1. CASE bucket' = [bucket EXCEPT ![path] = None]
    <3>1. Store(p, k, f, None)
      BY <1>2, <1>6, <2>1 DEF Store
    <3>2. QED
      BY <1>2, <1>3, <1>6, <1>7, <3>1, ObjectIsStored
  <2>2. CASE Failing /\ UNCHANGED bucket
    BY <1>2, <1>7, <2>2 DEF ProjectTyped, Concerns
  <2>3. QED
    BY <1>2, <2>1, <2>2
<1>9. PICK next : next = t.new /\ next \in Project /\ path \notin Named(p, next)
  BY <1>1, <1>3 DEF Committing, Ending
<1>10. Whole(p, next) /\ next.status = "live" /\ next.source # None => Whole(p, next)'
  <2>1. ASSUME next.status = "live", next.source # None
        PROVE  /\ bucket'[<<p, "source", next.source>>] = bucket[<<p, "source", next.source>>]
               /\ next.result # None =>
                    bucket'[<<p, "result", next.result>>] = bucket[<<p, "result", next.result>>]
    <3>1. /\ <<p, "source", next.source>> \in Preview!Paths
          /\ next.result # None => <<p, "result", next.result>> \in Preview!Paths
      BY <1>3, <1>9, <2>1 DEF Preview!Paths, Preview!Kinds, Project
    <3>2. /\ <<p, "source", next.source>> # path
          /\ next.result # None => <<p, "result", next.result>> # path
      BY <1>9, <2>1 DEF Named, Preview!Doomed
    <3>3. QED
      BY <1>8, <3>1, <3>2
  <2>2. QED
    BY <2>1 DEF Whole, Preview!Shown
<1>11. ~ Failing => Accounted(p, r.doomed \cup Named(p, next))'
  <2>1. \A j \in Preview!Kinds, g \in Formats : <<p, j, g>> \in Preview!Paths
    BY <1>3 DEF Preview!Paths
  <2>2. ~ Failing => Accounted(p, t.doomed \cup Named(p, next))
    BY <1>1, <1>3, <1>9 DEF Committing
  <2>3. ASSUME ~ Failing, NEW j \in Preview!Kinds, NEW g \in Formats,
               bucket'[<<p, j, g>>] # None
        PROVE  <<p, j, g>> \in r.doomed \cup Named(p, next)
    BY <1>5, <1>8, <2>1, <2>2, <2>3 DEF Accounted
  <2>4. QED
    BY <2>3 DEF Accounted, Named
<1>12. r.doomed \subseteq PathsOf(p) /\ r.doomed \cap Named(p, next) = {}
  BY <1>1, <1>3, <1>5, <1>9 DEF Committing
<1>13. Committing(r)'
  <2>1. r.row = project[p] /\ r.row.status = "live" /\ r.new.status \in {"live", "deleted"}
    BY <1>1, <1>3, <1>5 DEF Committing
  <2>2. next.status = "live" => /\ next.source # None
                                /\ p \notin interrupted \/ next.result = None => Whole(p, next)
    BY <1>1, <1>3, <1>9 DEF Committing
  <2>3. QED
    BY <1>2, <1>5, <1>9, <1>10, <1>11, <1>12, <2>1, <2>2 DEF Committing, Named, PathsOf
<1>14. r # Preview!Idle /\ AtWork(r)'
  BY <1>5, <1>13 DEF AtWork, Preview!Idle
<1>15. QED
  BY <1>1, <1>2, <1>3, <1>4, <1>5, <1>8, <1>14, PreviewGoesOn

LEMMA PreviewIsWritten ==
  ASSUME OneAtAProject, PreviewInv, NEW s \in Sessions, Preview!Write(s)
  PROVE  PreviewInv'
<1>1. PICK t, p, row, next : t = previewing[s] /\ p = t.of /\ row = t.row /\ next = t.new
  OBVIOUS
<1>2. /\ t.at = "committing" /\ t.doomed = {} /\ Goes(s, Preview!Idle) /\ bucket' = bucket
      /\ project' = [project EXCEPT ![p] =
           [c \in DOMAIN row |-> IF next[c] = row[c] THEN @[c] ELSE next[c]]]
      /\ interrupted' = IF next.status = "live" /\ next.result = None
                         THEN interrupted \ {p} ELSE interrupted
  BY <1>1 DEF Preview!Write, Preview!End, Preview!Go, Goes
<1>3. Committing(t) /\ p \in Projects /\ Own(s, p)
  BY <1>1, <1>2, CommittingIts
<1>4. row = project[p] /\ row \in Project /\ next \in Project
      /\ next.status \in {"live", "deleted"} /\ (next.status = "live" => next.source # None)
  BY <1>1, <1>3 DEF Committing, Ending
<1>5. next = [c \in DOMAIN row |-> IF next[c] = row[c] THEN row[c] ELSE next[c]]
  <2>1. DOMAIN row = {"status", "source", "result"} /\ DOMAIN next = {"status", "source", "result"}
    BY <1>4 DEF Project
  <2>2. QED
    BY <1>4, <2>1 DEF Project
<1>6. project' = [project EXCEPT ![p] = next]
  BY <1>2, <1>3, <1>4, <1>5 DEF PreviewInv, ProjectTyped
<1>7. ProjectTyped' /\ Concerns(p) /\ project'[p] = next
  BY <1>2, <1>3, <1>4, <1>6 DEF PreviewInv, ProjectTyped, Concerns
<1>8. next.status = "live" /\ p \notin interrupted' => Whole(p, next)'
  <2>1. next.status = "live" /\ p \notin interrupted' => Whole(p, next)
    BY <1>1, <1>2, <1>3 DEF Committing
  <2>2. QED
    BY <1>2, <2>1 DEF Whole, Preview!Shown
<1>9. ~ Failing => Accounted(p, Named(p, next))'
  <2>1. t.doomed \cup Named(p, next) = Named(p, next)
    BY <1>2
  <2>2. ~ Failing => Accounted(p, Named(p, next))
    BY <1>1, <1>3, <2>1 DEF Committing
  <2>3. QED
    BY <1>2, <2>2 DEF Accounted, Named
<1>10. Rested(p)'
  BY <1>7, <1>8, <1>9 DEF Rested
<1>11. QED
  BY <1>1, <1>2, <1>3, <1>7, <1>10, PreviewGoesOn

LEMMA PreviewIsLost ==
  ASSUME PreviewInv, NEW s \in Sessions, Preview!Crash(s)
  PROVE  PreviewInv'
<1>1. PICK t, p : t = previewing[s] /\ p = t.of
  OBVIOUS
<1>2. /\ t.at \in {"inserting", "committing"} /\ Failing /\ Goes(s, Preview!Idle)
      /\ UNCHANGED <<project, bucket>> /\ interrupted' = interrupted \cup {p}
  BY <1>1 DEF Preview!Crash, Preview!End, Preview!Go, Goes
<1>3. p \in Projects /\ Own(s, p)
  BY <1>1, <1>2, OfProject
<1>4. ProjectTyped' /\ Concerns(p)
  BY <1>2 DEF PreviewInv, ProjectTyped, Concerns
<1>5. Rested(p)'
  BY <1>2 DEF Rested
<1>6. QED
  BY <1>1, <1>2, <1>3, <1>4, <1>5, PreviewGoesOn

LEMMA PreviewStep ==
  ASSUME OneAtAProject, PreviewInv, [Preview!Next]_Preview!vars
  PROVE  PreviewInv'
<1>1. CASE UNCHANGED Preview!vars
  <2>1. ProjectTyped' /\ previewing' = previewing
    BY <1>1 DEF PreviewInv, ProjectTyped, Preview!vars
  <2>2. \A q \in Projects : Rested(q)' <=> Rested(q)
    BY <1>1 DEF Rested, Whole, Preview!Shown, Accounted, Preview!vars
  <2>3. \A q \in Projects : \A t : t.of = q => (AtWork(t) => AtWork(t)')
    BY <1>1, ProjectsAreApart DEF PreviewInv, Preview!vars
  <2>4. ASSUME NEW s \in Sessions, previewing[s] # Preview!Idle
        PROVE  AtWork(previewing[s])'
    <3>1. PICK t : t = previewing[s] /\ AtWork(t)
      BY <2>4 DEF PreviewInv
    <3>2. t.of \in Projects
      BY <3>1 DEF AtWork, Inserting, Reading, Committing, Ending
    <3>3. AtWork(t)' /\ t = previewing'[s]
      BY <2>1, <2>3, <3>1, <3>2
    <3>4. QED
      BY <3>3 DEF AtWork, Inserting, Reading, Committing
  <2>5. \A q \in Projects : Preview!Alone(q)' => Preview!Alone(q)
    BY <2>1 DEF Preview!Alone
  <2>6. QED
    BY <2>1, <2>2, <2>4, <2>5 DEF PreviewInv
<1>2. ASSUME NEW s \in Sessions, Preview!Serve(s)
      PROVE  PreviewInv'
  BY <1>2, PreviewIsMade, PreviewIsInserted, PreviewIsReadOrRefused, PhotoIsReplaced,
     CompositeIsStored, PreviewIsToDelete, ObjectIsRemoved, PreviewIsWritten, PreviewIsLost
  DEF Preview!Serve
<1>3. QED
  BY <1>1, <1>2 DEF Preview!Next

LEMMA PreviewInit ==
  ASSUME Preview!Init
  PROVE  PreviewInv
<1>1. /\ ProjectTyped /\ DOMAIN previewing = Sessions
      /\ \A s \in Sessions : previewing[s] = Preview!Idle
  BY DEF Preview!Init, ProjectTyped, Project
<1>2. ASSUME NEW p \in Projects
      PROVE  Rested(p)
  <2>1. project[p].status = "none"
    BY DEF Preview!Init
  <2>2. \A k \in Preview!Kinds, f \in Formats : bucket[<<p, k, f>>] = None
    BY DEF Preview!Init, Preview!Paths
  <2>3. QED
    BY <2>1, <2>2 DEF Rested, Accounted
<1>3. QED
  BY <1>1, <1>2 DEF PreviewInv

\* The paths of a project at rest name objects that are there, the composite shows the photo,
\* and nothing private is left of a deleted project; where the bucket fails too or requests are
\* lost, the first two for every project that has lost none.
THEOREM PreviewsAreWhole ==
  ASSUME OneAtAProject
  PROVE  Preview!Spec =>
           [](/\ Preview!PathsAreStored /\ Preview!ResultShowsSource
              /\ Failing \/ Preview!DeletedIsErased)
<1>1. Preview!Init => PreviewInv
  BY PreviewInit
<1>2. PreviewInv /\ [Preview!Next]_Preview!vars => PreviewInv'
  BY PreviewStep
<1>3. PreviewInv => Preview!PathsAreStored /\ Preview!ResultShowsSource
  BY DEF PreviewInv, Rested, Whole, Preview!Settled, Preview!PathsAreStored,
     Preview!ResultShowsSource
<1>4. PreviewInv => Failing \/ Preview!DeletedIsErased
  BY DEF PreviewInv, Rested, Accounted, Named, Preview!DeletedIsErased
<1>5. QED
  BY <1>1, <1>2, <1>3, <1>4, PTL DEF Preview!Spec

(***************************************************************************)
(* Rows and the objects they name agree, whatever upload, deletion or      *)
(* process fails, if requests about one image or project do not overlap.   *)
(***************************************************************************)
StorageAgrees ==
  /\ Imaging!ReadyIsWhole
  /\ Preview!PathsAreStored /\ Preview!ResultShowsSource
  /\ Failing \/ Preview!DeletedIsErased

THEOREM StorageAgreesForGood ==
  ASSUME OneUpload, OneAtAProject
  PROVE  Imaging!Spec /\ Preview!Spec => []StorageAgrees
BY ReadyIsWholeForGood, PreviewsAreWhole, PTL DEF StorageAgrees

(***************************************************************************)
(* What the AI jobs of a design leave behind                               *)
(***************************************************************************)

CONSTANTS Looks, Tags, Workers, Deciders, Features, MaxRequests

VARIABLES ready, embedding, suggestion, match, tasks, working, decision

Vision == INSTANCE DesignAi WITH jobs <- tasks, run <- working

Detection(n) == n \in DOMAIN tasks /\ tasks[n].type = "detection"

Holds(w, n) == working[w] # Vision!Idle /\ working[w].job = n

\* The detection of d or of e that will compare them: it waits, or it reads them as alike.
Looking(d, e, n) ==
  /\ Detection(n) /\ tasks[n].design \in {d, e}
  /\ \/ tasks[n].state \in {"waiting", "failed"}
     \/ \E w \in Workers : Holds(w, n) /\ working[w].vectors[d] = working[w].vectors[e]

\* Two designs that look alike will be compared, or were.
Compared(d, e) ==
  \/ d = e
  \/ embedding[d] # embedding[e]
  \/ \E n \in DOMAIN tasks : Looking(d, e, n)
  \/ match[<<d, e>>] # "none"
  \/ match[<<e, d>>] # "none"

\* A run holds a job of its own, and whatever matches it found are still there.
RunIsOwn(w) ==
  \A n \in DOMAIN tasks : Holds(w, n) =>
    /\ tasks[n].state = "running"
    /\ Detection(n) => \A k \in working[w].known \cap DOMAIN match : match[k] # "none"
    /\ \A v \in Workers : Holds(v, n) => v = w

RunsAreOwn ==
  \A w \in Workers : working[w] # Vision!Idle => working[w].job \in DOMAIN tasks /\ RunIsOwn(w)

VisionInv ==
  /\ tasks \in Seq(Vision!Job) /\ DOMAIN working = Workers
  /\ DOMAIN embedding = Designs /\ DOMAIN match = Designs \X Designs
  /\ RunsAreOwn
  /\ \A d, e \in Designs : embedding[d] # None => Compared(d, e)

\* Rows of matches are never deleted.
MatchesStay ==
  /\ DOMAIN match' = DOMAIN match
  /\ \A k \in DOMAIN match : match[k] # "none" => match'[k] # "none"

\* Job n is as it was for whoever looks at it, and for who runs it.
SameTask(n) ==
  /\ n \in DOMAIN tasks' /\ tasks'[n].type = tasks[n].type
  /\ tasks'[n].design = tasks[n].design /\ tasks'[n].state = tasks[n].state

\* The job of run w, and what it says about the others.
LEMMA JobOfRun ==
  ASSUME VisionInv, NEW w \in Workers, working[w] # Vision!Idle
  PROVE  \E n \in DOMAIN tasks :
           /\ working[w].job = n /\ Holds(w, n) /\ tasks[n].state = "running"
           /\ tasks[n] \in Vision!Job /\ tasks[n].design \in Designs
           /\ \A v \in Workers : Holds(v, n) => v = w
           /\ Detection(n) => \A k \in working[w].known \cap DOMAIN match : match[k] # "none"
<1>1. PICK n : n = working[w].job
  OBVIOUS
<1>2. n \in DOMAIN tasks /\ Holds(w, n) /\ RunIsOwn(w)
  BY <1>1 DEF VisionInv, RunsAreOwn, Holds
<1>3. tasks[n] \in Vision!Job
  BY <1>2 DEF VisionInv
<1>4. tasks[n].design \in Designs
  BY <1>3 DEF Vision!Job
<1>5. QED
  BY <1>1, <1>2, <1>3, <1>4 DEF RunIsOwn

\* Who has found a detection under way still does when neither it nor its run moves.
LEMMA StillLooking ==
  ASSUME NEW d, NEW e, NEW n, Looking(d, e, n), SameTask(n),
         \A w \in Workers : Holds(w, n) => working'[w] = working[w]
  PROVE  n \in DOMAIN tasks' /\ Looking(d, e, n)'
BY DEF Looking, Detection, SameTask, Holds

\* A step that moves no job and no run keeps all of it.
LEMMA VisionStays ==
  ASSUME VisionInv, tasks' \in Seq(Vision!Job), UNCHANGED <<embedding, working>>, MatchesStay,
         \A n \in DOMAIN tasks : SameTask(n)
  PROVE  VisionInv'
<1>1. RunsAreOwn'
  <2>1. SUFFICES ASSUME NEW w \in Workers, working'[w] # Vision!Idle
                 PROVE  working'[w].job \in DOMAIN tasks' /\ RunIsOwn(w)'
    BY DEF RunsAreOwn
  <2>2. PICK n \in DOMAIN tasks :
          /\ working[w].job = n /\ Holds(w, n) /\ tasks[n].state = "running"
          /\ \A v \in Workers : Holds(v, n) => v = w
          /\ Detection(n) => \A k \in working[w].known \cap DOMAIN match : match[k] # "none"
    BY <2>1, JobOfRun
  <2>3. SameTask(n)
    OBVIOUS
  <2>4. QED
    BY <2>2, <2>3 DEF SameTask, RunIsOwn, Holds, Detection, MatchesStay
<1>2. \A d, e \in Designs : embedding'[d] # None => Compared(d, e)'
  <2>1. SUFFICES ASSUME NEW d \in Designs, NEW e \in Designs, embedding[d] # None
                 PROVE  Compared(d, e)'
    OBVIOUS
  <2>2. Compared(d, e)
    BY <2>1 DEF VisionInv
  <2>3. ASSUME NEW n \in DOMAIN tasks, Looking(d, e, n)
        PROVE  Compared(d, e)'
    BY <2>3, StillLooking DEF Compared
  <2>4. <<d, e>> \in DOMAIN match /\ <<e, d>> \in DOMAIN match
    BY DEF VisionInv
  <2>5. QED
    BY <2>2, <2>3, <2>4 DEF Compared, MatchesStay
<1>3. QED
  BY <1>1, <1>2 DEF VisionInv, MatchesStay

\* Row n of the jobs becomes another one.
LEMMA TaskEdited ==
  ASSUME VisionInv, NEW n \in DOMAIN tasks, NEW row \in Vision!Job
  PROVE  /\ [tasks EXCEPT ![n] = row] \in Seq(Vision!Job)
         /\ DOMAIN [tasks EXCEPT ![n] = row] = DOMAIN tasks
         /\ [tasks EXCEPT ![n] = row][n] = row
         /\ \A m \in DOMAIN tasks \ {n} : [tasks EXCEPT ![n] = row][m] = tasks[m]
<1>1. tasks \in Seq(Vision!Job) /\ n \in 1 .. Len(tasks)
  BY DEF VisionInv
<1>2. QED
  BY <1>1, ExceptSeq

\* When a run ends, with its job, the others go on.
LEMMA RunEnds ==
  ASSUME VisionInv, NEW w \in Workers, NEW n \in DOMAIN tasks, Holds(w, n), MatchesStay,
         working' = [working EXCEPT ![w] = Vision!Idle],
         \A m \in DOMAIN tasks \ {n} : SameTask(m)
  PROVE  /\ DOMAIN working' = Workers /\ RunsAreOwn'
         /\ \A d, e : \A m \in DOMAIN tasks \ {n} :
              Looking(d, e, m) => m \in DOMAIN tasks' /\ Looking(d, e, m)'
<1>1. /\ DOMAIN working' = Workers /\ working'[w] = Vision!Idle
      /\ \A v \in Workers \ {w} : working'[v] = working[v]
  BY DEF VisionInv
<1>2. RunsAreOwn'
  <2>1. SUFFICES ASSUME NEW v \in Workers, working'[v] # Vision!Idle
                 PROVE  working'[v].job \in DOMAIN tasks' /\ RunIsOwn(v)'
    BY DEF RunsAreOwn
  <2>2. v # w /\ working'[v] = working[v] /\ working[v] # Vision!Idle
    BY <1>1, <2>1
  <2>3. PICK m \in DOMAIN tasks :
          /\ working[v].job = m /\ Holds(v, m) /\ tasks[m].state = "running"
          /\ \A u \in Workers : Holds(u, m) => u = v
          /\ Detection(m) => \A k \in working[v].known \cap DOMAIN match : match[k] # "none"
    BY <2>2, JobOfRun
  <2>4. m # n /\ SameTask(m)
    BY <2>2, <2>3
  <2>5. \A u \in Workers : Holds(u, m)' => u = v
    BY <1>1, <2>3 DEF Holds
  <2>6. QED
    BY <2>2, <2>3, <2>4, <2>5 DEF SameTask, RunIsOwn, Holds, Detection, MatchesStay
<1>3. ASSUME NEW d, NEW e, NEW m \in DOMAIN tasks \ {n}, Looking(d, e, m)
      PROVE  m \in DOMAIN tasks' /\ Looking(d, e, m)'
  <2>1. \A v \in Workers : Holds(v, m) => v # w
    BY DEF Holds
  <2>2. QED
    BY <1>1, <1>3, <2>1, StillLooking
<1>4. QED
  BY <1>1, <1>2, <1>3

\* A run that ends leaves every pair compared, if it does where only its job looked.
LEMMA EndedCompared ==
  ASSUME VisionInv, NEW w \in Workers, NEW n \in DOMAIN tasks, Holds(w, n), MatchesStay,
         working' = [working EXCEPT ![w] = Vision!Idle],
         \A m \in DOMAIN tasks \ {n} : SameTask(m),
         tasks' \in Seq(Vision!Job), UNCHANGED embedding,
         \A d, e \in Designs : Looking(d, e, n) => Compared(d, e)'
  PROVE  VisionInv'
<1>1. /\ DOMAIN working' = Workers /\ RunsAreOwn'
      /\ \A d, e : \A m \in DOMAIN tasks \ {n} :
           Looking(d, e, m) => m \in DOMAIN tasks' /\ Looking(d, e, m)'
  BY RunEnds
<1>2. \A d, e \in Designs : embedding'[d] # None => Compared(d, e)'
  <2>1. SUFFICES ASSUME NEW d \in Designs, NEW e \in Designs, embedding[d] # None
                 PROVE  Compared(d, e)'
    OBVIOUS
  <2>2. Compared(d, e)
    BY <2>1 DEF VisionInv
  <2>3. ASSUME NEW m \in DOMAIN tasks, Looking(d, e, m)
        PROVE  Compared(d, e)'
    BY <1>1, <2>3 DEF Compared
  <2>4. <<d, e>> \in DOMAIN match /\ <<e, d>> \in DOMAIN match
    BY DEF VisionInv
  <2>5. QED
    BY <2>2, <2>3, <2>4 DEF Compared, MatchesStay
<1>3. QED
  BY <1>1, <1>2 DEF VisionInv, MatchesStay

\* A run that starts: the detection among it reads two that look alike as alike.
LEMMA StartKeeps ==
  ASSUME VisionInv, NEW w \in Workers, NEW n \in DOMAIN tasks, Vision!Start(w, n)
  PROVE  VisionInv'
<1>1. tasks[n] \in Vision!Job /\ tasks[n].state = "waiting" /\ working[w] = Vision!Idle
  BY DEF VisionInv, Vision!Start
<1>2. PICK row : row = [tasks[n] EXCEPT !.state = "running"]
  OBVIOUS
<1>3. /\ row \in Vision!Job /\ row.type = tasks[n].type /\ row.design = tasks[n].design
      /\ row.state = "running"
  BY <1>1, <1>2 DEF Vision!Job
<1>4. tasks' = [tasks EXCEPT ![n] = row]
  BY <1>2 DEF Vision!Start
<1>5. /\ tasks' \in Seq(Vision!Job) /\ DOMAIN tasks' = DOMAIN tasks /\ tasks'[n] = row
      /\ \A m \in DOMAIN tasks \ {n} : tasks'[m] = tasks[m]
  BY <1>3, <1>4, TaskEdited
<1>6. PICK t : /\ working' = [working EXCEPT ![w] = t] /\ t.job = n
               /\ t.known = Vision!Known(tasks[n].type, tasks[n].design)
               /\ tasks[n].type = "detection" => t.vectors = embedding
  <2>1. PICK look :
          working' = [working EXCEPT ![w] =
            [job |-> n, look |-> look, known |-> Vision!Known(tasks[n].type, tasks[n].design),
             vectors |-> IF tasks[n].type \in {"embedding", "detection"} THEN embedding
                         ELSE [d \in Designs |-> None]]]
    BY Zenon DEF Vision!Start
  <2>2. PICK known, vectors :
          /\ known = Vision!Known(tasks[n].type, tasks[n].design)
          /\ vectors = IF tasks[n].type \in {"embedding", "detection"} THEN embedding
                       ELSE [d \in Designs |-> None]
    OBVIOUS
  <2>3. PICK t : t = [job |-> n, look |-> look, known |-> known, vectors |-> vectors]
    OBVIOUS
  <2>4. t.job = n /\ t.known = known /\ t.vectors = vectors
    BY <2>3
  <2>5. working' = [working EXCEPT ![w] = t]
    BY <2>1, <2>2, <2>3
  <2>6. QED
    BY <2>2, <2>4, <2>5
<1>7. /\ DOMAIN working' = Workers /\ working'[w] = t
      /\ \A v \in Workers \ {w} : working'[v] = working[v]
  BY <1>6 DEF VisionInv
<1>8. UNCHANGED <<embedding, match>>
  BY DEF Vision!Start
<1>9. \A v \in Workers : ~ Holds(v, n)
  BY <1>1 DEF VisionInv, RunsAreOwn, RunIsOwn, Holds
<1>10. t # Vision!Idle
  <2>1. n # 0
    BY DEF VisionInv
  <2>2. QED
    BY <1>6, <2>1 DEF Vision!Idle
<1>11. RunsAreOwn'
  <2>1. SUFFICES ASSUME NEW v \in Workers, working'[v] # Vision!Idle
                 PROVE  working'[v].job \in DOMAIN tasks' /\ RunIsOwn(v)'
    BY DEF RunsAreOwn
  <2>2. CASE v = w
    <3>1. Detection(n)' => \A k \in t.known \cap DOMAIN match : match[k] # "none"
      BY <1>3, <1>5, <1>6 DEF Detection, Vision!Known
    <3>2. \A u \in Workers : Holds(u, n)' => u = w
      BY <1>7, <1>9 DEF Holds
    <3>3. QED
      BY <1>3, <1>5, <1>6, <1>7, <1>8, <2>2, <3>1, <3>2 DEF RunIsOwn, Holds
  <2>3. CASE v # w
    <3>1. working'[v] = working[v]
      BY <1>7, <2>3
    <3>2. PICK m \in DOMAIN tasks :
            /\ working[v].job = m /\ Holds(v, m) /\ tasks[m].state = "running"
            /\ \A u \in Workers : Holds(u, m) => u = v
            /\ Detection(m) => \A k \in working[v].known \cap DOMAIN match : match[k] # "none"
      BY <2>1, <3>1, JobOfRun
    <3>3. m # n /\ tasks'[m] = tasks[m]
      BY <1>5, <1>9, <3>2
    <3>4. \A u \in Workers : Holds(u, m)' => u = v
      BY <1>6, <1>7, <3>2, <3>3 DEF Holds
    <3>5. QED
      BY <1>5, <1>8, <3>1, <3>2, <3>3, <3>4 DEF RunIsOwn, Holds, Detection
  <2>4. QED
    BY <2>2, <2>3
<1>12. \A d, e \in Designs : embedding'[d] # None => Compared(d, e)'
  <2>1. SUFFICES ASSUME NEW d \in Designs, NEW e \in Designs, embedding[d] # None
                 PROVE  Compared(d, e)'
    BY <1>8
  <2>2. Compared(d, e)
    BY <2>1 DEF VisionInv
  <2>3. CASE embedding[d] = embedding[e]
    <3>1. ASSUME NEW m \in DOMAIN tasks, Looking(d, e, m)
          PROVE  Compared(d, e)'
      <4>1. CASE m = n
        <5>1. t.vectors = embedding
          BY <1>6, <3>1, <4>1 DEF Looking, Detection
        <5>2. Holds(w, n)'
          BY <1>6, <1>7, <1>10 DEF Holds
        <5>3. working'[w].vectors[d] = working'[w].vectors[e]
          BY <1>7, <2>3, <5>1
        <5>4. Looking(d, e, n)'
          BY <1>3, <1>5, <3>1, <4>1, <5>2, <5>3 DEF Looking, Detection
        <5>5. QED
          BY <1>5, <5>4 DEF Compared
      <4>2. CASE m # n
        <5>1. SameTask(m) /\ \A v \in Workers : Holds(v, m) => working'[v] = working[v]
          BY <1>1, <1>5, <1>7, <4>2 DEF SameTask, Holds
        <5>2. QED
          BY <3>1, <5>1, StillLooking DEF Compared
      <4>3. QED
        BY <4>1, <4>2
    <3>2. QED
      BY <1>8, <2>2, <2>3, <3>1 DEF Compared
  <2>4. CASE embedding[d] # embedding[e]
    BY <1>8, <2>4 DEF Compared
  <2>5. QED
    BY <2>3, <2>4
<1>13. QED
  BY <1>5, <1>7, <1>8, <1>11, <1>12 DEF VisionInv

\* A run that fails leaves its job waiting, or given up.
LEMMA FailKeeps ==
  ASSUME VisionInv, NEW w \in Workers, Vision!Fail(w)
  PROVE  VisionInv'
<1>1. PICK n \in DOMAIN tasks :
        /\ working[w].job = n /\ Holds(w, n) /\ tasks[n] \in Vision!Job
  BY JobOfRun DEF Vision!Fail
<1>2. PICK state \in {"waiting", "failed"} : tasks' = [tasks EXCEPT ![n].state = state]
  BY <1>1 DEF Vision!Fail
<1>3. PICK row : row = [tasks[n] EXCEPT !.state = state]
  OBVIOUS
<1>4. /\ row \in Vision!Job /\ row.type = tasks[n].type /\ row.design = tasks[n].design
      /\ row.state = state
  BY <1>1, <1>3 DEF Vision!Job
<1>5. tasks' = [tasks EXCEPT ![n] = row]
  BY <1>2, <1>3
<1>6. /\ tasks' \in Seq(Vision!Job) /\ DOMAIN tasks' = DOMAIN tasks /\ tasks'[n] = row
      /\ \A m \in DOMAIN tasks \ {n} : tasks'[m] = tasks[m]
  BY <1>4, <1>5, TaskEdited
<1>7. UNCHANGED <<embedding, match>> /\ working' = [working EXCEPT ![w] = Vision!Idle]
  BY DEF Vision!Fail
<1>8. /\ MatchesStay
      /\ \A m \in DOMAIN tasks \ {n} : SameTask(m)
      /\ \A d, e \in Designs : Looking(d, e, n) => Compared(d, e)'
  BY <1>2, <1>4, <1>6, <1>7 DEF MatchesStay, SameTask, Looking, Detection, Compared
<1>9. QED
  BY <1>1, <1>6, <1>7, <1>8, EndedCompared

\* Marking the job of a run as done.
LEMMA CompleteEdits ==
  ASSUME VisionInv, NEW w \in Workers, working[w] # Vision!Idle,
         NEW mark \in {"not_required", "pending"}, Vision!Complete(w, mark)
  PROVE  /\ working' = [working EXCEPT ![w] = Vision!Idle]
         /\ tasks' \in Seq(Vision!Job)
         /\ \A m \in DOMAIN tasks \ {working[w].job} : SameTask(m)
<1>1. PICK n \in DOMAIN tasks : working[w].job = n /\ tasks[n] \in Vision!Job
  BY JobOfRun
<1>2. PICK row : row = [tasks[n] EXCEPT !.state = "done", !.review = mark]
  OBVIOUS
<1>3. row \in Vision!Job
  BY <1>1, <1>2 DEF Vision!Job
<1>4. tasks' = [tasks EXCEPT ![n] = row] /\ working' = [working EXCEPT ![w] = Vision!Idle]
  BY <1>1, <1>2 DEF Vision!Complete, VisionInv
<1>5. /\ tasks' \in Seq(Vision!Job) /\ DOMAIN tasks' = DOMAIN tasks
      /\ \A m \in DOMAIN tasks \ {n} : tasks'[m] = tasks[m]
  BY <1>3, <1>4, TaskEdited
<1>6. QED
  BY <1>1, <1>4, <1>5 DEF SameTask

\* Tags and moderation say nothing of duplicates.
LEMMA OtherRunKeeps ==
  ASSUME VisionInv, NEW w \in Workers, working[w] # Vision!Idle,
         tasks[working[w].job].type # "detection", UNCHANGED <<embedding, match>>,
         NEW mark \in {"not_required", "pending"}, Vision!Complete(w, mark)
  PROVE  VisionInv'
<1>1. PICK n \in DOMAIN tasks : working[w].job = n /\ Holds(w, n)
  BY JobOfRun
<1>2. MatchesStay /\ \A d, e : ~ Looking(d, e, n)
  BY <1>1 DEF MatchesStay, Looking, Detection
<1>3. QED
  BY <1>1, <1>2, CompleteEdits, EndedCompared

\* A detection files the pairs that it has read as alike, unless they are filed.
LEMMA DetectKeeps ==
  ASSUME VisionInv, NEW w \in Workers, Vision!Detect(w)
  PROVE  VisionInv'
<1>1. PICK n \in DOMAIN tasks :
        /\ working[w].job = n /\ Holds(w, n) /\ tasks[n].state = "running"
        /\ tasks[n].design \in Designs /\ \A v \in Workers : Holds(v, n) => v = w
        /\ Detection(n) => \A k \in working[w].known \cap DOMAIN match : match[k] # "none"
  BY JobOfRun DEF Vision!Detect, Vision!Running
<1>2. PICK d0, vectors, known, wanted :
        /\ d0 = tasks[n].design /\ vectors = working[w].vectors /\ known = working[w].known
        /\ wanted = {d0} \X Vision!Alike(vectors, d0)
  OBVIOUS
<1>3. /\ UNCHANGED embedding /\ Detection(n)
      /\ match' = [k \in DOMAIN match |-> IF k \in wanted \ known THEN "pending" ELSE match[k]]
      /\ \E mark \in {"not_required", "pending"} : Vision!Complete(w, mark)
  BY <1>1, <1>2 DEF Vision!Detect, Vision!Filed, Vision!Running, Detection
<1>4. MatchesStay
  BY <1>3 DEF MatchesStay
<1>5. ASSUME NEW d \in Designs, NEW e \in Designs, Looking(d, e, n)
      PROVE  Compared(d, e)'
  <2>1. d0 \in {d, e} /\ vectors[d] = vectors[e]
    BY <1>1, <1>2, <1>5 DEF Looking
  <2>2. ASSUME NEW f \in Designs \ {d0}, vectors[f] = vectors[d0]
        PROVE  match'[<<d0, f>>] # "none"
    <3>1. <<d0, f>> \in wanted /\ <<d0, f>> \in DOMAIN match
      BY <1>1, <1>2, <2>2 DEF Vision!Alike, VisionInv
    <3>2. QED
      BY <1>1, <1>2, <1>3, <3>1
  <2>3. QED
    BY <2>1, <2>2 DEF Compared
<1>6. working[w] # Vision!Idle
  BY <1>1 DEF Holds
<1>7. QED
  BY <1>1, <1>3, <1>4, <1>5, <1>6, CompleteEdits, EndedCompared

\* A new job, and where it stands in the queue.
LEMMA NewTask ==
  ASSUME NEW d \in Designs, NEW type \in {"tags", "embedding", "moderation", "detection"}
  PROVE  Vision!enqueue_design_ai_job(d, type) \in Vision!Job
BY DEF Vision!enqueue_design_ai_job, Vision!Job

LEMMA TasksAppended ==
  ASSUME NEW old \in Seq(Vision!Job), NEW more \in Seq(Vision!Job)
  PROVE  /\ old \o more \in Seq(Vision!Job)
         /\ \A n \in DOMAIN old : n \in DOMAIN (old \o more) /\ (old \o more)[n] = old[n]
         /\ \A n \in DOMAIN more : /\ Len(old) + n \in DOMAIN (old \o more)
                                   /\ (old \o more)[Len(old) + n] = more[n]
BY ConcatProperties

\* An embedding that is stored queues the detection that will compare it.
LEMMA EmbedKeeps ==
  ASSUME VisionInv, NEW w \in Workers, Vision!Embed(w)
  PROVE  VisionInv'
<1>1. PICK n \in DOMAIN tasks :
        /\ working[w].job = n /\ Holds(w, n) /\ tasks[n].state = "running"
        /\ tasks[n] \in Vision!Job /\ tasks[n].design \in Designs
  BY JobOfRun DEF Vision!Embed, Vision!Running
<1>2. PICK d0, row, next, old :
        /\ d0 = tasks[n].design /\ row = [tasks[n] EXCEPT !.state = "done"]
        /\ next = Vision!enqueue_design_ai_job(d0, "detection") /\ old = [tasks EXCEPT ![n] = row]
  OBVIOUS
<1>3. /\ tasks[n].type = "embedding" /\ tasks' = old \o <<next>>
      /\ working' = [working EXCEPT ![w] = Vision!Idle] /\ UNCHANGED match
      /\ \A d \in Designs \ {d0} : embedding'[d] = embedding[d]
      /\ DOMAIN embedding' = Designs
  BY <1>1, <1>2 DEF Vision!Embed, Vision!Running, Vision!Chained, VisionInv
<1>4. row \in Vision!Job /\ next \in Vision!Job
  <2>1. row \in Vision!Job
    BY <1>1, <1>2 DEF Vision!Job
  <2>2. QED
    BY <1>1, <1>2, <2>1, NewTask
<1>5. /\ old \in Seq(Vision!Job) /\ DOMAIN old = DOMAIN tasks
      /\ \A m \in DOMAIN tasks \ {n} : old[m] = tasks[m]
  BY <1>2, <1>4, TaskEdited
<1>6. PICK last :
        /\ tasks' \in Seq(Vision!Job) /\ last \in DOMAIN tasks' /\ tasks'[last] = next
        /\ \A m \in DOMAIN old : m \in DOMAIN tasks' /\ tasks'[m] = old[m]
  <2>1. <<next>> \in Seq(Vision!Job) /\ 1 \in DOMAIN <<next>> /\ <<next>>[1] = next
    BY <1>4
  <2>2. QED
    BY <1>3, <1>5, <2>1, TasksAppended
<1>7. MatchesStay /\ \A m \in DOMAIN tasks \ {n} : SameTask(m)
  BY <1>3, <1>5, <1>6 DEF MatchesStay, SameTask
<1>8. /\ DOMAIN working' = Workers /\ RunsAreOwn'
      /\ \A d, e : \A m \in DOMAIN tasks \ {n} :
           Looking(d, e, m) => m \in DOMAIN tasks' /\ Looking(d, e, m)'
  BY <1>1, <1>3, <1>7, RunEnds
<1>9. \A d, e \in Designs : embedding'[d] # None => Compared(d, e)'
  <2>1. SUFFICES ASSUME NEW d \in Designs, NEW e \in Designs, embedding'[d] # None
                 PROVE  Compared(d, e)'
    OBVIOUS
  <2>2. CASE d0 \in {d, e}
    <3>1. next.type = "detection" /\ next.design = d0 /\ next.state = "waiting"
      BY <1>2 DEF Vision!enqueue_design_ai_job
    <3>2. Looking(d, e, last)'
      BY <1>6, <2>2, <3>1 DEF Looking, Detection
    <3>3. QED
      BY <1>6, <3>2 DEF Compared
  <2>3. CASE d0 \notin {d, e}
    <3>1. embedding'[d] = embedding[d] /\ embedding'[e] = embedding[e] /\ Compared(d, e)
      BY <1>3, <2>1, <2>3 DEF VisionInv
    <3>2. ASSUME NEW m \in DOMAIN tasks, Looking(d, e, m)
          PROVE  Compared(d, e)'
      <4>1. m # n
        BY <1>3, <3>2 DEF Looking, Detection
      <4>2. QED
        BY <1>8, <3>2, <4>1 DEF Compared
    <3>3. QED
      BY <1>3, <3>1, <3>2 DEF Compared
  <2>4. QED
    BY <2>2, <2>3
<1>10. QED
  BY <1>3, <1>6, <1>7, <1>8, <1>9 DEF VisionInv, MatchesStay

\* What the switches turn on are the capabilities of a design.
Switches == Features \subseteq {"tags", "embedding", "moderation"}

\* Jobs that are added change nothing.
LEMMA AskingKeeps ==
  ASSUME VisionInv, NEW more \in Seq(Vision!Job), tasks' = tasks \o more,
         UNCHANGED <<embedding, working, match>>
  PROVE  VisionInv'
<1>1. tasks' \in Seq(Vision!Job) /\ \A n \in DOMAIN tasks : SameTask(n)
  BY TasksAppended DEF VisionInv, SameTask
<1>2. MatchesStay
  BY DEF MatchesStay
<1>3. QED
  BY <1>1, <1>2, VisionStays

LEMMA NewImageKeeps ==
  ASSUME VisionInv, NEW d \in Designs, NEW look \in Looks, Vision!NewImage(d, look)
  PROVE  VisionInv'
<1>1. \A type \in {"tags", "embedding", "moderation"} : Vision!Queued(d, type) \in Seq(Vision!Job)
  <2>1. TAKE type \in {"tags", "embedding", "moderation"}
  <2>2. PICK row : row = Vision!enqueue_design_ai_job(d, type)
    OBVIOUS
  <2>3. row \in Vision!Job
    BY <2>2, NewTask
  <2>4. <<row>> \in Seq(Vision!Job) /\ << >> \in Seq(Vision!Job)
    BY <2>3
  <2>5. QED
    BY <2>2, <2>4 DEF Vision!Queued
<1>2. Vision!NewJobs(d) \in Seq(Vision!Job)
  BY <1>1, ConcatProperties DEF Vision!NewJobs
<1>3. UNCHANGED <<embedding, working, match>>
  BY DEF Vision!NewImage
<1>4. CASE UNCHANGED tasks
  <2>1. MatchesStay /\ \A n \in DOMAIN tasks : SameTask(n)
    BY <1>3, <1>4 DEF MatchesStay, SameTask
  <2>2. QED
    BY <1>3, <1>4, <2>1, VisionStays DEF VisionInv
<1>5. CASE tasks' = tasks \o Vision!NewJobs(d)
  BY <1>2, <1>3, <1>5, AskingKeeps
<1>6. QED
  BY <1>4, <1>5 DEF Vision!NewImage

LEMMA RequestKeeps ==
  ASSUME VisionInv, Switches, NEW d \in Designs, NEW type \in Features, Vision!Request(d, type)
  PROVE  VisionInv'
<1>1. PICK row : row = Vision!enqueue_design_ai_job(d, type) /\ row \in Vision!Job
  BY NewTask DEF Switches
<1>2. <<row>> \in Seq(Vision!Job)
  BY <1>1
<1>3. tasks' = tasks \o <<row>> /\ UNCHANGED <<embedding, working, match>>
  <2>1. tasks' = Append(tasks, row) /\ UNCHANGED <<embedding, working, match>>
    BY <1>1 DEF Vision!Request
  <2>2. tasks \in Seq(Vision!Job)
    BY DEF VisionInv
  <2>3. QED
    BY <1>1, <2>1, <2>2, AppendIsConcat
<1>4. QED
  BY <1>2, <1>3, AskingKeeps

\* People decide about what was filed; that moves no job and deletes no match.
LEMMA DecideKeeps ==
  ASSUME VisionInv, NEW p \in Deciders, Vision!Decide(p)
  PROVE  VisionInv'
<1>1. UNCHANGED <<embedding, working>>
  BY DEF Vision!Decide
<1>2. CASE \E verdict \in {"accepted", "rejected"} : Vision!resolve_tag_suggestion(p, verdict)
  <2>1. UNCHANGED <<match, tasks>>
    BY <1>2 DEF Vision!resolve_tag_suggestion
  <2>2. MatchesStay /\ \A n \in DOMAIN tasks : SameTask(n)
    BY <2>1 DEF MatchesStay, SameTask
  <2>3. QED
    BY <1>1, <2>1, <2>2, VisionStays DEF VisionInv
<1>3. CASE \E verdict \in {"confirmed", "dismissed"} : Vision!resolve_duplicate_match(p, verdict)
  <2>1. UNCHANGED tasks /\ \E k : \E verdict \in {"confirmed", "dismissed"} :
                             match' = [match EXCEPT ![k] = verdict]
    BY <1>3 DEF Vision!resolve_duplicate_match
  <2>2. MatchesStay /\ \A n \in DOMAIN tasks : SameTask(n)
    BY <2>1 DEF MatchesStay, SameTask
  <2>3. QED
    BY <1>1, <2>1, <2>2, VisionStays DEF VisionInv
<1>4. CASE \E verdict \in {"approved", "rejected"} : Vision!resolve_generation_review(p, verdict)
  <2>1. PICK verdict \in {"approved", "rejected"} : Vision!resolve_generation_review(p, verdict)
    BY <1>4
  <2>2. PICK n : tasks' = [tasks EXCEPT ![n].review = verdict] /\ UNCHANGED match
    BY <2>1 DEF Vision!resolve_generation_review
  <2>3. PICK row : row = [tasks[n] EXCEPT !.review = verdict] /\ tasks' = [tasks EXCEPT ![n] = row]
    BY <2>2
  <2>4. MatchesStay
    BY <2>2 DEF MatchesStay
  <2>5. CASE n \in DOMAIN tasks
    <3>1. tasks[n] \in Vision!Job
      BY <2>5 DEF VisionInv
    <3>2. /\ row \in Vision!Job /\ row.type = tasks[n].type /\ row.design = tasks[n].design
          /\ row.state = tasks[n].state
      BY <2>3, <3>1 DEF Vision!Job
    <3>3. tasks' \in Seq(Vision!Job) /\ \A m \in DOMAIN tasks : SameTask(m)
      BY <2>3, <2>5, <3>2, TaskEdited DEF SameTask
    <3>4. QED
      BY <1>1, <2>4, <3>3, VisionStays
  <2>6. CASE n \notin DOMAIN tasks
    <3>1. tasks' = tasks
      BY <2>3, <2>6 DEF VisionInv
    <3>2. \A m \in DOMAIN tasks : SameTask(m)
      BY <3>1 DEF SameTask
    <3>3. QED
      BY <1>1, <2>4, <3>1, <3>2, VisionStays DEF VisionInv
  <2>7. QED
    BY <2>5, <2>6
<1>5. QED
  BY <1>2, <1>3, <1>4 DEF Vision!Decide

LEMMA VisionNext ==
  ASSUME VisionInv, Switches, [Vision!Next]_Vision!vars
  PROVE  VisionInv'
<1>1. ASSUME UNCHANGED <<embedding, working, match, tasks>>
      PROVE  VisionInv'
  <2>1. MatchesStay /\ \A n \in DOMAIN tasks : SameTask(n)
    BY <1>1 DEF MatchesStay, SameTask
  <2>2. QED
    BY <1>1, <2>1, VisionStays DEF VisionInv
<1>2. CASE UNCHANGED Vision!vars
  BY <1>1, <1>2 DEF Vision!vars
<1>3. ASSUME NEW d \in Designs, NEW look \in Looks, Vision!NewImage(d, look)
      PROVE  VisionInv'
  BY <1>3, NewImageKeeps
<1>4. ASSUME NEW d \in Designs, NEW type \in Features, Vision!Request(d, type)
      PROVE  VisionInv'
  BY <1>4, RequestKeeps
<1>5. ASSUME NEW w \in Workers, Vision!Work(w)
      PROVE  VisionInv'
  <2>1. ASSUME NEW n \in DOMAIN tasks, Vision!Start(w, n)
        PROVE  VisionInv'
    BY <2>1, StartKeeps
  <2>2. CASE Vision!Fail(w)
    BY <2>2, FailKeeps
  <2>3. ASSUME NEW tags \in SUBSET Tags, Vision!Tag(w, tags)
        PROVE  VisionInv'
    BY <2>3, OtherRunKeeps DEF Vision!Tag, Vision!Running
  <2>4. CASE Vision!Embed(w)
    BY <2>4, EmbedKeeps
  <2>5. CASE Vision!Detect(w)
    BY <2>5, DetectKeeps
  <2>6. ASSUME NEW unsure \in BOOLEAN, Vision!Moderate(w, unsure)
        PROVE  VisionInv'
    BY <2>6, OtherRunKeeps DEF Vision!Moderate, Vision!Running
  <2>7. QED
    BY <1>5, <2>1, <2>2, <2>3, <2>4, <2>5, <2>6 DEF Vision!Work
<1>6. ASSUME NEW p \in Deciders, Vision!Reads(p)
      PROVE  VisionInv'
  BY <1>1, <1>6 DEF Vision!Reads, Vision!Read
<1>7. ASSUME NEW p \in Deciders, Vision!Decide(p)
      PROVE  VisionInv'
  BY <1>7, DecideKeeps
<1>8. QED
  BY <1>2, <1>3, <1>4, <1>5, <1>6, <1>7 DEF Vision!Next

LEMMA VisionStaysTrue ==
  ASSUME Switches
  PROVE  Vision!Spec => []VisionInv
<1>1. Vision!Init => VisionInv
  <2>1. SUFFICES ASSUME Vision!Init
                 PROVE  VisionInv
    OBVIOUS
  <2>2. tasks \in Seq(Vision!Job)
    BY <2>1 DEF Vision!Init
  <2>3. QED
    BY <2>1, <2>2 DEF Vision!Init, VisionInv, RunsAreOwn
<1>2. VisionInv /\ [Vision!Next]_Vision!vars => VisionInv'
  BY VisionNext
<1>3. QED
  BY <1>1, <1>2, PTL DEF Vision!Spec

\* Whatever runs overlap, fail or are repeated: once no detection of two designs that
\* look alike is left to run, the staff was told of them.
THEOREM NoDuplicateMissedForGood ==
  ASSUME Switches
  PROVE  Vision!Spec => []Vision!NoDuplicateMissed
<1>1. VisionInv => Vision!NoDuplicateMissed
  <2>1. SUFFICES ASSUME VisionInv, NEW d \in Designs, NEW e \in Designs,
                        d # e, embedding[d] # None, embedding[d] = embedding[e],
                        match[<<d, e>>] = "none", match[<<e, d>>] = "none"
                 PROVE  \E n \in DOMAIN tasks : /\ tasks[n].type = "detection"
                                                /\ tasks[n].design \in {d, e}
                                                /\ tasks[n].state # "done"
    BY DEF Vision!NoDuplicateMissed
  <2>2. PICK n \in DOMAIN tasks : Looking(d, e, n)
    BY <2>1 DEF VisionInv, Compared
  <2>3. tasks[n].state # "done"
    <3>1. CASE tasks[n].state \in {"waiting", "failed"}
      BY <3>1
    <3>2. ASSUME NEW w \in Workers, Holds(w, n)
          PROVE  tasks[n].state = "running"
      BY <2>1, <3>2 DEF VisionInv, RunsAreOwn, RunIsOwn, Holds
    <3>3. QED
      BY <2>2, <3>1, <3>2 DEF Looking
  <2>4. QED
    BY <2>2, <2>3 DEF Looking, Detection
<1>2. QED
  BY <1>1, VisionStaysTrue, PTL

\* One person decides at a time.
OneDecider == \A p, q \in Deciders : p = q

\* A job that is not done has nothing to review.
Unreviewed == \A n \in DOMAIN tasks : tasks[n].state # "done" => tasks[n].review = "not_required"

\* What somebody is about to decide is still undecided.
Undecided(t) ==
  /\ t.table = "suggestion" => t.key \in DOMAIN suggestion /\ suggestion[t.key] = "pending"
  /\ t.table = "match" => t.key \in DOMAIN match /\ match[t.key] = "pending"
  /\ t.table = "review" => t.key \in DOMAIN tasks /\ tasks[t.key].review = "pending"

DecidingInv ==
  /\ Unreviewed /\ DOMAIN decision = Deciders
  /\ \A p \in Deciders : Undecided(decision[p])

\* Rows that are filed, and results under review or reviewed, stay as they are.
RowsStay ==
  /\ DOMAIN suggestion' = DOMAIN suggestion /\ DOMAIN match' = DOMAIN match
  /\ \A k \in DOMAIN suggestion : suggestion[k] # "none" => suggestion'[k] = suggestion[k]
  /\ \A k \in DOMAIN match : match[k] # "none" => match'[k] = match[k]
  /\ \A n \in DOMAIN tasks : tasks[n].review # "not_required" =>
       n \in DOMAIN tasks' /\ tasks'[n].review = tasks[n].review

LEMMA StillUndecided ==
  ASSUME NEW t, Undecided(t), RowsStay
  PROVE  Undecided(t)'
BY DEF Undecided, RowsStay

\* What the jobs do to the rows keeps both.
LEMMA DecidingStays ==
  ASSUME DecidingInv, RowsStay, Unreviewed', UNCHANGED decision
  PROVE  DecidingInv' /\ Vision!DecidedStaysSo
<1>1. \A p \in Deciders : Undecided(decision[p])'
  BY StillUndecided DEF DecidingInv, Undecided, RowsStay
<1>2. DecidingInv'
  BY <1>1 DEF DecidingInv, Undecided
<1>3. Vision!DecidedStaysSo
  BY DEF RowsStay, Vision!DecidedStaysSo
<1>4. QED
  BY <1>2, <1>3

\* A row of the jobs that is edited, and has not been reviewed.
LEMMA EditStays ==
  ASSUME VisionInv, DecidingInv, NEW n \in DOMAIN tasks, tasks[n].state # "done",
         NEW row \in Vision!Job, row.state # "done" => row.review = "not_required",
         NEW old, old = [tasks EXCEPT ![n] = row]
  PROVE  /\ old \in Seq(Vision!Job) /\ DOMAIN old = DOMAIN tasks
         /\ \A m \in DOMAIN tasks : tasks[m].review # "not_required" => old[m].review = tasks[m].review
         /\ \A m \in DOMAIN old : old[m].state # "done" => old[m].review = "not_required"
<1>1. /\ old \in Seq(Vision!Job) /\ DOMAIN old = DOMAIN tasks /\ old[n] = row
      /\ \A m \in DOMAIN tasks \ {n} : old[m] = tasks[m]
  BY TaskEdited
<1>2. tasks[n].review = "not_required"
  BY DEF DecidingInv, Unreviewed
<1>3. \A m \in DOMAIN tasks : tasks[m].state # "done" => tasks[m].review = "not_required"
  BY DEF DecidingInv, Unreviewed
<1>4. QED
  BY <1>1, <1>2, <1>3

\* The rows of a table after a run has filed what it wanted, under a key that is unique.
LEMMA FiledStay ==
  ASSUME NEW table, NEW wanted, NEW known, Vision!UniqueKept(table, wanted, known), NEW k \in DOMAIN table,
         table[k] # "none"
  PROVE  Vision!Filed(table, wanted, known)[k] = table[k]
BY DEF Vision!Filed, Vision!UniqueKept

LEMMA CompleteStays ==
  ASSUME VisionInv, DecidingInv, NEW w \in Workers, working[w] # Vision!Idle,
         NEW mark \in {"not_required", "pending"}, Vision!Complete(w, mark)
  PROVE  /\ Unreviewed'
         /\ \A n \in DOMAIN tasks : tasks[n].review # "not_required" =>
              n \in DOMAIN tasks' /\ tasks'[n].review = tasks[n].review
<1>1. PICK n \in DOMAIN tasks :
        working[w].job = n /\ tasks[n].state = "running" /\ tasks[n] \in Vision!Job
  BY JobOfRun
<1>2. PICK row : row = [tasks[n] EXCEPT !.state = "done", !.review = mark]
  OBVIOUS
<1>3. row \in Vision!Job /\ row.state = "done"
  BY <1>1, <1>2 DEF Vision!Job
<1>4. tasks' = [tasks EXCEPT ![n] = row]
  BY <1>1, <1>2 DEF Vision!Complete, VisionInv
<1>5. QED
  BY <1>1, <1>3, <1>4, EditStays DEF Unreviewed

LEMMA AppendStays ==
  ASSUME VisionInv, DecidingInv, NEW old \in Seq(Vision!Job), NEW more \in Seq(Vision!Job),
         \A m \in DOMAIN old : old[m].state # "done" => old[m].review = "not_required",
         \A m \in DOMAIN more : more[m].review = "not_required",
         \A m \in DOMAIN tasks : tasks[m].review # "not_required" =>
           m \in DOMAIN old /\ old[m].review = tasks[m].review,
         tasks' = old \o more
  PROVE  /\ Unreviewed'
         /\ \A n \in DOMAIN tasks : tasks[n].review # "not_required" =>
              n \in DOMAIN tasks' /\ tasks'[n].review = tasks[n].review
<1>1. \A n \in DOMAIN old : n \in DOMAIN tasks' /\ tasks'[n] = old[n]
  BY TasksAppended
<1>2. ASSUME NEW n \in DOMAIN tasks', n \notin DOMAIN old
      PROVE  \E m \in DOMAIN more : tasks'[n] = more[m]
  <2>1. /\ DOMAIN tasks' = 1 .. Len(tasks') /\ Len(tasks') = Len(old) + Len(more)
        /\ DOMAIN old = 1 .. Len(old) /\ DOMAIN more = 1 .. Len(more)
        /\ Len(old) \in Nat /\ Len(more) \in Nat
    BY ConcatProperties
  <2>2. PICK m : m = n - Len(old)
    OBVIOUS
  <2>3. m \in DOMAIN more /\ n = Len(old) + m
    BY <1>2, <2>1, <2>2
  <2>4. QED
    BY <2>3, TasksAppended
<1>3. QED
  BY <1>1, <1>2 DEF Unreviewed

\* The runs of the jobs, and asking for them, undo no decision.
LEMMA AskingUndoesNothing ==
  ASSUME VisionInv, DecidingInv, Switches,
         \/ \E d \in Designs, look \in Looks : Vision!NewImage(d, look)
         \/ \E d \in Designs, type \in Features : Vision!Request(d, type)
  PROVE  DecidingInv' /\ Vision!DecidedStaysSo
<1>1. UNCHANGED <<suggestion, match, decision>>
  BY DEF Vision!NewImage, Vision!Request
<1>2. CASE UNCHANGED tasks
  <2>1. RowsStay /\ Unreviewed'
    BY <1>1, <1>2 DEF RowsStay, DecidingInv, Unreviewed
  <2>2. QED
    BY <1>1, <2>1, DecidingStays
<1>3. ASSUME NEW more \in Seq(Vision!Job), tasks' = tasks \o more,
             \A m \in DOMAIN more : more[m].review = "not_required"
      PROVE  DecidingInv' /\ Vision!DecidedStaysSo
  <2>1. tasks \in Seq(Vision!Job)
    BY DEF VisionInv
  <2>2. RowsStay /\ Unreviewed'
    BY <1>1, <1>3, <2>1, AppendStays DEF RowsStay, DecidingInv, Unreviewed
  <2>3. QED
    BY <1>1, <2>2, DecidingStays
<1>4. ASSUME NEW d \in Designs, NEW type \in {"tags", "embedding", "moderation"}
      PROVE  \E row \in Vision!Job : /\ row = Vision!enqueue_design_ai_job(d, type)
                                     /\ row.review = "not_required"
  BY <1>4, NewTask DEF Vision!enqueue_design_ai_job
<1>5. ASSUME NEW d \in Designs, NEW look \in Looks, Vision!NewImage(d, look)
      PROVE  DecidingInv' /\ Vision!DecidedStaysSo
  <2> DEFINE Fresh(s) == s \in Seq(Vision!Job) /\ \A m \in DOMAIN s : s[m].review = "not_required"
  <2>1. \A type \in {"tags", "embedding", "moderation"} : Fresh(Vision!Queued(d, type))
    <3>1. TAKE type \in {"tags", "embedding", "moderation"}
    <3>2. PICK row \in Vision!Job : /\ row = Vision!enqueue_design_ai_job(d, type)
                                    /\ row.review = "not_required"
      BY <1>4
    <3>3. Fresh(<<row>>) /\ Fresh(<< >>)
      BY <3>2
    <3>4. QED
      BY <3>2, <3>3 DEF Vision!Queued
  <2>2. ASSUME NEW s, NEW t, Fresh(s), Fresh(t)
        PROVE  Fresh(s \o t)
    <3>1. /\ s \o t \in Seq(Vision!Job) /\ Len(s \o t) = Len(s) + Len(t)
          /\ DOMAIN (s \o t) = 1 .. Len(s \o t)
          /\ \A m \in 1 .. Len(s) + Len(t) :
               (s \o t)[m] = IF m <= Len(s) THEN s[m] ELSE t[m - Len(s)]
          /\ DOMAIN s = 1 .. Len(s) /\ DOMAIN t = 1 .. Len(t)
          /\ Len(s) \in Nat /\ Len(t) \in Nat
      BY <2>2, ConcatProperties
    <3>2. ASSUME NEW m \in DOMAIN (s \o t)
          PROVE  (s \o t)[m].review = "not_required"
      <4>1. CASE m <= Len(s)
        BY <2>2, <3>1, <3>2, <4>1
      <4>2. CASE ~ (m <= Len(s))
        <5>1. m - Len(s) \in DOMAIN t
          BY <3>1, <3>2, <4>2
        <5>2. QED
          BY <2>2, <3>1, <3>2, <4>2, <5>1
      <4>3. QED
        BY <4>1, <4>2
    <3>3. QED
      BY <3>1, <3>2
  <2>3. Fresh(Vision!NewJobs(d))
    BY <2>1, <2>2 DEF Vision!NewJobs
  <2>4. UNCHANGED tasks \/ tasks' = tasks \o Vision!NewJobs(d)
    BY <1>5 DEF Vision!NewImage
  <2>5. QED
    BY <1>2, <1>3, <2>3, <2>4
<1>6. ASSUME NEW d \in Designs, NEW type \in Features, Vision!Request(d, type)
      PROVE  DecidingInv' /\ Vision!DecidedStaysSo
  <2>1. PICK row \in Vision!Job : /\ row = Vision!enqueue_design_ai_job(d, type)
                                  /\ row.review = "not_required"
    BY <1>4, <1>6 DEF Switches
  <2>2. tasks' = Append(tasks, row) /\ tasks \in Seq(Vision!Job)
    BY <1>6, <2>1 DEF Vision!Request, VisionInv
  <2>3. tasks' = tasks \o <<row>>
    BY <2>1, <2>2, AppendIsConcat
  <2>4. <<row>> \in Seq(Vision!Job) /\ \A m \in DOMAIN <<row>> : <<row>>[m].review = "not_required"
    BY <2>1
  <2>5. QED
    BY <1>3, <2>3, <2>4
<1>7. QED
  BY <1>5, <1>6

LEMMA WorkUndoesNothing ==
  ASSUME VisionInv, DecidingInv, NEW w \in Workers, Vision!Work(w)
  PROVE  DecidingInv' /\ Vision!DecidedStaysSo
<1>1. UNCHANGED decision
  BY DEF Vision!Work, Vision!Start, Vision!Fail, Vision!Tag, Vision!Embed, Vision!Detect, Vision!Moderate
<1>2. SUFFICES RowsStay /\ Unreviewed'
  BY <1>1, DecidingStays
<1>3. ASSUME NEW n \in DOMAIN tasks, tasks[n].state # "done", NEW state \in {"running", "waiting", "failed"},
             tasks' = [tasks EXCEPT ![n].state = state], UNCHANGED <<suggestion, match>>
      PROVE  RowsStay /\ Unreviewed'
  <2>1. PICK row : row = [tasks[n] EXCEPT !.state = state]
    OBVIOUS
  <2>2. tasks[n] \in Vision!Job /\ tasks[n].review = "not_required"
    BY <1>3 DEF VisionInv, DecidingInv, Unreviewed
  <2>3. row \in Vision!Job /\ row.review = "not_required"
    BY <2>1, <2>2 DEF Vision!Job
  <2>4. tasks' = [tasks EXCEPT ![n] = row]
    BY <1>3, <2>1
  <2>5. QED
    BY <1>3, <2>3, <2>4, EditStays DEF RowsStay, Unreviewed
<1>4. ASSUME NEW n \in DOMAIN tasks, Vision!Start(w, n)
      PROVE  RowsStay /\ Unreviewed'
  <2>1. tasks[n].state # "done" /\ UNCHANGED <<suggestion, match>>
        /\ tasks' = [tasks EXCEPT ![n].state = "running"]
    BY <1>4 DEF Vision!Start
  <2>2. QED
    BY <1>3, <1>4, <2>1
<1>5. CASE Vision!Fail(w)
  <2>1. PICK n \in DOMAIN tasks : working[w].job = n /\ tasks[n].state = "running"
    BY <1>5, JobOfRun DEF Vision!Fail
  <2>2. PICK state \in {"waiting", "failed"} : tasks' = [tasks EXCEPT ![n].state = state]
    BY <1>5, <2>1 DEF Vision!Fail
  <2>3. UNCHANGED <<suggestion, match>>
    BY <1>5 DEF Vision!Fail
  <2>4. QED
    BY <1>3, <2>1, <2>2, <2>3
<1>6. ASSUME working[w] # Vision!Idle, NEW mark \in {"not_required", "pending"}, Vision!Complete(w, mark),
             NEW mine, NEW others, NEW found,
             \/ /\ Vision!UniqueKept(suggestion, mine, found)
                /\ suggestion' = Vision!Filed(suggestion, mine, found)
             \/ UNCHANGED suggestion,
             \/ /\ Vision!UniqueKept(match, others, found)
                /\ match' = Vision!Filed(match, others, found)
             \/ UNCHANGED match
      PROVE  RowsStay /\ Unreviewed'
  <2>1. /\ Unreviewed'
        /\ \A n \in DOMAIN tasks : tasks[n].review # "not_required" =>
             n \in DOMAIN tasks' /\ tasks'[n].review = tasks[n].review
    BY <1>6, CompleteStays
  <2>2. /\ DOMAIN suggestion' = DOMAIN suggestion
        /\ \A k \in DOMAIN suggestion : suggestion[k] # "none" => suggestion'[k] = suggestion[k]
    BY <1>6, FiledStay DEF Vision!Filed
  <2>3. /\ DOMAIN match' = DOMAIN match
        /\ \A k \in DOMAIN match : match[k] # "none" => match'[k] = match[k]
    BY <1>6, FiledStay DEF Vision!Filed
  <2>4. QED
    BY <2>1, <2>2, <2>3 DEF RowsStay
<1>7. ASSUME NEW tags \in SUBSET Tags, Vision!Tag(w, tags)
      PROVE  RowsStay /\ Unreviewed'
  <2>1. \E mine : \E found : /\ Vision!UniqueKept(suggestion, mine, found)
                             /\ suggestion' = Vision!Filed(suggestion, mine, found)
    BY <1>7 DEF Vision!Tag
  <2>2. working[w] # Vision!Idle /\ Vision!Complete(w, "not_required") /\ UNCHANGED match
    BY <1>7 DEF Vision!Tag, Vision!Running
  <2>3. QED
    BY <1>6, <2>1, <2>2
<1>8. CASE Vision!Detect(w)
  <2>1. \E others : \E found : /\ Vision!UniqueKept(match, others, found)
                               /\ match' = Vision!Filed(match, others, found)
    BY <1>8 DEF Vision!Detect
  <2>2. working[w] # Vision!Idle /\ UNCHANGED suggestion
        /\ \E mark \in {"not_required", "pending"} : Vision!Complete(w, mark)
    BY <1>8 DEF Vision!Detect, Vision!Running
  <2>3. QED
    BY <1>6, <2>1, <2>2
<1>9. ASSUME NEW unsure \in BOOLEAN, Vision!Moderate(w, unsure)
      PROVE  RowsStay /\ Unreviewed'
  <2>1. working[w] # Vision!Idle /\ UNCHANGED <<suggestion, match>>
        /\ \E mark \in {"not_required", "pending"} : Vision!Complete(w, mark)
    BY <1>9 DEF Vision!Moderate, Vision!Running
  <2>2. QED
    BY <1>6, <2>1
<1>10. CASE Vision!Embed(w)
  <2>1. PICK n \in DOMAIN tasks : /\ working[w].job = n /\ tasks[n].state = "running"
                                  /\ tasks[n] \in Vision!Job /\ tasks[n].design \in Designs
    BY <1>10, JobOfRun DEF Vision!Embed, Vision!Running
  <2>2. PICK row, next, old :
          /\ row = [tasks[n] EXCEPT !.state = "done"]
          /\ next = Vision!enqueue_design_ai_job(tasks[n].design, "detection")
          /\ old = [tasks EXCEPT ![n] = row]
    OBVIOUS
  <2>3. row \in Vision!Job /\ row.state = "done"
    BY <2>1, <2>2 DEF Vision!Job
  <2>4. next \in Vision!Job /\ next.review = "not_required"
    <3>1. next \in Vision!Job
      BY <2>1, <2>2, NewTask
    <3>2. QED
      BY <2>2, <3>1 DEF Vision!enqueue_design_ai_job
  <2>5. tasks' = old \o <<next>> /\ UNCHANGED <<suggestion, match>>
    BY <1>10, <2>1, <2>2 DEF Vision!Embed, Vision!Chained, VisionInv
  <2>6. /\ old \in Seq(Vision!Job) /\ DOMAIN old = DOMAIN tasks
        /\ \A m \in DOMAIN tasks : tasks[m].review # "not_required" => old[m].review = tasks[m].review
        /\ \A m \in DOMAIN old : old[m].state # "done" => old[m].review = "not_required"
    <3>1. tasks[n].state # "done" /\ old = [tasks EXCEPT ![n] = row]
      BY <2>1, <2>2
    <3>2. /\ old \in Seq(Vision!Job) /\ DOMAIN old = DOMAIN tasks /\ old[n] = row
          /\ \A m \in DOMAIN tasks \ {n} : old[m] = tasks[m]
      BY <2>3, <3>1, TaskEdited
    <3>3. \A m \in DOMAIN tasks : tasks[m].state # "done" => tasks[m].review = "not_required"
      BY DEF DecidingInv, Unreviewed
    <3>4. QED
      BY <2>3, <3>1, <3>2, <3>3
  <2>7. <<next>> \in Seq(Vision!Job) /\ \A m \in DOMAIN <<next>> : <<next>>[m].review = "not_required"
    BY <2>4
  <2>8. QED
    BY <2>5, <2>6, <2>7, AppendStays DEF RowsStay
<1>11. QED
  BY <1>4, <1>5, <1>7, <1>8, <1>9, <1>10 DEF Vision!Work

\* Reading a row that is pending, and deciding it before anybody else does.
LEMMA ReadUndoesNothing ==
  ASSUME DecidingInv, NEW p \in Deciders, Vision!Reads(p)
  PROVE  DecidingInv' /\ Vision!DecidedStaysSo
<1>1. UNCHANGED <<suggestion, match, tasks>>
  BY DEF Vision!Reads, Vision!Read
<1>2. PICK t : decision' = [decision EXCEPT ![p] = t] /\ Undecided(t)
  <2>1. ASSUME NEW k \in DOMAIN suggestion, Vision!Read(p, "suggestion", k, suggestion[k])
        PROVE  \E t : decision' = [decision EXCEPT ![p] = t] /\ Undecided(t)
    <3>1. PICK t : t = [table |-> "suggestion", key |-> k]
      OBVIOUS
    <3>2. t.table = "suggestion" /\ t.key = k
      BY <3>1
    <3>3. Undecided(t)
      BY <2>1, <3>2 DEF Vision!Read, Undecided
    <3>4. QED
      BY <2>1, <3>1, <3>3 DEF Vision!Read
  <2>2. ASSUME NEW k \in DOMAIN match, Vision!Read(p, "match", k, match[k])
        PROVE  \E t : decision' = [decision EXCEPT ![p] = t] /\ Undecided(t)
    <3>1. PICK t : t = [table |-> "match", key |-> k]
      OBVIOUS
    <3>2. t.table = "match" /\ t.key = k
      BY <3>1
    <3>3. Undecided(t)
      BY <2>2, <3>2 DEF Vision!Read, Undecided
    <3>4. QED
      BY <2>2, <3>1, <3>3 DEF Vision!Read
  <2>3. ASSUME NEW n \in DOMAIN tasks, Vision!Read(p, "review", n, tasks[n].review)
        PROVE  \E t : decision' = [decision EXCEPT ![p] = t] /\ Undecided(t)
    <3>1. PICK t : t = [table |-> "review", key |-> n]
      OBVIOUS
    <3>2. t.table = "review" /\ t.key = n
      BY <3>1
    <3>3. Undecided(t)
      BY <2>3, <3>2 DEF Vision!Read, Undecided
    <3>4. QED
      BY <2>3, <3>1, <3>3 DEF Vision!Read
  <2>4. QED
    BY <2>1, <2>2, <2>3 DEF Vision!Reads
<1>3. \A q \in Deciders : Undecided(decision'[q])
  BY <1>2 DEF DecidingInv
<1>4. DecidingInv'
  BY <1>1, <1>2, <1>3 DEF DecidingInv, Undecided, Unreviewed
<1>5. QED
  BY <1>1, <1>4 DEF Vision!DecidedStaysSo

LEMMA DecideUndoesNothing ==
  ASSUME VisionInv, DecidingInv, OneDecider, NEW p \in Deciders, Vision!Decide(p)
  PROVE  DecidingInv' /\ Vision!DecidedStaysSo
<1>1. PICK t : t = decision[p] /\ Undecided(t)
  BY DEF DecidingInv
<1>2. DOMAIN decision' = Deciders /\ \A q \in Deciders : decision'[q] = Vision!NoDecision
  BY DEF Vision!Decide, DecidingInv, OneDecider
<1>3. \A q \in Deciders : Undecided(decision[q])'
  BY <1>2 DEF Undecided, Vision!NoDecision
<1>4. Unreviewed' /\ Vision!DecidedStaysSo
  <2>1. CASE \E verdict \in {"accepted", "rejected"} : Vision!resolve_tag_suggestion(p, verdict)
    <3>1. PICK verdict : /\ t.table = "suggestion" /\ UNCHANGED <<match, tasks>>
                         /\ suggestion' = [suggestion EXCEPT ![t.key] = verdict]
      BY <1>1, <2>1 DEF Vision!resolve_tag_suggestion
    <3>2. suggestion[t.key] = "pending"
      BY <1>1, <3>1 DEF Undecided
    <3>3. QED
      BY <3>1, <3>2 DEF DecidingInv, Unreviewed, Vision!DecidedStaysSo
  <2>2. CASE \E verdict \in {"confirmed", "dismissed"} : Vision!resolve_duplicate_match(p, verdict)
    <3>1. PICK verdict : /\ t.table = "match" /\ UNCHANGED <<suggestion, tasks>>
                         /\ match' = [match EXCEPT ![t.key] = verdict]
      BY <1>1, <2>2 DEF Vision!resolve_duplicate_match
    <3>2. match[t.key] = "pending"
      BY <1>1, <3>1 DEF Undecided
    <3>3. QED
      BY <3>1, <3>2 DEF DecidingInv, Unreviewed, Vision!DecidedStaysSo
  <2>3. CASE \E verdict \in {"approved", "rejected"} : Vision!resolve_generation_review(p, verdict)
    <3>1. PICK verdict \in {"approved", "rejected"} : Vision!resolve_generation_review(p, verdict)
      BY <2>3
    <3>2. /\ t.table = "review" /\ UNCHANGED <<suggestion, match>>
          /\ tasks' = [tasks EXCEPT ![t.key].review = verdict]
      BY <1>1, <3>1 DEF Vision!resolve_generation_review
    <3>3. PICK n \in DOMAIN tasks : n = t.key /\ tasks[n].review = "pending"
      BY <1>1, <3>2 DEF Undecided
    <3>4. tasks[n].state = "done" /\ tasks[n] \in Vision!Job
      BY <3>3 DEF DecidingInv, Unreviewed, VisionInv
    <3>5. PICK row : row = [tasks[n] EXCEPT !.review = verdict] /\ tasks' = [tasks EXCEPT ![n] = row]
      BY <3>2, <3>3
    <3>6. row \in Vision!Job /\ row.state = "done"
      BY <3>4, <3>5 DEF Vision!Job
    <3>7. /\ DOMAIN tasks' = DOMAIN tasks /\ tasks'[n] = row
          /\ \A m \in DOMAIN tasks \ {n} : tasks'[m] = tasks[m]
      BY <3>5, <3>6, TaskEdited
    <3>8. QED
      BY <3>2, <3>3, <3>6, <3>7 DEF DecidingInv, Unreviewed, Vision!DecidedStaysSo
  <2>4. QED
    BY <2>1, <2>2, <2>3 DEF Vision!Decide
<1>5. DecidingInv'
  BY <1>2, <1>3, <1>4 DEF DecidingInv, Undecided
<1>6. QED
  BY <1>4, <1>5

\* What a person decided about a tag, a duplicate or a result under review is taken back
\* by no run, however runs overlap, fail or are repeated, if one person decides at a time.
THEOREM DecidedStayDecided ==
  ASSUME Switches, OneDecider
  PROVE  Vision!Spec => [][Vision!DecidedStaysSo]_Vision!vars
<1>1. Vision!Init => DecidingInv
  BY DEF Vision!Init, DecidingInv, Unreviewed, Undecided, Vision!NoDecision
<1>2. ASSUME VisionInv, DecidingInv, Vision!Next
      PROVE  DecidingInv' /\ Vision!DecidedStaysSo
  <2>1. ASSUME NEW p \in Deciders, Vision!Reads(p) \/ Vision!Decide(p)
        PROVE  DecidingInv' /\ Vision!DecidedStaysSo
    BY <1>2, <2>1, ReadUndoesNothing, DecideUndoesNothing
  <2>2. QED
    BY <1>2, <2>1, AskingUndoesNothing, WorkUndoesNothing DEF Vision!Next
<1>3. DecidingInv /\ UNCHANGED Vision!vars => DecidingInv'
  BY DEF Vision!vars, DecidingInv, Unreviewed, Undecided
<1>4. VisionInv /\ DecidingInv /\ [Vision!Next]_Vision!vars =>
        DecidingInv' /\ [Vision!DecidedStaysSo]_Vision!vars
  BY <1>2, <1>3
<1>5. QED
  BY <1>1, <1>4, VisionStaysTrue, PTL DEF Vision!Spec

(***************************************************************************)
(* The queue of the jobs; AiJobsProofs has the proofs                      *)
(***************************************************************************)

CONSTANTS Jobs, Requests, MaxAttempts, MaxRetries, Limit, Late, Repeating

VARIABLES jobs, due, aged, requests, generation, worker, asker

Queue == INSTANCE AiJobsProofs WITH Together <- Repeating, session <- asker

\* The queue never tries a job too often, shows each user where the request stands
\* and counts each retry; and of designs that look alike the staff was told.
QueueIsHonest ==
  /\ Queue!AttemptsBounded /\ Queue!ShownStatusAgrees /\ Queue!RetriesCounted
  /\ Vision!NoDuplicateMissed

\* No worker outlasts the threshold of the stuck pass, and retries come one at a time.
Unhurried == ~ Late /\ ~ Repeating

\* The property of that name that the run checks.
THEOREM QueueStaysHonest ==
  ASSUME Queue!Constants, Unhurried, Switches
  PROVE  Queue!Spec /\ Vision!Spec => []QueueIsHonest
<1>1. ~ Late /\ ~ Repeating
  BY DEF Unhurried
<1>2. Queue!Spec => []Queue!AttemptsBounded
  BY Queue!TriedWithinBound
<1>3. Queue!Spec => []Queue!ShownStatusAgrees
  BY <1>1, Queue!ShownAsItIs
<1>4. Queue!Spec => []Queue!RetriesCounted
  BY <1>1, Queue!EveryRetryCounted
<1>5. Vision!Spec => []Vision!NoDuplicateMissed
  BY NoDuplicateMissedForGood
<1>6. QED
  BY <1>2, <1>3, <1>4, <1>5, PTL DEF QueueIsHonest

-----------------------------------------------------------------------------
(***************************************************************************)
(* Listings that are paged through                                         *)
(***************************************************************************)

CONSTANTS Rows, Values, Null, PageSize, Wholly

VARIABLES rows, visible, walk

Pages == INSTANCE Listing WITH shown <- visible

\* Ids and values are compared as integers; NULL and the missing cursor are neither; and
\* the listings are those whose column is never NULL and is carried exactly.
Sorted ==
  /\ Wholly /\ Rows \subseteq Int /\ Values \subseteq Int /\ Values # {}
  /\ Null \notin Values /\ Null \notin [value : Values, id : Rows]

Cursor == [value : Values, id : Rows]

Walk == [at : {"paging", "done"}, listing : Pages!Exact, cursor : Cursor \cup {Null},
         listed : [Rows -> Nat], steady : SUBSET Rows]

\* What has been listed once lies behind the cursor, what was not lies ahead of it.
OnceSoFar(r) ==
  r \in visible /\ walk.listed[r] = IF Pages!Beyond(walk.listing, walk.cursor, r) THEN 0 ELSE 1

PagesInv ==
  /\ rows \in [Rows -> Values] /\ visible \subseteq Rows
  /\ walk # Pages!Idle => walk \in Walk
  /\ walk.at = "paging" => \A r \in walk.steady : OnceSoFar(r)
  /\ walk.at = "done" => \A r \in walk.steady : walk.listed[r] = 1

\* The listings whose column is exact have values in it.
LEMMA ExactColumns ==
  ASSUME NEW listing \in Pages!Exact
  PROVE  /\ Pages!Domain(listing) = Values /\ listing # Pages!Relevance
         /\ listing.ascending \in BOOLEAN
<1>1. \A column : Pages!By(column).by = column /\ Pages!By(column).ascending = FALSE
  BY DEF Pages!By
<1>2. /\ Pages!Items.by = "sort_order" /\ Pages!Items.ascending = TRUE
      /\ Pages!VerificationQueue.by = "submitted_at" /\ Pages!Relevance.by = "rank"
  BY <1>1 DEF Pages!Items, Pages!VerificationQueue, Pages!Relevance
<1>3. listing.ascending \in BOOLEAN /\ listing.by \notin {"submitted_at", "rank"}
  BY <1>1, <1>2
     DEF Pages!Exact, Pages!Latest, Pages!Trending, Pages!Mine, Pages!Directory, Pages!Saved,
         Pages!Collections, Pages!Messages, Pages!Conversations, Pages!Notifications,
         Pages!Generated, Pages!ModerationQueue, Pages!AuditEntries, Pages!ReviewQueue,
         Pages!DuplicateQueue
<1>4. QED
  BY <1>2, <1>3 DEF Pages!Domain

\* Where a row stands to the cursor depends on the row alone.
LEMMA BeyondOfRow ==
  ASSUME NEW listing, NEW cursor, NEW r, rows'[r] = rows[r]
  PROVE  Pages!Beyond(listing, cursor, r)' <=> Pages!Beyond(listing, cursor, r)
BY DEF Pages!Beyond, Pages!Less

\* When a page ends at a row, that row and those before it are behind the cursor, with
\* whatever was behind the last one, and those after it are ahead.
LEMMA CursorMoves ==
  ASSUME Sorted, PagesInv, NEW listing \in Pages!Exact, NEW old \in Cursor \cup {Null},
         NEW last \in Rows, Pages!Beyond(listing, old, last),
         NEW cursor \in Cursor, cursor.value = rows[last], cursor.id = last, NEW r \in Rows
  PROVE  /\ ~ Pages!Beyond(listing, old, r) => ~ Pages!Beyond(listing, cursor, r)
         /\ r = last \/ Pages!Before(listing, r, last) => ~ Pages!Beyond(listing, cursor, r)
         /\ Pages!Before(listing, last, r) => Pages!Beyond(listing, cursor, r)
<1>1. /\ rows[r] \in Int /\ rows[last] \in Int /\ r \in Int /\ last \in Int
      /\ rows[r] # Null /\ rows[last] # Null
  BY DEF Sorted, PagesInv
<1>2. /\ cursor # Null
      /\ old # Null => old \in Cursor /\ old.value \in Int /\ old.id \in Int
  BY DEF Sorted, Cursor
<1>3. listing.ascending \in BOOLEAN
  BY ExactColumns
<1>4. CASE listing.ascending
  BY <1>1, <1>2, <1>4 DEF Pages!Beyond, Pages!Before, Pages!Less
<1>5. CASE ~ listing.ascending
  BY <1>1, <1>2, <1>5 DEF Pages!Beyond, Pages!Before, Pages!Less
<1>6. QED
  BY <1>3, <1>4, <1>5

\* A walk begins before the first row.
LEMMA BeginPages ==
  ASSUME Sorted, PagesInv, Pages!Begin
  PROVE  PagesInv'
<1>1. PICK listing \in Pages!Exact :
        walk' = [at |-> "paging", listing |-> listing, cursor |-> Null,
                 listed |-> [r \in Rows |-> 0], steady |-> visible]
  BY DEF Pages!Begin, Sorted, Pages!Walked
<1>2. UNCHANGED <<rows, visible>>
  BY DEF Pages!Begin
<1>3. walk' \in Walk
  BY <1>1 DEF Walk, PagesInv
<1>4. \A r \in walk'.steady : OnceSoFar(r)'
  BY <1>1, <1>2 DEF OnceSoFar, Pages!Beyond, PagesInv
<1>5. QED
  BY <1>1, <1>2, <1>3, <1>4 DEF PagesInv

\* The next page ends at its last row, or the walk with it.
LEMMA TurnPage ==
  ASSUME Sorted, PagesInv, Pages!NextPage
  PROVE  PagesInv'
<1>1. PICK listing, old, found, steady :
        /\ listing = walk.listing /\ old = walk.cursor /\ found = Pages!Remaining(listing, old)
        /\ steady = walk.steady
  OBVIOUS
<1>2. walk.at = "paging" /\ UNCHANGED <<rows, visible>>
  BY DEF Pages!NextPage
<1>3. /\ walk \in Walk /\ listing \in Pages!Exact /\ old \in Cursor \cup {Null}
      /\ steady \subseteq Rows /\ walk.listed \in [Rows -> Nat]
  <2>1. walk # Pages!Idle
    BY <1>2 DEF Pages!Idle
  <2>2. walk \in Walk
    BY <2>1 DEF PagesInv
  <2>3. QED
    BY <1>1, <2>2 DEF Walk
<1>4. /\ found \subseteq Rows
      /\ \A r \in visible : r \in found <=> Pages!Beyond(listing, old, r)
      /\ \A r \in found : Pages!Beyond(listing, old, r)
  BY <1>1 DEF Pages!Remaining, PagesInv
<1>5. \A r \in steady : r \in visible /\ r \in Rows /\ walk.listed[r] = IF r \in found THEN 0 ELSE 1
  BY <1>1, <1>2, <1>3, <1>4 DEF PagesInv, OnceSoFar
<1>6. ASSUME NEW page \in SUBSET found
      PROVE  /\ Pages!Listed(page) \in [Rows -> Nat]
             /\ \A r \in steady : Pages!Listed(page)[r] = IF r \in found \ page THEN 0 ELSE 1
  BY <1>3, <1>4, <1>5 DEF Pages!Listed
<1>7. ASSUME NEW page \in SUBSET found, Pages!Leads(listing, page, found \ page),
             NEW last \in Pages!LastShown(listing, page, found \ page),
             NEW value \in Pages!CursorValues(listing, last),
             walk' = [walk EXCEPT !.listed = Pages!Listed(page),
                                  !.cursor = [value |-> value, id |-> last]]
      PROVE  PagesInv'
  <2>1. /\ last \in page /\ last \in Rows /\ Pages!Beyond(listing, old, last)
        /\ \A r \in page \ {last} : Pages!Before(listing, r, last)
        /\ \A r \in found \ page : Pages!Before(listing, last, r)
    BY <1>4, <1>7 DEF Pages!LastShown, Pages!Leads
  <2>2. value = rows[last] /\ value \in Values
    BY <1>3, <1>7, <2>1, ExactColumns DEF Pages!CursorValues, PagesInv, Sorted
  <2>3. PICK cursor \in Cursor : /\ cursor = [value |-> value, id |-> last]
                                 /\ cursor.value = rows[last] /\ cursor.id = last
    <3>1. [value |-> value, id |-> last] \in Cursor
      BY <2>1, <2>2 DEF Cursor
    <3>2. QED
      BY <2>2, <3>1
  <2>4. PICK next : next = Pages!Listed(page) /\ next \in [Rows -> Nat]
                    /\ \A r \in steady : next[r] = IF r \in found \ page THEN 0 ELSE 1
    BY <1>6, <1>7
  <2>5. /\ walk' \in Walk /\ walk'.at = "paging" /\ walk'.listing = listing
        /\ walk'.cursor = cursor /\ walk'.listed = next /\ walk'.steady = steady
    <3>1. walk' = [walk EXCEPT !.listed = next, !.cursor = cursor]
      BY <1>7, <2>3, <2>4
    <3>2. QED
      BY <1>1, <1>2, <1>3, <2>4, <3>1 DEF Walk
  <2>6. ASSUME NEW r \in steady
        PROVE  r \in found \ page <=> Pages!Beyond(listing, cursor, r)
    <3>1. r \in Rows /\ r \in visible
      BY <1>5
    <3>2. CASE r \notin found
      BY <1>3, <1>4, <2>1, <2>3, <3>1, <3>2, CursorMoves
    <3>3. CASE r \in page
      BY <1>3, <1>4, <2>1, <2>3, <3>1, <3>3, CursorMoves
    <3>4. CASE r \in found \ page
      BY <1>3, <1>4, <2>1, <2>3, <3>1, <3>4, CursorMoves
    <3>5. QED
      BY <3>2, <3>3, <3>4
  <2>7. \A r \in steady : OnceSoFar(r)'
    <3>1. TAKE r \in steady
    <3>2. r \in visible /\ next[r] = IF Pages!Beyond(listing, cursor, r) THEN 0 ELSE 1
      BY <1>5, <2>4, <2>6
    <3>3. Pages!Beyond(listing, cursor, r)' <=> Pages!Beyond(listing, cursor, r)
      BY <1>2, BeyondOfRow
    <3>4. QED
      BY <1>2, <2>5, <3>2, <3>3 DEF OnceSoFar
  <2>8. QED
    BY <1>2, <2>5, <2>7 DEF PagesInv
<1>8. CASE walk' = [walk EXCEPT !.at = "done", !.listed = Pages!Listed(found)]
  <2>1. PICK next : next = Pages!Listed(found) /\ next \in [Rows -> Nat]
                    /\ \A r \in steady : next[r] = 1
    BY <1>6
  <2>2. /\ walk' \in Walk /\ walk'.at = "done" /\ walk'.listed = next /\ walk'.steady = steady
    <3>1. walk' = [walk EXCEPT !.at = "done", !.listed = next]
      BY <1>8, <2>1
    <3>2. QED
      BY <1>1, <1>3, <2>1, <3>1 DEF Walk
  <2>3. QED
    BY <1>2, <2>1, <2>2 DEF PagesInv
<1>9. QED
  BY <1>1, <1>7, <1>8 DEF Pages!NextPage

\* Rows that come, go or change between two pages are not steady any more.
LEMMA RowMoves ==
  ASSUME Sorted, PagesInv, NEW r \in Rows, Pages!Insert(r) \/ Pages!Hide(r) \/ Pages!Change(r)
  PROVE  PagesInv'
<1>1. walk.at = "paging" => walk # Pages!Idle /\ walk \in Walk
  BY DEF PagesInv, Pages!Idle
<1>2. walk.at = "paging" => walk.listing \in Pages!Exact /\ walk.steady \subseteq visible
  BY <1>1 DEF Walk, PagesInv, OnceSoFar
<1>3. Pages!ColumnDomain = Values
  BY <1>2, ExactColumns DEF Pages!ColumnDomain
<1>4. /\ rows' \in [Rows -> Values] /\ visible' \subseteq Rows
      /\ \A q \in Rows : q # r => rows'[q] = rows[q] /\ (q \in visible => q \in visible')
  <2>1. CASE Pages!Insert(r)
    BY <1>3, <2>1 DEF Pages!Insert, PagesInv
  <2>2. CASE Pages!Hide(r)
    BY <2>2 DEF Pages!Hide, PagesInv
  <2>3. CASE Pages!Change(r)
    BY <1>3, <2>3 DEF Pages!Change, PagesInv
  <2>4. QED
    BY <2>1, <2>2, <2>3
<1>5. \/ walk' = walk /\ (walk.at = "paging" => r \notin walk.steady)
      \/ walk.at = "paging" /\ walk' = [walk EXCEPT !.steady = @ \ {r}]
  BY <1>2 DEF Pages!Insert, Pages!Hide, Pages!Change, Pages!Unsettle
<1>6. CASE walk' = walk /\ walk.at # "paging"
  BY <1>4, <1>6 DEF PagesInv, Walk, Pages!Idle
<1>7. CASE walk.at = "paging"
  <2>1. /\ walk' \in Walk /\ walk'.at = "paging" /\ walk'.listing = walk.listing
        /\ walk'.cursor = walk.cursor /\ walk'.listed = walk.listed
        /\ walk'.steady \subseteq walk.steady \ {r}
    BY <1>1, <1>5, <1>7 DEF Walk
  <2>2. ASSUME NEW q \in walk'.steady
        PROVE  OnceSoFar(q)'
    <3>1. q \in walk.steady /\ q # r /\ q \in Rows /\ OnceSoFar(q)
      BY <1>2, <1>7, <2>1 DEF PagesInv
    <3>2. rows'[q] = rows[q] /\ q \in visible'
      BY <1>4, <3>1 DEF OnceSoFar
    <3>3. PICK listing, cursor : listing = walk.listing /\ cursor = walk.cursor
      OBVIOUS
    <3>4. Pages!Beyond(listing, cursor, q)' <=> Pages!Beyond(listing, cursor, q)
      BY <3>2, BeyondOfRow
    <3>5. QED
      BY <2>1, <3>1, <3>2, <3>3, <3>4 DEF OnceSoFar
  <2>3. QED
    BY <1>4, <2>1, <2>2 DEF PagesInv
<1>8. QED
  BY <1>5, <1>6, <1>7

\* The next step of the client or of the others.
LEMMA PagesStep ==
  ASSUME Sorted, PagesInv, [Pages!Next]_(Pages!vars)
  PROVE  PagesInv'
<1>1. CASE Pages!Begin
  BY <1>1, BeginPages
<1>2. CASE Pages!NextPage
  BY <1>2, TurnPage
<1>3. CASE Pages!Leave
  <2>1. UNCHANGED <<rows, visible>> /\ walk' = Pages!Idle /\ walk'.at = "idle"
    BY <1>3 DEF Pages!Leave, Pages!Idle
  <2>2. QED
    BY <2>1 DEF PagesInv, Walk, Pages!Idle
<1>4. CASE \E r \in Rows : Pages!Insert(r) \/ Pages!Hide(r) \/ Pages!Change(r)
  BY <1>4, RowMoves
<1>5. CASE UNCHANGED Pages!vars
  BY <1>5 DEF Pages!vars, PagesInv, OnceSoFar, Pages!Beyond, Pages!Less, Pages!Idle, Walk
<1>6. QED
  BY <1>1, <1>2, <1>3, <1>4, <1>5 DEF Pages!Next

\* However rows come, go and change while a client pages through one of the listings
\* whose column is never NULL and is carried exactly (pagination.py): a row that stays as
\* it is throughout is listed once. PagesInv carries it: what was listed lies behind the
\* cursor, what was not lies ahead.
THEOREM ListedOnceForGood ==
  ASSUME Sorted
  PROVE  Pages!Spec => [](Pages!ListedOnce /\ Pages!NoneLeftOut)
<1>1. Pages!Init => PagesInv
  BY DEF Sorted, Pages!Init, PagesInv, Pages!Idle
<1>2. PagesInv /\ [Pages!Next]_(Pages!vars) => PagesInv'
  BY PagesStep
<1>3. PagesInv => Pages!ListedOnce /\ Pages!NoneLeftOut
  <2>1. ASSUME PagesInv, walk # Pages!Idle
        PROVE  \A r \in walk.steady : walk.listed[r] \in {0, 1}
    BY <2>1 DEF PagesInv, Walk, OnceSoFar
  <2>2. QED
    BY <2>1 DEF PagesInv, Walk, Pages!ListedOnce, Pages!NoneLeftOut, Pages!Idle
<1>4. QED
  BY <1>1, <1>2, <1>3, PTL DEF Pages!Spec
=============================================================================
