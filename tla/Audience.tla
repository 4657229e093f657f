------------------------------ MODULE Audience ------------------------------
(***************************************************************************)
(* The followers of an artist and the views of a design: unique rows and   *)
(* Redis keys beside counters (app/services/artist_directory.py,           *)
(* view_tracking.py, routes/artists.py, routes/designs.py).                *)
(*                                                                         *)
(* A request inserts or deletes the row of a user, which holds that row    *)
(* until it commits, and updates the counter in place.  A view first sets  *)
(* the user's key, if there is none, and counts only then.                 *)
(***************************************************************************)
EXTENDS Integers, FiniteSets

CONSTANTS
  Users, Sessions,
  MaxViews     \* bound

VARIABLES
  follows,     \* the users with a row in follows
  followers,   \* artist_profiles.follower_count
  blocked,     \* the users one of whom and the artist has blocked the other
  published,   \* whether the design can be seen
  key,         \* the users with a key design_view:... that has not expired
  views,       \* designs.view_count
  counted,     \* user -> the views counted for the key the user has
  session

vars == <<follows, followers, blocked, published, key, views, counted, session>>

Idle == [at |-> "idle"]

Init ==
  /\ follows = {} /\ followers = 0
  /\ blocked = {}
  /\ published = TRUE
  /\ key = {} /\ views = 0
  /\ counted = [u \in Users |-> 0]
  /\ session = [s \in Sessions |-> Idle]

Go(s, t) == session' = [session EXCEPT ![s] = t]

-----------------------------------------------------------------------------
(* Following *)

\* is_blocked_either_direction; unfollowing asks nothing.
Begin(s, op, u) ==
  /\ session[s] = Idle
  /\ op = "follow" => u \notin blocked
  /\ Go(s, [at |-> "begun", op |-> op, user |-> u])
  /\ UNCHANGED <<follows, followers, blocked, published, key, views, counted>>

\* The row of u is inserted or deleted by a session that has not committed: an insert
\* waits for it, a delete only if there is a row to delete.
Held(s, u) ==
  \E v \in Sessions \ {s} : /\ session[v].at = "written"
                            /\ session[v].change # 0
                            /\ session[v].user = u

\* Variant: the counter changes whether or not a row did.
AlwaysEffect(op, u) == IF op = "follow" THEN 1 ELSE -1

\* An insert that meets the unique key is undone to its savepoint, a delete may find
\* no row: neither changes the counter.
Effect(op, u) ==
  CASE op = "follow" /\ u \notin follows -> 1
    [] op = "unfollow" /\ u \in follows -> -1
    [] OTHER -> 0

Write(s) ==
  LET t == session[s] IN
  /\ t.at = "begun"
  /\ t.op = "follow" \/ t.user \in follows => ~ Held(s, t.user)
  /\ Go(s, [at |-> "written", op |-> t.op, user |-> t.user, change |-> Effect(t.op, t.user)])
  /\ UNCHANGED <<follows, followers, blocked, published, key, views, counted>>

CommitFollow(s) ==
  LET t == session[s] IN
  /\ t.at = "written"
  /\ follows' = CASE t.change = 1 -> follows \cup {t.user}
                  [] t.change = -1 -> follows \ {t.user}
                  [] OTHER -> follows
  /\ followers' = IF followers + t.change < 0 THEN followers ELSE followers + t.change
  /\ Go(s, Idle)
  /\ UNCHANGED <<blocked, published, key, views, counted>>

\* POST and DELETE /users/me/blocks: who follows stays a follower.
Block(u) ==
  /\ blocked' = IF u \in blocked THEN blocked \ {u} ELSE blocked \cup {u}
  /\ UNCHANGED <<follows, followers, published, key, views, counted, session>>

-----------------------------------------------------------------------------
(* Viewing *)

\* Variant: the key is set whether or not it is there.
AnyVisit(u) == TRUE

NewVisit(u) == u \notin key

\* POST /designs/{id}/view: SET NX; without an answer the view counts.
View(s, u) ==
  /\ session[s] = Idle
  /\ published
  /\ \/ /\ NewVisit(u)
        /\ key' = key \cup {u}
        /\ Go(s, [at |-> "viewing", user |-> u, keyed |-> TRUE])
     \/ /\ UNCHANGED key
        /\ Go(s, [at |-> "viewing", user |-> u, keyed |-> FALSE])
  /\ UNCHANGED <<follows, followers, blocked, published, views, counted>>

CommitView(s) ==
  LET t == session[s] IN
  /\ t.at = "viewing"
  /\ views < MaxViews
  /\ IF published
       THEN /\ views' = views + 1
            /\ counted' = [counted EXCEPT ![t.user] = IF t.keyed THEN @ + 1 ELSE @]
       ELSE UNCHANGED <<views, counted>>
  /\ Go(s, Idle)
  /\ UNCHANGED <<follows, followers, blocked, published, key>>

\* _DEDUP_TTL_SECONDS: half an hour later no request of that visit is under way.
Expire(u) ==
  /\ \A s \in Sessions : session[s].at = "viewing" => session[s].user # u
  /\ u \in key
  /\ key' = key \ {u}
  /\ counted' = [counted EXCEPT ![u] = 0]
  /\ UNCHANGED <<follows, followers, blocked, published, views, session>>

Publish ==
  /\ published' = ~ published
  /\ UNCHANGED <<follows, followers, blocked, key, views, counted, session>>

\* An error or a lost process; a key that was set stays.
Abort(s) ==
  /\ session[s] # Idle
  /\ Go(s, Idle)
  /\ UNCHANGED <<follows, followers, blocked, published, key, views, counted>>

Next ==
  \/ \E s \in Sessions, u \in Users :
       Begin(s, "follow", u) \/ Begin(s, "unfollow", u) \/ View(s, u)
  \/ \E s \in Sessions : Write(s) \/ CommitFollow(s) \/ CommitView(s) \/ Abort(s)
  \/ \E u \in Users : Block(u) \/ Expire(u)
  \/ Publish

Spec == Init /\ [][Next]_vars

-----------------------------------------------------------------------------

TypeOK ==
  /\ follows \subseteq Users /\ blocked \subseteq Users /\ key \subseteq Users
  /\ followers \in 0 .. Cardinality(Users)
  /\ views \in 0 .. MaxViews
  /\ \A s \in Sessions : session[s].at \in {"idle", "begun", "written", "viewing"}

\* The number of followers shown is the number of rows, however requests of one user
\* overlap, are repeated or are lost.
FollowersCounted == followers = Cardinality(follows)

\* Two requests of one visit never both count for the key that was set.
VisitCountedOnce == \A u \in Users : counted[u] <= 1
=============================================================================
