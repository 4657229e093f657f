----------------------------- MODULE Engagement -----------------------------
(***************************************************************************)
(* Likes, saves and collections of designs (app/services/                  *)
(* engagement.py, routes/engagement.py, routes/collections.py).            *)
(*                                                                         *)
(* A request checks (committed rows), then inserts, deletes or updates a   *)
(* row, which locks the row's key until the transaction ends and waits for *)
(* others' locks, and last updates the counter and commits.                *)
(***************************************************************************)
EXTENDS Integers, FiniteSets

CONSTANTS
  Users, Designs, Collections, Sessions, None,
  Names,          \* names of collections
  SavedDesigns    \* DEFAULT_COLLECTION_NAME, one of Names

VARIABLES
  published,    \* the designs anyone can see
  liked,        \* the table likes: pairs of user and design
  likeCount, saveCount,   \* counters of the designs
  collection,   \* the table collections
  items,        \* collection_items: the designs in each collection
  session

counters == <<likeCount, saveCount>>
vars == <<published, liked, counters, collection, items, session>>

Collection == [owner : Users \cup {None}, name : Names \cup {None}, default : BOOLEAN,
               deleted : BOOLEAN]

NoCollection == [owner |-> None, name |-> None, default |-> FALSE, deleted |-> FALSE]

Idle == [at |-> "idle"]

Init ==
  /\ published = Designs
  /\ liked = {}
  /\ likeCount = [d \in Designs |-> 0]
  /\ saveCount = [d \in Designs |-> 0]
  /\ collection = [c \in Collections |-> NoCollection]
  /\ items = [c \in Collections |-> {}]
  /\ session = [s \in Sessions |-> Idle]

-----------------------------------------------------------------------------

RowsOf(u) == {c \in Collections : collection[c].owner = u}

LiveOf(u) == {c \in RowsOf(u) : ~collection[c].deleted}

DefaultOf(u) == {c \in LiveOf(u) : collection[c].default}

Free == {c \in Collections : collection[c].owner = None}

\* What a session has locked: a like, an item, or the default collection of a user.
Locks(t) == IF t.at = "written" THEN t.keys ELSE {}

\* Variant: nothing makes an insert wait for another's.
Unwaited(s, keys) == TRUE

Lockable(s, keys) == \A v \in Sessions \ {s} : Locks(session[v]) \cap keys = {}

Go(s, t) == session' = [session EXCEPT ![s] = t]

Begin(s, t) ==
  /\ session[s] = Idle
  /\ Go(s, t)
  /\ UNCHANGED <<published, liked, counters, collection, items>>

\* An insert waits for whoever holds the key, a delete for whoever deletes the row;
\* a row nobody has committed is not there to be deleted.
Wrote(s, inserts, row, present) ==
  /\ inserts \/ present => Lockable(s, {row})
  /\ Go(s, [session[s] EXCEPT
       !.at = "written",
       !.keys = IF inserts = present THEN {} ELSE {row},
       !.effect = IF inserts = present THEN "none" ELSE IF inserts THEN "inserted" ELSE "deleted"])
  /\ UNCHANGED <<published, liked, counters, collection, items>>

Request(op, u, d, c) ==
  [at |-> "checked", op |-> op, user |-> u, design |-> d, coll |-> c,
   keys |-> {}, effect |-> "none"]

\* Only designs that are published can be liked or saved, and unliked or unsaved.
CheckDesign(s, op, u, d) ==
  /\ d \in published
  /\ Begin(s, Request(op, u, d, None))

\* Adding to a collection checks the design, removing from one does not.
CheckCollection(s, op, u, d, c) ==
  /\ c \in LiveOf(u)
  /\ op = "add" => d \in published
  /\ Begin(s, Request(op, u, d, c))

-----------------------------------------------------------------------------
(* Likes *)

WriteLike(s) ==
  LET t == session[s]  row == <<t.user, t.design>> IN
  /\ t.at = "checked" /\ t.op \in {"like", "unlike"}
  /\ Wrote(s, t.op = "like", row, row \in liked)

\* Variant: the request counts whether or not it changed a row.
AlwaysChanged(t) == IF t.op \in {"unlike", "unsave", "remove"} THEN -1 ELSE 1

Change(t) == CASE t.effect = "inserted" -> 1 [] t.effect = "deleted" -> -1 [] OTHER -> 0

\* The counter is updated in place, and not below zero.
Counted(count, t) == [count EXCEPT ![t.design] = IF @ + Change(t) < 0 THEN @ ELSE @ + Change(t)]

CommitLike(s) ==
  LET t == session[s]  key == <<t.user, t.design>> IN
  /\ t.at = "written" /\ t.op \in {"like", "unlike"}
  /\ liked' = CASE t.effect = "inserted" -> liked \cup {key}
                [] t.effect = "deleted" -> liked \ {key}
                [] OTHER -> liked
  /\ likeCount' = Counted(likeCount, t)
  /\ Go(s, Idle)
  /\ UNCHANGED <<published, saveCount, collection, items>>

-----------------------------------------------------------------------------
(* Saves and the items of collections *)

\* get_or_create_default_collection: the one there is, or a new one, if neither a
\* live nor a deleted collection of the user has its name.  The insert waits for
\* another's, and then finds it.
FindDefault(s) ==
  LET t == session[s] IN
  /\ t.at = "checked" /\ t.op = "save" /\ t.coll = None
  /\ Lockable(s, {<<"default", t.user>>})
  /\ \/ /\ \E c \in DefaultOf(t.user) : Go(s, [t EXCEPT !.coll = c])
        /\ UNCHANGED collection
     \/ /\ DefaultOf(t.user) = {}
        /\ \A c \in RowsOf(t.user) : collection[c].name # SavedDesigns
        /\ \E c \in Free :
             /\ \A v \in Sessions : session[v].at # "idle" => session[v].coll # c
             /\ Go(s, [t EXCEPT !.coll = c, !.keys = {<<"default", t.user>>}, !.at = "written",
                                !.effect = "inserted"])
        /\ UNCHANGED collection
  /\ UNCHANGED <<published, liked, counters, items>>

FindNoDefault(s) ==
  LET t == session[s] IN
  /\ t.at = "checked" /\ t.op = "unsave" /\ t.coll = None
  /\ IF DefaultOf(t.user) = {} THEN Go(s, Idle)
     ELSE \E c \in DefaultOf(t.user) : Go(s, [t EXCEPT !.coll = c])
  /\ UNCHANGED <<published, liked, counters, collection, items>>

WriteItem(s) ==
  LET t == session[s] IN
  \/ /\ t.at = "checked" /\ t.op \in {"save", "add"} /\ t.coll # None
     /\ Wrote(s, TRUE, <<t.coll, t.design>>, t.design \in items[t.coll])
  \/ /\ t.at = "checked" /\ t.op \in {"unsave", "remove"} /\ t.coll # None
     /\ Wrote(s, FALSE, <<t.coll, t.design>>, t.design \in items[t.coll])

\* Variant: an item of any collection counts as a save.
AnyCollection(row) == TRUE

CountsAsSave(row) == row.default

CommitItem(s) ==
  LET t == session[s]
      row == IF t.coll \in Free
             THEN [owner |-> t.user, name |-> SavedDesigns, default |-> TRUE, deleted |-> FALSE]
             ELSE collection[t.coll] IN
  /\ t.at = "written" /\ t.op \in {"save", "add", "unsave", "remove"}
  /\ collection' = [collection EXCEPT ![t.coll] = row]
  /\ items' = [items EXCEPT ![t.coll] =
       CASE t.effect = "inserted" -> @ \cup {t.design}
         [] t.effect = "deleted" -> @ \ {t.design}
         [] OTHER -> @]
  /\ saveCount' = IF CountsAsSave(row) THEN Counted(saveCount, t) ELSE saveCount
  /\ Go(s, Idle)
  /\ UNCHANGED <<published, liked, likeCount>>

-----------------------------------------------------------------------------
(* Collections *)

Taken(u, n) == \E c \in LiveOf(u) : collection[c].name = n

\* The unique key of the table knows deleted rows as well.
Refused(u, n) == \E c \in RowsOf(u) : collection[c].name = n

\* Another collection of the name may be about to be committed.
Waits(u, n) ==
  n = SavedDesigns /\ \E s \in Sessions : <<"default", u>> \in Locks(session[s])

CreateCollection(u, n) ==
  /\ ~Taken(u, n) /\ ~Refused(u, n) /\ ~Waits(u, n)
  /\ \E c \in Free :
       /\ \A v \in Sessions : session[v].at # "idle" => session[v].coll # c
       /\ collection' = [collection EXCEPT
            ![c] = [owner |-> u, name |-> n, default |-> FALSE, deleted |-> FALSE]]
  /\ UNCHANGED <<published, liked, counters, items, session>>

Rename(u, c, n) ==
  /\ c \in LiveOf(u) /\ collection[c].name # n
  /\ ~Taken(u, n) /\ ~Refused(u, n) /\ ~Waits(u, n)
  /\ collection' = [collection EXCEPT ![c].name = n]
  /\ UNCHANGED <<published, liked, counters, items, session>>

DeleteCollection(u, c) ==
  /\ c \in LiveOf(u) /\ ~collection[c].default
  /\ collection' = [collection EXCEPT ![c].deleted = TRUE]
  /\ UNCHANGED <<published, liked, counters, items, session>>

-----------------------------------------------------------------------------

Publish(d) ==
  /\ published' = IF d \in published THEN published \ {d} ELSE published \cup {d}
  /\ UNCHANGED <<liked, counters, collection, items, session>>

\* Refused, or the server is lost before the commit.
Abort(s) ==
  /\ session[s] # Idle
  /\ Go(s, Idle)
  /\ UNCHANGED <<published, liked, counters, collection, items>>

Next ==
  \/ \E s \in Sessions :
       \/ \E u \in Users, d \in Designs :
            \/ \E op \in {"like", "unlike", "save", "unsave"} : CheckDesign(s, op, u, d)
            \/ \E op \in {"add", "remove"}, c \in Collections : CheckCollection(s, op, u, d, c)
       \/ WriteLike(s) \/ CommitLike(s)
       \/ FindDefault(s) \/ FindNoDefault(s) \/ WriteItem(s) \/ CommitItem(s)
       \/ Abort(s)
  \/ \E u \in Users, c \in Collections :
       \/ DeleteCollection(u, c)
       \/ \E n \in Names : Rename(u, c, n)
  \/ \E u \in Users, n \in Names : CreateCollection(u, n)
  \/ \E d \in Designs : Publish(d)

Spec == Init /\ [][Next]_vars

-----------------------------------------------------------------------------

TypeOK ==
  /\ published \subseteq Designs
  /\ liked \subseteq Users \X Designs
  /\ likeCount \in [Designs -> Nat] /\ saveCount \in [Designs -> Nat]
  /\ collection \in [Collections -> Collection]
  /\ items \in [Collections -> SUBSET Designs]

\* A design has as many likes as users like it, whatever requests race.
LikesCounted == \A d \in Designs : likeCount[d] = Cardinality({u \in Users : <<u, d>> \in liked})

\* A design has as many saves as users keep it in their default collection, by
\* whichever of the two ways they put it there and took it out.
SavesCounted ==
  \A d \in Designs :
    saveCount[d] = Cardinality({c \in Collections : collection[c].default /\ d \in items[c]})

\* First saves that race make one default collection between them.
OneDefault == \A u \in Users : Cardinality(DefaultOf(u)) <= 1

\* A name that none of a user's collections has can be given to one.
NameIsFree == \A u \in Users, n \in Names : Refused(u, n) => Taken(u, n)
=============================================================================
