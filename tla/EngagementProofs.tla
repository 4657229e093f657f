-------------------------- MODULE EngagementProofs --------------------------
(***************************************************************************)
(* Theorems about Engagement.tla: whatever likes, saves and edits of       *)
(* collections run side by side or are broken off, the counters of a       *)
(* design count its likes and its saves, and a user has one default        *)
(* collection.                                                             *)
(***************************************************************************)
EXTENDS Engagement, FiniteSetTheorems, TLAPS

\* NULL is nobody's id, and the default collection's name is one.  The finite sets are
\* the rows there will ever be.
Constants ==
  /\ None \notin Users /\ None \notin Collections
  /\ SavedDesigns \in Names
  /\ IsFiniteSet(Users) /\ IsFiniteSet(Collections)

Ops == {"like", "unlike", "save", "unsave", "add", "remove"}

Keys == ((Users \cup Collections) \X Designs) \cup ({"default"} \X Users)

Requests == [at : {"checked", "written"}, op : Ops, user : Users, design : Designs,
             coll : Collections \cup {None}, keys : SUBSET Keys,
             effect : {"none", "inserted", "deleted"}]

Typed == TypeOK /\ session \in [Sessions -> {Idle} \cup Requests]

(***************************************************************************)
(* What a session relies on                                                *)
(***************************************************************************)

Likes(t) == t.at = "written" /\ t.op \in {"like", "unlike"}

Files(t) == t.at = "written" /\ t.op \in {"save", "unsave", "add", "remove"}

\* The row that a session writes is as it found it, and locked.
Holds(t, row, present) ==
  /\ t.effect = "inserted" => ~present /\ t.keys = {row}
  /\ t.effect = "deleted" => present /\ t.keys = {row}

LikeHeld(t) == Likes(t) => Holds(t, <<t.user, t.design>>, <<t.user, t.design>> \in liked)

\* A session makes a default collection that nobody else can see, for a user without one.
MakesDefault(s) ==
  LET t == session[s] IN
  /\ t.effect = "inserted" /\ t.keys = {<<"default", t.user>>}
  /\ DefaultOf(t.user) = {}
  /\ \A v \in Sessions \ {s} : session[v].at # "idle" => session[v].coll # t.coll

ItemHeld(s) ==
  LET t == session[s] IN
  /\ t.at = "checked" /\ t.coll # None => t.coll \notin Free
  /\ Files(t) =>
       /\ t.coll # None
       /\ IF t.coll \in Free THEN MakesDefault(s)
          ELSE Holds(t, <<t.coll, t.design>>, t.design \in items[t.coll])

Exclusive ==
  \A s, v \in Sessions : s # v => Locks(session[s]) \cap Locks(session[v]) = {}

\* A default collection is somebody's, is not deleted, and is the only one of its owner.
DefaultsApart ==
  /\ \A c \in Collections : collection[c].default =>
       collection[c].owner \in Users /\ ~collection[c].deleted
  /\ \A c, k \in Collections :
       collection[c].default /\ collection[k].default
         /\ collection[c].owner = collection[k].owner => c = k

FreeIsEmpty == \A c \in Free : items[c] = {}

CountInv ==
  /\ \A s \in Sessions : LikeHeld(session[s]) /\ ItemHeld(s)
  /\ Exclusive /\ DefaultsApart /\ FreeIsEmpty
  /\ LikesCounted /\ SavesCounted

(***************************************************************************)
(* Sessions                                                                *)
(***************************************************************************)

LEMMA Busy ==
  ASSUME NEW t \in {Idle} \cup Requests
  PROVE  /\ t.at # "idle" => t \in Requests
         /\ Idle.at = "idle"
BY DEF Idle

\* What a session goes on to is its own.
LEMMA Going ==
  ASSUME Typed, NEW s \in Sessions, NEW t, Go(s, t)
  PROVE  /\ session'[s] = t /\ \A v \in Sessions \ {s} : session'[v] = session[v]
         /\ t \in {Idle} \cup Requests => session' \in [Sessions -> {Idle} \cup Requests]
BY DEF Typed, Go

LEMMA RequestMade ==
  ASSUME NEW op \in Ops, NEW u \in Users, NEW d \in Designs, NEW c \in Collections \cup {None}
  PROVE  LET t == Request(op, u, d, c) IN
         /\ t \in Requests /\ t.at = "checked" /\ t.coll = c
BY DEF Request, Requests

\* What a session has written, it holds, and it waited for the lock.
Writes(s, n, row) ==
  LET t == session[s] IN
  /\ Go(s, n) /\ n.at = "written"
  /\ n.op = t.op /\ n.user = t.user /\ n.design = t.design /\ n.coll = t.coll
  /\ Locks(n) \subseteq {row} /\ (Locks(n) # {} => Lockable(s, {row}))

WrittenAs(t, keys, effect) == [t EXCEPT !.at = "written", !.keys = keys, !.effect = effect]

Takes(s, t, row, keys, effect) ==
  /\ t = session[s] /\ t \in Requests /\ row \in Keys
  /\ keys \in {{}, {row}} /\ effect \in {"none", "inserted", "deleted"}
  /\ keys # {} => Lockable(s, {row})
  /\ Go(s, WrittenAs(t, keys, effect))

LEMMA Written ==
  ASSUME NEW s \in Sessions, NEW t, NEW row, NEW keys, NEW effect,
         Takes(s, t, row, keys, effect)
  PROVE  \E n \in Requests : Writes(s, n, row) /\ n.keys = keys /\ n.effect = effect
<1>1. PICK n : n = WrittenAs(t, keys, effect)
  OBVIOUS
<1>2. t \in Requests /\ keys \in SUBSET Keys /\ effect \in {"none", "inserted", "deleted"}
  BY DEF Takes
<1>3. /\ n \in Requests /\ n.at = "written" /\ n.keys = keys /\ n.effect = effect
      /\ n.op = t.op /\ n.user = t.user /\ n.design = t.design /\ n.coll = t.coll
  BY <1>1, <1>2 DEF Requests, WrittenAs
<1>4. QED
  BY <1>1, <1>3 DEF Takes, Writes, Locks

LEMMA LikeWritten ==
  ASSUME Typed, NEW s \in Sessions, WriteLike(s)
  PROVE  LET t == session[s]  row == <<t.user, t.design>> IN
         /\ t \in Requests /\ t.at = "checked" /\ t.op \in {"like", "unlike"}
         /\ \E n \in Requests : Writes(s, n, row) /\ Holds(n, row, row \in liked)
<1>1. PICK t, row : t = session[s] /\ row = <<t.user, t.design>>
  OBVIOUS
<1>2. /\ t \in Requests /\ t.at = "checked" /\ t.op \in {"like", "unlike"}
  BY <1>1, Busy DEF WriteLike, Typed
<1>3. row \in Keys
  BY <1>1, <1>2 DEF Requests, Keys
<1>4. PICK keys, effect :
        /\ keys = (IF (t.op = "like") = (row \in liked) THEN {} ELSE {row})
        /\ effect = IF (t.op = "like") = (row \in liked) THEN "none"
                    ELSE IF t.op = "like" THEN "inserted" ELSE "deleted"
  OBVIOUS
<1>5. /\ Go(s, WrittenAs(t, keys, effect))
      /\ t.op = "like" \/ row \in liked => Lockable(s, {row})
  BY <1>1, <1>4 DEF WriteLike, Wrote, WrittenAs
<1>6. /\ keys \in {{}, {row}} /\ effect \in {"none", "inserted", "deleted"}
      /\ keys # {} => Lockable(s, {row})
      /\ effect = "inserted" => row \notin liked /\ keys = {row}
      /\ effect = "deleted" => row \in liked /\ keys = {row}
  BY <1>4, <1>5
<1>7. PICK n \in Requests : Writes(s, n, row) /\ n.keys = keys /\ n.effect = effect
  <2>1. Takes(s, t, row, keys, effect)
    BY <1>1, <1>2, <1>3, <1>5, <1>6 DEF Takes
  <2>2. QED
    BY <2>1, Written
<1>8. Holds(n, row, row \in liked)
  BY <1>6, <1>7 DEF Holds
<1>9. QED
  BY <1>1, <1>2, <1>7, <1>8

LEMMA ItemWritten ==
  ASSUME Typed, NEW s \in Sessions, WriteItem(s)
  PROVE  LET t == session[s]  row == <<t.coll, t.design>> IN
         /\ t \in Requests /\ t.at = "checked" /\ t.coll # None
         /\ t.op \in {"save", "unsave", "add", "remove"}
         /\ \E n \in Requests : Writes(s, n, row) /\ Holds(n, row, t.design \in items[t.coll])
<1>1. PICK t, row : t = session[s] /\ row = <<t.coll, t.design>>
  OBVIOUS
<1>2. /\ t \in Requests /\ t.at = "checked" /\ t.coll # None
      /\ t.op \in {"save", "unsave", "add", "remove"}
  BY <1>1, Busy DEF WriteItem, Typed
<1>3. row \in Keys
  BY <1>1, <1>2 DEF Requests, Keys
<1>4. \E keys, effect :
        /\ Takes(s, t, row, keys, effect)
        /\ effect = "inserted" => t.design \notin items[t.coll] /\ keys = {row}
        /\ effect = "deleted" => t.design \in items[t.coll] /\ keys = {row}
  <2>1. CASE Wrote(s, TRUE, row, t.design \in items[t.coll])
    <3>1. CASE t.design \in items[t.coll]
      <4>1. Takes(s, t, row, {}, "none")
        BY <1>1, <1>2, <1>3, <2>1, <3>1 DEF Takes, Wrote, WrittenAs
      <4>2. QED
        BY <4>1
    <3>2. CASE t.design \notin items[t.coll]
      <4>1. Takes(s, t, row, {row}, "inserted")
        BY <1>1, <1>2, <1>3, <2>1, <3>2 DEF Takes, Wrote, WrittenAs
      <4>2. QED
        BY <3>2, <4>1
    <3>3. QED
      BY <3>1, <3>2
  <2>2. CASE Wrote(s, FALSE, row, t.design \in items[t.coll])
    <3>1. CASE t.design \in items[t.coll]
      <4>1. Takes(s, t, row, {row}, "deleted")
        BY <1>1, <1>2, <1>3, <2>2, <3>1 DEF Takes, Wrote, WrittenAs
      <4>2. QED
        BY <3>1, <4>1
    <3>2. CASE t.design \notin items[t.coll]
      <4>1. Takes(s, t, row, {}, "none")
        BY <1>1, <1>2, <1>3, <2>2, <3>2 DEF Takes, Wrote, WrittenAs
      <4>2. QED
        BY <4>1
    <3>3. QED
      BY <3>1, <3>2
  <2>3. QED
    BY <1>1, <2>1, <2>2 DEF WriteItem
<1>5. PICK keys, effect :
        /\ Takes(s, t, row, keys, effect)
        /\ effect = "inserted" => t.design \notin items[t.coll] /\ keys = {row}
        /\ effect = "deleted" => t.design \in items[t.coll] /\ keys = {row}
  BY <1>4
<1>6. PICK n \in Requests : Writes(s, n, row) /\ n.keys = keys /\ n.effect = effect
  BY <1>5, Written
<1>7. Holds(n, row, t.design \in items[t.coll])
  BY <1>5, <1>6 DEF Holds
<1>8. QED
  BY <1>1, <1>2, <1>6, <1>7

(***************************************************************************)
(* Types                                                                   *)
(***************************************************************************)

LEMMA CountedTyped ==
  ASSUME NEW count \in [Designs -> Nat], NEW t \in Requests
  PROVE  Counted(count, t) \in [Designs -> Nat]
<1>1. Change(t) \in Int
  BY DEF Change
<1>2. PICK n : n = IF count[t.design] + Change(t) < 0 THEN count[t.design]
                  ELSE count[t.design] + Change(t)
  OBVIOUS
<1>3. n \in Nat
  BY <1>1, <1>2 DEF Requests
<1>4. Counted(count, t) = [count EXCEPT ![t.design] = n]
  BY <1>2 DEF Counted, Requests
<1>5. QED
  BY <1>3, <1>4

\* A new row, and a collection that is free.
LEMMA FreeCollections ==
  ASSUME Constants, Typed
  PROVE  /\ Free \subseteq Collections /\ None \notin Free
         /\ \A u \in Users : LiveOf(u) \subseteq Collections \ Free
         /\ \A u \in Users : DefaultOf(u) \subseteq Collections \ Free
BY DEF Constants, Free, LiveOf, RowsOf, DefaultOf

LEMMA TypedSteps ==
  ASSUME Constants, Typed, NEW s \in Sessions, NEW t \in {Idle} \cup Requests, Go(s, t),
         UNCHANGED <<liked, counters, items>>, published' \subseteq Designs,
         collection' \in [Collections -> Collection]
  PROVE  Typed'
BY Going DEF Typed, TypeOK, counters

LEMMA FindTyped ==
  ASSUME Constants, Typed, NEW s \in Sessions
  PROVE  /\ FindDefault(s) => \E n \in Requests : Go(s, n)
         /\ FindNoDefault(s) => \E n \in {Idle} \cup Requests : Go(s, n)
<1>1. PICK t : t = session[s]
  OBVIOUS
<1>2. t \in {Idle} \cup Requests
  BY <1>1 DEF Typed
<1>3. ASSUME t \in Requests, NEW c \in Collections
      PROVE  /\ [t EXCEPT !.coll = c] \in Requests
             /\ [t EXCEPT !.coll = c, !.keys = {<<"default", t.user>>}, !.at = "written",
                          !.effect = "inserted"] \in Requests
  <2>1. PICK keys : keys = {<<"default", t.user>>}
    OBVIOUS
  <2>2. keys \in SUBSET Keys
    BY <1>3, <2>1 DEF Requests, Keys
  <2>3. [t EXCEPT !.coll = c, !.keys = keys, !.at = "written", !.effect = "inserted"] \in Requests
    BY <1>3, <2>2 DEF Requests
  <2>4. QED
    BY <1>3, <2>1, <2>3 DEF Requests
<1>4. ASSUME FindDefault(s)
      PROVE  \E n \in Requests : Go(s, n)
  <2>1. t \in Requests /\ t.user \in Users
    BY <1>1, <1>2, <1>4, Busy DEF FindDefault, Requests
  <2>2. DefaultOf(t.user) \subseteq Collections /\ Free \subseteq Collections
    BY <2>1, FreeCollections
  <2>3. \/ \E c \in DefaultOf(t.user) : Go(s, [t EXCEPT !.coll = c])
        \/ \E c \in Free :
             Go(s, [t EXCEPT !.coll = c, !.keys = {<<"default", t.user>>}, !.at = "written",
                             !.effect = "inserted"])
    BY <1>1, <1>4 DEF FindDefault
  <2>4. QED
    BY <1>3, <2>1, <2>2, <2>3
<1>5. ASSUME FindNoDefault(s)
      PROVE  \E n \in {Idle} \cup Requests : Go(s, n)
  <2>1. t \in Requests /\ t.user \in Users
    BY <1>1, <1>2, <1>5, Busy DEF FindNoDefault, Requests
  <2>2. DefaultOf(t.user) \subseteq Collections
    BY <2>1, FreeCollections
  <2>3. Go(s, Idle) \/ \E c \in DefaultOf(t.user) : Go(s, [t EXCEPT !.coll = c])
    BY <1>1, <1>5 DEF FindNoDefault
  <2>4. QED
    BY <1>3, <2>1, <2>2, <2>3
<1>6. QED
  BY <1>4, <1>5

\* What is committed.
LEMMA CommitTyped ==
  ASSUME Constants, Typed, NEW s \in Sessions, ItemHeld(s)
  PROVE  CommitLike(s) \/ CommitItem(s) => Typed'
<1>1. PICK t : t = session[s]
  OBVIOUS
<1>2. t \in {Idle} \cup Requests
  BY <1>1 DEF Typed
<1>3. ASSUME CommitLike(s)
      PROVE  Typed'
  <2>1. t \in Requests
    BY <1>1, <1>2, <1>3, Busy DEF CommitLike
  <2>2. liked' \subseteq Users \X Designs
    <3>1. t.user \in Users /\ t.design \in Designs
      BY <2>1 DEF Requests
    <3>2. liked' \in {liked, liked \cup {<<t.user, t.design>>}, liked \ {<<t.user, t.design>>}}
      BY <1>1, <1>3 DEF CommitLike
    <3>3. QED
      BY <3>1, <3>2 DEF Typed, TypeOK
  <2>3. likeCount' \in [Designs -> Nat]
    BY <1>1, <1>3, <2>1, CountedTyped DEF CommitLike, Typed, TypeOK
  <2>4. session' \in [Sessions -> {Idle} \cup Requests]
    BY <1>3, Going DEF CommitLike
  <2>5. QED
    BY <1>3, <2>2, <2>3, <2>4 DEF CommitLike, Typed, TypeOK
<1>4. ASSUME CommitItem(s)
      PROVE  Typed'
  <2>1. t \in Requests /\ Files(t) /\ t.coll # None
    BY <1>1, <1>2, <1>4, Busy DEF CommitItem, Files, ItemHeld
  <2>2. t.coll \in Collections /\ t.user \in Users /\ t.design \in Designs
    BY <2>1 DEF Requests
  <2>3. PICK row, set :
          /\ row = IF t.coll \in Free
                   THEN [owner |-> t.user, name |-> SavedDesigns, default |-> TRUE, deleted |-> FALSE]
                   ELSE collection[t.coll]
          /\ set = CASE t.effect = "inserted" -> items[t.coll] \cup {t.design}
                     [] t.effect = "deleted" -> items[t.coll] \ {t.design}
                     [] OTHER -> items[t.coll]
    OBVIOUS
  <2>4. row \in Collection /\ set \in SUBSET Designs
    BY <2>2, <2>3 DEF Constants, Collection, Typed, TypeOK
  <2>5. /\ collection' = [collection EXCEPT ![t.coll] = row]
        /\ items' = [items EXCEPT ![t.coll] = set]
        /\ saveCount' \in {saveCount, Counted(saveCount, t)}
        /\ Go(s, Idle) /\ UNCHANGED <<published, liked, likeCount>>
    BY <1>1, <1>4, <2>2, <2>3 DEF CommitItem, Typed, TypeOK
  <2>6. saveCount' \in [Designs -> Nat]
    BY <2>1, <2>5, CountedTyped DEF Typed, TypeOK
  <2>7. session' \in [Sessions -> {Idle} \cup Requests]
    BY <2>5, Going
  <2>8. QED
    BY <2>4, <2>5, <2>6, <2>7 DEF Typed, TypeOK
<1>5. QED
  BY <1>3, <1>4

LEMMA TablesTyped ==
  ASSUME Constants, Typed,
         \/ \E u \in Users, c \in Collections :
              DeleteCollection(u, c) \/ \E n \in Names : Rename(u, c, n)
         \/ \E u \in Users, n \in Names : CreateCollection(u, n)
         \/ \E d \in Designs : Publish(d)
  PROVE  Typed'
<1>1. ASSUME NEW c \in Collections, NEW row \in Collection,
             collection' = [collection EXCEPT ![c] = row],
             UNCHANGED <<published, liked, counters, items, session>>
      PROVE  Typed'
  BY <1>1 DEF Typed, TypeOK, counters
<1>2. ASSUME NEW u \in Users, NEW c \in Collections, DeleteCollection(u, c)
      PROVE  Typed'
  <2>1. PICK row : row = [collection[c] EXCEPT !.deleted = TRUE]
    OBVIOUS
  <2>2. row \in Collection /\ collection' = [collection EXCEPT ![c] = row]
    BY <1>2, <2>1 DEF DeleteCollection, Typed, TypeOK, Collection
  <2>3. QED
    BY <1>1, <1>2, <2>2 DEF DeleteCollection
<1>3. ASSUME NEW u \in Users, NEW c \in Collections, NEW n \in Names, Rename(u, c, n)
      PROVE  Typed'
  <2>1. PICK row : row = [collection[c] EXCEPT !.name = n]
    OBVIOUS
  <2>2. row \in Collection /\ collection' = [collection EXCEPT ![c] = row]
    BY <1>3, <2>1 DEF Rename, Typed, TypeOK, Collection
  <2>3. QED
    BY <1>1, <1>3, <2>2 DEF Rename
<1>4. ASSUME NEW u \in Users, NEW n \in Names, CreateCollection(u, n)
      PROVE  Typed'
  <2>1. PICK row : row = [owner |-> u, name |-> n, default |-> FALSE, deleted |-> FALSE]
    OBVIOUS
  <2>2. row \in Collection
    BY <2>1 DEF Collection
  <2>3. PICK c \in Collections : collection' = [collection EXCEPT ![c] = row]
    BY <1>4, <2>1 DEF CreateCollection, Free
  <2>4. QED
    BY <1>1, <1>4, <2>2, <2>3 DEF CreateCollection
<1>5. ASSUME NEW d \in Designs, Publish(d)
      PROVE  Typed'
  BY <1>5 DEF Publish, Typed, TypeOK, counters
<1>6. QED
  BY <1>2, <1>3, <1>4, <1>5

LEMMA TypedStep ==
  ASSUME Constants, Typed, \A s \in Sessions : ItemHeld(s), [Next]_vars
  PROVE  Typed'
<1>1. ASSUME NEW s \in Sessions, NEW t \in {Idle} \cup Requests, Go(s, t),
             UNCHANGED <<published, liked, counters, collection, items>>
      PROVE  Typed'
  BY <1>1, TypedSteps DEF Typed, TypeOK
<1>2. ASSUME NEW s \in Sessions, NEW u \in Users, NEW d \in Designs,
             \/ \E op \in {"like", "unlike", "save", "unsave"} : CheckDesign(s, op, u, d)
             \/ \E op \in {"add", "remove"}, c \in Collections : CheckCollection(s, op, u, d, c)
      PROVE  Typed'
  <2>1. ASSUME NEW op \in Ops, NEW c \in Collections \cup {None}, Begin(s, Request(op, u, d, c))
        PROVE  Typed'
    BY <1>1, <2>1, RequestMade DEF Begin
  <2>2. QED
    BY <1>2, <2>1 DEF CheckDesign, CheckCollection, Ops
<1>3. ASSUME NEW s \in Sessions, WriteLike(s) \/ WriteItem(s)
      PROVE  Typed'
  <2>1. UNCHANGED <<published, liked, counters, collection, items>>
    BY <1>3 DEF WriteLike, WriteItem, Wrote
  <2>2. QED
    BY <1>1, <1>3, <2>1, LikeWritten, ItemWritten DEF Writes
<1>4. ASSUME NEW s \in Sessions, FindDefault(s) \/ FindNoDefault(s)
      PROVE  Typed'
  <2>1. UNCHANGED <<published, liked, counters, collection, items>>
    BY <1>4 DEF FindDefault, FindNoDefault
  <2>2. QED
    BY <1>1, <1>4, <2>1, FindTyped
<1>5. ASSUME NEW s \in Sessions, Abort(s)
      PROVE  Typed'
  BY <1>1, <1>5 DEF Abort
<1>6. CASE UNCHANGED vars
  BY <1>6 DEF vars, Typed, TypeOK, counters
<1>7. QED
  BY <1>2, <1>3, <1>4, <1>5, <1>6, CommitTyped, TablesTyped DEF Next

(***************************************************************************)
(* A session reads, writes or gives up                                     *)
(***************************************************************************)

\* No other session has the collection in hand.
Unseen(s, c) == \A v \in Sessions \ {s} : session[v].at # "idle" => session[v].coll # c

\* Nobody is disturbed by a session that holds no other's lock and sees no other's
\* unfinished collection.
LEMMA SessionMoves ==
  ASSUME Typed, CountInv, NEW s \in Sessions, NEW t, Go(s, t),
         UNCHANGED <<liked, counters, collection, items>>,
         LikeHeld(t), ItemHeld(s)',
         \A v \in Sessions \ {s} : Locks(session[v]) \cap Locks(t) = {},
         t.at # "idle" => t.coll \notin Free \/ Unseen(s, t.coll)
  PROVE  CountInv'
<1>1. session'[s] = t /\ \A v \in Sessions \ {s} : session'[v] = session[v]
  BY Going
<1>2. Free' = Free /\ \A u : DefaultOf(u)' = DefaultOf(u)
  BY DEF Free, DefaultOf, LiveOf, RowsOf
<1>3. \A v \in Sessions : LikeHeld(session[v])'
  <2>1. \A v \in Sessions : LikeHeld(session'[v])
    BY <1>1 DEF CountInv
  <2>2. QED
    BY <2>1 DEF LikeHeld, Likes, Holds
<1>4. ASSUME NEW v \in Sessions \ {s}
      PROVE  ItemHeld(v)'
  <2>1. ItemHeld(v) /\ session'[v] = session[v]
    BY <1>1 DEF CountInv
  <2>2. ASSUME MakesDefault(v), session[v].coll \in Free, session[v].at # "idle"
        PROVE  MakesDefault(v)'
    <3>1. ASSUME NEW w \in Sessions \ {v}, session'[w].at # "idle"
          PROVE  session'[w].coll # session'[v].coll
      <4>1. CASE w = s
        BY <1>1, <2>1, <2>2, <3>1, <4>1 DEF Unseen
      <4>2. CASE w # s
        BY <1>1, <2>1, <2>2, <3>1, <4>2 DEF MakesDefault
      <4>3. QED
        BY <4>1, <4>2
    <3>2. QED
      BY <1>2, <2>1, <2>2, <3>1 DEF MakesDefault
  <2>3. QED
    BY <1>2, <2>1, <2>2 DEF ItemHeld, Files, Holds
<1>5. Exclusive'
  BY <1>1 DEF CountInv, Exclusive, Locks
<1>6. DefaultsApart' /\ FreeIsEmpty' /\ LikesCounted' /\ SavesCounted'
  BY <1>2 DEF CountInv, DefaultsApart, FreeIsEmpty, LikesCounted, SavesCounted, counters
<1>7. QED
  BY <1>3, <1>4, <1>5, <1>6 DEF CountInv

LEMMA IdleHolds ==
  ASSUME NEW s \in Sessions, session'[s].at # "written",
         session'[s].at = "checked" /\ session'[s].coll # None => session'[s].coll \notin Free'
  PROVE  LikeHeld(session'[s]) /\ ItemHeld(s)' /\ Locks(session'[s]) = {}
BY DEF LikeHeld, Likes, ItemHeld, Files, Locks

\* A request that begins, or that knows its collection, holds nothing.
LEMMA CheckCounts ==
  ASSUME Constants, Typed, CountInv, NEW s \in Sessions, NEW t \in {Idle} \cup Requests,
         Go(s, t), UNCHANGED <<liked, counters, collection, items>>,
         t.at # "written", t.at # "idle" => t.coll \notin Free
  PROVE  CountInv'
<1>1. session'[s] = t
  BY Going
<1>2. Free' = Free
  BY DEF Free
<1>3. LikeHeld(t) /\ ItemHeld(s)' /\ Locks(t) = {}
  BY <1>1, <1>2, IdleHolds
<1>4. QED
  BY <1>3, SessionMoves

LEMMA WriteCounts ==
  ASSUME Constants, Typed, CountInv, NEW s \in Sessions, WriteLike(s) \/ WriteItem(s)
  PROVE  CountInv'
<1>1. PICK t : t = session[s]
  OBVIOUS
<1>2. UNCHANGED <<liked, counters, collection, items>>
  BY DEF WriteLike, WriteItem, Wrote
<1>3. Free' = Free /\ None \notin Free
  BY <1>2, FreeCollections DEF Free
<1>4. ASSUME NEW n \in Requests, NEW row, Writes(s, n, row), LikeHeld(n), ItemHeld(s)',
             t.at = "checked"
      PROVE  CountInv'
  <2>1. \A v \in Sessions \ {s} : Locks(session[v]) \cap Locks(n) = {}
    BY <1>4 DEF Writes, Lockable
  <2>2. n.coll \notin Free
    BY <1>1, <1>3, <1>4 DEF Writes, CountInv, ItemHeld
  <2>3. QED
    BY <1>2, <1>4, <2>1, <2>2, SessionMoves DEF Writes
<1>5. CASE WriteLike(s)
  <2>1. PICK row : row = <<t.user, t.design>>
    OBVIOUS
  <2>2. PICK n \in Requests :
          /\ Writes(s, n, row) /\ Holds(n, row, row \in liked)
          /\ t.at = "checked" /\ t.op \in {"like", "unlike"}
    BY <1>1, <1>5, <2>1, LikeWritten
  <2>3. n.user = t.user /\ n.design = t.design /\ n.op = t.op /\ session'[s] = n
    BY <1>1, <2>2, Going DEF Writes
  <2>4. LikeHeld(n)
    BY <2>1, <2>2, <2>3 DEF LikeHeld
  <2>5. ItemHeld(s)'
    BY <2>2, <2>3 DEF ItemHeld, Files, Writes
  <2>6. QED
    BY <1>4, <2>2, <2>4, <2>5
<1>6. CASE WriteItem(s)
  <2>1. PICK row : row = <<t.coll, t.design>>
    OBVIOUS
  <2>2. PICK n \in Requests :
          /\ Writes(s, n, row) /\ Holds(n, row, t.design \in items[t.coll])
          /\ t.at = "checked" /\ t.coll # None /\ t.op \in {"save", "unsave", "add", "remove"}
    BY <1>1, <1>6, <2>1, ItemWritten
  <2>3. /\ n.coll = t.coll /\ n.design = t.design /\ n.op = t.op /\ n.at = "written"
        /\ session'[s] = n
    BY <1>1, <2>2, Going DEF Writes
  <2>4. LikeHeld(n)
    BY <2>2, <2>3 DEF LikeHeld, Likes
  <2>5. t.coll \notin Free
    BY <1>1, <2>2 DEF CountInv, ItemHeld
  <2>6. ItemHeld(s)'
    BY <1>2, <1>3, <2>1, <2>2, <2>3, <2>5 DEF ItemHeld, Holds
  <2>7. QED
    BY <1>4, <2>2, <2>4, <2>6
<1>7. QED
  BY <1>5, <1>6

\* A default collection is found, or made in secret for a user whose lock is held.
LEMMA FindCounts ==
  ASSUME Constants, Typed, CountInv, NEW s \in Sessions, FindDefault(s) \/ FindNoDefault(s)
  PROVE  CountInv'
<1>1. PICK t : t = session[s]
  OBVIOUS
<1>2. /\ t \in Requests /\ t.at = "checked" /\ t.op \in {"save", "unsave"} /\ t.user \in Users
      /\ UNCHANGED <<liked, counters, collection, items>>
  <2>1. t.at = "checked" /\ t.op \in {"save", "unsave"}
        /\ UNCHANGED <<liked, counters, collection, items>>
    BY <1>1 DEF FindDefault, FindNoDefault
  <2>2. QED
    BY <1>1, <2>1, Busy DEF Typed, Requests
<1>3. DefaultOf(t.user) \subseteq Collections \ Free
  BY <1>2, FreeCollections
<1>4. ASSUME NEW c \in DefaultOf(t.user), Go(s, [t EXCEPT !.coll = c])
      PROVE  CountInv'
  <2>1. PICK n : n = [t EXCEPT !.coll = c]
    OBVIOUS
  <2>2. n \in Requests /\ n.at = "checked" /\ n.coll = c
    BY <1>2, <1>3, <2>1 DEF Requests
  <2>3. Go(s, n) /\ c \notin Free
    BY <1>3, <1>4, <2>1
  <2>4. QED
    BY <1>2, <2>2, <2>3, CheckCounts
<1>5. CASE Go(s, Idle)
  BY <1>2, <1>5, CheckCounts DEF Idle
<1>6. ASSUME NEW c \in Free, DefaultOf(t.user) = {}, t.op = "save",
             Lockable(s, {<<"default", t.user>>}),
             \A v \in Sessions : session[v].at # "idle" => session[v].coll # c,
             Go(s, [t EXCEPT !.coll = c, !.keys = {<<"default", t.user>>}, !.at = "written",
                             !.effect = "inserted"])
      PROVE  CountInv'
  <2>1. PICK key, n :
          /\ key = <<"default", t.user>>
          /\ n = [t EXCEPT !.coll = c, !.keys = {key}, !.at = "written", !.effect = "inserted"]
    OBVIOUS
  <2>2. /\ n.at = "written" /\ n.coll = c /\ n.keys = {key} /\ n.effect = "inserted"
        /\ n.op = "save" /\ n.user = t.user
    BY <1>2, <1>6, <2>1 DEF Requests
  <2>3. Go(s, n)
    BY <1>6, <2>1
  <2>4. session'[s] = n /\ \A v \in Sessions \ {s} : session'[v] = session[v]
    BY <2>3, Going
  <2>5. LikeHeld(n) /\ Locks(n) = {key}
    BY <2>2 DEF LikeHeld, Likes, Locks
  <2>6. Unseen(s, c) /\ Lockable(s, {key}) /\ c # None
    BY <1>6, <2>1, FreeCollections DEF Unseen
  <2>7. Free' = Free /\ DefaultOf(t.user)' = {}
    BY <1>2, <1>6 DEF Free, DefaultOf, LiveOf, RowsOf
  <2>8. MakesDefault(s)'
    BY <2>1, <2>2, <2>4, <2>6, <2>7 DEF MakesDefault, Unseen
  <2>9. ItemHeld(s)'
    BY <1>6, <2>2, <2>4, <2>6, <2>7, <2>8 DEF ItemHeld
  <2>10. \A v \in Sessions \ {s} : Locks(session[v]) \cap Locks(n) = {}
    BY <2>5, <2>6 DEF Lockable
  <2>11. QED
    BY <1>2, <2>2, <2>3, <2>5, <2>6, <2>9, <2>10, SessionMoves
<1>7. CASE FindDefault(s)
  <2>1. /\ t.op = "save" /\ Lockable(s, {<<"default", t.user>>})
        /\ \/ \E c \in DefaultOf(t.user) : Go(s, [t EXCEPT !.coll = c])
           \/ /\ DefaultOf(t.user) = {}
              /\ \E c \in Free :
                   /\ \A v \in Sessions : session[v].at # "idle" => session[v].coll # c
                   /\ Go(s, [t EXCEPT !.coll = c, !.keys = {<<"default", t.user>>},
                                      !.at = "written", !.effect = "inserted"])
    BY <1>1, <1>7 DEF FindDefault
  <2>2. QED
    BY <1>4, <1>6, <2>1
<1>8. CASE FindNoDefault(s)
  BY <1>1, <1>4, <1>5, <1>8 DEF FindNoDefault
<1>9. QED
  BY <1>7, <1>8

(***************************************************************************)
(* Counting                                                                *)
(***************************************************************************)

\* A counter follows the set it counts.
Follows(t, x, A, B) ==
  /\ t.effect = "inserted" => x \notin A /\ B = A \cup {x}
  /\ t.effect = "deleted" => x \in A /\ B = A \ {x}
  /\ t.effect = "none" => B = A

LEMMA CountFollows ==
  ASSUME NEW count \in [Designs -> Nat], NEW t \in Requests, NEW x, NEW A, NEW B,
         IsFiniteSet(A), count[t.design] = Cardinality(A), Follows(t, x, A, B)
  PROVE  /\ Counted(count, t)[t.design] = Cardinality(B)
         /\ \A d \in Designs \ {t.design} : Counted(count, t)[d] = count[d]
<1>1. t.design \in Designs /\ t.effect \in {"none", "inserted", "deleted"}
  BY DEF Requests
<1>2. Cardinality(A) \in Nat
  BY FS_CardinalityType
<1>3. PICK n : n = IF count[t.design] + Change(t) < 0 THEN count[t.design]
                  ELSE count[t.design] + Change(t)
  OBVIOUS
<1>4. Counted(count, t) = [count EXCEPT ![t.design] = n]
  BY <1>1, <1>3 DEF Counted
<1>5. n = Cardinality(B)
  <2>1. CASE t.effect = "inserted"
    <3>1. Cardinality(B) = Cardinality(A) + 1
      BY <2>1, FS_AddElement DEF Follows
    <3>2. QED
      BY <1>2, <1>3, <2>1, <3>1 DEF Change
  <2>2. CASE t.effect = "deleted"
    <3>1. Cardinality(B) = Cardinality(A) - 1
      BY <2>2, FS_RemoveElement DEF Follows
    <3>2. Cardinality(A) # 0
      BY <2>2, FS_EmptySet DEF Follows
    <3>3. QED
      BY <1>2, <1>3, <2>2, <3>1, <3>2 DEF Change
  <2>3. CASE t.effect = "none"
    BY <1>2, <1>3, <2>3 DEF Follows, Change
  <2>4. QED
    BY <1>1, <2>1, <2>2, <2>3
<1>6. QED
  BY <1>1, <1>4, <1>5

\* A transaction that ends sets its locks free.
LEMMA Ending ==
  ASSUME Typed, CountInv, NEW s \in Sessions, Go(s, Idle)
  PROVE  /\ session'[s] = Idle /\ \A v \in Sessions \ {s} : session'[v] = session[v]
         /\ Exclusive' /\ LikeHeld(session[s])' /\ ItemHeld(s)'
<1>1. session'[s] = Idle /\ \A v \in Sessions \ {s} : session'[v] = session[v]
  BY Going
<1>2. session'[s].at = "idle" /\ Locks(session'[s]) = {}
  BY <1>1 DEF Idle, Locks
<1>3. LikeHeld(session[s])' /\ ItemHeld(s)'
  BY <1>2 DEF LikeHeld, Likes, ItemHeld, Files
<1>4. Exclusive'
  <2> SUFFICES ASSUME NEW v \in Sessions, NEW w \in Sessions, v # w
               PROVE  Locks(session'[v]) \cap Locks(session'[w]) = {}
    BY DEF Exclusive, Locks
  <2>1. CASE v = s \/ w = s
    BY <1>2, <2>1
  <2>2. CASE v # s /\ w # s
    BY <1>1, <2>2 DEF CountInv, Exclusive
  <2>3. QED
    BY <2>1, <2>2
<1>5. QED
  BY <1>1, <1>3, <1>4

(***************************************************************************)
(* Commits                                                                 *)
(***************************************************************************)

LEMMA LikeCounts ==
  ASSUME Constants, Typed, CountInv, NEW s \in Sessions, CommitLike(s)
  PROVE  CountInv'
<1>1. PICK t, row : t = session[s] /\ row = <<t.user, t.design>>
  OBVIOUS
<1>2. /\ t \in Requests /\ t.user \in Users /\ t.design \in Designs /\ Likes(t)
      /\ t.effect \in {"none", "inserted", "deleted"}
  <2>1. t \in Requests
    BY <1>1, Busy DEF CommitLike, Typed
  <2>2. QED
    BY <1>1, <2>1 DEF Requests, CommitLike, Likes
<1>3. /\ Go(s, Idle) /\ UNCHANGED <<saveCount, collection, items>>
      /\ likeCount' = Counted(likeCount, t)
      /\ t.effect = "inserted" => liked' = liked \cup {row}
      /\ t.effect = "deleted" => liked' = liked \ {row}
      /\ t.effect = "none" => liked' = liked
  BY <1>1 DEF CommitLike
<1>4. /\ t.effect = "inserted" => row \notin liked /\ t.keys = {row}
      /\ t.effect = "deleted" => row \in liked /\ t.keys = {row}
  BY <1>1, <1>2 DEF CountInv, LikeHeld, Holds
<1>5. \A r : r # row \/ t.effect = "none" => (r \in liked' <=> r \in liked)
  BY <1>2, <1>3
<1>6. t.effect # "none" => Locks(t) = {row}
  BY <1>2, <1>4 DEF Locks, Likes
<1>7. /\ session'[s] = Idle /\ \A v \in Sessions \ {s} : session'[v] = session[v]
      /\ Exclusive' /\ LikeHeld(session[s])' /\ ItemHeld(s)'
  BY <1>3, Ending
<1>8. ASSUME NEW v \in Sessions \ {s}
      PROVE  LikeHeld(session[v])'
  <2>1. PICK u, r : u = session[v] /\ r = <<u.user, u.design>>
    OBVIOUS
  <2>2. LikeHeld(u) /\ Locks(u) \cap Locks(t) = {} /\ session'[v] = u
    BY <1>1, <1>7, <2>1 DEF CountInv, Exclusive
  <2>3. Likes(u) /\ u.effect \in {"inserted", "deleted"} => (r \in liked' <=> r \in liked)
    <3>1. Likes(u) /\ u.effect \in {"inserted", "deleted"} => Locks(u) = {r}
      BY <2>1, <2>2 DEF LikeHeld, Holds, Likes, Locks
    <3>2. QED
      BY <1>5, <1>6, <2>2, <3>1
  <2>4. QED
    BY <2>1, <2>2, <2>3 DEF LikeHeld, Holds, Likes
<1>9. ASSUME NEW v \in Sessions \ {s}
      PROVE  ItemHeld(v)'
  <2>1. ItemHeld(v) /\ session'[v] = session[v] /\ session'[s].at = "idle"
    BY <1>7 DEF CountInv, Idle
  <2>2. Free' = Free /\ \A u : DefaultOf(u)' = DefaultOf(u)
    BY <1>3 DEF Free, DefaultOf, LiveOf, RowsOf
  <2>3. MakesDefault(v) => MakesDefault(v)'
    BY <1>7, <2>1, <2>2 DEF MakesDefault
  <2>4. QED
    BY <1>3, <2>1, <2>2, <2>3 DEF ItemHeld, Files, Holds
<1>10. LikesCounted'
  <2> SUFFICES ASSUME NEW d \in Designs
               PROVE  likeCount'[d] = Cardinality({u \in Users : <<u, d>> \in liked'})
    BY DEF LikesCounted
  <2>1. PICK A, B : /\ A = {u \in Users : <<u, t.design>> \in liked}
                    /\ B = {u \in Users : <<u, t.design>> \in liked'}
    OBVIOUS
  <2>2. IsFiniteSet(A)
    BY <2>1, FS_Subset DEF Constants
  <2>3. likeCount[t.design] = Cardinality(A) /\ likeCount \in [Designs -> Nat]
    BY <1>2, <2>1 DEF CountInv, LikesCounted, Typed, TypeOK
  <2>4. Follows(t, t.user, A, B)
    BY <1>1, <1>2, <1>3, <1>4, <2>1 DEF Follows
  <2>5. /\ likeCount'[t.design] = Cardinality(B)
        /\ \A e \in Designs \ {t.design} : likeCount'[e] = likeCount[e]
    BY <1>2, <1>3, <2>2, <2>3, <2>4, CountFollows
  <2>6. CASE d = t.design
    BY <2>1, <2>5, <2>6
  <2>7. CASE d # t.design
    <3>1. {u \in Users : <<u, d>> \in liked'} = {u \in Users : <<u, d>> \in liked}
      BY <1>1, <1>5, <2>7
    <3>2. QED
      BY <2>5, <2>7, <3>1 DEF CountInv, LikesCounted
  <2>8. QED
    BY <2>6, <2>7
<1>11. DefaultsApart' /\ FreeIsEmpty' /\ SavesCounted'
  BY <1>3 DEF CountInv, DefaultsApart, FreeIsEmpty, Free, SavesCounted
<1>12. \A v \in Sessions : LikeHeld(session[v])' /\ ItemHeld(v)'
  BY <1>7, <1>8, <1>9
<1>13. QED
  BY <1>7, <1>10, <1>11, <1>12 DEF CountInv

\* A row is put into a collection that is there, or taken out of it.
LEMMA ItemCounts ==
  ASSUME Constants, Typed, CountInv, NEW s \in Sessions, CommitItem(s),
         session[s].coll \notin Free
  PROVE  CountInv'
<1>1. PICK t, c, row : t = session[s] /\ c = t.coll /\ row = <<c, t.design>>
  OBVIOUS
<1>2. /\ t \in Requests /\ t.design \in Designs /\ Files(t) /\ c \in Collections
      /\ t.effect \in {"none", "inserted", "deleted"}
  <2>1. t \in Requests /\ Files(t)
    BY <1>1, Busy DEF CommitItem, Typed, Files
  <2>2. c # None
    BY <1>1, <2>1 DEF CountInv, ItemHeld
  <2>3. QED
    BY <1>1, <2>1, <2>2 DEF Requests
<1>3. /\ Go(s, Idle) /\ UNCHANGED <<liked, likeCount, collection>>
      /\ saveCount' = IF collection[c].default THEN Counted(saveCount, t) ELSE saveCount
      /\ \A k \in Collections \ {c} : items'[k] = items[k]
      /\ t.effect = "inserted" => items'[c] = items[c] \cup {t.design}
      /\ t.effect = "deleted" => items'[c] = items[c] \ {t.design}
      /\ t.effect = "none" => items'[c] = items[c]
  <2>1. collection' = [collection EXCEPT ![c] = collection[c]]
    BY <1>1 DEF CommitItem
  <2>2. collection' = collection
    BY <2>1 DEF Typed, TypeOK
  <2>3. PICK set : /\ t.effect = "inserted" => set = items[c] \cup {t.design}
                   /\ t.effect = "deleted" => set = items[c] \ {t.design}
                   /\ t.effect = "none" => set = items[c]
                   /\ items' = [items EXCEPT ![c] = set]
    BY <1>1, <1>2 DEF CommitItem, Typed, TypeOK
  <2>4. QED
    BY <1>1, <1>2, <2>2, <2>3 DEF CommitItem, CountsAsSave, Typed, TypeOK
<1>4. /\ t.effect = "inserted" => t.design \notin items[c] /\ t.keys = {row}
      /\ t.effect = "deleted" => t.design \in items[c] /\ t.keys = {row}
  BY <1>1, <1>2 DEF CountInv, ItemHeld, Holds
<1>5. t.effect # "none" => Locks(t) = {row}
  BY <1>2, <1>4 DEF Locks, Files
<1>6. \A k \in Collections : \A d : k # c \/ d # t.design \/ t.effect = "none" =>
        (d \in items'[k] <=> d \in items[k])
  BY <1>2, <1>3
<1>7. /\ session'[s] = Idle /\ \A v \in Sessions \ {s} : session'[v] = session[v]
      /\ Exclusive' /\ LikeHeld(session[s])' /\ ItemHeld(s)'
  BY <1>3, Ending
<1>8. Free' = Free /\ \A u : DefaultOf(u)' = DefaultOf(u)
  BY <1>3 DEF Free, DefaultOf, LiveOf, RowsOf
<1>9. ASSUME NEW v \in Sessions \ {s}
      PROVE  LikeHeld(session[v])' /\ ItemHeld(v)'
  <2>1. PICK u, r : u = session[v] /\ r = <<u.coll, u.design>>
    OBVIOUS
  <2>2. /\ LikeHeld(u) /\ ItemHeld(v) /\ Locks(u) \cap Locks(t) = {} /\ session'[v] = u
        /\ session'[s].at = "idle"
    BY <1>1, <1>7, <2>1 DEF CountInv, Exclusive, Idle
  <2>3. LikeHeld(session[v])'
    BY <1>3, <2>2 DEF LikeHeld, Likes, Holds
  <2>4. MakesDefault(v) => MakesDefault(v)'
    BY <1>7, <1>8, <2>1, <2>2 DEF MakesDefault
  <2>5. ASSUME Files(u), u.coll \notin Free
        PROVE  Holds(u, r, u.design \in items'[u.coll])
    <3>1. Holds(u, r, u.design \in items[u.coll]) /\ u.coll \in Collections
      <4>1. u \in Requests
        BY <2>1, <2>5, Busy DEF Typed, Files
      <4>2. QED
        BY <2>1, <2>2, <2>5, <4>1 DEF ItemHeld, Requests
    <3>2. u.effect \in {"inserted", "deleted"} => Locks(u) = {r}
      BY <2>5, <3>1 DEF Holds, Files, Locks
    <3>3. u.effect \in {"inserted", "deleted"} =>
            (u.design \in items'[u.coll] <=> u.design \in items[u.coll])
      <4>1. u.effect \in {"inserted", "deleted"} => r # row \/ t.effect = "none"
        BY <1>5, <2>2, <3>2
      <4>2. r # row => u.coll # c \/ u.design # t.design
        BY <1>1, <2>1
      <4>3. QED
        BY <1>6, <3>1, <4>1, <4>2
    <3>4. QED
      BY <3>1, <3>3 DEF Holds
  <2>6. ItemHeld(v)'
    BY <1>8, <2>1, <2>2, <2>4, <2>5 DEF ItemHeld, Files, Holds
  <2>7. QED
    BY <2>3, <2>6
<1>10. SavesCounted'
  <2> SUFFICES ASSUME NEW d \in Designs
               PROVE  saveCount'[d] =
                        Cardinality({k \in Collections : collection[k].default /\ d \in items'[k]})
    BY <1>3 DEF SavesCounted
  <2>1. saveCount[d] = Cardinality({k \in Collections : collection[k].default /\ d \in items[k]})
    BY DEF CountInv, SavesCounted
  <2>2. CASE ~collection[c].default
    <3>1. {k \in Collections : collection[k].default /\ d \in items'[k]}
            = {k \in Collections : collection[k].default /\ d \in items[k]}
      BY <1>6, <2>2
    <3>2. QED
      BY <1>3, <2>1, <2>2, <3>1
  <2>3. CASE collection[c].default
    <3>1. PICK A, B :
            /\ A = {k \in Collections : collection[k].default /\ t.design \in items[k]}
            /\ B = {k \in Collections : collection[k].default /\ t.design \in items'[k]}
      OBVIOUS
    <3>2. IsFiniteSet(A)
      BY <3>1, FS_Subset DEF Constants
    <3>3. saveCount[t.design] = Cardinality(A) /\ saveCount \in [Designs -> Nat]
      BY <1>2, <3>1 DEF CountInv, SavesCounted, Typed, TypeOK
    <3>4. Follows(t, c, A, B)
      BY <1>2, <1>3, <1>4, <2>3, <3>1 DEF Follows
    <3>5. /\ saveCount'[t.design] = Cardinality(B)
          /\ \A e \in Designs \ {t.design} : saveCount'[e] = saveCount[e]
      BY <1>2, <1>3, <2>3, <3>2, <3>3, <3>4, CountFollows
    <3>6. CASE d = t.design
      BY <3>1, <3>5, <3>6
    <3>7. CASE d # t.design
      <4>1. {k \in Collections : collection[k].default /\ d \in items'[k]}
              = {k \in Collections : collection[k].default /\ d \in items[k]}
        BY <1>6, <3>7
      <4>2. QED
        BY <2>1, <3>5, <3>7, <4>1
    <3>8. QED
      BY <3>6, <3>7
  <2>4. QED
    BY <2>2, <2>3
<1>11. DefaultsApart' /\ FreeIsEmpty' /\ LikesCounted'
  BY <1>1, <1>3, <1>8 DEF CountInv, DefaultsApart, FreeIsEmpty, Free, LikesCounted
<1>12. QED
  BY <1>7, <1>9, <1>10, <1>11 DEF CountInv

\* A change to one row that leaves the users' default collections what they are.
LEMMA RowCounts ==
  ASSUME Constants, Typed, CountInv, NEW c \in Collections, NEW row,
         collection' = [collection EXCEPT ![c] = row], row.owner # None,
         row.default = collection[c].default,
         row.default => row.owner = collection[c].owner /\ row.deleted = collection[c].deleted,
         c \in Free => \A v \in Sessions : session[v].at # "idle" => session[v].coll # c,
         UNCHANGED <<liked, counters, items, session>>
  PROVE  CountInv'
<1>1. /\ collection'[c] = row /\ \A k \in Collections \ {c} : collection'[k] = collection[k]
      /\ \A k \in Collections : collection'[k].default = collection[k].default
      /\ \A k \in Collections : collection[k].default =>
           /\ collection'[k].owner = collection[k].owner
           /\ collection'[k].deleted = collection[k].deleted
  BY DEF Typed, TypeOK
<1>2. Free' = Free \ {c} /\ \A u : DefaultOf(u)' = DefaultOf(u)
  BY <1>1 DEF Free, DefaultOf, LiveOf, RowsOf
<1>3. ASSUME NEW v \in Sessions
      PROVE  LikeHeld(session[v])' /\ ItemHeld(v)'
  <2>1. LikeHeld(session[v]) /\ ItemHeld(v)
    BY DEF CountInv
  <2>2. LikeHeld(session[v])'
    BY <2>1 DEF LikeHeld, Likes, Holds
  <2>3. session[v].at # "idle" => (session[v].coll \in Free' <=> session[v].coll \in Free)
    BY <1>2
  <2>4. MakesDefault(v) => MakesDefault(v)'
    BY <1>2 DEF MakesDefault
  <2>5. ItemHeld(v)'
    BY <2>1, <2>3, <2>4 DEF ItemHeld, Files, Holds
  <2>6. QED
    BY <2>2, <2>5
<1>4. DefaultsApart'
  BY <1>1 DEF CountInv, DefaultsApart
<1>5. SavesCounted'
  <2> SUFFICES ASSUME NEW d \in Designs
               PROVE  saveCount[d] =
                        Cardinality({k \in Collections : collection'[k].default /\ d \in items[k]})
    BY DEF SavesCounted, counters
  <2>1. {k \in Collections : collection'[k].default /\ d \in items[k]}
          = {k \in Collections : collection[k].default /\ d \in items[k]}
    BY <1>1
  <2>2. QED
    BY <2>1 DEF CountInv, SavesCounted
<1>6. FreeIsEmpty' /\ LikesCounted' /\ Exclusive'
  BY <1>2 DEF CountInv, FreeIsEmpty, LikesCounted, Exclusive, Locks, counters
<1>7. QED
  BY <1>3, <1>4, <1>5, <1>6 DEF CountInv

\* A default collection is made with its first item, by the only session that could.
LEMMA DefaultCounts ==
  ASSUME Constants, Typed, CountInv, NEW s \in Sessions, CommitItem(s),
         session[s].coll \in Free
  PROVE  CountInv'
<1>1. PICK t, c, row :
        /\ t = session[s] /\ c = t.coll
        /\ row = [owner |-> t.user, name |-> SavedDesigns, default |-> TRUE, deleted |-> FALSE]
  OBVIOUS
<1>2. /\ t \in Requests /\ t.design \in Designs /\ t.user \in Users /\ Files(t)
      /\ c \in Free /\ c \in Collections
  <2>1. t \in Requests /\ Files(t)
    BY <1>1, Busy DEF CommitItem, Typed, Files
  <2>2. QED
    BY <1>1, <2>1 DEF Requests, Free
<1>3. /\ t.effect = "inserted" /\ t.keys = {<<"default", t.user>>}
      /\ DefaultOf(t.user) = {}
      /\ \A v \in Sessions \ {s} : session[v].at # "idle" => session[v].coll # c
  BY <1>1, <1>2 DEF CountInv, ItemHeld, MakesDefault
<1>4. /\ collection[c].owner = None /\ ~collection[c].default /\ items[c] = {}
  BY <1>2 DEF CountInv, FreeIsEmpty, DefaultsApart, Free, Constants
<1>5. /\ Go(s, Idle) /\ UNCHANGED <<liked, likeCount>>
      /\ collection' = [collection EXCEPT ![c] = row]
      /\ items' = [items EXCEPT ![c] = {t.design}]
      /\ saveCount' = Counted(saveCount, t)
  <2>1. /\ Go(s, Idle) /\ UNCHANGED <<liked, likeCount>>
        /\ collection' = [collection EXCEPT ![c] = row]
        /\ items' = [items EXCEPT ![c] = items[c] \cup {t.design}]
        /\ saveCount' = IF row.default THEN Counted(saveCount, t) ELSE saveCount
    BY <1>1, <1>2, <1>3 DEF CommitItem, CountsAsSave, Typed, TypeOK
  <2>2. row.default
    BY <1>1
  <2>3. items[c] \cup {t.design} = {t.design}
    BY <1>4
  <2>4. QED
    BY <2>1, <2>2, <2>3
<1>6. /\ collection'[c].owner = t.user /\ collection'[c].default /\ ~collection'[c].deleted
      /\ \A k \in Collections \ {c} : collection'[k] = collection[k] /\ items'[k] = items[k]
      /\ items'[c] = {t.design}
  BY <1>1, <1>2, <1>5 DEF Typed, TypeOK
<1>7. /\ session'[s] = Idle /\ \A v \in Sessions \ {s} : session'[v] = session[v]
      /\ Exclusive' /\ LikeHeld(session[s])' /\ ItemHeld(s)'
  BY <1>5, Ending
<1>8. Free' = Free \ {c}
  BY <1>2, <1>6 DEF Free, Constants
<1>9. \A u \in Users \ {t.user} : DefaultOf(u)' = DefaultOf(u)
  BY <1>4, <1>6 DEF DefaultOf, LiveOf, RowsOf, Constants
<1>10. ASSUME NEW v \in Sessions \ {s}
       PROVE  LikeHeld(session[v])' /\ ItemHeld(v)'
  <2>1. PICK u : u = session[v]
    OBVIOUS
  <2>2. /\ LikeHeld(u) /\ ItemHeld(v) /\ Locks(u) \cap Locks(t) = {} /\ session'[v] = u
        /\ session'[s].at = "idle"
    BY <1>1, <1>7, <2>1 DEF CountInv, Exclusive, Idle
  <2>3. LikeHeld(session[v])'
    BY <1>5, <2>2 DEF LikeHeld, Likes, Holds
  <2>4. u.at # "idle" => u.coll # c /\ (u.coll \in Free' <=> u.coll \in Free)
    BY <1>3, <1>8, <2>1
  <2>5. ASSUME Files(u), u.coll \in Free
        PROVE  MakesDefault(v)'
    <3>1. MakesDefault(v) /\ u \in Requests
      BY <2>1, <2>2, <2>5, Busy DEF ItemHeld, Typed, Files
    <3>2. Locks(u) = {<<"default", u.user>>} /\ Locks(t) = {<<"default", t.user>>}
      BY <1>2, <1>3, <2>1, <2>5, <3>1 DEF MakesDefault, Locks, Files
    <3>3. u.user \in Users \ {t.user}
      BY <2>2, <3>1, <3>2 DEF Requests
    <3>4. DefaultOf(u.user)' = {}
      BY <1>9, <2>1, <3>1, <3>3 DEF MakesDefault
    <3>5. \A w \in Sessions \ {v} : session'[w].at # "idle" => session'[w].coll # u.coll
      BY <1>7, <2>1, <2>2, <3>1 DEF MakesDefault
    <3>6. QED
      BY <2>1, <2>2, <3>1, <3>4, <3>5 DEF MakesDefault
  <2>6. ASSUME Files(u), u.coll \notin Free
        PROVE  Holds(u, <<u.coll, u.design>>, u.design \in items'[u.coll])
    <3>1. Holds(u, <<u.coll, u.design>>, u.design \in items[u.coll]) /\ u.coll \in Collections
      <4>1. u \in Requests
        BY <2>1, <2>6, Busy DEF Typed, Files
      <4>2. QED
        BY <2>1, <2>2, <2>6, <4>1 DEF ItemHeld, Requests
    <3>2. items'[u.coll] = items[u.coll]
      BY <1>6, <2>4, <2>6, <3>1 DEF Files
    <3>3. QED
      BY <3>1, <3>2
  <2>7. ItemHeld(v)'
    <3>1. session'[v].at = "checked" /\ session'[v].coll # None => session'[v].coll \notin Free'
      BY <2>1, <2>2, <2>4 DEF ItemHeld
    <3>2. ASSUME Files(u)
          PROVE  /\ u.coll # None
                 /\ u.coll \in Free' => MakesDefault(v)'
                 /\ u.coll \notin Free' =>
                      Holds(u, <<u.coll, u.design>>, u.design \in items'[u.coll])
      BY <2>1, <2>2, <2>4, <2>5, <2>6, <3>2 DEF ItemHeld, Files
    <3>3. QED
      BY <2>2, <3>1, <3>2 DEF ItemHeld, Files, Holds
  <2>8. QED
    BY <2>3, <2>7
<1>11. SavesCounted'
  <2> SUFFICES ASSUME NEW d \in Designs
               PROVE  saveCount'[d] =
                        Cardinality({k \in Collections : collection'[k].default /\ d \in items'[k]})
    BY DEF SavesCounted
  <2>1. saveCount[d] = Cardinality({k \in Collections : collection[k].default /\ d \in items[k]})
    BY DEF CountInv, SavesCounted
  <2>2. PICK A, B :
          /\ A = {k \in Collections : collection[k].default /\ t.design \in items[k]}
          /\ B = {k \in Collections : collection'[k].default /\ t.design \in items'[k]}
    OBVIOUS
  <2>3. IsFiniteSet(A)
    BY <2>2, FS_Subset DEF Constants
  <2>4. saveCount[t.design] = Cardinality(A) /\ saveCount \in [Designs -> Nat]
    BY <1>2, <2>2 DEF CountInv, SavesCounted, Typed, TypeOK
  <2>5. Follows(t, c, A, B)
    <3>1. c \notin A /\ B = A \cup {c}
      BY <1>2, <1>4, <1>6, <2>2
    <3>2. QED
      BY <1>3, <3>1 DEF Follows
  <2>6. /\ saveCount'[t.design] = Cardinality(B)
        /\ \A e \in Designs \ {t.design} : saveCount'[e] = saveCount[e]
    BY <1>2, <1>5, <2>3, <2>4, <2>5, CountFollows
  <2>7. CASE d = t.design
    BY <2>2, <2>6, <2>7
  <2>8. CASE d # t.design
    <3>1. {k \in Collections : collection'[k].default /\ d \in items'[k]}
            = {k \in Collections : collection[k].default /\ d \in items[k]}
      BY <1>4, <1>6, <2>8
    <3>2. QED
      BY <2>1, <2>6, <2>8, <3>1
  <2>9. QED
    BY <2>7, <2>8
<1>12. DefaultsApart'
  <2>1. \A k \in Collections \ {c} : collection[k].default => collection[k].owner # t.user
    BY <1>3 DEF CountInv, DefaultsApart, DefaultOf, LiveOf, RowsOf
  <2>2. \A k \in Collections : collection'[k].default =>
          collection'[k].owner \in Users /\ ~collection'[k].deleted
    BY <1>2, <1>6 DEF CountInv, DefaultsApart
  <2>3. ASSUME NEW k \in Collections, NEW j \in Collections,
               collection'[k].default, collection'[j].default,
               collection'[k].owner = collection'[j].owner
        PROVE  k = j
    <3>1. CASE k = c \/ j = c
      BY <1>6, <2>1, <2>3, <3>1
    <3>2. CASE k # c /\ j # c
      BY <1>6, <2>3, <3>2 DEF CountInv, DefaultsApart
    <3>3. QED
      BY <3>1, <3>2
  <2>4. QED
    BY <2>2, <2>3 DEF DefaultsApart
<1>13. FreeIsEmpty' /\ LikesCounted'
  BY <1>5, <1>6, <1>8 DEF CountInv, FreeIsEmpty, LikesCounted, Free
<1>14. QED
  BY <1>7, <1>10, <1>11, <1>12, <1>13 DEF CountInv

LEMMA TableCounts ==
  ASSUME Constants, Typed, CountInv,
         \/ \E u \in Users, c \in Collections :
              DeleteCollection(u, c) \/ \E n \in Names : Rename(u, c, n)
         \/ \E u \in Users, n \in Names : CreateCollection(u, n)
         \/ \E d \in Designs : Publish(d)
  PROVE  CountInv'
<1>1. ASSUME NEW u \in Users, NEW c \in Collections, DeleteCollection(u, c)
      PROVE  CountInv'
  <2>1. PICK row : row = [collection[c] EXCEPT !.deleted = TRUE]
    OBVIOUS
  <2>2. /\ c \in LiveOf(u) /\ ~collection[c].default
        /\ collection' = [collection EXCEPT ![c] = row]
        /\ UNCHANGED <<liked, counters, items, session>>
    BY <1>1, <2>1 DEF DeleteCollection
  <2>3. c \notin Free /\ collection[c].owner = u /\ u # None
    BY <2>2, FreeCollections DEF LiveOf, RowsOf, Constants
  <2>4. row.owner = u /\ row.default = collection[c].default
    BY <2>1, <2>3 DEF Typed, TypeOK, Collection
  <2>5. QED
    BY <2>2, <2>3, <2>4, RowCounts
<1>2. ASSUME NEW u \in Users, NEW c \in Collections, NEW n \in Names, Rename(u, c, n)
      PROVE  CountInv'
  <2>1. PICK row : row = [collection[c] EXCEPT !.name = n]
    OBVIOUS
  <2>2. /\ c \in LiveOf(u)
        /\ collection' = [collection EXCEPT ![c] = row]
        /\ UNCHANGED <<liked, counters, items, session>>
    BY <1>2, <2>1 DEF Rename
  <2>3. c \notin Free /\ collection[c].owner = u /\ u # None
    BY <2>2, FreeCollections DEF LiveOf, RowsOf, Constants
  <2>4. /\ row.owner = u /\ row.default = collection[c].default
        /\ row.deleted = collection[c].deleted
    BY <2>1, <2>3 DEF Typed, TypeOK, Collection
  <2>5. QED
    BY <2>2, <2>3, <2>4, RowCounts
<1>3. ASSUME NEW u \in Users, NEW n \in Names, CreateCollection(u, n)
      PROVE  CountInv'
  <2>1. PICK row : row = [owner |-> u, name |-> n, default |-> FALSE, deleted |-> FALSE]
    OBVIOUS
  <2>2. PICK c \in Free :
          /\ \A v \in Sessions : session[v].at # "idle" => session[v].coll # c
          /\ collection' = [collection EXCEPT ![c] = row]
          /\ UNCHANGED <<liked, counters, items, session>>
    BY <1>3, <2>1 DEF CreateCollection
  <2>3. c \in Collections /\ ~collection[c].default /\ collection[c].default \in BOOLEAN
    BY DEF Free, CountInv, DefaultsApart, Constants, Typed, TypeOK, Collection
  <2>4. row.owner = u /\ u # None /\ ~row.default /\ row.default = FALSE
    BY <2>1 DEF Constants
  <2>5. row.default = collection[c].default
    BY <2>3, <2>4
  <2>6. QED
    BY <2>2, <2>3, <2>4, <2>5, RowCounts
<1>4. ASSUME NEW d \in Designs, Publish(d)
      PROVE  CountInv'
  <2>1. UNCHANGED <<liked, likeCount, saveCount, collection, items, session>>
    BY <1>4 DEF Publish, counters
  <2>2. QED
    BY <2>1 DEF CountInv, LikeHeld, Likes, Holds, ItemHeld, Files, MakesDefault, DefaultOf, LiveOf,
       RowsOf, Free, Exclusive, Locks, DefaultsApart, FreeIsEmpty, LikesCounted, SavesCounted
<1>5. QED
  BY <1>1, <1>2, <1>3, <1>4

LEMMA CountStep ==
  ASSUME Constants, Typed, CountInv, [Next]_vars
  PROVE  CountInv'
<1>1. ASSUME NEW s \in Sessions, NEW u \in Users, NEW d \in Designs,
             \/ \E op \in {"like", "unlike", "save", "unsave"} : CheckDesign(s, op, u, d)
             \/ \E op \in {"add", "remove"}, c \in Collections : CheckCollection(s, op, u, d, c)
      PROVE  CountInv'
  <2>1. ASSUME NEW op \in Ops, NEW c \in Collections \cup {None}, c \notin Free,
               Begin(s, Request(op, u, d, c))
        PROVE  CountInv'
    <3>1. PICK t : t = Request(op, u, d, c)
      OBVIOUS
    <3>2. t \in Requests /\ t.at = "checked" /\ t.coll = c
      BY <3>1, RequestMade
    <3>3. Go(s, t) /\ UNCHANGED <<liked, counters, collection, items>>
      BY <2>1, <3>1 DEF Begin
    <3>4. QED
      BY <2>1, <3>2, <3>3, CheckCounts
  <2>2. ASSUME NEW op \in {"like", "unlike", "save", "unsave"}, CheckDesign(s, op, u, d)
        PROVE  CountInv'
    <3>1. op \in Ops /\ None \notin Free /\ Begin(s, Request(op, u, d, None))
      BY <2>2, FreeCollections DEF CheckDesign, Ops
    <3>2. QED
      BY <2>1, <3>1
  <2>3. ASSUME NEW op \in {"add", "remove"}, NEW c \in Collections, CheckCollection(s, op, u, d, c)
        PROVE  CountInv'
    <3>1. op \in Ops /\ c \notin Free /\ Begin(s, Request(op, u, d, c))
      BY <2>3, FreeCollections DEF CheckCollection, Ops
    <3>2. QED
      BY <2>1, <3>1
  <2>4. QED
    BY <1>1, <2>2, <2>3
<1>2. ASSUME NEW s \in Sessions, CommitItem(s)
      PROVE  CountInv'
  BY <1>2, ItemCounts, DefaultCounts
<1>3. ASSUME NEW s \in Sessions, Abort(s)
      PROVE  CountInv'
  <2>1. Idle.at = "idle"
    BY DEF Idle
  <2>2. QED
    BY <1>3, <2>1, CheckCounts DEF Abort
<1>4. CASE UNCHANGED vars
  <2>1. UNCHANGED <<liked, likeCount, saveCount, collection, items, session>>
    BY <1>4 DEF vars, counters
  <2>2. QED
    BY <2>1 DEF CountInv, LikeHeld, Likes, Holds, ItemHeld, Files, MakesDefault, DefaultOf, LiveOf,
       RowsOf, Free, Exclusive, Locks, DefaultsApart, FreeIsEmpty, LikesCounted, SavesCounted
<1>5. QED
  BY <1>1, <1>2, <1>3, <1>4, WriteCounts, LikeCounts, FindCounts, TableCounts DEF Next

LEMMA CountStart ==
  ASSUME Constants, Init
  PROVE  Typed /\ CountInv
<1>1. /\ liked = {} /\ \A c \in Collections : collection[c] = NoCollection /\ items[c] = {}
      /\ \A s \in Sessions : session[s] = Idle
      /\ \A d \in Designs : likeCount[d] = 0 /\ saveCount[d] = 0
  BY DEF Init
<1>2. NoCollection \in Collection /\ ~NoCollection.default
  BY DEF NoCollection, Collection
<1>3. Typed
  BY <1>2 DEF Init, Typed, TypeOK
<1>4. \A s \in Sessions : LikeHeld(session[s]) /\ ItemHeld(s) /\ Locks(session[s]) = {}
  BY <1>1 DEF LikeHeld, Likes, ItemHeld, Files, Locks, Idle
<1>5. DefaultsApart /\ FreeIsEmpty /\ Exclusive
  BY <1>1, <1>2, <1>4 DEF DefaultsApart, FreeIsEmpty, Free, Exclusive
<1>6. \A d \in Designs : /\ {u \in Users : <<u, d>> \in liked} = {}
                         /\ {c \in Collections : collection[c].default /\ d \in items[c]} = {}
  BY <1>1
<1>7. LikesCounted /\ SavesCounted
  BY <1>1, <1>6, FS_EmptySet DEF LikesCounted, SavesCounted
<1>8. QED
  BY <1>3, <1>4, <1>5, <1>7 DEF CountInv

(***************************************************************************)
(* What holds of every run                                                 *)
(***************************************************************************)

LEMMA CountsStay ==
  ASSUME Constants
  PROVE  Spec => [](Typed /\ CountInv)
<1>1. Init => Typed /\ CountInv
  BY CountStart
<1>2. Typed /\ CountInv /\ [Next]_vars => (Typed /\ CountInv)'
  BY TypedStep, CountStep DEF CountInv
<1>3. QED
  BY <1>1, <1>2, PTL DEF Spec

\* Every row, counter and collection is of the kind the schema says; the counters are
\* never taken below zero.
THEOREM TypeCorrect ==
  ASSUME Constants
  PROVE  Spec => []TypeOK
<1>1. Typed => TypeOK
  BY DEF Typed
<1>2. QED
  BY <1>1, CountsStay, PTL

\* A design has as many likes and saves as there are users who like it and default
\* collections that keep it, whatever requests race, repeat or are broken off.
THEOREM LikesAndSavesAreCounted ==
  ASSUME Constants
  PROVE  Spec => [](LikesCounted /\ SavesCounted)
<1>1. CountInv => LikesCounted /\ SavesCounted
  BY DEF CountInv
<1>2. QED
  BY <1>1, CountsStay, PTL

\* First saves that race make one default collection between them.
THEOREM OneDefaultForGood ==
  ASSUME Constants
  PROVE  Spec => []OneDefault
<1>1. CountInv => OneDefault
  <2> SUFFICES ASSUME CountInv, NEW u \in Users
               PROVE  Cardinality(DefaultOf(u)) <= 1
    BY DEF OneDefault
  <2>1. \A c, k \in DefaultOf(u) : c = k
    BY DEF CountInv, DefaultsApart, DefaultOf, LiveOf, RowsOf
  <2>2. CASE DefaultOf(u) = {}
    BY <2>2, FS_EmptySet
  <2>3. CASE DefaultOf(u) # {}
    <3>1. PICK c : DefaultOf(u) = {c}
      BY <2>1, <2>3
    <3>2. QED
      BY <3>1, FS_Singleton
  <2>4. QED
    BY <2>2, <2>3
<1>2. QED
  BY <1>1, CountsStay, PTL
=============================================================================
