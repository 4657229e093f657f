-------------------------- MODULE Recommendations --------------------------
(***************************************************************************)
(* The log of analytics events and the home feed computed from it          *)
(* (app/services/analytics: events.py, flags.py, recommendations.py).      *)
(*                                                                         *)
(* The feed has three sections, each from queries of its own: designs are  *)
(* published and archived, and events recorded, between two of them.       *)
(* An answer is built of what each query read.                             *)
(***************************************************************************)
EXTENDS Integers, Sequences, FiniteSets, SequencesExt

CONSTANTS
  Designs,                 \* ids, the newest the largest
  CategoryOf,              \* design -> its categories
  Viewer, None,            \* the user whose feed is asked for; others count for nothing here
  Window, Lookback,        \* days of events for trending and for the categories
  Limit, TopCategories,    \* the length of a section, the categories considered
  Types,                   \* of the events recorded
  MaxEvents, LastDay       \* bounds

VARIABLES
  enabled,     \* the setting analytics.enabled
  published,   \* the designs that are published and not deleted
  consent,     \* analytics_consent of the viewer
  asked,       \* whether the viewer ever gave it
  events,      \* analytics_events, in the order recorded
  today,
  feed         \* the request under way

vars == <<enabled, published, consent, asked, events, today, feed>>

\* Engagement weights
Weight == [design_viewed |-> 1, design_liked |-> 3, design_saved |-> 5]

AnalyticsEvent ==
  [user : {Viewer, None}, type : DOMAIN Weight, design : Designs, day : 0..LastDay]

Idle == [at |-> "idle"]

Init ==
  /\ enabled \in BOOLEAN
  /\ published = Designs
  /\ consent = FALSE
  /\ asked = FALSE
  /\ events = <<>>
  /\ today = 0
  /\ feed = Idle

-----------------------------------------------------------------------------
(* Recording *)

is_analytics_enabled == enabled

\* Variant: whoever is known is named.
NamedAlways(u) == u

\* The user an event is kept under: who has not consented is not named.
Named(u) == IF u = Viewer /\ consent THEN u ELSE None

\* Viewing, liking or saving, by the viewer or by somebody else.
record_event(u, d, type) ==
  /\ is_analytics_enabled
  /\ Len(events) < MaxEvents
  /\ d \in published
  /\ events' = Append(events, [user |-> Named(u), type |-> type, design |-> d, day |-> today])
  /\ UNCHANGED <<enabled, published, consent, asked, today, feed>>

\* PATCH /users/me/preferences
SetConsent(b) ==
  /\ consent' = b
  /\ asked' = (asked \/ b)
  /\ UNCHANGED <<enabled, published, events, today, feed>>

\* What any design may become, module Catalogue.
ChangeDesign(d) ==
  /\ published' = IF d \in published THEN published \ {d} ELSE published \cup {d}
  /\ UNCHANGED <<enabled, consent, asked, events, today, feed>>

NextDay ==
  /\ today < LastDay
  /\ today' = today + 1
  /\ UNCHANGED <<enabled, published, consent, asked, events, feed>>

-----------------------------------------------------------------------------
(* Queries *)

\* The sum of the weights of some entries.
Score(entries) == MapThenSumSet(LAMBDA i : Weight[events[i].type], entries)

\* ORDER BY key DESC LIMIT n, for the rows in key: those of equal key come in any order.
Top(key, n) ==
  {SubSeq(s, 1, IF n < Len(s) THEN n ELSE Len(s)) :
     s \in {t \in SetToSeqs(DOMAIN key) : \A i \in 2..Len(t) : key[t[i - 1]] >= key[t[i]]}}

\* More are read than needed: some may be archived since.
Overfetch == 2 * Limit

_published_designs_by_id(ids) == SelectSeq(ids, LAMBDA d : d \in published)

Cut(ids) == SubSeq(ids, 1, IF Len(ids) < Limit THEN Len(ids) ELSE Limit)

\* Whom the recently viewed designs are read for
Mine(e) == e.user = Viewer

\* The viewer's own views, each design once, the latest first.
LastViewed ==
  LET views == {i \in DOMAIN events : Mine(events[i]) /\ events[i].type = "design_viewed"}
      of(d) == {i \in views : events[i].design = d}
  IN  Top([d \in {events[i].design : i \in views} |-> Max(of(d))], Overfetch)

Engagement == {i \in DOMAIN events : Mine(events[i]) /\ events[i].day >= today - Lookback}

\* The categories the viewer engages with most.
_top_engaged_category_ids ==
  LET of(c) == {i \in Engagement : c \in CategoryOf[events[i].design]}
      known == UNION {CategoryOf[events[i].design] : i \in Engagement}
  IN  {ToSet(s) : s \in Top([c \in known |-> Score(of(c))], TopCategories)}

\* Variant: what the viewer has seen is recommended too.
NothingSeen == {}

Seen == {events[i].design : i \in Engagement}

LikeCount(d) ==
  Cardinality({i \in DOMAIN events : events[i].type = "design_liked" /\ events[i].design = d})

\* The join has a row for each category of a design; duplicates are dropped after the limit.
Recommendable(categories, exclude) ==
  LET rows == {<<d, c>> \in (published \ exclude) \X categories : c \in CategoryOf[d]}
      likes == [r \in rows |-> LikeCount(r[1]) * (Cardinality(Designs) + 1) + r[1]]
      Once(ids, d) == IF Contains(ids, d) THEN ids ELSE Append(ids, d)
  IN  {FoldLeft(Once, <<>>, [i \in DOMAIN s |-> s[i][1]]) : s \in Top(likes, Limit)}

\* Whatever the weights of the last days say.
Scored ==
  LET recent == {i \in DOMAIN events : events[i].day >= today - Window}
      of(d) == {i \in recent : events[i].design = d}
  IN  Top([d \in {events[i].design : i \in recent} |-> Score(of(d))], Overfetch)

Newest == Top([d \in published |-> d], Limit)

-----------------------------------------------------------------------------
(* get_personalized_home_feed *)

Go(f) == feed' = f /\ UNCHANGED <<enabled, published, consent, asked, events, today>>

get_personalized_home_feed ==
  /\ feed = Idle
  /\ \E ids \in LastViewed : Go([at |-> "viewed", ids |-> ids])

get_recently_viewed_designs ==
  /\ feed.at = "viewed"
  /\ Go([at |-> "recent", recent |-> Cut(_published_designs_by_id(feed.ids))])

\* What was engaged with, then the categories it is of.
ReadEngagement ==
  /\ feed.at = "recent"
  /\ IF Seen = {} THEN Go([at |-> "recommended", recent |-> feed.recent, recommended |-> <<>>])
                  ELSE Go([at |-> "seen", recent |-> feed.recent, exclude |-> Seen])

ReadCategories ==
  /\ feed.at = "seen"
  /\ \E categories \in _top_engaged_category_ids :
       Go([at |-> "engaged", recent |-> feed.recent, exclude |-> feed.exclude,
           categories |-> categories])

get_category_based_recommendations ==
  /\ feed.at = "engaged"
  /\ \E ids \in IF feed.categories = {} THEN {<<>>}
                ELSE Recommendable(feed.categories, feed.exclude) :
       Go([at |-> "recommended", recent |-> feed.recent, recommended |-> ids])

ReadScores ==
  /\ feed.at = "recommended"
  /\ \E ids \in Scored :
       Go([at |-> "scored", recent |-> feed.recent, recommended |-> feed.recommended,
           ids |-> ids])

\* Variant: only a log without recent events falls back.
QuietOnly(ids, trending) == ids = <<>>

\* When the newest designs are taken instead
FallsBack(ids, trending) == trending = <<>>

\* The answer of a feed.
Answer(trending) ==
  Go([at |-> "done", recent |-> feed.recent, recommended |-> feed.recommended,
      trending |-> trending])

get_trending_designs ==
  /\ feed.at = "scored"
  /\ LET trending == Cut(_published_designs_by_id(feed.ids)) IN
       IF FallsBack(feed.ids, trending)
       THEN Go([feed EXCEPT !.at = "quiet", !.ids = trending])
       ELSE Answer(trending)

FallBack ==
  /\ feed.at = "quiet"
  /\ \E trending \in Newest : Answer(trending)

Return ==
  /\ feed.at = "done"
  /\ Go(Idle)

Next ==
  \/ \E u \in {Viewer, None}, d \in Designs, type \in Types : record_event(u, d, type)
  \/ \E b \in BOOLEAN : SetConsent(b)
  \/ \E d \in Designs : ChangeDesign(d)
  \/ NextDay
  \/ get_personalized_home_feed \/ get_recently_viewed_designs \/ ReadEngagement
  \/ ReadCategories
  \/ get_category_based_recommendations \/ ReadScores \/ get_trending_designs
  \/ FallBack \/ Return

Spec == Init /\ [][Next]_vars

-----------------------------------------------------------------------------

Done == feed.at = "done"

TypeOK ==
  /\ published \subseteq Designs
  /\ consent \in BOOLEAN /\ asked \in BOOLEAN
  /\ events \in Seq(AnalyticsEvent)
  /\ today \in 0..LastDay
  /\ Done => \A section \in {feed.recent, feed.recommended, feed.trending} :
               section \in Seq(Designs) /\ Len(section) <= Limit

\* Nobody gets an empty feed: an answer without a trending design is built when no
\* design is published, whatever was archived while its queries ran.
NobodySeesEmpty ==
  (~ Done /\ Done') => (feed'.trending = <<>> => published = {})

\* Who never consented gets nothing personal, whatever others and they themselves did:
\* there is no personalization without consent.
PersonalNeedsConsent ==
  Done /\ (feed.recent # <<>> \/ feed.recommended # <<>>) => asked

\* A design the feed recalls and recommends at once was last seen before the days the
\* recommendations look back to.
SeenIsNotRecommended ==
  Done => \A d \in ToSet(feed.recent) \cap ToSet(feed.recommended) :
            \E i \in DOMAIN events : /\ Mine(events[i]) /\ events[i].design = d
                                     /\ events[i].day < today - Lookback
=============================================================================
