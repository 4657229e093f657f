----------------------------- MODULE Campaigns -----------------------------
(***************************************************************************)
(* Campaigns of the staff and the notifications they become                *)
(* (app/services/notifications.py, routes/admin_notification_campaigns.py, *)
(* routes/notifications.py).                                               *)
(*                                                                         *)
(* Sending is one transaction over all recipients: each gets a row in the  *)
(* app, and one more for every channel left switched on, which is          *)
(* dispatched at once.  Rows are seen when the transaction commits.        *)
(***************************************************************************)
EXTENDS Integers, FiniteSets

CONSTANTS
  Users, Campaigns, Admins, None,
  Together     \* whether campaigns may be sent while another is

VARIABLES
  active,      \* the users that are neither suspended nor deleted
  switchedOn,  \* user -> the channels left on in user_preferences
  campaign,    \* notification_campaigns
  inbox,       \* the table notifications
  sending      \* admin -> the send under way

vars == <<active, switchedOn, campaign, inbox, sending>>

Optional == {"push", "email"}
Campaign == [status : {"none", "draft", "sent"}, recipient_count : Nat \cup {None}]
Notification == [user : Users, of : Campaigns, channel : Optional \cup {"in_app"},
                 by : Admins, is_read : BOOLEAN]

Idle == [campaign |-> None]

Init ==
  /\ active = Users
  /\ switchedOn = [u \in Users |-> Optional]
  /\ campaign = [c \in Campaigns |-> [status |-> "none", recipient_count |-> None]]
  /\ inbox = {}
  /\ sending = [a \in Admins |-> Idle]

-----------------------------------------------------------------------------

create_campaign(c) ==
  /\ campaign[c].status = "none"
  /\ campaign' = [campaign EXCEPT ![c].status = "draft"]
  /\ UNCHANGED <<active, switchedOn, inbox, sending>>

\* Variant: a campaign may be sent again.
SendableAgain == {"draft", "sent"}

Sendable == {"draft"}

\* The campaign is read, then its recipients.
StartSend(a, c) ==
  /\ sending[a] = Idle
  /\ Together \/ \A b \in Admins : sending[b] = Idle
  /\ campaign[c].status \in Sendable
  /\ sending' = [sending EXCEPT ![a] =
                   [campaign |-> c, to |-> active, left |-> active, rows |-> {}]]
  /\ UNCHANGED <<active, switchedOn, campaign, inbox>>

\* The rows of one event for one user.
notify_user(a, u, c) ==
  {[user |-> u, of |-> c, channel |-> channel, by |-> a, is_read |-> FALSE]
     : channel \in {"in_app"} \cup switchedOn[u]}

Notify(a, u) ==
  LET t == sending[a] IN
  /\ t # Idle
  /\ u \in t.left
  /\ sending' = [sending EXCEPT ![a].left = @ \ {u},
                                ![a].rows = @ \cup notify_user(a, u, t.campaign)]
  /\ UNCHANGED <<active, switchedOn, campaign, inbox>>

\* Variant: the count is of all there are when the send ends.
CountedLate(t) == Cardinality(active)

Recipients(t) == Cardinality(t.to)

CommitSend(a) ==
  LET t == sending[a] IN
  /\ t # Idle
  /\ t.left = {}
  /\ inbox' = inbox \cup t.rows
  /\ campaign' = [campaign EXCEPT ![t.campaign] =
                    [status |-> "sent", recipient_count |-> Recipients(t)]]
  /\ sending' = [sending EXCEPT ![a] = Idle]
  /\ UNCHANGED <<active, switchedOn>>

\* An error for one recipient, or a lost process: no row remains, what was dispatched
\* was dispatched.
LoseSend(a) ==
  /\ sending[a] # Idle
  /\ sending' = [sending EXCEPT ![a] = Idle]
  /\ UNCHANGED <<active, switchedOn, campaign, inbox>>

-----------------------------------------------------------------------------

Read(rows) ==
  /\ inbox' = (inbox \ rows) \cup {[r EXCEPT !.is_read = TRUE] : r \in rows}
  /\ UNCHANGED <<active, switchedOn, campaign, sending>>

mark_all_notifications_read(u) == Read({r \in inbox : r.user = u /\ ~ r.is_read})

mark_notification_read(r) == ~ r.is_read /\ Read({r})

\* PATCH /users/me/preferences
SwitchChannel(u, channel) ==
  /\ switchedOn' = [switchedOn EXCEPT ![u] = IF channel \in @ THEN @ \ {channel}
                                             ELSE @ \cup {channel}]
  /\ UNCHANGED <<active, campaign, inbox, sending>>

\* Suspension, deletion and reactivation, module Accounts
ChangeStatus(u) ==
  /\ active' = IF u \in active THEN active \ {u} ELSE active \cup {u}
  /\ UNCHANGED <<switchedOn, campaign, inbox, sending>>

Next ==
  \/ \E c \in Campaigns : create_campaign(c)
  \/ \E a \in Admins, c \in Campaigns : StartSend(a, c)
  \/ \E a \in Admins, u \in Users : Notify(a, u)
  \/ \E a \in Admins : CommitSend(a) \/ LoseSend(a)
  \/ \E u \in Users : mark_all_notifications_read(u) \/ ChangeStatus(u)
  \/ \E r \in inbox : mark_notification_read(r)
  \/ \E u \in Users, channel \in Optional : SwitchChannel(u, channel)

Spec == Init /\ [][Next]_vars

-----------------------------------------------------------------------------

TypeOK ==
  /\ active \subseteq Users
  /\ switchedOn \in [Users -> SUBSET Optional]
  /\ campaign \in [Campaigns -> Campaign]
  /\ inbox \subseteq Notification
  /\ \A a \in Admins : sending[a] = Idle \/ sending[a].rows \subseteq Notification

InApp(c) == {r \in inbox : r.of = c /\ r.channel = "in_app"}

\* Whatever send is lost and repeated, no user finds a campaign twice in the app; two
\* sends at once would both pass the check of the status.
CampaignShownOnce ==
  \A r, q \in inbox :
    r.of = q.of /\ r.channel = q.channel /\ r.user = q.user => r.by = q.by /\ r.is_read = q.is_read

\* A campaign that counts as sent reached as many users as it says, and one that does
\* not reached nobody, whoever joins, leaves or switches a channel meanwhile.
RecipientsCounted ==
  \A c \in Campaigns :
    Cardinality({r.user : r \in InApp(c)}) =
      IF campaign[c].status = "sent" THEN campaign[c].recipient_count ELSE 0
=============================================================================
