----------------------------- MODULE Messaging -----------------------------
(***************************************************************************)
(* The conversation of one booking (app/services/messaging.py).  It is     *)
(* made when it is first needed, by whichever party comes first, in the    *)
(* transaction of what that party does; an image is uploaded while the     *)
(* transaction is open.                                                    *)
(*                                                                         *)
(* created_at is when a transaction began and last_read_at is a time of    *)
(* the application; all that is compared is which of a message's           *)
(* transaction and a read came first.                                      *)
(***************************************************************************)
EXTENDS Naturals, FiniteSets

CONSTANTS
  Conversations,  \* ids of rows that may be made
  Parties,        \* the customer and the artist of the booking
  Messages,
  Sessions,
  None

VARIABLES
  conversation,   \* committed rows of the booking's conversations
  members,        \* conversation_members, by conversation
  message,        \* sender and conversation
  notified,       \* messages the other party has a notification of
  passed,         \* messages that count as read: their transaction began before the recipient's last read
  blocked,        \* whether one party has blocked the other
  session

tables == <<conversation, members, message, notified, passed, blocked>>
vars == <<conversation, members, message, notified, passed, blocked, session>>

Idle == [at |-> "idle"]

Init ==
  /\ conversation = {}
  /\ members = [c \in Conversations |-> {}]
  /\ message = [i \in Messages |-> None]
  /\ notified = {} /\ passed = {} /\ blocked = FALSE
  /\ session = [s \in Sessions |-> Idle]

Go(s, state) == session' = [session EXCEPT ![s] = state]
End(s) == Go(s, Idle)

Purposes == {"send", "read", "list"}

Uses(i) == {s \in Sessions : session[s] # Idle /\ session[s].message = i}

Begin(s, u, purpose, i) ==
  /\ session[s] = Idle
  /\ (purpose = "send") = (i # None)
  /\ i # None => message[i] = None /\ Uses(i) = {}
  /\ Go(s, [at |-> "begun", party |-> u, purpose |-> purpose, message |-> i,
            in |-> None, made |-> FALSE])
  /\ UNCHANGED tables

\* Rows others have inserted under the booking's key and not committed yet.
Uncommitted == {session[s].in : s \in {q \in Sessions : session[q] # Idle /\ session[q].made}}

Find(s) ==
  /\ session[s].at = "begun"
  /\ IF conversation = {}
     THEN Go(s, [session[s] EXCEPT !.at = "missing"])
     ELSE \E c \in conversation : Go(s, [session[s] EXCEPT !.at = "found", !.in = c])
  /\ UNCHANGED tables

\* Variant: nothing keeps a booking from having two conversations.
UniqueNot == TRUE

\* uq_conversations_booking_id: an insert waits for one that is not committed, and
\* fails if a row is there.
Unique == conversation = {} /\ Uncommitted = {}

Insert(s) ==
  /\ session[s].at = "missing" /\ Unique
  /\ \E c \in Conversations \ (conversation \cup Uncommitted) :
       Go(s, [session[s] EXCEPT !.at = "found", !.in = c, !.made = TRUE])
  /\ UNCHANGED tables

\* IntegrityError: the savepoint is rolled back and the winner is read.
Lose(s) ==
  /\ session[s].at = "missing" /\ ~Unique /\ conversation # {}
  /\ \E c \in conversation : Go(s, [session[s] EXCEPT !.at = "found", !.in = c])
  /\ UNCHANGED tables

\* What the commit of s makes visible of a conversation it made.
Publish(s) ==
  LET t == session[s] IN
  IF t.made
  THEN /\ conversation' = conversation \cup {t.in}
       /\ members' = [members EXCEPT ![t.in] = Parties]
  ELSE UNCHANGED <<conversation, members>>

\* The upload is over; the block is looked for now.
CheckBlock(s) ==
  /\ session[s].at = "found" /\ session[s].purpose = "send"
  /\ ~blocked
  /\ Go(s, [session[s] EXCEPT !.at = "flushed"])
  /\ UNCHANGED tables

Send(s) ==
  LET t == session[s] IN
  /\ t.at = "flushed"
  /\ Publish(s)
  /\ message' = [message EXCEPT ![t.message] = [by |-> t.party, in |-> t.in]]
  /\ notified' = notified \cup {t.message}
  /\ End(s)
  /\ UNCHANGED <<passed, blocked>>

SenderOf(i) ==
  IF message[i] # None THEN message[i].by
  ELSE IF Uses(i) # {} THEN session[CHOOSE s \in Uses(i) : TRUE].party ELSE None

\* Every message of the other party whose transaction has begun counts as read.
MarkRead(s) ==
  LET t == session[s] IN
  /\ t.at = "found" /\ t.purpose = "read"
  /\ Publish(s)
  /\ passed' = passed \cup {i \in Messages : SenderOf(i) \notin {None, t.party}}
  /\ End(s)
  /\ UNCHANGED <<message, notified, blocked>>

\* The conversation is made even for who only looks at it.
List(s) ==
  /\ session[s].at = "found" /\ session[s].purpose = "list"
  /\ Publish(s)
  /\ End(s)
  /\ UNCHANGED <<message, notified, passed, blocked>>

\* Refused, the upload failed, or the process was lost: nothing is kept.
Abort(s) ==
  /\ session[s] # Idle
  /\ passed' = passed \ {session[s].message}
  /\ End(s)
  /\ UNCHANGED <<conversation, members, message, notified, blocked>>

Block ==
  /\ blocked' = ~blocked
  /\ UNCHANGED <<conversation, members, message, notified, passed, session>>

Serve(s) ==
  \/ \E u \in Parties, p \in Purposes, i \in Messages \cup {None} : Begin(s, u, p, i)
  \/ Find(s) \/ Insert(s) \/ Lose(s)
  \/ CheckBlock(s) \/ Send(s) \/ MarkRead(s) \/ List(s) \/ Abort(s)

Next == (\E s \in Sessions : Serve(s)) \/ Block

Spec == Init /\ [][Next]_vars

-----------------------------------------------------------------------------

Sent == {i \in Messages : message[i] # None}

TypeOK ==
  /\ conversation \subseteq Conversations
  /\ members \in [Conversations -> SUBSET Parties]
  /\ notified \subseteq Messages /\ passed \subseteq Messages
  /\ blocked \in BOOLEAN

\* Both parties' first messages may come at once: they meet in one conversation,
\* and what either has sent is in it.
OneConversation ==
  /\ Cardinality(conversation) <= 1
  /\ \A i \in Sent : message[i].in \in conversation

\* No message counts as read before it was sent.
ReadWasSeen ==
  \A s \in Sessions : session[s] # Idle => session[s].message \notin passed
=============================================================================
