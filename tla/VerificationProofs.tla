------------------------- MODULE VerificationProofs -------------------------
(***************************************************************************)
(* Theorems about Verification.tla: types, for any number of requests that *)
(* are under way; and when the artist sends one request at a time and one  *)
(* reviewer decides at a time, that the staff decides on what was          *)
(* submitted, that the artist reads the last answer, and that the audit    *)
(* log tells the history.                                                  *)
(***************************************************************************)
EXTENDS Verification, SequenceTheorems, TLAPS

\* The artist has one request under way at a time, and so have the reviewers.
OneEach == (\A a, b \in Artist : a = b) /\ (\A q, r \in Reviewers : q = r)

(***************************************************************************)
(* Types                                                                   *)
(***************************************************************************)

Writers == {"edit", "submit", "decide"}

\* What a session has read, and which sessions do what.
SessionTyped(s, t) ==
  /\ t.at \in Writers => t.row \in Profile
  /\ t.at = "edit" => t.content \in Contents \cup {None}
  /\ t.at = "upload" => t.document \in Documents
  /\ t.at = "decide" => t.to \in Status
  /\ t.at \in {"edit", "submit"} => s \in Artist
  /\ t.at = "decide" => s \in Reviewers

Typed ==
  /\ TypeOK /\ log \in Seq(Status \X Status)
  /\ DOMAIN session = Sessions
  /\ \A s \in Sessions : SessionTyped(s, session[s])

\* The rows that the operations make are profiles.
LEMMA EditMade ==
  ASSUME NEW row \in Profile, NEW c \in Contents \cup {None}
  PROVE  /\ [row EXCEPT !.content = c] \in Profile
         /\ [row EXCEPT !.content = c].status = row.status
         /\ [row EXCEPT !.content = c].content = c
         /\ [row EXCEPT !.content = c].reason = row.reason
         /\ [row EXCEPT !.content = c].info = row.info
BY DEF Profile

LEMMA SubmitMade ==
  ASSUME NEW row \in Profile
  PROVE  /\ Submitted(row) \in Profile
         /\ Submitted(row).status = "submitted" /\ Submitted(row).content = row.content
         /\ Submitted(row).reason = FALSE /\ Submitted(row).info = FALSE
BY DEF Profile, Submitted, Status

LEMMA DecideMade ==
  ASSUME NEW row \in Profile, NEW to \in Status
  PROVE  /\ Decided(row, to) \in Profile
         /\ Decided(row, to).status = to /\ Decided(row, to).content = row.content
         /\ Decided(row, to).reason = (to \in {"rejected", "suspended"})
         /\ Decided(row, to).info = (to = "more_information_required")
<1>1. PICK why, more : /\ why = (to \in {"rejected", "suspended"})
                       /\ more = (to = "more_information_required")
  OBVIOUS
<1>2. why \in BOOLEAN /\ more \in BOOLEAN
  BY <1>1
<1>3. Decided(row, to) = [row EXCEPT !.status = to, !.reason = why, !.info = more]
  BY <1>1 DEF Decided
<1>4. /\ [row EXCEPT !.status = to, !.reason = why, !.info = more] \in Profile
      /\ [row EXCEPT !.status = to, !.reason = why, !.info = more].status = to
      /\ [row EXCEPT !.status = to, !.reason = why, !.info = more].content = row.content
      /\ [row EXCEPT !.status = to, !.reason = why, !.info = more].reason = why
      /\ [row EXCEPT !.status = to, !.reason = why, !.info = more].info = more
  BY <1>2 DEF Profile
<1>5. QED
  BY <1>1, <1>3, <1>4

\* What is flushed of a profile is a profile; if the row was current, it is what was set.
LEMMA Flushed ==
  ASSUME NEW stored \in Profile, NEW row \in Profile, NEW next \in Profile, NEW new,
         new = [f \in DOMAIN stored |-> Emit(row[f], next[f], stored[f])]
  PROVE  /\ new \in Profile
         /\ row = stored => /\ new.status = next.status /\ new.content = next.content
                            /\ new.reason = next.reason /\ new.info = next.info
<1>1. DOMAIN stored = {"status", "content", "reason", "info"}
  BY DEF Profile
<1>2. /\ new.status = Emit(row.status, next.status, stored.status)
      /\ new.content = Emit(row.content, next.content, stored.content)
      /\ new.reason = Emit(row.reason, next.reason, stored.reason)
      /\ new.info = Emit(row.info, next.info, stored.info)
  BY <1>1
<1>3. new = [status |-> new.status, content |-> new.content,
             reason |-> new.reason, info |-> new.info]
  BY <1>1
<1>4. /\ new.status \in Status /\ new.content \in Contents \cup {None}
      /\ new.reason \in BOOLEAN /\ new.info \in BOOLEAN
  BY <1>2 DEF Profile, Emit
<1>5. new \in Profile
  BY <1>3, <1>4 DEF Profile
<1>6. QED
  BY <1>2, <1>5 DEF Emit

Constants == MaxEntries \in Nat

\* A session that begins or ends changes no table.
LEMMA GoTyped ==
  ASSUME Typed, NEW s \in Sessions, NEW t, Go(s, t), SessionTyped(s, t),
         TypeOK', log' \in Seq(Status \X Status)
  PROVE  Typed'
<1>1. DOMAIN session' = Sessions /\ \A u \in Sessions : session'[u] = IF u = s THEN t ELSE session[u]
  BY DEF Typed, Go
<1>2. \A u \in Sessions : SessionTyped(u, session'[u])
  BY <1>1 DEF Typed
<1>3. QED
  BY <1>1, <1>2 DEF Typed, SessionTyped

\* An idle session has read nothing.
LEMMA IdleTyped == \A s : SessionTyped(s, Idle)
BY DEF SessionTyped, Idle, Writers

\* A session that has only been idle or begun leaves the tables as they are.
LEMMA TablesUntouched ==
  ASSUME Typed, UNCHANGED <<profile, document, log, submitted>>
  PROVE  TypeOK' /\ log' \in Seq(Status \X Status)
BY DEF Typed, TypeOK

\* One entry more of the audit log.
LEMMA RecordTyped ==
  ASSUME Constants, Typed, NEW from \in Status, NEW to \in Status, Record(from, to)
  PROVE  log' \in Seq(Status \X Status) /\ Len(log') <= MaxEntries /\ Len(log') = Len(log) + 1
<1>1. <<from, to>> \in Status \X Status /\ log \in Seq(Status \X Status)
  BY DEF Typed
<1>2. log' = Append(log, <<from, to>>) /\ Len(log) < MaxEntries
  BY DEF Record
<1>3. log' \in Seq(Status \X Status) /\ Len(log') = Len(log) + 1 /\ Len(log) \in Nat
  BY <1>1, <1>2
<1>4. QED
  BY <1>2, <1>3 DEF Constants

\* The three that write a profile.
LEMMA EditTyped ==
  ASSUME Typed, NEW s \in Artist, Edit(s)
  PROVE  Typed'
<1>1. /\ session[s].row \in Profile /\ session[s].content \in Contents \cup {None}
      /\ s \in Sessions
  BY DEF Typed, SessionTyped, Edit, Writers, Sessions
<1>2. PICK next : next = [session[s].row EXCEPT !.content = session[s].content]
  OBVIOUS
<1>3. next \in Profile
  BY <1>1, <1>2, EditMade
<1>4. /\ profile' = [f \in DOMAIN profile |-> Emit(session[s].row[f], next[f], profile[f])]
      /\ Go(s, Idle) /\ UNCHANGED <<document, log, submitted>>
  BY <1>2 DEF Edit, Write
<1>5. profile' \in Profile
  BY <1>1, <1>3, <1>4, Flushed DEF Typed, TypeOK
<1>6. TypeOK' /\ log' \in Seq(Status \X Status)
  BY <1>4, <1>5 DEF Typed, TypeOK
<1>7. QED
  BY <1>1, <1>4, <1>6, GoTyped, IdleTyped

LEMMA SubmitTyped ==
  ASSUME Constants, Typed, NEW s \in Artist, Submit(s)
  PROVE  Typed'
<1>1. session[s].row \in Profile /\ s \in Sessions
  BY DEF Typed, SessionTyped, Submit, Writers, Sessions
<1>2. /\ Submitted(session[s].row) \in Profile
      /\ session[s].row.status \in Status /\ "submitted" \in Status
      /\ session[s].row.content \in Contents \cup {None}
  BY <1>1, SubmitMade DEF Profile, Status
<1>3. /\ profile' = [f \in DOMAIN profile |->
             Emit(session[s].row[f], Submitted(session[s].row)[f], profile[f])]
      /\ Go(s, Idle) /\ Record(session[s].row.status, "submitted")
      /\ submitted' = session[s].row.content /\ UNCHANGED document
  BY DEF Submit, Write
<1>4. profile' \in Profile
  BY <1>1, <1>2, <1>3, Flushed DEF Typed, TypeOK
<1>5. log' \in Seq(Status \X Status) /\ Len(log') <= MaxEntries
  BY <1>2, <1>3, RecordTyped
<1>6. TypeOK'
  BY <1>2, <1>3, <1>4, <1>5 DEF Typed, TypeOK
<1>7. QED
  BY <1>1, <1>3, <1>5, <1>6, GoTyped, IdleTyped

LEMMA DecideTyped ==
  ASSUME Constants, Typed, NEW s \in Reviewers, Decide(s)
  PROVE  Typed'
<1>1. session[s].row \in Profile /\ session[s].to \in Status /\ s \in Sessions
  BY DEF Typed, SessionTyped, Decide, Writers, Sessions
<1>2. Decided(session[s].row, session[s].to) \in Profile /\ session[s].row.status \in Status
  BY <1>1, DecideMade DEF Profile
<1>3. /\ profile' = [f \in DOMAIN profile |->
             Emit(session[s].row[f], Decided(session[s].row, session[s].to)[f], profile[f])]
      /\ Go(s, Idle) /\ Record(session[s].row.status, session[s].to)
      /\ UNCHANGED <<document, submitted>>
  BY DEF Decide, Write
<1>4. profile' \in Profile
  BY <1>1, <1>2, <1>3, Flushed DEF Typed, TypeOK
<1>5. log' \in Seq(Status \X Status) /\ Len(log') <= MaxEntries
  BY <1>1, <1>2, <1>3, RecordTyped
<1>6. TypeOK'
  BY <1>3, <1>4, <1>5 DEF Typed, TypeOK
<1>7. QED
  BY <1>1, <1>3, <1>5, <1>6, GoTyped, IdleTyped

\* The others write a document or nothing.
LEMMA BeginTyped ==
  ASSUME Typed, NEW s \in Sessions, NEW t, Begin(s, t), SessionTyped(s, t)
  PROVE  Typed'
BY GoTyped, TablesUntouched DEF Begin

LEMMA DocumentsTyped ==
  ASSUME Typed, UNCHANGED <<profile, log, submitted>>,
         document' \in [Documents -> {"none", "pending", "approved", "rejected"}]
  PROVE  TypeOK' /\ log' \in Seq(Status \X Status)
BY DEF Typed, TypeOK

\* What the checks read.
LEMMA ChecksTyped ==
  ASSUME Typed
  PROVE  /\ \A s \in Artist :
              /\ \A c \in Contents \cup {None} : CheckEdit(s, c) =>
                   SessionTyped(s, [at |-> "edit", row |-> profile, content |-> c])
              /\ CheckSubmit(s) => SessionTyped(s, [at |-> "submit", row |-> profile])
              /\ \A d \in Documents : SessionTyped(s, [at |-> "upload", document |-> d])
         /\ \A s \in Reviewers, to \in Status :
              SessionTyped(s, [at |-> "decide", row |-> profile, to |-> to])
BY DEF Typed, TypeOK, SessionTyped, Writers

\* Types are kept by every step, however many sessions there are.
LEMMA TypedNext ==
  ASSUME Constants, Typed, [Next]_vars
  PROVE  Typed'
<1>1. CASE UNCHANGED vars
  BY <1>1 DEF vars, Typed, TypeOK, SessionTyped
<1>2. CASE Start
  <2>1. profile' \in Profile /\ UNCHANGED <<document, log, session, submitted>>
    BY <1>2 DEF Start, Typed, TypeOK, Profile, Status
  <2>2. QED
    BY <2>1 DEF Typed, TypeOK, SessionTyped
<1>3. ASSUME NEW s \in Artist,
             \/ \E c \in Contents \cup {None} : CheckEdit(s, c)
             \/ \E d \in Documents : CheckUpload(s, d)
             \/ CheckSubmit(s)
      PROVE  Typed'
  <2>1. s \in Sessions
    BY DEF Sessions
  <2>2. ASSUME NEW c \in Contents \cup {None}, CheckEdit(s, c)
        PROVE  Typed'
    BY <2>1, <2>2, ChecksTyped, BeginTyped DEF CheckEdit
  <2>3. ASSUME NEW d \in Documents, CheckUpload(s, d)
        PROVE  Typed'
    BY <2>1, <2>3, ChecksTyped, BeginTyped DEF CheckUpload
  <2>4. CASE CheckSubmit(s)
    BY <2>1, <2>4, ChecksTyped, BeginTyped DEF CheckSubmit
  <2>5. QED
    BY <1>3, <2>2, <2>3, <2>4
<1>4. ASSUME NEW s \in Artist, Upload(s)
      PROVE  Typed'
  <2>1. s \in Sessions /\ session[s].document \in Documents
    BY <1>4 DEF Sessions, Upload, Typed, SessionTyped
  <2>2. /\ document' = [document EXCEPT ![session[s].document] = "pending"]
        /\ Go(s, Idle) /\ UNCHANGED <<profile, log, submitted>>
    BY <1>4 DEF Upload
  <2>3. document' \in [Documents -> {"none", "pending", "approved", "rejected"}]
    BY <2>1, <2>2 DEF Typed, TypeOK
  <2>4. QED
    BY <2>1, <2>2, <2>3, DocumentsTyped, GoTyped, IdleTyped
<1>5. ASSUME NEW s \in Reviewers, NEW to \in Status, CheckDecide(s, to)
      PROVE  Typed'
  <2>1. s \in Sessions
    BY DEF Sessions
  <2>2. QED
    BY <1>5, <2>1, ChecksTyped, BeginTyped DEF CheckDecide
<1>6. ASSUME NEW d \in Documents, ReviewDocument(d)
      PROVE  Typed'
  <2>1. /\ document' \in [Documents -> {"none", "pending", "approved", "rejected"}]
        /\ UNCHANGED <<profile, log, session, submitted>>
    BY <1>6 DEF ReviewDocument, Typed, TypeOK
  <2>2. QED
    BY <2>1, DocumentsTyped DEF Typed, SessionTyped
<1>7. ASSUME NEW s \in Sessions, Abort(s)
      PROVE  Typed'
  BY <1>7, TablesUntouched, GoTyped, IdleTyped DEF Abort
<1>8. QED
  BY <1>1, <1>2, <1>3, <1>4, <1>5, <1>6, <1>7, EditTyped, SubmitTyped, DecideTyped DEF Next

\* Nothing has been applied for.
LEMMA InitTyped ==
  ASSUME Constants, Init
  PROVE  Typed
<1>1. TypeOK
  BY DEF Constants, Init, TypeOK, Profile, Status
<1>2. log \in Seq(Status \X Status)
  BY DEF Init
<1>3. QED
  BY <1>1, <1>2, IdleTyped DEF Init, Typed

\* The profile, the documents and the log keep their types, whatever requests of the
\* artist and of reviewers overlap.
THEOREM TypeCorrect ==
  ASSUME Constants
  PROVE  Spec => []TypeOK
<1>1. Init => Typed
  BY InitTyped
<1>2. Typed /\ [Next]_vars => Typed'
  BY TypedNext
<1>3. Typed => TypeOK
  BY DEF Typed
<1>4. QED
  BY <1>1, <1>2, <1>3, PTL DEF Spec

(***************************************************************************)
(* The invariant                                                           *)
(***************************************************************************)

\* Whoever is about to write has read the profile as it is: the artist one that may be
\* edited, a reviewer one that may be decided on.
ReadsCurrent(t) ==
  /\ t.at \in Writers => t.row = profile
  /\ t.at \in {"edit", "submit"} => profile.status \in Editable
  /\ t.at = "submit" => profile.content # None
  /\ t.at = "decide" => <<profile.status, t.to>> \in StaffTransitions

SoundInv ==
  /\ Typed
  /\ \A s \in Sessions : ReadsCurrent(session[s])
  /\ profile.status = "none" => log = << >>
  /\ ReviewedAsSubmitted /\ NoStaleReason /\ AuditChained

\* The artist and the reviewers never have a writer each under way.
LEMMA OneWriter ==
  ASSUME OneEach, SoundInv, NEW s \in Sessions, session[s].at \in Writers,
         NEW u \in Sessions \ {s}
  PROVE  session[u].at \notin Writers
<1>1. /\ SessionTyped(s, session[s]) /\ SessionTyped(u, session[u])
      /\ ReadsCurrent(session[s]) /\ ReadsCurrent(session[u])
  BY DEF SoundInv, Typed
<1>2. \A t : t.at = "decide" /\ ReadsCurrent(t) => profile.status \notin Editable
  BY DEF ReadsCurrent, StaffTransitions, Editable
<1>3. QED
  BY <1>1, <1>2 DEF OneEach, Writers, SessionTyped, ReadsCurrent

\* Only one's own step is to be looked at when the profile stays as it is.
LEMMA ProfileStays ==
  ASSUME SoundInv, Typed', UNCHANGED <<profile, log, submitted>>,
         \A u \in Sessions : session'[u] = session[u] \/ ReadsCurrent(session'[u])
  PROVE  SoundInv'
<1>1. \A u \in Sessions : ReadsCurrent(session'[u])
  BY DEF SoundInv
<1>2. \A t : ReadsCurrent(t) => ReadsCurrent(t)'
  BY DEF ReadsCurrent
<1>3. \A u \in Sessions : ReadsCurrent(session[u])'
  BY <1>1 DEF ReadsCurrent
<1>4. ReviewedAsSubmitted' /\ NoStaleReason'
  BY DEF SoundInv, ReviewedAsSubmitted, NoStaleReason
<1>5. AuditChained'
  BY DEF SoundInv, AuditChained
<1>6. QED
  BY <1>3, <1>4, <1>5 DEF SoundInv

\* The only writer ends: nobody else has read the profile.
LEMMA WriterEnds ==
  ASSUME OneEach, SoundInv, Typed', NEW s \in Sessions, session[s].at \in Writers, Go(s, Idle),
         profile'.status # "none", ReviewedAsSubmitted', NoStaleReason', AuditChained'
  PROVE  SoundInv'
<1>1. \A u \in Sessions : session'[u] = IF u = s THEN Idle ELSE session[u]
  BY DEF SoundInv, Typed, Go
<1>2. \A u \in Sessions : session'[u].at \notin Writers
  BY <1>1, OneWriter DEF Idle, Writers
<1>3. \A u \in Sessions : ReadsCurrent(session[u])'
  BY <1>2 DEF ReadsCurrent, Writers
<1>4. QED
  BY <1>3 DEF SoundInv

\* The log goes on where it ended.
LEMMA ChainGoesOn ==
  ASSUME SoundInv, profile.status # "none", NEW to \in Status,
         Record(profile.status, to), profile'.status = to
  PROVE  AuditChained'
<1>1. /\ log \in Seq(Status \X Status) /\ Len(log) \in Nat /\ profile.status \in Status
      /\ log' = Append(log, <<profile.status, to>>)
  BY DEF SoundInv, Typed, TypeOK, Profile, Record
<1>2. /\ Len(log') = Len(log) + 1 /\ log'[Len(log) + 1] = <<profile.status, to>>
      /\ \A i \in 1..Len(log) : log'[i] = log[i]
  BY <1>1
<1>3. /\ \A i \in 1..Len(log) : log[i][1] = IF i = 1 THEN "draft" ELSE log[i - 1][2]
      /\ profile.status = IF Len(log) + 1 = 1 THEN "draft" ELSE log[Len(log)][2]
  BY <1>1 DEF SoundInv, AuditChained
<1>4. ASSUME NEW i \in 1..Len(log')
      PROVE  log'[i][1] = IF i = 1 THEN "draft" ELSE log'[i - 1][2]
  <2>1. i \in 1..Len(log) \/ i = Len(log) + 1
    BY <1>1, <1>2
  <2>2. CASE i \in 1..Len(log)
    <3>1. i # 1 => i - 1 \in 1..Len(log)
      BY <1>1, <2>2
    <3>2. QED
      BY <1>2, <1>3, <2>2, <3>1
  <2>3. CASE i = Len(log) + 1
    <3>1. i # 1 => Len(log) \in 1..Len(log) /\ i - 1 = Len(log)
      BY <1>1, <2>3
    <3>2. log'[i][1] = profile.status
      BY <1>2, <2>3
    <3>3. QED
      BY <1>2, <1>3, <2>3, <3>1, <3>2
  <2>4. QED
    BY <2>1, <2>2, <2>3
<1>5. profile'.status = IF Len(log') + 1 = 1 THEN "draft" ELSE log'[Len(log') + 1 - 1][2]
  <2>1. Len(log') + 1 # 1 /\ Len(log') + 1 - 1 = Len(log) + 1
    BY <1>1, <1>2
  <2>2. log'[Len(log) + 1][2] = to
    BY <1>2
  <2>3. QED
    BY <2>1, <2>2
<1>6. QED
  BY <1>4, <1>5 DEF AuditChained

\* What is edited is not being reviewed.
LEMMA EditKeeps ==
  ASSUME OneEach, SoundInv, Typed', NEW s \in Artist, Edit(s)
  PROVE  SoundInv'
<1>1. /\ s \in Sessions /\ session[s].at = "edit" /\ session[s].row = profile
      /\ session[s].content \in Contents \cup {None}
      /\ profile.status \in Editable /\ profile \in Profile
  BY DEF Sessions, Edit, SoundInv, Typed, TypeOK, SessionTyped, ReadsCurrent, Writers
<1>2. PICK next : next = [profile EXCEPT !.content = session[s].content]
  OBVIOUS
<1>3. next \in Profile /\ next.status = profile.status
      /\ next.reason = profile.reason /\ next.info = profile.info
  <2>1. PICK c \in Contents \cup {None} : c = session[s].content
    BY <1>1
  <2>2. next = [profile EXCEPT !.content = c]
    BY <1>2, <2>1
  <2>3. QED
    BY <1>1, <2>2 DEF Profile
<1>4. /\ profile' = [f \in DOMAIN profile |-> Emit(profile[f], next[f], profile[f])]
      /\ Go(s, Idle) /\ UNCHANGED <<log, submitted>>
  BY <1>1, <1>2 DEF Edit, Write
<1>5. /\ profile'.status = profile.status
      /\ profile'.reason = profile.reason /\ profile'.info = profile.info
  BY <1>1, <1>3, <1>4, Flushed
<1>6. ReviewedAsSubmitted' /\ NoStaleReason' /\ AuditChained'
  <2>1. ReviewedAsSubmitted'
    BY <1>1, <1>5 DEF ReviewedAsSubmitted
  <2>2. NoStaleReason'
    BY <1>5 DEF SoundInv, NoStaleReason
  <2>3. AuditChained'
    BY <1>4, <1>5 DEF SoundInv, AuditChained
  <2>4. QED
    BY <2>1, <2>2, <2>3
<1>7. session[s].at \in Writers /\ profile'.status # "none"
  BY <1>1, <1>5 DEF Writers, Editable
<1>8. QED
  BY <1>1, <1>4, <1>6, <1>7, WriterEnds

\* What is submitted is what is stored, with no answer left over.
LEMMA SubmitKeeps ==
  ASSUME OneEach, SoundInv, Typed', NEW s \in Artist, Submit(s)
  PROVE  SoundInv'
<1>1. /\ s \in Sessions /\ session[s].at = "submit" /\ session[s].row = profile
      /\ profile.content # None
      /\ profile.status \in Editable /\ profile \in Profile
  BY DEF Sessions, Submit, SoundInv, Typed, TypeOK, SessionTyped, ReadsCurrent, Writers
<1>2. /\ profile' = [f \in DOMAIN profile |-> Emit(profile[f], Submitted(profile)[f], profile[f])]
      /\ Go(s, Idle) /\ Record(profile.status, "submitted") /\ submitted' = profile.content
  BY <1>1 DEF Submit, Write
<1>3. /\ profile'.status = "submitted" /\ profile'.content = profile.content
      /\ profile'.reason = FALSE /\ profile'.info = FALSE
  <2>1. PICK next : next = Submitted(profile)
    OBVIOUS
  <2>2. /\ next \in Profile /\ next.status = "submitted" /\ next.content = profile.content
        /\ next.reason = FALSE /\ next.info = FALSE
    BY <1>1, <2>1, SubmitMade
  <2>3. profile' = [f \in DOMAIN profile |-> Emit(profile[f], next[f], profile[f])]
    BY <1>2, <2>1
  <2>4. QED
    BY <1>1, <2>2, <2>3, Flushed
<1>4. ReviewedAsSubmitted' /\ NoStaleReason'
  BY <1>1, <1>2, <1>3 DEF ReviewedAsSubmitted, NoStaleReason
<1>5. AuditChained'
  <2>1. profile.status # "none" /\ "submitted" \in Status
    BY <1>1 DEF Editable, Status
  <2>2. QED
    BY <1>2, <1>3, <2>1, ChainGoesOn
<1>6. session[s].at \in Writers /\ profile'.status # "none"
  BY <1>1, <1>3 DEF Writers
<1>7. QED
  BY <1>1, <1>2, <1>4, <1>5, <1>6, WriterEnds

\* What is decided on is what was submitted.
LEMMA DecideKeeps ==
  ASSUME OneEach, SoundInv, Typed', NEW s \in Reviewers, Decide(s)
  PROVE  SoundInv'
<1>1. PICK to : to = session[s].to
  OBVIOUS
<1>2. /\ s \in Sessions /\ session[s].at = "decide" /\ session[s].row = profile
      /\ to \in Status /\ <<profile.status, to>> \in StaffTransitions /\ profile \in Profile
  BY <1>1 DEF Sessions, Decide, SoundInv, Typed, TypeOK, SessionTyped, ReadsCurrent, Writers
<1>3. /\ profile' = [f \in DOMAIN profile |-> Emit(profile[f], Decided(profile, to)[f], profile[f])]
      /\ Go(s, Idle) /\ Record(profile.status, to) /\ UNCHANGED submitted
  BY <1>1, <1>2 DEF Decide, Write
<1>4. /\ profile'.status = to /\ profile'.content = profile.content
      /\ profile'.reason = (to \in {"rejected", "suspended"})
      /\ profile'.info = (to = "more_information_required")
  <2>1. PICK next : next = Decided(profile, to)
    OBVIOUS
  <2>2. /\ next \in Profile /\ next.status = to /\ next.content = profile.content
        /\ next.reason = (to \in {"rejected", "suspended"})
        /\ next.info = (to = "more_information_required")
    <3>1. /\ Decided(profile, to) \in Profile
          /\ Decided(profile, to).status = to
          /\ Decided(profile, to).content = profile.content
          /\ Decided(profile, to).reason = (to \in {"rejected", "suspended"})
          /\ Decided(profile, to).info = (to = "more_information_required")
      BY <1>2, DecideMade
    <3>2. QED
      BY <2>1, <3>1
  <2>3. profile' = [f \in DOMAIN profile |-> Emit(profile[f], next[f], profile[f])]
    BY <1>3, <2>1
  <2>4. QED
    BY <1>2, <2>2, <2>3, Flushed
<1>5. /\ profile.status \notin Editable \cup {"none"} /\ to # "none"
  BY <1>2 DEF StaffTransitions, Editable
<1>6. ReviewedAsSubmitted'
  BY <1>3, <1>4, <1>5 DEF SoundInv, ReviewedAsSubmitted
<1>7. NoStaleReason'
  BY <1>4 DEF NoStaleReason
<1>8. AuditChained'
  BY <1>2, <1>3, <1>4, <1>5, ChainGoesOn
<1>9. session[s].at \in Writers /\ profile'.status # "none"
  BY <1>2, <1>4, <1>5 DEF Writers
<1>10. QED
  BY <1>2, <1>3, <1>6, <1>7, <1>8, <1>9, WriterEnds

\* A session begins or ends without writing the profile.
LEMMA GoKeeps ==
  ASSUME SoundInv, Typed', NEW s \in Sessions, NEW t, Go(s, t), ReadsCurrent(t),
         UNCHANGED <<profile, log, submitted>>
  PROVE  SoundInv'
<1>1. \A u \in Sessions : session'[u] = session[u] \/ ReadsCurrent(session'[u])
  BY DEF SoundInv, Typed, Go
<1>2. QED
  BY <1>1, ProfileStays

\* Every step keeps the invariant.
LEMMA SoundNext ==
  ASSUME Constants, OneEach, SoundInv, [Next]_vars
  PROVE  SoundInv'
<1>1. Typed'
  BY TypedNext DEF SoundInv
<1>2. ReadsCurrent(Idle) /\ \A d : ReadsCurrent([at |-> "upload", document |-> d])
  BY DEF ReadsCurrent, Idle, Writers
<1>3. CASE UNCHANGED <<profile, log, session, submitted>>
  BY <1>1, <1>3, ProfileStays
<1>4. CASE Start
  <2>1. /\ profile.status = "none" /\ log = << >> /\ profile \in Profile
        /\ profile' = [profile EXCEPT !.status = "draft"]
        /\ UNCHANGED <<log, session, submitted>>
    BY <1>4 DEF Start, SoundInv, Typed, TypeOK
  <2>2. /\ profile'.status = "draft" /\ profile'.reason = profile.reason
        /\ profile'.info = profile.info
    BY <2>1 DEF Profile
  <2>3. \A u \in Sessions : session[u].at \notin Writers
    BY <2>1 DEF SoundInv, ReadsCurrent, Writers, Editable, StaffTransitions
  <2>4. \A u \in Sessions : ReadsCurrent(session[u])'
    BY <2>1, <2>3 DEF ReadsCurrent, Writers
  <2>5. ReviewedAsSubmitted' /\ NoStaleReason'
    BY <2>1, <2>2 DEF SoundInv, ReviewedAsSubmitted, NoStaleReason, Editable
  <2>6. AuditChained'
    BY <2>1, <2>2 DEF AuditChained
  <2>7. QED
    BY <1>1, <2>1, <2>4, <2>5, <2>6 DEF SoundInv
<1>5. ASSUME NEW s \in Artist,
             \/ \E c \in Contents \cup {None} : CheckEdit(s, c)
             \/ \E d \in Documents : CheckUpload(s, d)
             \/ CheckSubmit(s) \/ Upload(s)
      PROVE  SoundInv'
  <2>1. s \in Sessions
    BY DEF Sessions
  <2>2. ASSUME NEW c \in Contents \cup {None}, CheckEdit(s, c)
        PROVE  SoundInv'
    <3>1. ReadsCurrent([at |-> "edit", row |-> profile, content |-> c])
      BY <2>2 DEF CheckEdit, ReadsCurrent
    <3>2. QED
      BY <1>1, <2>1, <2>2, <3>1, GoKeeps DEF CheckEdit, Begin
  <2>3. ASSUME NEW d \in Documents, CheckUpload(s, d)
        PROVE  SoundInv'
    BY <1>1, <1>2, <2>1, <2>3, GoKeeps DEF CheckUpload, Begin
  <2>4. CASE CheckSubmit(s)
    <3>1. ReadsCurrent([at |-> "submit", row |-> profile])
      BY <2>4 DEF CheckSubmit, ReadsCurrent, Complete, SelfTransitions, Editable
    <3>2. QED
      BY <1>1, <2>1, <2>4, <3>1, GoKeeps DEF CheckSubmit, Begin
  <2>5. CASE Upload(s)
    BY <1>1, <1>2, <2>1, <2>5, GoKeeps DEF Upload
  <2>6. QED
    BY <1>5, <2>2, <2>3, <2>4, <2>5
<1>6. ASSUME NEW s \in Reviewers, NEW to \in Status, CheckDecide(s, to)
      PROVE  SoundInv'
  <2>1. s \in Sessions
    BY DEF Sessions
  <2>2. ReadsCurrent([at |-> "decide", row |-> profile, to |-> to])
    BY <1>6 DEF CheckDecide, ReadsCurrent
  <2>3. QED
    BY <1>1, <1>6, <2>1, <2>2, GoKeeps DEF CheckDecide, Begin
<1>7. ASSUME NEW s \in Sessions, Abort(s)
      PROVE  SoundInv'
  BY <1>1, <1>2, <1>7, GoKeeps DEF Abort
<1>8. ASSUME NEW d \in Documents, ReviewDocument(d)
      PROVE  SoundInv'
  BY <1>3, <1>8 DEF ReviewDocument
<1>9. CASE UNCHANGED vars
  BY <1>3, <1>9 DEF vars
<1>10. QED
  BY <1>1, <1>4, <1>5, <1>6, <1>7, <1>8, <1>9, EditKeeps, SubmitKeeps, DecideKeeps DEF Next

\* What the staff decides on is what the artist submitted, the artist reads the answer of
\* the last decision, and the audit log is the history of the status, if the artist has one
\* request under way at a time and the reviewers have one.
THEOREM VerificationStaysSound ==
  ASSUME Constants, OneEach
  PROVE  Spec => []VerificationIsSound
<1>1. Init => SoundInv
  <2>1. Init => Typed
    BY InitTyped
  <2>2. ASSUME Init
        PROVE  /\ \A s \in Sessions : ReadsCurrent(session[s])
               /\ log = << >> /\ ReviewedAsSubmitted /\ NoStaleReason
    BY <2>2 DEF Init, ReadsCurrent, Idle, Writers, ReviewedAsSubmitted, NoStaleReason
  <2>3. ASSUME Init
        PROVE  AuditChained
    BY <2>3 DEF Init, AuditChained
  <2>4. QED
    BY <2>1, <2>2, <2>3 DEF SoundInv
<1>2. SoundInv /\ [Next]_vars => SoundInv'
  BY SoundNext
<1>3. SoundInv => VerificationIsSound
  BY DEF SoundInv, VerificationIsSound
<1>4. QED
  BY <1>1, <1>2, <1>3, PTL DEF Spec
=============================================================================
