------------------------------ MODULE Previews ------------------------------
(***************************************************************************)
(* Hand and foot preview projects (app/services/previews.py): rows that    *)
(* name objects of a private bucket.  An object is uploaded or deleted     *)
(* before the transaction that says so commits.                            *)
(*                                                                         *)
(* A path is the project, "source" or "result", and the format of the      *)
(* image; the composite a client exports is known by the photo it shows.   *)
(***************************************************************************)
EXTENDS FiniteSets

CONSTANTS
  Previews, Photos, Formats, Sessions, None,
  Together,    \* whether requests about one project may overlap
  Failing      \* whether the bucket may refuse a deletion, and a process be lost

VARIABLES
  project,     \* preview_projects: status, and the formats the two paths name
  bucket,      \* the photo each object shows, by path
  session,
  interrupted  \* history: projects that lost a request, and have had no new photo since

vars == <<project, bucket, session, interrupted>>

Kinds == {"source", "result"}
Paths == Previews \X Kinds \X Formats

Idle == [at |-> "idle"]

Init ==
  /\ project = [p \in Previews |-> [status |-> "none", source |-> None, result |-> None]]
  /\ bucket = [path \in Paths |-> None]
  /\ session = [s \in Sessions |-> Idle]
  /\ interrupted = {}

Go(s, state) == session' = [session EXCEPT ![s] = state]
End(s) == Go(s, Idle)

Alone(p) == \A s \in Sessions : session[s] # Idle => session[s].of # p

-----------------------------------------------------------------------------
(* Requests *)

\* The photo is stored under an id made for it, then the row is inserted.
StartCreate(s, p) ==
  /\ session[s] = Idle
  /\ project[p].status = "none" /\ Alone(p)
  /\ \A k \in Kinds, f \in Formats : bucket[<<p, k, f>>] = None
  /\ \E f \in Formats, k \in Photos :
       /\ bucket' = [bucket EXCEPT ![<<p, "source", f>>] = k]
       /\ Go(s, [at |-> "inserting", of |-> p, new |-> f])
  /\ UNCHANGED <<project, interrupted>>

Insert(s) ==
  LET t == session[s] IN
  /\ t.at = "inserting"
  /\ project' = [project EXCEPT ![t.of] = [status |-> "live", source |-> t.new, result |-> None]]
  /\ End(s)
  /\ UNCHANGED <<bucket, interrupted>>

\* What a composite shows is the photo its client was shown.
Read(s, p, op) ==
  /\ session[s] = Idle
  /\ project[p].status = "live"
  /\ Together \/ Alone(p)
  /\ Go(s, [at |-> op, of |-> p, row |-> project[p],
            photo |-> bucket[<<p, "source", project[p].source>>]])
  /\ UNCHANGED <<project, bucket, interrupted>>

Doomed(p, kind, format) == IF format = None THEN {} ELSE {<<p, kind, format>>}

\* Variant: what has just been uploaded under the old path is deleted.
SupersededAlways(t, f) ==
  Doomed(t.of, "source", t.row.source) \cup Doomed(t.of, "result", t.row.result)

\* What a new photo in format f makes of no use: the old photo unless it was
\* replaced in place, and the composite made of it.
Superseded(t, f) ==
  (IF t.row.source = f THEN {} ELSE Doomed(t.of, "source", t.row.source))
    \cup Doomed(t.of, "result", t.row.result)

\* Variant: the composite is kept.
ReplacedKeepingResult(t, f) == [t.row EXCEPT !.source = f]

Replaced(t, f) == [t.row EXCEPT !.source = f, !.result = None]

Commit(t, row, doomed) ==
  [at |-> "committing", of |-> t.of, row |-> t.row, new |-> row, doomed |-> doomed]

ReplacePhoto(s) ==
  LET t == session[s] IN
  /\ t.at = "update"
  /\ \E f \in Formats, k \in Photos :
       /\ bucket' = [bucket EXCEPT ![<<t.of, "source", f>>] = k]
       /\ Go(s, Commit(t, Replaced(t, f), Superseded(t, f)))
  /\ UNCHANGED <<project, interrupted>>

Export(s) ==
  LET t == session[s] IN
  /\ t.at = "export"
  /\ \E f \in Formats :
       /\ bucket' = [bucket EXCEPT ![<<t.of, "result", f>>] = t.photo]
       /\ Go(s, Commit(t, [t.row EXCEPT !.result = f],
                       IF t.row.result = f THEN {} ELSE Doomed(t.of, "result", t.row.result)))
  /\ UNCHANGED <<project, interrupted>>

\* Variant: only the photo is erased.
ErasedSource(t) == Doomed(t.of, "source", t.row.source)

Erased(t) ==
  Doomed(t.of, "source", t.row.source) \cup Doomed(t.of, "result", t.row.result)

Delete(s) ==
  LET t == session[s] IN
  /\ t.at = "delete"
  /\ Go(s, Commit(t, [t.row EXCEPT !.status = "deleted"], Erased(t)))
  /\ UNCHANGED <<project, bucket, interrupted>>

\* The upload fails: 502, and nothing is written.
Refuse(s) ==
  /\ session[s].at \in {"update", "export"}
  /\ End(s)
  /\ UNCHANGED <<project, bucket, interrupted>>

-----------------------------------------------------------------------------
(* The end of a request *)

\* A deletion that fails is let pass.
Remove(s) ==
  LET t == session[s] IN
  /\ t.at = "committing"
  /\ \E path \in t.doomed :
       /\ \/ bucket' = [bucket EXCEPT ![path] = None]
          \/ Failing /\ UNCHANGED bucket
       /\ Go(s, [t EXCEPT !.doomed = @ \ {path}])
  /\ UNCHANGED <<project, interrupted>>

\* A column is written if it differs from what the request read.
Write(s) ==
  LET t == session[s] IN
  /\ t.at = "committing" /\ t.doomed = {}
  /\ project' = [project EXCEPT ![t.of] =
       [c \in DOMAIN t.row |-> IF t.new[c] = t.row[c] THEN @[c] ELSE t.new[c]]]
  /\ interrupted' = IF t.new.status = "live" /\ t.new.result = None
                    THEN interrupted \ {t.of} ELSE interrupted
  /\ End(s)
  /\ UNCHANGED bucket

\* The process is lost: what was done to the bucket stays.
Crash(s) ==
  /\ Failing
  /\ session[s].at \in {"inserting", "committing"}
  /\ interrupted' = interrupted \cup {session[s].of}
  /\ End(s)
  /\ UNCHANGED <<project, bucket>>

Serve(s) ==
  \/ \E p \in Previews : StartCreate(s, p) \/ \E op \in {"update", "export", "delete"} : Read(s, p, op)
  \/ Insert(s) \/ ReplacePhoto(s) \/ Export(s) \/ Delete(s) \/ Refuse(s)
  \/ Remove(s) \/ Write(s) \/ Crash(s)

Next == \E s \in Sessions : Serve(s)

Spec == Init /\ [][Next]_vars

-----------------------------------------------------------------------------

Shown(p, kind, format) == IF format = None THEN None ELSE bucket[<<p, kind, format>>]

TypeOK ==
  /\ project \in [Previews -> [status : {"none", "live", "deleted"},
                               source : Formats \cup {None}, result : Formats \cup {None}]]
  /\ bucket \in [Paths -> Photos \cup {None}]

\* The projects no request is at work on, or has left half changed.
Settled == {p \in Previews \ interrupted : Alone(p)}

\* The paths of a live project name objects that are there; a request that was
\* lost may break this, and the next new photo repairs it.
PathsAreStored ==
  \A p \in Settled :
    LET row == project[p] IN
    row.status = "live" =>
      /\ Shown(p, "source", row.source) # None
      /\ row.result # None => Shown(p, "result", row.result) # None

\* What the owner shares is a composite of the photo the project has now, not
\* of one it replaced; also after losses, as above.
ResultShowsSource ==
  \A p \in Settled :
    LET row == project[p] IN
    row.status = "live" /\ row.result # None =>
      Shown(p, "result", row.result) = Shown(p, "source", row.source)

\* Nothing private is left of a project that was deleted, unless the bucket refuses
\* a deletion or a request is lost: no one looks for objects without a row.
DeletedIsErased ==
  \A p \in Previews :
    project[p].status = "deleted" /\ Alone(p) =>
      \A k \in Kinds, f \in Formats : bucket[<<p, k, f>>] = None
=============================================================================
