---------------------------- MODULE DesignImages ----------------------------
(***************************************************************************)
(* The photographs of a design: authorized as a row, uploaded, stored in   *)
(* three sizes and made ready (app/api/routes/designs.py,                  *)
(* app/services/design_image_processing.py,                                *)
(* app/integrations/supabase_storage.py).                                  *)
(*                                                                         *)
(* An upload is a session of several commits with calls of the storage     *)
(* service between them.  A column is written only when it is set to       *)
(* another value than the one the session read or wrote last.              *)
(***************************************************************************)
EXTENDS Integers

CONSTANTS
  Images, Uploads,   \* rows; requests that may be under way at once
  Files,             \* contents
  None,
  Together,          \* whether two uploads of one image may be under way at once
  Losing             \* whether the server may be lost

VARIABLES
  image,    \* design_images: [status, file (the metadata), urls (those of the three sizes are set)]
  stored,   \* the storage service: the file whose size is at each path
  upload

vars == <<image, stored, upload>>

Sizes == {"original", "small", "medium"}

Image == [status : {"none", "pending", "processing", "ready", "failed"},
          file : Files \cup {None}, urls : BOOLEAN]

Idle == [at |-> "idle"]

Init ==
  /\ image = [i \in Images |-> [status |-> "none", file |-> None, urls |-> FALSE]]
  /\ stored = [i \in Images |-> [z \in Sizes |-> None]]
  /\ upload = [u \in Uploads |-> Idle]

Go(u, t) == upload' = [upload EXCEPT ![u] = t]

\* authorize_design_image_upload: of two for the same place in the order the second
\* breaks uq_design_images_sort_order and leaves nothing.
Authorize(i) ==
  /\ image[i].status = "none"
  /\ image' = [image EXCEPT ![i].status = "pending"]
  /\ UNCHANGED <<stored, upload>>

\* Variant: only an image that is being processed is refused.
UploadableAgain(status) == status \in {"pending", "ready", "failed"}

Uploadable(status) == status = "pending"

WorkedOn(i) == \E u \in Uploads : upload[u] # Idle /\ upload[u].image = i

\* upload_design_image reads the row, then awaits the bytes.
Receive(u, i, f) ==
  /\ upload[u] = Idle
  /\ Uploadable(image[i].status)
  /\ WorkedOn(i) => Together
  /\ Go(u, [at |-> "describe", image |-> i, file |-> f, read |-> image[i]])
  /\ UNCHANGED <<image, stored>>

\* The session commits `next` over the row it has read or last written.
Write(u, next) ==
  LET t == upload[u] IN
  image' = [image EXCEPT ![t.image] =
              [c \in DOMAIN @ |-> IF next[c] = t.read[c] THEN @[c] ELSE next[c]]]

\* Step 4 of the pipeline: what the file is, before anything of it is stored.
Describe(u) ==
  LET t == upload[u]
      next == [t.read EXCEPT !.file = t.file] IN
  /\ t.at = "describe"
  /\ Write(u, next)
  /\ Go(u, [t EXCEPT !.at = "mark", !.read = next])
  /\ UNCHANGED stored

Mark(u) ==
  LET t == upload[u]
      next == [t.read EXCEPT !.status = "processing"] IN
  /\ t.at = "mark"
  /\ Write(u, next)
  /\ Go(u, [t EXCEPT !.at = "original", !.read = next])
  /\ UNCHANGED stored

After == [original |-> "small", small |-> "medium", medium |-> "finish"]

\* upload_object overwrites what is at the path: the outcome is an answer, a refusal
\* (SupabaseStorageError), or an exception of the client or of the open breaker,
\* which queue_image_processing does not catch; what the service did of it is open.
Put(u) ==
  LET t == upload[u]
      done == stored' = [stored EXCEPT ![t.image][t.at] = t.file] IN
  /\ t.at \in Sizes
  /\ \/ done /\ Go(u, [t EXCEPT !.at = After[t.at]])
     \/ Go(u, [t EXCEPT !.at = "fail"]) /\ UNCHANGED stored
     \/ Go(u, Idle) /\ (done \/ UNCHANGED stored)
  /\ UNCHANGED image

Fail(u) ==
  /\ upload[u].at = "fail"
  /\ Write(u, [upload[u].read EXCEPT !.status = "failed"])
  /\ Go(u, Idle)
  /\ UNCHANGED stored

Finish(u) ==
  /\ upload[u].at = "finish"
  /\ Write(u, [upload[u].read EXCEPT !.status = "ready", !.urls = TRUE])
  /\ Go(u, Idle)
  /\ UNCHANGED stored

\* The server is lost.
Crash(u) ==
  /\ Losing /\ upload[u] # Idle
  /\ Go(u, Idle)
  /\ UNCHANGED <<image, stored>>

Next ==
  \/ \E i \in Images : Authorize(i)
  \/ \E u \in Uploads :
       \/ \E i \in Images, f \in Files : Receive(u, i, f)
       \/ Describe(u) \/ Mark(u) \/ Put(u) \/ Fail(u) \/ Finish(u) \/ Crash(u)

Spec == Init /\ [][Next]_vars

-----------------------------------------------------------------------------

TypeOK ==
  /\ image \in [Images -> Image]
  /\ stored \in [Images -> [Sizes -> Files \cup {None}]]

\* What the public is shown is one photograph: the metadata and the three sizes of a
\* ready image are of the same file.  Two uploads of one image at once break it.
ReadyIsWhole ==
  \A i \in Images : image[i].status = "ready" =>
    image[i].urls /\ image[i].file # None /\ \A z \in Sizes : stored[i][z] = image[i].file

\* An image is in processing only as long as an upload works on it: any other
\* ending marks it ready or failed (queue_image_processing; design-catalog.md, step 8).
ProcessingIsWorkedOn ==
  \A i \in Images : image[i].status = "processing" => WorkedOn(i)
=============================================================================
