------------------------------ MODULE DesignAi ------------------------------
(***************************************************************************)
(* What the AI jobs of a design leave behind, and what people decide about *)
(* it: app/services/ai/tagging.py, embeddings.py, duplicates.py,           *)
(* moderation.py and review.py.  How a job is claimed, retried and given   *)
(* up is module AiJobs; here a run reads, computes and commits or fails.   *)
(*                                                                         *)
(* A look stands for an image and for the vector computed from it: two     *)
(* designs are near-duplicates when their vectors are the same look.       *)
(***************************************************************************)
EXTENDS Integers, Sequences, FiniteSets

CONSTANTS
  Designs, Looks, Tags, Workers, Deciders,
  Features,      \* the capabilities that are switched on
  MaxRequests,   \* bound: jobs asked for, beside the detections that follow
  None

VARIABLES
  ready,       \* design -> the looks of its ready images
  embedding,   \* design_embeddings: design -> vector, or None
  suggestion,  \* design_tag_suggestions: <<design, tag>> -> status, or none
  match,       \* design_duplicate_matches: <<design, matched>> -> status, or none
  jobs,        \* ai_jobs, each with its row in ai_generations
  run,         \* worker -> the run under way: the job and the rows it read
  decision     \* person -> the row read and about to be decided

vars == <<ready, embedding, suggestion, match, jobs, run, decision>>

Job == [type : {"tags", "embedding", "moderation", "detection"}, design : Designs,
        state : {"waiting", "running", "done", "failed"},
        review : {"not_required", "pending", "approved", "rejected"}]
Suggestion == {"none", "pending", "accepted", "rejected"}
Match == {"none", "pending", "confirmed", "dismissed"}

Idle == [job |-> 0]
NoDecision == [table |-> "none"]

Init ==
  /\ ready = [d \in Designs |-> {}]
  /\ embedding = [d \in Designs |-> None]
  /\ suggestion = [k \in Designs \X Tags |-> "none"]
  /\ match = [k \in Designs \X Designs |-> "none"]
  /\ jobs = <<>>
  /\ run = [w \in Workers |-> Idle]
  /\ decision = [p \in Deciders |-> NoDecision]

-----------------------------------------------------------------------------
(* Asking for jobs *)

enqueue_design_ai_job(d, type) ==
  [type |-> type, design |-> d, state |-> "waiting", review |-> "not_required"]

Asked == Cardinality({n \in DOMAIN jobs : jobs[n].type # "detection"})

Queued(d, type) == IF type \in Features THEN <<enqueue_design_ai_job(d, type)>> ELSE <<>>

\* _queue_ai_jobs_for_new_image
NewJobs(d) == Queued(d, "tags") \o Queued(d, "embedding") \o Queued(d, "moderation")

\* The last lines of upload_design_image: the image is ready in one transaction, its
\* jobs are queued in the next, which a lost process never makes.
NewImage(d, look) ==
  /\ Asked + Len(NewJobs(d)) <= MaxRequests
  /\ ready' = [ready EXCEPT ![d] = @ \cup {look}]
  /\ jobs' = jobs \o NewJobs(d) \/ UNCHANGED jobs
  /\ UNCHANGED <<embedding, suggestion, match, run, decision>>

\* POST /designs/{id}/ai/tag-suggestions, embeddings and moderation-check
Request(d, type) ==
  /\ type \in Features
  /\ Asked < MaxRequests
  /\ jobs' = Append(jobs, enqueue_design_ai_job(d, type))
  /\ UNCHANGED <<ready, embedding, suggestion, match, run, decision>>

-----------------------------------------------------------------------------
(* Running them *)

\* The rows a run finds: with equal flags and order the database returns any of
\* the ready images first.
Known(type, d) ==
  CASE type = "tags" -> {k \in DOMAIN suggestion : k[1] = d /\ suggestion[k] # "none"}
    [] type = "detection" -> {k \in DOMAIN match : k[1] = d /\ match[k] # "none"}
    [] OTHER -> {}

Start(w, n) ==
  LET job == jobs[n]
  IN  /\ run[w] = Idle
      /\ job.state = "waiting"
      /\ \E look \in IF job.type = "detection" THEN {None} ELSE ready[job.design] :
           run' = [run EXCEPT ![w] =
                     [job |-> n, look |-> look, known |-> Known(job.type, job.design),
                      vectors |-> IF job.type \in {"embedding", "detection"} THEN embedding
                                  ELSE [d \in Designs |-> None]]]
      /\ job.type = "detection" => embedding[job.design] # None
      /\ jobs' = [jobs EXCEPT ![n].state = "running"]
      /\ UNCHANGED <<ready, embedding, suggestion, match, decision>>

\* An image that cannot be read, a provider that fails, a unique key that another run
\* took, a lost worker: the transaction is rolled back, the job tried again or given up.
Fail(w) ==
  /\ run[w] # Idle
  /\ \E state \in {"waiting", "failed"} : jobs' = [jobs EXCEPT ![run[w].job].state = state]
  /\ run' = [run EXCEPT ![w] = Idle]
  /\ UNCHANGED <<ready, embedding, suggestion, match, decision>>

\* Variant: a run also refreshes the status of a row that is there.
FiledAgain(table, wanted, known) ==
  [k \in DOMAIN table |-> IF k \in wanted THEN "pending" ELSE table[k]]

\* The rows of the table that are inserted for the keys wanted; those already known
\* only have their score refreshed.
Filed(table, wanted, known) ==
  [k \in DOMAIN table |-> IF k \in wanted \ known THEN "pending" ELSE table[k]]

UniqueKept(table, wanted, known) == \A k \in wanted \ known : table[k] = "none"

Running(w, type) == run[w] # Idle /\ jobs[run[w].job].type = type

Complete(w, review) ==
  /\ jobs' = [jobs EXCEPT ![run[w].job].state = "done", ![run[w].job].review = review]
  /\ run' = [run EXCEPT ![w] = Idle]

\* tagging.process_job
Tag(w, tags) ==
  LET wanted == {jobs[run[w].job].design} \X tags
  IN  /\ Running(w, "tags")
      /\ UniqueKept(suggestion, wanted, run[w].known)
      /\ suggestion' = Filed(suggestion, wanted, run[w].known)
      /\ Complete(w, "not_required")
      /\ UNCHANGED <<ready, embedding, match, decision>>

\* Variant: the duplicates of a design are looked for when it is first embedded.
ChainedOnce(w) ==
  LET d == jobs[run[w].job].design
  IN  IF run[w].vectors[d] = None THEN <<enqueue_design_ai_job(d, "detection")>> ELSE <<>>

Chained(w) == <<enqueue_design_ai_job(jobs[run[w].job].design, "detection")>>

\* embeddings.process_job: the one row of the design is inserted or overwritten.
Embed(w) ==
  LET d == jobs[run[w].job].design
  IN  /\ Running(w, "embedding")
      /\ run[w].vectors[d] = None => embedding[d] = None
      /\ embedding' = [embedding EXCEPT ![d] = run[w].look]
      /\ jobs' = [jobs EXCEPT ![run[w].job].state = "done"] \o Chained(w)
      /\ run' = [run EXCEPT ![w] = Idle]
      /\ UNCHANGED <<ready, suggestion, match, decision>>

\* duplicates.process_job
Alike(vectors, d) == {e \in Designs \ {d} : vectors[e] = vectors[d]}

Detect(w) ==
  LET d == jobs[run[w].job].design
      wanted == {d} \X Alike(run[w].vectors, d)
  IN  /\ Running(w, "detection")
      /\ UniqueKept(match, wanted, run[w].known)
      /\ match' = Filed(match, wanted, run[w].known)
      /\ Complete(w, IF wanted = {} THEN "not_required" ELSE "pending")
      /\ UNCHANGED <<ready, embedding, suggestion, decision>>

\* moderation.process_job: flagged, or unsure
Moderate(w, needs_review) ==
  /\ Running(w, "moderation")
  /\ Complete(w, IF needs_review THEN "pending" ELSE "not_required")
  /\ UNCHANGED <<ready, embedding, suggestion, match, decision>>

Work(w) ==
  \/ \E n \in DOMAIN jobs : Start(w, n)
  \/ Fail(w)
  \/ \E tags \in SUBSET Tags : Tag(w, tags)
  \/ Embed(w) \/ Detect(w)
  \/ \E needs_review \in BOOLEAN : Moderate(w, needs_review)

-----------------------------------------------------------------------------
(* Deciding: the routes read the row, then resolve_tag_suggestion,
   resolve_duplicate_match or resolve_generation_review checks and writes it. *)

Read(p, table, key, status) ==
  /\ decision[p] = NoDecision
  /\ status = "pending"
  /\ decision' = [decision EXCEPT ![p] = [table |-> table, key |-> key]]
  /\ UNCHANGED <<ready, embedding, suggestion, match, jobs, run>>

Reads(p) ==
  \/ \E k \in DOMAIN suggestion : Read(p, "suggestion", k, suggestion[k])
  \/ \E k \in DOMAIN match : Read(p, "match", k, match[k])
  \/ \E n \in DOMAIN jobs : Read(p, "review", n, jobs[n].review)

resolve_tag_suggestion(p, verdict) ==
  /\ decision[p].table = "suggestion"
  /\ suggestion' = [suggestion EXCEPT ![decision[p].key] = verdict]
  /\ UNCHANGED <<match, jobs>>

resolve_duplicate_match(p, verdict) ==
  /\ decision[p].table = "match"
  /\ match' = [match EXCEPT ![decision[p].key] = verdict]
  /\ UNCHANGED <<suggestion, jobs>>

resolve_generation_review(p, verdict) ==
  /\ decision[p].table = "review"
  /\ jobs' = [jobs EXCEPT ![decision[p].key].review = verdict]
  /\ UNCHANGED <<suggestion, match>>

Decide(p) ==
  /\ \/ \E verdict \in {"accepted", "rejected"} : resolve_tag_suggestion(p, verdict)
     \/ \E verdict \in {"confirmed", "dismissed"} : resolve_duplicate_match(p, verdict)
     \/ \E verdict \in {"approved", "rejected"} : resolve_generation_review(p, verdict)
  /\ decision' = [decision EXCEPT ![p] = NoDecision]
  /\ UNCHANGED <<ready, embedding, run>>

Next ==
  \/ \E d \in Designs, look \in Looks : NewImage(d, look)
  \/ \E d \in Designs, type \in Features : Request(d, type)
  \/ \E w \in Workers : Work(w)
  \/ \E p \in Deciders : Reads(p) \/ Decide(p)

Spec == Init /\ [][Next]_vars

-----------------------------------------------------------------------------

TypeOK ==
  /\ ready \in [Designs -> SUBSET Looks]
  /\ embedding \in [Designs -> Looks \cup {None}]
  /\ suggestion \in [Designs \X Tags -> Suggestion]
  /\ match \in [Designs \X Designs -> Match]
  /\ \A n \in DOMAIN jobs : jobs[n] \in Job
  /\ \A w \in Workers : run[w] = Idle \/ jobs[run[w].job].state = "running"

\* Two designs that look alike were brought to the staff, by the detection of one or of
\* the other, once no detection of either is left to run: whichever of two overlapping
\* embeddings commits last is compared with the other one.
NoDuplicateMissed ==
  \A d, e \in Designs :
    \/ d = e
    \/ embedding[d] = None
    \/ embedding[d] # embedding[e]
    \/ \E n \in DOMAIN jobs : /\ jobs[n].type = "detection"
                              /\ jobs[n].design \in {d, e}
                              /\ jobs[n].state # "done"
    \/ match[<<d, e>>] # "none"
    \/ match[<<e, d>>] # "none"

\* No run of a job takes back what a person decided about a suggested tag, a
\* duplicate or a result under review.
DecidedStaysSo ==
  /\ \A k \in DOMAIN suggestion :
       suggestion[k] \in {"accepted", "rejected"} => suggestion'[k] = suggestion[k]
  /\ \A k \in DOMAIN match :
       match[k] \in {"confirmed", "dismissed"} => match'[k] = match[k]
  /\ \A n \in DOMAIN jobs :
       jobs[n].review \in {"approved", "rejected"} => jobs'[n].review = jobs[n].review
=============================================================================
