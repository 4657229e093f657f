------------------------------- MODULE AiJobs -------------------------------
(***************************************************************************)
(* The AI job queue (app/services/ai/jobs.py) under the design requests    *)
(* that feed it (app/services/ai/design_generation.py).                    *)
(*                                                                         *)
(* A worker is a run of the command process_ai_jobs: it puts jobs back     *)
(* whose worker seems lost, claims a batch of due jobs and handles them    *)
(* one after the other.  It may crash while it holds jobs; before that it  *)
(* has only read, and a crash there is a run that never began.  Requests   *)
(* of users and staff are sessions that read their rows and write them     *)
(* when they commit.  A column is written only if the session sets it to   *)
(* another value than the one it read (Emit).                              *)
(***************************************************************************)
EXTENDS Integers, FiniteSets

CONSTANTS
  Jobs, Requests, Workers, Sessions,
  None,
  MaxAttempts,   \* ai_job_max_attempts
  MaxRetries,    \* ai_design_request_max_retries
  Limit,         \* --limit: jobs claimed in one run
  Late,          \* whether a living worker may outlast ai_job_stuck_after_seconds
  Together       \* whether two retries of one request may be under way at a time

VARIABLES
  jobs,        \* the table ai_jobs; of is the request the job's generation is for
  due,         \* pending jobs whose next_run_at has passed
  aged,        \* jobs whose started_at is older than the threshold
  requests,    \* the table ai_design_requests
  generation,  \* ai_generations, by request
  worker, session

tables == <<jobs, due, aged, requests, generation>>
vars == <<jobs, due, aged, requests, generation, worker, session>>

-----------------------------------------------------------------------------
(* Tables *)

JobStatus == {"pending", "running", "completed", "failed"}
GenerationStatus == {"pending", "processing", "completed", "failed"}
ReviewStatus == {"not_required", "pending", "approved", "rejected"}

Job == [status : JobStatus \cup {"none"}, attempts : Nat, of : Requests \cup {None}]
Request == [made : BOOLEAN, retries : Nat, result : Nat \cup {None},
            deleted : BOOLEAN, shared : BOOLEAN]
Generation == [status : GenerationStatus, review : ReviewStatus]

Running == {j \in Jobs : jobs[j].status = "running"}

JobsOf(r) == {j \in Jobs : jobs[j].of = r}

\* The value a column has after a session that read seen sets it to new.
Emit(seen, new, now) == IF new = seen THEN now ELSE new

Idle == [at |-> "idle"]

\* fail_job, for a stuck job or for one that raised, is a query and a commit, with the
\* alerts about exhausted jobs between them (send_alert).  These are taken to be over before
\* a backoff (two minutes or more) is and, unless workers may be late, before a user who was
\* shown the failure by another worker asks for a retry.
NoPass(j) ==
  \A w \in Workers : worker[w].at \in {"passing", "failing"} => j \notin DOMAIN worker[w].rows

Init ==
  /\ jobs = [j \in Jobs |-> [status |-> "none", attempts |-> 0, of |-> None]]
  /\ due = {} /\ aged = {}
  /\ requests = [r \in Requests |-> [made |-> FALSE, retries |-> 0, result |-> None,
                                     deleted |-> FALSE, shared |-> FALSE]]
  /\ generation = [r \in Requests |-> [status |-> "pending", review |-> "not_required"]]
  /\ worker = [w \in Workers |-> Idle]
  /\ session = [s \in Sessions |-> Idle]

Enqueue(r) ==
  \E j \in Jobs :
    /\ jobs[j].status = "none"
    /\ jobs' = [jobs EXCEPT ![j] = [status |-> "pending", attempts |-> 0, of |-> r]]
    /\ due' = due \cup {j}

-----------------------------------------------------------------------------
(* Users and staff *)

Create(r) ==
  /\ ~requests[r].made
  /\ requests' = [requests EXCEPT ![r].made = TRUE]
  /\ Enqueue(r)
  /\ UNCHANGED <<aged, generation, worker, session>>

Read(s, op, r) ==
  /\ session[s] = Idle
  /\ requests[r].made /\ ~requests[r].deleted
  /\ op = "retry" =>
       /\ Late \/ \A j \in JobsOf(r) : NoPass(j)
       /\ Together \/ \A u \in Sessions : session[u].at = "retry" => session[u].of # r
  /\ session' = [session EXCEPT ![s] =
       [at |-> op, of |-> r, request |-> requests[r], generation |-> generation[r]]]
  /\ UNCHANGED <<tables, worker>>

EndSession(s) == session' = [session EXCEPT ![s] = Idle]

\* Variant: whatever has ended may be retried.
RetriableOnceEnded(t) ==
  t.generation.status \in {"failed", "completed"} /\ t.request.retries < MaxRetries

Retriable(t) == t.generation.status = "failed" /\ t.request.retries < MaxRetries

\* Variant: the retry is not counted.
RetryUncounted(s) ==
  LET t == session[s] IN
  /\ t.at = "retry" /\ Retriable(t)
  /\ generation' = [generation EXCEPT ![t.of].status = "pending"]
  /\ Enqueue(t.of)
  /\ EndSession(s)
  /\ UNCHANGED <<aged, requests, worker>>

Retry(s) ==
  LET t == session[s] IN
  /\ t.at = "retry" /\ Retriable(t)
  /\ requests' = [requests EXCEPT ![t.of].retries = t.request.retries + 1]
  /\ generation' = [generation EXCEPT ![t.of].status = "pending"]
  /\ Enqueue(t.of)
  /\ EndSession(s)
  /\ UNCHANGED <<aged, worker>>

Delete(s) ==
  /\ session[s].at = "delete"
  /\ requests' = [requests EXCEPT ![session[s].of].deleted = TRUE]
  /\ EndSession(s)
  /\ UNCHANGED <<jobs, due, aged, generation, worker>>

Reviewable(t) == t.generation.review = "pending"

Review(s) ==
  LET t == session[s] IN
  /\ t.at = "review" /\ Reviewable(t)
  /\ \E verdict \in {"approved", "rejected"} :
       generation' = [generation EXCEPT ![t.of].review = verdict]
  /\ EndSession(s)
  /\ UNCHANGED <<jobs, due, aged, requests, worker>>

\* The owner sends the design to the artist of a booking.
Share(s) ==
  LET t == session[s] IN
  /\ t.at = "share"
  /\ t.request.result # None /\ t.generation.review # "rejected"
  /\ requests' = [requests EXCEPT ![t.of].shared = TRUE]
  /\ EndSession(s)
  /\ UNCHANGED <<jobs, due, aged, generation, worker>>

\* Refused, or the server process is lost before the commit.
Abort(s) ==
  /\ session[s] # Idle
  /\ EndSession(s)
  /\ UNCHANGED <<tables, worker>>

Use(s) ==
  \/ \E r \in Requests, op \in {"retry", "delete", "review", "share"} : Read(s, op, r)
  \/ Retry(s) \/ Delete(s) \/ Review(s) \/ Share(s) \/ Abort(s)

-----------------------------------------------------------------------------
(* Workers *)

Handling(w) == worker[w].at \in {"between", "handling", "failing"}

Holds(w, j) == Handling(w) /\ (j \in worker[w].left \/ j = worker[w].job)

Go(w, state) == worker' = [worker EXCEPT ![w] = state]

Between(left) == [at |-> "between", left |-> left, job |-> None]

\* Variant: one attempt too many.
ExhaustedLate(row) == row.attempts > MaxAttempts

Exhausted(row) == row.attempts >= MaxAttempts

\* Variant: the generation of a job that failed for good is left as it was.
FailAloneRows(rows) ==
  /\ jobs' = [j \in Jobs |-> IF j \in DOMAIN rows
        THEN [jobs[j] EXCEPT !.status =
                Emit(rows[j].status, IF Exhausted(rows[j]) THEN "failed" ELSE "pending", @)]
        ELSE jobs[j]]
  /\ due' = due \ DOMAIN rows
  /\ UNCHANGED generation

\* fail_job on each of the rows, as the session read them.
FailRows(rows) ==
  LET ends == {rows[j].of : j \in {i \in DOMAIN rows : Exhausted(rows[i])}} IN
  /\ jobs' = [j \in Jobs |-> IF j \in DOMAIN rows
        THEN [jobs[j] EXCEPT !.status =
                Emit(rows[j].status, IF Exhausted(rows[j]) THEN "failed" ELSE "pending", @)]
        ELSE jobs[j]]
  /\ due' = due \ {j \in DOMAIN rows : ~Exhausted(rows[j])}
  /\ generation' = [r \in Requests |->
       IF r \in ends THEN [generation[r] EXCEPT !.status = "failed"] ELSE generation[r]]

\* Variant: the cutoff is forgotten.
StuckAtAnyAge == Running

\* Variant: only jobs with an attempt left are looked for.
StuckWithAttempts == {j \in Running \cap aged : ~Exhausted(jobs[j])}

Stuck == Running \cap aged

ReadStuck(w) ==
  /\ worker[w] = Idle
  /\ Go(w, [at |-> "passing", rows |-> [j \in Stuck |-> jobs[j]]])
  /\ UNCHANGED <<tables, session>>

PutBack(w) ==
  /\ worker[w].at = "passing"
  /\ FailRows(worker[w].rows)
  /\ Go(w, [at |-> "claiming"])
  /\ UNCHANGED <<aged, requests, session>>

\* Rows that another claim has locked are skipped, so that any of the due jobs may be left.
Claim(w) ==
  /\ worker[w].at = "claiming"
  /\ \E batch \in SUBSET {j \in due : jobs[j].status = "pending"} :
       /\ batch # {} /\ Cardinality(batch) <= Limit
       /\ jobs' = [j \in Jobs |-> IF j \in batch
            THEN [jobs[j] EXCEPT !.status = "running", !.attempts = @ + 1] ELSE jobs[j]]
       /\ due' = due \ batch
       /\ aged' = aged \ batch
       /\ Go(w, Between(batch))
  /\ UNCHANGED <<requests, generation, session>>

NothingDue(w) ==
  /\ worker[w].at = "claiming"
  /\ \A j \in due : jobs[j].status # "pending"
  /\ Go(w, Idle)
  /\ UNCHANGED <<tables, session>>

\* The generation is shown as processing; then the handler reads the request.
Start(w) ==
  /\ worker[w].at = "between"
  /\ \E j \in worker[w].left :
       LET r == jobs[j].of IN
       /\ generation' = [generation EXCEPT ![r].status = "processing"]
       /\ Go(w, [at |-> "handling", left |-> worker[w].left \ {j}, job |-> j,
                 request |-> requests[r], review |-> generation[r].review])
  /\ UNCHANGED <<jobs, due, aged, requests, session>>

\* The handler has generated, moderated and uploaded the image.
Complete(w) ==
  LET t == worker[w]  r == jobs[t.job].of IN
  /\ t.at = "handling" /\ ~t.request.deleted
  /\ jobs' = [jobs EXCEPT ![t.job].status = "completed"]
  /\ requests' = [requests EXCEPT ![r].result = Emit(t.request.result, t.request.retries, @)]
  /\ \E review \in {"not_required", "pending"} :
       generation' = [generation EXCEPT
         ![r] = [status |-> "completed", review |-> Emit(t.review, review, @.review)]]
  /\ Go(w, Between(t.left))
  /\ UNCHANGED <<due, aged, session>>

\* The handler raises: after the rollback the job is read again.
Raise(w) ==
  /\ worker[w].at = "handling"
  /\ Go(w, [at |-> "failing", left |-> worker[w].left, job |-> worker[w].job,
            rows |-> [j \in {worker[w].job} |-> jobs[j]]])
  /\ UNCHANGED <<tables, session>>

Fail(w) ==
  /\ worker[w].at = "failing"
  /\ FailRows(worker[w].rows)
  /\ Go(w, Between(worker[w].left))
  /\ UNCHANGED <<aged, requests, session>>

Finish(w) ==
  /\ worker[w].at = "between" /\ worker[w].left = {}
  /\ Go(w, Idle)
  /\ UNCHANGED <<tables, session>>

Crash(w) ==
  /\ Handling(w)
  /\ Go(w, Idle)
  /\ UNCHANGED <<tables, session>>

Work(w) ==
  \/ ReadStuck(w) \/ PutBack(w) \/ Claim(w) \/ NothingDue(w)
  \/ Start(w) \/ Complete(w) \/ Raise(w) \/ Fail(w) \/ Finish(w)

-----------------------------------------------------------------------------
(* Time *)

BackoffOver(j) ==
  /\ jobs[j].status = "pending" /\ j \notin due
  /\ NoPass(j)
  /\ due' = due \cup {j}
  /\ UNCHANGED <<jobs, aged, requests, generation, worker, session>>

\* The threshold passes for all that run by now.
Age ==
  /\ aged' = aged \cup {j \in Running : Late \/ \A w \in Workers : ~Holds(w, j)}
  /\ aged' # aged
  /\ UNCHANGED <<jobs, due, requests, generation, worker, session>>

Next ==
  \/ \E r \in Requests : Create(r)
  \/ \E s \in Sessions : Use(s)
  \/ \E w \in Workers : Work(w) \/ Crash(w)
  \/ \E j \in Jobs : BackoffOver(j)
  \/ Age

Spec == Init /\ [][Next]_vars

\* The command is run again and again, its handlers return or raise (every call
\* to the provider has a timeout), and time passes.
Fairness ==
  /\ \A w \in Workers : WF_vars(Work(w))
  /\ \A j \in Jobs : WF_vars(BackoffOver(j))
  /\ WF_vars(Age)

FairSpec == Spec /\ Fairness

-----------------------------------------------------------------------------
(* Properties *)

TypeOK ==
  /\ jobs \in [Jobs -> Job]
  /\ due \subseteq Jobs /\ aged \subseteq Jobs
  /\ requests \in [Requests -> Request]
  /\ generation \in [Requests -> Generation]

\* Whatever workers crash, hang or come late: a job is tried at most MaxAttempts times.
AttemptsBounded == \A j \in Jobs : jobs[j].attempts <= MaxAttempts

\* What the user is shown agrees with the queue: while a job of the request is
\* waiting or running the generation is under way; when all have ended it is
\* completed if one of them was, and failed otherwise.
ShownStatusAgrees ==
  \A r \in Requests :
    LET states == {jobs[j].status : j \in JobsOf(r)} IN
    requests[r].made =>
      generation[r].status \in
        IF states \cap {"pending", "running"} # {} THEN {"pending", "processing"}
        ELSE IF "completed" \in states THEN {"completed"} ELSE {"failed"}

\* A retry costs one of the retries of its request, and none is free.
RetriesCounted ==
  \A r \in Requests :
    requests[r].made => Cardinality(JobsOf(r)) = requests[r].retries + 1

\* A request is generated at most once more than it may be retried
\* (retry_design_request: "prevent unlimited retries").
RetriesCapped == \A r \in Requests : Cardinality(JobsOf(r)) <= MaxRetries + 1

\* A job that was done is never done again.
CompletedStaysSo ==
  \A j \in Jobs : jobs[j].status = "completed" => jobs'[j].status = "completed"
CompletedIsFinal == [][CompletedStaysSo]_vars

\* A result the staff has decided on stays decided, whatever jobs of its request
\* run, fail or come late.
Decided == {r \in Requests : generation[r].review \in {"approved", "rejected"}}

DecidedStaysSo == Decided \subseteq Decided'
DecisionStands == [][DecidedStaysSo]_vars

\* Every request ends: it is completed or failed, until the user retries it.
Answered(r) == generation[r].status \in {"completed", "failed"}
RequestAnswered == \A r \in Requests : requests[r].made ~> Answered(r)
=============================================================================
