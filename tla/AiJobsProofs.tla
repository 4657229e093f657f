---------------------------- MODULE AiJobsProofs ----------------------------
(***************************************************************************)
(* Theorems about AiJobs.tla, for any number of jobs, requests, workers    *)
(* and sessions: types and the bound on attempts, even when workers come   *)
(* late; that no completed job is undone when none does; and, if retries   *)
(* also come one at a time, that what the user is shown is what became of  *)
(* the jobs, and that what the staff has decided stands.                   *)
(***************************************************************************)
EXTENDS AiJobs, FiniteSetTheorems, TLAPS

\* What the proofs ask of the constants: ai_job_max_attempts is at least one.
Constants ==
  /\ MaxAttempts \in Nat \ {0} /\ MaxRetries \in Nat /\ Late \in BOOLEAN
  /\ None \notin Jobs /\ None \notin Requests

(***************************************************************************)
(* The invariant                                                           *)
(***************************************************************************)

\* Sessions and workers hold rows of the tables' types; a job has its request.
Typed ==
  /\ TypeOK
  /\ DOMAIN worker = Workers /\ DOMAIN session = Sessions
  /\ \A s \in Sessions :
       session[s].at # "idle" => /\ session[s].of \in Requests
                                 /\ session[s].request \in Request
                                 /\ session[s].generation \in Generation
  /\ \A w \in Workers : worker[w].at = "handling" => worker[w].request \in Request
  /\ \A j \in Jobs : jobs[j].status # "none" => jobs[j].of \in Requests

\* What a worker holds or has read is there.
Knows(t) ==
  /\ t.at \in {"between", "handling", "failing"} =>
       \A j \in t.left : j \in Jobs /\ jobs[j].status # "none"
  /\ t.at \in {"handling", "failing"} => t.job \in Jobs /\ jobs[t.job].status # "none"
  /\ t.at \in {"passing", "failing"} =>
       \A j \in DOMAIN t.rows : j \in Jobs /\ jobs[j].status # "none"

\* A row that was read while its job was not waiting still has its attempts: no claim
\* can take the job before the reader writes.
Current(t) ==
  t.at \in {"passing", "failing"} =>
    \A j \in DOMAIN t.rows :
      t.rows[j].status # "pending" =>
        /\ t.rows[j].attempts = jobs[j].attempts
        /\ ~ (j \in due /\ jobs[j].status = "pending")

RowsAreCurrent == \A w \in Workers : Knows(worker[w]) /\ Current(worker[w])

\* A job that waits has an attempt left.
WaitingHasAttempt ==
  \A j \in Jobs : jobs[j].status = "pending" => jobs[j].attempts < MaxAttempts

QueueInv ==
  Typed /\ RowsAreCurrent /\ WaitingHasAttempt /\ AttemptsBounded

(***************************************************************************)
(* Steps                                                                   *)
(***************************************************************************)

\* Before anything is asked for, all of it holds.
LEMMA InitQueue ==
  ASSUME Constants, Init
  PROVE  QueueInv
<1>1. Typed
  BY DEF Constants, Init, Typed, TypeOK, Idle, Job, Request, Generation, JobStatus,
         GenerationStatus, ReviewStatus
<1>2. RowsAreCurrent
  BY DEF Init, RowsAreCurrent, Knows, Current, Idle
<1>3. WaitingHasAttempt /\ AttemptsBounded
  BY DEF Constants, Init, WaitingHasAttempt, AttemptsBounded
<1>4. QED
  BY <1>1, <1>2, <1>3 DEF QueueInv

\* Jobs and workers as they were: only the types of the rest are left to show.
LEMMA QueueUntouched ==
  ASSUME QueueInv, UNCHANGED <<jobs, due, worker>>, Typed'
  PROVE  QueueInv'
BY DEF QueueInv, RowsAreCurrent, Knows, Current, WaitingHasAttempt, AttemptsBounded

\* A new job is none that a worker knows.
LEMMA EnqueueKeeps ==
  ASSUME Constants, QueueInv, NEW r \in Requests, Enqueue(r), UNCHANGED worker, Typed'
  PROVE  QueueInv'
<1>1. PICK j \in Jobs :
        /\ jobs[j].status = "none"
        /\ jobs' = [jobs EXCEPT ![j] = [status |-> "pending", attempts |-> 0, of |-> r]]
        /\ due' = due \cup {j}
  BY DEF Enqueue
<1>2. /\ jobs'[j] = [status |-> "pending", attempts |-> 0, of |-> r]
      /\ \A i \in Jobs \ {j} : jobs'[i] = jobs[i]
  BY <1>1 DEF QueueInv, Typed, TypeOK
<1>3. RowsAreCurrent'
  BY <1>1, <1>2 DEF QueueInv, RowsAreCurrent, Knows, Current
<1>4. WaitingHasAttempt' /\ AttemptsBounded'
  BY <1>2 DEF Constants, QueueInv, WaitingHasAttempt, AttemptsBounded
<1>5. QED
  BY <1>3, <1>4 DEF QueueInv

(***************************************************************************)
(* Types                                                                   *)
(***************************************************************************)

\* A column keeps its value or takes the new one.
LEMMA EmitEither ==
  ASSUME NEW seen, NEW new, NEW now
  PROVE  Emit(seen, new, now) \in {new, now}
BY DEF Emit

\* Rows with a column changed are still rows.
LEMMA RowsUpdated ==
  /\ \A q \in Request, n \in Nat : [q EXCEPT !.retries = n] \in Request
  /\ \A q \in Request, n \in Nat \cup {None} : [q EXCEPT !.result = n] \in Request
  /\ \A q \in Request : /\ [q EXCEPT !.made = TRUE] \in Request
                         /\ [q EXCEPT !.deleted = TRUE] \in Request
                         /\ [q EXCEPT !.shared = TRUE] \in Request
  /\ \A g \in Generation, st \in GenerationStatus : [g EXCEPT !.status = st] \in Generation
  /\ \A row \in Job :
       [row EXCEPT !.status = "running", !.attempts = row.attempts + 1] \in Job
<1>1. \A q \in Request, n \in Nat : [q EXCEPT !.retries = n] \in Request
  BY DEF Request
<1>2. \A q \in Request, n \in Nat \cup {None} : [q EXCEPT !.result = n] \in Request
  BY DEF Request
<1>3. \A q \in Request : [q EXCEPT !.made = TRUE] \in Request
  BY DEF Request
<1>4. \A q \in Request : [q EXCEPT !.deleted = TRUE] \in Request
  BY DEF Request
<1>5. \A q \in Request : [q EXCEPT !.shared = TRUE] \in Request
  BY DEF Request
<1>6. \A g \in Generation, st \in GenerationStatus : [g EXCEPT !.status = st] \in Generation
  BY DEF Generation
<1>7. \A row \in Job :
        [row EXCEPT !.status = "running", !.attempts = row.attempts + 1] \in Job
  <2>1. SUFFICES ASSUME NEW row \in Job
                 PROVE  [row EXCEPT !.status = "running", !.attempts = row.attempts + 1] \in Job
    OBVIOUS
  <2>2. [row EXCEPT !.status = "running"] \in Job
    BY DEF Job, JobStatus
  <2>3. \A q \in Job, n \in Nat : [q EXCEPT !.attempts = n] \in Job
    BY DEF Job
  <2>4. row.attempts + 1 \in Nat
    BY DEF Job
  <2>5. QED
    BY <2>2, <2>3, <2>4
<1>8. QED
  BY <1>1, <1>2, <1>3, <1>4, <1>5, <1>6, <1>7

\* What fail_job writes has the types of the tables.
LEMMA FailRowsTyped ==
  ASSUME QueueInv, NEW rows, FailRows(rows),
         \A j \in DOMAIN rows : j \in Jobs /\ jobs[j].status # "none"
  PROVE  /\ jobs' \in [Jobs -> Job] /\ due' \subseteq Jobs
         /\ generation' \in [Requests -> Generation]
         /\ \A j \in Jobs : jobs'[j].of = jobs[j].of
         /\ \A j \in Jobs : jobs'[j].status # "none" <=> jobs[j].status # "none"
<1> DEFINE written(j) == IF Exhausted(rows[j]) THEN "failed" ELSE "pending"
<1>1. \A j \in Jobs :
        IF j \in DOMAIN rows
        THEN jobs'[j] = [jobs[j] EXCEPT !.status = Emit(rows[j].status, written(j), @)]
        ELSE jobs'[j] = jobs[j]
  BY DEF FailRows
<1>2. \A j \in Jobs : jobs[j] \in Job
  BY DEF QueueInv, Typed, TypeOK
<1>3. \A j \in Jobs :
        /\ jobs'[j] \in Job /\ jobs'[j].of = jobs[j].of
        /\ jobs'[j].status # "none" <=> jobs[j].status # "none"
  BY <1>1, <1>2 DEF Job, JobStatus, Emit
<1>4. jobs' \in [Jobs -> Job] /\ due' \subseteq Jobs
  BY <1>3 DEF FailRows, QueueInv, Typed, TypeOK
<1>5. generation' \in [Requests -> Generation]
  BY DEF FailRows, QueueInv, Typed, TypeOK, Generation, GenerationStatus
<1>6. QED
  BY <1>3, <1>4, <1>5

\* Requests of users and staff keep the types.
LEMMA UseTyped ==
  ASSUME Constants, QueueInv, NEW s \in Sessions, Use(s)
  PROVE  Typed'
<1> USE DEF Constants, QueueInv, Typed, TypeOK, EndSession, Idle
<1>1. ASSUME NEW r \in Requests, NEW op \in {"retry", "delete", "review", "share"}, Read(s, op, r)
      PROVE  Typed'
  BY <1>1 DEF Read, tables
<1>2. CASE Retry(s)
  <2>1. /\ session[s].of \in Requests
        /\ session[s].request.retries \in Nat
    BY <1>2 DEF Retry, Request
  <2>2. /\ requests' \in [Requests -> Request]
        /\ generation' \in [Requests -> Generation]
    <3>1. /\ requests' = [requests EXCEPT ![session[s].of] =
                            [requests[session[s].of] EXCEPT
                               !.retries = session[s].request.retries + 1]]
          /\ generation' = [generation EXCEPT ![session[s].of] =
                              [generation[session[s].of] EXCEPT !.status = "pending"]]
      BY <1>2 DEF Retry
    <3>2. /\ requests[session[s].of] \in Request /\ generation[session[s].of] \in Generation
          /\ session[s].request.retries + 1 \in Nat /\ "pending" \in GenerationStatus
      BY <2>1 DEF GenerationStatus
    <3>3. QED
      BY <3>1, <3>2, RowsUpdated
  <2>3. PICK j \in Jobs :
          /\ jobs' = [jobs EXCEPT ![j] = [status |-> "pending", attempts |-> 0,
                                          of |-> session[s].of]]
          /\ due' = due \cup {j}
    BY <1>2 DEF Retry, Enqueue
  <2>4. /\ jobs' \in [Jobs -> Job] /\ due' \subseteq Jobs
        /\ \A i \in Jobs : jobs'[i].status # "none" => jobs'[i].of \in Requests
    BY <2>1, <2>3 DEF Job, JobStatus
  <2>5. QED
    BY <1>2, <2>2, <2>4 DEF Retry
<1>3. CASE Delete(s)
  <2>1. /\ session[s].of \in Requests
        /\ requests' = [requests EXCEPT ![session[s].of].deleted = TRUE]
        /\ UNCHANGED <<jobs, due, aged, generation, worker>>
        /\ session' = [session EXCEPT ![s] = Idle]
    BY <1>3 DEF Delete
  <2>2. requests' \in [Requests -> Request]
    BY <2>1, RowsUpdated
  <2>3. QED
    BY <2>1, <2>2
<1>4. CASE Review(s)
  BY <1>4 DEF Review, Generation, ReviewStatus
<1>5. CASE Share(s)
  <2>1. /\ session[s].of \in Requests
        /\ requests' = [requests EXCEPT ![session[s].of].shared = TRUE]
        /\ UNCHANGED <<jobs, due, aged, generation, worker>>
        /\ session' = [session EXCEPT ![s] = Idle]
    BY <1>5 DEF Share
  <2>2. requests' \in [Requests -> Request]
    BY <2>1, RowsUpdated
  <2>3. QED
    BY <2>1, <2>2
<1>6. CASE Abort(s)
  BY <1>6 DEF Abort, tables
<1>7. QED
  BY <1>1, <1>2, <1>3, <1>4, <1>5, <1>6 DEF Use

\* So do workers.
LEMMA WorkTyped ==
  ASSUME Constants, QueueInv, NEW w \in Workers, Work(w) \/ Crash(w)
  PROVE  Typed'
<1> USE DEF Constants, QueueInv, Typed, TypeOK, Go, Idle, Between
<1>1. CASE ReadStuck(w)
  BY <1>1 DEF ReadStuck, tables
<1>2. CASE PutBack(w)
  <2>1. \A j \in DOMAIN worker[w].rows : j \in Jobs /\ jobs[j].status # "none"
    BY <1>2 DEF PutBack, RowsAreCurrent, Knows
  <2>2. QED
    BY <1>2, <2>1, FailRowsTyped DEF PutBack
<1>3. CASE Claim(w)
  <2>1. PICK batch \in SUBSET due :
          /\ jobs' = [j \in Jobs |-> IF j \in batch
               THEN [jobs[j] EXCEPT !.status = "running", !.attempts = @ + 1] ELSE jobs[j]]
          /\ \A j \in batch : jobs[j].status = "pending"
          /\ due' = due \ batch /\ aged' = aged \ batch
          /\ worker' = [worker EXCEPT ![w] = Between(batch)]
    BY <1>3 DEF Claim
  <2>2. /\ jobs' \in [Jobs -> Job]
        /\ \A j \in Jobs : jobs'[j].status # "none" => jobs'[j].of \in Requests
    <3>1. \A j \in Jobs : jobs[j] \in Job
      OBVIOUS
    <3>2. \A j \in Jobs : jobs'[j] \in Job /\ jobs'[j].of = jobs[j].of
      <4>1. SUFFICES ASSUME NEW j \in Jobs
                     PROVE  jobs'[j] \in Job /\ jobs'[j].of = jobs[j].of
        OBVIOUS
      <4>2. CASE j \in batch
        <5>1. jobs'[j] = [jobs[j] EXCEPT !.status = "running", !.attempts = jobs[j].attempts + 1]
          BY <2>1, <4>2
        <5>2. jobs'[j] \in Job
          BY <3>1, <5>1, RowsUpdated
        <5>3. QED
          BY <3>1, <5>1, <5>2 DEF Job
      <4>3. CASE j \notin batch
        BY <2>1, <3>1, <4>3
      <4>4. QED
        BY <4>2, <4>3
    <3>3. \A j \in Jobs : jobs'[j].status # "none" => jobs[j].status # "none"
      BY <2>1
    <3>4. jobs' \in [Jobs -> Job]
      BY <2>1, <3>2
    <3>5. QED
      BY <3>2, <3>3, <3>4
  <2>3. QED
    BY <1>3, <2>1, <2>2 DEF Claim
<1>4. CASE NothingDue(w)
  BY <1>4 DEF NothingDue, tables
<1>5. CASE Start(w)
  BY <1>5 DEF Start, RowsAreCurrent, Knows, Generation, GenerationStatus
<1>6. CASE Complete(w)
  <2>1. worker[w].request \in Request
    BY <1>6 DEF Complete
  <2>2. /\ jobs' \in [Jobs -> Job]
        /\ \A j \in Jobs : jobs'[j].status # "none" => jobs'[j].of \in Requests
    BY <1>6 DEF Complete, RowsAreCurrent, Knows, Job, JobStatus
  <2>3. requests' \in [Requests -> Request]
    <3> DEFINE r == jobs[worker[w].job].of
               result == Emit(worker[w].request.result, worker[w].request.retries,
                              requests[r].result)
    <3>1. requests' = [requests EXCEPT ![r] = [requests[r] EXCEPT !.result = result]]
      BY <1>6 DEF Complete
    <3>2. r \in Requests => requests[r] \in Request /\ result \in Nat \cup {None}
      BY <2>1, EmitEither DEF Request
    <3>3. QED
      <4> HIDE DEF r, result
      <4> QED  BY <3>1, <3>2, RowsUpdated
  <2>4. generation' \in [Requests -> Generation]
    <3> DEFINE r == jobs[worker[w].job].of
    <3>1. PICK review \in {"not_required", "pending"} :
            generation' = [generation EXCEPT ![r] =
              [status |-> "completed",
               review |-> Emit(worker[w].review, review, generation[r].review)]]
      BY <1>6 DEF Complete
    <3>2. r \in Requests =>
            Emit(worker[w].review, review, generation[r].review) \in ReviewStatus
      BY EmitEither DEF Generation, ReviewStatus
    <3>3. QED
      <4> HIDE DEF r
      <4> QED  BY <3>1, <3>2 DEF Generation, GenerationStatus
  <2>5. QED
    BY <1>6, <2>2, <2>3, <2>4 DEF Complete
<1>7. CASE Raise(w)
  BY <1>7 DEF Raise, tables
<1>8. CASE Fail(w)
  <2>1. \A j \in DOMAIN worker[w].rows : j \in Jobs /\ jobs[j].status # "none"
    BY <1>8 DEF Fail, RowsAreCurrent, Knows
  <2>2. QED
    BY <1>8, <2>1, FailRowsTyped DEF Fail
<1>9. CASE Finish(w)
  BY <1>9 DEF Finish, tables
<1>10. CASE Crash(w)
  BY <1>10 DEF Crash, tables
<1>11. QED
  BY <1>1, <1>2, <1>3, <1>4, <1>5, <1>6, <1>7, <1>8, <1>9, <1>10 DEF Work

(***************************************************************************)
(* Workers and the queue                                                   *)
(***************************************************************************)

\* A worker that goes on without a write need only know what it now holds.
LEMMA WorkerGoes ==
  ASSUME QueueInv, NEW w \in Workers, NEW t, worker' = [worker EXCEPT ![w] = t],
         UNCHANGED <<jobs, due>>, Typed', Knows(t), Current(t)
  PROVE  QueueInv'
<1>1. \A v \in Workers : worker'[v] = IF v = w THEN t ELSE worker[v]
  BY DEF QueueInv, Typed
<1>2. RowsAreCurrent'
  BY <1>1 DEF QueueInv, RowsAreCurrent, Knows, Current
<1>3. QED
  BY <1>2 DEF QueueInv, WaitingHasAttempt, AttemptsBounded

\* What fail_job does to each job: attempts stay, and a status that changes is one the
\* row did not have.
LEMMA FailRowsEffect ==
  ASSUME QueueInv, NEW rows, FailRows(rows)
  PROVE  /\ \A j \in Jobs :
              /\ jobs'[j].attempts = jobs[j].attempts
              /\ jobs'[j].status # jobs[j].status =>
                   /\ j \in DOMAIN rows
                   /\ rows[j].status # jobs'[j].status
                   /\ jobs'[j].status = IF Exhausted(rows[j]) THEN "failed" ELSE "pending"
         /\ due' \subseteq due
         /\ \A j \in due' \cap DOMAIN rows : Exhausted(rows[j])
<1> DEFINE written(j) == IF Exhausted(rows[j]) THEN "failed" ELSE "pending"
<1>1. \A j \in Jobs :
        IF j \in DOMAIN rows
        THEN jobs'[j] = [jobs[j] EXCEPT !.status = Emit(rows[j].status, written(j), @)]
        ELSE jobs'[j] = jobs[j]
  BY DEF FailRows
<1>2. \A j \in Jobs : jobs[j] \in Job
  BY DEF QueueInv, Typed, TypeOK
<1>3. \A j \in Jobs :
        /\ jobs'[j].attempts = jobs[j].attempts
        /\ jobs'[j].status # jobs[j].status =>
             j \in DOMAIN rows /\ rows[j].status # jobs'[j].status /\ jobs'[j].status = written(j)
  BY <1>1, <1>2 DEF Job, Emit
<1>4. QED
  BY <1>3 DEF FailRows

\* Putting back what is stuck, or what raised.
LEMMA FailKeeps ==
  ASSUME Constants, QueueInv, NEW w \in Workers, worker[w].at \in {"passing", "failing"},
         FailRows(worker[w].rows), Typed',
         NEW t, worker' = [worker EXCEPT ![w] = t],
         t.at \notin {"handling", "failing", "passing"},
         t.at = "between" => worker[w].at = "failing" /\ t.left = worker[w].left
  PROVE  QueueInv'
<1> DEFINE rows == worker[w].rows
<1>1. \A j \in Jobs :
        /\ jobs'[j].attempts = jobs[j].attempts
        /\ jobs'[j].status # jobs[j].status =>
             /\ j \in DOMAIN rows
             /\ rows[j].status # jobs'[j].status
             /\ jobs'[j].status = IF Exhausted(rows[j]) THEN "failed" ELSE "pending"
  BY FailRowsEffect
<1>2. due' \subseteq due /\ \A j \in due' \cap DOMAIN rows : Exhausted(rows[j])
  BY FailRowsEffect
<1>3. \A v \in Workers : worker'[v] = IF v = w THEN t ELSE worker[v]
  BY DEF QueueInv, Typed
<1>4. \A j \in Jobs : jobs[j].status # "none" => jobs'[j].status # "none"
  BY <1>1
<1>5. \A j \in Jobs : j \in due' /\ jobs'[j].status = "pending" =>
        j \in due /\ jobs[j].status = "pending"
  BY <1>1, <1>2
<1>6. RowsAreCurrent'
  <2>1. SUFFICES ASSUME NEW v \in Workers
                 PROVE  Knows(worker[v])' /\ Current(worker[v])'
    BY DEF RowsAreCurrent
  <2>2. CASE v # w
    <3>1. Knows(worker[v]) /\ Current(worker[v]) /\ worker'[v] = worker[v]
      BY <1>3, <2>2 DEF QueueInv, RowsAreCurrent
    <3>2. QED
      BY <1>1, <1>4, <1>5, <3>1 DEF Knows, Current
  <2>3. CASE v = w
    <3>1. worker'[v] = t /\ Knows(worker[w])
      BY <1>3, <2>3 DEF QueueInv, RowsAreCurrent
    <3>2. QED
      BY <1>4, <3>1 DEF Knows, Current
  <2>4. QED
    BY <2>2, <2>3
<1>7. WaitingHasAttempt'
  <2>1. SUFFICES ASSUME NEW j \in Jobs, jobs'[j].status = "pending"
                 PROVE  jobs'[j].attempts < MaxAttempts
    BY DEF WaitingHasAttempt
  <2>2. CASE jobs'[j].status = jobs[j].status
    BY <1>1, <2>1, <2>2 DEF QueueInv, WaitingHasAttempt
  <2>3. CASE jobs'[j].status # jobs[j].status
    <3>1. j \in DOMAIN rows /\ rows[j].status # "pending" /\ ~ Exhausted(rows[j])
      BY <1>1, <2>1, <2>3
    <3>2. rows[j].attempts = jobs[j].attempts
      BY <3>1 DEF QueueInv, RowsAreCurrent, Current
    <3>3. jobs[j].attempts < MaxAttempts
      <4>1. jobs[j].attempts \in Nat
        BY DEF QueueInv, Typed, TypeOK, Job
      <4>2. QED
        BY <3>1, <3>2, <4>1 DEF Exhausted, Constants
    <3>4. QED
      BY <1>1, <3>3
  <2>4. QED
    BY <2>2, <2>3
<1>8. AttemptsBounded'
  BY <1>1 DEF QueueInv, AttemptsBounded
<1>9. QED
  BY <1>6, <1>7, <1>8 DEF QueueInv

\* A claimed job waited, so no row that counts for it is out; its attempt was left.
LEMMA ClaimKeeps ==
  ASSUME Constants, QueueInv, NEW w \in Workers, Claim(w), Typed'
  PROVE  QueueInv'
<1>1. PICK batch \in SUBSET due :
        /\ \A j \in batch : jobs[j].status = "pending"
        /\ jobs' = [j \in Jobs |-> IF j \in batch
             THEN [jobs[j] EXCEPT !.status = "running", !.attempts = @ + 1] ELSE jobs[j]]
        /\ due' = due \ batch
        /\ worker' = [worker EXCEPT ![w] = Between(batch)]
  BY DEF Claim, Go
<1>2. \A j \in Jobs : jobs[j] \in Job
  BY DEF QueueInv, Typed, TypeOK
<1>3. /\ \A j \in batch : /\ j \in Jobs /\ jobs'[j].status = "running"
                         /\ jobs'[j].attempts = jobs[j].attempts + 1
      /\ \A j \in Jobs \ batch : jobs'[j] = jobs[j]
  <2>1. batch \subseteq Jobs
    BY <1>1 DEF QueueInv, Typed, TypeOK
  <2>2. \A j \in batch :
          jobs'[j] = [jobs[j] EXCEPT !.status = "running", !.attempts = jobs[j].attempts + 1]
    BY <1>1, <2>1
  <2>3. \A j \in batch : /\ jobs'[j].status = "running"
                          /\ jobs'[j].attempts = jobs[j].attempts + 1
    BY <1>2, <2>1, <2>2 DEF Job
  <2>4. \A j \in Jobs \ batch : jobs'[j] = jobs[j]
    BY <1>1
  <2>5. QED
    BY <2>1, <2>3, <2>4
<1>4. \A v \in Workers : worker'[v] = IF v = w THEN Between(batch) ELSE worker[v]
  BY <1>1 DEF QueueInv, Typed
<1>5. RowsAreCurrent'
  <2>1. SUFFICES ASSUME NEW v \in Workers
                 PROVE  Knows(worker[v])' /\ Current(worker[v])'
    BY DEF RowsAreCurrent
  <2>2. CASE v # w
    <3>1. Knows(worker[v]) /\ Current(worker[v]) /\ worker'[v] = worker[v]
      BY <1>4, <2>2 DEF QueueInv, RowsAreCurrent
    <3>2. Knows(worker[v])'
      BY <1>3, <3>1 DEF Knows
    <3>3. Current(worker[v])'
      <4>1. SUFFICES ASSUME worker[v].at \in {"passing", "failing"},
                            NEW j \in DOMAIN worker[v].rows,
                            worker[v].rows[j].status # "pending"
                     PROVE  /\ worker[v].rows[j].attempts = jobs'[j].attempts
                            /\ ~ (j \in due' /\ jobs'[j].status = "pending")
        BY <3>1 DEF Current
      <4>2. /\ j \in Jobs /\ worker[v].rows[j].attempts = jobs[j].attempts
            /\ ~ (j \in due /\ jobs[j].status = "pending")
        BY <3>1, <4>1 DEF Knows, Current
      <4>3. j \notin batch /\ (j \in due' => j \in due)
        BY <1>1, <4>2
      <4>4. QED
        BY <1>3, <4>2, <4>3
    <3>4. QED
      BY <3>2, <3>3
  <2>3. CASE v = w
    BY <1>3, <1>4, <2>3 DEF Knows, Current, Between
  <2>4. QED
    BY <2>2, <2>3
<1>6. WaitingHasAttempt'
  BY <1>3 DEF QueueInv, WaitingHasAttempt
<1>7. AttemptsBounded'
  <2>1. SUFFICES ASSUME NEW j \in Jobs
                 PROVE  jobs'[j].attempts <= MaxAttempts
    BY DEF AttemptsBounded
  <2>2. CASE j \in batch
    <3>1. jobs[j].attempts < MaxAttempts /\ jobs[j].attempts \in Nat
      BY <1>1, <1>2, <2>2 DEF QueueInv, WaitingHasAttempt, Job
    <3>2. QED
      BY <1>3, <2>2, <3>1 DEF Constants
  <2>3. CASE j \notin batch
    BY <1>3, <2>3 DEF QueueInv, AttemptsBounded
  <2>4. QED
    BY <2>2, <2>3
<1>8. QED
  BY <1>5, <1>6, <1>7 DEF QueueInv

\* A completed job waits for nothing.
LEMMA CompleteKeeps ==
  ASSUME QueueInv, NEW w \in Workers, Complete(w), Typed'
  PROVE  QueueInv'
<1> DEFINE k == worker[w].job
<1>1. /\ k \in Jobs
      /\ jobs' = [jobs EXCEPT ![k].status = "completed"] /\ UNCHANGED due
      /\ worker' = [worker EXCEPT ![w] = Between(worker[w].left)]
      /\ worker[w].at = "handling"
  BY DEF Complete, Go, QueueInv, RowsAreCurrent, Knows
<1>2. \A j \in Jobs : jobs[j] \in Job
  BY DEF QueueInv, Typed, TypeOK
<1>3. \A j \in Jobs :
        /\ jobs'[j].attempts = jobs[j].attempts
        /\ jobs'[j].status = IF j = k THEN "completed" ELSE jobs[j].status
  <2> HIDE DEF k
  <2> QED  BY <1>1, <1>2 DEF Job, QueueInv, Typed, TypeOK
<1>4. \A v \in Workers :
        worker'[v] = IF v = w THEN Between(worker[w].left) ELSE worker[v]
  BY <1>1 DEF QueueInv, Typed
<1>5. RowsAreCurrent'
  <2>1. SUFFICES ASSUME NEW v \in Workers
                 PROVE  Knows(worker[v])' /\ Current(worker[v])'
    BY DEF RowsAreCurrent
  <2>2. Knows(worker[v]) /\ Current(worker[v]) /\ Knows(worker[w])
    BY DEF QueueInv, RowsAreCurrent
  <2>3. CASE v # w
    <3>1. worker'[v] = worker[v]
      BY <1>4, <2>3
    <3>2. QED
      <4> HIDE DEF k
      <4> QED  BY <1>1, <1>3, <2>2, <3>1 DEF Knows, Current
  <2>4. CASE v = w
    <3> HIDE DEF k
    <3> QED  BY <1>1, <1>3, <1>4, <2>2, <2>4 DEF Knows, Current, Between
  <2>5. QED
    BY <2>3, <2>4
<1>6. WaitingHasAttempt' /\ AttemptsBounded'
  BY <1>3 DEF QueueInv, WaitingHasAttempt, AttemptsBounded
<1>7. QED
  BY <1>5, <1>6 DEF QueueInv

\* A backoff that is over makes no job due whose row is out.
LEMMA BackoffKeeps ==
  ASSUME QueueInv, NEW j \in Jobs, BackoffOver(j), Typed'
  PROVE  QueueInv'
<1>1. /\ due' = due \cup {j} /\ UNCHANGED <<jobs, worker>>
      /\ \A w \in Workers :
           worker[w].at \in {"passing", "failing"} => j \notin DOMAIN worker[w].rows
  BY DEF BackoffOver, NoPass
<1>2. RowsAreCurrent'
  BY <1>1 DEF QueueInv, RowsAreCurrent, Knows, Current
<1>3. QED
  BY <1>1, <1>2 DEF QueueInv, WaitingHasAttempt, AttemptsBounded

\* Every step keeps the invariant.
LEMMA QueueNext ==
  ASSUME Constants, QueueInv, [Next]_vars
  PROVE  QueueInv'
<1>1. CASE UNCHANGED vars
  <2>1. Typed'
    BY <1>1 DEF vars, QueueInv, Typed, TypeOK
  <2>2. QED
    BY <1>1, <2>1, QueueUntouched DEF vars
<1>2. ASSUME NEW r \in Requests, Create(r)
      PROVE  QueueInv'
  <2>1. Enqueue(r) /\ UNCHANGED worker
    BY <1>2 DEF Create
  <2>2. Typed'
    <3>1. PICK j \in Jobs :
            /\ jobs' = [jobs EXCEPT ![j] = [status |-> "pending", attempts |-> 0, of |-> r]]
            /\ due' = due \cup {j}
      BY <2>1 DEF Enqueue
    <3>2. /\ jobs' \in [Jobs -> Job] /\ due' \subseteq Jobs
          /\ \A i \in Jobs : jobs'[i].status # "none" => jobs'[i].of \in Requests
      BY <3>1 DEF QueueInv, Typed, TypeOK, Job, JobStatus
    <3>3. requests' \in [Requests -> Request]
      BY <1>2, RowsUpdated DEF Create, QueueInv, Typed, TypeOK
    <3>4. QED
      BY <1>2, <3>2, <3>3 DEF Create, QueueInv, Typed, TypeOK
  <2>3. QED
    BY <2>1, <2>2, EnqueueKeeps
<1>3. ASSUME NEW s \in Sessions, Use(s)
      PROVE  QueueInv'
  <2>1. Typed'
    BY <1>3, UseTyped
  <2>2. CASE Retry(s)
    <3>1. Enqueue(session[s].of) /\ UNCHANGED worker /\ session[s].of \in Requests
      BY <2>2 DEF Retry, QueueInv, Typed
    <3>2. QED
      BY <2>1, <3>1, EnqueueKeeps
  <2>3. CASE ~ Retry(s)
    <3>1. UNCHANGED <<jobs, due, worker>>
      BY <1>3, <2>3 DEF Use, Read, Delete, Review, Share, Abort, tables
    <3>2. QED
      BY <2>1, <3>1, QueueUntouched
  <2>4. QED
    BY <2>2, <2>3
<1>4. ASSUME NEW w \in Workers, Work(w) \/ Crash(w)
      PROVE  QueueInv'
  <2>1. Typed'
    BY <1>4, WorkTyped
  <2>2. Knows(worker[w]) /\ Current(worker[w])
    BY DEF QueueInv, RowsAreCurrent
  <2>3. CASE ReadStuck(w)
    <3> DEFINE t == [at |-> "passing", rows |-> [j \in Stuck |-> jobs[j]]]
    <3>1. Knows(t) /\ Current(t)
      BY DEF Knows, Current, Stuck, Running
    <3>2. worker' = [worker EXCEPT ![w] = t] /\ UNCHANGED <<jobs, due>>
      BY <2>3 DEF ReadStuck, Go, tables
    <3>3. QED
      <4> HIDE DEF t
      <4> QED  BY <2>1, <3>1, <3>2, WorkerGoes
  <2>4. CASE PutBack(w)
    <3> DEFINE t == [at |-> "claiming"]
    <3>1. /\ worker[w].at = "passing" /\ FailRows(worker[w].rows)
          /\ worker' = [worker EXCEPT ![w] = t]
      BY <2>4 DEF PutBack, Go
    <3>2. t.at \notin {"handling", "failing", "passing", "between"}
      OBVIOUS
    <3>3. QED
      <4> HIDE DEF t
      <4> QED  BY <2>1, <3>1, <3>2, FailKeeps
  <2>5. CASE Claim(w)
    BY <2>1, <2>5, ClaimKeeps
  <2>6. CASE NothingDue(w) \/ Finish(w) \/ Crash(w)
    <3>1. Knows(Idle) /\ Current(Idle)
      BY DEF Knows, Current, Idle
    <3>2. worker' = [worker EXCEPT ![w] = Idle] /\ UNCHANGED <<jobs, due>>
      BY <2>6 DEF NothingDue, Finish, Crash, Go, tables
    <3>3. QED
      BY <2>1, <3>1, <3>2, WorkerGoes
  <2>7. CASE Start(w)
    <3>1. PICK j \in worker[w].left :
            worker' = [worker EXCEPT ![w] =
              [at |-> "handling", left |-> worker[w].left \ {j}, job |-> j,
               request |-> requests[jobs[j].of], review |-> generation[jobs[j].of].review]]
      BY <2>7 DEF Start, Go
    <3> DEFINE t == [at |-> "handling", left |-> worker[w].left \ {j}, job |-> j,
                     request |-> requests[jobs[j].of], review |-> generation[jobs[j].of].review]
    <3>2. Knows(t) /\ Current(t)
      BY <2>2, <2>7 DEF Knows, Current, Start
    <3>3. worker' = [worker EXCEPT ![w] = t] /\ UNCHANGED <<jobs, due>>
      BY <2>7, <3>1 DEF Start
    <3>4. QED
      <4> HIDE DEF t
      <4> QED  BY <2>1, <3>2, <3>3, WorkerGoes
  <2>8. CASE Complete(w)
    BY <2>1, <2>8, CompleteKeeps
  <2>9. CASE Raise(w)
    <3> DEFINE t == [at |-> "failing", left |-> worker[w].left, job |-> worker[w].job,
                     rows |-> [j \in {worker[w].job} |-> jobs[j]]]
    <3>1. Knows(t) /\ Current(t)
      BY <2>2, <2>9 DEF Knows, Current, Raise
    <3>2. worker' = [worker EXCEPT ![w] = t] /\ UNCHANGED <<jobs, due>>
      BY <2>9 DEF Raise, Go, tables
    <3>3. QED
      <4> HIDE DEF t
      <4> QED  BY <2>1, <3>1, <3>2, WorkerGoes
  <2>10. CASE Fail(w)
    <3> DEFINE t == Between(worker[w].left)
    <3>1. /\ worker[w].at = "failing" /\ FailRows(worker[w].rows)
          /\ worker' = [worker EXCEPT ![w] = t]
      BY <2>10 DEF Fail, Go
    <3>2. t.at \notin {"handling", "failing", "passing"} /\ t.left = worker[w].left
      BY DEF Between
    <3>3. QED
      <4> HIDE DEF t
      <4> QED  BY <2>1, <3>1, <3>2, FailKeeps
  <2>11. QED
    BY <1>4, <2>3, <2>4, <2>5, <2>6, <2>7, <2>8, <2>9, <2>10 DEF Work
<1>5. ASSUME NEW j \in Jobs, BackoffOver(j)
      PROVE  QueueInv'
  <2>1. Typed'
    BY <1>5 DEF BackoffOver, QueueInv, Typed, TypeOK
  <2>2. QED
    BY <1>5, <2>1, BackoffKeeps
<1>6. CASE Age
  <2>1. Typed'
    BY <1>6 DEF Age, Running, QueueInv, Typed, TypeOK
  <2>2. QED
    BY <1>6, <2>1, QueueUntouched DEF Age
<1>7. QED
  BY <1>1, <1>2, <1>3, <1>4, <1>5, <1>6 DEF Next

(***************************************************************************)
(* Theorems                                                                *)
(***************************************************************************)

\* The invariant holds in every reachable state.
LEMMA QueueStays ==
  ASSUME Constants
  PROVE  Spec => []QueueInv
<1>1. Init => QueueInv
  BY InitQueue
<1>2. QueueInv /\ [Next]_vars => QueueInv'
  BY QueueNext
<1>3. QED
  BY <1>1, <1>2, PTL DEF Spec

\* The tables keep their types, whatever users, staff and workers do.
THEOREM TypeCorrect ==
  ASSUME Constants
  PROVE  Spec => []TypeOK
<1>1. QueueInv => TypeOK
  BY DEF QueueInv, Typed
<1>2. QED
  BY <1>1, QueueStays, PTL

\* A job is tried at most ai_job_max_attempts times, for any number of workers, also
\* when they crash or outlast the threshold of the stuck pass.
THEOREM TriedWithinBound ==
  ASSUME Constants
  PROVE  Spec => []AttemptsBounded
<1>1. QueueInv => AttemptsBounded
  BY DEF QueueInv
<1>2. QED
  BY <1>1, QueueStays, PTL

(***************************************************************************)
(* Workers within the threshold                                            *)
(***************************************************************************)

\* A job that is held is running, by one worker, and not for too long.
HeldRuns ==
  \A w \in Workers, j \in Jobs : Holds(w, j) => jobs[j].status = "running" /\ j \notin aged

HeldByOne == \A v, w \in Workers, j \in Jobs : Holds(v, j) /\ Holds(w, j) => v = w

\* A pass over stuck jobs has read jobs that nobody holds; a handler, its own.
Careful(t) ==
  /\ t.at \in {"handling", "failing"} => t.job \notin t.left
  /\ t.at = "failing" => DOMAIN t.rows = {t.job}
  /\ t.at = "passing" =>
       \A j \in DOMAIN t.rows :
         /\ t.rows[j].status # "pending" /\ jobs[j].status # "completed"
         /\ \A v \in Workers : ~ Holds(v, j)

ReadersAreCareful == \A w \in Workers : Careful(worker[w])

Owned == HeldRuns /\ HeldByOne /\ ReadersAreCareful

\* Whoever comes to hold nothing new leaves what others hold and have read.
LEMMA OwnedByFewer ==
  ASSUME Owned, NEW w \in Workers, UNCHANGED <<jobs, aged>>, DOMAIN worker = Workers,
         NEW t, worker' = [worker EXCEPT ![w] = t],
         \A j \in Jobs : Holds(w, j)' => Holds(w, j),
         RowsAreCurrent, Careful(worker[w])'
  PROVE  Owned'
<1>1. \A v \in Workers : worker'[v] = IF v = w THEN t ELSE worker[v]
  OBVIOUS
<1>2. \A v \in Workers, j \in Jobs : Holds(v, j)' => Holds(v, j)
  BY <1>1 DEF Holds, Handling
<1>3. HeldRuns' /\ HeldByOne'
  BY <1>2 DEF Owned, HeldRuns, HeldByOne
<1>4. ReadersAreCareful'
  <2>1. SUFFICES ASSUME NEW v \in Workers, v # w
                 PROVE  Careful(worker[v])'
    BY DEF ReadersAreCareful
  <2>2. Careful(worker[v]) /\ Knows(worker[v]) /\ worker'[v] = worker[v]
    BY <1>1, <2>1 DEF Owned, ReadersAreCareful, RowsAreCurrent
  <2>3. QED
    BY <1>2, <2>2 DEF Careful, Knows
<1>5. QED
  BY <1>3, <1>4 DEF Owned

\* Jobs nobody holds and no pass has read may come into being.
LEMMA OwnedByEnqueue ==
  ASSUME QueueInv, Owned, NEW r \in Requests, Enqueue(r), UNCHANGED <<aged, worker>>
  PROVE  Owned' /\ CompletedStaysSo
<1>1. PICK k \in Jobs :
        /\ jobs[k].status = "none"
        /\ jobs' = [jobs EXCEPT ![k] = [status |-> "pending", attempts |-> 0, of |-> r]]
  BY DEF Enqueue
<1>2. jobs'[k].status = "pending" /\ \A j \in Jobs \ {k} : jobs'[j] = jobs[j]
  BY <1>1 DEF QueueInv, Typed, TypeOK
<1>3. \A w \in Workers, j \in Jobs : Holds(w, j)' <=> Holds(w, j)
  BY DEF Holds, Handling
<1>4. HeldRuns' /\ HeldByOne'
  BY <1>1, <1>2, <1>3 DEF Owned, HeldRuns, HeldByOne
<1>5. ReadersAreCareful'
  <2>1. SUFFICES ASSUME NEW w \in Workers
                 PROVE  Careful(worker[w])'
    BY DEF ReadersAreCareful
  <2>2. Careful(worker[w]) /\ Knows(worker[w]) /\ worker'[w] = worker[w]
    BY DEF Owned, ReadersAreCareful, QueueInv, RowsAreCurrent
  <2>3. QED
    BY <1>1, <1>2, <1>3, <2>2 DEF Careful, Knows
<1>6. QED
  BY <1>1, <1>2, <1>4, <1>5 DEF Owned, CompletedStaysSo

\* fail_job on rows that are the worker's own, or nobody's.
LEMMA OwnedByFail ==
  ASSUME QueueInv, Owned, NEW w \in Workers, worker[w].at \in {"passing", "failing"},
         FailRows(worker[w].rows), UNCHANGED aged,
         NEW t, worker' = [worker EXCEPT ![w] = t],
         t.at \in {"claiming", "between"},
         t.at = "between" =>
           worker[w].at = "failing" /\ t.left = worker[w].left /\ t.job \notin Jobs
  PROVE  Owned' /\ CompletedStaysSo
<1> DEFINE rows == worker[w].rows
<1>1. \A j \in Jobs : jobs'[j].status # jobs[j].status =>
        j \in DOMAIN rows /\ jobs'[j].status \in {"failed", "pending"}
  BY FailRowsEffect
<1>2. \A v \in Workers : worker'[v] = IF v = w THEN t ELSE worker[v]
  BY DEF QueueInv, Typed
<1>3. \A v \in Workers, j \in Jobs : Holds(v, j)' => Holds(v, j) /\ j \notin DOMAIN rows
  <2>1. SUFFICES ASSUME NEW v \in Workers, NEW j \in Jobs, Holds(v, j)'
                 PROVE  Holds(v, j) /\ j \notin DOMAIN rows
    OBVIOUS
  <2>2. Careful(worker[w])
    BY DEF Owned, ReadersAreCareful
  <2>3. CASE v = w
    <3>1. worker'[w] = t /\ t.at = "between" /\ j \in t.left
      BY <1>2, <2>1, <2>3 DEF Holds, Handling
    <3>2. worker[w].at = "failing" /\ j \in worker[w].left
      BY <3>1
    <3>3. QED
      BY <2>2, <2>3, <3>2 DEF Careful, Holds, Handling
  <2>4. CASE v # w
    <3>1. Holds(v, j)
      BY <1>2, <2>1, <2>4 DEF Holds, Handling
    <3>2. CASE worker[w].at = "passing"
      BY <2>2, <3>1, <3>2 DEF Careful
    <3>3. CASE worker[w].at = "failing"
      <4>1. \A i \in DOMAIN rows : i \in Jobs => Holds(w, i)
        BY <2>2, <3>3 DEF Careful, Holds, Handling
      <4>2. QED
        BY <2>4, <3>1, <4>1 DEF Owned, HeldByOne
    <3>4. QED
      BY <3>1, <3>2, <3>3
  <2>5. QED
    BY <2>3, <2>4
<1>4. HeldRuns' /\ HeldByOne'
  <2>1. HeldByOne'
    BY <1>3 DEF Owned, HeldByOne
  <2>2. HeldRuns'
    BY <1>1, <1>3 DEF Owned, HeldRuns
  <2>3. QED
    BY <2>1, <2>2
<1>5. ReadersAreCareful'
  <2>1. SUFFICES ASSUME NEW v \in Workers
                 PROVE  Careful(worker[v])'
    BY DEF ReadersAreCareful
  <2>2. CASE v = w
    BY <1>2, <2>2 DEF Careful
  <2>3. CASE v # w
    <3>1. Careful(worker[v]) /\ Knows(worker[v]) /\ worker'[v] = worker[v]
      BY <1>2, <2>3 DEF Owned, ReadersAreCareful, QueueInv, RowsAreCurrent
    <3>2. \A j \in Jobs : jobs[j].status # "completed" => jobs'[j].status # "completed"
      BY <1>1
    <3>3. QED
      BY <1>3, <3>1, <3>2 DEF Careful, Knows
  <2>4. QED
    BY <2>2, <2>3
<1>6. CompletedStaysSo
  <2>1. \A j \in DOMAIN rows : jobs[j].status # "completed"
    <3>1. Careful(worker[w]) /\ Knows(worker[w])
      BY DEF Owned, ReadersAreCareful, QueueInv, RowsAreCurrent
    <3>2. CASE worker[w].at = "passing"
      BY <3>1, <3>2 DEF Careful
    <3>3. CASE worker[w].at = "failing"
      <4>1. Holds(w, worker[w].job) /\ worker[w].job \in Jobs
        BY <3>1, <3>3 DEF Holds, Handling, Knows
      <4>2. jobs[worker[w].job].status = "running"
        BY <4>1 DEF Owned, HeldRuns
      <4>3. QED
        BY <3>1, <3>3, <4>2 DEF Careful
    <3>4. QED
      BY <3>2, <3>3
  <2>2. QED
    BY <1>1, <2>1 DEF CompletedStaysSo
<1>7. QED
  BY <1>4, <1>5, <1>6 DEF Owned

\* What is claimed waited, and so was held by nobody and read by no pass.
LEMMA OwnedByClaim ==
  ASSUME Constants, QueueInv, Owned, NEW w \in Workers, Claim(w)
  PROVE  Owned' /\ CompletedStaysSo
<1>1. PICK batch \in SUBSET due :
        /\ \A j \in batch : jobs[j].status = "pending"
        /\ jobs' = [j \in Jobs |-> IF j \in batch
             THEN [jobs[j] EXCEPT !.status = "running", !.attempts = @ + 1] ELSE jobs[j]]
        /\ aged' = aged \ batch
        /\ worker' = [worker EXCEPT ![w] = Between(batch)]
  BY DEF Claim, Go
<1>2. \A j \in Jobs : jobs[j] \in Job
  BY DEF QueueInv, Typed, TypeOK
<1>3. /\ \A j \in batch : j \in Jobs /\ jobs'[j].status = "running"
      /\ \A j \in Jobs \ batch : jobs'[j] = jobs[j]
  BY <1>1, <1>2 DEF Job, QueueInv, Typed, TypeOK
<1>4. \A v \in Workers : worker'[v] = IF v = w THEN Between(batch) ELSE worker[v]
  BY <1>1 DEF QueueInv, Typed
<1>5. \A j \in Jobs : Holds(w, j)' <=> j \in batch
  BY <1>4 DEF Holds, Handling, Between, Constants
<1>6. \A v \in Workers \ {w}, j \in Jobs : Holds(v, j)' <=> Holds(v, j)
  BY <1>4 DEF Holds, Handling
<1>7. \A v \in Workers, j \in batch : ~ Holds(v, j)
  BY <1>1, <1>3 DEF Owned, HeldRuns
<1>8. HeldRuns'
  BY <1>1, <1>3, <1>5, <1>6 DEF Owned, HeldRuns
<1>9. HeldByOne'
  BY <1>5, <1>6, <1>7 DEF Owned, HeldByOne
<1>10. ReadersAreCareful'
  <2>1. SUFFICES ASSUME NEW v \in Workers
                 PROVE  Careful(worker[v])'
    BY DEF ReadersAreCareful
  <2>2. CASE v = w
    BY <1>4, <2>2 DEF Careful, Between
  <2>3. CASE v # w
    <3>1. /\ Careful(worker[v]) /\ Knows(worker[v]) /\ Current(worker[v])
          /\ worker'[v] = worker[v]
      BY <1>4, <2>3 DEF Owned, ReadersAreCareful, QueueInv, RowsAreCurrent
    <3>2. worker[v].at = "passing" => \A j \in DOMAIN worker[v].rows : j \notin batch
      BY <1>1, <3>1 DEF Careful, Current
    <3>3. worker[v].at = "passing" =>
            \A j \in DOMAIN worker[v].rows :
              jobs'[j].status # "completed" /\ \A u \in Workers : ~ Holds(u, j)'
      BY <1>3, <1>5, <1>6, <3>1, <3>2 DEF Careful, Knows
    <3>4. QED
      BY <3>1, <3>3 DEF Careful
  <2>4. QED
    BY <2>2, <2>3
<1>11. CompletedStaysSo
  BY <1>1, <1>3 DEF CompletedStaysSo
<1>12. QED
  BY <1>8, <1>9, <1>10, <1>11 DEF Owned

\* A completed job was held by the one that completed it.
LEMMA OwnedByComplete ==
  ASSUME Constants, QueueInv, Owned, NEW w \in Workers, Complete(w)
  PROVE  Owned' /\ CompletedStaysSo
<1> DEFINE k == worker[w].job
<1>1. /\ k \in Jobs /\ worker[w].at = "handling"
      /\ jobs' = [jobs EXCEPT ![k].status = "completed"] /\ UNCHANGED aged
      /\ worker' = [worker EXCEPT ![w] = Between(worker[w].left)]
  BY DEF Complete, Go, QueueInv, RowsAreCurrent, Knows
<1>2. /\ jobs'[k].status = "completed"
      /\ \A j \in Jobs \ {k} : jobs'[j] = jobs[j]
  <2>1. \A j \in Jobs : jobs[j] \in Job
    BY DEF QueueInv, Typed, TypeOK
  <2>2. QED
    <3> HIDE DEF k
    <3> QED  BY <1>1, <2>1 DEF Job, QueueInv, Typed, TypeOK
<1>3. \A v \in Workers :
        worker'[v] = IF v = w THEN Between(worker[w].left) ELSE worker[v]
  BY <1>1 DEF QueueInv, Typed
<1>4. Holds(w, k) /\ k \notin worker[w].left
  BY <1>1 DEF Holds, Handling, Owned, ReadersAreCareful, Careful
<1>5. \A v \in Workers, j \in Jobs : Holds(v, j)' => Holds(v, j) /\ j # k
  <2>1. SUFFICES ASSUME NEW v \in Workers, NEW j \in Jobs, Holds(v, j)'
                 PROVE  Holds(v, j) /\ j # k
    OBVIOUS
  <2>2. CASE v = w
    BY <1>1, <1>3, <1>4, <2>1, <2>2 DEF Holds, Handling, Between, Constants
  <2>3. CASE v # w
    <3>1. Holds(v, j)
      BY <1>3, <2>1, <2>3 DEF Holds, Handling
    <3>2. QED
      BY <1>4, <2>3, <3>1 DEF Owned, HeldByOne
  <2>4. QED
    BY <2>2, <2>3
<1>6. HeldRuns' /\ HeldByOne'
  <2> HIDE DEF k
  <2> QED  BY <1>1, <1>2, <1>5 DEF Owned, HeldRuns, HeldByOne
<1>7. ReadersAreCareful'
  <2>1. SUFFICES ASSUME NEW v \in Workers
                 PROVE  Careful(worker[v])'
    BY DEF ReadersAreCareful
  <2>2. CASE v = w
    BY <1>3, <2>2 DEF Careful, Between
  <2>3. CASE v # w
    <3>1. Careful(worker[v]) /\ Knows(worker[v]) /\ worker'[v] = worker[v]
      BY <1>3, <2>3 DEF Owned, ReadersAreCareful, QueueInv, RowsAreCurrent
    <3>2. worker[v].at = "passing" => k \notin DOMAIN worker[v].rows
      BY <1>4, <3>1 DEF Careful
    <3>3. QED
      <4> HIDE DEF k
      <4> QED  BY <1>2, <1>5, <3>1, <3>2 DEF Careful, Knows
  <2>4. QED
    BY <2>2, <2>3
<1>8. CompletedStaysSo
  <2> HIDE DEF k
  <2> QED  BY <1>1, <1>2 DEF CompletedStaysSo
<1>9. QED
  BY <1>6, <1>7, <1>8 DEF Owned

\* Every step keeps who holds what, and completes nothing away.
LEMMA OwnedNext ==
  ASSUME Constants, ~ Late, QueueInv, Owned, [Next]_vars
  PROVE  Owned' /\ CompletedStaysSo
<1>1. ASSUME UNCHANGED <<jobs, aged, worker>>
      PROVE  Owned' /\ CompletedStaysSo
  BY <1>1 DEF Owned, HeldRuns, HeldByOne, ReadersAreCareful, Careful, Holds, Handling,
              CompletedStaysSo
<1>2. CASE UNCHANGED vars
  BY <1>1, <1>2 DEF vars
<1>3. ASSUME NEW r \in Requests, Create(r)
      PROVE  Owned' /\ CompletedStaysSo
  BY <1>3, OwnedByEnqueue DEF Create
<1>4. ASSUME NEW s \in Sessions, Use(s)
      PROVE  Owned' /\ CompletedStaysSo
  <2>1. CASE Retry(s)
    <3>1. Enqueue(session[s].of) /\ session[s].of \in Requests /\ UNCHANGED <<aged, worker>>
      BY <2>1 DEF Retry, QueueInv, Typed
    <3>2. QED
      BY <3>1, OwnedByEnqueue
  <2>2. CASE ~ Retry(s)
    <3>1. UNCHANGED <<jobs, aged, worker>>
      BY <1>4, <2>2 DEF Use, Read, Delete, Review, Share, Abort, tables
    <3>2. QED
      BY <1>1, <3>1
  <2>3. QED
    BY <2>1, <2>2
<1>5. ASSUME NEW w \in Workers, Work(w) \/ Crash(w)
      PROVE  Owned' /\ CompletedStaysSo
  <2>1. /\ DOMAIN worker = Workers /\ RowsAreCurrent
        /\ Careful(worker[w]) /\ Knows(worker[w])
    BY DEF QueueInv, Typed, RowsAreCurrent, Owned, ReadersAreCareful
  <2>2. UNCHANGED jobs => CompletedStaysSo
    BY DEF CompletedStaysSo
  <2>3. CASE ReadStuck(w)
    <3> DEFINE t == [at |-> "passing", rows |-> [j \in Stuck |-> jobs[j]]]
    <3>1. worker' = [worker EXCEPT ![w] = t] /\ UNCHANGED <<jobs, aged>>
      BY <2>3 DEF ReadStuck, Go, tables
    <3>2. \A v \in Workers : worker'[v] = IF v = w THEN t ELSE worker[v]
      BY <2>1, <3>1
    <3>t. /\ t.at = "passing" /\ DOMAIN t.rows = Stuck
          /\ \A j \in Stuck : t.rows[j] = jobs[j]
      OBVIOUS
    <3>w. worker'[w] = t
      BY <3>2
    <3> HIDE DEF t
    <3>3. \A v \in Workers, j \in Jobs : Holds(v, j)' => Holds(v, j)
      <4>1. SUFFICES ASSUME NEW v \in Workers, NEW j \in Jobs, Holds(v, j)'
                     PROVE  Holds(v, j)
        OBVIOUS
      <4>2. CASE v = w
        BY <3>t, <3>w, <4>1, <4>2 DEF Holds, Handling
      <4>3. CASE v # w
        BY <3>2, <4>1, <4>3 DEF Holds, Handling
      <4>4. QED
        BY <4>2, <4>3
    <3>4. \A j \in Stuck : /\ j \in Jobs /\ jobs[j].status = "running"
                         /\ \A v \in Workers : ~ Holds(v, j)
      BY DEF Stuck, Running, Owned, HeldRuns
    <3>5. Careful(worker[w])'
      BY <3>1, <3>t, <3>w, <3>3, <3>4 DEF Careful
    <3>6. Owned'
      <4> HIDE DEF t
      <4> QED  BY <2>1, <3>1, <3>3, <3>5, OwnedByFewer
    <3>7. QED
      BY <2>2, <3>1, <3>6
  <2>4. CASE PutBack(w)
    <3> DEFINE t == [at |-> "claiming"]
    <3>1. /\ worker[w].at = "passing" /\ FailRows(worker[w].rows) /\ UNCHANGED aged
          /\ worker' = [worker EXCEPT ![w] = t]
      BY <2>4 DEF PutBack, Go
    <3>2. t.at = "claiming"
      OBVIOUS
    <3>3. QED
      <4> HIDE DEF t
      <4> QED  BY <3>1, <3>2, OwnedByFail
  <2>5. CASE Claim(w)
    BY <2>5, OwnedByClaim
  <2>6. CASE NothingDue(w) \/ Finish(w) \/ Crash(w)
    <3>1. worker' = [worker EXCEPT ![w] = Idle] /\ UNCHANGED <<jobs, aged>>
      BY <2>6 DEF NothingDue, Finish, Crash, Go, tables
    <3>2. worker'[w] = Idle
      BY <2>1, <3>1
    <3>3. Careful(worker[w])' /\ \A j \in Jobs : ~ Holds(w, j)'
      BY <3>2 DEF Careful, Holds, Handling, Idle
    <3>4. QED
      BY <2>1, <2>2, <3>1, <3>3, OwnedByFewer
  <2>7. CASE Start(w)
    <3>1. PICK k \in worker[w].left :
            worker' = [worker EXCEPT ![w] =
              [at |-> "handling", left |-> worker[w].left \ {k}, job |-> k,
               request |-> requests[jobs[k].of], review |-> generation[jobs[k].of].review]]
      BY <2>7 DEF Start, Go
    <3> DEFINE t == [at |-> "handling", left |-> worker[w].left \ {k}, job |-> k,
                     request |-> requests[jobs[k].of], review |-> generation[jobs[k].of].review]
    <3>2. worker'[w] = t /\ worker' = [worker EXCEPT ![w] = t] /\ UNCHANGED <<jobs, aged>>
      BY <2>1, <2>7, <3>1 DEF Start
    <3>3. Careful(worker[w])' /\ \A j \in Jobs : Holds(w, j)' => Holds(w, j)
      BY <2>7, <3>2 DEF Careful, Holds, Handling, Start
    <3>4. Owned'
      <4> HIDE DEF t
      <4> QED  BY <2>1, <3>2, <3>3, OwnedByFewer
    <3>5. QED
      BY <2>2, <3>2, <3>4
  <2>8. CASE Complete(w)
    BY <2>8, OwnedByComplete
  <2>9. CASE Raise(w)
    <3> DEFINE t == [at |-> "failing", left |-> worker[w].left, job |-> worker[w].job,
                     rows |-> [j \in {worker[w].job} |-> jobs[j]]]
    <3>1. worker'[w] = t /\ worker' = [worker EXCEPT ![w] = t] /\ UNCHANGED <<jobs, aged>>
      BY <2>1, <2>9 DEF Raise, Go, tables
    <3>2. Careful(worker[w])' /\ \A j \in Jobs : Holds(w, j)' => Holds(w, j)
      BY <2>1, <2>9, <3>1 DEF Careful, Holds, Handling, Raise
    <3>3. Owned'
      <4> HIDE DEF t
      <4> QED  BY <2>1, <3>1, <3>2, OwnedByFewer
    <3>4. QED
      BY <2>2, <3>1, <3>3
  <2>10. CASE Fail(w)
    <3> DEFINE t == Between(worker[w].left)
    <3>1. /\ worker[w].at = "failing" /\ FailRows(worker[w].rows) /\ UNCHANGED aged
          /\ worker' = [worker EXCEPT ![w] = t]
      BY <2>10 DEF Fail, Go
    <3>2. t.at = "between" /\ t.left = worker[w].left /\ t.job \notin Jobs
      BY DEF Between, Constants
    <3>3. QED
      <4> HIDE DEF t
      <4> QED  BY <3>1, <3>2, OwnedByFail
  <2>11. QED
    BY <1>5, <2>3, <2>4, <2>5, <2>6, <2>7, <2>8, <2>9, <2>10 DEF Work
<1>6. ASSUME NEW j \in Jobs, BackoffOver(j)
      PROVE  Owned' /\ CompletedStaysSo
  BY <1>1, <1>6 DEF BackoffOver
<1>7. CASE Age
  <2>1. /\ \A j \in aged' \ aged : \A w \in Workers : ~ Holds(w, j)
        /\ UNCHANGED <<jobs, worker>>
    BY <1>7 DEF Age
  <2>2. HeldRuns'
    BY <2>1 DEF Owned, HeldRuns, Holds, Handling
  <2>3. HeldByOne' /\ ReadersAreCareful'
    BY <2>1 DEF Owned, HeldByOne, ReadersAreCareful, Careful, Holds, Handling
  <2>4. QED
    BY <2>1, <2>2, <2>3 DEF Owned, CompletedStaysSo
<1>8. QED
  BY <1>2, <1>3, <1>4, <1>5, <1>6, <1>7 DEF Next

\* A job that was done is never done again or put back, provided that no worker
\* outlasts the threshold of the stuck pass, whatever workers raise or crash.
THEOREM CompletedForGood ==
  ASSUME Constants, ~ Late
  PROVE  Spec => CompletedIsFinal
<1>1. Init => Owned
  BY DEF Init, Idle, Owned, HeldRuns, HeldByOne, ReadersAreCareful, Careful, Holds, Handling
<1>2. QueueInv /\ Owned /\ [Next]_vars => Owned'
  BY OwnedNext
<1>3. QueueInv /\ Owned /\ [Next]_vars => [CompletedStaysSo]_vars
  BY OwnedNext
<1>4. QED
  BY <1>1, <1>2, <1>3, QueueStays, PTL DEF Spec, CompletedIsFinal

(***************************************************************************)
(* Retries one at a time                                                   *)
(***************************************************************************)

\* Every job there is has a request, and no other one.
Listed == \A j \in Jobs : jobs[j].status = "none" <=> jobs[j].of = None

\* A request has a job for its creation and one for each of its retries.
Counted(r) ==
  IF requests[r].made
  THEN /\ IsFiniteSet(JobsOf(r)) /\ Cardinality(JobsOf(r)) = requests[r].retries + 1
       /\ requests[r].retries <= MaxRetries
  ELSE JobsOf(r) = {} /\ requests[r].retries = 0

\* A retry that may still be made has read the request's count as it is.
RetryKnows(t) ==
  t.at = "retry" =>
    requests[t.of].made /\ t.request.retries = requests[t.of].retries

OneRetry ==
  \A s, u \in Sessions :
    session[s].at = "retry" /\ session[u].at = "retry" /\ session[s].of = session[u].of => s = u

CountInv ==
  /\ Listed /\ OneRetry
  /\ \A r \in Requests : Counted(r)
  /\ \A s \in Sessions : RetryKnows(session[s])

\* What workers and time do leaves jobs to their requests and retries as they are.
LEMMA WorkLists ==
  ASSUME Constants, QueueInv, NEW w \in Workers, Work(w) \/ Crash(w)
  PROVE  /\ UNCHANGED session
         /\ \A j \in Jobs : /\ jobs'[j].of = jobs[j].of
                            /\ jobs'[j].status = "none" <=> jobs[j].status = "none"
         /\ \A r \in Requests : /\ requests'[r].made = requests[r].made
                                /\ requests'[r].retries = requests[r].retries
<1>1. \A j \in Jobs : jobs[j] \in Job
  BY DEF QueueInv, Typed, TypeOK
<1>2. \A r \in Requests : requests[r] \in Request
  BY DEF QueueInv, Typed, TypeOK
<1>3. CASE PutBack(w) \/ Fail(w)
  <2>1. FailRows(worker[w].rows) /\ UNCHANGED <<requests, session>>
    BY <1>3 DEF PutBack, Fail
  <2>2. \A j \in DOMAIN worker[w].rows : j \in Jobs /\ jobs[j].status # "none"
    BY <1>3 DEF PutBack, Fail, QueueInv, RowsAreCurrent, Knows
  <2>3. QED
    BY <2>1, <2>2, FailRowsTyped
<1>4. CASE Claim(w)
  <2>1. PICK batch \in SUBSET due :
          /\ \A j \in batch : jobs[j].status = "pending"
          /\ jobs' = [j \in Jobs |-> IF j \in batch
               THEN [jobs[j] EXCEPT !.status = "running", !.attempts = @ + 1] ELSE jobs[j]]
          /\ UNCHANGED <<requests, session>>
    BY <1>4 DEF Claim
  <2>2. QED
    BY <1>1, <2>1 DEF Job
<1>5. CASE Complete(w)
  <2>1. \A j \in Jobs : /\ jobs'[j].of = jobs[j].of
                        /\ jobs'[j].status = "none" <=> jobs[j].status = "none"
    BY <1>1, <1>5 DEF Complete, Job, QueueInv, RowsAreCurrent, Knows, Typed, TypeOK
  <2>2. PICK q, result : requests' = [requests EXCEPT ![q].result = result]
    BY <1>5 DEF Complete
  <2>3. \A r \in Requests : /\ requests'[r].made = requests[r].made
                            /\ requests'[r].retries = requests[r].retries
    BY <1>2, <2>2 DEF Request, QueueInv, Typed, TypeOK
  <2>4. QED
    BY <1>5, <2>1, <2>3 DEF Complete
<1>6. CASE ~ (PutBack(w) \/ Fail(w) \/ Claim(w) \/ Complete(w))
  BY <1>6 DEF Work, Crash, ReadStuck, NothingDue, Start, Raise, Finish, tables
<1>7. QED
  BY <1>3, <1>4, <1>5, <1>6

\* A new job is one more for its request.
LEMMA EnqueueLists ==
  ASSUME Constants, QueueInv, Listed, NEW r \in Requests, Enqueue(r)
  PROVE  /\ Listed'
         /\ \E j \in Jobs \ JobsOf(r) : JobsOf(r)' = JobsOf(r) \cup {j}
         /\ \A q \in Requests \ {r} : JobsOf(q)' = JobsOf(q)
<1>1. PICK j \in Jobs :
        /\ jobs[j].status = "none"
        /\ jobs' = [jobs EXCEPT ![j] = [status |-> "pending", attempts |-> 0, of |-> r]]
  BY DEF Enqueue
<1>2. /\ jobs'[j] = [status |-> "pending", attempts |-> 0, of |-> r]
      /\ \A i \in Jobs \ {j} : jobs'[i] = jobs[i]
  BY <1>1 DEF QueueInv, Typed, TypeOK
<1>3. jobs[j].of = None /\ None # r
  BY <1>1 DEF Listed, Constants
<1>4. Listed'
  BY <1>2, <1>3 DEF Listed
<1>5. j \notin JobsOf(r) /\ JobsOf(r)' = JobsOf(r) \cup {j}
  BY <1>2, <1>3 DEF JobsOf
<1>6. \A q \in Requests \ {r} : JobsOf(q)' = JobsOf(q)
  BY <1>2, <1>3 DEF JobsOf, Constants
<1>7. QED
  BY <1>4, <1>5, <1>6

\* Where no job comes to a request and no retry begins or is counted, nothing changes.
LEMMA CountUntouched ==
  ASSUME CountInv,
         \A j \in Jobs : /\ jobs'[j].of = jobs[j].of
                         /\ jobs'[j].status = "none" <=> jobs[j].status = "none",
         \A r \in Requests : /\ requests'[r].made = requests[r].made
                             /\ requests'[r].retries = requests[r].retries,
         \A s \in Sessions :
           session'[s].at = "retry" => session'[s] = session[s] /\ session[s].of \in Requests
  PROVE  CountInv'
<1>1. Listed' /\ OneRetry'
  BY DEF CountInv, Listed, OneRetry
<1>2. \A r \in Requests : JobsOf(r)' = JobsOf(r)
  BY DEF JobsOf
<1>3. \A r \in Requests : Counted(r)'
  BY <1>2 DEF CountInv, Counted
<1>4. \A s \in Sessions : RetryKnows(session[s])'
  BY DEF CountInv, RetryKnows
<1>5. QED
  BY <1>1, <1>3, <1>4 DEF CountInv

\* A request that is made gets its first job.
LEMMA CreateCounts ==
  ASSUME Constants, QueueInv, CountInv, NEW r \in Requests, Create(r)
  PROVE  CountInv'
<1>1. /\ ~ requests[r].made /\ Enqueue(r) /\ UNCHANGED session
      /\ requests' = [requests EXCEPT ![r].made = TRUE]
  BY DEF Create
<1>2. \A q \in Requests : requests[q] \in Request
  BY DEF QueueInv, Typed, TypeOK
<1>3. /\ requests'[r].made /\ requests'[r].retries = requests[r].retries
      /\ \A q \in Requests \ {r} : requests'[q] = requests[q]
  BY <1>1, <1>2 DEF Request, QueueInv, Typed, TypeOK
<1>4. /\ Listed' /\ \A q \in Requests \ {r} : JobsOf(q)' = JobsOf(q)
      /\ \E j \in Jobs : JobsOf(r)' = JobsOf(r) \cup {j}
  BY <1>1, EnqueueLists DEF CountInv
<1>5. Counted(r)'
  <2>1. JobsOf(r) = {} /\ requests[r].retries = 0
    BY <1>1 DEF CountInv, Counted
  <2>2. PICK j \in Jobs : JobsOf(r)' = {j}
    BY <1>4, <2>1
  <2>3. IsFiniteSet(JobsOf(r)') /\ Cardinality(JobsOf(r)') = 1
    BY <2>2, FS_Singleton
  <2>4. QED
    BY <1>3, <2>1, <2>3 DEF Counted, Constants
<1>6. \A q \in Requests \ {r} : Counted(q)'
  BY <1>3, <1>4 DEF CountInv, Counted
<1>7. \A s \in Sessions : RetryKnows(session[s])'
  BY <1>1, <1>3 DEF CountInv, RetryKnows, QueueInv, Typed
<1>8. QED
  BY <1>1, <1>4, <1>5, <1>6, <1>7 DEF CountInv, OneRetry

\* A retry knows the count it raises, and is the only one of its request.
LEMMA RetryCounts ==
  ASSUME Constants, QueueInv, CountInv, NEW s \in Sessions, Retry(s)
  PROVE  CountInv'
<1>r. PICK r \in Requests : session[s].of = r
  BY DEF Retry, QueueInv, Typed
<1>1. /\ Enqueue(r) /\ session[s].at = "retry"
      /\ session[s].request.retries < MaxRetries
      /\ requests' = [requests EXCEPT ![r].retries = session[s].request.retries + 1]
      /\ session' = [session EXCEPT ![s] = Idle]
  BY <1>r DEF Retry, Retriable, EndSession
<1>2. requests[r].made /\ session[s].request.retries = requests[r].retries
  BY <1>r, <1>1 DEF CountInv, RetryKnows
<1>3. \A q \in Requests : requests[q] \in Request
  BY DEF QueueInv, Typed, TypeOK
<1>u. \A u \in Sessions : session'[u] = IF u = s THEN Idle ELSE session[u]
  BY <1>1 DEF QueueInv, Typed
<1>d. requests \in [Requests -> Request]
  BY DEF QueueInv, Typed, TypeOK
<1>4. \A u \in Sessions : session'[u].at = "retry" =>
        session'[u] = session[u] /\ session[u].of \in Requests \ {r}
  BY <1>r, <1>1, <1>u DEF CountInv, OneRetry, QueueInv, Typed, Idle
<1>5. /\ requests'[r].made /\ requests'[r].retries = requests[r].retries + 1
      /\ requests[r].retries \in Nat /\ requests[r].retries < MaxRetries
      /\ \A q \in Requests \ {r} : requests'[q] = requests[q]
  BY <1>1, <1>2, <1>3, <1>d DEF Request
<1>6. /\ Listed' /\ \A q \in Requests \ {r} : JobsOf(q)' = JobsOf(q)
      /\ \E j \in Jobs \ JobsOf(r) : JobsOf(r)' = JobsOf(r) \cup {j}
  BY <1>1, EnqueueLists DEF CountInv
<1>7. Counted(r)'
  <2>1. IsFiniteSet(JobsOf(r)) /\ Cardinality(JobsOf(r)) = requests[r].retries + 1
    BY <1>1, <1>2 DEF CountInv, Counted
  <2>2. PICK j \in Jobs \ JobsOf(r) : JobsOf(r)' = JobsOf(r) \cup {j}
    BY <1>6
  <2>3. /\ IsFiniteSet(JobsOf(r)')
        /\ Cardinality(JobsOf(r)') = Cardinality(JobsOf(r)) + 1
    BY <2>1, <2>2, FS_AddElement
  <2>4. QED
    BY <1>5, <2>1, <2>3 DEF Counted, Constants
<1>8. \A q \in Requests \ {r} : Counted(q)'
  BY <1>5, <1>6 DEF CountInv, Counted
<1>9. \A u \in Sessions : RetryKnows(session[u])'
  BY <1>4, <1>5 DEF CountInv, RetryKnows
<1>10. OneRetry'
  BY <1>4 DEF CountInv, OneRetry
<1>11. QED
  BY <1>1, <1>6, <1>7, <1>8, <1>9, <1>10 DEF CountInv

\* A retry that begins reads the count, and is none beside another.
LEMMA ReadCounts ==
  ASSUME Constants, ~ Together, QueueInv, CountInv,
         NEW s \in Sessions, NEW op, NEW r \in Requests, Read(s, op, r)
  PROVE  CountInv'
<1>1. /\ UNCHANGED <<jobs, requests>> /\ requests[r].made
      /\ session' = [session EXCEPT ![s] =
           [at |-> op, of |-> r, request |-> requests[r], generation |-> generation[r]]]
      /\ op = "retry" => \A u \in Sessions : session[u].at = "retry" => session[u].of # r
  BY DEF Read, tables
<1>2. /\ session'[s] =
           [at |-> op, of |-> r, request |-> requests[r], generation |-> generation[r]]
      /\ \A u \in Sessions \ {s} : session'[u] = session[u]
  BY <1>1 DEF QueueInv, Typed
<1>3. Listed' /\ \A q \in Requests : Counted(q)'
  BY <1>1 DEF CountInv, Listed, Counted, JobsOf
<1>4. \A u \in Sessions : RetryKnows(session[u])'
  BY <1>1, <1>2 DEF CountInv, RetryKnows
<1>5. OneRetry'
  BY <1>1, <1>2 DEF CountInv, OneRetry
<1>6. QED
  BY <1>3, <1>4, <1>5 DEF CountInv

\* Every step keeps the counts.
LEMMA CountNext ==
  ASSUME Constants, ~ Together, QueueInv, CountInv, [Next]_vars
  PROVE  CountInv'
<1>1. \A s \in Sessions : session[s].at = "retry" => session[s].of \in Requests
  BY DEF QueueInv, Typed
<1>2. CASE UNCHANGED vars
  BY <1>1, <1>2, CountUntouched DEF vars
<1>3. ASSUME NEW r \in Requests, Create(r)
      PROVE  CountInv'
  BY <1>3, CreateCounts
<1>4. ASSUME NEW s \in Sessions, Use(s)
      PROVE  CountInv'
  <2>1. ASSUME NEW r \in Requests, NEW op \in {"retry", "delete", "review", "share"}, Read(s, op, r)
        PROVE  CountInv'
    BY <2>1, ReadCounts
  <2>2. CASE Retry(s)
    BY <2>2, RetryCounts
  <2>3. CASE Delete(s) \/ Review(s) \/ Share(s) \/ Abort(s)
    <3>1. UNCHANGED jobs /\ session' = [session EXCEPT ![s] = Idle]
      BY <2>3 DEF Delete, Review, Share, Abort, EndSession, tables
    <3>2. \A u \in Sessions : session'[u].at = "retry" => session'[u] = session[u]
      BY <3>1 DEF QueueInv, Typed, Idle
    <3>3. \A r \in Requests : /\ requests'[r].made = requests[r].made
                              /\ requests'[r].retries = requests[r].retries
      BY <2>3 DEF Delete, Review, Share, Abort, tables, QueueInv, Typed, TypeOK, Request
    <3>4. QED
      BY <1>1, <3>1, <3>2, <3>3, CountUntouched
  <2>4. QED
    BY <1>4, <2>1, <2>2, <2>3 DEF Use
<1>5. ASSUME NEW w \in Workers, Work(w) \/ Crash(w)
      PROVE  CountInv'
  BY <1>1, <1>5, WorkLists, CountUntouched
<1>6. CASE Age \/ \E j \in Jobs : BackoffOver(j)
  BY <1>1, <1>6, CountUntouched DEF Age, BackoffOver
<1>7. QED
  BY <1>2, <1>3, <1>4, <1>5, <1>6 DEF Next

\* As long as no two retries of one request are under way at a time.
LEMMA CountStays ==
  ASSUME Constants, ~ Together
  PROVE  Spec => []CountInv
<1>1. Init => CountInv
  BY FS_EmptySet DEF Init, Constants, Idle, CountInv, Listed, OneRetry, Counted, JobsOf, RetryKnows
<1>2. QueueInv /\ CountInv /\ [Next]_vars => CountInv'
  BY CountNext
<1>3. QED
  BY <1>1, <1>2, QueueStays, PTL DEF Spec

\* One at a time, a retry costs one of the retries of its request, and none is free.
LEMMA EveryRetryCounted ==
  ASSUME Constants, ~ Together
  PROVE  Spec => []RetriesCounted
<1>1. CountInv => RetriesCounted
  BY DEF CountInv, Counted, RetriesCounted
<1>2. QED
  BY <1>1, CountStays, PTL

(***************************************************************************)
(* What the user is shown                                                  *)
(***************************************************************************)

\* Of two jobs of one request one has failed for good.
OneOpen ==
  \A i, j \in Jobs :
    i # j /\ jobs[i].of # None /\ jobs[i].of = jobs[j].of =>
      "failed" \in {jobs[i].status, jobs[j].status}

\* A job fails for good with its last attempt.
FailedIsSpent == \A j \in Jobs : jobs[j].status = "failed" => jobs[j].attempts >= MaxAttempts

\* The generation shows what has become of the request's jobs, and is reviewed only
\* once there is something to review.
AsShown(r) ==
  /\ requests[r].made =>
       \/ /\ generation[r].status \in {"pending", "processing"}
          /\ \E j \in JobsOf(r) : jobs[j].status \in {"pending", "running"}
       \/ /\ generation[r].status = "completed"
          /\ \E j \in JobsOf(r) : jobs[j].status = "completed"
       \/ /\ generation[r].status = "failed"
          /\ \A j \in JobsOf(r) : jobs[j].status = "failed"
  /\ ~ requests[r].made => generation[r].status = "pending"
  /\ generation[r].review # "not_required" => \E j \in JobsOf(r) : jobs[j].status = "completed"

\* Whoever is about to fail a job has read it running; it is the request's last one.
LastOne(t) ==
  t.at \in {"passing", "failing"} =>
    \A j \in DOMAIN t.rows :
      /\ t.rows[j].status = "running" /\ t.rows[j].of = jobs[j].of
      /\ jobs[j].status \in {"pending", "running", "failed"}
      /\ \A i \in Jobs \ {j} : jobs[i].of = jobs[j].of => jobs[i].status = "failed"

\* A retry of a request that has failed finds it so when it writes.
RetryIsOver(t) ==
  t.at = "retry" /\ t.generation.status = "failed" =>
    generation[t.of].status = "failed" /\ \A j \in JobsOf(t.of) : NoPass(j)

\* A decision is about a request that was completed.
ReviewIsDue(t) ==
  t.at = "review" /\ t.generation.review # "not_required" =>
    \E j \in JobsOf(t.of) : jobs[j].status = "completed"

ShownInv ==
  /\ OneOpen /\ FailedIsSpent
  /\ \A r \in Requests : AsShown(r)
  /\ \A w \in Workers : LastOne(worker[w])
  /\ \A s \in Sessions : RetryIsOver(session[s]) /\ ReviewIsDue(session[s])

Known == Constants /\ QueueInv /\ CountInv /\ Owned /\ ShownInv

\* While a job is waiting or running its request is under way, all its other jobs have
\* failed, and there is nothing to review.
LEMMA UnderWay ==
  ASSUME Known, NEW j \in Jobs, jobs[j].status \in {"pending", "running"}
  PROVE  /\ jobs[j].of \in Requests /\ requests[jobs[j].of].made
         /\ \A i \in Jobs \ {j} : jobs[i].of = jobs[j].of => jobs[i].status = "failed"
         /\ generation[jobs[j].of].status \in {"pending", "processing"}
         /\ generation[jobs[j].of].review = "not_required"
<1>1. PICK r \in Requests : jobs[j].of = r /\ r # None
  BY DEF Known, QueueInv, Typed, Constants
<1>2. j \in JobsOf(r) /\ AsShown(r) /\ Counted(r)
  BY <1>1 DEF JobsOf, Known, ShownInv, CountInv
<1>3. requests[r].made
  BY <1>2 DEF Counted
<1>4. \A i \in Jobs \ {j} : jobs[i].of = r => jobs[i].status = "failed"
  BY <1>1 DEF Known, ShownInv, OneOpen
<1>5. \A i \in JobsOf(r) : jobs[i].status # "completed"
  BY <1>4 DEF JobsOf
<1>6. /\ generation[r].status \in {"pending", "processing"}
      /\ generation[r].review = "not_required"
  BY <1>2, <1>3, <1>5 DEF AsShown
<1>7. QED
  BY <1>1, <1>3, <1>4, <1>6

\* A job that is there keeps its request.
LEMMA OfLasts ==
  ASSUME Constants, QueueInv, [Next]_vars
  PROVE  \A j \in Jobs : jobs[j].status # "none" => jobs'[j].of = jobs[j].of
<1>1. ASSUME NEW r \in Requests, Enqueue(r)
      PROVE  \A j \in Jobs : jobs[j].status # "none" => jobs'[j].of = jobs[j].of
  BY <1>1 DEF Enqueue, QueueInv, Typed, TypeOK
<1>2. CASE \E r \in Requests : Create(r)
  BY <1>1, <1>2 DEF Create
<1>3. ASSUME NEW s \in Sessions, Use(s)
      PROVE  \A j \in Jobs : jobs[j].status # "none" => jobs'[j].of = jobs[j].of
  <2>1. CASE Retry(s)
    BY <1>1, <2>1 DEF Retry, QueueInv, Typed
  <2>2. CASE ~ Retry(s)
    BY <1>3, <2>2 DEF Use, Read, Delete, Review, Share, Abort, tables
  <2>3. QED
    BY <2>1, <2>2
<1>4. CASE \E w \in Workers : Work(w) \/ Crash(w)
  BY <1>4, WorkLists
<1>5. CASE UNCHANGED jobs
  BY <1>5
<1>6. QED
  BY <1>2, <1>3, <1>4, <1>5 DEF Next, vars, Age, BackoffOver

\* A session that goes on knows what it knew of completed jobs.
LEMMA ReviewStaysDue ==
  ASSUME Known, ~ Late, [Next]_vars, NEW s \in Sessions,
         session'[s] = session[s]
  PROVE  ReviewIsDue(session[s])'
<1>1. SUFFICES ASSUME session[s].at = "review",
                      session[s].generation.review # "not_required"
               PROVE  \E j \in JobsOf(session[s].of)' : jobs'[j].status = "completed"
  BY DEF ReviewIsDue
<1>2. PICK j \in JobsOf(session[s].of) : jobs[j].status = "completed"
  BY <1>1 DEF Known, ShownInv, ReviewIsDue
<1>3. j \in Jobs /\ jobs'[j].status = "completed" /\ jobs'[j].of = jobs[j].of
  BY <1>2, OfLasts, OwnedNext DEF Known, CompletedStaysSo, JobsOf
<1>4. QED
  BY <1>2, <1>3 DEF JobsOf

\* Steps of a session that leave the queue alone.
LEMMA ShownBySession ==
  ASSUME Known, ~ Late, [Next]_vars, UNCHANGED <<jobs, worker>>,
         \A r \in Requests :
           /\ requests'[r].made = requests[r].made
           /\ generation'[r].status = generation[r].status
           /\ generation'[r].review # "not_required" =>
                \E j \in JobsOf(r) : jobs[j].status = "completed",
         \A s \in Sessions :
           \/ session'[s] = session[s]
           \/ session'[s].at \notin {"retry", "review"}
           \/ /\ session'[s].of \in Requests
              /\ session'[s].generation = generation[session'[s].of]
              /\ session'[s].at = "retry" => \A j \in JobsOf(session'[s].of) : NoPass(j)
  PROVE  ShownInv'
<1>1. OneOpen' /\ FailedIsSpent' /\ \A w \in Workers : LastOne(worker[w])'
  BY DEF Known, ShownInv, OneOpen, FailedIsSpent, LastOne
<1>2. \A r : JobsOf(r)' = JobsOf(r)
  BY DEF JobsOf
<1>3. \A j : NoPass(j)' <=> NoPass(j)
  BY DEF NoPass
<1>4. \A r \in Requests : AsShown(r)'
  BY <1>2 DEF Known, ShownInv, AsShown
<1>5. ASSUME NEW s \in Sessions
      PROVE  RetryIsOver(session[s])' /\ ReviewIsDue(session[s])'
  <2>1. CASE session'[s] = session[s]
    <3>1. session[s].at = "retry" => session[s].of \in Requests
      BY DEF Known, QueueInv, Typed
    <3>2. RetryIsOver(session[s])'
      BY <1>2, <1>3, <2>1, <3>1 DEF Known, ShownInv, RetryIsOver
    <3>3. QED
      BY <2>1, <3>2, ReviewStaysDue
  <2>2. CASE session'[s].at \notin {"retry", "review"}
    BY <2>2 DEF RetryIsOver, ReviewIsDue
  <2>3. CASE /\ session'[s].of \in Requests
             /\ session'[s].generation = generation[session'[s].of]
             /\ session'[s].at = "retry" => \A j \in JobsOf(session'[s].of) : NoPass(j)
    <3>1. PICK r \in Requests : session'[s].of = r
      BY <2>3
    <3>2. RetryIsOver(session[s])'
      BY <1>2, <1>3, <2>3, <3>1 DEF RetryIsOver
    <3>3. AsShown(r)
      BY DEF Known, ShownInv
    <3>4. ReviewIsDue(session[s])'
      BY <1>2, <2>3, <3>1, <3>3 DEF ReviewIsDue, AsShown
    <3>5. QED
      BY <3>2, <3>4
  <2>4. QED
    BY <2>1, <2>2, <2>3
<1>6. QED
  BY <1>1, <1>4, <1>5 DEF ShownInv

\* A job for a request all of whose jobs have failed, which no pass is about to fail again.
LEMMA ShownByEnqueue ==
  ASSUME Known, ~ Late, [Next]_vars, UNCHANGED worker, NEW r \in Requests, Enqueue(r),
         \A j \in JobsOf(r) : jobs[j].status = "failed" /\ NoPass(j),
         requests'[r].made,
         generation'[r].status = "pending" /\ generation'[r].review = generation[r].review,
         \A q \in Requests \ {r} :
           requests'[q].made = requests[q].made /\ generation'[q] = generation[q],
         \A s \in Sessions :
           \/ session'[s].at \notin {"retry", "review"}
           \/ /\ session'[s] = session[s]
              /\ session[s].at = "retry" => session[s].of \in Requests \ {r}
  PROVE  ShownInv'
<1>1. PICK k \in Jobs :
        /\ jobs[k].status = "none"
        /\ jobs' = [jobs EXCEPT ![k] = [status |-> "pending", attempts |-> 0, of |-> r]]
  BY DEF Enqueue
<1>2. /\ jobs'[k] = [status |-> "pending", attempts |-> 0, of |-> r]
      /\ \A i \in Jobs \ {k} : jobs'[i] = jobs[i]
  BY <1>1 DEF Known, QueueInv, Typed, TypeOK
<1>3. jobs[k].of = None /\ None # r
  BY <1>1 DEF Known, CountInv, Listed, Constants
<1>4. /\ k \notin JobsOf(r) /\ JobsOf(r)' = JobsOf(r) \cup {k}
      /\ \A q \in Requests \ {r} : JobsOf(q)' = JobsOf(q) /\ k \notin JobsOf(q)
  BY <1>2, <1>3 DEF JobsOf, Known, Constants
<1>5. OneOpen'
  BY <1>2, <1>3 DEF Known, ShownInv, OneOpen, JobsOf
<1>6. FailedIsSpent'
  BY <1>2 DEF Known, ShownInv, FailedIsSpent
<1>7. AsShown(r)'
  <2>1. generation[r].review = "not_required"
    BY DEF Known, ShownInv, AsShown
  <2>2. QED
    BY <1>2, <1>4, <2>1 DEF AsShown
<1>8. \A q \in Requests \ {r} : AsShown(q)'
  <2>1. SUFFICES ASSUME NEW q \in Requests \ {r}
                 PROVE  AsShown(q)'
    OBVIOUS
  <2>2. AsShown(q) /\ \A j \in JobsOf(q) : jobs'[j] = jobs[j]
    BY <1>2, <1>4 DEF Known, ShownInv, JobsOf
  <2>3. QED
    BY <1>4, <2>2 DEF AsShown
<1>9. ASSUME NEW w \in Workers
      PROVE  LastOne(worker[w])'
  <2>1. LastOne(worker[w]) /\ Knows(worker[w])
    BY DEF Known, ShownInv, QueueInv, RowsAreCurrent
  <2>2. worker[w].at \in {"passing", "failing"} =>
          \A j \in DOMAIN worker[w].rows : j # k /\ j \in Jobs /\ jobs[j].of # r
    BY <1>1, <2>1 DEF Knows, NoPass, JobsOf
  <2>3. QED
    BY <1>2, <2>1, <2>2 DEF LastOne
<1>10. ASSUME NEW s \in Sessions
       PROVE  RetryIsOver(session[s])' /\ ReviewIsDue(session[s])'
  <2>1. CASE session'[s].at \notin {"retry", "review"}
    BY <2>1 DEF RetryIsOver, ReviewIsDue
  <2>2. CASE /\ session'[s] = session[s]
             /\ session[s].at = "retry" => session[s].of \in Requests \ {r}
    <3>1. \A j : NoPass(j)' <=> NoPass(j)
      BY DEF NoPass
    <3>2. RetryIsOver(session[s])'
      BY <1>4, <2>2, <3>1 DEF Known, ShownInv, RetryIsOver
    <3>3. QED
      BY <2>2, <3>2, ReviewStaysDue
  <2>3. QED
    BY <2>1, <2>2
<1>11. QED
  BY <1>5, <1>6, <1>7, <1>8, <1>9, <1>10 DEF ShownInv

\* A worker that goes on without a write has read at most running jobs.
LEMMA ShownByReading ==
  ASSUME Known, UNCHANGED <<tables, session>>,
         NEW w \in Workers, NEW t, worker' = [worker EXCEPT ![w] = t],
         t.at \in {"passing", "failing"} =>
           \A j \in DOMAIN t.rows :
             j \in Jobs /\ t.rows[j] = jobs[j] /\ jobs[j].status = "running"
  PROVE  ShownInv'
<1>1. \A v \in Workers : worker'[v] = IF v = w THEN t ELSE worker[v]
  BY DEF Known, QueueInv, Typed
<1>2. OneOpen' /\ FailedIsSpent' /\ \A r \in Requests : AsShown(r)'
  BY DEF Known, ShownInv, OneOpen, FailedIsSpent, AsShown, JobsOf, tables
<1>3. ASSUME NEW v \in Workers
      PROVE  LastOne(worker[v])'
  <2>1. CASE v # w
    BY <1>1, <2>1 DEF Known, ShownInv, LastOne, tables
  <2>2. CASE v = w
    <3>1. t.at \in {"passing", "failing"} =>
            \A j \in DOMAIN t.rows :
              \A i \in Jobs \ {j} : jobs[i].of = jobs[j].of => jobs[i].status = "failed"
      BY UnderWay
    <3>2. QED
      BY <1>1, <2>2, <3>1 DEF LastOne, tables
  <2>3. QED
    BY <2>1, <2>2
<1>4. ASSUME NEW s \in Sessions
      PROVE  RetryIsOver(session[s])' /\ ReviewIsDue(session[s])'
  <2>1. session'[s] = session[s] /\ RetryIsOver(session[s]) /\ ReviewIsDue(session[s])
    BY DEF Known, ShownInv
  <2>2. ReviewIsDue(session[s])'
    BY <2>1 DEF ReviewIsDue, JobsOf, tables
  <2>3. ASSUME session[s].at = "retry", session[s].generation.status = "failed",
               NEW j \in JobsOf(session[s].of)
        PROVE  NoPass(j)'
    <3>1. j \in Jobs /\ jobs[j].of = session[s].of
      BY <2>3 DEF JobsOf
    <3>2. generation[session[s].of].status = "failed" /\ NoPass(j)
      BY <2>1, <2>3 DEF RetryIsOver
    <3>3. jobs[j].status # "running"
      BY <3>1, <3>2, UnderWay
    <3>4. QED
      BY <1>1, <3>2, <3>3 DEF NoPass
  <2>4. RetryIsOver(session[s])'
    BY <2>1, <2>3 DEF RetryIsOver, JobsOf, tables
  <2>5. QED
    BY <2>2, <2>4
<1>5. QED
  BY <1>2, <1>3, <1>4 DEF ShownInv

\* A step of a worker that has read nothing it will fail.
LEMMA ShownByWriting ==
  ASSUME Known, ~ Late, [Next]_vars, UNCHANGED session,
         NEW w \in Workers, NEW t, worker' = [worker EXCEPT ![w] = t],
         t.at \notin {"passing", "failing"},
         \A j \in Jobs : jobs'[j].of = jobs[j].of,
         \A j \in Jobs : jobs[j].status = "failed" => jobs'[j].status = "failed",
         \A r \in Requests : generation[r].status = "failed" => generation'[r].status = "failed",
         \A v \in Workers \ {w} : worker[v].at \in {"passing", "failing"} =>
           \A j \in DOMAIN worker[v].rows :
             jobs'[j].status \in {jobs[j].status, "pending", "running", "failed"},
         FailedIsSpent', \A r \in Requests : AsShown(r)'
  PROVE  ShownInv'
<1>1. \A v \in Workers : worker'[v] = IF v = w THEN t ELSE worker[v]
  BY DEF Known, QueueInv, Typed
<1>2. OneOpen'
  BY DEF Known, ShownInv, OneOpen
<1>3. ASSUME NEW v \in Workers
      PROVE  LastOne(worker[v])'
  <2>1. CASE v # w
    <3>1. LastOne(worker[v]) /\ Knows(worker[v]) /\ worker'[v] = worker[v]
      BY <1>1, <2>1 DEF Known, ShownInv, QueueInv, RowsAreCurrent
    <3>2. QED
      BY <2>1, <3>1 DEF LastOne, Knows
  <2>2. CASE v = w
    BY <1>1, <2>2 DEF LastOne
  <2>3. QED
    BY <2>1, <2>2
<1>4. ASSUME NEW s \in Sessions
      PROVE  RetryIsOver(session[s])' /\ ReviewIsDue(session[s])'
  <2>1. \A r : JobsOf(r)' = JobsOf(r)
    BY DEF JobsOf
  <2>2. \A j : NoPass(j) => NoPass(j)'
    BY <1>1 DEF NoPass
  <2>3. session[s].at = "retry" => session[s].of \in Requests
    BY DEF Known, QueueInv, Typed
  <2>4. RetryIsOver(session[s])'
    BY <2>1, <2>2, <2>3 DEF Known, ShownInv, RetryIsOver
  <2>5. QED
    BY <2>4, ReviewStaysDue
<1>5. QED
  BY <1>2, <1>3, <1>4 DEF ShownInv

\* A claim takes jobs that wait: their requests are under way before and after.
LEMMA ShownByClaim ==
  ASSUME Known, ~ Late, [Next]_vars, NEW w \in Workers, Claim(w)
  PROVE  ShownInv'
<1>1. PICK batch \in SUBSET due :
        /\ \A j \in batch : jobs[j].status = "pending"
        /\ jobs' = [j \in Jobs |-> IF j \in batch
             THEN [jobs[j] EXCEPT !.status = "running", !.attempts = @ + 1] ELSE jobs[j]]
        /\ worker' = [worker EXCEPT ![w] = Between(batch)]
        /\ UNCHANGED <<requests, generation, session>>
  BY DEF Claim, Go
<1>2. \A j \in Jobs : jobs[j] \in Job
  BY DEF Known, QueueInv, Typed, TypeOK
<1>3. \A j \in Jobs :
        /\ jobs'[j].of = jobs[j].of
        /\ \/ jobs'[j] = jobs[j]
           \/ jobs[j].status = "pending" /\ jobs'[j].status = "running"
  BY <1>1, <1>2 DEF Job
<1>4. FailedIsSpent'
  BY <1>3 DEF Known, ShownInv, FailedIsSpent
<1>5. \A r \in Requests : AsShown(r)'
  <2>1. SUFFICES ASSUME NEW r \in Requests
                 PROVE  AsShown(r)'
    OBVIOUS
  <2>2. AsShown(r) /\ JobsOf(r)' = JobsOf(r) /\ JobsOf(r) \subseteq Jobs
    BY <1>3 DEF Known, ShownInv, JobsOf
  <2>3. \A j \in JobsOf(r) :
          /\ jobs[j].status \in {"completed", "failed"} => jobs'[j].status = jobs[j].status
          /\ jobs[j].status \in {"pending", "running"} => jobs'[j].status \in {"pending", "running"}
    BY <1>3, <2>2
  <2>4. UNCHANGED <<requests, generation>>
    BY <1>1
  <2>5. QED
    BY <2>2, <2>3, <2>4 DEF AsShown
<1>6. Between(batch).at = "between"
  BY DEF Between
<1>7. \A v \in Workers \ {w} : worker[v].at \in {"passing", "failing"} =>
        \A j \in DOMAIN worker[v].rows : j \in Jobs
  BY DEF Known, QueueInv, RowsAreCurrent, Knows
<1>8. QED
  BY <1>1, <1>3, <1>4, <1>5, <1>6, <1>7, ShownByWriting

\* A handler that starts shows a request under way.
LEMMA ShownByStart ==
  ASSUME Known, ~ Late, [Next]_vars, NEW w \in Workers, Start(w)
  PROVE  ShownInv'
<1>1. PICK k \in worker[w].left :
        /\ generation' = [generation EXCEPT ![jobs[k].of].status = "processing"]
        /\ worker' = [worker EXCEPT ![w] =
             [at |-> "handling", left |-> worker[w].left \ {k}, job |-> k,
              request |-> requests[jobs[k].of], review |-> generation[jobs[k].of].review]]
        /\ worker[w].at = "between" /\ UNCHANGED <<jobs, requests, session>>
  BY DEF Start, Go
<1>2. k \in Jobs /\ jobs[k].status = "running"
  <2>1. k \in Jobs
    BY <1>1 DEF Known, QueueInv, RowsAreCurrent, Knows
  <2>2. QED
    BY <1>1, <2>1 DEF Known, Owned, HeldRuns, Holds, Handling
<1>3. PICK r \in Requests : jobs[k].of = r
  BY <1>2, UnderWay
<1>4. /\ requests[r].made /\ generation[r].status # "failed"
      /\ generation[r].review = "not_required" /\ k \in JobsOf(r)
  BY <1>2, <1>3, UnderWay DEF JobsOf
<1>5. /\ generation'[r].status = "processing" /\ generation'[r].review = generation[r].review
      /\ \A q \in Requests \ {r} : generation'[q] = generation[q]
  BY <1>1, <1>3 DEF Known, QueueInv, Typed, TypeOK, Generation
<1>6. \A q : JobsOf(q)' = JobsOf(q)
  BY <1>1 DEF JobsOf
<1>7. AsShown(r)'
  BY <1>1, <1>2, <1>4, <1>5, <1>6 DEF AsShown
<1>8. \A q \in Requests \ {r} : AsShown(q)'
  <2>1. SUFFICES ASSUME NEW q \in Requests \ {r}
                 PROVE  AsShown(q)'
    OBVIOUS
  <2>2. AsShown(q) /\ UNCHANGED <<jobs, requests>>
    BY <1>1 DEF Known, ShownInv
  <2>3. QED
    BY <1>5, <1>6, <2>2 DEF AsShown
<1>9. FailedIsSpent'
  BY <1>1 DEF Known, ShownInv, FailedIsSpent
<1> DEFINE t == [at |-> "handling", left |-> worker[w].left \ {k}, job |-> k,
                 request |-> requests[jobs[k].of], review |-> generation[jobs[k].of].review]
<1>10. PICK u : u = t
  OBVIOUS
<1>11. u.at = "handling" /\ worker' = [worker EXCEPT ![w] = u]
  BY <1>1, <1>10
<1>12. \A q \in Requests : AsShown(q)' /\ (generation[q].status = "failed" =>
                                            generation'[q].status = "failed")
  BY <1>4, <1>5, <1>7, <1>8
<1>13. \A j \in Jobs : jobs'[j] = jobs[j]
  BY <1>1
<1>14. \A v \in Workers \ {w} : worker[v].at \in {"passing", "failing"} =>
         \A j \in DOMAIN worker[v].rows :
           jobs'[j].status \in {jobs[j].status, "pending", "running", "failed"}
  BY <1>1
<1>15. QED
  <2> HIDE DEF t
  <2>1. UNCHANGED session
    BY <1>1
  <2>2. QED
    BY <1>9, <1>11, <1>12, <1>13, <1>14, <2>1, ShownByWriting

\* A handler completes the request's last job.
LEMMA ShownByComplete ==
  ASSUME Known, ~ Late, [Next]_vars, NEW w \in Workers, Complete(w)
  PROVE  ShownInv'
<1>0. PICK k \in Jobs :
        /\ worker[w].job = k /\ worker[w].at = "handling"
        /\ jobs' = [jobs EXCEPT ![k].status = "completed"]
        /\ \E review : generation' = [generation EXCEPT ![jobs[k].of] =
                        [status |-> "completed", review |-> review]]
        /\ worker' = [worker EXCEPT ![w] = Between(worker[w].left)]
        /\ UNCHANGED session
  BY DEF Complete, Go, Known, QueueInv, RowsAreCurrent, Knows
<1>1. PICK review :
        /\ worker[w].job = k /\ worker[w].at = "handling"
        /\ jobs' = [jobs EXCEPT ![k].status = "completed"]
        /\ generation' = [generation EXCEPT ![jobs[k].of] =
             [status |-> "completed", review |-> review]]
        /\ worker' = [worker EXCEPT ![w] = Between(worker[w].left)]
        /\ UNCHANGED session
  BY <1>0
<1>2. jobs[k].status = "running" /\ Holds(w, k)
  BY <1>1 DEF Known, Owned, HeldRuns, Holds, Handling
<1>3. PICK r \in Requests : jobs[k].of = r
  BY <1>2, UnderWay
<1>4. requests[r].made /\ generation[r].status # "failed" /\ k \in JobsOf(r)
  BY <1>2, <1>3, UnderWay DEF JobsOf
<1>5. /\ jobs'[k].status = "completed" /\ jobs'[k].of = jobs[k].of
      /\ \A j \in Jobs \ {k} : jobs'[j] = jobs[j]
  BY <1>1 DEF Known, QueueInv, Typed, TypeOK, Job
<1>6. /\ generation'[r].status = "completed"
      /\ \A q \in Requests \ {r} : generation'[q] = generation[q]
  BY <1>1, <1>3 DEF Known, QueueInv, Typed, TypeOK
<1>7. \A q \in Requests : JobsOf(q)' = JobsOf(q)
  BY <1>5 DEF JobsOf
<1>8. \A q \in Requests : requests'[q].made = requests[q].made
  BY WorkLists DEF Work, Known
<1>9. AsShown(r)'
  BY <1>4, <1>5, <1>6, <1>7, <1>8 DEF AsShown
<1>10. \A q \in Requests \ {r} : AsShown(q)'
  <2>1. SUFFICES ASSUME NEW q \in Requests \ {r}
                 PROVE  AsShown(q)'
    OBVIOUS
  <2>2. AsShown(q) /\ \A j \in JobsOf(q) : jobs'[j] = jobs[j]
    BY <1>3, <1>5 DEF Known, ShownInv, JobsOf
  <2>3. QED
    BY <1>6, <1>7, <1>8, <2>2 DEF AsShown
<1>11. FailedIsSpent'
  BY <1>5 DEF Known, ShownInv, FailedIsSpent
<1>12. \A v \in Workers \ {w} : worker[v].at \in {"passing", "failing"} =>
         \A j \in DOMAIN worker[v].rows : j \in Jobs /\ j # k
  <2>1. SUFFICES ASSUME NEW v \in Workers \ {w}, worker[v].at \in {"passing", "failing"},
                        NEW j \in DOMAIN worker[v].rows
                 PROVE  j \in Jobs /\ j # k
    OBVIOUS
  <2>2. Knows(worker[v]) /\ Careful(worker[v])
    BY DEF Known, QueueInv, RowsAreCurrent, Owned, ReadersAreCareful
  <2>3. CASE worker[v].at = "passing"
    BY <1>2, <2>1, <2>2, <2>3 DEF Knows, Careful
  <2>4. CASE worker[v].at = "failing"
    <3>1. j = worker[v].job /\ j \in Jobs /\ Holds(v, j)
      BY <2>1, <2>2, <2>4 DEF Knows, Careful, Holds, Handling
    <3>2. QED
      BY <1>2, <3>1 DEF Known, Owned, HeldByOne
  <2>5. QED
    BY <2>1, <2>3, <2>4
<1>13. Between(worker[w].left).at = "between"
  BY DEF Between
<1>14. /\ \A j \in Jobs : jobs'[j].of = jobs[j].of
       /\ \A j \in Jobs : jobs[j].status = "failed" => jobs'[j].status = "failed"
       /\ \A q \in Requests : AsShown(q)'
       /\ \A q \in Requests : generation[q].status = "failed" => generation'[q].status = "failed"
  BY <1>2, <1>4, <1>5, <1>6, <1>9, <1>10
<1>15. \A v \in Workers \ {w} : worker[v].at \in {"passing", "failing"} =>
         \A j \in DOMAIN worker[v].rows :
           jobs'[j].status \in {jobs[j].status, "pending", "running", "failed"}
  BY <1>5, <1>12
<1>16. QED
  BY <1>1, <1>11, <1>13, <1>14, <1>15, ShownByWriting

\* fail_job on rows that were read running: the attempts that are left decide, whoever
\* has written the row since.
LEMMA FailDecides ==
  ASSUME Known, NEW w \in Workers, worker[w].at \in {"passing", "failing"},
         FailRows(worker[w].rows)
  PROVE  /\ \A j \in DOMAIN worker[w].rows :
              /\ j \in Jobs /\ jobs[j].status \in {"pending", "running", "failed"}
              /\ Exhausted(worker[w].rows[j]) <=> jobs[j].attempts >= MaxAttempts
              /\ jobs'[j].status = IF jobs[j].attempts >= MaxAttempts THEN "failed" ELSE "pending"
              /\ jobs'[j].of = jobs[j].of /\ jobs'[j].attempts = jobs[j].attempts
         /\ \A j \in Jobs : j \notin DOMAIN worker[w].rows => jobs'[j] = jobs[j]
<1> DEFINE rows == worker[w].rows
<1>1. \A j \in DOMAIN rows :
        /\ j \in Jobs /\ rows[j].status = "running"
        /\ jobs[j].status \in {"pending", "running", "failed"}
        /\ rows[j].attempts = jobs[j].attempts
  BY DEF Known, ShownInv, LastOne, QueueInv, RowsAreCurrent, Knows, Current
<1>2. \A j \in DOMAIN rows : Exhausted(rows[j]) <=> jobs[j].attempts >= MaxAttempts
  BY <1>1 DEF Exhausted
<1>3. \A j \in Jobs :
        IF j \in DOMAIN rows
        THEN jobs'[j] = [jobs[j] EXCEPT !.status =
               Emit(rows[j].status, IF Exhausted(rows[j]) THEN "failed" ELSE "pending", @)]
        ELSE jobs'[j] = jobs[j]
  BY DEF FailRows
<1>4. \A j \in Jobs : jobs[j] \in Job
  BY DEF Known, QueueInv, Typed, TypeOK
<1>5. ASSUME NEW j \in DOMAIN rows
      PROVE  /\ jobs'[j].status = IF Exhausted(rows[j]) THEN "failed" ELSE "pending"
             /\ jobs'[j].of = jobs[j].of /\ jobs'[j].attempts = jobs[j].attempts
  <2> HIDE DEF rows
  <2>1. jobs'[j] = [jobs[j] EXCEPT !.status = IF Exhausted(rows[j]) THEN "failed" ELSE "pending"]
    BY <1>1, <1>3 DEF Emit
  <2>2. QED
    BY <1>1, <1>4, <2>1 DEF Job
<1>6. QED
  BY <1>1, <1>2, <1>3, <1>5

\* A request fails with its last job, and is under way again with one put back.
LEMMA ShownByFail ==
  ASSUME Known, ~ Late, [Next]_vars,
         NEW w \in Workers, worker[w].at \in {"passing", "failing"},
         FailRows(worker[w].rows), UNCHANGED <<requests, session>>,
         NEW t, worker' = [worker EXCEPT ![w] = t], t.at \notin {"passing", "failing"}
  PROVE  ShownInv'
<1>r. PICK rows : rows = worker[w].rows
  OBVIOUS
<1>1. /\ \A j \in DOMAIN rows :
           /\ j \in Jobs /\ jobs[j].status \in {"pending", "running", "failed"}
           /\ Exhausted(rows[j]) <=> jobs[j].attempts >= MaxAttempts
           /\ jobs'[j].status = IF jobs[j].attempts >= MaxAttempts THEN "failed" ELSE "pending"
           /\ jobs'[j].of = jobs[j].of /\ jobs'[j].attempts = jobs[j].attempts
      /\ \A j \in Jobs : j \notin DOMAIN rows => jobs'[j] = jobs[j]
  BY <1>r, FailDecides
<1>2. \A j \in DOMAIN rows :
        /\ rows[j].of = jobs[j].of
        /\ \A i \in Jobs \ {j} : jobs[i].of = jobs[j].of => jobs[i].status = "failed"
  BY <1>r DEF Known, ShownInv, LastOne
<1>3. \A j \in Jobs : jobs[j].status = "failed" => jobs[j].attempts >= MaxAttempts
  BY DEF Known, ShownInv, FailedIsSpent
<1>4. \A j \in Jobs : /\ jobs'[j].of = jobs[j].of
                      /\ jobs[j].status = "failed" => jobs'[j].status = "failed"
  BY <1>1, <1>3
<1>5. FailedIsSpent'
  BY <1>1, <1>3 DEF FailedIsSpent
<1>6. \A r \in Requests :
        IF \E j \in DOMAIN rows : Exhausted(rows[j]) /\ rows[j].of = r
        THEN generation'[r].status = "failed" /\ generation'[r].review = generation[r].review
        ELSE generation'[r] = generation[r]
  <2>1. \A r \in Requests : generation[r] \in Generation
    BY DEF Known, QueueInv, Typed, TypeOK
  <2>2. QED
    BY <1>r, <2>1 DEF FailRows, Generation
<1>7. ASSUME NEW r \in Requests
      PROVE  AsShown(r)'
  <2>1. JobsOf(r)' = JobsOf(r) /\ AsShown(r) /\ JobsOf(r) \subseteq Jobs
    BY <1>4 DEF JobsOf, Known, ShownInv
  <2>2. CASE \E j \in DOMAIN rows : Exhausted(rows[j]) /\ rows[j].of = r
    <3>1. PICK k \in DOMAIN rows : Exhausted(rows[k]) /\ rows[k].of = r
      BY <2>2
    <3>2. k \in JobsOf(r) /\ jobs[k].status # "completed" /\ jobs'[k].status = "failed"
      BY <1>1, <1>2, <3>1 DEF JobsOf
    <3>3. \A j \in JobsOf(r) : jobs[j].status # "completed" /\ jobs'[j].status = "failed"
      BY <1>2, <1>4, <3>1, <3>2 DEF JobsOf
    <3>4. requests[r].made /\ generation[r].review = "not_required"
      BY <2>1, <3>2, <3>3 DEF AsShown, Known, CountInv, Counted
    <3>5. QED
      BY <1>6, <2>1, <2>2, <3>3, <3>4 DEF AsShown
  <2>3. CASE ~ \E j \in DOMAIN rows : Exhausted(rows[j]) /\ rows[j].of = r
    <3>1. generation'[r] = generation[r]
      BY <1>6, <2>3
    <3>2. \A j \in JobsOf(r) \cap DOMAIN rows :
            /\ jobs[j].status \in {"pending", "running"} /\ jobs'[j].status = "pending"
      BY <1>1, <1>2, <1>3, <2>3 DEF JobsOf
    <3>3. \A j \in JobsOf(r) : j \notin DOMAIN rows => jobs'[j] = jobs[j]
      BY <1>1, <2>1
    <3>4. \A j \in JobsOf(r) :
            /\ jobs[j].status \in {"completed", "failed"} => jobs'[j].status = jobs[j].status
            /\ jobs[j].status \in {"pending", "running"} => jobs'[j].status \in {"pending", "running"}
      BY <3>2, <3>3
    <3>5. QED
      BY <2>1, <3>1, <3>4 DEF AsShown
  <2>4. QED
    BY <2>2, <2>3
<1>8. \A r \in Requests :
        generation[r].status = "failed" => generation'[r].status = "failed"
  BY <1>6
<1>9. \A v \in Workers \ {w} : worker[v].at \in {"passing", "failing"} =>
        \A j \in DOMAIN worker[v].rows :
          jobs'[j].status \in {jobs[j].status, "pending", "running", "failed"}
  <2>1. \A v \in Workers : Knows(worker[v])
    BY DEF Known, QueueInv, RowsAreCurrent
  <2>2. \A j \in Jobs : jobs'[j].status \in {jobs[j].status, "pending", "running", "failed"}
    BY <1>1
  <2>3. QED
    BY <2>1, <2>2 DEF Knows
<1>10. QED
  BY <1>4, <1>5, <1>7, <1>8, <1>9, ShownByWriting

\* Every step of a worker.
LEMMA ShownByWork ==
  ASSUME Known, ~ Late, [Next]_vars, NEW w \in Workers, Work(w) \/ Crash(w)
  PROVE  ShownInv'
<1>1. CASE ReadStuck(w)
  <2> DEFINE t == [at |-> "passing", rows |-> [j \in Stuck |-> jobs[j]]]
  <2>1. worker' = [worker EXCEPT ![w] = t] /\ UNCHANGED <<tables, session>>
    BY <1>1 DEF ReadStuck, Go
  <2>2. \A j \in DOMAIN t.rows : /\ j \in Jobs /\ t.rows[j] = jobs[j]
                                /\ jobs[j].status = "running"
    BY DEF Stuck, Running
  <2>3. QED
    <3> HIDE DEF t
    <3> QED  BY <2>1, <2>2, ShownByReading
<1>2. CASE Raise(w)
  <2> DEFINE t == [at |-> "failing", left |-> worker[w].left, job |-> worker[w].job,
                   rows |-> [j \in {worker[w].job} |-> jobs[j]]]
  <2>1. worker' = [worker EXCEPT ![w] = t] /\ UNCHANGED <<tables, session>>
    BY <1>2 DEF Raise, Go
  <2>2. worker[w].job \in Jobs /\ jobs[worker[w].job].status = "running"
    <3>1. worker[w].job \in Jobs /\ Holds(w, worker[w].job)
      BY <1>2 DEF Raise, Known, QueueInv, RowsAreCurrent, Knows, Holds, Handling
    <3>2. QED
      BY <3>1 DEF Known, Owned, HeldRuns
  <2>3. \A j \in DOMAIN t.rows : /\ j \in Jobs /\ t.rows[j] = jobs[j]
                                /\ jobs[j].status = "running"
    BY <2>2
  <2>4. QED
    <3> HIDE DEF t
    <3> QED  BY <2>1, <2>3, ShownByReading
<1>3. CASE NothingDue(w) \/ Finish(w) \/ Crash(w)
  <2>1. worker' = [worker EXCEPT ![w] = Idle] /\ UNCHANGED <<tables, session>>
    BY <1>3 DEF NothingDue, Finish, Crash, Go
  <2>2. Idle.at \notin {"passing", "failing"}
    BY DEF Idle
  <2>3. QED
    BY <2>1, <2>2, ShownByReading
<1>4. CASE PutBack(w)
  <2> DEFINE t == [at |-> "claiming"]
  <2>1. /\ worker[w].at = "passing" /\ FailRows(worker[w].rows)
        /\ worker' = [worker EXCEPT ![w] = t] /\ UNCHANGED <<requests, session>>
    BY <1>4 DEF PutBack, Go
  <2>2. t.at = "claiming"
    OBVIOUS
  <2>3. QED
    <3> HIDE DEF t
    <3> QED  BY <2>1, <2>2, ShownByFail
<1>5. CASE Fail(w)
  <2>1. /\ worker[w].at = "failing" /\ FailRows(worker[w].rows)
        /\ worker' = [worker EXCEPT ![w] = Between(worker[w].left)]
        /\ UNCHANGED <<requests, session>>
    BY <1>5 DEF Fail, Go
  <2>2. Between(worker[w].left).at = "between"
    BY DEF Between
  <2>3. QED
    BY <2>1, <2>2, ShownByFail
<1>6. QED
  BY <1>1, <1>2, <1>3, <1>4, <1>5, ShownByClaim, ShownByStart, ShownByComplete DEF Work

\* Every step of a user or of the staff.
LEMMA ShownByUse ==
  ASSUME Known, ~ Late, [Next]_vars, NEW s \in Sessions, Use(s)
  PROVE  ShownInv'
<1>1. DOMAIN session = Sessions /\ requests \in [Requests -> Request]
      /\ generation \in [Requests -> Generation]
  BY DEF Known, QueueInv, Typed, TypeOK
<1>2. \A r \in Requests : generation[r].review # "not_required" =>
        \E j \in JobsOf(r) : jobs[j].status = "completed"
  BY DEF Known, ShownInv, AsShown
<1>3. CASE Retry(s)
  <2>1. PICK r \in Requests : session[s].of = r
    BY <1>3 DEF Retry, Known, QueueInv, Typed
  <2>2. /\ session[s].at = "retry" /\ session[s].generation.status = "failed" /\ Enqueue(r)
        /\ requests' = [requests EXCEPT ![r].retries = session[s].request.retries + 1]
        /\ generation' = [generation EXCEPT ![r].status = "pending"]
        /\ session' = [session EXCEPT ![s] = Idle] /\ UNCHANGED worker
    BY <1>3, <2>1 DEF Retry, Retriable, EndSession
  <2>3. /\ generation[r].status = "failed" /\ requests[r].made
        /\ \A j \in JobsOf(r) : NoPass(j)
    BY <2>1, <2>2 DEF Known, ShownInv, RetryIsOver, CountInv, RetryKnows
  <2>4. \A j \in JobsOf(r) : jobs[j].status = "failed"
    BY <2>3 DEF Known, ShownInv, AsShown
  <2>5. /\ requests'[r].made
        /\ generation'[r].status = "pending" /\ generation'[r].review = generation[r].review
        /\ \A q \in Requests \ {r} :
             requests'[q].made = requests[q].made /\ generation'[q] = generation[q]
    BY <1>1, <2>2, <2>3 DEF Request, Generation
  <2>6. \A u \in Sessions :
          \/ session'[u].at \notin {"retry", "review"}
          \/ /\ session'[u] = session[u]
             /\ session[u].at = "retry" => session[u].of \in Requests \ {r}
    BY <1>1, <2>1, <2>2 DEF Known, CountInv, OneRetry, QueueInv, Typed, Idle
  <2>7. QED
    BY <2>2, <2>3, <2>4, <2>5, <2>6, ShownByEnqueue
<1>4. ASSUME NEW r \in Requests, NEW op \in {"retry", "delete", "review", "share"}, Read(s, op, r)
      PROVE  ShownInv'
  <2>1. /\ session' = [session EXCEPT ![s] =
             [at |-> op, of |-> r, request |-> requests[r], generation |-> generation[r]]]
        /\ op = "retry" => \A j \in JobsOf(r) : NoPass(j)
        /\ UNCHANGED <<tables, worker>>
    BY <1>4 DEF Read
  <2>2. \A u \in Sessions :
           \/ session'[u] = session[u]
           \/ /\ session'[u].of \in Requests
              /\ session'[u].generation = generation[session'[u].of]
              /\ session'[u].at = "retry" => \A j \in JobsOf(session'[u].of) : NoPass(j)
    BY <1>1, <2>1
  <2>3. QED
    BY <1>2, <2>1, <2>2, ShownBySession DEF tables
<1>5. CASE Delete(s) \/ Share(s) \/ Abort(s) \/ Review(s)
  <2>1. session' = [session EXCEPT ![s] = Idle] /\ UNCHANGED <<jobs, worker>>
    BY <1>5 DEF Delete, Share, Abort, Review, EndSession, tables
  <2>2. \A u \in Sessions : session'[u] = session[u] \/ session'[u].at \notin {"retry", "review"}
    BY <1>1, <2>1 DEF Idle
  <2>3. \A r \in Requests :
          /\ requests'[r].made = requests[r].made
          /\ generation'[r].status = generation[r].status
    <3>1. CASE Delete(s)
      BY <1>1, <3>1 DEF Delete, Request
    <3>2. CASE Share(s)
      BY <1>1, <3>2 DEF Share, Request
    <3>3. CASE Abort(s)
      BY <3>3 DEF Abort, tables
    <3>4. CASE Review(s)
      BY <1>1, <3>4 DEF Review, Generation
    <3>5. QED
      BY <1>5, <3>1, <3>2, <3>3, <3>4
  <2>4. ASSUME NEW r \in Requests, generation'[r].review # "not_required"
        PROVE  \E j \in JobsOf(r) : jobs[j].status = "completed"
    <3>1. CASE generation'[r].review = generation[r].review
      BY <1>2, <2>4, <3>1
    <3>2. CASE generation'[r].review # generation[r].review
      <4>1. Review(s)
        BY <1>5, <3>2 DEF Delete, Share, Abort, tables
      <4>2. /\ session[s].of = r /\ session[s].at = "review"
            /\ session[s].generation.review = "pending"
        BY <1>1, <3>2, <4>1 DEF Review, Reviewable
      <4>3. QED
        BY <4>2 DEF Known, ShownInv, ReviewIsDue
    <3>3. QED
      BY <3>1, <3>2
  <2>5. QED
    BY <2>1, <2>2, <2>3, <2>4, ShownBySession
<1>6. QED
  BY <1>3, <1>4, <1>5 DEF Use

\* Every step keeps what is shown in line with the queue.
LEMMA ShownNext ==
  ASSUME Known, ~ Late, [Next]_vars
  PROVE  ShownInv'
<1>1. \A r \in Requests : generation[r].review # "not_required" =>
        \E j \in JobsOf(r) : jobs[j].status = "completed"
  BY DEF Known, ShownInv, AsShown
<1>2. CASE UNCHANGED <<jobs, worker, requests, generation, session>>
  BY <1>1, <1>2, ShownBySession
<1>3. ASSUME NEW r \in Requests, Create(r)
      PROVE  ShownInv'
  <2>1. /\ ~ requests[r].made /\ Enqueue(r) /\ UNCHANGED <<generation, session, worker>>
        /\ requests' = [requests EXCEPT ![r].made = TRUE]
    BY <1>3 DEF Create
  <2>2. JobsOf(r) = {} /\ generation[r].status = "pending"
    BY <2>1 DEF Known, CountInv, Counted, ShownInv, AsShown
  <2>3. requests'[r].made /\ \A q \in Requests \ {r} : requests'[q].made = requests[q].made
    BY <2>1 DEF Known, QueueInv, Typed, TypeOK, Request
  <2>4. \A s \in Sessions : session[s].at = "retry" => session[s].of \in Requests \ {r}
    BY <2>1 DEF Known, CountInv, RetryKnows, QueueInv, Typed
  <2>5. QED
    BY <2>1, <2>2, <2>3, <2>4, ShownByEnqueue
<1>4. QED
  BY <1>2, <1>3, ShownByUse, ShownByWork DEF Next, vars, Age, BackoffOver

\* The invariants of this module together, while retries come one at a time and no
\* worker outlasts the threshold.
LEMMA ShownStays ==
  ASSUME Constants, ~ Late, ~ Together
  PROVE  Spec => []Known
<1>1. Init => Known
  <2>1. ASSUME Init
        PROVE  ShownInv
    BY <2>1 DEF Init, Constants, Idle, ShownInv, OneOpen, FailedIsSpent, AsShown, LastOne,
                RetryIsOver, ReviewIsDue, JobsOf
  <2>2. ASSUME Init
        PROVE  Owned
    BY <2>2 DEF Init, Idle, Owned, HeldRuns, HeldByOne, ReadersAreCareful, Careful, Holds, Handling
  <2>3. ASSUME Init
        PROVE  CountInv
    BY <2>3, FS_EmptySet
       DEF Init, Constants, Idle, CountInv, Listed, OneRetry, Counted, JobsOf, RetryKnows
  <2>4. QED
    BY <2>1, <2>2, <2>3, InitQueue DEF Known
<1>2. Known /\ [Next]_vars => Known'
  <2>1. ASSUME Known, [Next]_vars
        PROVE  Known'
    <3>1. QueueInv'
      BY <2>1, QueueNext DEF Known
    <3>2. Owned'
      BY <2>1, OwnedNext DEF Known
    <3>3. CountInv'
      BY <2>1, CountNext DEF Known
    <3>4. ShownInv'
      BY <2>1, ShownNext
    <3>5. QED
      BY <3>1, <3>2, <3>3, <3>4 DEF Known, Constants
  <2>2. QED
    BY <2>1
<1>3. QED
  BY <1>1, <1>2, PTL DEF Spec

\* What the user is shown agrees with the queue: under way while a job of the request is
\* waiting or running, completed once one was completed, failed when all have failed.
THEOREM ShownAsItIs ==
  ASSUME Constants, ~ Late, ~ Together
  PROVE  Spec => []ShownStatusAgrees
<1>1. Known => ShownStatusAgrees
  <2>1. SUFFICES ASSUME Known, NEW r \in Requests, requests[r].made,
                        NEW states, states = {jobs[j].status : j \in JobsOf(r)}
                 PROVE  generation[r].status \in
                          IF states \cap {"pending", "running"} # {} THEN {"pending", "processing"}
                          ELSE IF "completed" \in states THEN {"completed"} ELSE {"failed"}
    BY DEF ShownStatusAgrees
  <2>2. AsShown(r) /\ r # None
    BY <2>1 DEF Known, ShownInv, Constants
  <2>3. \A i, j \in JobsOf(r) :
          i # j => jobs[i].status = "failed" \/ jobs[j].status = "failed"
    BY <2>1, <2>2 DEF JobsOf, Known, ShownInv, OneOpen
  <2>4. CASE /\ generation[r].status \in {"pending", "processing"}
             /\ \E j \in JobsOf(r) : jobs[j].status \in {"pending", "running"}
    BY <2>1, <2>4
  <2>5. CASE /\ generation[r].status = "completed"
             /\ \E j \in JobsOf(r) : jobs[j].status = "completed"
    BY <2>1, <2>3, <2>5
  <2>6. CASE /\ generation[r].status = "failed"
             /\ \A j \in JobsOf(r) : jobs[j].status = "failed"
    BY <2>1, <2>6
  <2>7. QED
    BY <2>1, <2>2, <2>4, <2>5, <2>6 DEF AsShown
<1>2. QED
  BY <1>1, ShownStays, PTL

\* What the staff has decided on stays decided: a job of a request that was completed
\* never completes again, so no result comes for a second review.
THEOREM DecidedForGood ==
  ASSUME Constants, ~ Late, ~ Together
  PROVE  Spec => DecisionStands
<1>1. Known /\ [Next]_vars => [DecidedStaysSo]_vars
  <2>1. SUFFICES ASSUME Known, Next,
                        NEW r \in Requests, generation[r].review \in {"approved", "rejected"}
                 PROVE  generation'[r].review \in {"approved", "rejected"}
    BY DEF DecidedStaysSo, Decided, vars
  <2>2. generation[r] \in Generation /\ generation \in [Requests -> Generation]
    BY <2>1 DEF Known, QueueInv, Typed, TypeOK
  <2>3. ASSUME NEW s \in Sessions, Use(s)
        PROVE  generation'[r].review \in {"approved", "rejected"}
    BY <2>1, <2>2, <2>3
       DEF Use, Read, Retry, Delete, Review, Share, Abort, tables, Generation
  <2>4. ASSUME NEW w \in Workers, Work(w) \/ Crash(w), ~ Complete(w)
        PROVE  generation'[r].review \in {"approved", "rejected"}
    <3>1. CASE PutBack(w) \/ Fail(w)
      BY <2>1, <2>2, <3>1 DEF PutBack, Fail, FailRows, Generation
    <3>2. CASE Start(w)
      <4>1. PICK q : generation' = [generation EXCEPT ![q].status = "processing"]
        BY <3>2 DEF Start
      <4>2. QED
        BY <2>1, <2>2, <4>1 DEF Generation
    <3>3. CASE UNCHANGED generation
      BY <2>1, <3>3
    <3>4. QED
      BY <2>4, <3>1, <3>2, <3>3
         DEF Work, Crash, ReadStuck, Claim, NothingDue, Raise, Finish, tables
  <2>5. ASSUME NEW w \in Workers, Complete(w)
        PROVE  generation'[r].review \in {"approved", "rejected"}
    <3>1. PICK k \in Jobs :
            /\ \E new : generation' = [generation EXCEPT ![jobs[k].of] = new]
            /\ worker[w].job = k /\ worker[w].at = "handling"
      BY <2>1, <2>5 DEF Complete, Known, QueueInv, RowsAreCurrent, Knows
    <3>2. jobs[k].status = "running"
      BY <2>1, <3>1 DEF Known, Owned, HeldRuns, Holds, Handling
    <3>3. jobs[k].of # r
      BY <2>1, <3>2, UnderWay
    <3>4. QED
      BY <2>1, <2>2, <3>1, <3>3
  <2>6. CASE \E q \in Requests : Create(q)
    BY <2>1, <2>6 DEF Create
  <2>7. QED
    BY <2>1, <2>3, <2>4, <2>5, <2>6 DEF Next, BackoffOver, Age
<1>2. QED
  BY <1>1, ShownStays, PTL DEF Spec, DecisionStands
=============================================================================
