----------------------------- MODULE JobAnswers -----------------------------
(***************************************************************************)
(* The asynchronous screenings and backtests of a user: what the API does  *)
(* to accept one, what a worker does to run it, and what GET /jobs tells   *)
(* of it.  The queue and the results are ARQ's (external), the index of    *)
(* recent jobs and the meta hashes the API's own, the runs rows of a       *)
(* table; an answer is put together from three reads, one after another.   *)
(***************************************************************************)
EXTENDS Integers, FiniteSets, FiniteSetsExt

CONSTANTS NumJobs,      \* jobs asked for; a job's number is the time it is stamped with
          IndexMax,     \* ARQ_JOBS_RECENT_MAX (100)
          JobTries,     \* job |-> max_tries of the worker that runs it (5)
          ResultsVanish \* a result may expire while an answer is made of it

ASSUME AnswersAssumption == {NumJobs, IndexMax} \subseteq Nat \ {0} /\ JobTries \in [1..NumJobs -> Nat \ {0}] /\ ResultsVanish \in BOOLEAN

VARIABLES enqueuing,   \* job |-> how far enqueue_app_job has come
          arq,     \* job |-> the status ARQ tells, and its attempts
          results, \* job |-> the result ARQ keeps
          work,    \* job |-> the thread of its last attempt
          runRows,    \* the rows of app.screener_runs: job, attempt
          index,   \* arq:jobs:recent, ordered by the stamp
          metas,   \* jobs with a meta hash
          reader,  \* one get_job_out
          indexed  \* history: jobs that were in the index

answerVars == <<enqueuing, arq, results, work, runRows, index, metas, reader, indexed>>

AppJobs == 1..NumJobs
NoResult == [kind |-> "none", ref |-> <<0, 0>>]
NotReading == [at |-> "idle", job |-> 0, owned |-> FALSE, meta |-> FALSE, status |-> "none", answer |-> "none", ref |-> <<0, 0>>]

AnswersTypeOK ==
    /\ enqueuing \in [AppJobs -> {"no", "queued", "listed", "described", "accepted"}]
    /\ \A j \in AppJobs : arq[j].status \in {"not_found", "queued", "in_progress", "complete"} /\ arq[j].tries \in 0..JobTries[j]
    /\ \A j \in AppJobs : results[j].kind \in {"none", "ok", "failed"}
    /\ work \in [AppJobs -> {"idle", "screen", "save", "saved", "failed"}]
    /\ \A r \in runRows : r[1] \in AppJobs /\ r[2] \in 1..JobTries[r[1]]
    /\ index \subseteq AppJobs /\ metas \subseteq AppJobs /\ indexed \subseteq AppJobs
    /\ reader.at \in {"idle", "meta", "status", "told"}
    /\ reader.answer \in {"none", "pending", "running", "success", "failed", "no such job", "404"}

AnswersInit ==
    /\ enqueuing = [j \in AppJobs |-> "no"] /\ arq = [j \in AppJobs |-> [status |-> "not_found", tries |-> 0]]
    /\ results = [j \in AppJobs |-> NoResult] /\ work = [j \in AppJobs |-> "idle"]
    /\ runRows = {} /\ index = {} /\ metas = {} /\ indexed = {} /\ reader = NotReading

----------------------------------------------------------------------------
\* enqueue_app_job: the job is queued first and stamped then.  The request may end
\* before any of the calls that follow: its job runs, and its user has no id.
EnqueueAppJob(j) ==
    /\ enqueuing[j] = "no"
    /\ enqueuing' = [enqueuing EXCEPT ![j] = "queued"] /\ arq' = [arq EXCEPT ![j].status = "queued"]
    /\ UNCHANGED <<results, work, runRows, index, metas, reader, indexed>>

\* index_job: ZADD, HSET and ZREMRANGEBYRANK, each a call of its own; with the
\* last the user has the id.
ListJob(j) ==
    /\ enqueuing[j] = "queued"
    /\ enqueuing' = [enqueuing EXCEPT ![j] = "listed"]
    /\ index' = index \cup {j} /\ indexed' = indexed \cup {j}
    /\ UNCHANGED <<arq, results, work, runRows, metas, reader>>

DescribeJob(j) ==
    /\ enqueuing[j] = "listed"
    /\ enqueuing' = [enqueuing EXCEPT ![j] = "described"] /\ metas' = metas \cup {j}
    /\ UNCHANGED <<arq, results, work, runRows, index, reader, indexed>>

\* The newest of some jobs.
Newest(jobs, n) == {j \in jobs : Cardinality({k \in jobs : k >= j}) <= n}

\* The oldest go.
Trimmed(jobs) == Newest(jobs, IndexMax)

\* The hashes stay for ever, whatever leaves the index.
MetasLeft(jobs) == metas

TrimIndex(j) ==
    /\ enqueuing[j] = "described"
    /\ enqueuing' = [enqueuing EXCEPT ![j] = "accepted"]
    /\ index' = Trimmed(index) /\ metas' = MetasLeft(index)
    /\ UNCHANGED <<arq, results, work, runRows, reader, indexed>>

----------------------------------------------------------------------------
Completes(j, kind, ref) ==
    /\ arq' = [arq EXCEPT ![j].status = "complete"]
    /\ results' = [results EXCEPT ![j] = [kind |-> kind, ref |-> ref]]

\* ARQ (external): an attempt starts, or there were too many.
StartAttempt(j) ==
    /\ arq[j].status = "queued" /\ work[j] = "idle"
    /\ \/ /\ arq[j].tries < JobTries[j]
          /\ arq' = [arq EXCEPT ![j] = [status |-> "in_progress", tries |-> @.tries + 1]]
          /\ work' = [work EXCEPT ![j] = "screen"] /\ UNCHANGED results
       \/ arq[j].tries = JobTries[j] /\ Completes(j, "failed", <<0, 0>>) /\ UNCHANGED work
    /\ UNCHANGED <<enqueuing, runRows, index, metas, reader, indexed>>

\* _run_condition, _run_recipe, _run_pattern, _run_reference_peer: the last run's
\* symbols are read and the market is screened; any error is an answer.
Screen(j) ==
    /\ work[j] = "screen" /\ \E next \in {"save", "failed"} : work' = [work EXCEPT ![j] = next]
    /\ UNCHANGED <<enqueuing, arq, results, runRows, index, metas, reader, indexed>>

\* What is answered when the row cannot be stored.
NotSaved(j) == "failed"

\* ScreenerRunRepository.save_run.
SaveScreening(j) ==
    /\ work[j] = "save"
    /\ \/ runRows' = runRows \cup {<<j, arq[j].tries>>} /\ work' = [work EXCEPT ![j] = "saved"]
       \/ work' = [work EXCEPT ![j] = NotSaved(j)] /\ UNCHANGED runRows
    /\ UNCHANGED <<enqueuing, arq, results, index, metas, reader, indexed>>

\* The thread returns; after its job timed out nobody takes what it returns.
ReturnResult(j) ==
    /\ work[j] \in {"saved", "failed"}
    /\ work' = [work EXCEPT ![j] = "idle"]
    /\ \/ arq[j].status /= "in_progress" /\ UNCHANGED <<arq, results>>
       \/ arq[j].status = "in_progress" /\ work[j] = "saved" /\ Completes(j, "ok", <<j, arq[j].tries>>)
       \/ arq[j].status = "in_progress" /\ work[j] = "failed" /\ Completes(j, "failed", <<0, 0>>)
    /\ UNCHANGED <<enqueuing, runRows, index, metas, reader, indexed>>

\* ARQ (external): the coroutine is cancelled, its thread is not.
AttemptTimesOut(j) ==
    /\ arq[j].status = "in_progress" /\ Completes(j, "failed", <<0, 0>>)
    /\ UNCHANGED <<enqueuing, work, runRows, index, metas, reader, indexed>>

\* The worker ends with its threads: what was in progress is queued again.
WorkerEnds ==
    /\ \E j \in AppJobs : work[j] /= "idle"
    /\ work' = [j \in AppJobs |-> "idle"]
    /\ arq' = [j \in AppJobs |-> IF arq[j].status = "in_progress" THEN [arq[j] EXCEPT !.status = "queued"] ELSE arq[j]]
    /\ UNCHANGED <<enqueuing, results, runRows, index, metas, reader, indexed>>

\* ARQ (external): keep_result is over.
ResultExpires(j) ==
    /\ arq[j].status = "complete" /\ (ResultsVanish \/ reader.job /= j)
    /\ arq' = [arq EXCEPT ![j].status = "not_found"] /\ results' = [results EXCEPT ![j] = NoResult]
    /\ UNCHANGED <<enqueuing, work, runRows, index, metas, reader, indexed>>

----------------------------------------------------------------------------
\* list_job_outs: the newest of the index; more than are kept are never listed.
Listed == Newest(index, IndexMax)

\* get_job_out of a job its user was told or the list shows: the meta hash first.
ReadMeta(j) ==
    /\ reader.at \in {"idle", "told"} /\ (enqueuing[j] = "accepted" \/ j \in Listed)
    /\ reader' = [NotReading EXCEPT !.at = "meta", !.job = j, !.owned = enqueuing[j] = "accepted", !.meta = j \in metas]
    /\ UNCHANGED <<enqueuing, arq, results, work, runRows, index, metas, indexed>>

Told(answer, ref) == [NotReading EXCEPT !.at = "told", !.job = reader.job, !.owned = reader.owned, !.answer = answer, !.ref = ref]

\* Then the status; without either there is no such job.
ReadStatus ==
    /\ reader.at = "meta"
    /\ LET status == arq[reader.job].status IN
       reader' = IF status = "not_found" /\ ~reader.meta THEN Told("404", <<0, 0>>)
                 ELSE [reader EXCEPT !.at = "status", !.status = status]
    /\ UNCHANGED <<enqueuing, arq, results, work, runRows, index, metas, indexed>>

\* Mutant: any job that is no longer in progress is answered from its result.
JobOutByResult(status, result) ==
    CASE status = "in_progress" -> "running"
      [] status = "not_found" -> "no such job"
      [] OTHER -> IF result.kind = "ok" THEN "success" ELSE "failed"

\* _job_out_from_arq.  (A job ARQ does not know has the status "failed" as well,
\* with the error 任务不存在.)
JobOut(status, result) ==
    CASE status = "queued" -> "pending"
      [] status = "in_progress" -> "running"
      [] status = "not_found" -> "no such job"
      [] status = "complete" -> IF result.kind = "ok" THEN "success" ELSE "failed"

\* Last the result.  A job without a meta hash is known by the function of its
\* result, or not at all.
ReadResult ==
    /\ reader.at = "status"
    /\ LET result == results[reader.job] IN
       reader' = IF ~reader.meta /\ result = NoResult THEN Told("404", <<0, 0>>)
                 ELSE Told(JobOut(reader.status, result), result.ref)
    /\ UNCHANGED <<enqueuing, arq, results, work, runRows, index, metas, indexed>>

AnswersNext ==
    \/ \E j \in AppJobs : \/ EnqueueAppJob(j) \/ ListJob(j) \/ DescribeJob(j) \/ TrimIndex(j)
                          \/ StartAttempt(j) \/ Screen(j) \/ SaveScreening(j) \/ ReturnResult(j) \/ AttemptTimesOut(j)
                          \/ ResultExpires(j) \/ ReadMeta(j)
    \/ WorkerEnds \/ ReadStatus \/ ReadResult

AnswersSpec == AnswersInit /\ [][AnswersNext]_answerVars

----------------------------------------------------------------------------
(* A job that is told failed has failed, though its result may come between *)
(* two reads of the answer: the status is read before the result, never     *)
(* after it.  (With ResultsVanish a job that succeeded is told failed: its   *)
(* result expired, or a new job of its stable id cleared it, in between.)   *)
FailedIsTrue ==
    reader.at = "told" /\ reader.answer = "failed" => results[reader.job].kind = "failed"

(* A job that is told to have succeeded refers to a run that is stored,     *)
(* over failing inserts, timeouts and attempts cut short by their worker.   *)
SuccessIsSaved == reader.at = "told" /\ reader.answer = "success" => reader.ref \in runRows

(* The list shows the newest jobs, whoever indexes and trims at the same    *)
(* time and in whatever order the stamps arrive.                            *)
RecentIsListed == Listed = Newest(indexed, IndexMax)

(* A job its user has the id of is found, however many jobs were asked for  *)
(* since and however long ago its result expired.                           *)
AcceptedIsFound == reader.at = "told" /\ reader.answer = "404" => ~reader.owned

(* What is told of jobs is so, although it is put together from several     *)
(* keys that change meanwhile: see the four parts.                          *)
AnswersAreTrue ==
    AnswersTypeOK /\ FailedIsTrue /\ SuccessIsSaved /\ RecentIsListed /\ AcceptedIsFound

=============================================================================
