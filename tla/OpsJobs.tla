------------------------------ MODULE OpsJobs ------------------------------
(***************************************************************************)
(* The path of an ops job through zak2: the API replicas and their         *)
(* embedded schedulers enqueue a job under the stable id ops:<job>, Redis  *)
(* keeps the keys of the ARQ broker, the single arq-worker process claims  *)
(* queued ids and runs each one in a thread of its executor, and the       *)
(* three bars jobs exclude each other with a Redis lock that has a TTL.    *)
(*                                                                         *)
(*   backend/app/services/ops/arq_jobs.py   enqueue_ops_job                *)
(*   backend/app/worker/tasks.py            run_ops_job, _execute_sync     *)
(*   backend/app/services/ops/bars_lock.py  try_acquire_bars, release_bars *)
(*                                                                         *)
(* A caller is a request handler or a scheduler thread inside              *)
(* enqueue_ops_job; every await of it is a step of its own.  ARQ itself    *)
(* is external: it is modelled from the keys the code probes and clears.   *)
(***************************************************************************)
EXTENDS Naturals, FiniteSets

CONSTANTS
  Jobs,          \* ops job ids; the stable ARQ id is a function of the job id
  BarsJobs,      \* the jobs that write bars and exclude each other
  Callers,       \* concurrent invocations of enqueue_ops_job
  Slots,         \* the coroutines of the worker, max_jobs of them
  Threads,       \* threads of the worker's default executor
  Nobody,        \* the bars lock is free, a slot has no job, no thread
  MaxTries,      \* ARQ's max_tries
  MaxCrashes,    \* bound: how often the worker or a caller dies
  TtlCoversRun,  \* the bars lock's TTL outlasts the runner that holds it
  JobMayTimeout, \* ops_job_timeout_s may pass while the runner still runs
  RedisFaults    \* a Redis call of the bars lock may fail

ASSUME JobsAssumption ==
  /\ BarsJobs \subseteq Jobs
  /\ Nobody \notin Jobs \cup Threads
  /\ Slots # {} /\ Threads # {}
  /\ MaxTries \in Nat \ {0}
  /\ MaxCrashes \in Nat
  /\ {TtlCoversRun, JobMayTimeout, RedisFaults} \subseteq BOOLEAN

VARIABLES
  jobKey,    \* ids whose arq:job:<id> key exists
  result,    \* ids whose arq:result:<id> key exists
  queue,     \* members of the queue's sorted set
  progress,  \* ids whose arq:in-progress:<id> key exists
  tries,     \* the arq:retry:<id> counter of each id
  meta,      \* ids whose zak2:arq:jobs:meta:<id> hash exists
  pc,        \* where each caller is inside enqueue_ops_job
  target,    \* the job each caller last asked for
  slot,      \* the coroutine in each slot
  thread,    \* what each executor thread is doing
  barsLock,  \* the token in zak2:arq:lock:bars, named by its thread
  crashes    \* how many crashes the behaviour has had

redis  == <<jobKey, result, queue, progress, tries>>
worker == <<slot, thread, barsLock>>
vars   == <<jobKey, result, queue, progress, tries, meta, pc, target,
            slot, thread, barsLock, crashes>>

----------------------------------------------------------------------------
(* Values.                                                                 *)

\* A caller in a resting state has returned (or never called): "accepted"
\* returned the id, "error" raised RuntimeError.
Resting == {"idle", "accepted", "error"}
Steps   == Resting \cup {"check_meta", "del_job", "del_result", "zrem",
                         "enqueue", "reprobe", "index"}

FreeSlot   == [job |-> Nobody, st |-> "free", thread |-> Nobody]
IdleThread == [job |-> Nobody, st |-> "idle"]

SlotRec ==
  [job: Jobs \cup {Nobody}, st: {"free", "claimed", "running", "expired", "exhausted"},
   thread: Threads \cup {Nobody}]
ThreadRec ==
  [job: Jobs \cup {Nobody}, st: {"idle", "start", "run", "exit", "done"}]

\* arq.jobs.Job.status: one transaction, and a result wins over the rest.
Status(j) ==
  IF j \in result THEN "complete"
  ELSE IF j \in progress THEN "in_progress"
  ELSE IF j \in queue THEN "queued"
  ELSE "not_found"

\* Mutated form: a job that waits in the queue does not count.
InFlightRunning(j) == Status(j) = "in_progress"

InFlight(j) == Status(j) \in {"in_progress", "queued"}

Init ==
  /\ jobKey = {} /\ result = {} /\ queue = {} /\ progress = {} /\ meta = {}
  /\ tries = [j \in Jobs |-> 0]
  /\ pc = [c \in Callers |-> "idle"]
  /\ target \in [Callers -> Jobs]
  /\ slot = [s \in Slots |-> FreeSlot]
  /\ thread = [t \in Threads |-> IdleThread]
  /\ barsLock = Nobody
  /\ crashes = 0

----------------------------------------------------------------------------
(* enqueue_ops_job.                                                        *)

Goto(c, from, to) ==
  /\ pc[c] = from
  /\ pc' = [pc EXCEPT ![c] = to]

\* A call: read the status of the stable id and branch on it.
Probe(c, j) ==
  /\ pc[c] \in Resting
  /\ pc' = [pc EXCEPT ![c] = IF InFlight(j) THEN "check_meta" ELSE "del_job"]
  /\ target' = [target EXCEPT ![c] = j]
  /\ UNCHANGED <<redis, meta, worker, crashes>>

\* In flight: return the id, indexing it first if its meta hash is missing.
CheckMeta(c) ==
  /\ Goto(c, "check_meta", IF target[c] \in meta THEN "accepted" ELSE "index")
  /\ UNCHANGED <<redis, meta, target, worker, crashes>>

\* The three commands of _clear_arq_job_keys, each on its own.
DeleteJobKey(c) ==
  /\ Goto(c, "del_job", "del_result")
  /\ jobKey' = jobKey \ {target[c]}
  /\ UNCHANGED <<result, queue, progress, tries, meta, target, worker, crashes>>

\* Mutated form: the cleaner also drops the in-progress key.
DeleteResultKeyAndProgress(c) ==
  /\ Goto(c, "del_result", "zrem")
  /\ result' = result \ {target[c]}
  /\ progress' = progress \ {target[c]}
  /\ UNCHANGED <<jobKey, queue, tries, meta, target, worker, crashes>>

DeleteResultKey(c) ==
  /\ Goto(c, "del_result", "zrem")
  /\ result' = result \ {target[c]}
  /\ UNCHANGED <<jobKey, queue, progress, tries, meta, target, worker, crashes>>

RemoveFromQueue(c) ==
  /\ Goto(c, "zrem", "enqueue")
  /\ queue' = queue \ {target[c]}
  /\ UNCHANGED <<jobKey, result, progress, tries, meta, target, worker, crashes>>

\* ArqRedis.enqueue_job watches the job key and the result key: it returns
\* None when either exists and otherwise creates the job in one transaction.
EnqueueJob(c) ==
  LET j == target[c] IN
  IF j \in jobKey \cup result
  THEN /\ Goto(c, "enqueue", "reprobe")
       /\ UNCHANGED <<redis, meta, target, worker, crashes>>
  ELSE /\ Goto(c, "enqueue", "index")
       /\ jobKey' = jobKey \cup {j}
       /\ queue' = queue \cup {j}
       /\ UNCHANGED <<result, progress, tries, meta, target, worker, crashes>>

\* After None the status is read once more; anything not in flight raises.
Reprobe(c) ==
  /\ Goto(c, "reprobe", IF InFlight(target[c]) THEN "accepted" ELSE "error")
  /\ UNCHANGED <<redis, meta, target, worker, crashes>>

\* index_job, then the id is returned.
IndexJob(c) ==
  /\ Goto(c, "index", "accepted")
  /\ meta' = meta \cup {target[c]}
  /\ UNCHANGED <<redis, target, worker, crashes>>

Enqueue(c) ==
  \/ CheckMeta(c) \/ DeleteJobKey(c) \/ DeleteResultKey(c)
  \/ RemoveFromQueue(c) \/ EnqueueJob(c) \/ Reprobe(c) \/ IndexJob(c)

\* The API process dies in the middle of a call.
CallerCrash(c) ==
  /\ pc[c] \notin Resting
  /\ crashes < MaxCrashes
  /\ crashes' = crashes + 1
  /\ pc' = [pc EXCEPT ![c] = "idle"]
  /\ UNCHANGED <<redis, meta, target, worker>>

----------------------------------------------------------------------------
(* The worker: ARQ's coroutine for a job (external) around run_ops_job.    *)

HasJob(s, j) == slot[s].job = j

\* A free slot takes a queued id unless its in-progress key exists.
Claim(s, j) ==
  /\ slot[s] = FreeSlot
  /\ j \in queue \ progress
  /\ progress' = progress \cup {j}
  /\ slot' = [slot EXCEPT ![s] = [FreeSlot EXCEPT !.job = j, !.st = "claimed"]]
  /\ UNCHANGED <<jobKey, result, queue, tries, meta, pc, target, thread,
                 barsLock, crashes>>

\* The claimed id is loaded: its key may be gone (cleared by a caller), its
\* tries may be used up; otherwise run_ops_job hands the synchronous part to
\* a thread (asyncio.to_thread).
Load(s) ==
  LET j == slot[s].job IN
  /\ slot[s].st = "claimed"
  /\ tries' = [tries EXCEPT ![j] = IF @ < MaxTries THEN @ + 1 ELSE @]
  /\ \/ /\ j \notin jobKey
        /\ slot' = [slot EXCEPT ![s].st = "expired"]
        /\ UNCHANGED thread
     \/ /\ j \in jobKey /\ tries[j] = MaxTries
        /\ slot' = [slot EXCEPT ![s].st = "exhausted"]
        /\ UNCHANGED thread
     \/ /\ j \in jobKey /\ tries[j] < MaxTries
        /\ \E t \in Threads :
             /\ thread[t] = IdleThread
             /\ thread' = [thread EXCEPT ![t] =
                             [job |-> j, st |-> "start"]]
             /\ slot' = [slot EXCEPT ![s] =
                           [job |-> j, st |-> "running", thread |-> t]]
  /\ UNCHANGED <<jobKey, result, queue, progress, meta, pc, target,
                 barsLock, crashes>>

\* _execute_sync takes the bars lock with SET NX before a bars job runs; a
\* refused job returns success=False at once.  With a Redis fault the reply
\* may also be lost after the key was set, and the job is refused as well.
TakeBars(t) ==
  \/ /\ barsLock = Nobody
     /\ barsLock' = t
     /\ thread' = [thread EXCEPT ![t].st = "run"]
  \/ /\ barsLock # Nobody \/ RedisFaults
     /\ \/ UNCHANGED barsLock
        \/ RedisFaults /\ barsLock = Nobody /\ barsLock' = t
     /\ thread' = [thread EXCEPT ![t].st = "done"]

\* Mutated form: the key is read, then set without NX.
StartRunnerNoNX(t) ==
  /\ thread[t].st = "start"
  /\ thread' = [thread EXCEPT ![t].st = "run"]
  /\ barsLock' = IF thread[t].job \in BarsJobs THEN t ELSE barsLock
  /\ UNCHANGED <<redis, meta, pc, target, slot, crashes>>

StartRunner(t) ==
  /\ thread[t].st = "start"
  /\ \/ /\ thread[t].job \in BarsJobs
        /\ TakeBars(t)
     \/ /\ thread[t].job \notin BarsJobs
        /\ thread' = [thread EXCEPT ![t].st = "run"]
        /\ UNCHANGED barsLock
  /\ UNCHANGED <<redis, meta, pc, target, slot, crashes>>

\* The runner returns or raises; the finally block is still to come.
RunnerEnd(t) ==
  /\ thread[t].st = "run"
  /\ thread' = [thread EXCEPT ![t].st = "exit"]
  /\ UNCHANGED <<redis, meta, pc, target, slot, barsLock, crashes>>

\* The finally block: compare-and-delete of the lock, which may fail.
ExitThread(t) ==
  /\ thread[t].st = "exit"
  /\ thread' = [thread EXCEPT ![t].st = "done"]
  /\ barsLock' \in IF barsLock = t
                   THEN {Nobody} \cup (IF RedisFaults THEN {t} ELSE {})
                   ELSE {barsLock}
  /\ UNCHANGED <<redis, meta, pc, target, slot, crashes>>

\* A thread whose coroutine is gone (timed out) drops its value.
DropValue(t) ==
  /\ thread[t].st = "done"
  /\ \A s \in Slots : slot[s].thread # t
  /\ thread' = [thread EXCEPT ![t] = IdleThread]
  /\ UNCHANGED <<redis, meta, pc, target, slot, barsLock, crashes>>

\* finish_job and finish_failed_job: one transaction that drops the keys of
\* the id, takes it out of the queue and stores the result.  No property
\* tells results apart: a value, an error and a refusal are one here.
Settle(s) ==
  LET j == slot[s].job IN
  /\ progress' = progress \ {j}
  /\ queue' = queue \ {j}
  /\ jobKey' = jobKey \ {j}
  /\ tries' = [tries EXCEPT ![j] = 0]
  /\ result' = result \cup {j}
  /\ slot' = [slot EXCEPT ![s] = FreeSlot]
  /\ UNCHANGED <<meta, pc, target, barsLock, crashes>>

FinishDead(s) ==
  /\ slot[s].st \in {"expired", "exhausted"}
  /\ Settle(s)
  /\ UNCHANGED thread

FinishRun(s) ==
  LET t == slot[s].thread IN
  /\ slot[s].st = "running"
  /\ thread[t].st = "done"
  /\ Settle(s)
  /\ thread' = [thread EXCEPT ![t] = IdleThread]

\* ARQ cancels the coroutine after ops_job_timeout_s: the id is settled as
\* failed and the thread goes on.
Timeout(s) ==
  /\ JobMayTimeout
  /\ slot[s].st = "running"
  /\ thread[slot[s].thread].st # "done"
  /\ Settle(s)
  /\ UNCHANGED thread

\* The worker process ends and restarts: its threads die with it.  A clean
\* shutdown cancels the coroutines, which drop their in-progress keys; a
\* crash leaves them to their TTL.  The ids stay queued either way.
WorkerRestart ==
  /\ crashes < MaxCrashes
  /\ crashes' = crashes + 1
  /\ progress' \in {progress, progress \ {slot[s].job : s \in Slots}}
  /\ slot' = [s \in Slots |-> FreeSlot]
  /\ thread' = [t \in Threads |-> IdleThread]
  /\ UNCHANGED <<jobKey, result, queue, tries, meta, pc, target, barsLock>>

----------------------------------------------------------------------------
(* Keys that expire in Redis.                                              *)

\* The in-progress key lives ten seconds longer than the longest timeout, so
\* it only runs out on an id that no coroutine is working on.
ProgressExpires(j) ==
  /\ j \in progress
  /\ \A s \in Slots : ~HasJob(s, j)
  /\ progress' = progress \ {j}
  /\ UNCHANGED <<jobKey, result, queue, tries, meta, pc, target, worker, crashes>>

\* A result is kept for keep_result seconds.
ResultExpires(j) ==
  /\ j \in result
  /\ result' = result \ {j}
  /\ UNCHANGED <<jobKey, queue, progress, tries, meta, pc, target, worker, crashes>>

InBars(t) == thread[t].job \in BarsJobs /\ thread[t].st \in {"run", "exit"}

BarsLockExpires ==
  /\ barsLock # Nobody
  /\ TtlCoversRun => ~InBars(barsLock)
  /\ barsLock' = Nobody
  /\ UNCHANGED <<redis, meta, pc, target, slot, thread, crashes>>

----------------------------------------------------------------------------

WorkerStep ==
  \/ \E s \in Slots : \/ \E j \in Jobs : Claim(s, j)
                      \/ Load(s) \/ FinishDead(s) \/ FinishRun(s) \/ Timeout(s)
  \/ \E t \in Threads : \/ StartRunner(t) \/ RunnerEnd(t) \/ ExitThread(t)
                        \/ DropValue(t)
  \/ WorkerRestart

KeyExpires ==
  \/ \E j \in Jobs : ProgressExpires(j) \/ ResultExpires(j)
  \/ BarsLockExpires

Next ==
  \/ \E c \in Callers : \/ \E j \in Jobs : Probe(c, j)
                        \/ Enqueue(c) \/ CallerCrash(c)
  \/ WorkerStep
  \/ KeyExpires

Spec == Init /\ [][Next]_vars

\* A call that has begun goes on (the event loop runs it), the worker polls
\* and takes the oldest queued id first, runners end, keys run out.  Nobody
\* is obliged to call, to time out or to crash.
Fairness ==
  /\ \A c \in Callers : WF_vars(Enqueue(c))
  /\ \A j \in Jobs : SF_vars(\E s \in Slots : Claim(s, j))
  /\ \A s \in Slots : WF_vars(Load(s) \/ FinishDead(s) \/ FinishRun(s))
  /\ \A t \in Threads : WF_vars(StartRunner(t) \/ RunnerEnd(t)
                                \/ ExitThread(t) \/ DropValue(t))
  /\ \A j \in Jobs : WF_vars(ProgressExpires(j))

FairSpec == Spec /\ Fairness

----------------------------------------------------------------------------
(* Properties.                                                             *)

TypeOK ==
  /\ jobKey \subseteq Jobs /\ queue \subseteq Jobs /\ progress \subseteq Jobs
  /\ meta \subseteq Jobs /\ result \subseteq Jobs
  /\ tries \in [Jobs -> 0 .. MaxTries]
  /\ pc \in [Callers -> Steps]
  /\ target \in [Callers -> Jobs]
  /\ slot \in [Slots -> SlotRec]
  /\ thread \in [Threads -> ThreadRec]
  /\ barsLock \in Threads \cup {Nobody}
  /\ crashes \in 0 .. MaxCrashes

\* Two coroutines never work on the same ops id, however callers, claims,
\* clears, restarts and expiring keys interleave (arq_jobs.py 115-155: the
\* stable id is what keeps a job from running twice at a time).
OneAttemptPerJob ==
  \A s1, s2 \in Slots :
    s1 # s2 /\ slot[s1].job # Nobody => slot[s1].job # slot[s2].job

Executes(t, j) == thread[t].job = j /\ thread[t].st \in {"start", "run", "exit"}

\* Two threads never execute the runner of the same ops job
\* (tasks.py _execute_sync).  Holds while no job outlives its timeout.
OneRunnerPerJob ==
  \A j \in Jobs : \A t1, t2 \in Threads :
    Executes(t1, j) /\ Executes(t2, j) => t1 = t2

\* An ops job runs once at a time: see the two parts.
JobsRunAlone == OneAttemptPerJob /\ OneRunnerPerJob

\* Two bars jobs never run at the same time, even when one of them has
\* outlived its coroutine (tasks.py 54-62, bars_lock.py).
BarsExclusion ==
  \A t1, t2 \in Threads : InBars(t1) /\ InBars(t2) => t1 = t2

\* A thread that leaves the bars section frees the lock only if the lock is
\* its own, so a holder that overran the TTL cannot free the lock of the
\* next one (bars_lock.py _RELEASE_LUA).
ReleasesOwnLock ==
  [][\A t \in Threads :
       thread[t].st = "exit" /\ thread'[t].st = "done" /\ barsLock # t
         => barsLock' = barsLock]_vars

\* An id that was queued once is picked up by the worker, even though other
\* callers delete its keys and take it out of the queue before they enqueue
\* it again (arq_jobs.py 105-160).
QueuedIsAttempted ==
  \A j \in Jobs : j \in queue ~> \E s \in Slots : HasJob(s, j)

\* The status of an accepted id is readable: its meta hash exists, also when
\* an earlier call died between enqueueing and indexing (arq_jobs.py
\* 129-143).  Holds for calls that do not overlap on the id.
AcceptedIsVisible ==
  \A c \in Callers : pc[c] = "accepted" => target[c] \in meta

\* What the keys in Redis and the coroutines of the worker amount to.
Queue == INSTANCE JobQueue WITH
  state <- [j \in Jobs |-> IF \E s \in Slots : HasJob(s, j) THEN "taken"
                           ELSE IF j \in queue THEN "asked" ELSE "none"],
  attempts <- tries

\* What was accepted is kept: its status is readable and the keys that calls
\* delete one by one, and that the worker, its restarts and the TTLs delete
\* beside them, are the queue of JobQueue - no id that waits is lost, none is
\* let go of without an attempt (arq_jobs.py 105-172).  Holds for calls that do
\* not overlap.
AcceptedIsKept == []AcceptedIsVisible /\ Queue!QueueSpec

\* The run endpoint always answers with an accepted id (the ARQ phase 2 spec,
\* section 1.3); refuted by two callers that clear and enqueue the same id.
NeverRejected == \A c \in Callers : pc[c] # "error"

=============================================================================
