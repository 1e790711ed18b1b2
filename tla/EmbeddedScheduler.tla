-------------------------- MODULE EmbeddedScheduler ------------------------
(***************************************************************************)
(* The cron scheduler embedded in every API replica.  At a tick each       *)
(* replica runs _run_job for each due job: an in-process lock, the guard   *)
(* of the bars jobs, the Redis lock of the job (SET NX EX), the enabled    *)
(* flag of the configuration, the enqueue, and the finally block that      *)
(* gives everything back.                                                  *)
(*                                                                         *)
(*   backend/app/services/ops/embedded_scheduler.py  _run_job              *)
(*   backend/app/services/ops/scheduler_lock.py      try_acquire, release  *)
(*                                                                         *)
(* The enqueue is OpsJobs' enqueue_ops_job taken as one step: a job in     *)
(* flight is returned as it is, otherwise a new run starts.                *)
(***************************************************************************)
EXTENDS Naturals

CONSTANTS
  Replicas,        \* API processes that run the scheduler
  Jobs,            \* runnable job ids that have a cron at the modelled ticks
  BarsJobs,        \* the jobs of _BARS_JOBS
  NoUser,          \* jobs that need a user while none is configured
  None,            \* the Redis lock is free
  MaxTicks,        \* bound: cron ticks in a behaviour
  MaxCrashes,      \* bound: replica crashes in a behaviour
  RedisFaults,     \* Redis calls of the lock may fail or lose their reply
  JobFaults,       \* reading the configuration or the enqueue may raise
  ConfigEdits,     \* operators may switch jobs on and off
  TicksOverlap     \* a firing may still be going on at the next tick

ASSUME SchedulerAssumption ==
  /\ BarsJobs \subseteq Jobs /\ NoUser \subseteq Jobs
  /\ None \notin Replicas
  /\ MaxTicks \in Nat /\ MaxCrashes \in Nat
  /\ {RedisFaults, JobFaults, ConfigEdits, TicksOverlap} \subseteq BOOLEAN

VARIABLES
  pc,        \* pc[r][j]: where replica r's firing of job j is
  due,       \* due[r]: the jobs replica r has still to fire in this tick
  held,      \* held[r]: the jobs whose threading.Lock is taken
  running,   \* running[r]: the set _running
  lock,      \* lock[j]: the replica whose token is in the job's Redis lock
  enabled,   \* the jobs enabled in system.scheduler_config
  inflight,  \* the jobs queued or running in ARQ
  runs,      \* runs[j]: runs of job j started since the last tick
  served,    \* the jobs enqueued or found switched off since the last tick
  tick, crashes

local == <<pc, due, held, running>>
shared == <<lock, enabled, inflight, runs, served>>
vars == <<pc, due, held, running, lock, enabled, inflight, runs, served, tick, crashes>>

Steps == {"idle", "guard", "acquire", "config", "enqueue", "finally", "exit"}

Init ==
  /\ pc = [r \in Replicas |-> [j \in Jobs |-> "idle"]]
  /\ due = [r \in Replicas |-> {}]
  /\ held = [r \in Replicas |-> {}]
  /\ running = [r \in Replicas |-> {}]
  /\ lock = [j \in Jobs |-> None]
  /\ enabled = Jobs
  /\ inflight = {}
  /\ runs = [j \in Jobs |-> 0]
  /\ served = {}
  /\ tick = 0 /\ crashes = 0

Quiet == \A r \in Replicas : due[r] = {} /\ \A j \in Jobs : pc[r][j] = "idle"

----------------------------------------------------------------------------

At(r, j, from, to) ==
  /\ pc[r][j] = from
  /\ pc' = [pc EXCEPT ![r][j] = to]

\* The cron minute arrives in every replica.
Tick ==
  /\ tick < MaxTicks
  /\ TicksOverlap \/ Quiet
  /\ tick' = tick + 1
  /\ due' = [r \in Replicas |-> Jobs]
  /\ runs' = [j \in Jobs |-> 0]
  /\ served' = {}
  /\ UNCHANGED <<pc, held, running, lock, enabled, inflight, crashes>>

\* lock.acquire(blocking=False): taken means skip.
Fire(r, j) ==
  /\ j \in due[r]
  /\ due' = [due EXCEPT ![r] = @ \ {j}]
  /\ IF j \in held[r]
     THEN UNCHANGED <<pc, held>>
     ELSE /\ held' = [held EXCEPT ![r] = @ \cup {j}]
          /\ At(r, j, "idle", "guard")
  /\ UNCHANGED <<running, shared, tick, crashes>>

\* Mutated form: the bars skip forgets to release the in-process lock.
EnterRunningLeak(r, j) ==
  /\ IF j \in BarsJobs /\ running[r] \cap BarsJobs # {}
     THEN /\ At(r, j, "guard", "idle")
          /\ UNCHANGED <<held, running>>
     ELSE /\ At(r, j, "guard", "acquire")
          /\ running' = [running EXCEPT ![r] = @ \cup {j}]
          /\ UNCHANGED held
  /\ UNCHANGED <<due, shared, tick, crashes>>

\* Under _running_guard: one bars job at a time in the process.
EnterRunning(r, j) ==
  /\ IF j \in BarsJobs /\ running[r] \cap BarsJobs # {}
     THEN /\ At(r, j, "guard", "idle")
          /\ held' = [held EXCEPT ![r] = @ \ {j}]
          /\ UNCHANGED running
     ELSE /\ At(r, j, "guard", "acquire")
          /\ running' = [running EXCEPT ![r] = @ \cup {j}]
          /\ UNCHANGED held
  /\ UNCHANGED <<due, shared, tick, crashes>>

\* Mutated form: SET without NX.
AcquirePlainSet(r, j) ==
  /\ At(r, j, "acquire", "config")
  /\ lock' = [lock EXCEPT ![j] = r]
  /\ UNCHANGED <<due, held, running, enabled, inflight, runs, served, tick, crashes>>

\* try_acquire.  Refused, or a Redis error (the key may have been set when
\* the reply was lost): the firing is skipped and gives back what it holds.
Acquire(r, j) ==
  /\ \/ /\ At(r, j, "acquire", "config")
        /\ lock[j] = None
        /\ lock' = [lock EXCEPT ![j] = r]
        /\ UNCHANGED <<held, running>>
     \/ /\ At(r, j, "acquire", "idle")
        /\ lock[j] # None \/ RedisFaults
        /\ \/ UNCHANGED lock
           \/ /\ RedisFaults /\ lock[j] = None
              /\ lock' = [lock EXCEPT ![j] = r]
        /\ running' = [running EXCEPT ![r] = @ \ {j}]
        /\ held' = [held EXCEPT ![r] = @ \ {j}]
  /\ UNCHANGED <<due, enabled, inflight, runs, served, tick, crashes>>

\* The configuration is read; a disabled job, or one whose user is not
\* configured, goes straight to the finally block, as does an exception.
ReadConfig(r, j) ==
  /\ \/ /\ j \in enabled \ NoUser
        /\ At(r, j, "config", "enqueue")
        /\ UNCHANGED served
     \/ /\ j \notin enabled \ NoUser
        /\ At(r, j, "config", "finally")
        /\ served' = served \cup {j}
     \/ /\ JobFaults
        /\ At(r, j, "config", "finally")
        /\ UNCHANGED served
  /\ UNCHANGED <<due, held, running, lock, enabled, inflight, runs, tick, crashes>>

\* enqueue_ops_job_sync; an exception is logged and swallowed.
EnqueueJob(r, j) ==
  /\ At(r, j, "enqueue", "finally")
  /\ \/ /\ j \in inflight
        /\ served' = served \cup {j}
        /\ UNCHANGED <<inflight, runs>>
     \/ /\ j \notin inflight
        /\ inflight' = inflight \cup {j}
        /\ runs' = [runs EXCEPT ![j] = @ + 1]
        /\ served' = served \cup {j}
     \/ JobFaults /\ UNCHANGED <<inflight, runs, served>>
  /\ UNCHANGED <<due, held, running, lock, enabled, tick, crashes>>

\* finally: compare-and-delete of the Redis lock, which may fail ...
Release(r, j) ==
  /\ At(r, j, "finally", "exit")
  /\ lock' \in {IF lock[j] = r THEN [lock EXCEPT ![j] = None] ELSE lock}
               \cup (IF RedisFaults THEN {lock} ELSE {})
  /\ UNCHANGED <<due, held, running, enabled, inflight, runs, served, tick, crashes>>

\* ... then _running and the in-process lock.
Exit(r, j) ==
  /\ At(r, j, "exit", "idle")
  /\ running' = [running EXCEPT ![r] = @ \ {j}]
  /\ held' = [held EXCEPT ![r] = @ \ {j}]
  /\ UNCHANGED <<due, shared, tick, crashes>>

----------------------------------------------------------------------------
(* The surroundings.                                                       *)

InSection(r, j) == pc[r][j] \in {"config", "enqueue", "finally"}

\* Mutated form: SET without EX.
LockNeverExpires(j) ==
  /\ FALSE
  /\ UNCHANGED vars

\* The TTL (at least 60 s) outlasts the window between acquire and release.
LockExpires(j) ==
  /\ lock[j] # None
  /\ ~InSection(lock[j], j)
  /\ lock' = [lock EXCEPT ![j] = None]
  /\ UNCHANGED <<local, enabled, inflight, runs, served, tick, crashes>>

JobDone(j) ==
  /\ j \in inflight
  /\ inflight' = inflight \ {j}
  /\ UNCHANGED <<local, lock, enabled, runs, served, tick, crashes>>

\* PATCH /ops/scheduler/jobs/{job_id}
SetEnabled(j) ==
  /\ ConfigEdits
  /\ enabled' \in {enabled \cup {j}, enabled \ {j}}
  /\ UNCHANGED <<local, lock, inflight, runs, served, tick, crashes>>

\* A replica dies: its process state is gone, its Redis locks stay.
Crash(r) ==
  /\ crashes < MaxCrashes
  /\ crashes' = crashes + 1
  /\ pc' = [pc EXCEPT ![r] = [j \in Jobs |-> "idle"]]
  /\ due' = [due EXCEPT ![r] = {}]
  /\ held' = [held EXCEPT ![r] = {}]
  /\ running' = [running EXCEPT ![r] = {}]
  /\ UNCHANGED <<shared, tick>>

Step(r, j) ==
  \/ Fire(r, j) \/ EnterRunning(r, j) \/ Acquire(r, j) \/ ReadConfig(r, j)
  \/ EnqueueJob(r, j) \/ Release(r, j) \/ Exit(r, j)

Next ==
  \/ Tick
  \/ \E r \in Replicas : Crash(r) \/ \E j \in Jobs : Step(r, j)
  \/ \E j \in Jobs : LockExpires(j) \/ JobDone(j) \/ SetEnabled(j)

Spec == Init /\ [][Next]_vars

\* Scheduler threads run, and every key set with EX runs out.
Fairness ==
  /\ \A r \in Replicas, j \in Jobs : WF_vars(Step(r, j))
  /\ \A j \in Jobs : WF_vars(LockExpires(j))

FairSpec == Spec /\ Fairness

----------------------------------------------------------------------------
(* Properties.                                                             *)

TypeOK ==
  /\ pc \in [Replicas -> [Jobs -> Steps]]
  /\ due \in [Replicas -> SUBSET Jobs]
  /\ held \in [Replicas -> SUBSET Jobs]
  /\ running \in [Replicas -> SUBSET Jobs]
  /\ lock \in [Jobs -> Replicas \cup {None}]
  /\ enabled \subseteq Jobs /\ inflight \subseteq Jobs /\ served \subseteq Jobs
  /\ runs \in [Jobs -> Nat]
  /\ tick \in 0 .. MaxTicks /\ crashes \in 0 .. MaxCrashes

\* At most one replica is between the acquire and the release of a job's
\* Redis lock (scheduler_lock.py 47-69), whatever replicas crash, replies
\* get lost or keys expire.
OneReplicaInSection ==
  \A j \in Jobs : \A r1, r2 \in Replicas :
    InSection(r1, j) /\ InSection(r2, j) => r1 = r2

\* Every way out of _run_job gives back what the firing took: the in-process
\* lock and the entry of _running (a leak would silence the job for good).
NothingLeaks ==
  \A r \in Replicas, j \in Jobs :
    pc[r][j] = "idle" => j \notin held[r] /\ j \notin running[r]

\* In one process two bars jobs are never both past the guard.
OneBarsJobPerProcess ==
  \A r \in Replicas : \A j1, j2 \in running[r] \cap BarsJobs : j1 = j2

\* The two locks hold what they are for, Redis' one between the replicas and
\* the process' own between its bars jobs: see the two parts.
LocksExclude == OneReplicaInSection /\ OneBarsJobPerProcess

\* No tick is lost to the locks: once every replica has fired, some replica
\* has started the job, found it in flight or found it switched off.  Needs a
\* Redis that answers, replicas that have not crashed and no bars job.
TickServed ==
  Quiet /\ tick > 0 /\ crashes = 0 => Jobs \ BarsJobs \subseteq served

\* A lock left behind by a crash, a lost reply or a failed release does not
\* silence the job for good: it is free again.
LockIsFreedAgain == \A j \in Jobs : []<>(lock[j] = None)

\* A job whose replicas crash is neither skipped by the others nor locked out:
\* see the two parts.
LocksServe == []TickServed /\ LockIsFreedAgain

\* The job runs once per tick, however many replicas fire it
\* (scheduler_lock.py line 1); refuted: the lock only covers the enqueue.
OncePerTick == \A j \in Jobs : runs[j] <= 1

=============================================================================
