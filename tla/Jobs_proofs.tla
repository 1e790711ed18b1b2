---------------------------- MODULE Jobs_proofs -----------------------------
(* Theorems of the ops jobs over ARQ and of the data that jobs and the      *)
(* collector keep fresh: the daily bars and the quotes.                     *)
EXTENDS OpsJobs, BarStore, QuotePipeline, Counting, SequenceTheorems

-----------------------------------------------------------------------------
(* OpsJobs, for every set of jobs, callers, slots and threads: type         *)
(* correctness, one attempt per stable id and, without timeouts, one runner *)
(* per job, exclusion of the bars jobs when the TTL covers the run, and     *)
(* releases that only free one's own lock; for one caller, that an accepted *)
(* id has its meta hash.                                                    *)

\* What a coroutine's state says about its job and its thread.
SlotShape ==
  \A s \in Slots :
    /\ slot[s].st # "free" => slot[s].job \in Jobs
    /\ slot[s].st = "running" => slot[s].thread \in Threads

Typing == TypeOK /\ SlotShape

\* Every claimed id has its in-progress key: the reason why Claim excludes.
ClaimsHeld ==
  \A s \in Slots : slot[s].job # Nobody => slot[s].job \in progress

AttemptInv == Typing /\ ClaimsHeld /\ OneAttemptPerJob

\* Every thread in the bars section owns the lock.
BarsOwner == \A t \in Threads : InBars(t) => barsLock = t

----------------------------------------------------------------------------

LEMMA FreeSlotType == FreeSlot \in SlotRec /\ IdleThread \in ThreadRec
  BY DEF FreeSlot, IdleThread, SlotRec, ThreadRec

LEMMA InitTyping == Init => Typing
  BY FreeSlotType, JobsAssumption
  DEF Init, Typing, TypeOK, SlotShape, Steps, Resting, FreeSlot

\* The steps of a caller leave the worker alone.
LEMMA CallerTyping ==
  ASSUME Typing, NEW c \in Callers,
         (\E j \in Jobs : Probe(c, j)) \/ Enqueue(c) \/ CallerCrash(c)
  PROVE  Typing'
  <1> USE DEF Typing, TypeOK, SlotShape, redis, worker, Goto, Steps, Resting
  <1>1. ASSUME NEW j \in Jobs, Probe(c, j) PROVE Typing'
    BY <1>1 DEF Probe
  <1>2. CASE CheckMeta(c)
    BY <1>2 DEF CheckMeta
  <1>3. CASE DeleteJobKey(c)
    BY <1>3 DEF DeleteJobKey
  <1>4. CASE DeleteResultKey(c)
    BY <1>4 DEF DeleteResultKey
  <1>5. CASE RemoveFromQueue(c)
    BY <1>5 DEF RemoveFromQueue
  <1>6. CASE EnqueueJob(c)
    BY <1>6 DEF EnqueueJob
  <1>7. CASE Reprobe(c)
    BY <1>7 DEF Reprobe
  <1>8. CASE IndexJob(c)
    BY <1>8 DEF IndexJob
  <1>9. CASE CallerCrash(c)
    BY <1>9, JobsAssumption DEF CallerCrash
  <1>10. QED
    BY <1>1, <1>2, <1>3, <1>4, <1>5, <1>6, <1>7, <1>8, <1>9 DEF Enqueue

LEMMA SettleTyping ==
  ASSUME Typing, NEW s \in Slots, Settle(s),
         thread' \in [Threads -> ThreadRec]
  PROVE  Typing'
  <1>b. 0 \in 0 .. MaxTries
    BY JobsAssumption
  <1>1. tries' \in [Jobs -> 0 .. MaxTries]
    BY <1>b, Zenon DEF Typing, TypeOK, Settle
  <1>2. slot' \in [Slots -> SlotRec] /\ SlotShape'
    BY FreeSlotType DEF Typing, TypeOK, SlotShape, Settle, FreeSlot
  <1>3. QED
    BY <1>1, <1>2 DEF Typing, TypeOK, Settle

LEMMA SlotTyping ==
  ASSUME Typing, NEW s \in Slots,
         (\E j \in Jobs : Claim(s, j)) \/ Load(s) \/ FinishDead(s)
           \/ FinishRun(s) \/ Timeout(s)
  PROVE  Typing'
  <1>1. ASSUME NEW j \in Jobs, Claim(s, j) PROVE Typing'
    BY <1>1 DEF Claim, Typing, TypeOK, SlotShape, FreeSlot, SlotRec
  <1>2. CASE Load(s)
    <2> DEFINE j == slot[s].job
    <2>1. j \in Jobs /\ tries[j] \in 0 .. MaxTries
      BY <1>2 DEF Load, Typing, TypeOK, SlotShape
    <2>2. tries' \in [Jobs -> 0 .. MaxTries]
      BY <1>2, <2>1, JobsAssumption DEF Load, Typing, TypeOK
    <2>3. slot' \in [Slots -> SlotRec] /\ SlotShape' /\ thread' \in [Threads -> ThreadRec]
      <3>1. CASE slot' = [slot EXCEPT ![s].st = "expired"] /\ UNCHANGED thread
        BY <3>1, <2>1 DEF Typing, TypeOK, SlotShape, SlotRec
      <3>2. CASE slot' = [slot EXCEPT ![s].st = "exhausted"] /\ UNCHANGED thread
        BY <3>2, <2>1 DEF Typing, TypeOK, SlotShape, SlotRec
      <3>3. ASSUME NEW t \in Threads,
                   thread' = [thread EXCEPT ![t] =
                               [job |-> j, st |-> "start"]],
                   slot' = [slot EXCEPT ![s] =
                             [job |-> j, st |-> "running", thread |-> t]]
            PROVE  slot' \in [Slots -> SlotRec] /\ SlotShape'
                     /\ thread' \in [Threads -> ThreadRec]
        BY <3>3, <2>1 DEF Typing, TypeOK, SlotShape, SlotRec, ThreadRec
      <3>4. QED
        BY <1>2, <3>1, <3>2, <3>3 DEF Load
    <2>4. QED
      BY <1>2, <2>2, <2>3 DEF Load, Typing, TypeOK
  <1>3. CASE FinishDead(s)
    BY <1>3, SettleTyping DEF FinishDead, Typing, TypeOK
  <1>4. CASE FinishRun(s)
    <2>1. slot[s].thread \in Threads
      BY <1>4 DEF FinishRun, Typing, SlotShape
    <2>2. thread' \in [Threads -> ThreadRec]
      BY <1>4, <2>1, FreeSlotType DEF FinishRun, Typing, TypeOK
    <2>3. QED
      BY <1>4, <2>2, SettleTyping DEF FinishRun
  <1>5. CASE Timeout(s)
    BY <1>5, SettleTyping DEF Timeout, Typing, TypeOK
  <1>6. QED
    BY <1>1, <1>2, <1>3, <1>4, <1>5

LEMMA ThreadTyping ==
  ASSUME Typing, NEW t \in Threads,
         StartRunner(t) \/ RunnerEnd(t) \/ ExitThread(t) \/ DropValue(t)
  PROVE  Typing'
  <1> USE DEF Typing, TypeOK, SlotShape, redis
  <1>1. CASE StartRunner(t)
    BY <1>1 DEF StartRunner, TakeBars, ThreadRec
  <1>2. CASE RunnerEnd(t)
    BY <1>2 DEF RunnerEnd, ThreadRec
  <1>3. CASE ExitThread(t)
    BY <1>3 DEF ExitThread, ThreadRec
  <1>4. CASE DropValue(t)
    BY <1>4, FreeSlotType DEF DropValue
  <1>5. QED
    BY <1>1, <1>2, <1>3, <1>4

LEMMA StepTyping == Typing /\ [Next]_vars => Typing'
  <1> SUFFICES ASSUME Typing, [Next]_vars PROVE Typing'
    OBVIOUS
  <1>1. CASE WorkerRestart
    BY <1>1, FreeSlotType, JobsAssumption
    DEF WorkerRestart, Typing, TypeOK, SlotShape, FreeSlot
  <1>2. CASE KeyExpires
    <2>1. ASSUME NEW j \in Jobs, ProgressExpires(j) PROVE Typing'
      BY <2>1 DEF ProgressExpires, Typing, TypeOK, SlotShape, worker
    <2>2. ASSUME NEW j \in Jobs, ResultExpires(j) PROVE Typing'
      BY <2>2 DEF ResultExpires, Typing, TypeOK, SlotShape, worker
    <2>3. CASE BarsLockExpires
      BY <2>3 DEF BarsLockExpires, Typing, TypeOK, SlotShape, redis
    <2>4. QED
      BY <1>2, <2>1, <2>2, <2>3 DEF KeyExpires
  <1>3. CASE UNCHANGED vars
    BY <1>3 DEF vars, Typing, TypeOK, SlotShape
  <1>4. QED
    BY <1>1, <1>2, <1>3, CallerTyping, SlotTyping, ThreadTyping DEF Next, WorkerStep

\* Every state of every behaviour is well typed.
THEOREM TypeCorrect == Spec => []TypeOK
  <1>1. Typing => TypeOK
    BY DEF Typing
  <1>2. QED
    BY <1>1, InitTyping, StepTyping, PTL DEF Spec

----------------------------------------------------------------------------
(* One attempt per id: a claim needs a free in-progress key, and no step of *)
(* a caller, of Redis or of another coroutine removes a held one.           *)

\* Dropping the job of one slot and its key keeps the other slots apart.
LEMMA SettleAttempt ==
  ASSUME AttemptInv, NEW s \in Slots, Settle(s)
  PROVE  ClaimsHeld' /\ OneAttemptPerJob'
  <1>1. slot' = [slot EXCEPT ![s] = FreeSlot] /\ progress' = progress \ {slot[s].job}
    BY DEF Settle
  <1>2. slot'[s].job = Nobody /\ \A r \in Slots : r # s => slot'[r] = slot[r]
    BY <1>1 DEF AttemptInv, Typing, TypeOK, FreeSlot
  <1>3. QED
    BY <1>1, <1>2 DEF AttemptInv, ClaimsHeld, OneAttemptPerJob

\* Changing the state of a slot, not its job, changes neither fact.
LEMMA SameJobs ==
  ASSUME AttemptInv, progress \subseteq progress',
         \A s \in Slots : slot'[s].job = slot[s].job
  PROVE  ClaimsHeld' /\ OneAttemptPerJob'
  BY DEF AttemptInv, ClaimsHeld, OneAttemptPerJob

LEMMA StepAttempt == AttemptInv /\ [Next]_vars => ClaimsHeld' /\ OneAttemptPerJob'
  <1> SUFFICES ASSUME AttemptInv, [Next]_vars PROVE ClaimsHeld' /\ OneAttemptPerJob'
    OBVIOUS
  <1> USE DEF redis, worker
  <1>1. ASSUME NEW c \in Callers,
               (\E j \in Jobs : Probe(c, j)) \/ Enqueue(c) \/ CallerCrash(c)
        PROVE  UNCHANGED <<slot, progress>>
    BY <1>1 DEF Probe, Enqueue, CallerCrash, CheckMeta, DeleteJobKey,
       DeleteResultKey, RemoveFromQueue, EnqueueJob, Reprobe, IndexJob
  <1>2. ASSUME NEW s \in Slots, NEW j \in Jobs, Claim(s, j)
        PROVE  ClaimsHeld' /\ OneAttemptPerJob'
    <2>1. \A r \in Slots : slot[r].job # j
      BY <1>2, JobsAssumption DEF AttemptInv, ClaimsHeld, Claim
    <2>2. slot'[s].job = j /\ \A r \in Slots : r # s => slot'[r] = slot[r]
      BY <1>2 DEF Claim, AttemptInv, Typing, TypeOK, FreeSlot
    <2>3. QED
      BY <1>2, <2>1, <2>2 DEF Claim, AttemptInv, ClaimsHeld, OneAttemptPerJob
  <1>3. ASSUME NEW s \in Slots, Load(s)
        PROVE  ClaimsHeld' /\ OneAttemptPerJob'
    <2>1. \A r \in Slots : slot'[r].job = slot[r].job
      BY <1>3 DEF Load, AttemptInv, Typing, TypeOK, SlotRec
    <2>2. QED
      BY <1>3, <2>1, SameJobs DEF Load
  <1>4. ASSUME NEW s \in Slots, FinishDead(s) \/ FinishRun(s) \/ Timeout(s)
        PROVE  ClaimsHeld' /\ OneAttemptPerJob'
    <2>1. Settle(s)
      BY <1>4 DEF FinishDead, FinishRun, Timeout
    <2>2. QED
      BY <2>1, SettleAttempt
  <1>5. ASSUME NEW t \in Threads,
               StartRunner(t) \/ RunnerEnd(t) \/ ExitThread(t) \/ DropValue(t)
        PROVE  UNCHANGED <<slot, progress>>
    BY <1>5 DEF StartRunner, RunnerEnd, ExitThread, DropValue
  <1>6. CASE WorkerRestart
    BY <1>6 DEF WorkerRestart, FreeSlot, ClaimsHeld, OneAttemptPerJob
  <1>7. CASE KeyExpires
    BY <1>7 DEF KeyExpires, ProgressExpires, ResultExpires, BarsLockExpires,
       HasJob, AttemptInv, ClaimsHeld, OneAttemptPerJob
  <1>8. CASE UNCHANGED <<slot, progress>>
    BY <1>8, SameJobs
  <1>9. QED
    BY <1>1, <1>2, <1>3, <1>4, <1>5, <1>6, <1>7, <1>8 DEF Next, WorkerStep, vars

\* No two coroutines work on the same stable id.
THEOREM SingleAttempt == Spec => []OneAttemptPerJob
  <1>1. Init => AttemptInv
    BY InitTyping DEF Init, AttemptInv, ClaimsHeld, OneAttemptPerJob, FreeSlot
  <1>2. AttemptInv /\ [Next]_vars => AttemptInv'
    BY StepTyping, StepAttempt DEF AttemptInv
  <1>3. AttemptInv => OneAttemptPerJob
    BY DEF AttemptInv
  <1>4. QED
    BY <1>1, <1>2, <1>3, PTL DEF Spec

----------------------------------------------------------------------------
(* One runner per job: without timeouts a thread is never without the      *)
(* coroutine that awaits it.                                               *)

\* The coroutine in slot s awaits thread t.
Awaits(s, t) ==
  slot[s].st = "running" /\ slot[s].thread = t /\ slot[s].job = thread[t].job

Attended == \A t \in Threads : thread[t] # IdleThread => \E s \in Slots : Awaits(s, t)

\* What leaves the slots alone, and the jobs of the threads, keeps it.
LEMMA SameThreads ==
  ASSUME Typing, Attended, UNCHANGED slot,
         \A t \in Threads : thread'[t] # IdleThread =>
           thread[t] # IdleThread /\ thread'[t].job = thread[t].job
  PROVE  Attended'
  BY DEF Attended, Awaits

LEMMA SlotAttended ==
  ASSUME ~JobMayTimeout, Typing, Attended, NEW s \in Slots,
         (\E j \in Jobs : Claim(s, j)) \/ Load(s) \/ FinishDead(s)
           \/ FinishRun(s) \/ Timeout(s)
  PROVE  Attended'
  \* A step of slot s that moves no awaited thread keeps the others attended.
  <1>1. ASSUME slot[s].st # "running", \A r \in Slots : r # s => slot'[r] = slot[r],
               UNCHANGED thread
        PROVE  Attended'
    BY <1>1 DEF Attended, Awaits
  <1>2. ASSUME NEW j \in Jobs, Claim(s, j) PROVE Attended'
    <2>1. slot[s].st # "running" /\ UNCHANGED thread
      <3>1. slot[s] = FreeSlot /\ UNCHANGED thread
        BY <1>2 DEF Claim
      <3> QED
        BY <3>1 DEF FreeSlot
    <2>2. \A r \in Slots : r # s => slot'[r] = slot[r]
      BY <1>2 DEF Claim, Typing, TypeOK, FreeSlot
    <2> QED
      BY <1>1, <2>1, <2>2
  <1>3. CASE Load(s)
    <2>1. ASSUME NEW t \in Threads, thread[t] = IdleThread,
                 thread' = [thread EXCEPT ![t] = [job |-> slot[s].job, st |-> "start"]],
                 slot' = [slot EXCEPT ![s] =
                            [job |-> slot[s].job, st |-> "running", thread |-> t]]
          PROVE  Attended'
      <3> SUFFICES ASSUME NEW u \in Threads, thread'[u] # IdleThread
                   PROVE  \E r \in Slots : Awaits(r, u)'
        BY DEF Attended
      <3>1. CASE u = t
        BY <2>1, <3>1 DEF Awaits, Typing, TypeOK
      <3>2. CASE u # t
        <4>1. PICK r \in Slots : Awaits(r, u)
          BY <2>1, <3>2 DEF Attended, Typing, TypeOK
        <4>2. r # s
          BY <4>1, <1>3 DEF Awaits, Load
        <4> QED
          BY <4>1, <4>2, <2>1, <3>2 DEF Awaits, Typing, TypeOK
      <3> QED
        BY <3>1, <3>2
    <2>2. CASE UNCHANGED thread
      BY <1>1, <1>3, <2>2 DEF Load, Typing, TypeOK
    <2> QED
      BY <1>3, <2>1, <2>2 DEF Load
  <1>4. CASE FinishDead(s)
    BY <1>1, <1>4 DEF FinishDead, Settle, Typing, TypeOK
  <1>5. CASE FinishRun(s)
    <2> SUFFICES ASSUME NEW u \in Threads, thread'[u] # IdleThread
                 PROVE  \E r \in Slots : Awaits(r, u)'
      BY DEF Attended
    <2>1. u # slot[s].thread /\ thread'[u] = thread[u]
      BY <1>5 DEF FinishRun, Typing, TypeOK
    <2>2. PICK r \in Slots : Awaits(r, u)
      BY <2>1 DEF Attended
    <2>3. r # s /\ slot'[r] = slot[r]
      BY <1>5, <2>1, <2>2 DEF Awaits, FinishRun, Settle, Typing, TypeOK
    <2> QED
      BY <2>1, <2>2, <2>3 DEF Awaits
  <1>6. CASE Timeout(s)
    BY <1>6 DEF Timeout
  <1> QED
    BY <1>2, <1>3, <1>4, <1>5, <1>6

LEMMA StepAttended == ~JobMayTimeout /\ Typing /\ Attended /\ [Next]_vars => Attended'
  <1> SUFFICES ASSUME ~JobMayTimeout, Typing, Attended, [Next]_vars PROVE Attended'
    OBVIOUS
  <1> USE DEF redis, worker
  <1>1. ASSUME UNCHANGED <<slot, thread>> PROVE Attended'
    BY <1>1, SameThreads
  <1>2. ASSUME NEW c \in Callers,
               (\E j \in Jobs : Probe(c, j)) \/ Enqueue(c) \/ CallerCrash(c)
        PROVE  UNCHANGED <<slot, thread>>
    BY <1>2 DEF Probe, Enqueue, CallerCrash, CheckMeta, DeleteJobKey,
       DeleteResultKey, RemoveFromQueue, EnqueueJob, Reprobe, IndexJob
  <1>3. ASSUME NEW t \in Threads,
               StartRunner(t) \/ RunnerEnd(t) \/ ExitThread(t) \/ DropValue(t)
        PROVE  Attended'
    <2>1. UNCHANGED slot
      BY <1>3 DEF StartRunner, RunnerEnd, ExitThread, DropValue
    <2>2. thread[t] # IdleThread
      BY <1>3 DEF StartRunner, RunnerEnd, ExitThread, DropValue, IdleThread
    <2>3. \A u \in Threads : thread'[u] # IdleThread =>
             thread[u] # IdleThread /\ thread'[u].job = thread[u].job
      BY <1>3, <2>2 DEF StartRunner, TakeBars, RunnerEnd, ExitThread, DropValue,
         Typing, TypeOK, ThreadRec
    <2> QED
      BY <2>1, <2>3, SameThreads
  <1>4. CASE WorkerRestart
    BY <1>4 DEF WorkerRestart, Attended
  <1>5. CASE KeyExpires
    BY <1>1, <1>5 DEF KeyExpires, ProgressExpires, ResultExpires, BarsLockExpires
  <1>6. CASE UNCHANGED vars
    BY <1>1, <1>6 DEF vars
  <1> QED
    BY <1>1, <1>2, <1>3, <1>4, <1>5, <1>6, SlotAttended DEF Next, WorkerStep

\* An ops job runs once at a time, in one coroutine and in one thread, as long
\* as no attempt is cut off by its timeout: a worker that dies takes its
\* threads along, and no other step parts a thread from its coroutine.
THEOREM JobsAlone == ~JobMayTimeout => (Spec => []JobsRunAlone)
  <1> SUFFICES ASSUME ~JobMayTimeout PROVE Spec => []JobsRunAlone
    OBVIOUS
  <1>1. Init => AttemptInv /\ Attended
    BY InitTyping
    DEF Init, AttemptInv, ClaimsHeld, OneAttemptPerJob, FreeSlot, Attended
  <1>2. (AttemptInv /\ Attended) /\ [Next]_vars => (AttemptInv /\ Attended)'
    BY StepTyping, StepAttempt, StepAttended DEF AttemptInv
  <1>3. AttemptInv /\ Attended => JobsRunAlone
    <2> SUFFICES ASSUME AttemptInv, Attended, NEW j \in Jobs, NEW t1 \in Threads,
                        NEW t2 \in Threads, Executes(t1, j), Executes(t2, j)
                 PROVE  t1 = t2
      BY DEF JobsRunAlone, OneRunnerPerJob, AttemptInv
    <2>1. thread[t1] # IdleThread /\ thread[t2] # IdleThread
      BY DEF Executes, IdleThread
    <2>2. PICK s1 \in Slots, s2 \in Slots : Awaits(s1, t1) /\ Awaits(s2, t2)
      BY <2>1 DEF Attended
    <2>3. slot[s1].job = slot[s2].job /\ slot[s1].job # Nobody
      BY <2>2, JobsAssumption DEF Awaits, Executes
    <2>4. s1 = s2
      BY <2>3 DEF AttemptInv, OneAttemptPerJob
    <2> QED
      BY <2>2, <2>4 DEF Awaits
  <1> QED
    BY <1>1, <1>2, <1>3, PTL DEF Spec

----------------------------------------------------------------------------
(* The bars lock.                                                          *)

LEMMA StepBars ==
  TtlCoversRun /\ Typing /\ BarsOwner /\ [Next]_vars => BarsOwner'
  <1> SUFFICES ASSUME TtlCoversRun, Typing, BarsOwner, [Next]_vars PROVE BarsOwner'
    OBVIOUS
  <1> USE DEF redis, worker
  <1>1. ASSUME UNCHANGED <<thread, barsLock>> PROVE BarsOwner'
    BY <1>1 DEF BarsOwner, InBars
  \* A thread outside the section stays outside, the others do not move.
  <1>2. ASSUME NEW t \in Threads, UNCHANGED barsLock,
               \A u \in Threads : u # t => thread'[u] = thread[u],
               thread'[t].st \notin {"run", "exit"}
        PROVE  BarsOwner'
    BY <1>2 DEF BarsOwner, InBars
  <1>3. ASSUME NEW s \in Slots, Load(s) PROVE BarsOwner'
    BY <1>1, <1>2, <1>3 DEF Load, Typing, TypeOK, ThreadRec
  <1>4. ASSUME NEW s \in Slots, FinishRun(s) PROVE BarsOwner'
    <2>1. slot[s].thread \in Threads
      BY <1>4 DEF FinishRun, Typing, SlotShape
    <2>2. QED
      BY <1>2, <1>4, <2>1 DEF FinishRun, Settle, Typing, TypeOK, IdleThread
  <1>5. ASSUME NEW t \in Threads, StartRunner(t) PROVE BarsOwner'
    <2>1. thread[t].job \in BarsJobs /\ barsLock = Nobody
            => \A u \in Threads : ~InBars(u)
      BY JobsAssumption DEF BarsOwner
    <2>2. QED
      BY <1>5, <2>1 DEF StartRunner, TakeBars, BarsOwner, InBars, Typing, TypeOK, ThreadRec
  <1>6. ASSUME NEW t \in Threads, RunnerEnd(t) PROVE BarsOwner'
    BY <1>6 DEF RunnerEnd, BarsOwner, InBars, Typing, TypeOK, ThreadRec
  <1>7. ASSUME NEW t \in Threads, ExitThread(t) PROVE BarsOwner'
    BY <1>7 DEF ExitThread, BarsOwner, InBars, Typing, TypeOK, ThreadRec
  <1>8. ASSUME NEW t \in Threads, DropValue(t) PROVE BarsOwner'
    BY <1>2, <1>8 DEF DropValue, Typing, TypeOK, IdleThread
  <1>9. CASE WorkerRestart
    BY <1>9 DEF WorkerRestart, BarsOwner, InBars, IdleThread
  <1>10. CASE BarsLockExpires
    BY <1>10 DEF BarsLockExpires, BarsOwner, InBars
  <1>11. ASSUME NEW c \in Callers,
                (\E j \in Jobs : Probe(c, j)) \/ Enqueue(c) \/ CallerCrash(c)
         PROVE  UNCHANGED <<thread, barsLock>>
    BY <1>11 DEF Probe, Enqueue, CallerCrash, CheckMeta, DeleteJobKey,
       DeleteResultKey, RemoveFromQueue, EnqueueJob, Reprobe, IndexJob
  <1>12. ASSUME NEW s \in Slots,
                (\E j \in Jobs : Claim(s, j)) \/ FinishDead(s) \/ Timeout(s)
         PROVE  UNCHANGED <<thread, barsLock>>
    BY <1>12 DEF Claim, FinishDead, Timeout, Settle
  <1>13. ASSUME NEW j \in Jobs, ProgressExpires(j) \/ ResultExpires(j)
         PROVE  UNCHANGED <<thread, barsLock>>
    BY <1>13 DEF ProgressExpires, ResultExpires
  <1>14. QED
    BY <1>1, <1>3, <1>4, <1>5, <1>6, <1>7, <1>8, <1>9, <1>10, <1>11, <1>12, <1>13
    DEF Next, WorkerStep, KeyExpires, vars

\* Bars jobs exclude each other as long as the lock's TTL covers a run.
THEOREM BarsJobsExclude == TtlCoversRun => (Spec => []BarsExclusion)
  <1> SUFFICES ASSUME TtlCoversRun PROVE Spec => []BarsExclusion
    OBVIOUS
  <1>1. Init => Typing /\ BarsOwner
    BY InitTyping DEF Init, BarsOwner, InBars, IdleThread
  <1>2. (Typing /\ BarsOwner) /\ [Next]_vars => (Typing /\ BarsOwner)'
    BY StepTyping, StepBars
  <1>3. Typing /\ BarsOwner => BarsExclusion
    BY DEF BarsOwner, BarsExclusion
  <1>4. QED
    BY <1>1, <1>2, <1>3, PTL DEF Spec

\* Whatever the TTL, a thread leaving the section frees no lock but its own.
THEOREM ReleaseIsOwn == Spec => ReleasesOwnLock
  <1> DEFINE Leaves(t) == thread[t].st = "exit" /\ thread'[t].st = "done" /\ barsLock # t
  <1>1. Typing /\ [Next]_vars => \A t \in Threads : Leaves(t) => barsLock' = barsLock
    <2> SUFFICES ASSUME Typing, [Next]_vars, NEW t \in Threads, Leaves(t)
                 PROVE  barsLock' = barsLock
      OBVIOUS
    <2> USE DEF redis, worker
    <2>1. ASSUME NEW u \in Threads, StartRunner(u) PROVE FALSE
      BY <2>1 DEF StartRunner, TakeBars, Typing, TypeOK, ThreadRec
    <2>2. ASSUME NEW u \in Threads, ExitThread(u) PROVE barsLock' = barsLock
      BY <2>2 DEF ExitThread, Typing, TypeOK, ThreadRec
    <2>3. ASSUME BarsLockExpires PROVE FALSE
      BY <2>3 DEF BarsLockExpires
    <2>4. ASSUME NEW u \in Threads, RunnerEnd(u) \/ DropValue(u)
          PROVE  barsLock' = barsLock
      BY <2>4 DEF RunnerEnd, DropValue
    <2>5. ASSUME NEW s \in Slots,
                 (\E j \in Jobs : Claim(s, j)) \/ Load(s) \/ FinishDead(s)
                   \/ FinishRun(s) \/ Timeout(s)
          PROVE  barsLock' = barsLock
      BY <2>5 DEF Claim, Load, FinishDead, FinishRun, Timeout, Settle
    <2>6. ASSUME NEW c \in Callers,
                 (\E j \in Jobs : Probe(c, j)) \/ Enqueue(c) \/ CallerCrash(c)
          PROVE  barsLock' = barsLock
      BY <2>6 DEF Probe, Enqueue, CallerCrash, CheckMeta, DeleteJobKey,
         DeleteResultKey, RemoveFromQueue, EnqueueJob, Reprobe, IndexJob
    <2>7. ASSUME NEW j \in Jobs, ProgressExpires(j) \/ ResultExpires(j)
          PROVE  barsLock' = barsLock
      BY <2>7 DEF ProgressExpires, ResultExpires
    <2>8. CASE WorkerRestart
      BY <2>8 DEF WorkerRestart
    <2>9. QED
      BY <2>1, <2>2, <2>3, <2>4, <2>5, <2>6, <2>7, <2>8
      DEF Next, WorkerStep, KeyExpires, vars
  <1>2. QED
    BY <1>1, InitTyping, StepTyping, PTL DEF Spec, ReleasesOwnLock

----------------------------------------------------------------------------
(* Accepted ids are indexed: the calls of one caller do not overlap.       *)

OneCaller == \A c, d \in Callers : c = d

\* Nobody else queues the id between the caller's clears and its enqueue, and
\* a coroutine that settles it meanwhile takes it out of every other key: the
\* second probe, reached through a leftover result, never finds it in flight.
Cleared(c) ==
  LET j == target[c] IN
  /\ pc[c] \in {"del_result", "zrem", "enqueue"} => j \notin jobKey
  /\ pc[c] \in {"zrem", "enqueue"} /\ j \in result => j \notin queue \cup progress
  /\ pc[c] = "enqueue" => j \notin queue
  /\ pc[c] = "reprobe" => j \notin queue \cup progress
  /\ pc[c] = "accepted" => j \in meta

ClearedInv == Typing /\ \A c \in Callers : Cleared(c)

\* What the worker and the expiring keys may do to the ids in Redis.
LEMMA WorkerKeeps ==
  ASSUME ClearedInv, UNCHANGED <<pc, target, meta>>,
         jobKey' \subseteq jobKey, queue' \subseteq queue,
         progress' \subseteq progress \cup queue,
         \A j \in result' : j \in result \/ j \notin queue' \cup progress'
  PROVE  \A c \in Callers : Cleared(c)'
  BY DEF ClearedInv, Cleared

LEMMA CallerKeeps ==
  ASSUME OneCaller, ClearedInv, NEW c \in Callers,
         (\E j \in Jobs : Probe(c, j)) \/ Enqueue(c) \/ CallerCrash(c)
  PROVE  \A d \in Callers : Cleared(d)'
  <1> SUFFICES Cleared(c)'
    BY DEF OneCaller
  <1>0. Cleared(c) /\ pc \in [Callers -> Steps] /\ target \in [Callers -> Jobs]
    BY DEF ClearedInv, Typing, TypeOK
  <1> USE DEF redis, worker, Cleared
  <1>1. ASSUME NEW j \in Jobs, Probe(c, j) PROVE Cleared(c)'
    <2>1. pc'[c] \in {"check_meta", "del_job"}
      BY <1>0, <1>1 DEF Probe
    <2> QED
      BY <2>1
  <1>2. CASE CheckMeta(c)
    BY <1>0, <1>2 DEF CheckMeta, Goto
  <1>3. CASE DeleteJobKey(c)
    BY <1>0, <1>3 DEF DeleteJobKey, Goto
  <1>4. CASE DeleteResultKey(c)
    BY <1>0, <1>4 DEF DeleteResultKey, Goto
  <1>5. CASE RemoveFromQueue(c)
    BY <1>0, <1>5 DEF RemoveFromQueue, Goto
  <1>6. CASE EnqueueJob(c)
    BY <1>0, <1>6 DEF EnqueueJob, Goto
  <1>7. CASE Reprobe(c)
    <2>1. target[c] \notin queue \cup progress
      BY <1>0, <1>7 DEF Reprobe, Goto
    <2>2. ~InFlight(target[c])
      BY <2>1 DEF InFlight, Status
    <2> QED
      BY <1>0, <1>7, <2>2 DEF Reprobe, Goto
  <1>8. CASE IndexJob(c)
    BY <1>0, <1>8 DEF IndexJob, Goto
  <1>9. CASE CallerCrash(c)
    BY <1>0, <1>9 DEF CallerCrash
  <1> QED
    BY <1>1, <1>2, <1>3, <1>4, <1>5, <1>6, <1>7, <1>8, <1>9 DEF Enqueue

LEMMA StepCleared ==
  OneCaller /\ ClearedInv /\ [Next]_vars => \A c \in Callers : Cleared(c)'
  <1> SUFFICES ASSUME OneCaller, ClearedInv, [Next]_vars
               PROVE  \A c \in Callers : Cleared(c)'
    OBVIOUS
  <1> USE DEF redis, worker
  <1>1. ASSUME NEW s \in Slots, NEW j \in Jobs, Claim(s, j)
        PROVE  \A c \in Callers : Cleared(c)'
    BY <1>1, WorkerKeeps DEF Claim
  <1>2. ASSUME NEW s \in Slots, FinishDead(s) \/ FinishRun(s) \/ Timeout(s)
        PROVE  \A c \in Callers : Cleared(c)'
    <2>1. Settle(s)
      BY <1>2 DEF FinishDead, FinishRun, Timeout
    <2> QED
      BY <2>1, WorkerKeeps DEF Settle
  <1>3. ASSUME UNCHANGED <<redis, meta, pc, target>>
        PROVE  \A c \in Callers : Cleared(c)'
    BY <1>3, WorkerKeeps
  <1>4. ASSUME NEW s \in Slots, Load(s)
        PROVE  \A c \in Callers : Cleared(c)'
    BY <1>4, WorkerKeeps DEF Load
  <1>5. ASSUME NEW t \in Threads,
               StartRunner(t) \/ RunnerEnd(t) \/ ExitThread(t) \/ DropValue(t)
        PROVE  UNCHANGED <<redis, meta, pc, target>>
    BY <1>5 DEF StartRunner, RunnerEnd, ExitThread, DropValue
  <1>6. CASE WorkerRestart
    BY <1>6, WorkerKeeps DEF WorkerRestart
  <1>7. CASE KeyExpires
    BY <1>3, <1>7, WorkerKeeps DEF KeyExpires, ProgressExpires, ResultExpires,
       BarsLockExpires
  <1>8. CASE UNCHANGED vars
    BY <1>3, <1>8 DEF vars
  <1> QED
    BY <1>1, <1>2, <1>3, <1>4, <1>5, <1>6, <1>7, <1>8, CallerKeeps
    DEF Next, WorkerStep

\* When calls do not overlap, whoever is told an id finds its status, however
\* the worker, its restarts, the expiring keys and the death of an earlier
\* call between enqueueing and indexing come in between.
THEOREM AcceptedVisible == OneCaller => (Spec => []AcceptedIsVisible)
  <1> SUFFICES ASSUME OneCaller PROVE Spec => []AcceptedIsVisible
    OBVIOUS
  <1>1. Init => ClearedInv
    BY InitTyping DEF Init, ClearedInv, Cleared
  <1>2. ClearedInv /\ [Next]_vars => ClearedInv'
    BY StepTyping, StepCleared DEF ClearedInv
  <1>3. ClearedInv => AcceptedIsVisible
    BY DEF ClearedInv, Cleared, AcceptedIsVisible
  <1> QED
    BY <1>1, <1>2, <1>3, PTL DEF Spec

-----------------------------------------------------------------------------
(* OpsJobs implements JobQueue when calls do not overlap. The invariant:    *)
(* the keys of an id agree (KeysAgree), and what a coroutine works on is    *)
(* queued until it is settled (WorkIsQueued). Only the enqueue command      *)
(* asks, only the fetch takes, a restart interrupts; the deletions of a     *)
(* call change nothing that waits.                                          *)

\* Without overlapping calls the keys of an id agree: what is queued has its
\* job key and no result, and a call clears only what is not queued.
KeysAgree ==
  /\ jobKey = queue /\ \A j \in result : j \notin queue
  /\ \A c \in Callers :
       pc[c] \in {"del_job", "del_result", "zrem", "enqueue"} => target[c] \notin queue

\* What a coroutine works on is queued until it is settled, and attempts are
\* counted for what is queued only.
WorkIsQueued ==
  /\ \A s \in Slots : slot[s].job # Nobody => slot[s].job \in queue
  /\ \A j \in Jobs : tries[j] # 0 => j \in queue
  /\ \A s \in Slots :
       /\ slot[s].st # "expired"
       /\ slot[s].st \in {"running", "exhausted"} => tries[slot[s].job] # 0

KeptInv == AttemptInv /\ KeysAgree /\ WorkIsQueued

\* The state of JobQueue, and what each id is in it.
Standing == [j \in Jobs |-> IF \E s \in Slots : HasJob(s, j) THEN "taken"
                            ELSE IF j \in queue THEN "asked" ELSE "none"]

LEMMA StandingOf ==
  ASSUME NEW j \in Jobs
  PROVE  /\ (\E s \in Slots : slot[s].job = j) => Standing[j] = "taken"
         /\ (\A s \in Slots : slot[s].job # j) => Standing[j] = IF j \in queue THEN "asked" ELSE "none"
BY DEF Standing, HasJob

\* The mapping of an unchanged queue and unchanged coroutines is unchanged.
LEMMA StandsStill ==
  ASSUME queue' = queue, \A s \in Slots : slot'[s].job = slot[s].job
  PROVE  Standing' = Standing
BY DEF Standing, HasJob

\* The steps of a call: only EnqueueJob asks for anything.
LEMMA CallAsks ==
  ASSUME OneCaller, KeptInv, NEW c \in Callers,
         (\E j \in Jobs : Probe(c, j)) \/ Enqueue(c) \/ CallerCrash(c)
  PROVE  /\ KeysAgree' /\ WorkIsQueued'
         /\ (\E j \in Jobs : Queue!Ask(j)) \/ UNCHANGED <<Standing, tries>>
<1>0. /\ pc \in [Callers -> Steps] /\ target \in [Callers -> Jobs]
      /\ \A d \in Callers : d = c
  BY DEF OneCaller, KeptInv, AttemptInv, Typing, TypeOK
<1>1. ASSUME UNCHANGED <<queue, worker, tries>>, jobKey' = queue, result' \subseteq result,
             pc'[c] \in {"del_job", "del_result", "zrem", "enqueue"} => target'[c] \notin queue
      PROVE  KeysAgree' /\ WorkIsQueued' /\ UNCHANGED <<Standing, tries>>
  <2>1. KeysAgree' /\ WorkIsQueued'
    BY <1>0, <1>1 DEF KeptInv, KeysAgree, WorkIsQueued, worker
  <2> QED BY <1>1, <2>1, StandsStill DEF worker
<1>2. ASSUME NEW j \in Jobs, Probe(c, j)
      PROVE  KeysAgree' /\ WorkIsQueued' /\ UNCHANGED <<Standing, tries>>
  <2>1. target'[c] = j
    BY <1>0, <1>2 DEF Probe
  <2>2. pc'[c] \in {"del_job", "del_result", "zrem", "enqueue"} => j \notin queue
    <3>1. pc'[c] = IF InFlight(j) THEN "check_meta" ELSE "del_job"
      BY <1>0, <1>2 DEF Probe
    <3>2. ~InFlight(j) => j \notin queue
      BY DEF InFlight, Status, KeptInv, KeysAgree
    <3> QED BY <3>1, <3>2
  <2> QED BY <1>1, <1>2, <2>1, <2>2 DEF Probe, redis, KeptInv, KeysAgree
<1>3. CASE CheckMeta(c)
  BY <1>0, <1>1, <1>3 DEF CheckMeta, Goto, redis, KeptInv, KeysAgree
<1>4. CASE DeleteJobKey(c)
  BY <1>0, <1>1, <1>4 DEF DeleteJobKey, Goto, KeptInv, KeysAgree
<1>5. CASE DeleteResultKey(c)
  BY <1>0, <1>1, <1>5 DEF DeleteResultKey, Goto, KeptInv, KeysAgree
<1>6. CASE RemoveFromQueue(c)
  BY <1>0, <1>1, <1>6 DEF RemoveFromQueue, Goto, KeptInv, KeysAgree
<1>7. CASE Reprobe(c)
  BY <1>0, <1>1, <1>7 DEF Reprobe, Goto, redis, KeptInv, KeysAgree
<1>8. CASE IndexJob(c)
  BY <1>0, <1>1, <1>8 DEF IndexJob, Goto, redis, KeptInv, KeysAgree
<1>9. CASE CallerCrash(c)
  BY <1>0, <1>1, <1>9 DEF CallerCrash, redis, KeptInv, KeysAgree
<1>10. CASE EnqueueJob(c)
  <2>0. PICK j \in Jobs : j = target[c]
    BY <1>0
  <2>1. j \notin queue
    BY <1>0, <1>10, <2>0 DEF EnqueueJob, Goto, KeptInv, KeysAgree
  <2>2. CASE j \in jobKey \cup result
    BY <1>0, <1>1, <1>10, <2>0, <2>2 DEF EnqueueJob, Goto, redis, KeptInv, KeysAgree
  <2>3. CASE j \notin jobKey \cup result
    <3>1. /\ pc'[c] = "index" /\ jobKey' = queue' /\ queue' = queue \cup {j}
          /\ UNCHANGED <<result, tries, worker, target>>
      BY <1>0, <1>10, <2>0, <2>3 DEF EnqueueJob, Goto, KeptInv, KeysAgree
    <3>2. KeysAgree' /\ WorkIsQueued'
      BY <1>0, <2>0, <2>3, <3>1 DEF KeptInv, KeysAgree, WorkIsQueued, worker
    <3>3. \A s \in Slots : slot[s].job # j
      BY <2>1, JobsAssumption DEF KeptInv, WorkIsQueued
    <3>4. Standing[j] = "none" /\ Standing' = [Standing EXCEPT ![j] = "asked"]
      BY <2>1, <3>1, <3>3 DEF Standing, HasJob, worker
    <3>5. Queue!Ask(j)
      BY <3>1, <3>4 DEF Queue!Ask, Queue!Moves, Standing
    <3> QED BY <3>2, <3>5
  <2> QED BY <2>2, <2>3
<1> QED
  BY <1>2, <1>3, <1>4, <1>5, <1>6, <1>7, <1>8, <1>9, <1>10 DEF Enqueue

\* A coroutine that settles its id lets go of it, and had attempted it.
LEMMA SettleLetsGo ==
  ASSUME KeptInv, NEW s \in Slots, Settle(s), slot[s].st \in {"expired", "exhausted", "running"}
  PROVE  KeysAgree' /\ WorkIsQueued' /\ \E j \in Jobs : Queue!LetGo(j)
<1>0. PICK j \in Jobs : j = slot[s].job
  BY DEF KeptInv, AttemptInv, Typing, SlotShape
<1>1. j # Nobody /\ j \in queue /\ tries[j] # 0 /\ tries \in [Jobs -> Nat]
  BY <1>0, JobsAssumption DEF KeptInv, AttemptInv, Typing, TypeOK, SlotShape, WorkIsQueued
<1>2. slot'[s].job = Nobody /\ slot'[s].st = "free" /\ \A r \in Slots : r # s => slot'[r] = slot[r] /\ slot[r].job # j
  BY <1>0, <1>1 DEF Settle, KeptInv, AttemptInv, Typing, TypeOK, FreeSlot, OneAttemptPerJob
<1>3. /\ queue' = queue \ {j} /\ jobKey' = jobKey \ {j} /\ result' = result \cup {j}
      /\ tries' = [tries EXCEPT ![j] = 0] /\ UNCHANGED <<pc, target>>
  BY <1>0 DEF Settle
<1>4. KeysAgree'
  BY <1>3 DEF KeptInv, KeysAgree
<1>5. WorkIsQueued'
  <2>1. \A r \in Slots : r # s /\ slot[r].st \in {"running", "exhausted"} => tries'[slot[r].job] = tries[slot[r].job]
    BY <1>1, <1>2, <1>3 DEF KeptInv, AttemptInv, Typing, SlotShape
  <2>2. \A r \in Slots : slot'[r].job # Nobody => slot'[r].job \in queue'
    BY <1>2, <1>3 DEF KeptInv, WorkIsQueued
  <2>3. \A i \in Jobs : tries'[i] # 0 => i \in queue'
    BY <1>1, <1>3 DEF KeptInv, WorkIsQueued
  <2>4. \A r \in Slots : /\ slot'[r].st # "expired"
                         /\ slot'[r].st \in {"running", "exhausted"} => tries'[slot'[r].job] # 0
    BY <1>2, <2>1 DEF KeptInv, WorkIsQueued
  <2> QED BY <2>2, <2>3, <2>4 DEF WorkIsQueued
<1>6. Standing[j] = "taken"
  BY <1>0, StandingOf
<1>7. Standing' = [Standing EXCEPT ![j] = "none"]
  <2>1. \A i \in Jobs : i # j => ((\E r \in Slots : slot'[r].job = i) <=> (\E r \in Slots : slot[r].job = i))
    BY <1>0, <1>1, <1>2, JobsAssumption
  <2>2. \A r \in Slots : slot'[r].job # j
    BY <1>0, <1>1, <1>2, JobsAssumption
  <2>3. \A i \in Jobs : Standing'[i] = IF i = j THEN "none" ELSE Standing[i]
    BY <1>1, <1>3, <2>1, <2>2 DEF Standing, HasJob
  <2>4. Standing' = [i \in Jobs |-> Standing'[i]] /\ Standing = [i \in Jobs |-> Standing[i]]
    BY DEF Standing
  <2> QED BY <1>1, <2>3, <2>4
<1>8. Queue!LetGo(j)
  <2>1. tries[j] > 0
    BY <1>1
  <2> QED BY <1>3, <1>6, <1>7, <2>1 DEF Queue!LetGo, Queue!Moves, Standing
<1> QED BY <1>4, <1>5, <1>8

\* A claim takes an id, a load begins an attempt or finds none left.
LEMMA WorkTakes ==
  ASSUME KeptInv, NEW s \in Slots, (\E j \in Jobs : Claim(s, j)) \/ Load(s)
  PROVE  /\ KeysAgree' /\ WorkIsQueued'
         /\ \/ \E j \in Jobs : Queue!Take(j) \/ Queue!Attempt(j)
            \/ UNCHANGED <<Standing, tries>>
<1>0. slot \in [Slots -> SlotRec] /\ tries \in [Jobs -> 0..MaxTries] /\ MaxTries \in Nat \ {0}
  BY JobsAssumption DEF KeptInv, AttemptInv, Typing, TypeOK
<1>1. ASSUME NEW j \in Jobs, Claim(s, j)
      PROVE  KeysAgree' /\ WorkIsQueued' /\ Queue!Take(j)
  <2>1. /\ slot'[s].job = j /\ slot'[s].st = "claimed" /\ slot[s].job = Nobody
        /\ \A r \in Slots : r # s => slot'[r] = slot[r]
        /\ j \in queue /\ UNCHANGED <<jobKey, queue, result, tries, pc, target>>
    <3>1. slot' = [slot EXCEPT ![s] = slot'[s]]
      BY <1>0, <1>1 DEF Claim
    <3>2. slot'[s].job = j
      BY <1>0, <1>1 DEF Claim, FreeSlot
    <3>3. slot'[s].st = "claimed"
      BY <1>0, <1>1 DEF Claim, FreeSlot
    <3>4. slot[s].job = Nobody
      <4>1. slot[s] = FreeSlot
        BY <1>1 DEF Claim
      <4> QED BY <4>1 DEF FreeSlot
    <3>5. j \in queue /\ UNCHANGED <<jobKey, queue, result, tries, pc, target>>
      BY <1>1 DEF Claim
    <3> QED BY <1>0, <3>1, <3>2, <3>3, <3>4, <3>5
  <2>2. KeysAgree' /\ WorkIsQueued'
    BY <2>1 DEF KeptInv, KeysAgree, WorkIsQueued
  <2>3. \A r \in Slots : slot[r].job # j
    BY <1>1, JobsAssumption DEF KeptInv, AttemptInv, ClaimsHeld, Claim
  <2>4. Standing[j] = "asked" /\ Standing' = [Standing EXCEPT ![j] = "taken"]
    <3>1. \A i \in Jobs : i # j => ((\E r \in Slots : slot'[r].job = i) <=> (\E r \in Slots : slot[r].job = i))
      BY <2>1, JobsAssumption
    <3> QED BY <2>1, <2>3, <3>1 DEF Standing, HasJob
  <2> QED BY <2>1, <2>2, <2>4 DEF Queue!Take, Queue!Moves, Standing
<1>2. ASSUME Load(s)
      PROVE  /\ KeysAgree' /\ WorkIsQueued'
             /\ (\E j \in Jobs : Queue!Attempt(j)) \/ UNCHANGED <<Standing, tries>>
  <2>0. PICK j \in Jobs : j = slot[s].job
    BY <1>2, JobsAssumption DEF Load, KeptInv, AttemptInv, Typing, SlotShape
  <2>1. j \in queue /\ j \in jobKey /\ slot[s].st = "claimed"
    BY <1>2, <2>0, JobsAssumption DEF Load, KeptInv, WorkIsQueued, KeysAgree
  <2>2. /\ UNCHANGED <<jobKey, result, queue, pc, target>>
        /\ \A r \in Slots : r # s => slot'[r] = slot[r] /\ slot[r].job # j
        /\ slot'[s].job = j
        /\ tries' = [tries EXCEPT ![j] = IF tries[j] < MaxTries THEN tries[j] + 1 ELSE tries[j]]
        /\ \/ tries[j] = MaxTries /\ slot'[s].st = "exhausted"
           \/ tries[j] < MaxTries /\ slot'[s].st = "running"
    <3>1. \A r \in Slots : r # s => slot'[r] = slot[r] /\ slot[r].job # j
      BY <1>2, <2>0, <2>1, JobsAssumption DEF Load, KeptInv, AttemptInv, Typing, TypeOK, OneAttemptPerJob
    <3>2. /\ slot'[s].job = j
          /\ \/ tries[j] = MaxTries /\ slot'[s].st = "exhausted"
             \/ tries[j] < MaxTries /\ slot'[s].st = "running"
      BY <1>0, <1>2, <2>0, <2>1 DEF Load, SlotRec
    <3> QED BY <1>2, <2>0, <3>1, <3>2 DEF Load
  <2>3. tries'[j] # 0 /\ \A i \in Jobs : i # j => tries'[i] = tries[i]
    BY <1>0, <2>1, <2>2
  <2>4. KeysAgree'
    BY <2>2 DEF KeptInv, KeysAgree
  <2>5. WorkIsQueued'
    <3>1. \A r \in Slots : r # s /\ slot[r].st \in {"running", "exhausted"} => slot[r].job \in Jobs
      BY DEF KeptInv, AttemptInv, Typing, SlotShape
    <3> QED BY <2>0, <2>1, <2>2, <2>3, <3>1 DEF KeptInv, WorkIsQueued
  <2>6. Standing' = Standing /\ Standing[j] = "taken"
    BY <2>0, <2>1, <2>2, StandsStill, StandingOf
  <2>7. CASE tries[j] < MaxTries
    <3>1. tries' = [tries EXCEPT ![j] = tries[j] + 1]
      BY <2>2, <2>7
    <3> QED BY <2>1, <2>4, <2>5, <2>6, <2>7, <3>1 DEF Queue!Attempt, Standing
  <2>8. CASE ~(tries[j] < MaxTries)
    <3>1. tries' = tries
      BY <1>0, <2>2, <2>8
    <3> QED BY <2>4, <2>5, <2>6, <3>1
  <2> QED BY <2>7, <2>8
<1> QED BY <1>1, <1>2

\* A restart of the worker puts back what was taken.
LEMMA RestartInterrupts ==
  ASSUME KeptInv, WorkerRestart
  PROVE  KeysAgree' /\ WorkIsQueued' /\ Queue!Interrupt
<1>1. /\ \A s \in Slots : slot'[s].job = Nobody /\ slot'[s].st = "free"
      /\ UNCHANGED <<jobKey, queue, result, tries, pc, target>>
  BY DEF WorkerRestart, FreeSlot
<1>2. KeysAgree' /\ WorkIsQueued'
  BY <1>1 DEF KeptInv, KeysAgree, WorkIsQueued
<1>3. \A j \in Jobs : Standing'[j] = IF Standing[j] = "taken" THEN "asked" ELSE Standing[j]
  <2> SUFFICES ASSUME NEW j \in Jobs
               PROVE  Standing'[j] = IF Standing[j] = "taken" THEN "asked" ELSE Standing[j]
    OBVIOUS
  <2>1. Standing'[j] = IF j \in queue THEN "asked" ELSE "none"
    BY <1>1, JobsAssumption DEF Standing, HasJob
  <2>2. CASE \E s \in Slots : slot[s].job = j
    <3>1. j \in queue
      BY <2>2, JobsAssumption DEF KeptInv, WorkIsQueued
    <3> QED BY <2>1, <2>2, <3>1, StandingOf
  <2>3. CASE \A s \in Slots : slot[s].job # j
    BY <2>1, <2>3, StandingOf
  <2> QED BY <2>2, <2>3
<1>4. Standing' = [j \in Jobs |-> IF Standing[j] = "taken" THEN "asked" ELSE Standing[j]]
  <2>1. Standing' = [j \in Jobs |-> Standing'[j]]
    BY DEF Standing
  <2> QED BY <1>3, <2>1
<1> QED BY <1>1, <1>2, <1>4 DEF Queue!Interrupt, Standing

LEMMA StepKept ==
  OneCaller /\ KeptInv /\ [Next]_vars =>
    KeysAgree' /\ WorkIsQueued' /\ [Queue!QueueNext]_<<Standing, tries>>
<1> SUFFICES ASSUME OneCaller, KeptInv, [Next]_vars
             PROVE  KeysAgree' /\ WorkIsQueued' /\ [Queue!QueueNext]_<<Standing, tries>>
  OBVIOUS
<1> USE DEF Queue!QueueNext
<1>1. ASSUME NEW c \in Callers,
             (\E j \in Jobs : Probe(c, j)) \/ Enqueue(c) \/ CallerCrash(c)
      PROVE  KeysAgree' /\ WorkIsQueued' /\ [Queue!QueueNext]_<<Standing, tries>>
  BY <1>1, CallAsks
<1>2. ASSUME NEW s \in Slots, (\E j \in Jobs : Claim(s, j)) \/ Load(s)
      PROVE  KeysAgree' /\ WorkIsQueued' /\ [Queue!QueueNext]_<<Standing, tries>>
  BY <1>2, WorkTakes
<1>3. ASSUME NEW s \in Slots, FinishDead(s) \/ FinishRun(s) \/ Timeout(s)
      PROVE  KeysAgree' /\ WorkIsQueued' /\ [Queue!QueueNext]_<<Standing, tries>>
  <2>1. Settle(s) /\ slot[s].st \in {"expired", "exhausted", "running"}
    BY <1>3 DEF FinishDead, FinishRun, Timeout
  <2> QED BY <2>1, SettleLetsGo
<1>4. ASSUME UNCHANGED <<jobKey, queue, tries, slot, pc, target>>, result' \subseteq result
      PROVE  KeysAgree' /\ WorkIsQueued' /\ [Queue!QueueNext]_<<Standing, tries>>
  <2>1. KeysAgree' /\ WorkIsQueued'
    BY <1>4 DEF KeptInv, KeysAgree, WorkIsQueued
  <2> QED BY <1>4, <2>1, StandsStill
<1>5. ASSUME NEW t \in Threads,
             StartRunner(t) \/ RunnerEnd(t) \/ ExitThread(t) \/ DropValue(t)
      PROVE  UNCHANGED <<jobKey, queue, tries, slot, pc, target, result>>
  BY <1>5 DEF StartRunner, RunnerEnd, ExitThread, DropValue, redis
<1>6. CASE WorkerRestart
  BY <1>6, RestartInterrupts
<1>7. CASE KeyExpires
  BY <1>4, <1>7 DEF KeyExpires, ProgressExpires, ResultExpires, BarsLockExpires, redis, worker
<1>8. CASE UNCHANGED vars
  BY <1>4, <1>8 DEF vars, redis, worker
<1> QED
  BY <1>1, <1>2, <1>3, <1>4, <1>5, <1>6, <1>7, <1>8 DEF Next, WorkerStep

\* For calls that do not overlap the keys ARQ keeps, which a call deletes one
\* by one and the worker, its restarts and the TTLs delete beside it, are the
\* queue of JobQueue: no id that waits or is at work is lost or asked for again,
\* none is settled without an attempt, and what was accepted has its status.
THEOREM AcceptedKept == OneCaller => (Spec => AcceptedIsKept)
<1> SUFFICES ASSUME OneCaller PROVE Spec => AcceptedIsKept
  OBVIOUS
<1>1. Init => KeptInv /\ Queue!QueueInit
  <2> SUFFICES ASSUME Init PROVE KeptInv /\ Queue!QueueInit
    OBVIOUS
  <2>1. AttemptInv
    BY InitTyping DEF Init, AttemptInv, ClaimsHeld, OneAttemptPerJob, FreeSlot
  <2>2. \A s \in Slots : slot[s].job = Nobody /\ slot[s].st = "free"
    BY DEF Init, FreeSlot
  <2>3. KeysAgree /\ WorkIsQueued
    BY <2>2 DEF Init, KeysAgree, WorkIsQueued
  <2>4. Queue!QueueInit
    BY <2>2, JobsAssumption DEF Init, Queue!QueueInit, HasJob
  <2> QED BY <2>1, <2>3, <2>4 DEF KeptInv
<1>2. KeptInv /\ [Next]_vars => KeptInv'
  BY StepTyping, StepAttempt, StepKept DEF KeptInv, AttemptInv
<1>3. KeptInv /\ [Next]_vars => [Queue!QueueNext]_(Queue!queueVars)
  BY StepKept DEF Queue!queueVars, Standing
<1>4. Spec => []AcceptedIsVisible
  BY AcceptedVisible
<1> QED
  BY <1>1, <1>2, <1>3, <1>4, PTL DEF Spec, AcceptedIsKept, Queue!QueueSpec

-----------------------------------------------------------------------------
(* BarStore: a reader may take the summary of the bars for the bars, for    *)
(* any number of stocks and days and whatever fails. A fill that begins     *)
(* after the last bar held leaves no hole if the bars held, and those it    *)
(* asks for, are all the published ones up to its trade date: the invariant *)
(* knows that a run at work has seen no bar after that date (BarsAreKnown). *)

OverviewRows == [start : Nat, end : Nat, n : Nat]
Fills == [job : FillJobs \cup {"none"}, pool : Seq(Listed), asOf : Nat, good : BOOLEAN, bad : BOOLEAN]

BarTypes ==
    /\ today \in Days /\ published \in BOOLEAN /\ calendar \in BOOLEAN /\ lastRun \in {"never", "ok", "failed"}
    /\ universe \subseteq Listed /\ fails \in 0..MaxFails
    /\ bars \in [Series -> SUBSET Days] /\ overview \in [Series -> OverviewRows]
    /\ fills \in [Intervals -> Fills] /\ \A i \in Intervals : fills[i].asOf <= today

\* The daily bars held are published, and a daily run at work knows of no later
\* ones than its trade date.
BarsAreKnown ==
    /\ \A s \in Listed : bars[<<s, "d">>] \subseteq Published(s)
    /\ fills["d"].job # "fill_focus_pool_minute"
    /\ fills["d"].pool # <<>> => \A s \in Listed : bars[<<s, "d">>] \subseteq 1..fills["d"].asOf

BarInv == BarTypes /\ OverviewTellsBars /\ NoHoles /\ BarsAreKnown

-----------------------------------------------------------------------------
LEMMA BarFacts ==
    /\ MaxDay \in Nat /\ MaxFails \in Nat /\ Lookback \in Nat /\ MinuteWindow \in Nat /\ MaxSymbols \in Nat /\ MaxSymbols > 0
    /\ Days \subseteq Nat /\ IsFiniteSet(Days) /\ Cardinality(Days) = MaxDay /\ OpenDays \subseteq Days /\ 1 \in OpenDays /\ 1 <= MaxDay
    /\ IsFiniteSet(Listed) /\ Focus \subseteq Listed /\ \A s \in Listed : Traded(s) \subseteq OpenDays
<1>1. MaxDay \in Nat /\ MaxFails \in Nat /\ Lookback \in Nat /\ MinuteWindow \in Nat /\ MaxSymbols \in Nat /\ MaxSymbols > 0
      /\ OpenDays \subseteq Days /\ 1 \in OpenDays /\ Focus \subseteq Listed
  BY BarAssumption
<1>2. Days \subseteq Nat /\ 1 <= MaxDay
  BY <1>1 DEF Days
<1>3. IsFiniteSet(Days) /\ Cardinality(Days) = MaxDay
  <2>1. IsFiniteSet(1..MaxDay) /\ Cardinality(1..MaxDay) = IF 1 > MaxDay THEN 0 ELSE MaxDay - 1 + 1
    BY <1>1, FS_Interval
  <2> QED BY <1>1, <1>2, <2>1 DEF Days
<1>4. IsFiniteSet(Listed)
  <2>1. StockOrder \in [1..Len(StockOrder) -> Listed] /\ Len(StockOrder) \in Nat
    BY BarAssumption, LenProperties
  <2>2. IsFiniteSet(1..Len(StockOrder))
    BY <2>1, FS_Interval
  <2>3. IsFiniteSet({StockOrder[n] : n \in 1..Len(StockOrder)})
    <3> HIDE DEF Listed
    <3> DEFINE T == {StockOrder[n] : n \in 1..Len(StockOrder)}
    <3>1. StockOrder \in Surjection(1..Len(StockOrder), T)
      BY <2>1 DEF Surjection
    <3> QED BY <2>2, <3>1, FS_Surjection
  <2>4. Listed = {StockOrder[n] : n \in 1..Len(StockOrder)}
    BY <2>1 DEF Listed, Range
  <2> QED BY <2>3, <2>4
<1>5. \A s \in Listed : Traded(s) \subseteq OpenDays
  BY DEF Traded
<1> QED BY <1>1, <1>2, <1>3, <1>4, <1>5

-----------------------------------------------------------------------------
(* The pools.                                                              *)

\* Some stocks in an order are a list of them.
LEMMA OrderedIsList ==
    ASSUME NEW S, S \subseteq Listed, NEW before, IsOrder(before, S)
    PROVE  Ordered(S, before) \in Seq(Listed)
<1>1. IsFiniteSet(S) /\ Cardinality(S) \in Nat
  BY BarFacts, FS_Subset, FS_CardinalityType
<1>2. ASSUME NEW n \in 1..Cardinality(S)
      PROVE  (CHOOSE s \in S : Cardinality({t \in S : <<t, s>> \in before}) = n - 1) \in S
  <2>1. n - 1 \in Nat /\ n - 1 < Cardinality(S)
    BY <1>1
  <2>2. PICK s \in S : Cardinality(Earlier(S, before, s)) = n - 1
    BY <1>1, <2>1, EveryRankIsTaken
  <2>3. Cardinality({t \in S : <<t, s>> \in before}) = n - 1
    BY <2>2 DEF Earlier
  <2> QED BY <2>3
<1>3. Ordered(S, before) \in [1..Cardinality(S) -> S]
  BY <1>2 DEF Ordered
<1>4. Ordered(S, before) \in Seq(S)
  BY <1>1, <1>3, SeqDef
<1>5. \A q \in Seq(S) : q \in Seq(Listed)
  OBVIOUS
<1> QED BY <1>4, <1>5

LEMMA PlaceIs == ASSUME NEW s \in Listed PROVE Place(s) \in Nat /\ StockOrder[Place(s)] = s
<1>1. \E n \in DOMAIN StockOrder : StockOrder[n] = s
  BY DEF Listed, Range
<1>2. Place(s) \in DOMAIN StockOrder /\ StockOrder[Place(s)] = s
  BY <1>1 DEF Place
<1>3. DOMAIN StockOrder = 1..Len(StockOrder) /\ Len(StockOrder) \in Nat
  BY BarAssumption, LenProperties
<1> QED BY <1>2, <1>3

LEMMA ByPlaceOrders == ASSUME NEW S, S \subseteq Listed PROVE Ordered(S, ByPlace) \in Seq(Listed)
<1>1. \A s, t \in S : <<s, t>> \in ByPlace <=> Place(s) < Place(t)
  BY DEF ByPlace
<1>2. \A s \in S : Place(s) \in Nat /\ StockOrder[Place(s)] = s
  BY PlaceIs
<1>3. IsOrder(ByPlace, S)
  BY <1>1, <1>2 DEF IsOrder
<1> QED BY <1>3, OrderedIsList

LEMMA ByEndOrders == ASSUME BarTypes, NEW S, S \subseteq Listed PROVE Ordered(S, ByEnd) \in Seq(Listed)
<1> DEFINE End(s) == overview[<<s, "d">>].end
<1>1. \A s, t \in S : <<s, t>> \in ByPlace <=> Place(s) < Place(t)
  BY DEF ByPlace
<1>2. \A s \in S : Place(s) \in Nat /\ StockOrder[Place(s)] = s
  BY PlaceIs
<1>3. \A s \in S : End(s) \in Nat
  BY DEF BarTypes, OverviewRows, Series, Intervals
<1>4. \A s, t \in S : <<s, t>> \in ByEnd <=> End(s) < End(t) \/ (End(s) = End(t) /\ <<s, t>> \in ByPlace)
  BY DEF ByEnd
<1>5. IsOrder(ByEnd, S)
  <2> HIDE DEF End
  <2>1. \A s \in S : <<s, s>> \notin ByEnd
    BY <1>1, <1>2, <1>3, <1>4
  <2>2. \A s, t, u \in S : <<s, t>> \in ByEnd /\ <<t, u>> \in ByEnd => <<s, u>> \in ByEnd
    BY ONLY <1>1, <1>2, <1>3, <1>4
  <2>3. \A s, t \in S : s # t => <<s, t>> \in ByEnd \/ <<t, s>> \in ByEnd
    BY ONLY <1>1, <1>2, <1>3, <1>4
  <2> QED BY <2>1, <2>2, <2>3 DEF IsOrder
<1> QED BY <1>5, OrderedIsList

LEMMA TakeIsList == ASSUME NEW q \in Seq(Listed) PROVE Take(q) \in Seq(Listed)
<1>1. Len(q) \in Nat
  BY LenProperties
<1>2. (IF Len(q) > MaxSymbols THEN MaxSymbols ELSE Len(q)) \in 0..Len(q)
  BY <1>1, BarFacts
<1>3. \A n \in 1..(IF Len(q) > MaxSymbols THEN MaxSymbols ELSE Len(q)) : n \in 1..Len(q)
  BY <1>1, BarFacts
<1> QED BY <1>1, <1>2, <1>3, SubSeqProperties DEF Take

LEMMA PoolIsList == ASSUME BarTypes, NEW job \in FillJobs PROVE Pool(job) \in Seq(Listed)
<1>1. FocusPool \in Seq(Listed)
  BY BarFacts, ByPlaceOrders DEF FocusPool
<1>2. StalePool(AsOf) \in Seq(Listed)
  <2>1. {s \in Listed : overview[<<s, "d">>].n > 0 /\ overview[<<s, "d">>].end < AsOf} \subseteq Listed
    OBVIOUS
  <2>2. Ordered({s \in Listed : overview[<<s, "d">>].n > 0 /\ overview[<<s, "d">>].end < AsOf}, ByEnd) \in Seq(Listed)
    BY <2>1, ByEndOrders
  <2> QED BY <2>2, TakeIsList DEF StalePool
<1>3. UniversePool \in Seq(Listed)
  <2>1. {s \in universe : overview[<<s, "d">>].n = 0} \subseteq Listed /\ {s \in universe : overview[<<s, "d">>].start > 1} \subseteq Listed
    BY DEF BarTypes
  <2>2. Missing \in Seq(Listed) /\ Late \in Seq(Listed)
    BY <2>1, ByPlaceOrders DEF Missing, Late
  <2>3. Missing \o Late \in Seq(Listed)
    BY <2>2, ConcatProperties
  <2> QED BY <2>3, TakeIsList DEF UniversePool
<1> QED BY <1>1, <1>2, <1>3, TakeIsList DEF Pool, FillJobs, DailyJobs

-----------------------------------------------------------------------------
(* The days.                                                               *)

LEMMA PublishedIs ==
    ASSUME BarTypes, NEW s \in Listed
    PROVE  /\ Published(s) \subseteq Traded(s) /\ Traded(s) \subseteq Days
           /\ \A t \in Published(s) : t \in OpenDays \cap (1..today)
<1>1. today \in Nat /\ (IF published THEN today ELSE today - 1) <= today /\ (IF published THEN today ELSE today - 1) \in Int
  BY BarFacts DEF BarTypes
<1>2. Traded(s) \subseteq OpenDays /\ OpenDays \subseteq Days /\ Days \subseteq Nat
  BY BarFacts
<1>3. ASSUME NEW t \in Published(s) PROVE t \in Traded(s) /\ t <= today /\ t \in 1..(IF published THEN today ELSE today - 1)
  <2>1. t \in Traded(s) /\ t \in 1..(IF published THEN today ELSE today - 1)
    BY DEF Published
  <2> QED BY <1>1, <2>1
<1>4. ASSUME NEW t \in Published(s) PROVE t \in OpenDays \cap (1..today)
  BY <1>1, <1>2, <1>3
<1> QED BY <1>2, <1>3, <1>4

\* The trade date is not after today, and no open day lies between.
LEMMA AsOfIs == ASSUME BarTypes PROVE AsOf \in Nat /\ AsOf <= today /\ \A t \in OpenDays \cap (1..today) : t <= AsOf
<1>1. today \in Nat /\ today >= 1
  BY BarFacts DEF BarTypes, Days
<1> DEFINE S == OpenDays \cap (1..today)
<1>2. S \subseteq Nat /\ 1 \in S /\ \A t \in S : t <= today
  BY <1>1, BarFacts
<1>3. Max(S) \in S /\ \A t \in S : t <= Max(S)
  <2> HIDE DEF S
  <2> QED BY <1>1, <1>2, MaxIsGreatest
<1>4. CASE calendar
  BY <1>2, <1>3, <1>4 DEF AsOf
<1>5. CASE ~calendar
  BY <1>1, <1>2, <1>5 DEF AsOf
<1> QED BY <1>4, <1>5

\* What a row that tells days not empty is.
LEMMA SummaryIs ==
    ASSUME NEW D, D \subseteq Days, D # {}, NEW row, row = [start |-> Min(D), end |-> Max(D), n |-> Cardinality(D)]
    PROVE  /\ row \in OverviewRows /\ row.n > 0 /\ row.start \in D /\ row.end \in D /\ row.start \in Nat /\ row.end \in Nat
           /\ \A t \in D : row.start <= t /\ t <= row.end
<1>1. D \subseteq Nat /\ IsFiniteSet(D) /\ Cardinality(D) \in Nat /\ Cardinality(D) # 0 /\ \A t \in D : t <= MaxDay
  <2>1. IsFiniteSet(D)
    BY BarFacts, FS_Subset
  <2>2. Cardinality(D) \in Nat /\ Cardinality(D) # 0
    BY <2>1, FS_CardinalityType, FS_EmptySet
  <2> QED BY <2>1, <2>2, BarFacts DEF Days
<1>2. Max(D) \in D /\ \A t \in D : t <= Max(D)
  BY <1>1, BarFacts, MaxIsGreatest
<1>3. Min(D) \in D /\ \A t \in D : Min(D) <= t
  BY <1>1, MinIsLeast
<1>4. Max(D) \in Nat /\ Min(D) \in Nat
  BY <1>1, <1>2, <1>3
<1>5. row.start = Min(D) /\ row.end = Max(D) /\ row.n = Cardinality(D)
  OBVIOUS
<1> QED BY <1>1, <1>2, <1>3, <1>4, <1>5 DEF OverviewRows

\* The days asked for, all those published after the last held or all those of
\* the look-back or since the first, leave no hole among the days held.
LEMMA FillLeavesNoHole ==
    ASSUME NEW T, T \subseteq Nat, NEW A \in Nat, NEW P \in Int, NEW from \in Int, NEW B, NEW D,
           B \subseteq T, \A t \in B : 1 <= t /\ t <= A /\ t <= P,
           D = (from..A) \cap T \cap (1..P),
           NEW lo \in Nat, NEW hi \in Nat, B # {} => \A t \in T : lo <= t /\ t <= hi => t \in B,
           \A t \in B : lo <= t /\ t <= hi,
           B # {} => from <= hi + 1,
           NEW low \in Nat, NEW high \in Nat, low \in B \cup D, high \in B \cup D,
           B = {} => from <= low
    PROVE  \A t \in T : low <= t /\ t <= high => t \in B \cup D
<1> SUFFICES ASSUME NEW t \in T, low <= t, t <= high PROVE t \in B \cup D
  OBVIOUS
<1>1. \A u \in B \cup D : 1 <= u /\ u <= A /\ u <= P
  OBVIOUS
<1>2. t \in Nat /\ 1 <= t /\ t <= A /\ t <= P
  BY <1>1
<1>3. CASE from <= t
  BY <1>2, <1>3
<1>4. CASE t < from
  <2>1. B # {}
    BY <1>4
  <2>2. t <= hi
    BY <1>2, <1>4, <2>1
  <2>3. CASE low \in B
    BY <1>2, <2>1, <2>2, <2>3
  <2>4. CASE low \notin B
    BY <1>2, <1>4, <2>4
  <2> QED BY <2>3, <2>4
<1> QED BY <1>2, <1>3, <1>4

-----------------------------------------------------------------------------
(* The inductive invariant.                                                *)

LEMMA BarStarts == BarInit => BarInv
<1> SUFFICES ASSUME BarInit PROVE BarInv
  OBVIOUS
<1>1. today \in Days /\ published = FALSE /\ calendar = FALSE /\ universe = {} /\ lastRun = "never" /\ fails = 0
      /\ bars = [k \in Series |-> {}] /\ overview = [k \in Series |-> NoRow] /\ fills = [i \in Intervals |-> Idle]
  BY BarAssumption DEF BarInit
<1>2. today >= 0
  BY <1>1, BarFacts
<1>3. NoRow \in OverviewRows /\ NoRow.n = 0
  BY DEF NoRow, OverviewRows
<1>4. Idle \in Fills /\ Idle.asOf = 0 /\ Idle.job = "none" /\ Idle.pool = <<>>
  <2>1. <<>> \in Seq(Listed)
    OBVIOUS
  <2> QED BY <2>1 DEF Idle, Fills
<1>5. \A s \in Listed : <<s, "d">> \in Series
  BY DEF Series, Intervals
<1>6. BarTypes
  <2>1. fails \in 0..MaxFails
    BY <1>1, BarFacts
  <2>2. published \in BOOLEAN /\ calendar \in BOOLEAN
    BY ONLY <1>1
  <2>3. bars \in [Series -> SUBSET Days] /\ overview \in [Series -> OverviewRows]
    BY <1>1, <1>3
  <2>4. fills \in [Intervals -> Fills] /\ \A i \in Intervals : fills[i].asOf <= today
    BY <1>1, <1>2, <1>4
  <2> QED BY <1>1, <2>1, <2>2, <2>3, <2>4 DEF BarTypes
<1>7. OverviewTellsBars
  BY <1>1 DEF OverviewTellsBars
<1>8. NoHoles
  BY <1>1, <1>3, <1>5 DEF NoHoles
<1>9. BarsAreKnown
  BY <1>1, <1>4, <1>5 DEF BarsAreKnown, Intervals
<1> QED BY <1>6, <1>7, <1>8, <1>9 DEF BarInv

\* Published bars stay published: the days pass and today's bars come out.
LEMMA PublishedStays ==
    ASSUME BarTypes, BarTypes', (today' = today /\ (published' = published \/ published')) \/ today' = today + 1
    PROVE  \A s \in Listed : Published(s) \subseteq Published(s)'
<1> DEFINE P == IF published THEN today ELSE today - 1
<1>1. today \in Nat /\ today' \in Nat
  BY BarFacts DEF BarTypes
<1>2. P \in Int /\ P' \in Int /\ P <= P'
  <2>1. CASE today' = today + 1
    BY <1>1, <2>1
  <2>2. CASE today' = today /\ (published' = published \/ published')
    BY <1>1, <2>2
  <2> QED BY <2>1, <2>2
<1>3. ASSUME NEW s \in Listed, NEW t \in Published(s) PROVE t \in Published(s)'
  <2>1. t \in Traded(s) /\ t \in 1..P
    BY DEF Published
  <2>2. t \in 1..P'
    <3> HIDE DEF P
    <3> QED BY <1>2, <2>1
  <2> QED BY <2>1, <2>2 DEF Published
<1> QED BY <1>3

LEMMA ClockKeeps == ASSUME BarInv, NextDay \/ PublishBars \/ SyncCalendar \/ SyncUniverse PROVE BarInv'
<1>1. today \in Nat /\ 1 <= today /\ today <= MaxDay
  BY BarFacts DEF BarInv, BarTypes, Days
<1>2. today' \in Days /\ today <= today' /\ (today' = today \/ today' = today + 1)
  BY <1>1, BarFacts DEF NextDay, PublishBars, SyncCalendar, SyncUniverse, Days
<1>3. published' \in BOOLEAN /\ ((today' = today /\ (published' = published \/ published')) \/ today' = today + 1)
  <2>1. published \in BOOLEAN
    BY ONLY BarInv DEF BarInv, BarTypes
  <2> QED BY <2>1 DEF NextDay, PublishBars, SyncCalendar, SyncUniverse
<1>4. calendar' \in BOOLEAN
  <2>1. calendar \in BOOLEAN
    BY ONLY BarInv DEF BarInv, BarTypes
  <2> QED BY <2>1 DEF NextDay, PublishBars, SyncCalendar, SyncUniverse
<1>5. universe' \subseteq Listed /\ UNCHANGED <<bars, overview, fills, lastRun, fails>>
  BY DEF BarInv, BarTypes, NextDay, PublishBars, SyncCalendar, SyncUniverse
<1>6. \A i \in Intervals : fills[i].asOf \in Nat /\ fills[i].asOf <= today
  BY DEF BarInv, BarTypes, Fills
<1>7. \A i \in Intervals : fills'[i].asOf <= today'
  BY <1>1, <1>2, <1>5, <1>6, BarFacts
<1>8. BarTypes'
  BY <1>2, <1>3, <1>4, <1>5, <1>7 DEF BarInv, BarTypes
<1>9. \A s \in Listed : Published(s) \subseteq Published(s)'
  BY <1>3, <1>8, PublishedStays DEF BarInv
<1>10. OverviewTellsBars'
  BY <1>5 DEF BarInv, OverviewTellsBars
<1>11. NoHoles'
  BY <1>5 DEF BarInv, NoHoles
<1>12. BarsAreKnown'
  BY <1>5, <1>9 DEF BarInv, BarsAreKnown
<1> QED BY <1>8, <1>10, <1>11, <1>12 DEF BarInv

\* A run that begins or ends, or gives a stock up, writes no bars.
LEMMA RunKeeps ==
    ASSUME BarInv, NEW i \in Intervals, NEW run \in Fills, fills' = [fills EXCEPT ![i] = run], run.asOf <= today,
           UNCHANGED <<today, published, calendar, universe, bars, overview>>, lastRun' \in {"never", "ok", "failed"}, fails' \in 0..MaxFails,
           i = "d" => /\ run.job # "fill_focus_pool_minute"
                      /\ run.pool # <<>> => \A s \in Listed : bars[<<s, "d">>] \subseteq 1..run.asOf
    PROVE  BarInv'
<1>1. fills \in [Intervals -> Fills]
  BY DEF BarInv, BarTypes
<1>2. fills' \in [Intervals -> Fills] /\ fills'[i] = run /\ \A j \in Intervals : j # i => fills'[j] = fills[j]
  BY <1>1
<1>3. BarTypes'
  BY <1>2 DEF BarInv, BarTypes
<1>4. OverviewTellsBars'
  BY DEF BarInv, OverviewTellsBars
<1>5. NoHoles'
  BY DEF BarInv, NoHoles
<1>6. \A s \in Listed : Published(s)' = Published(s)
  BY DEF Published
<1>7. BarsAreKnown'
  BY <1>2, <1>6 DEF BarInv, BarsAreKnown, Intervals
<1> QED BY <1>3, <1>4, <1>5, <1>7 DEF BarInv

LEMMA IdleIsFill == Idle \in Fills /\ Idle.asOf = 0 /\ Idle.job = "none" /\ Idle.pool = <<>>
<1>1. <<>> \in Seq(Listed)
  OBVIOUS
<1> QED BY <1>1 DEF Idle, Fills

LEMMA FillBegins ==
    ASSUME NEW f \in Fills, NEW q \in Seq(Listed), NEW j \in FillJobs, NEW n \in Nat
    PROVE  [f EXCEPT !.job = j, !.pool = q, !.asOf = n] \in {g \in Fills : g.asOf = n /\ g.job = j}
BY DEF Fills

LEMMA FillWithFailure ==
    ASSUME NEW f \in Fills, NEW q \in Seq(Listed)
    PROVE  [f EXCEPT !.pool = q, !.bad = TRUE] \in {g \in Fills : g.asOf = f.asOf /\ g.job = f.job}
BY DEF Fills

LEMMA FillWithBars ==
    ASSUME NEW f \in Fills, NEW q \in Seq(Listed), NEW b \in BOOLEAN
    PROVE  [f EXCEPT !.pool = q, !.good = b] \in {g \in Fills : g.asOf = f.asOf /\ g.job = f.job}
BY DEF Fills

LEMMA StartKeeps == ASSUME BarInv, NEW job \in FillJobs, StartFill(job) PROVE BarInv'
<1> DEFINE i == IntervalOf(job)
           run == [Idle EXCEPT !.job = job, !.pool = Pool(job), !.asOf = AsOf]
<1>1. BarTypes /\ i \in Intervals /\ lastRun \in {"never", "ok", "failed"} /\ fails \in 0..MaxFails
  BY DEF BarInv, BarTypes, IntervalOf, Intervals
<1>2. UNCHANGED <<today, published, calendar, universe, bars, overview, fails>>
  BY DEF StartFill
<1>3. CASE job = "batch_download_universe" /\ universe = {}
  <2>1. UNCHANGED fills /\ lastRun' = "failed"
    BY <1>3 DEF StartFill
  <2>2. fills[i] \in Fills /\ fills' = [fills EXCEPT ![i] = fills[i]] /\ fills[i].asOf <= today
    BY <1>1, <2>1 DEF BarTypes
  <2>3. i = "d" => /\ fills[i].job # "fill_focus_pool_minute"
                   /\ fills[i].pool # <<>> => \A s \in Listed : bars[<<s, "d">>] \subseteq 1..fills[i].asOf
    BY DEF BarInv, BarsAreKnown
  <2> HIDE DEF i
  <2> QED BY <1>1, <1>2, <2>1, <2>2, <2>3, RunKeeps
<1>4. CASE ~(job = "batch_download_universe" /\ universe = {})
  <2>1. fills' = [fills EXCEPT ![i] = run] /\ lastRun' = lastRun
    BY <1>4 DEF StartFill
  <2>3. Pool(job) \in Seq(Listed) /\ AsOf \in Nat /\ AsOf <= today
    BY <1>1, PoolIsList, AsOfIs
  <2>4. run \in Fills /\ run.asOf = AsOf /\ run.job = job
    <3>1. [Idle EXCEPT !.job = job, !.pool = Pool(job), !.asOf = AsOf] \in {g \in Fills : g.asOf = AsOf /\ g.job = job}
      <4>1. PICK f \in Fills : f = Idle
        BY IdleIsFill
      <4>2. PICK q \in Seq(Listed), n \in Nat : q = Pool(job) /\ n = AsOf
        BY <2>3
      <4>3. [f EXCEPT !.job = job, !.pool = q, !.asOf = n] \in {g \in Fills : g.asOf = n /\ g.job = job}
        BY ONLY f \in Fills, q \in Seq(Listed), n \in Nat, job \in FillJobs DEF Fills
      <4> QED BY ONLY <4>1, <4>2, <4>3
    <3> QED BY <3>1
  <2>5. i = "d" => run.job # "fill_focus_pool_minute"
    BY <2>4 DEF IntervalOf, DailyJobs
  <2>6. ASSUME NEW s \in Listed, NEW t \in bars[<<s, "d">>] PROVE t \in 1..AsOf
    <3>1. t \in OpenDays \cap (1..today)
      BY <1>1, PublishedIs DEF BarInv, BarsAreKnown
    <3>2. t <= AsOf
      BY <1>1, <3>1, AsOfIs
    <3> QED BY <2>3, <3>1, <3>2
  <2>7. run.asOf <= today
    BY ONLY <2>3, <2>4
  <2> HIDE DEF i, run
  <2> QED BY <1>1, <1>2, <2>1, <2>4, <2>5, <2>6, <2>7, RunKeeps
<1> QED BY <1>3, <1>4

LEMMA FinishKeeps == ASSUME BarInv, NEW i \in Intervals, FinishFill(i) PROVE BarInv'
<1>1. today \in Nat /\ fails \in 0..MaxFails
  BY BarFacts DEF BarInv, BarTypes
<1>2. fills' = [fills EXCEPT ![i] = Idle] /\ UNCHANGED <<today, published, calendar, universe, bars, overview, fails>>
      /\ lastRun' \in {"never", "ok", "failed"}
  BY DEF FinishFill
<1>3. Idle.asOf <= today
  BY <1>1, IdleIsFill
<1> QED BY <1>1, <1>2, <1>3, IdleIsFill, RunKeeps

LEMMA FailKeeps == ASSUME BarInv, NEW i \in Intervals, FillFails(i) PROVE BarInv'
<1> DEFINE run == [fills[i] EXCEPT !.pool = Tail(@), !.bad = TRUE]
<1>1. fills[i] \in Fills /\ fails \in 0..MaxFails /\ lastRun \in {"never", "ok", "failed"} /\ fills[i].asOf <= today
  BY DEF BarInv, BarTypes
<1>2. fills' = [fills EXCEPT ![i] = run] /\ fails' = fails + 1 /\ fails < MaxFails /\ fills[i].pool # <<>>
      /\ UNCHANGED <<today, published, calendar, universe, bars, overview, lastRun>>
  BY DEF FillFails
<1>3. fails' \in 0..MaxFails
  BY ONLY <1>1, <1>2, BarFacts
<1>4. fills[i].pool \in Seq(Listed) /\ Tail(fills[i].pool) \in Seq(Listed)
  BY <1>1, <1>2, HeadTailProperties DEF Fills
<1>6. run \in Fills /\ run.asOf = fills[i].asOf /\ run.job = fills[i].job
  BY <1>1, <1>4, FillWithFailure
<1>7. i = "d" => /\ run.job # "fill_focus_pool_minute"
                 /\ \A s \in Listed : bars[<<s, "d">>] \subseteq 1..run.asOf
  BY <1>2, <1>6 DEF BarInv, BarsAreKnown
<1> HIDE DEF run
<1>8. run.asOf <= today
  BY ONLY <1>1, <1>6
<1> QED BY <1>1, <1>2, <1>3, <1>6, <1>7, <1>8, RunKeeps

\* What a daily run asks for begins after the last bar held, or with the first day.
LEMMA AskedFrom ==
    ASSUME BarInv, NEW s \in Listed, fills["d"].pool # <<>>
    PROVE  LET run == fills["d"]
               row == overview[<<s, "d">>]
           IN  \E from \in Int : /\ Asked(run, s) = from..run.asOf
                                 /\ bars[<<s, "d">>] # {} => from <= row.end + 1
<1> DEFINE run == fills["d"]
           row == overview[<<s, "d">>]
<1>1. run.job # "fill_focus_pool_minute" /\ run.asOf \in Nat
  BY DEF BarInv, BarsAreKnown, BarTypes, Fills, Intervals
<1>2. row \in OverviewRows /\ row.n \in Nat /\ row.end \in Nat
  BY DEF BarInv, BarTypes, Series, Intervals, OverviewRows
<1>3. bars[<<s, "d">>] # {} => row.n # 0
  <2>1. <<s, "d">> \in Series /\ bars[<<s, "d">>] \subseteq Days
    BY DEF BarInv, BarTypes, Series, Intervals
  <2>2. bars[<<s, "d">>] # {} => row = [start |-> Min(bars[<<s, "d">>]), end |-> Max(bars[<<s, "d">>]), n |-> Cardinality(bars[<<s, "d">>])]
    BY <2>1 DEF BarInv, OverviewTellsBars
  <2>3. bars[<<s, "d">>] # {} => row.n > 0
    <3> HIDE DEF row
    <3> QED BY <2>1, <2>2, SummaryIs
  <2> QED BY <2>3, <1>2
<1>4. CASE run.job = "batch_download_universe"
  <2>1. Asked(run, s) = 1..run.asOf
    BY <1>4 DEF Asked
  <2>2. 1 \in Int /\ 1 <= row.end + 1
    BY <1>2
  <2> QED BY <2>1, <2>2
<1>5. CASE run.job # "batch_download_universe"
  <2>1. Asked(run, s) = FillFrom(s, run.asOf)..run.asOf
    BY <1>1, <1>5 DEF Asked
  <2>2. FillFrom(s, run.asOf) = IF row.n = 0 THEN run.asOf - Lookback ELSE row.end + 1
    BY DEF FillFrom
  <2>3. FillFrom(s, run.asOf) \in Int
    BY <1>1, <1>2, <2>2, BarFacts
  <2>4. bars[<<s, "d">>] # {} => FillFrom(s, run.asOf) <= row.end + 1
    BY <1>2, <1>3, <2>2
  <2> QED BY <2>1, <2>3, <2>4
<1> QED BY <1>4, <1>5

LEMMA FillKeeps == ASSUME BarInv, NEW i \in Intervals, FillStock(i) PROVE BarInv'
<1> DEFINE run == fills[i]
           s == Head(run.pool)
           k == <<s, i>>
           days == Asked(run, s) \cap Published(s)
           all == bars[k] \cup days
<1>1. /\ run.pool # <<>> /\ UNCHANGED <<today, published, calendar, universe, lastRun, fails>>
      /\ bars' = [bars EXCEPT ![k] = all]
      /\ overview' = [overview EXCEPT ![k] = IF days = {} THEN @ ELSE Summary(@, days, all)]
      /\ fills' = [fills EXCEPT ![i] = [run EXCEPT !.pool = Tail(@), !.good = @ \/ days # {}]]
  BY DEF FillStock
<1>2. run \in Fills /\ run.asOf \in Nat /\ run.asOf <= today /\ run.pool \in Seq(Listed) /\ run.good \in BOOLEAN
  BY DEF BarInv, BarTypes, Fills
<1>3. s \in Listed /\ Tail(run.pool) \in Seq(Listed)
  BY <1>1, <1>2, HeadTailProperties
<1>4. k \in Series
  BY <1>3 DEF Series
<1>5. Published(s) \subseteq Traded(s) /\ Traded(s) \subseteq Days /\ Days \subseteq Nat
  BY <1>3, PublishedIs, BarFacts DEF BarInv
<1>6. bars[k] \subseteq Days /\ all \subseteq Days /\ days \subseteq Days
  BY <1>4, <1>5 DEF BarInv, BarTypes
<1>7. bars' \in [Series -> SUBSET Days] /\ bars'[k] = all /\ \A q \in Series : q # k => bars'[q] = bars[q]
  BY <1>1, <1>4, <1>6 DEF BarInv, BarTypes
<1>8. overview[k] = IF bars[k] = {} THEN NoRow ELSE [start |-> Min(bars[k]), end |-> Max(bars[k]), n |-> Cardinality(bars[k])]
  BY <1>4 DEF BarInv, OverviewTellsBars
<1>9. /\ overview' \in [Series -> OverviewRows] /\ \A q \in Series : q # k => overview'[q] = overview[q]
      /\ overview'[k] = IF all = {} THEN NoRow ELSE [start |-> Min(all), end |-> Max(all), n |-> Cardinality(all)]
  <2>1. overview \in [Series -> OverviewRows]
    BY DEF BarInv, BarTypes
  <2>2. CASE days = {}
    <3>1. overview' = [overview EXCEPT ![k] = overview[k]] /\ all = bars[k]
      BY <1>1, <2>2
    <3> HIDE DEF k, all
    <3> QED BY <1>4, <1>8, <2>1, <3>1
  <2>3. CASE days # {}
    <3>1. overview' = [overview EXCEPT ![k] = [start |-> Min(all), end |-> Max(all), n |-> Cardinality(all)]]
      BY <1>1, <2>3 DEF Summary
    <3>2. all # {}
      BY <2>3
    <3>3. [start |-> Min(all), end |-> Max(all), n |-> Cardinality(all)] \in OverviewRows
      <4> HIDE DEF all
      <4> QED BY <1>6, <3>2, SummaryIs
    <3> HIDE DEF k, all
    <3> QED BY <1>4, <2>1, <3>1, <3>2, <3>3
  <2> QED BY <2>2, <2>3
<1>10. PICK r \in Fills : fills' = [fills EXCEPT ![i] = r] /\ r.asOf = run.asOf /\ r.job = run.job
  <2>1. PICK g \in BOOLEAN : g = (run.good \/ days # {})
    OBVIOUS
  <2>2. fills' = [fills EXCEPT ![i] = [run EXCEPT !.pool = Tail(run.pool), !.good = g]]
    BY ONLY <1>1, <2>1
  <2>3. [run EXCEPT !.pool = Tail(run.pool), !.good = g] \in {f \in Fills : f.asOf = run.asOf /\ f.job = run.job}
    <3> HIDE DEF run
    <3> QED BY <1>2, <1>3, FillWithBars
  <2> QED BY <2>2, <2>3
<1>11. fills' \in [Intervals -> Fills] /\ fills'[i] = r /\ \A j \in Intervals : j # i => fills'[j] = fills[j]
  BY <1>10 DEF BarInv, BarTypes
<1>12. BarTypes'
  <2>1. \A j \in Intervals : fills'[j].asOf <= today
    BY <1>2, <1>10, <1>11 DEF BarInv, BarTypes
  <2> QED BY <1>1, <1>7, <1>9, <1>11, <2>1 DEF BarInv, BarTypes
<1>13. OverviewTellsBars'
  BY <1>7, <1>9 DEF BarInv, OverviewTellsBars
<1>14. \A t \in Listed : Published(t)' = Published(t)
  BY <1>1 DEF Published
<1>15. CASE i # "d"
  <2>1. \A t \in Listed : <<t, "d">> \in Series /\ <<t, "d">> # k
    BY <1>15 DEF Series, Intervals
  <2>2. \A t \in Listed : bars'[<<t, "d">>] = bars[<<t, "d">>] /\ overview'[<<t, "d">>] = overview[<<t, "d">>]
    BY <1>7, <1>9, <2>1
  <2>3. fills'["d"] = fills["d"]
    BY <1>11, <1>15 DEF Intervals
  <2>4. NoHoles'
    BY <2>2 DEF BarInv, NoHoles
  <2>5. BarsAreKnown'
    BY <1>14, <2>2, <2>3 DEF BarInv, BarsAreKnown
  <2> QED BY <1>12, <1>13, <2>4, <2>5 DEF BarInv
<1>16. CASE i = "d"
  <2>1. \A t \in Listed : <<t, "d">> \in Series /\ (t # s => <<t, "d">> # k) /\ k = <<s, "d">>
    BY <1>16 DEF Series, Intervals
  <2>2. \A t \in Listed : t # s => bars'[<<t, "d">>] = bars[<<t, "d">>] /\ overview'[<<t, "d">>] = overview[<<t, "d">>]
    BY <1>7, <1>9, <2>1
  <2>3. bars[k] \subseteq Published(s) /\ bars[k] \subseteq 1..run.asOf
    BY <1>1, <1>3, <1>16 DEF BarInv, BarsAreKnown
  <2>4. PICK from \in Int : Asked(run, s) = from..run.asOf /\ (bars[k] # {} => from <= overview[k].end + 1)
    BY <1>1, <1>3, <1>16, AskedFrom
  <2>5. all \subseteq 1..run.asOf /\ all \subseteq Published(s)
    <3>1. \A t \in Days : t >= 1
      BY BarFacts DEF Days
    <3>2. days \subseteq Published(s) /\ days \subseteq 1..run.asOf
      <4>1. \A t \in from..run.asOf : t \in Days => t \in 1..run.asOf
        BY <1>2, <1>5, <3>1
      <4> QED BY <1>6, <2>4, <4>1
    <3> QED BY <2>3, <3>2
  <2>6. BarsAreKnown'
    <3>1. \A t \in Listed : bars'[<<t, "d">>] \subseteq Published(t)
      BY <1>3, <1>7, <2>1, <2>2, <2>5 DEF BarInv, BarsAreKnown
    <3>2. \A t \in Listed : bars'[<<t, "d">>] \subseteq 1..run.asOf
      BY <1>1, <1>7, <1>16, <2>1, <2>2, <2>5 DEF BarInv, BarsAreKnown
    <3>3. fills'["d"] = r /\ r.asOf = run.asOf /\ r.job # "fill_focus_pool_minute"
      BY <1>10, <1>11, <1>16 DEF BarInv, BarsAreKnown
    <3> QED BY <1>14, <3>1, <3>2, <3>3 DEF BarsAreKnown
  <2>7. ASSUME overview'[k].n > 0
        PROVE  Traded(s) \cap (overview'[k].start..overview'[k].end) \subseteq all
    <3> DEFINE P == IF published THEN today ELSE today - 1
               T == Traded(s)
               B == bars[k]
               lo == overview[k].start
               hi == overview[k].end
               low == overview'[k].start
               high == overview'[k].end
    <3>1. all # {}
      BY <1>9, <2>7 DEF NoRow
    <3>2. low \in all /\ high \in all /\ low \in Nat /\ high \in Nat
      <4>1. overview'[k] = [start |-> Min(all), end |-> Max(all), n |-> Cardinality(all)]
        BY <1>9, <3>1
      <4> HIDE DEF all, k
      <4> QED BY <1>6, <3>1, <4>1, SummaryIs
    <3>3. P \in Int /\ T \subseteq Nat
      <4>1. today \in Nat
        BY BarFacts DEF BarInv, BarTypes
      <4>2. P \in Int
        BY ONLY <4>1
      <4> QED BY <1>5, <4>2
    <3>4. Published(s) = T \cap (1..P)
      BY DEF Published
    <3>5. days = (from..run.asOf) \cap T \cap (1..P)
      BY <2>4, <3>4
    <3>6. B \subseteq T /\ \A t \in B : 1 <= t /\ t <= run.asOf /\ t <= P
      BY <1>2, <2>3, <3>3, <3>4
    <3>7. lo \in Nat /\ hi \in Nat
      BY <1>4 DEF BarInv, BarTypes, OverviewRows
    <3>8. (\A t \in B : lo <= t /\ t <= hi) /\ (B # {} => overview[k].n > 0)
      <4>1. CASE B # {}
        <5>1. overview[k] = [start |-> Min(B), end |-> Max(B), n |-> Cardinality(B)]
          BY <1>8, <4>1
        <5> HIDE DEF k, B
        <5> QED BY <1>6, <4>1, <5>1, SummaryIs DEF B
      <4> QED BY <4>1
    <3>9. B # {} => \A t \in T : lo <= t /\ t <= hi => t \in B
      <4>1. B # {} => T \cap (lo..hi) \subseteq B
        BY <1>3, <2>1, <3>8 DEF BarInv, NoHoles
      <4> QED BY <3>3, <3>7, <4>1
    <3>10. B = {} => from <= low
      BY <1>2, <3>2, <3>5
    <3>11. \A t \in T : low <= t /\ t <= high => t \in B \cup days
      <4>1. B # {} => from <= hi + 1
        BY <2>4
      <4>2. low \in B \cup days /\ high \in B \cup days /\ low \in Nat /\ high \in Nat
        BY <3>2
      <4>3. run.asOf \in Nat /\ from \in Int
        BY <1>2
      <4>4. \A t \in B : lo <= t /\ t <= hi
        BY <3>8
      <4> HIDE DEF P, T, B, lo, hi, low, high, days, all, k, run
      <4> QED BY ONLY <3>3, <3>5, <3>6, <3>7, <3>9, <3>10, <4>1, <4>2, <4>3, <4>4, FillLeavesNoHole
    <3> QED BY <3>2, <3>3, <3>11
  <2>8. NoHoles'
    BY <1>7, <2>1, <2>2, <2>7 DEF BarInv, NoHoles
  <2> QED BY <1>12, <1>13, <2>6, <2>8 DEF BarInv
<1> QED BY <1>15, <1>16

LEMMA BarIsInductive == BarInv /\ [BarNext]_barVars => BarInv'
<1> SUFFICES ASSUME BarInv, [BarNext]_barVars PROVE BarInv'
  OBVIOUS
<1>1. CASE NextDay \/ PublishBars \/ SyncCalendar \/ SyncUniverse
  BY <1>1, ClockKeeps
<1>2. CASE \E j \in FillJobs : StartFill(j)
  BY <1>2, StartKeeps
<1>3. CASE FillDaily \/ FillMinutes
  BY <1>3, FillKeeps DEF FillDaily, FillMinutes, Intervals
<1>4. CASE \E i \in Intervals : FillFails(i) \/ FinishFill(i)
  BY <1>4, FailKeeps, FinishKeeps
<1>5. CASE UNCHANGED barVars
  <2>1. UNCHANGED <<today, published, calendar, universe, bars, overview, fills, lastRun, fails>>
    BY <1>5 DEF barVars
  <2>2. BarTypes' /\ OverviewTellsBars' /\ NoHoles'
    BY <2>1 DEF BarInv, BarTypes, OverviewTellsBars, NoHoles
  <2>3. \A s \in Listed : Published(s)' = Published(s)
    BY <2>1 DEF Published
  <2>4. BarsAreKnown'
    BY <2>1, <2>3 DEF BarInv, BarsAreKnown
  <2> QED BY <2>2, <2>4 DEF BarInv
<1> QED BY <1>1, <1>2, <1>3, <1>4, <1>5 DEF BarNext

LEMMA BarInvSuffices == BarInv => OverviewSuffices
<1> SUFFICES ASSUME BarInv PROVE OverviewSuffices
  OBVIOUS
<1>1. ASSUME NEW k \in Series PROVE overview[k].n \in 0..MaxDay
  <2>1. bars[k] \subseteq Days /\ IsFiniteSet(bars[k])
    BY BarFacts, FS_Subset DEF BarInv, BarTypes
  <2>2. Cardinality(bars[k]) \in Nat /\ Cardinality(bars[k]) <= MaxDay
    BY <2>1, BarFacts, FS_Subset, FS_CardinalityType
  <2>3. overview[k] = IF bars[k] = {} THEN NoRow ELSE [start |-> Min(bars[k]), end |-> Max(bars[k]), n |-> Cardinality(bars[k])]
    BY DEF BarInv, OverviewTellsBars
  <2>4. overview[k].n = 0 \/ overview[k].n = Cardinality(bars[k])
    BY <2>3 DEF NoRow
  <2> QED BY <2>2, <2>4, BarFacts
<1>2. ASSUME NEW i \in Intervals PROVE Range(fills[i].pool) \subseteq Listed /\ fills[i].asOf \in 0..today
  <2>1. fills[i].pool \in Seq(Listed) /\ fills[i].asOf \in Nat /\ fills[i].asOf <= today
    BY DEF BarInv, BarTypes, Fills
  <2>2. \A n \in DOMAIN fills[i].pool : fills[i].pool[n] \in Listed
    BY <2>1, ElementOfSeq, LenProperties
  <2>3. today \in Nat
    BY BarFacts DEF BarInv, BarTypes
  <2> QED BY <2>1, <2>2, <2>3 DEF Range
<1>3. BarTypeOK
  BY <1>1, <1>2 DEF BarInv, BarTypes, BarTypeOK
<1> QED BY <1>3 DEF BarInv, OverviewSuffices

\* The summary of the bars (dbbaroverview) always tells their range and number,
\* and between the first and the last daily bar none is missing, for any number
\* of stocks, days and fills, whatever fails in between.
THEOREM OverviewIsEnough == BarSpec => []OverviewSuffices
<1>1. BarSpec => []BarInv
  BY BarStarts, BarIsInductive, PTL DEF BarSpec
<1> QED BY <1>1, BarInvSuffices, PTL

-----------------------------------------------------------------------------
(* QuotePipeline: what a browser is told to reload is written and the       *)
(* ranking is of the round announced. The invariant says where the writer   *)
(* stands in its round (WriterAt) and that the hub has heard only of rounds *)
(* that are written (HubInv).                                               *)

\* Rounds of which every stock has a hash of that round or of a later one.
WrittenRounds == {k \in 1..quoteSeq : \A s \in rounds[k] : hashes[s] >= k}

LoopTypeOK ==
    /\ redisUp \in BOOLEAN /\ quoteFaults \in 0..MaxQuoteFaults
    /\ collector \in {"connect", "begin", "fetch", "sleep", "backoff"} \cup WriteStages
    /\ fetched \subseteq Stocks
    /\ heartbeat \in BOOLEAN /\ forceEvent \in BOOLEAN /\ owed \in BOOLEAN
    /\ forceListeners \in Nat /\ forceCmds \in Nat /\ forcesSent \in 0..MaxForces
    /\ hubListening \in BOOLEAN /\ sockets \subseteq Sockets

DataTypeOK ==
    /\ quoteSeq \in 0..MaxRounds /\ announced \in 0..quoteSeq
    /\ hashes \in [Stocks -> 0..quoteSeq] /\ ranks \subseteq Stocks
    /\ rounds \in Seq(SUBSET Stocks) /\ Len(rounds) = quoteSeq

\* Where the writer stands tells what of its round is in Redis.
WriterAt ==
    /\ collector = "incr" => quoteSeq < MaxRounds
    /\ collector \in {"hset", "delete", "zadd", "publish"} =>
           quoteSeq > 0 /\ announced < quoteSeq /\ rounds[quoteSeq] = fetched
    /\ collector \in {"delete", "zadd", "publish"} => quoteSeq \in WrittenRounds
    /\ collector = "zadd" => ranks = {}
    /\ collector = "publish" => ranks = fetched

\* The hub has only heard of rounds that are written.
HubInv ==
    /\ hubInbox \in Seq(WrittenRounds)
    /\ casts \subseteq [seq : WrittenRounds, todo : SUBSET Sockets]
    /\ told \in [Sockets -> WrittenRounds \cup {0}]

QuoteInv == LoopTypeOK /\ DataTypeOK /\ WriterAt /\ RankingMatchesRound /\ HubInv

LEMMA QuoteStarts == QuoteInit => QuoteInv
<1> SUFFICES ASSUME QuoteInit PROVE QuoteInv
  OBVIOUS
<1> USE QuoteAssumption
<1>1. LoopTypeOK
  <2>1. redisUp \in BOOLEAN /\ heartbeat \in BOOLEAN /\ forceEvent \in BOOLEAN /\ owed \in BOOLEAN /\ hubListening \in BOOLEAN
    BY DEF QuoteInit
  <2>2. /\ quoteFaults = 0 /\ forceListeners = 0 /\ forceCmds = 0 /\ forcesSent = 0
        /\ collector = "connect" /\ fetched = {} /\ sockets = {}
    BY DEF QuoteInit
  <2>3. quoteFaults \in 0..MaxQuoteFaults /\ forceListeners \in Nat /\ forceCmds \in Nat /\ forcesSent \in 0..MaxForces
    BY ONLY <2>2, QuoteAssumption
  <2> QED BY <2>1, <2>2, <2>3 DEF LoopTypeOK
<1>2. DataTypeOK
  BY DEF QuoteInit, DataTypeOK
<1>3. WriterAt /\ RankingMatchesRound
  BY DEF QuoteInit, WriterAt, RankingMatchesRound
<1>4. HubInv
  BY DEF QuoteInit, HubInv
<1> QED BY <1>1, <1>2, <1>3, <1>4 DEF QuoteInv

\* What is written stays written.
LEMMA WrittenStays ==
    ASSUME DataTypeOK, quoteSeq' \in Nat, quoteSeq <= quoteSeq',
           \A k \in 1..quoteSeq : rounds'[k] = rounds[k],
           \A s \in Stocks : hashes'[s] \in Nat /\ hashes[s] <= hashes'[s]
    PROVE  WrittenRounds \subseteq WrittenRounds'
<1>1. quoteSeq \in Nat /\ \A k \in 1..quoteSeq : rounds[k] \subseteq Stocks
  BY DEF DataTypeOK
<1>2. \A s \in Stocks : hashes[s] \in Nat
  BY DEF DataTypeOK
<1>3. ASSUME NEW k \in WrittenRounds PROVE k \in WrittenRounds'
  <2>1. k \in Nat /\ k \in 1..quoteSeq /\ k \in 1..quoteSeq' /\ \A s \in rounds[k] : hashes[s] >= k
    BY <1>1, <1>3 DEF WrittenRounds
  <2>2. \A s \in rounds'[k] : hashes'[s] >= k
    BY <1>1, <1>2, <2>1
  <2> QED BY <2>1, <2>2 DEF WrittenRounds
<1> QED BY <1>3

LEMMA HubKeeps ==
    ASSUME HubInv, WrittenRounds \subseteq WrittenRounds', UNCHANGED <<hubInbox, casts, told>>
    PROVE  HubInv'
BY DEF HubInv

\* The commands of the writer's pipeline.
LEMMA WriterKeeps ==
    ASSUME QuoteInv, RaiseSeq \/ WriteHashes \/ DropRanks \/ FillRanks \/ Publish
    PROVE  DataTypeOK' /\ WriterAt' /\ RankingMatchesRound' /\ HubInv'
<1>0. LoopTypeOK /\ DataTypeOK /\ WriterAt /\ RankingMatchesRound /\ HubInv
  BY DEF QuoteInv
<1>1. /\ quoteSeq \in Nat /\ MaxRounds \in Nat /\ quoteSeq <= MaxRounds /\ announced \in Nat /\ announced <= quoteSeq
      /\ rounds \in Seq(SUBSET Stocks) /\ Len(rounds) = quoteSeq
      /\ \A k \in 1..quoteSeq : rounds[k] \subseteq Stocks
      /\ \A s \in Stocks : hashes[s] \in Nat /\ hashes[s] <= quoteSeq
  BY <1>0, QuoteAssumption DEF DataTypeOK
<1>f. fetched \subseteq Stocks
  BY <1>0 DEF LoopTypeOK
<1>2. CASE RaiseSeq
  <2>1. /\ collector = "incr" /\ collector' = "hset" /\ quoteSeq' = quoteSeq + 1 /\ rounds' = Append(rounds, fetched)
        /\ UNCHANGED <<fetched, hashes, ranks, announced, hubInbox, casts, told>>
    BY <1>2 DEF RaiseSeq, Command, hubVars
  <2>2. quoteSeq < MaxRounds
    BY <1>0, <2>1 DEF WriterAt
  <2>3. /\ rounds' \in Seq(SUBSET Stocks) /\ Len(rounds') = quoteSeq + 1 /\ rounds'[quoteSeq + 1] = fetched
        /\ \A k \in 1..quoteSeq : rounds'[k] = rounds[k]
    BY <1>1, <1>f, <2>1
  <2>4. DataTypeOK'
    <3>1. hashes \in [Stocks -> 0..(quoteSeq + 1)] /\ ranks \subseteq Stocks
      BY <1>0, <1>1 DEF DataTypeOK
    <3> QED BY <1>1, <2>1, <2>2, <2>3, <3>1 DEF DataTypeOK
  <2>5. WrittenRounds \subseteq WrittenRounds'
    BY <1>0, <1>1, <2>1, <2>3, WrittenStays
  <2>6. HubInv'
    BY <1>0, <2>1, <2>5, HubKeeps
  <2>7. WriterAt'
    BY <1>1, <2>1, <2>3 DEF WriterAt
  <2>8. RankingMatchesRound'
    BY <1>0, <1>1, <2>1 DEF RankingMatchesRound
  <2> QED BY <2>4, <2>6, <2>7, <2>8
<1>3. CASE WriteHashes
  <2>1. /\ collector = "hset" /\ collector' = "delete"
        /\ hashes' = [s \in Stocks |-> IF s \in fetched THEN quoteSeq ELSE hashes[s]]
        /\ UNCHANGED <<fetched, quoteSeq, ranks, rounds, announced, hubInbox, casts, told>>
    BY <1>3 DEF WriteHashes, Command, hubVars
  <2>2. quoteSeq > 0 /\ announced < quoteSeq /\ rounds[quoteSeq] = fetched
    BY <1>0, <2>1 DEF WriterAt
  <2>3. \A s \in Stocks : hashes'[s] \in Nat /\ hashes[s] <= hashes'[s] /\ hashes'[s] <= quoteSeq
    BY <1>1, <2>1
  <2>4. \A s \in fetched : hashes'[s] = quoteSeq
    BY <1>f, <2>1
  <2>5. DataTypeOK'
    <3>1. hashes' \in [Stocks -> 0..quoteSeq]
      BY <1>1, <2>1
    <3> QED BY <1>0, <2>1, <3>1 DEF DataTypeOK
  <2>6. WrittenRounds \subseteq WrittenRounds'
    BY <1>0, <1>1, <2>1, <2>3, WrittenStays
  <2>7. HubInv'
    BY <1>0, <2>1, <2>6, HubKeeps
  <2>8. quoteSeq \in WrittenRounds'
    BY <1>1, <2>1, <2>2, <2>4 DEF WrittenRounds
  <2>9. WriterAt'
    BY <2>1, <2>2, <2>8 DEF WriterAt
  <2>10. RankingMatchesRound'
    <3>1. \A k \in ranks : k \in Stocks /\ hashes[k] > 0
      BY <1>0 DEF RankingMatchesRound, DataTypeOK
    <3>2. \A k \in ranks : hashes'[k] > 0
      BY <1>1, <2>3, <3>1
    <3> QED BY <1>1, <2>1, <2>2, <3>2 DEF RankingMatchesRound
  <2> QED BY <2>5, <2>7, <2>9, <2>10
<1>4. CASE DropRanks \/ FillRanks
  <2>1. /\ UNCHANGED <<fetched, quoteSeq, hashes, rounds, announced, hubInbox, casts, told>>
        /\ \/ collector = "delete" /\ collector' = "zadd" /\ ranks' = {}
           \/ collector = "zadd" /\ collector' = "publish" /\ ranks' = ranks \cup fetched
    BY <1>4 DEF DropRanks, FillRanks, Command, hubVars
  <2>2. quoteSeq > 0 /\ announced < quoteSeq /\ rounds[quoteSeq] = fetched /\ quoteSeq \in WrittenRounds
    BY <1>0, <2>1 DEF WriterAt
  <2>3. ranks' = {} \/ ranks' = fetched
    BY <1>0, <2>1 DEF WriterAt
  <2>4. WrittenRounds' = WrittenRounds
    BY <2>1 DEF WrittenRounds
  <2>5. DataTypeOK' /\ HubInv'
    BY <1>0, <1>f, <2>1, <2>3, <2>4 DEF DataTypeOK, HubInv
  <2>6. WriterAt'
    BY <1>0, <2>1, <2>2, <2>4 DEF WriterAt
  <2>7. RankingMatchesRound'
    <3>1. \A s \in fetched : hashes[s] > 0
      BY <1>1, <1>f, <2>2 DEF WrittenRounds
    <3> QED BY <1>1, <2>1, <2>2, <2>3, <3>1 DEF RankingMatchesRound
  <2> QED BY <2>5, <2>6, <2>7
<1>5. CASE Publish
  <2>1. /\ collector = "publish" /\ collector' = "sleep" /\ announced' = quoteSeq /\ hubInbox' = Heard(quoteSeq)
        /\ UNCHANGED <<quoteSeq, hashes, ranks, rounds, casts, told>>
    BY <1>5 DEF Publish
  <2>2. quoteSeq > 0 /\ rounds[quoteSeq] = fetched /\ quoteSeq \in WrittenRounds /\ ranks = fetched
    BY <1>0, <2>1 DEF WriterAt
  <2>3. WrittenRounds' = WrittenRounds
    BY <2>1 DEF WrittenRounds
  <2>4. hubInbox' \in Seq(WrittenRounds)
    BY <1>0, <2>1, <2>2 DEF Heard, HubInv
  <2>5. HubInv'
    BY <1>0, <2>1, <2>3, <2>4 DEF HubInv
  <2>6. DataTypeOK'
    BY <1>0, <1>1, <2>1 DEF DataTypeOK
  <2>7. WriterAt' /\ RankingMatchesRound'
    BY <1>0, <2>1, <2>2 DEF WriterAt, RankingMatchesRound
  <2> QED BY <2>5, <2>6, <2>7
<1> QED BY <1>2, <1>3, <1>4, <1>5

\* The loop, the force command and the faults.
LEMMA LoopTyped == ASSUME QuoteInv, QuoteNext PROVE LoopTypeOK'
<1> USE DEF QuoteNext, CollectorStep, HubStep, Connect, BeginRound, Fetch, RoundFails, RaiseSeq, WriteHashes, DropRanks,
            FillRanks, Command, Publish, Wake, ForceCollect, HearForce, Register, Unregister, HearQuotes, CastEnds, Send,
            RedisFails, RedisReturns, CollectorRestarts, quoteEnv, hubVars, forceVars
<1>0. LoopTypeOK /\ QuoteAssumption
  BY QuoteAssumption DEF QuoteInv
<1>1. /\ redisUp' \in BOOLEAN /\ heartbeat' \in BOOLEAN /\ forceEvent' \in BOOLEAN /\ owed' \in BOOLEAN
      /\ hubListening' \in BOOLEAN
  <2>1. redisUp \in BOOLEAN /\ heartbeat \in BOOLEAN /\ forceEvent \in BOOLEAN /\ owed \in BOOLEAN /\ hubListening \in BOOLEAN
    BY <1>0 DEF LoopTypeOK
  <2>2. redisUp' \in BOOLEAN
    BY <2>1
  <2>3. heartbeat' \in BOOLEAN
    BY <2>1
  <2>4. forceEvent' \in BOOLEAN /\ owed' \in BOOLEAN
    BY <2>1
  <2>5. hubListening' \in BOOLEAN
    BY <2>1
  <2> QED BY <2>2, <2>3, <2>4, <2>5
<1>2. quoteFaults' \in 0..MaxQuoteFaults /\ forcesSent' \in 0..MaxForces /\ forceListeners' \in Nat /\ forceCmds' \in Nat
  <2>0. /\ quoteFaults \in 0..MaxQuoteFaults /\ forcesSent \in 0..MaxForces /\ forceListeners \in Nat /\ forceCmds \in Nat
        /\ MaxQuoteFaults \in Nat /\ MaxForces \in Nat
    BY <1>0 DEF LoopTypeOK, QuoteAssumption
  <2>1. quoteFaults' = quoteFaults \/ (quoteFaults < MaxQuoteFaults /\ quoteFaults' = quoteFaults + 1)
    OBVIOUS
  <2>2. forcesSent' = forcesSent \/ (forcesSent < MaxForces /\ forcesSent' = forcesSent + 1)
    OBVIOUS
  <2>3. forceListeners' \in {forceListeners, 0, forceListeners + 1} \/ forceListeners' \in 0..forceListeners
    OBVIOUS
  <2>4. forceCmds' \in {forceCmds, 0, forceCmds + forceListeners} \/ (forceCmds > 0 /\ forceCmds' = forceCmds - 1)
    OBVIOUS
  <2> QED BY ONLY <2>0, <2>1, <2>2, <2>3, <2>4
<1>3. collector' \in {"connect", "begin", "fetch", "sleep", "backoff"} \cup WriteStages
  BY <1>0 DEF LoopTypeOK, WriteStages
<1>4. fetched' \subseteq Stocks /\ sockets' \subseteq Sockets
  BY <1>0 DEF LoopTypeOK
<1> QED BY <1>1, <1>2, <1>3, <1>4 DEF LoopTypeOK

LEMMA LoopKeeps ==
    ASSUME QuoteInv,
           \/ Connect \/ BeginRound \/ Fetch \/ RoundFails \/ Wake \/ ForceCollect \/ HearForce
           \/ RedisFails \/ RedisReturns \/ CollectorRestarts
    PROVE  DataTypeOK' /\ WriterAt' /\ RankingMatchesRound' /\ HubInv'
<1>0. LoopTypeOK /\ DataTypeOK /\ WriterAt /\ RankingMatchesRound /\ HubInv
  BY DEF QuoteInv
<1>1. UNCHANGED <<quoteSeq, hashes, ranks, rounds, announced, casts, told>> /\ (hubInbox' = hubInbox \/ hubInbox' = <<>>)
  BY DEF Connect, BeginRound, Fetch, RoundFails, Wake, ForceCollect, HearForce, RedisFails, RedisReturns,
         CollectorRestarts, hubVars, dataVars
<1>2. /\ \/ collector' = collector /\ fetched' = fetched
         \/ collector' \notin WriteStages
         \/ collector' = "incr" /\ quoteSeq < MaxRounds
  <2>1. CASE Connect \/ BeginRound \/ Wake \/ CollectorRestarts \/ RoundFails
    BY <2>1 DEF Connect, BeginRound, Wake, CollectorRestarts, RoundFails, WriteStages
  <2>2. CASE Fetch
    BY <2>2 DEF Fetch, WriteStages
  <2>3. CASE ForceCollect \/ HearForce \/ RedisFails \/ RedisReturns
    BY <2>3 DEF ForceCollect, HearForce, RedisFails, RedisReturns
  <2> QED BY <2>1, <2>2, <2>3
<1>3. WrittenRounds' = WrittenRounds
  BY <1>1 DEF WrittenRounds
<1>4. DataTypeOK' /\ HubInv' /\ RankingMatchesRound'
  <2>1. hubInbox' \in Seq(WrittenRounds)
    <3>1. hubInbox \in Seq(WrittenRounds) /\ \A S : <<>> \in Seq(S)
      BY <1>0 DEF HubInv
    <3> QED BY ONLY <1>1, <3>1
  <2>2. HubInv'
    BY <1>0, <1>1, <1>3, <2>1 DEF HubInv
  <2>3. DataTypeOK'
    BY <1>0, <1>1 DEF DataTypeOK
  <2>4. RankingMatchesRound'
    BY <1>0, <1>1 DEF RankingMatchesRound
  <2> QED BY <2>2, <2>3, <2>4
<1>5. WriterAt'
  BY <1>0, <1>1, <1>2, <1>3 DEF WriterAt, WriteStages
<1> QED BY <1>4, <1>5

\* The sockets and the broadcasts.
LEMMA SocketsKeep ==
    ASSUME QuoteInv, (\E s \in Sockets : Register(s) \/ Unregister(s)) \/ HubStep
    PROVE  DataTypeOK' /\ WriterAt' /\ RankingMatchesRound' /\ HubInv'
<1>0. LoopTypeOK /\ DataTypeOK /\ WriterAt /\ RankingMatchesRound /\ HubInv
  BY DEF QuoteInv
<1>1. UNCHANGED <<collector, fetched, quoteSeq, hashes, ranks, rounds, announced>>
  BY DEF Register, Unregister, HubStep, HearQuotes, CastEnds, Send, dataVars
<1>2. WrittenRounds' = WrittenRounds
  BY <1>1 DEF WrittenRounds
<1>3. DataTypeOK' /\ WriterAt' /\ RankingMatchesRound'
  BY <1>0, <1>1, <1>2 DEF DataTypeOK, WriterAt, RankingMatchesRound
<1>4. hubInbox' \in Seq(WrittenRounds) /\ casts' \subseteq [seq : WrittenRounds, todo : SUBSET Sockets]
      /\ told' \in [Sockets -> WrittenRounds \cup {0}]
  <2>1. CASE \E s \in Sockets : Register(s) \/ Unregister(s)
    BY <1>0, <2>1 DEF Register, Unregister, HubInv
  <2>2. CASE HearQuotes
    <3>1. Head(hubInbox) \in WrittenRounds /\ Tail(hubInbox) \in Seq(WrittenRounds)
      BY <1>0, <2>2 DEF HearQuotes, HubInv
    <3>2. [seq |-> Head(hubInbox), todo |-> sockets] \in [seq : WrittenRounds, todo : SUBSET Sockets]
      BY <1>0, <3>1 DEF LoopTypeOK
    <3> QED BY <1>0, <2>2, <3>1, <3>2 DEF HearQuotes, Casting, HubInv
  <2>3. ASSUME NEW c \in casts, CastEnds(c) 
        PROVE  hubInbox' \in Seq(WrittenRounds) /\ casts' \subseteq [seq : WrittenRounds, todo : SUBSET Sockets]
               /\ told' \in [Sockets -> WrittenRounds \cup {0}]
    BY <1>0, <2>3 DEF CastEnds, HubInv
  <2>4. ASSUME NEW c \in casts, NEW s \in Sockets, Send(c, s) 
        PROVE  hubInbox' \in Seq(WrittenRounds) /\ casts' \subseteq [seq : WrittenRounds, todo : SUBSET Sockets]
               /\ told' \in [Sockets -> WrittenRounds \cup {0}]
    <3>1. c.seq \in WrittenRounds /\ [c EXCEPT !.todo = @ \ {s}] \in [seq : WrittenRounds, todo : SUBSET Sockets]
      BY <1>0, <2>4 DEF HubInv
    <3>2. \/ told' = told
          \/ told' = [told EXCEPT ![s] = IF c.seq > told[s] THEN c.seq ELSE told[s]]
      BY <2>4 DEF Send
    <3> QED BY <1>0, <2>4, <3>1, <3>2 DEF Send, HubInv
  <2> QED BY <2>1, <2>2, <2>3, <2>4 DEF HubStep
<1> QED BY <1>2, <1>3, <1>4 DEF HubInv

LEMMA QuoteInductive == QuoteInv /\ [QuoteNext]_quoteVars => QuoteInv'
<1> SUFFICES ASSUME QuoteInv, [QuoteNext]_quoteVars PROVE QuoteInv'
  OBVIOUS
<1>1. CASE UNCHANGED quoteVars
  BY <1>1 DEF quoteVars, quoteEnv, dataVars, forceVars, hubVars, QuoteInv, LoopTypeOK, DataTypeOK, WriterAt,
              WrittenRounds, RankingMatchesRound, HubInv
<1>2. CASE QuoteNext
  <2>1. LoopTypeOK'
    BY <1>2, LoopTyped
  <2>2. DataTypeOK' /\ WriterAt' /\ RankingMatchesRound' /\ HubInv'
    BY <1>2, WriterKeeps, LoopKeeps, SocketsKeep DEF QuoteNext, CollectorStep
  <2> QED BY <2>1, <2>2 DEF QuoteInv
<1> QED BY <1>1, <1>2

LEMMA QuoteInvShows == QuoteInv => RoundIsWhole
<1> SUFFICES ASSUME QuoteInv PROVE RoundIsWhole
  OBVIOUS
<1>0. LoopTypeOK /\ DataTypeOK /\ RankingMatchesRound /\ HubInv
  BY DEF QuoteInv
<1>1. WrittenRounds \subseteq 1..quoteSeq /\ WrittenRounds \cup {0} \subseteq 0..quoteSeq
  BY <1>0, QuoteAssumption DEF WrittenRounds, DataTypeOK
<1>2. rounds \in [1..quoteSeq -> SUBSET Stocks]
  BY <1>0 DEF DataTypeOK
<1>3. hubInbox \in Seq(1..quoteSeq) /\ casts \subseteq [seq : 1..quoteSeq, todo : SUBSET Sockets] /\ told \in [Sockets -> 0..quoteSeq]
  <2>1. hubInbox \in Seq(1..quoteSeq)
    <3>1. \A S, T : S \subseteq T => Seq(S) \subseteq Seq(T)
      OBVIOUS
    <3>2. hubInbox \in Seq(WrittenRounds)
      BY <1>0 DEF HubInv
    <3> QED BY ONLY <1>1, <3>1, <3>2
  <2>2. casts \subseteq [seq : 1..quoteSeq, todo : SUBSET Sockets]
    BY <1>0, <1>1 DEF HubInv
  <2>3. told \in [Sockets -> 0..quoteSeq]
    BY <1>0, <1>1 DEF HubInv
  <2> QED BY <2>1, <2>2, <2>3
<1>4. QuoteTypeOK
  BY <1>0, <1>2, <1>3 DEF QuoteTypeOK, LoopTypeOK, DataTypeOK
<1>5. ToldIsWritten
  BY <1>0 DEF ToldIsWritten, HubInv, WrittenRounds
<1> QED BY <1>0, <1>4, <1>5 DEF RoundIsWhole

\* For any universe, number of sockets, of rounds and of faults: what a browser
\* is told to reload is written, and the ranking names the stocks of the round
\* announced (writer.py: write_quotes, quote_hub.py).
THEOREM RoundsAreWhole == QuoteSpec => []RoundIsWhole
BY QuoteStarts, QuoteInductive, QuoteInvShows, PTL DEF QuoteSpec
=============================================================================
