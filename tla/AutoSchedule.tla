---------------------------- MODULE AutoSchedule ----------------------------
(***************************************************************************)
(* Users' automatic screening tasks.  Every minute the scheduler thread of *)
(* each API replica polls the enabled tasks, and enqueues the ones that    *)
(* match the minute one after the other, without a distributed lock; the   *)
(* worker runs a task, saves the screening, records the outcome on the     *)
(* task's row and pushes a message.                                        *)
(*                                                                         *)
(*   backend/app/domains/auto_schedules/service.py  poll_due_tasks,        *)
(*                                                  run_task, CRUD         *)
(*   backend/app/services/ops/arq_jobs.py           enqueue_auto_task      *)
(*   backend/app/worker/tasks_auto_schedule.py      run_auto_schedule_task *)
(*                                                                         *)
(* An enqueue is one step here; the interleavings of its Redis commands    *)
(* are those of OpsJobs.                                                   *)
(***************************************************************************)
EXTENDS Naturals

CONSTANTS
  Tasks,       \* ids of automatic tasks
  Replicas,    \* API processes that poll
  MaxMinutes,  \* bound: minutes in a behaviour
  MaxEdits,    \* bound: edits of tasks by their users
  Faults,      \* an enqueue or the push may fail
  SaveFaults,  \* the database may refuse the screening's row
  CallBinds    \* the worker's function accepts the enqueued arguments

ASSUME AutoAssumption ==
  /\ MaxMinutes \in Nat /\ MaxEdits \in Nat
  /\ {Faults, SaveFaults, CallBinds} \subseteq BOOLEAN

VARIABLES
  minute,   \* minutes seen so far
  matching, \* the tasks whose weekdays and times hit this minute
  exists, enabled, \* rows of app.auto_schedule and their flag
  last,     \* last_success of each row: "none", "ok" or "failed"
  polled,   \* the replicas that have polled this minute
  due,      \* due[r]: tasks replica r found and has still to enqueue
  refused,  \* refused[r]: tasks whose enqueue raised in this minute's poll
  arq,      \* state of the stable id auto:<task>
  handed,   \* enqueues of each task that created a job in this minute
  stage,    \* where the worker is in the run of each task
  screened, \* what the current or last run of each task came to
  saved,    \* tasks with a row in screener_runs from their last run
  pushed,   \* tasks whose last run was pushed to the user
  edits

table == <<exists, enabled>>
poll == <<polled, due, refused>>
work == <<stage, screened, saved, pushed, last>>
vars == <<minute, matching, exists, enabled, last, polled, due, refused, arq,
          handed, stage, screened, saved, pushed, edits>>

Init ==
  /\ minute = 0 /\ matching = {}
  /\ exists = Tasks /\ enabled = Tasks
  /\ last = [t \in Tasks |-> "none"]
  /\ polled = Replicas
  /\ due = [r \in Replicas |-> {}]
  /\ refused = [r \in Replicas |-> {}]
  /\ arq = [t \in Tasks |-> "none"]
  /\ handed = [t \in Tasks |-> 0]
  /\ stage = [t \in Tasks |-> "idle"]
  /\ screened = [t \in Tasks |-> "none"]
  /\ saved = {} /\ pushed = {}
  /\ edits = 0

InFlight(t) == arq[t] \in {"queued", "running"}

----------------------------------------------------------------------------
(* The poll.                                                               *)

\* A new minute.  A poll is over by then: it takes one Redis round per task.
Tick ==
  /\ minute < MaxMinutes
  /\ \A r \in Replicas : due[r] = {}
  /\ minute' = minute + 1
  /\ matching' \in SUBSET Tasks
  /\ polled' = {}
  /\ refused' = [r \in Replicas |-> {}]
  /\ handed' = [t \in Tasks |-> 0]
  /\ UNCHANGED <<table, due, arq, work, edits>>

\* poll_due_tasks selects the enabled rows that match.
Poll(r) ==
  /\ r \notin polled
  /\ polled' = polled \cup {r}
  /\ due' = [due EXCEPT ![r] = exists \cap enabled \cap matching]
  /\ UNCHANGED <<minute, matching, table, refused, arq, handed, work, edits>>

\* Mutated form: the exception of one enqueue ends the poll.
EnqueueTaskStops(r, t) ==
  /\ t \in due[r]
  /\ \/ /\ due' = [due EXCEPT ![r] = @ \ {t}]
        /\ arq' = [arq EXCEPT ![t] = IF InFlight(t) THEN @ ELSE "queued"]
        /\ handed' = [handed EXCEPT ![t] = IF InFlight(t) THEN @ ELSE @ + 1]
        /\ UNCHANGED refused
     \/ /\ Faults
        /\ due' = [due EXCEPT ![r] = {}]
        /\ refused' = [refused EXCEPT ![r] = @ \cup {t}]
        /\ UNCHANGED <<arq, handed>>
  /\ UNCHANGED <<minute, matching, table, polled, work, edits>>

\* One due task: an id in flight is reused, otherwise a job is created.  An
\* exception is logged and the poll goes on with the next task.
EnqueueTask(r, t) ==
  /\ t \in due[r]
  /\ due' = [due EXCEPT ![r] = @ \ {t}]
  /\ \/ /\ arq' = [arq EXCEPT ![t] = IF InFlight(t) THEN @ ELSE "queued"]
        /\ handed' = [handed EXCEPT ![t] = IF InFlight(t) THEN @ ELSE @ + 1]
        /\ UNCHANGED refused
     \/ /\ Faults
        /\ refused' = [refused EXCEPT ![r] = @ \cup {t}]
        /\ UNCHANGED <<arq, handed>>
  /\ UNCHANGED <<minute, matching, table, polled, work, edits>>

----------------------------------------------------------------------------
(* The worker.                                                             *)

Goto(t, from, to) ==
  /\ stage[t] = from
  /\ stage' = [stage EXCEPT ![t] = to]

\* The coroutine settles and the id is complete.
Settle(t, from) ==
  /\ Goto(t, from, "idle")
  /\ arq' = [arq EXCEPT ![t] = "complete"]

\* enqueue_auto_task passes the id as a positional argument while
\* run_auto_schedule_task takes it by keyword only: the call raises TypeError
\* inside ARQ and nothing of the run happens.
StartTask(t) ==
  /\ arq[t] = "queued"
  /\ IF CallBinds
     THEN /\ Goto(t, "idle", "load")
          /\ arq' = [arq EXCEPT ![t] = "running"]
     ELSE Settle(t, "idle")
  /\ UNCHANGED <<minute, matching, table, poll, handed, screened, saved, pushed,
                 last, edits>>

\* A task that is gone or switched off is skipped.
LoadTask(t) ==
  /\ IF t \in exists \cap enabled
     THEN Goto(t, "load", "screen") /\ UNCHANGED arq
     ELSE Settle(t, "load")
  /\ screened' = [screened EXCEPT ![t] = "none"]
  /\ saved' = saved \ {t} /\ pushed' = pushed \ {t}
  /\ UNCHANGED <<minute, matching, table, poll, handed, last, edits>>

\* run_recipe_screen and save_run: the row is committed, the recipe raises,
\* or the flush does, which leaves the session without a transaction.
Screen(t) ==
  /\ \/ /\ Goto(t, "screen", "record")
        /\ screened' = [screened EXCEPT ![t] = "ok"]
        /\ saved' = saved \cup {t}
     \/ /\ Goto(t, "screen", "record")
        /\ screened' = [screened EXCEPT ![t] = "failed"]
        /\ UNCHANGED saved
     \/ /\ SaveFaults
        /\ Goto(t, "screen", "broken")
        /\ screened' = [screened EXCEPT ![t] = "refused"]
        /\ UNCHANGED saved
  /\ UNCHANGED <<minute, matching, table, poll, arq, handed, pushed, last, edits>>

\* Mutated form: a failed run returns without recording.
RecordOnlySuccess(t) ==
  /\ IF t \in exists
     THEN /\ last' = [last EXCEPT ![t] = IF screened[t] = "ok" THEN "ok" ELSE @]
          /\ IF screened[t] = "ok"
             THEN Goto(t, "record", "push") /\ UNCHANGED arq
             ELSE Settle(t, "record")
     ELSE Settle(t, "record") /\ UNCHANGED last
  /\ UNCHANGED <<minute, matching, table, poll, handed, screened, saved, pushed, edits>>

\* _record_run; a row deleted in the meantime makes it raise, and _run turns
\* that into a failed result.  Only a successful run goes on to the push.
Record(t) ==
  /\ IF t \in exists
     THEN /\ last' = [last EXCEPT ![t] = screened[t]]
          /\ IF screened[t] = "ok"
             THEN Goto(t, "record", "push") /\ UNCHANGED arq
             ELSE Settle(t, "record")
     ELSE Settle(t, "record") /\ UNCHANGED last
  /\ UNCHANGED <<minute, matching, table, poll, handed, screened, saved, pushed, edits>>

\* Nobody rolls the broken session back: the commit of _record_run raises
\* PendingRollbackError and the outcome is lost.
RecordBroken(t) ==
  /\ Settle(t, "broken")
  /\ UNCHANGED <<minute, matching, table, poll, handed, screened, saved, pushed,
                 last, edits>>

\* The push reads the row again; a failure is logged and swallowed.
Push(t) ==
  /\ Settle(t, "push")
  /\ \/ t \in exists /\ pushed' = pushed \cup {t}
     \/ (Faults \/ t \notin exists) /\ UNCHANGED pushed
  /\ UNCHANGED <<minute, matching, table, poll, handed, screened, saved, last, edits>>

----------------------------------------------------------------------------
(* The user's requests.                                                    *)

Edit ==
  /\ edits < MaxEdits
  /\ edits' = edits + 1
  /\ UNCHANGED <<minute, matching, poll, arq, handed, work>>

SetEnabled(t) ==
  /\ Edit
  /\ t \in exists
  /\ enabled' \in {enabled \cup {t}, enabled \ {t}}
  /\ UNCHANGED exists

\* A deleted id never comes back.
DeleteTask(t) ==
  /\ Edit
  /\ t \in exists
  /\ exists' = exists \ {t}
  /\ UNCHANGED enabled

WorkerStep(t) ==
  StartTask(t) \/ LoadTask(t) \/ Screen(t) \/ Record(t)
  \/ RecordBroken(t) \/ Push(t)

Next ==
  \/ Tick
  \/ \E r \in Replicas : Poll(r) \/ \E t \in Tasks : EnqueueTask(r, t)
  \/ \E t \in Tasks : WorkerStep(t) \/ SetEnabled(t) \/ DeleteTask(t)

Spec == Init /\ [][Next]_vars

\* The worker takes queued ids and its threads run.
FairSpec == Spec /\ \A t \in Tasks : WF_vars(WorkerStep(t))

----------------------------------------------------------------------------
(* Properties.                                                             *)

Outcomes == {"none", "ok", "failed"}

TypeOK ==
  /\ minute \in 0 .. MaxMinutes /\ edits \in 0 .. MaxEdits
  /\ {matching, exists, enabled, saved, pushed} \subseteq SUBSET Tasks
  /\ last \in [Tasks -> Outcomes]
  /\ screened \in [Tasks -> Outcomes \cup {"refused"}]
  /\ polled \subseteq Replicas
  /\ due \in [Replicas -> SUBSET Tasks] /\ refused \in [Replicas -> SUBSET Tasks]
  /\ arq \in [Tasks -> {"none", "queued", "running", "complete"}]
  /\ handed \in [Tasks -> Nat]
  /\ stage \in [Tasks -> {"idle", "load", "screen", "record", "broken", "push"}]

\* A task whose enqueue raises does not cost the other tasks of the poll
\* their run: what a replica selected is enqueued, refused or still to come
\* until the minute is over (service.py 127-134).
PollIsIsolated ==
  [][\A r \in Replicas :
       \A t \in due[r] \ due'[r] : t \in refused'[r] \/ arq'[t] \in {"queued", "running"}
      ]_vars

\* The row tells the outcome of the last run that got as far as screening,
\* once that run is over; only deleting the task stops it, or a database
\* that refuses the screening's row (service.py 50-54, 91-100).
OutcomeIsRecorded ==
  \A t \in exists :
    stage[t] = "idle" /\ screened[t] \in {"ok", "failed"} => last[t] = screened[t]

\* A screening that cannot be saved is recorded as a failed run (the design's
\* section on the worker); refuted: the session was not rolled back.
RefusalIsRecorded ==
  \A t \in exists : stage[t] = "idle" /\ screened[t] = "refused" => last[t] = "failed"

\* The user is told about a run only when its screening was saved and its
\* success recorded (service.py 86-104).
PushedIsSaved == \A t \in pushed : t \in saved /\ last[t] = "ok"

\* What the owner of a task is told, by its row or by a push, is what became of
\* the run: see the two parts.
RunIsReported == TypeOK /\ OutcomeIsRecorded /\ PushedIsSaved

\* A minute's hit is handed to ARQ once, however many replicas poll
\* (docs/superpowers/specs/2026-08-19-auto-schedule-design.md:81); refuted.
HandedOnce == \A t \in Tasks : handed[t] <= 1

\* A queued task is run: its outcome is recorded, unless it is switched off
\* or deleted (the same document, the worker's section); refuted by the call
\* that does not bind.
QueuedIsRecorded ==
  \A t \in Tasks :
    arq[t] = "queued" ~> last[t] # "none" \/ t \notin exists \cap enabled

=============================================================================
