-------------------------- MODULE Screening_proofs --------------------------
(* Theorems of the automatic screening tasks and of the screens they run.   *)
EXTENDS AutoSchedule, ScreenRules, Counting

-----------------------------------------------------------------------------
(* AutoSchedule: what the owner of a task is told is what became of the     *)
(* run, for any number of tasks, replicas and edits, and a poll's tasks do  *)
(* not cost one another their run. The invariant says, for every place of   *)
(* the worker's function, what its run has left behind it so far.           *)

\* Behind each place, what the run came to and what it stored: a screening
\* that is recorded as a success is saved, and nothing is pushed before that.
RunSoFar(t) ==
  /\ stage[t] = "screen" => screened[t] = "none"
  /\ stage[t] \in {"screen", "record", "broken", "push"} => t \notin pushed
  /\ stage[t] = "record" => screened[t] \in {"ok", "failed"} /\ (screened[t] = "ok" => t \in saved)
  /\ stage[t] = "broken" => screened[t] = "refused"
  /\ stage[t] = "push" => screened[t] = "ok" /\ t \in saved /\ (t \in exists => last[t] = "ok")

\* OutcomeIsRecorded and PushedIsSaved, of one task; its start leaves the
\* outcome of the run before where it is.
ToldSoFar(t) ==
  /\ t \in exists /\ stage[t] \in {"idle", "load"} /\ screened[t] \in {"ok", "failed"} => last[t] = screened[t]
  /\ t \in pushed => t \in saved /\ last[t] = "ok"

\* Only a replica that has polled has tasks to enqueue.
OnlyPolled == \A r \in Replicas \ polled : due[r] = {}

AutoInv == TypeOK /\ OnlyPolled /\ \A t \in Tasks : RunSoFar(t) /\ ToldSoFar(t)

-----------------------------------------------------------------------------
LEMMA AutoStart == Init => AutoInv
<1> SUFFICES ASSUME Init PROVE AutoInv
  OBVIOUS
<1>1. TypeOK
  BY AutoAssumption DEF Init, TypeOK, Outcomes
<1>2. OnlyPolled
  BY DEF Init, OnlyPolled
<1>3. ASSUME NEW t \in Tasks PROVE RunSoFar(t) /\ ToldSoFar(t)
  BY DEF Init, RunSoFar, ToldSoFar
<1> QED BY <1>1, <1>2, <1>3 DEF AutoInv

\* What a state is made of, set by set.
LEMMA AutoTypes ==
  ASSUME TypeOK
  PROVE  /\ exists \subseteq Tasks /\ saved \subseteq Tasks /\ pushed \subseteq Tasks
         /\ enabled \subseteq Tasks /\ matching \subseteq Tasks
BY DEF TypeOK

\* A step of one task's run leaves the others as they are.
LEMMA OthersRun ==
  ASSUME AutoInv, TypeOK', OnlyPolled', NEW t \in Tasks, exists' = exists,
         \A u \in Tasks \ {t} : /\ stage'[u] = stage[u] /\ screened'[u] = screened[u] /\ last'[u] = last[u]
                                /\ (u \in saved' <=> u \in saved) /\ (u \in pushed' <=> u \in pushed),
         RunSoFar(t)', ToldSoFar(t)'
  PROVE  AutoInv'
<1> SUFFICES ASSUME NEW u \in Tasks \ {t} PROVE (RunSoFar(u) /\ ToldSoFar(u))'
  BY DEF AutoInv
<1>1. RunSoFar(u) /\ ToldSoFar(u)
  BY DEF AutoInv
<1> QED BY <1>1 DEF RunSoFar, ToldSoFar

\* The scheduler's steps move neither a run nor what is told of it.
LEMMA PollStep ==
  ASSUME AutoInv, Tick \/ \E r \in Replicas : Poll(r) \/ \E t \in Tasks : EnqueueTask(r, t)
  PROVE  AutoInv'
<1> USE DEF AutoInv
<1>1. UNCHANGED <<table, work, edits>>
  BY DEF Tick, Poll, EnqueueTask
<1>2. \A t \in Tasks : (RunSoFar(t) /\ ToldSoFar(t))'
  BY <1>1 DEF RunSoFar, ToldSoFar, table, work
<1>3. CASE Tick
  <2>1. TypeOK'
    <3>1. minute' \in 0 .. MaxMinutes
      BY <1>3, AutoAssumption DEF Tick, TypeOK
    <3>2. matching' \subseteq Tasks
      BY <1>3 DEF Tick
    <3>3. refused' \in [Replicas -> SUBSET Tasks] /\ handed' \in [Tasks -> Nat]
      BY <1>3 DEF Tick
    <3> QED BY <1>1, <1>3, <3>1, <3>2, <3>3 DEF Tick, TypeOK, table, work
  <2>2. OnlyPolled'
    BY <1>3 DEF Tick, OnlyPolled
  <2> QED BY <1>2, <2>1, <2>2
<1>4. ASSUME NEW r \in Replicas, Poll(r) PROVE AutoInv'
  <2>1. due' \in [Replicas -> SUBSET Tasks]
    BY <1>4, AutoTypes DEF Poll, TypeOK
  <2>2. TypeOK'
    BY <1>1, <1>4, <2>1 DEF Poll, TypeOK, table, work
  <2>3. OnlyPolled'
    BY <1>4 DEF Poll, OnlyPolled, TypeOK
  <2> QED BY <1>2, <2>2, <2>3
<1>5. ASSUME NEW r \in Replicas, NEW t \in Tasks, EnqueueTask(r, t) PROVE AutoInv'
  <2>1. due' \in [Replicas -> SUBSET Tasks] /\ refused' \in [Replicas -> SUBSET Tasks]
    BY <1>5 DEF EnqueueTask, TypeOK
  <2>2. arq' \in [Tasks -> {"none", "queued", "running", "complete"}]
    BY <1>5 DEF EnqueueTask, TypeOK
  <2>3. handed' \in [Tasks -> Nat]
    BY <1>5 DEF EnqueueTask, TypeOK
  <2>4. TypeOK'
    BY <1>1, <1>5, <2>1, <2>2, <2>3 DEF EnqueueTask, TypeOK, table, work
  <2>5. OnlyPolled'
    BY <1>5 DEF EnqueueTask, OnlyPolled, TypeOK
  <2> QED BY <1>2, <2>4, <2>5
<1> QED BY <1>3, <1>4, <1>5

\* A step of the worker: where it goes, and what arq's id becomes.
LEMMA GotoTypes ==
  ASSUME TypeOK, NEW t \in Tasks, NEW from, NEW to \in {"idle", "load", "screen", "record", "broken", "push"}, Goto(t, from, to)
  PROVE  /\ stage[t] = from /\ stage'[t] = to
         /\ stage' \in [Tasks -> {"idle", "load", "screen", "record", "broken", "push"}]
         /\ \A u \in Tasks \ {t} : stage'[u] = stage[u]
BY DEF Goto, TypeOK

LEMMA SettleTypes ==
  ASSUME TypeOK, NEW t \in Tasks, NEW from, Settle(t, from)
  PROVE  /\ stage[t] = from /\ stage'[t] = "idle"
         /\ stage' \in [Tasks -> {"idle", "load", "screen", "record", "broken", "push"}]
         /\ \A u \in Tasks \ {t} : stage'[u] = stage[u]
         /\ arq' \in [Tasks -> {"none", "queued", "running", "complete"}]
<1>1. Goto(t, from, "idle") /\ arq' = [arq EXCEPT ![t] = "complete"]
  BY DEF Settle
<1> QED BY <1>1, GotoTypes DEF TypeOK

LEMMA StartStep == ASSUME AutoInv, NEW t \in Tasks, StartTask(t) PROVE AutoInv'
<1> USE DEF AutoInv
<1>1. UNCHANGED <<minute, matching, table, poll, handed, screened, saved, pushed, last, edits>>
  BY DEF StartTask
<1>2. /\ stage[t] = "idle" /\ stage'[t] \in {"idle", "load"}
      /\ stage' \in [Tasks -> {"idle", "load", "screen", "record", "broken", "push"}]
      /\ \A u \in Tasks \ {t} : stage'[u] = stage[u]
      /\ arq' \in [Tasks -> {"none", "queued", "running", "complete"}]
  <2>1. CASE CallBinds
    <3>1. Goto(t, "idle", "load") /\ arq' = [arq EXCEPT ![t] = "running"]
      BY <2>1 DEF StartTask
    <3> QED BY <3>1, GotoTypes DEF TypeOK
  <2>2. CASE ~CallBinds
    BY <2>2, SettleTypes DEF StartTask
  <2> QED BY <2>1, <2>2
<1>3. TypeOK' /\ OnlyPolled'
  BY <1>1, <1>2 DEF TypeOK, OnlyPolled, table, poll
<1>4. RunSoFar(t) /\ ToldSoFar(t)
  OBVIOUS
<1>5. RunSoFar(t)' /\ ToldSoFar(t)'
  BY <1>1, <1>2, <1>4 DEF RunSoFar, ToldSoFar, table
<1> QED BY <1>1, <1>2, <1>3, <1>5, OthersRun DEF table

LEMMA LoadStep == ASSUME AutoInv, NEW t \in Tasks, LoadTask(t) PROVE AutoInv'
<1> USE DEF AutoInv
<1>1. /\ screened' = [screened EXCEPT ![t] = "none"]
      /\ saved' = saved \ {t} /\ pushed' = pushed \ {t}
      /\ UNCHANGED <<minute, matching, table, poll, handed, last, edits>>
  BY DEF LoadTask
<1>2. /\ stage[t] = "load" /\ stage'[t] \in {"idle", "screen"}
      /\ stage' \in [Tasks -> {"idle", "load", "screen", "record", "broken", "push"}]
      /\ \A u \in Tasks \ {t} : stage'[u] = stage[u]
      /\ arq' \in [Tasks -> {"none", "queued", "running", "complete"}]
  <2>1. CASE t \in exists \cap enabled
    BY <2>1, GotoTypes DEF LoadTask, TypeOK
  <2>2. CASE t \notin exists \cap enabled
    BY <2>2, SettleTypes DEF LoadTask
  <2> QED BY <2>1, <2>2
<1>3. /\ screened' \in [Tasks -> Outcomes \cup {"refused"}] /\ screened'[t] = "none"
      /\ \A u \in Tasks \ {t} : screened'[u] = screened[u]
  BY <1>1 DEF TypeOK, Outcomes
<1>4. TypeOK' /\ OnlyPolled'
  BY <1>1, <1>2, <1>3 DEF TypeOK, OnlyPolled, table, poll
<1>5. RunSoFar(t)' /\ ToldSoFar(t)'
  BY <1>1, <1>2, <1>3 DEF RunSoFar, ToldSoFar
<1> QED BY <1>1, <1>2, <1>3, <1>4, <1>5, OthersRun DEF table

LEMMA ScreenStep == ASSUME AutoInv, NEW t \in Tasks, Screen(t) PROVE AutoInv'
<1> USE DEF AutoInv
<1>1. UNCHANGED <<minute, matching, table, poll, arq, handed, pushed, last, edits>>
  BY DEF Screen
<1>2. PICK outcome \in {"ok", "failed", "refused"} :
        /\ Goto(t, "screen", IF outcome = "refused" THEN "broken" ELSE "record")
        /\ screened' = [screened EXCEPT ![t] = outcome]
        /\ saved' = IF outcome = "ok" THEN saved \cup {t} ELSE saved
  BY DEF Screen
<1> DEFINE to == IF outcome = "refused" THEN "broken" ELSE "record"
<1>3. /\ stage[t] = "screen" /\ stage'[t] = to
      /\ stage' \in [Tasks -> {"idle", "load", "screen", "record", "broken", "push"}]
      /\ \A u \in Tasks \ {t} : stage'[u] = stage[u]
  BY <1>2, GotoTypes
<1>4. /\ screened' \in [Tasks -> Outcomes \cup {"refused"}] /\ screened'[t] = outcome
      /\ \A u \in Tasks \ {t} : screened'[u] = screened[u]
  BY <1>2 DEF TypeOK, Outcomes
<1>5. TypeOK' /\ OnlyPolled'
  BY <1>1, <1>2, <1>3, <1>4 DEF TypeOK, OnlyPolled, table, poll
<1>6. t \notin pushed
  BY <1>3 DEF RunSoFar
<1>7. RunSoFar(t)' /\ ToldSoFar(t)'
  BY <1>1, <1>2, <1>3, <1>4, <1>6 DEF RunSoFar, ToldSoFar
<1> QED BY <1>1, <1>2, <1>3, <1>4, <1>5, <1>7, OthersRun DEF table

LEMMA RecordStep == ASSUME AutoInv, NEW t \in Tasks, Record(t) PROVE AutoInv'
<1> USE DEF AutoInv
<1>1. UNCHANGED <<minute, matching, table, poll, handed, screened, saved, pushed, edits>>
  BY DEF Record
<1>2. /\ stage[t] = "record"
      /\ stage'[t] = IF t \in exists /\ screened[t] = "ok" THEN "push" ELSE "idle"
      /\ stage' \in [Tasks -> {"idle", "load", "screen", "record", "broken", "push"}]
      /\ \A u \in Tasks \ {t} : stage'[u] = stage[u]
      /\ arq' \in [Tasks -> {"none", "queued", "running", "complete"}]
  <2>1. CASE t \in exists /\ screened[t] = "ok"
    BY <2>1, GotoTypes DEF Record, TypeOK
  <2>2. CASE ~(t \in exists /\ screened[t] = "ok")
    BY <2>2, SettleTypes DEF Record
  <2> QED BY <2>1, <2>2
<1>3. RunSoFar(t)
  OBVIOUS
<1>4. t \notin pushed /\ screened[t] \in {"ok", "failed"} /\ (screened[t] = "ok" => t \in saved)
  BY <1>2, <1>3 DEF RunSoFar
<1>5. /\ last' \in [Tasks -> Outcomes] /\ (t \in exists => last'[t] = screened[t])
      /\ \A u \in Tasks \ {t} : last'[u] = last[u]
  BY <1>4 DEF Record, TypeOK, Outcomes
<1>6. TypeOK' /\ OnlyPolled'
  BY <1>1, <1>2, <1>5 DEF TypeOK, OnlyPolled, table, poll
<1>7. RunSoFar(t)' /\ ToldSoFar(t)'
  BY <1>1, <1>2, <1>4, <1>5 DEF RunSoFar, ToldSoFar, table
<1> QED BY <1>1, <1>2, <1>5, <1>6, <1>7, OthersRun DEF table

LEMMA BrokenStep == ASSUME AutoInv, NEW t \in Tasks, RecordBroken(t) PROVE AutoInv'
<1> USE DEF AutoInv
<1>1. UNCHANGED <<minute, matching, table, poll, handed, screened, saved, pushed, last, edits>>
  BY DEF RecordBroken
<1>2. /\ stage[t] = "broken" /\ stage'[t] = "idle"
      /\ stage' \in [Tasks -> {"idle", "load", "screen", "record", "broken", "push"}]
      /\ \A u \in Tasks \ {t} : stage'[u] = stage[u]
      /\ arq' \in [Tasks -> {"none", "queued", "running", "complete"}]
  BY SettleTypes DEF RecordBroken
<1>3. TypeOK' /\ OnlyPolled'
  BY <1>1, <1>2 DEF TypeOK, OnlyPolled, table, poll
<1>4. RunSoFar(t)
  OBVIOUS
<1>5. t \notin pushed /\ screened[t] = "refused"
  BY <1>2, <1>4 DEF RunSoFar
<1>6. RunSoFar(t)' /\ ToldSoFar(t)'
  BY <1>1, <1>2, <1>5 DEF RunSoFar, ToldSoFar
<1> QED BY <1>1, <1>2, <1>3, <1>6, OthersRun DEF table

LEMMA PushStep == ASSUME AutoInv, NEW t \in Tasks, Push(t) PROVE AutoInv'
<1> USE DEF AutoInv
<1>1. UNCHANGED <<minute, matching, table, poll, handed, screened, saved, last, edits>>
  BY DEF Push
<1>2. \/ t \in exists /\ pushed' = pushed \cup {t}
      \/ UNCHANGED pushed
  BY DEF Push
<1>3. /\ stage[t] = "push" /\ stage'[t] = "idle"
      /\ stage' \in [Tasks -> {"idle", "load", "screen", "record", "broken", "push"}]
      /\ \A u \in Tasks \ {t} : stage'[u] = stage[u]
      /\ arq' \in [Tasks -> {"none", "queued", "running", "complete"}]
  BY SettleTypes DEF Push
<1>4. pushed' \subseteq Tasks /\ \A u \in Tasks \ {t} : u \in pushed' <=> u \in pushed
  BY <1>2 DEF TypeOK
<1>5. TypeOK' /\ OnlyPolled'
  BY <1>1, <1>3, <1>4 DEF TypeOK, OnlyPolled, table, poll
<1>6. RunSoFar(t) /\ ToldSoFar(t)
  OBVIOUS
<1>7. screened[t] = "ok" /\ t \in saved /\ (t \in exists => last[t] = "ok") /\ t \notin pushed
  BY <1>3, <1>6 DEF RunSoFar
<1>8. RunSoFar(t)' /\ ToldSoFar(t)'
  BY <1>1, <1>2, <1>3, <1>7 DEF RunSoFar, ToldSoFar, table
<1> QED BY <1>1, <1>3, <1>4, <1>5, <1>8, OthersRun DEF table

\* A user may switch a task off or delete it at any place of its run.
LEMMA EditStep == ASSUME AutoInv, NEW t \in Tasks, SetEnabled(t) \/ DeleteTask(t) PROVE AutoInv'
<1> USE DEF AutoInv
<1>1. /\ edits' \in 0 .. MaxEdits /\ exists' \subseteq exists /\ enabled' \subseteq Tasks
      /\ UNCHANGED <<minute, matching, poll, arq, handed, work>>
  BY AutoAssumption, AutoTypes DEF Edit, SetEnabled, DeleteTask, TypeOK
<1>2. exists' \subseteq Tasks
  BY <1>1, AutoTypes
<1>3. TypeOK' /\ OnlyPolled'
  BY <1>1, <1>2 DEF TypeOK, OnlyPolled, poll, work
<1>4. ASSUME NEW u \in Tasks PROVE (RunSoFar(u) /\ ToldSoFar(u))'
  <2>1. RunSoFar(u) /\ ToldSoFar(u)
    OBVIOUS
  <2> QED BY <1>1, <2>1 DEF RunSoFar, ToldSoFar, work
<1> QED BY <1>3, <1>4

LEMMA AutoStep == AutoInv /\ [Next]_vars => AutoInv'
<1> SUFFICES ASSUME AutoInv, [Next]_vars PROVE AutoInv'
  OBVIOUS
<1>1. CASE Tick \/ \E r \in Replicas : Poll(r) \/ \E t \in Tasks : EnqueueTask(r, t)
  BY <1>1, PollStep
<1>2. ASSUME NEW t \in Tasks, WorkerStep(t) PROVE AutoInv'
  BY <1>2, StartStep, LoadStep, ScreenStep, RecordStep, BrokenStep, PushStep DEF WorkerStep
<1>3. ASSUME NEW t \in Tasks, SetEnabled(t) \/ DeleteTask(t) PROVE AutoInv'
  BY <1>3, EditStep
<1>4. CASE UNCHANGED vars
  BY <1>4 DEF vars, AutoInv, TypeOK, OnlyPolled, RunSoFar, ToldSoFar
<1> QED BY <1>1, <1>2, <1>3, <1>4 DEF Next

LEMMA AutoHolds == Spec => []AutoInv
BY AutoStart, AutoStep, PTL DEF Spec

\* What the owner of a task reads on its row, or is pushed, is what became of
\* the last run that got as far as screening, whatever edits and other tasks
\* come between its steps (service.py run_task).
THEOREM OwnersAreTold == Spec => []RunIsReported
<1>1. AutoInv => RunIsReported
  <2> SUFFICES ASSUME AutoInv PROVE RunIsReported
    OBVIOUS
  <2>1. OutcomeIsRecorded
    BY AutoTypes DEF AutoInv, ToldSoFar, OutcomeIsRecorded
  <2>2. PushedIsSaved
    BY AutoTypes DEF AutoInv, ToldSoFar, PushedIsSaved
  <2> QED BY <2>1, <2>2 DEF AutoInv, RunIsReported
<1> QED BY <1>1, AutoHolds, PTL

\* A poll that meets an exception at one task still sees to the others: no
\* step takes a task from a replica's poll without enqueueing or refusing it
\* (service.py poll_due_tasks).
THEOREM PollsAreIsolated == Spec => PollIsIsolated
<1> DEFINE SeenTo(r) == \A t \in due[r] \ due'[r] : t \in refused'[r] \/ arq'[t] \in {"queued", "running"}
<1>1. AutoInv /\ [Next]_vars => \A r \in Replicas : SeenTo(r)
  <2> SUFFICES ASSUME AutoInv, [Next]_vars, NEW r \in Replicas PROVE SeenTo(r)
    OBVIOUS
  <2>1. CASE Tick
    BY <2>1 DEF Tick
  <2>2. ASSUME NEW s \in Replicas, Poll(s) PROVE SeenTo(r)
    BY <2>2 DEF Poll, AutoInv, OnlyPolled, TypeOK
  <2>3. ASSUME NEW s \in Replicas, NEW t \in Tasks, EnqueueTask(s, t) PROVE SeenTo(r)
    BY <2>3 DEF EnqueueTask, AutoInv, TypeOK, InFlight
  <2>4. CASE UNCHANGED due
    BY <2>4
  <2>5. (\E t \in Tasks : WorkerStep(t) \/ SetEnabled(t) \/ DeleteTask(t)) \/ UNCHANGED vars => UNCHANGED due
    BY DEF WorkerStep, StartTask, LoadTask, Screen, Record, RecordBroken, Push, SetEnabled, DeleteTask, Edit, poll, vars
  <2> QED BY <2>1, <2>2, <2>3, <2>4, <2>5 DEF Next
<1>2. AutoInv /\ [Next]_vars =>
        [\A r \in Replicas :
           \A t \in due[r] \ due'[r] : t \in refused'[r] \/ arq'[t] \in {"queued", "running"}]_vars
  BY <1>1
<1> QED BY <1>2, AutoHolds, PTL DEF Spec, PollIsIsolated

-----------------------------------------------------------------------------
(* ScreenRules: a screen prefers the better. Whatever rank a pool is taken  *)
(* off, it lists a stock once (RankIsList, SortIsList, SelectedIsList), so  *)
(* that what a cut leaves out comes after what it shows                     *)
(* (FilteredKeepsOrder). A score goes up with each of its factors           *)
(* (ScoreFollows). Of an industry's leaders the tier is the rank            *)
(* (TierIsRank), and every rank below one's own is taken and listed before  *)
(* (RanksOfGroup, LeadersAreOrdered).                                       *)

\* A list of stocks has each of them once.
Once(list) == \A i, j \in 1..Len(list) : list[i] = list[j] => i = j
Lists == {list \in Seq(Stocks) : Len(list) <= Cardinality(Stocks) /\ Once(list)}

Numbers(S, f) == \A s \in S : f[s] \in Int
Distinct(S, f) == \A s, t \in S : f[s] = f[t] => s = t

LEMMA FunctionIsList ==
  ASSUME NEW S, NEW n \in Nat, NEW f \in [1..n -> S]
  PROVE  f \in Seq(S) /\ Len(f) = n /\ DOMAIN f = 1..n
OBVIOUS

LEMMA ListIsFunction ==
  ASSUME NEW list \in Lists
  PROVE  /\ list \in Seq(Stocks) /\ Len(list) \in Nat /\ DOMAIN list = 1..Len(list)
         /\ list \in [1..Len(list) -> Stocks] /\ Len(list) <= Cardinality(Stocks) /\ Once(list)
BY DEF Lists

LEMMA KeyIsOrder ==
  ASSUME NEW S, NEW key, NEW tie, Numbers(S, key), Numbers(S, tie), Distinct(S, tie)
  PROVE  IsOrder(ByKey(S, key, tie), S)
<1> DEFINE R == ByKey(S, key, tie)
           Before(s, t) == key[s] > key[t] \/ (key[s] = key[t] /\ tie[s] < tie[t])
<1>1. ASSUME NEW s \in S, NEW t \in S PROVE <<s, t>> \in R <=> Before(s, t)
  BY DEF ByKey
<1>2. \A s \in S : key[s] \in Int /\ tie[s] \in Int
  BY DEF Numbers
<1>3. ASSUME NEW s \in S PROVE ~Before(s, s)
  BY <1>2
<1>4. ASSUME NEW s \in S, NEW t \in S, NEW u \in S, Before(s, t), Before(t, u) PROVE Before(s, u)
  BY <1>2, <1>4
<1>5. ASSUME NEW s \in S, NEW t \in S, s # t PROVE Before(s, t) \/ Before(t, s)
  <2>1. tie[s] # tie[t]
    BY <1>5 DEF Distinct
  <2> QED BY <1>2, <2>1
<1> HIDE DEF R, Before
<1>6. /\ \A s \in S : <<s, s>> \notin R
      /\ \A s, t, u \in S : <<s, t>> \in R /\ <<t, u>> \in R => <<s, u>> \in R
      /\ \A s, t \in S : s # t => <<s, t>> \in R \/ <<t, s>> \in R
  BY <1>1, <1>3, <1>4, <1>5
<1> QED BY <1>6 DEF IsOrder, R

\* What a listing is, place by place: every member in one place, in order.
LEMMA ListingHasAll ==
  ASSUME NEW S, IsFiniteSet(S), NEW R, IsOrder(R, S)
  PROVE  /\ Cardinality(S) \in Nat /\ Listing(S, R) \in [1..Cardinality(S) -> S]
         /\ \A s \in S : \E k \in 1..Cardinality(S) : Listing(S, R)[k] = s
         /\ \A j, k \in 1..Cardinality(S) : j < k => <<Listing(S, R)[j], Listing(S, R)[k]>> \in R
         /\ \A j, k \in 1..Cardinality(S) : Listing(S, R)[j] = Listing(S, R)[k] => j = k
<1>1. Cardinality(S) \in Nat
  BY FS_CardinalityType
<1> DEFINE n == Cardinality(S)
           list == Listing(S, R)
<1>2. /\ list \in [1..n -> S] /\ \A s \in S : \E k \in 1..n : list[k] = s
      /\ \A j, k \in 1..n : j < k => <<list[j], list[k]>> \in R
  BY ListingIsSorted
<1>3. ASSUME NEW j \in 1..n, NEW k \in 1..n, list[j] = list[k] PROVE j = k
  <2>1. \A s \in S : <<s, s>> \notin R
    BY DEF IsOrder
  <2>2. j \in Int /\ k \in Int /\ list[j] \in S
    BY <1>2
  <2> HIDE DEF n, list
  <2>3. ~(j < k) /\ ~(k < j)
    BY <1>2, <1>3, <2>1, <2>2
  <2> QED BY <2>2, <2>3
<1> QED BY <1>1, <1>2, <1>3

LEMMA StocksAreFinite == IsFiniteSet(Stocks) /\ Cardinality(Stocks) \in Nat /\ \A s \in Stocks : s \in Nat
BY ScreenAssumption, FS_CardinalityType

LEMMA ListingIsList ==
  ASSUME NEW members \in SUBSET Stocks, NEW R, IsOrder(R, members)
  PROVE  Listing(members, R) \in Lists
<1> DEFINE n == Cardinality(members)
           list == Listing(members, R)
<1>1. IsFiniteSet(members) /\ n \in Nat /\ n <= Cardinality(Stocks)
  BY StocksAreFinite, FS_Subset, FS_CardinalityType
<1>2. list \in [1..n -> members] /\ \A j, k \in 1..n : list[j] = list[k] => j = k
  BY <1>1, ListingHasAll
<1>3. list \in [1..n -> Stocks]
  BY <1>2
<1> HIDE DEF n, list
<1>4. list \in Seq(Stocks) /\ Len(list) = n
  BY <1>1, <1>3, FunctionIsList
<1>5. list \in Lists
  BY <1>1, <1>2, <1>4 DEF Lists, Once
<1> QED BY <1>5 DEF list

LEMMA TakeIsHead ==
  ASSUME NEW S, NEW list \in Seq(S), NEW n \in Nat
  PROVE  /\ Take(list, n) \in Seq(S)
         /\ Len(Take(list, n)) = IF n < Len(list) THEN n ELSE Len(list)
         /\ \A k \in 1..Len(Take(list, n)) : k \in 1..Len(list) /\ Take(list, n)[k] = list[k]
         /\ \A k \in 1..Len(list) : k <= n => k \in 1..Len(Take(list, n))
<1> DEFINE m == IF n < Len(list) THEN n ELSE Len(list)
           head == [k \in 1..m |-> list[k]]
<1>1. m \in Nat /\ m <= Len(list) /\ Len(list) \in Nat /\ m <= n
  OBVIOUS
<1>2. head \in [1..m -> S] /\ \A k \in 1..m : head[k] = list[k]
  BY <1>1
<1>3. head = Take(list, n)
  BY DEF Take
<1>4. \A k \in 1..Len(list) : k <= n => k \in 1..m
  OBVIOUS
<1>5. \A k \in 1..m : k \in 1..Len(list)
  BY <1>1
<1>6. m = IF n < Len(list) THEN n ELSE Len(list)
  OBVIOUS
<1> HIDE DEF m, head
<1>7. head \in Seq(S) /\ Len(head) = m
  BY <1>1, <1>2, FunctionIsList
<1> QED BY <1>2, <1>3, <1>4, <1>5, <1>6, <1>7

LEMMA TakeIsList ==
  ASSUME NEW list \in Lists, NEW n \in Nat
  PROVE  Take(list, n) \in Lists
<1>1. list \in Seq(Stocks) /\ Len(list) \in Nat /\ Len(list) <= Cardinality(Stocks) /\ Once(list)
  BY ListIsFunction
<1>2. PICK head : head = Take(list, n)
  OBVIOUS
<1>3. /\ head \in Seq(Stocks) /\ Len(head) \in Nat /\ Len(head) <= Len(list)
      /\ \A k \in 1..Len(head) : k \in 1..Len(list) /\ head[k] = list[k]
  <2>1. /\ head \in Seq(Stocks) /\ Len(head) = IF n < Len(list) THEN n ELSE Len(list)
        /\ \A k \in 1..Len(head) : k \in 1..Len(list) /\ head[k] = list[k]
    BY <1>1, <1>2, TakeIsHead
  <2> QED BY <1>1, <2>1
<1>4. Once(head)
  BY <1>1, <1>3 DEF Once
<1>5. Len(head) <= Cardinality(Stocks)
  BY ONLY <1>1, <1>3, StocksAreFinite
<1> QED BY <1>2, <1>3, <1>4, <1>5 DEF Lists

Chosen(list, places, f) ==
  /\ f \in [1..Cardinality(places) -> places]
  /\ \A i \in places : \E k \in 1..Cardinality(places) : f[k] = i
  /\ \A j, k \in 1..Cardinality(places) : j < k => f[j] < f[k]

LEMMA SelectedIsList ==
  ASSUME NEW list \in Lists, NEW places \in SUBSET (1..Len(list))
  PROVE  /\ Selected(list, places) \in Lists /\ Len(Selected(list, places)) = Cardinality(places)
         /\ \E f : /\ Chosen(list, places, f)
                   /\ \A k \in 1..Cardinality(places) : Selected(list, places)[k] = list[f[k]]
<1>1. list \in [1..Len(list) -> Stocks] /\ Len(list) \in Nat /\ Len(list) <= Cardinality(Stocks) /\ Once(list)
  BY ListIsFunction
<1> DEFINE R == {p \in places \X places : p[1] < p[2]}
           n == Cardinality(places)
           f == Listing(places, R)
           one == [k \in 1..n |-> list[f[k]]]
<1>2. IsFiniteSet(places) /\ n \in Nat /\ n <= Len(list)
  <2>1. IsFiniteSet(1..Len(list)) /\ Cardinality(1..Len(list)) = Len(list)
    BY <1>1, FS_Interval
  <2> QED BY <2>1, FS_Subset, FS_CardinalityType
<1>3. IsOrder(R, places)
  <2>1. \A i \in places : i \in Int
    OBVIOUS
  <2>2. \A i, j \in places : <<i, j>> \in R <=> i < j
    OBVIOUS
  <2> HIDE DEF R
  <2> QED BY <2>1, <2>2 DEF IsOrder
<1>4. /\ f \in [1..n -> places] /\ \A i \in places : \E k \in 1..n : f[k] = i
      /\ \A j, k \in 1..n : j < k => <<f[j], f[k]>> \in R
      /\ \A j, k \in 1..n : f[j] = f[k] => j = k
  <2> HIDE DEF R
  <2> QED BY <1>2, <1>3, ListingHasAll
<1>5. \A j, k \in 1..n : j < k => f[j] < f[k]
  BY <1>4
<1>6. one = Selected(list, places)
  BY DEF Selected
<1> HIDE DEF f, R
<1>7. one \in [1..n -> Stocks] /\ \A k \in 1..n : one[k] = list[f[k]] /\ f[k] \in 1..Len(list)
  BY <1>1, <1>4
<1> HIDE DEF n, one
<1>8. one \in Seq(Stocks) /\ Len(one) = n
  BY <1>2, <1>7, FunctionIsList
<1>9. Once(one)
  <2> SUFFICES ASSUME NEW j \in 1..n, NEW k \in 1..n, one[j] = one[k] PROVE j = k
    BY <1>8 DEF Once
  <2>1. f[j] = f[k]
    BY <1>1, <1>7 DEF Once
  <2> QED BY <1>4, <2>1
<1>10. n <= Cardinality(Stocks)
  BY ONLY <1>1, <1>2, StocksAreFinite
<1>11. one \in Lists
  BY <1>8, <1>9, <1>10 DEF Lists
<1>12. Chosen(list, places, f)
  BY <1>4, <1>5 DEF Chosen, n
<1> QED BY <1>6, <1>7, <1>8, <1>11, <1>12 DEF n

LEMMA SortIsList ==
  ASSUME NEW list \in Lists, NEW key, Numbers(Stocks, key)
  PROVE  SortBy(list, key) \in Lists /\ Len(SortBy(list, key)) = Len(list)
<1>1. /\ list \in [1..Len(list) -> Stocks] /\ Len(list) \in Nat /\ Len(list) <= Cardinality(Stocks) /\ Once(list)
      /\ DOMAIN list = 1..Len(list)
  BY ListIsFunction
<1> DEFINE S == 1..Len(list)
           value == [i \in S |-> key[list[i]]]
           tie == [i \in S |-> i]
           R == ByKey(S, value, tie)
           n == Cardinality(S)
           f == Listing(S, R)
           one == [k \in 1..n |-> list[f[k]]]
<1>2. IsFiniteSet(S) /\ n = Len(list)
  <2>1. IsFiniteSet(1..Len(list)) /\ Cardinality(1..Len(list)) = Len(list)
    <3>1. PICK m \in Nat : m = Len(list)
      BY <1>1
    <3>2. 1 \in Int /\ m \in Int /\ m - 1 + 1 = m
      OBVIOUS
    <3>3. IsFiniteSet(1..m) /\ Cardinality(1..m) = m
      BY ONLY <3>2, m \in Nat, FS_Interval
    <3> QED BY ONLY <3>1, <3>3
  <2> QED BY <2>1
<1>3. IsOrder(R, S)
  <2>1. Numbers(S, value) /\ Numbers(S, tie) /\ Distinct(S, tie)
    BY <1>1 DEF Numbers, Distinct
  <2> HIDE DEF S, value, tie
  <2> QED BY <2>1, KeyIsOrder
<1>4. f \in [1..n -> S] /\ \A j, k \in 1..n : f[j] = f[k] => j = k
  <2> HIDE DEF R, S
  <2> QED BY <1>2, <1>3, ListingHasAll
<1>5. one = SortBy(list, key)
  BY <1>1 DEF SortBy
<1> HIDE DEF f, R, n
<1>7. one \in [1..n -> Stocks] /\ \A k \in 1..n : one[k] = list[f[k]] /\ f[k] \in 1..Len(list)
  BY <1>1, <1>4
<1> HIDE DEF one
<1>8. one \in Seq(Stocks) /\ Len(one) = n
  BY <1>1, <1>2, <1>7, FunctionIsList
<1>9. Once(one)
  <2> SUFFICES ASSUME NEW j \in 1..n, NEW k \in 1..n, one[j] = one[k] PROVE j = k
    BY <1>8 DEF Once
  <2>1. f[j] = f[k]
    BY <1>1, <1>7 DEF Once
  <2> QED BY <1>4, <2>1
<1>10. one \in Lists
  BY <1>1, <1>2, <1>8, <1>9 DEF Lists
<1> QED BY <1>2, <1>5, <1>8, <1>10

LEMMA FilteredKeepsOrder ==
  ASSUME NEW list \in Lists, NEW t, NEW named \in Nat, Len(list) <= named
  PROVE  LET rows == Filtered(list, t, named)
             R == {rows[k] : k \in 1..Len(rows)}
         IN  /\ rows \in Lists
             /\ \A k \in 1..Len(rows) : Passes(rows[k], t, TRUE)
             /\ \A i \in 1..Len(list) : Passes(list[i], t, TRUE) /\ list[i] \notin R =>
                   Len(rows) = TopN /\ \A j \in 1..Len(list) : list[j] \in R => j < i
<1> DEFINE rows == Filtered(list, t, named)
           R == {rows[k] : k \in 1..Len(rows)}
           places == {i \in 1..Len(list) : Passes(list[i], t, TRUE)}
           passing == Selected(list, places)
           n == Cardinality(places)
<1>1. Len(list) \in Nat /\ DOMAIN list = 1..Len(list) /\ Once(list)
  BY ListIsFunction
<1>2. rows = Take(passing, TopN)
  <2>1. \A i \in 1..Len(list) : i <= named
    BY <1>1
  <2>2. \A i \in 1..Len(list) : (i <= named) = TRUE
    BY <2>1
  <2>3. \A i \in 1..Len(list) : Passes(list[i], t, i <= named) <=> Passes(list[i], t, TRUE)
    BY <2>2 DEF Passes
  <2>4. {i \in DOMAIN list : Passes(list[i], t, i <= named)} = places
    BY <1>1, <2>3
  <2> QED BY <2>4 DEF Filtered
<1>3. /\ passing \in Lists /\ Len(passing) = n
      /\ \E f : Chosen(list, places, f) /\ \A k \in 1..n : passing[k] = list[f[k]]
  <2>1. places \in SUBSET (1..Len(list))
    OBVIOUS
  <2> HIDE DEF places
  <2> QED BY <2>1, SelectedIsList
<1>4. PICK f : Chosen(list, places, f) /\ \A k \in 1..n : passing[k] = list[f[k]]
  BY <1>3
<1>5. TopN \in Nat
  BY ScreenAssumption
<1>6. rows \in Lists
  <2> HIDE DEF rows, passing
  <2> QED BY <1>2, <1>3, <1>5, TakeIsList
<1>7. passing \in Seq(Stocks)
  BY <1>3, ListIsFunction
<1>8. /\ Len(rows) = IF TopN < Len(passing) THEN TopN ELSE Len(passing)
      /\ \A k \in 1..Len(rows) : k \in 1..Len(passing) /\ rows[k] = passing[k]
      /\ \A k \in 1..Len(passing) : k <= TopN => k \in 1..Len(rows)
  <2> HIDE DEF rows, passing
  <2> QED BY <1>2, <1>5, <1>7, TakeIsHead
<1>9. /\ f \in [1..n -> places] /\ \A i \in places : \E k \in 1..n : f[k] = i
      /\ \A j, k \in 1..n : j < k => f[j] < f[k]
  BY <1>4 DEF Chosen
<1>10. n \in Nat
  BY <1>3, ListIsFunction
<1>11. \A i \in places : i \in 1..Len(list) /\ Passes(list[i], t, TRUE)
  OBVIOUS
<1>12. \A i \in 1..Len(list) : Passes(list[i], t, TRUE) => i \in places
  OBVIOUS
<1> HIDE DEF rows, passing, n, places
<1>13. ASSUME NEW k \in 1..Len(rows) PROVE Passes(rows[k], t, TRUE)
  <2>1. k \in 1..n /\ rows[k] = list[f[k]]
    BY <1>3, <1>4, <1>8
  <2>2. f[k] \in places
    BY <1>9, <2>1
  <2> QED BY <1>11, <2>1, <2>2
<1>14. ASSUME NEW i \in 1..Len(list), Passes(list[i], t, TRUE), list[i] \notin R
       PROVE  Len(rows) = TopN /\ \A j \in 1..Len(list) : list[j] \in R => j < i
  <2>1. PICK m \in 1..n : f[m] = i
    BY <1>9, <1>12, <1>14
  <2>2. passing[m] = list[i]
    BY <1>4, <2>1
  <2>3. ~(m \in 1..Len(rows))
    BY <1>8, <1>14, <2>2
  <2>4. m \in Int /\ 1 <= m /\ m <= n /\ ~(m <= TopN)
    BY <1>3, <1>8, <1>10, <2>1, <2>3
  <2>5. Len(rows) = TopN
    BY <1>3, <1>5, <1>8, <1>10, <2>4
  <2>6. ASSUME NEW j \in 1..Len(list), list[j] \in R PROVE j < i
    <3>1. PICK k \in 1..Len(rows) : list[j] = rows[k]
      BY <2>6
    <3>2. k \in 1..n /\ rows[k] = list[f[k]]
      BY <1>3, <1>4, <1>8
    <3>3. f[k] \in 1..Len(list)
      BY <1>9, <1>11, <3>2
    <3>4. j = f[k]
      BY <1>1, <3>1, <3>2, <3>3 DEF Once
    <3>5. k < m
      BY <1>5, <2>4, <2>5, <3>2
    <3> QED BY <1>9, <2>1, <3>2, <3>4, <3>5
  <2> QED BY <2>5, <2>6
<1> QED BY <1>6, <1>13, <1>14 DEF rows

----------------------------------------------------------------------------
MarketIsQuoted == market \in [Stocks -> QuoteShapes]

NumberFields == {"change", "limit", "turnover", "ratio", "amount", "flow", "mv", "pe"}

LEMMA QuotesAreNumbers ==
  ASSUME MarketIsQuoted, NEW s \in Stocks
  PROVE  /\ \A f \in NumberFields : market[s][f] \in Int
         /\ market[s].seal \in Nat
<1>1. market[s] \in QuoteShapes
  BY DEF MarketIsQuoted
<1> QED BY <1>1, ScreenAssumption DEF NumberFields

LEMMA FiguresAreNumbers ==
  ASSUME MarketIsQuoted, NEW s \in Stocks
  PROVE  /\ market[s].change \in Int /\ market[s].limit \in Int /\ market[s].turnover \in Int /\ market[s].ratio \in Int
         /\ market[s].amount \in Int /\ market[s].flow \in Int /\ market[s].mv \in Int /\ market[s].pe \in Int
         /\ market[s].seal \in Nat
BY QuotesAreNumbers DEF NumberFields

LEMMA RankIsList ==
  ASSUME MarketIsQuoted, NEW members \in SUBSET Stocks, NEW field \in NumberFields
  PROVE  Ranked(members, field) \in Lists
<1> DEFINE key == [s \in members |-> market[s][field]]
           tie == [s \in members |-> 0 - s]
<1>1. Numbers(members, key)
  BY QuotesAreNumbers DEF Numbers
<1>2. Numbers(members, tie) /\ Distinct(members, tie)
  <2>1. \A s \in members : s \in Nat
    BY StocksAreFinite
  <2> QED BY <2>1 DEF Numbers, Distinct
<1>3. Ranked(members, field) = Take(Listing(members, ByKey(members, key, tie)), PoolSize)
  BY DEF Ranked
<1> HIDE DEF key, tie
<1>4. IsOrder(ByKey(members, key, tie), members)
  BY <1>1, <1>2, KeyIsOrder
<1>5. Listing(members, ByKey(members, key, tie)) \in Lists
  BY <1>4, ListingIsList
<1>6. PoolSize \in Nat
  BY ScreenAssumption
<1> QED BY <1>3, <1>5, <1>6, TakeIsList

LEMMA TushareIsList ==
  ASSUME NEW key, Numbers(Stocks, key)
  PROVE  TushareRows(key) \in Lists
<1> DEFINE tie == [s \in Stocks |-> s]
<1>1. Numbers(Stocks, tie) /\ Distinct(Stocks, tie)
  BY StocksAreFinite DEF Numbers, Distinct
<1>2. TushareRows(key) = Listing(Stocks, ByKey(Stocks, key, tie))
  BY DEF TushareRows
<1> HIDE DEF tie
<1>3. IsOrder(ByKey(Stocks, key, tie), Stocks)
  BY <1>1, KeyIsOrder
<1>4. Stocks \in SUBSET Stocks
  OBVIOUS
<1> QED BY <1>2, <1>3, <1>4, ListingIsList

LEMMA PoolIsList ==
  ASSUME MarketIsQuoted, NEW kind \in Presets \cup {"theme_hot"}
  PROVE  PresetPool(kind) \in Lists
<1>1. Stocks \in SUBSET Stocks /\ OnRatio \in SUBSET Stocks /\ OnFlow \in SUBSET Stocks /\ OnLimit \in SUBSET Stocks
  BY DEF OnRatio, OnFlow, OnLimit
<1>2. /\ Ranked(Stocks, "turnover") \in Lists /\ Ranked(OnRatio, "ratio") \in Lists /\ Ranked(Stocks, "change") \in Lists
      /\ Ranked(OnLimit, "limit") \in Lists /\ Ranked(OnFlow, "flow") \in Lists
  <2>1. {"turnover", "ratio", "change", "limit", "flow"} \subseteq NumberFields
    BY DEF NumberFields
  <2> QED BY <1>1, <2>1, RankIsList
<1>3. TushareRows([s \in Stocks |-> CheapFirst(s)]) \in Lists
  <2>1. Numbers(Stocks, [s \in Stocks |-> CheapFirst(s)])
    BY FiguresAreNumbers DEF Numbers, CheapFirst
  <2> QED BY <2>1, TushareIsList
<1>4. TushareRows([s \in Stocks |-> Worth(s)]) \in Lists
  <2>1. Numbers(Stocks, [s \in Stocks |-> Worth(s)])
    BY FiguresAreNumbers DEF Numbers, Worth
  <2> QED BY <2>1, TushareIsList
<1> QED BY <1>2, <1>3, <1>4 DEF PresetPool, Presets

LEMMA KeptIsList ==
  ASSUME MarketIsQuoted, NEW kind, NEW pool \in Lists
  PROVE  Kept(kind, pool) \in Lists
<1> DEFINE places == {i \in DOMAIN pool : Rule(kind, pool[i])}
           kept == Selected(pool, places)
<1>1. kept \in Lists
  <2>1. places \in SUBSET (1..Len(pool))
    BY ListIsFunction
  <2> HIDE DEF places
  <2> QED BY <2>1, SelectedIsList
<1>2. Numbers(Stocks, [s \in Stocks |-> SealedKey(s)]) /\ Numbers(Stocks, [s \in Stocks |-> HeatKey(s)])
  BY FiguresAreNumbers DEF Numbers, SealedKey, HeatKey, Limit, Change, Turnover
<1>3. SortBy(kept, [s \in Stocks |-> SealedKey(s)]) \in Lists /\ SortBy(kept, [s \in Stocks |-> HeatKey(s)]) \in Lists
  <2> HIDE DEF kept
  <2> QED BY <1>1, <1>2, SortIsList
<1> QED BY <1>1, <1>3 DEF Kept

----------------------------------------------------------------------------
LEMMA ClampKeepsOrder ==
  ASSUME NEW x \in Int, NEW y \in Int, NEW top \in Nat, x <= y
  PROVE  Clamp(x, top) \in Nat /\ Clamp(y, top) \in Nat /\ Clamp(x, top) <= Clamp(y, top)
BY DEF Clamp

LEMMA DivKeepsOrder ==
  ASSUME NEW x \in Int, NEW y \in Int, NEW n \in Nat \ {0}, x <= y
  PROVE  x \div n \in Int /\ y \div n \in Int /\ x \div n <= y \div n
<1>1. PICK k \in Int : k = x \div n
  OBVIOUS
<1>2. PICK l \in Int : l = y \div n
  OBVIOUS
<1>3. n * k <= x /\ x < n * k + n
  BY <1>1
<1>4. n * l <= y /\ y < n * l + n
  BY <1>2
<1>5. ~(l + 1 <= k)
  <2> SUFFICES ASSUME l + 1 <= k PROVE FALSE
    OBVIOUS
  <2>1. PICK d \in Nat : k = l + 1 + d
    <3>1. k - (l + 1) \in Nat /\ k = l + 1 + (k - (l + 1))
      OBVIOUS
    <3> QED BY <3>1
  <2>2. n * k = n * l + n + n * d /\ n * d \in Nat
    BY <2>1
  <2> QED BY <1>3, <1>4, <2>2
<1> QED BY <1>1, <1>2, <1>5

Figures(q) == \A f \in NumberFields : q[f] \in Int

\* A part of a score: a share of a factor, at most the whole.
Share(x, n) == Clamp((x * 1000) \div n, 1000)
Parts(x, n) == Clamp(x \div n, 1000)

LEMMA SharesKeepOrder ==
  ASSUME NEW x \in Int, NEW y \in Int, NEW n \in Nat \ {0}, x <= y
  PROVE  /\ Share(x, n) \in Nat /\ Share(y, n) \in Nat /\ Share(x, n) <= Share(y, n)
         /\ Parts(x, n) \in Nat /\ Parts(y, n) \in Nat /\ Parts(x, n) <= Parts(y, n)
<1>0. PICK top \in Nat : top = 1000
  OBVIOUS
<1>1. PICK a \in Int, b \in Int : a = x * 1000 /\ b = y * 1000 /\ a <= b
  OBVIOUS
<1>2. a \div n \in Int /\ b \div n \in Int /\ a \div n <= b \div n
  BY <1>1, DivKeepsOrder
<1>3. x \div n \in Int /\ y \div n \in Int /\ x \div n <= y \div n
  BY DivKeepsOrder
<1>4. Clamp(a \div n, top) \in Nat /\ Clamp(b \div n, top) \in Nat /\ Clamp(a \div n, top) <= Clamp(b \div n, top)
  BY <1>2, ClampKeepsOrder
<1>5. Clamp(x \div n, top) \in Nat /\ Clamp(y \div n, top) \in Nat /\ Clamp(x \div n, top) <= Clamp(y \div n, top)
  BY <1>3, ClampKeepsOrder
<1>6. Share(x, n) = Clamp(a \div n, top) /\ Share(y, n) = Clamp(b \div n, top)
  BY <1>0, <1>1 DEF Share
<1>7. Parts(x, n) = Clamp(x \div n, top) /\ Parts(y, n) = Clamp(y \div n, top)
  BY <1>0 DEF Parts
<1> QED BY <1>4, <1>5, <1>6, <1>7

LEMMA ValuationFollows ==
  ASSUME NEW a, NEW b, Figures(a), Figures(b), Dominates(a, b)
  PROVE  Valuation(a) \in Int /\ Valuation(b) \in Int /\ Valuation(b) <= Valuation(a)
<1>1. a.pe \in Int /\ b.pe \in Int /\ a.mv \in Int /\ b.mv \in Int
  BY DEF Figures, NumberFields
<1>2. (a.pe > 0 <=> b.pe > 0) /\ a.pe <= b.pe /\ b.mv <= a.mv
  BY <1>1 DEF Dominates
<1>3. CASE a.pe > 0
  <2>1. PICK x \in Int, y \in Int : x = (40 - b.pe) * 25 /\ y = (40 - a.pe) * 25
    BY <1>1
  <2>2. x <= y /\ 1000 \in Nat
    BY <1>1, <1>2, <2>1
  <2>3. Clamp(x, 1000) <= Clamp(y, 1000) /\ Clamp(x, 1000) \in Nat /\ Clamp(y, 1000) \in Nat
    BY <2>2, ClampKeepsOrder
  <2> QED BY <1>2, <1>3, <2>1, <2>3 DEF Valuation
<1>4. CASE ~(a.pe > 0)
  <2>1. PICK x \in Int, y \in Int : x = b.mv * 10 /\ y = a.mv * 10
    BY <1>1
  <2>4. x <= y /\ 1000 \in Nat
    BY <1>1, <1>2, <2>1
  <2>5. Clamp(x, 1000) <= Clamp(y, 1000) /\ Clamp(x, 1000) \in Nat /\ Clamp(y, 1000) \in Nat
    BY <2>4, ClampKeepsOrder
  <2>2. PICK c \in Nat, d \in Nat : c = Clamp(a.mv * 10, 1000) /\ d = Clamp(b.mv * 10, 1000) /\ d <= c
    BY <2>1, <2>5
  <2>3. c \div 2 \in Int /\ d \div 2 \in Int /\ d \div 2 <= c \div 2
    BY <2>2, DivKeepsOrder
  <2> QED BY <1>2, <1>4, <2>2, <2>3 DEF Valuation
<1> QED BY <1>3, <1>4

\* A quote that is at least as good in every factor has a score at least as high.
LEMMA ScoreFollows ==
  ASSUME NEW a, NEW b, Figures(a), Figures(b), Dominates(a, b), NEW recipe \in Recipes
  PROVE  ScoreOf(recipe, a) \in Int /\ ScoreOf(recipe, b) \in Int /\ ScoreOf(recipe, b) <= ScoreOf(recipe, a)
<1>1. /\ a.change \in Int /\ a.limit \in Int /\ a.turnover \in Int /\ a.ratio \in Int /\ a.amount \in Int /\ a.flow \in Int
      /\ b.change \in Int /\ b.limit \in Int /\ b.turnover \in Int /\ b.ratio \in Int /\ b.amount \in Int /\ b.flow \in Int
  BY DEF Figures, NumberFields
<1>2. /\ b.change <= a.change /\ b.limit <= a.limit /\ b.turnover <= a.turnover /\ b.ratio <= a.ratio
      /\ b.amount <= a.amount /\ b.flow <= a.flow
  BY <1>1 DEF Dominates
<1>3. ASSUME NEW full \in Nat \ {0}
      PROVE Momentum(a, full) \in Nat /\ Momentum(b, full) \in Nat /\ Momentum(b, full) <= Momentum(a, full)
  <2>2. PICK x \in Int, y \in Int : x = b.change /\ y = a.change /\ x <= y
    BY <1>1, <1>2
  <2>3. Share(x, full) \in Nat /\ Share(y, full) \in Nat /\ Share(x, full) <= Share(y, full)
    BY <2>2, SharesKeepOrder
  <2> QED BY <2>2, <2>3 DEF Momentum, Share
<1>4. ASSUME NEW full \in Nat \ {0}
      PROVE Activity(a, full) \in Nat /\ Activity(b, full) \in Nat /\ Activity(b, full) <= Activity(a, full)
  <2>2. PICK x \in Int, y \in Int : x = b.turnover /\ y = a.turnover /\ x <= y
    BY <1>1, <1>2
  <2>3. Share(x, full) \in Nat /\ Share(y, full) \in Nat /\ Share(x, full) <= Share(y, full)
    BY <2>2, SharesKeepOrder
  <2> QED BY <2>2, <2>3 DEF Activity, Share
<1>5. CASE recipe = "intraday_multi"
  <2>1. PICK r \in Nat, s \in Nat : r = Clamp(a.ratio * 20, 1000) /\ s = Clamp(b.ratio * 20, 1000) /\ s <= r
    <3>1. PICK x \in Int, y \in Int : x = b.ratio * 20 /\ y = a.ratio * 20
      BY <1>1
    <3>2. x <= y /\ 1000 \in Nat
      BY <1>1, <1>2, <3>1
    <3>3. Clamp(x, 1000) <= Clamp(y, 1000) /\ Clamp(x, 1000) \in Nat /\ Clamp(y, 1000) \in Nat
      BY <3>2, ClampKeepsOrder
    <3> QED BY <3>1, <3>3
  <2>2. PICK u \in Nat, v \in Nat : u = Clamp(a.amount \div 50, 1000) /\ v = Clamp(b.amount \div 50, 1000) /\ v <= u
    <3>1. PICK n \in Nat \ {0} : n = 50
      OBVIOUS
    <3>2. Parts(a.amount, n) \in Nat /\ Parts(b.amount, n) \in Nat /\ Parts(b.amount, n) <= Parts(a.amount, n)
      BY <1>1, <1>2, SharesKeepOrder
    <3> QED BY <3>1, <3>2 DEF Parts
  <2>3. PICK m \in Nat, n \in Nat : m = Momentum(a, 100) /\ n = Momentum(b, 100) /\ n <= m
    BY <1>3
  <2>4. PICK i \in Nat, j \in Nat : i = Activity(a, 150) /\ j = Activity(b, 150) /\ j <= i
    BY <1>4
  <2>5. ScoreOf(recipe, a) = 35 * m + 25 * i + 25 * r + 15 * u /\ ScoreOf(recipe, b) = 35 * n + 25 * j + 25 * s + 15 * v
    BY <1>5, <2>1, <2>2, <2>3, <2>4 DEF ScoreOf
  <2>6. 35 * n + 25 * j + 25 * s + 15 * v <= 35 * m + 25 * i + 25 * r + 15 * u
    BY <2>1, <2>2, <2>3, <2>4
  <2> QED BY <2>5, <2>6
<1>6. CASE recipe = "ultra_short_unified"
  <2>1. PICK r \in Nat, s \in Nat : r = Clamp((a.limit * 1000) \div 3, 1000) /\ s = Clamp((b.limit * 1000) \div 3, 1000) /\ s <= r
    <3>1. PICK n \in Nat \ {0} : n = 3
      OBVIOUS
    <3>2. Share(a.limit, n) \in Nat /\ Share(b.limit, n) \in Nat /\ Share(b.limit, n) <= Share(a.limit, n)
      BY <1>1, <1>2, SharesKeepOrder
    <3> QED BY <3>1, <3>2 DEF Share
  <2>3. PICK m \in Nat, n \in Nat : m = Momentum(a, 100) /\ n = Momentum(b, 100) /\ n <= m
    BY <1>3
  <2>4. PICK i \in Nat, j \in Nat : i = Activity(a, 200) /\ j = Activity(b, 200) /\ j <= i
    BY <1>4
  <2>5. ScoreOf(recipe, a) = 40 * r + 35 * m + 25 * i /\ ScoreOf(recipe, b) = 40 * s + 35 * n + 25 * j
    BY <1>6, <2>1, <2>3, <2>4 DEF ScoreOf
  <2>6. 40 * s + 35 * n + 25 * j <= 40 * r + 35 * m + 25 * i
    BY <2>1, <2>3, <2>4
  <2> QED BY <2>5, <2>6
<1>7. CASE recipe = "post_close_multi"
  <2>1. PICK r \in Nat, s \in Nat : r = Clamp(a.flow \div 5, 1000) /\ s = Clamp(b.flow \div 5, 1000) /\ s <= r
    <3>1. PICK n \in Nat \ {0} : n = 5
      OBVIOUS
    <3>2. Parts(a.flow, n) \in Nat /\ Parts(b.flow, n) \in Nat /\ Parts(b.flow, n) <= Parts(a.flow, n)
      BY <1>1, <1>2, SharesKeepOrder
    <3> QED BY <3>1, <3>2 DEF Parts
  <2>2. PICK u \in Int, v \in Int : u = Valuation(a) /\ v = Valuation(b) /\ v <= u
    BY ValuationFollows
  <2>3. PICK m \in Nat, n \in Nat : m = Momentum(a, 80) /\ n = Momentum(b, 80) /\ n <= m
    BY <1>3
  <2>4. PICK i \in Nat, j \in Nat : i = Activity(a, 120) /\ j = Activity(b, 120) /\ j <= i
    BY <1>4
  <2>5. ScoreOf(recipe, a) = 40 * r + 30 * m + 20 * i + 10 * u /\ ScoreOf(recipe, b) = 40 * s + 30 * n + 20 * j + 10 * v
    BY <1>7, <2>1, <2>2, <2>3, <2>4 DEF ScoreOf
  <2>6. 40 * s + 30 * n + 20 * j + 10 * v <= 40 * r + 30 * m + 20 * i + 10 * u
    BY <2>1, <2>2, <2>3, <2>4
  <2> QED BY <2>5, <2>6
<1> QED BY <1>5, <1>6, <1>7 DEF Recipes

LEMMA QuoteHasFigures == ASSUME MarketIsQuoted, NEW s \in Stocks PROVE Figures(market[s])
BY QuotesAreNumbers DEF Figures

LEMMA BetterScores == MarketIsQuoted => BetterNeverScoresLess
<1> SUFFICES ASSUME MarketIsQuoted, NEW recipe \in Recipes, NEW a \in Stocks, NEW b \in Stocks,
                    Dominates(market[a], market[b])
             PROVE  ScoreOf(recipe, market[a]) >= ScoreOf(recipe, market[b])
  BY DEF BetterNeverScoresLess
<1>1. Figures(market[a]) /\ Figures(market[b])
  BY QuoteHasFigures
<1>2. PICK x \in Int, y \in Int : x = ScoreOf(recipe, market[a]) /\ y = ScoreOf(recipe, market[b]) /\ y <= x
  BY <1>1, ScoreFollows
<1> QED BY <1>2

LEMMA RecipeIsList ==
  ASSUME MarketIsQuoted, NEW kind \in Recipes
  PROVE  LET sorted == SortBy(RecipePool(kind), [s \in Stocks |-> RecipeScore(kind, s)])
         IN  RecipePool(kind) \in Lists /\ sorted \in Lists /\ Len(sorted) = Len(RecipePool(kind))
<1>1. RecipePool(kind) \in Lists
  <2>1. "flow" \in NumberFields /\ "change" \in NumberFields /\ OnFlow \in SUBSET Stocks /\ Stocks \in SUBSET Stocks
    BY DEF NumberFields, OnFlow
  <2>2. Ranked(OnFlow, "flow") \in Lists /\ Ranked(Stocks, "change") \in Lists
    BY <2>1, RankIsList
  <2> QED BY <2>2 DEF RecipePool
<1>2. Numbers(Stocks, [s \in Stocks |-> RecipeScore(kind, s)])
  <2> SUFFICES ASSUME NEW s \in Stocks PROVE RecipeScore(kind, s) \in Int
    BY DEF Numbers
  <2> DEFINE q == [market[s] EXCEPT !.pe = 0]
  <2>1. Figures(q)
    <3>1. market[s] \in QuoteShapes
      BY DEF MarketIsQuoted
    <3>2. \A f \in NumberFields : f \in DOMAIN market[s]
      BY <3>1, ScreenAssumption DEF NumberFields, QuoteFields
    <3>3. \A f \in NumberFields : q[f] = IF f = "pe" THEN 0 ELSE market[s][f]
      BY <3>2
    <3> QED BY <3>3, QuotesAreNumbers DEF Figures
  <2>2. Dominates(q, q)
    BY <2>1 DEF Dominates, Figures, NumberFields
  <2> HIDE DEF q
  <2>3. ScoreOf(kind, q) \in Int
    BY <2>1, <2>2, ScoreFollows
  <2> QED BY <2>3 DEF RecipeScore, q
<1> QED BY <1>1, <1>2, SortIsList

----------------------------------------------------------------------------
LEMMA PlacesCount ==
  ASSUME NEW pool \in Lists, NEW P \in SUBSET (1..Len(pool))
  PROVE  IsFiniteSet(P) /\ Cardinality(P) \in Nat /\ Cardinality(P) <= Len(pool) /\ (P # {} => Cardinality(P) >= 1)
<1>1. PICK m \in Nat : m = Len(pool)
  BY ListIsFunction
<1>2. IsFiniteSet(1..m) /\ Cardinality(1..m) = m
  <2>1. 1 \in Int /\ m \in Int /\ m - 1 + 1 = m
    OBVIOUS
  <2> QED BY ONLY <2>1, m \in Nat, FS_Interval
<1>3. IsFiniteSet(P) /\ Cardinality(P) \in Nat /\ Cardinality(P) <= m
  BY <1>1, <1>2, FS_Subset, FS_CardinalityType
<1>4. P # {} => Cardinality(P) # 0
  BY <1>3, FS_EmptySet
<1> QED BY <1>1, <1>3, <1>4

\* Some numbers, place by place, have a greatest one.
LEMMA GreatestOfPlaces ==
  ASSUME NEW n \in Nat \ {0}, NEW x, \A i \in 1..n : x[i] \in Nat
  PROVE  Max({x[i] : i \in 1..n}) \in {x[i] : i \in 1..n} /\ \A j \in 1..n : x[j] <= Max({x[i] : i \in 1..n})
<1> DEFINE S == {x[i] : i \in 1..n}
<1>1. \E b \in Nat : \A i \in 1..n : x[i] <= b
  <2>1. 1 \in Int /\ n \in Int
    OBVIOUS
  <2> QED BY <2>1, NumbersAreBounded
<1>2. PICK b \in Nat : \A s \in S : s <= b
  BY <1>1
<1>3. S \subseteq Nat /\ S # {}
  <2>1. x[1] \in S
    OBVIOUS
  <2> QED BY <2>1
<1> HIDE DEF S
<1>4. Max(S) \in S /\ \A s \in S : s <= Max(S)
  BY <1>2, <1>3, MaxIsGreatest
<1> QED BY <1>4 DEF S

LEMMA FlowHasStrongest ==
  ASSUME MarketIsQuoted, NEW pool \in Lists, Len(pool) >= 1
  PROVE  StrongestFlow(pool) \in Nat
<1>1. PICK n \in Nat \ {0} : n = Len(pool) /\ DOMAIN pool = 1..n /\ pool \in [1..n -> Stocks]
  BY ListIsFunction
<1> DEFINE x == [i \in 1..n |-> IF Flow(pool[i]) < 0 THEN 0 - Flow(pool[i]) ELSE Flow(pool[i])]
<1>2. \A i \in 1..n : x[i] \in Nat
  <2> SUFFICES ASSUME NEW i \in 1..n PROVE x[i] \in Nat
    OBVIOUS
  <2>1. pool[i] \in Stocks
    BY <1>1
  <2>2. Flow(pool[i]) \in Int
    BY <2>1, FiguresAreNumbers DEF Flow
  <2> QED BY <2>2
<1>3. StrongestFlow(pool) = Max({x[i] : i \in 1..n})
  BY <1>1 DEF StrongestFlow
<1> HIDE DEF x
<1>4. Max({x[i] : i \in 1..n}) \in {x[i] : i \in 1..n}
  BY <1>2, GreatestOfPlaces
<1> QED BY <1>2, <1>3, <1>4

LEMMA SectorsHaveLargest ==
  ASSUME NEW pool \in Lists, Len(pool) >= 1
  PROVE  LargestSector(pool) \in Nat \ {0}
<1>1. PICK n \in Nat \ {0} : n = Len(pool) /\ DOMAIN pool = 1..n
  BY ListIsFunction
<1> DEFINE x == [i \in 1..n |-> SectorSize(pool, pool[i])]
<1>2. \A i \in 1..n : x[i] \in Nat /\ x[i] >= 1
  <2> SUFFICES ASSUME NEW i \in 1..n PROVE SectorSize(pool, pool[i]) \in Nat /\ SectorSize(pool, pool[i]) >= 1
    OBVIOUS
  <2> DEFINE P == {j \in DOMAIN pool : market[pool[j]].industry = market[pool[i]].industry}
  <2>1. P \in SUBSET (1..Len(pool)) /\ P # {}
    BY <1>1
  <2>2. SectorSize(pool, pool[i]) = Cardinality(P)
    BY DEF SectorSize
  <2> HIDE DEF P
  <2> QED BY <2>1, <2>2, PlacesCount
<1>3. LargestSector(pool) = Max({x[i] : i \in 1..n})
  BY <1>1 DEF LargestSector
<1> HIDE DEF x
<1>4. Max({x[i] : i \in 1..n}) \in {x[i] : i \in 1..n}
  BY <1>2, GreatestOfPlaces
<1> QED BY <1>2, <1>3, <1>4

LEMMA NatDiv ==
  ASSUME NEW x \in Nat, NEW n \in Nat \ {0}
  PROVE  x \div n \in Nat
OBVIOUS

LEMMA ThousandthsAreNumbers ==
  ASSUME NEW x \in Nat, NEW n \in Nat \ {0}
  PROVE  (x * 1000) \div n \in Nat
<1>1. PICK y \in Nat : y = x * 1000
  OBVIOUS
<1> QED BY <1>1, NatDiv

LEMMA LeaderScoreIsNumber ==
  ASSUME MarketIsQuoted, NEW pool \in Lists, NEW i \in 1..Len(pool)
  PROVE  LeaderScore(pool, pool[i]) \in Nat
<1> DEFINE s == pool[i]
           q == market[s]
           A == IF q.limit = 0 THEN 200 ELSE Clamp(q.limit * 200, 1000)
           C == IF q.amount <= 0 THEN 0 ELSE (AmountRank(pool, s) * 1000) \div Len(pool)
           E == IF StrongestFlow(pool) = 0 \/ q.flow <= 0 THEN 0 ELSE (q.flow * 1000) \div StrongestFlow(pool)
           F == (SectorSize(pool, s) * 1000) \div LargestSector(pool)
<1>0. s \in Stocks /\ Len(pool) \in Nat \ {0} /\ Len(pool) >= 1 /\ DOMAIN pool = 1..Len(pool)
  BY ListIsFunction
<1>1. q.limit \in Int /\ q.amount \in Int /\ q.flow \in Int /\ q.change \in Int /\ q.seal \in Nat
  BY <1>0, FiguresAreNumbers
<1>2. A \in Nat
  BY <1>1 DEF Clamp
<1>3. SealQuality(q) \in Nat
  BY <1>1 DEF SealQuality, Clamp
<1>4. C \in Nat
  <2>1. AmountRank(pool, s) \in Nat
    <3> DEFINE P == {j \in DOMAIN pool : Amount(pool[j]) <= Amount(s)}
    <3>1. P \in SUBSET (1..Len(pool))
      BY <1>0
    <3>2. AmountRank(pool, s) = Cardinality(P)
      BY DEF AmountRank
    <3> HIDE DEF P
    <3> QED BY <3>1, <3>2, PlacesCount
  <2>2. (AmountRank(pool, s) * 1000) \div Len(pool) \in Nat
    BY <1>0, <2>1, ThousandthsAreNumbers
  <2> QED BY <2>2
<1>5. E \in Nat
  <2>1. StrongestFlow(pool) \in Nat
    BY <1>0, FlowHasStrongest
  <2>2. CASE StrongestFlow(pool) = 0 \/ q.flow <= 0
    BY <2>2
  <2>3. CASE ~(StrongestFlow(pool) = 0 \/ q.flow <= 0)
    <3>1. PICK n \in Nat \ {0}, x \in Nat : n = StrongestFlow(pool) /\ x = q.flow
      BY <1>1, <2>1, <2>3
    <3>2. (x * 1000) \div n \in Nat
      BY ThousandthsAreNumbers
    <3> QED BY <2>3, <3>1, <3>2
  <2> QED BY <2>2, <2>3
<1>6. F \in Nat
  <2>1. SectorSize(pool, s) \in Nat
    <3> DEFINE P == {j \in DOMAIN pool : market[pool[j]].industry = market[s].industry}
    <3>1. P \in SUBSET (1..Len(pool))
      BY <1>0
    <3>2. SectorSize(pool, s) = Cardinality(P)
      BY DEF SectorSize
    <3> HIDE DEF P
    <3> QED BY <3>1, <3>2, PlacesCount
  <2>2. LargestSector(pool) \in Nat \ {0}
    BY <1>0, SectorsHaveLargest
  <2> QED BY <2>1, <2>2, ThousandthsAreNumbers
<1>7. LeaderScore(pool, s) = 28 * A + 16 * SealQuality(q) + 16 * C + 12 * q.seal + 15 * E + 13 * F
  BY DEF LeaderScore
<1> HIDE DEF A, C, E, F
<1>8. PICK a \in Nat, b \in Nat, c \in Nat, d \in Nat, e \in Nat, f \in Nat :
        a = A /\ b = SealQuality(q) /\ c = C /\ d = q.seal /\ e = E /\ f = F
  BY <1>1, <1>2, <1>3, <1>4, <1>5, <1>6
<1>9. 28 * a + 16 * b + 16 * c + 12 * d + 15 * e + 13 * f \in Nat
  OBVIOUS
<1> QED BY <1>7, <1>8, <1>9

IndustryOf(pool, i) == market[pool[i]].industry

\* The stocks of an industry are ordered, and so are the industries.
LEMMA GroupIsOrdered ==
  ASSUME MarketIsQuoted, NEW pool \in Lists, NEW x
  PROVE  /\ Group(pool, x) \in SUBSET (1..Len(pool)) /\ IsFiniteSet(Group(pool, x))
         /\ IsOrder(InGroup(pool, x), Group(pool, x))
         /\ InGroup(pool, x) \subseteq Group(pool, x) \X Group(pool, x)
<1> DEFINE G == Group(pool, x)
           key == [i \in G |-> LeaderScore(pool, pool[i])]
           tie == [i \in G |-> i]
<1>1. G \in SUBSET (1..Len(pool))
  BY ListIsFunction DEF Group
<1>2. IsFiniteSet(G)
  <2> HIDE DEF G
  <2> QED BY <1>1, PlacesCount
<1>3. Numbers(G, key)
  <2> SUFFICES ASSUME NEW i \in G PROVE key[i] \in Int
    BY DEF Numbers
  <2>1. LeaderScore(pool, pool[i]) \in Nat
    <3>1. i \in 1..Len(pool)
      BY <1>1
    <3> QED BY <3>1, LeaderScoreIsNumber
  <2> QED BY <2>1
<1>4. Numbers(G, tie) /\ Distinct(G, tie)
  <2>1. \A i \in G : i \in Int
    BY <1>1
  <2> QED BY <2>1 DEF Numbers, Distinct
<1>5. InGroup(pool, x) = ByKey(G, key, tie)
  BY DEF InGroup
<1>6. ByKey(G, key, tie) \subseteq G \X G
  BY DEF ByKey
<1> HIDE DEF key, tie
<1> QED BY <1>1, <1>2, <1>3, <1>4, <1>5, <1>6, KeyIsOrder

LEMMA IndustriesAreOrdered ==
  ASSUME MarketIsQuoted, NEW pool \in Lists
  PROVE  /\ IsOrder(IndustryOrder(pool), Industries(pool))
         /\ IndustryOrder(pool) \subseteq Industries(pool) \X Industries(pool)
<1> DEFINE I == Industries(pool)
           key == [x \in I |-> Best(pool, x)]
           tie == [x \in I |-> Min(Group(pool, x))]
<1>1. ASSUME NEW x \in I PROVE Group(pool, x) # {} /\ Group(pool, x) \in SUBSET (1..Len(pool))
  BY ListIsFunction DEF Industries, Group
<1>2. ASSUME NEW x \in I PROVE Min(Group(pool, x)) \in Group(pool, x) /\ Min(Group(pool, x)) \in Int
  <2>1. Group(pool, x) \subseteq Nat
    BY <1>1
  <2> QED BY <1>1, <2>1, MinIsLeast
<1>3. Numbers(I, tie)
  BY <1>2 DEF Numbers
<1>4. Distinct(I, tie)
  <2> SUFFICES ASSUME NEW x \in I, NEW y \in I, tie[x] = tie[y] PROVE x = y
    BY DEF Distinct
  <2>1. PICK i : i \in Group(pool, x) /\ i \in Group(pool, y)
    BY <1>2
  <2> QED BY <2>1 DEF Group
<1>5. Numbers(I, key)
  <2> SUFFICES ASSUME NEW x \in I PROVE Best(pool, x) \in Int
    BY DEF Numbers
  <2> DEFINE S == {LeaderScore(pool, pool[i]) : i \in Group(pool, x)}
             score == [i \in 1..Len(pool) |-> LeaderScore(pool, pool[i])]
  <2>1. \A i \in 1..Len(pool) : score[i] \in Nat
    BY LeaderScoreIsNumber
  <2>2. S \subseteq Nat /\ S # {}
    BY <1>1, LeaderScoreIsNumber
  <2>3. \E b \in Nat : \A i \in 1..Len(pool) : score[i] <= b
    <3>1. 1 \in Int /\ Len(pool) \in Int
      BY ListIsFunction
    <3> HIDE DEF score
    <3> QED BY <2>1, <3>1, NumbersAreBounded
  <2>4. PICK b \in Nat : \A s \in S : s <= b
    BY <1>1, <2>3
  <2>5. Best(pool, x) = Max(S)
    BY DEF Best
  <2> HIDE DEF S
  <2>6. Max(S) \in S
    BY <2>2, <2>4, MaxIsGreatest
  <2>7. Max(S) \in Nat
    BY <2>2, <2>6
  <2> QED BY ONLY <2>5, <2>7
<1>6. IndustryOrder(pool) = ByKey(I, key, tie)
  BY DEF IndustryOrder
<1>7. ByKey(I, key, tie) \subseteq I \X I
  BY DEF ByKey
<1> HIDE DEF key, tie
<1> QED BY <1>3, <1>4, <1>5, <1>6, <1>7, KeyIsOrder

----------------------------------------------------------------------------
\* The places of the leaders in a pool, and the order they are listed in.
RankIn(pool, i) == Cardinality(Earlier(Group(pool, IndustryOf(pool, i)), InGroup(pool, IndustryOf(pool, i)), i))

LeaderOrder(pool, places) ==
  {p \in places \X places : \/ <<IndustryOf(pool, p[1]), IndustryOf(pool, p[2])>> \in IndustryOrder(pool)
                            \/ p \in InGroup(pool, IndustryOf(pool, p[1]))}

LEMMA LeadersAreOrdered ==
  ASSUME MarketIsQuoted, NEW pool \in Lists, NEW places \in SUBSET (1..Len(pool))
  PROVE  IsOrder(LeaderOrder(pool, places), places)
<1> DEFINE R == LeaderOrder(pool, places)
           IO == IndustryOrder(pool)
           ind(i) == IndustryOf(pool, i)
<1>1. ASSUME NEW i \in places PROVE ind(i) \in Industries(pool) /\ i \in Group(pool, ind(i))
  BY ListIsFunction DEF IndustryOf, Industries, Group
<1>2. IsOrder(IO, Industries(pool))
  BY IndustriesAreOrdered
<1>3. ASSUME NEW x
      PROVE  /\ IsOrder(InGroup(pool, x), Group(pool, x))
             /\ InGroup(pool, x) \subseteq Group(pool, x) \X Group(pool, x)
  BY GroupIsOrdered
<1>4. ASSUME NEW i, NEW j, NEW x, <<i, j>> \in InGroup(pool, x) PROVE ind(i) = x /\ ind(j) = x
  <2>1. i \in Group(pool, x) /\ j \in Group(pool, x)
    BY <1>3, <1>4
  <2> QED BY <2>1 DEF Group, IndustryOf
<1>5. ASSUME NEW i \in places, NEW j \in places
      PROVE  <<i, j>> \in R <=> <<ind(i), ind(j)>> \in IO \/ <<i, j>> \in InGroup(pool, ind(i))
  BY DEF LeaderOrder
<1>6. \A x \in Industries(pool) : <<x, x>> \notin IO
  BY <1>2 DEF IsOrder
<1> HIDE DEF R, IO, ind
<1>7. ASSUME NEW i \in places PROVE <<i, i>> \notin R
  <2>1. <<ind(i), ind(i)>> \notin IO
    BY <1>1, <1>6
  <2>2. <<i, i>> \notin InGroup(pool, ind(i))
    BY <1>1, <1>3 DEF IsOrder
  <2> QED BY <1>5, <2>1, <2>2
<1>8. ASSUME NEW i \in places, NEW j \in places, NEW k \in places, <<i, j>> \in R, <<j, k>> \in R PROVE <<i, k>> \in R
  <2>1. CASE <<i, j>> \in InGroup(pool, ind(i))
    <3>1. ind(j) = ind(i)
      BY <1>4, <2>1
    <3>2. CASE <<ind(j), ind(k)>> \in IO
      BY <1>5, <3>1, <3>2
    <3>3. CASE <<j, k>> \in InGroup(pool, ind(j))
      <4>1. ind(k) = ind(i)
        BY <1>4, <3>1, <3>3
      <4>2. i \in Group(pool, ind(i)) /\ j \in Group(pool, ind(i)) /\ k \in Group(pool, ind(i))
        BY <1>1, <3>1, <4>1
      <4>3. <<i, k>> \in InGroup(pool, ind(i))
        BY <1>3, <2>1, <3>1, <3>3, <4>2 DEF IsOrder
      <4> QED BY <1>5, <4>3
    <3> QED BY <1>5, <1>8, <3>2, <3>3
  <2>2. CASE <<ind(i), ind(j)>> \in IO
    <3>1. CASE <<j, k>> \in InGroup(pool, ind(j))
      <4>1. ind(k) = ind(j)
        BY <1>4, <3>1
      <4> QED BY <1>5, <2>2, <4>1
    <3>2. CASE <<ind(j), ind(k)>> \in IO
      <4>1. <<ind(i), ind(k)>> \in IO
        BY <1>1, <1>2, <2>2, <3>2 DEF IsOrder
      <4> QED BY <1>5, <4>1
    <3> QED BY <1>5, <1>8, <3>1, <3>2
  <2> QED BY <1>5, <1>8, <2>1, <2>2
<1>9. ASSUME NEW i \in places, NEW j \in places, i # j PROVE <<i, j>> \in R \/ <<j, i>> \in R
  <2>1. CASE ind(i) = ind(j)
    <3>1. i \in Group(pool, ind(i)) /\ j \in Group(pool, ind(i))
      BY <1>1, <2>1
    <3>2. <<i, j>> \in InGroup(pool, ind(i)) \/ <<j, i>> \in InGroup(pool, ind(i))
      BY <1>3, <1>9, <3>1 DEF IsOrder
    <3> QED BY <1>5, <2>1, <3>2
  <2>2. CASE ind(i) # ind(j)
    <3>1. <<ind(i), ind(j)>> \in IO \/ <<ind(j), ind(i)>> \in IO
      BY <1>1, <1>2, <2>2 DEF IsOrder
    <3> QED BY <1>5, <3>1
  <2> QED BY <2>1, <2>2
<1> QED BY <1>7, <1>8, <1>9 DEF IsOrder, R

\* Two stocks of an industry have different ranks, and before one of rank two there
\* are one of rank none and one of rank one.
LEMMA RanksOfGroup ==
  ASSUME MarketIsQuoted, NEW pool \in Lists, NEW i \in 1..Len(pool)
  PROVE  LET x == IndustryOf(pool, i)
         IN  /\ RankIn(pool, i) \in Nat
             /\ \A j \in 1..Len(pool) : IndustryOf(pool, j) = x /\ RankIn(pool, j) = RankIn(pool, i) => j = i
             /\ \A d \in Nat : d < RankIn(pool, i) =>
                   \E j \in 1..Len(pool) : /\ IndustryOf(pool, j) = x /\ RankIn(pool, j) = d
                                           /\ <<j, i>> \in InGroup(pool, x)
<1> DEFINE x == IndustryOf(pool, i)
           G == Group(pool, x)
           R == InGroup(pool, x)
           rank(j) == Cardinality(Earlier(G, R, j))
<1>1. /\ G \in SUBSET (1..Len(pool)) /\ IsFiniteSet(G) /\ IsOrder(R, G)
  BY GroupIsOrdered
<1>2. \A j \in 1..Len(pool) : IndustryOf(pool, j) = x <=> j \in G
  BY ListIsFunction DEF Group, IndustryOf
<1>3. \A j \in G : RankIn(pool, j) = rank(j) /\ IndustryOf(pool, j) = x
  <2>1. \A j \in G : IndustryOf(pool, j) = x
    BY <1>1, <1>2
  <2> QED BY <2>1 DEF RankIn
<1>4. i \in G
  BY <1>2
<1> HIDE DEF x, G, R
<1>5. ASSUME NEW j \in G
      PROVE  /\ rank(j) \in Nat /\ rank(j) + 1 <= Cardinality(G)
             /\ \A k \in G : <<j, k>> \in R => rank(j) + 1 <= rank(k)
  BY <1>1, EarlierCountsLess
<1>6. Cardinality(G) \in Nat
  BY <1>1, FS_CardinalityType
<1> HIDE DEF rank
<1>7. ASSUME NEW j \in 1..Len(pool), IndustryOf(pool, j) = x, RankIn(pool, j) = RankIn(pool, i) PROVE j = i
  <2> SUFFICES ASSUME j # i PROVE FALSE
    OBVIOUS
  <2>1. j \in G /\ rank(j) = rank(i)
    BY <1>2, <1>3, <1>4, <1>7
  <2>2. <<i, j>> \in R \/ <<j, i>> \in R
    BY <1>1, <1>4, <2>1 DEF IsOrder
  <2>3. rank(i) \in Nat /\ rank(i) + 1 <= rank(i)
    BY <1>4, <1>5, <2>1, <2>2
  <2> QED BY <2>3
<1>8. ASSUME NEW d \in Nat, d < rank(i) PROVE \E j \in G : rank(j) = d /\ <<j, i>> \in R
  <2>1. d < Cardinality(G)
    BY <1>4, <1>5, <1>6, <1>8
  <2>2. \E j \in G : rank(j) = d
    BY <1>1, <2>1, EveryRankIsTaken DEF rank
  <2>3. PICK j \in G : rank(j) = d
    BY <2>2
  <2>4. j # i
    BY <1>4, <1>5, <1>8, <2>3
  <2>5. ~(<<i, j>> \in R)
    <3>1. <<i, j>> \in R => rank(i) + 1 <= d
      BY <1>4, <1>5, <2>3
    <3>2. rank(i) \in Nat
      BY <1>4, <1>5
    <3> QED BY <1>8, <3>1, <3>2
  <2>6. <<j, i>> \in R
    BY <1>1, <1>4, <2>4, <2>5 DEF IsOrder
  <2> QED BY <2>3, <2>6
<1>9. ASSUME NEW d \in Nat, d < RankIn(pool, i)
      PROVE \E j \in 1..Len(pool) : IndustryOf(pool, j) = x /\ RankIn(pool, j) = d /\ <<j, i>> \in R
  <2>1. d < rank(i)
    BY <1>3, <1>4, <1>9
  <2>2. PICK j \in G : rank(j) = d /\ <<j, i>> \in R
    BY <1>8, <2>1
  <2>3. j \in 1..Len(pool) /\ IndustryOf(pool, j) = x /\ RankIn(pool, j) = d
    BY <1>1, <1>3, <2>2
  <2> QED BY <2>2, <2>3
<1>10. RankIn(pool, i) \in Nat
  BY <1>3, <1>4, <1>5
<1> QED BY <1>7, <1>9, <1>10 DEF x, R

LEMMA TierIsRank ==
  ASSUME MarketIsQuoted, NEW pool \in Lists, NEW i \in 1..Len(pool)
  PROVE  /\ TierOf(pool, i) = "dragon_1" <=> RankIn(pool, i) = 0
         /\ TierOf(pool, i) = "dragon_2" <=> RankIn(pool, i) = 1
         /\ TierOf(pool, i) = "follower" => RankIn(pool, i) > 1
         /\ TierOf(pool, i) \in {"dragon_1", "dragon_2", "follower", "none"}
<1>1. PICK r \in Nat : r = RankIn(pool, i)
  BY RanksOfGroup
<1>2. TierOf(pool, i) = Tier(r + 1, LeaderScore(pool, pool[i]))
  BY <1>1 DEF TierOf, RankIn, IndustryOf
<1>3. /\ (r + 1 = 1 <=> r = 0) /\ (r + 1 = 2 <=> r = 1) /\ (r # 0 /\ r # 1 => r > 1)
  OBVIOUS
<1> QED BY <1>1, <1>2, <1>3 DEF Tier

\* What the rows of a leader screen say.
RowsAreLed(pool, rows) ==
  /\ \A k \in 1..Len(rows) : \E i \in 1..Len(pool) : rows[k].stock = pool[i]
  /\ \A j, k \in 1..Len(rows) :
        (/\ rows[j].tier = rows[k].tier /\ rows[k].tier # "follower"
         /\ market[rows[j].stock].industry = market[rows[k].stock].industry) => j = k
  /\ \A k \in 1..Len(rows) : rows[k].tier = "follower" =>
        \A tier \in {"dragon_1", "dragon_2"} :
            \E j \in 1..(k-1) : /\ rows[j].tier = tier
                                /\ market[rows[j].stock].industry = market[rows[k].stock].industry

LEMMA LeadersLead ==
  ASSUME MarketIsQuoted, NEW pool \in Lists, NEW mainline, NEW noFollowers
  PROVE  LET rows == Leaders(pool, mainline, noFollowers)
         IN  /\ Len(rows) \in Nat /\ DOMAIN rows = 1..Len(rows)
             /\ RowsAreLed(pool, rows)
<1> DEFINE strong == {x \in Industries(pool) : x /= "unknown" /\ Cardinality(Group(pool, x)) >= 2}
           picked == IF mainline /\ strong /= {} THEN strong ELSE Industries(pool)
           places == {i \in 1..Len(pool) : /\ IndustryOf(pool, i) \in picked /\ TierOf(pool, i) /= "none"
                                          /\ ~(noFollowers /\ TierOf(pool, i) = "follower")}
           R == LeaderOrder(pool, places)
           place == Listing(places, R)
           n == Cardinality(places)
           row(i) == [stock |-> pool[i], tier |-> TierOf(pool, i)]
           list == [k \in 1..n |-> row(place[k])]
           rows == Leaders(pool, mainline, noFollowers)
<1>1. DOMAIN pool = 1..Len(pool)
  BY ListIsFunction
<1>2. rows = Take(list, TopN)
  BY <1>1 DEF Leaders, IndustryOf, LeaderOrder
<1>3. places \in SUBSET (1..Len(pool))
  OBVIOUS
<1>4. IsFiniteSet(places) /\ n \in Nat
  <2> HIDE DEF places
  <2> QED BY <1>3, PlacesCount
<1>5. IsOrder(R, places)
  <2> HIDE DEF places
  <2> QED BY <1>3, LeadersAreOrdered
<1>6. /\ place \in [1..n -> places] /\ \A i \in places : \E k \in 1..n : place[k] = i
      /\ \A j, k \in 1..n : j < k => <<place[j], place[k]>> \in R
      /\ \A j, k \in 1..n : place[j] = place[k] => j = k
  <2> HIDE DEF places, R
  <2> QED BY <1>4, <1>5, ListingHasAll
<1>7. ASSUME NEW i \in places
      PROVE  /\ i \in 1..Len(pool) /\ IndustryOf(pool, i) \in picked /\ TierOf(pool, i) # "none"
             /\ \A j \in 1..Len(pool) : IndustryOf(pool, j) = IndustryOf(pool, i) /\ TierOf(pool, j) \in {"dragon_1", "dragon_2"}
                   => j \in places
  OBVIOUS
<1>8. ASSUME NEW i \in places, NEW j \in places, <<j, i>> \in InGroup(pool, IndustryOf(pool, j)) PROVE <<j, i>> \in R
  BY <1>8 DEF LeaderOrder
<1>9. \A i, j \in places : <<i, j>> \in R => ~(<<j, i>> \in R)
  BY <1>5 DEF IsOrder
<1>10. ASSUME NEW i PROVE row(i).stock = pool[i] /\ row(i).tier = TierOf(pool, i)
  OBVIOUS
<1>11. TopN \in Nat
  BY ScreenAssumption
<1> HIDE DEF picked, places, R, place, row
<1>12. PICK S : S = {row(i) : i \in places}
  OBVIOUS
<1>13. list \in [1..n -> S] /\ \A k \in 1..n : list[k] = row(place[k])
  BY <1>6, <1>12
<1> HIDE DEF n, list, rows
<1>14. list \in Seq(S) /\ Len(list) = n
  BY <1>4, <1>13, FunctionIsList
<1>15. /\ rows \in Seq(S)
       /\ Len(rows) = IF TopN < n THEN TopN ELSE n
       /\ \A k \in 1..Len(rows) : k \in 1..n /\ rows[k] = list[k]
       /\ \A k \in 1..n : k <= TopN => k \in 1..Len(rows)
  BY <1>2, <1>11, <1>14, TakeIsHead
<1>16. Len(rows) \in Nat /\ DOMAIN rows = 1..Len(rows)
  BY <1>15
<1>17. ASSUME NEW k \in 1..Len(rows)
       PROVE  /\ k \in 1..n /\ place[k] \in places /\ place[k] \in 1..Len(pool)
              /\ rows[k].stock = pool[place[k]] /\ rows[k].tier = TierOf(pool, place[k])
              /\ market[rows[k].stock].industry = IndustryOf(pool, place[k])
  <2>1. k \in 1..n /\ rows[k] = row(place[k])
    BY <1>13, <1>15
  <2>2. place[k] \in places /\ place[k] \in 1..Len(pool)
    BY <1>6, <1>7, <2>1
  <2>3. rows[k].stock = pool[place[k]] /\ rows[k].tier = TierOf(pool, place[k])
    BY <1>10, <2>1
  <2> QED BY <2>1, <2>2, <2>3 DEF IndustryOf
<1>18. ASSUME NEW j \in 1..Len(rows), NEW k \in 1..Len(rows),
              rows[j].tier = rows[k].tier, rows[k].tier # "follower",
              market[rows[j].stock].industry = market[rows[k].stock].industry
       PROVE  j = k
  <2>1. TierOf(pool, place[j]) = TierOf(pool, place[k]) /\ TierOf(pool, place[k]) \in {"dragon_1", "dragon_2"}
    <3>1. TierOf(pool, place[k]) # "none" /\ TierOf(pool, place[k]) # "follower"
      BY <1>7, <1>17, <1>18
    <3> QED BY <1>17, <1>18, <3>1, TierIsRank
  <2>2. RankIn(pool, place[j]) = RankIn(pool, place[k])
    BY <1>17, <2>1, TierIsRank
  <2>3. IndustryOf(pool, place[j]) = IndustryOf(pool, place[k])
    BY <1>17, <1>18
  <2>4. place[j] = place[k]
    BY <1>17, <2>2, <2>3, RanksOfGroup
  <2> QED BY <1>6, <1>17, <2>4
<1>19. ASSUME NEW k \in 1..Len(rows), rows[k].tier = "follower", NEW tier \in {"dragon_1", "dragon_2"}
       PROVE  \E j \in 1..(k-1) : rows[j].tier = tier /\ market[rows[j].stock].industry = market[rows[k].stock].industry
  <2>1. PICK i \in 1..Len(pool) : i = place[k] /\ i \in places /\ TierOf(pool, i) = "follower"
    BY <1>17, <1>19
  <2>2. RankIn(pool, i) > 1 /\ RankIn(pool, i) \in Nat
    BY <2>1, TierIsRank, RanksOfGroup
  <2>3. PICK d \in Nat : d < RankIn(pool, i) /\ (tier = "dragon_1" => d = 0) /\ (tier = "dragon_2" => d = 1)
    <3>1. CASE tier = "dragon_1"
      BY <2>2, <3>1
    <3>2. CASE tier = "dragon_2"
      BY <2>2, <3>2
    <3> QED BY <3>1, <3>2
  <2>4. PICK j \in 1..Len(pool) : /\ IndustryOf(pool, j) = IndustryOf(pool, i) /\ RankIn(pool, j) = d
                                  /\ <<j, i>> \in InGroup(pool, IndustryOf(pool, i))
    BY <2>3, RanksOfGroup
  <2>5. TierOf(pool, j) = tier
    BY <2>3, <2>4, TierIsRank
  <2>6. j \in places
    BY <1>7, <2>1, <2>4, <2>5
  <2>7. <<j, i>> \in R
    BY <1>8, <2>1, <2>4, <2>6
  <2>8. PICK m \in 1..n : place[m] = j
    BY <1>6, <2>6
  <2>9. m < k
    <3>1. k \in 1..n /\ m \in Int /\ k \in Int
      BY <1>17
    <3>2. ~(k < m)
      BY <1>6, <1>9, <2>1, <2>6, <2>7, <2>8, <3>1
    <3>3. m # k
      BY <1>9, <2>1, <2>7, <2>8
    <3> QED BY <3>1, <3>2, <3>3
  <2>10. m \in 1..Len(rows) /\ m \in 1..(k-1)
    BY <1>16, <2>9
  <2>11. rows[m].tier = tier /\ market[rows[m].stock].industry = IndustryOf(pool, i)
    BY <1>17, <2>4, <2>5, <2>8, <2>10
  <2> QED BY <1>17, <2>1, <2>10, <2>11
<1>20. \A k \in 1..Len(rows) : \E i \in 1..Len(pool) : rows[k].stock = pool[i]
  BY <1>17
<1>21. RowsAreLed(pool, rows)
  BY <1>18, <1>19, <1>20 DEF RowsAreLed
<1> QED BY <1>16, <1>21 DEF rows

----------------------------------------------------------------------------
\* Every row whose name a screen needs to know has one.
AllAreNamed == Cardinality(Stocks) <= NameLimit

LEMMA LooserKeeps == MarketIsQuoted => LooserKeepsMore
<1> SUFFICES ASSUME MarketIsQuoted, NEW s \in Stocks
             PROVE  /\ Passes(s, "conservative", TRUE) => Passes(s, "balanced", TRUE)
                    /\ Passes(s, "balanced", TRUE) => Passes(s, "aggressive", TRUE)
  BY DEF LooserKeepsMore
<1>1. market[s].amount \in Int /\ market[s].mv \in Int
  BY FiguresAreNumbers
<1>2. /\ TooSmall(market[s].amount, 3000) => TooSmall(market[s].amount, 5000)
      /\ TooSmall(market[s].amount, 500) => TooSmall(market[s].amount, 3000)
      /\ TooSmall(market[s].mv, 50) => TooSmall(market[s].mv, 100)
      /\ TooSmall(market[s].mv, 20) => TooSmall(market[s].mv, 50)
  BY <1>1 DEF TooSmall
<1> QED BY <1>2 DEF Passes, Templates

LEMMA PassesStays ==
  ASSUME market' = market, NEW s, NEW t, NEW named
  PROVE  Passes(s, t, named)' <=> Passes(s, t, named)
BY DEF Passes

\* A list that is filtered and cut leaves out only what is refused or comes later.
LEMMA FilteredIsFair ==
  ASSUME market' = market, NEW kind \in Kinds, NEW t \in TemplateNames, NEW pool, NEW list \in Lists,
         NEW named \in Nat, Len(list) <= named, Listed(kind, t, pool, list, Plain(Filtered(list, t, named)))
  PROVE  LeftOutIsWorse' /\ NoStIsPicked' /\ LeadersComeFirst'
<1> DEFINE rows == Filtered(list, t, named)
           R == {rows[k] : k \in 1..Len(rows)}
<1>1. /\ rows \in Lists
      /\ \A k \in 1..Len(rows) : Passes(rows[k], t, TRUE)
      /\ \A i \in 1..Len(list) : Passes(list[i], t, TRUE) /\ list[i] \notin R =>
            Len(rows) = TopN /\ \A j \in 1..Len(list) : list[j] \in R => j < i
  BY FilteredKeepsOrder
<1>2. Len(rows) \in Nat /\ DOMAIN rows = 1..Len(rows) /\ DOMAIN list = 1..Len(list)
  BY <1>1, ListIsFunction
<1>3. /\ result'.kind = kind /\ result'.template = t /\ result'.list = list /\ result'.rows = Plain(rows)
  BY DEF Listed
<1> HIDE DEF rows
<1>4. /\ DOMAIN Plain(rows) = 1..Len(rows) /\ Len(Plain(rows)) = Len(rows)
      /\ \A k \in 1..Len(rows) : Plain(rows)[k].stock = rows[k]
  BY <1>2 DEF Plain
<1>5. Rows' = R
  BY <1>3, <1>4 DEF Rows
<1> HIDE DEF R
<1>6. NoStIsPicked'
  <2> SUFFICES ASSUME NEW s \in Rows' PROVE ~market'[s].st /\ ~market'[s].suspended
    BY DEF NoStIsPicked
  <2>1. Passes(s, t, TRUE)
    BY <1>1, <1>5 DEF R
  <2> QED BY <2>1 DEF Passes
<1>7. LeftOutIsWorse'
  <2> SUFFICES ASSUME NEW i \in 1..Len(list), Passes(list[i], t, TRUE)', list[i] \notin R
               PROVE  Len(Plain(rows)) = TopN /\ \A j \in 1..Len(list) : list[j] \in R => j < i
    BY <1>2, <1>3, <1>5 DEF LeftOutIsWorse
  <2>1. Passes(list[i], t, TRUE)
    BY PassesStays
  <2> QED BY <1>1, <1>4, <2>1
<1>8. LeadersComeFirst'
  <2>1. "radar_leader" \notin Kinds
    BY DEF Kinds, Presets, Recipes
  <2> QED BY <1>3, <2>1 DEF LeadersComeFirst
<1> QED BY <1>6, <1>7, <1>8

LEMMA ConditionIsFair ==
  ASSUME AllAreNamed, MarketIsQuoted, market' = market, NEW t \in TemplateNames,
         NEW kind \in Presets \cup {"theme_hot"}, ConditionScreen(kind, t)
  PROVE  LeftOutIsWorse' /\ NoStIsPicked' /\ LeadersComeFirst'
<1> DEFINE pool == PresetPool(kind)
           list == Kept(kind, pool)
           named == Named(kind)
<1>1. list \in Lists
  BY PoolIsList, KeptIsList
<1>2. named \in Nat /\ Cardinality(Stocks) <= named
  BY StocksAreFinite, ScreenAssumption DEF Named, AllAreNamed
<1>3. Listed(kind, t, pool, list, Plain(Filtered(list, t, named))) /\ kind \in Kinds
  BY DEF ConditionScreen, Kinds
<1> HIDE DEF pool, list, named
<1>4. Len(list) <= named
  <2>1. Len(list) \in Nat /\ Len(list) <= Cardinality(Stocks)
    BY <1>1, ListIsFunction
  <2> QED BY ONLY <1>2, <2>1, StocksAreFinite
<1> QED BY <1>1, <1>2, <1>3, <1>4, FilteredIsFair

LEMMA RecipeIsFair ==
  ASSUME MarketIsQuoted, market' = market, NEW t \in TemplateNames, NEW kind \in Recipes, RecipeScreen(kind, t)
  PROVE  LeftOutIsWorse' /\ NoStIsPicked' /\ LeadersComeFirst'
<1> DEFINE pool == RecipePool(kind)
           list == SortBy(pool, [s \in Stocks |-> RecipeScore(kind, s)])
<1>1. list \in Lists /\ pool \in Lists /\ Len(list) = Len(pool)
  BY RecipeIsList
<1>2. Listed(kind, t, pool, list, Plain(Filtered(list, t, Len(pool)))) /\ kind \in Kinds
  BY DEF RecipeScreen, Kinds
<1> HIDE DEF pool, list
<1>3. Len(pool) \in Nat /\ Len(list) <= Len(pool)
  BY <1>1, ListIsFunction
<1> QED BY <1>1, <1>2, <1>3, FilteredIsFair

LEMMA LeaderIsFair ==
  ASSUME MarketIsQuoted, market' = market, NEW t \in TemplateNames, NEW mainline, NEW divergence,
         LeaderScreen(t, mainline, divergence)
  PROVE  LeftOutIsWorse' /\ NoStIsPicked' /\ LeadersComeFirst'
<1> DEFINE hot == Candidates
           P == {i \in DOMAIN hot : Passes(hot[i], t, TRUE)}
           pool == Selected(hot, P)
           rows == Leaders(pool, mainline, divergence)
<1>1. hot \in Lists
  <2> DEFINE first == IF Cardinality(OnLimit) < FewSealed THEN Ranked(Stocks, "change") ELSE Ranked(OnLimit, "limit")
             S == {i \in DOMAIN first : Sealed(first[i])}
  <2>1. first \in Lists
    <3>1. "limit" \in NumberFields /\ "change" \in NumberFields /\ OnLimit \in SUBSET Stocks /\ Stocks \in SUBSET Stocks
      BY DEF NumberFields, OnLimit
    <3>2. Ranked(OnLimit, "limit") \in Lists /\ Ranked(Stocks, "change") \in Lists
      BY <3>1, RankIsList
    <3> QED BY <3>2
  <2>2. Candidates = IF Selected(first, S) = <<>> THEN first ELSE Selected(first, S)
    BY DEF Candidates
  <2> HIDE DEF first
  <2>3. S \in SUBSET (1..Len(first))
    BY <2>1, ListIsFunction
  <2> HIDE DEF S
  <2>4. Selected(first, S) \in Lists
    BY <2>1, <2>3, SelectedIsList
  <2> QED BY <2>1, <2>2, <2>4
<1>2. Listed("radar_leader", t, pool, pool, rows)
  BY DEF LeaderScreen
<1> HIDE DEF hot
<1>3. P \in SUBSET (1..Len(hot)) /\ \A i \in P : Passes(hot[i], t, TRUE)
  BY <1>1, ListIsFunction
<1> HIDE DEF P
<1>4. /\ pool \in Lists /\ Len(pool) = Cardinality(P)
      /\ \E f : Chosen(hot, P, f) /\ \A k \in 1..Cardinality(P) : pool[k] = hot[f[k]]
  BY <1>1, <1>3, SelectedIsList
<1> HIDE DEF pool
<1>5. \A k \in 1..Len(pool) : Passes(pool[k], t, TRUE)
  <2>1. PICK f : Chosen(hot, P, f) /\ \A k \in 1..Cardinality(P) : pool[k] = hot[f[k]]
    BY <1>4
  <2>2. \A k \in 1..Cardinality(P) : f[k] \in P
    BY <2>1 DEF Chosen
  <2> QED BY <1>3, <1>4, <2>1, <2>2
<1>6. Len(rows) \in Nat /\ DOMAIN rows = 1..Len(rows) /\ RowsAreLed(pool, rows)
  BY <1>4, LeadersLead
<1> HIDE DEF rows
<1>7. result'.kind = "radar_leader" /\ result'.rows = rows
  BY <1>2 DEF Listed
<1>8. NoStIsPicked'
  <2> SUFFICES ASSUME NEW k \in 1..Len(rows) PROVE ~market[rows[k].stock].st /\ ~market[rows[k].stock].suspended
    BY <1>6, <1>7 DEF NoStIsPicked, Rows
  <2>1. PICK i \in 1..Len(pool) : rows[k].stock = pool[i]
    BY <1>6 DEF RowsAreLed
  <2>2. Passes(pool[i], t, TRUE)
    BY <1>5
  <2> QED BY <2>1, <2>2 DEF Passes
<1>9. LeftOutIsWorse'
  <2>1. "radar_leader" \notin Kinds
    BY DEF Kinds, Presets, Recipes
  <2> QED BY <1>7, <2>1 DEF LeftOutIsWorse
<1>10. LeadersComeFirst'
  <2>1. /\ \A j, k \in 1..Len(rows) :
              (/\ rows[j].tier = rows[k].tier /\ rows[k].tier # "follower"
               /\ market[rows[j].stock].industry = market[rows[k].stock].industry) => j = k
        /\ \A k \in 1..Len(rows) : rows[k].tier = "follower" =>
              \A tier \in {"dragon_1", "dragon_2"} :
                  \E j \in 1..(k-1) : /\ rows[j].tier = tier
                                      /\ market[rows[j].stock].industry = market[rows[k].stock].industry
    BY <1>6 DEF RowsAreLed
  <2> QED BY <1>6, <1>7, <2>1 DEF LeadersComeFirst
<1> QED BY <1>8, <1>9, <1>10

LEMMA ScreenKeeps ==
  ASSUME AllAreNamed, MarketIsQuoted, ScreenPrefersTheBetter, [ScreenNext]_screenVars
  PROVE  MarketIsQuoted' /\ ScreenPrefersTheBetter'
<1>1. market' = market
  BY DEF ScreenNext, screenVars
<1>2. MarketIsQuoted'
  BY <1>1 DEF MarketIsQuoted
<1>3. LooserKeepsMore' /\ BetterNeverScoresLess'
  <2>1. LooserKeepsMore /\ BetterNeverScoresLess
    BY LooserKeeps, BetterScores
  <2>2. \A s, t : Passes(s, t, TRUE)' <=> Passes(s, t, TRUE)
    BY <1>1, PassesStays
  <2>3. LooserKeepsMore'
    BY <1>1, <2>1 DEF LooserKeepsMore, Passes
  <2>4. BetterNeverScoresLess'
    BY <1>1, <2>1 DEF BetterNeverScoresLess
  <2> QED BY <2>3, <2>4
<1>4. LeftOutIsWorse' /\ NoStIsPicked' /\ LeadersComeFirst'
  <2>1. CASE UNCHANGED screenVars
    BY <2>1 DEF screenVars, ScreenPrefersTheBetter, LeftOutIsWorse, NoStIsPicked, LeadersComeFirst, Rows, Passes
  <2>2. CASE ScreenNext
    <3>1. PICK t \in TemplateNames :
            \/ \E kind \in Presets \cup {"theme_hot"} : ConditionScreen(kind, t)
            \/ \E kind \in Recipes : RecipeScreen(kind, t)
            \/ \E mainline, divergence \in BOOLEAN : LeaderScreen(t, mainline, divergence)
      BY <2>2 DEF ScreenNext
    <3>2. CASE \E kind \in Presets \cup {"theme_hot"} : ConditionScreen(kind, t)
      BY <1>1, <3>2, ConditionIsFair
    <3>3. CASE \E kind \in Recipes : RecipeScreen(kind, t)
      BY <1>1, <3>3, RecipeIsFair
    <3>4. CASE \E mainline, divergence \in BOOLEAN : LeaderScreen(t, mainline, divergence)
      BY <1>1, <3>4, LeaderIsFair
    <3> QED BY <3>1, <3>2, <3>3, <3>4
  <2> QED BY <2>1, <2>2
<1> QED BY <1>2, <1>3, <1>4 DEF ScreenPrefersTheBetter

\* ScreenPrefersTheBetter, for any stocks, quotes, pool sizes and cuts: what a screen
\* leaves out is refused by the filters or comes after a full list, no stock under
\* special treatment is picked, a looser template refuses less, a better quote never
\* scores less, and a follower is listed after both leaders of its industry
\* (run_condition_screen, run_recipe_screen, run_leader_screen), if the name of every
\* row is read.
THEOREM ScreensPrefer == AllAreNamed /\ ScreenSpec => []ScreenPrefersTheBetter
<1>1. ASSUME ScreenInit PROVE MarketIsQuoted /\ ScreenPrefersTheBetter
  <2>1. MarketIsQuoted
    BY <1>1 DEF ScreenInit, MarketIsQuoted
  <2>2. LooserKeepsMore /\ BetterNeverScoresLess
    BY <2>1, LooserKeeps, BetterScores
  <2>3. result.kind = "none" /\ result.rows = <<>> /\ DOMAIN result.rows = {}
    BY <1>1 DEF ScreenInit
  <2>4. "none" \notin Kinds /\ Rows = {}
    BY <2>3 DEF Kinds, Presets, Recipes, Rows
  <2>5. LeftOutIsWorse /\ NoStIsPicked /\ LeadersComeFirst
    BY <2>3, <2>4 DEF LeftOutIsWorse, NoStIsPicked, LeadersComeFirst
  <2> QED BY <2>1, <2>2, <2>5 DEF ScreenPrefersTheBetter
<1>2. AllAreNamed /\ MarketIsQuoted /\ ScreenPrefersTheBetter /\ [ScreenNext]_screenVars
        => (MarketIsQuoted /\ ScreenPrefersTheBetter)'
  BY ScreenKeeps
<1>3. AllAreNamed /\ ScreenInit /\ [][ScreenNext]_screenVars => []ScreenPrefersTheBetter
  <2>1. CASE AllAreNamed
    BY <1>1, <1>2, <2>1, PTL
  <2> QED BY <2>1
<1> QED BY <1>3 DEF ScreenSpec
=============================================================================
