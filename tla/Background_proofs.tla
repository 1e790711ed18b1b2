------------------------- MODULE Background_proofs --------------------------
(* Theorems of the scheduler inside the API process and of the tables that  *)
(* the background jobs fill: limit list, suspensions, industries and flows, *)
(* the reports of the companies, and the posts of subscribed authors.       *)
EXTENDS EmbeddedScheduler, MarketTables, Financials, Feed, Counting

-----------------------------------------------------------------------------
(* EmbeddedScheduler, for any number of replicas and jobs and for every     *)
(* combination of crashes, Redis faults and expiring keys. Mutual exclusion *)
(* needs one strengthening: a replica inside the section owns the Redis     *)
(* lock of the job (OwnsLock). That nothing leaks needs to know exactly     *)
(* what a firing holds at each of its steps (Holds).                        *)

\* While a replica is between acquire and release, the lock names it.
OwnsLock ==
  \A r \in Replicas, j \in Jobs : InSection(r, j) => lock[j] = r

\* What a firing holds, step by step.
Holds ==
  \A r \in Replicas, j \in Jobs :
    /\ j \in held[r] <=> pc[r][j] # "idle"
    /\ j \in running[r] <=> pc[r][j] \notin {"idle", "guard"}

IInv == TypeOK /\ OwnsLock /\ Holds /\ OneBarsJobPerProcess

(***************************************************************************)
(* The model is type correct.                                              *)
(***************************************************************************)
LEMMA TypeInit == Init => TypeOK
<1>1. 0 \in 0 .. MaxTicks /\ 0 \in 0 .. MaxCrashes
  BY SchedulerAssumption
<1> QED
  BY <1>1 DEF Init, TypeOK, Steps

\* A step of one firing moves one program counter to a known step.
LEMMA AtTypes ==
  ASSUME TypeOK, NEW r \in Replicas, NEW j \in Jobs,
         NEW from, NEW to \in Steps, At(r, j, from, to)
  PROVE  pc' \in [Replicas -> [Jobs -> Steps]]
BY DEF TypeOK, At

LEMMA TypeNext == TypeOK /\ [Next]_vars => TypeOK'
<1> SUFFICES ASSUME TypeOK, [Next]_vars PROVE TypeOK'
  OBVIOUS
<1> USE DEF TypeOK, local, shared
<1>1. CASE Tick
  BY <1>1, SchedulerAssumption DEF Tick
<1>2. ASSUME NEW r \in Replicas, Crash(r) PROVE TypeOK'
  BY <1>2, SchedulerAssumption DEF Crash, Steps
<1>3. ASSUME NEW r \in Replicas, NEW j \in Jobs, Step(r, j) PROVE TypeOK'
  <2>1. CASE Fire(r, j)
    <3>1. pc' \in [Replicas -> [Jobs -> Steps]]
      BY <2>1, AtTypes DEF Fire, Steps
    <3>2. due' \in [Replicas -> SUBSET Jobs] /\ held' \in [Replicas -> SUBSET Jobs]
      BY <2>1 DEF Fire
    <3> QED  BY <2>1, <3>1, <3>2 DEF Fire
  <2>2. CASE EnterRunning(r, j)
    <3>1. pc' \in [Replicas -> [Jobs -> Steps]]
      BY <2>2, AtTypes DEF EnterRunning, Steps
    <3> QED  BY <2>2, <3>1 DEF EnterRunning
  <2>3. CASE Acquire(r, j)
    <3>1. pc' \in [Replicas -> [Jobs -> Steps]]
      BY <2>3, AtTypes DEF Acquire, Steps
    <3>2. lock' = lock \/ lock' = [lock EXCEPT ![j] = r]
      BY <2>3 DEF Acquire
    <3>3. lock' \in [Jobs -> Replicas \cup {None}]
      BY <3>2
    <3>4. /\ held' = held \/ held' = [held EXCEPT ![r] = @ \ {j}]
          /\ running' = running \/ running' = [running EXCEPT ![r] = @ \ {j}]
      BY <2>3 DEF Acquire
    <3>5. held' \in [Replicas -> SUBSET Jobs] /\ running' \in [Replicas -> SUBSET Jobs]
      BY <3>4
    <3> QED  BY <2>3, <3>1, <3>3, <3>5 DEF Acquire
  <2>4. CASE ReadConfig(r, j)
    <3>1. pc' \in [Replicas -> [Jobs -> Steps]]
      BY <2>4, AtTypes DEF ReadConfig, Steps
    <3> QED  BY <2>4, <3>1 DEF ReadConfig
  <2>5. CASE EnqueueJob(r, j)
    <3>1. pc' \in [Replicas -> [Jobs -> Steps]]
      BY <2>5, AtTypes DEF EnqueueJob, Steps
    <3> QED  BY <2>5, <3>1 DEF EnqueueJob
  <2>6. CASE Release(r, j)
    <3>1. pc' \in [Replicas -> [Jobs -> Steps]]
      BY <2>6, AtTypes DEF Release, Steps
    <3> QED  BY <2>6, <3>1 DEF Release
  <2>7. CASE Exit(r, j)
    <3>1. pc' \in [Replicas -> [Jobs -> Steps]]
      BY <2>7, AtTypes DEF Exit, Steps
    <3> QED  BY <2>7, <3>1 DEF Exit
  <2> QED
    BY <1>3, <2>1, <2>2, <2>3, <2>4, <2>5, <2>6, <2>7 DEF Step
<1>4. ASSUME NEW j \in Jobs, LockExpires(j) \/ JobDone(j) \/ SetEnabled(j)
      PROVE  TypeOK'
  BY <1>4 DEF LockExpires, JobDone, SetEnabled
<1>5. CASE UNCHANGED vars
  BY <1>5 DEF vars
<1> QED
  BY <1>1, <1>2, <1>3, <1>4, <1>5 DEF Next

(***************************************************************************)
(* The inductive invariant.                                                *)
(***************************************************************************)
LEMMA IInvInit == Init => IInv
BY TypeInit DEF Init, IInv, OwnsLock, Holds, OneBarsJobPerProcess, InSection

\* A firing that is not the one that moves keeps its program counter.
LEMMA AtMoves ==
  ASSUME TypeOK, NEW r \in Replicas, NEW j \in Jobs, NEW from, NEW to,
         At(r, j, from, to)
  PROVE  /\ pc[r][j] = from /\ pc'[r][j] = to
         /\ \A q \in Replicas, k \in Jobs :
              q # r \/ k # j => pc'[q][k] = pc[q][k]
BY DEF TypeOK, At

\* No step of a firing, and nothing around it, takes the lock from a replica
\* in its section.
LEMMA OwnsLockNext == IInv /\ [Next]_vars => OwnsLock'
<1> SUFFICES ASSUME IInv, [Next]_vars,
                    NEW q \in Replicas, NEW k \in Jobs, InSection(q, k)'
             PROVE  lock'[k] = q
  BY DEF OwnsLock
<1>0. TypeOK /\ OwnsLock
  BY DEF IInv
<1> USE DEF InSection
<1>1. CASE Tick
  BY <1>0, <1>1 DEF Tick, OwnsLock
<1>2. ASSUME NEW r \in Replicas, Crash(r) PROVE lock'[k] = q
  BY <1>0, <1>2 DEF Crash, OwnsLock, TypeOK, shared
<1>3. ASSUME NEW r \in Replicas, NEW j \in Jobs, Step(r, j)
      PROVE  lock'[k] = q
  <2>1. CASE Fire(r, j)
    BY <1>0, <2>1, AtMoves DEF Fire, OwnsLock, shared
  <2>2. CASE EnterRunning(r, j)
    BY <1>0, <2>2, AtMoves DEF EnterRunning, OwnsLock, shared
  <2>3. CASE Acquire(r, j)
    <3>1. CASE At(r, j, "acquire", "config") /\ lock[j] = None
               /\ lock' = [lock EXCEPT ![j] = r]
      BY <1>0, <3>1, AtMoves, SchedulerAssumption DEF OwnsLock, TypeOK
    <3>2. CASE At(r, j, "acquire", "idle")
               /\ (lock' = lock \/ (lock[j] = None /\ lock' = [lock EXCEPT ![j] = r]))
      BY <1>0, <3>2, AtMoves, SchedulerAssumption DEF OwnsLock, TypeOK
    <3> QED  BY <2>3, <3>1, <3>2 DEF Acquire
  <2>4. CASE ReadConfig(r, j)
    BY <1>0, <2>4, AtMoves DEF ReadConfig, OwnsLock, shared
  <2>5. CASE EnqueueJob(r, j)
    BY <1>0, <2>5, AtMoves DEF EnqueueJob, OwnsLock
  <2>6. CASE Release(r, j)
    <3>1. lock' = lock \/ (lock[j] = r /\ lock' = [lock EXCEPT ![j] = None])
      BY <2>6 DEF Release
    <3>2. q # r \/ k # j
      BY <1>0, <2>6, AtMoves DEF Release
    <3>3. lock[k] = q
      BY <1>0, <2>6, <3>2, AtMoves DEF Release, OwnsLock
    <3> QED  BY <1>0, <3>1, <3>2, <3>3 DEF TypeOK
  <2>7. CASE Exit(r, j)
    BY <1>0, <2>7, AtMoves DEF Exit, OwnsLock, shared
  <2> QED
    BY <1>3, <2>1, <2>2, <2>3, <2>4, <2>5, <2>6, <2>7 DEF Step
<1>4. ASSUME NEW j \in Jobs, LockExpires(j) \/ JobDone(j) \/ SetEnabled(j)
      PROVE  lock'[k] = q
  BY <1>0, <1>4 DEF LockExpires, JobDone, SetEnabled, OwnsLock, TypeOK, local
<1>5. CASE UNCHANGED vars
  BY <1>0, <1>5 DEF vars, OwnsLock
<1> QED
  BY <1>1, <1>2, <1>3, <1>4, <1>5 DEF Next

\* What a firing holds changes only with its own step, and the crash of its
\* process takes both away.
LEMMA HoldsNext == IInv /\ [Next]_vars => Holds'
<1> SUFFICES ASSUME IInv, [Next]_vars, NEW q \in Replicas, NEW k \in Jobs
             PROVE  /\ k \in held'[q] <=> pc'[q][k] # "idle"
                    /\ k \in running'[q] <=> pc'[q][k] \notin {"idle", "guard"}
  BY DEF Holds
<1> DEFINE Goal == /\ k \in held'[q] <=> pc'[q][k] # "idle"
                   /\ k \in running'[q] <=> pc'[q][k] \notin {"idle", "guard"}
<1>0. TypeOK /\ Holds
  BY DEF IInv
<1>1. CASE Tick
  BY <1>0, <1>1 DEF Tick, Holds
<1>2. ASSUME NEW r \in Replicas, Crash(r) PROVE Goal
  BY <1>0, <1>2 DEF Crash, Holds, TypeOK
<1>3. ASSUME NEW r \in Replicas, NEW j \in Jobs, Step(r, j) PROVE Goal
  <2>1. CASE Fire(r, j)
    BY <1>0, <2>1, AtMoves DEF Fire, Holds, TypeOK
  <2>2. CASE EnterRunning(r, j)
    BY <1>0, <2>2, AtMoves DEF EnterRunning, Holds, TypeOK
  <2>3. CASE Acquire(r, j)
    <3>1. CASE At(r, j, "acquire", "config") /\ UNCHANGED <<held, running>>
      BY <1>0, <3>1, AtMoves DEF Holds
    <3>2. CASE /\ At(r, j, "acquire", "idle")
               /\ running' = [running EXCEPT ![r] = @ \ {j}]
               /\ held' = [held EXCEPT ![r] = @ \ {j}]
      BY <1>0, <3>2, AtMoves DEF Holds, TypeOK
    <3> QED  BY <2>3, <3>1, <3>2 DEF Acquire
  <2>4. CASE ReadConfig(r, j)
    BY <1>0, <2>4, AtMoves DEF ReadConfig, Holds, TypeOK
  <2>5. CASE EnqueueJob(r, j)
    <3>1. At(r, j, "enqueue", "finally") /\ UNCHANGED <<held, running>>
      BY <2>5 DEF EnqueueJob
    <3> QED  BY <1>0, <3>1, AtMoves DEF Holds
  <2>6. CASE Release(r, j)
    <3>1. At(r, j, "finally", "exit") /\ UNCHANGED <<held, running>>
      BY <2>6 DEF Release
    <3> QED  BY <1>0, <3>1, AtMoves DEF Holds
  <2>7. CASE Exit(r, j)
    BY <1>0, <2>7, AtMoves DEF Exit, Holds, TypeOK
  <2> QED
    BY <1>3, <2>1, <2>2, <2>3, <2>4, <2>5, <2>6, <2>7 DEF Step
<1>4. ASSUME NEW j \in Jobs, LockExpires(j) \/ JobDone(j) \/ SetEnabled(j)
      PROVE  Goal
  BY <1>0, <1>4 DEF LockExpires, JobDone, SetEnabled, Holds, local
<1>5. CASE UNCHANGED vars
  BY <1>0, <1>5 DEF vars, Holds
<1> QED
  BY <1>1, <1>2, <1>3, <1>4, <1>5 DEF Next

\* Only EnterRunning adds to _running, and not while a bars job is there.
LEMMA OneBarsNext == IInv /\ [Next]_vars => OneBarsJobPerProcess'
<1> SUFFICES ASSUME IInv, [Next]_vars PROVE OneBarsJobPerProcess'
  OBVIOUS
<1>0. TypeOK /\ OneBarsJobPerProcess
  BY DEF IInv
<1> USE DEF OneBarsJobPerProcess
<1>a. ASSUME \A r \in Replicas : running'[r] \subseteq running[r]
      PROVE  OneBarsJobPerProcess'
  BY <1>0, <1>a
<1>1. CASE Tick \/ UNCHANGED vars
  BY <1>1, <1>a DEF Tick, vars
<1>2. ASSUME NEW r \in Replicas, Crash(r) PROVE OneBarsJobPerProcess'
  BY <1>0, <1>2, <1>a DEF Crash, TypeOK
<1>3. ASSUME NEW r \in Replicas, NEW j \in Jobs, Step(r, j)
      PROVE  OneBarsJobPerProcess'
  <2>1. CASE EnterRunning(r, j)
    <3>1. CASE j \in BarsJobs /\ running[r] \cap BarsJobs # {}
      BY <2>1, <3>1, <1>a DEF EnterRunning
    <3>2. CASE ~(j \in BarsJobs /\ running[r] \cap BarsJobs # {})
      <4>1. running' = [running EXCEPT ![r] = @ \cup {j}]
        BY <2>1, <3>2 DEF EnterRunning
      <4> QED  BY <1>0, <3>2, <4>1 DEF TypeOK
    <3> QED  BY <3>1, <3>2
  <2>2. CASE Fire(r, j) \/ ReadConfig(r, j) \/ EnqueueJob(r, j) \/ Release(r, j)
    BY <2>2, <1>a DEF Fire, ReadConfig, EnqueueJob, Release
  <2>3. CASE Acquire(r, j) \/ Exit(r, j)
    <3>1. running' = running \/ running' = [running EXCEPT ![r] = @ \ {j}]
      BY <2>3 DEF Acquire, Exit
    <3> QED  BY <1>0, <3>1, <1>a DEF TypeOK
  <2> QED
    BY <1>3, <2>1, <2>2, <2>3 DEF Step
<1>4. ASSUME NEW j \in Jobs, LockExpires(j) \/ JobDone(j) \/ SetEnabled(j)
      PROVE  OneBarsJobPerProcess'
  BY <1>4, <1>a DEF LockExpires, JobDone, SetEnabled, local
<1> QED
  BY <1>1, <1>2, <1>3, <1>4 DEF Next

LEMMA IInvariant == Spec => []IInv
<1>1. IInv /\ [Next]_vars => IInv'
  BY TypeNext, OwnsLockNext, HoldsNext, OneBarsNext DEF IInv
<1> QED
  BY IInvInit, <1>1, PTL DEF Spec

(***************************************************************************)
(* Type correctness of the scheduler model (embedded_scheduler.py _run_job *)
(* with scheduler_lock.py).                                                *)
(***************************************************************************)
THEOREM SchedulerTypes == Spec => []TypeOK
<1>1. IInv => TypeOK
  BY DEF IInv
<1> QED
  BY IInvariant, <1>1, PTL

(***************************************************************************)
(* Every way out of _run_job gives back the in-process lock and the entry  *)
(* of _running (embedded_scheduler.py 37-95).                              *)
(***************************************************************************)
THEOREM NoLeak == Spec => []NothingLeaks
<1>1. IInv => NothingLeaks
  BY DEF IInv, Holds, NothingLeaks
<1> QED
  BY IInvariant, <1>1, PTL

(***************************************************************************)
(* The two locks hold what they are for: the one in Redis a section, the   *)
(* one of the process its bars jobs (embedded_scheduler.py 51-66).         *)
(***************************************************************************)
THEOREM LocksHold == Spec => []LocksExclude
<1>1. IInv => LocksExclude
  BY DEF IInv, OwnsLock, OneReplicaInSection, LocksExclude
<1> QED
  BY IInvariant, <1>1, PTL

-----------------------------------------------------------------------------
(* MarketTables: no table depends on when its job ran. For the flows the    *)
(* evenings missed are counted: a day without its flows has seen one        *)
(* evening fail for every open day since (FlowsAreMadeUp), so that one      *)
(* complete run within the window makes up for it.                          *)

\* The window of the flows is longer than the evenings that may be missed; without
\* a calendar it counts the holidays too.
WindowCovers == MaxMissed + Cardinality(IF HasCalendar THEN {} ELSE Holidays) < FlowDays

Whole(d) == "sw_dc" \in flowRows[d] /\ flowRows[d] \cap {"ths_concept", "dc_concept"} # {}
Since(d, t) == {e \in OpenDays : d <= e /\ e < t}

\* A day without its flows has seen as many evenings without a complete run as
\* open days have passed; after a complete run no day of the window is without.
FlowsAreMadeUp ==
    table = "flows" =>
        /\ missed.today => clock.evening /\ \A d \in RecentOpenDates(FlowDays) : Whole(d)
        /\ \A d \in OpenDays : Whole(d) \/ Cardinality(Since(d, clock.day)) <= missed.evenings

FinalIsSettled == \A d \in final : d <= clock.day /\ Settled(d)

TablesInv ==
    TablesTypeOK /\ FinalIsSettled /\ SealedIsFinal /\ ResumedIsNotHalted /\ OneTaxonomy /\ FlowsAreMadeUp

-----------------------------------------------------------------------------
LEMMA TableFacts ==
    /\ LastDay \in Nat /\ LastDay > 0 /\ MaxMissed \in Nat /\ FlowDays \in Nat /\ LimitDays \in Nat /\ LimitDays > 0
    /\ Days \subseteq Nat /\ OpenDays \subseteq Days /\ 1 \in OpenDays
    /\ IsFiniteSet(Days) /\ IsFiniteSet(OpenDays) /\ IsFiniteSet(Holidays) /\ Holidays \subseteq Days
<1>1. LastDay \in Nat /\ LastDay > 0 /\ MaxMissed \in Nat /\ FlowDays \in Nat /\ LimitDays \in Nat /\ LimitDays > 0
  BY TablesAssumption
<1>2. Days \subseteq Nat /\ IsFiniteSet(Days)
  BY <1>1, FS_Interval DEF Days
<1>3. OpenDays \subseteq Days /\ 1 \in OpenDays /\ Holidays \subseteq Days
  BY <1>1, TablesAssumption DEF OpenDays, Days
<1> QED BY <1>1, <1>2, <1>3, FS_Subset

\* The last open day is one, and it is not to come.
LEMMA LatestIsOpen ==
    ASSUME clock.day \in Days
    PROVE  LatestOpen \in Days /\ LatestOpen <= clock.day
<1> DEFINE known == IF HasCalendar THEN OpenDays ELSE Days \ Weekend
           Past == {d \in known : d <= clock.day}
<1>1. PICK t \in Nat : t = clock.day /\ t \in Days
  BY TableFacts
<1>2. known \subseteq Days /\ 1 \in known /\ OpenDays \subseteq known
  BY TablesAssumption, TableFacts DEF OpenDays
<1>3. Past \subseteq Nat /\ Past # {} /\ \A d \in Past : d <= t
  <2>1. 1 <= t
    BY <1>1 DEF Days
  <2> QED BY <1>1, <1>2, <2>1, TableFacts
<1>4. PICK last \in Past : \A d \in Past : d <= last
  <2> HIDE DEF Past
  <2> QED BY <1>3, GreatestNumber
<1>5. last \in RecentOpenDates(1)
  <2>1. {e \in known : last <= e /\ e <= clock.day} = {last}
    <3>1. last \in known /\ last <= clock.day /\ last \in Nat
      BY <1>3, <1>4
    <3>2. \A e \in known : last <= e /\ e <= clock.day => e = last
      <4> SUFFICES ASSUME NEW e \in known, last <= e, e <= clock.day PROVE e = last
        OBVIOUS
      <4>1. e \in Nat /\ e <= last
        BY <1>2, <1>4, TableFacts
      <4> QED BY ONLY <3>1, <4>1, last <= e
    <3>3. last <= last
      BY ONLY <3>1
    <3> QED BY ONLY <3>1, <3>2, <3>3
  <2>2. Cardinality({last}) <= 1
    <3>1. Cardinality({last}) = 1
      BY FS_Singleton
    <3> QED BY ONLY <3>1
  <2>3. last \in known \cap 1..clock.day
    <3>1. last \in known /\ last <= t /\ last \in 1..LastDay
      BY <1>1, <1>2, <1>4 DEF Days
    <3>2. last \in 1..t
      BY ONLY <3>1, t \in Nat, TableFacts
    <3> QED BY <1>1, <3>1, <3>2
  <2> QED BY <2>1, <2>2, <2>3 DEF RecentOpenDates
<1>6. \A d \in RecentOpenDates(1) : d \in Days /\ d \in Nat /\ d <= t
  <2> SUFFICES ASSUME NEW d \in RecentOpenDates(1) PROVE d \in Days /\ d \in Nat /\ d <= t
    OBVIOUS
  <2>1. d \in 1..t
    BY <1>1 DEF RecentOpenDates
  <2>2. d \in known
    BY DEF RecentOpenDates
  <2> QED BY <1>2, <2>1, <2>2
<1>7. LatestOpen \in RecentOpenDates(1)
  <2>1. RecentOpenDates(1) \subseteq Nat /\ RecentOpenDates(1) # {} /\ \A d \in RecentOpenDates(1) : d <= t
    BY <1>5, <1>6
  <2> QED BY <2>1, MaxIsGreatest DEF LatestOpen
<1> QED BY <1>1, <1>6, <1>7

LEMMA TablesStart == TablesInit => TablesInv
<1> SUFFICES ASSUME TablesInit PROVE TablesInv
  OBVIOUS
<1>1. /\ table \in Tables /\ clock = [day |-> 1, evening |-> FALSE]
      /\ tape = [d \in Days |-> [s \in TableStocks |-> [on |-> FALSE, times |-> 0]]]
      /\ limitRows = [d \in Days |-> [s \in TableStocks |-> 0]] /\ haltRows = [d \in Days |-> {}]
      /\ flowRows = [d \in Days |-> {}] /\ taxonomy = [s \in TableStocks |-> ""]
      /\ final = {} /\ missed = [evenings |-> 0, today |-> FALSE]
  BY DEF TablesInit, Still
<1>2. TablesTypeOK
  <2>1. 0 \in 0..MaxMoves /\ 0 \in 0..MaxMissed /\ 1 \in Days
    BY TablesAssumption DEF Days
  <2> QED BY <1>1, <2>1 DEF TablesTypeOK
<1>3. FinalIsSettled /\ SealedIsFinal /\ ResumedIsNotHalted /\ OneTaxonomy
  BY <1>1 DEF FinalIsSettled, SealedIsFinal, ResumedIsNotHalted, OneTaxonomy
<1>4. FlowsAreMadeUp
  <2>1. ~missed.today /\ missed.evenings = 0 /\ clock.day = 1
    BY <1>1
  <2>2. \A d \in OpenDays : Since(d, clock.day) = {}
    <3>1. \A d, e \in OpenDays : d \in Nat /\ e \in Nat /\ d >= 1
      BY TableFacts DEF Days
    <3> QED BY <2>1, <3>1 DEF Since
  <2>3. \A d \in OpenDays : Cardinality(Since(d, clock.day)) <= missed.evenings
    BY <2>1, <2>2, FS_EmptySet
  <2> QED BY <2>1, <2>3 DEF FlowsAreMadeUp
<1> QED BY <1>2, <1>3, <1>4 DEF TablesInv

\* The market moves on a day that is not over; nothing final is of that day.
LEMMA MovesKeep == ASSUME TablesInv, MarketMoves PROVE TablesInv'
<1>0. TablesTypeOK /\ FinalIsSettled /\ SealedIsFinal /\ ResumedIsNotHalted /\ OneTaxonomy
  BY DEF TablesInv
<1>1. /\ table # "flows" /\ ~clock.evening
      /\ UNCHANGED <<table, clock, limitRows, haltRows, flowRows, taxonomy, final, missed>>
  BY DEF MarketMoves
<1>2. PICK s \in TableStocks, now \in [on : BOOLEAN, times : 0..MaxMoves] :
          /\ now = tape[clock.day][s] /\ (now.on \/ now.times < MaxMoves)
          /\ tape' = [tape EXCEPT ![clock.day] = [tape[clock.day] EXCEPT ![s] = [on |-> ~now.on, times |-> IF now.on THEN now.times ELSE now.times + 1]]]
  <2>1. clock.day \in Days /\ \A s \in TableStocks : tape[clock.day][s] \in [on : BOOLEAN, times : 0..MaxMoves]
    <3>1. clock.day \in Days /\ tape \in [Days -> [TableStocks -> [on : BOOLEAN, times : 0..MaxMoves]]]
      BY <1>0 DEF TablesTypeOK
    <3>2. tape[clock.day] \in [TableStocks -> [on : BOOLEAN, times : 0..MaxMoves]]
      BY ONLY <3>1
    <3> QED BY ONLY <3>1, <3>2
  <2>2. PICK s \in TableStocks :
          /\ tape[clock.day][s].on \/ tape[clock.day][s].times < MaxMoves
          /\ tape' = [tape EXCEPT ![clock.day][s] = [on |-> ~tape[clock.day][s].on,
                      times |-> IF tape[clock.day][s].on THEN tape[clock.day][s].times ELSE tape[clock.day][s].times + 1]]
    BY DEF MarketMoves
  <2>3. PICK now \in [on : BOOLEAN, times : 0..MaxMoves] : now = tape[clock.day][s]
    BY <2>1
  <2> QED BY <2>2, <2>3
<1>3. PICK next \in [on : BOOLEAN, times : 0..MaxMoves] : tape' = [tape EXCEPT ![clock.day] = [tape[clock.day] EXCEPT ![s] = next]]
  <2>1. (~now.on) \in BOOLEAN
    OBVIOUS
  <2>2. (IF now.on THEN now.times ELSE now.times + 1) \in 0..MaxMoves
    <3>1. now.times \in 0..MaxMoves /\ MaxMoves \in Nat
      BY TablesAssumption
    <3>2. CASE now.on
      BY <3>1, <3>2
    <3>3. CASE ~now.on
      <4>1. now.times < MaxMoves
        BY <1>2, <3>3
      <4>2. now.times + 1 \in 0..MaxMoves
        BY ONLY <3>1, <4>1
      <4> QED BY ONLY <3>3, <4>2
    <3> QED BY <3>2, <3>3
  <2> QED BY <1>2, <2>1, <2>2
<1>4. tape' \in [Days -> [TableStocks -> [on : BOOLEAN, times : 0..MaxMoves]]]
  BY <1>0, <1>3 DEF TablesTypeOK
<1>5. TablesTypeOK'
  BY <1>0, <1>1, <1>4 DEF TablesTypeOK
<1>6. \A d \in final : d \in Days /\ d # clock.day /\ tape'[d] = tape[d]
  <2>1. clock.day \in Nat
    BY <1>0, TableFacts DEF TablesTypeOK
  <2>2. \A d \in final : d < clock.day
    BY <1>0, <1>1 DEF FinalIsSettled, Settled
  <2>3. \A d \in final : d # clock.day
    BY ONLY <2>1, <2>2
  <2>4. \A d \in final : d \in Days
    BY <1>0 DEF TablesTypeOK
  <2> QED BY <1>0, <1>3, <2>3, <2>4 DEF TablesTypeOK
<1>7. FinalIsSettled'
  BY <1>0, <1>1 DEF FinalIsSettled, Settled
<1>8. SealedIsFinal' /\ ResumedIsNotHalted' /\ OneTaxonomy' /\ FlowsAreMadeUp'
  <2>1. SealedIsFinal'
    BY <1>0, <1>1, <1>6 DEF SealedIsFinal
  <2>2. ResumedIsNotHalted'
    <3>1. \A d \in final : Halted(d)' = Halted(d)
      BY <1>6 DEF Halted
    <3> QED BY <1>0, <1>1, <3>1 DEF ResumedIsNotHalted
  <2>3. OneTaxonomy' /\ FlowsAreMadeUp'
    BY <1>0, <1>1 DEF OneTaxonomy, FlowsAreMadeUp
  <2> QED BY <2>1, <2>2, <2>3
<1> QED BY <1>5, <1>7, <1>8 DEF TablesInv

\* The limit list of some days is fetched.
LEMMA LimitsKeep ==
    ASSUME TablesInv, table = "limits", NEW days, days \subseteq Days, \A d \in days : d <= clock.day, FetchLimits(days),
           UNCHANGED <<table, clock, tape, haltRows, flowRows, taxonomy, missed>>
    PROVE  TablesInv'
<1>0. TablesTypeOK /\ FinalIsSettled /\ SealedIsFinal /\ OneTaxonomy
  BY DEF TablesInv
<1>1. /\ limitRows' = [d \in Days |-> IF d \in days THEN Merged(d) ELSE limitRows[d]]
      /\ final' = final \cup {d \in days : Settled(d)}
  BY DEF FetchLimits
<1>2. \A d \in Days, s \in TableStocks : tape[d][s].times \in 0..MaxMoves /\ limitRows[d][s] \in 0..MaxMoves
  <2>1. \A d \in Days : tape[d] \in [TableStocks -> [on : BOOLEAN, times : 0..MaxMoves]] /\ limitRows[d] \in [TableStocks -> 0..MaxMoves]
    BY <1>0 DEF TablesTypeOK
  <2>2. \A d \in Days, s \in TableStocks : tape[d][s] \in [on : BOOLEAN, times : 0..MaxMoves] /\ limitRows[d][s] \in 0..MaxMoves
    BY ONLY <2>1
  <2> QED BY <2>2
<1>3. \A d \in Days : Merged(d) \in [TableStocks -> 0..MaxMoves]
  BY <1>2 DEF Merged
<1>4. limitRows' \in [Days -> [TableStocks -> 0..MaxMoves]]
  BY <1>0, <1>1, <1>3 DEF TablesTypeOK
<1>5. TablesTypeOK'
  BY <1>0, <1>1, <1>4 DEF TablesTypeOK
<1>6. FinalIsSettled'
  BY <1>0, <1>1 DEF FinalIsSettled, Settled
<1>7. SealedIsFinal'
  <2> SUFFICES ASSUME NEW d \in final', NEW s \in TableStocks, tape[d][s].on PROVE limitRows'[d][s] = tape[d][s].times
    BY DEF SealedIsFinal
  <2>1. d \in Days
    BY <1>5 DEF TablesTypeOK
  <2>2. CASE d \in days
    BY <1>1, <2>1, <2>2 DEF Merged
  <2>3. CASE d \notin days
    BY <1>0, <1>1, <2>1, <2>3 DEF SealedIsFinal
  <2> QED BY <2>2, <2>3
<1>8. ResumedIsNotHalted' /\ OneTaxonomy' /\ FlowsAreMadeUp'
  BY <1>0 DEF ResumedIsNotHalted, OneTaxonomy, FlowsAreMadeUp
<1> QED BY <1>5, <1>6, <1>7, <1>8 DEF TablesInv

LEMMA HaltsKeep == ASSUME TablesInv, SyncSuspendDaily PROVE TablesInv'
<1>0. TablesTypeOK /\ FinalIsSettled /\ ResumedIsNotHalted /\ OneTaxonomy
  BY DEF TablesInv
<1>1. PICK l \in Days : l = LatestOpen /\ l <= clock.day
  BY <1>0, LatestIsOpen DEF TablesTypeOK
<1>2. /\ table = "halts" /\ haltRows' = [haltRows EXCEPT ![l] = Halted(l)]
      /\ final' = IF Settled(l) THEN final \cup {l} ELSE final
      /\ UNCHANGED <<table, clock, tape, limitRows, flowRows, taxonomy, missed>>
  BY <1>1 DEF SyncSuspendDaily, Replaced
<1>3. Halted(l) \subseteq TableStocks
  BY DEF Halted
<1>4. TablesTypeOK'
  BY <1>0, <1>2, <1>3 DEF TablesTypeOK
<1>5. FinalIsSettled'
  <2>1. \A d \in final' : d \in final \/ (d = l /\ Settled(l))
    BY <1>2
  <2>2. \A d \in final' : d <= clock.day /\ Settled(d)
    BY <1>0, <1>1, <2>1 DEF FinalIsSettled
  <2>3. \A d : Settled(d)' = Settled(d)
    BY <1>2 DEF Settled
  <2> QED BY <1>2, <2>2, <2>3 DEF FinalIsSettled
<1>6. ResumedIsNotHalted'
  <2> SUFFICES ASSUME NEW d \in final' PROVE haltRows'[d] = Halted(d)'
    BY DEF ResumedIsNotHalted
  <2>1. Halted(d)' = Halted(d)
    BY <1>2 DEF Halted
  <2>2. d \in Days /\ (d # l => d \in final)
    BY <1>0, <1>2 DEF TablesTypeOK
  <2> QED BY <1>0, <1>2, <2>1, <2>2 DEF ResumedIsNotHalted, TablesTypeOK
<1>7. SealedIsFinal' /\ OneTaxonomy' /\ FlowsAreMadeUp'
  BY <1>0, <1>2 DEF SealedIsFinal, OneTaxonomy, FlowsAreMadeUp
<1> QED BY <1>4, <1>5, <1>6, <1>7 DEF TablesInv

LEMMA IndustryKeeps == ASSUME TablesInv, SyncStockIndustry PROVE TablesInv'
<1>0. TablesTypeOK /\ FinalIsSettled
  BY DEF TablesInv
<1>1. PICK stocks \in SUBSET TableStocks, source \in {"sw2021_l2", "stock_basic"} :
          /\ table = "industry" /\ taxonomy' = [s \in TableStocks |-> IF s \in stocks THEN source ELSE ""]
          /\ UNCHANGED <<table, clock, tape, limitRows, haltRows, flowRows, final, missed>>
  BY DEF SyncStockIndustry, Industries
<1>2. TablesTypeOK'
  BY <1>0, <1>1 DEF TablesTypeOK
<1>3. FinalIsSettled'
  BY <1>0, <1>1 DEF FinalIsSettled, Settled
<1>4. SealedIsFinal' /\ ResumedIsNotHalted' /\ OneTaxonomy' /\ FlowsAreMadeUp'
  BY <1>0, <1>1 DEF SealedIsFinal, ResumedIsNotHalted, OneTaxonomy, FlowsAreMadeUp
<1> QED BY <1>2, <1>3, <1>4 DEF TablesInv

-----------------------------------------------------------------------------
(* The days and the flows.                                                 *)

LEMMA SinceIsFinite ==
    ASSUME NEW d, NEW t
    PROVE  Since(d, t) \subseteq OpenDays /\ IsFiniteSet(Since(d, t)) /\ Cardinality(Since(d, t)) \in Nat
<1>1. Since(d, t) \subseteq OpenDays
  BY DEF Since
<1> QED BY <1>1, TableFacts, FS_Subset, FS_CardinalityType

\* A day that passes counts if it is open.
LEMMA SinceGrows ==
    ASSUME NEW t \in Days, NEW d \in OpenDays
    PROVE  /\ Cardinality(Since(d, t + 1)) <= Cardinality(Since(d, t)) + 1
           /\ t \notin OpenDays => Since(d, t + 1) = Since(d, t)
           /\ ~(d <= t) => Cardinality(Since(d, t + 1)) = 0
<1>0. t \in Nat /\ \A e \in OpenDays : e \in Nat
  BY TableFacts
<1>1. \A e \in OpenDays : e < t + 1 <=> e < t \/ e = t
  BY <1>0
<1>2. Since(d, t + 1) \subseteq Since(d, t) \cup {t}
  BY <1>1 DEF Since
<1>3. IsFiniteSet(Since(d, t) \cup {t}) /\ Cardinality(Since(d, t) \cup {t}) <= Cardinality(Since(d, t)) + 1
      /\ Cardinality(Since(d, t) \cup {t}) \in Nat
  <2>1. IsFiniteSet(Since(d, t)) /\ Cardinality(Since(d, t)) \in Nat
    BY SinceIsFinite
  <2>2. /\ IsFiniteSet(Since(d, t) \cup {t})
        /\ Cardinality(Since(d, t) \cup {t}) = IF t \in Since(d, t) THEN Cardinality(Since(d, t)) ELSE Cardinality(Since(d, t)) + 1
    BY <2>1, FS_AddElement
  <2>3. PICK n \in Nat : n = Cardinality(Since(d, t))
    BY <2>1
  <2>4. CASE t \in Since(d, t)
    BY <2>2, <2>3, <2>4
  <2>5. CASE t \notin Since(d, t)
    BY <2>2, <2>3, <2>5
  <2> QED BY <2>4, <2>5
<1>4. Cardinality(Since(d, t + 1)) <= Cardinality(Since(d, t)) + 1
  <2>1. Cardinality(Since(d, t + 1)) <= Cardinality(Since(d, t) \cup {t})
    BY <1>2, <1>3, FS_Subset
  <2>2. Cardinality(Since(d, t + 1)) \in Nat /\ Cardinality(Since(d, t)) \in Nat
    BY SinceIsFinite
  <2> QED BY ONLY <1>3, <2>1, <2>2
<1>5. t \notin OpenDays => Since(d, t + 1) = Since(d, t)
  BY <1>1 DEF Since
<1>6. ~(d <= t) => Cardinality(Since(d, t + 1)) = 0
  <2>1. ~(d <= t) => Since(d, t + 1) = {}
    <3>1. \A e \in OpenDays : d <= e /\ e < t + 1 => d <= t
      BY <1>0
    <3> QED BY <3>1 DEF Since
  <2> QED BY <2>1, FS_EmptySet
<1> QED BY <1>4, <1>5, <1>6

\* A day that as few open days have passed since as evenings may be missed is in
\* the window.
LEMMA WindowReaches ==
    ASSUME WindowCovers, clock.day \in Days, NEW d \in OpenDays, d <= clock.day, Cardinality(Since(d, clock.day)) <= MaxMissed
    PROVE  d \in RecentOpenDates(FlowDays)
<1> DEFINE known == IF HasCalendar THEN OpenDays ELSE Days \ Weekend
           shut == IF HasCalendar THEN {} ELSE Holidays
           window == {e \in known : d <= e /\ e <= clock.day}
<1>1. PICK t \in Days : t = clock.day
  OBVIOUS
<1>2. t \in Nat /\ d \in Nat /\ d >= 1 /\ known \subseteq Days /\ Days \subseteq Nat /\ OpenDays \subseteq known
  <2>1. t \in Nat /\ d \in Nat /\ Days \subseteq Nat /\ d \in Days /\ OpenDays \subseteq Days
    BY TableFacts
  <2>2. known \subseteq Days /\ OpenDays \subseteq known
    BY TableFacts DEF OpenDays
  <2> QED BY <2>1, <2>2 DEF Days
<1>3. known \subseteq OpenDays \cup shut
  BY DEF OpenDays
<1>4. window \subseteq (Since(d, t) \cup {t}) \cup shut
  <2> SUFFICES ASSUME NEW e \in known, d <= e, e <= t PROVE e \in (Since(d, t) \cup {t}) \cup shut
    BY <1>1
  <2>1. e \in Nat /\ (e < t \/ e = t)
    BY <1>2
  <2>2. e \in OpenDays \/ e \in shut
    BY <1>3
  <2> QED BY <2>1, <2>2 DEF Since
<1>5. IsFiniteSet(shut) /\ Cardinality(shut) \in Nat
  BY TableFacts, FS_EmptySet, FS_CardinalityType
<1>6. IsFiniteSet(Since(d, t)) /\ Cardinality(Since(d, t)) \in Nat
  BY SinceIsFinite
<1>7. IsFiniteSet(Since(d, t) \cup {t}) /\ Cardinality(Since(d, t) \cup {t}) <= Cardinality(Since(d, t)) + 1
      /\ Cardinality(Since(d, t) \cup {t}) \in Nat
  <2>1. /\ IsFiniteSet(Since(d, t) \cup {t})
        /\ Cardinality(Since(d, t) \cup {t}) = IF t \in Since(d, t) THEN Cardinality(Since(d, t)) ELSE Cardinality(Since(d, t)) + 1
    BY <1>6, FS_AddElement
  <2>2. PICK n \in Nat : n = Cardinality(Since(d, t))
    BY <1>6
  <2>3. CASE t \in Since(d, t)
    BY <2>1, <2>2, <2>3
  <2>4. CASE t \notin Since(d, t)
    BY <2>1, <2>2, <2>4
  <2> QED BY <2>3, <2>4
<1>8. /\ IsFiniteSet((Since(d, t) \cup {t}) \cup shut)
      /\ Cardinality((Since(d, t) \cup {t}) \cup shut) \in Nat
      /\ Cardinality((Since(d, t) \cup {t}) \cup shut) <= Cardinality(Since(d, t) \cup {t}) + Cardinality(shut)
  <2> DEFINE A == Since(d, t) \cup {t}
  <2>1. IsFiniteSet(A) /\ Cardinality(A) \in Nat
    BY <1>7
  <2> HIDE DEF A, shut
  <2>2. IsFiniteSet(A \cup shut) /\ Cardinality(A \cup shut) = Cardinality(A) + Cardinality(shut) - Cardinality(A \cap shut)
    BY <1>5, <2>1, FS_Union
  <2>3. Cardinality(A \cap shut) \in Nat
    BY <1>5, <2>1, FS_Intersection, FS_CardinalityType
  <2>4. Cardinality(A \cup shut) \in Nat
    BY <2>2, FS_CardinalityType
  <2>5. Cardinality(A \cup shut) <= Cardinality(A) + Cardinality(shut)
    BY ONLY <1>5, <2>1, <2>2, <2>3, <2>4
  <2> QED BY <2>2, <2>4, <2>5 DEF A
<1>9. Cardinality(window) <= FlowDays
  <2>1. Cardinality(window) <= Cardinality((Since(d, t) \cup {t}) \cup shut) /\ IsFiniteSet(window)
    <3> HIDE DEF window, shut
    <3> QED BY <1>4, <1>8, FS_Subset
  <2>2. Cardinality(window) \in Nat
    BY <2>1, FS_CardinalityType
  <2>3. Cardinality(Since(d, t)) <= MaxMissed
    BY <1>1
  <2>4. MaxMissed + Cardinality(shut) < FlowDays
    BY DEF WindowCovers
  <2>5. MaxMissed \in Nat /\ FlowDays \in Nat
    BY TableFacts
  <2> HIDE DEF window, shut
  <2> QED BY ONLY <1>5, <1>6, <1>7, <1>8, <2>1, <2>2, <2>3, <2>4, <2>5
<1>10. d \in known \cap 1..clock.day
  <2>1. d \in 1..t
    BY <1>1, <1>2
  <2> QED BY <1>1, <1>2, <2>1
<1> QED BY <1>9, <1>10 DEF RecentOpenDates

LEMMA CloseKeeps == ASSUME TablesInv, DayCloses PROVE TablesInv'
<1>0. TablesTypeOK /\ FinalIsSettled /\ SealedIsFinal /\ ResumedIsNotHalted /\ OneTaxonomy /\ FlowsAreMadeUp
  BY DEF TablesInv
<1>1. ~clock.evening /\ clock' = [clock EXCEPT !.evening = TRUE] /\ UNCHANGED <<table, tape, limitRows, haltRows, flowRows, taxonomy, final, missed>>
  BY DEF DayCloses
<1>2. clock' \in [day : Days, evening : BOOLEAN] /\ clock'.day = clock.day /\ clock'.evening
  BY <1>0, <1>1 DEF TablesTypeOK
<1>3. TablesTypeOK'
  BY <1>0, <1>1, <1>2 DEF TablesTypeOK
<1>4. FinalIsSettled'
  BY <1>0, <1>1, <1>2 DEF FinalIsSettled, Settled
<1>5. SealedIsFinal' /\ OneTaxonomy'
  BY <1>0, <1>1 DEF SealedIsFinal, OneTaxonomy
<1>6. ResumedIsNotHalted'
  BY <1>0, <1>1 DEF ResumedIsNotHalted, Halted
<1>7. FlowsAreMadeUp'
  <2>1. table = "flows" => ~missed.today
    BY <1>0, <1>1 DEF FlowsAreMadeUp
  <2>2. \A d : Whole(d)' = Whole(d)
    BY <1>1 DEF Whole
  <2>3. \A d \in OpenDays : Since(d, clock.day)' = Since(d, clock.day)
    BY <1>2 DEF Since
  <2>4. table' = table /\ missed' = missed
    BY <1>1
  <2>5. table = "flows" => \A d \in OpenDays : Whole(d) \/ Cardinality(Since(d, clock.day)) <= missed.evenings
    BY <1>0 DEF FlowsAreMadeUp
  <2>6. table = "flows" => \A d \in OpenDays : Whole(d)' \/ Cardinality(Since(d, clock.day)') <= missed'.evenings
    BY ONLY <2>2, <2>3, <2>4, <2>5
  <2> QED BY <2>1, <2>4, <2>6 DEF FlowsAreMadeUp
<1> QED BY <1>3, <1>4, <1>5, <1>6, <1>7 DEF TablesInv

\* The next morning: what is final stays so; a day without its flows is another
\* open day behind only after an evening that is counted.
LEMMA NextDayKeeps == ASSUME WindowCovers, TablesInv, NextDay PROVE TablesInv'
<1>0. TablesTypeOK /\ FinalIsSettled /\ SealedIsFinal /\ ResumedIsNotHalted /\ OneTaxonomy /\ FlowsAreMadeUp
  BY DEF TablesInv
<1>1. PICK t \in Days : t = clock.day
  BY <1>0 DEF TablesTypeOK
<1>2. clock.evening /\ t < LastDay /\ clock' = [day |-> t + 1, evening |-> FALSE]
      /\ UNCHANGED <<table, tape, limitRows, haltRows, flowRows, taxonomy, final>>
  BY <1>1 DEF NextDay
<1>3. PICK n \in 0..MaxMissed : n = missed.evenings
  BY <1>0 DEF TablesTypeOK
<1>4. PICK m \in 0..MaxMissed :
          /\ missed' = [evenings |-> m, today |-> FALSE]
          /\ \/ m = n /\ (missed.today \/ t \notin OpenDays \/ table # "flows")
             \/ m = n + 1
  <2>0. n \in Nat /\ MaxMissed \in Nat /\ missed \in [evenings : 0..MaxMissed, today : BOOLEAN]
    <3>1. missed \in [evenings : 0..MaxMissed, today : BOOLEAN]
      BY <1>0 DEF TablesTypeOK
    <3>2. n \in Nat /\ MaxMissed \in Nat
      BY TableFacts
    <3> QED BY <3>1, <3>2
  <2>1. CASE /\ missed.today \/ t \notin OpenDays \/ table # "flows"
             /\ missed' = [missed EXCEPT !.today = FALSE]
    <3>1. missed' = [evenings |-> n, today |-> FALSE]
      BY <1>3, <2>0, <2>1
    <3> QED BY <2>1, <3>1
  <2>2. CASE ~missed.today /\ n < MaxMissed /\ missed' = [missed EXCEPT !.evenings = n + 1]
    <3>1. n + 1 \in 0..MaxMissed
      BY <2>0, <2>2
    <3>2. missed' = [evenings |-> n + 1, today |-> FALSE]
      BY <2>0, <2>2
    <3> QED BY <3>1, <3>2
  <2> QED BY <1>1, <1>3, <2>1, <2>2 DEF NextDay
<1>5. t \in Nat /\ t + 1 \in Days /\ t < t + 1
  <2>1. t \in Nat /\ LastDay \in Nat /\ t >= 1
    BY TableFacts DEF Days
  <2> QED BY ONLY <1>2, <2>1 DEF Days
<1>6. clock'.day = t + 1 /\ ~clock'.evening /\ clock' \in [day : Days, evening : BOOLEAN]
  BY <1>2, <1>5
<1>7. TablesTypeOK'
  <2>1. missed' \in [evenings : 0..MaxMissed, today : BOOLEAN]
    BY <1>4
  <2> QED BY <1>0, <1>2, <1>6, <2>1 DEF TablesTypeOK
<1>8. FinalIsSettled'
  <2> SUFFICES ASSUME NEW d \in final PROVE d <= t + 1 /\ d < t + 1
    BY <1>2, <1>6 DEF FinalIsSettled, Settled
  <2>1. d \in Days /\ d <= t
    BY <1>0, <1>1, <1>5 DEF FinalIsSettled, Settled, TablesTypeOK
  <2>2. d \in Nat
    BY <2>1, TableFacts
  <2> QED BY ONLY <1>5, <2>1, <2>2

<1>9. FlowsAreMadeUp'
  <2> SUFFICES ASSUME table = "flows", NEW d \in OpenDays, ~Whole(d) PROVE Cardinality(Since(d, t + 1)) <= m
    <3>1. \A d \in OpenDays : Whole(d)' = Whole(d)
      BY <1>2 DEF Whole
    <3>2. ~missed'.today /\ missed'.evenings = m /\ clock'.day = t + 1 /\ table' = table
      BY <1>2, <1>4, <1>6
    <3>3. \A d \in OpenDays : Since(d, clock.day)' = Since(d, t + 1)
      BY <3>2 DEF Since
    <3> QED BY <3>1, <3>2, <3>3 DEF FlowsAreMadeUp
  <2>0. n \in Nat /\ m \in Nat /\ MaxMissed \in Nat /\ n <= MaxMissed
    BY TableFacts
  <2>1. Cardinality(Since(d, t)) <= n
    BY <1>0, <1>1, <1>3 DEF FlowsAreMadeUp
  <2>2. Cardinality(Since(d, t)) \in Nat /\ Cardinality(Since(d, t + 1)) \in Nat
    BY SinceIsFinite
  <2>3. Cardinality(Since(d, t + 1)) <= Cardinality(Since(d, t)) + 1
    BY SinceGrows
  <2>4. CASE m = n + 1
    BY ONLY <2>0, <2>1, <2>2, <2>3, <2>4
  <2>5. CASE m = n /\ t \notin OpenDays
    <3>1. Since(d, t + 1) = Since(d, t)
      BY <2>5, SinceGrows
    <3> QED BY <2>1, <2>5, <3>1
  <2>6. CASE m = n /\ missed.today
    <3>1. CASE d <= t
      <4>1. Cardinality(Since(d, t)) <= MaxMissed
        BY ONLY <2>0, <2>1, <2>2
      <4>2. d \in RecentOpenDates(FlowDays)
        BY <1>1, <3>1, <4>1, WindowReaches
      <4> QED BY <1>0, <2>6, <4>2 DEF FlowsAreMadeUp
    <3>2. CASE ~(d <= t)
      <4>1. Cardinality(Since(d, t + 1)) = 0
        BY <3>2, SinceGrows
      <4> QED BY ONLY <2>0, <4>1
    <3> QED BY <3>1, <3>2
  <2> QED BY <1>4, <2>4, <2>5, <2>6
<1>10. SealedIsFinal' /\ OneTaxonomy'
  BY <1>0, <1>2 DEF SealedIsFinal, OneTaxonomy
<1>11. ResumedIsNotHalted'
  BY <1>0, <1>2 DEF ResumedIsNotHalted, Halted
<1> QED BY <1>7, <1>8, <1>9, <1>10, <1>11 DEF TablesInv

\* A run of the flows only adds; a complete one of the evening leaves no day of
\* the window without.
LEMMA FlowsKeep == ASSUME TablesInv, SyncSectorFlow PROVE TablesInv'
<1>0. TablesTypeOK /\ FinalIsSettled /\ SealedIsFinal /\ ResumedIsNotHalted /\ OneTaxonomy /\ FlowsAreMadeUp
  BY DEF TablesInv
<1>1. PICK answers \in SUBSET {"classes", "dc", "ths"} :
          /\ flowRows' = [d \in Days |-> IF d \in RecentOpenDates(FlowDays) /\ Settled(d) THEN FlowsOf(d, answers) ELSE flowRows[d]]
          /\ missed' = [missed EXCEPT !.today = missed.today \/ (clock.evening /\ clock.day \in OpenDays /\ {"classes", "dc"} \subseteq answers)]
          /\ UNCHANGED <<table, clock, tape, limitRows, haltRows, taxonomy, final>> /\ table = "flows"
  BY DEF SyncSectorFlow
<1>2. PICK b \in BOOLEAN : b <=> missed.today \/ (clock.evening /\ clock.day \in OpenDays /\ {"classes", "dc"} \subseteq answers)
  OBVIOUS
<1>3. PICK n \in 0..MaxMissed : n = missed.evenings
  BY <1>0 DEF TablesTypeOK
<1>4. missed' = [evenings |-> n, today |-> b]
  <2>1. missed \in [evenings : 0..MaxMissed, today : BOOLEAN]
    BY <1>0 DEF TablesTypeOK
  <2>2. (missed.today \/ (clock.evening /\ clock.day \in OpenDays /\ {"classes", "dc"} \subseteq answers)) = b
    BY <1>2
  <2>3. missed' = [missed EXCEPT !.today = b]
    BY ONLY <1>1, <2>2, Zenon
  <2> QED BY <1>3, <2>1, <2>3
<1>5. \A d \in Days : FlowsOf(d, answers) \subseteq Sources /\ flowRows[d] \subseteq FlowsOf(d, answers)
  BY <1>0 DEF TablesTypeOK, FlowsOf, Sources
<1>6. flowRows' \in [Days -> SUBSET Sources] /\ \A d \in Days : flowRows[d] \subseteq flowRows'[d]
  BY <1>0, <1>1, <1>5 DEF TablesTypeOK
<1>7. TablesTypeOK'
  BY <1>0, <1>1, <1>4, <1>6 DEF TablesTypeOK
<1>8. FinalIsSettled' /\ SealedIsFinal' /\ ResumedIsNotHalted' /\ OneTaxonomy'
  BY <1>0, <1>1 DEF FinalIsSettled, Settled, SealedIsFinal, ResumedIsNotHalted, OneTaxonomy
<1>9. \A d \in Days : Whole(d) => Whole(d)'
  BY <1>6 DEF Whole
<1>10. ASSUME b, NEW d \in RecentOpenDates(FlowDays) PROVE clock.evening /\ Whole(d)'
  <2>1. d \in Days
    BY DEF RecentOpenDates, OpenDays
  <2>2. CASE missed.today
    BY <1>0, <1>1, <1>9, <2>1, <2>2 DEF FlowsAreMadeUp
  <2>3. CASE clock.evening /\ {"classes", "dc"} \subseteq answers
    <3>1. flowRows'[d] = FlowsOf(d, answers)
      BY <1>1, <2>1, <2>3 DEF Settled
    <3>2. "sw_dc" \in FlowsOf(d, answers) /\ FlowsOf(d, answers) \cap {"ths_concept", "dc_concept"} # {}
      BY <2>3 DEF FlowsOf, KnowsSectors
    <3> QED BY <2>3, <3>1, <3>2 DEF Whole
  <2> QED BY <1>2, <1>10, <2>2, <2>3
<1>11. b => clock.evening
  BY <1>0, <1>1, <1>2 DEF FlowsAreMadeUp
<1>12. FlowsAreMadeUp'
  <2>1. RecentOpenDates(FlowDays)' = RecentOpenDates(FlowDays) /\ clock' = clock
    BY <1>1 DEF RecentOpenDates
  <2>2. \A d \in OpenDays : Since(d, clock.day)' = Since(d, clock.day)
    BY <1>1 DEF Since
  <2>3. missed'.today = b /\ missed'.evenings = missed.evenings
    BY <1>3, <1>4
  <2>4. \A d \in OpenDays : Whole(d) \/ Cardinality(Since(d, clock.day)) <= missed.evenings
    BY <1>0, <1>1 DEF FlowsAreMadeUp
  <2>5. \A d \in OpenDays : Whole(d)' \/ Cardinality(Since(d, clock.day)') <= missed'.evenings
    BY <1>9, <2>2, <2>3, <2>4, TableFacts
  <2>6. missed'.today => clock'.evening /\ \A d \in RecentOpenDates(FlowDays)' : Whole(d)'
    BY <1>10, <1>11, <2>1, <2>3
  <2> QED BY <2>5, <2>6 DEF FlowsAreMadeUp
<1> QED BY <1>7, <1>8, <1>12 DEF TablesInv

LEMMA TablesInductive == WindowCovers => (TablesInv /\ [TablesNext]_tableVars => TablesInv')
<1> SUFFICES ASSUME WindowCovers, TablesInv, [TablesNext]_tableVars PROVE TablesInv'
  OBVIOUS
<1>0. TablesTypeOK
  BY DEF TablesInv
<1>1. CASE SyncLimitList
  <2>1. PICK days \in SUBSET RecentOpenDates(LimitDays) : FetchLimits(days)
    BY <1>1 DEF SyncLimitList
  <2>2. table = "limits" /\ UNCHANGED <<table, clock, tape, haltRows, flowRows, taxonomy, missed>>
    BY <1>1 DEF SyncLimitList
  <2>3. \A d \in days : d \in Days /\ d <= clock.day
    <3> SUFFICES ASSUME NEW d \in days PROVE d \in Days /\ d <= clock.day
      OBVIOUS
    <3>1. d \in Days
      BY DEF RecentOpenDates, OpenDays
    <3>2. PICK t \in Nat : t = clock.day
      BY <1>0, TableFacts DEF TablesTypeOK
    <3>3. d \in 1..t
      BY <3>2 DEF RecentOpenDates
    <3> QED BY <3>1, <3>2, <3>3
  <2> QED BY <2>1, <2>2, <2>3, LimitsKeep
<1>2. CASE ReadLimits
  <2>1. clock.day \in Days
    BY <1>0 DEF TablesTypeOK
  <2>2. {LatestOpen} \subseteq Days /\ \A d \in {LatestOpen} : d <= clock.day
    BY <2>1, LatestIsOpen
  <2>3. /\ table = "limits" /\ FetchLimits({LatestOpen})
        /\ UNCHANGED <<table, clock, tape, haltRows, flowRows, taxonomy, missed>>
    BY <1>2 DEF ReadLimits
  <2> QED BY <2>2, <2>3, LimitsKeep
<1>3. CASE UNCHANGED tableVars
  <2>0. UNCHANGED <<table, clock, tape, limitRows, haltRows, flowRows, taxonomy, final, missed>>
    BY <1>3 DEF tableVars
  <2>1. TablesTypeOK' = TablesTypeOK /\ FinalIsSettled' = FinalIsSettled
    BY <2>0 DEF TablesTypeOK, FinalIsSettled, Settled
  <2>2. SealedIsFinal' = SealedIsFinal /\ ResumedIsNotHalted' = ResumedIsNotHalted /\ OneTaxonomy' = OneTaxonomy
    BY <2>0 DEF SealedIsFinal, ResumedIsNotHalted, Halted, OneTaxonomy
  <2>3. FlowsAreMadeUp' = FlowsAreMadeUp
    BY <2>0 DEF FlowsAreMadeUp, Whole, Since, RecentOpenDates
  <2> QED BY <2>1, <2>2, <2>3 DEF TablesInv
<1> QED BY <1>1, <1>2, <1>3, MovesKeep, CloseKeeps, NextDayKeeps, HaltsKeep, FlowsKeep, IndustryKeeps DEF TablesNext

LEMMA TablesImplied == WindowCovers /\ TablesInv => TablesAreWhole
<1> SUFFICES ASSUME WindowCovers, TablesInv PROVE TablesAreWhole
  OBVIOUS
<1>0. TablesTypeOK /\ SealedIsFinal /\ ResumedIsNotHalted /\ OneTaxonomy /\ FlowsAreMadeUp
  BY DEF TablesInv
<1>1. NoDayLeavesEmpty
  <2> SUFFICES ASSUME table = "flows", NEW d \in OpenDays, Cardinality(Since(d, clock.day)) >= FlowDays PROVE Whole(d)
    BY DEF NoDayLeavesEmpty, Since, Whole
  <2>1. Whole(d) \/ Cardinality(Since(d, clock.day)) <= missed.evenings
    BY <1>0 DEF FlowsAreMadeUp
  <2>2. missed.evenings \in 0..MaxMissed
    BY <1>0 DEF TablesTypeOK
  <2>3. MaxMissed < FlowDays
    <3>1. IsFiniteSet(IF HasCalendar THEN {} ELSE Holidays)
      BY TableFacts, FS_EmptySet
    <3>2. PICK k \in Nat : k = Cardinality(IF HasCalendar THEN {} ELSE Holidays)
      BY <3>1, FS_CardinalityType
    <3>3. MaxMissed + k < FlowDays
      BY <3>2 DEF WindowCovers
    <3> QED BY ONLY <3>3, k \in Nat, TableFacts
  <2>4. Cardinality(Since(d, clock.day)) \in Nat
    BY SinceIsFinite
  <2>5. PICK c \in Nat : c = Cardinality(Since(d, clock.day))
    BY <2>4
  <2>6. c >= FlowDays
    BY <2>5
  <2>7. ~(c <= missed.evenings)
    BY ONLY <2>2, <2>3, <2>6, c \in Nat, TableFacts
  <2> QED BY <2>1, <2>5, <2>7
<1> QED BY <1>0, <1>1 DEF TablesAreWhole

\* What a table tells of a day does not depend on when its job ran, whoever read
\* before the close and however often a job ran; the window of the flows makes up
\* for missed evenings as long as it is longer than they are (without a calendar:
\* than they and the holidays).
THEOREM TablesHold == WindowCovers => (TablesSpec => []TablesAreWhole)
<1> SUFFICES ASSUME WindowCovers PROVE TablesSpec => []TablesAreWhole
  OBVIOUS
<1>1. TablesInit => TablesInv
  BY TablesStart
<1>2. TablesInv /\ [TablesNext]_tableVars => TablesInv'
  BY TablesInductive
<1>3. TablesInv => TablesAreWhole
  BY TablesImplied
<1> QED BY <1>1, <1>2, <1>3, PTL DEF TablesSpec

-----------------------------------------------------------------------------
(* Financials: the newest snapshot has its growth and what is past is       *)
(* dated. The invariant adds the order in which reports come out (Reported) *)
(* and that nothing is stored that was not announced (CopiedIsAnnounced).   *)

\* Reports come in order; all of the past are out, but for an annual one of the
\* period just over.
Reported ==
    /\ \A p \in Periods : figures[p] > 0 => p <= period /\ \A e \in 1..(p - 1) : figures[e] > 0
    /\ \A p \in Periods : p < period => figures[p] > 0 \/ (p = period - 1 /\ Annual(p))

\* What is stored was announced.
CopiedIsAnnounced ==
    \A p \in Periods : /\ snapshots[p].version > 0 => figures[p] > 0
                       /\ snapshots[p].growth /= NoGrowth => p - Year \in Periods

\* A calendar that is up to date has the date of the period's report if it is out.
AskedIsDated == asked => (figures[period] > 0 => disclosures[period] = "disclosed")

FinInv == FinancialsAreCurrent /\ Reported /\ CopiedIsAnnounced /\ AskedIsDated

-----------------------------------------------------------------------------
FiguresType == [Periods -> 0..Versions]
SnapshotsType == [Periods -> [version : 0..Versions, growth : (0..Versions) \X (0..Versions)]]

LEMMA FinConstants == Year \in Nat /\ Year > 2 /\ LastPeriod \in Nat /\ LastPeriod > 0 /\ Versions \in Nat /\ Versions > 0
BY FinancialsAssumption

\* The window holds at least two years.
LEMMA WindowIsWide == WindowYears * Year \in Nat /\ WindowYears * Year >= 2 * Year
<1>1. Year \in Nat /\ WindowYears \in Nat /\ WindowYears > 1
  BY FinancialsAssumption
<1>2. PICK k \in Nat : WindowYears = 2 + k
  <2>1. WindowYears - 2 \in Nat /\ WindowYears = 2 + (WindowYears - 2)
    BY <1>1
  <2> QED BY <2>1
<1>3. k * Year \in Nat /\ (2 + k) * Year = 2 * Year + k * Year
  BY <1>1, <1>2
<1> QED BY <1>1, <1>2, <1>3

LEMMA FinStarts == FinInit => FinInv
<1> SUFFICES ASSUME FinInit PROVE FinInv
  OBVIOUS
<1> USE FinConstants
<1>0. /\ period = 1 /\ figures = [p \in Periods |-> 0] /\ reports = [p \in Periods |-> 0]
      /\ snapshots = [p \in Periods |-> NoSnapshot] /\ syncMeta = [status |-> "none", latest |-> 0, periods |-> 0]
      /\ disclosures = [p \in Periods |-> "no row"]
  BY ONLY FinInit DEF FinInit
<1>5. asked \in BOOLEAN /\ ~asked
  BY ONLY FinInit DEF FinInit
<1>1. FinTypeOK
  <2>1. period \in Periods /\ figures \in FiguresType /\ reports \in FiguresType
    <3>1. period = 1 /\ figures = [p \in Periods |-> 0] /\ reports = [p \in Periods |-> 0]
      BY ONLY <1>0
    <3>2. 0 \in 0..Versions /\ 1 \in Periods
      BY FinConstants DEF Periods
    <3> QED BY ONLY <3>1, <3>2 DEF FiguresType
  <2>2. snapshots \in SnapshotsType
    <3>0. snapshots = [p \in Periods |-> NoSnapshot]
      BY ONLY <1>0
    <3>1. snapshots = [p \in Periods |-> NoSnapshot] /\ 0 \in 0..Versions
      BY ONLY <3>0, FinConstants
    <3>2. NoSnapshot \in [version : 0..Versions, growth : (0..Versions) \X (0..Versions)]
      BY <3>1 DEF NoSnapshot, NoGrowth
    <3> QED BY ONLY <3>1, <3>2 DEF SnapshotsType
  <2>3. syncMeta \in [status : {"none", "ok", "error"}, latest : 0..LastPeriod, periods : 0..LastPeriod]
    <3>1. syncMeta = [status |-> "none", latest |-> 0, periods |-> 0]
      BY ONLY <1>0
    <3>2. 0 \in 0..LastPeriod
      BY ONLY FinConstants
    <3> QED BY ONLY <3>1, <3>2
  <2>4. disclosures \in [Periods -> {"no row", "planned", "disclosed"}]
    BY <1>0
  <2> QED BY <1>5, <2>1, <2>2, <2>3, <2>4 DEF FinTypeOK, FiguresType, SnapshotsType
<1>2. \A p \in Periods : figures[p] = 0 /\ snapshots[p].version = 0 /\ snapshots[p].growth = NoGrowth
  BY <1>0 DEF NoSnapshot
<1>3. LatestHasItsYear /\ GrowthIsNeverStale /\ CopiedIsAnnounced
  BY <1>0, <1>2 DEF LatestHasItsYear, GrowthIsNeverStale, CopiedIsAnnounced, Stored
<1>4. PastIsDisclosed /\ Reported
  <2>1. period = 1
    BY ONLY <1>0
  <2>2. \A p \in Periods : ~(p < period)
    BY FinConstants, <2>1 DEF Periods
  <2> QED BY <1>2, <2>2 DEF PastIsDisclosed, Reported
<1>6. AskedIsDated
  BY <1>5 DEF AskedIsDated
<1> QED BY <1>1, <1>3, <1>4, <1>6 DEF FinInv, FinancialsAreCurrent

\* What is announced is not shown before it is copied.
LEMMA AnnounceKeeps == ASSUME FinInv, Announce PROVE FinInv'
<1> USE FinConstants
<1>0. FinTypeOK /\ LatestHasItsYear /\ GrowthIsNeverStale /\ PastIsDisclosed /\ Reported /\ CopiedIsAnnounced /\ AskedIsDated
  BY DEF FinInv, FinancialsAreCurrent
<1>1. PICK p \in 1..period : /\ figures[p] < Versions /\ \A e \in 1..(p - 1) : figures[e] > 0
                             /\ figures' = [figures EXCEPT ![p] = @ + 1]
                             /\ asked' = (asked /\ figures[p] > 0)
  BY DEF Announce
<1>2. UNCHANGED <<period, reports, snapshots, syncMeta, disclosures>>
  BY DEF Announce
<1>3. p \in Periods /\ figures \in FiguresType /\ period \in Periods
  <2>1. figures \in FiguresType /\ period \in Periods
    BY ONLY <1>0 DEF FinTypeOK, FiguresType
  <2> QED BY <2>1 DEF Periods
<1>4. figures' \in FiguresType /\ \A e \in Periods : figures'[e] = IF e = p THEN figures[p] + 1 ELSE figures[e]
  BY <1>1, <1>3 DEF FiguresType
<1>5. asked' \in BOOLEAN
  BY <1>1
<1>6. FinTypeOK'
  BY <1>0, <1>2, <1>4, <1>5 DEF FinTypeOK, FiguresType
<1>7. LatestHasItsYear' /\ GrowthIsNeverStale' /\ PastIsDisclosed'
  BY <1>0, <1>2 DEF LatestHasItsYear, GrowthIsNeverStale, PastIsDisclosed, Stored, ShownSnapshot
<1>8. \A e \in Periods : figures[e] \in Nat /\ (figures[e] > 0 => figures'[e] > 0)
  BY <1>3, <1>4 DEF FiguresType
<1>9. Reported'
  <2>1. ASSUME NEW q \in Periods, figures'[q] > 0 PROVE q <= period /\ \A e \in 1..(q - 1) : figures'[e] > 0
    <3>1. q <= period /\ \A e \in 1..(q - 1) : figures[e] > 0
      <4>1. CASE q = p
        BY <1>1, <1>3, <4>1
      <4>2. CASE q # p
        BY <1>0, <1>4, <2>1, <4>2 DEF Reported
      <4> QED BY <4>1, <4>2
    <3> QED BY <1>8, <2>1, <3>1 DEF Periods
  <2> QED BY <1>0, <1>2, <1>8, <2>1 DEF Reported
<1>10. CopiedIsAnnounced'
  BY <1>0, <1>2, <1>8 DEF CopiedIsAnnounced
<1>11. AskedIsDated'
  BY <1>0, <1>1, <1>2, <1>3, <1>4 DEF AskedIsDated
<1> QED BY <1>6, <1>7, <1>9, <1>10, <1>11 DEF FinInv, FinancialsAreCurrent

LEMMA PeriodKeeps == ASSUME FinInv, PeriodEnds PROVE FinInv'
<1> USE FinConstants
<1>0. FinTypeOK /\ LatestHasItsYear /\ GrowthIsNeverStale /\ PastIsDisclosed /\ Reported /\ CopiedIsAnnounced /\ AskedIsDated
  BY DEF FinInv, FinancialsAreCurrent
<1>1. /\ period < LastPeriod /\ asked /\ period' = period + 1 /\ asked' = FALSE
      /\ \A p \in 1..period : figures[p] > 0 \/ (p = period /\ Annual(p))
      /\ UNCHANGED <<figures, reports, snapshots, syncMeta, disclosures>>
  BY DEF PeriodEnds
<1>2. period \in Periods /\ period' \in Periods /\ asked' \in BOOLEAN
  <2>1. period \in Periods
    BY ONLY <1>0 DEF FinTypeOK
  <2>2. period' = period + 1 /\ period < LastPeriod
    BY ONLY <1>1
  <2>3. asked' \in BOOLEAN
    BY ONLY <1>1
  <2> QED BY <2>1, <2>2, <2>3 DEF Periods
<1>3. FinTypeOK'
  BY <1>0, <1>1, <1>2 DEF FinTypeOK
<1>4. LatestHasItsYear' /\ GrowthIsNeverStale' /\ CopiedIsAnnounced' /\ AskedIsDated'
  BY <1>0, <1>1 DEF LatestHasItsYear, GrowthIsNeverStale, Stored, ShownSnapshot, CopiedIsAnnounced, AskedIsDated
<1>5. Reported'
  BY <1>0, <1>1, <1>2 DEF Reported, Periods
<1>6. PastIsDisclosed'
  <2> SUFFICES ASSUME NEW p \in Periods, p < period + 1, ~Annual(p) PROVE disclosures[p] = "disclosed"
    BY <1>1 DEF PastIsDisclosed
  <2>1. CASE p < period
    BY <1>0, <2>1 DEF PastIsDisclosed
  <2>2. CASE p = period
    BY <1>0, <1>1, <1>2, <2>2 DEF AskedIsDated, Periods
  <2> QED BY <1>2, <2>1, <2>2 DEF Periods
<1> QED BY <1>3, <1>4, <1>5, <1>6 DEF FinInv, FinancialsAreCurrent

LEMMA CalendarKeeps == ASSUME FinInv, SyncDisclosureCalendar \/ SyncFails PROVE FinInv'
<1> USE FinConstants
<1>0. FinTypeOK /\ LatestHasItsYear /\ GrowthIsNeverStale /\ PastIsDisclosed /\ Reported /\ CopiedIsAnnounced /\ AskedIsDated
  BY DEF FinInv, FinancialsAreCurrent
<1>1. CASE SyncFails
  <2>1. syncMeta' = [status |-> "error", latest |-> 0, periods |-> 0] /\ UNCHANGED <<period, figures, reports, snapshots, disclosures, asked>>
    BY <1>1 DEF SyncFails
  <2>2. syncMeta' \in [status : {"none", "ok", "error"}, latest : 0..LastPeriod, periods : 0..LastPeriod] /\ syncMeta'.status # "ok"
    BY <2>1
  <2> QED BY <1>0, <2>1, <2>2 DEF FinInv, FinancialsAreCurrent, FinTypeOK, LatestHasItsYear, GrowthIsNeverStale, Stored,
                             PastIsDisclosed, Reported, CopiedIsAnnounced, AskedIsDated
<1>2. CASE SyncDisclosureCalendar
  <2>1. /\ disclosures' = [disclosures EXCEPT ![period] = IF figures[period] > 0 THEN "disclosed" ELSE "planned"]
        /\ asked' = TRUE /\ UNCHANGED <<period, figures, reports, snapshots, syncMeta>>
    BY <1>2 DEF SyncDisclosureCalendar, LatestReportEnd
  <2>2. period \in Periods /\ disclosures \in [Periods -> {"no row", "planned", "disclosed"}]
    BY <1>0 DEF FinTypeOK
  <2>3. /\ disclosures' \in [Periods -> {"no row", "planned", "disclosed"}]
        /\ disclosures'[period] = IF figures[period] > 0 THEN "disclosed" ELSE "planned"
        /\ \A p \in Periods : p # period => disclosures'[p] = disclosures[p]
    BY <2>1, <2>2
  <2>4. asked' \in BOOLEAN
    BY <2>1
  <2>5. FinTypeOK'
    BY <1>0, <2>1, <2>3, <2>4 DEF FinTypeOK
  <2>6. PastIsDisclosed'
    <3>1. period' = period
      BY ONLY <2>1
    <3>2. ASSUME NEW p \in Periods, p < period, ~Annual(p) PROVE disclosures'[p] = "disclosed"
      <4>1. disclosures[p] = "disclosed"
        BY <1>0, <3>2 DEF PastIsDisclosed
      <4>2. p # period
        <5>0. period \in Periods
          BY <2>2
        <5>1. p \in Nat /\ period \in Nat
          BY ONLY <5>0, p \in Periods, FinConstants DEF Periods
        <5>2. p < period
          BY <3>2
        <5> QED BY ONLY <5>1, <5>2
      <4> QED BY <2>3, <4>1, <4>2
    <3> QED BY <3>1, <3>2 DEF PastIsDisclosed
  <2>8. AskedIsDated'
    BY ONLY <2>1, <2>3 DEF AskedIsDated
  <2>7. LatestHasItsYear' /\ GrowthIsNeverStale' /\ Reported' /\ CopiedIsAnnounced'
    BY <1>0, <2>1 DEF LatestHasItsYear, GrowthIsNeverStale, Stored, ShownSnapshot, CopiedIsAnnounced, Reported
  <2> QED BY <2>5, <2>6, <2>7, <2>8 DEF FinInv, FinancialsAreCurrent
<1> QED BY <1>1, <1>2

\* The greatest of the periods of a sync that brought rows, and how many they are.
LEMMA RowsBounded ==
    ASSUME NEW rows, rows \subseteq Periods
    PROVE  /\ Cardinality(rows) \in 0..LastPeriod
           /\ rows # {} => Max(rows) \in rows /\ \A p \in rows : p <= Max(rows)
<1> USE FinConstants
<1>1. IsFiniteSet(Periods) /\ Cardinality(Periods) = LastPeriod
  BY FS_Interval DEF Periods
<1>2. IsFiniteSet(rows) /\ Cardinality(rows) <= Cardinality(Periods)
  BY <1>1, FS_Subset
<1>3. Cardinality(rows) \in Nat
  BY <1>2, FS_CardinalityType
<1>4. ASSUME rows # {} PROVE Max(rows) \in rows /\ \A p \in rows : p <= Max(rows)
  <2>1. rows \subseteq Nat /\ LastPeriod \in Nat /\ \A p \in rows : p <= LastPeriod
    BY DEF Periods
  <2> QED BY <1>4, <2>1, MaxIsGreatest
<1> QED BY <1>1, <1>2, <1>3, <1>4

LEMMA SyncKeeps == ASSUME FinInv, SyncOne PROVE FinInv'
<1>w. PICK window \in Nat : window = WindowYears * Year /\ window >= 2 * Year
  BY WindowIsWide
<1>0. FinTypeOK /\ LatestHasItsYear /\ GrowthIsNeverStale /\ PastIsDisclosed /\ Reported /\ CopiedIsAnnounced /\ AskedIsDated
  BY DEF FinInv, FinancialsAreCurrent
<1>1. PICK rows \in {Fetched, {}} :
           /\ reports' = [p \in Periods |-> IF p \in rows THEN figures[p] ELSE reports[p]]
           /\ snapshots' = [p \in Periods |-> IF p \in rows THEN [version |-> figures[p], growth |-> Growth(p, rows)] ELSE snapshots[p]]
           /\ syncMeta' = [status |-> "ok", latest |-> IF rows = {} THEN 0 ELSE Max(rows), periods |-> Cardinality(rows)]
  BY DEF SyncOne
<1>2. UNCHANGED <<period, figures, disclosures, asked>>
  BY DEF SyncOne
<1>3. period \in Periods /\ figures \in FiguresType /\ reports \in FiguresType /\ snapshots \in SnapshotsType
  BY <1>0 DEF FinTypeOK, FiguresType, SnapshotsType
<1>4. /\ rows \subseteq Periods
      /\ \A p \in rows : p <= period /\ period - window < p /\ figures[p] > 0
      /\ rows # {} => \A p \in Periods : p <= period /\ period - window < p /\ figures[p] > 0 => p \in rows
  <2>1. CASE rows = {}
    BY <2>1
  <2>2. CASE rows = Fetched
    BY <1>3, <1>w, <2>2, FinConstants DEF Fetched, InWindow, Periods
  <2> QED BY <2>1, <2>2
<1>5. /\ Cardinality(rows) \in 0..LastPeriod
      /\ rows # {} => Max(rows) \in rows /\ \A p \in rows : p <= Max(rows)
  BY <1>4, RowsBounded
<1>6. \A p \in rows : figures[p] \in 0..Versions /\ Growth(p, rows) \in (0..Versions) \X (0..Versions)
  BY <1>3, <1>4, FinConstants DEF Growth, NoGrowth, FiguresType
<1>7. /\ \A p \in Periods : reports'[p] = IF p \in rows THEN figures[p] ELSE reports[p]
      /\ \A p \in rows : snapshots'[p].version = figures[p] /\ snapshots'[p].growth = Growth(p, rows)
      /\ \A p \in Periods \ rows : snapshots'[p] = snapshots[p]
  BY <1>1, <1>4
<1>8. FinTypeOK'
  <2>1. reports' \in FiguresType
    BY <1>1, <1>3, <1>6 DEF FiguresType
  <2>2. \A p \in Periods : (IF p \in rows THEN [version |-> figures[p], growth |-> Growth(p, rows)] ELSE snapshots[p])
                               \in [version : 0..Versions, growth : (0..Versions) \X (0..Versions)]
    BY <1>3, <1>6 DEF SnapshotsType
  <2>3. snapshots' \in SnapshotsType
    BY <1>1, <2>2 DEF SnapshotsType
  <2>4. (IF rows = {} THEN 0 ELSE Max(rows)) \in 0..LastPeriod
    <3>1. CASE rows = {}
      BY <3>1, FinConstants
    <3>2. CASE rows # {}
      <4>1. Max(rows) \in Periods
        BY <1>4, <1>5, <3>2
      <4> QED BY <3>2, <4>1, FinConstants DEF Periods
    <3> QED BY <3>1, <3>2
  <2>5. syncMeta' \in [status : {"none", "ok", "error"}, latest : 0..LastPeriod, periods : 0..LastPeriod]
    BY <1>1, <1>5, <2>4
  <2> QED BY <1>0, <1>2, <2>1, <2>3, <2>5 DEF FinTypeOK, FiguresType, SnapshotsType
<1>9. CopiedIsAnnounced'
  BY <1>0, <1>2, <1>4, <1>7 DEF CopiedIsAnnounced, Growth
<1>10. Reported' /\ AskedIsDated' /\ PastIsDisclosed'
  BY <1>0, <1>2 DEF Reported, AskedIsDated, PastIsDisclosed
\* A stored period that is not among the rows has left the window, and so has
\* the one a year before it.
<1>11. ASSUME NEW p \in Stored, rows # {}, p \notin rows PROVE p <= period - window /\ p - Year \notin rows
  <2>1. p \in Periods /\ p \in Nat /\ figures[p] > 0 /\ p <= period /\ period \in Nat
    BY <1>0, <1>3, <1>11, FinConstants DEF Stored, CopiedIsAnnounced, Reported, Periods
  <2>2. p <= period - window
    BY <1>4, <1>11, <2>1, FinConstants
  <2>3. ~(period - window < p - Year)
    BY <2>1, <2>2, FinConstants
  <2> QED BY <1>4, <2>2, <2>3
<1>12. GrowthIsNeverStale'
  <2> SUFFICES ASSUME NEW p \in Periods, snapshots'[p].version > 0
               PROVE  /\ snapshots'[p].version = reports'[p]
                      /\ snapshots'[p].growth /= NoGrowth => snapshots'[p].growth = <<reports'[p], reports'[p - Year]>>
    BY DEF GrowthIsNeverStale, Stored
  <2>1. CASE p \in rows
    <3>1. snapshots'[p].version = reports'[p] /\ snapshots'[p].growth = Growth(p, rows) /\ reports'[p] = figures[p]
      BY <1>7, <2>1
    <3>2. p - Year \in rows => reports'[p - Year] = figures[p - Year]
      BY <1>4, <1>7
    <3> QED BY <3>1, <3>2 DEF Growth
  <2>2. CASE p \notin rows
    <3>1. p \in Stored /\ snapshots'[p] = snapshots[p] /\ reports'[p] = reports[p]
      BY <1>7, <2>2 DEF Stored
    <3>2. snapshots[p].version = reports[p] /\ (snapshots[p].growth /= NoGrowth => snapshots[p].growth = <<reports[p], reports[p - Year]>>)
      BY <1>0, <3>1 DEF GrowthIsNeverStale
    <3>3. CASE p - Year \in Periods
      <4>1. p - Year \notin rows
        BY <1>11, <2>2, <3>1
      <4>2. reports'[p - Year] = reports[p - Year]
        BY <1>7, <3>3, <4>1
      <4> QED BY <3>1, <3>2, <4>2
    <3>4. snapshots[p].growth /= NoGrowth => p - Year \in Periods
      BY <1>0 DEF CopiedIsAnnounced
    <3> QED BY <3>1, <3>2, <3>3, <3>4
  <2> QED BY <2>1, <2>2
\* The period before the last two is out, so the newest row is one of the last
\* three, and its year before is still in the window.
<1>13. ASSUME rows # {} PROVE ShownSnapshot' = Max(rows) /\ (Max(rows) > Year => Max(rows) - Year \in rows)
  <2>1. Max(rows) \in rows /\ Max(rows) \in Nat /\ period \in Nat /\ Max(rows) <= period /\ \A p \in rows : p <= Max(rows)
    <3>1. Max(rows) \in rows /\ \A p \in rows : p <= Max(rows)
      BY <1>5, <1>13
    <3>2. Max(rows) \in Periods /\ Max(rows) <= period
      BY <1>4, <3>1
    <3> QED BY <1>3, <3>1, <3>2 DEF Periods
  <2>2. period - 2 <= Max(rows)
    <3>1. CASE period - 2 \in Periods
      <4>1. figures[period - 2] > 0
        BY <1>0, <2>1, <3>1 DEF Reported
      <4>2. period - window < period - 2
        BY <1>w, <2>1, FinConstants
      <4> QED BY <1>4, <1>13, <2>1, <3>1, <4>1, <4>2
    <3>2. CASE period - 2 \notin Periods
      BY <1>3, <2>1, <3>2, FinConstants DEF Periods
    <3> QED BY <3>1, <3>2
  <2>3. ASSUME Max(rows) > Year PROVE Max(rows) - Year \in rows
    <3>1. Max(rows) - Year \in 1..(Max(rows) - 1) /\ Max(rows) - Year \in Periods /\ Max(rows) - Year <= period
      BY <1>4, <2>1, <2>3, FinConstants DEF Periods
    <3>2. figures[Max(rows) - Year] > 0
      BY <1>0, <1>4, <2>1, <3>1 DEF Reported
    <3>3. period - window < Max(rows) - Year
      BY <1>w, <2>1, <2>2, FinConstants
    <3> QED BY <1>4, <1>13, <3>1, <3>2, <3>3
  <2>4. \A p \in Stored' : p \in Nat /\ p <= Max(rows)
    <3> SUFFICES ASSUME NEW p \in Periods, snapshots'[p].version > 0 PROVE p \in Nat /\ p <= Max(rows)
      BY DEF Stored
    <3>1. CASE p \in rows
      BY <2>1, <3>1 DEF Periods
    <3>2. CASE p \notin rows
      <4>1. p \in Stored
        BY <1>7, <3>2 DEF Stored
      <4>2. p <= period - window
        BY <1>11, <1>13, <3>2, <4>1
      <4> QED BY <1>w, <2>1, <2>2, <4>2, FinConstants DEF Periods
    <3> QED BY <3>1, <3>2
  <2>5. Max(rows) \in Stored'
    BY <1>4, <1>7, <2>1 DEF Stored
  <2>6. Max(Stored') \in Stored' /\ \A p \in Stored' : p <= Max(Stored')
    BY <2>1, <2>4, <2>5, MaxIsGreatest
  <2>7. Max(Stored') = Max(rows)
    <3>1. Max(Stored') \in Nat /\ Max(Stored') <= Max(rows) /\ Max(rows) <= Max(Stored')
      BY <2>4, <2>5, <2>6
    <3> QED BY <2>1, <3>1
  <2> QED BY <2>3, <2>7 DEF ShownSnapshot
<1>14. LatestHasItsYear'
  <2> SUFFICES ASSUME syncMeta'.periods > 0, ShownSnapshot' > Year PROVE (snapshots[ShownSnapshot].growth /= NoGrowth)'
    BY DEF LatestHasItsYear
  <2>1. rows # {}
    BY <1>1, FS_EmptySet
  <2>2. Max(rows) \in rows /\ ShownSnapshot' = Max(rows) /\ Max(rows) - Year \in rows
    BY <1>5, <1>13, <2>1
  <2>3. snapshots'[Max(rows)].growth = <<figures[Max(rows)], figures[Max(rows) - Year]>> /\ figures[Max(rows)] > 0
    BY <1>4, <1>7, <2>2 DEF Growth
  <2> QED BY <2>2, <2>3 DEF NoGrowth
<1> QED BY <1>8, <1>9, <1>10, <1>12, <1>14 DEF FinInv, FinancialsAreCurrent

LEMMA FinInductive == FinInv /\ [FinNext]_finVars => FinInv'
<1> SUFFICES ASSUME FinInv, [FinNext]_finVars PROVE FinInv'
  OBVIOUS
<1>1. CASE UNCHANGED finVars
  BY <1>1 DEF finVars, FinInv, FinancialsAreCurrent, FinTypeOK, LatestHasItsYear, GrowthIsNeverStale, Stored,
              ShownSnapshot, PastIsDisclosed, Reported, CopiedIsAnnounced, AskedIsDated
<1> QED BY <1>1, AnnounceKeeps, PeriodKeeps, CalendarKeeps, SyncKeeps DEF FinNext

\* For any number of periods, of versions of a report and of years of at least
\* three periods, as long as the window holds two years: the newest snapshot
\* shown has its growth, growth is of the reports stored, and the disclosure of
\* what is past is dated (financial_sync.py, disclosure_calendar_sync.py).
THEOREM FinancialsHold == FinSpec => []FinancialsAreCurrent
<1>1. FinInv => FinancialsAreCurrent
  BY DEF FinInv
<1> QED BY FinStarts, FinInductive, <1>1, PTL DEF FinSpec

-----------------------------------------------------------------------------
(* Feed: what the runs have fetched stays. A post in the hands of a run, or *)
(* counted as delivered, belongs to a subscription that still is, or to     *)
(* none: the invariant follows it from the fetch to the table               *)
(* (FetchedIsHeld, DeliveredIsThere).                                       *)

Keys == Ups \X Nat
FeedRunRecords ==
    [at : {"none", "fetch", "insert"}, todo : SUBSET Keys, sub : Keys \cup {Orphaned}, inHand : SUBSET Posts,
     rows : SUBSET (Keys \X Posts), fetched : SUBSET (Keys \X Posts)]

EnabledIsOwned == \A up \in Ups : subs[up].enabled => subs[up].owner /= "nobody"

FeedTypes ==
    /\ subs \in [Ups -> [owner : FeedUsers \cup {"nobody"}, id : Nat, enabled : BOOLEAN]]
    /\ feedRuns \in [FeedRuns -> FeedRunRecords]
    /\ DOMAIN items \subseteq Posts /\ delivered \subseteq Keys \X Posts
    /\ EnabledIsOwned

\* The key names a subscription that still is.
Live(key) == key = Subscription(key[1]) /\ subs[key[1]].owner /= "nobody"

\* A post that was fetched for a key is one of its author, and the key was given.
OfAuthor(f) == f[1][1] = f[2][1] /\ f[1][2] <= subs[f[1][1]].id

\* What is in the table belongs to who subscribes to its author now.
ItemsAreLive == \A p \in DOMAIN items : items[p] = Subscription(p[1]) /\ Live(items[p])

\* What a run has to do, has in hand or has inserted is of subscriptions that are.
RunsHoldLive ==
    \A r \in FeedRuns :
        /\ \A key \in feedRuns[r].todo : Live(key)
        /\ feedRuns[r].at = "insert" => feedRuns[r].sub \in Keys /\ Live(feedRuns[r].sub)
        /\ \A p \in feedRuns[r].inHand : feedRuns[r].at = "insert" /\ p[1] = feedRuns[r].sub[1]
        /\ \A row \in feedRuns[r].rows : Live(row[1]) /\ row[1][1] = row[2][1]

\* What a run has fetched it has in hand, has inserted or has found.
FetchedIsHeld ==
    \A r \in FeedRuns : \A f \in feedRuns[r].fetched :
        /\ OfAuthor(f)
        /\ Live(f[1]) => f[2] \in feedRuns[r].inHand \/ f \in feedRuns[r].rows \/ f[2] \in DOMAIN items

DeliveredIsThere == \A f \in delivered : OfAuthor(f) /\ (Live(f[1]) => f[2] \in DOMAIN items)

FeedInv == FeedTypes /\ ItemsAreLive /\ RunsHoldLive /\ FetchedIsHeld /\ DeliveredIsThere

-----------------------------------------------------------------------------
\* The newest posts of an author are posts, and its own.
LEMMA RecentPosts == \A up : Recent(up) \subseteq Posts /\ \A p \in Recent(up) : p[1] = up
BY DEF Recent

LEMMA PostAuthors == \A p \in Posts : p[1] \in Ups
BY DEF Posts

\* The record of a run that does nothing.
LEMMA RestingRun ==
    NoRun \in FeedRunRecords /\ NoRun.at = "none" /\ NoRun.todo = {} /\ NoRun.inHand = {} /\ NoRun.rows = {} /\ NoRun.fetched = {}
BY DEF NoRun, FeedRunRecords, Orphaned

LEMMA FeedStarts == FeedInit => FeedInv
<1> SUFFICES ASSUME FeedInit PROVE FeedInv
  OBVIOUS
<1>1. subs \in [Ups -> [owner : FeedUsers \cup {"nobody"}, id : Nat, enabled : BOOLEAN]] /\ EnabledIsOwned
  BY DEF FeedInit, NoSub, EnabledIsOwned
<1>2. feedRuns \in [FeedRuns -> FeedRunRecords] /\ \A r \in FeedRuns : feedRuns[r] = NoRun
  BY RestingRun DEF FeedInit
<1>3. DOMAIN items = {} /\ delivered = {}
  BY DEF FeedInit
<1> QED BY <1>1, <1>2, <1>3, RestingRun DEF FeedInv, FeedTypes, ItemsAreLive, RunsHoldLive, FetchedIsHeld, DeliveredIsThere

\* With a table, rows of which each names the key its post has to have, gives
\* every post that key.
LEMMA WithRows ==
    ASSUME NEW before, NEW rows, NEW filled, filled = With(before, rows)
    PROVE  /\ \A p : p \in DOMAIN filled <=> p \in DOMAIN before \/ \E row \in rows : row[2] = p
           /\ \A p \in DOMAIN before : filled[p] = before[p]
           /\ \A p \in DOMAIN filled \ DOMAIN before : \E row \in rows : row[2] = p /\ filled[p] = row[1]
<1>1. DOMAIN filled = DOMAIN before \cup {row[2] : row \in rows}
  BY DEF With
<1>2. ASSUME NEW p \in DOMAIN filled \ DOMAIN before PROVE \E row \in rows : row[2] = p /\ filled[p] = row[1]
  <2> DEFINE chosen == CHOOSE row \in rows : row[2] = p
  <2>1. chosen \in rows /\ chosen[2] = p
    BY <1>1
  <2>2. filled[p] = chosen[1]
    BY <1>1 DEF With
  <2> QED BY <2>1, <2>2
<1> QED BY <1>1, <1>2 DEF With

LEMMA RunTypes ==
    ASSUME FeedTypes, NEW r \in FeedRuns
    PROVE  /\ feedRuns[r] \in FeedRunRecords
           /\ \A key \in feedRuns[r].todo : key \in Keys /\ key[1] \in Ups
           /\ feedRuns[r].inHand \subseteq Posts
           /\ \A row \in feedRuns[r].rows \cup feedRuns[r].fetched :
                  row \in Keys \X Posts /\ row[1] \in Keys /\ row[1][1] \in Ups /\ row[2] \in Posts
BY DEF FeedTypes, FeedRunRecords, Keys

\* While every subscription keeps its key and its owner, so does all that is of it.
LEMMA SameKeys ==
    ASSUME FeedInv, FeedTypes', UNCHANGED <<items, feedRuns, delivered>>,
           \A a \in Ups : subs'[a].owner = subs[a].owner /\ subs'[a].id = subs[a].id
    PROVE  FeedInv'
<1>1. ASSUME NEW key, key[1] \in Ups PROVE (Live(key)' <=> Live(key)) /\ Subscription(key[1])' = Subscription(key[1])
  BY <1>1 DEF Live, Subscription
<1>2. ASSUME NEW f, f[1][1] \in Ups PROVE OfAuthor(f)' <=> OfAuthor(f)
  BY <1>2 DEF OfAuthor
<1>3. FeedTypes /\ ItemsAreLive /\ RunsHoldLive /\ FetchedIsHeld /\ DeliveredIsThere
  BY DEF FeedInv
<1>4. ItemsAreLive'
  <2> SUFFICES ASSUME NEW p \in DOMAIN items PROVE items[p] = Subscription(p[1])' /\ Live(items[p])'
    BY DEF ItemsAreLive
  <2>1. p[1] \in Ups /\ items[p] = Subscription(p[1]) /\ Live(items[p])
    BY <1>3, PostAuthors DEF FeedTypes, ItemsAreLive
  <2>2. items[p][1] = p[1]
    BY <2>1 DEF Subscription
  <2> QED BY <1>1, <2>1, <2>2
<1>5. RunsHoldLive'
  <2> SUFFICES ASSUME NEW r \in FeedRuns
               PROVE  /\ \A key \in feedRuns[r].todo : Live(key)'
                      /\ feedRuns[r].at = "insert" => feedRuns[r].sub \in Keys /\ Live(feedRuns[r].sub)'
                      /\ \A p \in feedRuns[r].inHand : feedRuns[r].at = "insert" /\ p[1] = feedRuns[r].sub[1]
                      /\ \A row \in feedRuns[r].rows : Live(row[1])' /\ row[1][1] = row[2][1]
    BY DEF RunsHoldLive
  <2>1. feedRuns[r].sub \in Keys => feedRuns[r].sub[1] \in Ups
    BY DEF Keys
  <2> QED BY <1>1, <1>3, <2>1, RunTypes DEF RunsHoldLive
<1>6. FetchedIsHeld'
  BY <1>1, <1>2, <1>3, RunTypes DEF FetchedIsHeld
<1>7. DeliveredIsThere'
  <2>1. \A f \in delivered : f[1][1] \in Ups
    BY <1>3 DEF FeedTypes, Keys
  <2> QED BY <1>1, <1>2, <1>3, <2>1 DEF DeliveredIsThere
<1> QED BY <1>4, <1>5, <1>6, <1>7 DEF FeedInv

\* A subscription is switched on and off, or a post is made.
LEMMA SwitchKeeps == ASSUME FeedInv, SetSubscriptionEnabled \/ PostIsMade PROVE FeedInv'
<1>1. UNCHANGED <<items, feedRuns, delivered>>
  BY DEF SetSubscriptionEnabled, PostIsMade
<1>2. subs' \in [Ups -> [owner : FeedUsers \cup {"nobody"}, id : Nat, enabled : BOOLEAN]]
      /\ \A a \in Ups : subs'[a].owner = subs[a].owner /\ subs'[a].id = subs[a].id
  <2>1. subs \in [Ups -> [owner : FeedUsers \cup {"nobody"}, id : Nat, enabled : BOOLEAN]]
    BY DEF FeedInv, FeedTypes
  <2>2. CASE PostIsMade
    BY <2>1, <2>2 DEF PostIsMade
  <2>3. CASE SetSubscriptionEnabled
    <3>1. PICK up \in Ups : subs' = [subs EXCEPT ![up].enabled = ~@]
      BY <2>3 DEF SetSubscriptionEnabled
    <3> QED BY <2>1, <3>1
  <2> QED BY <2>2, <2>3
<1>4. EnabledIsOwned'
  <2>1. \A a \in Ups : subs[a].enabled => subs[a].owner /= "nobody"
    BY DEF FeedInv, FeedTypes, EnabledIsOwned
  <2>2. CASE PostIsMade
    BY <2>1, <2>2 DEF PostIsMade, EnabledIsOwned
  <2>3. CASE SetSubscriptionEnabled
    <3>1. PICK up \in Ups : subs[up].owner /= "nobody" /\ subs' = [subs EXCEPT ![up].enabled = ~@]
      BY <2>3 DEF SetSubscriptionEnabled
    <3>2. \A a \in Ups : a # up => subs'[a] = subs[a]
      BY <3>1 DEF FeedInv, FeedTypes
    <3> QED BY <1>2, <2>1, <3>1, <3>2 DEF EnabledIsOwned
  <2> QED BY <2>2, <2>3
<1>3. FeedTypes'
  BY <1>1, <1>2, <1>4 DEF FeedInv, FeedTypes
<1> QED BY <1>1, <1>2, <1>3, SameKeys

\* A new subscription has a key that was never given, so nothing there is of it;
\* the posts its first fetch finds are all inserted.
LEMMA SubscribeKeeps == ASSUME FeedInv, AddBilibiliUp PROVE FeedInv'
<1> USE FeedAssumption
<1>0. FeedTypes /\ ItemsAreLive /\ RunsHoldLive /\ FetchedIsHeld /\ DeliveredIsThere
  BY DEF FeedInv
<1>1. PICK up \in Ups, user \in FeedUsers, fetches \in BOOLEAN :
        /\ subs[up] = [NoSub EXCEPT !.id = subs[up].id]
        /\ subs' = [subs EXCEPT ![up] = [owner |-> user, id |-> @.id + 1, enabled |-> TRUE]]
        /\ LET new == {<<<<up, subs[up].id + 1>>, p>> : p \in Recent(up) \ DOMAIN items} IN
           IF fetches
           THEN /\ items' = With(items, new)
                /\ delivered' = delivered \cup {<<<<up, subs[up].id + 1>>, p>> : p \in Recent(up)}
           ELSE UNCHANGED <<items, delivered>>
  BY DEF AddBilibiliUp
<1>2. feedRuns' = feedRuns
  BY DEF AddBilibiliUp
<1> PICK key : key = <<up, subs[up].id + 1>>
  OBVIOUS
<1> DEFINE new == {<<key, p>> : p \in Recent(up) \ DOMAIN items}
<1>3. subs[up].owner = "nobody" /\ subs[up].id \in Nat /\ key \in Keys /\ key[1] = up /\ key[2] = subs[up].id + 1
  <2>1. subs[up].id \in Nat
    BY <1>0 DEF FeedTypes
  <2>2. subs[up].owner = "nobody"
    BY <1>1 DEF NoSub
  <2> QED BY <2>1, <2>2 DEF Keys
<1>4. /\ subs' \in [Ups -> [owner : FeedUsers \cup {"nobody"}, id : Nat, enabled : BOOLEAN]]
      /\ subs'[up].owner = user /\ subs'[up].id = subs[up].id + 1
      /\ \A a \in Ups : a # up => subs'[a] = subs[a]
  BY <1>0, <1>1, <1>3 DEF FeedTypes
<1>5. Subscription(up)' = key /\ Live(key)'
  BY <1>3, <1>4 DEF Subscription, Live
<1>6. ASSUME NEW k, k[1] \in Ups, Live(k) PROVE Live(k)' /\ k[1] # up /\ Subscription(k[1])' = Subscription(k[1])
  BY <1>3, <1>4, <1>6 DEF Live, Subscription
<1>7. ASSUME NEW k, k[1] \in Ups, Live(k)' PROVE Live(k) \/ k = key
  BY <1>3, <1>4, <1>7 DEF Live, Subscription
<1>8. ASSUME NEW f \in Keys \X Posts, OfAuthor(f) PROVE OfAuthor(f)' /\ f[1] # key /\ (Live(f[1])' => Live(f[1]))
  <2>1. f[1][1] \in Ups /\ f[1][2] \in Nat
    BY DEF Keys
  <2>2. subs[f[1][1]].id \in Nat
    BY <1>0, <2>1 DEF FeedTypes
  <2>3. f[1] # key
    <3> SUFFICES ASSUME f[1] = key PROVE FALSE
      OBVIOUS
    <3> QED BY <1>8, <1>3 DEF OfAuthor
  <2>4. OfAuthor(f)'
    BY <1>8, <1>4, <1>3, <2>1, <2>2 DEF OfAuthor
  <2> QED BY <1>7, <2>1, <2>3, <2>4
<1>9. /\ DOMAIN items' = DOMAIN items \cup (IF fetches THEN Recent(up) ELSE {})
      /\ \A p \in DOMAIN items : items'[p] = items[p]
      /\ \A p \in DOMAIN items' \ DOMAIN items : items'[p] = key /\ p[1] = up
  <2>1. CASE ~fetches
    BY <1>1, <2>1
  <2>2. CASE fetches
    <3>1. items' = With(items, new)
      BY <1>1, <2>2
    <3>2. /\ \A row \in new : row[1] = key /\ row[2] \in Recent(up)
          /\ \A p : p \in Recent(up) \ DOMAIN items <=> \E row \in new : row[2] = p
      <4>1. \A row \in new : row[1] = key /\ row[2] \in Recent(up) \ DOMAIN items
        OBVIOUS
      <4>2. \A p \in Recent(up) \ DOMAIN items : <<key, p>> \in new /\ <<key, p>>[2] = p
        OBVIOUS
      <4> HIDE DEF new
      <4> QED BY <4>1, <4>2
    <3> HIDE DEF new
    <3>5. /\ \A p : p \in DOMAIN items' <=> p \in DOMAIN items \/ \E row \in new : row[2] = p
          /\ \A p \in DOMAIN items : items'[p] = items[p]
          /\ \A p \in DOMAIN items' \ DOMAIN items : \E row \in new : row[2] = p /\ items'[p] = row[1]
      BY <3>1, WithRows
    <3>3. DOMAIN items' = DOMAIN items \cup (Recent(up) \ DOMAIN items)
      BY <3>2, <3>5
    <3>4. ASSUME NEW p \in DOMAIN items' \ DOMAIN items PROVE items'[p] = key /\ p[1] = up
      BY <3>2, <3>5, RecentPosts
    <3> QED BY <2>2, <3>3, <3>4, <3>5
  <2> QED BY <2>1, <2>2
<1>10. ItemsAreLive'
  <2> SUFFICES ASSUME NEW p \in DOMAIN items' PROVE (items[p] = Subscription(p[1]) /\ Live(items[p]))'
    BY DEF ItemsAreLive
  <2>1. CASE p \in DOMAIN items
    <3>1. p[1] \in Ups /\ items[p] = Subscription(p[1]) /\ Live(items[p])
      BY <1>0, <2>1, PostAuthors DEF FeedTypes, ItemsAreLive
    <3>2. items[p][1] = p[1]
      BY <3>1 DEF Subscription
    <3> QED BY <1>6, <1>9, <2>1, <3>1, <3>2
  <2>2. CASE p \notin DOMAIN items
    <3>1. items'[p] = key /\ p[1] = up
      BY <1>9, <2>2
    <3> QED BY <1>5, <3>1
  <2> QED BY <2>1, <2>2
<1>11. RunsHoldLive'
  <2> SUFFICES ASSUME NEW r \in FeedRuns
               PROVE  /\ \A k \in feedRuns[r].todo : Live(k)'
                      /\ feedRuns[r].at = "insert" => feedRuns[r].sub \in Keys /\ Live(feedRuns[r].sub)'
                      /\ \A p \in feedRuns[r].inHand : feedRuns[r].at = "insert" /\ p[1] = feedRuns[r].sub[1]
                      /\ \A row \in feedRuns[r].rows : Live(row[1])' /\ row[1][1] = row[2][1]
    BY <1>2 DEF RunsHoldLive
  <2>1. feedRuns[r].sub \in Keys => feedRuns[r].sub[1] \in Ups
    BY DEF Keys
  <2> QED BY <1>0, <1>2, <1>6, <2>1, RunTypes DEF RunsHoldLive
<1>12. FetchedIsHeld'
  <2> SUFFICES ASSUME NEW r \in FeedRuns, NEW f \in feedRuns[r].fetched
               PROVE  /\ OfAuthor(f)'
                      /\ Live(f[1])' => f[2] \in feedRuns[r].inHand \/ f \in feedRuns[r].rows \/ f[2] \in DOMAIN items'
    BY <1>2 DEF FetchedIsHeld
  <2>1. f \in Keys \X Posts /\ OfAuthor(f)
    BY <1>0, RunTypes DEF FetchedIsHeld
  <2> QED BY <1>0, <1>8, <1>9, <2>1 DEF FetchedIsHeld
<1>13. delivered' \subseteq Keys \X Posts
  BY <1>0, <1>1, <1>3, RecentPosts DEF FeedTypes
<1>14. DeliveredIsThere'
  <2> SUFFICES ASSUME NEW f \in delivered' PROVE OfAuthor(f)' /\ (Live(f[1])' => f[2] \in DOMAIN items')
    BY DEF DeliveredIsThere
  <2>1. CASE f \in delivered
    <3>1. f \in Keys \X Posts /\ OfAuthor(f) /\ (Live(f[1]) => f[2] \in DOMAIN items)
      BY <1>0, <2>1 DEF FeedTypes, DeliveredIsThere
    <3> QED BY <1>8, <1>9, <3>1
  <2>2. CASE f \notin delivered
    <3>1. fetches /\ \E p \in Recent(up) : f = <<key, p>>
      BY <1>1, <2>2
    <3>2. f[1] = key /\ f[2] \in Recent(up) /\ f[2][1] = up
      BY <3>1, RecentPosts
    <3>3. OfAuthor(f)'
      BY <1>3, <1>4, <3>2 DEF OfAuthor
    <3> QED BY <1>9, <3>1, <3>2, <3>3
  <2> QED BY <2>1, <2>2
<1>15. FeedTypes'
  <2>1. DOMAIN items' \subseteq Posts
    BY <1>0, <1>9, RecentPosts DEF FeedTypes
  <2> QED BY <1>0, <1>2, <1>4, <1>13, <2>1 DEF FeedTypes, EnabledIsOwned
<1> QED BY <1>10, <1>11, <1>12, <1>14, <1>15 DEF FeedInv

\* A subscription that nothing holds takes with it exactly what is of it.
LEMMA DeleteKeeps == ASSUME FeedInv, DeleteSubscription, ~DeletesOverlap PROVE FeedInv'
<1>0. FeedTypes /\ ItemsAreLive /\ RunsHoldLive /\ FetchedIsHeld /\ DeliveredIsThere
  BY DEF FeedInv
<1>1. PICK up \in Ups : /\ ~InUse(up) /\ items' = ItemsLeft(up)
                        /\ subs' = [subs EXCEPT ![up] = [NoSub EXCEPT !.id = subs[up].id]]
  BY DEF DeleteSubscription
<1>2. UNCHANGED <<feedRuns, delivered>>
  BY DEF DeleteSubscription
<1>3. /\ subs' \in [Ups -> [owner : FeedUsers \cup {"nobody"}, id : Nat, enabled : BOOLEAN]]
      /\ subs'[up].owner = "nobody"
      /\ \A a \in Ups : subs'[a].id = subs[a].id /\ (a # up => subs'[a] = subs[a])
  BY <1>0, <1>1 DEF FeedTypes, NoSub
<1>4. ASSUME NEW k, k[1] \in Ups
      PROVE  /\ Live(k)' => Live(k)
             /\ Live(k) /\ k # Subscription(up) => Live(k)' /\ Subscription(k[1])' = Subscription(k[1])
  BY <1>3, <1>4 DEF Live, Subscription
<1>5. ASSUME NEW f, f[1][1] \in Ups PROVE OfAuthor(f)' <=> OfAuthor(f)
  BY <1>3, <1>5 DEF OfAuthor
<1>6. /\ \A p : p \in DOMAIN items' <=> p \in DOMAIN items /\ items[p] # Subscription(up)
      /\ \A p \in DOMAIN items' : items'[p] = items[p]
  BY <1>1 DEF ItemsLeft
<1>7. ItemsAreLive'
  <2> SUFFICES ASSUME NEW p \in DOMAIN items' PROVE (items[p] = Subscription(p[1]) /\ Live(items[p]))'
    BY DEF ItemsAreLive
  <2>1. p[1] \in Ups /\ items[p] = Subscription(p[1]) /\ Live(items[p]) /\ items[p] # Subscription(up) /\ items'[p] = items[p]
    BY <1>0, <1>6, PostAuthors DEF FeedTypes, ItemsAreLive
  <2>2. items[p][1] = p[1]
    BY <2>1 DEF Subscription
  <2> QED BY <1>4, <2>1, <2>2
<1>8. RunsHoldLive'
  <2> SUFFICES ASSUME NEW r \in FeedRuns
               PROVE  /\ \A k \in feedRuns[r].todo : Live(k)'
                      /\ feedRuns[r].at = "insert" => feedRuns[r].sub \in Keys /\ Live(feedRuns[r].sub)'
                      /\ \A p \in feedRuns[r].inHand : feedRuns[r].at = "insert" /\ p[1] = feedRuns[r].sub[1]
                      /\ \A row \in feedRuns[r].rows : Live(row[1])' /\ row[1][1] = row[2][1]
    BY <1>2 DEF RunsHoldLive
  <2>1. feedRuns[r].sub \in Keys => feedRuns[r].sub[1] \in Ups
    BY DEF Keys
  <2>2. /\ Subscription(up) \notin feedRuns[r].todo /\ feedRuns[r].sub # Subscription(up)
        /\ \A row \in feedRuns[r].rows : row[1] # Subscription(up)
    BY <1>1 DEF InUse
  <2> QED BY <1>0, <1>2, <1>4, <2>1, <2>2, RunTypes DEF RunsHoldLive
<1>9. ASSUME NEW p \in DOMAIN items, Live(Subscription(p[1])) , p[1] # up PROVE p \in DOMAIN items'
  BY <1>0, <1>6, <1>9 DEF ItemsAreLive, Subscription
<1>10. ASSUME NEW f \in Keys \X Posts, OfAuthor(f), Live(f[1])' PROVE Live(f[1]) /\ (f[2] \in DOMAIN items => f[2] \in DOMAIN items')
  <2>1. f[1][1] \in Ups /\ Live(f[1]) /\ f[1] = Subscription(f[1][1]) /\ f[1][1] = f[2][1]
    BY <1>4, <1>10 DEF Keys, Live, OfAuthor
  <2>2. f[1][1] # up
    BY <1>3, <1>10, <2>1 DEF Live
  <2> QED BY <1>9, <2>1, <2>2
<1>11. FetchedIsHeld'
  <2> SUFFICES ASSUME NEW r \in FeedRuns, NEW f \in feedRuns[r].fetched
               PROVE  /\ OfAuthor(f)'
                      /\ Live(f[1])' => f[2] \in feedRuns[r].inHand \/ f \in feedRuns[r].rows \/ f[2] \in DOMAIN items'
    BY <1>2 DEF FetchedIsHeld
  <2>1. f \in Keys \X Posts /\ f[1][1] \in Ups /\ OfAuthor(f)
    BY <1>0, RunTypes DEF FetchedIsHeld
  <2> QED BY <1>0, <1>5, <1>10, <2>1 DEF FetchedIsHeld
<1>12. DeliveredIsThere'
  <2> SUFFICES ASSUME NEW f \in delivered PROVE OfAuthor(f)' /\ (Live(f[1])' => f[2] \in DOMAIN items')
    BY <1>2 DEF DeliveredIsThere
  <2>1. f \in Keys \X Posts /\ f[1][1] \in Ups /\ OfAuthor(f)
    BY <1>0 DEF FeedTypes, Keys, DeliveredIsThere
  <2> QED BY <1>0, <1>5, <1>10, <2>1 DEF DeliveredIsThere
<1>13. FeedTypes'
  <2>1. DOMAIN items' \subseteq DOMAIN items
    BY <1>6
  <2>2. EnabledIsOwned'
    <3>1. \A a \in Ups : a # up => subs'[a] = subs[a]
      BY <1>3
    <3>2. ~subs'[up].enabled
      BY <1>0, <1>1 DEF FeedTypes, NoSub
    <3> QED BY <1>0, <3>1, <3>2 DEF FeedTypes, EnabledIsOwned
  <2> QED BY <1>0, <1>2, <1>3, <2>1, <2>2 DEF FeedTypes
<1> QED BY <1>7, <1>8, <1>11, <1>12, <1>13 DEF FeedInv

\* What a run may hold: the parts of the invariant that are about one run.
RunHolds(run) ==
    /\ \A key \in run.todo : Live(key)
    /\ run.at = "insert" => run.sub \in Keys /\ Live(run.sub)
    /\ \A p \in run.inHand : run.at = "insert" /\ p[1] = run.sub[1]
    /\ \A row \in run.rows : Live(row[1]) /\ row[1][1] = row[2][1]
    /\ \A f \in run.fetched :
        /\ OfAuthor(f)
        /\ Live(f[1]) => f[2] \in run.inHand \/ f \in run.rows \/ f[2] \in DOMAIN items

\* A step of one run that changes its record alone.
LEMMA OneRun ==
    ASSUME FeedInv, NEW r \in FeedRuns, NEW run \in FeedRunRecords, RunHolds(run),
           feedRuns' = [feedRuns EXCEPT ![r] = run], UNCHANGED <<subs, items, delivered>>
    PROVE  FeedInv'
<1>1. feedRuns' \in [FeedRuns -> FeedRunRecords] /\ \A q \in FeedRuns : feedRuns'[q] = IF q = r THEN run ELSE feedRuns[q]
  BY DEF FeedInv, FeedTypes
<1>2. (\A key : Live(key)' <=> Live(key)) /\ (\A f : OfAuthor(f)' <=> OfAuthor(f))
  BY DEF Live, OfAuthor, Subscription
<1>3. ItemsAreLive' /\ DeliveredIsThere' /\ FeedTypes'
  BY <1>1 DEF FeedInv, FeedTypes, ItemsAreLive, DeliveredIsThere, Live, OfAuthor, Subscription, EnabledIsOwned
<1>4. RunsHoldLive'
  <2> SUFFICES ASSUME NEW q \in FeedRuns
               PROVE  /\ \A key \in feedRuns'[q].todo : Live(key)
                      /\ feedRuns'[q].at = "insert" => feedRuns'[q].sub \in Keys /\ Live(feedRuns'[q].sub)
                      /\ \A p \in feedRuns'[q].inHand : feedRuns'[q].at = "insert" /\ p[1] = feedRuns'[q].sub[1]
                      /\ \A row \in feedRuns'[q].rows : Live(row[1]) /\ row[1][1] = row[2][1]
    BY <1>2 DEF RunsHoldLive
  <2>1. CASE q = r
    BY <1>1, <2>1 DEF RunHolds
  <2>2. CASE q # r
    BY <1>1, <2>2 DEF FeedInv, RunsHoldLive
  <2> QED BY <2>1, <2>2
<1>5. FetchedIsHeld'
  BY <1>1, <1>2 DEF FeedInv, FetchedIsHeld, RunHolds
<1> QED BY <1>3, <1>4, <1>5 DEF FeedInv

LEMMA RunsHold == ASSUME FeedInv, NEW r \in FeedRuns PROVE feedRuns[r] \in FeedRunRecords /\ RunHolds(feedRuns[r])
BY DEF FeedInv, FeedTypes, RunsHoldLive, FetchedIsHeld, RunHolds

\* A run reads the subscriptions, asks for the next one's posts, or dies.
LEMMA FetchKeeps ==
    ASSUME FeedInv, NEW r \in FeedRuns, StartFeedRun(r) \/ FetchPosts(r) \/ NextSubscription(r) \/ FeedRunDies(r)
    PROVE  FeedInv'
<1>0. feedRuns[r] \in FeedRunRecords /\ RunHolds(feedRuns[r]) /\ UNCHANGED <<subs, items, delivered>> /\ FeedTypes
  BY RunsHold DEF StartFeedRun, FetchPosts, NextSubscription, FeedRunDies, FeedInv
<1>1. CASE StartFeedRun(r)
  <2> DEFINE switchedOn == {Subscription(up) : up \in {a \in Ups : subs[a].enabled}}
             run == [NoRun EXCEPT !.at = "fetch", !.todo = switchedOn]
  <2>1. feedRuns' = [feedRuns EXCEPT ![r] = run]
    BY <1>1 DEF StartFeedRun
  <2>2. switchedOn \subseteq Keys /\ \A key \in switchedOn : Live(key)
    <3> SUFFICES ASSUME NEW a \in Ups, subs[a].enabled PROVE Subscription(a) \in Keys /\ Live(Subscription(a))
      OBVIOUS
    <3>1. subs[a].id \in Nat /\ Subscription(a)[1] = a /\ Subscription(a) \in Keys
      BY <1>0 DEF FeedTypes, Keys, Subscription
    <3>2. subs[a].owner /= "nobody"
      BY <1>0 DEF FeedTypes, EnabledIsOwned
    <3> QED BY <3>1, <3>2 DEF Live
  <2> HIDE DEF switchedOn
  <2>3. run \in FeedRunRecords /\ run.at = "fetch" /\ run.todo = switchedOn /\ run.inHand = {} /\ run.rows = {} /\ run.fetched = {}
    BY <2>2 DEF NoRun, FeedRunRecords, Orphaned
  <2> HIDE DEF run
  <2>4. RunHolds(run)
    BY <2>2, <2>3 DEF RunHolds
  <2> QED BY <1>0, <2>1, <2>3, <2>4, OneRun
<1>2. CASE FetchPosts(r)
  <2>1. PICK s \in feedRuns[r].todo :
           \/ feedRuns' = [feedRuns EXCEPT ![r].todo = @ \ {s}]
           \/ feedRuns' = [feedRuns EXCEPT ![r] = [feedRuns[r] EXCEPT !.at = "insert", !.todo = @ \ {s}, !.sub = s, !.inHand = Recent(s[1]),
                                                             !.fetched = @ \cup {<<s, p>> : p \in Recent(s[1])}]]
    BY <1>2 DEF FetchPosts
  <2>2. feedRuns[r].at = "fetch" /\ s \in Keys /\ s[1] \in Ups /\ Live(s)
    BY <1>0, <1>2, RunTypes DEF FetchPosts, RunHolds
  <2>3. CASE feedRuns' = [feedRuns EXCEPT ![r].todo = @ \ {s}]
    <3> DEFINE run == [feedRuns[r] EXCEPT !.todo = @ \ {s}]
    <3>1. feedRuns' = [feedRuns EXCEPT ![r] = run]
      BY <2>3
    <3>2. run \in FeedRunRecords /\ RunHolds(run)
      BY <1>0 DEF FeedRunRecords, RunHolds
    <3> HIDE DEF run
    <3> QED BY <1>0, <3>1, <3>2, OneRun
  <2>4. CASE feedRuns' = [feedRuns EXCEPT ![r] = [feedRuns[r] EXCEPT !.at = "insert", !.todo = @ \ {s}, !.sub = s, !.inHand = Recent(s[1]),
                                                             !.fetched = @ \cup {<<s, p>> : p \in Recent(s[1])}]]
    <3> DEFINE new == {<<s, p>> : p \in Recent(s[1])}
               run == [feedRuns[r] EXCEPT !.at = "insert", !.todo = @ \ {s}, !.sub = s, !.inHand = Recent(s[1]), !.fetched = @ \cup new]
    <3>1. feedRuns' = [feedRuns EXCEPT ![r] = run]
      BY <2>4
    <3>2. /\ new \subseteq Keys \X Posts
          /\ \A f \in new : f[1] = s /\ f[2] \in Recent(s[1]) /\ f[2][1] = s[1]
      BY <2>2, RecentPosts
    <3>3. \A f \in new : OfAuthor(f)
      <4>1. s = <<s[1], subs[s[1]].id>> /\ subs[s[1]].id \in Nat
        BY <1>0, <2>2 DEF Live, Subscription, FeedTypes
      <4> QED BY <3>2, <4>1 DEF OfAuthor
    <3> HIDE DEF new
    <3>4. /\ run \in FeedRunRecords /\ run.at = "insert" /\ run.sub = s /\ run.inHand = Recent(s[1])
          /\ run.todo = feedRuns[r].todo \ {s} /\ run.rows = feedRuns[r].rows /\ run.fetched = feedRuns[r].fetched \cup new
      BY <1>0, <2>2, <3>2, RecentPosts DEF FeedRunRecords
    <3> HIDE DEF run
    <3>5. feedRuns[r].inHand = {}
      BY <1>0, <2>2 DEF RunHolds
    <3>6. RunHolds(run)
      BY <1>0, <2>2, <3>2, <3>3, <3>4, <3>5, RecentPosts DEF RunHolds
    <3> QED BY <1>0, <3>1, <3>4, <3>6, OneRun
  <2> QED BY <2>1, <2>3, <2>4
<1>3. CASE NextSubscription(r)
  <2> DEFINE run == [feedRuns[r] EXCEPT !.at = "fetch", !.sub = Orphaned]
  <2>1. feedRuns' = [feedRuns EXCEPT ![r] = run] /\ feedRuns[r].inHand = {}
    BY <1>3 DEF NextSubscription
  <2>2. run \in FeedRunRecords /\ RunHolds(run)
    BY <1>0, <2>1 DEF FeedRunRecords, RunHolds
  <2> HIDE DEF run
  <2> QED BY <1>0, <2>1, <2>2, OneRun
<1>4. CASE FeedRunDies(r)
  <2>1. feedRuns' = [feedRuns EXCEPT ![r] = NoRun] /\ RunHolds(NoRun)
    BY <1>4, RestingRun DEF FeedRunDies, RunHolds
  <2> QED BY <1>0, <2>1, RestingRun, OneRun
<1> QED BY <1>1, <1>2, <1>3, <1>4

\* A post in hand is inserted, or it is there and is of the same subscription.
LEMMA InsertKeeps == ASSUME FeedInv, NEW r \in FeedRuns, InsertItem(r) PROVE FeedInv'
<1>0. feedRuns[r] \in FeedRunRecords /\ RunHolds(feedRuns[r]) /\ UNCHANGED <<subs, items, delivered>> /\ FeedTypes
  BY RunsHold DEF InsertItem, FeedInv
<1>1. PICK post \in feedRuns[r].inHand :
        feedRuns' = [feedRuns EXCEPT ![r] = [feedRuns[r] EXCEPT !.inHand = @ \ {post}, !.rows = Inserted(@, feedRuns[r].sub, post)]]
  BY DEF InsertItem
<1> DEFINE sub == feedRuns[r].sub
           rows == Inserted(feedRuns[r].rows, sub, post)
           run == [feedRuns[r] EXCEPT !.inHand = @ \ {post}, !.rows = rows]
<1>2. feedRuns' = [feedRuns EXCEPT ![r] = run]
  BY <1>1
<1>3. post \in Posts /\ sub \in Keys /\ Live(sub) /\ post[1] = sub[1] /\ feedRuns[r].at = "insert"
  BY <1>0, <1>1, RunTypes DEF RunHolds
<1> HIDE DEF sub
<1>4. /\ feedRuns[r].rows \subseteq rows /\ rows \subseteq feedRuns[r].rows \cup {<<sub, post>>}
      /\ post \in DOMAIN items \/ <<sub, post>> \in rows
  BY DEF Inserted
<1> HIDE DEF rows
<1>5. /\ run \in FeedRunRecords /\ run.at = "insert" /\ run.sub = sub /\ run.inHand = feedRuns[r].inHand \ {post}
      /\ run.todo = feedRuns[r].todo /\ run.rows = rows /\ run.fetched = feedRuns[r].fetched
  <2>1. feedRuns[r].rows \subseteq Keys \X Posts
    BY <1>0, RunTypes
  <2>2. rows \in SUBSET (Keys \X Posts)
    BY <1>3, <1>4, <2>1
  <2> QED BY <1>0, <1>3, <2>2 DEF FeedRunRecords, sub
<1> HIDE DEF run
<1>6. ASSUME NEW f \in run.fetched
      PROVE  /\ OfAuthor(f)
             /\ Live(f[1]) => f[2] \in run.inHand \/ f \in run.rows \/ f[2] \in DOMAIN items
  <2>1. OfAuthor(f) /\ (Live(f[1]) => f[2] \in feedRuns[r].inHand \/ f \in feedRuns[r].rows \/ f[2] \in DOMAIN items)
    BY <1>0, <1>5, <1>6 DEF RunHolds
  <2>2. CASE Live(f[1]) /\ f[2] = post
    <3>1. f \in Keys \X Posts
      BY <1>0, <1>5, <1>6, RunTypes
    <3>2. f[1] = sub
      BY <1>3, <2>1, <2>2 DEF Live, OfAuthor
    <3>3. f = <<sub, post>>
      BY <2>2, <3>1, <3>2
    <3> QED BY <1>4, <1>5, <2>1, <2>2, <3>3
  <2> QED BY <1>4, <1>5, <2>1, <2>2
<1>7. RunHolds(run)
  <2>1. \A row \in run.rows : Live(row[1]) /\ row[1][1] = row[2][1]
    BY <1>0, <1>3, <1>4, <1>5 DEF RunHolds
  <2> QED BY <1>0, <1>3, <1>5, <1>6, <2>1 DEF RunHolds, sub
<1> QED BY <1>0, <1>2, <1>5, <1>7, OneRun

\* The commit: the rows of one run, each of the subscription that its post's
\* author has now, join the table; so all it has fetched is there.
LEMMA CommitKeeps == ASSUME FeedInv, NEW r \in FeedRuns, EndFeedRun(r) PROVE FeedInv'
<1>0. feedRuns[r] \in FeedRunRecords /\ RunHolds(feedRuns[r]) /\ FeedTypes
      /\ ItemsAreLive /\ RunsHoldLive /\ FetchedIsHeld /\ DeliveredIsThere
  BY RunsHold DEF FeedInv
<1>1. /\ items' = With(items, feedRuns[r].rows) /\ delivered' = delivered \cup feedRuns[r].fetched
      /\ feedRuns' = [feedRuns EXCEPT ![r] = NoRun] /\ subs' = subs /\ feedRuns[r].at = "fetch"
  BY DEF EndFeedRun
<1>2. /\ \A p : p \in DOMAIN items' <=> p \in DOMAIN items \/ \E row \in feedRuns[r].rows : row[2] = p
      /\ \A p \in DOMAIN items : items'[p] = items[p]
      /\ \A p \in DOMAIN items' \ DOMAIN items : \E row \in feedRuns[r].rows : row[2] = p /\ items'[p] = row[1]
  BY <1>1, WithRows
<1>3. (\A key : Live(key)' <=> Live(key)) /\ (\A f : OfAuthor(f)' <=> OfAuthor(f)) /\ (\A up : Subscription(up)' = Subscription(up))
  BY <1>1 DEF Live, OfAuthor, Subscription
<1>4. feedRuns' \in [FeedRuns -> FeedRunRecords] /\ \A q \in FeedRuns : feedRuns'[q] = IF q = r THEN NoRun ELSE feedRuns[q]
  BY <1>0, <1>1, RestingRun DEF FeedTypes
<1>5. ASSUME NEW p \in DOMAIN items' PROVE (items[p] = Subscription(p[1]) /\ Live(items[p]))'
  <2>1. CASE p \in DOMAIN items
    BY <1>0, <1>2, <1>3, <2>1 DEF ItemsAreLive
  <2>2. CASE p \notin DOMAIN items
    <3>1. PICK row \in feedRuns[r].rows : row[2] = p /\ items'[p] = row[1]
      BY <1>2, <2>2
    <3>2. Live(row[1]) /\ row[1][1] = row[2][1]
      BY <1>0 DEF RunHolds
    <3>3. row[1] = Subscription(p[1])
      BY <3>1, <3>2 DEF Live
    <3> QED BY <1>3, <3>1, <3>2, <3>3
  <2> QED BY <2>1, <2>2
<1>6. ItemsAreLive'
  BY <1>5 DEF ItemsAreLive
<1>7. RunsHoldLive'
  <2> SUFFICES ASSUME NEW q \in FeedRuns
               PROVE  /\ \A key \in feedRuns'[q].todo : Live(key)
                      /\ feedRuns'[q].at = "insert" => feedRuns'[q].sub \in Keys /\ Live(feedRuns'[q].sub)
                      /\ \A p \in feedRuns'[q].inHand : feedRuns'[q].at = "insert" /\ p[1] = feedRuns'[q].sub[1]
                      /\ \A row \in feedRuns'[q].rows : Live(row[1]) /\ row[1][1] = row[2][1]
    BY <1>3 DEF RunsHoldLive
  <2>1. CASE q = r
    BY <1>4, <2>1, RestingRun
  <2>2. CASE q # r
    BY <1>0, <1>4, <2>2 DEF RunsHoldLive
  <2> QED BY <2>1, <2>2
<1>8. FetchedIsHeld'
  BY <1>0, <1>2, <1>3, <1>4, RestingRun DEF FetchedIsHeld
<1>9. DeliveredIsThere'
  <2> SUFFICES ASSUME NEW f \in delivered' PROVE OfAuthor(f) /\ (Live(f[1]) => f[2] \in DOMAIN items')
    BY <1>3 DEF DeliveredIsThere
  <2>1. CASE f \in delivered
    BY <1>0, <1>2, <2>1 DEF DeliveredIsThere
  <2>2. CASE f \in feedRuns[r].fetched
    BY <1>0, <1>1, <1>2, <2>2 DEF RunHolds
  <2> QED BY <1>1, <2>1, <2>2
<1>10. FeedTypes'
  <2>1. DOMAIN items' \subseteq Posts
    <3> SUFFICES ASSUME NEW p \in DOMAIN items' PROVE p \in Posts
      OBVIOUS
    <3>1. \A row \in feedRuns[r].rows : row[2] \in Posts
      BY <1>0, RunTypes
    <3> QED BY <1>0, <1>2, <3>1 DEF FeedTypes
  <2>2. delivered' \subseteq Keys \X Posts
    BY <1>0, <1>1, RunTypes DEF FeedTypes
  <2> QED BY <1>0, <1>1, <1>4, <2>1, <2>2 DEF FeedTypes, EnabledIsOwned
<1> QED BY <1>6, <1>7, <1>8, <1>9, <1>10 DEF FeedInv

LEMMA FeedInductive == ~DeletesOverlap => (FeedInv /\ [FeedNext]_feedVars => FeedInv')
<1> SUFFICES ASSUME ~DeletesOverlap, FeedInv, [FeedNext]_feedVars PROVE FeedInv'
  OBVIOUS
<1>1. CASE PostIsMade \/ SetSubscriptionEnabled
  BY <1>1, SwitchKeeps
<1>2. CASE AddBilibiliUp
  BY <1>2, SubscribeKeeps
<1>3. CASE DeleteSubscription
  BY <1>3, DeleteKeeps
<1>4. ASSUME NEW r \in FeedRuns, StartFeedRun(r) \/ FetchPosts(r) \/ NextSubscription(r) \/ FeedRunDies(r) PROVE FeedInv'
  BY <1>4, FetchKeeps
<1>5. ASSUME NEW r \in FeedRuns, InsertItem(r) PROVE FeedInv'
  BY <1>5, InsertKeeps
<1>6. ASSUME NEW r \in FeedRuns, EndFeedRun(r) PROVE FeedInv'
  BY <1>6, CommitKeeps
<1>7. CASE UNCHANGED feedVars
  <2>1. UNCHANGED <<subs, items, feedRuns, delivered>>
    BY <1>7 DEF feedVars
  <2> QED BY <2>1, SameKeys DEF FeedInv, FeedTypes, EnabledIsOwned
<1> QED BY <1>1, <1>2, <1>3, <1>4, <1>5, <1>6, <1>7 DEF FeedNext

\* For any number of authors, users and runs of the job, while no subscription
\* is deleted that a run has read: what runs that ended have fetched is there
\* for who subscribes to the author (sync_bilibili_feed, add_bilibili_up).
THEOREM FetchedStays == ~DeletesOverlap => (FeedSpec => []FetchedIsShown)
<1> SUFFICES ASSUME ~DeletesOverlap PROVE FeedSpec => []FetchedIsShown
  OBVIOUS
<1>1. FeedInv => FetchedIsShown
  <2> SUFFICES ASSUME FeedInv, NEW f \in delivered, f[1] = Subscription(f[1][1]), subs[f[1][1]].owner /= "nobody"
               PROVE  f[2] \in DOMAIN items /\ items[f[2]] = f[1]
    BY DEF FetchedIsShown
  <2>1. f[2] \in DOMAIN items /\ f[1][1] = f[2][1]
    BY DEF FeedInv, DeliveredIsThere, OfAuthor, Live
  <2> QED BY <2>1 DEF FeedInv, ItemsAreLive
<1> QED BY FeedStarts, FeedInductive, <1>1, PTL DEF FeedSpec
=============================================================================
