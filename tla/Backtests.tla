------------------------------ MODULE Backtests ------------------------------
(***************************************************************************)
(* One accepted backtest job - a single run, a batch over stocks or an     *)
(* optimisation over a grid of windows - from its request to its answer:   *)
(* ARQ hands it to the backtest worker, a thread works through its items,  *)
(* saving one row of app.backtest_runs for each, and the user reads the    *)
(* rows and the best of them at any time.  The engine runs in vn.py (in a  *)
(* subprocess for a batch), here an outcome it may have.  The worker may   *)
(* die and the job be tried again; ARQ may give the job up while its       *)
(* thread, which nothing stops, goes on saving.                            *)
(***************************************************************************)
EXTENDS Integers, FiniteSets, Sequences, Functions

CONSTANTS BtStocks,    \* the stocks of a batch, in the order given
          BarsHeld,    \* stock |-> bars of dbbardata in the range asked for
          Grid,        \* the windows of an optimisation: [fast, slow], sets of values
          Scores,      \* values of the objective vn.py may report, in tenths
          Fraction,    \* values up to this are taken for fractions (1.5)
          NoScore,     \* the objective is missing from the statistics
          ReadLimit,   \* rows a summary reads (200)
          MaxAttempts, \* ARQ's max_tries
          MaxCombos    \* MAX_OPTIMIZE_COMBOS (64)

ASSUME BacktestAssumption ==
    /\ BtStocks \in Seq(Range(BtStocks)) /\ IsFiniteSet(Grid.fast) /\ IsFiniteSet(Grid.slow)
    /\ BarsHeld \in [Range(BtStocks) -> Nat] /\ Scores \subseteq Int /\ NoScore \notin Int
    /\ {ReadLimit, MaxAttempts, MaxCombos, Fraction} \subseteq Nat \ {0}

VARIABLES request,  \* what was asked, and the state of its ARQ job
          thread,   \* the thread at work, and its place in the items
          runs,     \* rows of app.backtest_runs of this batch, oldest first
          answer    \* the job's result as the worker stored it

btVars == <<request, thread, runs, answer>>

AtLeast(a, b) == IF a < b THEN b ELSE a

(* The strategies whose windows must be ordered.                           *)
MaWindowStrategies == {"double_ma", "trend_ma", "medium_swing"}

\* min_bars_for_request with the schema's defaults for what is not varied.
MinBars(item) ==
    LET need == CASE item.strategy = "trend_ma" -> item.slow + 33
                  [] item.strategy = "medium_swing" -> AtLeast(item.slow * 2 + 2, 65)
                  [] item.strategy = "ma_band" -> 62
                  [] OTHER -> 30
    IN  AtLeast(AtLeast(30, need), IF item.interval = "1m" THEN 100 ELSE 0)

\* load_bars: fewer bars than the strategy needs raise NotFound.
Loads(item) == BarsHeld[item.stock] >= MinBars(item)

\* expand_ma_grid: the ordered pairs, fast first.
Combos ==
    LET pairs == {c \in Grid.fast \X Grid.slow : c[1] < c[2]}
        UpTo(c) == {d \in pairs : d[1] < c[1] \/ (d[1] = c[1] /\ d[2] <= c[2])}
    IN  [n \in 1..Cardinality(pairs) |-> CHOOSE c \in pairs : Cardinality(UpTo(c)) = n]

Item(stock, strategy, interval, fast, slow) ==
    [stock |-> stock, strategy |-> strategy, interval |-> interval, fast |-> fast, slow |-> slow]

Batch(strategy, interval) == [n \in DOMAIN BtStocks |-> Item(BtStocks[n], strategy, interval, 5, 20)]
Optimisation(strategy, interval) == [n \in DOMAIN Combos |-> Item(BtStocks[1], strategy, interval, Combos[n][1], Combos[n][2])]

Idle == [at |-> "none", item |-> 0, failed |-> 0, score |-> NoScore]
NoRequest == [kind |-> "none", items |-> <<>>, job |-> "none", attempts |-> 0]
NoAnswer == [success |-> FALSE, failed |-> 0, try |-> 0]

BtTypeOK ==
    /\ request.kind \in {"none", "single", "batch", "optimize"}
    /\ request.job \in {"none", "queued", "running", "answered"}
    /\ request.attempts \in 0..MaxAttempts
    /\ thread.at \in {"none", "load", "engine", "save", "save failed"}
    /\ thread.item \in 0..Len(request.items) /\ thread.failed \in 0..Len(request.items)
    /\ \A r \in Range(runs) : r.item \in DOMAIN request.items /\ r.ok \in BOOLEAN
    /\ answer.success \in BOOLEAN

BtInit == request = NoRequest /\ thread = Idle /\ runs = <<>> /\ answer = NoAnswer

----------------------------------------------------------------------------
Accept(kind, items) ==
    /\ request.job = "none"
    /\ request' = [kind |-> kind, items |-> items, job |-> "queued", attempts |-> 0]
    /\ UNCHANGED <<thread, runs, answer>>

\* The windows are compared when the job is accepted, for the strategies that
\* have them; an optimisation is refused when its grid is too large.
EnqueueSingle ==
    \E strategy \in {"double_ma", "medium_swing"}, interval \in {"d", "1m"} :
        Accept("single", <<Item(BtStocks[1], strategy, interval, 5, 20)>>)
EnqueueBatch ==
    \E strategy \in {"double_ma", "medium_swing"} : Accept("batch", Batch(strategy, "d"))
EnqueueOptimize ==
    /\ Len(Combos) <= MaxCombos
    /\ \E strategy \in MaWindowStrategies : Accept("optimize", Optimisation(strategy, "d"))

\* run_backtest_*: the worker picks the job up and a thread starts with item 1.
StartJob ==
    /\ request.job = "queued" /\ thread.at = "none"
    /\ request' = [request EXCEPT !.job = "running", !.attempts = @ + 1]
    /\ thread' = [Idle EXCEPT !.at = "load", !.item = IF request.items = <<>> THEN 0 ELSE 1]
    /\ UNCHANGED <<runs, answer>>

\* The thread ends with a result; a job ARQ has given up keeps its answer.
Ends(success, failed) ==
    /\ thread' = Idle
    /\ request' = [request EXCEPT !.job = "answered"]
    /\ answer' = IF request.job = "running"
                 THEN [success |-> success, failed |-> failed, try |-> request.attempts]
                 ELSE answer

\* The next item, or the answer after the last.
Proceed(failed) ==
    IF thread.item = Len(request.items) THEN Ends(TRUE, failed)
    ELSE /\ thread' = [Idle EXCEPT !.at = "load", !.item = thread.item + 1, !.failed = failed]
         /\ UNCHANGED <<request, answer>>

\* A grid without an ordered pair: nothing to run.
NothingToRun ==
    /\ thread.at = "load" /\ thread.item = 0
    /\ Ends(TRUE, 0) /\ UNCHANGED runs

\* The bars of a single run are loaded inside its try, those of an item of a
\* batch before it: too few bars there end the whole job.
LoadBars ==
    /\ thread.at = "load" /\ thread.item > 0
    /\ UNCHANGED runs
    /\ LET item == request.items[thread.item] IN
       \/ /\ Loads(item)
          /\ thread' = [thread EXCEPT !.at = "engine"] /\ UNCHANGED <<request, answer>>
       \/ /\ ~Loads(item) /\ request.kind = "single"
          /\ thread' = [thread EXCEPT !.at = "save failed"] /\ UNCHANGED <<request, answer>>
       \/ /\ ~Loads(item) /\ request.kind /= "single"
          /\ Ends(FALSE, 0)

\* run_cta_backtest, here or in a subprocess that may fail or run out of time.
RunEngine ==
    /\ thread.at = "engine"
    /\ \/ \E score \in Scores \cup {NoScore} : thread' = [thread EXCEPT !.at = "save", !.score = score]
       \/ thread' = [thread EXCEPT !.at = "save failed"]
    /\ UNCHANGED <<request, runs, answer>>

\* run_cta_backtest rescales what looks like a fraction to percent.
Shown(value) == IF value /= NoScore /\ value <= Fraction /\ -value <= Fraction THEN value * 100 ELSE value

\* The row saved: the engine's value and what is stored for it.
Row(ok) == [item |-> thread.item, ok |-> ok, try |-> request.attempts,
            engine |-> IF ok THEN thread.score ELSE NoScore,
            score |-> IF ok THEN Shown(thread.score) ELSE NoScore]

\* save_run: commit and refresh.  Either may raise, with the row in the table
\* or not; the except branch then saves a failed row in its place.
SaveRun ==
    /\ thread.at = "save"
    /\ \/ runs' = Append(runs, Row(TRUE)) /\ Proceed(thread.failed)
       \/ /\ runs' \in {runs, Append(runs, Row(TRUE))}
          /\ thread' = [thread EXCEPT !.at = "save failed"] /\ UNCHANGED <<request, answer>>

\* Mutant: a failed row that cannot be saved is passed over.
SaveFailedRunSwallowed ==
    /\ thread.at = "save failed"
    /\ \/ /\ runs' = Append(runs, Row(FALSE))
          /\ IF request.kind = "single" THEN Ends(FALSE, 0) ELSE Proceed(thread.failed + 1)
       \/ UNCHANGED runs /\ IF request.kind = "single" THEN Ends(FALSE, 0) ELSE Proceed(thread.failed + 1)

\* The row of the failure; on a session left broken this raises as well and
\* ends the job.  A single run raises again after its row.
SaveFailedRun ==
    /\ thread.at = "save failed"
    /\ \/ /\ runs' = Append(runs, Row(FALSE))
          /\ IF request.kind = "single" THEN Ends(FALSE, 0) ELSE Proceed(thread.failed + 1)
       \/ UNCHANGED runs /\ Ends(FALSE, 0)

\* The worker process ends, and its threads with it; ARQ hands the job out
\* again until its tries are used up.
WorkerDies ==
    /\ request.job = "running" \/ thread.at /= "none"
    /\ thread' = Idle
    /\ request' = [request EXCEPT !.job = IF @ = "running" /\ request.attempts < MaxAttempts THEN "queued" ELSE "answered"]
    /\ UNCHANGED <<runs, answer>>

\* ARQ cancels the coroutine at the job's timeout; the thread goes on.
JobTimesOut ==
    /\ request.job = "running" /\ thread.at /= "none"
    /\ request' = [request EXCEPT !.job = "answered"]
    /\ UNCHANGED <<thread, runs, answer>>

BtStep == StartJob \/ NothingToRun \/ LoadBars \/ RunEngine \/ SaveRun \/ SaveFailedRun
BtNext == EnqueueSingle \/ EnqueueBatch \/ EnqueueOptimize \/ BtStep \/ WorkerDies \/ JobTimesOut

BtSpec == BtInit /\ [][BtNext]_btVars

----------------------------------------------------------------------------
(* What the user reads.                                                    *)

\* list_runs: the newest rows of the batch.
ReadRuns == SubSeq(runs, AtLeast(1, Len(runs) - ReadLimit + 1), Len(runs))

\* Mutant: a missing objective counts as zero.
WorthZero(r) == IF r.score = NoScore THEN 0 ELSE r.score

\* pick_best's score: a missing objective is minus infinity.
Worth(r) == IF r.score = NoScore THEN -100000 ELSE r.score

\* summarize_optimize: the best of the successful rows read.
Summary ==
    LET good == {r \in Range(ReadRuns) : r.ok}
    IN  {r \in good : \A o \in good : Worth(o) <= Worth(r)}

----------------------------------------------------------------------------
(* Nothing that ran is better than what the optimisation is summarised by: *)
(* every successful row of the batch, of whichever attempt, scores no more *)
(* than the best shown by what the engine said, and a row with a score is  *)
(* preferred to one without.  (The rescaling keeps the order only among     *)
(* values that are all fractions or all percents.)                         *)
BestIsBest ==
    \A r \in Range(runs), b \in Summary :
        r.ok /\ r.engine /= NoScore => b.engine /= NoScore /\ r.engine <= b.engine

(* A job answered with success has run every item it was asked for: the    *)
(* attempt that answered left a row for each, and it counted as failed     *)
(* exactly those of its rows that say so.                                  *)
SuccessIsComplete ==
    answer.success =>
        LET mine == {n \in DOMAIN runs : runs[n].try = answer.try} IN
        /\ {runs[n].item : n \in mine} = DOMAIN request.items
        /\ answer.failed = Cardinality({n \in mine : ~runs[n].ok})

(* An item that succeeded is on record once for every attempt and no more, *)
(* although saving it may raise after it has been committed and the job    *)
(* may be given up by ARQ while its thread goes on.                        *)
SuccessSavedOnce ==
    \A i \in DOMAIN request.items, try \in 1..MaxAttempts :
        Cardinality({n \in DOMAIN runs : runs[n].item = i /\ runs[n].try = try /\ runs[n].ok}) <= 1

(* A job answered with success is on record, whole and once: see the parts. *)
SuccessIsOnRecord == BtTypeOK /\ SuccessIsComplete /\ SuccessSavedOnce

(* A job that was accepted is answered, however often its worker dies.     *)
AcceptedIsAnswered == (request.job = "queued") ~> (request.job = "answered")

=============================================================================
