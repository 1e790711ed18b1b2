# zak2: a verification development

zak2 is a terminal for A-share quantitative trading: a FastAPI backend
(`src/backend/app`), an ARQ worker, a quote collector and a Vue frontend around
PostgreSQL and Redis. This directory holds TLA+ models of the backend, the TLC
configurations that check them on small instances and the proofs that TLAPS checks.
Two kinds of code are modelled: what several threads, processes and requests do to
state they share, and the rules - scores, filters, signals, stages - whose orders and
thresholds must not contradict each other. Paths below are relative to
`src/backend/app` unless they start with `docs/`.

    tlc -workers 2 -config MC_OpsJobs_bars.cfg MC_OpsJobs
    tlapm Jobs_proofs.tla

## 1. Inventory

Processes: any number of API replicas (FastAPI; synchronous handlers run in a thread
pool; each replica also runs an embedded APScheduler and a quote listener thread),
one arq-worker (an event loop whose jobs run in executor threads), a second worker
for backtests, one quote collector. They share PostgreSQL (READ COMMITTED, no row
locks, one session per request) and Redis (ARQ's keys, locks, quotes, counters).

| Component | State | Operations | What is hard, what must hold | Module |
|---|---|---|---|---|
| ops jobs (`services/ops/arq_jobs.py`, `worker/tasks.py`, `bars_lock.py`) | ARQ keys of a stable id, bars lock, executor threads | enqueue, claim, run, time out, release | interleaved clears of one id, restarts, threads that outlive their coroutine; an id runs once at a time, bars jobs exclude each other, what is accepted runs | `OpsJobs` |
| recent jobs and job answers (`arq_jobs.py`) | index, meta hashes, ARQ's status and result | index, answer | an answer made of three reads; what is told of a job is so | `JobAnswers` |
| embedded scheduler (`embedded_scheduler.py`, `scheduler_lock.py`) | process locks, `_running`, Redis lock per job | tick, fire, switch | every replica fires, replies get lost, replicas die; one replica in the section, nothing leaks, no tick is lost | `EmbeddedScheduler` |
| scheduler configuration, signal panel, recipe weights, memos, discipline checks | a JSON value or a row each | read, change, write back whole | lost updates, rows keyed without their user; every edit is atomic | `UserRecords` |
| automatic tasks (`domains/auto_schedules`) | rows with schedule and last outcome | poll, enqueue, run, record, push, edit | partial failure; the row tells what happened, nothing is pushed that was not saved | `AutoSchedule` |
| AI proposals (`services/ai/ai_proposals.py`) | dictionary of the process with a TTL | create, confirm, reject | overlapping confirmations, expiry, restart; one decision, one write, by the owner | `Proposals` |
| chat (`services/ai`, `api/v1/ai.py`, `repositories/chat.py`) | sessions, messages | ask, tool rounds, answer, delete | no transaction spans a request; the model sees the question, what ends with "done" is stored | `Chat` |
| remote tools, MCP (`services/ai/mcp_client.py`) | one lock, one event loop thread | start, call, try again | a call waits while it holds the lock; no tool runs behind an answer | `ToolCalls` |
| team analysis (`services/team`) | a queue, the analysts' texts, one report | stream, fall back, persist, score | threads feeding one stream, failure in the middle; it ends, the chief reads what was shown | `TeamAnalysis`, `TeamScoring` |
| watchlist, groups, positions (`domains/watchlist`) | four tables | add, remove, reorder, group, book | check-then-insert, rows keyed by the stock alone; limits, numbering, membership, users kept apart | `Watchlist` |
| quote collector, notify hub, WebSocket (`services/quote_collect`, `domains/market/quote_notify_hub.py`) | quotes, ranks, sequence number, force flag, sockets | collect, force, listen, broadcast | readers between two commands, listeners that die; a number that is announced is written, a force is served | `QuotePipeline` |
| factor patch (`domains/market/quote_factor_patch.py`, `services/ops/enrich_quotes.py`) | the same quotes and ranks | patch, rank | a second writer that knows nothing of the first | `LiveRanks` |
| rankings of the market page (`domains/market/db_ranks.py`) | bars, cached factors | four queries | jobs write between the queries; what is shown is so | `ClosingRanks` |
| bars (`services/ops/bars_fill.py`, `domains/market/bar_download.py`) | bars and an overview per stock | fill, stale, focus, minutes, refresh | partial failure, a job that spans midnight; the overview agrees with the bars, every stock is reached | `BarStore` |
| limit list, suspensions, sector flow, industries (`services/ops/sync_*.py`) | four tables | fetch, merge, replace | each table has its own way; a closed day is whole | `MarketTables` |
| financials and disclosures (`services/ops/sync_watchlist_financials.py`, `sync_disclosure.py`) | four tables | fetch, recompute | late and restated reports | `Financials` |
| feed (`domains/content/feed.py`, `services/ops/sync_bilibili_feed.py`) | subscriptions, items | run, subscribe, delete | one transaction over many authors, rows shared by users | `Feed` |
| backtests (`domains/backtest`, `worker/tasks_backtest.py`) | runs of a batch | submit, execute, save, summarise | retries, threads that outlive their job; a success has its rows, the best is the best | `Backtests` |
| strategies and the strategy board (`strategies/cta`, `services/strategy`) | none / lots held | signal, order, fill | two implementations of one rule; a share is sold once and not on its day | `SignalRules`, `CtaStrategies` |
| screener (`domains/screener`) | none | screens, recipes, leaders, patterns, peers | filters, cuts and orders in the right sequence | `ScreenRules`, `PatternRules`, `PeerRules` |
| radar (`domains/radar`) | snapshot, weights, two boards | warm, list, scan | three sources of a card, two commits of a scan | `Radar` |
| emotion cycle (`domains/emotion`) | stable stage per process, thresholds, two caches | compute, hold, save rules | unsynchronised globals, old caches; a crash is never shown as calm | `EmotionCycle` |
| scheduled screening, other ops jobs, market reads, skills, delivery, channels, authentication, shell, frontend | | | see section 7 | - |

`PROJECT.json` lists each of them with its status, and under `hazards` the lines where
they can go wrong, with the properties that cover each.

## 2. Modules

A module is one component; it names its variables apart from those of every other
module, so that an `MC_*` module can EXTEND several of them. Components that interact
do so through the abstraction in each module: `EmbeddedScheduler` and `AutoSchedule`
take the enqueue of `OpsJobs` as one step, `BarStore` takes the exclusion of the bars
jobs, `UserRecords` is one editor of each record among several.

An operator with "Mutant" or "Mutated form" in its comment is a plausible bug of the
operation below it, kept to show that the properties would notice; no specification
uses it. Variables marked "history" exist for a property only.

The rules are written over integers: prices, percentages and scores are multiplied
out so that nothing is rounded, and each module names its units. Where the code
rounds to two digits for display, the model compares the unrounded value.

### OpsJobs

`jobKey`, `result`, `queue`, `progress` and `tries` are the five keys ARQ keeps for an
id; `meta` the hash the API reads. `pc[c]` is where a call of `enqueue_ops_job` is
between two awaits: `Probe` (status), `CheckMeta` (repair of a missing index entry),
`DeleteJobKey`, `DeleteResultKey`, `RemoveFromQueue` (the three commands of
`_clear_arq_job_keys`), `EnqueueJob`, `Reprobe`, `IndexJob`. The worker's side is ARQ's
own code, which is not in the repository, modelled from the keys the code probes and
clears: `Claim` takes an id with its in-progress key, `Load` reads the job, `FinishRun`
and `FinishDead` settle it, `WorkerRestart` loses the coroutines and leaves the keys.
`thread` is the executor: `Timeout` cancels the coroutine and leaves the thread, which is
what the real executor does. `StartRunner` takes the bars lock or skips, `ExitThread`
releases it by comparing the token. Timers are nondeterministic: a key may expire at any
moment the TTLs permit; the assumption that the bars lock outlasts a run is the constant
`TtlCoversRun`.

`JobQueue` is what the queue promises to whoever asks: an id is asked for, taken,
attempted a bounded number of times and let go of, and a worker that dies puts back what
it had taken. `OpsJobs!Queue` maps the five keys to it (`state` from the queue and the
coroutines, `attempts` from `tries`); `AcceptedIsKept` says that the mapping is a
refinement and that what was accepted can be read.

### JobAnswers

The screenings and backtests a user asks for: `enqueue_app_job` command by command
(ARQ's job, the meta hash, the index with its trim), the worker's attempts with their
retries and timeouts, and `get_job_out`, whose three reads (meta, status, result) are
steps of `reader`. A result may expire between two reads when `ResultsVanish` is set.

### EmbeddedScheduler

`pc[r][j]` is the position of replica `r`'s firing of job `j` in `_run_job`; `held`,
`running` and `lock` are the `threading.Lock`, the set `_running` and the Redis key.
`Acquire` includes a lost reply (the key is set, the replica believes it is not) and
`Release` a failing one. `Crash` clears the process and leaves the Redis key.
`SetEnabled` is the operator's switch.

### AutoSchedule

One `Poll(r)` per replica and minute (the poll returns before the Redis lock is taken,
`embedded_scheduler.py:42-44`), then one `EnqueueTask` per due task; on the worker
`StartTask`, `LoadTask`, `Screen`, `Record` or `RecordBroken`, `Push`. `matching` is
chosen freely each minute: what weekdays and times mean is not part of this module.
`CallBinds` says whether the worker's function accepts the call that was queued. In the
code it does not (see Findings); the run `worker` sets it to TRUE to check what the body
would do once the call binds, the other two runs leave it FALSE.

### Proposals

A `Proposal` object outlives its entry in `_STORE` while a request holds it, so
`stored` and the fields are kept apart. A request is `Lookup` (purge and get under the
mutex), `Check` (owner, expiry), `CheckStatus`, `Execute` (the write tool, which commits
or answers with an error; with `LateErrors` it may do both), `Confirm`; or `Reject`.

### Chat and ToolCalls

`Chat`: a request stores the question, reads the history for its prompt, goes through
the model's tool rounds (a write tool leaves a proposal, not a write) and stores the
answer, while the session may be deleted, the model may fail and the browser may
leave. `ToolCalls`: a thread queues for `_mcp_call_lock`, starts the event loop thread
when there is none, hands over a coroutine and waits; the coroutine opens a session per
attempt and tries again after errors of the network only.

### TeamAnalysis and TeamScoring

`TeamAnalysis` is one streamed request: an analyst's thread per text, the queue of
events, the generator that waits for every analyst, the chief, the fallbacks from the
rules, the report and the message in the session. `TeamScoring` has the rules the
fallbacks are made of, over facts that may be unknown, one operator per group of points,
and the drawdown among them, as one pass over the closes.

### Watchlist and UserRecords

The tables of items and positions are functions from stocks to users, because the stock
is their primary key (`models/watchlist.py`, `alembic/ddl/initial.py`), not the stock
and the user. Each request is a `Begin...` step that reads and checks, and a commit step
that writes what it has read; UPDATE and DELETE name the key alone, as the ORM emits
them. `OneAtATime` is the assumption that a user waits for an answer before the next
request. `UserRecords` is the same for the records that are read, changed in memory and
written back whole: panel, scheduler configuration, recipe weights, memo, discipline
check. What its handlers promise is `AtomicEdits`, an abstract specification in which
an edit is one step; `UserRecords` implements it, by the refinement mapping in
`INSTANCE AtomicEdits WITH`, as long as `OneEditor` holds.

### QuotePipeline, LiveRanks, ClosingRanks

`QuotePipeline` has the collector's loop, the writer's Redis commands one by one
(sequence number first, quotes, ranks deleted and filled, publish), the force channel in
the other direction, the listener threads of both processes, and a broadcast coroutine
per message. `LiveRanks` looks at one ranked factor and its two writers, the round and
the patch after the close, each killed anywhere. `ClosingRanks` is the page that is
made up from the database when Redis has nothing, query by query, while jobs write.

### BarStore, MarketTables, Financials, Feed

`BarStore`: four jobs list their pool once, with the trade date of that moment, and
then work stock by stock while the clock, the calendar and the universe go on; a
download may fail, a stock may be suspended. `MarketTables`: four tables with four ways
of replacing or merging, over weekends, holidays and missed evenings; a behaviour is
about one of them. `Financials`: the reports of one stock over periods, with late and
restated ones, the growth over the year before and the disclosure calendar. `Feed`: runs
that hold one transaction over all authors, with subscriptions coming and going.

### Backtests, SignalRules, CtaStrategies

`Backtests` follows one accepted job - run, batch or optimisation - through attempts of
ARQ that may outlive each other to the summary a user reads. `SignalRules` is the board:
each mode as a function of the bars. `CtaStrategies` EXTENDS it with the strategies of
the same names and the A-share template over vn.py's matching (external). Five of the
eight strategies read what the board reads (`Aligned`); the others smooth over a padded
array or test buy and sell in another order, and the board may say something else.

### ScreenRules, PatternRules, PeerRules, Radar, EmotionCycle

The rules of the screener, of the radar and of the emotion cycle as operators, inside
state machines that choose a market, a series of bars, a request or stored weights. `Listings` is
a set listed in an order, which `PeerRules` and `ScreenRules` rank with, and the sum of a field over
some bars, which `PatternRules` and `SignalRules` average with. In
`Radar` and `EmotionCycle` the state is the program's: snapshot, boards, caches with
their lifetimes, and the stable stage each process keeps for itself.

## 3. Runs

Several modules are checked in one run: an `MC_*` module EXTENDS them, and a variable
`part`, chosen in the initial state, says which one a behaviour is about; the others
stay in their initial states. No variable is shared, so a run says of each module what
a run of its own would. A property named here may be the conjunction of named parts,
which its comment lists.

| Run | Modules and instance | What it shows |
|---|---|---|
| `dedupe` | `OpsJobs`: 1 job, 3 callers, 2 slots, 2 threads, 3 attempts, 3 crashes | `JobsRunAlone`: an id is never worked on twice at a time |
| `bars` | `OpsJobs`: 2 bars jobs, 1 caller, timeouts, Redis faults, a crash | `BarsExclusion`, surviving threads included; `AcceptedIsKept` (refinement of `JobQueue`); `QueuedIsAttempted` |
| `lost` | `OpsJobs`: 2 callers, no fault | **violation** of `QueuedIsAttempted` |
| `locks` | `EmbeddedScheduler`: 2 replicas, 2 bars jobs, 2 overlapping ticks, all faults. `MarketTables`: 2 stocks, 6 days with a weekend and a holiday. `Financials`: one stock over 7 periods, 2 versions. `Feed`: one user, 2 authors, 2 runs | `LocksExclude`, `NothingLeaks`; `TablesAreWhole`; `FinancialsAreCurrent`; `FetchedIsShown` |
| `served` | `EmbeddedScheduler`: 3 replicas, 2 ticks, a crash, switches. `BarStore`: 3 stocks, one suspended, one listed late, 6 days. `QuotePipeline`: 2 stocks, 1 socket, 2 rounds, a force, a fault | `LocksServe`; `OverviewSuffices`, `EveryStockIsFilled`; `RoundIsWhole`, `HeardIsServed` |
| `worker` | `AutoSchedule`: 2 replicas, 2 tasks, 2 minutes, an edit, all faults. `ScreenRules`: 4 stocks of chosen shapes | `RunIsReported`, `PollIsIsolated`; `ScreenPrefersTheBetter` |
| `twice`, `norun` | `AutoSchedule` as it is, no fault | **violations** of `HandedOnce` and `QueuedIsRecorded` |
| `shared` | `Proposals`: 2 users, 2 requests, expiry, restart, late errors. `Chat`: 2 users, a session, 2 requests. `TeamAnalysis`: 2 analysts. `Backtests`: 2 stocks, 3 combinations, 2 attempts. `JobAnswers`: 2 jobs, an index of 1. `ToolCalls`: 2 threads, 2 attempts | `ConfirmedIsWritten`, `WriteIsAuthorised`; `SessionIsTheTalk`; `ReportIsShown`; `SuccessIsOnRecord`, `BestIsBest`; `AnswersAreTrue`; `RunsAreTold`; `WhatIsAskedEnds`, of four of them |
| `serial` | `Proposals`: 2 proposals, 1 request at a time. `UserRecords`: 9 changes of 4 records. `Radar`: 3 stocks, 4 cards, 3 scenes, one of which leaves a synthesiser without a card. `EmotionCycle`: 5 stocks, 5 days, 2 processes, 2 rules. `TeamScoring`: every fact around its thresholds, 5 closes, with which the drawdown begins. `PeerRules`: 3 peers | `DecidedOnce`; `EditsAreAtomic` (refinement); `BoardIsTheBest`; `StageIsDue`; `ScoresFollowTheFacts`; `PeersAreTheClosest` |
| `written_twice` | `Proposals`: 1 proposal, 2 requests, no expiry | **violation** of `DecidedOnce` |
| `watch` | `Watchlist`: 2 users, 3 stocks, 2 groups, 2 requests. `CtaStrategies` over `SignalRules`: 8 strategies, up to 6 bars of 4 shapes. `PatternRules`: up to 7 bars of 4 shapes. `LiveRanks`: 2 stocks, 3 factors. `ClosingRanks`: 2 stocks, 3 days | `ListIsInOrder`, `MembersAreWatched`, `RowsAreOwn`; `SoldOnceAndLater`, `BoardFollowsBars`; `PatternsAreShapes`; `RankingIsOfQuotes`; `PageIsReal` |

Bounds. Two actors are what a race needs: nearly every hazard of the list is between
two, and where refusals add up (`served`, `dedupe`) there are three. Counters named
`Max...` exist only to end a behaviour: crashes, ticks, rounds, edits, calls. Limits of
the program are scaled down so that they are reached and would be overrun by one if a
guard were wrong: 50 items and 20 positions become 2 and 1, the index of 100 recent jobs
1, the history of the prompt 2, top-N lists 2 or 3. ARQ's five tries and the three of a
remote call become 2 or 3: the branch they decide is taken on either side. Calendars are
as short as a weekend, a holiday, a missed evening and the day after them allow. The
rules are tried over values on both sides of every threshold, with what is missing or
zero among them.

Deadlock is checked in `bars`, where the system goes on for ever. The other passing runs
say `CHECK_DEADLOCK FALSE`: there a bound, or the instance itself (a single screen, a
chat that is over), ends the behaviour. Symmetry is used where a run has no liveness
property, and in composed runs permutes the sets that every part treats alike.

Fairness. What the code's scheduling gives, no more:

- `OpsJobs!FairSpec`: the event loop continues a call it has begun (a step is a Redis
  round trip), executor threads run, the worker polls for ever and takes queued ids by
  score, hence strong fairness for the claim of an id; in-progress keys are set with an
  expiry. Nobody is obliged to call, to time out or to crash.
- `EmbeddedScheduler`: scheduler threads run, and every lock is set with EX.
- `BarStore`: days pass, the exchange publishes, the universe is synchronised, a job
  that runs goes on; a cron job is started again and again but may be kept out by
  another bars job, hence strong fairness for `StartFill`.
- `QuotePipeline`: the collector's loop and the hub's thread go on while they live, and
  a Redis that is away returns.
- `Chat`, `TeamAnalysis`, `Backtests`, `ToolCalls`: the server's threads go on; the
  model and the remote side answer or fail, because every call to them has a timeout.
- `AutoSchedule!FairSpec`: the worker takes queued ids.

No fairness is assumed of users, operators or failures. In a composed run each condition
is guarded by `part`.

## 4. Proofs

Each theorem holds for every value of the constants that satisfies the modules' ASSUMEs
and the condition named with it. Eight modules hold them: `Jobs_proofs` (`OpsJobs`,
`BarStore`, `QuotePipeline`), `Screening_proofs` (`AutoSchedule`, `ScreenRules`), `Background_proofs`
(`EmbeddedScheduler`, `MarketTables`, `Financials`, `Feed`), `Trading_proofs`
(`Watchlist`, `CtaStrategies`, `PatternRules`, `LiveRanks`, `ClosingRanks`), `Pages_proofs`
(`UserRecords`, `EmotionCycle`, `Radar`, `TeamScoring`, `PeerRules`), `Proposals_proofs`, `Assistant_proofs` (`Chat`,
`ToolCalls`, `TeamAnalysis`, `Backtests`, `JobAnswers`) and `Counting`, the lemmas about
numbers and finite sets that the others share: least and greatest numbers, ranks in an
ordered finite set, the last of its members.

| Theorem | States | Argument |
|---|---|---|
| `JobsAlone` | `JobsRunAlone`, if no attempt times out (`~JobMayTimeout`) | `Attended`: each thread belongs to a slot that waits for it, and slots of one id exclude each other |
| `SingleAttempt` | `OneAttemptPerJob`, without that condition | `ClaimsHeld`: the id a slot works on has its in-progress key, a claim requires its absence, and no caller's clear ever touches it |
| `BarsJobsExclude` | `BarsExclusion`, if `TtlCoversRun` | a thread in the section is the token in the lock; it takes a free lock only and releases its own |
| `ReleaseIsOwn` | `ReleasesOwnLock` | for any TTL: the compare-and-delete |
| `AcceptedVisible` | `[]AcceptedIsVisible`, the first half of `AcceptedIsKept`, if `OneCaller` | `Cleared`: nobody else queues the id between the caller's clears and its enqueue, and a coroutine that settles it leaves only the result; so the second probe never finds it in flight |
| `AcceptedKept` | `AcceptedIsKept`: `OpsJobs` implements `JobQueue`, if `OneCaller` | `KeysAgree`: what is queued has its job key and no result, and a call clears only what is not queued; `WorkIsQueued`: what a coroutine works on is queued until it is settled, with an attempt counted. Then only `EnqueueJob` asks, `Claim` takes, `WorkerRestart` interrupts, and every other step is a stutter |
| `TypeCorrect` | `TypeOK` of `OpsJobs` | one lemma per group of actions |
| `OverviewIsEnough` | `OverviewSuffices` | a fill that begins behind the last bar held leaves no hole if what is held, and what it asks for, are all the bars published up to its trade date; a run at work has seen none after that date (`BarsAreKnown`) |
| `RoundsAreWhole` | `RoundIsWhole` | where the writer stands in its round (`WriterAt`), and that the hub has heard only of rounds that are written (`HubInv`) |
| `LocksHold` | `LocksExclude` | `OwnsLock`: a replica in the section is the lock's value; `Holds`: the guard reads the whole of `_running` |
| `NoLeak` | `NothingLeaks` | `Holds`: an exact account of `held` and `running` at every place of `_run_job` |
| `SchedulerTypes` | `TypeOK` of `EmbeddedScheduler` | |
| `TablesHold` | `TablesAreWhole`, if the window is longer than the evenings that can be missed (`WindowCovers`) | `FlowsAreMadeUp`: a day without its flows has seen one evening fail for every open day since, so one complete run in the window makes up for all of them |
| `FinancialsHold` | `FinancialsAreCurrent` | the order in which reports come out (`Reported`), and that nothing is stored that was not announced (`CopiedIsAnnounced`) |
| `FetchedStays` | `FetchedIsShown`, if no subscription is deleted under a run (`~DeletesOverlap`) | a post is followed from the fetch (`FetchedIsHeld`) to the table (`DeliveredIsThere`): its subscription is there at each place |
| `OwnersAreTold` | `RunIsReported` | `RunSoFar`: for every place of the worker's function, what its run has left behind it; what has been told is kept by the start of the next run until it is loaded |
| `PollsAreIsolated` | `PollIsIsolated` | only a replica that has polled has tasks left (`OnlyPolled`), so a poll takes none away |
| `ScreensPrefer` | `ScreenPrefersTheBetter`, if every row has its name (`AllAreNamed`) | every list on the way has a stock at most once, whatever sorts or filters it (`Lists`), so that a place in it is a stock; what is cut off stands after what is kept; a leader's tier is its rank in its industry, and industries follow one another as blocks; each factor of a score is monotonic |
| `ConfirmationIsHonest` | `ConfirmedIsWritten` | a request before `Confirm` has written; survives restarts, because `writes` does |
| `SerialDecision` | `DecidedOnce`, if there is one request thread and no late error | pending means unwritten, except for the one request that has executed |
| `WritesAreAuthorised` | `WriteIsAuthorised` | `Entitled`: a request under way is about a proposal that had an owner and was live when it came; only the owner's gets past `Check`; only `Execute` writes |
| `ProposalTypes` | `TypeOK` of `Proposals` | |
| `MembersWatched`, `OwnRows` | `MembersAreWatched`, `RowsAreOwn`, if `OneAtATime` | `ReadsHold`: what a request has read is still true when it commits, because only its own user could change it and has no other request (`Serial`) |
| `ListsAreInOrder` | `ListIsInOrder`, if `OneAtATime` | `Relies`: what a request has counted still holds when it writes; `CommitKeepsLists`: a commit changes no list but its user's. That a list is numbered 0..n-1 is a bijection with its stocks |
| `LotsAreSoldOnce` | `SoldOnceAndLater`, if every sell order is filled (`SellsFill`) | what is held is what is on the books or on order; a sell takes what is on the books |
| `BoardFollows` | `BoardFollowsBars` | board and strategies read the same comparisons in another order, so it matters that no bar is a buy and a sell: a cross has one direction, and the lowest low of the channel is below its highest high; a sum of closes stays as later bars come, so that the heuristic reads the cross of the day before |
| `PatternsHold`, `UnitsDoNotMatter` | `PatternsAreShapes`; that no match depends on the units, for every pair of units (the property names two) | the sums, extremes and ratios a matcher compares are in the units of the series, and a comparison of two such amounts is the same in every unit; "more volume" and "dried up" exclude each other where there is a ratio |
| `RankingHolds` | `RankingIsOfQuotes` | what a writer has not ranked yet is in the hashes already (`WriterAlone`), and only what was fetched is written (`WritesFetched`) |
| `PageHolds` | `PageIsReal` | of each query of the page, what of it still holds when the next is made (`DatesAdjoin`, `BarsStay`) |
| `OneEditorIsAtomic` | `EditsAreAtomic`: `UserRecords` implements `AtomicEdits`, if `OneEditor` | a request in flight holds the record as it is; a write maps to one edit, every other step to a stutter |
| `StagesAreDue` | `StageIsDue`, if the pools take in all stocks (`AllAreRead`) | `AgesWithTheRules`: an answer under old rules ages as fast as the rules do; rules are compared by the counts they are made of, and with fewer stocks up no count is better |
| `BoardHolds` | `BoardIsTheBest` | the cards of the last warming are there while nothing moves; the numbers of a board are numbers (`ScoresAreNumbers`), so that points can be compared |
| `ScoresFollow` | `ScoresFollowTheFacts` | each group of points is monotonic in its fact, and the facts that stay are left out; the pass has seen, up to each close, the highest close and the worst fall (`SeenUpTo`): a fall from a higher peak is no smaller |
| `PeersHold` | `PeersAreTheClosest`, if no request gives a negative weight (`NoNegativeWeight`) | no score falls when a figure comes closer, and a weighted mean keeps that order; what is shown is the beginning of a listing (`Counting!ListingIsSorted`) of what passes the filters, so what is more similar stands before |
| `ToolRunsAreTold` | `RunsAreTold` | `RunsCounted`: at every place of the coroutine its runs are counted by the errors of the network behind it; `OnlyAwaited`: there is no coroutine without a thread that waits |
| `TeamReports` | `ReportIsShown` | `DoneIsFinal`: a "done" in the queue has the text of a thread that is over; `ReportSoFar`: what the chief holds is what is shown of its report |
| `BacktestsOnRecord` | `SuccessIsOnRecord` | `ThreadIsOnRecord`: the rows of the attempt at work are counted item by item |
| `BestIsShown` | `BestIsBest` whenever the summary reads all rows, if the engine's values are of one scale (`OneScale`) | `ScoresAreShown`: what is stored of a success is what is shown of the engine's value, and on one scale showing keeps the order |
| `AnswersHold` | `AnswersAreTrue`, if no result vanishes between two reads (`~ResultsVanish`) | `JobIsSound`: a job keeps a result as long as it is complete; `ReaderIsSound`: what a reader has read stays so; `IndexHolds`: the index has the newest jobs ever in it, whoever trims it |
| `TalkIsKept` | `SessionIsTheTalk` | `QuestionIsOwn`: a request's question is a message of its own session, deleted or not; the prompt has the last messages, by the ranks of a limited list |

None of these invariants is inductive alone: `JobsRunAlone` says nothing of the keys that
keep a second claim out, `MembersAreWatched` nothing of what a request in flight
believes, `RunIsReported` nothing of a run that is half done, `OverviewSuffices` nothing
of what a run at work has seen. The strengthenings say it; each was tried by TLC before
it was proved.

The conditions are those of the runs, and section 5 shows what happens without them. The
assumptions on constants only say of what kind they are, with a few that the code makes
true: the facts called numbers are numbers, a price is not negative and a bar's close is between its low and its high, a window of the chart
patterns is no longer than the bars its matcher asks for, the author's name "nobody" and the agent's name "chief" are of no user and no
analyst, the growth over a year wants a window of two, and the cards of a board, the
parameters of a grid, the stocks listed and the rows of a screen are finitely many.

Model-checked only is liveness (`QueuedIsAttempted`, `LocksServe`, `EveryStockIsFilled`,
`HeardIsServed`, `WhatIsAskedEnds`): fairness and ENABLED are beyond the prover. Recursive
operators and the sorts and folds of the community modules are beyond it too, so no proof
opens one (`SignalRules` sums gains, losses and squared closes with one, and the board
agrees with the strategies whatever those sums are). A recursive function of one module, as
the drawdown's or a sum's, is reasoned about by the least number for which a claim fails
(`Counting!LeastNumber`), which stands in for induction, and `PeerRules` and `ScreenRules`
rank with `Listings`, which says who stands in the k-th place and sorts nothing.

## 5. Findings

Four documented promises that the code does not keep, each with a run that shows it:

- `lost`: two overlapping calls for one id. A reads "not found" and deletes the job key;
  B clears, enqueues, is accepted; A's ZREM takes B's member out of the queue; A's own
  enqueue finds B's job key and fails. B's run never starts.
- `norun`: `enqueue_auto_task` passes the task id by position, `run_auto_schedule_task`
  takes it by keyword only. Every automatic task ends in a TypeError that only ARQ's
  result shows, and the row never records a run.
- `twice`: the design says the poll is covered by the distributed lock; the code returns
  before taking it, and a job that settled within the minute is handed out again.
- `written_twice`: the design says a proposal is good for one write; two confirmations
  in flight both execute it, since the test and the change of status are apart.

Further statements fail in the code and have no run of their own. A constant of the
module says where the passing runs stop short of them; set it the other way in the cfg
and TLC shows the counterexample:

| Module, constant | Property refuted | What happens |
|---|---|---|
| `OpsJobs`, `JobMayTimeout = TRUE` | `JobsRunAlone` | a thread that outlives its coroutine runs beside the next run of the job |
| `OpsJobs`, `TtlCoversRun = FALSE` | `BarsExclusion` | the bars lock lives 1800 s by default, a job may take 7200 s |
| `OpsJobs` | `NeverRejected` | the loser of two overlapping enqueues gets a RuntimeError |
| `EmbeddedScheduler` | `OncePerTick` | the lock spans the enqueue only: a replica that comes after the run has settled starts another |
| `AutoSchedule` | `RefusalIsRecorded` | after a refused save the session is not rolled back, and recording the failure fails too |
| `Watchlist`, `OneAtATime = FALSE` | `ListIsInOrder`, `MembersAreWatched`, `RowsAreOwn` | overlapping requests of one user; for `RowsAreOwn` a stale removal deletes the row another user has since inserted under the same key |
| `UserRecords`, `OneEditor = FALSE` | `EditsAreAtomic` | of two edits of one JSON value at a time, one is lost |
| `JobAnswers`, `ResultsVanish = TRUE` | `AnswersAreTrue` | a result that expires between two reads: a job that succeeded is told failed |
| `Feed`, `DeletesOverlap = TRUE` | `FetchedIsShown` | a run that has read a subscription stores items of it after it was deleted |
| `Backtests`, `ReadLimit` below the runs of a batch; `Scores` within `Fraction` | `BestIsBest` | the summary reads the newest rows only; a return of less than 1.5 percent is taken for a fraction and shown a hundredfold |
| `EmotionCycle`, `Pool` or `LeaderPool` below the stocks listed | `StageIsDue` | breadth and leader are those of the first rows, not of the market |
| `BarStore`, `MaxSymbols = 1` | `EveryStockIsFilled` | a stock that never has bars is first in line on every run |
| `MarketTables`, `HasCalendar = FALSE`, a holiday after a missed evening (`Weekend = {3, 4}`, `Holidays = {2}`) | `TablesAreWhole` | days counted by the week take the holiday for an open day, and the missed one leaves the window |
| `ScreenRules`, `NameLimit` below the rows | `ScreenPrefersTheBetter` | names are read for the first rows only, and ST is told from the name: a stock is kept that a longer reading refuses |
| `PeerRules`, a slightly negative weight in `WeightSets` | `PeersAreTheClosest` | the request may carry one, and the less similar stock comes first |
| `Radar`, a scene in which a synthesiser returns None | `WarmCardsAreFresh` of every card | the snapshot of an earlier warming stays and is shown beside the new ones; the passing property asks it of the cards that were built |
| `CtaStrategies`, `SellsFill = FALSE` | `SoldOnceAndLater` | a sell order that the next bar does not match stays, and a second one is sent for the same shares |

Remarks that came up on the way and are no property:

- The disclosure calendar is fetched for the newest quarter end that is past: from 31
  March on the annual reports, which may come until the end of April, are not asked for
  any more (`services/ops/sync_disclosure.py:20-34`).
- A recipe's score never sees the price/earnings ratio, because only the low-P/E
  presets put it into the rows (`domains/screener/engine.py:288`).
- The net inflow written to `tushare_factor_cache` has no reader.
- When the patch and a collector's round meet, a stock may show the score of one beside
  the quote of the other until the next round; this is why `LiveRanks` speaks of writers
  that met no other.
- The closing ranking moves to the newest date as soon as one bar of it is stored, and a
  stock without a bar on the date before is shown as unchanged.
- A skill that overruns its soft limit goes on with a database session that its request
  has given up.

## 6. Plan

Done: the components that decide something about shared state or apply a rule whose
orders can contradict one another. Left, in the order of their worth:

1. `JobQueue` in `EmbeddedScheduler`, `AutoSchedule` and `JobAnswers`, in place of their
   one-step abstractions of the enqueue.
2. The scheduled screening of the ops catalogue on top of `AutoSchedule`'s worker, with
   the delivery of its message per channel, and the login guard's window counter.
3. The parsing of weekdays and times of an automatic task, which would tie `matching` to
   the clock.

## 7. Not modelled, and why

What is modelled is modelled in part where `PROJECT.json` says so: the notes there name
what each module leaves out. Left out altogether are:

- jobs of the ops catalogue without a module of their own (concept boards, purge, focus
  minutes, health): one fetch and one upsert, or one
  delete by age; `OpsJobs` abstracts a runner to a thread that takes time and may fail;
- the scheduled screening of the catalogue (`services/ops/auto_screen.py`): screen, save,
  record, notify, in the order of `AutoSchedule` without its error paths;
- market reads, watchlist views: queries and decoration without state of their own;
- skills of the assistant: a user's Python file in a thread with a soft limit; what it does
  is unknown, and nothing the code does would restrain a model of it;
- playbook, reports, delivery log, notification channels: one row per request, one send
  per channel; `AutoSchedule` has a push that succeeds or raises;
- authentication: a signed token and a window counter; users are given in every module;
- the application shell, models, migrations, a one-off import: wiring; the keys of the
  tables are in the modules that need them;
- the frontend: its state is presentation.

Floating point is out of scope throughout: the rules are over integers, so nothing is said
of values that differ by a rounding error.
