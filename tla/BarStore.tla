------------------------------ MODULE BarStore ------------------------------
(***************************************************************************)
(* The local bars: app.universe, app.trade_calendar, public.dbbardata and  *)
(* its summary public.dbbaroverview, and the jobs that fill them from      *)
(* Tushare.  Three daily jobs exclude one another (the bars lock, modelled *)
(* in OpsJobs); the one-minute job has rows of its own and runs beside     *)
(* them.  A job lists its pool once, with the trade date of that moment,   *)
(* and then works stock by stock, one transaction each, while the clock,   *)
(* the calendar and the universe go on changing.                           *)
(* Days 1, 2, ... are weekdays, day 1 is BARS_UNIVERSE_START; a weekday may *)
(* be a holiday, which only the synchronised calendar knows.               *)
(***************************************************************************)
EXTENDS Integers, FiniteSets, Sequences, Functions, FiniteSetsExt

CONSTANTS StockOrder,    \* the stocks in the order of "exchange, symbol"
          Suspended,     \* stocks Tushare lists and has no bars for
          OpenDays,      \* the days the exchange trades
          ListedOn,      \* stock |-> its first trading day
          Focus,         \* stocks on somebody's watchlist
          Lookback,      \* days a first fill goes back
          MinuteWindow,  \* days a one-minute download goes back
          MaxSymbols,    \* stocks one run may attempt
          Today0, MaxDay,\* bound: the days of the model
          MaxFails       \* bound: failed downloads

Listed == Range(StockOrder)
Days == 1..MaxDay

ASSUME BarAssumption ==
    /\ Suspended \subseteq Listed /\ Focus \subseteq Listed
    /\ ListedOn \in [Listed -> Days] /\ 1 \in OpenDays /\ OpenDays \subseteq Days
    /\ Today0 \in Days /\ MaxSymbols \in Nat \ {0} /\ {MaxDay, Lookback, MinuteWindow, MaxFails} \subseteq Nat
    /\ StockOrder \in Seq(Listed)

VARIABLES today,
          published,  \* the bars of today are out at Tushare
          calendar,   \* app.trade_calendar has been synchronised
          universe,
          bars,       \* <<stock, interval>> |-> days in dbbardata
          overview,   \* <<stock, interval>> |-> its row of dbbaroverview
          fills,      \* interval |-> the job at work on it
          lastRun,    \* what the meta of the last finished run says
          fails

barVars == <<today, published, calendar, universe, bars, overview, fills, lastRun, fails>>

Intervals == {"d", "1m"}
Series == Listed \X Intervals
NoRow == [start |-> 0, end |-> 0, n |-> 0]
Idle == [job |-> "none", pool |-> <<>>, asOf |-> 0, good |-> FALSE, bad |-> FALSE]
DailyJobs == {"fill_watchlist_bars", "batch_fill_stale", "batch_download_universe"}
FillJobs == DailyJobs \cup {"fill_focus_pool_minute"}

\* The days a stock trades, and those Tushare has bars for.
Traded(s) == IF s \in Suspended THEN {} ELSE OpenDays \cap (ListedOn[s]..MaxDay)
Published(s) == Traded(s) \cap (1..IF published THEN today ELSE today - 1)

\* latest_open_yyyymmdd: the newest open day of the calendar that is not after
\* today; without a calendar the last weekday.
AsOf == IF calendar THEN Max(OpenDays \cap (1..today)) ELSE today

BarInit ==
    /\ today = Today0 /\ published = FALSE /\ calendar = FALSE /\ universe = {}
    /\ bars = [k \in Series |-> {}] /\ overview = [k \in Series |-> NoRow]
    /\ fills = [i \in Intervals |-> Idle]
    /\ lastRun = "never" /\ fails = 0

----------------------------------------------------------------------------
NextDay ==
    /\ today < MaxDay /\ today' = today + 1 /\ published' = FALSE
    /\ UNCHANGED <<calendar, universe, bars, overview, fills, lastRun, fails>>

PublishBars ==
    /\ ~published /\ published' = TRUE
    /\ UNCHANGED <<today, calendar, universe, bars, overview, fills, lastRun, fails>>

\* The calendar is fetched to the end of next year, far beyond the model's days.
SyncCalendar ==
    /\ ~calendar /\ calendar' = TRUE
    /\ UNCHANGED <<today, published, universe, bars, overview, fills, lastRun, fails>>

\* The list is replaced as a whole in one transaction; an empty answer leaves it.
SyncUniverse ==
    /\ universe' = Listed
    /\ universe /= universe'
    /\ UNCHANGED <<today, published, calendar, bars, overview, fills, lastRun, fails>>

----------------------------------------------------------------------------
(* The pools.                                                              *)

Take(seq) == SubSeq(seq, 1, IF Len(seq) > MaxSymbols THEN MaxSymbols ELSE Len(seq))

\* The rows of a query: some stocks in the order of the pairs given.
Ordered(stocks, before) ==
    [n \in 1..Cardinality(stocks) |->
        CHOOSE s \in stocks : Cardinality({t \in stocks : <<t, s>> \in before}) = n - 1]

\* ORDER BY exchange, symbol; and by the last bar.
Place(s) == CHOOSE n \in DOMAIN StockOrder : StockOrder[n] = s
ByPlace == {p \in Listed \X Listed : Place(p[1]) < Place(p[2])}
ByEnd ==
    LET End(s) == overview[<<s, "d">>].end
    IN  {p \in Listed \X Listed : End(p[1]) < End(p[2]) \/ (End(p[1]) = End(p[2]) /\ p \in ByPlace)}

\* The stocks whose last bar is older than the trade date, oldest first.
StalePool(asOf) ==
    Take(Ordered({s \in Listed : overview[<<s, "d">>].n > 0 /\ overview[<<s, "d">>].end < asOf}, ByEnd))

Missing == Ordered({s \in universe : overview[<<s, "d">>].n = 0}, ByPlace)
Late == Ordered({s \in universe : overview[<<s, "d">>].start > 1}, ByPlace)

\* Mutant: those whose bars begin late come first.
UniversePoolLateFirst == Take(Late \o Missing)

\* First the stocks of the universe without an overview row, then those whose
\* bars begin after the unified start, in the order of the list.
UniversePool == Take(Missing \o Late)

FocusPool == Ordered(Focus, ByPlace)

Pool(job) ==
    CASE job = "fill_watchlist_bars"     -> FocusPool
      [] job = "batch_fill_stale"        -> StalePool(AsOf)
      [] job = "batch_download_universe" -> UniversePool
      [] job = "fill_focus_pool_minute"  -> Take(FocusPool)

IntervalOf(job) == IF job \in DailyJobs THEN "d" ELSE "1m"

\* A run begins: one per interval at a time.  The universe job reports a failure
\* when there is no universe.
StartFill(job) ==
    LET i == IntervalOf(job) IN
    /\ fills[i] = Idle
    /\ IF job = "batch_download_universe" /\ universe = {}
       THEN lastRun' = "failed" /\ UNCHANGED fills
       ELSE /\ fills' = [fills EXCEPT ![i] = [Idle EXCEPT !.job = job, !.pool = Pool(job), !.asOf = AsOf]]
            /\ UNCHANGED lastRun
    /\ UNCHANGED <<today, published, calendar, universe, bars, overview, fails>>

----------------------------------------------------------------------------
(* One stock of a run.                                                     *)

\* Mutant: the fill begins a day too late.
FillFromSkipping(s, asOf) ==
    LET row == overview[<<s, "d">>] IN IF row.n = 0 THEN asOf - Lookback ELSE row.end + 2

\* resolve_fill_range: after the last bar, or the default look-back.
FillFrom(s, asOf) ==
    LET row == overview[<<s, "d">>] IN IF row.n = 0 THEN asOf - Lookback ELSE row.end + 1

\* _needs_1m_download, and the window of open days a minute run fills.
NeedsMinutes(run, s) == overview[<<s, "1m">>].n = 0 \/ overview[<<s, "1m">>].end < run.asOf
MinuteRange(run) == (run.asOf - MinuteWindow)..run.asOf

\* The days a run asks for; none when the stock is up to date.
Asked(run, s) ==
    CASE run.job = "batch_download_universe" -> 1..run.asOf
      [] run.job = "fill_focus_pool_minute" -> IF NeedsMinutes(run, s) THEN MinuteRange(run) ELSE {}
      [] OTHER -> FillFrom(s, run.asOf)..run.asOf

\* refresh_overview: the row is deleted and written again from all bars.
Summary(old, days, all) == [start |-> Min(all), end |-> Max(all), n |-> Cardinality(all)]

\* The rows are upserted and the summary refreshed in one transaction.
FillStock(i) ==
    LET run == fills[i]
        s == Head(run.pool)
        days == Asked(run, s) \cap Published(s)
        all == bars[<<s, i>>] \cup days
    IN  /\ run.pool /= <<>>
        /\ bars' = [bars EXCEPT ![<<s, i>>] = all]
        /\ overview' = [overview EXCEPT ![<<s, i>>] = IF days = {} THEN @ ELSE Summary(@, days, all)]
        /\ fills' = [fills EXCEPT ![i] = [run EXCEPT !.pool = Tail(@), !.good = @ \/ days /= {}]]
        /\ UNCHANGED <<today, published, calendar, universe, lastRun, fails>>

FillDaily == FillStock("d")
FillMinutes == FillStock("1m")

\* The download raises: the transaction is rolled back and the run goes on.
FillFails(i) ==
    /\ fills[i].pool /= <<>> /\ fails < MaxFails /\ fails' = fails + 1
    /\ fills' = [fills EXCEPT ![i] = [fills[i] EXCEPT !.pool = Tail(@), !.bad = TRUE]]
    /\ UNCHANGED <<today, published, calendar, universe, bars, overview, lastRun>>

\* The run is over: success unless something failed and nothing was filled; the
\* one-minute job always reports success.
FinishFill(i) ==
    /\ fills[i] /= Idle /\ fills[i].pool = <<>>
    /\ lastRun' = IF i = "1m" \/ ~fills[i].bad \/ fills[i].good THEN "ok" ELSE "failed"
    /\ fills' = [fills EXCEPT ![i] = Idle]
    /\ UNCHANGED <<today, published, calendar, universe, bars, overview, fails>>

BarNext ==
    \/ NextDay \/ PublishBars \/ SyncCalendar \/ SyncUniverse
    \/ \E j \in FillJobs : StartFill(j)
    \/ FillDaily \/ FillMinutes
    \/ \E i \in Intervals : FillFails(i) \/ FinishFill(i)

BarSpec == BarInit /\ [][BarNext]_barVars

\* The jobs whose cron EveryStockIsFilled relies on; the clock runs and a run
\* that began goes on.
ServedJobs == {"batch_fill_stale", "batch_download_universe"}

----------------------------------------------------------------------------
BarTypeOK ==
    /\ today \in Days /\ published \in BOOLEAN /\ lastRun \in {"never", "ok", "failed"} /\ calendar \in BOOLEAN
    /\ universe \subseteq Listed
    /\ bars \in [Series -> SUBSET Days]
    /\ \A k \in Series : overview[k].n \in 0..MaxDay
    /\ \A i \in Intervals : Range(fills[i].pool) \subseteq Listed /\ fills[i].asOf \in 0..today
    /\ fails \in 0..MaxFails

\* The summary the other parts of the program trust instead of the bars says
\* what the bars say, for both intervals and whatever failed in between.
OverviewTellsBars ==
    \A k \in Series :
        overview[k] = IF bars[k] = {} THEN NoRow
                      ELSE [start |-> Min(bars[k]), end |-> Max(bars[k]), n |-> Cardinality(bars[k])]

\* A fill looks at the last bar alone, so a hole would stay for ever: between
\* the first and the last daily bar of a stock no trading day is missing.
NoHoles ==
    \A s \in Listed :
        LET row == overview[<<s, "d">>]
        IN  row.n > 0 => Traded(s) \cap (row.start..row.end) \subseteq bars[<<s, "d">>]

\* A reader may take the summary for the bars: it tells their range and number,
\* and nothing is missing in between.
OverviewSuffices == BarTypeOK /\ OverviewTellsBars /\ NoHoles

\* Every stock of the universe that Tushare has bars for is sooner or later
\* filled to the last day, although a run attempts MaxSymbols stocks only.
EveryStockIsFilled ==
    \A s \in Listed \ Suspended :
        s \in universe ~> (overview[<<s, "d">>].n > 0 /\ overview[<<s, "d">>].end = Max(OpenDays))
=============================================================================
