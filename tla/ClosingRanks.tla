---------------------------- MODULE ClosingRanks ----------------------------
(***************************************************************************)
(* The rankings of the market page.  In the session they come from Redis;  *)
(* otherwise, or when Redis has none, they are made up from tables of the  *)
(* database: the bars of the newest date, the closes of the date before    *)
(* and the newest cached factors.  Each table is read by a query of its    *)
(* own while jobs go on writing: the fill job stores today's bars stock by *)
(* stock, the prefetch job stores a day's factors as one row.  (The rows   *)
(* of moneyflow it and another job store are read by nothing.)             *)
(***************************************************************************)
EXTENDS Integers, FiniteSets, FiniteSetsExt

CONSTANTS RankStocks, RankDays,
          ClosePrices,      \* prices a stock may close at
          Payloads     \* stocks the provider may have factors of

ASSUME RankAssumption ==
    /\ RankDays \in Nat \ {0} /\ ClosePrices \subseteq Nat \ {0}
    /\ Payloads \subseteq SUBSET RankStocks

VARIABLES day,      \* today
          closes,   \* day |-> stock |-> its close, 0: no bar
          cached,   \* day |-> its daily_basic row in tushare_factor_cache: the stocks in the payload
          reading,  \* the request
          prefetched \* history: a prefetch of daily_basic had succeeded when the request began

rankVars == <<day, closes, cached, reading, prefetched>>

NoCacheRow == [stored |-> FALSE, stocks |-> {}]
CacheRow(stocks) == [stored |-> TRUE, stocks |-> stocks]
NoReading == [pc |-> "idle", latest |-> 0, prev |-> 0, now |-> {}, before |-> {}, factors |-> {}]

RankInit ==
    /\ day = 1 /\ prefetched = FALSE /\ reading = NoReading
    /\ closes = [d \in 1..RankDays |-> [s \in RankStocks |-> 0]]
    /\ cached = [d \in 1..RankDays |-> NoCacheRow]

----------------------------------------------------------------------------
(* The jobs.                                                               *)

NextDay ==
    /\ day < RankDays /\ day' = day + 1
    /\ UNCHANGED <<closes, cached, reading, prefetched>>

StoreBar(s) ==
    /\ closes[day][s] = 0
    /\ \E p \in ClosePrices : closes' = [closes EXCEPT ![day][s] = p]
    /\ UNCHANGED <<day, cached, reading, prefetched>>

\* A row replaces the day's row; an answer without rows leaves it alone.
Stores(answer) == IF answer = {} THEN cached ELSE [cached EXCEPT ![day] = CacheRow(answer)]

PrefetchTushare ==
    /\ \E answer \in Payloads : cached' = Stores(answer)
    /\ UNCHANGED <<day, closes, reading, prefetched>>

----------------------------------------------------------------------------
(* A request for a ranking that Redis does not answer.                     *)

BarDates == {d \in 1..RankDays : \E s \in RankStocks : closes[d][s] > 0}
StoredDays == {d \in 1..RankDays : cached[d].stored}
BarsOf(d) == {<<s, closes[d][s]>> : s \in {t \in RankStocks : d > 0 /\ closes[d][t] > 0}}
Newest(days) == IF days = {} THEN 0 ELSE Max(days)

\* Only these requests: in the session a ranking Redis has is shown as it is.
AskRanks ==
    /\ reading.pc \in {"idle", "shown"}
    /\ reading' = [NoReading EXCEPT !.pc = "dates"]
    /\ prefetched' = (StoredDays /= {})
    /\ UNCHANGED <<day, closes, cached>>

ReadDates ==
    /\ reading.pc = "dates"
    /\ LET latest == Newest(BarDates) IN
       reading' = [reading EXCEPT !.pc = IF latest = 0 THEN "shown" ELSE "bars",
                                  !.latest = latest, !.prev = Newest(BarDates \ {latest})]
    /\ UNCHANGED <<day, closes, cached, prefetched>>

\* Mutant: the bars are those of the newest date at this moment.
ReadBarsOfNewest ==
    /\ reading.pc = "bars"
    /\ reading' = [reading EXCEPT !.pc = "prev", !.now = BarsOf(Newest(BarDates))]
    /\ UNCHANGED <<day, closes, cached, prefetched>>

ReadBars ==
    /\ reading.pc = "bars"
    /\ reading' = [reading EXCEPT !.pc = "prev", !.now = BarsOf(reading.latest)]
    /\ UNCHANGED <<day, closes, cached, prefetched>>

ReadPrevCloses ==
    /\ reading.pc = "prev"
    /\ reading' = [reading EXCEPT !.pc = "factors", !.before = BarsOf(reading.prev)]
    /\ UNCHANGED <<day, closes, cached, prefetched>>

\* The newest row of daily_basic, whichever day it is of.
ReadFactors ==
    /\ reading.pc = "factors"
    /\ LET newest == Newest(StoredDays) IN
       reading' = [reading EXCEPT !.pc = "shown",
                     !.factors = IF newest = 0 THEN {} ELSE cached[newest].stocks]
    /\ UNCHANGED <<day, closes, cached, prefetched>>

\* The change shown for a stock, in percent: 0 without a close on the date before.
ShownChange(s) ==
    LET now == {b \in reading.now : b[1] = s}
        before == {b \in reading.before : b[1] = s}
    IN  IF now = {} \/ before = {} THEN 0
        ELSE LET p == (CHOOSE b \in now : TRUE)[2]
                 q == (CHOOSE b \in before : TRUE)[2]
             IN  ((p - q) * 100) \div q

RankNext ==
    \/ NextDay \/ PrefetchTushare
    \/ \E s \in RankStocks : StoreBar(s)
    \/ AskRanks \/ ReadDates \/ ReadBars \/ ReadPrevCloses \/ ReadFactors

RankSpec == RankInit /\ [][RankNext]_rankVars

----------------------------------------------------------------------------
(* Properties.                                                             *)

\* What a stock's last close before day d was: 0 when there is none.
LastClose(s, d) ==
    LET days == {e \in 1..(d - 1) : closes[e][s] > 0}
    IN  IF days = {} THEN 0 ELSE closes[Max(days)][s]

\* A stock that a page shows as having risen or fallen did so, by that much,
\* on the day the page is about and against its own last close, whatever was
\* stored between the page's queries.  (One without a bar on the date before
\* is shown as unchanged.)
ShownMoveIsReal ==
    reading.pc = "shown" /\ reading.latest > 0 =>
        \A s \in RankStocks : ShownChange(s) /= 0 =>
            LET q == LastClose(s, reading.latest) IN
            /\ q > 0 /\ ShownChange(s) = ((closes[reading.latest][s] - q) * 100) \div q

\* Once a day's factors were prefetched no page is without factors again: a
\* prefetch that comes before the provider has published the day does not put
\* a row without stocks in front of the day before.
FactorsStay ==
    reading.pc = "shown" /\ reading.latest > 0 /\ prefetched => reading.factors /= {}

\* A page put together from four queries shows nothing that was not the case:
\* see the two parts.
PageIsReal == ShownMoveIsReal /\ FactorsStay
=============================================================================
