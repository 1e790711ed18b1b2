---------------------------- MODULE MarketTables ----------------------------
(***************************************************************************)
(* The tables a job copies from Tushare (external) every day, each in a    *)
(* way of its own: the limit list merges rows and is also fetched by the   *)
(* first reader of a day; the suspensions replace the rows of a day; the   *)
(* sector flows merge the last days again on every run, from whichever     *)
(* source answers; the industries replace the whole table.  Jobs run by    *)
(* hand at any time and by cron in the evening; a behaviour is about one   *)
(* of the tables.                                                          *)
(***************************************************************************)
EXTENDS Integers, FiniteSets, FiniteSetsExt

CONSTANTS TableStocks,  \* stocks
          LastDay,      \* the days are 1..LastDay
          Weekend,      \* days of no week
          Holidays,     \* days of the week on which the exchange is closed
          BusyDays,     \* days on which a stock is sealed or halted (bound)
          HasCalendar,  \* app.trade_calendar has rows
          LimitDays,    \* LIMIT_LIST_SYNC_DAYS (1)
          FlowDays,     \* SECTOR_FLOW_SYNC_DAYS (15)
          MaxMoves,     \* how often a stock is sealed or halted in a day
          MaxMissed     \* evenings without a complete run of the flows

ASSUME TablesAssumption ==
    /\ {LastDay, LimitDays, FlowDays, MaxMoves} \subseteq Nat \ {0} /\ MaxMissed \in Nat
    /\ Weekend \cup Holidays \subseteq 1..LastDay /\ 1 \notin Weekend \cup Holidays /\ HasCalendar \in BOOLEAN

VARIABLES table,     \* the table this behaviour is about
          clock,     \* the day, and whether the exchange has closed
          tape,      \* day, stock |-> is it sealed (halted) now, and how often it was
          limitRows, \* app.limit_list_daily: day, stock |-> the figures stored, 0 for no row
          haltRows,  \* app.symbol_suspend_days: day |-> stocks
          flowRows,  \* app.sector_flow_daily: day |-> the sources of its rows
          taxonomy,  \* app.stock_industry: stock |-> the source of its row
          final,     \* history: days fetched after their close
          missed     \* history: evenings without a complete run, and if today had one

tableVars == <<table, clock, tape, limitRows, haltRows, flowRows, taxonomy, final, missed>>

Days == 1..LastDay
OpenDays == Days \ (Weekend \cup Holidays)
Tables == {"limits", "halts", "flows", "industry"}
Sources == {"sw_dc", "ths_concept", "dc_concept"}
Still == [on |-> FALSE, times |-> 0]

TablesTypeOK ==
    /\ table \in Tables /\ clock \in [day : Days, evening : BOOLEAN]
    /\ tape \in [Days -> [TableStocks -> [on : BOOLEAN, times : 0..MaxMoves]]]
    /\ limitRows \in [Days -> [TableStocks -> 0..MaxMoves]] /\ haltRows \in [Days -> SUBSET TableStocks]
    /\ flowRows \in [Days -> SUBSET Sources]
    /\ taxonomy \in [TableStocks -> {"", "sw2021_l2", "stock_basic"}]
    /\ final \subseteq Days /\ missed \in [evenings : 0..MaxMissed, today : BOOLEAN]

TablesInit ==
    /\ table \in Tables /\ clock = [day |-> 1, evening |-> FALSE]
    /\ tape = [d \in Days |-> [s \in TableStocks |-> Still]]
    /\ limitRows = [d \in Days |-> [s \in TableStocks |-> 0]] /\ haltRows = [d \in Days |-> {}]
    /\ flowRows = [d \in Days |-> {}] /\ taxonomy = [s \in TableStocks |-> ""]
    /\ final = {} /\ missed = [evenings |-> 0, today |-> FALSE]

\* A stock is sealed (halted) or opens (resumes) while the exchange is open.
MarketMoves ==
    /\ table \in {"limits", "halts"} /\ ~clock.evening /\ clock.day \in BusyDays \cap OpenDays
    /\ \E s \in TableStocks :
           LET now == tape[clock.day][s] IN
           /\ now.on \/ now.times < MaxMoves
           /\ tape' = [tape EXCEPT ![clock.day][s] = [on |-> ~now.on, times |-> IF now.on THEN now.times ELSE now.times + 1]]
    /\ UNCHANGED <<table, clock, limitRows, haltRows, flowRows, taxonomy, final, missed>>

DayCloses ==
    /\ table /= "industry" /\ ~clock.evening /\ clock' = [clock EXCEPT !.evening = TRUE]
    /\ UNCHANGED <<table, tape, limitRows, haltRows, flowRows, taxonomy, final, missed>>

\* The next morning.  An evening of an open day without a complete run is counted.
NextDay ==
    /\ clock.evening /\ clock.day < LastDay
    /\ clock' = [day |-> clock.day + 1, evening |-> FALSE]
    /\ \/ /\ missed.today \/ clock.day \notin OpenDays \/ table /= "flows"
          /\ missed' = [missed EXCEPT !.today = FALSE]
       \/ /\ ~missed.today /\ clock.day \in OpenDays /\ table = "flows" /\ missed.evenings < MaxMissed
          /\ missed' = [missed EXCEPT !.evenings = @ + 1]
    /\ UNCHANGED <<table, tape, limitRows, haltRows, flowRows, taxonomy, final>>

----------------------------------------------------------------------------
\* Mutant: the last days of any kind.
RecentOpenDatesOfAny(n) == {d \in 1..clock.day : clock.day < d + n}

\* recent_open_dates: the last n open days up to today, of the calendar or,
\* without one, of the week.
RecentOpenDates(n) ==
    LET known == IF HasCalendar THEN OpenDays ELSE Days \ Weekend
    IN  {d \in known \cap 1..clock.day : Cardinality({e \in known : d <= e /\ e <= clock.day}) <= n}

\* latest_open_yyyymmdd.
LatestOpen == Max(RecentOpenDates(1))

\* Days whose figures will not change any more.
Settled(d) == d < clock.day \/ clock.evening

\* sync_one_day: the stocks sealed now are inserted or updated; none is deleted.
Merged(d) == [s \in TableStocks |-> IF tape[d][s].on THEN tape[d][s].times ELSE limitRows[d][s]]

\* The fetch of some days: those that fail are passed over.
FetchLimits(days) ==
    /\ limitRows' = [d \in Days |-> IF d \in days THEN Merged(d) ELSE limitRows[d]]
    /\ final' = final \cup {d \in days : Settled(d)}

SyncLimitList ==
    /\ table = "limits"
    /\ \E days \in SUBSET RecentOpenDates(LimitDays) : FetchLimits(days)
    /\ UNCHANGED <<table, clock, tape, haltRows, flowRows, taxonomy, missed>>

\* load_first_time_map, list_limit_list: who finds no row of the day fetches it,
\* and shows nothing when that fails.
ReadLimits ==
    /\ table = "limits"
    /\ \A s \in TableStocks : limitRows[LatestOpen][s] = 0
    /\ FetchLimits({LatestOpen})
    /\ UNCHANGED <<table, clock, tape, haltRows, flowRows, taxonomy, missed>>

Halted(d) == {s \in TableStocks : tape[d][s].on}

\* The day's rows are deleted and inserted in one transaction.
Replaced(d, stocks) == stocks

\* sync_suspend_daily: the latest open day; an empty answer changes nothing.
SyncSuspendDaily ==
    /\ table = "halts"
    /\ Halted(LatestOpen) /= {}
    /\ haltRows' = [haltRows EXCEPT ![LatestOpen] = Replaced(LatestOpen, Halted(LatestOpen))]
    /\ final' = IF Settled(LatestOpen) THEN final \cup {LatestOpen} ELSE final
    /\ UNCHANGED <<table, clock, tape, limitRows, flowRows, taxonomy, missed>>

\* _load_sw_name_map: Tushare's classification, else the ids of stored rows.
KnowsSectors(classified) == classified \/ \E d \in Days : "sw_dc" \in flowRows[d]

\* _sync_one_day: the industries when they can be named; the concepts from THS,
\* from DC (other ids) when THS is silent.  Rows of another source stay.
FlowsOf(d, answers) ==
    flowRows[d] \cup (IF "dc" \in answers /\ KnowsSectors("classes" \in answers) THEN {"sw_dc"} ELSE {})
                \cup (IF "ths" \in answers THEN {"ths_concept"} ELSE IF "dc" \in answers THEN {"dc_concept"} ELSE {})

\* sync_sector_flow_daily, prefetch_concept_board: every day of the window that
\* Tushare has published, in one transaction.
SyncSectorFlow ==
    /\ table = "flows"
    /\ \E answers \in SUBSET {"classes", "dc", "ths"} :
           /\ flowRows' = [d \in Days |-> IF d \in RecentOpenDates(FlowDays) /\ Settled(d) THEN FlowsOf(d, answers) ELSE flowRows[d]]
           /\ missed' = [missed EXCEPT !.today = @ \/ (clock.evening /\ clock.day \in OpenDays /\ {"classes", "dc"} \subseteq answers)]
    /\ UNCHANGED <<table, clock, tape, limitRows, haltRows, taxonomy, final>>

\* DELETE and INSERT in one transaction.
Industries(stocks, source) == [s \in TableStocks |-> IF s \in stocks THEN source ELSE ""]

\* sync_stock_industry: the members of the SW index, else the basics; without a
\* row, and after any error, the table stays as it is.
SyncStockIndustry ==
    /\ table = "industry"
    /\ \E stocks \in SUBSET TableStocks \ {{}}, source \in {"sw2021_l2", "stock_basic"} :
           taxonomy' = Industries(stocks, source)
    /\ UNCHANGED <<table, clock, tape, limitRows, haltRows, flowRows, final, missed>>

TablesNext ==
    \/ MarketMoves \/ DayCloses \/ NextDay
    \/ SyncLimitList \/ ReadLimits \/ SyncSuspendDaily \/ SyncSectorFlow \/ SyncStockIndustry

TablesSpec == TablesInit /\ [][TablesNext]_tableVars

----------------------------------------------------------------------------
(* A limit list fetched after the close has every stock that ended the day *)
(* sealed with its final figures, whatever a reader had fetched while the  *)
(* stock opened and was sealed again.  (A stock that was on a list fetched *)
(* during the day and did not end it sealed stays on it.)                  *)
SealedIsFinal ==
    \A d \in final, s \in TableStocks :
        table = "limits" /\ tape[d][s].on => limitRows[d][s] = tape[d][s].times

(* The suspensions of a day fetched after its close are that day's, without *)
(* the stocks that had resumed since an earlier run - unless nothing is     *)
(* suspended any more, when the earlier rows stay.                          *)
ResumedIsNotHalted == \A d \in final : table = "halts" => haltRows[d] = Halted(d)

(* No open day leaves the window of the flows without its industries and   *)
(* its concepts: a run makes up for the evenings before it on which none   *)
(* was complete, over a weekend as well, as long as those are fewer than    *)
(* the window's days.                                                      *)
NoDayLeavesEmpty ==
    table = "flows" => \A d \in OpenDays :
        Cardinality({e \in OpenDays : d <= e /\ e < clock.day}) >= FlowDays =>
            "sw_dc" \in flowRows[d] /\ flowRows[d] \cap {"ths_concept", "dc_concept"} /= {}

(* Industries of the two classifications are never mixed in one table,     *)
(* although either may answer on any run for other stocks.                 *)
OneTaxonomy ==
    \A s, t \in TableStocks : taxonomy[s] = "" \/ taxonomy[t] = "" \/ taxonomy[s] = taxonomy[t]

(* What a table tells of a day does not depend on when its job ran: see the  *)
(* parts, one for each table.                                               *)
TablesAreWhole ==
    TablesTypeOK /\ SealedIsFinal /\ ResumedIsNotHalted /\ NoDayLeavesEmpty /\ OneTaxonomy

=============================================================================
