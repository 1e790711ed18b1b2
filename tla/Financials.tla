----------------------------- MODULE Financials -----------------------------
(***************************************************************************)
(* The financial reports of a watched stock: every week a job copies what  *)
(* Tushare (external) has announced in the last two years and recomputes   *)
(* the snapshots with their growth over the year before; another copies    *)
(* the disclosure calendar of the latest quarter.  Periods are numbered;   *)
(* the last of a year is the annual report, which alone may be disclosed   *)
(* after the next period has ended.  A report is the version of its        *)
(* figures, 0 for none: figures may be restated.                           *)
(***************************************************************************)
EXTENDS Integers, FiniteSets, FiniteSetsExt

CONSTANTS Year,         \* periods of a year (4)
          WindowYears,  \* YEARS (2)
          LastPeriod,   \* periods looked at (bound)
          Versions,     \* versions of a report (bound)
          Restated      \* reports that may be restated (bound)

ASSUME FinancialsAssumption ==
    /\ {Year, WindowYears, LastPeriod, Versions, Restated} \subseteq Nat
    /\ Year > 2 /\ WindowYears > 1 /\ LastPeriod > 0 /\ Versions > 0

VARIABLES period,      \* the latest period that has ended
          figures,     \* external: period |-> version announced
          reports,     \* app.financial_reports: period |-> version stored
          snapshots,   \* app.financial_snapshots: period |-> version, and the two versions its growth is made of
          syncMeta,    \* app.financial_sync_meta
          disclosures, \* app.disclosure_calendar: period |-> what is known
          asked        \* history: the calendar was fetched since the last announcement

finVars == <<period, figures, reports, snapshots, syncMeta, disclosures, asked>>

Periods == 1..LastPeriod
Annual(p) == p % Year = 0
NoGrowth == <<0, 0>>
NoSnapshot == [version |-> 0, growth |-> NoGrowth]

FinTypeOK ==
    /\ period \in Periods /\ figures \in [Periods -> 0..Versions] /\ reports \in [Periods -> 0..Versions]
    /\ snapshots \in [Periods -> [version : 0..Versions, growth : (0..Versions) \X (0..Versions)]]
    /\ syncMeta \in [status : {"none", "ok", "error"}, latest : 0..LastPeriod, periods : 0..LastPeriod]
    /\ disclosures \in [Periods -> {"no row", "planned", "disclosed"}] /\ asked \in BOOLEAN

FinInit ==
    /\ period = 1 /\ figures = [p \in Periods |-> 0] /\ reports = [p \in Periods |-> 0]
    /\ snapshots = [p \in Periods |-> NoSnapshot] /\ syncMeta = [status |-> "none", latest |-> 0, periods |-> 0]
    /\ disclosures = [p \in Periods |-> "no row"] /\ asked = FALSE

\* Reports are announced in order, after their period, and may be restated.
Announce ==
    /\ \E p \in 1..period :
           /\ figures[p] < Versions /\ \A e \in 1..(p - 1) : figures[e] > 0
           /\ figures' = [figures EXCEPT ![p] = @ + 1]
           /\ Cardinality({e \in Periods : figures'[e] > 1}) <= Restated
           /\ asked' = (asked /\ figures[p] > 0)
    /\ UNCHANGED <<period, reports, snapshots, syncMeta, disclosures>>

\* Every report is out by the end of the next period, all but the annual one
\* earlier; the weekly job has fetched the calendar since.
PeriodEnds ==
    /\ period < LastPeriod /\ asked
    /\ \A p \in 1..period : figures[p] > 0 \/ (p = period /\ Annual(p))
    /\ period' = period + 1 /\ asked' = FALSE
    /\ UNCHANGED <<figures, reports, snapshots, syncMeta, disclosures>>

----------------------------------------------------------------------------
\* fetch_reports_for_symbol: the announcements of the last years.
InWindow(p) == period - WindowYears * Year < p

Fetched == {p \in 1..period : InWindow(p) /\ figures[p] > 0}

\* Mutant: the growth that is known is kept when the year before is not there.
GrowthKept(p, rows) == IF p - Year \in rows THEN <<figures[p], figures[p - Year]>> ELSE snapshots[p].growth

\* _yoy over the rows of the same fetch.
Growth(p, rows) == IF p - Year \in rows THEN <<figures[p], figures[p - Year]>> ELSE NoGrowth

\* _sync_one: reports, snapshots and meta in one transaction.  Tushare may
\* answer without a row; nothing is ever deleted.
SyncOne ==
    /\ \E rows \in {Fetched, {}} :
           /\ reports' = [p \in Periods |-> IF p \in rows THEN figures[p] ELSE reports[p]]
           /\ snapshots' = [p \in Periods |-> IF p \in rows THEN [version |-> figures[p], growth |-> Growth(p, rows)] ELSE snapshots[p]]
           /\ syncMeta' = [status |-> "ok", latest |-> IF rows = {} THEN 0 ELSE Max(rows), periods |-> Cardinality(rows)]
    /\ UNCHANGED <<period, figures, disclosures, asked>>

\* An error rolls the stock back and says so, as if nothing were stored.
SyncFails ==
    /\ syncMeta' = [status |-> "error", latest |-> 0, periods |-> 0]
    /\ UNCHANGED <<period, figures, reports, snapshots, disclosures, asked>>

\* latest_report_end_yyyymmdd.
LatestReportEnd == period

\* sync_disclosure_calendar: the rows of the latest period only.
SyncDisclosureCalendar ==
    /\ disclosures' = [disclosures EXCEPT ![LatestReportEnd] = IF figures[LatestReportEnd] > 0 THEN "disclosed" ELSE "planned"]
    /\ asked' = TRUE
    /\ UNCHANGED <<period, figures, reports, snapshots, syncMeta>>

FinNext == Announce \/ PeriodEnds \/ SyncOne \/ SyncFails \/ SyncDisclosureCalendar

FinSpec == FinInit /\ [][FinNext]_finVars

----------------------------------------------------------------------------
\* get_fundamentals: the newest snapshot.
Stored == {p \in Periods : snapshots[p].version > 0}
ShownSnapshot == Max(Stored)

(* The growth of the snapshot shown is known whenever the report of the     *)
(* year before was announced and the last sync was good: the window is     *)
(* wide enough for a report that is late, and its base is of that report.   *)
LatestHasItsYear ==
    syncMeta.status = "ok" /\ syncMeta.periods > 0 /\ ShownSnapshot > Year =>
        snapshots[ShownSnapshot].growth /= NoGrowth

(* Growth that is shown is never made of figures that have been replaced:   *)
(* both of its sides are the reports stored, however they were restated     *)
(* and although old periods leave the window one by one.  (A period whose  *)
(* year before has left the window loses its growth instead.)               *)
GrowthIsNeverStale ==
    \A p \in Stored :
        /\ snapshots[p].version = reports[p]
        /\ snapshots[p].growth /= NoGrowth => snapshots[p].growth = <<reports[p], reports[p - Year]>>

(* A period that is over has its disclosure dated, if it was not the annual *)
(* one: the job asks for one period at a time and never returns to it.      *)
PastIsDisclosed ==
    \A p \in Periods : p < period /\ ~Annual(p) => disclosures[p] = "disclosed"

(* What is shown of a company's reports is of the reports that are stored,  *)
(* and as much as was announced: see the three parts.                       *)
FinancialsAreCurrent == FinTypeOK /\ LatestHasItsYear /\ GrowthIsNeverStale /\ PastIsDisclosed

=============================================================================
