---------------------------- MODULE UserRecords ----------------------------
(* The records a handler reads, changes in memory and writes back whole:   *)
(* the signal panel of a user (domains/watchlist/signal_panel_repo.py), the *)
(* scheduler configuration (services/ops/scheduler.py), the factor weights  *)
(* of all of a user's recipes (domains/screener/recipe_weights.py), the     *)
(* memo on a stock and the daily discipline check (domains/content).        *)
(*                                                                          *)
(* Nothing locks a record between the read and the write. The rows of the   *)
(* last two are keyed by stock and by day alone (alembic/ddl/initial.py,    *)
(* 002_user_scope.py adds user_id as a plain column).                       *)
EXTENDS Naturals, Sequences

CONSTANTS
    Changes,      \* the requests of the run
    Asked,         \* request -> [kind, on, verb, who, what]
    PanelMax,      \* SIGNAL_PANEL_MAX_SYMBOLS
    OneEditor      \* TRUE: a request on a record starts when no other is in flight

ASSUME RecordsAssumption ==
    /\ PanelMax \in Nat \ {0}
    /\ OneEditor \in BOOLEAN
    /\ \A p, q \in Changes : Asked[p].on = Asked[q].on => Asked[p].kind = Asked[q].kind
    /\ \A q \in Changes : Asked[q].kind = "row" => Asked[q].verb = "write"

VARIABLES
    records,   \* record -> its value in the database
    stage,    \* request -> "idle", "read", "done" or "refused"
    seen      \* request -> the value it read

recordVars == <<records, stage, seen>>

Records == {Asked[q].on : q \in Changes}
KindOf(r) == Asked[CHOOSE q \in Changes : Asked[q].on = r].kind
RecordOf(q) == Asked[q].on

NoRow == [who |-> "nobody", what |-> "nothing"]

\* An absent blob reads as an empty one.
Empty(kind) ==
    CASE kind = "panel" -> <<>>
      [] kind = "row" -> NoRow
      [] OTHER -> {}

InitialRecords == [r \in Records |-> Empty(KindOf(r))]

-----------------------------------------------------------------------------
(* What a request makes of the value it read.                              *)

Members(s) == {s[i] : i \in DOMAIN s}

\* normalize_symbols: the first PanelMax different ones, in their order.
Normalized(s) ==
    LET kept[n \in 0..Len(s)] ==
            IF n = 0 THEN <<>>
            ELSE IF Len(kept[n-1]) >= PanelMax \/ s[n] \in Members(kept[n-1])
                 THEN kept[n-1]
                 ELSE Append(kept[n-1], s[n])
    IN  kept[Len(s)]

\* add_symbol and remove_symbol.
Added(x, panel) == IF x \in Members(panel) THEN panel ELSE Normalized(Append(panel, x))
Without(x, panel) == Normalized(SelectSeq(panel, LAMBDA y : y # x))

\* A blob is a set of <<key, value>>: one key is set, the others are copied.
SetKey(key, value, blob) == {e \in blob : e[1] # key} \cup {<<key, value>>}
DropKey(key, blob) == {e \in blob : e[1] # key}

Edited(e, v) ==
    CASE e.verb = "add" -> Added(e.what, v)
      [] e.verb = "remove" -> Without(e.what, v)
      [] e.verb = "replace" -> Normalized(e.what)
      [] e.verb = "reset" -> DropKey(e.what, v)
      [] e.verb = "set" -> SetKey(e.what[1], e.what[2], v)
      [] e.verb = "write" -> [who |-> e.who, what |-> e.what]

Apply(q, v) == Edited(Asked[q], v)

\* A full panel, a stock that is not on it.
Refuses(e, v) ==
    \/ e.verb = "add" /\ e.what \notin Members(v) /\ Len(v) >= PanelMax
    \/ e.verb = "remove" /\ e.what \notin Members(v)

Refuse(q) == stage' = [stage EXCEPT ![q] = "refused"] /\ UNCHANGED <<records, seen>>

Store(q, v) ==
    /\ records' = [records EXCEPT ![RecordOf(q)] = v]
    /\ stage' = [stage EXCEPT ![q] = "done"]
    /\ UNCHANGED seen

-----------------------------------------------------------------------------
InFlight(r) == {q \in Changes : RecordOf(q) = r /\ stage[q] = "read"}

LatestCached(q) == InitialRecords[RecordOf(q)]

\* load_symbols, load_scheduler_config, _load_stored_blob, the SELECT of a row.
Latest(q) == records[RecordOf(q)]

Read(q) ==
    /\ stage[q] = "idle"
    /\ OneEditor => InFlight(RecordOf(q)) = {}
    /\ seen' = [seen EXCEPT ![q] = Latest(q)]
    /\ stage' = [stage EXCEPT ![q] = "read"]
    /\ UNCHANGED records

\* save_symbols, save_scheduler_config, save_recipe_weights: the whole value.
WriteBlob(q) ==
    /\ stage[q] = "read" /\ Asked[q].kind # "row"
    /\ IF Refuses(Asked[q], seen[q]) THEN Refuse(q)
       ELSE Store(q, Apply(q, seen[q]))

\* The SELECT asks for the user's own row.
Mine(q) == seen[q] # NoRow /\ seen[q].who = Asked[q].who

\* upsert_memo, set_discipline: an UPDATE of the row it found.
UpdateRow(q) ==
    /\ stage[q] = "read" /\ Asked[q].kind = "row"
    /\ Mine(q)
    /\ Store(q, [who |-> seen[q].who, what |-> Asked[q].what])

\* Or an INSERT, which the primary key refuses when any user has a row there.
InsertRow(q) ==
    /\ stage[q] = "read" /\ Asked[q].kind = "row"
    /\ ~Mine(q)
    /\ IF records[RecordOf(q)] # NoRow THEN Refuse(q)
       ELSE Store(q, [who |-> Asked[q].who, what |-> Asked[q].what])

-----------------------------------------------------------------------------
RecordsInit ==
    /\ records = InitialRecords
    /\ stage = [q \in Changes |-> "idle"]
    /\ seen = [q \in Changes |-> Latest(q)]
RecordsNext == \E q \in Changes :
    Read(q) \/ WriteBlob(q) \/ UpdateRow(q) \/ InsertRow(q)
RecordsSpec == RecordsInit /\ [][RecordsNext]_recordVars

-----------------------------------------------------------------------------
Atomic == INSTANCE AtomicEdits WITH
    Edits <- Changes, Record <- RecordOf, Apply <- Apply, Initial <- InitialRecords,
    answered <- {q \in Changes : stage[q] = "done"}

\* Every request that is answered took effect on the value the record had
\* then, and on that record alone: no edit of another request is undone, no
\* user writes the row of another (read-modify-write of the five handlers).
EditsAreAtomic == Atomic!AtomicSpec
=============================================================================
