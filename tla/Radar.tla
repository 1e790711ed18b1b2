------------------------------- MODULE Radar -------------------------------
(* The radar: cards of stocks, synthesised from quotes and Postgres or read *)
(* from the snapshot the warming job wrote, the resonance of a stock across *)
(* cards with the weights of the user, and the outlook job that writes the  *)
(* two cached boards, the horizon and then the prediction                   *)
(* (domains/radar, services/ops/warm_radar.py, scan_horizon_outlook.py).    *)
EXTENDS Integers, FiniteSets

CONSTANTS
    Cards,          \* the cards
    RadarStocks,    \* natural numbers, in the order of their symbols
    CardWeights,    \* card -> default weight; 0 is not editable
    WeightMax,      \* 5
    Scenes,         \* what the cards show: [cards |-> card -> set of stocks, or NoCard, ...]
    Puts,           \* weights a user may send: functions on some of the cards
    MinCards,       \* MIN_CARDS
    TopN            \* TOP_N

ASSUME RadarAssumption ==
    /\ RadarStocks \subseteq Nat /\ IsFiniteSet(RadarStocks) /\ IsFiniteSet(Cards)
    /\ CardWeights \in [Cards -> Nat]
    /\ \A s \in Scenes : s.change \in [RadarStocks -> Int]
    /\ WeightMax \in Nat /\ MinCards \in Nat \ {0} /\ TopN \in Nat \ {0}

\* A synthesiser that returns None.
NoCard == {-1}

VARIABLES
    scene,      \* what the synthesisers would build now
    snapshot,   \* cache.radar_card_snapshot
    warmed,     \* the scene has not moved since the last warming (history)
    weights,    \* the stored weights of the user, a function on some cards
    scanning,   \* a scan is between its two commits
    horizon,    \* cache.radar_horizon_cache
    predict     \* cache.radar_predict_cache

radarVars == <<scene, snapshot, warmed, weights, scanning, horizon, predict>>

NoBoard == [written |-> FALSE, rows |-> <<>>, scanned |-> 0, excluded |-> 0]

-----------------------------------------------------------------------------
(* Cards.                                                                  *)

Shown(snap, s, c) == IF snap[c] # NoCard THEN snap[c] ELSE s.cards[c]

Warmed(snap, s) == [c \in Cards |-> IF s.cards[c] = NoCard THEN snap[c] ELSE s.cards[c]]

-----------------------------------------------------------------------------
(* Resonance.                                                              *)

Editable == {c \in Cards : CardWeights[c] > 0}

\* validate_put_weights and _editable_subset: what a user left out goes back
\* to its default.
Valid(put) == DOMAIN put \subseteq Editable /\ \A c \in DOMAIN put : put[c] \in 0..WeightMax
StoredOf(old, put) == [c \in Editable |-> IF c \in DOMAIN put THEN put[c] ELSE CardWeights[c]]

\* merge_weights
Merged(stored) == [c \in Cards |->
    IF c \in Editable /\ c \in DOMAIN stored THEN stored[c] ELSE CardWeights[c]]

Hits(w, snap, s, x) == {c \in Cards : w[c] > 0 /\ x \in Shown(snap, s, c)}

\* The sum of the weights of some cards, counted in points.
Weight(w, C) == Cardinality(UNION {{c} \X (1..w[c]) : c \in C})

Scored(w, snap, s) == [x \in RadarStocks |->
    [cards |-> Cardinality(Hits(w, snap, s, x)), score |-> Weight(w, Hits(w, snap, s, x))]]

Stronger(r, x, y) ==
    \/ r[x].score > r[y].score
    \/ r[x].score = r[y].score /\ r[x].cards > r[y].cards
    \/ r[x].score = r[y].score /\ r[x].cards = r[y].cards /\ x < y

Resonant(r) == {x \in RadarStocks : r[x].cards >= MinCards}

\* The TopN strongest of a set.
Strongest(r, S) == {x \in S : Cardinality({y \in S : Stronger(r, y, x)}) < TopN}
EntriesCutFirst(r) == Strongest(r, {x \in RadarStocks : r[x].cards > 0}) \cap Resonant(r)

Entries(r) == Strongest(r, Resonant(r))

\* resonance_scan_stats
Scanned(r) == Cardinality({x \in RadarStocks : r[x].cards > 0})
Excluded(r) == Cardinality({x \in RadarStocks : r[x].cards \in 1..(MinCards - 1)})

-----------------------------------------------------------------------------
(* score_predict_rows: points of a tenth.                                  *)

CardPoints(n) == IF n >= 4 THEN 10 ELSE IF n >= 3 THEN 5 ELSE 0
ChangePoints(cp) == IF cp >= 7 THEN 8 ELSE IF cp >= 3 THEN 4 ELSE IF cp < 0 THEN -5 ELSE 0

Prediction(r, s, x) ==
    r[x].score + CardPoints(r[x].cards) + ChangePoints(s.change[x])
    + (IF x \in s.sealed THEN 6 ELSE 0) + (IF x \in s.bars THEN 3 ELSE 0)

-----------------------------------------------------------------------------
RadarInit ==
    /\ scene \in Scenes
    /\ snapshot = [c \in Cards |-> NoCard] /\ warmed = FALSE
    /\ weights = <<>>
    /\ scanning = FALSE
    /\ horizon = NoBoard /\ predict = NoBoard

\* Environment: quotes, limit lists and bars move.
SceneMoves ==
    /\ scene' \in Scenes \ {scene} /\ warmed' = FALSE
    /\ UNCHANGED <<snapshot, weights, scanning, horizon, predict>>

Warm ==
    /\ snapshot' = Warmed(snapshot, scene) /\ warmed' = TRUE
    /\ UNCHANGED <<scene, weights, scanning, horizon, predict>>

\* save_user_weights: {} deletes the row.
PutWeights(put) ==
    /\ DOMAIN put # {} => Valid(put)
    /\ weights' = IF DOMAIN put = {} THEN <<>> ELSE StoredOf(weights, put)
    /\ UNCHANGED <<scene, snapshot, warmed, scanning, horizon, predict>>

\* scan_horizon_outlook, with the default weights, up to its first commit.
WriteHorizon ==
    /\ ~scanning /\ scanning' = TRUE
    /\ LET r == Scored(CardWeights, snapshot, scene)
       IN  horizon' = [written |-> TRUE, rows |-> [x \in Entries(r) |-> r[x]],
                       scanned |-> Scanned(r), excluded |-> Excluded(r)]
    /\ UNCHANGED <<scene, snapshot, warmed, weights, predict>>

\* The prediction over the rows just written, or a rollback that leaves the
\* prediction of an earlier scan.
WritePredict ==
    /\ scanning /\ scanning' = FALSE
    /\ predict' = [written |-> TRUE,
                   rows |-> [x \in DOMAIN horizon.rows |-> Prediction(horizon.rows, scene, x)],
                   scanned |-> Cardinality(DOMAIN horizon.rows), excluded |-> 0]
    /\ UNCHANGED <<scene, snapshot, warmed, weights, horizon>>

PredictFails ==
    /\ scanning /\ scanning' = FALSE
    /\ UNCHANGED <<scene, snapshot, warmed, weights, horizon, predict>>

RadarNext ==
    \/ SceneMoves \/ Warm
    \/ \E put \in Puts : PutWeights(put)
    \/ WriteHorizon \/ WritePredict \/ PredictFails

RadarSpec == RadarInit /\ [][RadarNext]_radarVars

-----------------------------------------------------------------------------
Board(w) == Scored(w, snapshot, scene)

\* After a warming, while nothing moved, the cards that a synthesiser builds are
\* shown as it builds them: no old row hides a new one.  (Where it builds none the
\* snapshot of an earlier day stays and is shown.)
WarmCardsAreFresh ==
    warmed => \A c \in Cards : scene.cards[c] # NoCard => Shown(snapshot, scene, c) = scene.cards[c]

\* With any weights, a stock left off the board resonates on too few cards
\* or is beaten by TopN others that do: the cut comes after the filter.
LeftOffIsWeaker == \A x \in RadarStocks :
    LET r == Board(Merged(weights))
    IN  x \notin Entries(r) =>
            \/ Cardinality(Hits(Merged(weights), snapshot, scene, x)) < MinCards
            \/ Cardinality({y \in Resonant(r) : Stronger(r, y, x)}) >= TopN

\* A card the user weighs with nothing lifts no stock onto the board.
WeightlessCardsAreSilent == \A x \in Entries(Board(Merged(weights))) :
    Cardinality({c \in Cards : Merged(weights)[c] > 0 /\ x \in Shown(snapshot, scene, c)}) >= MinCards

\* A falling stock is not predicted above one that differs by rising.
FallingPredictsLess == \A x, y \in DOMAIN horizon.rows :
    /\ horizon.rows[x] = horizon.rows[y]
    /\ (x \in scene.sealed <=> y \in scene.sealed) /\ (x \in scene.bars <=> y \in scene.bars)
    /\ scene.change[x] < scene.change[y]
    => Prediction(horizon.rows, scene, x) <= Prediction(horizon.rows, scene, y)

\* What the radar puts first is the best of what its cards show now: see the
\* four parts (list_radar_cards, compute_resonance, score_predict_rows).
BoardIsTheBest ==
    WarmCardsAreFresh /\ LeftOffIsWeaker /\ WeightlessCardsAreSilent /\ FallingPredictsLess

=============================================================================
