---------------------------- MODULE TeamScoring -----------------------------
(***************************************************************************)
(* The rule scores of the team analysis.  The state is what was prefetched *)
(* about one stock: a step is a day on which one fact moved, or one more   *)
(* closing price came in.  A fact that could not be had is Unknown.        *)
(***************************************************************************)
EXTENDS Integers, Sequences

CONSTANTS FactValues,   \* fact |-> the values TLC tries, around the rules' thresholds
          Prices,       \* the closing prices it tries
          MaxCloses,    \* bound: how many of them
          Unknown

VARIABLES facts, closes, block   \* block: the analyst whose facts move

teamFacts == <<facts, closes, block>>

Financial == {"pe", "pb", "mv", "financialError"}
Risk == {"riskError", "vol", "dd", "ret60", "fearGreed"}
Strategy == {"alignment", "signal", "period", "stage", "allowNew"}
\* The facts that are numbers.
NumericFacts == {"pe", "pb", "mv", "vol", "dd", "ret60", "fearGreed", "period"}

ASSUME FactsAssumption ==
    /\ \A f \in NumericFacts : FactValues[f] \subseteq Int
    /\ Prices \subseteq Nat

BlockFacts == [financial |-> Financial, risk |-> Risk, strategy |-> Strategy, bars |-> {}]

Known(f) == facts[f] /= Unknown
If(cond, points) == IF cond THEN points ELSE 0
Clamp(score) == IF score < 0 THEN 0 ELSE IF score > 100 THEN 100 ELSE score

FactsInit ==
    /\ block \in DOMAIN BlockFacts /\ closes = <<>>
    /\ facts = [f \in Financial \cup Risk \cup Strategy |-> Unknown]

----------------------------------------------------------------------------
\* Points the valuation adds, and whether a highlight or a risk comes with them.
PePoints == If(Known("pe") /\ facts["pe"] < 20, 12) - If(Known("pe") /\ facts["pe"] > 50, 10)
PbPoints == If(Known("pb") /\ facts["pb"] < 2, 5) - If(Known("pb") /\ facts["pb"] > 8, 5)
MvPoints == If(Known("mv") /\ facts["mv"] >= 200, 5) - If(Known("mv") /\ facts["mv"] < 30, 5)

\* A low PB scores without a highlight of its own.
FinancialRemarks == PePoints /= 0 \/ PbPoints < 0 \/ MvPoints /= 0

\* Mutant: a high PB is praised.
FinancialScorePraised ==
    IF facts["financialError"] = TRUE THEN 40 ELSE IF ~FinancialRemarks THEN 50 ELSE Clamp(50 + PePoints - PbPoints + MvPoints)

\* Without the data the block scores 40; without a highlight or a risk the block counts as "limited data".
FinancialScore ==
    IF facts["financialError"] = TRUE THEN 40 ELSE IF ~FinancialRemarks THEN 50 ELSE Clamp(50 + PePoints + PbPoints + MvPoints)

VolPoints == If(Known("vol") /\ facts["vol"] < 25, 15) - If(Known("vol") /\ facts["vol"] > 40, 15)
DrawdownPoints == If(Known("dd") /\ facts["dd"] < 20, 10) - If(Known("dd") /\ facts["dd"] > 35, 15)
ReturnPoints == If(Known("ret60") /\ facts["ret60"] >= 10, 5) - If(Known("ret60") /\ facts["ret60"] <= -15, 10)
MoodPoints == If(Known("fearGreed") /\ facts["fearGreed"] <= 25, 5) - If(Known("fearGreed") /\ facts["fearGreed"] >= 75, 5)

RiskScore ==
    IF facts["riskError"] = TRUE THEN 40
    ELSE Clamp(60 + VolPoints + DrawdownPoints + ReturnPoints + MoodPoints)

AlignmentPoints == If(facts["alignment"] = "bull", 20) - If(facts["alignment"] = "bear", 15)
SignalPoints == If(facts["signal"] = "buy", 15) - If(facts["signal"] = "sell", 15)
PeriodPoints == If(Known("period") /\ facts["period"] >= 5, 5)
StagePoints == If(facts["stage"] \in {"startup", "climax"}, 5)
               - If(facts["stage"] = "recession", 20) - If(facts["stage"] = "ice", 12)
HoldBackPoints == If(facts["allowNew"] = FALSE, 8)

StrategyScore == Clamp(50 + AlignmentPoints + SignalPoints + PeriodPoints + StagePoints - HoldBackPoints)

\* In tenths of a point: 0.4, 0.3 and 0.3 of the three scores.
Weighted == 4 * FinancialScore + 3 * RiskScore + 3 * StrategyScore

----------------------------------------------------------------------------
(* What is computed from the closes.                                       *)

\* The fall from a peak, in hundredths of a percent; from a peak of zero none.
Fall(peak, close) == IF peak > 0 THEN ((peak - close) * 10000) \div peak ELSE 0

\* With fewer closes there is no drawdown.
FewestCloses == 5

\* A close is added to the highest one so far and to the worst fall so far.
Seen(before, close) ==
    LET peak == IF close > before.peak THEN close ELSE before.peak
        fall == Fall(peak, close)
    IN  [peak |-> peak, worst |-> IF fall > before.worst THEN fall ELSE before.worst]

\* One pass over the closes.
Drawdown(seq) ==
    LET run[i \in 0..Len(seq)] == IF i = 0 THEN [peak |-> seq[1], worst |-> 0] ELSE Seen(run[i-1], seq[i])
    IN  run[Len(seq)].worst

----------------------------------------------------------------------------
FactMoves(f) ==
    /\ f \in BlockFacts[block]
    /\ \E v \in FactValues[f] \cup {Unknown} : v /= facts[f] /\ facts' = [facts EXCEPT ![f] = v]
    /\ UNCHANGED <<closes, block>>

NewClose ==
    /\ block = "bars" /\ Len(closes) < MaxCloses
    /\ \E p \in Prices : closes' = Append(closes, p)
    /\ UNCHANGED <<facts, block>>

FactsNext == (\E f \in DOMAIN facts : FactMoves(f)) \/ NewClose
FactsSpec == FactsInit /\ [][FactsNext]_teamFacts

----------------------------------------------------------------------------
\* The facts of which less is better, and the orders of the named ones.
LessIsBetter == {"pe", "pb", "vol", "dd", "fearGreed"}
Ranked ==
    [alignment |-> <<"bear", "mixed", "bull">>, signal |-> <<"sell", "hold", "buy">>,
     stage |-> <<"recession", "ice", "chaos", "startup">>, allowNew |-> <<FALSE, TRUE>>]

BetterFact(f, x, y) ==
    /\ x /= Unknown /\ y /= Unknown /\ f \notin {"financialError", "riskError"}
    /\ IF f \in DOMAIN Ranked
       THEN \E i, j \in DOMAIN Ranked[f] : i < j /\ Ranked[f][i] = x /\ Ranked[f][j] = y
       ELSE IF f \in LessIsBetter THEN y < x ELSE y > x

\* When one fact moves for the better, neither the analyst's score nor the
\* weighted one falls: no threshold is the wrong way round, and a block that
\* stops being "limited data" does not lose by it.
BetterFactsScoreNoLess ==
    [][\A f \in DOMAIN facts : BetterFact(f, facts[f], facts'[f]) => Weighted' >= Weighted]_teamFacts

\* The drawdown found in one pass is the worst fall from any close to a later one.
DrawdownIsWorstFall ==
    Len(closes) >= FewestCloses =>
        /\ \A i, j \in DOMAIN closes : i <= j => Fall(closes[i], closes[j]) <= Drawdown(closes)
        /\ Drawdown(closes) = 0 \/ \E i, j \in DOMAIN closes : i < j /\ Drawdown(closes) = Fall(closes[i], closes[j])

\* The score of an analysis follows the facts, and the drawdown among them is
\* that of the closes: see the two parts (score_financial, score_risk,
\* score_strategy, compute_team_scores, _volatility_and_dd).
ScoresFollowTheFacts == BetterFactsScoreNoLess /\ []DrawdownIsWorstFall

=============================================================================
