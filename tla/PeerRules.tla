------------------------------ MODULE PeerRules ------------------------------
(***************************************************************************)
(* The screen for stocks like a reference stock: the stocks of its         *)
(* industry, scored by how near their valuation, their changes over 5 and  *)
(* 20 days and their turnover are to its own, filtered and cut.  Figures   *)
(* come from Tushare (external).  Price-earnings ratio and capitalisation  *)
(* are given by 100 times their logarithm, 0 for a value that is missing or *)
(* not positive; scores are in tenths of a point.                          *)
(***************************************************************************)
EXTENDS Integers, Sequences, Functions, Listings

CONSTANTS Peers,         \* 1..n: Tushare's rows in their order, the reference is row 0
          Figures,       \* the figures TLC tries, see FigureFields
          WeightSets,    \* the overrides a request may carry
          PeerDays,      \* days of the short and of the long momentum
          MinSize,       \* logarithm of the capitalisation the filter asks for
          PeerTop        \* top_n

FigureFields == {"industry", "redis", "pe", "size", "turnover", "days", "st", "suspended"}
Factors == {"industry", "valuation", "short", "long", "turnover"}

ASSUME PeerAssumption ==
    /\ Peers \subseteq Nat \ {0} /\ IsFiniteSet(Peers) /\ PeerTop \in Nat \ {0} /\ MinSize \in Nat
    /\ PeerDays.short \in Nat /\ PeerDays.long \in Nat
    /\ \A f \in Figures :
          DOMAIN f = FigureFields /\ {f.pe, f.size, f.turnover} \subseteq Int /\ f.days \in Seq(Int)
    /\ \A w \in WeightSets : DOMAIN w \subseteq Factors /\ \A k \in DOMAIN w : w[k] \in Int

VARIABLES figures,   \* row |-> its figures, 0 for the reference
          override,  \* the weights of the request
          peerRun    \* how the screen ended, and its rows

peerVars == <<figures, override, peerRun>>

Distance(a, b) == IF a < b THEN b - a ELSE a - b
AtMost(x, top) == IF x < top THEN x ELSE top

\* valuation_score: the mean distance of what both sides have, neutral without.
BothHave(k, q, ref) == q[k] > 0 /\ ref[k] > 0
Apart(k, q, ref) == AtMost(Distance(q[k], ref[k]), 200)
ValuationScore(q, ref) ==
    LET pe == BothHave("pe", q, ref)
        size == BothHave("size", q, ref)
    IN  CASE pe /\ size  -> 1000 - ((Apart("pe", q, ref) + Apart("size", q, ref)) * 5) \div 2
          [] pe /\ ~size -> 1000 - Apart("pe", q, ref) * 5
          [] ~pe /\ size -> 1000 - Apart("size", q, ref) * 5
          [] OTHER       -> 500

\* cumulative_return: the compounded change of the first days, in 1/100 %.
Whole == 10000
Compounded(worth, pct) == (worth * (100 + pct)) \div 100
CumulativeReturn(q, n) ==
    LET worth[i \in 0..AtMost(Len(q.days), n)] == IF i = 0 THEN Whole ELSE Compounded(worth[i-1], q.days[i])
    IN  worth[AtMost(Len(q.days), n)] - Whole

\* Mutant: a stock that rose more is no further away.
MomentumScoreOneSided(q, ref, n) ==
    LET gap == CumulativeReturn(ref, n) - CumulativeReturn(q, n)
    IN  1000 - AtMost(IF gap < 0 THEN 0 ELSE gap, 4000) \div 4

\* momentum_score: 40 points of difference are as far as it goes.
MomentumScore(q, ref, n) ==
    1000 - AtMost(Distance(CumulativeReturn(q, n), CumulativeReturn(ref, n)), 4000) \div 4

\* turnover_score: 20 points of difference; neutral when a side is missing.
TurnoverScore(q, ref) ==
    IF q.turnover <= 0 \/ ref.turnover <= 0 THEN 500
    ELSE 1000 - 50 * AtMost(Distance(q.turnover, ref.turnover), 20)

DefaultWeights == [k \in Factors |-> CASE k = "industry" -> 30 [] k = "valuation" -> 25 [] OTHER -> 15]

OverFactors(of) == of["industry"] + of["valuation"] + of["short"] + of["long"] + of["turnover"]

\* resolve_weights: the defaults with the request's on top; they are divided by
\* their sum, and are the defaults when that is not positive.
Weights ==
    LET merged == [k \in Factors |-> IF k \in DOMAIN override THEN override[k] ELSE DefaultWeights[k]]
    IN  IF OverFactors(merged) > 0 THEN merged ELSE DefaultWeights
TotalWeight == OverFactors(Weights)

\* How near a row is to the reference; every peer is of its industry.
Nearness(q, ref) ==
    [k \in Factors |-> CASE k = "industry" -> 1000
                         [] k = "valuation" -> ValuationScore(q, ref)
                         [] k = "short" -> MomentumScore(q, ref, PeerDays.short)
                         [] k = "long" -> MomentumScore(q, ref, PeerDays.long)
                         [] k = "turnover" -> TurnoverScore(q, ref)]

\* composite_similarity
Similarity(q) ==
    LET near == Nearness(q, figures[0])
    IN  OverFactors([k \in Factors |-> Weights[k] * near[k]]) \div TotalWeight

\* The reference's industry, from Redis when Tushare names none.
RefIndustry == IF figures[0].industry /= "" THEN figures[0].industry ELSE figures[0].redis

\* The candidates: Tushare's rows of that industry.
Candidates == {p \in Peers : figures[p].industry = RefIndustry}

\* apply_hard_filters on rows of the daily basics, which bring no amount and no
\* boards: only the name, the suspension and the size can refuse one.
PeerPasses(p) ==
    /\ ~figures[p].st /\ ~figures[p].suspended
    /\ figures[p].size = 0 \/ figures[p].size >= MinSize

\* Best first, equals in the order of Tushare's rows.
Better(p, r) ==
    \/ Similarity(figures[p]) > Similarity(figures[r])
    \/ Similarity(figures[p]) = Similarity(figures[r]) /\ p < r
Ahead == {e \in Candidates \X Candidates : Better(e[1], e[2])}

\* What passes the filters, in that order, and cut.
Ranking ==
    LET passing == {p \in Candidates : PeerPasses(p)}
    IN  [k \in 1..AtMost(Cardinality(passing), PeerTop) |-> Listing(passing, Ahead)[k]]

NotRun == [rows |-> <<>>, state |-> "not run"]

PeerTypeOK ==
    /\ figures \in [Peers \cup {0} -> Figures] /\ override \in WeightSets
    /\ Range(peerRun.rows) \subseteq Peers

PeerInit ==
    /\ figures \in [Peers \cup {0} -> Figures] /\ override \in WeightSets
    /\ peerRun = NotRun

\* run_reference_peer: refused without an industry; without a candidate it ends early.
RunReferencePeer ==
    /\ peerRun.state = "not run"
    /\ \/ RefIndustry = "" /\ peerRun' = [NotRun EXCEPT !.state = "refused"]
       \/ /\ RefIndustry /= "" /\ Candidates = {}
          /\ peerRun' = [NotRun EXCEPT !.state = "no peers"]
       \/ /\ RefIndustry /= "" /\ Candidates /= {}
          /\ peerRun' = [state |-> "run", rows |-> Ranking]
    /\ UNCHANGED <<figures, override>>

PeerSpec == PeerInit /\ [][RunReferencePeer]_peerVars

----------------------------------------------------------------------------
Ran == peerRun.state = "run"
OnList == Range(peerRun.rows)

\* The figures that are compared are the same, missing ones included.
Twin(p) == \A k \in {"pe", "size", "turnover", "days"} : figures[p][k] = figures[0][k]

(* A stock whose figures are the reference's own is never beaten: nothing   *)
(* shown is more similar to the reference, and it is only left out by the   *)
(* filters or for others just as similar - whatever the request weighs,    *)
(* whatever figures are missing.                                           *)
TwinIsNeverBeaten ==
    Ran => \A t \in Candidates : Twin(t) =>
        \A p \in OnList :
            /\ Similarity(figures[p]) <= Similarity(figures[t])
            /\ PeerPasses(t) /\ t \notin OnList => Similarity(figures[p]) = Similarity(figures[t])

Complete(p) == figures[p].pe > 0 /\ figures[p].size > 0 /\ figures[p].turnover > 0
Closer(p, r) ==
    /\ \A k \in {"pe", "size", "turnover"} : Distance(figures[p][k], figures[0][k]) <= Distance(figures[r][k], figures[0][k])
    /\ \A n \in {PeerDays.short, PeerDays.long} :
           Distance(CumulativeReturn(figures[p], n), CumulativeReturn(figures[0], n))
               <= Distance(CumulativeReturn(figures[r], n), CumulativeReturn(figures[0], n))

(* Of two peers with all their figures, the one that is no further from     *)
(* the reference in any of them is not shown after the other, and is not   *)
(* left out for it by anything but the filters.                            *)
CloserComesFirst ==
    Ran => \A p, r \in Candidates :
        Complete(0) /\ Complete(p) /\ Complete(r) /\ Closer(p, r) /\ PeerPasses(p) /\ r \in OnList =>
            \/ Similarity(figures[p]) = Similarity(figures[r])
            \/ \E i, j \in DOMAIN peerRun.rows : peerRun.rows[i] = p /\ peerRun.rows[j] = r /\ i < j

(* The peers shown are the ones most like the reference: see the two parts. *)
PeersAreTheClosest == PeerTypeOK /\ TwinIsNeverBeaten /\ CloserComesFirst

=============================================================================
