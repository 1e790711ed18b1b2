---------------------------- MODULE ScreenRules -----------------------------
(***************************************************************************)
(* The screener: from the ranks of the last snapshot (or the daily basics  *)
(* of Tushare, external) to a list of stocks.  A screen takes a pool off a *)
(* rank, keeps what the rule asks for, orders it, applies the hard filters *)
(* and cuts the list.  Amounts are integers in the units of the code's     *)
(* thresholds and factors are in thousandths.                              *)
(***************************************************************************)
EXTENDS Integers, Sequences, FiniteSetsExt, Listings

CONSTANTS Stocks,        \* 1..n, in the order of their symbols
          QuoteShapes,   \* the quotes TLC tries, see QuoteFields
          PoolSize,      \* stocks taken off a rank
          TopN,
          FewSealed,     \* with fewer stocks at the limit the change rank is taken
          NameLimit      \* rows whose name is read from Redis when Tushare gave none

QuoteFields == {"change", "limit", "turnover", "ratio", "amount", "flow", "mv", "pe",
                "industry", "st", "suspended", "oneWord", "seal"}

ASSUME ScreenAssumption ==
    /\ Stocks \in SUBSET Nat /\ IsFiniteSet(Stocks)
    /\ PoolSize \in Nat \ {0} /\ TopN \in Nat \ {0} /\ NameLimit \in Nat /\ FewSealed \in Nat
    /\ \A q \in QuoteShapes :
          /\ DOMAIN q = QuoteFields
          /\ \A f \in {"change", "limit", "turnover", "ratio", "amount", "flow", "mv", "pe"} : q[f] \in Int
          /\ q.seal \in Nat
          /\ {q.st, q.suspended, q.oneWord} \subseteq BOOLEAN

VARIABLES market,        \* the quote of every stock
          result         \* the last screen: what was asked, the pool and the rows

screenVars == <<market, result>>

----------------------------------------------------------------------------
(* Helpers.                                                                *)

Clamp(x, top) == IF x < 0 THEN 0 ELSE IF x > top THEN top ELSE x

\* Greatest key first; of equal keys the one with the smaller tie.
ByKey(S, key, tie) ==
    {p \in S \X S : key[p[1]] > key[p[2]] \/ (key[p[1]] = key[p[2]] /\ tie[p[1]] < tie[p[2]])}

\* A stable sort of a list of stocks.
SortBy(list, key) ==
    LET places == DOMAIN list
        place == Listing(places, ByKey(places, [i \in places |-> key[list[i]]], [i \in places |-> i]))
    IN  [k \in 1..Cardinality(places) |-> list[place[k]]]

\* What stands in some places of a list, in the order of the list.
Selected(list, places) ==
    LET place == Listing(places, {p \in places \X places : p[1] < p[2]})
    IN  [k \in 1..Cardinality(places) |-> list[place[k]]]

\* list[:n]
Take(list, n) == [k \in 1..(IF n < Len(list) THEN n ELSE Len(list)) |-> list[k]]

\* load_ranked_quotes: the head of the rank of some stocks; equal scores come
\* greatest symbol first.
Ranked(members, field) ==
    Take(Listing(members, ByKey(members, [s \in members |-> market[s][field]], [s \in members |-> 0 - s])), PoolSize)

Change(s) == market[s].change
Turnover(s) == market[s].turnover
Ratio(s) == market[s].ratio
Amount(s) == market[s].amount
Flow(s) == market[s].flow
Limit(s) == market[s].limit
Worth(s) == market[s].mv
CheapFirst(s) == 0 - market[s].pe

\* The collector puts a stock on three of the ranks only when it has the value.
OnRatio == {s \in Stocks : Ratio(s) > 0}
OnFlow == {s \in Stocks : Flow(s) /= 0}
OnLimit == {s \in Stocks : Limit(s) >= 1}

----------------------------------------------------------------------------
(* Hard filters.  A value the quote lacks (0) refuses nobody.              *)

\* Amounts in 10 000 yuan and capitalisation in 100 million.
Templates(t) ==
    CASE t = "conservative" -> [amount |-> 5000, mv |-> 100, boards |-> TRUE]
      [] t = "balanced"     -> [amount |-> 3000, mv |-> 50, boards |-> FALSE]
      [] t = "aggressive"   -> [amount |-> 500, mv |-> 20, boards |-> FALSE]

TemplateNames == {"conservative", "balanced", "aggressive"}

TooSmall(x, bound) == x > 0 /\ x < bound

\* apply_hard_filters with a template; named says whether the row has its name.
Passes(s, t, named) ==
    LET q == market[s]
        prefs == Templates(t)
    IN  /\ ~(named /\ q.st) /\ ~q.suspended
        /\ ~(prefs.boards /\ q.limit >= 2)
        /\ ~TooSmall(q.amount, prefs.amount) /\ ~TooSmall(q.mv, prefs.mv)

----------------------------------------------------------------------------
(* Condition presets.                                                      *)

Presets == {"change_top", "strong_up", "turnover", "volume_ratio", "limit_up", "moneyflow_in",
            "low_pe", "large_cap"}
FromTushare == {"low_pe", "large_cap"}

Sealed(s) == Limit(s) >= 1 \/ Change(s) >= 95

Rule(kind, s) ==
    CASE kind = "strong_up"    -> Change(s) >= 50
      [] kind = "limit_up"     -> Sealed(s)
      [] kind = "moneyflow_in" -> Flow(s) > 0
      [] kind = "low_pe"       -> market[s].pe > 0 /\ market[s].pe < 15
      [] kind = "large_cap"    -> Worth(s) >= 50
      [] kind = "theme_hot"    -> Change(s) >= 20 /\ Turnover(s) >= 30
      [] OTHER                 -> TRUE

\* Limit-ups are ordered by boards, then by change.
SealedKey(s) == Limit(s) * 1000 + Change(s)
HeatKey(s) == Turnover(s) * Change(s)

\* Tushare's rows are sorted; its order of equal ones, that of the symbols, stays.
TushareRows(key) == Listing(Stocks, ByKey(Stocks, key, [s \in Stocks |-> s]))

\* The pool of a preset, in the order of its rank or of Tushare's rows.
PresetPool(kind) ==
    CASE kind = "turnover"     -> Ranked(Stocks, "turnover")
      [] kind = "volume_ratio" -> Ranked(OnRatio, "ratio")
      [] kind = "limit_up"     -> IF OnLimit = {} THEN Ranked(Stocks, "change") ELSE Ranked(OnLimit, "limit")
      [] kind = "moneyflow_in" -> Ranked(OnFlow, "flow")
      [] kind = "low_pe"       -> TushareRows([s \in Stocks |-> CheapFirst(s)])
      [] kind = "large_cap"    -> TushareRows([s \in Stocks |-> Worth(s)])
      [] OTHER                 -> Ranked(Stocks, "change")

\* What the rule keeps, in the order of the screen.
Kept(kind, pool) ==
    LET kept == Selected(pool, {i \in DOMAIN pool : Rule(kind, pool[i])})
    IN  CASE kind = "limit_up"  -> SortBy(kept, [s \in Stocks |-> SealedKey(s)])
          [] kind = "theme_hot" -> SortBy(kept, [s \in Stocks |-> HeatKey(s)])
          [] OTHER -> kept

\* Mutant: the list is cut before the filters.
FilteredAfterCut(list, t, named) ==
    LET head == Take(list, TopN) IN Selected(head, {i \in DOMAIN head : Passes(head[i], t, TRUE)})

\* The filters, then the cut; only the first rows of a Tushare list have a name.
Filtered(list, t, named) == Take(Selected(list, {i \in DOMAIN list : Passes(list[i], t, i <= named)}), TopN)

----------------------------------------------------------------------------
(* Recipes: weighted factors.                                              *)

Recipes == {"intraday_multi", "ultra_short_unified", "post_close_multi"}

\* Cheap is good; without a price-earnings ratio size stands in, at half.
Valuation(q) == IF q.pe > 0 THEN Clamp((40 - q.pe) * 25, 1000) ELSE Clamp(q.mv * 10, 1000) \div 2

Momentum(q, full) == Clamp((q.change * 1000) \div full, 1000)
Activity(q, full) == Clamp((q.turnover * 1000) \div full, 1000)

ScoreOf(recipe, q) ==
    CASE recipe = "intraday_multi" ->
            35 * Momentum(q, 100) + 25 * Activity(q, 150) + 25 * Clamp(q.ratio * 20, 1000)
            + 15 * Clamp(q.amount \div 50, 1000)
      [] recipe = "ultra_short_unified" ->
            40 * Clamp((q.limit * 1000) \div 3, 1000) + 35 * Momentum(q, 100) + 25 * Activity(q, 200)
      [] recipe = "post_close_multi" ->
            40 * Clamp(q.flow \div 5, 1000) + 30 * Momentum(q, 80) + 20 * Activity(q, 120) + 10 * Valuation(q)

\* The rows of a recipe come from Redis, whose quotes have no price-earnings ratio.
RecipeScore(recipe, s) == ScoreOf(recipe, [market[s] EXCEPT !.pe = 0])

\* The pool of a recipe: money flow after the close if there is any, change otherwise.
RecipePool(recipe) ==
    LET flow == Ranked(OnFlow, "flow")
    IN  IF recipe = "post_close_multi" /\ \E i \in DOMAIN flow : Flow(flow[i]) > 0
        THEN flow ELSE Ranked(Stocks, "change")

----------------------------------------------------------------------------
(* Leaders: the strongest of each industry.                                *)

FollowerMin == 35000

SealQuality(q) ==
    IF q.limit < 1 /\ q.change < 95 THEN Clamp(q.change * 6, 1000)
    ELSE IF q.oneWord THEN 250
    ELSE IF q.amount >= 50000 THEN 1000 ELSE IF q.amount >= 10000 THEN 750
    ELSE IF q.amount >= 5000 THEN 550 ELSE 400

\* Where a stock stands in its pool: those with no more amount, those of its industry.
AmountRank(pool, s) == Cardinality({i \in DOMAIN pool : Amount(pool[i]) <= Amount(s)})
SectorSize(pool, s) == Cardinality({i \in DOMAIN pool : market[pool[i]].industry = market[s].industry})

StrongestFlow(pool) == Max({IF Flow(pool[i]) < 0 THEN 0 - Flow(pool[i]) ELSE Flow(pool[i]) : i \in DOMAIN pool})
LargestSector(pool) == Max({SectorSize(pool, pool[i]) : i \in DOMAIN pool})

\* compute_leader_score, relative to the pool.
LeaderScore(pool, s) ==
    LET q == market[s]
        strongest == StrongestFlow(pool)
    IN  28 * (IF q.limit = 0 THEN 200 ELSE Clamp(q.limit * 200, 1000))
        + 16 * SealQuality(q)
        + 16 * (IF q.amount <= 0 THEN 0 ELSE (AmountRank(pool, s) * 1000) \div Len(pool))
        + 12 * q.seal
        + 15 * (IF strongest = 0 \/ q.flow <= 0 THEN 0 ELSE (q.flow * 1000) \div strongest)
        + 13 * ((SectorSize(pool, s) * 1000) \div LargestSector(pool))

Industries(pool) == {market[pool[i]].industry : i \in DOMAIN pool}

\* The places of an industry in the pool, and their order, best score first.
Group(pool, industry) == {i \in DOMAIN pool : market[pool[i]].industry = industry}
InGroup(pool, industry) ==
    LET group == Group(pool, industry)
    IN  ByKey(group, [i \in group |-> LeaderScore(pool, pool[i])], [i \in group |-> i])

\* _tier_for_index: two dragons, then followers whose score is good enough.
Tier(index, score) == IF index = 1 THEN "dragon_1" ELSE IF index = 2 THEN "dragon_2"
                      ELSE IF index <= 5 /\ score >= FollowerMin THEN "follower" ELSE "none"

TierOf(pool, i) ==
    LET industry == market[pool[i]].industry
    IN  Tier(Cardinality(Earlier(Group(pool, industry), InGroup(pool, industry), i)) + 1, LeaderScore(pool, pool[i]))

\* Industries by their best stock; equal ones, which Python leaves in no certain
\* order, as they come in the pool.
Best(pool, industry) == Max({LeaderScore(pool, pool[i]) : i \in Group(pool, industry)})
IndustryOrder(pool) ==
    ByKey(Industries(pool), [x \in Industries(pool) |-> Best(pool, x)], [x \in Industries(pool) |-> Min(Group(pool, x))])

\* rank_leader_pool: industry after industry by their best stock; the main line takes
\* only the industries with two stocks or more, when there are any.
Leaders(pool, mainline, noFollowers) ==
    LET strong == {x \in Industries(pool) : x /= "unknown" /\ Cardinality(Group(pool, x)) >= 2}
        chosen == IF mainline /\ strong /= {} THEN strong ELSE Industries(pool)
        industry(i) == market[pool[i]].industry
        places == {i \in DOMAIN pool : /\ industry(i) \in chosen /\ TierOf(pool, i) /= "none"
                                       /\ ~(noFollowers /\ TierOf(pool, i) = "follower")}
        first == IndustryOrder(pool)
        order == {p \in places \X places : \/ <<industry(p[1]), industry(p[2])>> \in first
                                           \/ p \in InGroup(pool, industry(p[1]))}
        place == Listing(places, order)
    IN  Take([k \in 1..Cardinality(places) |-> [stock |-> pool[place[k]], tier |-> TierOf(pool, place[k])]], TopN)

\* build_candidate_pool: what is sealed, or the head of the change rank.
Candidates ==
    LET pool == IF Cardinality(OnLimit) < FewSealed THEN Ranked(Stocks, "change") ELSE Ranked(OnLimit, "limit")
        hot == Selected(pool, {i \in DOMAIN pool : Sealed(pool[i])})
    IN  IF hot = <<>> THEN pool ELSE hot

----------------------------------------------------------------------------
Kinds == Presets \cup Recipes \cup {"theme_hot"}

Plain(rows) == [k \in DOMAIN rows |-> [stock |-> rows[k], tier |-> "none"]]
Listed(kind, t, pool, list, rows) ==
    result' = [kind |-> kind, template |-> t, pool |-> pool, list |-> list, rows |-> rows]

ScreenInit ==
    /\ market \in [Stocks -> QuoteShapes]
    /\ result = [kind |-> "none", template |-> "balanced", pool |-> <<>>, list |-> <<>>, rows |-> <<>>]

\* The rows of a list that have their name: all of a Redis pool, the first of Tushare's.
Named(kind) == IF kind \in FromTushare THEN NameLimit ELSE Cardinality(Stocks)

\* run_condition_screen and the theme pattern.
ConditionScreen(kind, t) ==
    LET pool == PresetPool(kind)
        list == Kept(kind, pool)
    IN  Listed(kind, t, pool, list, Plain(Filtered(list, t, Named(kind))))

\* run_recipe_screen: filtered first, then scored and cut.
RecipeScreen(kind, t) ==
    LET pool == RecipePool(kind)
        list == SortBy(pool, [s \in Stocks |-> RecipeScore(kind, s)])
    IN  Listed(kind, t, pool, list, Plain(Filtered(list, t, Len(pool))))

\* run_leader_screen, outside the ice and recession stages; with nothing left
\* after the filters it raises.
LeaderScreen(t, mainline, divergence) ==
    LET pool == Selected(Candidates, {i \in DOMAIN Candidates : Passes(Candidates[i], t, TRUE)})
    IN  /\ pool /= <<>>
        /\ Listed("radar_leader", t, pool, pool, Leaders(pool, mainline, divergence))

\* Bound: one screen of each market.
ScreenNext ==
    /\ result.kind = "none" /\ UNCHANGED market
    /\ \E t \in TemplateNames :
          \/ \E kind \in Presets \cup {"theme_hot"} : ConditionScreen(kind, t)
          \/ \E kind \in Recipes : RecipeScreen(kind, t)
          \/ \E mainline, divergence \in BOOLEAN : LeaderScreen(t, mainline, divergence)

ScreenSpec == ScreenInit /\ [][ScreenNext]_screenVars

----------------------------------------------------------------------------
Rows == {result.rows[k].stock : k \in DOMAIN result.rows}

\* A screen leaves out only what the filters refuse or what comes after a full list.
LeftOutIsWorse ==
    result.kind \in Kinds =>
        \A i \in DOMAIN result.list :
            (Passes(result.list[i], result.template, TRUE) /\ result.list[i] \notin Rows) =>
                /\ Len(result.rows) = TopN
                /\ \A j \in DOMAIN result.list : result.list[j] \in Rows => j < i

\* No screen lists a stock under special treatment or suspended, whatever rank or
\* service it came from.
NoStIsPicked == \A s \in Rows : ~market[s].st /\ ~market[s].suspended

\* A quote at least as good in every factor, and no dearer, scores no less.
Dominates(a, b) ==
    /\ \A f \in {"change", "limit", "turnover", "ratio", "amount", "flow", "mv"} : a[f] >= b[f]
    /\ (a.pe > 0) = (b.pe > 0) /\ a.pe <= b.pe

BetterNeverScoresLess ==
    \A recipe \in Recipes, a, b \in Stocks :
        Dominates(market[a], market[b]) => ScoreOf(recipe, market[a]) >= ScoreOf(recipe, market[b])

\* An industry has one first and one second leader, and a follower is only listed
\* after both of them.
LeadersComeFirst ==
    LET at(k) == result.rows[k]
        same(j, k) == market[at(j).stock].industry = market[at(k).stock].industry
    IN  result.kind = "radar_leader" =>
        \A k \in DOMAIN result.rows :
            /\ \A j \in DOMAIN result.rows :
                  (at(j).tier = at(k).tier /\ at(k).tier /= "follower" /\ same(j, k)) => j = k
            /\ at(k).tier = "follower" =>
                  \A tier \in {"dragon_1", "dragon_2"} :
                      \E j \in 1..(k-1) : at(j).tier = tier /\ same(j, k)

\* A looser template keeps whatever a stricter one keeps.
LooserKeepsMore ==
    \A s \in Stocks :
        /\ Passes(s, "conservative", TRUE) => Passes(s, "balanced", TRUE)
        /\ Passes(s, "balanced", TRUE) => Passes(s, "aggressive", TRUE)

\* A screen prefers the better: what it leaves out is refused or comes later, a
\* looser filter refuses less, no score is turned round, and no follower goes
\* before its leaders (run_condition_screen, run_leader_screen).
ScreenPrefersTheBetter ==
    /\ LeftOutIsWorse /\ NoStIsPicked /\ LooserKeepsMore
    /\ BetterNeverScoresLess /\ LeadersComeFirst
=============================================================================
