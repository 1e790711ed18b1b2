---------------------------- MODULE PatternRules ----------------------------
(***************************************************************************)
(* The chart patterns of the screener.  A pattern is looked for in the     *)
(* tail of a stock's daily bars; every comparison is multiplied out and    *)
(* percentages are integers, so nothing is rounded.                        *)
(***************************************************************************)
EXTENDS Integers, Sequences, FiniteSetsExt, Listings

CONSTANTS Span,          \* the lengths of all windows, see SpanNames
          KlineShapes,   \* the bars TLC tries: high, low, close, volume
          MaxKlines      \* bound: bars of a series

SpanNames == {"ma5", "ma10", "ma20", "ma60",  \* averages
              "recent", "base",               \* of the volume ratio
              "minBars", "duckBars", "w",     \* bars a pattern needs
              "radius", "gap",                \* of the double bottom
              "crossed", "ahead", "pulled",   \* of the old duck
              "platform", "touch"}

ASSUME SpanAssumption ==
    /\ Span \in [SpanNames -> Nat \ {0}]
    /\ Span.ma5 < Span.ma10 /\ Span.ma10 < Span.ma20 /\ Span.ma20 < Span.ma60
    /\ Span.ma20 <= Span.minBars /\ Span.ma60 <= Span.duckBars
    /\ \A k \in KlineShapes :
          {k.high, k.low, k.close, k.volume} \subseteq Nat /\ 0 < k.low /\ k.low <= k.close /\ k.close <= k.high

VARIABLE klines

Patterns == {"ma_bull", "w_bottom", "old_duck", "platform_break", "pullback_ma20"}

----------------------------------------------------------------------------
(* Averages and the volume ratio of a series, as sums.                     *)

\* The sum of the n closes up to bar i.
Closes(k, i, n) == SumOver(k, "close", i - n + 1, i)

\* The sign of the n-average minus the m-average at bar i.
AboveBy(k, i, n, m) == Closes(k, i, n) * m - Closes(k, i, m) * n

Recent(k) == SumOver(k, "volume", Len(k) - Span.recent + 1, Len(k)) * Span.base
Base(k) == SumOver(k, "volume", Len(k) - Span.recent - Span.base + 1, Len(k) - Span.recent) * Span.recent

\* _volume_ratio: there is one when the series is long enough and the base has volume.
HasRatio(k) == Len(k) >= Span.recent + Span.base /\ Base(k) > 0
RatioAtLeast(k, percent) == HasRatio(k) /\ Recent(k) * 100 >= Base(k) * percent
RatioAtMost(k, percent) == HasRatio(k) /\ Recent(k) * 100 <= Base(k) * percent

----------------------------------------------------------------------------
(* The matchers.                                                           *)

MaBull(k) ==
    LET n == Len(k)
    IN  /\ n >= Span.ma60
        /\ AboveBy(k, n, Span.ma5, Span.ma10) > 0 /\ AboveBy(k, n, Span.ma10, Span.ma20) > 0
        /\ AboveBy(k, n, Span.ma20, Span.ma60) > 0
        /\ k[n].close * Span.ma20 >= Closes(k, n, Span.ma20)

\* _local_minima: the bars of the window with no lower one around them.
Bottoms(k) ==
    {i \in (Len(k) - Span.w + 1 + Span.radius)..(Len(k) - Span.radius) :
        \A j \in (i - Span.radius)..(i + Span.radius) : k[i].low <= k[j].low}

\* How far two prices are apart; the highest and the lowest of some bars.
Apart(a, b) == IF a < b THEN b - a ELSE a - b
Highest(k, from, to) == Max({k[j].high : j \in from..to})
Lowest(k, field, from, to) == Min({k[j][field] : j \in from..to})

\* Two bottoms in a row, of much the same depth and far enough apart, and a close at
\* most 1% under the highest price between them.
WBottom(k) ==
    /\ Len(k) >= Span.w
    /\ \E i, j \in Bottoms(k) :
          /\ j - i >= Span.gap /\ ~ \E x \in Bottoms(k) : i < x /\ x < j
          /\ Apart(k[i].low, k[j].low) * 100 <= 6 * k[i].low
          /\ k[Len(k)].close * 100 >= Highest(k, i, j) * 99

\* The bars at which ma5 comes out above ma10, among the last of those the duck is looked for in.
DuckFirst(k) == Len(k) - Span.duckBars + 1
Crosses(k) ==
    {i \in (Len(k) - Span.crossed + 1)..Len(k) :
        /\ i - Span.ma10 >= DuckFirst(k)
        /\ AboveBy(k, i - 1, Span.ma5, Span.ma10) <= 0 /\ AboveBy(k, i, Span.ma5, Span.ma10) > 0}

\* The first cross, after ma5 was below for a while, with no close far under ma60 on the
\* way and more volume.
OldDuck(k) ==
    LET n == Len(k)
        cross == Min(Crosses(k))
        before == cross - Span.ahead
        start == IF cross - Span.pulled > DuckFirst(k) THEN cross - Span.pulled ELSE DuckFirst(k)
    IN  /\ n >= Span.duckBars
        /\ AboveBy(k, n, Span.ma10, Span.ma20) > 0 /\ AboveBy(k, n, Span.ma20, Span.ma60) > 0
        /\ Crosses(k) /= {} /\ before - DuckFirst(k) >= Span.ahead
        /\ \E i \in (before - Span.ahead)..(before - 1) :
              i - Span.ma10 + 1 >= DuckFirst(k) /\ AboveBy(k, i, Span.ma5, Span.ma10) < 0
        /\ Lowest(k, "close", start, cross - 1) * 100 * Span.ma60 >= Closes(k, n, Span.ma60) * 97
        /\ RatioAtLeast(k, 105)
        /\ k[n].close * Span.ma5 >= Closes(k, n, Span.ma5)

\* A narrow platform, the last two bars left aside, and a close above it on volume.
PlatformBreak(k) ==
    LET n == Len(k)
        top == Highest(k, n - Span.platform - 1, n - 2)
        floor == Lowest(k, "low", n - Span.platform - 1, n - 2)
    IN  /\ n >= Span.minBars /\ n >= Span.platform + 2
        /\ (top - floor) * 100 <= 8 * floor
        /\ k[n].close > top
        /\ RatioAtLeast(k, 120)

\* Within 2% of ma20, whose sum over the window is given.
NearMa20(low, sum) == Apart(low * Span.ma20, sum) * 100 <= 2 * sum

\* Mutant: any volume will do.
DryAnyway(k) == HasRatio(k)

\* The volume has dried up.
Dry(k) == RatioAtMost(k, 90)

Pullback(k) ==
    LET n == Len(k)
        sum == Closes(k, n, Span.ma20)
        from == IF n > Span.touch THEN n - Span.touch + 1 ELSE 1
    IN  /\ n >= Span.minBars
        /\ n >= Span.ma60 => AboveBy(k, n, Span.ma20, Span.ma60) > 0
        /\ k[n].close >= k[n-1].close
        /\ Dry(k)
        /\ \E j \in from..n : NearMa20(k[j].low, sum)

Matches(pattern, k) ==
    CASE pattern = "ma_bull"        -> MaBull(k)
      [] pattern = "w_bottom"       -> WBottom(k)
      [] pattern = "old_duck"       -> OldDuck(k)
      [] pattern = "platform_break" -> PlatformBreak(k)
      [] pattern = "pullback_ma20"  -> Pullback(k)

----------------------------------------------------------------------------
PatternInit == klines = <<>>
NextKline == Len(klines) < MaxKlines /\ \E k \in KlineShapes : klines' = Append(klines, k)
PatternSpec == PatternInit /\ [][NextKline]_klines

\* The price and the volume of a bar in another unit.
InUnits(p, v) == [i \in DOMAIN klines |->
    [high |-> p * klines[i].high, low |-> p * klines[i].low, close |-> p * klines[i].close,
     volume |-> v * klines[i].volume]]

\* A pattern is a matter of shape: a split or a count in lots neither makes nor breaks it.
ShapeOnly ==
    \A pattern \in Patterns :
        /\ Matches(pattern, klines) <=> Matches(pattern, InUnits(3, 1))
        /\ Matches(pattern, klines) <=> Matches(pattern, InUnits(1, 100))

\* A stock cannot break out of a platform and fall back to its average at once: the
\* one wants volume and the other wants none.
BreakoutIsNoPullback ==
    ~(Matches("platform_break", klines) /\ Matches("pullback_ma20", klines))
    /\ ~(Matches("old_duck", klines) /\ Matches("pullback_ma20", klines))

\* What is matched is a shape and not its opposite as well: see the two parts.
PatternsAreShapes == ShapeOnly /\ BreakoutIsNoPullback
=============================================================================
