---------------------------- MODULE SignalRules -----------------------------
(***************************************************************************)
(* The strategy board: what it makes of the daily bars of a stock.  Each   *)
(* mode of the board is a function of the bars up to the last one.  Prices *)
(* are integers and every comparison of averages is multiplied out, so     *)
(* nothing is rounded.  Two indicators of which only the sign matters, the *)
(* ADX against its threshold and DIF against DEA, are data of the bar.     *)
(***************************************************************************)
EXTENDS Integers, Sequences, FiniteSetsExt, Listings

CONSTANTS Window,       \* the windows of all modes, see WindowNames
          RsiLow, RsiHigh, BollDev, AtrMult,
          BarShapes     \* the bars TLC tries: high, low, close, trending, macd

WindowNames == {"fast", "slow", "entry", "exit", "trend", "rsi", "boll", "channel", "atr", "adx",
                "bandFast", "bandMid", "bandSlow", "bandLong"}

ASSUME SignalAssumption ==
    /\ Window \in [WindowNames -> Nat \ {0}]
    /\ Window.fast < Window.slow /\ Window.exit <= Window.entry
    /\ Window.bandFast < Window.bandMid /\ Window.bandMid < Window.bandSlow /\ Window.bandSlow < Window.bandLong
    /\ \A b \in BarShapes :
          /\ {b.high, b.low, b.close} \subseteq Nat /\ b.trending \in BOOLEAN /\ b.macd \in Int
          /\ 0 < b.low /\ b.low <= b.close /\ b.close <= b.high

VARIABLE bars

LongerOf(a, b) == IF a > b THEN a ELSE b
Size(x) == IF x < 0 THEN -x ELSE x

----------------------------------------------------------------------------
(* Indicators at bar i.                                                    *)

CloseSum(i, n) == SumOver(bars, "close", i - n + 1, i)

\* The sign of the n-day average minus the m-day average.
Above(i, n, m) == CloseSum(i, n) * m - CloseSum(i, m) * n

\* The close against the n-day average.
CloseAbove(i, n) == bars[i].close * n - CloseSum(i, n)

CrossUp(before, now) == before <= 0 /\ now > 0
CrossDown(before, now) == before >= 0 /\ now < 0

CrossKind(i, n, m) ==
    IF CrossUp(Above(i-1, n, m), Above(i, n, m)) THEN "buy"
    ELSE IF CrossDown(Above(i-1, n, m), Above(i, n, m)) THEN "sell" ELSE "hold"

\* Wilder's smoothing of a series over p bars, times p^(i - p).
Wilder(x, i, p) ==
    LET s[k \in (p + 1)..i] ==
            IF k = p + 1 THEN MapThenSumSet(LAMBDA j : x[j], 2..(p + 1)) ELSE s[k-1] * (p - 1) + x[k] * p^(k - p - 1)
    IN  s[i]

Gain(j) == LET d == bars[j].close - bars[j-1].close IN IF d > 0 THEN d ELSE 0
Loss(j) == LET d == bars[j-1].close - bars[j].close IN IF d > 0 THEN d ELSE 0

TrueRange(j) ==
    LongerOf(bars[j].high - bars[j].low,
             LongerOf(Size(bars[j].high - bars[j-1].close), Size(bars[j].low - bars[j-1].close)))

\* RSI minus the bound, up to a positive factor; without a loss the RSI is 100.
RsiAgainst(i, bound) ==
    LET g == Wilder([j \in 2..i |-> Gain(j)], i, Window.rsi)
        l == Wilder([j \in 2..i |-> Loss(j)], i, Window.rsi)
    IN  IF l = 0 THEN 100 - bound ELSE (100 - bound) * g - bound * l

Upper == Max({bars[j].high : j \in (Len(bars) - Window.entry)..(Len(bars) - 1)})
Lower == Min({bars[j].low : j \in (Len(bars) - Window.exit)..(Len(bars) - 1)})

\* +1 when the close is above the upper Bollinger band, -1 below the lower one:
\* the squared distance from the average against the sample variance.
OutOfBand(i) ==
    LET n == Window.boll
        away == CloseAbove(i, n)
        spread == n * MapThenSumSet(LAMBDA j : bars[j].close * bars[j].close, (i - n + 1)..i)
                  - CloseSum(i, n) * CloseSum(i, n)
        out == away * away * (n - 1) > BollDev * BollDev * n * spread
    IN  IF ~out THEN 0 ELSE IF away > 0 THEN 1 ELSE -1

\* +1 when the close is more than AtrMult ATRs above the channel's average, -1
\* when it is as far below; the ATR is given times scale.
OutOfChannel(i, atr, scale) ==
    LET away == CloseAbove(i, Window.channel) * scale
        width == AtrMult * atr * Window.channel
    IN  IF away > width THEN 1 ELSE IF away < -width THEN -1 ELSE 0

----------------------------------------------------------------------------
(* The board.                                                              *)

\* Bars a mode needs before it says anything.
NeedsBars(mode) ==
    CASE mode = "heuristic_v2" -> Window.slow + 2
      [] mode = "double_ma"    -> Window.slow + 1
      [] mode = "trend_ma"     -> LongerOf(Window.slow, 2 * Window.adx) + 2
      [] mode = "medium_swing" -> Window.trend + 2
      [] mode = "donchian"     -> Window.entry + 1
      [] mode = "rsi_reversal" -> Window.rsi + 2
      [] mode = "bollinger"    -> Window.boll + 2
      [] mode = "ma_band"      -> Window.bandLong + 2
      [] mode = "atr_breakout" -> LongerOf(Window.channel, 2 * Window.atr) + 3

Pick(first, second, a, b) == IF first THEN a ELSE IF second THEN b ELSE "hold"

\* Mutant: the day of a cross is not waited out.
HeuristicAtOnce(i) == CrossKind(i, Window.fast, Window.slow)

\* A cross is confirmed by the next bar, on which the averages are still apart.
Heuristic(i) ==
    LET today == CrossKind(i, Window.fast, Window.slow)
        before == CrossKind(i-1, Window.fast, Window.slow)
        apart == Above(i, Window.fast, Window.slow)
    IN  IF today /= "hold" THEN "hold"
        ELSE Pick(before = "buy" /\ apart > 0, before = "sell" /\ apart < 0, "buy", "sell")

TrendMa(i) ==
    LET cross == CrossKind(i, Window.fast, Window.slow)
        close == CloseAbove(i, Window.slow)
        slowUp == CloseSum(i, Window.slow) >= CloseSum(i-1, Window.slow)
    IN  Pick(cross = "buy" /\ bars[i].trending /\ close > 0 /\ slowUp, cross = "sell" \/ close < 0, "buy", "sell")

MediumSwing(i) ==
    LET close == CloseAbove(i, Window.trend)
    IN  Pick(CrossUp(bars[i-1].macd, bars[i].macd) /\ close > 0,
             CrossDown(bars[i-1].macd, bars[i].macd) \/ close < 0, "buy", "sell")

Donchian(i) == Pick(bars[i].close < Lower, bars[i].close > Upper, "sell", "buy")

RsiReversal(i) ==
    Pick(RsiAgainst(i-1, RsiHigh) >= 0 /\ RsiAgainst(i, RsiHigh) < 0,
         RsiAgainst(i-1, RsiLow) <= 0 /\ RsiAgainst(i, RsiLow) > 0, "sell", "buy")

Bollinger(i) == Pick(OutOfBand(i) = 1, OutOfBand(i) = -1, "sell", "buy")

MaBand(i) ==
    LET fast == Window.bandFast
        mid == Window.bandMid
        slow == Window.bandSlow
    IN  Pick(Above(i, fast, mid) < 0 \/ CloseAbove(i, slow) < 0,
             /\ Above(i, fast, mid) > 0 /\ Above(i-1, fast, mid) <= 0
             /\ Above(i, mid, slow) > 0 /\ Above(i, slow, Window.bandLong) > 0, "sell", "buy")

AtrBreakout(i) ==
    LET out == OutOfChannel(i, Wilder([j \in 2..i |-> TrueRange(j)], i, Window.atr), Window.atr^(i - Window.atr))
    IN  Pick(out = -1, out = 1, "sell", "buy")

\* _compute_snapshot: the signal of the last bar, "na" while there are too few.
Snapshot(mode) ==
    LET i == Len(bars)
    IN  IF i < NeedsBars(mode) THEN "na"
        ELSE CASE mode = "heuristic_v2" -> Heuristic(i)
               [] mode = "double_ma"    -> CrossKind(i, Window.fast, Window.slow)
               [] mode = "trend_ma"     -> TrendMa(i)
               [] mode = "medium_swing" -> MediumSwing(i)
               [] mode = "donchian"     -> Donchian(i)
               [] mode = "rsi_reversal" -> RsiReversal(i)
               [] mode = "bollinger"    -> Bollinger(i)
               [] mode = "ma_band"      -> MaBand(i)
               [] mode = "atr_breakout" -> AtrBreakout(i)
=============================================================================
