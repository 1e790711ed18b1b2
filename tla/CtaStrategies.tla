--------------------------- MODULE CtaStrategies ----------------------------
(***************************************************************************)
(* A backtest of one CTA strategy over daily bars.  vn.py's engine         *)
(* (external) first matches the orders of the day before against the new   *)
(* bar and then calls on_bar, which cancels what is left and may place a   *)
(* new order at the close.  The template buys whole lots and sells only    *)
(* what was bought on an earlier day; it takes a lot off its books when it *)
(* places the order, not when the order is filled.                         *)
(***************************************************************************)
EXTENDS SignalRules

CONSTANTS Strategies,   \* the strategies under test, named as the board's modes
          TradeVolume, Lot,
          WarmUp,       \* bars beyond the slow window before double_ma trades
          TrailPct,     \* trailing_stop_pct of trend_ma, in percent
          SellsFill,    \* every sell order is matched by the next bar
          MaxBars       \* bound: bars of a backtest

ASSUME CtaAssumption == TradeVolume \in Nat /\ Lot \in Nat \ {0} /\ SellsFill \in BOOLEAN

VARIABLES strategy, pos,
          old, fresh,   \* _lot_buy_dates: shares bought before the day of the last bar, and on it
          working,        \* the working order
          highest       \* highest_since_entry

ctaVars == <<bars, strategy, pos, old, fresh, working, highest>>

NoOrder == [side |-> "none", price |-> 0, qty |-> 0]

\* A volume in whole lots.
RoundVolume(v) == (v \div Lot) * Lot
LesserOf(a, b) == IF a < b THEN a ELSE b

CtaInit ==
    /\ bars = <<>> /\ strategy \in Strategies
    /\ pos = 0 /\ old = 0 /\ fresh = 0 /\ working = NoOrder /\ highest = 0

----------------------------------------------------------------------------
(* on_bar of the strategies, at bar i.                                     *)

\* Bars a strategy waits for.
Warm(s) ==
    CASE s = "double_ma"    -> Window.slow + WarmUp
      [] s = "atr_breakout" -> LongerOf(Window.channel, 2 * Window.atr) + 2
      [] OTHER              -> NeedsBars(s)

\* The strategy smooths over an array that starts with zeros: the first bar is a
\* move from nothing to its price.  Times p^i.
Padded(x, first, i, p) ==
    LET s[k \in 1..i] == IF k = 1 THEN first ELSE s[k-1] * (p - 1) + x[k] * p^(k-1) IN s[i]

ReadRsi(i, bound) ==
    (100 - bound) * Padded([j \in 2..i |-> Gain(j)], bars[1].close, i, Window.rsi)
        - bound * Padded([j \in 2..i |-> Loss(j)], 0, i, Window.rsi)
ReadChannel(i) == OutOfChannel(i, Padded([j \in 2..i |-> TrueRange(j)], bars[1].high, i, Window.atr), Window.atr^i)

\* prev_rsi is 0 until the strategy has taken a reading.
PrevRsi(i, bound) == IF i = Warm("rsi_reversal") THEN -bound ELSE ReadRsi(i-1, bound)

Over(i) == CrossUp(Above(i-1, Window.fast, Window.slow), Above(i, Window.fast, Window.slow))
Below(i) == CrossDown(Above(i-1, Window.fast, Window.slow), Above(i, Window.fast, Window.slow))

\* Each strategy: when it buys, holding nothing, and when it sells what it holds,
\* the trailing stop left aside.
Decision(buys, sells) == [buys |-> buys, sells |-> sells]

OnBarDoubleMa(i) == Decision(Over(i), Below(i))

OnBarTrendMa(i) ==
    Decision(/\ Over(i) /\ bars[i].trending
             /\ CloseAbove(i, Window.slow) > 0 /\ CloseSum(i, Window.slow) >= CloseSum(i-1, Window.slow),
             Below(i) \/ CloseAbove(i, Window.slow) < 0)

OnBarMediumSwing(i) ==
    Decision(CrossUp(bars[i-1].macd, bars[i].macd) /\ CloseAbove(i, Window.trend) > 0,
             CrossDown(bars[i-1].macd, bars[i].macd) \/ CloseAbove(i, Window.trend) < 0)

OnBarDonchian(i) == Decision(bars[i].close > Upper, bars[i].close < Lower)

OnBarRsiReversal(i) ==
    Decision(PrevRsi(i, RsiLow) <= 0 /\ ReadRsi(i, RsiLow) > 0,
             PrevRsi(i, RsiHigh) >= 0 /\ ReadRsi(i, RsiHigh) < 0)

OnBarBollinger(i) == Decision(OutOfBand(i) = -1, OutOfBand(i) = 1)

OnBarMaBand(i) ==
    Decision(/\ Above(i, Window.bandFast, Window.bandMid) > 0 /\ Above(i-1, Window.bandFast, Window.bandMid) <= 0
             /\ Above(i, Window.bandMid, Window.bandSlow) > 0 /\ Above(i, Window.bandSlow, Window.bandLong) > 0,
             Above(i, Window.bandFast, Window.bandMid) < 0 \/ CloseAbove(i, Window.bandSlow) < 0)

OnBarAtrBreakout(i) == Decision(ReadChannel(i) = 1, ReadChannel(i) = -1)

OnBar(s, i) ==
    CASE s = "double_ma"    -> OnBarDoubleMa(i)
      [] s = "trend_ma"     -> OnBarTrendMa(i)
      [] s = "medium_swing" -> OnBarMediumSwing(i)
      [] s = "donchian"     -> OnBarDonchian(i)
      [] s = "rsi_reversal" -> OnBarRsiReversal(i)
      [] s = "bollinger"    -> OnBarBollinger(i)
      [] s = "ma_band"      -> OnBarMaBand(i)
      [] s = "atr_breakout" -> OnBarAtrBreakout(i)

Buys(s, i) == OnBar(s, i).buys

Sells(s, i) == OnBar(s, i).sells

Stopped(s, close, high) == s = "trend_ma" /\ close * 100 < high * (100 - TrailPct)

\* Mutant: what was bought today can be sold today.
SellableAtOnce(held, before, today) == RoundVolume(LesserOf(RoundVolume(held), before + today))

\* sell_stock: whole lots of what was bought on an earlier day.
Sellable(held, before, today) == RoundVolume(LesserOf(RoundVolume(held), before))

\* on_trade: what was bought is on the books of that day.
Booked(bought) == bought

\* One day: the engine matches yesterday's order, a buy when the low reaches its
\* price and a sell when the high does, then the strategy decides at the close.
\* double_ma alone buys on top of what it holds.
NewBar(b) ==
    /\ Len(bars) < MaxBars /\ bars' = Append(bars, b) /\ UNCHANGED strategy
    /\ LET bought == IF working.side = "buy" /\ b.low <= working.price THEN working.qty ELSE 0
           sold == IF working.side = "sell" /\ (SellsFill \/ b.high >= working.price) THEN working.qty ELSE 0
           held == pos + bought - sold
           before == old + fresh
           awake == Len(bars') >= Warm(strategy)
           high == IF held > 0 THEN LongerOf(highest, b.close) ELSE highest
           sells == awake /\ held > 0 /\ (Sells(strategy, Len(bars))' \/ Stopped(strategy, b.close, high))
           buys == awake /\ ~sells /\ (held = 0 \/ strategy = "double_ma") /\ Buys(strategy, Len(bars))'
           qty == IF sells THEN Sellable(held, before, bought) ELSE 0
           volume == RoundVolume(TradeVolume)
       IN  /\ pos' = held /\ fresh' = Booked(bought) /\ old' = before - qty
           /\ highest' = IF sells THEN 0 ELSE IF buys THEN b.close ELSE high
           /\ working' = IF qty > 0 THEN [side |-> "sell", price |-> b.close, qty |-> qty]
                       ELSE IF buys /\ volume > 0 THEN [side |-> "buy", price |-> b.close, qty |-> volume]
                       ELSE NoOrder

CtaNext == \E b \in BarShapes : NewBar(b)

CtaSpec == CtaInit /\ [][CtaNext]_ctaVars

----------------------------------------------------------------------------
\* Every share is sold once, some day after the one it was bought on: what is
\* held is on the books or in a working order, as long as sells fill, and a
\* sell order never reaches into what the last bar brought.
SoldOnceAndLater ==
    /\ old >= 0
    /\ old + fresh + (IF working.side = "sell" THEN working.qty ELSE 0) = pos
    /\ working.side = "sell" => working.qty <= pos - fresh

\* The strategies that read what the board reads: rsi_reversal and atr_breakout read
\* their padded arrays, and the board of ma_band tests the sell first.
Aligned == {"double_ma", "trend_ma", "medium_swing", "donchian", "bollinger"}

\* The board says of a bar what an aligned strategy of the same name would do on
\* it: buy if it held nothing, sell if it held something.
BoardIsAligned ==
    LET i == Len(bars)
    IN  (strategy \in Aligned /\ i >= Warm(strategy) /\ i >= NeedsBars(strategy)) =>
            /\ Snapshot(strategy) = "buy" <=> Buys(strategy, i)
            /\ Snapshot(strategy) = "sell" <=> Sells(strategy, i)

\* The heuristic mode follows the crosses of double_ma one bar later, and only
\* while they last: it never shouts on the day of a cross.
HeuristicFollows ==
    [][LET heuristic == Snapshot("heuristic_v2")'
           crossed == Snapshot("double_ma")
       IN  heuristic \in {"buy", "sell"} => heuristic = crossed /\ Snapshot("double_ma")' = "hold"]_bars

\* What the board says of a bar is what the strategies do, and the heuristic
\* what they did: see the two parts.
BoardFollowsBars == []BoardIsAligned /\ HeuristicFollows

=============================================================================
