----------------------------- MODULE MC_Trading ------------------------------
(* What an investor works with: the watchlist (Watchlist), the strategies the *)
(* board shows and the backtest runs (CtaStrategies over SignalRules), the   *)
(* chart patterns of the screener (PatternRules) and the rankings of the     *)
(* market page, from Redis (LiveRanks) and from the database (ClosingRanks): *)
(* five instances with no variable in common, checked in one run.            *)
EXTENDS Watchlist, CtaStrategies, PatternRules, LiveRanks, ClosingRanks, TLC

VARIABLE part   \* the instance this behaviour is about

Perms == Permutations(Users) \cup Permutations(Stocks) \cup Permutations(Requests)

\* Windows and bars of the strategies.
MCWindow ==
    [fast |-> 1, slow |-> 2, entry |-> 2, exit |-> 1, trend |-> 2, rsi |-> 2, boll |-> 3, channel |-> 2,
     atr |-> 1, adx |-> 1, bandFast |-> 1, bandMid |-> 2, bandSlow |-> 3, bandLong |-> 4]
Day(price, strong, macd) == [high |-> price + 1, low |-> price - 1, close |-> price, trending |-> strong, macd |-> macd]
MCBars == {Day(5, TRUE, 0), Day(8, TRUE, 1), Day(8, FALSE, -1), Day(11, TRUE, 1)}

\* Windows and bars of the patterns.
MCSpan ==
    [ma5 |-> 1, ma10 |-> 2, ma20 |-> 3, ma60 |-> 4, recent |-> 1, base |-> 2, minBars |-> 4, duckBars |-> 7, w |-> 5,
     radius |-> 1, gap |-> 2, crossed |-> 2, ahead |-> 1, pulled |-> 3, platform |-> 2, touch |-> 2]
Traded(price, volume) == [high |-> price + 1, low |-> price - 1, close |-> price, volume |-> volume]
MCKlines == {Traded(50, 10), Traded(51, 12), Traded(53, 20), Traded(52, 4)}

\* The provider has factors of no stock yet, or of one.
MCPayloads == {{}, {"mine"}}

MCInit ==
    /\ part \in {"watchlist", "cta", "patterns", "live", "closing"}
    /\ Init /\ CtaInit /\ PatternInit /\ LiveInit /\ RankInit
    /\ part /= "cta" => strategy = "double_ma"

MCNext ==
    /\ UNCHANGED part
    /\ \/ part = "watchlist" /\ Next /\ UNCHANGED <<ctaVars, klines, liveVars, rankVars>>
       \/ part = "cta" /\ CtaNext /\ UNCHANGED <<vars, klines, liveVars, rankVars>>
       \/ part = "patterns" /\ NextKline /\ UNCHANGED <<vars, ctaVars, liveVars, rankVars>>
       \/ part = "live" /\ LiveNext /\ UNCHANGED <<vars, ctaVars, klines, rankVars>>
       \/ part = "closing" /\ RankNext /\ UNCHANGED <<vars, ctaVars, klines, liveVars>>

MCSpec == MCInit /\ [][MCNext]_<<vars, ctaVars, klines, liveVars, rankVars, part>>

=============================================================================
