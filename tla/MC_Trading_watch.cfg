CONSTANTS
  Users = {u1, u2}
  Stocks = {a, b, c}
  Groups = {g1, g2}
  Requests = {q1, q2}
  Nobody = Nobody
  MaxItems = 2
  MaxPositions = 1
  OneAtATime = TRUE
  Window <- MCWindow
  RsiLow = 30
  RsiHigh = 70
  BollDev = 1
  AtrMult = 1
  BarShapes <- MCBars
  Strategies = {"double_ma", "trend_ma", "medium_swing", "donchian", "bollinger", "atr_breakout", "rsi_reversal", "ma_band"}
  TradeVolume = 250
  Lot = 100
  WarmUp = 1
  TrailPct = 12
  SellsFill = TRUE
  MaxBars = 6
  Span <- MCSpan
  KlineShapes <- MCKlines
  MaxKlines = 7
  LiveStocks = {x, y}
  Factors = {0, 1, 2}
  NoQuote = NoQuote
  RankStocks = {"bank", "mine"}
  RankDays = 3
  ClosePrices = {8, 10}
  Payloads <- MCPayloads
SPECIFICATION MCSpec
SYMMETRY Perms
INVARIANTS ListIsInOrder MembersAreWatched SoldOnceAndLater PatternsAreShapes RankingIsOfQuotes 
PROPERTIES RowsAreOwn 
CHECK_DEADLOCK FALSE
