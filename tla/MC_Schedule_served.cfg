CONSTANTS
  Replicas = {r1, r2, r3}
  Jobs = {sync}
  BarsJobs = {}
  NoUser = {}
  None = None
  MaxTicks = 2
  MaxCrashes = 1
  RedisFaults = FALSE
  JobFaults = FALSE
  TicksOverlap = FALSE
  ConfigEdits = TRUE
  a = a
  b = b
  c = c
  StockOrder <- MCStockOrder
  ListedOn <- MCListedOn
  Suspended = {a}
  Focus = {b}
  OpenDays = {1, 3, 4, 6}
  Lookback = 1
  MinuteWindow = 0
  MaxSymbols = 2
  Today0 = 4
  MaxDay = 6
  MaxFails = 1
  Stocks = {a, b}
  Sockets = {w1}
  MaxRounds = 2
  MaxForces = 1
  MaxQuoteFaults = 1
SPECIFICATION MCSpec
INVARIANTS OverviewSuffices RoundIsWhole
PROPERTIES LocksServe EveryStockIsFilled HeardIsServed
CHECK_DEADLOCK FALSE
