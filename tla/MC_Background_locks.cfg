CONSTANTS
  Replicas = {r1, r2}
  Jobs = {fill, stale}
  BarsJobs = {fill, stale}
  NoUser = {}
  None = None
  MaxTicks = 2
  MaxCrashes = 1
  RedisFaults = TRUE
  JobFaults = TRUE
  TicksOverlap = TRUE
  ConfigEdits = FALSE
  TableStocks = {a, b}
  LastDay = 6
  Weekend = {2, 3}
  Holidays = {5}
  BusyDays = {1, 4}
  HasCalendar = TRUE
  LimitDays = 1
  FlowDays = 2
  MaxMoves = 2
  MaxMissed = 1
  Year = 3
  WindowYears = 2
  LastPeriod = 7
  Versions = 2
  Restated = 1
  Ups = {"a", "b"}
  FeedUsers = {u}
  FeedRuns = {f1, f2}
  RecentLimit = 1
  MaxSubscriptions = 2
  MaxPosts <- MCPosts
  MaxGenerations <- MCPosts
  DeletesOverlap = FALSE
SPECIFICATION MCSpec
SYMMETRY Perms
INVARIANTS LocksExclude NothingLeaks TablesAreWhole FinancialsAreCurrent FetchedIsShown
CHECK_DEADLOCK FALSE
