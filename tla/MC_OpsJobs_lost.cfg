CONSTANTS
  Jobs = {sync}
  BarsJobs = {}
  Callers = {c1, c2}
  Slots = {s1}
  Threads = {t1}
  Nobody = Nobody
  MaxTries = 2
  MaxCrashes = 0
  TtlCoversRun = TRUE
  JobMayTimeout = FALSE
  RedisFaults = FALSE
SPECIFICATION FairSpec
PROPERTIES QueuedIsAttempted
