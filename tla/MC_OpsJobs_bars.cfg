CONSTANTS
  Jobs = {fill, stale}
  BarsJobs = {fill, stale}
  Callers = {c1}
  Slots = {s1, s2}
  Threads = {t1, t2}
  Nobody = Nobody
  MaxTries = 2
  MaxCrashes = 1
  TtlCoversRun = TRUE
  JobMayTimeout = TRUE
  RedisFaults = TRUE
SPECIFICATION FairSpec
 
PROPERTIES AcceptedIsKept QueuedIsAttempted
