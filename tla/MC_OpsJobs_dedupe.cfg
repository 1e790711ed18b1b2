CONSTANTS
  Jobs = {sync}
  BarsJobs = {}
  Callers = {c1, c2, c3}
  Slots = {s1, s2}
  Threads = {t1, t2}
  Nobody = Nobody
  MaxTries = 3
  MaxCrashes = 3
  TtlCoversRun = TRUE
  JobMayTimeout = FALSE
  RedisFaults = FALSE
SPECIFICATION Spec
SYMMETRY Perms
INVARIANTS JobsRunAlone
CHECK_DEADLOCK FALSE
