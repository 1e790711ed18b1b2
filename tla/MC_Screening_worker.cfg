CONSTANTS
  Tasks = {t1, t2}
  Replicas = {r1, r2}
  MaxMinutes = 2
  MaxEdits = 1
  Faults = TRUE
  SaveFaults = TRUE
  CallBinds = TRUE
  Stocks = {1, 2, 3, 4}
  QuoteShapes <- MCQuotes
  PoolSize = 4
  TopN = 3
  FewSealed = 2
  NameLimit = 4
SPECIFICATION MCSpec
SYMMETRY Perms
INVARIANTS RunIsReported 
PROPERTIES PollIsIsolated
CHECK_DEADLOCK FALSE
