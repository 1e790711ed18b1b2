CONSTANTS
  Tasks = {t1, t2}
  Replicas = {r1, r2}
  MaxMinutes = 1
  MaxEdits = 0
  Faults = FALSE
  SaveFaults = FALSE
  CallBinds = FALSE
SPECIFICATION Spec
INVARIANTS HandedOnce
CHECK_DEADLOCK FALSE
