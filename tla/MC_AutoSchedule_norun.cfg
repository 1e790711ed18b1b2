CONSTANTS
  Tasks = {t1, t2}
  Replicas = {r1}
  MaxMinutes = 1
  MaxEdits = 0
  Faults = FALSE
  SaveFaults = FALSE
  CallBinds = FALSE
SPECIFICATION FairSpec
PROPERTIES QueuedIsRecorded
CHECK_DEADLOCK FALSE
