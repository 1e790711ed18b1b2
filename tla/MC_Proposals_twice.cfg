CONSTANTS
  Ids = {p1}
  Users = {u1}
  Requests = {q1, q2}
  Nothing = Nothing
  TTL = 1
  MaxClock = 0
  MaxWrites = 2
  LateErrors = FALSE
SPECIFICATION Spec
SYMMETRY Perms
INVARIANTS WrittenOnce
