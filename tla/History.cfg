CONSTANTS
  Procs = {p1, p2, p3}
  Nobody = nobody
  Limit = 3
  MaxWrites = 8
SPECIFICATION Spec
INVARIANTS OnlyRacesLose QuietAppendCompacts
CHECK_DEADLOCK FALSE
