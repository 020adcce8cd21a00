CONSTANTS
  Procs = {p1, p2, p3}
  Nobody = nobody
  Limit = 3
  MaxWrites = 8
SPECIFICATION Spec
INVARIANT BadLineCostsItself
CHECK_DEADLOCK FALSE
