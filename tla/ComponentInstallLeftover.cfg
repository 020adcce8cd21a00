CONSTANTS
  Procs = {c1, c2, c3}
  None = None
  MaxFaults = 1
SPECIFICATION Spec
PROPERTY NextInstallCleansUp
CHECK_DEADLOCK FALSE
