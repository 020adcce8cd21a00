CONSTANTS
  Procs = {c1, c2, c3, c4}
  None = None
  MaxFaults = 1
SPECIFICATION Spec
INVARIANTS NothingIsLost FailedUpgradeKeepsWorking StagingIsDiscarded
CHECK_DEADLOCK FALSE
