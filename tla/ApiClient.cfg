SPECIFICATION Spec
CONSTANTS
    Commands = {a, b}
    Used = {"create", "patch", "replace", "ifVersion"}
    MaxAttempts = 2
    MaxLate = 2
INVARIANTS
    NoDuplicate
    ReportsTheTruth
PROPERTIES
    CommandsEnd
CHECK_DEADLOCK FALSE
