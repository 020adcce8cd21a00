SPECIFICATION FairSpec
CONSTANTS
    MaxRuns = 2
    Slots = 2
    Buffer = 1
    MaxQuestions = 1
    MaxCancels = 0
    FirstKinds = {"plain", "stream", "config"}
    Kinds = {"plain", "stream", "config"}
INVARIANTS
    ActsOnItsOwnYes
PROPERTIES
    CloseReturns
    RunsEnd
CHECK_DEADLOCK FALSE
