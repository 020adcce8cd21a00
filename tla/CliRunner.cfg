SPECIFICATION FairSpec
CONSTANTS
    MaxRuns = 2
    Slots = 2
    Buffer = 1
    MaxQuestions = 2
    MaxCancels = 1
    FirstKinds = {"stream", "config"}
    Kinds = {"plain", "config"}
INVARIANTS
    ExclusiveRunsAlone
    CancelledNeverBegins
    InOrderUnlessCancelled
    NoEventAfterClose
    ActsOnItsOwnYes
PROPERTIES
    CloseReturns
    RunsEnd
CHECK_DEADLOCK FALSE
