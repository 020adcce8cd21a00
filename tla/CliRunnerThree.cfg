SPECIFICATION Spec
CONSTANTS
    MaxRuns = 3
    Slots = 2
    Buffer = 1
    MaxQuestions = 0
    MaxCancels = 1
    FirstKinds = {"plain", "stream", "config"}
    Kinds = {"plain", "stream", "config"}
INVARIANTS
    TypeOK
    ExclusiveRunsAlone
    CancelledNeverBegins
    InOrderUnlessCancelled
    NoEventAfterClose
CHECK_DEADLOCK FALSE
