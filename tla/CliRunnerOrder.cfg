SPECIFICATION Spec
CONSTANTS
    MaxRuns = 3
    Slots = 2
    Buffer = 1
    MaxQuestions = 0
    MaxCancels = 1
    FirstKinds = {"config"}
    Kinds = {"config"}
INVARIANTS
    ExclusivesInOrder
CHECK_DEADLOCK FALSE
