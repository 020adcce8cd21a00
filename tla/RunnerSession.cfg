SPECIFICATION SessionSpec
CONSTANTS
    MaxRuns = 3
    Slots = 2
    Buffer = 1
    MaxQuestions = 0
    MaxCancels = 0
    FirstKinds = {"plain", "stream", "config"}
    Kinds = {"plain", "stream", "config"}
    Projects = {"p"}
    MaxRewrites = 1
    MaxSetProjects = 1
    MaxPerKind = 1
INVARIANTS
    SignsAsCurrentAccount
PROPERTIES
    TokensAreUsedAsSpecified
CHECK_DEADLOCK FALSE
