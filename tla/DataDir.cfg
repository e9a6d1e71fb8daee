SPECIFICATION Spec
CONSTANTS
    Jobs = {"a", "b"}
    Files <- MCFiles
    Size <- MCSize
    Begins = {}
    Dotted = {}
    TestFiles = {}
    MaxBytes = 3
    MaxTries = 1
    MaxRuns = 3
INVARIANTS WritersAlone ReadersKeepFiles WithinBudget
PROPERTIES CopyComesToAnEnd
CHECK_DEADLOCK FALSE
