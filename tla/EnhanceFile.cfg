SPECIFICATION Spec
CONSTANTS
    Configs <- MCConfigs
    Recordings <- MCRecordings
    MaxInterrupts = 1
INVARIANTS
    AcceptedRuns
    LookaheadDeclared
    FormsAgree
    Aligned
CHECK_DEADLOCK FALSE
