SPECIFICATION Spec
CONSTANTS
    Calls <- MCCalls
    TestSets <- MCTestSets
    Hop = 480
    MaxErrors = 1
    MaxDeaths = 1
INVARIANTS ReportComplete RaisesForCause
PROPERTIES EvaluationEnds
CHECK_DEADLOCK FALSE
