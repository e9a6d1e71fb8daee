\* Liveness: any call at any time, replies may never come.
CONSTANTS
    MaxInits = 2
    MaxValue = 1
    MaxRequests = 4
    MaxSetters = 2
    MaxDestroys = 0
    Setters = {"setStageModule"}
    StartModules = {"rnnoise"}
    Rules = {}
    Faults = {"load", "fetch", "timeout"}
SPECIFICATION FairSpec
PROPERTIES
    CallsSettle
CHECK_DEADLOCK FALSE
