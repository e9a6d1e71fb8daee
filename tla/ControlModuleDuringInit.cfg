\* setStageModule while init() is still in progress.
CONSTANTS
    MaxInits = 1
    MaxValue = 1
    MaxRequests = 3
    MaxSetters = 2
    MaxDestroys = 0
    Setters = {"setStageModule"}
    StartModules = {"rnnoise"}
    Rules = {"oneAtATime", "initEnabled"}
    Faults = {}
SPECIFICATION Spec
INVARIANT ModuleConverged
CHECK_DEADLOCK FALSE
