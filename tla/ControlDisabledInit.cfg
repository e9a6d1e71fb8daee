\* setEnabled(false) before init().
CONSTANTS
    MaxInits = 1
    MaxValue = 1
    MaxRequests = 3
    MaxSetters = 2
    MaxDestroys = 0
    Setters = {"setEnabled"}
    StartModules = {"rnnoise"}
    Rules = {"oneAtATime", "initFirst"}
    Faults = {}
SPECIFICATION Spec
INVARIANT EnabledConverged
CHECK_DEADLOCK FALSE
