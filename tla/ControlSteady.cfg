\* One lifecycle call at a time, setters on a pipeline that is up or down.
CONSTANTS
    MaxInits = 2
    MaxValue = 1
    MaxRequests = 4
    MaxSetters = 2
    MaxDestroys = 1
    Setters = {"setEnabled", "setStageModule", "setRnnoise", "setDeepFilter"}
    StartModules = {"rnnoise", "deepfilternet"}
    Rules = {"oneAtATime", "initFirst", "initEnabled"}
    Faults = {"load", "fetch", "wasm", "pipeline"}
SPECIFICATION Spec
INVARIANTS
    ModuleConverged
    EnabledConverged
    ConfigConverged
    NoOrphan
    PublishedIsServed
CHECK_DEADLOCK FALSE
