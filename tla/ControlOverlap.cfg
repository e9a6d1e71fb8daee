\* Any call at any time, every failure and timer.
CONSTANTS
    MaxInits = 2
    MaxValue = 1
    MaxRequests = 4
    MaxSetters = 2
    MaxDestroys = 1
    Setters = {"setStageModule"}
    StartModules = {"rnnoise"}
    Rules = {}
    Faults = {"timeout", "pipeline"}
SPECIFICATION Spec
INVARIANTS
    PendingIsAwaited
    DestroyIsLast
    HandlesAreLive
PROPERTIES
    TransportImplemented
    OptionsNeedConsent
CHECK_DEADLOCK FALSE
