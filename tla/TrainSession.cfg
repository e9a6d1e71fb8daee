SPECIFICATION Spec
CONSTANTS
    MaxEpochs = 3
    WarmupEpochs = 1
    CycleEpochs <- MCCycle
    CycleMul = 1
    NKeep = 2
    NKeepBest = 1
    MaxPatience = 1
    Metrics <- MCMetrics
    TrainSamples = 2
    Hosts = {h1}
    ConfigBs = 0
    HostBs <- MCHostBs
    BatchSchedule <- MCBatchSchedule
    MaxNans = 1
    Prefetch = 1
    MaxErrors = 1
    MaxKills = 1
INVARIANTS SomeModelSurvives OptimizerLag HistoriesAgree LrCoversStep BatchesOfTheEpoch
PROPERTIES ResumesWhereItStopped StopIsResumed ProcessEnds
CHECK_DEADLOCK FALSE
