SPECIFICATION FairSpec
CONSTANTS
    Workers = {w1, w2}
    Prefetch = 1
    Lengths = {0, 3}
    BatchSizes = {1, 2}
    MaxEpochs = 2
    MaxFaults = 1
INVARIANTS EpochDelivered
PROPERTIES CallsReturn IsSource
CHECK_DEADLOCK FALSE
