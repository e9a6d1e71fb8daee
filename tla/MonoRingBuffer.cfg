CONSTANTS
    Capacity = 4
    Samples = {0, 1}
    Silence = 0
    MaxLen = 4
SPECIFICATION RingSpec
INVARIANT RingInvariant
PROPERTY IsQueue
CHECK_DEADLOCK FALSE
