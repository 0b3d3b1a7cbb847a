SPECIFICATION FairSpec
CONSTANTS
    Capacity = 1
    ChunkSize = 1
    Workers = {w1, w2}
    Queries = {q1, q2}
    NoOne = NoOne
INVARIANTS
    SlotsPartitioned
    DrainedWaitedForActive
PROPERTIES
    ImplementsSlotPool
    ShutdownTerminates
CHECK_DEADLOCK FALSE
