SPECIFICATION Spec
CONSTANTS
    NoOne = NoOne
    Capacity = 2
    ChunkSize = 1
    UdpIngress = {u1}
    TcpIngress = {t1}
    PolicyWorkers = {w1, w2}
    Queries = {q1, q2}
    IdSpace = 5
    MaxAttempts = 2
    PerBackend = 2
    MaxInflight = 2
    MaxGen = 0
INVARIANTS
    OneWakePerPark
    RepliesAreRight
    NoTableLeak
SYMMETRY Symmetry
CHECK_DEADLOCK FALSE
