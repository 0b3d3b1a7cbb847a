SPECIFICATION FairSpec
CONSTANTS
    NoOne = NoOne
    Capacity = 1
    ChunkSize = 1
    UdpIngress = {u1}
    TcpIngress = {t1}
    PolicyWorkers = {w1, w2}
    Queries = {q1, q2}
    IdSpace = 5
    MaxAttempts = 2
    PerBackend = 2
    MaxInflight = 1
    MaxGen = 1
PROPERTIES
    EveryQueryEnds
CHECK_DEADLOCK FALSE
