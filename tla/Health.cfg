SPECIFICATION Spec
CONSTANTS
    None = None
    Backends = {b1}
    PoolOf <- OnePool
    Probed = {b1}
    Workers = {w1}
    Sems = {s1}
    Initial = "require"
    Rise = 2
    Fall = 1
    PassiveFall = 2
    QIds = {1, 2}
    MaxAdmin = 2
INVARIANTS
    KeptBackendIsProbed
PROPERTIES
    
    RecoveredBackendReturns
CHECK_DEADLOCK FALSE
