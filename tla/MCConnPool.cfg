CONSTANTS
    Conn = {c1, c2, c3}
    Stream = {s1, s2, s3}
    None = None
    MaxConn = 2
    MaxStream = 2
    RatioNum = 1
    RatioDen = 1
    MaxSearchSteps = 0
SPECIFICATION Spec
SYMMETRY PoolSymmetry
VIEW PoolView
INVARIANTS
    StreamAccounting
    ConnLimit
    NoConnLeak
    ReserveMatches
PROPERTIES
    TrimSparesStreams
    ImplementsPool
CHECK_DEADLOCK FALSE
