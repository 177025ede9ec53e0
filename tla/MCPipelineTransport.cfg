CONSTANTS
    Conn = {c1, c2}
    Stream = {s1, s2}
    None = None
    MaxConn = 0
    MaxStream = 2
    RatioNum = 1
    RatioDen = 1
    MaxSearchSteps = 4
    MaxQid = 2
    MaxRetry = 1
SPECIFICATION PipelineFairSpec
INVARIANTS
    OwnAnswer
    ExhaustedCloses
    ReservationsBacked
PROPERTIES
    WaiterAnswered
    CloseUnblocks
CHECK_DEADLOCK FALSE
