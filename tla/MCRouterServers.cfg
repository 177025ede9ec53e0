CONSTANTS
    u1 = u1
    u2 = u2
    t1 = t1
    t2 = t2
    c1 = c1
    None = None
    Queries <- MCQueries
    UdpQueries <- MCUdpQueries
    StreamQueries <- MCStreamQueries
    ConnOf <- MCConnOf
    Conns = {c1}
    Concurrent = 1
    Rated = TRUE
    Configs <- MCConfigs
    MaxQueries <- MCMaxQueries
    SendCap = 1
    BatchSize = 2
    MaxConcurrent = 1
SPECIFICATION ServersSpec
INVARIANTS
    SlotsMatchHandlers
PROPERTIES
    ImplementsService
    QueriesEnd
    ClosedServersStop
CHECK_DEADLOCK FALSE
