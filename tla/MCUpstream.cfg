CONSTANTS
    Caller = {s1, s2}
    Conn = {c1, c2, c3}
    None = None
    MaxRetry = 1
    UdpDialer = UdpDialer
    NoLookup = NoLookup
    Ttls = {0, 2}
    Setups <- MCSetups
    MaxConns <- MCMaxConns
SPECIFICATION UpstreamSpec
SYMMETRY UpstreamSymmetry
VIEW UpstreamView
INVARIANTS
    IdleIsQuiet
    NoPanic
    SocketsTracked
    SingleLookup
    FollowersAreTold
