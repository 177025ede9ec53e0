CONSTANTS
    Caller = {s1, s2}
    Conn = {c1, c2, c3}
    None = None
    MaxRetry = 1
SPECIFICATION FairSpec
INVARIANTS
    OneConnection
PROPERTIES
    DialHeard
