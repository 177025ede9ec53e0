CONSTANTS
    u1 = u1
    u2 = u2
    b1 = b1
    b2 = b2
    Upstream = {u1, u2}
    Lb = {b1}
    Query = {q1}
    Loop = {l1, l2}
    None = None
    MaxFails <- LiveMaxFails
    Backends <- LiveBackends
SPECIFICATION FairSpec
PROPERTIES
    Recovers
    PingsEnd
