CONSTANTS
    u1 = u1
    u2 = u2
    b1 = b1
    b2 = b2
    Upstream = {u1, u2}
    Lb = {b1, b2}
    Query = {q1, q2}
    Loop = {l1, l2}
    None = None
    MaxFails <- MCMaxFails
    Backends <- MCBackends
SPECIFICATION Spec
SYMMETRY HealthSymmetry
VIEW HealthView
INVARIANTS
    OneWatcher
    SamplerSettles
