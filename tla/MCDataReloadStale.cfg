CONSTANTS
    f1 = f1
    f2 = f2
    f3 = f3
    Loader = {f1, f2, f3}
    Group <- MCGroup
    Caller = {c1, c2}
    Version = {v1, v2}
    Broken = Broken
    None = None
SPECIFICATION Spec
PROPERTIES
    SuccessApplies
