CONSTANTS
    q1 = q1
    t1 = t1
    t2 = t2
    Question = {q1}
    Tag = {t1, t2}
    Reply <- MCReply
    None = None
    RrTtl = 1
    DefaultTtl <- MCDefaultTtl
    MaximumTtl = 1
    OptimisticTtl = 1
    PrefetchDen = 1
    MaxTime = 2
    Handler = {h1}
    Prefetcher = {p1, p2}
    Rules <- MCRules
SPECIFICATION Spec
SYMMETRY HandleSymmetry
VIEW HandleView
INVARIANTS
    Coherent
    NothingOutlives
    NoMatchedServed
    SingleFlight
PROPERTIES
    OlderOnlyOvertaken
    NegativeKeepsPositive
