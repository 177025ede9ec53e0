CONSTANTS
    RuleNames <- MCRuleNames
    QueryNames <- MCQueryNames
    Regexps <- MCRegexps
    MaxRules = 3
    V4Bits = 2
    V6Bits = 4
    Mapped = 8
    Cidrs <- MCCidrs
    Ranges <- MCRanges
    MaxFiles = 2
    MaxLines = 3
    n1 = n1
    n2 = n2
    n3 = n3
    HostLines <- MCHostLines
    HostNames = {n1, n2, n3}
    MaxHostFiles = 2
    MaxHostLines = 2
    Sizes = {0, 1, 3, 256, 257, 320, 321, 512, 513, 1073741824, 1073741825}
    MaxHeld = 2
    SmallMax = 256
    LargeMax = 1073741824
    com = com
    sub = sub
    host = host
    long = long
    LabelSize <- MCLabelSize
    MaxPtr = 2
    MaxOffset = 40
    NameMax = 20
    MinSize = 50
    Requests <- MCRequests
    Fronts <- MCFronts
    Given <- MCGiven
    OtherQuestions <- MCOtherQuestions
    MaxGiven = 3
    MaxEdns0Size = 80
    FrameMax = 80
SPECIFICATION MCSpec
INVARIANTS
    MatcherExact
    AddressesExact
    HostsExact
    BuffersFit
    MessagesSurvive
    RepliesMatchRequests
CHECK_DEADLOCK FALSE
