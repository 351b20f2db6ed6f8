CONSTANTS
    Requests = {r1, r2, r3}
    Addresses = {s1, s2, proxy}
    Trusted = {proxy}
    Hosts = {h}
    HostName <- MCHostName
    BaseURL = Null
    Allowed <- MCAllowed
    Public = Public
    Null = Null
    Routes <- MCRoutes
    Labels = {l, bot}
    BotLabel = bot
    Limit = 1
    Window = 2
    SweepEvery = 2
    Horizon = 3
SPECIFICATION Spec
SYMMETRY Symmetry
INVARIANTS
    LimitHolds
    OwnBucket
PROPERTIES
    LabelsUnique
CHECK_DEADLOCK FALSE
