CONSTANTS
    Calls = {c1, c2, c3}
    Writes = {w}
    Revoke = Revoke
    Narrow = Narrow
    CacheTTL = 1
    Day = 1
    Horizon = 2
    None = None
SPECIFICATION Spec
SYMMETRY Symmetry
PROPERTIES
    RevocationHonored
    NarrowedScopesHold
    RepeatedCallReplays
CHECK_DEADLOCK FALSE
