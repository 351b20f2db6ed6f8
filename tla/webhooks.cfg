CONSTANTS
    Hooks = {g, h, b}
    Malformed = {b}
    MaxAttempts = 2
    Limit = 1
    BackoffBase = 1
    BackoffCap = 2
    Week = 1
    Horizon = 2
    MaxLost = 1
    None = None
SPECIFICATION FairSpec
INVARIANTS
    AttemptsCounted
    RepeatsOnlyAfterLoss
PROPERTIES
    KeepsPromise
    DueIsServed
