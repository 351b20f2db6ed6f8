CONSTANTS
    Messages = {m1}
    Invitations = {i}
    Worker = w
    Cleaners = {w, c}
    Threads = {t}
    TTL = 1
    Retentions = {2, 3}
    Default = 2
    Horizon = 2
    None = None
SPECIFICATION FairSpec
INVARIANTS
    HistoryKept
PROPERTIES
    ExpiredIsPurged
CHECK_DEADLOCK FALSE
