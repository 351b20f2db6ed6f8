CONSTANTS
    Messages = {m1, m2}
    Actors = {a}
    Tokens = {k1, k2}
    Threads = {t1}
    LeaseSeconds = {1}
    TTL = 2
    Horizon = 2
    None = None
SPECIFICATION FairSpec
PROPERTIES
    ImplementsOwnership
    LapsedLeaseIsCollected
