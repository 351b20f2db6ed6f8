CONSTANTS
    Messages = {m1}
    Actors = {a, b}
    Tokens = {k1, k2}
    Threads = {t1, t2}
    LeaseSeconds = {1, 2}
    TTL = 4
    Horizon = 2
    None = None
SPECIFICATION Spec
SYMMETRY Symmetry
PROPERTY AckedNeverTakenAway
