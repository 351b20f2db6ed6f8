CONSTANTS
    Keys = {k}
    Requests = {q1, q2}
    Invitations = {i}
    Threads = {t1, t2, t3}
    None = None
SPECIFICATION Spec
SYMMETRY Symmetry
INVARIANTS
    MembershipIsLogged
    NothingOutlivesChannel
    DenialStands
CHECK_DEADLOCK FALSE
