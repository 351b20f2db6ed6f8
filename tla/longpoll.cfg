CONSTANTS
    Clients = {c1, c2}
    Posts = {p1, q}
    Local = {p1}
    MaxWaiters = 1
    PageSize = 1
    Horizon = 2
SPECIFICATION FairSpec
INVARIANTS PermitsConserved NoLostWakeup
PROPERTIES LocalPostsWake SkipsOnlyLateAndTied
