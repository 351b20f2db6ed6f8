CONSTANTS
    Posts = {p1, p2}
    Consumers = {c1, c2}
    Agents = {a1, a2}
    Names = {n, m}
    Page = 1
    Null = Null
SPECIFICATION FairSpec
INVARIANTS
    OneWorker
    WorkersShareSandbox
PROPERTIES
    NewestIsDrained
    ResultIsReceived
CHECK_DEADLOCK FALSE
