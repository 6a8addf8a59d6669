SPECIFICATION FairSpec
CONSTANTS
    t1 = t1
    t2 = t2
    Nobody = Nobody
    Threads = {t1, t2}
    Envs <- Everyday
    MaxToken = 3
    MaxClient = 2
    MaxSlot = 2
    MaxRequests = 1
INVARIANTS
    TypeOK
    SharedRefresh
    NoHerd
    RetryIsFresh
    DiskFollowsMemory
PROPERTIES
    RequestEnds
CHECK_DEADLOCK FALSE
