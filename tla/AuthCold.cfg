SPECIFICATION Spec
CONSTANTS
    t1 = t1
    t2 = t2
    Nobody = Nobody
    Threads = {t1, t2}
    Envs <- ColdStart
    MaxToken = 3
    MaxClient = 1
    MaxSlot = 1
    MaxRequests = 1
INVARIANTS
    OneRefresh
CHECK_DEADLOCK FALSE
