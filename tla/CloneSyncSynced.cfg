SPECIFICATION FairSpec
CONSTANTS
    i1 = i1
    i2 = i2
    i3 = i3
    i4 = i4
    g1 = g1
    g2 = g2
    a1 = a1
    a2 = a2
    NoId = NoId
    NoGeom = NoGeom
    DrawnId <- DrawnSecond
    Ids = {i1, i2, i3}
    NCloned = 1
    CloneId <- OneRow
    Attrs = {a1}
    Geoms = {g1, g2}
    HasColumns = TRUE
    Envs <- CalmOrEarly
    MaxFid = 3
    MaxEdits = 3
    MaxRemote = 1
    MaxPush = 2
INVARIANTS
    SyncedMeansSent
    DeletionsStayPending
PROPERTIES
    PushEnds
CHECK_DEADLOCK FALSE
