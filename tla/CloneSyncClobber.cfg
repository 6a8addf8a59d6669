SPECIFICATION Spec
CONSTANTS
    i1 = i1
    i2 = i2
    i3 = i3
    i4 = i4
    g1 = g1
    g2 = g2
    a1 = a1
    a2 = a2
    NoId = NoId
    NoGeom = NoGeom
    DrawnId <- NoneDrawn
    Ids = {i1, i2}
    NCloned = 2
    CloneId <- TwoRows
    Attrs = {a1, a2}
    Geoms = {g1}
    HasColumns = TRUE
    Envs <- TwoPushes
    MaxFid = 2
    MaxEdits = 2
    MaxRemote = 1
    MaxPush = 2
PROPERTIES
    NoSilentClobber
CHECK_DEADLOCK FALSE
