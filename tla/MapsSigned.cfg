SPECIFICATION Spec
CONSTANTS
    None = None
    p1 = p1
    p2 = p2
    d1 = d1
    d2 = d2
    d3 = d3
    t1 = t1
    b1 = b1
    b2 = b2
    f1 = f1
    s1 = s1
    m1 = m1
    x1 = x1
    n1 = n1
    n2 = n2
    u1 = u1
    u2 = u2
    u3 = u3
    u4 = u4
    u5 = u5
    a = a
    b = b
    c = c
    Items <- MCItems
    Urls = {u1, u2, u3, u4, u5}
    Portals = {p1, p2}
    Seeds <- MCSeeds
    Palette <- MCPalette
    Envs <- MCEnvs
    MaxCanvas = 2
    MaxUntick = 1
INVARIANTS
    SignedFeaturesComeBack
CHECK_DEADLOCK FALSE
