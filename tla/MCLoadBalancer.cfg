SPECIFICATION Spec
CONSTANTS
    s1 = s1
    s2 = s2
    c1 = c1
    c2 = c2
    c3 = c3
    c4 = c4
    g = g
    h = h
    u = u
    Servers = {s1, s2}
    Clients = {c1, c2, c3, c4}
    Keys = {g, h, u}
    GroupKeys = {g, h}
    KeyOf <- MCKeyOf
    Weights = {1, 3}
    CacheSize = 1
    MaxCalls = 3
    MaxRemovals = 2
    NoServer = NoServer
INVARIANT InflightIsLoad
INVARIANT GroupCountExact
INVARIANT GroupKeyRemoved
INVARIANT SiblingsTogether
CHECK_DEADLOCK FALSE
SYMMETRY Symmetry
