CONSTANTS
    w1 = w1  c1 = c1  c2 = c2  p1 = p1  p2 = p2
    Pushers = {p1}
    Chans = {c1, c2}
    Cap <- Buffers
    MaxPush = 2
    Conns = {w1}
    Of <- OneConn
    MaxOpen = 1
    MaxSync = 1
    Events = {"sync", "deauthorize", "delete"}
SPECIFICATION Spec
INVARIANTS
    NoPanic
    SuspensionDisconnects
    DeauthDisconnects
PROPERTY InOrder
CHECK_DEADLOCK FALSE
