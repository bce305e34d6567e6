CONSTANTS
    w1 = w1  c2 = c2  p1 = p1  p2 = p2
    Pushers = {p1, p2}
    Chans = {c2}
    Cap <- Unbuffered
    MaxPush = 1
    Conns = {w1}
    Of <- OneConn
    MaxOpen = 1
    MaxSync = 1
    Events = {"sync", "delete"}
    MaxAttempts = 1
    Entries = {1, 2, 3, 4, 5}
    Key <- KeyOf
    Plain = Plain
    BadAddress = {5}
    SendCount = 1
    Chunk = 1
    MaxFaults = 1
SPECIFICATION EndsSpec
INVARIANTS
    NoActivityLost
PROPERTIES
    PushCompletes
    DeletionDisconnects
    CancelFrees
    ActivityDrains
CHECK_DEADLOCK FALSE
