CONSTANTS
    p1 = p1  i1 = i1  i2 = i2  r1 = r1  r2 = r2  d1 = d1  y1 = y1
    None = None
    MaxRequests = 3
    Powers = {p1}
    Installs = {i1, i2}
    Restores = {r1, r2}
    Deletes = {d1}
    Syncs = {y1}
SPECIFICATION FairSpec
INVARIANTS
    InstallExclusive
    NothingLeftLocked
    RestoreHeld
    SuspendedNotLaunched
PROPERTY DeletionEndsWork
CHECK_DEADLOCK FALSE
