CONSTANTS
    s1 = s1  s2 = s2  u1 = u1  u2 = u2  c1 = c1  r1 = r1  d1 = d1  b1 = b1
    f1 = f1  f2 = f2  f3 = f3  f4 = f4
    None = None
    Sessions = {s1, s2}
    Uploads = {}
    Copies = {}
    Archives = {}
    Deletes = {d1}
    Scans = {}
    Files = {f1, f2, f3}
    Target <- Apart
    Source <- CopyOfFirst
    Limit = 4
    MaxSize = 2
    MaxInt = 7
    Checking = TRUE
    Scanned = TRUE
    Expiring = FALSE
    Playing = FALSE
SPECIFICATION Spec
INVARIANTS
    UsageWithinLimit
    UsageCovers
    AddSaturates
    FitIsExact
    WriteEndExact
