CONSTANTS
    s1 = s1  s2 = s2  u1 = u1  u2 = u2  c1 = c1  r1 = r1  d1 = d1  b1 = b1
    f1 = f1  f2 = f2  f3 = f3  f4 = f4
    None = None
    Sessions = {s1}
    Uploads = {}
    Copies = {}
    Archives = {r1}
    Deletes = {d1}
    Scans = {b1}
    Files = {f1, f2}
    Target <- Together
    Source <- CopyOfFirst
    Limit = 1
    MaxSize = 1
    MaxInt = 3
    Checking = TRUE
    Scanned = FALSE
    Expiring = TRUE
    Playing = TRUE
SPECIFICATION FairSpec
PROPERTIES
    UsageConverges
