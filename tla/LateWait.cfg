CONSTANTS
    u1 = u1  u2 = u2  s1 = s1  h1 = h1  h2 = h2  c1 = c1
    p1 = p1  p2 = p2  j1 = j1  j2 = j2
    None = None
    Users = {u1}
    Stoppers = {}
    Handlers = {}
    Consoles = {}
    Procs = {p1, p2}
    Jobs = {j1}
    ExitClean = {FALSE}
    StopType = "signal"
    Failures = {}
    Requests = {"start", "restart"}
    DetectCleanExit = TRUE
    CrashTimeout = TRUE
SPECIFICATION Spec
INVARIANT LiveIsRegistered
