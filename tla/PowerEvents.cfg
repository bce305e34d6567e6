CONSTANTS
    u1 = u1  h1 = h1  h2 = h2  c1 = c1
    p1 = p1  p2 = p2  j1 = j1
    None = None
    Users = {u1}
    Stoppers = {}
    Handlers = {h1, h2}
    Consoles = {c1}
    Procs = {p1, p2}
    Jobs = {j1}
    ExitClean = {TRUE, FALSE}
    StopType = "command"
    Failures = {"exit"}
    Requests = {"start"}
    DetectCleanExit = FALSE
    CrashTimeout = TRUE
SPECIFICATION Spec
SYMMETRY Symmetry
INVARIANTS
    MutualExclusion
    SingleInstance
