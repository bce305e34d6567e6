CONSTANTS
    u1 = u1  s1 = s1
    p1 = p1  p2 = p2  j1 = j1
    None = None
    Users = {u1}
    Stoppers = {s1}
    Handlers = {}
    Consoles = {}
    Procs = {p1, p2}
    Jobs = {j1}
    ExitClean = {FALSE}
    StopType = "command"
    Failures = {"exit"}
    Requests = {"restart", "kill"}
    DetectCleanExit = TRUE
    CrashTimeout = TRUE
SPECIFICATION FairSpec
PROPERTIES
    ActionsComplete
    ExitNoticed
