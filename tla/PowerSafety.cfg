CONSTANTS
    u1 = u1  u2 = u2
    p1 = p1  p2 = p2  j1 = j1  j2 = j2
    None = None
    Users = {u1, u2}
    Stoppers = {}
    Handlers = {}
    Consoles = {}
    Procs = {p1, p2}
    Jobs = {j1, j2}
    ExitClean = {FALSE}
    StopType = "command"
    Failures = {"preflight", "create", "launch", "exit", "write", "terminate"}
    Requests = {"start", "stop", "restart", "kill"}
    DetectCleanExit = TRUE
    CrashTimeout = TRUE
SPECIFICATION Spec
SYMMETRY Symmetry
INVARIANTS
    SingleInstance
    RegisteredInJob
PROPERTY ImplementsContract
