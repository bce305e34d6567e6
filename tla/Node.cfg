CONSTANTS
    o1 = o1  o2 = o2  o3 = o3  x1 = x1  x2 = x2  a1 = a1  a2 = a2
    Sizes = {1, 2, 3, 4, 5}
    PartSizes = {1, 2, 3}
    MaxRetries = 2
    NoFile = NoFile
    Servers = {x1, x2}
    PageOf <- Pages
    Survive = TRUE
    MaxCrashes = 2
    Updates = {1, 2}
    Auths = {"a", "b"}
    Keys = {"k", "l"}
    LetsEncrypt = "x"
    Lists = {"m", "n"}
    Ignore = FALSE
    NoConfig = NoConfig
    Actors = {a1, a2}
    Readers = {"r1", "r2"}
    MaxInst = 1
    ViaStops = {"signal", "command", "stop"}
    Nobody = Nobody
    Names = {"a", "b"}
    Objects = {"base", "d1", "d2", "f", "l", "out", "sub", "of", o1, o2, o3}
    Nil = Nil
    Base = "base"
    OutDir = "out"
    OutSub = "sub"
    OutFile = "of"
    WorkDir = "cwd"
    Tree <- Dirs
    File = "f"
    Link = "l"
    Paths <- RequestPaths
    NewPaths <- NewRequestPaths
    Modes = {TRUE, FALSE}
    MaxMoves = 1
    MaxHops = 1
    Sessions = {"s1", "s2"}
    Users = {"u", "v"}
    User <- UserOf
    Grants = {{"*"}, {"file.read"}}
    ReadOnly = FALSE
    MaxContexts = 3
    MaxCuts = 3
    Pulls = {1, 2, 3}
    Owners = {x1, x2}
    OwnerOf <- Puller
    Slots = 1
    MaxAttempts = 2
SYMMETRY Alike
SPECIFICATION Spec
INVARIANTS
    UploadExact
    DiskAgrees
    PowerSurvivesReboot
    RunsWhatWasWritten
    OneReader
    RestartIsFresh
    Confined
    DescriptorsClosed
    SessionsReachable
    SlotsFreed
    NoDataLoss
    FailureFreesSource
CHECK_DEADLOCK FALSE
