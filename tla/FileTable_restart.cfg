SPECIFICATION Spec
CONSTANTS
    Name = {"mod", "top", "d", "f", "note"}
    Version = {"r1", "r2"}
    NoVersion = "none"
    ModulePath <- DeepTop
    Dirs <- DeepDirs
    Messages <- NoMessages
    Repo <- OneFileRepo
    Logged <- OneFileLog
    StraySizes = {0}
    MaxStray = 0
    UpdateTargets <- DeepDirs
    CharSum <- MCCharSum
    NumBuckets = 4
    NumVinodes = 7
    MaxRestarts = 1
INVARIANTS
    HandleIdentity
    HandlesResolve
PROPERTIES
    ImplementsHandles
CHECK_DEADLOCK FALSE
