SPECIFICATION BuildSpec
CONSTANTS
    Name = {"mod", "top", "d", "f", "g", "note"}
    Version = {"r1", "r2"}
    NoVersion = "none"
    ModulePath <- DeepTop
    Dirs <- DeepDirs
    Messages <- OneMessage
    Repo <- DeepRepo
    Logged <- DeepLog
    StraySizes = {3}
    MaxStray = 1
    UpdateTargets <- DeepFile
    CharSum <- MCCharSum
    NumBuckets = 3
    NumVinodes = 9
    MaxRestarts = 0
    Response <- MCResponse
INVARIANTS
    TypeOK
    LoadedExactly
    TornOnlyWhenCut
    LookupRoundTrip
    DirentsExact
    ExtendedPinned
    SizesOwn
PROPERTIES
    ListingStable
    StartUpEnds
    ImplementsTable
CHECK_DEADLOCK FALSE
