SPECIFICATION Spec
CONSTANTS
    File = {"a", "b", "c", "log"}
    Revision = {"r1", "r2"}
    Length <- SmallLengths
    Loaded <- FirstLoaded
    LookupSize <- LoadedSize
    Gzipped = {"b", "log"}
    ChunkSize = 6
    ReadSize = 3
    NoFile = "nofile"
INVARIANTS
    TypeOK
    ReadsRight
    ChunkRight
CHECK_DEADLOCK FALSE
