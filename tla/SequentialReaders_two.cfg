SPECIFICATION SeqSpec
CONSTANTS
    File = {"big", "huge"}
    Revision = {"r1"}
    Length <- TwoBig
    Loaded <- FirstLoaded
    LookupSize <- LoadedSize
    Gzipped = {"big", "huge"}
    ChunkSize = 6
    ReadSize = 2
    NoFile = "nofile"
    Reader = {"cat", "grep"}
INVARIANTS
    NoFault
CHECK_DEADLOCK FALSE
