SPECIFICATION SeqSpec
CONSTANTS
    File = {"small", "exact", "big", "huge", "plain"}
    Revision = {"r1"}
    Length <- OneOfEach
    Loaded <- FirstLoaded
    LookupSize <- LoadedSize
    Gzipped = {"exact", "big", "huge"}
    ChunkSize = 6
    ReadSize = 1
    NoFile = "nofile"
    Reader = {"cat"}
INVARIANTS
    ReadsRight
    NoFault
