SPECIFICATION Spec
CONSTANTS
    MaxFiles = 8
    MaxExtended = 3
    PageSize = 4
    LowByte = 4
    DirId = 3
    IsTop = TRUE
INVARIANTS
    TypeOK
    NoneMissed
    PlainNoneTwice
PROPERTIES
    ListingEnds
