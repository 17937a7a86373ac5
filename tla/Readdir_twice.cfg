SPECIFICATION Spec
CONSTANTS
    MaxFiles = 8
    MaxExtended = 1
    PageSize = 4
    LowByte = 4
    DirId = 3
    IsTop = FALSE
INVARIANTS
    NoneTwice
