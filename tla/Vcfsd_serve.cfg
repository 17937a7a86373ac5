SPECIFICATION Spec
CONSTANTS
    File = {"f", "g"}
    Log <- MCLog
    Loaded <- MCLoaded
    Tagged <- MCTagged
    Names <- MCNames
    Room = 1
    Directory = "d"
    Broken <- MCBroken
    Odd = {"g"}
    Absent <- MCAbsent
    Shorter <- MCShorter
    Cuttable <- MCCuttable
    Refusable <- MCRefusable
    None = "none"
    MaxMishaps = 2
    Listing <- MCListing
INVARIANTS
    ContentOwn
    TableOwn
    LagBounded
    StopsExplained
PROPERTIES
    Served
CHECK_DEADLOCK FALSE
