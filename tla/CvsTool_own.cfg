SPECIFICATION Spec
CONSTANTS
    None = None
    Client = {"a", "b"}
    Kind <- MCKind
    Listing <- MCListing
    Loaded <- MCLoaded
    Lines <- MCLines
    Found <- MCFound
    Commands <- MCCommands
    MaxCalls = 3
    MaxQueue = 2
INVARIANTS
    TypeOK
    SuccessStands
    ListingStands
CHECK_DEADLOCK FALSE
