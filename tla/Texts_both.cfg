SPECIFICATION Spec
CONSTANTS
    Char = {"1", "2", "9", "t"}
    Tab = "t"
    VerLen = 3
    None = None
    History <- MCHistory
    Account = {"own", "like", "other"}
    Own = "own"
    Like = {"own", "like"}
    Letter = {"A", "p", "q"}
    A = "A"
    shifts <- MCshifts
    Secret <- MCSecret
    Saved <- MCSaved
    Leftover <- MCLeftover
INVARIANTS
    ValidRight
    DatesOwn
    LsverExact
    OrdinaryIsSafe
    OwnPassword
CHECK_DEADLOCK FALSE
