SPECIFICATION TardySpec
CONSTANTS
    Response <- LineAnswers
    ReadSize = 8
    BuffSize = 9
    MaxBacklog = 9
INVARIANTS
    EntireResponse
CHECK_DEADLOCK FALSE
