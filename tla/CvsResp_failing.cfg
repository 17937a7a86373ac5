SPECIFICATION FailingSpec
CONSTANTS
    Response <- RaggedAnswers
    ReadSize = 8
    BuffSize = 9
    MaxBacklog = 3
INVARIANTS
    TypeOK
    BufferFits
    OwnResponse
PROPERTIES
    RequestEnds
    ImplementsConnection
CHECK_DEADLOCK FALSE
