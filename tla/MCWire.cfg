SPECIFICATION FairSpec
CONSTANTS
    HeaderSize = 2
    Capacity = 2
    MaxRequests = 3
    Forms <- MCForms
INVARIANTS
    TypeOK
    HandledOnce
    AnswersOwn
PROPERTIES
    Answered
    SessionEnds
CHECK_DEADLOCK FALSE
