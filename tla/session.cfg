SPECIFICATION Spec
CONSTANTS
    HeaderLen = 1
    Names <- MCNames
    SndBuf = 2
    RegLen = 1
    SessMaxBody = 1
    MisreadHandles = {0, 3}
    ReplyLen = 1
    OverLen = 2
    ReplyKinds <- MCReplies
    MaxOpens = 2
    MaxConnects = 2
INVARIANTS
    TypeOK
    RegisteredHasHandle
    ReceiveBounded
PROPERTIES
    RegistrationEnds
    UnregistrationEnds
CHECK_DEADLOCK FALSE
