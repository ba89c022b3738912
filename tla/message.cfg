SPECIFICATION FairSpec
CONSTANTS
    HeaderLen = 2
    Names = {"A"}
    SndBuf = 2
    ReqLen = 1
    MsgMaxBody = 2
    ReplyLen = 1
    OverLen = 3
    ReplyKinds <- MCReplies
    MaxSends = 2
    MaxConnects = 2
INVARIANTS
    TypeOK
    ReceiveBounded
    DoneIsComplete
PROPERTIES
    ImplementsExchange
    ExchangeEnds
CHECK_DEADLOCK FALSE
