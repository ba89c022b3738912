SPECIFICATION FairSpec
CONSTANTS
    HeaderLen = 1
    Names = {}
    SndBuf = 1
    ReqLen = 0
    MsgMaxBody = 1
    CxnReqLen = 0
    CxnMaxBody = 1
    SerialMod = 4
    SeqMod = 2
    ToIds = {1}
    ReplyLen = 0
    OverLen = 2
    ReplyKinds <- MCReplies
    AnyToId = {1, 2}
    AnySeq = {0}
    MaxFaults = 1
    MaxOpens = 2
    MaxSends = 2
    OpenWhileUp = TRUE
INVARIANTS
    TypeOK
    OneReceiver
    OpenIsHeld
    ClosedIsReleased
    GotOnThisConnection
PROPERTIES
    ImplementsExchange
    CxnExchangeEnds
CHECK_DEADLOCK FALSE
