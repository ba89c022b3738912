SPECIFICATION FairSpec
CONSTANTS
    HeaderLen = 1
    Names = {"A"}
    SndBuf = 1
    ReqLen = 1
    RegLen = 0
    MsgMaxBody = 0
    SessMaxBody = 0
    MisreadHandles = {7}
    ReplyLen = 0
    OverLen = 1
    ReplyKinds = {"ok", "cipError"}
    MaxTags = 1
    Tags = {1}
    Callbacks = {"state"}
    AppOps <- ReconnectOps
    CallbackOps = {}
    AppRules = {"BeginOnce", "AbortFirst", "CreateFirst"}
    MaxSends = 2
    MaxConnects = 2
INVARIANTS
    NoStaleHandle
    NoLeftoverSession
PROPERTIES
    AttemptEnds
    OperationEnds
CHECK_DEADLOCK FALSE
