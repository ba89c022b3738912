SPECIFICATION Spec
CONSTANTS
    HeaderLen = 1
    Names = {"A", "B"}
    SndBuf = 1
    ReqLen = 0
    RegLen = 0
    MsgMaxBody = 0
    SessMaxBody = 0
    MisreadHandles = {7}
    ReplyLen = 0
    OverLen = 1
    ReplyKinds = {"ok"}
    MaxTags = 2
    Tags = {1, 2}
    Callbacks = {}
    AppOps <- PoolOps
    CallbackOps = {}
    AppRules = {"BeginOnce", "IdleDestroy"}
    MaxSends = 2
    MaxConnects = 1
INVARIANTS
    TypeOK
    SingleInFlight
    BusyHasOwner
PROPERTIES
    AnswersOwnOperation
CHECK_DEADLOCK FALSE
