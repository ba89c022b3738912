SPECIFICATION Spec
CONSTANTS
    HeaderLen = 1
    Names = {"A"}
    SndBuf = 1
    ReqLen = 0
    RegLen = 0
    MsgMaxBody = 0
    SessMaxBody = 0
    MisreadHandles = {7}
    ReplyLen = 0
    OverLen = 1
    ReplyKinds = {"ok", "cipError"}
    MaxTags = 2
    Tags = {1, 2}
    Callbacks = {"tag", "state"}
    AppOps <- SketchOps
    CallbackOps <- ChainOps
    AppRules = {"BeginOnce", "AbortFirst", "CreateFirst", "IdleDestroy"}
    MaxSends = 2
    MaxConnects = 2
INVARIANTS
    SingleInFlight
    ReadyMeansRegistered
PROPERTIES
    CallbackOnlyIfOwed
CHECK_DEADLOCK FALSE
