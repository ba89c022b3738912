SPECIFICATION Spec
CONSTANTS
    HeaderLen = 1
    Names = {"A"}
    SndBuf = 1
    ReqLen = 0
    RegLen = 0
    MsgMaxBody = 0
    SessMaxBody = 0
    MisreadHandles = {7}
    ReplyLen = 0
    OverLen = 1
    ReplyKinds = {"ok"}
    MaxTags = 1
    Tags = {1}
    Callbacks = {"tag"}
    AppOps <- ReadOps
    CallbackOps = {}
    AppRules = {"BeginOnce"}
    MaxSends = 1
    MaxConnects = 1
INVARIANTS
    CallbackNotLost
CHECK_DEADLOCK FALSE
