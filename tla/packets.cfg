SPECIFICATION Spec
CONSTANTS
    MaxCip = 512
    RoutedOverhead = 15
    MaxConnected = 508
    MaxSymbolic = 120
    MaxName = 64
    MaxTagData = 256
    NameLens = {1, 2, 63, 64, 120, 121}
    TagLens = {0, 1, 4, 256}
    PathLens = {0, 1, 2, 6, 254, 510}
    DataLens = {0, 1, 2, 255, 256, 498, 500, 501, 502, 503, 504, 505, 506, 507, 508}
    Slots = {0, 16, 17, 255}
    BodyLens = {0, 7, 8, 11, 12, 17, 22, 37}
    ItemCounts = {0, 1, 2, 3, 65535}
    ItemLens = {0, 3, 4, 6, 9, 16, 65535}
    StatusSizes = {0, 1, 255}
    SizeMod = 1048576
INVARIANTS
    BuffersHold
    PlcReadsRequest
    TagCallsFit
    ReadsReceived
    OkIfWellFormed
    DataIsOfReply
CHECK_DEADLOCK FALSE
