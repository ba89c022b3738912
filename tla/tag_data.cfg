SPECIFICATION Spec
CONSTANTS
    Half = 3
    MaxData = 8
    PrefixLen = 4
    SizeMod = 16
    CountMod = 16
    TypeMod = 256
    WireTypes = {195, 208, 672}
    Counts = {4, 17}
    AnswerLens = {1, 7, 12}
    Offsets = {4, 12}
    StringLens = {3, 9}
    Prefixes = {1, 15}
    Timeouts = {0, 3}
    MaxGap = 2
    MaxOps = 3
INVARIANTS
    TypeOK
    StaysInBuffer
    LengthIsFresh
    StringIsFresh
    WriteIsWhole
PROPERTIES
    TimeoutIsTrue
CHECK_DEADLOCK FALSE
