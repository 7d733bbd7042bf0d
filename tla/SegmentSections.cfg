SPECIFICATION Spec
CONSTANTS
    MainSegs = 4
    BlocksPerSeg = 2
    SegsPerSec = 2
    SecsPerZone = 1
    Logs = {"WARM_DATA"}
    FormatSeg <- MCFormatSeg
    UserBlocks = 2
    SsrReserves = {0, 4}
    FggcThreshold = 1
    LfsMode = FALSE
    CrcRecovery = TRUE
    GcTypes = {"FG", "BG"}
    Faults = {}
    ExchangeData = TRUE
    NULL_ADDR = NULL_ADDR
    NULL_SECNO = NULL_SECNO
INVARIANTS
    NoOverwrite
    PrefreeExact
    DirtySound
    VictimNotCurrent
    CountersMatch
