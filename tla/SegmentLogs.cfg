SPECIFICATION Spec
CONSTANTS
    MainSegs = 3
    BlocksPerSeg = 2
    SegsPerSec = 1
    SecsPerZone = 1
    Logs = {"WARM_DATA", "WARM_NODE"}
    FormatSeg <- MCFormatSeg
    UserBlocks = 3
    SsrReserves = {0, 4}
    FggcThreshold = 1
    LfsMode = FALSE
    CrcRecovery = TRUE
    GcTypes = {}
    Faults = {"io"}
    ExchangeData = FALSE
    NULL_ADDR = NULL_ADDR
    NULL_SECNO = NULL_SECNO
INVARIANTS
    TypeOK
    NoOverwrite
    ChainKept
    CursegHasSpace
    CountersMatch
    LogsApart
    DirtyComplete
    FreeIsEmpty
