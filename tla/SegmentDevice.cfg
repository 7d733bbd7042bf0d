SPECIFICATION Spec
CONSTANTS
    MainSegs = 3
    BlocksPerSeg = 2
    SegsPerSec = 1
    SecsPerZone = 1
    Logs = {"WARM_DATA"}
    FormatSeg <- MCFormatSeg
    UserBlocks = 1
    SsrReserves = {0, 4}
    FggcThreshold = 1
    LfsMode = FALSE
    CrcRecovery = TRUE
    GcTypes = {}
    Faults = {"device"}
    ExchangeData = FALSE
    NULL_ADDR = NULL_ADDR
    NULL_SECNO = NULL_SECNO
INVARIANTS
    CountersMatch
