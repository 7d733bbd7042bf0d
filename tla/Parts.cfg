CONSTANTS
    \* Discard
    SEGS = 3
    SEG_BLOCKS = 2
    MAX_PLIST_NUM = 2
    discard_granularity = 2
    max_requests = 1
    TrimRequests <- MCTrimRequests
    Volumes <- MCVolumes
    MaxOps = 3
    \* Directory
    Names = {"a", "b", "c", "d"}
    NameHash <- MCNameHash
    NameSlots <- MCNameSlots
    NR_DENTRY_IN_BLOCK = 3
    NR_INLINE_DENTRY = 3
    MAX_DIR_HASH_DEPTH = 4
    LOW_BLOCKS = 1
    HIGH_BLOCKS = 2
    DirLevels = {0, 1}
    Inos = {1, 2}
    MaxNewBlocks = 2
    MaxDirOps = 4
    \* Namespace
    RootIno = 1
    InoSet = {1, 2, 3, 4}
    FileNames = {"x", "y"}
    max_orphans = 2
    F2FS_LINK_MAX = 4
    WhiteoutKinds = {"file"}
    MaxCalls = 4
    \* Recovery
    SyncInos = {1, 2}
    SyncNames = {"x", "y"}
    SubDir = "sub"
    Addrs = {1, 2}
    LogBlocks = 5
    Scenarios <- MCScenarios
SPECIFICATION PartsSpec
CHECK_DEADLOCK FALSE
INVARIANTS
    DiscardSafe
    CommandsSound
    DirExact
    LinksExact
    OrphansExact
    FsyncDurable
    MountsNewest
