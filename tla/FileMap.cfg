CONSTANTS
    ADDRS_PER_INODE = 1
    ADDRS_PER_BLOCK = 2
    NIDS_PER_BLOCK = 2
    F2FS_MIN_EXTENT_LEN = 2
    PAGE_UNITS = 2
    MAX_INLINE_DATA = 1
    NBlocks = 42
    Windows <- MCWindows
    WriteRanges <- MCWriteRanges
    Ranges <- MCRanges
    Sizes <- MCSizes
SPECIFICATION FileSpec
CHECK_DEADLOCK FALSE
INVARIANTS
    ExtentsMatch
    TreeSound
    SeekExact
PROPERTY FileRefines
