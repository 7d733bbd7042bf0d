SPECIFICATION Spec
CONSTANTS
    NatBlocks = 1
    NAT_ENTRY_PER_BLOCK = 3
    FirstNid = 1
    FREE_NID_PAGES = 1
    NAT_JOURNAL_ENTRIES = 1
    Addrs = {a1}
    Creators = {c1}
    ReadNids = {}
    MaxEvents = 3
    NatBits = TRUE
    NULL_ADDR = NULL_ADDR
    NEW_ADDR = NEW_ADDR
    NoEntry = NoEntry
SYMMETRY Symmetry
INVARIANTS
    NidsFindable
CHECK_DEADLOCK FALSE
