SPECIFICATION Spec
CONSTANTS
    NatBlocks = 1
    NAT_ENTRY_PER_BLOCK = 3
    FirstNid = 1
    FREE_NID_PAGES = 2
    NAT_JOURNAL_ENTRIES = 1
    Addrs = {a1, a2}
    Creators = {c1, c2}
    ReadNids = {1}
    MaxEvents = 3
    NatBits = TRUE
    NULL_ADDR = NULL_ADDR
    NEW_ADDR = NEW_ADDR
    NoEntry = NoEntry
SYMMETRY Symmetry
INVARIANTS
    TypeOK
    AddressFound
    DurableKept
    FreeNidsFree
    OneOwner
    CheckpointedExact
CHECK_DEADLOCK FALSE
