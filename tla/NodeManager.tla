---------------------------- MODULE NodeManager ----------------------------
(***************************************************************************)
(* The node manager of f2fs (node.c, node.h): free node ids and the node   *)
(* address table, from mount to crash.                                     *)
(*                                                                         *)
(* The address of node nid is in the NAT cache, else in the NAT journal of *)
(* the hot data summary, else in the NAT block of nid, which exists twice; *)
(* nat_bitmap says which copy counts.  A checkpoint flushes dirty cache    *)
(* entries to the journal or to the other copy of their block.  Free nids  *)
(* are found by scanning NAT blocks and journal, beside the processes that *)
(* take, use and return them.                                              *)
(*                                                                         *)
(* An action holds the locks of the code for its duration.  Where a lock   *)
(* is released in between, or another process needs none, the operation is *)
(* split.  The owner (ino), version and fsync marks of an entry are left   *)
(* out, and so is the order of clean entries and of the journal.           *)
(***************************************************************************)
EXTENDS Integers, FiniteSets, SequencesExt

CONSTANTS
    NatBlocks,         \* nm_i->nat_blocks
    NAT_ENTRY_PER_BLOCK,
    FirstNid,          \* nids below belong to mkfs: 0, node, meta and root inode
    FREE_NID_PAGES,    \* NAT blocks that one build_free_nids scans
    NAT_JOURNAL_ENTRIES,
    Addrs,             \* addresses of written node blocks
    Creators,          \* processes that create nodes
    ReadNids,          \* bound: nodes that get_node_info looks up
    MaxEvents,         \* bound: checkpoints and mounts
    NatBits,           \* CP_NAT_BITS_FLAG
    NULL_ADDR, NEW_ADDR,
    NoEntry            \* not in a cache, journal or list

max_nid == NatBlocks * NAT_ENTRY_PER_BLOCK
Nids == 0 .. max_nid - 1
Blks == 0 .. NatBlocks - 1
NAT_BLOCK_OFFSET(n) == n \div NAT_ENTRY_PER_BLOCK
NidsOf(b) == {n \in Nids : NAT_BLOCK_OFFSET(n) = b}
UserNids == FirstNid .. max_nid - 1
MAX_FREE_NIDS == NAT_ENTRY_PER_BLOCK * FREE_NID_PAGES

RawAddrs == Addrs \cup {NULL_ADDR}
NodeAddrs == RawAddrs \cup {NEW_ADDR}
EntryType == [blk_addr : NodeAddrs, checkpointed : BOOLEAN, dirty : BOOLEAN]
ReaderType == [nid : Nids, addr : RawAddrs \cup {NoEntry}, copy : {0, 1}]

ASSUME NatAssumption ==
    /\ {NatBlocks, NAT_ENTRY_PER_BLOCK, FREE_NID_PAGES} \subseteq Nat \ {0}
    /\ FirstNid \in 1 .. NAT_ENTRY_PER_BLOCK /\ FirstNid < NatBlocks * NAT_ENTRY_PER_BLOCK
    /\ NAT_JOURNAL_ENTRIES \in Nat
    /\ NULL_ADDR # NEW_ADDR /\ Addrs \cap {NULL_ADDR, NEW_ADDR} = {}
    /\ NoEntry \notin Addrs \cup {NULL_ADDR, NEW_ADDR} \cup Nids
    /\ NoEntry \notin EntryType /\ NoEntry \notin ReaderType
    /\ Addrs # {} /\ NatBits \in BOOLEAN /\ MaxEvents \in Nat

VARIABLES
    nat_root,       \* the NAT cache: NoEntry, or address and flags
    journal,        \* NAT journal: NoEntry, or address
    nat,            \* the two copies of the NAT area
    nat_bitmap,     \* the current copy of each block
    nat_bits,       \* whether enabled, and the empty and full NAT blocks
    free,           \* struct f2fs_nm_info: everything about free nids
    next_scan_nid,
    build,          \* progress of build_free_nids under build_lock
    scan,           \* the nid it has come to and the NAT blocks left
    pc, nid,        \* of each creator
    reader,         \* a get_node_info between its two critical sections
    cp,             \* progress of write_checkpoint
    disk,           \* the last durable checkpoint
    node,           \* what the address of each node is
    durable,        \* what it was at the last durable checkpoint
    events          \* checkpoints and mounts so far

caches == <<nat_root, journal, nat, nat_bitmap, nat_bits>>
builder == <<next_scan_nid, build, scan>>
procs == <<pc, nid, reader>>
vars == <<caches, free, builder, procs, cp, disk, node, durable, events>>

----------------------------------------------------------------------------
(* Free nids: operators on free, a record of free_nid_list, the nids that  *)
(* are PREALLOC_NID, available_nids, free_nid_bitmap, nat_block_bitmap and *)
(* free_nid_count.  Nids that are listed at once are listed by number.     *)

Listed(f) == ToSet(f.free_nid_list)

(* The elements of the sequence s that are in S, in their order            *)
Filter(s, S) ==
    LET kept[i \in 0 .. Len(s)] ==
            IF i = 0 THEN <<>>
            ELSE IF s[i] \in S THEN Append(kept[i - 1], s[i]) ELSE kept[i - 1]
    IN  kept[Len(s)]
Ascending(S) == Filter([i \in 1 .. max_nid |-> i - 1], S)

\* wrong variant: a nid on the list is listed again
InsertAgain(f, S) == [f EXCEPT !.free_nid_list = @ \o Ascending(S \ f.prealloc)]

(* free_nid_root refuses a nid that it has.                                *)
__insert_free_nid(f, S) ==
    [f EXCEPT !.free_nid_list = @ \o Ascending(S \ (Listed(f) \cup f.prealloc))]

(* update_free_nid_bitmap for the nids of on (set) and off (clear)         *)
update_free_nid_bitmap(f, on, off, building) ==
    LET scanned == {n \in Nids : NAT_BLOCK_OFFSET(n) \in f.nat_block_bitmap}
        set == (on \cap scanned) \ f.free_nid_bitmap
        clear == off \cap scanned \cap f.free_nid_bitmap
        delta(b) == Cardinality(set \cap NidsOf(b))
                    - IF building THEN 0 ELSE Cardinality(clear \cap NidsOf(b))
    IN  [f EXCEPT !.free_nid_bitmap = (@ \cup set) \ clear,
                  !.free_nid_count = [b \in Blks |-> @[b] + delta(b)]]

\* wrong variant: the scan does not look at the NAT cache
ScanIgnoresCache(f, cache, S, update) ==
    LET isfree == S \ ({0} \cup f.prealloc)
        g == __insert_free_nid(f, isfree)
    IN  IF update THEN update_free_nid_bitmap(g, isfree, S \ (isfree \cup {0}), TRUE) ELSE g

(* add_free_nid(nid, build = true) for the nids of S, with update or not   *)
add_free_nid_build(f, cache, S, update) ==
    LET used(n) == cache[n] # NoEntry /\ (~cache[n].checkpointed \/ cache[n].blk_addr # NULL_ADDR)
        isfree == {n \in S \ ({0} \cup f.prealloc) : ~used(n)}
        g == __insert_free_nid(f, isfree)
    IN  IF update THEN update_free_nid_bitmap(g, isfree, S \ (isfree \cup {0}), TRUE) ELSE g

(* add_free_nid(nid, build = false, update = true): a flushed free entry   *)
add_free_nid_flush(f, S) ==
    update_free_nid_bitmap([__insert_free_nid(f, S) EXCEPT !.available_nids = @ + Cardinality(S)],
                           S, {}, FALSE)

remove_free_nid(f, S) ==
    [f EXCEPT !.free_nid_list = Filter(@, Nids \ S)]

scan_nat_page(f, cache, page, start) ==
    LET b == NAT_BLOCK_OFFSET(start)
        f1 == [f EXCEPT !.nat_block_bitmap = @ \cup {b}]
        seen == {n \in NidsOf(b) : n >= start}
        null == {n \in seen : page[n] = NULL_ADDR}
    IN  update_free_nid_bitmap(add_free_nid_build(f1, cache, null, TRUE), {}, seen \ null, TRUE)

scan_curseg_cache(f, cache, j) ==
    LET null == {n \in Nids : j[n] = NULL_ADDR}
        used == {n \in Nids : j[n] \notin {NoEntry, NULL_ADDR}}
    IN  remove_free_nid(add_free_nid_build(f, cache, null, FALSE), used)

(* The bits that scan_free_nid_bits visits: up to MAX_FREE_NIDS free nids. *)
ScannedBits(f, cache) ==
    LET bits == {n \in f.free_nid_bitmap : f.free_nid_count[NAT_BLOCK_OFFSET(n)] # 0}
        upto(k) == {n \in bits : n <= k}
        enough(k) == Len(add_free_nid_build(f, cache, upto(k), FALSE).free_nid_list) >= MAX_FREE_NIDS
        stop == {k \in bits : enough(k)}
    IN  IF stop = {} THEN bits ELSE upto(CHOOSE k \in stop : \A l \in stop : k <= l)

scan_free_nid_bits(f, cache) == add_free_nid_build(f, cache, ScannedBits(f, cache), FALSE)

NextBlock(n) == LET m == (NAT_BLOCK_OFFSET(n) + 1) * NAT_ENTRY_PER_BLOCK
                IN  IF m >= max_nid THEN 0 ELSE m

(* One turn of the loop over NAT blocks, at nid n                          *)
ScanBlock(f, cache, page, n) ==
    IF NAT_BLOCK_OFFSET(n) \in f.nat_block_bitmap THEN f ELSE scan_nat_page(f, cache, page, n)

----------------------------------------------------------------------------
(* Addresses                                                               *)

Current(copies, bitmap) == [n \in Nids |-> copies[bitmap[NAT_BLOCK_OFFSET(n)]][n]]
OnDisk(copies, bitmap, j) ==
    [n \in Nids |-> IF j[n] # NoEntry THEN j[n] ELSE Current(copies, bitmap)[n]]

Entry(a, c, d) == [blk_addr |-> a, checkpointed |-> c, dirty |-> d]
Dirty(cache) == {n \in Nids : cache[n] # NoEntry /\ cache[n].dirty}
Journaled(j) == {n \in Nids : j[n] # NoEntry}

----------------------------------------------------------------------------
(* build_node_manager, on checkpoint d                                     *)

Unmapped == [n \in Nids |-> NoEntry]
NoCheckpoint == [phase |-> "idle", umount |-> FALSE, next_free_nid |-> 0]

(* Bits that an unmount has left say which blocks need no scan.            *)
load_free_nid_bitmap(f, bits) ==
    IF ~bits.enabled THEN f
    ELSE LET g == [f EXCEPT !.nat_block_bitmap = bits.empty \cup bits.full]
             nids == UNION {NidsOf(b) : b \in bits.empty}
         IN  update_free_nid_bitmap(g, nids, {}, TRUE)

InitFree(addr) ==
    [free_nid_list |-> <<>>, prealloc |-> {}, free_nid_bitmap |-> {}, nat_block_bitmap |-> {},
     free_nid_count |-> [b \in Blks |-> 0],
     available_nids |-> max_nid - Cardinality({n \in UserNids : addr[n] # NULL_ADDR}) - FirstNid]

(* build_free_nids(mount) scans FREE_NID_PAGES blocks from next_free_nid   *)
MountScan(f, page, start) ==
    LET at[i \in 0 .. FREE_NID_PAGES] == IF i = 0 THEN start ELSE NextBlock(at[i - 1])
        after[i \in 0 .. FREE_NID_PAGES] ==
            IF i = 0 THEN f ELSE ScanBlock(after[i - 1], Unmapped, page, at[i - 1])
    IN  [free |-> after[FREE_NID_PAGES], next |-> at[FREE_NID_PAGES]]

Mounted(d, copies) ==
    LET addr == OnDisk(copies, d.nat_bitmap, d.journal)
        m == MountScan(load_free_nid_bitmap(InitFree(addr), d.nat_bits),
                       Current(copies, d.nat_bitmap), d.next_free_nid)
    IN  [free |-> scan_curseg_cache(m.free, Unmapped, d.journal), next |-> m.next]

(* mkfs: no user node; the nids below FirstNid have addresses.             *)
Formatted == [n \in Nids |-> IF n \in 1 .. FirstNid - 1 THEN CHOOSE a \in Addrs : TRUE ELSE NULL_ADDR]

NatBitsOf(page, b) ==
    LET used == {n \in NidsOf(b) : n = 0 \/ page[n] # NULL_ADDR}
    IN  [empty |-> used = {}, full |-> used = NidsOf(b)]

Init ==
    /\ nat = [c \in {0, 1} |-> Formatted]
    /\ nat_bitmap = [b \in Blks |-> 0]
    /\ nat_bits = [enabled |-> NatBits, empty |-> Blks \ {0},
                   full |-> {b \in {0} : NatBitsOf(Formatted, b).full}]
    /\ disk = [nat_bitmap |-> nat_bitmap, journal |-> Unmapped, next_free_nid |-> FirstNid,
               nat_bits |-> nat_bits]
    /\ journal = Unmapped /\ nat_root = Unmapped
    /\ free = Mounted(disk, nat).free /\ next_scan_nid = Mounted(disk, nat).next
    /\ build = "none" /\ scan = [nid |-> 0, left |-> 0]
    /\ pc = [c \in Creators |-> "idle"] /\ nid = [c \in Creators |-> NoEntry]
    /\ reader = NoEntry
    /\ cp = NoCheckpoint
    /\ node = Formatted /\ durable = Formatted /\ events = 0

----------------------------------------------------------------------------
(* Locks.  Creation, truncation and alloc_nid run under f2fs_lock_op, node *)
(* writes under node_write: none of them while a checkpoint is made.  The  *)
(* scans hold nat_tree_lock for reading, and whoever reads or sets the     *)
(* address of a node holds the lock of its page.                           *)

OpLock == cp.phase = "idle"
NatWriteLock == build \notin {"bits_journal", "pages_next", "pages_journal"}
PageLock(n) == ~(reader # NoEntry /\ reader.nid = n)
Running == cp.phase # "unmounted" /\ ~cp.umount

\* wrong variant: the entry of a reallocated nid stays checkpointed
AddrKeepsFlag(n, addr) ==
    /\ NatWriteLock /\ PageLock(n)
    /\ nat_root' = [nat_root EXCEPT ![n] =
                       Entry(addr, nat_root[n] = NoEntry \/ nat_root[n].checkpointed, TRUE)]
    /\ node' = [node EXCEPT ![n] = addr]
    /\ UNCHANGED <<journal, nat, nat_bitmap, nat_bits>>

(* set_node_addr: a new cache entry counts as checkpointed.                *)
set_node_addr(n, addr) ==
    /\ NatWriteLock /\ PageLock(n)
    /\ LET kept == nat_root[n] = NoEntry \/ nat_root[n].checkpointed
       IN  nat_root' = [nat_root EXCEPT ![n] =
                          Entry(addr, kept /\ addr \notin {NULL_ADDR, NEW_ADDR}, TRUE)]
    /\ node' = [node EXCEPT ![n] = addr]
    /\ UNCHANGED <<journal, nat, nat_bitmap, nat_bits>>

----------------------------------------------------------------------------
(* Creation of a node by c (f2fs_new_inode, get_dnode_of_data, xattrs)     *)

\* wrong variant: the list is used while it is built
NeverBuilding == FALSE

on_build_free_nids == build # "none"

alloc_nid(c) ==
    /\ OpLock /\ pc[c] = "idle"
    /\ free.available_nids # 0 /\ ~on_build_free_nids
    /\ free.free_nid_list # <<>>
    /\ LET n == Head(free.free_nid_list)
       IN  /\ nid' = [nid EXCEPT ![c] = n]
           /\ free' = update_free_nid_bitmap(
                        [free EXCEPT !.free_nid_list = Tail(@), !.prealloc = @ \cup {n},
                                     !.available_nids = @ - 1],
                        {}, {n}, FALSE)
    /\ pc' = [pc EXCEPT ![c] = "allocated"]
    /\ UNCHANGED <<caches, builder, reader, cp, disk, node, durable, events>>

new_node_page(c) ==
    /\ OpLock /\ pc[c] = "allocated"
    /\ set_node_addr(nid[c], NEW_ADDR)
    /\ pc' = [pc EXCEPT ![c] = "created"]
    /\ UNCHANGED <<free, builder, nid, reader, cp, disk, durable, events>>

alloc_nid_done(c) ==
    /\ pc[c] = "created"
    /\ free' = [free EXCEPT !.prealloc = @ \ {nid[c]}]
    /\ pc' = [pc EXCEPT ![c] = "idle"] /\ nid' = [nid EXCEPT ![c] = NoEntry]
    /\ UNCHANGED <<caches, builder, reader, cp, disk, node, durable, events>>

(* The nid goes back to the list, or is dropped when memory is short.      *)
alloc_nid_failed(c) ==
    /\ pc[c] = "allocated"
    /\ \E back \in {<<nid[c]>>, <<>>} :
         free' = update_free_nid_bitmap(
                   [free EXCEPT !.free_nid_list = @ \o back, !.prealloc = @ \ {nid[c]},
                                !.available_nids = @ + 1],
                   {nid[c]}, {}, FALSE)
    /\ pc' = [pc EXCEPT ![c] = "idle"] /\ nid' = [nid EXCEPT ![c] = NoEntry]
    /\ UNCHANGED <<caches, builder, reader, cp, disk, node, durable, events>>

(* Nodes in use: written to a new place, or truncated.  A node is not      *)
(* truncated before its creator has finished with it.                      *)
write_node_page(n, addr) ==
    /\ OpLock /\ node[n] \notin {NULL_ADDR, addr}
    /\ set_node_addr(n, addr)
    /\ UNCHANGED <<free, builder, procs, cp, disk, durable, events>>

truncate_node(n) ==
    /\ OpLock /\ node[n] # NULL_ADDR /\ \A c \in Creators : nid[c] # n
    /\ set_node_addr(n, NULL_ADDR)
    /\ UNCHANGED <<free, builder, procs, cp, disk, durable, events>>

----------------------------------------------------------------------------
(* get_node_info of a node that is not cached: the address is looked up    *)
(* under nat_tree_lock, then the lock is dropped, a NAT block is read and  *)
(* the entry is cached, unless memory is short.                            *)

get_node_info(n) ==
    /\ Running /\ n \in ReadNids /\ reader = NoEntry /\ nat_root[n] = NoEntry
    /\ reader' = [nid |-> n, addr |-> journal[n], copy |-> nat_bitmap[NAT_BLOCK_OFFSET(n)]]
    /\ UNCHANGED <<caches, free, builder, pc, nid, cp, disk, node, durable, events>>

ReadAddr == IF reader.addr # NoEntry THEN reader.addr ELSE nat[reader.copy][reader.nid]

cache_nat_entry ==
    /\ reader # NoEntry /\ NatWriteLock
    /\ nat_root' \in {nat_root} \cup
         IF nat_root[reader.nid] # NoEntry THEN {}
         ELSE {[nat_root EXCEPT ![reader.nid] = Entry(ReadAddr, TRUE, FALSE)]}
    /\ reader' = NoEntry
    /\ UNCHANGED <<journal, nat, nat_bitmap, nat_bits, free, builder, pc, nid, cp, disk, node, durable, events>>

try_to_free_nats(n) ==
    /\ Running /\ NatWriteLock /\ nat_root[n] # NoEntry /\ ~nat_root[n].dirty
    /\ nat_root' = [nat_root EXCEPT ![n] = NoEntry]
    /\ UNCHANGED <<journal, nat, nat_bitmap, nat_bits, free, builder, procs, cp, disk, node, durable, events>>

----------------------------------------------------------------------------
(* build_free_nids, called by alloc_nid that finds no free nid and from    *)
(* f2fs_balance_fs_bg, under build_lock                                    *)

build_free_nids ==
    /\ Running /\ build = "none" /\ Len(free.free_nid_list) < NAT_ENTRY_PER_BLOCK
    /\ build' = "bits"
    /\ UNCHANGED <<caches, free, next_scan_nid, scan, procs, cp, disk, node, durable, events>>

build_bits ==
    /\ build = "bits" /\ build' = "bits_journal"
    /\ free' = scan_free_nid_bits(free, nat_root)
    /\ UNCHANGED <<caches, next_scan_nid, scan, procs, cp, disk, node, durable, events>>

build_bits_journal ==
    /\ build = "bits_journal"
    /\ free' = scan_curseg_cache(free, nat_root, journal)
    /\ IF Len(free'.free_nid_list) >= NAT_ENTRY_PER_BLOCK
       THEN build' = "none" /\ UNCHANGED scan
       ELSE build' = "pages" /\ scan' = [nid |-> next_scan_nid, left |-> FREE_NID_PAGES]
    /\ UNCHANGED <<caches, next_scan_nid, procs, cp, disk, node, durable, events>>

build_pages ==
    /\ build \in {"pages", "pages_next"}
    /\ free' = ScanBlock(free, nat_root, Current(nat, nat_bitmap), scan.nid)
    /\ scan' = [nid |-> NextBlock(scan.nid), left |-> scan.left - 1]
    /\ build' = IF scan.left = 1 THEN "pages_journal" ELSE "pages_next"
    /\ UNCHANGED <<caches, next_scan_nid, procs, cp, disk, node, durable, events>>

build_pages_journal ==
    /\ build = "pages_journal" /\ build' = "none"
    /\ next_scan_nid' = scan.nid
    /\ scan' = [nid |-> 0, left |-> 0]
    /\ free' = scan_curseg_cache(free, nat_root, journal)
    /\ UNCHANGED <<caches, procs, cp, disk, node, durable, events>>

try_to_free_nids ==
    /\ Running /\ build = "none"
    /\ Len(free.free_nid_list) > MAX_FREE_NIDS
    /\ \E nr_shrink \in 1 .. Len(free.free_nid_list) - MAX_FREE_NIDS :
         free' = [free EXCEPT !.free_nid_list = SubSeq(@, nr_shrink + 1, Len(@))]
    /\ UNCHANGED <<caches, builder, procs, cp, disk, node, durable, events>>

----------------------------------------------------------------------------
(* write_checkpoint                                                        *)

(* flush_nat_entries, with the NAT blocks of J going to the journal.       *)
MustMerge(unmount) ==
    \/ unmount /\ nat_bits.enabled
    \/ Cardinality(Dirty(nat_root)) > NAT_JOURNAL_ENTRIES - Cardinality(Journaled(journal))

\* wrong variant: available_nids counts them twice
CountedTwice == {}

(* Free nids of the journal that nobody has used since the last checkpoint *)
(* leave available_nids, since their flush adds them again.                *)
Unused == {n \in Journaled(journal) \ Dirty(nat_root) : journal[n] = NULL_ADDR}

(* remove_nats_in_journal: the journal's entries become dirty.             *)
Merged ==
    [nat_root |-> [n \in Nids |->
        IF journal[n] = NoEntry THEN nat_root[n]
        ELSE IF nat_root[n] = NoEntry THEN Entry(journal[n], TRUE, TRUE)
        ELSE [nat_root[n] EXCEPT !.dirty = TRUE]],
     journal |-> Unmapped, unused |-> Unused]

NotMerged == [nat_root |-> nat_root, journal |-> journal, unused |-> {}]

(* The sets of entries of a block are flushed by ascending size, to the    *)
(* journal as long as it has room for them.                                *)
JournalSets(D, room) ==
    LET sets == {NAT_BLOCK_OFFSET(n) : n \in D}
        size(B) == Cardinality({n \in D : NAT_BLOCK_OFFSET(n) \in B})
    IN  {J \in SUBSET sets :
           /\ size(J) <= room
           /\ \A b \in sets \ J : /\ size(J \cup {b}) > room
                                   /\ \A j \in J : size({j}) <= size({b})}

\* wrong variant: the other copy of the block is not brought up to date
OtherCopy(B) == nat

(* get_next_nat_page copies the current copies of the blocks of B.         *)
get_next_nat_page(B) ==
    [c \in {0, 1} |-> [n \in Nids |-> IF NAT_BLOCK_OFFSET(n) \in B
                                       THEN Current(nat, nat_bitmap)[n] ELSE nat[c][n]]]

\* wrong variant: the block is written in place
SameCopy(B) == nat_bitmap

set_to_next_nat(B) == [b \in Blks |-> IF b \in B THEN 1 - nat_bitmap[b] ELSE nat_bitmap[b]]

__flush_nat_entry_set(m, J) ==
    LET D == Dirty(m.nat_root)
        addr(n) == m.nat_root[n].blk_addr
        flip == {NAT_BLOCK_OFFSET(n) : n \in D} \ J
        null == {n \in D : addr(n) = NULL_ADDR}
        bitmap == set_to_next_nat(flip)
        written(n) == n \in D /\ NAT_BLOCK_OFFSET(n) \in flip
        copies == [c \in {0, 1} |-> [n \in Nids |->
                     IF c = bitmap[NAT_BLOCK_OFFSET(n)] /\ written(n) THEN addr(n)
                     ELSE get_next_nat_page(flip)[c][n]]]
        page == Current(copies, bitmap)
        keep(old, is) == (old \ flip) \cup {b \in flip : is[b]}
    IN  /\ nat_root' = [n \in Nids |-> IF n \in D THEN Entry(addr(n), TRUE, FALSE) ELSE m.nat_root[n]]
        /\ journal' = [n \in Nids |-> IF n \in D /\ NAT_BLOCK_OFFSET(n) \in J THEN addr(n)
                                      ELSE m.journal[n]]
        /\ nat_bitmap' = bitmap /\ nat' = copies
        /\ nat_bits' = IF ~nat_bits.enabled THEN nat_bits
                       ELSE [nat_bits EXCEPT
                               !.empty = keep(@, [b \in Blks |-> NatBitsOf(page, b).empty]),
                               !.full = keep(@, [b \in Blks |-> NatBitsOf(page, b).full])]
        /\ free' = update_free_nid_bitmap(
                     add_free_nid_flush([free EXCEPT !.available_nids = @ - Cardinality(m.unused)], null),
                     {}, D \ null, FALSE)

flush_nat_entries(unmount) ==
    IF Dirty(nat_root) = {} THEN UNCHANGED <<caches, free>>
    ELSE LET m == IF MustMerge(unmount) THEN Merged ELSE NotMerged
             room == NAT_JOURNAL_ENTRIES - Cardinality(Journaled(m.journal))
         IN  \E J \in IF unmount /\ nat_bits.enabled THEN {{}} ELSE JournalSets(Dirty(m.nat_root), room) :
               __flush_nat_entry_set(m, J)

(* block_operations stops the other operations once every node is written, *)
(* and notes where the next mount starts its scan: the first nid on the    *)
(* list.  The checkpoint of f2fs_put_super runs without other processes.   *)
Alone == build = "none" /\ reader = NoEntry /\ \A c \in Creators : pc[c] = "idle"
next_free_nid == IF free.free_nid_list = <<>> THEN next_scan_nid ELSE Head(free.free_nid_list)

block_operations(unmount) ==
    /\ cp.phase = "idle" /\ \A n \in Nids : node[n] # NEW_ADDR
    /\ unmount => Alone
    /\ cp' = [phase |-> "blocked", umount |-> unmount, next_free_nid |-> next_free_nid]
    /\ events < MaxEvents /\ events' = events + 1
    /\ UNCHANGED <<caches, free, builder, procs, disk, node, durable>>

write_checkpoint ==
    /\ cp.phase = "blocked" /\ NatWriteLock
    /\ cp' = [cp EXCEPT !.phase = "flushed"]
    /\ flush_nat_entries(cp.umount)
    /\ UNCHANGED <<builder, procs, disk, node, durable, events>>

(* The NAT blocks are on disk before the checkpoint pack.  Only an unmount *)
(* writes the NAT bits; a mount finds others to be of an older checkpoint. *)
do_checkpoint ==
    /\ cp.phase = "flushed"
    /\ cp' = IF cp.umount THEN [NoCheckpoint EXCEPT !.phase = "unmounted"] ELSE NoCheckpoint
    /\ disk' = [nat_bitmap |-> nat_bitmap, journal |-> journal, next_free_nid |-> cp.next_free_nid,
                nat_bits |-> [nat_bits EXCEPT !.enabled = @ /\ cp.umount]]
    /\ durable' = node
    /\ UNCHANGED <<caches, free, builder, procs, node, events>>

(* The volume is mounted, after umount or after a crash in any state.   *)
build_node_manager ==
    /\ nat_root' = Unmapped /\ journal' = disk.journal /\ nat_bitmap' = disk.nat_bitmap
    /\ nat_bits' = disk.nat_bits
    /\ LET m == Mounted(disk, nat)
       IN  free' = m.free /\ next_scan_nid' = m.next
    /\ build' = "none" /\ scan' = [nid |-> 0, left |-> 0]
    /\ pc' = [c \in Creators |-> "idle"] /\ nid' = [c \in Creators |-> NoEntry]
    /\ reader' = NoEntry
    /\ cp' = NoCheckpoint
    /\ node' = durable
    /\ events < MaxEvents /\ events' = events + 1
    /\ UNCHANGED <<nat, disk, durable>>

Next ==
    \/ \E c \in Creators : alloc_nid(c) \/ new_node_page(c) \/ alloc_nid_done(c) \/ alloc_nid_failed(c)
    \/ \E n \in UserNids : \/ truncate_node(n) \/ get_node_info(n) \/ try_to_free_nats(n)
                           \/ \E a \in Addrs : write_node_page(n, a)
    \/ cache_nat_entry
    \/ build_free_nids \/ build_bits \/ build_bits_journal \/ build_pages \/ build_pages_journal
    \/ try_to_free_nids
    \/ \E u \in BOOLEAN : block_operations(u)
    \/ write_checkpoint \/ do_checkpoint \/ build_node_manager

Spec == Init /\ [][Next]_vars

----------------------------------------------------------------------------
(* Properties                                                              *)

(* Shape of the state.  The list has no nid twice and none that is handed  *)
(* out, no count of struct f2fs_nm_info leaves its range, and the journal  *)
(* never overflows.                                                        *)
TypeOK ==
    /\ nat_root \in [Nids -> EntryType \cup {NoEntry}]
    /\ journal \in [Nids -> RawAddrs \cup {NoEntry}]
    /\ nat \in [{0, 1} -> [Nids -> RawAddrs]] /\ nat_bitmap \in [Blks -> {0, 1}]
    /\ IsInjective(free.free_nid_list) /\ Listed(free) \subseteq UserNids
    /\ free.prealloc \subseteq UserNids \ Listed(free)
    /\ free.available_nids \in 0 .. max_nid
    /\ free.free_nid_bitmap \subseteq UserNids /\ free.nat_block_bitmap \subseteq Blks
    /\ free.free_nid_count \in [Blks -> 0 .. NAT_ENTRY_PER_BLOCK]
    /\ next_scan_nid \in Nids
    /\ Cardinality(Journaled(journal)) <= NAT_JOURNAL_ENTRIES

(* An address is in the cache, the journal or two copies of a NAT block.   *)
(* Whatever was evicted, merged or flushed, get_node_info finds the        *)
(* address that set_node_addr has set last; and what a reader is about to  *)
(* cache is that address (f2fs_bug_on of cache_nat_entry).                 *)
AddressFound ==
    /\ \A n \in UserNids :
         node[n] = IF nat_root[n] # NoEntry THEN nat_root[n].blk_addr
                   ELSE OnDisk(nat, nat_bitmap, journal)[n]
    /\ reader # NoEntry => ReadAddr = node[reader.nid]

(* A crash at any moment brings back the addresses of the last checkpoint: *)
(* no flush writes to the copies of NAT blocks that it refers to.          *)
DurableKept == OnDisk(nat, disk.nat_bitmap, disk.journal) = durable

(* While nobody builds the list, a nid on it is not in use, was not in use *)
(* at the last checkpoint and is in nobody's hands.                        *)
FreeNidsFree == build = "none" => \A n \in Listed(free) :
    /\ n \in UserNids /\ node[n] = NULL_ADDR
    /\ OpLock => durable[n] = NULL_ADDR

(* A nid that alloc_nid has handed out stays marked until alloc_nid_done   *)
(* or alloc_nid_failed, whose f2fs_bug_on says so, and has one owner.      *)
OneOwner == \A c \in Creators : pc[c] # "idle" =>
    /\ nid[c] \in free.prealloc
    /\ \A d \in Creators \ {c} : nid[d] # nid[c]
    /\ pc[c] = "allocated" => node[nid[c]] = NULL_ADDR /\ (OpLock => durable[nid[c]] = NULL_ADDR)

(* alloc_nid fails exactly when no nid is left: available_nids counts the  *)
(* nids that are neither in use nor handed out nor freed since the flush.  *)
AvailableExact == free.available_nids = Cardinality(
    {n \in UserNids : /\ node[n] = NULL_ADDR /\ n \notin free.prealloc
                      /\ n \notin Dirty(nat_root)})

(* is_checkpointed_node says of a node in use whether the last checkpoint  *)
(* has it, however often its nid was freed, reused, cached and evicted     *)
(* since.  fsync chooses by it between a checkpoint and roll-forward.      *)
CheckpointedExact == OpLock => \A n \in UserNids : node[n] # NULL_ADDR =>
    ((nat_root[n] = NoEntry \/ nat_root[n].checkpointed) <=> durable[n] # NULL_ADDR)

(* alloc_nid and build_free_nids come to nid n: it is listed, or the next  *)
(* scans of the bitmap, of NAT blocks or of the journal list it.           *)
Findable(n) ==
    \/ n \in Listed(free)
    \/ NAT_BLOCK_OFFSET(n) \notin free.nat_block_bitmap
    \/ n \in free.free_nid_bitmap /\ free.free_nid_count[NAT_BLOCK_OFFSET(n)] # 0
    \/ journal[n] = NULL_ADDR

(* "Let's scan nat pages and its caches to get free nids" (alloc_nid):     *)
(* every nid that available_nids counts can be found.                      *)
NidsFindable == build = "none" => \A n \in UserNids :
    node[n] = NULL_ADDR /\ n \notin free.prealloc /\ n \notin Dirty(nat_root)
        => Findable(n)

=============================================================================
