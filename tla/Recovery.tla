------------------------------ MODULE Recovery ------------------------------
(***************************************************************************)
(* What survives a power cut: f2fs_do_sync_file, the checkpoint with its   *)
(* two packs, and roll-forward recovery at the next mount.                 *)
(*                                                                         *)
(* A file has two blocks: slot 0 is addressed by its inode block, slot 1   *)
(* by a direct node.  Node blocks are written to the warm node log, whose  *)
(* blocks are chained; recovery follows the chain from the position the    *)
(* checkpoint records.  The device has a volatile cache: every block has   *)
(* what was last written (cur) and what a power cut cannot take (safe).    *)
(*                                                                         *)
(* Not modelled: extended attributes, inline data, atomic files, the       *)
(* orphan list (Namespace), GC, and errors of the device.                  *)
(***************************************************************************)
EXTENDS Integers, Sequences, FiniteSets

CONSTANTS SyncInos,   \* inode numbers of regular files
          SyncNames,  \* file names
          SubDir,     \* a directory that mkdir may add beside the root
          Addrs,      \* data block addresses, positive numbers
          LogBlocks,  \* bound on the node blocks written between two checkpoints
          Scenarios   \* what happens in a behaviour:
                      \*   calls    the system calls, in the order they are issued
                      \*   flushes  how many nodes the flusher writes unasked
                      \*   crashes  how many power cuts there are
                      \*   reorder  the device completes node writes out of order
                      \*   again    power may fail during recovery's own checkpoint
                      \*   early    an fsync that returns before the pack of a checkpoint
                      \*            is complete counts at once
                      \*   reads    how often a NAT entry is read back into the cache

VARIABLES dsk, mem, cp, proc, promise, done, script

recVars == <<dsk, mem, cp, proc, promise, done, script>>

RootDir == "root"

Slots == {0, 1}

KindOf(s) == IF s = 0 THEN "inode" ELSE "dnode"

SlotOf(k) == IF k = "inode" THEN 0 ELSE 1

Unmapped == 0

Reserved == -1

Unknown == -1

Garbage == 9

NoCore == [size |-> 0, pino |-> RootDir, lost |-> FALSE, nlink |-> 0]

NoInode == [core |-> NoCore, dirty |-> FALSE, gdirty |-> FALSE, append |-> FALSE, update |-> FALSE]

NoNode == [live |-> FALSE, core |-> NoCore, name |-> "", addr |-> [s \in Slots |-> Unmapped]]

NoBlock == [ino |-> 0, kind |-> "inode", fsync |-> FALSE, dent |-> FALSE, core |-> NoCore,
            name |-> "", addr |-> Unmapped]

CleanPage == [val |-> 0, dirty |-> FALSE]

(* The NAT entry of an inode that is not in the cache; IS_CHECKPOINTED,     *)
(* HAS_FSYNCED_INODE and HAS_LAST_FSYNC as nat_reset_flag leaves them.      *)
NoEntry == [cached |-> FALSE, dirty |-> FALSE, cp |-> TRUE, fsynced |-> FALSE, last |-> TRUE]

nat_reset_flag(e) == [e EXCEPT !.cp = TRUE, !.fsynced = FALSE, !.last = TRUE]

cache_nat_entry(e) == [e EXCEPT !.cached = TRUE]

NoPromise == [on |-> FALSE, names |-> {}, size |-> Unknown, vals |-> [s \in Slots |-> Unknown]]

NoPromises == [i \in SyncInos |-> NoPromise]

IdleProc == [at |-> "idle", ino |-> 0, datasync |-> FALSE, todo |-> {}, seen |-> {},
             want |-> NoPromise]

(***************************************************************************)
(* Helpers of the in-memory state.                                         *)
(***************************************************************************)
Entries(d, i) == {e \in DOMAIN d : d[e] = i}

Dirtied(n, sync) == [n EXCEPT !.dirty = TRUE, !.gdirty = @ \/ sync]

update_inode(m, i) ==
    IF m.ino[i].dirty
    THEN [m EXCEPT !.node[i].core = m.ino[i].core, !.dirty = @ \cup {<<i, "inode">>},
                   !.ino[i].dirty = FALSE, !.ino[i].gdirty = FALSE]
    ELSE m

f2fs_sync_inode_meta(m) ==
    LET G == {i \in SyncInos : m.ino[i].gdirty}
    IN [m EXCEPT !.node = [i \in SyncInos |-> IF i \in G THEN [@[i] EXCEPT !.core = m.ino[i].core] ELSE @[i]],
                 !.dirty = @ \cup (G \X {"inode"}),
                 !.ino = [i \in SyncInos |->
                             IF i \in G THEN [@[i] EXCEPT !.dirty = FALSE, !.gdirty = FALSE] ELSE @[i]]]

Owned(nodes) == {nodes[i].addr[s] : i \in {j \in SyncInos : nodes[j].live}, s \in Slots}

FreeAddrs == Addrs \ (Owned(mem.node) \cup Owned(dsk.packs[mem.pack].image.node))

need_dentry_mark(m, i) == m.nat[i].cached /\ ~m.nat[i].cp /\ ~m.nat[i].fsynced

need_inode_block_update(m, i) ==
    ~(m.nat[i].cached /\ m.nat[i].last /\ (m.nat[i].cp \/ m.nat[i].fsynced))

(* What the new address of a node of kind k does to the entry of its inode *)
(* (virtual: NEW_ADDR or NULL_ADDR).  A direct node finds it or not.       *)
set_node_addr(nat, k, virtual, fsync_done) ==
    LET e == IF k = "inode" THEN [cache_nat_entry(nat) EXCEPT !.dirty = TRUE] ELSE nat
    IN IF ~e.cached THEN e
       ELSE [e EXCEPT !.cp = @ /\ ~(k = "inode" /\ virtual),
                      !.fsynced = @ \/ (fsync_done /\ k = "inode"),
                      !.last = fsync_done]

NodeBlock(m, i, k, fsync) ==
    [ino |-> i, kind |-> k, fsync |-> fsync,
     dent |-> fsync /\ k = "inode" /\ need_dentry_mark(m, i),
     core |-> IF k = "inode" THEN m.node[i].core ELSE NoCore,
     name |-> IF k = "inode" THEN m.node[i].name ELSE "",
     addr |-> m.node[i].addr[SlotOf(k)]]

Logged(l, p, b) ==
    IF p <= Len(l) THEN [l EXCEPT ![p].cur = b] ELSE Append(l, [cur |-> b, safe |-> NoBlock])

(* __write_node_page: the page goes to the next block of the warm node log *)
__write_node_page(i, k, fsync) ==
    LET m == IF fsync /\ k = "inode" THEN update_inode(mem, i) ELSE mem
    IN /\ mem.pos < LogBlocks
       /\ dsk' = [dsk EXCEPT !.log = Logged(@, mem.pos + 1, NodeBlock(m, i, k, fsync))]
       /\ mem' = [m EXCEPT !.pos = @ + 1, !.dirty = @ \ {<<i, k>>},
                           !.nat[i] = set_node_addr(@, k, FALSE, fsync)]

(* f2fs_evict_inode of a file without links: its blocks and pages go *)
Evicted(m, i) ==
    [m EXCEPT !.node[i] = NoNode, !.ino[i] = NoInode, !.page[i] = [s \in Slots |-> CleanPage],
              !.dirty = @ \ ({i} \X {"inode", "dnode"}), !.append = @ \ {i}, !.update = @ \ {i},
              !.nat[i] = set_node_addr(@, "inode", TRUE, FALSE)]

DropLink(m, i) ==
    IF m.ino[i].core.nlink = 1 THEN Evicted(m, i)
    ELSE [m EXCEPT !.ino[i] = Dirtied([@ EXCEPT !.core.nlink = @ - 1], TRUE)]

(* __f2fs_do_add_link for an inode that exists: the name goes to its page *)
f2fs_do_add_link(m, i, e) ==
    [m EXCEPT !.dent[e] = i, !.node[i].name = e[2], !.dirty = @ \cup {<<i, "inode">>},
              !.ino[i] = Dirtied([@ EXCEPT !.core.pino = e[1]], TRUE)]

(***************************************************************************)
(* What a returned fsync promises, and what later calls take back.         *)
(***************************************************************************)
Keep(p, i) ==
    [p EXCEPT !.names = {e \in @ : mem'.dent[e] = i},
              !.on = @ /\ mem'.node[i].live,
              !.size = IF mem'.ino[i].core.size = mem.ino[i].core.size THEN @ ELSE Unknown,
              !.vals = [s \in Slots |-> IF mem'.page[i][s].val = mem.page[i][s].val THEN @[s] ELSE Unknown]]

Voided ==
    /\ promise' = [promise EXCEPT !.now = [i \in SyncInos |-> Keep(@[i], i)]]
    /\ proc' = IF proc.at = "idle" THEN proc
               ELSE LET i == proc.ino
                        moved == mem'.ino[i].core.lost /\ mem'.node[i].name # mem.node[i].name
                    IN [proc EXCEPT !.want = [Keep(@, i) EXCEPT !.names = IF moved THEN {} ELSE @]]

(***************************************************************************)
(* System calls.  All but fsync run under f2fs_lock_op, which a checkpoint *)
(* takes away from block_operations until its pack is on the device.       *)
(***************************************************************************)
Issue(c) ==
    script.calls # <<>> /\ Head(script.calls) = c /\ script' = [script EXCEPT !.calls = Tail(@)]

Call(c) == mem.state = "up" /\ cp = "idle" /\ Issue(c)

f2fs_create(i, e) ==
    /\ Call(<<"create", i, e>>) /\ i \in mem.free /\ e[1] \in mem.dirs /\ mem.dent[e] = 0
    /\ mem' = [mem EXCEPT !.free = @ \ {i}, !.dent[e] = i,
                          !.node[i] = [NoNode EXCEPT !.live = TRUE, !.name = e[2]],
                          !.ino[i] = Dirtied([NoInode EXCEPT !.core = [NoCore EXCEPT !.pino = e[1],
                                                                                     !.nlink = 1]], TRUE),
                          !.dirty = @ \cup {<<i, "inode">>},
                          !.nat[i] = set_node_addr(@, "inode", TRUE, FALSE)]
    /\ UNCHANGED dsk /\ Voided

f2fs_mkdir ==
    /\ Call(<<"mkdir">>) /\ SubDir \notin mem.dirs
    /\ mem' = [mem EXCEPT !.dirs = @ \cup {SubDir}]
    /\ UNCHANGED dsk /\ Voided

f2fs_link(i, e) ==
    /\ Call(<<"link", i, e>>) /\ mem.node[i].live /\ e[1] \in mem.dirs /\ mem.dent[e] = 0
    /\ mem' = LET m == f2fs_do_add_link(mem, i, e)
              IN [m EXCEPT !.ino[i].core.lost = TRUE, !.ino[i].core.nlink = @ + 1]
    /\ UNCHANGED dsk /\ Voided

(* A file being synced is open: its last unlink would only orphan it. *)
Open(i) == proc.at # "idle" /\ proc.ino = i

UnlinkEntry(e) ==
    LET i == mem.dent[e]
    IN /\ Call(<<"unlink", e>>) /\ i # 0 /\ (Open(i) => mem.ino[i].core.nlink > 1)
       /\ mem' = DropLink([mem EXCEPT !.dent[e] = 0, !.trans = @ \cup {e[1]}], i)
       /\ UNCHANGED dsk /\ Voided

RenameEntry(e, t) ==
    LET i == mem.dent[e]
        j == mem.dent[t]
        m == IF j = 0 THEN f2fs_do_add_link(mem, i, t)
             ELSE DropLink([mem EXCEPT !.dent[t] = i], j)
    IN /\ Call(<<"rename", e, t>>) /\ i # 0 /\ i # j /\ t[1] \in mem.dirs
       /\ j # 0 => ~Open(j)
       /\ mem' = [m EXCEPT !.ino[i] = Dirtied([@ EXCEPT !.core.lost = TRUE], FALSE),
                           !.dent[e] = 0, !.trans = @ \cup {e[1], t[1]}]
       /\ UNCHANGED dsk /\ Voided

(* write_begin reserves the block; the page stays dirty in the cache *)
f2fs_write(i, s) ==
    LET grow == mem.ino[i].core.size < s + 1
        new == mem.node[i].addr[s] = Unmapped
    IN /\ Call(<<"write", i, s>>) /\ mem.node[i].live
       /\ mem' = [mem EXCEPT
                    !.page[i][s] = [val |-> (@.val % 2) + 1, dirty |-> TRUE],
                    !.node[i].addr[s] = IF new THEN Reserved ELSE @,
                    !.dirty = IF new THEN @ \cup {<<i, KindOf(s)>>, <<i, "inode">>} ELSE @,
                    !.nat[i] = IF new /\ s = 1 THEN set_node_addr(@, "dnode", TRUE, FALSE) ELSE @,
                    !.ino[i] = IF grow \/ new
                               THEN Dirtied([@ EXCEPT !.core.size = IF grow THEN s + 1 ELSE @], TRUE)
                               ELSE @]
       /\ UNCHANGED dsk /\ Voided

(* f2fs_setattr to size 0: truncate_blocks frees the blocks and the direct node *)
f2fs_truncate(i) ==
    /\ Call(<<"truncate", i>>) /\ mem.node[i].live /\ mem.ino[i].core.size > 0
    /\ mem' = [mem EXCEPT !.page[i] = [s \in Slots |-> CleanPage],
                          !.node[i].addr = [s \in Slots |-> Unmapped],
                          !.dirty = (@ \ {<<i, "dnode">>}) \cup {<<i, "inode">>},
                          !.nat[i] = IF mem.node[i].addr[1] = Unmapped THEN @
                                     ELSE set_node_addr(@, "dnode", TRUE, FALSE),
                          !.ino[i] = Dirtied([@ EXCEPT !.core.size = 0], TRUE)]
    /\ UNCHANGED dsk /\ Voided

(***************************************************************************)
(* Writeback, by the flusher or on behalf of an fsync.                     *)
(***************************************************************************)
Written(m, i, s) == [m EXCEPT !.page[i][s].dirty = FALSE]

Progress(i, s) ==
    proc' = IF Open(i) THEN [proc EXCEPT !.todo = @ \ {s}] ELSE proc

(* do_write_data_page, in place: the address stays, no node is dirtied *)
rewrite_data_page(i, s) ==
    /\ mem.state = "up" /\ mem.page[i][s].dirty /\ mem.node[i].addr[s] \in Addrs
    /\ dsk' = [dsk EXCEPT !.blk[mem.node[i].addr[s]].cur = mem.page[i][s].val]
    /\ mem' = [Written(mem, i, s) EXCEPT !.ino[i].update = TRUE]
    /\ Progress(i, s) /\ UNCHANGED <<promise, script>>

(* do_write_data_page, out of place: a new block and a dirty node, whose   *)
(* NAT entry is looked up for the summary                                  *)
write_data_page(i, s) ==
    /\ mem.state = "up" /\ cp = "idle" /\ mem.page[i][s].dirty
    /\ \E a \in FreeAddrs :
         /\ dsk' = [dsk EXCEPT !.blk[a].cur = mem.page[i][s].val]
         /\ mem' = [Written(mem, i, s) EXCEPT !.node[i].addr[s] = a, !.ino[i].append = TRUE,
                                              !.dirty = @ \cup {<<i, KindOf(s)>>},
                                              !.nat[i] = IF s = 0 THEN cache_nat_entry(@) ELSE @]
    /\ Progress(i, s) /\ UNCHANGED <<promise, script>>

(* sync_node_pages writes any dirty node, without marks *)
sync_node_pages(i, k) ==
    /\ mem.state \in {"up", "por"} /\ cp # "pack" /\ <<i, k>> \in mem.dirty
    /\ __write_node_page(i, k, FALSE)
    /\ IF cp = "blocked" THEN UNCHANGED script
       ELSE script.flushes > 0 /\ script' = [script EXCEPT !.flushes = @ - 1]
    /\ UNCHANGED <<promise, proc>>

(* f2fs_write_inode, by the flusher *)
f2fs_write_inode(i) ==
    /\ mem.state = "up" /\ mem.ino[i].dirty
    /\ mem' = update_inode(mem, i)
    /\ UNCHANGED <<dsk, promise, proc, script>>

(* A clean inode leaves the cache: what its flags say goes to the lists *)
EvictInode(i) ==
    LET n == mem.ino[i]
    IN /\ mem.state = "up" /\ ~Open(i) /\ ~n.dirty /\ (n.append \/ n.update)
       /\ \A s \in Slots : ~mem.page[i][s].dirty
       /\ mem' = [mem EXCEPT !.ino[i].append = FALSE, !.ino[i].update = FALSE,
                             !.append = IF n.append THEN @ \cup {i} ELSE @,
                             !.update = IF n.update THEN @ \cup {i} ELSE @]
       /\ UNCHANGED <<dsk, promise, proc, script>>

(* The shrinker drops a clean NAT entry *)
try_to_free_nats(i) ==
    /\ mem.state \in {"up", "por"} /\ mem.nat[i].cached /\ ~mem.nat[i].dirty
    /\ mem' = [mem EXCEPT !.nat[i] = NoEntry]
    /\ UNCHANGED <<dsk, promise, proc, script>>

(* Somebody looks up where the inode is (FIEMAP, GC, a read of its page) *)
get_node_info(i) ==
    /\ mem.state = "up" /\ mem.node[i].live /\ ~mem.nat[i].cached /\ script.reads > 0
    /\ mem' = [mem EXCEPT !.nat[i] = cache_nat_entry(@)]
    /\ script' = [script EXCEPT !.reads = @ - 1]
    /\ UNCHANGED <<dsk, promise, proc>>

(***************************************************************************)
(* f2fs_do_sync_file.                                                      *)
(***************************************************************************)
(* Wrong variant: names deleted since the checkpoint are not looked at. *)
ForgetsDeletedNames(i) ==
    LET c == mem.ino[i].core IN c.nlink # 1 \/ c.lost \/ c.pino \notin mem.dcp

need_do_checkpoint(i) ==
    LET c == mem.ino[i].core
    IN \/ c.nlink # 1
       \/ c.lost
       \/ c.pino \notin mem.dcp
       \/ need_dentry_mark(mem, i) /\ c.pino \in mem.trans

f2fs_do_sync_file(i, datasync) ==
    /\ mem.state = "up" /\ Issue(<<"fsync", i, datasync>>) /\ proc.at = "idle" /\ mem.node[i].live
    /\ proc' = [at |-> "data", ino |-> i, datasync |-> datasync,
                todo |-> {s \in Slots : mem.page[i][s].dirty}, seen |-> {},
                want |-> [on |-> TRUE,
                          names |-> IF datasync THEN {} ELSE Entries(mem.dent, i),
                          size |-> mem.ino[i].core.size,
                          vals |-> [s \in Slots |-> mem.page[i][s].val]]]
    /\ UNCHANGED <<dsk, mem, promise>>

(* f2fs_do_sync_file takes none of the locks of the checkpoint: it begins, *)
(* goes on and returns also between flush_nat_entries and the pack.        *)
At(p) == mem.state = "up" /\ proc.at = p /\ UNCHANGED script

Goto(p) == proc' = [proc EXCEPT !.at = p, !.todo = {}, !.seen = {}]

(* An fsync that returns before the pack is complete may have relied on it *)
SyncReturn ==
    /\ promise' = IF cp = "pack" /\ ~script.early
                  THEN [promise EXCEPT !.later[proc.ino] = proc.want]
                  ELSE [promise EXCEPT !.now[proc.ino] = proc.want]
    /\ proc' = IdleProc

(* The data is written: is there anything to be recovered? *)
SyncInode ==
    LET i == proc.ino
        n == mem.ino[i]
        skip == proc.datasync /\ ~n.gdirty
        page == <<i, "inode">> \in mem.dirty \/ need_inode_block_update(mem, i)
        go == ~skip \/ n.append \/ i \in mem.append \/ page
    IN /\ At("data") /\ \A s \in proc.todo : ~mem.page[i][s].dirty
       /\ mem' = IF skip THEN mem ELSE update_inode(mem, i)
       /\ UNCHANGED dsk
       /\ CASE go -> Goto("reason") /\ UNCHANGED promise
            [] ~go /\ (n.update \/ i \in mem.update) -> Goto("flush") /\ UNCHANGED promise
            [] OTHER -> SyncReturn

SyncReason ==
    /\ At("reason")
    /\ Goto(IF need_do_checkpoint(proc.ino) THEN "cp" ELSE "nodes")
    /\ UNCHANGED <<dsk, mem, promise>>

(* fsync_node_pages visits each node of the file and writes it if dirty *)
fsync_node_pages(k) ==
    /\ At("nodes") /\ k \notin proc.seen
    /\ proc' = [proc EXCEPT !.seen = @ \cup {k}]
    /\ IF <<proc.ino, k>> \in mem.dirty
       THEN cp # "pack" /\ __write_node_page(proc.ino, k, TRUE)
       ELSE UNCHANGED <<dsk, mem>>
    /\ UNCHANGED promise

SyncNodesDone ==
    LET i == proc.ino
        again == need_inode_block_update(mem, i)
    IN /\ At("nodes") /\ proc.seen = {"inode", "dnode"}
       /\ mem' = IF again THEN update_inode([mem EXCEPT !.ino[i] = Dirtied(@, TRUE)], i)
                 ELSE [mem EXCEPT !.append = @ \ {i}, !.ino[i].append = FALSE]
       /\ Goto(IF again THEN "nodes" ELSE "flush")
       /\ UNCHANGED <<dsk, promise>>

Settled(b) == [b EXCEPT !.safe = b.cur]

(* f2fs_issue_flush settles what the device has completed.  The nodes of   *)
(* this file were waited for; if the device reorders, others may lag.      *)
SyncFlush ==
    LET i == proc.ino
    IN /\ At("flush")
       /\ \E lag \in SUBSET {p \in 1 .. Len(dsk.log) : script.reorder /\ dsk.log[p].cur.ino # i} :
            dsk' = [dsk EXCEPT !.blk = [a \in Addrs |-> Settled(@[a])],
                               !.log = [p \in DOMAIN @ |-> IF p \in lag THEN @[p] ELSE Settled(@[p])]]
       /\ mem' = [mem EXCEPT !.update = @ \ {i}, !.ino[i].update = FALSE]
       /\ SyncReturn

try_to_fix_pino(m, i) ==
    IF m.ino[i].core.lost /\ m.ino[i].core.nlink = 1
    THEN [m EXCEPT !.ino[i] = Dirtied([@ EXCEPT !.core.lost = FALSE,
                                                !.core.pino = (CHOOSE e \in Entries(m.dent, i) : TRUE)[1]],
                                      TRUE)]
    ELSE m

(* f2fs_sync_fs has returned *)
SyncCheckpointed ==
    LET i == proc.ino
        m == try_to_fix_pino(mem, i)
    IN /\ At("fix") /\ cp = "idle"
       /\ mem' = [m EXCEPT !.ino[i].append = FALSE, !.ino[i].update = FALSE]
       /\ SyncReturn /\ UNCHANGED dsk

(***************************************************************************)
(* write_checkpoint.                                                       *)
(***************************************************************************)
(* block_operations stops the calls and writes back the dirty inodes *)
block_operations ==
    /\ mem.state = "up" /\ cp = "idle"
    /\ IF proc.at = "cp" THEN Goto("fix") /\ UNCHANGED script
       ELSE Issue(<<"checkpoint">>) /\ UNCHANGED proc
    /\ cp' = "blocked" /\ mem' = f2fs_sync_inode_meta(mem)
    /\ UNCHANGED <<dsk, promise, done>>

(* No dirty node is left: flush_nat_entries, flush_sit_entries *)
flush_nat_entries ==
    /\ cp = "blocked" /\ mem.dirty = {}
    /\ cp' = "pack"
    /\ mem' = [mem EXCEPT !.ver = @ + 1, !.dcp = mem.dirs,
                          !.nat = [i \in SyncInos |-> IF @[i].dirty
                                     THEN [nat_reset_flag(@[i]) EXCEPT !.dirty = FALSE] ELSE @[i]],
                          !.free = {i \in SyncInos : ~mem.node[i].live},
                          !.image = [dent |-> mem.dent, dirs |-> mem.dirs, node |-> mem.node]]
    /\ UNCHANGED <<dsk, promise, proc, done, script>>

NextPack == 3 - mem.pack

(* The pack is complete, and with it what was promised on the strength of it *)
Fulfilled ==
    [now |-> [i \in SyncInos |-> IF promise.later[i].on THEN promise.later[i] ELSE promise.now[i]],
     later |-> NoPromises]

(* The pack is written by one preflush, FUA bio behind all other blocks *)
Committed ==
    [blk |-> [a \in Addrs |-> Settled(dsk.blk[a])], log |-> <<>>,
     packs |-> [dsk.packs EXCEPT ![NextPack] = [head |-> mem.ver, tail |-> mem.ver, image |-> mem.image]]]

do_checkpoint ==
    /\ cp = "pack"
    /\ cp' = "idle" /\ done' = mem.ver
    /\ dsk' = Committed
    /\ mem' = [mem EXCEPT !.pack = NextPack, !.state = "up", !.pos = 0, !.image = <<>>,
                          !.trans = {}, !.append = {}, !.update = {}]
    /\ promise' = Fulfilled
    /\ UNCHANGED <<proc, script>>

(***************************************************************************)
(* A power cut keeps any of the writes since the last flush; of the node   *)
(* log it keeps a beginning, or any part when the device reorders.         *)
(***************************************************************************)
AfterCut(b, kept) == LET c == IF kept THEN b.cur ELSE b.safe IN [cur |-> c, safe |-> c]

Survived(packs) ==
    \E S \in SUBSET {a \in Addrs : dsk.blk[a].cur # dsk.blk[a].safe} :
    \E K \in IF script.reorder THEN SUBSET DOMAIN dsk.log ELSE {1 .. n : n \in 0 .. Len(dsk.log)} :
        dsk' = [blk |-> [a \in Addrs |-> AfterCut(dsk.blk[a], a \in S)],
                log |-> [p \in DOMAIN dsk.log |-> AfterCut(dsk.log[p], p \in K)],
                packs |-> packs]

TornPack == [dsk.packs EXCEPT ![NextPack].head = mem.ver]

Crash ==
    /\ mem.state \in {"up", "por"} /\ script.crashes > 0
    /\ mem.state = "por" => script.again
    /\ \/ /\ Survived(dsk.packs) \/ (cp = "pack" /\ Survived(TornPack))
          /\ promise' = [promise EXCEPT !.later = NoPromises]
       \/ cp = "pack" /\ dsk' = Committed /\ promise' = Fulfilled
    /\ mem' = [state |-> "down"] /\ cp' = "idle" /\ proc' = IdleProc
    /\ script' = [script EXCEPT !.crashes = @ - 1]
    /\ UNCHANGED done

(***************************************************************************)
(* Mount: get_valid_checkpoint, then recover_fsync_data.                   *)
(***************************************************************************)
validate_checkpoint(p) == p.head = p.tail

(* Wrong variant: the first valid pack wins. *)
FirstValidPack(packs) ==
    LET valid == {n \in 1 .. 2 : validate_checkpoint(packs[n])}
    IN IF valid = {} THEN 0 ELSE CHOOSE n \in valid : \A o \in valid : n <= o

get_valid_checkpoint(packs) ==
    LET valid == {n \in 1 .. 2 : validate_checkpoint(packs[n])}
    IN CASE valid = {1, 2} -> IF packs[2].head > packs[1].head THEN 2 ELSE 1
         [] valid = {}     -> 0
         [] OTHER          -> CHOOSE n \in valid : TRUE

(* The chain ends at the first block that is not of this checkpoint *)
Chain == LET last == CHOOSE n \in 0 .. Len(dsk.log) :
                        /\ \A p \in 1 .. n : dsk.log[p].cur.ino # 0
                        /\ n < Len(dsk.log) => dsk.log[n + 1].cur.ino = 0
         IN [p \in 1 .. last |-> dsk.log[p].cur]

Contents(m) ==
    [m EXCEPT !.page = [i \in SyncInos |-> [s \in Slots |->
        [CleanPage EXCEPT !.val = IF m.node[i].addr[s] \in Addrs THEN dsk.blk[m.node[i].addr[s]].cur ELSE 0]]]]

Loaded(n) ==
    LET im == dsk.packs[n].image
    IN [state |-> "up", dent |-> im.dent, dirs |-> im.dirs, dcp |-> im.dirs, node |-> im.node,
        ino |-> [i \in SyncInos |-> [NoInode EXCEPT !.core = im.node[i].core]],
        page |-> [i \in SyncInos |-> [s \in Slots |-> CleanPage]],
        dirty |-> {},
        nat |-> [i \in SyncInos |-> IF im.node[i].live THEN cache_nat_entry(NoEntry) ELSE NoEntry],
        free |-> {i \in SyncInos : ~im.node[i].live},
        trans |-> {}, append |-> {}, update |-> {}, ver |-> dsk.packs[n].head, pack |-> n, pos |-> 0,
        image |-> <<>>]

recover_inode_page(m, b) ==
    LET core == [b.core EXCEPT !.size = 0, !.nlink = 1]
    IN [m EXCEPT !.node[b.ino] = [NoNode EXCEPT !.live = TRUE, !.core = core, !.name = b.name],
                 !.ino[b.ino].core = core, !.dirty = @ \cup {<<b.ino, "inode">>},
                 !.free = @ \ {b.ino}, !.nat[b.ino] = set_node_addr(@, "inode", TRUE, FALSE)]

(* Step 1: which inodes have fsynced nodes, and where their last one is *)
FindDnode(r, b, p) ==
    LET listed == r.list[b.ino].blkaddr # 0
        create == ~listed /\ b.dent
    IN CASE r.err \/ ~b.fsync -> r
         [] create /\ r.m.node[b.ino].live -> [r EXCEPT !.err = TRUE]
         [] ~listed /\ ~create /\ ~r.m.node[b.ino].live -> r
         [] OTHER -> [r EXCEPT !.m = IF create THEN recover_inode_page(@, b) ELSE @,
                               !.list[b.ino].blkaddr = p,
                               !.list[b.ino].last_dentry = IF b.dent THEN p ELSE @]

find_fsync_dnodes(m0, chain) ==
    LET none == [i \in SyncInos |-> [blkaddr |-> 0, last_dentry |-> 0]]
        f[p \in 0 .. Len(chain)] ==
          IF p = 0 THEN [m |-> m0, err |-> FALSE, list |-> none]
          ELSE FindDnode(f[p - 1], chain[p], p)
    IN f[Len(chain)]

recover_inode(m, b) ==
    LET c == m.ino[b.ino].core
        n == [c EXCEPT !.size = b.core.size, !.lost = b.core.lost]
    IN [m EXCEPT !.ino[b.ino] = IF n = c THEN @ ELSE Dirtied([@ EXCEPT !.core = n], TRUE)]

recover_dentry(m, b) ==
    LET e == <<b.core.pino, b.name>>
        j == m.dent[e]
        rid == IF j = 0 THEN m
               ELSE DropLink([m EXCEPT !.dent[e] = 0, !.trans = @ \cup {e[1]}], j)
    IN IF j = b.ino THEN m ELSE f2fs_do_add_link(rid, b.ino, e)

(* The slot that uses the block now loses it *)
check_index_in_prev_nodes(m, a) ==
    [m EXCEPT !.node = [i \in SyncInos |->
        [@[i] EXCEPT !.addr = [s \in Slots |-> IF @[s] = a THEN Unmapped ELSE @[s]]]],
              !.dirty = @ \cup {<<x[1], KindOf(x[2])>> : x \in
                                 {y \in SyncInos \X Slots : m.node[y[1]].addr[y[2]] = a}}]

do_recover_data(m, b) ==
    LET i == b.ino
        s == SlotOf(b.kind)
        u == IF b.kind = "inode" THEN update_inode(m, i) ELSE m
        freed == IF b.addr \in Addrs THEN check_index_in_prev_nodes(u, b.addr) ELSE u
        sized == IF b.addr # Unmapped /\ freed.ino[i].core.size <= s
                 THEN [freed EXCEPT !.ino[i] = Dirtied([@ EXCEPT !.core.size = s + 1], TRUE)]
                 ELSE freed
        r == IF b.addr = u.node[i].addr[s] THEN u ELSE [sized EXCEPT !.node[i].addr[s] = b.addr]
        made == b.kind = "dnode" /\ u.node[i].addr[1] = Unmapped
    IN [r EXCEPT !.dirty = @ \cup {<<i, b.kind>>},
                 !.nat[i] = IF made THEN set_node_addr(@, "dnode", TRUE, FALSE) ELSE @]

(* Step 2: every node of a listed inode up to its last fsynced one *)
RecoverDnode(en, r, b, p) ==
    LET dentry == en.last_dentry = p
        m1 == IF b.kind = "inode" THEN recover_inode(r.m, b) ELSE r.m
    IN CASE r.err \/ p > en.blkaddr -> r
         [] dentry /\ b.core.pino \notin m1.dirs -> [r EXCEPT !.err = TRUE]
         [] OTHER -> [r EXCEPT !.m = do_recover_data(IF dentry THEN recover_dentry(m1, b) ELSE m1, b)]

recover_data(found, chain) ==
    LET f[p \in 0 .. Len(chain)] ==
          IF p = 0 THEN [m |-> found.m, err |-> found.err]
          ELSE RecoverDnode(found.list[chain[p].ino], f[p - 1], chain[p], p)
    IN f[Len(chain)]

(* recover_fsync_data ends with a checkpoint if it recovered anything *)
Mount ==
    LET n == get_valid_checkpoint(dsk.packs)
        found == find_fsync_dnodes(Loaded(n), Chain)
        none == \A i \in SyncInos : found.list[i].blkaddr = 0
        r == recover_data(found, Chain)
        failed == [Loaded(n) EXCEPT !.state = "failed"]
    IN /\ mem.state = "down" /\ n # 0
       /\ cp' = IF none \/ r.err THEN "idle" ELSE "blocked"
       /\ mem' = CASE found.err \/ (~none /\ r.err) -> failed
                   [] none                         -> Contents(Loaded(n))
                   [] OTHER -> [Contents(f2fs_sync_inode_meta(r.m)) EXCEPT !.state = "por"]
       /\ UNCHANGED <<dsk, proc, promise, done, script>>

-----------------------------------------------------------------------------
EmptyImage == [dent |-> [e \in {RootDir, SubDir} \X SyncNames |-> 0], dirs |-> {RootDir},
               node |-> [i \in SyncInos |-> NoNode]]

RecInit ==
    /\ dsk = [blk |-> [a \in Addrs |-> [cur |-> Garbage, safe |-> Garbage]], log |-> <<>>,
              packs |-> [n \in 1 .. 2 |-> [head |-> n, tail |-> n, image |-> EmptyImage]]]
    /\ mem = [Loaded(2) EXCEPT !.state = "up"]
    /\ cp = "idle" /\ proc = IdleProc /\ done = 2
    /\ promise = [now |-> NoPromises, later |-> NoPromises]
    /\ script \in Scenarios

Dentries == {RootDir, SubDir} \X SyncNames

SystemCall ==
    \/ f2fs_mkdir
    \/ \E e \in Dentries : UnlinkEntry(e)
    \/ \E e \in Dentries, t \in Dentries : RenameEntry(e, t)
    \/ \E i \in SyncInos :
         \/ \E e \in Dentries : f2fs_create(i, e) \/ f2fs_link(i, e)
         \/ \E s \in Slots : f2fs_write(i, s)
         \/ f2fs_truncate(i)
         \/ \E d \in BOOLEAN : f2fs_do_sync_file(i, d)

SyncStep ==
    \/ SyncInode \/ SyncReason \/ SyncNodesDone \/ SyncFlush \/ SyncCheckpointed
    \/ \E k \in {"inode", "dnode"} : fsync_node_pages(k)

Flusher ==
    \E i \in SyncInos :
        \/ \E s \in Slots : rewrite_data_page(i, s) \/ write_data_page(i, s)
        \/ \E k \in {"inode", "dnode"} : sync_node_pages(i, k)
        \/ f2fs_write_inode(i)
        \/ EvictInode(i)
        \/ try_to_free_nats(i)
        \/ get_node_info(i)

RecNext ==
    \/ (SystemCall \/ SyncStep \/ Flusher) /\ UNCHANGED <<cp, done>>
    \/ block_operations \/ flush_nat_entries \/ do_checkpoint
    \/ Crash \/ Mount

RecSpec == RecInit /\ [][RecNext]_recVars

-----------------------------------------------------------------------------
(* A file whose fsync or fdatasync returned is there after a power cut,    *)
(* under the names the fsync covered and with the size and the contents it *)
(* had, except for what later calls changed; and no mount fails on the way *)
(* (f2fs_do_sync_file, recover_fsync_data).  The code keeps this promise   *)
(* within limits, which Scenarios sets: an fsync that returns between      *)
(* flush_nat_entries and the end of the pack counts from the end of the    *)
(* pack (early), the device keeps node writes in order (reorder), no power *)
(* cut falls into the checkpoint that ends recovery (again), nobody reads  *)
(* back the NAT entry of an inode that was dropped (reads), and no block   *)
(* of a file with a direct node is written while the file is being synced  *)
(* (calls).                                                                *)
FsyncDurable ==
    /\ mem.state # "failed"
    /\ mem.state \in {"up", "por"} =>
         \A i \in SyncInos : LET p == promise.now[i] IN p.on =>
            /\ mem.node[i].live
            /\ \A e \in p.names : mem.dent[e] = i
            /\ p.size \in {Unknown, mem.ino[i].core.size}
            /\ \A s \in Slots : p.vals[s] \in {Unknown, mem.page[i][s].val}

(* However a power cut tears the pack that is being written, the two packs *)
(* hold a valid one, and the mount starts from the newest that was ever    *)
(* completed (do_checkpoint, get_valid_checkpoint).                        *)
MountsNewest ==
    IF mem.state = "down"
    THEN get_valid_checkpoint(dsk.packs) # 0
    ELSE mem.ver >= done
=============================================================================
