# f2fs: a TLA+ verification project

TLA+ models of the f2fs file system of this repository (`src/`), the TLC
configurations that check them, and TLAPS proofs of the properties that matter
most. Every definition keeps the name of the C function or structure it
translates where TLA+ allows it; `PROJECT.json` gives the lines of each.

## 1. The system

f2fs is a log-structured file system. It never updates a block in place (apart
from the in-place-update policies): it appends blocks to one of six *logs*, each
of which fills a *current segment*, and keeps translation tables on disk in
areas of their own. A *checkpoint* makes the present state durable; after a
crash the last complete checkpoint is loaded and the nodes that `fsync` wrote
since are replayed.

### Components

| component | state | operations | correct when |
|---|---|---|---|
| segment manager (`segment.c/h`) | SIT entries (valid map, checkpointed map, counters), free-segment and free-section bitmaps, dirty and prefree lists, six `curseg_info` | allocate, invalidate and exchange blocks; pick segments (LFS, SSR); flush the SIT; rebuild all at mount | no block of the last checkpoint or of the fsync node chain is overwritten; logs never share a section; lists and counters follow the bitmaps; no space is lost |
| garbage collection (`gc.c/h`) | `victim_secmap`, `cur_victim_sec`, the GC thread | choose a victim, find its live blocks, move them | a moved block was alive and stays reachable; nobody writes into a victim |
| flush merging (`segment.c`, `super.c`) | `flush_cmd_control`: two lists, a counter, a thread | `f2fs_issue_flush`, `issue_flush_thread`, creation and destruction at remount | fsync that returns 0 is durable; every call returns; no command outlives its caller |
| checkpoint (`checkpoint.c`) | two packs with versions and checksums, orphan and dirty-inode lists, `cp_rwsem`, `node_write` | `block_operations`, `do_checkpoint`, `get_valid_checkpoint`, orphan handling | a crash at any point leaves one complete pack, and the newer complete one is loaded |
| node manager (`node.c/h`) | NAT cache with flags and sets, free-nid cache and bitmap, NAT journal and pages | allocate and free nids, look up and set addresses, flush | no nid is given out twice; a checkpoint holds the addresses of its moment |
| node tree (`node.c`) | index of a file: direct, indirect and double-indirect nodes | `get_node_path`, `get_dnode_of_data`, truncation | the arithmetic is a bijection; truncation frees exactly the tail |
| roll-forward recovery (`recovery.c`) | the node chain after the checkpoint | find fsynced inodes, replay names and data | what fsync acknowledged is back |
| extent cache (`extent_cache.c`) | tree of extents and the largest one, per inode | lookup, range update with split and merge, shrink | agrees with the block map |
| discard (`segment.c`) | pending lists by size, a tree, the issue thread | queue, merge, issue, wait, punch out | no block in use is discarded |
| atomic and volatile writes (`segment.c`, `file.c`) | in-memory pages with their old addresses | commit, revoke, drop | all or nothing |
| data path (`data.c`) | write bios under construction, page flags | read, write, map, merge bios | a page is on disk where its node says |
| file operations (`file.c`, `inode.c`) | inode flags and sizes | fsync, truncate, punch, collapse, insert, move range, evict | fsync writes a checkpoint whenever roll-forward would not do |
| names (`dir.c`, `namei.c`, `hash.c`, `inline.c`) | multi-level hash tables, inline dentries, link counts | lookup, add, delete, rename, convert | a name is found at one place; counts agree |
| xattrs and ACLs (`xattr.c/h`, `acl.c/h`) | an entry list in the inode and in a block | get, set, list | the list is well formed |
| mount (`super.c`), shrinker, sysfs, debugfs, tracing | options, tunables, statistics | mount, remount, unmount, shrink | remount restores what it changed when it fails |

### How they interact

The file operations lock `cp_rwsem` for reading (`f2fs_lock_op`), change node
pages and write data pages through `data.c` and `node.c`, which both end in
`do_write_page` and `allocate_data_block` of the segment manager. The node
manager is told the new address of a node, the node page the new address of a
datum. `write_checkpoint` takes the lock for writing, writes dirty directories
and nodes, flushes NAT and SIT and writes a pack. GC runs under `gc_mutex`,
picks a section and rewrites its live blocks through the same writers; SSR asks
GC's victim selection for a segment to reuse. fsync waits for its node blocks
and calls `f2fs_issue_flush`. Device completion calls back into `data.c`, which
sets `CP_ERROR_FLAG` when the write of metadata failed.

### What is hard

- *Crash consistency*: three views of a block's validity (now, last checkpoint,
  fsync chain) are kept by small updates in many functions; a wrong one shows
  only after a crash at the wrong moment.
- *Half-done checkpoints*: memory has moved on while the disk has not.
- *Long histories*: lists and counters drift only over mixes of writes,
  exchanges, SSR, GC, checkpoints and mounts.
- *Interleavings*: flush thread, discard thread, GC thread, remount, fsync
  callers and device completions.
- *Lost wake-ups and stack-allocated commands* in the flush merging.

`PROJECT.json` lists the hazards line by line with the properties that cover
them; those without a property say why.

## 2. Modules

| module | what it is |
|---|---|
| `Segment` | the segment manager and victim selection, from mount to crash |
| `MCSegment` | small instances of it |
| `SegmentProofs` | the proofs about what its logs write |
| `SegmentListProofs` | the proofs about its counters, lists and sections |
| `FlushMerge` | fsync callers, flush thread and remount |
| `MCFlushMerge` | small instances of it |
| `FlushMergeProofs` | the proofs about it |
| `NodeManager` | free nids and the node address table, from mount to crash |
| `MCNodeManager` | small instances of it |
| `NodeManagerProofs` | the proofs about the node address table |
| `NodeListProofs` | the proofs about free nids, their owners and the checkpointed flag |
| `NodePath` | the index arithmetic of the node tree |
| `ExtentCache` | the extent cache as operators on a set of extents |
| `AbstractFile` | what the operations on a file promise: contents and size |
| `FileMap` | a file's node tree, addresses, extents, inline data and size, on top of the two above; implements `AbstractFile` |
| `MCFileMap` | files and operations to try on them |
| `Discard` | discard commands, their thread, FITRIM and unmount against writers |
| `DiscardProofs` | the proofs about it |
| `Directory` | one directory, inline or hashed |
| `Namespace` | names, link counts, orphans and eviction over several directories |
| `NamespaceProofs` | the proofs about the name space and about one directory |
| `Recovery` | fsync, the checkpoint packs and roll-forward recovery |
| `RecoveryProofs` | the proofs about the packs |
| `MCRecovery` | programs of system calls for it |
| `MCParts` | `Discard`, `Directory`, `Namespace` and `Recovery` side by side, for one run |

### Segment

State: `sit` (`struct sit_info` with the `seg_entry` and `sec_entry` arrays as
functions of the segment), `free` (`free_segmap_info`; the set of bits),
`dirty` (`dirty_seglist_info`), `curseg` (a record per log), `cur_victim_sec`,
`cp_phase` and `cp_error` (how far `write_checkpoint` is, `CP_ERROR_FLAG`),
`disk` (valid maps, types and logs in the last durable checkpoint) and `chain`
(WARM_NODE blocks written since, which roll-forward recovery reads). The last
two exist for the properties and for `Crash`.

The C helpers are operators from structure to structure. The actions are
`allocate_data_block` (all of `do_write_page`, with the choice of a new segment
when the log is full), `invalidate_blocks`, `f2fs_replace_block`, the two
victim selections and the end of a collection, the three phases of a
checkpoint, its two failures, the setting of the error flag, and `Crash`, which
loads the last checkpoint as `build_segment_manager` does.

What is abstracted: a file's contents are "the valid blocks", and a writer
rewrites any of them of its kind (data or node) or adds one while
`user_block_count` allows. `need_SSR` compares free sections with sums over
dirty pages; the sums are a small set, `SsrReserves`. The order in which GC and
SSR visit candidates depends on the cost function, which is modelled where it
excludes a candidate; among the others the choice is free. That also covers the
4096-segment search window, except that in the code a window without any
candidate makes SSR give up. Two hints for where the search of a free segment begins are
left out: `last_victim[ALLOC_NEXT]`, which points behind the first device or behind one
being flushed, and the direction under `noheap`. They choose among free segments. Writers are atomic because `curseg_mutex` and
`sentry_lock` make them so, and do not run between `block_operations` and
`unblock_operations`. SIT journal and SIT pages are one durable map; the
summary blocks, `allocate_new_segments` (trim, recovery) and roll-forward after
a crash are left out.

### FlushMerge

State: the fields of `flush_cmd_control`, a program counter per caller and for
the thread, the local variables that outlive a step (`list`, `ret`, `cmd.ret`,
completion), the wait queue of the thread, the progress of a remount, and what
is in the device's volatile cache. A caller stands for a process, its
`struct flush_cmd` and its inode. Each access to shared data is an action of its
own, so all interleavings of the lock-free lists are explored. `llist_add`,
`llist_del_all`, the counter and the completions are atomic; the explicit
barrier of `f2fs_issue_flush` and the one in `prepare_to_wait` are taken at
their word, so memory is sequentially consistent. An uninitialised `cmd.ret`
has either value. A flush covers the data that was in the cache when it was
submitted and still is when it ends.

`f2fs_do_sync_file` tests once that the file system is writable, so a caller may
be past the test when a remount makes it read-only. A remount picks its
`SB_RDONLY` from `RoFlags`: read-only to read-only leaves the thread out and the
option as parsed (`goto skip`), to read-only syncs, clears the option and stops
the thread, and the VFS takes the flag over when `f2fs_remount` succeeds. This is
the build without `CONFIG_QUOTA`, which changes the flag earlier. A mount
that is read-only has no `flush_cmd_control` at all.

With several devices a flush for an inode is taken to cover that inode only
(the real one covers all data on the devices it touches). A call without an
earlier write stands for an fsync whose inode has no FLUSH_INO entry any more.
A caller whose command is still on a list after it returned makes no further
call: what would happen is undefined. A failing `kthread_run`, unmount and the
freezing of the thread are not modelled.

### NodeManager

State: the NAT cache (`nat_root`: address, checkpointed, dirty), the NAT journal,
both copies of every NAT block with `nat_bitmap`, the NAT bits, the free-nid
fields of `f2fs_nm_info` in one record (`free`), the place that `__build_free_nids`
has come to, a program counter and a nid per creator, a `get_node_info` between
its two critical sections, and the last durable checkpoint. `node` and `durable`
record what the address of each node is, and was at that checkpoint; the
properties compare the caches with them.

An action is what runs under one lock: `nid_list_lock` alone for `alloc_nid`,
`alloc_nid_done` and `alloc_nid_failed`, `nat_tree_lock` for addresses, flush and
scans. A scan is a step per NAT block and one for the journal, and creators take
their steps in between; `flush_nat_entries` is one step, since everybody who needs
less than `nat_tree_lock` touches another nid. `f2fs_lock_op` and `node_write` keep
creation, truncation and writes out of a checkpoint. The page lock keeps everyone
else from the node that `get_node_info` looks up: all callers outside recovery hold it.
`build_node_manager` follows an unmount, or a crash in any state. NAT blocks count
as written as soon as they are flushed, the worst case for the checkpoint before.

Left out: owner, version and fsync marks of an entry, memory limits (where the
code may drop or keep, both happen), checkpoints that fail, NAT bits that do not
fit, roll-forward recovery, and quota files in the count of nids. `FirstNid` stands
for nid 0 and the inodes that mkfs makes.

### NodePath, ExtentCache, FileMap, AbstractFile

`NodePath` has `get_node_path`, `get_next_page_offset` and `start_bidx_of_node` for
a tree of any arity; a node is known by its offset in the file, as in the footer.
`ExtentCache` translates the range update step by step (drop the largest extent, cut
the first and last extent in the range, merge or insert, give up), with an allocation
of extent nodes that may fail. The red-black tree is the set of its extents.

The state of `FileMap` is one record per file (see the head of the module). Every
operation holds the inode's lock and is an action: writes with preallocation and
inline data, stores through a mapping, `f2fs_setattr`, the modes of `f2fs_fallocate`
(punch, zero, preallocate, collapse, insert), `f2fs_defragment_range`. Between them
come checkpoints (which decide whether a moved block can change its place without a
copy), the shrinker, eviction of the inode and, node by node, `f2fs_precache_extents`.
An operation ends with its error or succeeds. `limit` bounds data and node blocks
together, as `user_block_count` does, so an operation runs out of blocks at any data
block and at any node of a path (`get_dnode_alloc` then leaves the nodes above it
linked), also in the branch of `__clone_blkaddrs` that exchanges addresses. A volume
with `mode=lfs` refuses to exchange blocks that no checkpoint has (-ENOTSUPP),
defragmentation may find too few free sections (-EAGAIN). Allocations of memory fail
for extent nodes only. Offsets are in units of half a page, so ranges begin and end inside pages.
The page cache is written through: a dirty page is written at once, in place or to a
new block (`need_inplace_update` is left open), so the case of `__found_offset` for a
dirty page that has no block yet does not arise. `f2fs_seek_block` is checked as a
function of the state, for every offset in the file.

`AbstractFile` has only the contents, the size and, in `last`, what the last operation
was called with and whether it succeeded. `FileMap` maps to it by what a reader sees
(`Seen`: inline data, or the page at the address that the extent cache or the node
tree gives). `FileRefines` is that refinement. An operation that succeeds must have
done exactly its whole work; one that fails, a prefix of it (a write nothing at all, a
change of size all of it, since `truncate_setsize` comes first). Operations are
numbered, so none can pass for a stuttering step, and the number is what a write
leaves, so a lost overwrite shows. Checkpoints, reclaim and precaching stutter.

### Discard

State: the valid map, the checkpointed map and the discard map of the SIT, the
commands with state, list and reference count, what each of four actors (writer,
thread, FITRIM, unmount) is doing, and what the device has discarded. Each part that
holds `cmd_lock` is a step, so submission, completion by the device, waiting with a
reference and removal interleave. A command that the device fails is done with an
error, as in the code. Lists are sets: the order within a list is left open. The walk of
`__update_discard_tree_range` over the tree is stated by what it leaves: the runs between
the commands it meets become commands or join their neighbours, all at once under
`cmd_lock`. `undiscard_blks` is compared with the number of blocks that the commands
cover, which is the sum of their lengths since they are disjoint. Zoned and multiple
devices are left out.

### Directory and Namespace

`Directory` is one directory with all of its placement: buckets and levels, the
remembered level of the last lookup, slots, inline dentries and their conversion with
and without rehashing, a page that is given up when it is empty, and calls that get
fewer blocks than they need. The hash is any function of the names; in the run two of
four names collide, and three fill a block each, so levels open after few calls.

`Namespace` takes a directory as the map that `DirExact` shows it to be, and has the
calls of `namei.c`, eviction, the orphan list with its reservation, checkpoints and
crashes. What a call does under `f2fs_lock_op` is one step; a rename with a whiteout
and a symlink are two. Every failing branch of a call is taken, also the one after
`f2fs_add_link` in `f2fs_rename`: the new entry may make the directory of both names give
up its inline entries, and if the old entry is then not found again (a failed read) the
call returns with both names in place, one link, and for a directory a link of the parent
too many. The field `twin` is that inode. `LinksExact` says exactly what is then wrong
and that nothing else is. With a name more than links every later call on the two names
would go wrong in turn (an unlink of one frees the inode that the other still names), so
no call is begun any more; evictions, checkpoints, crashes and mounts go on.

### Recovery

State: `dsk` (data blocks, the node log and the two packs, each block with the last
write and what is safe), `mem` (inodes, node pages, NAT flags, dirty sets, lists),
the phase of a checkpoint, the one `f2fs_do_sync_file` under way, and `promise`: what
each returned fsync has promised and no later call has taken back. A file has a block
addressed by its inode and one addressed by a direct node, which is enough for every
branch of fsync that depends on which node is dirty and marked.

The NAT entry of an inode is in the cache or not, and dirty or clean: the shrinker drops
clean ones at any time (`try_to_free_nats`), the address of a direct node changes the
flags of its inode's entry only if that is there (`if (e)` in `set_node_addr`), a flush
resets only dirty entries, and whoever reads an entry back gets fresh flags.

System calls come in the order of a program (`Programs` of `MCRecovery`); writeback
of data and inodes, eviction of inodes and NAT entries, a limited number of node writes
by the flusher, the steps of fsync and checkpoint, and power cuts come at any time. An
fsync takes no lock of the checkpoint and runs in all its phases. The device may lose
any data block since its last flush and any end of the node log; a pack that is being
written may be there, torn (first block new, last block old) or not.

The code does not keep the promise of fsync everywhere, and the limits are fields of a
scenario. An fsync that returns between the NAT flush and the end of the pack has
promised something only when the pack is complete (`promise.later`), unless `early`;
node writes complete in order, unless `reorder`; power does not fail during the
checkpoint that ends recovery, unless `again`; and nobody but the data writes of the
file itself reads back a NAT entry that was dropped, unless `reads` allows it. The
programs of the passing run, moreover, write no block of a file that has a direct node
while that file is being synced. For each limit `MCRecovery` has a set of scenarios
without it, under which `FsyncDurable` fails (see "What the violations show"). A link or
rename of a file while its own fsync runs voids the promise of its old name. Extended attributes, inline data and device errors are left out.

## 3. Runs

| run | instance | checks | result |
|---|---|---|---|
| `segment_logs` | 3 segments of 2 blocks, a data and a node log, 3 user blocks, I/O errors | TypeOK, NoOverwrite, ChainKept, CursegHasSpace, CountersMatch, LogsApart, DirtyComplete, FreeIsEmpty | holds, 820 k states |
| `segment_sections` | 4 segments in 2 sections, one log, both kinds of GC, block exchange | NoOverwrite, PrefreeExact, DirtySound, VictimNotCurrent, CountersMatch | holds, 211 k states |
| `segment_device` | 3 segments, a device-cache flush that may fail | CountersMatch | holds, 6 k states |
| `segment_device_error` | the same | NoOverwrite | violated, see below |
| `flush_merged` | 2 callers and the thread, 0 or 2 listed devices, failing flushes | TypeOK, FlushDurable, CmdAlive, CountExact, CallReturns | holds, 32 k states |
| `flush_remount` | 2 callers, up to 2 remounts with every outcome of option parsing, read-only and writable, a device that works | FlushDurable, OneThread | holds, 504 k states |
| `flush_stopped` | 2 callers, one remount with `noflush_merge` | QueuedIsServed | violated, see below |
| `node_addresses` | one NAT block with 2 user nids, 2 addresses, a journal of one entry, 2 creators, a reader, 3 checkpoints or mounts, scans of two rounds | TypeOK, AddressFound, DurableKept, FreeNidsFree, OneOwner, CheckpointedExact | holds, 1.1 M states |
| `node_blocks` | 2 user nids in different NAT blocks, one creator, 2 checkpoints or mounts, scans of one block each | DurableKept, AvailableExact | holds, 374 k states |
| `node_findable` | one NAT block with 2 user nids, one creator | NidsFindable | violated, see below |
| `file_map` | a tree with 1 address in the inode, 2 in a node and 2 ids in an indirect node (16 nodes, 21 pages); 168 files with their operations | ExtentsMatch, TreeSound, SeekExact, FileRefines | holds, 37 k states |
| `parts` | 3 segments of 2 blocks for `Discard`; 4 names, 2 tasks for `Directory`; 4 inodes, 2 names for `Namespace`; 9 programs with 1 or 2 power cuts for `Recovery` | DiscardSafe, CommandsSound, DirExact, LinksExact, OrphansExact, FsyncDurable, MountsNewest | holds, 1.0 M states |

Bounds of `file_map`: the tree has all its levels, and several nodes on each side of
every border. The windows of `MCFileMap` put few operations on many files instead of
many on one: every truncation of every tree with at most two direct nodes or all but
one; growth out of inline data with room for none to four blocks; moves with room for
fewer, as many or more data and node blocks than they need, of blocks that a checkpoint
has, of new ones and of both mixed; moves of more than the `4 * ADDRS_PER_BLOCK` pages
that are one portion of `__exchange_data_block`; `mode=lfs`; files
whose extents are loaded, changed and reclaimed at once; writes in place and failing
allocations of extent nodes.

Bounds of `parts`: `Discard`, `Directory`, `Namespace` and `Recovery` share no state,
so a behaviour is one of a single part, which `part` picks, and one run explores the
sum of the four state spaces rather than their product. `MaxOps`, `MaxDirOps` and
`MaxCalls` bound the calls (3, 4 and 4); the threads, completions, evictions,
checkpoints and crashes between them are not bounded. Three discard operations are a
block freed, checkpointed and allocated again; four directory calls open a second
level and go back to the first; four names calls are a file, a link, and a rename over
it. `max_orphans = 2` is met. `LogBlocks = 5` node blocks between two checkpoints
suffice for the programs, one unasked node write (`flushes`) is tried at every
moment, and two power cuts cover a cut after a recovery. `WhiteoutKinds` is
`{"file"}`: overlayfs moves files that way, and a directory leads to the finding below.

Bounds of the segment runs: two blocks per segment is the least number for which
a segment can be partly valid, full and empty; three segments for two logs leave
one free, so LFS, SSR and their fallback all occur, and a log meets a segment
that another log filled. `UserBlocks` bounds the valid blocks as
`user_block_count` does. The section run has two segments per section so that a
section may be in use with a free segment in it. Behaviours are not bounded: any
number of checkpoints and crashes.

Bounds of the flush runs: two callers give the direct flush, the merged one, a
list of two for the thread, and a list taken by the other caller. `MaxIssing`
only cuts the growth of the counter after the undefined behaviour that a remount
can cause. Writes and calls are not bounded. Callers are interchangeable, and
`Symmetry` says so in the run without a liveness property.

Bounds of the node runs: two nids in one block show what a flush of one does to
the other, two in different blocks how a flush is divided and a scan goes on; a
journal of one entry is full after one flush and merged by the next. `MaxEvents`
bounds checkpoints and mounts together: three are, for example, an unmount with
NAT bits, the mount that loads them and a checkpoint. Between them the number of
operations is not bounded. `ReadNids` names the node that is looked up.

Fairness (`FlushMerge` only): weak fairness for every caller once it is inside
`f2fs_do_sync_file`, for the thread and for a remount that has begun. The
scheduler runs what is runnable, and the block layer ends each request with
success or an error. Nobody is obliged to call fsync, to write or to remount.

Deadlock is checked except in the two runs with remounts, where callers may stay
in the wait that `flush_stopped` shows, and in the node runs, where the volume may
stay unmounted, in `file_map` and `parts`, whose bounded programs end.

### What the violations show

- `segment_device_error`: on a volume of several devices `do_checkpoint` returns
  the error of `f2fs_flush_device_cache` without setting `CP_ERROR_FLAG`. By then
  the SIT flush has made the present maps the checkpointed ones and has freed the
  prefree segments, so writers go on and overwrite blocks of the checkpoint that
  is still the valid one.
- `flush_stopped`: `issue_flush_thread` returns as soon as it should stop, without
  looking at `issue_list`. A caller that has read the thread pointer before
  `destroy_flush_cmd_control` cleared it waits on a completion nobody signals.
- `node_findable`: a creator holds nid 1 while a checkpoint notes nid 2 as
  `next_free_nid`. After a crash the mount scans from nid 2, and `scan_nat_page` marks
  the block of both as scanned. Nid 1 is free, `available_nids` counts it, and no
  scan finds it until the next mount; once only such nids are left, `alloc_nid`
  repeats its scan for ever instead of reporting that there is no nid.

Found with the constants as given here, and not kept as runs:

- `UnmountQuiet` (`Discard`): FITRIM moves a command that starts right behind its
  range to its own list and waits for none such; the unmount waits for the other list.
- `NoBug` (`FileMap`): precaching may enter an extent of length 0, and a later update
  at that page fails the assertion of `f2fs_update_extent_tree_range`. `FileMap` stops
  at the assertion. The same predicate fails when a portion of a long move fails that
  is not the last one, see `__exchange_data_block` below.
- `FsyncDurable` (`Recovery`), with other `Scenarios` in `Parts.cfg`, each of which lifts one
  of the limits that the property states:
  - `EarlyScenarios`: `flush_nat_entries` resets the flags of a NAT entry before the
    pack that will hold it is on the device, against the comment in `nat_reset_flag`.
    An fsync in between finds nothing to do and returns, and a power cut then loses
    the file.
  - `ReadScenarios`: the flusher writes a direct node without a mark. `HAS_LAST_FSYNC`
    of the inode's NAT entry, which would make the next fsync write the inode, is lost
    when the clean entry is dropped and read back. The fsync finds no dirty node, and
    recovery no mark.
  - `AppendScenarios`: while an fsync waits for its nodes, the flusher writes a data
    block out of place and sets `FI_APPEND_WRITE`; the fsync then clears the flag. A
    later fdatasync sees a clean inode without the flag and returns, with the direct
    node that has the new address still in memory.
  - `ReorderScenarios`: fsync waits for its own nodes only. If the node of another
    file before them in the chain is not on the device yet, recovery stops there.
  - `AgainScenarios`: the checkpoint at the end of recovery writes over the chain it
    recovers from; a power cut before its pack is complete loses the files.
- `WhiteoutKinds <- {"file", "dir"}` (`Namespace`, `LinksExact`): a directory renamed
  with a whiteout keeps its old `..`, and a whiteout that cannot be linked leaves the
  link count of the old parent too high.

### Further observations

Met while modelling, reproducible by changing a constant, and not kept as runs:

- `IoErrors = TRUE` in `flush_remount`: a caller that finds no thread serves a list
  that may not hold its own command (the thread or another caller took it), and
  returns its own `cmd.ret`, which that pass never set.
- Label `oops` in `FlushMerge`: a file system mounted read-only has no
  `flush_cmd_control`. A remount to writable with `noflush_merge` makes none, and the
  next fsync follows the NULL pointer (`atomic_inc(&fcc->issued_flush)`, `segment.c`).
- `DevCounts = {1}` (one listed zoned device): a merged flush looks only at the
  inode of its first command and may be skipped for all.
- `ExchangeData = TRUE` and `DirtyComplete`: `__f2fs_replace_block` calls
  `locate_dirty_segment` for the target segment while it is the current one of the
  borrowed log, so a partly valid segment can be on no dirty list until one of its
  blocks changes. `f2fs_replace_block` also leaves `alloc_type` SSR on a log whose
  offset it restores; `NoOverwrite` in `segment_sections` shows this is harmless.
- `ckpt_valid_blocks` is described as "# of valid blocks last cp"; what the code
  maintains, and `CountersMatch` states, is the size of the union of the present
  and the checkpointed map.
- When `__submit_discard_cmd` cannot submit a command it removes and frees it;
  `__issue_discard_cmd_range` still reads its length and goes on from its tree node.
  The model goes on from where the command was.
- `__exchange_data_block` rolls back `len` entries of arrays that hold `olen`
  (`file.c`, line 1144), which differ when a portion of a long range fails that is not
  the last one: it reads behind the arrays and may write what it finds there into the
  tree. `FileMap` sets `bug` and stops there, so `TreeSound` and `FileRefines` cover
  failures in the last portion.
- `f2fs_skip_inode_update` tests `i_size & PAGE_MASK`, so the cheap path of a plain
  fsync is for files smaller than a page only. Sizes in `Recovery` are whole blocks:
  it has the test for fdatasync (`gdirty_list`) and always writes for fsync.
- While the thread dispatches, `dispatch_list` may be empty when a caller has taken
  the list between the thread's test and its `llist_del_all`; the code then
  dereferences NULL. The model stops the thread there.

## 4. Proofs

Eight modules hold theorems. Each is proved for every value of the constants that
satisfies the named assumptions of its component (`SizesAssumption`, `LogsAssumption`,
`EnvAssumption`, `FlushAssumption`, `NatAssumption`, `DiscardAssumption`,
`NamespaceAssumption` and `DirectoryAssumption`, which TLC evaluates in the runs;
`RecoveryProofs` needs none) and the hypotheses in the table. A hypothesis excludes one thing the code is known not to withstand: without it a run, or one of the
observations above, shows the property violated.

| theorem | states | hypotheses |
|---|---|---|
| `SegmentProofs` | | `"device" \notin Faults` |
| `Inductive` | `IndInv` | |
| `TypeCorrect` | `TypeOK` | |
| `NeverOverwrites` | `NoOverwrite` | |
| `NodeChainKept` | `ChainKept` | |
| `LogsHaveSpace` | `CursegHasSpace` | |
| `SegmentListProofs` | | `"device" \notin Faults` |
| `ListInductive` | `ListInv` | |
| `LogsAreApart` | `LogsApart` | |
| `CountersExact` | `CountersMatch` | |
| `FreeSegmentsEmpty` | `FreeIsEmpty` | |
| `NoSpaceLost` | `PrefreeExact` | |
| `DirtyListsSound` | `DirtySound` | |
| `DirtyListsComplete` | `DirtyComplete` | also `~ExchangeData` |
| `VictimStaysClear` | `VictimNotCurrent` | |
| `FlushMergeProofs` | | |
| `ThreadIsOne` | `OneThread` | none |
| `SyncedIsDurable` | `FlushDurable` | `1 \notin DevCounts`, and `Options = {}` or `~IoErrors` |
| `QueueInductive` | `QueueInv` | `Options = {}` |
| `CommandsAlive` | `CmdAlive` | `Options = {}` |
| `CounterExact` | `CountExact` | `Options = {}` |
| `FlushTypeCorrect` | `TypeOK` | `Options = {}` |
| `NodeManagerProofs` | | none |
| `NatInductive` | `NatInv` | |
| `AddressAlwaysFound` | `AddressFound` | |
| `CheckpointKept` | `DurableKept` | |
| `NodeListProofs` | | none |
| `FreeInductive` | `FreeInv` | |
| `NodeTypes` | `TypeOK` | |
| `ListedAreFree` | `FreeNidsFree` | |
| `NidsHaveOneOwner` | `OneOwner` | |
| `AvailableIsExact` | `AvailableExact` | |
| `CheckpointedIsExact` | `CheckpointedExact` | |
| `DiscardProofs` | | none |
| `DiscardInductive` | `DiscardInv` | |
| `DiscardsSafe` | `DiscardSafe` | |
| `CommandsAreSound` | `CommandsSound` | |
| `NamespaceProofs` | | |
| `NamesInductive` | `NsInv` | `"dir" \notin WhiteoutKinds` |
| `LinksAreExact` | `LinksExact` | the same |
| `OrphansAreExact` | `OrphansExact` | the same |
| `DirectoryInductive` | `DirInv` | none |
| `DirectoryIsMap` | `DirExact` | none |
| `RecoveryProofs` | | none |
| `RecoveryInductive` | `RecInv` | |
| `MountIsNewest` | `MountsNewest` | |

All properties of `Segment`, `NodeManager`, `Discard`, `Directory` and `Namespace` that
hold in a run, and all safety properties of `FlushMerge`, are thus proved.

Where the code loops, the model has a recursive function over numbers (the slots of an
inode, the levels of a directory, the NAT blocks of a mount, the blocks of a node log).
The library's induction theorems take an operator as a parameter and cannot be used, but
that every nonempty set of numbers has a least element can be, and it is enough: the
lemmas show that such a function exists and is unique, and what it maintains, by looking at
the least number that fails.

### Segment: what the logs write

For every number of segments, blocks per segment, segments per section and sections
per zone, every set of logs, every threshold, with and without SSR, GC and block
exchange, and for any pattern of crashes and of errors that set `CP_ERROR_FLAG`.
`NoOverwrite` is not inductive. `__next_free_blkoff` looks at `cur_valid_map` and
`ckpt_valid_map`, so the theorem needs that

- `ckpt_valid_map` covers what is valid on disk and every block of the node chain
  while writers run (`CpOK`), which in turn needs to know in each phase of a
  checkpoint how the maps relate, and that a clean entry is as checkpointed
  (`EntriesOK`);
- an SSR victim has a hole in both maps. SSR trusts `ckpt_valid_blocks`, so
  `EntriesOK` says that this counter is the size of the union of the two maps;
- a log that appends has nothing but unused blocks ahead, logs are apart, and each
  owns segments of its type in use (`LogsOK`);
- a free segment is empty in both maps (`FreeOK`), and prefree segments, which the
  next checkpoint frees, hold nothing valid and are nobody's (`PreOK`);
- the logs on disk satisfy the same, so that a crash restores the invariant.

The lemmas say what each helper does to the structures (`UpdateSit`,
`NewSegmentIsFree`, `Switch`, `ChangeCurseg`, `AllocateSegment`, ...), then each
action preserves `IndInv` (`AllocateStep`, `ReplaceStep`, `FlushStep`, `CrashStep`,
...), and the theorems follow.

### Segment: counters, lists and sections

`ListInv` builds on `IndInv`. It is one predicate on the structures, `OrderOK(x, v, U)`:
`x` has exact counters (`CountsOK`), dirty lists (`ListsOK`) and sections
(`SectionsOK`) but for the segments of a set `U` that have changed and have not been
through `locate_dirty_segment` yet. `update_sit_entry` adds the segment it touches to `U`,
`locate_dirty_segment` takes one away, and between two actions `U` is empty; the
proof follows a call through its helpers that way, and finds, for example, that every
segment that `allocate_data_block` touches is classified again before the lock is
released. `WaitingOK` says the same of the prefree list, apart because it holds only
until a checkpoint fails. Foreground GC's victim is in use and has no log in it, and a
section on `victim_secmap` holds something valid: otherwise `get_new_segment` might
choose it.

### FlushMerge

For any number of callers. `ThreadInv` relates option, control structure,
thread, read-only state and the progress of a remount, and nothing else is needed for
`OneThread`.
`SyncInv` is the argument for group commit: a flush in flight covers the data of every
caller it will answer, since a caller whose command is on a list has not left
`f2fs_issue_flush` and has not written since (`Covers`); so when it ends with 0 the data
of all of them is out of the cache (`Flushed`), and stays so until they read the result
(`Answered`). It holds during remounts too, when commands of callers that have already
returned are still on lists. `QueueInv` says that a command is on one list only, once, and
that its caller waits: the counter, the lifetime of the commands and the types follow. A
remount that stops the thread breaks it (`flush_stopped`), hence `Options = {}`.

### NodeManager

For any size of the NAT, of a NAT block and of the journal, any number of creators, and
crashes anywhere. The hard part of `NatInv` is the reader between its two critical
sections: it has dropped `nat_tree_lock` with the number of the NAT copy it is going to
read, and flushes may turn to the other copy and back before it does. `Reading` says why
the copy still has its address: its node is neither dirty nor journaled, since the caller
holds the page lock, so every flush that writes the block writes the same address.
`Cached` and `Phases` relate cache, journal and both copies to the true address and to
the last checkpoint in each phase of the next one.

For the free nids, `FreeInv` builds on `NatInv`. The difficulty is that a scan looks at
NAT pages, journal and cache at different moments while creators take and return nids.
`Lists` says what a list may hold in between: nids that are vacant, or that the journal
knows better and will take off again before the scan ends; the bitmap holds only nids
that are free on disk, and the NAT bits name only blocks that are empty (`NatBitsTrue`),
or a mount would list nids in use. `Owners` ties the preallocated nids to creators one
to one, and says that an owner's nid is vacant until its node is created. `Flags` and
`Checkpointed` say what `IS_CHECKPOINTED` means in each phase of a checkpoint. `Counted` is
`AvailableExact`; `JournalsFit` and `Reserved` (the nids of mkfs) close the induction.

### Discard

For any number and size of segments, any granularity and any number of operations.
`DiscardInv` says, whenever `cmd_lock` is free: the SIT is in order, with prefree segments
that hold nothing valid (`SitOK`); commands are disjoint (`CmdsOK`); a command that an
actor waits for is there and has a reference (`Waits`); `undiscard_blks` is exact; and no
command that is not done covers a valid or checkpointed block (`Safe`). To keep `Safe`
when a block is allocated the proof needs `WriterOK`: while the writer waits for the
command that covers its block, that block stays free, its segment is not on the prefree
list, and the command stays where it is, although FITRIM, thread and unmount split, join,
submit and remove others meanwhile.

### Directory

For any finite set of names, any hashes and sizes of names, any sizes of blocks, buckets
and inodes and any number of levels. The argument is about the set of entries, each with
its block: no name and no slot twice (`Distinct`), `.` and `..` in the first two slots of
the first block (`Dotted`), and exactly the names that calls have made (`Mapping`). `DirInv` adds
where an entry is: in a block of its bucket on a level below `i_current_depth`
(`Placed`), so that a lookup gets to it, inside `i_size`, so that a listing does, and that
the remembered level is not behind the depth. The lemmas about levels show that levels
never overlap (`LevelsApart`), so a block has entries of one level only, and therefore
the level behind the last is empty: insertion always ends (`LastLevelHasRoom`). Conversion
with rehashing is an induction over the slots of the inode (`MovedTo`), which also shows
that `.` and `..` land in the first block again, in this order: `f2fs_empty_dir` relies
on it. `DirectoryAssumption` has a conjunct about powers of two, since the provers know
nothing of exponents; it is arithmetic.

### Recovery: the packs

For any number of files, any program of system calls and any number of power cuts, with
the switches (`early`, `reorder`, `again`, `reads`) as they please. `RecInv` says of a mounted file
system that the pack it was loaded from is complete and has the newest version, that it
writes the other pack, and that the last block of that other pack is older until the very
end (`Working`); so when power fails, a torn pack has two different versions, and one of the
two packs is complete and newer than what the other ends with (`Newest`). The two passes of
recovery and the node chain are recursive; what the proof needs of them is only that they
leave packs and versions alone, which is an induction over the blocks of the log.

### Namespace

For any number of inodes and names and any size of the orphan list. `Sound` says of a
name space that every link count is the number of names, or 2 and the number of
sub-directories, that a directory has one name, in the directory its `..` names, that
the root has none and no directory names itself, and that the orphan list is exact. It
is an invariant of the live name space and of the image a crash goes back to, but for a
rename that did not find the old entry again: `Twinned` says of a name space that it is a
sound one with a second name of one inode in the same directory, and `Valid` that it is
one or the other. Evictions and mounts keep a twin because its inode has links
(`TwinEvict`, `TwinRecover`). The third conjunct, `CallOK`, is what a call in two steps (symlink, rename with a whiteout) has
checked before it let go of the lock and relies on afterwards. A lemma per helper says
which fields it changes (`At`), a lemma per kind of change keeps `Tree` and `Listed`
(enter a name, drop one, move one, swap two), and a lemma per outcome of each call puts
the two together: every early return and failing branch is a case of its own.
That the VFS moves no directory below itself (`Above`, a closure written without
recursion) is what keeps a directory from naming itself.

### Only model-checked

- `CallReturns`: liveness under fairness is out of the prover's reach.
- `ExtentsMatch`, `TreeSound`, `SeekExact` and `FileRefines`: truncation recurses over the node
  tree with an arity and depth of its own at each level, and the range operations over the
  pages of a range with a tree, an extent cache and a limit in each step. Each would need an
  invariant of the recursion, about trees, of the size of the module.
- `FsyncDurable`: it relates every state of inodes, node pages, NAT flags and lists to what a
  replay of the log would give. `RecInv` covers versions and packs only.

## 5. What could follow

- `Recovery`: an invariant that relates the dirty and marked nodes of each file to the
  chain that recovery reads, from which `FsyncDurable` follows when the three switches are off.
- `ExtentCache`: a theorem that the range update agrees with the block map, as a first part
  of `ExtentsMatch`.

## 6. Not modelled

- Atomic and volatile writes: commit and revoke work on the addresses of `FileMap` and
  the blocks of `Segment` at once, and the product of the two is out of TLC's reach.
- The blocks that GC moves (`is_alive`, `move_data_page`), the GC thread and its pacing.
- Extended attributes and ACLs: calls under one lock that rebuild a list in a buffer;
  ACLs are a format conversion.
- Merged bios, read-ahead, direct I/O, encryption, and the page cache.
- `f2fs_balance_fs`: depends on counts of dirty pages that no module keeps.
- The retry loops of `block_operations`; a checkpoint begins when the writers are out.
- Quota, project ids, zoned and multiple devices (but for the flush).
- sysfs, debugfs, tracing (reporting), the shrinker's walk over mounts, option parsing,
  the field-by-field copying of the on-disk inode, and the mechanics of the VFS.
