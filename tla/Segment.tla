------------------------------ MODULE Segment ------------------------------
(***************************************************************************)
(* The segment manager of f2fs: segment.c, segment.h and the victim        *)
(* selection of gc.c, from mount to crash.                                 *)
(*                                                                         *)
(* Six logs (struct curseg_info) append blocks to current segments.  A log *)
(* whose segment is full takes a free segment (LFS) or reuses the holes of *)
(* a dirty one (SSR).  A checkpoint makes the present validity of blocks   *)
(* durable; until then no block of the previous checkpoint, and no block   *)
(* of the node chain that roll-forward recovery reads, may be overwritten. *)
(*                                                                         *)
(* Every struct of the code that the operations change is a variable; the  *)
(* code's helper functions are operators from struct value to struct value *)
(* and keep their names.  A block address is <<segment, offset>>; NEW_ADDR *)
(* and NULL_ADDR, which both lie in no segment, are NULL_ADDR.             *)
(***************************************************************************)
EXTENDS Integers, FiniteSets, FiniteSetsExt

CONSTANTS
    MainSegs,       \* MAIN_SEGS(sbi)
    BlocksPerSeg,   \* sbi->blocks_per_seg
    SegsPerSec,     \* sbi->segs_per_sec
    SecsPerZone,    \* sbi->secs_per_zone
    Logs,           \* the logs in use (an idle log only pins one segment)
    FormatSeg,      \* where mkfs puts the logs: a segment for each of Logs
    UserBlocks,     \* sbi->user_block_count
    SsrReserves,    \* thresholds need_SSR may see: its sum over dirty pages
    FggcThreshold,  \* sbi->fggc_threshold
    LfsMode,        \* mount option mode=lfs
    CrcRecovery,    \* CP_CRC_RECOVERY_FLAG of the checkpoint
    GcTypes,        \* garbage collection that runs: FG, BG
    Faults,         \* failures: io (CP_ERROR_FLAG), device (cache flush)
    ExchangeData,   \* the file operations that move data addresses are used
    NULL_ADDR,      \* no block
    NULL_SECNO      \* no section (NULL_SEGNO in cur_victim_sec)

DataLogs == {"HOT_DATA", "WARM_DATA", "COLD_DATA"}
NodeLogs == {"HOT_NODE", "WARM_NODE", "COLD_NODE"}
AllLogs == DataLogs \cup NodeLogs
DirtyTypes == AllLogs \cup {"DIRTY", "PRE"}      \* enum dirty_type

Segs == 0 .. MainSegs - 1
Offs == 0 .. BlocksPerSeg - 1
Blocks == Segs \X Offs

(* GET_SEC_FROM_SEG, the segments of a section, GET_SEG_FROM_SEC, zones    *)
SecOf(s) == s \div SegsPerSec
Secs == {SecOf(s) : s \in Segs}
SegsOf(c) == {s \in Segs : SecOf(s) = c}
FirstSeg(c) == Min(SegsOf(c))
ZoneOfSec(c) == c \div SecsPerZone
Zones == MainSegs \div (SegsPerSec * SecsPerZone)

ASSUME SizesAssumption ==
    /\ MainSegs \in Nat \ {0} /\ BlocksPerSeg \in Nat \ {0, 1}
    /\ SegsPerSec \in Nat \ {0} /\ MainSegs % SegsPerSec = 0
    /\ SecsPerZone \in Nat \ {0}
ASSUME LogsAssumption ==
    /\ Logs \subseteq AllLogs
    /\ FormatSeg \in [Logs -> Segs]
    /\ \A t, u \in Logs : t # u => SecOf(FormatSeg[t]) # SecOf(FormatSeg[u])
ASSUME EnvAssumption ==
    /\ UserBlocks \in Nat /\ FggcThreshold \in Nat /\ SsrReserves \subseteq Nat
    /\ {LfsMode, CrcRecovery, ExchangeData} \subseteq BOOLEAN
    /\ GcTypes \subseteq {"FG", "BG"} /\ Faults \subseteq {"io", "device"}
    /\ NULL_ADDR \notin Blocks /\ NULL_SECNO \notin Nat

VARIABLES
    sit,            \* struct sit_info and its seg_entry and sec_entry arrays
    free,           \* struct free_segmap_info; inuse holds the set bits
    dirty,          \* struct dirty_seglist_info
    cur_victim_sec, \* sbi->cur_victim_sec
    curseg,         \* struct curseg_info of every log
    cp_phase,       \* progress of write_checkpoint
    cp_error,       \* CP_ERROR_FLAG
    disk,           \* the last durable checkpoint: SIT area and cursegs
    chain           \* WARM_NODE blocks written after the last checkpoint

vars == <<sit, free, dirty, cur_victim_sec, curseg, cp_phase, cp_error, disk, chain>>

----------------------------------------------------------------------------
(* segment.h: the bitmaps of free segments and free sections               *)

CurSegs(cs) == {cs[t].segno : t \in Logs}
IS_CURSEG(cs, s) == s \in CurSegs(cs)
IS_CURSEC(cs, c) == \E t \in Logs : SecOf(cs[t].segno) = c

__set_test_and_free(f, s) ==
    IF s \notin f.inuse THEN f
    ELSE LET left == f.inuse \ {s}
             empty == SegsOf(SecOf(s)) \cap left = {} /\ SecOf(s) \in f.inuse_sec
         IN  [inuse |-> left,
              inuse_sec |-> IF empty THEN f.inuse_sec \ {SecOf(s)} ELSE f.inuse_sec,
              free_segments |-> f.free_segments + 1,
              free_sections |-> f.free_sections + (IF empty THEN 1 ELSE 0)]

__set_test_and_inuse(f, s) ==
    IF s \in f.inuse THEN f
    ELSE [inuse |-> f.inuse \cup {s},
          inuse_sec |-> f.inuse_sec \cup {SecOf(s)},
          free_segments |-> f.free_segments - 1,
          free_sections |-> f.free_sections - (IF SecOf(s) \in f.inuse_sec THEN 0 ELSE 1)]

get_valid_blocks(st, s, use_section) ==
    IF use_section /\ SegsPerSec > 1 THEN st.sec_valid_blocks[SecOf(s)] ELSE st.valid_blocks[s]

----------------------------------------------------------------------------
(* segment.c: the dirty segment lists                                      *)

AddDirty(d, s, t) ==
    [dirty_segmap |-> [d.dirty_segmap EXCEPT ![t] = @ \cup {s}],
     nr_dirty |-> [d.nr_dirty EXCEPT ![t] = @ + (IF s \in d.dirty_segmap[t] THEN 0 ELSE 1)],
     victim_secmap |-> d.victim_secmap]

DropDirty(d, s, t) ==
    [dirty_segmap |-> [d.dirty_segmap EXCEPT ![t] = @ \ {s}],
     nr_dirty |-> [d.nr_dirty EXCEPT ![t] = @ - (IF s \in d.dirty_segmap[t] THEN 1 ELSE 0)],
     victim_secmap |-> d.victim_secmap]

__locate_dirty_segment(d, st, cs, s, t) ==
    IF IS_CURSEG(cs, s) THEN d
    ELSE IF t = "DIRTY" THEN AddDirty(AddDirty(d, s, "DIRTY"), s, st.type[s])
         ELSE AddDirty(d, s, t)

\* wrong variant: the list of the segment's type is forgotten
RemoveDirtyKeepsType(d, st, s, t) == DropDirty(d, s, t)

__remove_dirty_segment(d, st, s, t) ==
    IF t # "DIRTY" THEN DropDirty(d, s, t)
    ELSE [DropDirty(DropDirty(d, s, "DIRTY"), s, st.type[s])
            EXCEPT !.victim_secmap =
                IF get_valid_blocks(st, s, TRUE) = 0 THEN @ \ {SecOf(s)} ELSE @]

locate_dirty_segment(d, st, cs, s) ==
    IF IS_CURSEG(cs, s) THEN d
    ELSE IF st.valid_blocks[s] = 0
         THEN __remove_dirty_segment(__locate_dirty_segment(d, st, cs, s, "PRE"), st, s, "DIRTY")
    ELSE IF st.valid_blocks[s] < BlocksPerSeg
         THEN __locate_dirty_segment(d, st, cs, s, "DIRTY")
    ELSE __remove_dirty_segment(d, st, s, "DIRTY")

----------------------------------------------------------------------------
(* segment.c: the validity of blocks                                       *)

\* wrong variants: the chain is not kept, the checkpointed map not looked at
NoKeepNodeChain(st, s, del) == FALSE
CkptDeltaIgnoresMap(st, s, o, keep, d) == d

(* SSR must not overwrite a node block that recovery may follow: a block   *)
(* written to a WARM_NODE segment joins the checkpointed map at once.      *)
KeepNodeChain(st, s, del) == del > 0 /\ st.type[s] = "WARM_NODE"

(* What ckpt_valid_blocks gains when offset o changes by d: the counter    *)
(* follows blocks valid now or in the checkpointed map.                    *)
CkptDelta(st, s, o, keep, d) ==
    IF o \in st.ckpt_valid_map[s] THEN 0 ELSE IF keep THEN 1 ELSE d

(* +1 or -1 for block b.  The f2fs_bug_on branches (a bit wrongly set or   *)
(* wrongly cleared) leave the counts alone, as the code does.              *)
update_sit_entry(st, b, del) ==
    LET s == b[1]
        o == b[2]
        exist == o \in st.cur_valid_map[s]
        d == IF (del > 0) = exist THEN 0 ELSE del
        keep == KeepNodeChain(st, s, del)
    IN  [type |-> st.type,
         valid_blocks |-> [st.valid_blocks EXCEPT ![s] = @ + d],
         ckpt_valid_blocks |-> [st.ckpt_valid_blocks EXCEPT ![s] =
                                  @ + CkptDelta(st, s, o, keep, d)],
         cur_valid_map |-> [st.cur_valid_map EXCEPT ![s] =
                              IF del > 0 THEN @ \cup {o} ELSE @ \ {o}],
         ckpt_valid_map |-> [st.ckpt_valid_map EXCEPT ![s] = IF keep THEN @ \cup {o} ELSE @],
         dirty_sentries |-> st.dirty_sentries \cup {s},
         written_valid_blocks |-> st.written_valid_blocks + d,
         sec_valid_blocks |-> [st.sec_valid_blocks EXCEPT ![SecOf(s)] =
                                 IF SegsPerSec > 1 THEN @ + d ELSE @]]

(* The update for an address that may be NULL_ADDR or NEW_ADDR.            *)
InvalidateOld(st, old) == IF old = NULL_ADDR THEN st ELSE update_sit_entry(st, old, -1)
\* wrong variant: only the segment of the new block is classified again
LocateOldSkipped(d, st, cs, old) == d
LocateOld(d, st, cs, old) == IF old = NULL_ADDR THEN d ELSE locate_dirty_segment(d, st, cs, old[1])

is_checkpointed_data(b) == b[2] \in sit.ckpt_valid_map[b[1]]

----------------------------------------------------------------------------
(* segment.c: a new current segment                                        *)

FreeSecs(f) == Secs \ f.inuse_sec

(* The first free section at or after hint, else (ALLOC_RIGHT) the first   *)
(* of all or (ALLOC_LEFT, go_left) the nearest one before hint.            *)
PickSec(f, hint, dir) ==
    LET right == {c \in FreeSecs(f) : c >= hint}
    IN  IF right # {} THEN Min(right)
        ELSE IF dir = "RIGHT" THEN Min(FreeSecs(f)) ELSE Max(FreeSecs(f))
GoLeft(f, hint, dir) == dir = "LEFT" /\ \A c \in FreeSecs(f) : c < hint

(* The section of get_new_segment's two rounds: when the first choice lies *)
(* in another log's zone, a second round starts at the next zone.  After   *)
(* go_left the second round finds left_start again, so it changes nothing. *)
NewSection(f, cs, newseg, dir) ==
    LET hint == SecOf(newseg)
        sec == PickSec(f, hint, dir)
        left == GoLeft(f, hint, dir)
        zone == ZoneOfSec(sec)
        keep == \/ SecsPerZone = 1
                \/ zone = ZoneOfSec(hint)
                \/ dir = "LEFT" /\ IF left THEN zone = 0 ELSE zone + 1 >= Zones
                \/ \A t \in Logs : ZoneOfSec(SecOf(cs[t].segno)) # zone
    IN  IF keep \/ left THEN sec
        ELSE PickSec(f, IF zone + 1 >= Zones THEN 0 ELSE (zone + 1) * SecsPerZone, dir)

get_new_segment(f, cs, newseg, new_sec, dir) ==
    LET rest == {s \in SegsOf(SecOf(newseg)) \ f.inuse : s > newseg}
    IN  IF ~new_sec /\ rest # {} THEN Min(rest)
        ELSE FirstSeg(NewSection(f, cs, newseg, dir))

(* The section search ends in f2fs_bug_on unless a section is free: the    *)
(* reserved sections that f2fs_balance_fs defends are there for that.      *)
CanGetNewSegment(f, newseg, new_sec) ==
    \/ FreeSecs(f) # {}
    \/ ~new_sec /\ \E s \in SegsOf(SecOf(newseg)) \ f.inuse : s > newseg

__get_next_segno(cs, t) ==
    IF SegsPerSec = 1 /\ (t = "HOT_DATA" \/ t \in NodeLogs) THEN 0 ELSE cs[t].segno

is_next_segment_free(f, cs, t) ==
    LET s == cs[t].segno + 1
    IN  s \in SegsOf(SecOf(cs[t].segno)) /\ s \notin f.inuse

\* wrong variant: SSR takes holes of the present map only
NextFreeIgnoresCkpt(st, s, start) ==
    LET holes == {o \in Offs : o >= start} \ st.cur_valid_map[s]
    IN  IF holes = {} THEN BlocksPerSeg ELSE Min(holes)

__next_free_blkoff(st, s, start) ==
    LET holes == {o \in Offs : o >= start} \ (st.ckpt_valid_map[s] \cup st.cur_valid_map[s])
    IN  IF holes = {} THEN BlocksPerSeg ELSE Min(holes)

__refresh_next_blkoff(st, c) ==
    IF c.alloc_type = "SSR" THEN __next_free_blkoff(st, c.segno, c.next_blkoff + 1)
    ELSE c.next_blkoff + 1

(* The structs a segment allocation reads and writes, as one value.        *)
State(st, f, d, cs) == [sit |-> st, free |-> f, dirty |-> d, curseg |-> cs]

(* reset_curseg with modified = 1, then the caller's alloc_type and offset *)
reset_curseg(x, t, s, mode, off) ==
    [x EXCEPT !.sit.type[s] = t,
              !.sit.dirty_sentries = @ \cup {s},
              !.curseg[t] = [segno |-> s, next_blkoff |-> off, alloc_type |-> mode]]

new_curseg(x, t, new_sec) ==
    LET dir == IF t \in {"WARM_DATA", "COLD_DATA"} THEN "RIGHT" ELSE "LEFT"
        s == get_new_segment(x.free, x.curseg, __get_next_segno(x.curseg, t), new_sec, dir)
    IN  reset_curseg([x EXCEPT !.free = __set_test_and_inuse(@, s)], t, s, "LFS", 0)

\* wrong variant: the prefree list is not told
ChangeCursegKeepsPre(x, t, s) ==
    reset_curseg([x EXCEPT !.free = __set_test_and_inuse(@, s),
                           !.dirty = __remove_dirty_segment(@, x.sit, s, "DIRTY")],
                 t, s, "SSR", __next_free_blkoff(x.sit, s, 0))

change_curseg(x, t, s) ==
    LET d1 == __remove_dirty_segment(x.dirty, x.sit, s, "PRE")
        d2 == __remove_dirty_segment(d1, x.sit, s, "DIRTY")
    IN  reset_curseg([x EXCEPT !.free = __set_test_and_inuse(@, s), !.dirty = d2],
                     t, s, "SSR", __next_free_blkoff(x.sit, s, 0))

----------------------------------------------------------------------------
(* gc.c: victim selection                                                  *)

\* wrong variant: the section under collection is forgotten
UsageIgnoresVictim(cs, victim, c) == IS_CURSEC(cs, c)
sec_usage_check(cs, victim, c) == IS_CURSEC(cs, c) \/ victim = c

\* wrong variant: SSR looks at the present blocks only
CostIgnoresCkpt(st, s) == st.valid_blocks[s]

(* get_gc_cost of an SSR victim                                            *)
get_gc_cost(st, s) == st.ckpt_valid_blocks[s]

(* get_victim_by_default with alloc_mode SSR: the dirty segments of a type *)
(* with the fewest blocks in use; which of equals depends on last_victim.  *)
SsrVictims(x, victim, t) ==
    LET ok == {s \in x.dirty.dirty_segmap[t] :
                 /\ ~sec_usage_check(x.curseg, victim, SecOf(s))
                 /\ SecOf(s) \notin x.dirty.victim_secmap
                 /\ get_gc_cost(x.sit, s) < BlocksPerSeg}
    IN  {s \in ok : \A r \in ok : get_gc_cost(x.sit, s) <= get_gc_cost(x.sit, r)}

(* The other types in the order in which get_ssr_segment tries them.       *)
SsrOrder(t) == CASE t = "HOT_DATA"  -> <<"HOT_DATA", "WARM_DATA", "COLD_DATA">>
                 [] t = "WARM_DATA" -> <<"WARM_DATA", "COLD_DATA", "HOT_DATA">>
                 [] t = "COLD_DATA" -> <<"COLD_DATA", "WARM_DATA", "HOT_DATA">>
                 [] t = "HOT_NODE"  -> <<"HOT_NODE", "WARM_NODE", "COLD_NODE">>
                 [] t = "WARM_NODE" -> <<"WARM_NODE", "COLD_NODE", "HOT_NODE">>
                 [] t = "COLD_NODE" -> <<"COLD_NODE", "WARM_NODE", "HOT_NODE">>

get_ssr_segment(x, victim, t) ==
    LET try == [i \in 1 .. 3 |-> SsrVictims(x, victim, SsrOrder(t)[i])]
    IN  IF try[1] # {} THEN try[1] ELSE IF try[2] # {} THEN try[2] ELSE try[3]

need_SSR(f, reserve) == ~LfsMode /\ f.free_sections <= reserve

(* allocate_segment_by_default: the states it may leave, none where the    *)
(* code would stop at f2fs_bug_on.                                         *)
allocate_segment_by_default(x, victim, t, force, reserve) ==
    LET lfs == \/ force
               \/ ~CrcRecovery /\ t = "WARM_NODE"
               \/ x.curseg[t].alloc_type = "LFS" /\ is_next_segment_free(x.free, x.curseg, t)
        ssr == IF ~lfs /\ need_SSR(x.free, reserve) THEN get_ssr_segment(x, victim, t) ELSE {}
    IN  IF ssr # {} THEN {change_curseg(x, t, s) : s \in ssr}
        ELSE IF CanGetNewSegment(x.free, __get_next_segno(x.curseg, t), force)
             THEN {new_curseg(x, t, force)}
        ELSE {}

----------------------------------------------------------------------------
(* Mount: restore_curseg_summaries, build_sit_entries, init_free_segmap,   *)
(* init_dirty_segmap, from the checkpoint d.                               *)

Count(map) == [s \in Segs |-> Cardinality(map[s])]
BlocksIn(S, map) == {b \in S \X Offs : b[2] \in map[b[1]]}
SecCount(map) == [c \in Secs |->
    IF SegsPerSec > 1 THEN Cardinality(BlocksIn(SegsOf(c), map)) ELSE 0]

MountSit(d) ==
    [type |-> d.type,
     valid_blocks |-> Count(d.valid), ckpt_valid_blocks |-> Count(d.valid),
     cur_valid_map |-> d.valid, ckpt_valid_map |-> d.valid,
     dirty_sentries |-> {},
     written_valid_blocks |-> Cardinality(BlocksIn(Segs, d.valid)),
     sec_valid_blocks |-> SecCount(d.valid)]

\* wrong variant: current segments without a valid block count as free
MountUsedWithoutLogs(d) == {s \in Segs : d.valid[s] # {}}
MountUsed(d) == {s \in Segs : d.valid[s] # {}} \cup CurSegs(d.curseg)

MountFree(d) ==
    LET used == MountUsed(d)
        secs == {SecOf(s) : s \in used}
    IN  [inuse |-> used, inuse_sec |-> secs,
         free_segments |-> Cardinality(Segs \ used),
         free_sections |-> Cardinality(Secs \ secs)]

MountDirty(d) ==
    LET part == {s \in Segs : d.valid[s] \notin {{}, Offs} /\ ~IS_CURSEG(d.curseg, s)}
        list(t) == IF t = "DIRTY" THEN part ELSE {s \in part : d.type[s] = t}
    IN  [dirty_segmap |-> [t \in DirtyTypes |-> list(t)],
         nr_dirty |-> [t \in DirtyTypes |-> Cardinality(list(t))],
         victim_secmap |-> {}]

(* What mkfs leaves on disk: the root directory's dentry block and inode   *)
(* open the HOT logs, every other log is empty.                            *)
Formatted ==
    LET root == {FormatSeg[t] : t \in Logs \cap {"HOT_DATA", "HOT_NODE"}}
        log(s) == {t \in Logs : FormatSeg[t] = s}
    IN  [valid |-> [s \in Segs |-> IF s \in root THEN {0} ELSE {}],
         type |-> [s \in Segs |->
                     IF log(s) # {} THEN CHOOSE t \in log(s) : TRUE ELSE "HOT_DATA"],
         curseg |-> [t \in Logs |->
                       [segno |-> FormatSeg[t],
                        next_blkoff |-> IF FormatSeg[t] \in root THEN 1 ELSE 0,
                        alloc_type |-> "LFS"]]]

Init ==
    /\ disk = Formatted
    /\ sit = MountSit(disk) /\ free = MountFree(disk) /\ dirty = MountDirty(disk)
    /\ curseg = disk.curseg
    /\ cur_victim_sec = NULL_SECNO
    /\ cp_phase = "idle" /\ cp_error = FALSE
    /\ chain = {}

----------------------------------------------------------------------------
(* Writers.  They hold cp_rwsem (f2fs_lock_op) or node_write for reading,  *)
(* so none runs while write_checkpoint is between block_operations and     *)
(* unblock_operations; sentry_lock makes each of them atomic.              *)

Writing == cp_phase = "idle"

IsNode(t) == t \in NodeLogs
ValidBlocks == BlocksIn(Segs, sit.cur_valid_map)
OldBlocks(t) == {b \in ValidBlocks : IsNode(sit.type[b[1]]) = IsNode(t)}

\* wrong variant: off by one
HasSpaceOffByOne(cs, t) == cs[t].next_blkoff <= BlocksPerSeg
__has_curseg_space(cs, t) == cs[t].next_blkoff < BlocksPerSeg

(* do_write_page: log t writes a page whose previous address is old.  A    *)
(* page without one passed inc_valid_block_count when it was reserved.     *)
allocate_data_block(t, old, reserve) ==
    /\ Writing /\ ~cp_error
    /\ old = NULL_ADDR => sit.written_valid_blocks < UserBlocks
    /\ LET new == <<curseg[t].segno, curseg[t].next_blkoff>>
           cs == [curseg EXCEPT ![t].next_blkoff = __refresh_next_blkoff(sit, curseg[t])]
           x == State(InvalidateOld(update_sit_entry(sit, new, 1), old), free, dirty, cs)
       IN  \E y \in IF __has_curseg_space(cs, t) THEN {x}
                    ELSE allocate_segment_by_default(x, cur_victim_sec, t, FALSE, reserve) :
             /\ sit' = y.sit /\ free' = y.free /\ curseg' = y.curseg
             /\ dirty' = locate_dirty_segment(LocateOld(y.dirty, y.sit, y.curseg, old),
                                              y.sit, y.curseg, new[1])
             /\ chain' = IF t = "WARM_NODE" THEN chain \cup {new} ELSE chain
    /\ UNCHANGED <<cur_victim_sec, cp_phase, cp_error, disk>>

invalidate_blocks(b) ==
    /\ Writing
    /\ sit' = update_sit_entry(sit, b, -1)
    /\ dirty' = locate_dirty_segment(dirty, sit', curseg, b[1])
    /\ UNCHANGED <<free, cur_victim_sec, curseg, cp_phase, cp_error, disk, chain>>

(* __f2fs_replace_block with recover_curseg: the log t is switched to      *)
(* new's segment for the summary entry and switched back to its own, whose *)
(* offset is restored while alloc_type stays as change_curseg left it.     *)
__f2fs_replace_block(x, t, old, new, recover_newaddr) ==
    LET home == x.curseg[t].segno
        there == new[1]
        x1 == IF there = home THEN x ELSE change_curseg(x, t, there)
        st1 == IF recover_newaddr THEN update_sit_entry(x1.sit, new, 1) ELSE x1.sit
        st == InvalidateOld(st1, old)
        d1 == LocateOld(x1.dirty, st, x1.curseg, old)
        d2 == locate_dirty_segment(d1, st, x1.curseg, there)
        d3 == locate_dirty_segment(d2, st, x1.curseg, home)
        x2 == State(st, x1.free, d3, x1.curseg)
        y == IF there = home THEN x2 ELSE change_curseg(x2, t, home)
    IN  [y EXCEPT !.curseg[t].next_blkoff = x.curseg[t].next_blkoff]

(* __clone_blkaddrs (collapse, insert and move range): block new, valid    *)
(* and not yet checkpointed, moves to another index of a file.  What was   *)
(* at that index has been truncated (invalidate_blocks), so old is NULL.   *)
f2fs_replace_block(new) ==
    /\ Writing /\ ~cp_error /\ ExchangeData /\ ~LfsMode
    /\ ~is_checkpointed_data(new)
    /\ \E t \in Logs \cap DataLogs :
         /\ IF IS_CURSEG(curseg, new[1]) THEN curseg[t].segno = new[1] ELSE t = "WARM_DATA"
         /\ LET y == __f2fs_replace_block(State(sit, free, dirty, curseg), t, NULL_ADDR, new, FALSE)
            IN  sit' = y.sit /\ free' = y.free /\ dirty' = y.dirty /\ curseg' = y.curseg
    /\ UNCHANGED <<cur_victim_sec, cp_phase, cp_error, disk, chain>>

----------------------------------------------------------------------------
(* f2fs_gc, under gc_mutex: a victim is chosen, its blocks are moved by    *)
(* the writers above, and cur_victim_sec is reset.                         *)

(* Sections that may be collected; FG_GC leaves those that are too full    *)
(* (no_fggc_candidate) and prefers the victims background GC has marked.   *)
GcCandidates ==
    {c \in {SecOf(s) : s \in dirty.dirty_segmap["DIRTY"]} :
        ~sec_usage_check(curseg, cur_victim_sec, c)}
FggcCandidates(S) ==
    {c \in S : /\ ~sec_usage_check(curseg, cur_victim_sec, c)
               /\ get_valid_blocks(sit, FirstSeg(c), TRUE) <= FggcThreshold}
check_bg_victims == FggcCandidates(dirty.victim_secmap)

get_victim_FG ==
    /\ "FG" \in GcTypes /\ Writing /\ ~cp_error /\ cur_victim_sec = NULL_SECNO
    /\ dirty.dirty_segmap["DIRTY"] # {}
    /\ \E c \in IF check_bg_victims # {} THEN check_bg_victims ELSE FggcCandidates(GcCandidates) :
         /\ cur_victim_sec' = c
         /\ dirty' = [dirty EXCEPT !.victim_secmap = @ \ (check_bg_victims \cap {c})]
    /\ UNCHANGED <<sit, free, curseg, cp_phase, cp_error, disk, chain>>

get_victim_BG ==
    /\ "BG" \in GcTypes /\ Writing /\ ~cp_error /\ cur_victim_sec = NULL_SECNO
    /\ \E c \in GcCandidates \ dirty.victim_secmap :
         dirty' = [dirty EXCEPT !.victim_secmap = @ \cup {c}]
    /\ UNCHANGED <<sit, free, cur_victim_sec, curseg, cp_phase, cp_error, disk, chain>>

f2fs_gc_end ==
    /\ cur_victim_sec # NULL_SECNO
    /\ cur_victim_sec' = NULL_SECNO
    /\ UNCHANGED <<sit, free, dirty, curseg, cp_phase, cp_error, disk, chain>>

----------------------------------------------------------------------------
(* write_checkpoint, under gc_mutex and cp_mutex                           *)

(* flush_sit_entries: every dirty entry goes to the SIT journal or a SIT   *)
(* page and its present map becomes the checkpointed one; then the         *)
(* prefree segments become free, before the pack is on disk.               *)
FlushedSit(st) ==
    [st EXCEPT
      !.ckpt_valid_map = [s \in Segs |-> IF s \in st.dirty_sentries
                                         THEN st.cur_valid_map[s] ELSE st.ckpt_valid_map[s]],
      !.ckpt_valid_blocks = [s \in Segs |-> IF s \in st.dirty_sentries
                                            THEN st.valid_blocks[s] ELSE st.ckpt_valid_blocks[s]],
      !.dirty_sentries = {}]

(* __set_test_and_free for every segment of P                              *)
FreeAll(f, P) ==
    LET left == f.inuse \ P
        gone == {c \in {SecOf(s) : s \in P \cap f.inuse} :
                   SegsOf(c) \cap left = {} /\ c \in f.inuse_sec}
    IN  [inuse |-> left,
         inuse_sec |-> f.inuse_sec \ gone,
         free_segments |-> f.free_segments + Cardinality(P \cap f.inuse),
         free_sections |-> f.free_sections + Cardinality(gone)]

set_prefree_as_free_segments == free' = FreeAll(free, dirty.dirty_segmap["PRE"])

flush_sit_entries ==
    /\ cp_phase = "idle" /\ ~cp_error /\ cur_victim_sec = NULL_SECNO
    /\ cp_phase' = "flushed"
    /\ sit' = FlushedSit(sit)
    /\ set_prefree_as_free_segments
    /\ UNCHANGED <<dirty, cur_victim_sec, curseg, cp_error, disk, chain>>

(* do_checkpoint up to the bio that makes the pack valid                   *)
do_checkpoint ==
    /\ cp_phase = "flushed" /\ ~cp_error
    /\ cp_phase' = "committed"
    /\ disk' = [valid |-> sit.cur_valid_map, type |-> sit.type, curseg |-> curseg]
    /\ chain' = {}
    /\ UNCHANGED <<sit, free, dirty, cur_victim_sec, curseg, cp_error>>

\* wrong variant: the list survives the checkpoint
PrefreeKept(d) == d
PrefreeCleared(d) == [d EXCEPT !.dirty_segmap["PRE"] = {}, !.nr_dirty["PRE"] = 0]

clear_prefree_segments ==
    /\ cp_phase = "committed" /\ ~cp_error
    /\ cp_phase' = "idle"
    /\ dirty' = PrefreeCleared(dirty)
    /\ UNCHANGED <<sit, free, cur_victim_sec, curseg, cp_error, disk, chain>>

(* A failed meta write, a failed read of metadata or a shutdown sets       *)
(* CP_ERROR_FLAG; do_checkpoint then returns -EIO at its next test.        *)
f2fs_stop_checkpoint ==
    /\ "io" \in Faults /\ ~cp_error
    /\ cp_error' = TRUE
    /\ UNCHANGED <<sit, free, dirty, cur_victim_sec, curseg, cp_phase, disk, chain>>

do_checkpoint_EIO ==
    /\ cp_phase # "idle" /\ cp_error
    /\ cp_phase' = "idle"
    /\ UNCHANGED <<sit, free, dirty, cur_victim_sec, curseg, cp_error, disk, chain>>

(* do_checkpoint returns the error of f2fs_flush_device_cache, which only  *)
(* a volume of several devices (s_ndevs) can see, and sets no flag.        *)
flush_device_cache_fails ==
    /\ "device" \in Faults /\ cp_phase = "flushed" /\ ~cp_error
    /\ cp_phase' = "idle"
    /\ UNCHANGED <<sit, free, dirty, cur_victim_sec, curseg, cp_error, disk, chain>>

(* Power is lost and the volume mounted again, without roll-forward.       *)
Crash ==
    /\ sit' = MountSit(disk) /\ free' = MountFree(disk) /\ dirty' = MountDirty(disk)
    /\ curseg' = disk.curseg
    /\ cur_victim_sec' = NULL_SECNO
    /\ cp_phase' = "idle" /\ cp_error' = FALSE
    /\ chain' = {}
    /\ UNCHANGED disk

Next ==
    \/ \E t \in Logs, reserve \in SsrReserves :
         \E old \in OldBlocks(t) \cup {NULL_ADDR} : allocate_data_block(t, old, reserve)
    \/ \E b \in ValidBlocks : invalidate_blocks(b)
    \/ \E new \in OldBlocks("WARM_DATA") : f2fs_replace_block(new)
    \/ get_victim_FG \/ get_victim_BG \/ f2fs_gc_end
    \/ flush_sit_entries \/ do_checkpoint \/ clear_prefree_segments
    \/ f2fs_stop_checkpoint \/ do_checkpoint_EIO \/ flush_device_cache_fails
    \/ Crash

Spec == Init /\ [][Next]_vars

----------------------------------------------------------------------------
(* Properties                                                              *)

SitType ==
    [type : [Segs -> AllLogs],
     valid_blocks : [Segs -> Int], ckpt_valid_blocks : [Segs -> Int],
     cur_valid_map : [Segs -> SUBSET Offs], ckpt_valid_map : [Segs -> SUBSET Offs],
     dirty_sentries : SUBSET Segs, written_valid_blocks : Int,
     sec_valid_blocks : [Secs -> Int]]
FreeType ==
    [inuse : SUBSET Segs, inuse_sec : SUBSET Secs, free_segments : Int, free_sections : Int]
DirtyType ==
    [dirty_segmap : [DirtyTypes -> SUBSET Segs], nr_dirty : [DirtyTypes -> Int],
     victim_secmap : SUBSET Secs]
CursegType ==
    [Logs -> [segno : Segs, next_blkoff : 0 .. BlocksPerSeg, alloc_type : {"LFS", "SSR"}]]
DiskType ==
    [valid : [Segs -> SUBSET Offs], type : [Segs -> AllLogs], curseg : CursegType]

(* Offsets stay inside a segment, segment numbers inside the main area.    *)
TypeOK ==
    /\ sit \in SitType /\ free \in FreeType /\ dirty \in DirtyType
    /\ cur_victim_sec \in Secs \cup {NULL_SECNO}
    /\ curseg \in CursegType
    /\ cp_phase \in {"idle", "flushed", "committed"} /\ cp_error \in BOOLEAN
    /\ disk \in DiskType
    /\ chain \subseteq Blocks

NextFree(t) == <<curseg[t].segno, curseg[t].next_blkoff>>
Occupied(b) == b[2] \in sit.cur_valid_map[b[1]] \cup sit.ckpt_valid_map[b[1]]

(* Whatever the log, the block that allocate_data_block hands out next is  *)
(* valid neither now nor in the checkpoint that a crash would bring back.  *)
NoOverwrite == Writing /\ ~cp_error => \A t \in Logs :
    ~Occupied(NextFree(t)) /\ NextFree(t)[2] \notin disk.valid[NextFree(t)[1]]

(* Recovery follows the node blocks written since the last checkpoint:     *)
(* SSR must not write over one of them, even after it became invalid.      *)
ChainKept == Writing /\ ~cp_error => \A t \in Logs : NextFree(t) \notin chain

(* A log at rest has a next block: fill_node_footer_blkaddr links to it.   *)
CursegHasSpace == \A t \in Logs : curseg[t].next_blkoff < BlocksPerSeg

(* No two logs write the same section.                                     *)
LogsApart == \A t, u \in Logs :
    t # u => SecOf(curseg[t].segno) # SecOf(curseg[u].segno)

(* The counters that SSR, GC and statfs trust agree with the bitmaps.      *)
CountersMatch ==
    /\ sit.valid_blocks = Count(sit.cur_valid_map)
    /\ sit.ckpt_valid_blocks =
         Count([s \in Segs |-> sit.cur_valid_map[s] \cup sit.ckpt_valid_map[s]])
    /\ sit.sec_valid_blocks = SecCount(sit.cur_valid_map)
    /\ sit.written_valid_blocks = Cardinality(ValidBlocks)
    /\ free.free_segments = Cardinality(Segs \ free.inuse)
    /\ free.free_sections = Cardinality(Secs \ free.inuse_sec)
    /\ \A t \in DOMAIN dirty.nr_dirty : dirty.nr_dirty[t] = Cardinality(dirty.dirty_segmap[t])

(* A free segment holds no valid block, neither in memory nor, once        *)
(* writers run, in the checkpoint on disk; a section is free exactly when  *)
(* its segments are.                                                       *)
FreeIsEmpty ==
    /\ \A s \in Segs \ free.inuse :
         /\ sit.cur_valid_map[s] = {} /\ s \notin CurSegs(curseg)
         /\ Writing /\ ~cp_error => sit.ckpt_valid_map[s] = {} /\ disk.valid[s] = {}
    /\ free.inuse_sec = {SecOf(s) : s \in free.inuse}

(* No space is lost: a segment in use without a valid block is a current   *)
(* one or waits in the prefree list, and only such segments wait there.    *)
PrefreeExact == Writing /\ ~cp_error =>
    dirty.dirty_segmap["PRE"] =
        {s \in free.inuse \ CurSegs(curseg) : sit.cur_valid_map[s] = {}}

(* The dirty lists hold partly valid segments only, each under its type.   *)
DirtySound ==
    /\ \A s \in dirty.dirty_segmap["DIRTY"] :
         s \notin CurSegs(curseg) /\ sit.cur_valid_map[s] \notin {{}, Offs}
    /\ \A t \in AllLogs :
         dirty.dirty_segmap[t] = {s \in dirty.dirty_segmap["DIRTY"] : sit.type[s] = t}

(* DIRTY is "to count # of dirty segments" (segment.h): GC and SSR see     *)
(* every partly valid segment that is not current.                         *)
DirtyComplete == \A s \in Segs \ CurSegs(curseg) :
    sit.cur_valid_map[s] \notin {{}, Offs} => s \in dirty.dirty_segmap["DIRTY"]

(* Foreground GC empties a section to make it free: no log may write into  *)
(* the section while it is being collected.                                *)
VictimNotCurrent == cur_victim_sec # NULL_SECNO => ~IS_CURSEC(curseg, cur_victim_sec)

----------------------------------------------------------------------------
(* The inductive invariant behind NoOverwrite, ChainKept, CursegHasSpace   *)
(* and TypeOK on a volume of one device.                                   *)

(* A clean entry is as checkpointed; the two counters of an entry are the  *)
(* sizes of its present map and of its union with the checkpointed one.    *)
EntriesOK(st) == \A s \in Segs :
    /\ s \notin st.dirty_sentries => st.ckpt_valid_map[s] = st.cur_valid_map[s]
    /\ st.valid_blocks[s] = Cardinality(st.cur_valid_map[s])
    /\ st.ckpt_valid_blocks[s] = Cardinality(st.cur_valid_map[s] \cup st.ckpt_valid_map[s])

(* A log has a next block, unused now and in the checkpoint; a log that    *)
(* appends (LFS) has nothing but such blocks from there on.                *)
LogOK(c, cur, ckpt) ==
    /\ c.next_blkoff < BlocksPerSeg
    /\ \A o \in Offs : o = c.next_blkoff \/ (c.alloc_type = "LFS" /\ o >= c.next_blkoff)
                        => o \notin cur[c.segno] \cup ckpt[c.segno]

(* The logs of L are in order, apart from every log, and own segments of   *)
(* their type that are in use.                                             *)
LogsOK(L, cs, type, cur, ckpt, inuse) == \A t \in L :
    /\ LogOK(cs[t], cur, ckpt)
    /\ type[cs[t].segno] = t
    /\ cs[t].segno \in inuse
    /\ \A u \in Logs \ {t} : cs[u].segno # cs[t].segno

(* A free segment is empty, also in the checkpointed map; a section with a *)
(* segment in use is in use.                                               *)
FreeOK(f, st) ==
    /\ \A s \in Segs \ f.inuse : st.cur_valid_map[s] = {} /\ st.ckpt_valid_map[s] = {}
    /\ \A s \in f.inuse : SecOf(s) \in f.inuse_sec

PreOK(d, st, cs) == \A s \in d.dirty_segmap["PRE"] :
    st.cur_valid_map[s] = {} /\ s \notin CurSegs(cs)

(* What holds of the durable checkpoint in each phase.                     *)
CpOK ==
    /\ Writing /\ ~cp_error =>
         /\ dirty.dirty_segmap["PRE"] \subseteq free.inuse
         /\ \A s \in Segs : disk.valid[s] \subseteq sit.ckpt_valid_map[s]
         /\ \A b \in chain : b[2] \in sit.ckpt_valid_map[b[1]]
    /\ cp_phase # "idle" => sit.dirty_sentries = {}
    /\ cp_phase = "committed" => disk.valid = sit.ckpt_valid_map /\ chain = {}

IndInv ==
    /\ TypeOK
    /\ EntriesOK(sit)
    /\ LogsOK(Logs, curseg, sit.type, sit.cur_valid_map, sit.ckpt_valid_map, free.inuse)
    /\ FreeOK(free, sit)
    /\ PreOK(dirty, sit, curseg)
    /\ CpOK
    /\ LogsOK(Logs, disk.curseg, disk.type, disk.valid, disk.valid, Segs)

=============================================================================
