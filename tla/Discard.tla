------------------------------- MODULE Discard -------------------------------
(***************************************************************************)
(* Discard commands (segment.c): after a checkpoint the blocks that it no  *)
(* longer needs are queued, a thread or FITRIM submits the commands to the *)
(* device, and an allocation takes a block out of a queued command or      *)
(* waits for a submitted one.                                              *)
(*                                                                         *)
(* Four actors share the commands under cmd_lock: the allocation of a      *)
(* block, which also holds the lock of the SIT, the discard thread, FITRIM *)
(* and the unmount.  Commands do not overlap, so one is known by its first *)
(* block; a command that is submitted keeps it.  The order of the commands *)
(* in their lists is left open.                                            *)
(***************************************************************************)
EXTENDS Integers, FiniteSets, FiniteSetsExt

CONSTANTS
    SEGS,                   \* number of segments
    SEG_BLOCKS,             \* blocks in each
    MAX_PLIST_NUM,          \* number of lists of pending commands
    discard_granularity,    \* shorter commands wait for FITRIM
    max_requests,           \* commands submitted in one go
    Volumes,                \* sets of blocks that may be in use at mount
    TrimRequests,           \* <<first segment, last segment, minlen>> of FITRIM
    MaxOps                  \* bound on allocations, invalidations, checkpoints

ASSUME DiscardAssumption ==
    /\ SEGS \in Nat \ {0} /\ SEG_BLOCKS \in Nat \ {0}
    /\ discard_granularity \in 1 .. MAX_PLIST_NUM
    /\ max_requests \in Nat \ {0}
    /\ \A used \in Volumes : used \subseteq 0 .. SEGS * SEG_BLOCKS - 1
    /\ TrimRequests \subseteq (0 .. SEGS - 1) \X (0 .. SEGS - 1) \X Nat

VARIABLES
    sit,        \* the blocks valid now (cur) and in the checkpoint (ckpt), the
                \* discard_map (dmap), discard_blks, prefree segments and the log
    cmds,       \* the discard commands
    undiscard_blks,
    gone,       \* blocks that the device has discarded since they were written
    actor,      \* what each actor is doing
    discardOps, \* operations so far
    fs          \* "mounted", or "unmounted" or "trimmed" by the last checkpoint

discardVars == <<sit, cmds, undiscard_blks, gone, actor, discardOps, fs>>

Segments == 0 .. SEGS - 1
DBlocks == 0 .. SEGS * SEG_BLOCKS - 1
Seg(b) == b \div SEG_BLOCKS
BlocksOf(s) == s * SEG_BLOCKS .. (s + 1) * SEG_BLOCKS - 1
SegRange(a, z) == a * SEG_BLOCKS .. (z + 1) * SEG_BLOCKS - 1

Actors == {"writer", "thread", "trim", "umount"}
Idle == [pc |-> "idle", dc |-> 0, blk |-> 0, range |-> {}, list |-> "wait",
         gran |-> 0, i |-> 0, iter |-> 0, dropped |-> FALSE]

-----------------------------------------------------------------------------
(* Commands                                                                *)

Command(lstart, len) ==
    [lstart |-> lstart, len |-> len, state |-> "PREP", ref |-> 0, list |-> "pend"]
Covers(c) == c.lstart .. c.lstart + c.len - 1
plist_idx(len) == IF len >= MAX_PLIST_NUM THEN MAX_PLIST_NUM ELSE len

\* The maximal runs of a set of blocks, as pairs of first block and length.
Span(r) == r[1] .. r[1] + r[2] - 1
Runs(S) ==
    {r \in S \X (1 .. Cardinality(S)) :
        /\ Span(r) \subseteq S
        /\ r[1] - 1 \notin S /\ r[1] + r[2] \notin S}

\* The blocks that commands cover.  As commands never overlap, their lengths
\* add up to the number of these blocks.
Covered(cs) == UNION {Covers(c) : c \in cs}
LenOf(cs) == Cardinality(Covered(cs))

\* A wrong variant: what is queued already is queued once more.
QueueTwice(cs, blks) ==
    [cmds |-> cs \cup {Command(r[1], r[2]) : r \in Runs(blks)}, len |-> Cardinality(blks)]

\* Blocks are queued: what no command covers yet becomes commands, joined
\* with the pending commands on either side.  Pending commands are never next
\* to each other, so what is joined are runs again.
__update_discard_tree_range(cs, blks) ==
    LET gaps == blks \ Covered(cs)
        joined == {c \in cs : c.state = "PREP" /\ {c.lstart - 1, c.lstart + c.len} \cap gaps # {}}
    IN [cmds |-> (cs \ joined) \cup {Command(r[1], r[2]) : r \in Runs(gaps \cup Covered(joined))},
        len |-> Cardinality(gaps)]

\* A wrong variant: the part behind the block starts with the block.
PunchBehind(cs, c, b) ==
    LET left == IF b > c.lstart THEN {Command(c.lstart, b - c.lstart)} ELSE {}
    IN (cs \ {c}) \cup left \cup {Command(b, c.lstart + c.len - b)}

\* A block leaves a pending command, which loses its end, its start, or
\* falls apart.
__punch_discard_cmd(cs, c, b) ==
    LET left == IF b > c.lstart THEN {Command(c.lstart, b - c.lstart)} ELSE {}
        right == IF b < c.lstart + c.len - 1
                 THEN {Command(b + 1, c.lstart + c.len - 1 - b)} ELSE {}
    IN (cs \ {c}) \cup left \cup right

\* Submission of a set of commands for a list of waiters; those in fail are
\* refused by the device and dropped.
__submit_discard_cmd(cs, S, fail, list) ==
    (cs \ S) \cup {[c EXCEPT !.state = "SUBMIT", !.list = list] : c \in S \ fail}

-----------------------------------------------------------------------------
(* What a checkpoint queues                                                *)

\* Runs of a segment to discard: without force the blocks that the last
\* checkpoint had and this one does not, with force (FITRIM) all that are not
\* in use and were not discarded before, short ones in the middle excepted.
add_discard_addrs(s, seg, force, minlen) ==
    LET valid == s.cur \cap BlocksOf(seg)
        dm == IF force THEN BlocksOf(seg) \ (s.ckpt \cup s.dmap)
              ELSE (s.ckpt \cap BlocksOf(seg)) \ s.cur
        short(r) == /\ r[2] < minlen
                    /\ r[1] # Min(BlocksOf(seg)) /\ r[1] + r[2] - 1 # Max(BlocksOf(seg))
    IN IF Cardinality(valid) = SEG_BLOCKS \/ (~force /\ valid = {}) THEN {}
       ELSE {r \in Runs(dm) : ~(force /\ short(r))}

\* The blocks are marked in the discard_map and queued.
f2fs_issue_discard(m, blks) ==
    LET q == __update_discard_tree_range(m.cmds, blks)
    IN [s |-> [m.s EXCEPT !.dmap = @ \cup blks,
                          !.discard_blks = @ - Cardinality(blks \ m.s.dmap)],
        cmds |-> q.cmds, und |-> m.und + q.len]

\* Prefree segments are discarded as a whole, unless FITRIM has them in its
\* range and entered their blocks itself, and then the small runs.  Queued one
\* after the other they make the same commands as queued at once, since each
\* joins the pending one it is next to.
clear_prefree_segments(m, entries, force, trim, minlen) ==
    LET runs == {r \in Runs(m.s.prefree) : ~(force /\ Span(r) \subseteq trim)}
        small == {r \in entries : ~(force /\ r[2] < minlen)}
        blks == (UNION {SegRange(r[1], r[1] + r[2] - 1) : r \in runs}) \cup (UNION {Span(r) : r \in small})
        all == f2fs_issue_discard(m, blks)
    IN [all EXCEPT !.s = [all.s EXCEPT !.prefree = {}]]

\* A checkpoint for a reason (force: FITRIM of the segments trim).  FITRIM
\* does none when it would find nothing to discard.
write_checkpoint(force, trim, minlen) ==
    LET before == UNION {add_discard_addrs(sit, g, FALSE, 0) : g \in Segments}
        flushed == [sit EXCEPT !.ckpt = sit.cur]
        after == UNION {add_discard_addrs(flushed, g, TRUE, minlen) : g \in trim}
        candidates == \E g \in trim : add_discard_addrs(sit, g, TRUE, minlen) # {}
        m == [s |-> flushed, cmds |-> cmds, und |-> undiscard_blks]
    IN IF force /\ (sit.discard_blks = 0 \/ ~candidates)
       THEN [m EXCEPT !.s = sit]
       ELSE clear_prefree_segments(m, IF force THEN after ELSE before, force, trim, minlen)

Apply(m) ==
    /\ sit' = m.s
    /\ cmds' = m.cmds
    /\ undiscard_blks' = m.und

-----------------------------------------------------------------------------
(* Blocks come and go                                                      *)

\* Nothing else holds the lock of the SIT or stops operations.
Unlocked == actor["writer"] = Idle /\ fs = "mounted" /\ actor["umount"] = Idle

Counted == discardOps < MaxOps /\ discardOps' = discardOps + 1

update_sit_entry(s, b) ==
    [s EXCEPT !.cur = @ \cup {b}, !.dmap = @ \cup {b}, !.log = Seg(b),
              !.discard_blks = IF b \in s.dmap THEN @ ELSE @ - 1,
              !.prefree = IF Seg(b) # s.log /\ s.cur \cap BlocksOf(s.log) = {}
                          THEN @ \cup {s.log} ELSE @]

\* allocate_data_block chooses a block that neither the file system nor the
\* checkpoint needs and makes sure that no discard is going to hit it.
f2fs_wait_discard_bio ==
    /\ Unlocked /\ Counted
    /\ \E b \in DBlocks \ (sit.cur \cup sit.ckpt) :
        LET hit == {c \in cmds : b \in Covers(c)}
            c == CHOOSE x \in hit : TRUE
        IN /\ Seg(b) \notin sit.prefree
           /\ IF hit # {} /\ c.state # "PREP"
              THEN /\ cmds' = (cmds \ {c}) \cup {[c EXCEPT !.ref = @ + 1]}
                   /\ actor' = [actor EXCEPT !["writer"] =
                                  [Idle EXCEPT !.pc = "waitone", !.dc = c.lstart, !.blk = b]]
                   /\ UNCHANGED <<sit, undiscard_blks, gone>>
              ELSE /\ cmds' = IF hit = {} THEN cmds ELSE __punch_discard_cmd(cmds, c, b)
                   /\ undiscard_blks' = IF hit = {} THEN undiscard_blks ELSE undiscard_blks - 1
                   /\ sit' = update_sit_entry(sit, b)
                   /\ gone' = gone \ {b}
                   /\ UNCHANGED actor
    /\ UNCHANGED fs

\* A block becomes invalid; its segment is prefree if it was the last one.
invalidate_block ==
    /\ Unlocked /\ Counted
    /\ \E b \in sit.cur :
        sit' = [sit EXCEPT !.cur = @ \ {b}, !.dmap = @ \ {b},
                           !.discard_blks = IF b \in sit.dmap THEN @ + 1 ELSE @,
                           !.prefree = IF /\ Seg(b) # sit.log
                                          /\ sit.cur \cap BlocksOf(Seg(b)) = {b}
                                       THEN @ \cup {Seg(b)} ELSE @]
    /\ UNCHANGED <<cmds, undiscard_blks, gone, actor, fs>>

CheckpointStep ==
    /\ Unlocked /\ Counted
    /\ Apply(write_checkpoint(FALSE, {}, 0))
    /\ UNCHANGED <<gone, actor, fs>>

-----------------------------------------------------------------------------
(* Submitting and waiting                                                  *)

Pending(i) == {c \in cmds : c.state = "PREP" /\ plist_idx(c.len) = i}

\* One list of pending commands, from the longest on, under cmd_lock.  The
\* thread may leave some because the device is busy; if it found any it waits.
__issue_discard_cmd(a) ==
    LET me == actor[a]
        room == max_requests - me.iter
        all == Pending(me.i)
    IN /\ me.pc = "issue"
       /\ IF me.i < me.gran \/ room <= 0
          THEN /\ actor' = [actor EXCEPT ![a] =
                              IF a = "umount" THEN [me EXCEPT !.pc = "drop"]
                              ELSE IF me.iter > 0 THEN [me EXCEPT !.pc = "scan"] ELSE Idle]
               /\ UNCHANGED <<cmds, undiscard_blks>>
          ELSE \E S \in SUBSET all, fail \in SUBSET all :
                /\ fail \subseteq S /\ Cardinality(S) <= room
                /\ a = "umount" => S = all \/ Cardinality(S) = room
                /\ cmds' = __submit_discard_cmd(cmds, S, fail, "wait")
                /\ undiscard_blks' = undiscard_blks - LenOf(fail)
                /\ actor' = [actor EXCEPT ![a] =
                              [me EXCEPT !.i = @ - 1, !.iter = @ + Cardinality(all)]]
       /\ UNCHANGED <<sit, gone, discardOps, fs>>

\* FITRIM goes through the commands from its cursor on, the one right behind
\* its range included: it submits the pending ones, takes over those that were
\* submitted before, and lets go of the lock after max_requests submissions.
\* A fatal signal ends the walk anywhere.
__issue_discard_cmd_range ==
    LET me == actor["trim"]
        todo == {c \in cmds : /\ c.lstart <= Max(me.range) + 1
                              /\ c.lstart + c.len > me.blk
                              /\ c.len >= me.gran}
    IN /\ me.pc = "issue"
       /\ \E batch \in {{c \in todo : c.lstart <= e} : e \in {t.lstart : t \in todo} \cup {-1}} :
            LET S == {c \in batch : c.state = "PREP"}
                full == Cardinality(S) = max_requests
                behind == Max({c.lstart + c.len : c \in batch} \cup {0})
            IN /\ Cardinality(S) <= max_requests
               /\ full => \E c \in S : c.lstart + c.len = behind
               /\ \E fail \in SUBSET S :
                    /\ cmds' = __submit_discard_cmd(
                                 (cmds \ batch) \cup S
                                   \cup {[c EXCEPT !.list = "fstrim"] : c \in batch \ S},
                                 S, fail, "fstrim")
                    /\ undiscard_blks' = undiscard_blks - LenOf(fail)
               /\ actor' = [actor EXCEPT !["trim"] =
                              IF full THEN [me EXCEPT !.blk = behind]
                              ELSE [me EXCEPT !.pc = "scan"]]
       /\ UNCHANGED <<sit, gone, discardOps, fs>>

\* The commands an actor waits for: those of its list that reach into its
\* range.  Finished ones go, up to the first that needs a wait.
__wait_discard_cmd_range(a) ==
    LET me == actor[a]
        mine == {c \in cmds : /\ c.list = me.list /\ c.len >= me.gran
                              /\ Covers(c) \cap me.range # {}}
        finished == {c \in mine : c.state = "DONE" /\ c.ref = 0}
    IN /\ me.pc = "scan"
       /\ \/ /\ finished = mine
             /\ cmds' = cmds \ mine
             /\ undiscard_blks' = undiscard_blks - LenOf(mine)
             /\ actor' = [actor EXCEPT ![a] =
                            IF a = "umount" THEN [me EXCEPT !.pc = "finish"] ELSE Idle]
          \/ \E c \in mine \ finished, S \in SUBSET finished :
                /\ cmds' = (cmds \ (S \cup {c})) \cup {[c EXCEPT !.ref = @ + 1]}
                /\ undiscard_blks' = undiscard_blks - LenOf(S)
                /\ actor' = [actor EXCEPT ![a] = [me EXCEPT !.pc = "waitone", !.dc = c.lstart]]
       /\ UNCHANGED <<sit, gone, discardOps, fs>>

\* The command it waited for is done: the last waiter removes it.  The
\* writer then has its block.
__wait_one_discard_bio(a) ==
    LET me == actor[a]
        c == CHOOSE x \in cmds : x.lstart = me.dc
        last == c.ref = 1
    IN /\ me.pc = "waitone"
       /\ c.state = "DONE"
       /\ cmds' = (cmds \ {c}) \cup (IF last THEN {} ELSE {[c EXCEPT !.ref = @ - 1]})
       /\ undiscard_blks' = IF last THEN undiscard_blks - c.len ELSE undiscard_blks
       /\ IF a = "writer"
          THEN /\ sit' = update_sit_entry(sit, me.blk)
               /\ gone' = gone \ {me.blk}
               /\ actor' = [actor EXCEPT ![a] = Idle]
          ELSE /\ actor' = [actor EXCEPT ![a] = [me EXCEPT !.pc = "scan"]]
               /\ UNCHANGED <<sit, gone>>
       /\ UNCHANGED <<discardOps, fs>>

\* The device has discarded the blocks of a command.
f2fs_submit_discard_endio ==
    /\ \E c \in cmds :
        /\ c.state = "SUBMIT"
        /\ cmds' = (cmds \ {c}) \cup {[c EXCEPT !.state = "DONE"]}
        /\ gone' = gone \cup Covers(c)
    /\ UNCHANGED <<sit, undiscard_blks, actor, discardOps, fs>>

-----------------------------------------------------------------------------
(* The thread, FITRIM and unmount                                          *)

\* The thread wakes up; when the garbage collector is in a hurry it takes
\* commands of any length.
issue_discard_thread ==
    /\ actor["thread"] = Idle /\ fs = "mounted" /\ cmds # {}
    /\ \E gran \in {discard_granularity, 1} :
        actor' = [actor EXCEPT !["thread"] =
                    [Idle EXCEPT !.pc = "issue", !.range = DBlocks,
                                 !.gran = gran, !.i = MAX_PLIST_NUM]]
    /\ UNCHANGED <<sit, cmds, undiscard_blks, gone, discardOps, fs>>

\* FITRIM: a checkpoint that queues all that is free, then their submission.
f2fs_trim_fs ==
    /\ Unlocked /\ Counted /\ actor["trim"] = Idle
    /\ \E r \in TrimRequests :
        /\ Apply(write_checkpoint(TRUE, r[1] .. r[2], r[3]))
        /\ actor' = [actor EXCEPT !["trim"] =
                        [Idle EXCEPT !.pc = "issue", !.blk = r[1] * SEG_BLOCKS,
                                     !.range = SegRange(r[1], IF sit.discard_blks = 0
                                                              THEN r[1] ELSE r[2]),
                                     !.gran = r[3], !.list = "fstrim"]]
    /\ UNCHANGED <<gone, fs>>

\* The unmount writes a checkpoint, submits, drops and waits.
f2fs_put_super ==
    /\ Unlocked /\ actor["trim"] = Idle
    /\ Apply(write_checkpoint(FALSE, {}, 0))
    /\ actor' = [actor EXCEPT !["umount"] =
                    [Idle EXCEPT !.pc = "issue", !.range = DBlocks,
                                 !.gran = discard_granularity, !.i = MAX_PLIST_NUM]]
    /\ UNCHANGED <<gone, discardOps, fs>>

__drop_discard_cmd ==
    LET pend == {c \in cmds : c.state = "PREP"}
    IN /\ actor["umount"].pc = "drop"
       /\ cmds' = cmds \ pend
       /\ undiscard_blks' = undiscard_blks - LenOf(pend)
       /\ actor' = [actor EXCEPT !["umount"] =
                       [actor["umount"] EXCEPT !.pc = "scan", !.dropped = pend # {}]]
       /\ UNCHANGED <<sit, gone, discardOps, fs>>

\* The last checkpoint claims that all free blocks are discarded if none is
\* left; stop_discard_thread waits for the thread.
FinishUnmount ==
    /\ actor["umount"].pc = "finish" /\ actor["thread"] = Idle
    /\ fs' = IF sit.discard_blks = 0 /\ ~actor["umount"].dropped
             THEN "trimmed" ELSE "unmounted"
    /\ actor' = [actor EXCEPT !["umount"] = Idle]
    /\ UNCHANGED <<sit, cmds, undiscard_blks, gone, discardOps>>

\* A mounted file system with some blocks in use, none of the others known
\* to be discarded.
DiscardInit ==
    /\ \E used \in Volumes, log \in Segments :
        sit = [cur |-> used, ckpt |-> used, dmap |-> used,
               discard_blks |-> Cardinality(DBlocks \ used), prefree |-> {}, log |-> log]
    /\ cmds = {} /\ undiscard_blks = 0 /\ gone = {} /\ discardOps = 0 /\ fs = "mounted"
    /\ actor = [a \in Actors |-> Idle]

DiscardNext ==
    \/ f2fs_wait_discard_bio \/ invalidate_block \/ CheckpointStep
    \/ \E a \in {"thread", "umount"} : __issue_discard_cmd(a)
    \/ __issue_discard_cmd_range
    \/ \E a \in {"thread", "trim", "umount"} : __wait_discard_cmd_range(a)
    \/ \E a \in Actors : __wait_one_discard_bio(a)
    \/ f2fs_submit_discard_endio
    \/ issue_discard_thread \/ f2fs_trim_fs
    \/ f2fs_put_super \/ __drop_discard_cmd \/ FinishUnmount

DiscardSpec == DiscardInit /\ [][DiscardNext]_discardVars

-----------------------------------------------------------------------------
(* Properties                                                              *)

\* A discard that the device may still carry out covers no block that holds
\* data of the file system or of its last checkpoint: the block of an
\* allocation was taken out of its command, or the command was waited for.
DiscardSafe ==
    \A c \in cmds :
        c.state # "DONE" => Covers(c) \cap (sit.cur \cup sit.ckpt) = {}

\* Commands stay apart and accounted for while four actors split, join, submit
\* and remove them, and a command that an actor waits for, by a reference it
\* took before it let go of cmd_lock, is not freed before that actor is done.
CommandsSound ==
    LET waiters(c) == {a \in Actors : actor[a].pc = "waitone" /\ actor[a].dc = c.lstart}
    IN /\ \A c, d \in cmds : c # d => Covers(c) \cap Covers(d) = {}
       /\ \A c \in cmds : /\ c.len > 0 /\ c.ref = Cardinality(waiters(c))
                          /\ c.state = "PREP" => c.list = "pend"
       /\ \A a \in Actors : actor[a].pc = "waitone" =>
            \E c \in cmds : c.lstart = actor[a].dc /\ c.state # "PREP"
       /\ undiscard_blks = LenOf(cmds)
       /\ sit.discard_blks = Cardinality(DBlocks \ sit.dmap)

\* "be sure to wait for any on-going discard commands": when the file system
\* is unmounted no discard is on its way to the device, where it could hit a
\* block that the next mount writes.
UnmountQuiet == fs # "mounted" => \A c \in cmds : c.state # "SUBMIT"
=============================================================================
