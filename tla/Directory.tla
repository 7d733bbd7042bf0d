------------------------------ MODULE Directory ------------------------------
(***************************************************************************)
(* One directory: dentries in the inode or in hash buckets on levels of    *)
(* blocks (dir.c, and the inline dentries of inline.c).                    *)
(*                                                                         *)
(* Every call holds the lock of the directory's inode, so it is one step.  *)
(* A name is known by its hash and by the slots that it takes.             *)
(*                                                                         *)
(* A directory d is a record                                               *)
(*   inline  FI_INLINE_DENTRY                                              *)
(*   ients   the entries in the inode                                      *)
(*   page    the entries of every block that exists                        *)
(*   depth   i_current_depth;  level  i_dir_level                          *)
(*   size    i_size in blocks                                              *)
(*   chash, clevel   where the last lookup saw room for which hash         *)
(*   task    the task whose lookup failed last                             *)
(*   err     the error of the call under way                               *)
(***************************************************************************)
EXTENDS Integers, FiniteSets, FiniteSetsExt

CONSTANTS
    Names,                  \* names that are created
    NameHash, NameSlots,    \* f2fs_dentry_hash and GET_DENTRY_SLOTS of each
    NR_DENTRY_IN_BLOCK,     \* slots of a block
    NR_INLINE_DENTRY,       \* slots of an inode
    MAX_DIR_HASH_DEPTH,     \* limit of the depth
    LOW_BLOCKS, HIGH_BLOCKS,    \* blocks of a bucket on lower and higher levels
    DirLevels,              \* values of i_dir_level
    Inos,                   \* inode numbers
    MaxNewBlocks,           \* blocks that one call may get
    MaxDirOps               \* bound on calls

\* The last conjunct is arithmetic: the provers know nothing of powers.
ASSUME DirectoryAssumption ==
    /\ IsFiniteSet(Names) /\ Names \cap {".", ".."} = {} /\ 0 \notin Inos
    /\ \A n \in Names : NameHash[n] \in Nat /\ NameSlots[n] \in 1 .. NR_DENTRY_IN_BLOCK
    /\ NR_DENTRY_IN_BLOCK \in Nat /\ NR_INLINE_DENTRY \in 2 .. NR_DENTRY_IN_BLOCK
    /\ LOW_BLOCKS \in Nat \ {0} /\ HIGH_BLOCKS \in Nat \ {0}
    /\ MAX_DIR_HASH_DEPTH \in Nat \ {0, 1} /\ DirLevels \subseteq Nat
    /\ 2 ^ 0 = 1 /\ \A k \in 1 .. MAX_DIR_HASH_DEPTH : 2 ^ k \in Nat \ {0}

VARIABLES
    dir,        \* the directory
    names,      \* the map that the calls that succeeded have made
    dirOps      \* calls so far

dirVars == <<dir, names, dirOps>>

Dots == {".", ".."}
Tasks == {1, 2}
hash(n) == IF n \in Dots THEN 0 ELSE NameHash[n]
slots(n) == IF n \in Dots THEN 1 ELSE NameSlots[n]
Dentry(n, ino, pos) == [name |-> n, ino |-> ino, pos |-> pos]
Failed(d, e) == [d EXCEPT !.err = e]

-----------------------------------------------------------------------------
(* Levels, buckets and slots                                               *)

dir_buckets(level, dir_level) ==
    IF level + dir_level < MAX_DIR_HASH_DEPTH \div 2
    THEN 2 ^ (level + dir_level) ELSE 2 ^ (MAX_DIR_HASH_DEPTH \div 2 - 1)

bucket_blocks(level) ==
    IF level < MAX_DIR_HASH_DEPTH \div 2 THEN LOW_BLOCKS ELSE HIGH_BLOCKS

\* The first block of each level, for each i_dir_level.
level_start[l \in 0 .. MAX_DIR_HASH_DEPTH] ==
    [dl \in DirLevels |->
        IF l = 0 THEN 0 ELSE level_start[l - 1][dl] + dir_buckets(l - 1, dl) * bucket_blocks(l - 1)]

dir_block_index(level, dir_level, idx) ==
    level_start[level][dir_level] + idx * bucket_blocks(level)

\* The blocks where a level may have a hash.
Bucket(level, dir_level, h) ==
    LET bidx == dir_block_index(level, dir_level, h % dir_buckets(level, dir_level))
    IN bidx .. bidx + bucket_blocks(level) - 1

dentry_bitmap(ents) == UNION {e.pos .. e.pos + slots(e.name) - 1 : e \in ents}

\* The first run of free slots that is long enough, max_slots if none is.
room_for_filename(ents, n, max_slots) ==
    LET free == (0 .. max_slots - 1) \ dentry_bitmap(ents)
        starts == {z \in free : z - 1 \notin free /\ z .. z + n - 1 \subseteq free}
    IN IF starts = {} THEN max_slots ELSE Min(starts)

\* Entries with the hash and the name; the longest run of free slots decides
\* whether there is room.
find_target_dentry(ents, n) == {e \in ents : hash(e.name) = hash(n) /\ e.name = n}

-----------------------------------------------------------------------------
(* Lookup                                                                  *)

\* One level: the entries found and whether there is room for another.
find_in_level(d, level, n) ==
    LET blocks == Bucket(level, d.level, hash(n))
        there == blocks \cap DOMAIN d.page
    IN [de |-> UNION {find_target_dentry(d.page[b], n) : b \in there},
        room |-> \/ blocks # there
                 \/ \E b \in there : room_for_filename(d.page[b], slots(n), NR_DENTRY_IN_BLOCK)
                                         < NR_DENTRY_IN_BLOCK]

\* All levels up to the one that has the name.  The first that has room on the
\* way is remembered.
__f2fs_find_entry(d, n, task) ==
    LET levels == IF d.size = 0 THEN {} ELSE 0 .. d.depth - 1
        at == {l \in levels : find_in_level(d, l, n).de # {}}
        room == {l \in levels : find_in_level(d, l, n).room /\ \A x \in at : l < x}
        seen == IF room = {} \/ d.chash = hash(n) THEN d
                ELSE [d EXCEPT !.chash = hash(n), !.clevel = Min(room)]
        de == IF d.inline THEN find_target_dentry(d.ients, n)
              ELSE IF at = {} THEN {} ELSE find_in_level(d, Min(at), n).de
        r == IF d.inline THEN d ELSE seen
    IN [de |-> de, d |-> IF de = {} THEN [r EXCEPT !.task = task] ELSE r]

-----------------------------------------------------------------------------
(* Adding                                                                  *)

\* A wrong variant: a new level is used and not counted.
PlaceKeepsDepth(d, n, ino, depth, at) ==
    [d EXCEPT !.page[at.b] = @ \cup {Dentry(n, ino, at.pos)}]

\* f2fs_update_dentry and update_parent_metadata.
Place(d, n, ino, depth, at) ==
    [d EXCEPT !.page[at.b] = @ \cup {Dentry(n, ino, at.pos)}, !.depth = depth]

\* Where a name fits in a block, and the blocks of a level where it does.
RoomIn(d, n, b) == room_for_filename(d.page[b], slots(n), NR_DENTRY_IN_BLOCK)

BlocksFor(d, n, level) ==
    {b \in Bucket(level, d.level, hash(n)) :
        b \notin DOMAIN d.page \/ RoomIn(d, n, b) < NR_DENTRY_IN_BLOCK}

\* From the remembered level on, the first block of the hash's buckets with
\* room, which is made if it is missing and new blocks are left; the level
\* behind the last one may be opened.  meta says if the inode could be
\* initialised.
f2fs_add_regular_entry(d, n, ino, new, meta) ==
    LET hit == d.chash = hash(n)
        d0 == IF hit THEN [d EXCEPT !.chash = 0] ELSE d
        level == Min({l \in (IF hit THEN d.clevel ELSE 0) .. d.depth : BlocksFor(d, n, l) # {}})
        b == Min(BlocksFor(d, n, level))
        there == b \in DOMAIN d.page
        got == IF there THEN d0
               ELSE [d0 EXCEPT !.page = [x \in DOMAIN @ \cup {b} |-> IF x = b THEN {} ELSE @[x]],
                               !.size = IF @ > b THEN @ ELSE b + 1]
        left == IF there THEN new ELSE new - 1
        depth == IF level = d.depth THEN d.depth + 1 ELSE d.depth
        pos == IF there THEN RoomIn(d, n, b) ELSE 0
    IN IF d.depth = MAX_DIR_HASH_DEPTH \/ (~there /\ new = 0)
       THEN [d |-> Failed(d0, "ENOSPC"), new |-> new]
       ELSE [d |-> IF meta THEN Place(got, n, ino, depth, [b |-> b, pos |-> pos])
                   ELSE Failed(got, "EIO"),
             new |-> left]

\* Inline entries become the first block as they are.
f2fs_move_inline_dirents(m) ==
    LET d == m.d
    IN IF m.new = 0 THEN [m EXCEPT !.d.err = "ENOSPC"]
       ELSE [d |-> [d EXCEPT !.page = [b \in {0} |-> d.ients], !.ients = {},
                             !.inline = FALSE, !.depth = 1, !.size = 1],
             new |-> m.new - 1]

MoveSlot(ents, q, i) ==
    LET e == CHOOSE e \in ents : e.pos = i
    IN IF q.d.err # "" \/ \A x \in ents : x.pos # i THEN q
       ELSE f2fs_add_regular_entry(q.d, e.name, e.ino, q.new, TRUE)

\* With other buckets on level 0 they are added one after the other, in the
\* order of their slots; if that fails the blocks go and the inode has them back.
f2fs_move_rehashed_dirents(m) ==
    LET d == m.d
        moved[i \in 0 .. NR_INLINE_DENTRY] ==
          IF i = 0 THEN [d |-> [d EXCEPT !.ients = {}], new |-> m.new]
          ELSE MoveSlot(d.ients, moved[i - 1], i - 1)
        r == moved[NR_INLINE_DENTRY]
    IN IF r.d.err = "" THEN [d |-> [r.d EXCEPT !.inline = FALSE], new |-> r.new]
       ELSE [d |-> [r.d EXCEPT !.page = << >>, !.ients = d.ients, !.depth = 0, !.size = 1],
             new |-> m.new]

f2fs_convert_inline_dir(m) ==
    IF m.d.level = 0 THEN f2fs_move_inline_dirents(m) ELSE f2fs_move_rehashed_dirents(m)

__f2fs_do_add_link(d, n, ino, c) ==
    LET pos == room_for_filename(d.ients, slots(n), NR_INLINE_DENTRY)
        m == IF d.inline THEN f2fs_convert_inline_dir([d |-> d, new |-> c.new])
             ELSE [d |-> d, new |-> c.new]
    IN IF d.inline /\ pos < NR_INLINE_DENTRY
       THEN IF c.meta
            THEN [d EXCEPT !.ients = @ \cup {Dentry(n, ino, pos)}, !.depth = 0]
            ELSE Failed(d, "EIO")
       ELSE IF m.d.err # "" THEN m.d
       ELSE f2fs_add_regular_entry(m.d, n, ino, m.new, c.meta).d

\* Unless the same task has just looked, the name is looked up once more.
__f2fs_add_link(d, n, ino, task, c) ==
    LET r == __f2fs_find_entry(d, n, task)
    IN IF d.task = task THEN __f2fs_do_add_link(d, n, ino, c)
       ELSE IF r.de # {} THEN Failed([d EXCEPT !.task = 0], "EEXIST")
       ELSE __f2fs_do_add_link([r.d EXCEPT !.task = 0], n, ino, c)

-----------------------------------------------------------------------------
(* Removing, listing                                                       *)

\* The block goes when it has become empty, if its truncation succeeds.
f2fs_delete_entry(d, e, trunc) ==
    IF d.inline THEN [d EXCEPT !.ients = @ \ {e}]
    ELSE LET b == CHOOSE x \in DOMAIN d.page : e \in d.page[x]
         IN IF d.page[b] = {e} /\ trunc
            THEN [d EXCEPT !.page = [x \in DOMAIN @ \ {b} |-> @[x]]]
            ELSE [d EXCEPT !.page[b] = @ \ {e}]

f2fs_set_link(d, e, ino) ==
    LET set(ents) == IF e \in ents THEN (ents \ {e}) \cup {[e EXCEPT !.ino = ino]} ELSE ents
    IN IF d.inline THEN [d EXCEPT !.ients = set(@)]
       ELSE [d EXCEPT !.page = [b \in DOMAIN @ |-> set(@[b])]]

\* Nothing but the first two slots is in use.
f2fs_empty_dir(d) ==
    IF d.inline THEN \A e \in d.ients : e.pos < 2
    ELSE \A b \in DOMAIN d.page \cap 0 .. d.size - 1 :
            \A e \in d.page[b] : b = 0 /\ e.pos < 2

\* What a listing shows: the entries in the inode, or of all blocks in i_size.
f2fs_readdir(d) ==
    IF d.inline THEN {<<0, e>> : e \in d.ients}
    ELSE UNION {{<<b, e>> : e \in d.page[b]} : b \in DOMAIN d.page \cap 0 .. d.size - 1}

-----------------------------------------------------------------------------
(* The state machine                                                       *)

\* make_empty_dir: "." and ".." in the inode or in the first block.
NewDir(level, inline) ==
    LET dots == {Dentry(".", Min(Inos), 0), Dentry("..", Max(Inos), 1)}
    IN [inline |-> inline, ients |-> IF inline THEN dots ELSE {},
        page |-> IF inline THEN << >> ELSE [b \in {0} |-> dots],
        depth |-> 1, level |-> level, size |-> 1, chash |-> 0, clevel |-> 0,
        task |-> 0, err |-> ""]

DirInit ==
    /\ \E level \in DirLevels, inline \in BOOLEAN : dir = NewDir(level, inline)
    /\ names = [n \in Names |-> 0]
    /\ dirOps = 0

\* A call returns: names follows if it succeeds and only then.
DirReturn(d, n, ino) ==
    /\ dirOps < MaxDirOps /\ dirOps' = dirOps + 1
    /\ dir' = [d EXCEPT !.err = ""]
    /\ names' = IF d.err = "" THEN [names EXCEPT ![n] = ino] ELSE names

DirLookup ==
    \E n \in Names, t \in Tasks : DirReturn(__f2fs_find_entry(dir, n, t).d, n, names[n])

\* A file system stacked on this one may add a name that is there, in a task
\* that has not looked.
DirAdd ==
    \E n \in Names, ino \in Inos, t \in Tasks, new \in 0 .. MaxNewBlocks, meta \in BOOLEAN :
        /\ dir.task = t => names[n] = 0
        /\ DirReturn(__f2fs_add_link(dir, n, ino, t, [new |-> new, meta |-> meta]), n, ino)

DirRemove ==
    \E n \in Names, trunc \in BOOLEAN :
        \E e \in __f2fs_find_entry(dir, n, 0).de :
            DirReturn(f2fs_delete_entry(dir, e, trunc), n, 0)

DirSetLink ==
    \E n \in Names, ino \in Inos :
        \E e \in __f2fs_find_entry(dir, n, 0).de : DirReturn(f2fs_set_link(dir, e, ino), n, ino)

DirNext == DirLookup \/ DirAdd \/ DirRemove \/ DirSetLink

DirSpec == DirInit /\ [][DirNext]_dirVars

-----------------------------------------------------------------------------
(* Properties                                                              *)

\* The directory is a map from names to inodes, whatever level, bucket or slot
\* an entry is in, also when the entries leave the inode, a new level is opened
\* at a remembered place, an emptied block is given up, or a call fails
\* half-way: lookups find exactly the names that were added and not removed,
\* with their inode, a listing has each of them once, and the test for an empty
\* directory agrees.
DirExact ==
    LET entries == f2fs_readdir(dir)
        there == {n \in Names : names[n] # 0}
    IN /\ \A n \in Names : {e.ino : e \in __f2fs_find_entry(dir, n, 0).de} = {names[n]} \ {0}
       /\ \A n \in Dots : Cardinality(__f2fs_find_entry(dir, n, 0).de) = 1
       /\ {x[2].name : x \in entries} = there \cup Dots
       /\ Cardinality(entries) = Cardinality(there) + 2
       /\ f2fs_empty_dir(dir) <=> there = {}
=============================================================================
