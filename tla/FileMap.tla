------------------------------- MODULE FileMap -------------------------------
(***************************************************************************)
(* One regular file: its node tree, block addresses, extent cache, inline  *)
(* data and size, and the operations that change them (file.c, data.c,     *)
(* node.c, inline.c).                                                      *)
(*                                                                         *)
(* The operations hold the inode's lock, so each is one step; the shrinker,*)
(* checkpoints and the ioctl that loads extents run between them.  Offsets *)
(* and sizes are in units, PAGE_UNITS of which make a page, so that ranges *)
(* may start and end inside a page.  The page cache is written through:    *)
(* what dirties a page also writes it, to a new block or in place.         *)
(*                                                                         *)
(* A file f is a record                                                    *)
(*   addr    the block address of every page (NULL_ADDR, NEW_ADDR, block)  *)
(*   live    the offsets of the nodes that exist, the inode's included     *)
(*   nid     the offsets of the nodes that a parent names                  *)
(*   et      the extent cache                                              *)
(*   data    the contents of the blocks                                    *)
(*   ckpt    the blocks of the last checkpoint                             *)
(*   out     blocks that a move has in its hands                           *)
(*   blocks  the count of data and node blocks but the inode's (i_blocks)  *)
(*   limit   how many the volume has room for                              *)
(*   lfs     the volume is mounted with mode=lfs                           *)
(*   size    i_size                                                        *)
(*   inline  FI_INLINE_DATA;  exist  FI_DATA_EXIST;  idata  the bytes      *)
(*   err     the error of the operation under way                          *)
(*   bug     an assertion of the code has failed, or it has read behind    *)
(*           the end of an array; the machine stops there                  *)
(***************************************************************************)
EXTENDS NodePath, ExtentCache, SequencesExt

CONSTANTS
    PAGE_UNITS,         \* units of a page
    MAX_INLINE_DATA,    \* units that fit in an inode
    NBlocks,            \* blocks of the device
    Windows,            \* initial files with the operations to try on them
    WriteRanges,        \* all ranges that these write,
    Ranges,             \* give to fallocate and defragmentation,
    Sizes               \* and all sizes that they set

VARIABLES
    file,       \* the file
    inputs,     \* the ranges and sizes that operations are called with
    left,       \* how many operations, checkpoints and reclaims may follow
    pre,        \* where f2fs_precache_extents is
    last        \* the last operation that returned, its arguments and result

fileVars == <<file, inputs, left, pre, last>>

Blocks == 1 .. NBlocks
Units == 0 .. PAGE_UNITS - 1
Zero == [u \in Units |-> 0]
Page(u) == u \div PAGE_UNITS
PageUp(u) == (u + PAGE_UNITS - 1) \div PAGE_UNITS
Within(u) == u % PAGE_UNITS
Smaller(a, b) == IF a <= b THEN a ELSE b
InOrder(S, n) == SelectSeq([i \in 1 .. n |-> i - 1], LAMBDA x : x \in S)
Larger(a, b) == IF a <= b THEN b ELSE a

\* What the environment picks for an operation: can extent nodes be allocated,
\* is data written in place.
Outcomes == [ok : BOOLEAN, ipu : BOOLEAN]

Fail(f, e) == [f EXCEPT !.err = e]

\* The operation goes on unless it has failed.
Then(f, Op(_)) == IF f.err # "" THEN f ELSE Op(f)

-----------------------------------------------------------------------------
(* Block addresses, extents and contents                                   *)

\* Where a reader finds a page: the extent cache answers first.
CachedAddr(f, p) ==
    LET hit == f2fs_lookup_extent_tree(f.et, p)
    IN IF hit = {} THEN f.addr[p]
       ELSE LET e == CHOOSE x \in hit : TRUE IN e.blk + p - e.fofs

\* What it reads there.
get_read_data_page(f, p) ==
    LET blk == CachedAddr(f, p) IN IF blk > 0 THEN f.data[blk] ELSE Zero

f2fs_update_extent_cache_range(f, fofs, blkaddr, len, c) ==
    IF BugOn(f.et, fofs) THEN [f EXCEPT !.bug = TRUE]
    ELSE [f EXCEPT !.et = f2fs_update_extent_tree_range(@, fofs, blkaddr, len, c.ok)]

\* The contents of blocks that no page maps any more are forgotten.
invalidate_blocks(f, blks) ==
    [f EXCEPT !.data = [b \in Blocks |-> IF b \in blks THEN Zero ELSE @[b]]]

f2fs_update_data_blkaddr(f, p, blk, c) ==
    f2fs_update_extent_cache_range([f EXCEPT !.addr[p] = blk], p,
                                   IF blk = NEW_ADDR THEN NULL_ADDR ELSE blk, 1, c)

\* Allocation takes the first block that neither the file, nor a move, nor the
\* last checkpoint needs.
NewBlock(f) == Min({b \in Blocks \ (f.ckpt \cup f.out) : \A p \in Pages : f.addr[p] # b})

\* A page with new contents goes to the device.  In place it goes to where the
\* extent cache has it, else the node tree says whether it was truncated.
WriteTo(f, p, old, blk, content, c) ==
    IF old = NULL_ADDR THEN f
    ELSE IF old > 0 /\ c.ipu THEN [f EXCEPT !.data[old] = content]
    ELSE f2fs_update_data_blkaddr(
            [invalidate_blocks(f, {old}) EXCEPT !.data[blk] = content], p, blk, c)

do_write_data_page(f, p, content, c) ==
    WriteTo(f, p, IF c.ipu THEN CachedAddr(f, p) ELSE f.addr[p], NewBlock(f), content, c)

\* Write-back of a dirty page: nothing behind the size is written.
__write_data_page(f, p, content, c) ==
    LET cut == [u \in Units |-> IF p * PAGE_UNITS + u < f.size THEN content[u] ELSE 0]
    IN IF \/ f.err # "" \/ p > Page(f.size)
          \/ p = Page(f.size) /\ Within(f.size) = 0
       THEN f
       ELSE do_write_data_page(f, p, cut, c)

\* Addresses of a direct node from page p on become holes.
FreePages(f, pages, p, count, c) ==
    IF pages = {} THEN f
    ELSE f2fs_update_extent_cache_range(
            [invalidate_blocks(f, {f.addr[q] : q \in pages}) EXCEPT
                !.addr = [q \in Pages |-> IF q \in pages THEN NULL_ADDR ELSE @[q]],
                !.blocks = @ - Cardinality(pages)],
            p, NULL_ADDR, count, c)

truncate_data_blocks_range(f, p, count, c) ==
    FreePages(f, {q \in p .. p + count - 1 : f.addr[q] # NULL_ADDR}, p, count, c)

-----------------------------------------------------------------------------
(* The node tree                                                           *)

\* Depths at which a lookup of a page finds no node.
Missing(f, p) ==
    LET In(noffset) == {i \in 1 .. Len(noffset) - 1 : noffset[i + 1] \notin f.nid}
    IN In(get_node_path(p).noffset)

\* get_dnode_of_data with LOOKUP_NODE: does it find the direct node; where
\* it stops otherwise.
found(f, p) == Missing(f, p) = {} /\ (f.inline => p = 0)

next_page_offset(f, p) ==
    get_next_page_offset(p, level(get_node_path(p)), Min(Missing(f, p)))

\* get_dnode_of_data with ALLOC_NODE: the missing nodes are made from the top
\* down.  Without room for one, those above it stay, linked to their parents.
LinkNodes(f, new, made) ==
    LET g == [f EXCEPT !.live = @ \cup ToSet(made), !.nid = @ \cup ToSet(made),
                       !.blocks = @ + Len(made)]
    IN IF made = new THEN g ELSE Fail(g, "ENOSPC")

get_dnode_alloc(f, p) ==
    LET new == SelectSeq(Tail(get_node_path(p).noffset), LAMBDA n : n \notin f.nid)
    IN IF p >= TreeBlocks THEN Fail(f, "E2BIG")
       ELSE IF f.inline /\ p # 0 THEN Fail(f, "ENOENT")
       ELSE LinkNodes(f, new, SubSeq(new, 1, Smaller(Len(new), f.limit - f.blocks)))

truncate_node(f, n) == [f EXCEPT !.live = @ \ {n}, !.blocks = @ - 1]

truncate_dnode(f, n, c) ==
    IF n \notin f.nid THEN f
    ELSE truncate_node(truncate_data_blocks_range(
                           f, start_bidx_of_node(n), ADDRS_PER_BLOCK, c), n)

\* The nodes that an indirect node names with its ids from ofs on, and those
\* they name.
Under(n, ofs) ==
    LET children == {Child(n, i) : i \in ofs .. NIDS_PER_BLOCK - 1}
    IN children \cup {m \in NodeOffsets : m # 0 /\ ParentOf(m) \in children}

\* These nodes go with their addresses, in their order, and the ids are
\* cleared.
FreeNodes(f, nodes, c) ==
    [FoldLeft(LAMBDA g, m : truncate_data_blocks_range(
                  g, start_bidx_of_node(m), ADDRS_PER_BLOCK, c),
              f, InOrder({m \in nodes : IS_DNODE(m)}, Cardinality(NodeOffsets)))
     EXCEPT !.live = @ \ nodes, !.nid = @ \ nodes, !.blocks = @ - Cardinality(nodes)]

FreeChildren(f, n, ofs, c) == FreeNodes(f, Under(n, ofs) \cap f.nid, c)

\* Wrong variant: an indirect node goes also when it keeps ids before ofs.
FreesSharedNode(f, n, ofs, c) ==
    IF n \notin f.nid THEN f ELSE truncate_node(FreeChildren(f, n, ofs, c), n)

\* An indirect node loses its ids from ofs on, and goes when none is left.
truncate_nodes(f, n, ofs, c) ==
    IF n \notin f.nid THEN f
    ELSE IF ofs = 0 THEN truncate_node(FreeChildren(f, n, ofs, c), n)
    ELSE FreeChildren(f, n, ofs, c)

\* The direct nodes under the indirect node that the path ends in, from the
\* path's index on; the path then goes on behind that indirect node.
truncate_partial_nodes(f, offset, depth, c) ==
    LET top == Child(0, offset[1])
        n == IF depth = 2 THEN top ELSE Child(top, offset[2])
    IN IF top \notin f.nid \/ n \notin f.nid
       THEN [f |-> f, offset |-> offset]
       ELSE [f |-> FreeChildren(f, n, offset[depth], c),
             offset |-> [offset EXCEPT ![depth - 1] = @ + 1, ![depth] = 0]]

\* All nodes and addresses from page `from' on, which is the first page of a
\* direct node or lies in a missing one.
TruncateId(f, id, ofs, c) ==
    LET n == Child(0, id)
    IN IF id \in {DIR1, DIR2} THEN [truncate_dnode(f, n, c) EXCEPT !.nid = @ \ {n}]
       ELSE IF ofs = 0 THEN [truncate_nodes(f, n, 0, c) EXCEPT !.nid = @ \ {n}]
       ELSE truncate_nodes(f, n, ofs, c)

\* The ids of the inode that a path goes through and those behind it; only
\* the first keeps ids of its own.
TruncateIds(part, c) ==
    FoldLeft(LAMBDA g, id : TruncateId(g, id, IF id = part.offset[1] THEN part.offset[2] ELSE 0, c),
             part.f, [i \in 1 .. DIND - part.offset[1] + 1 |-> part.offset[1] + i - 1])

TruncateAlong(f, offset, depth, c) ==
    IF offset = <<>> THEN Fail(f, "E2BIG")
    ELSE TruncateIds(IF depth >= 2 /\ offset[depth] # 0
                     THEN truncate_partial_nodes(f, offset, depth, c)
                     ELSE [f |-> f, offset |-> offset], c)

truncate_inode_blocks(f, from, c) ==
    LET offset == get_node_path(from).offset
    IN TruncateAlong(f, offset, Len(offset) - 1, c)

truncate_inline_inode(f, from) ==
    IF from >= MAX_INLINE_DATA THEN f
    ELSE [f EXCEPT !.idata = [u \in Units |-> IF u >= from THEN 0 ELSE @[u]],
                   !.exist = @ /\ from # 0]

\* The rest of the page in which the file is cut is zeroed.
truncate_partial_data_page(f, from, c) ==
    IF Within(from) = 0 THEN f
    ELSE __write_data_page(
            f, Page(from),
            [u \in Units |-> IF u >= Within(from) THEN 0 ELSE get_read_data_page(f, Page(from))[u]],
            c)

\* The addresses of one direct node from its index ofs on, and all behind it.
TruncateFrom(f, free_from, n, ofs, c) ==
    LET here == found(f, free_from) /\ (ofs # 0 \/ n = 0)
        count == IF here THEN ADDRS_PER_PAGE(n) - ofs ELSE 0
    IN truncate_inode_blocks(truncate_data_blocks_range(f, free_from, count, c),
                             free_from + count, c)

truncate_blocks(f, from, c) ==
    LET free_from == PageUp(from)
    IN IF f.err # "" THEN f
       ELSE IF f.inline /\ free_from < max_file_blocks THEN truncate_inline_inode(f, from)
       ELSE truncate_partial_data_page(
                IF free_from >= max_file_blocks THEN f
                ELSE TruncateFrom(f, free_from, Dnode(free_from), ofs_in_node(free_from), c),
                from, c)

-----------------------------------------------------------------------------
(* Reservation, inline data, writes                                        *)

\* As many of the holes of one direct node as there is room for become
\* reserved, the first ones first.
reserve_new_blocks(f, holes) ==
    LET room == f.limit - f.blocks
        n == Smaller(room, Cardinality(holes))
        got == {p \in holes : Cardinality({q \in holes : q < p}) < n}
    IN IF holes = {} THEN f
       ELSE IF room <= 0 THEN Fail(f, "ENOSPC")
       ELSE [f EXCEPT !.addr = [p \in Pages |-> IF p \in got THEN NEW_ADDR ELSE @[p]],
                      !.blocks = @ + n]

f2fs_reserve_block(f, p) ==
    Then(get_dnode_alloc(f, p),
         LAMBDA g : IF g.addr[p] # NULL_ADDR THEN g ELSE reserve_new_blocks(g, {p}))

\* The address comes from the extent cache if that has it.
f2fs_get_block(f, p) ==
    IF f2fs_lookup_extent_tree(f.et, p) # {} THEN f ELSE f2fs_reserve_block(f, p)

\* The direct nodes of a range of pages, in order.
DnodesOf(a, b) == InOrder({Dnode(p) : p \in a .. b - 1}, Cardinality(NodeOffsets))

\* f2fs_map_blocks for F2FS_GET_BLOCK_PRE_AIO: the holes of a range are
\* reserved, one direct node at a time; m_len counts pages up to the last
\* reserved one of each node.
CountReserved(m, range, holes, h) ==
    LET done == {p \in holes : h.addr[p] = NEW_ADDR}
    IN IF h.err # "" \/ holes = {} THEN [m EXCEPT !.f = h]
       ELSE [f |-> IF done = holes THEN h ELSE Fail(h, "ENOSPC"),
             m_len |-> m.m_len + Max(done) - Min(range) + 1]

ReserveIn(m, range) ==
    LET g == get_dnode_alloc(m.f, Min(range))
        holes == {p \in range : g.addr[p] = NULL_ADDR}
    IN IF m.f.err # "" THEN m
       ELSE CountReserved(m, range, holes, Then(g, LAMBDA h : reserve_new_blocks(h, holes)))

map_blocks_pre_aio(f, lblk, len) ==
    FoldLeft(LAMBDA m, n : ReserveIn(m, PagesOf(n) \cap (lblk .. lblk + len - 1)),
             [f |-> f, m_len |-> 0], DnodesOf(lblk, lblk + len))

read_inline_data(f) == [u \in Units |-> IF u < MAX_INLINE_DATA THEN f.idata[u] ELSE 0]

\* Inline data moves to page 0, if there is any.
MoveInline(f, c) ==
    [truncate_inline_inode(do_write_data_page(f, 0, read_inline_data(f), c), 0)
     EXCEPT !.inline = FALSE]

f2fs_convert_inline_inode(f, c) ==
    IF f.err # "" \/ ~f.inline THEN f
    ELSE IF ~f.exist THEN [f EXCEPT !.inline = FALSE]
    ELSE Then(f2fs_reserve_block(f, 0), LAMBDA g : MoveInline(g, [c EXCEPT !.ipu = FALSE]))

\* A write reserves whole pages ahead and moves inline data that it outgrows.
\* Without room the blocks are reserved page by page, which fails later.
ReserveAhead(f, pos, len) ==
    LET m == map_blocks_pre_aio(f, PageUp(pos), Page(pos + len) - PageUp(pos))
    IN IF f.inline \/ Page(pos + len) <= PageUp(pos) THEN f
       ELSE IF m.m_len > 0 /\ m.f.err = "ENOSPC" THEN [m.f EXCEPT !.err = ""]
       ELSE m.f

f2fs_preallocate_blocks(f, pos, len, c) ==
    Then(IF pos + len > MAX_INLINE_DATA THEN f2fs_convert_inline_inode(f, c) ELSE f,
         LAMBDA g : ReserveAhead(g, pos, len))

\* The page a write goes to: inline data stays in the inode if the result
\* fits there, else the page has its block reserved.
prepare_write_begin(f, pos, len, c) ==
    Then(IF Page(pos) # 0 \/ pos + len > MAX_INLINE_DATA
         THEN f2fs_convert_inline_inode(f, c) ELSE f,
         LAMBDA g : IF g.inline THEN [g EXCEPT !.exist = TRUE]
                    ELSE f2fs_get_block(g, Page(pos)))

\* What the page holds before the write.
f2fs_write_begin(f, pos, len) ==
    IF f.inline THEN read_inline_data(f)
    ELSE IF Within(pos) = 0 /\ pos + len >= f.size THEN Zero
    ELSE get_read_data_page(f, Page(pos))

f2fs_write_failed(f, to, c) ==
    IF to > f.size THEN [truncate_blocks([f EXCEPT !.err = ""], f.size, c) EXCEPT !.err = f.err]
    ELSE f

\* A write of len units at pos, inside one page, with its write-back.
Filled(page, pos, len, tag) ==
    [u \in Units |-> IF u \in Within(pos) .. Within(pos) + len - 1 THEN tag ELSE page[u]]

f2fs_write_end(f, pos, len, page, c) ==
    IF f.inline
    THEN [f EXCEPT !.size = Larger(@, pos + len), !.idata = page, !.exist = TRUE]
    ELSE __write_data_page([f EXCEPT !.size = Larger(@, pos + len)], Page(pos), page, c)

StorePage(f, pos, len, tag, c) ==
    IF f.err # "" THEN f2fs_write_failed(f, pos + len, c)
    ELSE f2fs_write_end(f, pos, len, Filled(f2fs_write_begin(f, pos, len), pos, len, tag), c)

f2fs_file_write_iter(f, pos, len, tag, c) ==
    Then(f2fs_preallocate_blocks(f, pos, len, c),
         LAMBDA g : StorePage(prepare_write_begin(g, pos, len, c), pos, len, tag, c))

\* A store to a mapped page: mmap has moved inline data out, the fault
\* reserves the block, and write-back takes the page.
f2fs_vm_page_mkwrite(f, pos, len, tag, c) ==
    Then(Then(f2fs_convert_inline_inode(f, c), LAMBDA g : f2fs_reserve_block(g, Page(pos))),
         LAMBDA g : __write_data_page(
                        g, Page(pos),
                        Filled(get_read_data_page(g, Page(pos)), pos, len, tag), c))

\* A change of size.  Larger sizes only move inline data out that could not
\* grow into them.
f2fs_setattr(f, size, c) ==
    LET g == [f EXCEPT !.size = size]
    IN IF size > f.size
       THEN IF size > MAX_INLINE_DATA THEN f2fs_convert_inline_inode(g, c) ELSE g
       ELSE truncate_blocks(IF size > MAX_INLINE_DATA THEN f2fs_convert_inline_inode(g, c)
                            ELSE g, size, c)

-----------------------------------------------------------------------------
(* fallocate                                                               *)

\* The VFS refuses sizes over the limit of files.
inode_newsize_ok(size) == size <= max_file_blocks * PAGE_UNITS

fill_zero(f, p, start, len, c) ==
    IF len = 0 \/ f.err # "" THEN f
    ELSE Then(f2fs_reserve_block(f, p),
              LAMBDA g : __write_data_page(g, p, Filled(get_read_data_page(g, p), start, len, 0), c))

\* Holes are skipped with get_next_page_offset; the page reached so far is
\* carried along.
HoleStep(m, p, pg_end, c) ==
    LET count == Smaller(ADDRS_PER_PAGE(Dnode(p)) - ofs_in_node(p), pg_end - p)
    IN IF p < m.pos THEN m
       ELSE IF ~found(m.f, p) THEN [m EXCEPT !.pos = next_page_offset(m.f, p)]
       ELSE [f |-> truncate_data_blocks_range(m.f, p, count, c), pos |-> p + count]

truncate_hole(f, pg_start, pg_end, c) ==
    IF f.err # "" THEN f
    ELSE FoldLeft(LAMBDA m, p : HoleStep(m, p, pg_end, c), [f |-> f, pos |-> pg_start],
                  [i \in 1 .. pg_end - pg_start |-> pg_start + i - 1]).f

\* The whole pages of a range and what it has of the pages at its ends.
FirstWhole(off) == PageUp(off)
LastWhole(off, len) == Page(off + len)

FillHead(f, off, c) ==
    IF Within(off) = 0 THEN f
    ELSE fill_zero(f, Page(off), Within(off), PAGE_UNITS - Within(off), c)
FillTail(f, end, c) == fill_zero(f, Page(end), 0, Within(end), c)
FillInside(f, off, len, c) == fill_zero(f, Page(off), Within(off), len, c)

punch_hole(f, off, len, c) ==
    LET g == f2fs_convert_inline_inode(f, c)
    IN IF off >= f.size THEN f
       ELSE IF Page(off) = Page(off + len) THEN FillInside(g, off, len, c)
       ELSE truncate_hole(FillTail(FillHead(g, off, c), off + len, c),
                          FirstWhole(off), LastWhole(off, len), c)

\* The holes of [start, end) in one direct node are reserved, its blocks
\* replaced by reservations, up to the first hole that got none.
Unreserved(f, start, end) == {p \in start .. end - 1 : f.addr[p] = NULL_ADDR}

ResetBlocks(f, start, upto, c) ==
    f2fs_update_extent_cache_range(
        [invalidate_blocks(f, {f.addr[p] : p \in start .. upto - 1}) EXCEPT
            !.addr = [p \in Pages |-> IF p \in start .. upto - 1 THEN NEW_ADDR ELSE @[p]]],
        start, NULL_ADDR, upto - start, c)

f2fs_do_zero_range(f, start, end, c) ==
    Then(reserve_new_blocks(f, Unreserved(f, start, end)),
         LAMBDA g : LET unmet == Unreserved(g, start, end)
                    IN IF unmet = {} THEN ResetBlocks(g, start, end, c)
                       ELSE Fail(ResetBlocks(g, start, Min(unmet), c), "ENOSPC"))

ZeroNode(m, range, c) ==
    LET z == Then(get_dnode_alloc(m.f, Min(range)),
                  LAMBDA g : f2fs_do_zero_range(g, Min(range), Max(range) + 1, c))
    IN IF m.f.err # "" THEN m
       ELSE [f |-> z, size |-> IF z.err = "" THEN (Max(range) + 1) * PAGE_UNITS ELSE m.size]

ZeroWhole(f, off, len, c) ==
    FoldLeft(LAMBDA m, n : ZeroNode(m, PagesOf(n) \cap (FirstWhole(off) .. LastWhole(off, len) - 1), c),
             [f |-> f, size |-> IF Within(off) = 0 THEN 0 ELSE FirstWhole(off) * PAGE_UNITS],
             DnodesOf(FirstWhole(off), LastWhole(off, len)))

Grown(f, size, keep_size) == IF keep_size THEN f ELSE [f EXCEPT !.size = Larger(@, size)]

ZeroEnd(m, end, keep_size, c) ==
    LET g == FillTail(m.f, end, c)
    IN Grown(g, IF g.err = "" /\ Within(end) # 0 THEN end ELSE m.size, keep_size)

f2fs_zero_range(f, off, len, keep_size, c) ==
    LET g == f2fs_convert_inline_inode(f, c)
    IN IF ~inode_newsize_ok(off + len) THEN Fail(f, "EFBIG")
       ELSE IF Page(off) = Page(off + len)
            THEN Then(FillInside(g, off, len, c), LAMBDA h : Grown(h, off + len, keep_size))
            ELSE Then(FillHead(g, off, c),
                      LAMBDA h : ZeroEnd(ZeroWhole(h, off, len, c), off + len, keep_size, c))

\* Preallocation; without room the size follows what was reserved.
Expanded(m, off, len, keep_size) ==
    LET last_off == Page(off) + m.m_len - 1
    IN IF (m.f.err # "" /\ m.m_len = 0) \/ keep_size THEN m.f
       ELSE [m.f EXCEPT !.size = Larger(@, IF m.f.err = "" \/ last_off = Page(off + len)
                                           THEN off + len ELSE (last_off + 1) * PAGE_UNITS)]

expand_inode_data(f, off, len, keep_size, c) ==
    IF ~inode_newsize_ok(off + len) THEN Fail(f, "EFBIG")
    ELSE Then(f2fs_convert_inline_inode(f, c),
              LAMBDA g : Expanded(map_blocks_pre_aio(g, Page(off), PageUp(off + len) - Page(off)),
                                  off, len, keep_size))

-----------------------------------------------------------------------------
(* Moving a range of pages                                                 *)

\* Blocks that the last checkpoint does not have are taken out of the source
\* (do_replace), unless mode=lfs forbids it; the others stay and are copied
\* later.
TakeOut(f, replace, c) ==
    FoldLeft(LAMBDA g, p : f2fs_update_data_blkaddr(g, p, NULL_ADDR, c),
             [f EXCEPT !.out = {f.addr[p] : p \in replace}], InOrder(replace, TreeBlocks))

__read_out_blkaddrs(f, src, len, c) ==
    LET range == src .. src + len - 1
        replace == {p \in range : f.addr[p] > 0 /\ f.addr[p] \notin f.ckpt}
        blkaddr == [p \in range |-> f.addr[p]]
    IN IF f.lfs /\ replace # {}
       THEN [f |-> Fail(f, "ENOTSUPP"), blkaddr |-> blkaddr, replace |-> {}]
       ELSE [f |-> TakeOut(f, replace, c), blkaddr |-> blkaddr, replace |-> replace]

\* One page of the range moves from src to dst.
Reaching(f, page) == [f EXCEPT !.size = Larger(@, (page + 1) * PAGE_UNITS)]

EnterBlock(f, dst, blk, c) ==
    IF blk = NULL_ADDR THEN f ELSE f2fs_update_data_blkaddr(f, dst, blk, c)

CopyPage(f, src, dst, c) ==
    LET h == __write_data_page(Reaching(f2fs_reserve_block(f, dst), dst), dst,
                               get_read_data_page(f, src), c)
    IN IF h.err # "" THEN [h EXCEPT !.size = f.size]
       ELSE truncate_data_blocks_range(h, src, 1, c)

\* The address changes its place, or the hole does.
ExchangePage(f, dst, blk, c) ==
    Then(get_dnode_alloc(f, dst),
         LAMBDA g : Reaching(EnterBlock(truncate_data_blocks_range(g, dst, 1, c), dst, blk, c), dst))

\* Holes do not move when the destination is known to be empty (~full), but
\* for those that follow an exchanged page in the same direct node (run).
ClonePage(m, src, dst, out, full, c) ==
    LET blk == out.blkaddr[src]
        run == m.run /\ ofs_in_node(dst) # 0
    IN IF blk = NULL_ADDR /\ ~full /\ ~run THEN [f |-> m.f, run |-> FALSE]
       ELSE IF blk # NULL_ADDR /\ src \notin out.replace
            THEN [f |-> CopyPage(m.f, src, dst, c), run |-> FALSE]
       ELSE [f |-> ExchangePage(m.f, dst, blk, c), run |-> TRUE]

\* Wrong variant: a page that was not reached stays without its block.
RollsBackNothing(f, pages, out, c) == f

\* Blocks taken out that did not reach their destination go back.
__roll_back_blkaddrs(f, pages, out, c) ==
    FoldLeft(LAMBDA g, p : f2fs_update_data_blkaddr(g, p, out.blkaddr[p], c), f,
             InOrder(out.replace \cap pages, TreeBlocks))

\* The pages src .. src + len - 1 move to dst, in portions of olen.
CloneNext(m, src, dst, out, full, c) ==
    LET g == ClonePage(m, src, dst, out, full, c)
    IN IF m.f.err # "" THEN m
       ELSE [f |-> g.f, run |-> g.run, moved |-> IF g.f.err = "" THEN src + 1 ELSE m.moved]

CloneAll(out, src, dst, len, full, c) ==
    FoldLeft(LAMBDA m, p : CloneNext(m, p, p + dst - src, out, full, c),
             [f |-> out.f, run |-> FALSE, moved |-> src], [i \in 1 .. len |-> src + i - 1])

\* The roll-back goes over all the pages left, which are more than the arrays
\* of this portion hold unless it is the last one.
Settle(m, out, portion, left_over, c) ==
    IF m.f.err = "" THEN [m.f EXCEPT !.out = {}]
    ELSE [__roll_back_blkaddrs(m.f, portion \cap (m.moved .. TreeBlocks), out, c) EXCEPT
            !.out = {}, !.bug = @ \/ left_over]

ExchangePortion(f, src, dst, len, rest, full, c) ==
    LET out == __read_out_blkaddrs(f, src, len, c)
    IN IF f.err # "" THEN f
       ELSE Settle(CloneAll(out, src, dst, len, full, c), out, src .. src + len - 1, rest > len, c)

__exchange_data_block(f, src, dst, len, full, c) ==
    LET olen == 4 * ADDRS_PER_BLOCK
        Portion(g, done) == ExchangePortion(g, src + done, dst + done, Smaller(olen, len - done),
                                            len - done, full, c)
    IN FoldLeft(Portion, f, [k \in 1 .. (len + olen - 1) \div olen |-> (k - 1) * olen])

MoveRange(f, src, dst, len, full, c) ==
    IF f.err # "" THEN f
    ELSE __exchange_data_block([f EXCEPT !.et = f2fs_drop_extent_tree(@)], src, dst, len, full, c)

f2fs_collapse_range(f, off, len, c) ==
    LET moved == MoveRange(f2fs_convert_inline_inode(f, c), Page(off + len), Page(off),
                           PageUp(f.size) - Page(off + len), TRUE, c)
    IN IF off + len >= f.size \/ Within(off) # 0 \/ Within(len) # 0 THEN Fail(f, "EINVAL")
       ELSE Then(truncate_blocks(moved, moved.size - len, c),
                 LAMBDA g : [g EXCEPT !.size = @ - len])

\* The pages behind the gap move from the end of the file on.
MoveUp(f, start, delta, top, c) ==
    LET from(k) == Larger(start, top - k * delta)
    IN FoldLeft(LAMBDA g, k : MoveRange(g, from(k), from(k) + delta,
                                        top - (k - 1) * delta - from(k), FALSE, c),
                f, [k \in 1 .. (top - start + delta - 1) \div delta |-> k])

f2fs_insert_range(f, off, len, c) ==
    IF ~inode_newsize_ok(f.size + len) THEN Fail(f, "EFBIG")
    ELSE IF off >= f.size \/ Within(off) # 0 \/ Within(len) # 0 THEN Fail(f, "EINVAL")
    ELSE Then(MoveUp(truncate_blocks(f2fs_convert_inline_inode(f, c), f.size, c),
                     Page(off), Page(len), PageUp(f.size), c),
              LAMBDA g : [g EXCEPT !.size = f.size + len])

-----------------------------------------------------------------------------
(* Defragmentation and seeking                                             *)

\* The pages of a range that have blocks are written again, one after the
\* other, unless they are contiguous as it is, or free sections are few.
f2fs_defragment_range(f, pg_start, pg_end, enough_secs, c) ==
    LET pages == InOrder({p \in pg_start .. pg_end - 1 : f.addr[p] > 0}, TreeBlocks)
        cached == \E e \in f2fs_lookup_extent_tree(f.et, pg_start) : End(e) >= pg_end
        fragmented == \E i \in 2 .. Len(pages) :
                        f.addr[pages[i]] # f.addr[pages[i - 1]] + 1
        Step(g, p) == __write_data_page(g, p, get_read_data_page(g, p), c)
    IN IF c.ipu THEN Fail(f, "EINVAL")
       ELSE IF cached \/ ~fragmented THEN f
       ELSE IF ~enough_secs THEN Fail(f, "EAGAIN")
       ELSE FoldLeft(Step, f, pages)

__found_offset(blkaddr, hole) == IF hole THEN blkaddr = NULL_ADDR ELSE blkaddr > 0

\* The search for a page from pgofs on goes over the direct nodes, each to its
\* end; missing nodes are a hole, or are skipped as a whole.
SeekStep(f, m, p, hole) ==
    IF m.found \/ p < m.pos THEN m
    ELSE IF ~found(f, p)
         THEN IF hole THEN [found |-> TRUE, pos |-> p]
              ELSE [m EXCEPT !.pos = next_page_offset(f, p)]
    ELSE IF __found_offset(f.addr[p], hole) THEN [found |-> TRUE, pos |-> p]
    ELSE [m EXCEPT !.pos = p + 1]

SeekPage(f, pgofs, hole) ==
    LET end == Max(PagesOf(Dnode(PageUp(f.size) - 1)))
    IN FoldLeft(LAMBDA m, p : SeekStep(f, m, p, hole), [found |-> FALSE, pos |-> pgofs],
                [i \in 1 .. end - pgofs + 1 |-> pgofs + i - 1])

\* SEEK_DATA finds nothing behind the data.
ENXIO == -1

\* The offset of the hole or the data that the search finds, the end of the
\* file being a hole.
f2fs_seek_block(f, offset, hole) ==
    LET r == SeekPage(f, Page(offset), hole)
        data_ofs == IF r.pos = Page(offset) THEN offset ELSE r.pos * PAGE_UNITS
    IN IF offset >= f.size THEN ENXIO
       ELSE IF f.inline THEN IF hole THEN f.size ELSE offset
       ELSE IF hole THEN IF r.found THEN Smaller(data_ofs, f.size) ELSE f.size
       ELSE IF r.found THEN data_ofs ELSE ENXIO

-----------------------------------------------------------------------------
(* The state machine                                                       *)

\* An empty file that keeps its data in the inode.
EmptyFile ==
    [addr |-> [p \in Pages |-> NULL_ADDR], live |-> {0}, nid |-> {},
     et |-> EmptyTree, data |-> [b \in Blocks |-> Zero],
     ckpt |-> {}, out |-> {}, blocks |-> 0, limit |-> NBlocks, lfs |-> FALSE,
     size |-> 0, inline |-> TRUE, exist |-> FALSE, idata |-> Zero, err |-> "", bug |-> FALSE]

\* A file whose pages ps have blocks 1, 2, ... in their order, all but the
\* checkpointed ones ck new since the last checkpoint, with nothing cached, and
\* room for that many blocks more.
LaidOut(ps, size, room, ck) ==
    LET rank(p) == Cardinality({q \in ps : q <= p})
        nodes == UNION {ToSet(get_node_path(p).noffset) : p \in ps} \cup {0}
        at(b) == {p \in ps : rank(p) = b}
        used == Cardinality(ps) + Cardinality(nodes) - 1
    IN [EmptyFile EXCEPT
          !.addr = [p \in Pages |-> IF p \in ps THEN rank(p) ELSE NULL_ADDR],
          !.live = nodes, !.nid = nodes \ {0},
          !.data = [b \in Blocks |-> [u \in Units |->
                      IF \E p \in at(b) : p * PAGE_UNITS + u < size
                      THEN 50 + b ELSE 0]],
          !.ckpt = {rank(p) : p \in ck}, !.blocks = used,
          !.limit = used + room, !.size = size, !.inline = FALSE]

NotLoading == [on |-> FALSE, lblk |-> 0, pgofs |-> 0, m_pblk |-> 0]

FileInit ==
    /\ \E w \in Windows : file = w.file /\ inputs = w.inputs /\ left = w.left
    /\ pre = NotLoading
    /\ last = [op |-> "none", arg |-> <<>>, ok |-> TRUE, n |-> 0]

\* The file after a step; a failed assertion stops the machine.
Stopped(g) == IF g.bug THEN [file EXCEPT !.bug = TRUE] ELSE [g EXCEPT !.err = ""]

\* An operation returns with file g.  The operations are numbered, and what a
\* write leaves is the number of the write.
Return(op, arg, g) ==
    /\ left.ops > 0 /\ ~file.bug
    /\ file' = Stopped(g)
    /\ last' = IF g.bug THEN last
               ELSE [op |-> op, arg |-> arg, ok |-> g.err = "", n |-> last.n + 1]
    /\ left' = [left EXCEPT !.ops = @ - 1]
    /\ UNCHANGED <<inputs, pre>>

Write ==
    \E w \in inputs.writes, c \in inputs.outcomes :
        Return("write", w, f2fs_file_write_iter(file, w[1], w[2], last.n + 1, c))

MappedWrite ==
    \E w \in inputs.writes, c \in inputs.outcomes :
        /\ w[1] + w[2] <= file.size
        /\ Return("write", w, f2fs_vm_page_mkwrite(file, w[1], w[2], last.n + 1, c))

Defragment ==
    \E r \in inputs.ranges, enough_secs \in BOOLEAN, c \in inputs.outcomes :
        /\ Within(r[1]) = 0 /\ Within(r[2]) = 0
        /\ Page(r[1] + r[2]) <= max_file_blocks
        /\ Return("defragment", r,
                  f2fs_defragment_range(file, Page(r[1]), Page(r[1] + r[2]), enough_secs, c))

SetSize ==
    \E size \in inputs.sizes, c \in inputs.outcomes :
        Return("setsize", <<size>>, f2fs_setattr(file, size, c))

PunchHole ==
    \E r \in inputs.ranges, c \in inputs.outcomes :
        Return("punch", r, punch_hole(file, r[1], r[2], c))

ZeroRange ==
    \E r \in inputs.ranges, keep_size \in BOOLEAN, c \in inputs.outcomes :
        Return("zero", <<r[1], r[2], keep_size>>, f2fs_zero_range(file, r[1], r[2], keep_size, c))

Preallocate ==
    \E r \in inputs.ranges, keep_size \in BOOLEAN, c \in inputs.outcomes :
        Return("preallocate", <<r[1], r[2], keep_size>>,
               expand_inode_data(file, r[1], r[2], keep_size, c))

CollapseRange ==
    \E r \in inputs.ranges, c \in inputs.outcomes :
        Return("collapse", r, f2fs_collapse_range(file, r[1], r[2], c))

InsertRange ==
    \E r \in inputs.ranges, c \in inputs.outcomes :
        Return("insert", r, f2fs_insert_range(file, r[1], r[2], c))

-----------------------------------------------------------------------------
\* A checkpoint: the blocks in use now may not be reused until the next one.
Checkpoint ==
    /\ left.checkpoints > 0
    /\ left' = [left EXCEPT !.checkpoints = @ - 1]
    /\ file' = [file EXCEPT !.ckpt = {file.addr[p] : p \in Pages} \cap Blocks]
    /\ UNCHANGED <<inputs, pre, last>>

\* The shrinker takes an extent.
Shrink ==
    /\ left.reclaims > 0
    /\ left' = [left EXCEPT !.reclaims = @ - 1]
    /\ \E e \in file.et.en : file' = [file EXCEPT !.et = f2fs_shrink_extent_tree(@, e)]
    /\ UNCHANGED <<inputs, pre, last>>

\* The inode is written, evicted and read again.
EvictAndRead ==
    /\ left.reclaims > 0 /\ ~pre.on /\ ~file.bug
    /\ left' = [left EXCEPT !.reclaims = @ - 1]
    /\ \E kept \in BOOLEAN :
        file' = [file EXCEPT !.et = ReadAgain(@, file.et.largest, kept)]
    /\ UNCHANGED <<inputs, pre, last>>

\* f2fs_precache_extents walks over the file and enters what is contiguous.
\* It asks f2fs_map_blocks for the run from lblk on, which goes through the
\* direct nodes one by one and lets go of each before it takes the next.
StartPrecache ==
    /\ left.precache /\ ~pre.on /\ ~file.bug /\ ~file.et.no_ext
    /\ pre' = [NotLoading EXCEPT !.on = TRUE]
    /\ left' = [left EXCEPT !.precache = FALSE]
    /\ UNCHANGED <<file, inputs, last>>

\* How far the run from lblk goes on in the direct node of pgofs.
RunPages(f, lblk, pgofs, m_pblk) ==
    LET node == {q \in PagesOf(Dnode(pgofs)) : q >= pgofs /\ q < max_file_blocks}
        start == IF pgofs = lblk THEN f.addr[lblk] ELSE m_pblk
    IN {q \in node : \A r \in pgofs .. q : f.addr[r] > 0 /\ f.addr[r] = start + r - lblk}

Precache ==
    LET lblk == pre.lblk
        pgofs == pre.pgofs
        cached == f2fs_lookup_extent_tree(file.et, lblk)
        run == RunPages(file, lblk, pgofs, pre.m_pblk)
        stop == pgofs + Cardinality(run)
        m_pblk == IF pgofs = lblk THEN file.addr[lblk] ELSE pre.m_pblk
        whole == stop = Max(PagesOf(Dnode(pgofs))) + 1 /\ stop < max_file_blocks
        From(l) == [pre EXCEPT !.lblk = l, !.pgofs = l, !.m_pblk = 0]
        c == [ok |-> TRUE, ipu |-> FALSE]
    IN /\ pre.on /\ ~file.bug
       /\ UNCHANGED <<inputs, left, last>>
       /\ \/ /\ lblk >= max_file_blocks
             /\ pre' = NotLoading
             /\ UNCHANGED file
          \/ /\ lblk < max_file_blocks /\ pgofs = lblk /\ cached # {}
             /\ pre' = From(End(CHOOSE e \in cached : TRUE))
             /\ UNCHANGED file
          \/ /\ pgofs < max_file_blocks /\ (pgofs # lblk \/ cached = {})
             /\ ~found(file, pgofs)
             /\ pre' = From(next_page_offset(file, pgofs))
             /\ UNCHANGED file
          \/ /\ pgofs < max_file_blocks /\ (pgofs # lblk \/ cached = {})
             /\ found(file, pgofs)
             /\ pre' = IF whole THEN [pre EXCEPT !.pgofs = stop, !.m_pblk = m_pblk]
                       ELSE From(stop + 1)
             /\ file' = IF stop = lblk THEN file
                        ELSE Stopped(f2fs_update_extent_cache_range(
                                 file, pgofs, m_pblk + pgofs - lblk, stop - pgofs, c))

FileNext ==
    \/ Write \/ MappedWrite \/ SetSize \/ Defragment \/ PunchHole \/ ZeroRange \/ Preallocate
    \/ CollapseRange \/ InsertRange
    \/ Checkpoint \/ Shrink \/ EvictAndRead \/ StartPrecache \/ Precache

-----------------------------------------------------------------------------
(* Properties                                                              *)

\* The extent cache never tells an address that the node tree does not have:
\* every extent of the tree, and the largest one that lookups try first and
\* the inode keeps on disk, agrees with the block addresses page by page, and
\* no two extents overlap, after any update that splits, merges or drops them.
ExtentsMatch ==
    /\ \A e \in file.et.en \cup {file.et.largest} :
          \A i \in 0 .. e.len - 1 : file.addr[e.fofs + i] = e.blk + i
    /\ \A e, x \in file.et.en : e # x => End(e) <= x.fofs \/ End(x) <= e.fofs

\* The node tree is whole after every operation, also one that failed: a node
\* exists exactly if its parent names it and its parent exists, every address
\* is in a node that exists and at the page that the garbage collector computes
\* from it, no block is mapped twice, the block count is the number of
\* addresses and nodes and within the limit, and a file with inline data has
\* neither nodes nor blocks.  An operation may have failed at any of its
\* blocks, also at a node in the middle of a path or of a move.
TreeSound ==
    LET mapped == {p \in Pages : file.addr[p] # NULL_ADDR}
    IN /\ file.live = file.nid \cup {0}
       /\ \A n \in file.nid : ParentOf(n) \in file.live
       /\ \A p \in mapped :
            /\ Dnode(p) \in file.live /\ IS_DNODE(Dnode(p))
            /\ start_bidx_of_node(Dnode(p)) + ofs_in_node(p) = p
       /\ \A p, q \in mapped : p # q => file.addr[p] = NEW_ADDR \/ file.addr[p] # file.addr[q]
       /\ file.blocks = Cardinality(mapped) + Cardinality(file.nid)
       /\ file.blocks <= file.limit
       /\ file.inline => mapped = {} /\ file.nid = {}

\* Seeking finds what the addresses say: SEEK_DATA and SEEK_HOLE skip missing
\* nodes by get_next_page_offset, whose index arithmetic must neither jump over
\* a page with data nor stop short of one at the borders of the tree's levels,
\* and what they find is inside the file though the search goes behind its end.
SeekExact ==
    \A offset \in 0 .. file.size - 1, hole \in BOOLEAN :
        LET there == {u \in offset .. file.size - 1 :
                        IF file.inline THEN ~hole ELSE __found_offset(file.addr[Page(u)], hole)}
        IN f2fs_seek_block(file, offset, hole)
             = IF there # {} THEN Min(there) ELSE IF hole THEN file.size ELSE ENXIO

\* What users see of the file: its units up to the size.
Seen == [u \in 0 .. TreeBlocks * PAGE_UNITS - 1 |->
            IF u >= file.size THEN 0
            ELSE IF file.inline THEN IF u < PAGE_UNITS THEN read_inline_data(file)[u] ELSE 0
            ELSE get_read_data_page(file, Page(u))[Within(u)]]

Abstract == INSTANCE AbstractFile WITH
    MaxUnits <- TreeBlocks * PAGE_UNITS, UnitsOfPage <- PAGE_UNITS,
    Values <- 1 .. 100,
    content <- Seen, size <- file.size

\* The file implements the abstract one: whatever nodes, extents, inline data
\* and block moves are behind it, an operation that succeeds has done exactly
\* what it promises, one that ran out of blocks half-way has done a prefix of
\* it and nothing else, and reclaim, checkpoints and precaching between them
\* change nothing that a reader sees.
FileRefines == Abstract!ASpec

\* The assertion f2fs_bug_on(sbi, pos >= org_end) in the extent cache's update
\* never fails: the extent that a search finds for the start of the range
\* reaches into it; and a move that fails rolls back no more pages than it has
\* read.
NoBug == ~file.bug
=============================================================================
