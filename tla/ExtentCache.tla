----------------------------- MODULE ExtentCache -----------------------------
(***************************************************************************)
(* The extent cache of an inode (extent_cache.c): contiguous runs of a     *)
(* file's block addresses, kept in a red-black tree, and a copy of the     *)
(* largest run, which is also written to the inode.                        *)
(*                                                                         *)
(* An extent tree et is a record                                           *)
(*   en       the extents of the tree                                      *)
(*   largest  the copy of the largest one; none when its length is 0       *)
(*   no_ext   FI_NO_EXTENT: the inode has given up its cache               *)
(* Searching the red-black tree is finding the extent that holds an        *)
(* offset; the cached node is a shortcut to the same extent.  The LRU list *)
(* only tells which extents a shrinker takes, which is left open.          *)
(***************************************************************************)
EXTENDS Integers, FiniteSets, FiniteSetsExt

CONSTANT
    F2FS_MIN_EXTENT_LEN     \* shorter remains of a split extent are dropped

ASSUME MinExtentAssumption == F2FS_MIN_EXTENT_LEN \in Nat \ {0}

Extent(fofs, len, blk) == [fofs |-> fofs, len |-> len, blk |-> blk]
NoExtent == Extent(0, 0, 0)
End(e) == e.fofs + e.len

EmptyTree == [en |-> {}, largest |-> NoExtent, no_ext |-> FALSE]

-----------------------------------------------------------------------------
\* The extent that holds an offset, as a set of at most one.
__lookup_rb_tree(en, ofs) == {e \in en : e.fofs <= ofs /\ End(e) > ofs}

\* The neighbours of an offset in the tree, as sets of at most one.
rb_prev(en, ofs) ==
    LET before == {e \in en : e.fofs < ofs}
    IN {e \in before : \A x \in before : x.fofs <= e.fofs}
rb_next(en, ofs) ==
    LET after == {e \in en : e.fofs > ofs}
    IN {e \in after : \A x \in after : x.fofs >= e.fofs}

\* What __lookup_rb_tree_ret hands out beside the extent it finds: the
\* neighbours to merge with.  When it finds none, both; else only the one
\* that touches the offset.
prev_ex(en, ofs) ==
    LET hit == __lookup_rb_tree(en, ofs)
    IN IF \E e \in hit : e.fofs # ofs THEN {} ELSE rb_prev(en, ofs)
next_ex(en, ofs) ==
    LET hit == __lookup_rb_tree(en, ofs)
    IN IF \E e \in hit : End(e) - 1 # ofs THEN {} ELSE rb_next(en, ofs)

__is_extent_mergeable(back, front) ==
    End(back) = front.fofs /\ back.blk + back.len = front.blk

\* Wrong variant: only an update that starts in the largest extent drops it.
DropsIfInside(et, fofs, len) ==
    IF fofs < End(et.largest) /\ fofs >= et.largest.fofs
    THEN [et EXCEPT !.largest.len = 0] ELSE et

__drop_largest_extent(et, fofs, len) ==
    IF fofs < End(et.largest) /\ fofs + len > et.largest.fofs
    THEN [et EXCEPT !.largest.len = 0] ELSE et

__try_update_largest_extent(et, e) ==
    IF e.len > et.largest.len THEN [et EXCEPT !.largest = e] ELSE et

__free_extent_tree(et) == [et EXCEPT !.en = {}]

\* Insertion; ok says whether a node could be allocated.
__insert_extent_tree(et, e, ok) ==
    IF ok THEN __try_update_largest_extent([et EXCEPT !.en = @ \cup {e}], e)
    ELSE et

-----------------------------------------------------------------------------
\* Step 2 of an update of [fofs, end): an extent that reaches into the range
\* loses that part, and its remains on either side if they are short.
Left(e, fofs) ==
    IF fofs - e.fofs >= F2FS_MIN_EXTENT_LEN
    THEN {Extent(e.fofs, fofs - e.fofs, e.blk)} ELSE {}

Right(e, fofs, end, ok) ==
    IF End(e) - end >= F2FS_MIN_EXTENT_LEN /\ (ok \/ Left(e, fofs) = {})
    THEN {Extent(end, End(e) - end, e.blk + end - e.fofs)} ELSE {}

\* When an extent splits in two its right part is a new node, lost if none
\* can be allocated, and offered as the largest extent before the left part.
Offer(et, s) ==
    IF s = {} THEN et ELSE __try_update_largest_extent(et, CHOOSE x \in s : TRUE)

Split(et, e, before, after) ==
    Offer(Offer([et EXCEPT !.en = (@ \ {e}) \cup before \cup after], after), before)

\* The extents that the loop of step 2 visits, in the order of their offsets.
Invalidated(en, fofs, end) == {e \in en : e.fofs < end /\ End(e) > fofs}
FirstOf(over) == {e \in over : \A x \in over : e.fofs <= x.fofs}
LastOf(over) == {e \in over : \A x \in over : e.fofs >= x.fofs}

CutAny(et, over, fofs, end, ok) ==
    IF over = {} THEN et
    ELSE LET e == CHOOSE x \in over : TRUE
         IN Split(et, e, Left(e, fofs), Right(e, fofs, end, ok))

InvalidateRange(et, over, fofs, end, ok) ==
    CutAny(CutAny([et EXCEPT !.en = @ \ (over \ (FirstOf(over) \cup LastOf(over)))],
                  FirstOf(over), fofs, end, ok),
           LastOf(over) \ FirstOf(over), fofs, end, ok)

\* Step 3: the new extent is merged with the neighbours it continues, or
\* else inserted.
Merge(et, e, back, front) ==
    LET all == back \cup front \cup {e}
        first == CHOOSE x \in all : \A y \in all : x.fofs <= y.fofs
        merged == Extent(first.fofs, FoldSet(LAMBDA x, n : x.len + n, 0, all), first.blk)
    IN __try_update_largest_extent([et EXCEPT !.en = (@ \ all) \cup {merged}], merged)

__try_merge_extent_node(et, e, prev, next, ok) ==
    LET back == {x \in prev : __is_extent_mergeable(x, e)}
        front == {x \in next : __is_extent_mergeable(e, x)}
    IN IF back \cup front = {} THEN __insert_extent_tree(et, e, ok)
       ELSE Merge(et, e, back, front)

\* The neighbours of the range in the tree after step 2.
PrevAfter(en, fofs) ==
    UNION {Left(e, fofs) : e \in __lookup_rb_tree(en, fofs)} \cup prev_ex(en, fofs)

NextAfter(en, over, fofs, end, ok) ==
    IF over = {} THEN next_ex(en, fofs)
    ELSE UNION {LET right == Right(e, fofs, end, ok)
                IN IF right # {} THEN right ELSE rb_next(en, e.fofs) : e \in LastOf(over)}

\* An inode whose updates leave no extent worth keeping gives up its cache.
GiveUp(et, over, merged) ==
    IF /\ \E e \in LastOf(over) : e.len >= 1
       /\ et.largest.len < F2FS_MIN_EXTENT_LEN
       /\ merged.largest.len < F2FS_MIN_EXTENT_LEN
    THEN __free_extent_tree([merged EXCEPT !.largest.len = 0, !.no_ext = TRUE])
    ELSE merged

\* The whole update: pages fofs .. fofs + len - 1 now have the addresses
\* from blkaddr on, or none when it is 0; over are the extents in its way.
UpdateRange(et, over, fofs, blkaddr, len, ok) ==
    LET cut == InvalidateRange(__drop_largest_extent(et, fofs, len),
                               over, fofs, fofs + len, ok)
    IN IF blkaddr = 0 THEN cut
       ELSE GiveUp(et, over, __try_merge_extent_node(
                cut, Extent(fofs, len, blkaddr), PrevAfter(et.en, fofs),
                NextAfter(et.en, over, fofs, fofs + len, ok), ok))

f2fs_update_extent_tree_range(et, fofs, blkaddr, len, ok) ==
    IF et.no_ext THEN et
    ELSE UpdateRange(et, Invalidated(et.en, fofs, fofs + len), fofs, blkaddr, len, ok)

\* The assertion of step 2: a search that ends at an empty extent takes it
\* for the next one, and it lies wholly before the range.
BugOn(et, fofs) ==
    /\ ~et.no_ext
    /\ __lookup_rb_tree(et.en, fofs) = {}
    /\ \E e \in et.en : /\ e.fofs = fofs /\ e.len = 0
                        /\ \A x \in et.en : x.fofs <= fofs

\* What a lookup answers: the largest extent first, then the tree.
f2fs_lookup_extent_tree(et, pgofs) ==
    IF et.no_ext THEN {}
    ELSE IF et.largest.fofs <= pgofs /\ End(et.largest) > pgofs
         THEN {et.largest}
         ELSE __lookup_rb_tree(et.en, pgofs)

f2fs_drop_extent_tree(et) ==
    __free_extent_tree([et EXCEPT !.largest.len = 0, !.no_ext = TRUE])

\* A shrinker takes one extent of the LRU list.
f2fs_shrink_extent_tree(et, e) == [et EXCEPT !.en = @ \ {e}]

\* The tree of an inode read again after its eviction: a tree that still had
\* extents was kept for it, unless a shrinker freed it since (kept = FALSE);
\* else it starts from the extent in the inode.
ReadAgain(et, i_ext, kept) ==
    IF kept /\ et.en # {}
    THEN [et EXCEPT !.no_ext = FALSE]
    ELSE [en |-> IF i_ext.len > 0 THEN {i_ext} ELSE {},
          largest |-> IF i_ext.len > 0 THEN i_ext ELSE NoExtent,
          no_ext |-> FALSE]
=============================================================================
