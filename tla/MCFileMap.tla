------------------------------ MODULE MCFileMap ------------------------------
(***************************************************************************)
(* Files and operations to try on them, chosen so that every case of the   *)
(* node tree and of the moves between pages is met without trying every    *)
(* operation on every file.                                                *)
(***************************************************************************)
EXTENDS FileMap

Window(f, writes, sizes, ranges, ops) ==
    [file |-> f,
     inputs |-> [writes |-> writes, sizes |-> sizes, ranges |-> ranges,
                 outcomes |-> {[ok |-> TRUE, ipu |-> FALSE]}],
     left |-> [ops |-> ops, checkpoints |-> 0, reclaims |-> 0, precache |-> FALSE]]

\* Trees with at most two direct nodes, or all but one: every truncation, and
\* holes across the borders of the levels.
Dnodes == {n \in NodeOffsets : IS_DNODE(n)}
Shapes == {S \in SUBSET Dnodes : Cardinality(S) <= 2 \/ Cardinality(Dnodes \ S) <= 1}

ShapeWindows ==
    {Window(LaidOut(UNION {PagesOf(n) : n \in S}, max_file_blocks * PAGE_UNITS, 20, {}),
            {}, {2 * p : p \in 0 .. max_file_blocks} \cup {7}, {<<3, 20>>, <<10, 26>>}, 1) :
        S \in Shapes}

\* Small files that grow out of their inode, with room for up to four blocks,
\* data and nodes.
SmallWindows ==
    {Window([EmptyFile EXCEPT !.limit = l], {<<0, 1>>, <<1, 1>>, <<2, 2>>, <<5, 1>>},
            {0, 1, 3}, {<<1, 2>>, <<2, 2>>}, 2) : l \in 0 .. 4}

\* Ranges that move, by copy or by exchange of the address, with room for a few
\* blocks more: moves that fail at a page, at a node, between two nodes.
MoveWindows ==
    {Window(LaidOut(ps, 9, room, ck), {<<5, 1>>}, {}, {<<0, 2>>, <<2, 2>>, <<2, 4>>}, 2) :
        ps \in {{0, 1, 2, 3, 4}, {0, 2, 3}}, room \in 0 .. 3, ck \in {{}, {2}, 0 .. 4}}

\* Moves of more than one portion, with holes and little room.
PortionWindows ==
    {Window(LaidOut(ps, 20, room, ck), {}, {}, {<<0, 2>>, <<0, 20>>, <<2, 18>>}, 1) :
        ps \in {0 .. 9, 1 .. 9, {1, 3, 4, 7, 9}}, room \in {0, 1, 3, 6, 9, 20},
        ck \in {{}, 0 .. 9, 0 .. 8}}

\* A volume mounted with mode=lfs.
LfsWindows ==
    {[Window(LaidOut(0 .. 9, 20, 20, ck), {}, {}, {<<0, 2>>, <<16, 2>>, <<0, 20>>}, 1)
        EXCEPT !.file.lfs = TRUE] : ck \in {0 .. 9, 0 .. 8, 0 .. 4}}

\* Files whose extents are loaded while they change and memory is reclaimed.
CachedWindows ==
    {[Window(LaidOut(ps, 14, 9, {}), {<<2, 1>>, <<6, 2>>}, {4}, {<<2, 2>>}, 2)
        EXCEPT !.left.precache = TRUE, !.left.reclaims = 1] :
        ps \in {0 .. 6, {0, 1, 2, 4, 5, 6}}}

\* Writes in place, extents that find no memory, and a checkpoint between.
UpdateWindows ==
    {[Window(LaidOut(0 .. 3, 8, 9, {}), {<<2, 1>>}, {}, {<<2, 2>>}, 2)
        EXCEPT !.left.precache = TRUE, !.left.checkpoints = 1, !.inputs.outcomes = Outcomes]}

MCWindows == ShapeWindows \cup SmallWindows \cup MoveWindows \cup CachedWindows
               \cup UpdateWindows \cup PortionWindows \cup LfsWindows

MCWriteRanges == UNION {w.inputs.writes : w \in MCWindows}
MCRanges == UNION {w.inputs.ranges : w \in MCWindows}
MCSizes == UNION {w.inputs.sizes : w \in MCWindows}

FileSpec == FileInit /\ [][FileNext]_fileVars
=============================================================================
