------------------------------ MODULE NodePath ------------------------------
(***************************************************************************)
(* The geometry of a file's node tree (node.c, node.h, gc.c, super.c).     *)
(*                                                                         *)
(* An inode holds ADDRS_PER_INODE block addresses and five node ids: two   *)
(* direct nodes, two indirect nodes and one double indirect node.  Every   *)
(* node of a file has a fixed offset in the tree, drawn in node.h:         *)
(* 0 the inode, 1 and 2 the direct nodes, 3 the first indirect node, ...   *)
(* A position in the tree is such an offset; whether a node exists there   *)
(* is the state of a file and is kept by FileMap.                          *)
(***************************************************************************)
EXTENDS Integers, Sequences, SequencesExt, FiniteSets

CONSTANTS
    ADDRS_PER_INODE,    \* block addresses in an inode
    ADDRS_PER_BLOCK,    \* block addresses in a direct node
    NIDS_PER_BLOCK      \* node ids in an indirect node

ASSUME GeometryAssumption ==
    /\ ADDRS_PER_INODE \in Nat \ {0}
    /\ ADDRS_PER_BLOCK \in Nat \ {0}
    /\ NIDS_PER_BLOCK \in Nat \ {0}

\* The addresses of a page that has no block: a hole, a reserved block.
NULL_ADDR == 0
NEW_ADDR == -1

\* The places of the five node ids behind an inode's addresses, from
\* NODE_DIR1_BLOCK to NODE_DIND_BLOCK.
DIR1 == 1
DIR2 == 2
IND1 == 3
IND2 == 4
DIND == 5

indirect_blks == ADDRS_PER_BLOCK * NIDS_PER_BLOCK

\* The size limit of files: what the nodes below the inode can hold.
max_file_blocks == 2 * ADDRS_PER_BLOCK + 2 * indirect_blks
                     + indirect_blks * NIDS_PER_BLOCK

\* How many blocks the tree can address.
TreeBlocks == ADDRS_PER_INODE + max_file_blocks

\* Pages that a file can map.
Pages == 0 .. TreeBlocks - 1

-----------------------------------------------------------------------------
\* Where the address of a block is: offset has the index to follow in each
\* node from the inode down, noffset the offsets of these nodes in the tree.
\* The level is Len(noffset) - 1; no path when the block is too far out.
get_node_path(block) ==
    LET N == NIDS_PER_BLOCK
        B == ADDRS_PER_BLOCK
        Path(off, nofs) == [offset |-> off, noffset |-> nofs]
        Below(b, id, base) == Path(<<id, b \div B, b % B>>,
                                   <<0, base, base + 1 + b \div B>>)
        Dind(i, j, last) == Path(<<DIND, i, j, last>>,
                                 <<0, 5 + 2 * N, 6 + 2 * N + i * (N + 1),
                                   7 + 2 * N + i * (N + 1) + j>>)
        FromDind(b) ==
            IF b < indirect_blks * N
            THEN Dind(b \div indirect_blks, (b \div B) % N, b % B) ELSE Path(<<>>, <<>>)
        FromInd(b) ==
            CASE b < indirect_blks -> Below(b, IND1, 3)
              [] b \in indirect_blks .. 2 * indirect_blks - 1 ->
                    Below(b - indirect_blks, IND2, 4 + N)
              [] OTHER -> FromDind(b - 2 * indirect_blks)
        FromDir(b) ==
            CASE b < B -> Path(<<DIR1, b>>, <<0, 1>>)
              [] b \in B .. 2 * B - 1 -> Path(<<DIR2, b - B>>, <<0, 2>>)
              [] OTHER -> FromInd(b - 2 * B)
    IN IF block < ADDRS_PER_INODE THEN Path(<<block>>, <<0>>)
       ELSE FromDir(block - ADDRS_PER_INODE)

level(path) == Len(path.noffset) - 1

\* The direct node that holds the address of a page, and its index there.
Dnode(p) == Last(get_node_path(p).noffset)
ofs_in_node(p) == Last(get_node_path(p).offset)

\* Wrong variant: the pages of the inode and of the levels above are not
\* taken into account.
SkipsFromZero(pgofs, max_level, cur_level) ==
    LET skipped_unit == ADDRS_PER_BLOCK * NIDS_PER_BLOCK ^ (max_level - cur_level)
    IN IF max_level = 0 THEN pgofs + 1
       ELSE (pgofs \div skipped_unit + 1) * skipped_unit

\* The first page after the subtree that a lookup of pgofs found missing at
\* depth cur_level.
get_next_page_offset(pgofs, max_level, cur_level) ==
    LET skipped_unit == ADDRS_PER_BLOCK * NIDS_PER_BLOCK ^ (max_level - cur_level)
        base == ADDRS_PER_INODE
                  + (IF max_level >= 2 THEN 2 * ADDRS_PER_BLOCK ELSE 0)
                  + (IF max_level = 3 THEN 2 * indirect_blks ELSE 0)
    IN IF max_level = 0
       THEN pgofs + 1
       ELSE ((pgofs - base) \div skipped_unit + 1) * skipped_unit + base

\* The first page whose address is in the direct node at a given offset.
start_bidx_of_node(node_ofs) ==
    LET N == NIDS_PER_BLOCK
        ind == 2 * N + 4
        bidx == CASE node_ofs <= 2 -> node_ofs - 1
                  [] node_ofs \in 3 .. ind ->
                        node_ofs - 2 - (node_ofs - 4) \div (N + 1)
                  [] OTHER -> node_ofs - 5 - (node_ofs - ind - 3) \div (N + 1)
    IN IF node_ofs = 0 THEN 0
       ELSE bidx * ADDRS_PER_BLOCK + ADDRS_PER_INODE

\* The offsets that direct nodes have, the inode included.
IS_DNODE(ofs) ==
    LET N == NIDS_PER_BLOCK
    IN /\ ofs \notin {3, 4 + N, 5 + 2 * N}
       /\ ofs >= 6 + 2 * N => (ofs - (6 + 2 * N)) % (N + 1) # 0

\* Offsets in the tree: the last is the last direct node of the last
\* indirect node of the double indirect node.
NodeOffsets == 0 .. 5 + 2 * NIDS_PER_BLOCK + NIDS_PER_BLOCK * (NIDS_PER_BLOCK + 1)

ADDRS_PER_PAGE(node_ofs) ==
    IF node_ofs = 0 THEN ADDRS_PER_INODE ELSE ADDRS_PER_BLOCK

\* The pages whose addresses a direct node holds.
PagesOf(node_ofs) ==
    start_bidx_of_node(node_ofs)
        .. start_bidx_of_node(node_ofs) + ADDRS_PER_PAGE(node_ofs) - 1

\* The node that the i-th id of a node names: ids of the inode are numbered
\* from DIR1, ids of an indirect node from 0.
Child(node_ofs, i) ==
    LET N == NIDS_PER_BLOCK
    IN CASE node_ofs = 0 -> <<1, 2, 3, 4 + N, 5 + 2 * N>>[i]
         [] node_ofs = 5 + 2 * N -> node_ofs + 1 + i * (N + 1)
         [] OTHER -> node_ofs + 1 + i

\* The node whose ids name a given one.
ParentOf(node_ofs) ==
    LET N == NIDS_PER_BLOCK
        dind == 5 + 2 * N
    IN CASE node_ofs \in {1, 2, 3, 4 + N, dind} -> 0
         [] node_ofs \in 4 .. 3 + N -> 3
         [] node_ofs \in 5 + N .. 4 + 2 * N -> 4 + N
         [] OTHER -> LET k == node_ofs - dind - 1
                     IN IF k % (N + 1) = 0 THEN dind
                        ELSE node_ofs - (k % (N + 1))
=============================================================================
