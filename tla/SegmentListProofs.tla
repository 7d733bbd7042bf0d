------------------------- MODULE SegmentListProofs -------------------------
(***************************************************************************)
(* More theorems about Segment: the counters, the lists of dirty and       *)
(* prefree segments, the bitmaps of free segments and sections, and the    *)
(* sections that the logs and the garbage collector use.  They rest on     *)
(* IndInv of SegmentProofs.                                                *)
(***************************************************************************)
EXTENDS SegmentProofs

----------------------------------------------------------------------------
(* Counters                                                                *)

SitCounts(st) ==
    /\ st.sec_valid_blocks = SecCount(st.cur_valid_map)
    /\ st.written_valid_blocks = Cardinality(BlocksIn(Segs, st.cur_valid_map))
FreeCounts(f) ==
    /\ f.free_segments = Cardinality(Segs \ f.inuse)
    /\ f.free_sections = Cardinality(Secs \ f.inuse_sec)
DirtyCounts(d) == \A t \in DirtyTypes : d.nr_dirty[t] = Cardinality(d.dirty_segmap[t])

(* The blocks of a set of segments.                                        *)
LEMMA BlocksInSet ==
    ASSUME NEW S \in SUBSET Segs, NEW map \in [Segs -> SUBSET Offs], NEW b \in Blocks
    PROVE  /\ IsFiniteSet(BlocksIn(S, map)) /\ Cardinality(BlocksIn(S, map)) \in Nat
           /\ b \in BlocksIn(S, map) <=> b[1] \in S /\ b[2] \in map[b[1]]
<1>1. IsFiniteSet(S \X Offs)
  <2>1. IsFiniteSet(S)
    BY IndexSetsFinite, FS_Subset
  <2>. QED
    BY <2>1, IndexSetsFinite, FS_Product
<1>2. BlocksIn(S, map) \in SUBSET (S \X Offs)
  BY DEF BlocksIn
<1>3. IsFiniteSet(BlocksIn(S, map)) /\ Cardinality(BlocksIn(S, map)) \in Nat
  BY <1>1, <1>2, FS_Subset, FS_CardinalityType
<1>4. b = <<b[1], b[2]>> /\ b[1] \in Segs /\ b[2] \in Offs
  BY DEF Blocks
<1>5. b \in BlocksIn(S, map) <=> b[1] \in S /\ b[2] \in map[b[1]]
  BY <1>4 DEF BlocksIn
<1>. QED
  BY <1>3, <1>5

(* They gain block b when its bit is set.                                  *)
LEMMA BlocksAfterSet ==
    ASSUME NEW S \in SUBSET Segs, NEW map \in [Segs -> SUBSET Offs], NEW b \in Blocks,
           NEW m, m = [map EXCEPT ![b[1]] = map[b[1]] \cup {b[2]}]
    PROVE  BlocksIn(S, m) = IF b[1] \in S THEN BlocksIn(S, map) \cup {b} ELSE BlocksIn(S, map)
<1>1. b = <<b[1], b[2]>> /\ b[1] \in Segs /\ b[2] \in Offs
  BY DEF Blocks
<1>2. \A q \in S \X Offs : /\ q[1] \in Segs /\ q = <<q[1], q[2]>>
                           /\ q = b <=> q[1] = b[1] /\ q[2] = b[2]
  BY <1>1
<1>3. \A q \in S \X Offs : q[2] \in m[q[1]] <=> q[2] \in map[q[1]] \/ q = b
  BY <1>1, <1>2
<1>4. \A q : q \in BlocksIn(S, m) <=> q \in IF b[1] \in S THEN BlocksIn(S, map) \cup {b} ELSE BlocksIn(S, map)
  BY <1>1, <1>2, <1>3 DEF BlocksIn
<1>. QED
  BY <1>4

(* They lose it when its bit is cleared.                                   *)
LEMMA BlocksAfterClear ==
    ASSUME NEW S \in SUBSET Segs, NEW map \in [Segs -> SUBSET Offs], NEW b \in Blocks,
           NEW m, m = [map EXCEPT ![b[1]] = map[b[1]] \ {b[2]}]
    PROVE  Cardinality(BlocksIn(S, m)) = IF b \in BlocksIn(S, map)
                                         THEN Cardinality(BlocksIn(S, map)) - 1
                                         ELSE Cardinality(BlocksIn(S, map))
<1>1. b = <<b[1], b[2]>> /\ b[1] \in Segs /\ b[2] \in Offs
  BY DEF Blocks
<1>2. \A q \in S \X Offs : /\ q[1] \in Segs /\ q = <<q[1], q[2]>>
                           /\ q = b <=> q[1] = b[1] /\ q[2] = b[2]
  BY <1>1
<1>3. \A q \in S \X Offs : q[2] \in m[q[1]] <=> q[2] \in map[q[1]] /\ q # b
  BY <1>1, <1>2
<1>4. \A q : q \in BlocksIn(S, m) <=> q \in BlocksIn(S, map) \ {b}
  BY <1>1, <1>2, <1>3 DEF BlocksIn
<1>5. BlocksIn(S, m) = BlocksIn(S, map) \ {b}
  BY <1>4
<1>6. IsFiniteSet(BlocksIn(S, map))
  BY BlocksInSet
<1>. QED
  BY <1>5, <1>6, FS_RemoveElement

(* update_sit_entry keeps written_valid_blocks and sec_valid_blocks exact. *)
LEMMA UpdateCounts ==
    ASSUME NEW st \in SitType, SitCounts(st), NEW b \in Blocks, NEW del \in {1, -1}
    PROVE  SitCounts(update_sit_entry(st, b, del))
<1>. DEFINE s == b[1]  o == b[2]  map == st.cur_valid_map
            new == [map EXCEPT ![s] = IF del > 0 THEN @ \cup {o} ELSE @ \ {o}]
            d == IF (del > 0) = (o \in map[s]) THEN 0 ELSE del
            r == update_sit_entry(st, b, del)
<1>1. s \in Segs /\ o \in Offs /\ SecOf(s) \in Secs
  BY SecsAreNumbers DEF Blocks
<1>2. map \in [Segs -> SUBSET Offs]
  BY DEF SitType
<1>3. /\ r.cur_valid_map = new /\ r.written_valid_blocks = st.written_valid_blocks + d
      /\ r.sec_valid_blocks = [st.sec_valid_blocks EXCEPT ![SecOf(s)] =
                                 IF SegsPerSec > 1 THEN @ + d ELSE @]
  BY DEF update_sit_entry
<1>. HIDE DEF r
<1>4. ASSUME NEW S \in SUBSET Segs
      PROVE  Cardinality(BlocksIn(S, new)) =
               IF s \in S THEN Cardinality(BlocksIn(S, map)) + d ELSE Cardinality(BlocksIn(S, map))
  <2>1. /\ IsFiniteSet(BlocksIn(S, map)) /\ Cardinality(BlocksIn(S, map)) \in Nat
        /\ b \in BlocksIn(S, map) <=> s \in S /\ o \in map[s]
    BY <1>2, BlocksInSet
  <2>2. CASE del = 1
    <3>1. new = [map EXCEPT ![s] = map[s] \cup {o}]
      BY <2>2
    <3>2. BlocksIn(S, new) = IF s \in S THEN BlocksIn(S, map) \cup {b} ELSE BlocksIn(S, map)
      <4>. HIDE DEF map, new
      <4>. QED
        BY <1>2, <3>1, BlocksAfterSet
    <3>3. Cardinality(BlocksIn(S, map) \cup {b}) =
            IF b \in BlocksIn(S, map) THEN Cardinality(BlocksIn(S, map))
            ELSE Cardinality(BlocksIn(S, map)) + 1
      BY <2>1, FS_AddElement
    <3>4. d = IF o \in map[s] THEN 0 ELSE 1
      BY <2>2
    <3>. HIDE DEF new, d, map
    <3>5. CASE s \in S
      <4>1. Cardinality(BlocksIn(S, new)) = Cardinality(BlocksIn(S, map) \cup {b})
        BY <3>2, <3>5
      <4>. QED
        BY <2>1, <3>3, <3>4, <3>5, <4>1
    <3>6. CASE s \notin S
      BY <3>2, <3>6
    <3>. QED
      BY <3>5, <3>6
  <2>3. CASE del = -1
    <3>1. new = [map EXCEPT ![s] = map[s] \ {o}]
      BY <2>3
    <3>2. Cardinality(BlocksIn(S, new)) = IF b \in BlocksIn(S, map)
                                          THEN Cardinality(BlocksIn(S, map)) - 1
                                          ELSE Cardinality(BlocksIn(S, map))
      <4>. HIDE DEF map, new
      <4>. QED
        BY <1>2, <3>1, BlocksAfterClear
    <3>4. d = IF o \in map[s] THEN -1 ELSE 0
      BY <2>3
    <3>. HIDE DEF new, d, map
    <3>. QED
      BY <2>1, <3>2, <3>4
  <2>. QED
    BY <2>2, <2>3
<1>5. d \in Int
  OBVIOUS
<1>. HIDE DEF new, d, map
<1>6. r.written_valid_blocks = Cardinality(BlocksIn(Segs, new))
  BY <1>1, <1>3, <1>4 DEF SitCounts, map
<1>7. r.sec_valid_blocks = SecCount(new)
  <2>1. st.sec_valid_blocks = SecCount(map)
    BY DEF SitCounts, map
  <2>2. ASSUME NEW c \in Secs PROVE r.sec_valid_blocks[c] = SecCount(new)[c]
    <3>1. SegsOf(c) \in SUBSET Segs /\ (s \in SegsOf(c) <=> SecOf(s) = c)
      BY <1>1 DEF SegsOf
    <3>2. SecCount(map)[c] = (IF SegsPerSec > 1 THEN Cardinality(BlocksIn(SegsOf(c), map)) ELSE 0)
          /\ SecCount(new)[c] = IF SegsPerSec > 1 THEN Cardinality(BlocksIn(SegsOf(c), new)) ELSE 0
      BY DEF SecCount
    <3>3. r.sec_valid_blocks[c] = IF SecOf(s) = c /\ SegsPerSec > 1 THEN SecCount(map)[c] + d
                                  ELSE SecCount(map)[c]
      BY <1>1, <1>3, <2>1 DEF SecCount
    <3>4. Cardinality(BlocksIn(SegsOf(c), new)) =
            IF s \in SegsOf(c) THEN Cardinality(BlocksIn(SegsOf(c), map)) + d
            ELSE Cardinality(BlocksIn(SegsOf(c), map))
      BY <1>4, <3>1
    <3>. QED
      BY <3>1, <3>2, <3>3, <3>4
  <2>3. DOMAIN r.sec_valid_blocks = Secs /\ r.sec_valid_blocks = [c \in Secs |-> r.sec_valid_blocks[c]]
    BY <1>3, <2>1 DEF SecCount
  <2>4. SecCount(new) = [c \in Secs |-> SecCount(new)[c]]
    BY DEF SecCount
  <2>. QED
    BY <2>2, <2>3, <2>4
<1>. QED
  BY <1>3, <1>6, <1>7 DEF SitCounts, r

(* __set_test_and_inuse keeps the bitmaps and counts of free segments and  *)
(* sections in step.                                                       *)
SecsExact(f) == f.inuse_sec = {SecOf(s) : s \in f.inuse}

(* Marking one more segment in use keeps both counts and the section       *)
(* bitmap.                                                                 *)
LEMMA InuseCounts ==
    ASSUME NEW f \in FreeType, FreeCounts(f), SecsExact(f), NEW s \in Segs,
           NEW r, r = __set_test_and_inuse(f, s)
    PROVE  /\ FreeCounts(r) /\ SecsExact(r)
           /\ r.inuse_sec = f.inuse_sec \cup {SecOf(s)}
<1>. DEFINE c == SecOf(s)
<1>1. c \in Secs
  BY SecsAreNumbers
<1>2. CASE s \in f.inuse
  <2>1. r = f
    BY <1>2 DEF __set_test_and_inuse
  <2>2. c \in f.inuse_sec
    BY <1>2 DEF SecsExact
  <2>. QED
    BY <2>1, <2>2
<1>3. CASE s \notin f.inuse
  <2>1. /\ r.inuse = f.inuse \cup {s} /\ r.inuse_sec = f.inuse_sec \cup {c}
        /\ r.free_segments = f.free_segments - 1
        /\ r.free_sections = f.free_sections - (IF c \in f.inuse_sec THEN 0 ELSE 1)
    BY <1>3 DEF __set_test_and_inuse
  <2>2. IsFiniteSet(Segs \ f.inuse) /\ IsFiniteSet(Secs \ f.inuse_sec)
    BY IndexSetsFinite, FS_Difference
  <2>3. /\ Cardinality((Segs \ f.inuse) \ {s}) =
             IF s \in Segs \ f.inuse THEN Cardinality(Segs \ f.inuse) - 1 ELSE Cardinality(Segs \ f.inuse)
        /\ Cardinality((Secs \ f.inuse_sec) \ {c}) =
             IF c \in Secs \ f.inuse_sec THEN Cardinality(Secs \ f.inuse_sec) - 1
             ELSE Cardinality(Secs \ f.inuse_sec)
    BY <2>2, FS_RemoveElement
  <2>4. Segs \ r.inuse = (Segs \ f.inuse) \ {s} /\ Secs \ r.inuse_sec = (Secs \ f.inuse_sec) \ {c}
    BY <2>1
  <2>5. Cardinality(Segs \ f.inuse) \in Nat /\ Cardinality(Secs \ f.inuse_sec) \in Nat
    BY <2>2, FS_CardinalityType
  <2>6. FreeCounts(r)
    <3>1. r.free_segments = Cardinality(Segs \ r.inuse)
      BY <1>3, <2>1, <2>3, <2>4 DEF FreeCounts
    <3>2. r.free_sections = Cardinality(Secs \ r.inuse_sec)
      BY <1>1, <2>1, <2>3, <2>4, <2>5 DEF FreeCounts
    <3>. QED
      BY <3>1, <3>2 DEF FreeCounts
  <2>7. SecsExact(r)
    BY <2>1 DEF SecsExact
  <2>. QED
    BY <2>1, <2>6, <2>7
<1>. QED
  BY <1>2, <1>3

(* So does __set_test_and_free of all prefree segments.                    *)
LEMMA FreeAllCounts ==
    ASSUME NEW f \in FreeType, FreeCounts(f), SecsExact(f), NEW P \in SUBSET Segs,
           NEW r, r = FreeAll(f, P)
    PROVE  FreeCounts(r) /\ SecsExact(r) /\ r.inuse = f.inuse \ P
<1>. DEFINE left == f.inuse \ P
            gone == {c \in {SecOf(s) : s \in P \cap f.inuse} :
                       SegsOf(c) \cap left = {} /\ c \in f.inuse_sec}
<1>1. /\ r.inuse = left /\ r.inuse_sec = f.inuse_sec \ gone
      /\ r.free_segments = f.free_segments + Cardinality(P \cap f.inuse)
      /\ r.free_sections = f.free_sections + Cardinality(gone)
  BY DEF FreeAll
<1>2. f.inuse \in SUBSET Segs /\ f.inuse_sec \in SUBSET Secs
  BY DEF FreeType
<1>3. gone \subseteq f.inuse_sec
  OBVIOUS
<1>4. SecsExact(r)
  <2>1. ASSUME NEW c \in f.inuse_sec, c \notin gone PROVE \E s \in left : SecOf(s) = c
    <3>1. PICK s \in f.inuse : SecOf(s) = c
      BY DEF SecsExact
    <3>2. CASE s \in P
      BY <1>2, <2>1, <3>1, <3>2 DEF SegsOf
    <3>3. CASE s \notin P
      BY <3>1, <3>3
    <3>. QED
      BY <3>2, <3>3
  <2>2. ASSUME NEW s \in left PROVE SecOf(s) \in f.inuse_sec /\ SecOf(s) \notin gone
    BY <1>2 DEF SecsExact, SegsOf
  <2>. HIDE DEF gone, left
  <2>3. \A c : c \in r.inuse_sec <=> c \in {SecOf(s) : s \in left}
    BY <1>1, <2>1, <2>2
  <2>. QED
    BY <1>1, <2>3 DEF SecsExact
<1>. HIDE DEF gone
<1>5. FreeCounts(r)
  <2>. DEFINE A == Segs \ f.inuse  B == P \cap f.inuse
              C == Secs \ f.inuse_sec
  <2>1. IsFiniteSet(A) /\ IsFiniteSet(B) /\ IsFiniteSet(C) /\ IsFiniteSet(gone)
    BY <1>2, <1>3, IndexSetsFinite, FS_Subset
  <2>2. A \cap B = {} /\ C \cap gone = {}
    BY <1>3
  <2>3. Segs \ r.inuse = A \cup B /\ Secs \ r.inuse_sec = C \cup gone
    BY <1>1, <1>2, <1>3
  <2>4. f.free_segments = Cardinality(A) /\ f.free_sections = Cardinality(C)
    BY DEF FreeCounts
  <2>. HIDE DEF A, B, C
  <2>5. /\ Cardinality(A \cup B) = Cardinality(A) + Cardinality(B) - Cardinality(A \cap B)
        /\ Cardinality(C \cup gone) = Cardinality(C) + Cardinality(gone) - Cardinality(C \cap gone)
    BY <2>1, FS_Union
  <2>6. Cardinality(A \cap B) = 0 /\ Cardinality(C \cap gone) = 0
    BY <2>2, FS_EmptySet
  <2>7. /\ Cardinality(A) \in Nat /\ Cardinality(B) \in Nat
        /\ Cardinality(C) \in Nat /\ Cardinality(gone) \in Nat
    BY <2>1, FS_CardinalityType
  <2>8. r.free_segments = Cardinality(A) + Cardinality(B)
        /\ r.free_sections = Cardinality(C) + Cardinality(gone)
    BY <1>1, <2>4, Zenon DEF B
  <2>9. /\ Cardinality(A \cup B) = Cardinality(A) + Cardinality(B)
        /\ Cardinality(C \cup gone) = Cardinality(C) + Cardinality(gone)
    BY <2>5, <2>6, <2>7
  <2>. QED
    BY <2>3, <2>8, <2>9, Zenon DEF FreeCounts
<1>. QED
  BY <1>1, <1>4, <1>5

----------------------------------------------------------------------------
(* The dirty lists                                                         *)

(* d and r agree on all segments but s.                                    *)
SameBut(d, r, s) == \A q \in Segs, k \in DirtyTypes :
    q # s => (q \in r.dirty_segmap[k] <=> q \in d.dirty_segmap[k])

Added(d, s, t, r) ==
    /\ r \in DirtyType /\ DirtyCounts(r) /\ r.victim_secmap = d.victim_secmap
    /\ \A q \in Segs, k \in DirtyTypes :
         q \in r.dirty_segmap[k] <=> q \in d.dirty_segmap[k] \/ (q = s /\ k = t)

(* A segment is put on a list.                                             *)
LEMMA AddIs ==
    ASSUME NEW d \in DirtyType, DirtyCounts(d), NEW s \in Segs, NEW t \in DirtyTypes,
           NEW r, r = AddDirty(d, s, t)
    PROVE  Added(d, s, t, r)
<1>. DEFINE L == d.dirty_segmap[t]  n == Cardinality(L)
            more == IF s \in L THEN 0 ELSE 1
<1>1. r \in DirtyType
  BY DirtyHelpers
<1>2. IsFiniteSet(L) /\ n \in Nat /\ d.nr_dirty[t] = n
  <2>1. L \in SUBSET Segs
    BY DEF DirtyType
  <2>. QED
    BY <2>1, IndexSetsFinite, FS_Subset, FS_CardinalityType DEF DirtyCounts
<1>3. Cardinality(L \cup {s}) = n + more
  <2>1. Cardinality(L \cup {s}) = IF s \in L THEN Cardinality(L) ELSE Cardinality(L) + 1
    <3>. HIDE DEF L
    <3>. QED
      BY <1>2, FS_AddElement
  <2>. QED
    BY <1>2, <2>1
<1>4. /\ r.dirty_segmap = [d.dirty_segmap EXCEPT ![t] = L \cup {s}]
      /\ r.nr_dirty = [d.nr_dirty EXCEPT ![t] = n + more]
      /\ r.victim_secmap = d.victim_secmap
  BY <1>2 DEF AddDirty, DirtyType
<1>. HIDE DEF more, n
<1>5. \A k \in DirtyTypes :
        /\ r.dirty_segmap[k] = IF k = t THEN L \cup {s} ELSE d.dirty_segmap[k]
        /\ r.nr_dirty[k] = IF k = t THEN n + more ELSE d.nr_dirty[k]
  BY <1>4 DEF DirtyType
<1>. HIDE DEF L
<1>6. DirtyCounts(r)
  BY <1>3, <1>5, Zenon DEF DirtyCounts
<1>. QED
  BY <1>1, <1>4, <1>5, <1>6 DEF L, Added

Dropped(d, s, t, r) ==
    /\ r \in DirtyType /\ DirtyCounts(r) /\ r.victim_secmap = d.victim_secmap
    /\ \A q \in Segs, k \in DirtyTypes :
         q \in r.dirty_segmap[k] <=> q \in d.dirty_segmap[k] /\ ~(q = s /\ k = t)

(* A segment is taken off a list.                                          *)
LEMMA DropIs ==
    ASSUME NEW d \in DirtyType, DirtyCounts(d), NEW s \in Segs, NEW t \in DirtyTypes,
           NEW r, r = DropDirty(d, s, t)
    PROVE  Dropped(d, s, t, r)
<1>. DEFINE L == d.dirty_segmap[t]  n == Cardinality(L)
            less == IF s \in L THEN 1 ELSE 0
<1>1. r \in DirtyType
  BY DirtyHelpers
<1>2. IsFiniteSet(L) /\ n \in Nat /\ d.nr_dirty[t] = n
  <2>1. L \in SUBSET Segs
    BY DEF DirtyType
  <2>. QED
    BY <2>1, IndexSetsFinite, FS_Subset, FS_CardinalityType DEF DirtyCounts
<1>3. Cardinality(L \ {s}) = n - less
  <2>1. Cardinality(L \ {s}) = IF s \in L THEN Cardinality(L) - 1 ELSE Cardinality(L)
    <3>. HIDE DEF L
    <3>. QED
      BY <1>2, FS_RemoveElement
  <2>. QED
    BY <1>2, <2>1
<1>4. /\ r.dirty_segmap = [d.dirty_segmap EXCEPT ![t] = L \ {s}]
      /\ r.nr_dirty = [d.nr_dirty EXCEPT ![t] = n - less]
      /\ r.victim_secmap = d.victim_secmap
  BY <1>2 DEF DropDirty, DirtyType
<1>. HIDE DEF less, n
<1>5. \A k \in DirtyTypes :
        /\ r.dirty_segmap[k] = IF k = t THEN L \ {s} ELSE d.dirty_segmap[k]
        /\ r.nr_dirty[k] = IF k = t THEN n - less ELSE d.nr_dirty[k]
  BY <1>4 DEF DirtyType
<1>. HIDE DEF L
<1>6. DirtyCounts(r)
  BY <1>3, <1>5, Zenon DEF DirtyCounts
<1>. QED
  BY <1>1, <1>4, <1>5, <1>6 DEF L, Dropped

(* Whose bit of victim_secmap __remove_dirty_segment clears.               *)
VictimsLeft(d, st, s) ==
    IF get_valid_blocks(st, s, TRUE) = 0 THEN d.victim_secmap \ {SecOf(s)} ELSE d.victim_secmap

(* __remove_dirty_segment takes s off DIRTY and the list of its type, or   *)
(* off PRE.                                                                *)
LEMMA RemoveIs ==
    ASSUME NEW d \in DirtyType, DirtyCounts(d), NEW st \in SitType, NEW s \in Segs,
           NEW r, r = __remove_dirty_segment(d, st, s, "DIRTY")
    PROVE  /\ r \in DirtyType /\ DirtyCounts(r)
           /\ \A q \in Segs, k \in DirtyTypes :
                q \in r.dirty_segmap[k] <=> /\ q \in d.dirty_segmap[k]
                                            /\ ~(q = s /\ k \in {"DIRTY", st.type[s]})
           /\ r.victim_secmap = VictimsLeft(d, st, s)
<1>1. "DIRTY" \in DirtyTypes /\ st.type[s] \in DirtyTypes
  BY DEF DirtyTypes, SitType
<1>. DEFINE k0 == st.type[s]
            e1 == DropDirty(d, s, "DIRTY")
            e == DropDirty(e1, s, k0)
            V == IF get_valid_blocks(st, s, TRUE) = 0 THEN e.victim_secmap \ {SecOf(s)} ELSE e.victim_secmap
<1>2. /\ e1 \in DirtyType /\ DirtyCounts(e1) /\ e1.victim_secmap = d.victim_secmap
      /\ \A q \in Segs, k \in DirtyTypes :
           q \in e1.dirty_segmap[k] <=> q \in d.dirty_segmap[k] /\ ~(q = s /\ k = "DIRTY")
  <2>1. Dropped(d, s, "DIRTY", e1)
    BY <1>1, DropIs
  <2>. QED
    BY <2>1 DEF Dropped
<1>1a. k0 \in DirtyTypes
  BY <1>1
<1>. HIDE DEF e1, k0
<1>3. /\ e \in DirtyType /\ DirtyCounts(e) /\ e.victim_secmap = e1.victim_secmap
      /\ \A q \in Segs, k \in DirtyTypes :
           q \in e.dirty_segmap[k] <=> q \in e1.dirty_segmap[k] /\ ~(q = s /\ k = k0)
  <2>1. Dropped(e1, s, k0, e)
    BY <1>1a, <1>2, DropIs
  <2>. QED
    BY <2>1 DEF Dropped
<1>4. r = [e EXCEPT !.victim_secmap = V]
  BY Zenon DEF __remove_dirty_segment, e1, k0
<1>. HIDE DEF e, V
<1>5. V \in SUBSET Secs /\ V = VictimsLeft(d, st, s)
  BY <1>2, <1>3 DEF DirtyType, V, VictimsLeft
<1>6. /\ r \in DirtyType /\ r.dirty_segmap = e.dirty_segmap /\ r.nr_dirty = e.nr_dirty
      /\ r.victim_secmap = V
  BY <1>3, <1>4, <1>5 DEF DirtyType
<1>. QED
  BY <1>2, <1>3, <1>5, <1>6 DEF DirtyCounts, k0

(* A partly valid segment belongs on the dirty lists.                      *)
Partly(st, s) == st.cur_valid_map[s] \notin {{}, Offs}

(* What locate_dirty_segment leaves: s is on DIRTY and on the list of its  *)
(* type exactly when it is partly valid, on PRE if it is empty; a section  *)
(* without valid blocks is no victim any more.                             *)
Located(d, st, cs, s, r) ==
    /\ r \in DirtyType /\ DirtyCounts(r) /\ SameBut(d, r, s)
    /\ r.victim_secmap \subseteq d.victim_secmap
    /\ IS_CURSEG(cs, s) => r = d
    /\ ~IS_CURSEG(cs, s) =>
         /\ s \in r.dirty_segmap["DIRTY"] <=> Partly(st, s)
         /\ \A t \in AllLogs : s \in r.dirty_segmap[t] <=>
              IF t = st.type[s] THEN Partly(st, s) ELSE s \in d.dirty_segmap[t]
         /\ st.cur_valid_map[s] = {} =>
              /\ s \in r.dirty_segmap["PRE"]
              /\ get_valid_blocks(st, s, TRUE) = 0 => SecOf(s) \notin r.victim_secmap

(* The counter that locate_dirty_segment looks at tells empty, partly      *)
(* valid and full segments apart.                                          *)
LEMMA ValidCount ==
    ASSUME NEW st \in SitType, EntriesOK(st), NEW s \in Segs
    PROVE  /\ st.valid_blocks[s] = 0 <=> st.cur_valid_map[s] = {}
           /\ st.valid_blocks[s] < BlocksPerSeg <=> st.cur_valid_map[s] # Offs
           /\ {} # Offs
<1>. DEFINE M == st.cur_valid_map[s]
<1>1. M \in SUBSET Offs /\ st.valid_blocks[s] = Cardinality(M)
  BY DEF SitType, EntriesOK
<1>. HIDE DEF M
<1>2. /\ IsFiniteSet(M) /\ Cardinality(M) \in Nat /\ Cardinality(M) <= BlocksPerSeg
      /\ Cardinality(M) = BlocksPerSeg => M = Offs
  BY <1>1, IndexSetsFinite, FS_Subset, FS_CardinalityType
<1>3. Cardinality(M) = 0 <=> M = {}
  BY <1>2, FS_EmptySet
<1>4. BlocksPerSeg \in Nat \ {0} /\ 0 \in Offs /\ Cardinality(Offs) = BlocksPerSeg
  BY SizesAssumption, IndexSetsFinite DEF Offs
<1>5. M = Offs => Cardinality(M) = BlocksPerSeg
  BY <1>4
<1>6. Cardinality(M) < BlocksPerSeg <=> M # Offs
  BY <1>2, <1>4, <1>5
<1>. QED
  BY <1>1, <1>3, <1>4, <1>6 DEF M

(* That is what it does.                                                   *)
LEMMA LocateIs ==
    ASSUME NEW d \in DirtyType, DirtyCounts(d), NEW st \in SitType, EntriesOK(st), NEW cs,
           NEW s \in Segs, NEW r, r = locate_dirty_segment(d, st, cs, s)
    PROVE  Located(d, st, cs, s, r)
<1>. DEFINE k0 == st.type[s]
<1>1. /\ "DIRTY" \in DirtyTypes /\ "PRE" \in DirtyTypes /\ k0 \in DirtyTypes /\ k0 \in AllLogs
      /\ \A t \in AllLogs : t \in DirtyTypes /\ t # "DIRTY" /\ t # "PRE"
  BY DEF DirtyTypes, AllLogs, DataLogs, NodeLogs, SitType
<1>2. /\ st.valid_blocks[s] = 0 <=> st.cur_valid_map[s] = {}
      /\ st.valid_blocks[s] < BlocksPerSeg <=> st.cur_valid_map[s] # Offs
      /\ {} # Offs
  BY ValidCount
<1>. DEFINE empty == st.valid_blocks[s] = 0
            more == st.valid_blocks[s] < BlocksPerSeg
            after == get_valid_blocks(st, s, TRUE) = 0
<1>3. Partly(st, s) <=> ~empty /\ more
  BY <1>2 DEF Partly
<1>4. CASE IS_CURSEG(cs, s)
  <2>1. r = d
    BY <1>4 DEF locate_dirty_segment
  <2>. QED
    BY <1>4, <2>1 DEF Located, SameBut
<1>5. CASE ~IS_CURSEG(cs, s) /\ empty
  <2>. DEFINE e == AddDirty(d, s, "PRE")
  <2>1. r = __remove_dirty_segment(e, st, s, "DIRTY")
    BY <1>5 DEF locate_dirty_segment, __locate_dirty_segment
  <2>2. /\ e \in DirtyType /\ DirtyCounts(e) /\ e.victim_secmap = d.victim_secmap
        /\ \A q \in Segs, k \in DirtyTypes :
             q \in e.dirty_segmap[k] <=> q \in d.dirty_segmap[k] \/ (q = s /\ k = "PRE")
    <3>1. Added(d, s, "PRE", e)
      BY <1>1, AddIs
    <3>. QED
      BY <3>1 DEF Added
  <2>. HIDE DEF e
  <2>3. /\ r \in DirtyType /\ DirtyCounts(r) /\ r.victim_secmap = VictimsLeft(e, st, s)
        /\ \A q \in Segs, k \in DirtyTypes :
             q \in r.dirty_segmap[k] <=> /\ q \in e.dirty_segmap[k]
                                         /\ ~(q = s /\ k \in {"DIRTY", st.type[s]})
    BY <2>1, <2>2, RemoveIs
  <2>4. /\ r.victim_secmap \subseteq d.victim_secmap
        /\ after => SecOf(s) \notin r.victim_secmap
    BY <2>2, <2>3 DEF VictimsLeft
  <2>. HIDE DEF empty, more, after
  <2>5. SameBut(d, r, s)
    BY <2>2, <2>3 DEF SameBut
  <2>6. s \in r.dirty_segmap["PRE"] /\ s \notin r.dirty_segmap["DIRTY"]
    BY <1>1, <2>2, <2>3 DEF k0
  <2>7. \A t \in AllLogs : s \in r.dirty_segmap[t] <=> IF t = k0 THEN FALSE ELSE s \in d.dirty_segmap[t]
    BY <1>1, <2>2, <2>3
  <2>. QED
    BY <1>3, <1>5, <2>3, <2>4, <2>5, <2>6, <2>7 DEF Located, after
<1>6. CASE ~IS_CURSEG(cs, s) /\ ~empty /\ more
  <2>. DEFINE e == AddDirty(d, s, "DIRTY")
  <2>1. r = AddDirty(e, s, k0)
    BY <1>6 DEF locate_dirty_segment, __locate_dirty_segment
  <2>2. /\ e \in DirtyType /\ DirtyCounts(e) /\ e.victim_secmap = d.victim_secmap
        /\ \A q \in Segs, k \in DirtyTypes :
             q \in e.dirty_segmap[k] <=> q \in d.dirty_segmap[k] \/ (q = s /\ k = "DIRTY")
    <3>1. Added(d, s, "DIRTY", e)
      BY <1>1, AddIs
    <3>. QED
      BY <3>1 DEF Added
  <2>. HIDE DEF e, k0
  <2>3. /\ r \in DirtyType /\ DirtyCounts(r) /\ r.victim_secmap = e.victim_secmap
        /\ \A q \in Segs, k \in DirtyTypes :
             q \in r.dirty_segmap[k] <=> q \in e.dirty_segmap[k] \/ (q = s /\ k = k0)
    <3>1. Added(e, s, k0, r)
      BY <1>1, <2>1, <2>2, AddIs
    <3>. QED
      BY <3>1 DEF Added
  <2>. HIDE DEF empty, more
  <2>4. SameBut(d, r, s)
    BY <2>2, <2>3 DEF SameBut
  <2>5. s \in r.dirty_segmap["DIRTY"]
    BY <1>1, <2>2, <2>3
  <2>6. \A t \in AllLogs : s \in r.dirty_segmap[t] <=> IF t = k0 THEN TRUE ELSE s \in d.dirty_segmap[t]
    BY <1>1, <2>2, <2>3
  <2>. QED
    BY <1>2, <1>3, <1>6, <2>2, <2>3, <2>4, <2>5, <2>6 DEF Located, k0, empty
<1>7. CASE ~IS_CURSEG(cs, s) /\ ~empty /\ ~more
  <2>1. r = __remove_dirty_segment(d, st, s, "DIRTY")
    BY <1>7 DEF locate_dirty_segment
  <2>2. /\ r \in DirtyType /\ DirtyCounts(r) /\ r.victim_secmap = VictimsLeft(d, st, s)
        /\ \A q \in Segs, k \in DirtyTypes :
             q \in r.dirty_segmap[k] <=> /\ q \in d.dirty_segmap[k]
                                         /\ ~(q = s /\ k \in {"DIRTY", st.type[s]})
    BY <2>1, RemoveIs
  <2>3. r.victim_secmap \subseteq d.victim_secmap
    BY <2>2 DEF VictimsLeft
  <2>. HIDE DEF empty, more
  <2>4. SameBut(d, r, s)
    BY <2>2 DEF SameBut
  <2>5. s \notin r.dirty_segmap["DIRTY"]
    BY <1>1, <2>2
  <2>6. \A t \in AllLogs : s \in r.dirty_segmap[t] <=> IF t = k0 THEN FALSE ELSE s \in d.dirty_segmap[t]
    BY <1>1, <2>2
  <2>. QED
    BY <1>2, <1>3, <1>7, <2>2, <2>3, <2>4, <2>5, <2>6 DEF Located, empty
<1>. QED
  BY <1>4, <1>5, <1>6, <1>7

----------------------------------------------------------------------------
(* The lists and sections of a State                                       *)

(* A listed segment is on the list of its type, and not a current one.     *)
Listed(d, st, cs, q) ==
    /\ \A t \in AllLogs : q \in d.dirty_segmap[t] <=>
                            q \in d.dirty_segmap["DIRTY"] /\ st.type[q] = t
    /\ q \in d.dirty_segmap["DIRTY"] => ~IS_CURSEG(cs, q)

(* Exactly the partly valid segments that are not current are on DIRTY;    *)
(* moving data addresses (__f2fs_replace_block) may lose some.             *)
Classified(d, st, cs, q) ==
    /\ q \in d.dirty_segmap["DIRTY"] => Partly(st, q)
    /\ ~ExchangeData /\ Partly(st, q) /\ ~IS_CURSEG(cs, q) => q \in d.dirty_segmap["DIRTY"]

(* All segments are listed and, except those of U, classified: the ones an *)
(* operation has touched and not yet passed to locate_dirty_segment.       *)
Lists(d, st, cs, U) == \A q \in Segs :
    Listed(d, st, cs, q) /\ (q \notin U => Classified(d, st, cs, q))

(* An empty segment in use that is not current waits in the prefree list.  *)
Waiting(d, st, inuse, cs, U) == \A q \in inuse \ U :
    ~IS_CURSEG(cs, q) /\ st.cur_valid_map[q] = {} => q \in d.dirty_segmap["PRE"]

Apart(cs) == \A t, u \in Logs : t # u => SecOf(cs[t].segno) # SecOf(cs[u].segno)

(* The sections that background GC marked have a valid block and no log.   *)
HasValid(st, c) == \E q \in SegsOf(c) : st.cur_valid_map[q] # {}
Victims(V, st, cs, U) == \A c \in V :
    ~IS_CURSEC(cs, c) /\ (HasValid(st, c) \/ \E u \in U : SecOf(u) = c)

(* The section under collection has no log and is in use.                  *)
VictimOK(v, cs, f) == v # NULL_SECNO => ~IS_CURSEC(cs, v) /\ v \in f.inuse_sec

(* One more segment is classified.                                         *)
LEMMA LocateLists ==
    ASSUME NEW d, NEW st \in SitType, NEW cs, NEW s \in Segs, NEW r, Located(d, st, cs, s, r),
           NEW U, Lists(d, st, cs, U)
    PROVE  /\ Lists(r, st, cs, U \ {s})
           /\ \A I \in SUBSET Segs : Waiting(d, st, I, cs, U) => Waiting(r, st, I, cs, U \ {s})
<1>1. /\ "DIRTY" \in DirtyTypes /\ "PRE" \in DirtyTypes
      /\ \A t \in AllLogs : t \in DirtyTypes
  BY DEF DirtyTypes
<1>2. ASSUME NEW q \in Segs PROVE Listed(r, st, cs, q) /\ (q \notin U \ {s} => Classified(r, st, cs, q))
  <2>1. CASE q # s
    <3>1. \A k \in DirtyTypes : q \in r.dirty_segmap[k] <=> q \in d.dirty_segmap[k]
      BY <2>1 DEF Located, SameBut
    <3>2. Listed(d, st, cs, q) /\ (q \notin U => Classified(d, st, cs, q))
      BY DEF Lists
    <3>. QED
      BY <1>1, <2>1, <3>1, <3>2 DEF Listed, Classified
  <2>2. CASE q = s /\ IS_CURSEG(cs, s)
    <3>1. r = d
      BY <2>2 DEF Located
    <3>. QED
      BY <2>2, <3>1 DEF Lists, Listed, Classified
  <2>3. CASE q = s /\ ~IS_CURSEG(cs, s)
    <3>1. /\ s \in r.dirty_segmap["DIRTY"] <=> Partly(st, s)
          /\ \A t \in AllLogs : s \in r.dirty_segmap[t] <=>
               IF t = st.type[s] THEN Partly(st, s) ELSE s \in d.dirty_segmap[t]
      BY <2>3 DEF Located
    <3>2. Listed(d, st, cs, s)
      BY DEF Lists
    <3>3. Listed(r, st, cs, s)
      BY <2>3, <3>1, <3>2 DEF Listed
    <3>. QED
      BY <2>3, <3>1, <3>3 DEF Classified
  <2>. QED
    BY <2>1, <2>2, <2>3
<1>3. ASSUME NEW I \in SUBSET Segs, Waiting(d, st, I, cs, U)
      PROVE  Waiting(r, st, I, cs, U \ {s})
  <2>1. SUFFICES ASSUME NEW q \in I \ (U \ {s}), ~IS_CURSEG(cs, q), st.cur_valid_map[q] = {}
                 PROVE  q \in r.dirty_segmap["PRE"]
    BY DEF Waiting
  <2>2. CASE q = s
    BY <2>1, <2>2 DEF Located
  <2>3. CASE q # s
    BY <1>1, <1>3, <2>1, <2>3 DEF Waiting, Located, SameBut
  <2>. QED
    BY <2>2, <2>3
<1>. QED
  BY <1>2, <1>3 DEF Lists

(* A section without valid blocks, as get_valid_blocks sees it.            *)
LEMMA SectionEmpty ==
    ASSUME NEW st \in SitType, EntriesOK(st), SitCounts(st), NEW s \in Segs,
           st.cur_valid_map[s] = {}, ~HasValid(st, SecOf(s))
    PROVE  get_valid_blocks(st, s, TRUE) = 0
<1>1. CASE SegsPerSec > 1
  <2>1. SecOf(s) \in Secs
    BY SecsAreNumbers
  <2>2. BlocksIn(SegsOf(SecOf(s)), st.cur_valid_map) = {}
    BY DEF BlocksIn, HasValid
  <2>3. st.sec_valid_blocks[SecOf(s)] = 0
    BY <1>1, <2>1, <2>2, FS_EmptySet DEF SitCounts, SecCount
  <2>. QED
    BY <1>1, <2>3 DEF get_valid_blocks
<1>2. CASE ~(SegsPerSec > 1)
  BY <1>2, ValidCount DEF get_valid_blocks
<1>. QED
  BY <1>1, <1>2

(* A section that loses its last valid block is no victim any more.        *)
LEMMA LocateVictims ==
    ASSUME NEW d, NEW st \in SitType, EntriesOK(st), SitCounts(st), NEW cs, NEW s \in Segs,
           NEW r, Located(d, st, cs, s, r), NEW U, Victims(d.victim_secmap, st, cs, U)
    PROVE  Victims(r.victim_secmap, st, cs, U \ {s})
<1>1. SUFFICES ASSUME NEW c \in r.victim_secmap, NEW u \in U, SecOf(u) = c
               PROVE  HasValid(st, c) \/ \E w \in U \ {s} : SecOf(w) = c
  BY DEF Victims, Located
<1>2. c \in d.victim_secmap /\ ~IS_CURSEC(cs, c)
  BY <1>1 DEF Located, Victims
<1>3. CASE u # s
  BY <1>1, <1>3
<1>4. CASE u = s
  <2>1. ~IS_CURSEG(cs, s)
    BY <1>1, <1>2, <1>4 DEF IS_CURSEC, IS_CURSEG, CurSegs
  <2>2. CASE st.cur_valid_map[s] # {}
    BY <1>1, <1>4, <2>2 DEF HasValid, SegsOf
  <2>3. CASE st.cur_valid_map[s] = {}
    <3>1. get_valid_blocks(st, s, TRUE) # 0
      BY <1>1, <1>4, <2>1, <2>3 DEF Located
    <3>. QED
      BY <1>1, <1>4, <2>3, <3>1, SectionEmpty
  <2>. QED
    BY <2>2, <2>3
<1>. QED
  BY <1>3, <1>4

CountsOK(x) ==
    SitCounts(x.sit) /\ FreeCounts(x.free) /\ SecsExact(x.free) /\ DirtyCounts(x.dirty)
ListsOK(x, U) == Lists(x.dirty, x.sit, x.curseg, U)
WaitingOK(x, U) == Waiting(x.dirty, x.sit, x.free.inuse, x.curseg, U)
SectionsOK(x, v, U) ==
    /\ Apart(x.curseg)
    /\ Victims(x.dirty.victim_secmap, x.sit, x.curseg, U)
    /\ VictimOK(v, x.curseg, x.free)

(* d is a list that segment s has left.                                    *)
LeftBy(d0, d, s) ==
    /\ d \in DirtyType /\ DirtyCounts(d) /\ SameBut(d0, d, s)
    /\ s \notin d.dirty_segmap["DIRTY"] /\ \A k \in AllLogs : s \notin d.dirty_segmap[k]
    /\ d.victim_secmap \subseteq d0.victim_secmap

(* What the move of log t to segment s keeps: counters, lists when the     *)
(* segment that t leaves is in U, sections when the one it enters has no   *)
(* other log and is no victim.                                             *)
MoveKept(x, t, s, d, mode, off, y) ==
    /\ y \in AllocType /\ CountsOK(y)
    /\ y.dirty = d /\ y.sit.cur_valid_map = x.sit.cur_valid_map
    /\ y.free.inuse = x.free.inuse \cup {s}
    /\ y.free.inuse_sec = x.free.inuse_sec \cup {SecOf(s)}
    /\ y.curseg = [x.curseg EXCEPT ![t] =
                     [segno |-> s, next_blkoff |-> off, alloc_type |-> mode]]
    /\ \A U : x.curseg[t].segno \in U /\ ListsOK(x, U) =>
         ListsOK(y, U) /\ (WaitingOK(x, U) => WaitingOK(y, U))
    /\ \A U, v : /\ SectionsOK(x, v, U) /\ SecOf(s) \notin d.victim_secmap /\ SecOf(s) # v
                 /\ \A u \in Logs \ {t} : SecOf(s) # SecOf(x.curseg[u].segno)
                 => SectionsOK(y, v, U)

(* That holds when s has left the dirty lists.                             *)
LEMMA MoveKeeps ==
    ASSUME NEW x \in AllocType, CountsOK(x), NEW t \in Logs, NEW s \in Segs,
           NEW mode \in {"LFS", "SSR"}, NEW off \in 0 .. BlocksPerSeg,
           NEW d, LeftBy(x.dirty, d, s), NEW y, y = Moved(x, t, s, d, mode, off)
    PROVE  MoveKept(x, t, s, d, mode, off, y)
<1>. DEFINE f == __set_test_and_inuse(x.free, s)
            x0 == [x EXCEPT !.free = f, !.dirty = d]
            c == [segno |-> s, next_blkoff |-> off, alloc_type |-> mode]
<1>1. x.free \in FreeType /\ x.sit \in SitType /\ x.dirty \in DirtyType /\ x.curseg \in CursegType
  BY DEF AllocType
<1>2. /\ f \in FreeType /\ f.inuse = x.free.inuse \cup {s}
      /\ FreeCounts(f) /\ SecsExact(f) /\ f.inuse_sec = x.free.inuse_sec \cup {SecOf(s)}
  BY <1>1, SetInuse, InuseCounts DEF CountsOK
<1>3. d \in DirtyType /\ DirtyCounts(d)
  BY DEF LeftBy
<1>. HIDE DEF f
<1>4. /\ x0 \in AllocType /\ x0.sit = x.sit /\ x0.free = f /\ x0.dirty = d
      /\ x0.curseg = x.curseg
  BY <1>2, <1>3 DEF AllocType
<1>5. y = reset_curseg(x0, t, s, mode, off)
  BY Zenon DEF Moved, f
<1>. HIDE DEF x0
<1>6. ResetTo(x0, t, s, mode, off, y)
  BY <1>4, <1>5, ResetCurseg
<1>7. /\ y \in AllocType /\ y.free = f /\ y.dirty = d
      /\ y.sit.cur_valid_map = x.sit.cur_valid_map
      /\ y.sit.type = [x.sit.type EXCEPT ![s] = t]
      /\ y.sit.written_valid_blocks = x.sit.written_valid_blocks
      /\ y.sit.sec_valid_blocks = x.sit.sec_valid_blocks
      /\ y.curseg = [x.curseg EXCEPT ![t] = c]
  BY <1>4, <1>6 DEF ResetTo
<1>8. CountsOK(y)
  BY <1>2, <1>3, <1>7 DEF CountsOK, SitCounts
<1>9. y.curseg[t].segno = s /\ \A u \in Logs \ {t} : y.curseg[u].segno = x.curseg[u].segno
  BY <1>1, <1>7 DEF CursegType
<1>10. /\ "DIRTY" \in DirtyTypes /\ "PRE" \in DirtyTypes
       /\ \A k \in AllLogs : k \in DirtyTypes
  BY DEF DirtyTypes
<1>11. \A q \in Segs : q # x.curseg[t].segno /\ q # s =>
         (IS_CURSEG(y.curseg, q) <=> IS_CURSEG(x.curseg, q))
  BY <1>9 DEF IS_CURSEG, CurSegs
<1>12. IS_CURSEG(y.curseg, s)
  BY <1>9 DEF IS_CURSEG, CurSegs
<1>13. \A q \in Segs : q # s => /\ y.sit.type[q] = x.sit.type[q]
                                /\ \A k \in DirtyTypes : q \in d.dirty_segmap[k] <=> q \in x.dirty.dirty_segmap[k]
  BY <1>1, <1>7 DEF SitType, LeftBy, SameBut
<1>14. ASSUME NEW U, x.curseg[t].segno \in U, ListsOK(x, U)
       PROVE  ListsOK(y, U)
  <2>1. SUFFICES ASSUME NEW q \in Segs
                 PROVE  Listed(d, y.sit, y.curseg, q) /\ (q \notin U => Classified(d, y.sit, y.curseg, q))
    BY <1>7 DEF ListsOK, Lists
  <2>2. CASE q = s
    BY <1>12, <2>2 DEF Listed, Classified, LeftBy
  <2>3. CASE q # s
    <3>1. Listed(x.dirty, x.sit, x.curseg, q) /\ (q \notin U => Classified(x.dirty, x.sit, x.curseg, q))
      BY <1>14 DEF ListsOK, Lists
    <3>2. q \in d.dirty_segmap["DIRTY"] => ~IS_CURSEG(y.curseg, q)
      BY <1>9, <1>10, <1>13, <2>3, <3>1 DEF Listed, IS_CURSEG, CurSegs
    <3>3. Listed(d, y.sit, y.curseg, q)
      BY <1>10, <1>13, <2>3, <3>1, <3>2 DEF Listed
    <3>4. q \notin U => Classified(d, y.sit, y.curseg, q)
      BY <1>7, <1>10, <1>11, <1>13, <1>14, <2>3, <3>1 DEF Classified, Partly
    <3>. QED
      BY <3>3, <3>4
  <2>. QED
    BY <2>2, <2>3
<1>15. ASSUME NEW U, x.curseg[t].segno \in U, WaitingOK(x, U)
       PROVE  WaitingOK(y, U)
  <2>1. x.free.inuse \subseteq Segs
    BY <1>1 DEF FreeType
  <2>. QED
    BY <1>2, <1>7, <1>10, <1>11, <1>12, <1>13, <1>15, <2>1 DEF WaitingOK, Waiting
<1>16. ASSUME NEW U, NEW v, SectionsOK(x, v, U), SecOf(s) \notin d.victim_secmap, SecOf(s) # v,
              \A u \in Logs \ {t} : SecOf(s) # SecOf(x.curseg[u].segno)
       PROVE  SectionsOK(y, v, U)
  <2>1. Apart(y.curseg)
    BY <1>9, <1>16 DEF SectionsOK, Apart
  <2>2. \A k : IS_CURSEC(y.curseg, k) => IS_CURSEC(x.curseg, k) \/ k = SecOf(s)
    BY <1>9 DEF IS_CURSEC
  <2>3. Victims(d.victim_secmap, y.sit, y.curseg, U)
    BY <1>7, <1>16, <2>2 DEF SectionsOK, Victims, LeftBy, HasValid
  <2>4. VictimOK(v, y.curseg, y.free)
    BY <1>2, <1>7, <1>16, <2>2 DEF SectionsOK, VictimOK
  <2>. QED
    BY <1>7, <2>1, <2>3, <2>4 DEF SectionsOK
<1>. HIDE DEF c
<1>17. /\ y.dirty = d /\ y.sit.cur_valid_map = x.sit.cur_valid_map
       /\ y.free.inuse = x.free.inuse \cup {s}
       /\ y.free.inuse_sec = x.free.inuse_sec \cup {SecOf(s)}
  BY <1>2, <1>7
<1>. QED
  BY <1>7, <1>8, <1>14, <1>15, <1>16, <1>17 DEF c, MoveKept

(* change_curseg is such a move.                                           *)
LEMMA ChangeIsMove ==
    ASSUME NEW x \in AllocType, EntriesOK(x.sit), CountsOK(x), NEW t \in Logs, NEW s \in Segs,
           Listed(x.dirty, x.sit, x.curseg, s), NEW y, y = change_curseg(x, t, s)
    PROVE  \E d, off : /\ LeftBy(x.dirty, d, s) /\ off \in 0 .. BlocksPerSeg
                       /\ y = Moved(x, t, s, d, "SSR", off)
<1>. DEFINE d1 == __remove_dirty_segment(x.dirty, x.sit, s, "PRE")
            d2 == __remove_dirty_segment(d1, x.sit, s, "DIRTY")
            off == __next_free_blkoff(x.sit, s, 0)
            k0 == x.sit.type[s]
<1>1. x.sit \in SitType /\ x.dirty \in DirtyType /\ DirtyCounts(x.dirty)
  BY DEF AllocType, CountsOK
<1>2. /\ "DIRTY" \in DirtyTypes /\ "PRE" \in DirtyTypes
      /\ \A k \in AllLogs : k \in DirtyTypes /\ k # "PRE" /\ k # "DIRTY"
  BY DEF DirtyTypes, AllLogs, DataLogs, NodeLogs
<1>3. off \in 0 .. BlocksPerSeg
  BY <1>1, NextHole
<1>4. y = Moved(x, t, s, d2, "SSR", off)
  BY Zenon DEF change_curseg, Moved
<1>5. Dropped(x.dirty, s, "PRE", d1)
  <2>1. d1 = DropDirty(x.dirty, s, "PRE")
    BY DEF __remove_dirty_segment
  <2>. HIDE DEF d1
  <2>. QED
    BY <1>1, <1>2, <2>1, DropIs
<1>. HIDE DEF d1
<1>6. d1 \in DirtyType /\ DirtyCounts(d1)
  BY <1>5 DEF Dropped
<1>7. /\ d2 \in DirtyType /\ DirtyCounts(d2) /\ d2.victim_secmap = VictimsLeft(d1, x.sit, s)
      /\ \A q \in Segs, k \in DirtyTypes :
           q \in d2.dirty_segmap[k] <=> /\ q \in d1.dirty_segmap[k]
                                        /\ ~(q = s /\ k \in {"DIRTY", x.sit.type[s]})
  BY <1>1, <1>6, RemoveIs
<1>. HIDE DEF d2, off
<1>8. d2.victim_secmap \subseteq x.dirty.victim_secmap
  BY <1>5, <1>7 DEF Dropped, VictimsLeft
<1>9. SameBut(x.dirty, d2, s)
  BY <1>5, <1>7 DEF Dropped, SameBut
<1>10. s \notin d2.dirty_segmap["DIRTY"]
  BY <1>2, <1>7
<1>11. \A k \in AllLogs : s \notin d2.dirty_segmap[k]
  BY <1>2, <1>5, <1>7 DEF Dropped, Listed
<1>12. LeftBy(x.dirty, d2, s)
  BY <1>7, <1>8, <1>9, <1>10, <1>11 DEF LeftBy
<1>. QED
  BY <1>3, <1>4, <1>12

(* new_curseg is one to a free segment, in the log's section or in a free  *)
(* one.                                                                    *)
LEMMA NewIsMove ==
    ASSUME NEW x \in AllocType, FreeOK(x.free, x.sit), NEW t \in Logs,
           CanGetNewSegment(x.free, __get_next_segno(x.curseg, t), FALSE),
           NEW y, y = new_curseg(x, t, FALSE)
    PROVE  \E s \in Segs \ x.free.inuse :
             /\ SecOf(s) \notin x.free.inuse_sec \/ SecOf(s) = SecOf(x.curseg[t].segno)
             /\ y = Moved(x, t, s, x.dirty, "LFS", 0)
<1>. DEFINE dir == IF t \in {"WARM_DATA", "COLD_DATA"} THEN "RIGHT" ELSE "LEFT"
            hint == __get_next_segno(x.curseg, t)
            s == get_new_segment(x.free, x.curseg, hint, FALSE, dir)
            rest == {q \in SegsOf(SecOf(hint)) \ x.free.inuse : q > hint}
            sec == NewSection(x.free, x.curseg, hint, dir)
<1>1. x.curseg \in CursegType /\ x.free \in FreeType
  BY DEF AllocType
<1>2. hint \in Segs /\ (SegsPerSec # 1 => hint = x.curseg[t].segno)
  BY <1>1, SizesAssumption DEF __get_next_segno, CursegType, Segs
<1>3. s \in Segs \ x.free.inuse
  BY <1>1, <1>2, NewSegmentIsFree DEF FreeOK
<1>4. y = reset_curseg([x EXCEPT !.free = __set_test_and_inuse(@, s)], t, s, "LFS", 0)
  BY Zenon DEF new_curseg
<1>5. s = IF rest # {} THEN Min(rest) ELSE FirstSeg(sec)
  BY Zenon DEF get_new_segment
<1>6. rest # {} \/ FreeSecs(x.free) # {}
  BY DEF CanGetNewSegment
<1>. HIDE DEF s, hint, dir
<1>7. [x EXCEPT !.free = __set_test_and_inuse(@, s)]
        = [x EXCEPT !.free = __set_test_and_inuse(@, s), !.dirty = x.dirty]
  BY DEF AllocType
<1>8. y = Moved(x, t, s, x.dirty, "LFS", 0)
  BY <1>4, <1>7, Zenon DEF Moved
<1>9. CASE rest # {}
  <2>1. rest \in SUBSET Nat
    BY DEF SegsOf, Segs
  <2>2. Min(rest) \in rest
    BY <1>9, <2>1, MinIsLeast
  <2>3. SecOf(s) = SecOf(hint) /\ s > hint
    BY <1>5, <1>9, <2>2 DEF SegsOf
  <2>4. SegsPerSec # 1
    BY <1>2, <1>3, <2>3 DEF SecOf, Segs
  <2>5. SecOf(s) = SecOf(x.curseg[t].segno)
    BY <1>2, <2>3, <2>4
  <2>. QED
    BY <1>3, <1>8, <2>5
<1>10. CASE rest = {}
  <2>1. sec \in FreeSecs(x.free)
    BY <1>1, <1>6, <1>10, PickedSecIsFree DEF NewSection
  <2>2. s = FirstSeg(sec)
    BY <1>5, <1>10
  <2>. HIDE DEF sec
  <2>3. SegsOf(sec) \in SUBSET Nat /\ SegsOf(sec) # {}
    BY <2>1 DEF SegsOf, FreeSecs, Secs, Segs
  <2>4. FirstSeg(sec) \in SegsOf(sec)
    BY <2>3, MinIsLeast DEF FirstSeg
  <2>5. SecOf(s) \notin x.free.inuse_sec
    BY <2>1, <2>2, <2>4 DEF SegsOf, FreeSecs
  <2>. QED
    BY <1>3, <1>8, <2>5
<1>. QED
  BY <1>9, <1>10

(* The section of an SSR victim has no log and is no victim of GC.         *)
LEMMA SsrSection ==
    ASSUME NEW x \in AllocType, NEW v, NEW t \in Logs, NEW s \in get_ssr_segment(x, v, t)
    PROVE  /\ s \in Segs /\ ~IS_CURSEC(x.curseg, SecOf(s))
           /\ SecOf(s) # v /\ SecOf(s) \notin x.dirty.victim_secmap
<1>1. ASSUME NEW i \in 1 .. 3 PROVE SsrOrder(t)[i] \in DirtyTypes
  BY LogsAssumption DEF SsrOrder, DirtyTypes, AllLogs, DataLogs, NodeLogs
<1>2. PICK i \in 1 .. 3 : s \in SsrVictims(x, v, SsrOrder(t)[i])
  BY DEF get_ssr_segment
<1>. DEFINE k == SsrOrder(t)[i]
<1>. HIDE DEF k
<1>3. k \in DirtyTypes /\ s \in SsrVictims(x, v, k)
  BY <1>1, <1>2 DEF k
<1>4. /\ s \in x.dirty.dirty_segmap[k]
      /\ ~IS_CURSEC(x.curseg, SecOf(s))
      /\ SecOf(s) # v /\ SecOf(s) \notin x.dirty.victim_secmap
  BY <1>3 DEF SsrVictims, sec_usage_check
<1>. QED
  BY <1>3, <1>4 DEF AllocType, DirtyType

OrderOK(x, v, U) == CountsOK(x) /\ ListsOK(x, U) /\ SectionsOK(x, v, U)

(* allocate_segment_by_default keeps counters, lists and sections.         *)
LEMMA AllocateKeepsOrder ==
    ASSUME NEW x, NEW t \in Logs, AllocOK(x, Logs \ {t}), NEW v,
           NEW U \in SUBSET x.free.inuse, x.curseg[t].segno \in U, OrderOK(x, v, U), WaitingOK(x, U),
           NEW reserve, NEW y \in allocate_segment_by_default(x, v, t, FALSE, reserve)
    PROVE  OrderOK(y, v, U) /\ WaitingOK(y, U)
<1>1. /\ x \in AllocType /\ EntriesOK(x.sit) /\ FreeOK(x.free, x.sit)
      /\ x.free \in FreeType /\ x.curseg \in CursegType /\ x.dirty \in DirtyType
      /\ x.free.inuse \subseteq Segs
      /\ CountsOK(x) /\ ListsOK(x, U) /\ WaitingOK(x, U) /\ SectionsOK(x, v, U)
  BY DEF AllocOK, AllocType, FreeType, OrderOK
<1>2. \/ y \in {change_curseg(x, t, s) : s \in get_ssr_segment(x, v, t)}
      \/ /\ CanGetNewSegment(x.free, __get_next_segno(x.curseg, t), FALSE)
         /\ y = new_curseg(x, t, FALSE)
  BY DEF allocate_segment_by_default
<1>3. CASE y \in {change_curseg(x, t, s) : s \in get_ssr_segment(x, v, t)}
  <2>1. PICK s \in get_ssr_segment(x, v, t) : y = change_curseg(x, t, s)
    BY <1>3
  <2>2. /\ s \in Segs /\ ~IS_CURSEC(x.curseg, SecOf(s))
        /\ SecOf(s) # v /\ SecOf(s) \notin x.dirty.victim_secmap
    BY <1>1, SsrSection
  <2>3. Listed(x.dirty, x.sit, x.curseg, s)
    BY <1>1, <2>2 DEF ListsOK, Lists
  <2>4. PICK d, off : /\ LeftBy(x.dirty, d, s) /\ off \in 0 .. BlocksPerSeg
                      /\ y = Moved(x, t, s, d, "SSR", off)
    BY <1>1, <2>1, <2>2, <2>3, ChangeIsMove
  <2>5. /\ CountsOK(y)
        /\ ListsOK(x, U) => ListsOK(y, U) /\ (WaitingOK(x, U) => WaitingOK(y, U))
        /\ /\ SectionsOK(x, v, U) /\ SecOf(s) \notin d.victim_secmap /\ SecOf(s) # v
           /\ \A u \in Logs \ {t} : SecOf(s) # SecOf(x.curseg[u].segno)
           => SectionsOK(y, v, U)
    <3>1. MoveKept(x, t, s, d, "SSR", off, y)
      BY <1>1, <2>2, <2>4, MoveKeeps
    <3>. QED
      BY <3>1 DEF MoveKept
  <2>6. SecOf(s) \notin d.victim_secmap /\ \A u \in Logs \ {t} : SecOf(s) # SecOf(x.curseg[u].segno)
    BY <2>2, <2>4 DEF LeftBy, IS_CURSEC
  <2>. QED
    BY <1>1, <2>2, <2>5, <2>6 DEF OrderOK
<1>4. CASE /\ CanGetNewSegment(x.free, __get_next_segno(x.curseg, t), FALSE)
           /\ y = new_curseg(x, t, FALSE)
  <2>1. PICK s \in Segs \ x.free.inuse :
          /\ SecOf(s) \notin x.free.inuse_sec \/ SecOf(s) = SecOf(x.curseg[t].segno)
          /\ y = Moved(x, t, s, x.dirty, "LFS", 0)
    BY <1>1, <1>4, NewIsMove
  <2>2. s \in Segs /\ s \notin x.free.inuse
    OBVIOUS
  <2>7. LeftBy(x.dirty, x.dirty, s)
    <3>1. x.sit.cur_valid_map[s] = {} /\ s \notin U
      BY <1>1, <2>2 DEF FreeOK
    <3>2. Listed(x.dirty, x.sit, x.curseg, s) /\ Classified(x.dirty, x.sit, x.curseg, s)
      BY <1>1, <2>2, <3>1 DEF ListsOK, Lists
    <3>3. s \notin x.dirty.dirty_segmap["DIRTY"] /\ \A k \in AllLogs : s \notin x.dirty.dirty_segmap[k]
      BY <3>1, <3>2 DEF Listed, Classified, Partly
    <3>. QED
      BY <1>1, <3>3 DEF LeftBy, SameBut, CountsOK
  <2>8. 0 \in 0 .. BlocksPerSeg
    BY SizesAssumption
  <2>9. /\ CountsOK(y)
        /\ ListsOK(x, U) => ListsOK(y, U) /\ (WaitingOK(x, U) => WaitingOK(y, U))
        /\ /\ SectionsOK(x, v, U) /\ SecOf(s) \notin x.dirty.victim_secmap /\ SecOf(s) # v
           /\ \A u \in Logs \ {t} : SecOf(s) # SecOf(x.curseg[u].segno)
           => SectionsOK(y, v, U)
    <3>1. MoveKept(x, t, s, x.dirty, "LFS", 0, y)
      BY <1>1, <2>2, <2>1, <2>7, <2>8, MoveKeeps
    <3>. QED
      BY <3>1 DEF MoveKept
  <2>10. \A q \in x.free.inuse : SecOf(q) \in x.free.inuse_sec
    BY <1>1 DEF FreeOK
  <2>12. SecOf(s) \notin x.dirty.victim_secmap
    <3>1. SUFFICES ASSUME SecOf(s) \in x.dirty.victim_secmap PROVE FALSE
      OBVIOUS
    <3>2. /\ ~IS_CURSEC(x.curseg, SecOf(s))
          /\ HasValid(x.sit, SecOf(s)) \/ \E u \in U : SecOf(u) = SecOf(s)
      BY <1>1, <3>1 DEF SectionsOK, Victims
    <3>3. SecOf(s) \notin x.free.inuse_sec
      BY <2>1, <3>2 DEF IS_CURSEC
    <3>4. ~HasValid(x.sit, SecOf(s))
      BY <1>1, <2>10, <3>3 DEF HasValid, SegsOf, FreeOK
    <3>. QED
      BY <2>10, <3>2, <3>3, <3>4
  <2>13. SecOf(s) # v
    <3>1. SecOf(s) \in Nat
      BY <2>2, SecsAreNumbers
    <3>2. v # NULL_SECNO => v \in x.free.inuse_sec /\ v # SecOf(x.curseg[t].segno)
      BY <1>1 DEF SectionsOK, VictimOK, IS_CURSEC
    <3>. QED
      BY <2>1, <3>1, <3>2, EnvAssumption
  <2>14. ASSUME NEW u \in Logs \ {t} PROVE SecOf(s) # SecOf(x.curseg[u].segno)
    <3>1. x.curseg[u].segno \in x.free.inuse
      BY DEF AllocOK, LogsOK
    <3>2. SecOf(x.curseg[u].segno) # SecOf(x.curseg[t].segno)
      BY <1>1 DEF SectionsOK, Apart
    <3>. QED
      BY <2>1, <2>10, <3>1, <3>2
  <2>. QED
    BY <1>1, <2>9, <2>12, <2>13, <2>14 DEF OrderOK
<1>. QED
  BY <1>2, <1>3, <1>4

(* update_sit_entry changes the map of one segment only.                   *)
TouchedOnly(st, b, r) ==
    /\ r \in SitType /\ SitCounts(r) /\ r.type = st.type
    /\ \A q \in Segs : q # b[1] => r.cur_valid_map[q] = st.cur_valid_map[q]
(* That is so whatever the bit was before.                                 *)
LEMMA UpdateElsewhere ==
    ASSUME NEW st \in SitType, SitCounts(st), NEW b \in Blocks, NEW del \in {1, -1},
           NEW r, r = update_sit_entry(st, b, del)
    PROVE  TouchedOnly(st, b, r)
<1>1. b[1] \in Segs /\ b[2] \in Offs /\ SecOf(b[1]) \in Secs
  BY SecsAreNumbers DEF Blocks
<1>. DEFINE keep == KeepNodeChain(st, b[1], del)
            d == IF (del > 0) = (b[2] \in st.cur_valid_map[b[1]]) THEN 0 ELSE del
            gain == CkptDelta(st, b[1], b[2], keep, d)
<1>2. d \in Int /\ gain \in Int
  BY DEF CkptDelta
<1>3. r = [type |-> st.type,
           valid_blocks |-> [st.valid_blocks EXCEPT ![b[1]] = @ + d],
           ckpt_valid_blocks |-> [st.ckpt_valid_blocks EXCEPT ![b[1]] = @ + gain],
           cur_valid_map |-> [st.cur_valid_map EXCEPT ![b[1]] =
                                IF del > 0 THEN @ \cup {b[2]} ELSE @ \ {b[2]}],
           ckpt_valid_map |-> [st.ckpt_valid_map EXCEPT ![b[1]] = IF keep THEN @ \cup {b[2]} ELSE @],
           dirty_sentries |-> st.dirty_sentries \cup {b[1]},
           written_valid_blocks |-> st.written_valid_blocks + d,
           sec_valid_blocks |-> [st.sec_valid_blocks EXCEPT ![SecOf(b[1])] =
                                   IF SegsPerSec > 1 THEN @ + d ELSE @]]
  BY Zenon DEF update_sit_entry
<1>. HIDE DEF d, gain, keep
<1>4. r \in SitType /\ r.type = st.type
      /\ \A q \in Segs : q # b[1] => r.cur_valid_map[q] = st.cur_valid_map[q]
  BY <1>1, <1>2, <1>3 DEF SitType
<1>. QED
  BY <1>4, UpdateCounts DEF TouchedOnly

(* A write changes the maps of the segments of new and old only.           *)
LEMMA WrittenElsewhere ==
    ASSUME NEW st \in SitType, SitCounts(st), NEW t, NEW new \in Blocks,
           NEW old, old = NULL_ADDR \/ old \in Blocks,
           NEW r, r = Written(st, t, new, old)
    PROVE  /\ r \in SitType /\ SitCounts(r) /\ r.type = st.type
           /\ \A q \in Segs : q # new[1] /\ (old # NULL_ADDR => q # old[1])
                               => r.cur_valid_map[q] = st.cur_valid_map[q]
<1>. DEFINE st1 == update_sit_entry(st, new, 1)
<1>1. /\ st1 \in SitType /\ SitCounts(st1) /\ st1.type = st.type
      /\ \A q \in Segs : q # new[1] => st1.cur_valid_map[q] = st.cur_valid_map[q]
  <2>1. TouchedOnly(st, new, st1)
    BY UpdateElsewhere
  <2>. QED
    BY <2>1 DEF TouchedOnly
<1>. HIDE DEF st1
<1>2. CASE old = NULL_ADDR
  <2>1. r = st1
    BY <1>2 DEF Written, InvalidateOld, st1
  <2>. QED
    BY <1>1, <2>1
<1>3. CASE old # NULL_ADDR
  <2>1. r = update_sit_entry(st1, old, -1) /\ old \in Blocks
    BY <1>3, Zenon DEF Written, InvalidateOld, st1
  <2>2. /\ r \in SitType /\ SitCounts(r) /\ r.type = st1.type
        /\ \A q \in Segs : q # old[1] => r.cur_valid_map[q] = st1.cur_valid_map[q]
    <3>1. TouchedOnly(st1, old, r)
      BY <1>1, <2>1, UpdateElsewhere
    <3>. QED
      BY <3>1 DEF TouchedOnly
  <2>. QED
    BY <1>1, <1>3, <2>2
<1>. QED
  BY <1>2, <1>3

(* After the maps of the segments of U have changed, those segments have   *)
(* to be classified again, and nothing else.                               *)
LEMMA TouchKeeps ==
    ASSUME NEW x, NEW y, NEW v, NEW U,
           y.free = x.free, y.dirty = x.dirty, y.sit.type = x.sit.type, SitCounts(y.sit),
           \A q \in Segs : q \notin U => y.sit.cur_valid_map[q] = x.sit.cur_valid_map[q],
           \A u \in Logs : y.curseg[u].segno = x.curseg[u].segno,
           x.free.inuse \subseteq Segs,
           OrderOK(x, v, {})
    PROVE  OrderOK(y, v, U) /\ (WaitingOK(x, {}) => WaitingOK(y, U))
<1>1. /\ \A q : IS_CURSEG(y.curseg, q) <=> IS_CURSEG(x.curseg, q)
      /\ \A c : IS_CURSEC(y.curseg, c) <=> IS_CURSEC(x.curseg, c)
  BY DEF IS_CURSEG, CurSegs, IS_CURSEC
<1>2. CountsOK(y)
  BY DEF OrderOK, CountsOK
<1>3. ListsOK(y, U)
  BY <1>1 DEF OrderOK, ListsOK, Lists, Listed, Classified, Partly
<1>4. WaitingOK(x, {}) => WaitingOK(y, U)
  BY <1>1 DEF WaitingOK, Waiting
<1>5. SectionsOK(y, v, U)
  <2>1. \A c : HasValid(x.sit, c) => HasValid(y.sit, c) \/ \E u \in U : SecOf(u) = c
    BY DEF HasValid, SegsOf
  <2>2. Apart(y.curseg)
    BY DEF OrderOK, SectionsOK, Apart
  <2>3. Victims(y.dirty.victim_secmap, y.sit, y.curseg, U)
    BY <1>1, <2>1 DEF OrderOK, SectionsOK, Victims
  <2>4. VictimOK(v, y.curseg, y.free)
    BY <1>1 DEF OrderOK, SectionsOK, VictimOK
  <2>. QED
    BY <2>2, <2>3, <2>4 DEF SectionsOK
<1>. QED
  BY <1>2, <1>3, <1>4, <1>5 DEF OrderOK

(* What is left to classify after locate_dirty_segment of s.               *)
OrderLocated(x, v, U, s, y) ==
    /\ y \in AllocType /\ y.sit = x.sit /\ y.free = x.free /\ y.curseg = x.curseg
    /\ y.dirty = locate_dirty_segment(x.dirty, x.sit, x.curseg, s)
    /\ y.dirty.victim_secmap \subseteq x.dirty.victim_secmap
    /\ OrderOK(y, v, U \ {s}) /\ (WaitingOK(x, U) => WaitingOK(y, U \ {s}))

(* locate_dirty_segment classifies one segment of U.                       *)
LEMMA LocateKeepsOrder ==
    ASSUME NEW x \in AllocType, EntriesOK(x.sit), NEW v, NEW U, OrderOK(x, v, U), NEW s \in Segs,
           NEW y, y = State(x.sit, x.free, locate_dirty_segment(x.dirty, x.sit, x.curseg, s), x.curseg)
    PROVE  OrderLocated(x, v, U, s, y)
<1>. DEFINE r == locate_dirty_segment(x.dirty, x.sit, x.curseg, s)
<1>1. /\ x.sit \in SitType /\ x.free \in FreeType /\ x.dirty \in DirtyType
      /\ x.curseg \in CursegType /\ x.free.inuse \in SUBSET Segs
      /\ DirtyCounts(x.dirty) /\ SitCounts(x.sit) /\ FreeCounts(x.free) /\ SecsExact(x.free)
      /\ Lists(x.dirty, x.sit, x.curseg, U) /\ Apart(x.curseg)
      /\ Victims(x.dirty.victim_secmap, x.sit, x.curseg, U) /\ VictimOK(v, x.curseg, x.free)
  BY DEF AllocType, FreeType, OrderOK, CountsOK, ListsOK, SectionsOK
<1>2. Located(x.dirty, x.sit, x.curseg, s, r)
  BY <1>1, LocateIs
<1>. HIDE DEF r
<1>3. r \in DirtyType /\ DirtyCounts(r) /\ r.victim_secmap \subseteq x.dirty.victim_secmap
  BY <1>2 DEF Located
<1>4. y \in AllocType /\ y.sit = x.sit /\ y.free = x.free /\ y.curseg = x.curseg /\ y.dirty = r
  BY <1>1, <1>3 DEF State, AllocType, r
<1>5. /\ Lists(r, x.sit, x.curseg, U \ {s})
      /\ \A I \in SUBSET Segs : Waiting(x.dirty, x.sit, I, x.curseg, U)
                                  => Waiting(r, x.sit, I, x.curseg, U \ {s})
  BY <1>1, <1>2, LocateLists
<1>6. Victims(r.victim_secmap, x.sit, x.curseg, U \ {s})
  BY <1>1, <1>2, LocateVictims
<1>7. OrderOK(y, v, U \ {s})
  BY <1>1, <1>3, <1>4, <1>5, <1>6, Zenon DEF OrderOK, CountsOK, ListsOK, SectionsOK
<1>8. WaitingOK(x, U) => WaitingOK(y, U \ {s})
  BY <1>1, <1>4, <1>5, Zenon DEF WaitingOK
<1>. QED
  BY <1>3, <1>4, <1>7, <1>8 DEF r, OrderLocated

----------------------------------------------------------------------------
(* Every step keeps the counters, lists and sections                       *)

(* Every segment is classified; while no checkpoint has failed, an empty   *)
(* segment in use waits in the prefree list, and none is in use from       *)
(* flush_sit_entries until the list is cleared.                            *)
ListInv ==
    /\ OrderOK(Present, cur_victim_sec, {})
    /\ ~cp_error => /\ WaitingOK(Present, {})
                    /\ ~Writing => \A q \in free.inuse :
                         IS_CURSEG(curseg, q) \/ sit.cur_valid_map[q] # {}
    /\ Apart(disk.curseg)

(* The fields of the present structs.                                      *)
LEMMA PresentFields ==
    /\ Present.sit = sit /\ Present.free = free
    /\ Present.dirty = dirty /\ Present.curseg = curseg
BY DEF Present, State

(* A step that leaves structs in order keeps the invariant.                *)
LEMMA OrderlyStep ==
    ASSUME ListInv, NEW z, sit' = z.sit, free' = z.free, dirty' = z.dirty, curseg' = z.curseg,
           OrderOK(z, cur_victim_sec', {}), ~cp_error' => Writing' /\ WaitingOK(z, {}),
           disk' = disk
    PROVE  ListInv'
<1>1. /\ Present'.sit = z.sit /\ Present'.free = z.free
      /\ Present'.dirty = z.dirty /\ Present'.curseg = z.curseg
  BY DEF Present, State
<1>2. OrderOK(Present', cur_victim_sec', {})
  BY <1>1, Zenon DEF OrderOK, CountsOK, ListsOK, SectionsOK
<1>3. WaitingOK(z, {}) => WaitingOK(Present', {})
  BY <1>1, Zenon DEF WaitingOK
<1>4. Apart(disk.curseg)'
  BY DEF ListInv
<1>. QED
  BY <1>2, <1>3, <1>4 DEF ListInv

(* allocate_data_block: the segments of the new and the old block are      *)
(* touched, then classified.                                               *)
LEMMA AllocateKeepsLists ==
    ASSUME IndInv, ListInv, NEW t \in Logs, NEW reserve,
           NEW old \in OldBlocks(t) \cup {NULL_ADDR}, allocate_data_block(t, old, reserve)
    PROVE  ListInv'
<1>. DEFINE new == NextFree(t)
            x == Wrote(t, old)
            v == cur_victim_sec
            U == IF old = NULL_ADDR THEN {new[1]} ELSE {new[1], old[1]}
            U1 == IF old = NULL_ADDR THEN U ELSE U \ {old[1]}
<1>1. /\ Writing /\ ~cp_error /\ UNCHANGED <<cur_victim_sec, cp_phase, cp_error, disk>>
      /\ \/ old = NULL_ADDR
         \/ old \in Blocks /\ old[1] \in Segs /\ old[1] \in free.inuse
  BY AllocateFacts
<1>2. PICK y : Allocated(t, old, reserve, y)
  BY AllocateFacts
<1>3. /\ sit' = y.sit /\ free' = y.free /\ curseg' = y.curseg
      /\ dirty' = locate_dirty_segment(LocateOld(y.dirty, y.sit, y.curseg, old),
                                       y.sit, y.curseg, new[1])
      /\ AllocOK(x, Logs \ {t}) /\ AllocOK(y, Logs)
      /\ new \in Blocks /\ new[1] \in free.inuse
      /\ y = x \/ y \in allocate_segment_by_default(x, v, t, FALSE, reserve)
  BY <1>2, Zenon DEF Allocated
<1>4. new[1] \in Segs /\ new[1] = curseg[t].segno
  BY <1>3 DEF Blocks, NextFree
<1>5. /\ sit \in SitType /\ free.inuse \subseteq Segs /\ curseg \in CursegType
  BY DEF IndInv, TypeOK, FreeType
<1>6. /\ OrderOK(Present, v, {}) /\ WaitingOK(Present, {}) /\ SitCounts(sit)
  BY <1>1, PresentFields DEF ListInv, OrderOK, CountsOK
<1>7. /\ x.free = free /\ x.dirty = dirty /\ x.sit = Written(sit, t, new, old)
      /\ \A u \in Logs : x.curseg[u].segno = curseg[u].segno
  BY <1>5 DEF Wrote, State, CursegType
<1>8. /\ x.sit.type = sit.type /\ SitCounts(x.sit)
      /\ \A q \in Segs : q # new[1] /\ (old # NULL_ADDR => q # old[1])
                          => x.sit.cur_valid_map[q] = sit.cur_valid_map[q]
  BY <1>1, <1>3, <1>5, <1>6, <1>7, WrittenElsewhere
<1>. HIDE DEF x, new, v
<1>9. \A q \in Segs : q \notin U => x.sit.cur_valid_map[q] = sit.cur_valid_map[q]
  BY <1>8
<1>10. /\ U \in SUBSET x.free.inuse /\ x.curseg[t].segno \in U /\ U1 \ {new[1]} = {}
       /\ old = NULL_ADDR => U1 = U
       /\ old # NULL_ADDR => U1 = U \ {old[1]}
  BY <1>1, <1>3, <1>4, <1>7
<1>. HIDE DEF U, U1
<1>11. OrderOK(x, v, U) /\ WaitingOK(x, U)
  BY <1>5, <1>6, <1>7, <1>8, <1>9, TouchKeeps, PresentFields
<1>12. OrderOK(y, v, U) /\ WaitingOK(y, U)
  <2>1. CASE y = x
    BY <1>11, <2>1
  <2>2. CASE y \in allocate_segment_by_default(x, v, t, FALSE, reserve)
    BY <1>3, <1>10, <1>11, <2>2, AllocateKeepsOrder
  <2>. QED
    BY <1>3, <2>1, <2>2
<1>13. y \in AllocType /\ EntriesOK(y.sit)
  BY <1>3 DEF AllocOK
<1>. DEFINE z1 == State(y.sit, y.free, LocateOld(y.dirty, y.sit, y.curseg, old), y.curseg)
            z2 == State(z1.sit, z1.free, locate_dirty_segment(z1.dirty, z1.sit, z1.curseg, new[1]), z1.curseg)
<1>14. /\ z1 \in AllocType /\ z1.sit = y.sit /\ z1.free = y.free /\ z1.curseg = y.curseg
       /\ z1.dirty = LocateOld(y.dirty, y.sit, y.curseg, old)
       /\ OrderOK(z1, v, U1) /\ WaitingOK(z1, U1)
  <2>1. CASE old = NULL_ADDR
    <3>1. z1 = y
      BY <1>13, <2>1 DEF AllocType, State, LocateOld
    <3>. QED
      BY <1>10, <1>12, <1>13, <2>1, <3>1 DEF LocateOld
  <2>2. CASE old # NULL_ADDR
    <3>1. LocateOld(y.dirty, y.sit, y.curseg, old) = locate_dirty_segment(y.dirty, y.sit, y.curseg, old[1])
      BY <2>2 DEF LocateOld
    <3>2. z1 = State(y.sit, y.free, locate_dirty_segment(y.dirty, y.sit, y.curseg, old[1]), y.curseg)
      BY <3>1
    <3>. HIDE DEF z1
    <3>3. /\ z1 \in AllocType /\ z1.sit = y.sit /\ z1.free = y.free /\ z1.curseg = y.curseg
          /\ z1.dirty = locate_dirty_segment(y.dirty, y.sit, y.curseg, old[1])
          /\ OrderOK(z1, v, U \ {old[1]})
          /\ WaitingOK(y, U) => WaitingOK(z1, U \ {old[1]})
      <4>1. OrderLocated(y, v, U, old[1], z1)
        BY <1>1, <1>12, <1>13, <2>2, <3>2, LocateKeepsOrder
      <4>. QED
        BY <4>1 DEF OrderLocated
    <3>. QED
      BY <1>10, <1>12, <2>2, <3>1, <3>3
  <2>. QED
    BY <2>1, <2>2
<1>. HIDE DEF z1
<1>15. /\ z2.sit = z1.sit /\ z2.free = z1.free /\ z2.curseg = z1.curseg
       /\ z2.dirty = locate_dirty_segment(z1.dirty, z1.sit, z1.curseg, new[1])
       /\ OrderOK(z2, v, U1 \ {new[1]})
       /\ WaitingOK(z1, U1) => WaitingOK(z2, U1 \ {new[1]})
  <2>1. EntriesOK(z1.sit)
    BY <1>13, <1>14
  <2>2. OrderLocated(z1, v, U1, new[1], z2)
    BY <1>4, <1>14, <2>1, LocateKeepsOrder
  <2>. QED
    BY <2>2 DEF OrderLocated
<1>. HIDE DEF z2
<1>16. sit' = z2.sit /\ free' = z2.free /\ curseg' = z2.curseg /\ dirty' = z2.dirty
  BY <1>3, <1>14, <1>15, Zenon
<1>17. OrderOK(z2, v, {}) /\ WaitingOK(z2, {})
  BY <1>10, <1>14, <1>15
<1>18. cur_victim_sec' = v /\ disk' = disk /\ Writing'
  BY <1>1 DEF v, Writing
<1>. QED
  BY <1>16, <1>17, <1>18, OrderlyStep

(* invalidate_blocks: one segment is touched and classified.               *)
LEMMA InvalidateKeepsLists ==
    ASSUME IndInv, ListInv, NEW b \in ValidBlocks, invalidate_blocks(b)
    PROVE  ListInv'
<1>1. /\ Writing /\ sit' = update_sit_entry(sit, b, -1)
      /\ dirty' = locate_dirty_segment(dirty, sit', curseg, b[1])
      /\ UNCHANGED <<free, cur_victim_sec, curseg, cp_phase, cp_error, disk, chain>>
  BY DEF invalidate_blocks
<1>2. b \in Blocks /\ b[1] \in Segs /\ b[2] \in sit.cur_valid_map[b[1]]
  BY ValidBlocksInUse
<1>3. /\ sit \in SitType /\ EntriesOK(sit) /\ free \in FreeType /\ dirty \in DirtyType
      /\ curseg \in CursegType /\ free.inuse \subseteq Segs
  BY DEF IndInv, TypeOK, FreeType
<1>4. OrderOK(Present, cur_victim_sec, {}) /\ (~cp_error => WaitingOK(Present, {})) /\ SitCounts(sit)
  BY PresentFields DEF ListInv, OrderOK, CountsOK
<1>5. sit' \in SitType /\ EntriesOK(sit')
  <2>1. Updated(sit, b, -1, sit')
    BY <1>1, <1>2, <1>3, UpdateSit
  <2>. QED
    BY <2>1 DEF Updated
<1>6. TouchedOnly(sit, b, sit')
  BY <1>1, <1>2, <1>3, <1>4, UpdateElsewhere
<1>. DEFINE x == State(sit', free, dirty, curseg)
            z == State(x.sit, x.free, locate_dirty_segment(x.dirty, x.sit, x.curseg, b[1]), x.curseg)
<1>7. x \in AllocType /\ x.sit = sit' /\ x.free = free /\ x.dirty = dirty /\ x.curseg = curseg
  BY <1>3, <1>5 DEF State, AllocType
<1>. HIDE DEF x
<1>8. \A q \in Segs : q \notin {b[1]} => x.sit.cur_valid_map[q] = sit.cur_valid_map[q]
  BY <1>6, <1>7 DEF TouchedOnly
<1>9. x.sit.type = sit.type /\ SitCounts(x.sit)
  BY <1>6, <1>7 DEF TouchedOnly
<1>10. OrderOK(x, cur_victim_sec, {b[1]}) /\ (WaitingOK(Present, {}) => WaitingOK(x, {b[1]}))
  BY <1>3, <1>4, <1>7, <1>8, <1>9, TouchKeeps, PresentFields
<1>11. /\ z.sit = x.sit /\ z.free = x.free /\ z.curseg = x.curseg
       /\ z.dirty = locate_dirty_segment(x.dirty, x.sit, x.curseg, b[1])
       /\ OrderOK(z, cur_victim_sec, {b[1]} \ {b[1]})
       /\ WaitingOK(x, {b[1]}) => WaitingOK(z, {b[1]} \ {b[1]})
  <2>1. EntriesOK(x.sit)
    BY <1>5, <1>7
  <2>2. OrderLocated(x, cur_victim_sec, {b[1]}, b[1], z)
    BY <1>2, <1>7, <1>10, <2>1, LocateKeepsOrder
  <2>. QED
    BY <2>2 DEF OrderLocated
<1>. HIDE DEF z
<1>12. {b[1]} \ {b[1]} = {}
  OBVIOUS
<1>13. sit' = z.sit /\ free' = z.free /\ curseg' = z.curseg /\ dirty' = z.dirty
  BY <1>1, <1>7, <1>11
<1>14. OrderOK(z, cur_victim_sec', {}) /\ (~cp_error' => Writing' /\ WaitingOK(z, {})) /\ disk' = disk
  BY <1>1, <1>4, <1>10, <1>11, <1>12 DEF Writing
<1>. QED
  BY <1>13, <1>14, OrderlyStep

(* Counters and lists after two calls of locate_dirty_segment.             *)
LEMMA LocateTwice ==
    ASSUME NEW x \in AllocType, EntriesOK(x.sit), CountsOK(x), NEW a \in Segs, NEW b \in Segs,
           ListsOK(x, {b}), WaitingOK(x, {b}),
           NEW d2, d2 = locate_dirty_segment(x.dirty, x.sit, x.curseg, a),
           NEW d3, d3 = locate_dirty_segment(d2, x.sit, x.curseg, b),
           NEW y, y = State(x.sit, x.free, d3, x.curseg)
    PROVE  /\ y \in AllocType /\ y.sit = x.sit /\ y.free = x.free /\ y.curseg = x.curseg
           /\ y.dirty.victim_secmap \subseteq x.dirty.victim_secmap
           /\ CountsOK(y) /\ ListsOK(y, {}) /\ WaitingOK(y, {})
<1>1. /\ x.sit \in SitType /\ x.free \in FreeType /\ x.dirty \in DirtyType
      /\ x.curseg \in CursegType /\ x.free.inuse \in SUBSET Segs /\ DirtyCounts(x.dirty)
      /\ Lists(x.dirty, x.sit, x.curseg, {b})
      /\ Waiting(x.dirty, x.sit, x.free.inuse, x.curseg, {b})
  BY DEF AllocType, FreeType, CountsOK, ListsOK, WaitingOK
<1>2. Located(x.dirty, x.sit, x.curseg, a, d2)
  BY <1>1, LocateIs
<1>3. d2 \in DirtyType /\ DirtyCounts(d2) /\ d2.victim_secmap \subseteq x.dirty.victim_secmap
  BY <1>2 DEF Located
<1>4. Located(d2, x.sit, x.curseg, b, d3)
  BY <1>1, <1>3, LocateIs
<1>5. d3 \in DirtyType /\ DirtyCounts(d3) /\ d3.victim_secmap \subseteq d2.victim_secmap
  BY <1>4 DEF Located
<1>6. /\ Lists(d2, x.sit, x.curseg, {b} \ {a})
      /\ Waiting(d2, x.sit, x.free.inuse, x.curseg, {b} \ {a})
  BY <1>1, <1>2, LocateLists
<1>. DEFINE U == {b} \ {a}
<1>7. U \ {b} = {}
  OBVIOUS
<1>. HIDE DEF U
<1>8. Lists(d3, x.sit, x.curseg, U \ {b}) /\ Waiting(d3, x.sit, x.free.inuse, x.curseg, U \ {b})
  <2>1. Lists(d2, x.sit, x.curseg, U) /\ Waiting(d2, x.sit, x.free.inuse, x.curseg, U)
    BY <1>6 DEF U
  <2>. QED
    BY <1>1, <1>4, <2>1, LocateLists
<1>9. y \in AllocType /\ y.sit = x.sit /\ y.free = x.free /\ y.curseg = x.curseg /\ y.dirty = d3
  BY <1>1, <1>5 DEF State, AllocType
<1>10. CountsOK(y) /\ ListsOK(y, {}) /\ WaitingOK(y, {})
  BY <1>5, <1>7, <1>8, <1>9, Zenon DEF CountsOK, ListsOK, WaitingOK
<1>. QED
  BY <1>3, <1>5, <1>9, <1>10

(* Counters, lists and sections only depend on the segments of the logs.   *)
LEMMA SameSegments ==
    ASSUME NEW x, NEW y, y.sit = x.sit, y.free = x.free, y.dirty = x.dirty,
           \A u \in Logs : y.curseg[u].segno = x.curseg[u].segno
    PROVE  /\ CountsOK(x) => CountsOK(y)
           /\ ListsOK(x, {}) => ListsOK(y, {})
           /\ WaitingOK(x, {}) => WaitingOK(y, {})
<1>1. \A q : IS_CURSEG(y.curseg, q) <=> IS_CURSEG(x.curseg, q)
  BY DEF IS_CURSEG, CurSegs
<1>2. CountsOK(x) => CountsOK(y)
  BY Zenon DEF CountsOK
<1>3. ListsOK(x, {}) => ListsOK(y, {})
  BY <1>1 DEF ListsOK, Lists, Listed, Classified
<1>4. WaitingOK(x, {}) => WaitingOK(y, {})
  BY <1>1 DEF WaitingOK, Waiting
<1>. QED
  BY <1>2, <1>3, <1>4

(* After change_curseg the segment that log t has left is unclassified.    *)
ChangeKept(x, t, s, y) ==
    /\ y \in AllocType /\ CountsOK(y)
    /\ ListsOK(y, {x.curseg[t].segno}) /\ WaitingOK(y, {x.curseg[t].segno})
    /\ y.sit.cur_valid_map = x.sit.cur_valid_map
    /\ y.dirty.victim_secmap \subseteq x.dirty.victim_secmap
    /\ x.free.inuse_sec \subseteq y.free.inuse_sec
    /\ y.curseg[t].segno = s /\ \A u \in Logs \ {t} : y.curseg[u].segno = x.curseg[u].segno
    /\ y.dirty.dirty_segmap["DIRTY"] \subseteq x.dirty.dirty_segmap["DIRTY"]

(* The rest is as before.                                                  *)
LEMMA ChangeKeeps ==
    ASSUME NEW x \in AllocType, EntriesOK(x.sit), CountsOK(x), ListsOK(x, {}), WaitingOK(x, {}),
           NEW t \in Logs, NEW s \in Segs, NEW y, y = change_curseg(x, t, s)
    PROVE  ChangeKept(x, t, s, y)
<1>. DEFINE home == x.curseg[t].segno
<1>1. Listed(x.dirty, x.sit, x.curseg, s)
  BY DEF ListsOK, Lists
<1>2. PICK d, off : /\ LeftBy(x.dirty, d, s) /\ off \in 0 .. BlocksPerSeg
                    /\ y = Moved(x, t, s, d, "SSR", off)
  BY <1>1, ChangeIsMove
<1>3. MoveKept(x, t, s, d, "SSR", off, y)
  BY <1>2, MoveKeeps
<1>4. ListsOK(x, {home}) /\ WaitingOK(x, {home})
  BY DEF ListsOK, Lists, WaitingOK, Waiting
<1>5. /\ y \in AllocType /\ CountsOK(y) /\ ListsOK(y, {home}) /\ WaitingOK(y, {home})
      /\ y.sit.cur_valid_map = x.sit.cur_valid_map /\ y.dirty = d
      /\ y.dirty.victim_secmap \subseteq x.dirty.victim_secmap
      /\ x.free.inuse_sec \subseteq y.free.inuse_sec
  BY <1>2, <1>3, <1>4 DEF MoveKept, LeftBy
<1>6. y.curseg[t].segno = s /\ \A u \in Logs \ {t} : y.curseg[u].segno = x.curseg[u].segno
  <2>1. x.curseg \in CursegType
    BY DEF AllocType
  <2>2. y.curseg = [x.curseg EXCEPT ![t] = [segno |-> s, next_blkoff |-> off, alloc_type |-> "SSR"]]
    BY <1>3 DEF MoveKept
  <2>. QED
    BY <2>1, <2>2 DEF CursegType
<1>7. d.dirty_segmap["DIRTY"] \subseteq x.dirty.dirty_segmap["DIRTY"]
  <2>1. "DIRTY" \in DirtyTypes /\ d.dirty_segmap["DIRTY"] \subseteq Segs
    BY <1>2 DEF DirtyTypes, LeftBy, DirtyType
  <2>. QED
    BY <1>2, <2>1 DEF LeftBy, SameBut
<1>. QED
  BY <1>5, <1>6, <1>7 DEF ChangeKept

(* A log is back: its segment and those of the others are as they were.    *)
CameBack(x, y) ==
    /\ CountsOK(y) /\ ListsOK(y, {}) /\ WaitingOK(y, {})
    /\ y.sit.cur_valid_map = x.sit.cur_valid_map
    /\ y.dirty.victim_secmap \subseteq x.dirty.victim_secmap
    /\ x.free.inuse_sec \subseteq y.free.inuse_sec
    /\ \A u \in Logs : y.curseg[u].segno = x.curseg[u].segno
    /\ y \in AllocType

(* The way to the other segment and back: a log leaves its own segment,    *)
(* which is classified, and comes back to it; the other segment, which     *)
(* holds a valid block, is then on no dirty list.                          *)
LEMMA ThereAndBack ==
    ASSUME NEW x, NEW x1, NEW x2, NEW y, NEW t \in Logs, ExchangeData,
           NEW home, home = x.curseg[t].segno, NEW there \in Segs,
           x.sit.cur_valid_map[there] # {},
           ChangeKept(x, t, there, x1), ChangeKept(x2, t, home, y),
           x2.sit = x1.sit, x2.free = x1.free, x2.curseg = x1.curseg,
           x2.dirty.victim_secmap \subseteq x1.dirty.victim_secmap, ListsOK(x2, {})
    PROVE  CameBack(x, y)
<1>1. x2.curseg[t].segno = there
  BY DEF ChangeKept
<1>2. there \notin x2.dirty.dirty_segmap["DIRTY"]
  BY <1>1 DEF ListsOK, Lists, Listed, IS_CURSEG, CurSegs
<1>3. /\ y \in AllocType /\ CountsOK(y) /\ ListsOK(y, {there}) /\ WaitingOK(y, {there})
      /\ y.sit.cur_valid_map = x.sit.cur_valid_map
      /\ there \notin y.dirty.dirty_segmap["DIRTY"]
  BY <1>1, <1>2 DEF ChangeKept
<1>4. ListsOK(y, {})
  BY <1>3 DEF ListsOK, Lists, Classified
<1>5. WaitingOK(y, {})
  <2>1. y.sit.cur_valid_map[there] # {}
    BY <1>3
  <2>. QED
    BY <1>3, <2>1 DEF WaitingOK, Waiting
<1>6. /\ y.dirty.victim_secmap \subseteq x.dirty.victim_secmap
      /\ x.free.inuse_sec \subseteq y.free.inuse_sec
  BY DEF ChangeKept
<1>7. \A u \in Logs : y.curseg[u].segno = x.curseg[u].segno
  BY DEF ChangeKept
<1>. QED
  BY <1>3, <1>4, <1>5, <1>6, <1>7 DEF CameBack

(* __f2fs_replace_block of a valid block keeps counters, lists, sections.  *)
LEMMA ReplaceKeepsOrder ==
    ASSUME NEW x, AllocOK(x, Logs), NEW t \in Logs, ExchangeData, NEW new \in Blocks,
           new[1] \in x.free.inuse, x.sit.cur_valid_map[new[1]] # {},
           \A u \in Logs \ {t} : x.curseg[u].segno # new[1],
           NEW v, OrderOK(x, v, {}), WaitingOK(x, {}),
           NEW y, y = __f2fs_replace_block(x, t, NULL_ADDR, new, FALSE)
    PROVE  OrderOK(y, v, {}) /\ WaitingOK(y, {})
<1>. DEFINE home == x.curseg[t].segno
            there == new[1]
            x1 == IF there = home THEN x ELSE change_curseg(x, t, there)
            d2 == locate_dirty_segment(x1.dirty, x1.sit, x1.curseg, there)
            d3 == locate_dirty_segment(d2, x1.sit, x1.curseg, home)
            x2 == State(x1.sit, x1.free, d3, x1.curseg)
            x3 == IF there = home THEN x2 ELSE change_curseg(x2, t, home)
            o == x.curseg[t].next_blkoff
<1>1. y = [x3 EXCEPT !.curseg[t].next_blkoff = o]
  BY ZenonT(40) DEF __f2fs_replace_block, InvalidateOld, LocateOld
<1>2. /\ x \in AllocType /\ EntriesOK(x.sit) /\ home \in Segs /\ there \in Segs
      /\ CountsOK(x) /\ ListsOK(x, {}) /\ SectionsOK(x, v, {})
  BY DEF AllocOK, AllocType, CursegType, Blocks, OrderOK
<1>. HIDE DEF home, there, o
<1>3. CameBack(x, x3)
  <2>1. CASE there = home
    <3>1. x1 = x /\ x3 = x2
      BY <2>1
    <3>. HIDE DEF x1, x3
    <3>2. d2 = locate_dirty_segment(x.dirty, x.sit, x.curseg, there)
          /\ d3 = locate_dirty_segment(d2, x.sit, x.curseg, home)
          /\ x2 = State(x.sit, x.free, d3, x.curseg)
      BY <3>1, Zenon
    <3>. HIDE DEF d2, d3, x2
    <3>3. ListsOK(x, {home}) /\ WaitingOK(x, {home})
      BY <1>2 DEF ListsOK, Lists, WaitingOK, Waiting
    <3>4. /\ x2 \in AllocType /\ x2.sit = x.sit /\ x2.free = x.free /\ x2.curseg = x.curseg
          /\ x2.dirty.victim_secmap \subseteq x.dirty.victim_secmap
          /\ CountsOK(x2) /\ ListsOK(x2, {}) /\ WaitingOK(x2, {})
      BY <1>2, <3>2, <3>3, LocateTwice
    <3>. QED
      BY <3>1, <3>4 DEF CameBack
  <2>2. CASE there # home
    <3>1. x1 = change_curseg(x, t, there) /\ x3 = change_curseg(x2, t, home)
      BY <2>2, Zenon
    <3>2. /\ d2 = locate_dirty_segment(x1.dirty, x1.sit, x1.curseg, there)
          /\ d3 = locate_dirty_segment(d2, x1.sit, x1.curseg, home)
          /\ x2 = State(x1.sit, x1.free, d3, x1.curseg)
          /\ home = x.curseg[t].segno /\ there \in x.free.inuse
          /\ x.sit.cur_valid_map[there] # {} /\ \A u \in Logs \ {t} : x.curseg[u].segno # there
      BY DEF home, there
    <3>. HIDE DEF x1, d2, d3, x2, x3
    <3>3. ChangeKept(x, t, there, x1)
      BY <1>2, <3>1, ChangeKeeps
    <3>4. EntriesOK(x1.sit)
      <4>1. AllocOK(x, Logs \ {t})
        BY DEF AllocOK, LogsOK
      <4>2. ChangedTo(x, t, there, x1)
        BY <1>2, <3>1, <3>2, <4>1, ChangeCurseg
      <4>. QED
        BY <4>2 DEF ChangedTo, AllocOK
    <3>5. x1 \in AllocType /\ CountsOK(x1) /\ ListsOK(x1, {home}) /\ WaitingOK(x1, {home})
      BY <3>2, <3>3 DEF ChangeKept
    <3>6. /\ x2 \in AllocType /\ x2.sit = x1.sit /\ x2.free = x1.free /\ x2.curseg = x1.curseg
          /\ x2.dirty.victim_secmap \subseteq x1.dirty.victim_secmap
          /\ CountsOK(x2) /\ ListsOK(x2, {}) /\ WaitingOK(x2, {})
      BY <1>2, <3>2, <3>4, <3>5, LocateTwice
    <3>7. EntriesOK(x2.sit)
      BY <3>4, <3>6
    <3>8. ChangeKept(x2, t, home, x3)
      BY <1>2, <3>1, <3>6, <3>7, ChangeKeeps
    <3>9. /\ x2.sit = x1.sit /\ x2.free = x1.free /\ x2.curseg = x1.curseg
          /\ x2.dirty.victim_secmap \subseteq x1.dirty.victim_secmap /\ ListsOK(x2, {})
          /\ there \in Segs /\ home = x.curseg[t].segno /\ x.sit.cur_valid_map[there] # {}
      BY <1>2, <3>2, <3>6
    <3>. QED
      BY <3>3, <3>8, <3>9, ThereAndBack
  <2>. QED
    BY <2>1, <2>2
<1>. HIDE DEF x3
<1>30. /\ CountsOK(x3) /\ ListsOK(x3, {}) /\ WaitingOK(x3, {})
       /\ x3.sit.cur_valid_map = x.sit.cur_valid_map
       /\ x3.dirty.victim_secmap \subseteq x.dirty.victim_secmap
       /\ x.free.inuse_sec \subseteq x3.free.inuse_sec
       /\ \A u \in Logs : x3.curseg[u].segno = x.curseg[u].segno
       /\ x3 \in AllocType
  BY <1>3 DEF CameBack
<1>4. /\ y.sit = x3.sit /\ y.free = x3.free /\ y.dirty = x3.dirty
      /\ \A u \in Logs : y.curseg[u].segno = x3.curseg[u].segno
  <2>. DEFINE c == [x3.curseg[t] EXCEPT !.next_blkoff = o]
  <2>1. x3.curseg \in CursegType
    BY <1>30 DEF AllocType
  <2>2. /\ y.sit = x3.sit /\ y.free = x3.free /\ y.dirty = x3.dirty
        /\ y.curseg = [x3.curseg EXCEPT ![t] = c]
    BY <1>1, <1>30 DEF AllocType
  <2>3. c.segno = x3.curseg[t].segno
    BY <2>1 DEF CursegType
  <2>. HIDE DEF c
  <2>4. DOMAIN x3.curseg = Logs
    BY <2>1, Zenon DEF CursegType
  <2>5. y.curseg[t] = c /\ \A u \in Logs \ {t} : y.curseg[u] = x3.curseg[u]
    BY <2>2, <2>4, Zenon
  <2>. QED
    BY <2>2, <2>3, <2>5, Zenon
<1>5. CountsOK(y) /\ ListsOK(y, {}) /\ WaitingOK(y, {})
  BY <1>30, <1>4, SameSegments
<1>6. SectionsOK(y, v, {})
  <2>1. \A u \in Logs : y.curseg[u].segno = x.curseg[u].segno
    BY <1>30, <1>4
  <2>2. \A c : IS_CURSEC(y.curseg, c) <=> IS_CURSEC(x.curseg, c)
    BY <2>1 DEF IS_CURSEC
  <2>3. \A c : HasValid(x.sit, c) => HasValid(y.sit, c)
    BY <1>30, <1>4 DEF HasValid
  <2>4. Apart(y.curseg)
    BY <1>2, <2>1 DEF SectionsOK, Apart
  <2>5. Victims(y.dirty.victim_secmap, y.sit, y.curseg, {})
    BY <1>2, <1>30, <1>4, <2>2, <2>3 DEF SectionsOK, Victims
  <2>6. VictimOK(v, y.curseg, y.free)
    BY <1>2, <1>30, <1>4, <2>2 DEF SectionsOK, VictimOK
  <2>. QED
    BY <2>4, <2>5, <2>6 DEF SectionsOK
<1>. QED
  BY <1>5, <1>6 DEF OrderOK

(* f2fs_replace_block keeps the invariant.                                 *)
LEMMA ReplaceKeepsLists ==
    ASSUME IndInv, ListInv, NEW new \in OldBlocks("WARM_DATA"), f2fs_replace_block(new)
    PROVE  ListInv'
<1>1. /\ Writing /\ ~cp_error /\ ExchangeData
      /\ UNCHANGED <<cur_victim_sec, cp_phase, cp_error, disk, chain>>
  BY DEF f2fs_replace_block
<1>2. PICK t \in Logs \cap DataLogs :
        /\ IF IS_CURSEG(curseg, new[1]) THEN curseg[t].segno = new[1] ELSE t = "WARM_DATA"
        /\ LET y == __f2fs_replace_block(Present, t, NULL_ADDR, new, FALSE)
           IN  sit' = y.sit /\ free' = y.free /\ dirty' = y.dirty /\ curseg' = y.curseg
  BY Zenon DEF f2fs_replace_block, Present
<1>. DEFINE y == __f2fs_replace_block(Present, t, NULL_ADDR, new, FALSE)
<1>3. sit' = y.sit /\ free' = y.free /\ dirty' = y.dirty /\ curseg' = y.curseg
  BY <1>2, Zenon
<1>4. y = __f2fs_replace_block(Present, t, NULL_ADDR, new, FALSE)
  OBVIOUS
<1>. HIDE DEF y
<1>5. AllocOK(Present, Logs)
  BY <1>1, PresentOK
<1>6. /\ new \in Blocks /\ new[1] \in Present.free.inuse /\ Present.sit.cur_valid_map[new[1]] # {}
  BY ValidBlocksInUse, PresentFields DEF OldBlocks
<1>7. \A u \in Logs \ {t} : Present.curseg[u].segno # new[1]
  <2>1. CASE IS_CURSEG(curseg, new[1])
    BY <1>2, <2>1, PresentFields DEF IndInv, LogsOK
  <2>2. CASE ~IS_CURSEG(curseg, new[1])
    BY <2>2, PresentFields DEF IS_CURSEG, CurSegs
  <2>. QED
    BY <2>1, <2>2
<1>8. OrderOK(Present, cur_victim_sec, {}) /\ WaitingOK(Present, {})
  BY <1>1 DEF ListInv
<1>9. OrderOK(y, cur_victim_sec, {}) /\ WaitingOK(y, {})
  BY <1>1, <1>4, <1>5, <1>6, <1>7, <1>8, ReplaceKeepsOrder
<1>10. cur_victim_sec' = cur_victim_sec /\ disk' = disk /\ Writing'
  BY <1>1 DEF Writing
<1>. QED
  BY <1>3, <1>9, <1>10, OrderlyStep

(* A step of the collector touches the victims only.                       *)
LEMMA VictimStep ==
    ASSUME ListInv, UNCHANGED <<sit, free, curseg, cp_phase, cp_error, disk>>,
           dirty'.dirty_segmap = dirty.dirty_segmap, dirty'.nr_dirty = dirty.nr_dirty,
           Victims(dirty'.victim_secmap, sit, curseg, {}), VictimOK(cur_victim_sec', curseg, free)
    PROVE  ListInv'
<1>1. /\ CountsOK(Present) /\ ListsOK(Present, {}) /\ Apart(curseg) /\ Apart(disk.curseg)
      /\ ~cp_error => /\ WaitingOK(Present, {})
                      /\ ~Writing => \A q \in free.inuse :
                           IS_CURSEG(curseg, q) \/ sit.cur_valid_map[q] # {}
  BY PresentFields, Zenon DEF ListInv, OrderOK, SectionsOK
<1>2. /\ Present'.sit = sit /\ Present'.free = free
      /\ Present'.dirty = dirty' /\ Present'.curseg = curseg
  BY DEF Present, State
<1>3. CountsOK(Present')
  BY <1>1, <1>2, PresentFields DEF CountsOK, DirtyCounts
<1>4. ListsOK(Present', {})
  BY <1>1, <1>2, PresentFields DEF ListsOK, Lists, Listed, Classified
<1>5. WaitingOK(Present, {}) => WaitingOK(Present', {})
  BY <1>2, PresentFields DEF WaitingOK, Waiting
<1>6. SectionsOK(Present', cur_victim_sec', {})
  BY <1>1, <1>2, Zenon DEF SectionsOK
<1>7. ListInv!1'
  BY <1>3, <1>4, <1>6 DEF OrderOK
<1>8. ListInv!2'
  BY <1>1, <1>5 DEF Writing
<1>. QED
  BY <1>1, <1>7, <1>8, Zenon DEF ListInv

(* A section that holds a valid block is in use.                           *)
LEMMA ValidInUse ==
    ASSUME IndInv, NEW c, HasValid(sit, c)
    PROVE  c \in free.inuse_sec
BY DEF IndInv, FreeOK, HasValid, SegsOf

(* The sections of dirty segments hold valid blocks.                       *)
LEMMA DirtyHasValid ==
    ASSUME IndInv, ListInv, NEW c \in GcCandidates
    PROVE  HasValid(sit, c) /\ ~IS_CURSEC(curseg, c)
<1>1. dirty.dirty_segmap["DIRTY"] \subseteq Segs
  BY DEF IndInv, TypeOK, DirtyType, DirtyTypes
<1>2. ~IS_CURSEC(curseg, c) /\ \E s \in dirty.dirty_segmap["DIRTY"] : SecOf(s) = c
  BY DEF GcCandidates, sec_usage_check
<1>3. PICK s \in dirty.dirty_segmap["DIRTY"] : SecOf(s) = c
  BY <1>2
<1>4. Lists(dirty, sit, curseg, {})
  BY PresentFields, Zenon DEF ListInv, OrderOK, ListsOK
<1>5. s \in Segs /\ sit.cur_valid_map[s] # {}
  BY <1>1, <1>4 DEF Lists, Classified, Partly
<1>. QED
  BY <1>2, <1>3, <1>5 DEF HasValid, SegsOf

(* The garbage collector.                                                  *)
LEMMA GcKeepsLists ==
    ASSUME IndInv, ListInv, get_victim_FG \/ get_victim_BG \/ f2fs_gc_end
    PROVE  ListInv'
<1>1. dirty \in DirtyType
  BY DEF IndInv, TypeOK
<1>2. Victims(dirty.victim_secmap, sit, curseg, {}) /\ VictimOK(cur_victim_sec, curseg, free)
  BY PresentFields, Zenon DEF ListInv, OrderOK, SectionsOK
<1>3. CASE get_victim_FG
  <2>1. PICK c \in IF check_bg_victims # {} THEN check_bg_victims
                   ELSE FggcCandidates(GcCandidates) :
          /\ cur_victim_sec' = c
          /\ dirty' = [dirty EXCEPT !.victim_secmap = @ \ (check_bg_victims \cap {c})]
    BY <1>3 DEF get_victim_FG
  <2>2. HasValid(sit, c) /\ ~IS_CURSEC(curseg, c)
    <3>1. CASE c \in check_bg_victims
      BY <1>2, <3>1 DEF check_bg_victims, FggcCandidates, Victims
    <3>2. CASE c \in FggcCandidates(GcCandidates)
      BY <3>2, DirtyHasValid DEF FggcCandidates
    <3>. QED
      BY <2>1, <3>1, <3>2
  <2>3. VictimOK(cur_victim_sec', curseg, free)
    BY <2>1, <2>2, ValidInUse DEF VictimOK
  <2>4. /\ dirty'.dirty_segmap = dirty.dirty_segmap /\ dirty'.nr_dirty = dirty.nr_dirty
        /\ dirty'.victim_secmap \subseteq dirty.victim_secmap
    BY <1>1, <2>1 DEF DirtyType
  <2>5. Victims(dirty'.victim_secmap, sit, curseg, {})
    BY <1>2, <2>4 DEF Victims
  <2>6. UNCHANGED <<sit, free, curseg, cp_phase, cp_error, disk>>
    BY <1>3 DEF get_victim_FG
  <2>. QED
    BY <2>3, <2>4, <2>5, <2>6, VictimStep
<1>4. CASE get_victim_BG
  <2>1. PICK c \in GcCandidates \ dirty.victim_secmap :
          dirty' = [dirty EXCEPT !.victim_secmap = @ \cup {c}]
    BY <1>4 DEF get_victim_BG
  <2>2. HasValid(sit, c) /\ ~IS_CURSEC(curseg, c)
    BY DirtyHasValid
  <2>3. /\ dirty'.dirty_segmap = dirty.dirty_segmap /\ dirty'.nr_dirty = dirty.nr_dirty
        /\ dirty'.victim_secmap = dirty.victim_secmap \cup {c}
    BY <1>1, <2>1 DEF DirtyType
  <2>4. Victims(dirty'.victim_secmap, sit, curseg, {})
    BY <1>2, <2>2, <2>3 DEF Victims
  <2>5. UNCHANGED <<sit, free, curseg, cp_phase, cp_error, disk, cur_victim_sec>>
    BY <1>4 DEF get_victim_BG
  <2>. QED
    BY <1>2, <2>3, <2>4, <2>5, VictimStep
<1>5. CASE f2fs_gc_end
  <2>1. /\ cur_victim_sec' = NULL_SECNO
        /\ UNCHANGED <<sit, free, dirty, curseg, cp_phase, cp_error, disk>>
    BY <1>5 DEF f2fs_gc_end
  <2>2. VictimOK(cur_victim_sec', curseg, free)
    BY <2>1 DEF VictimOK
  <2>. QED
    BY <1>2, <2>1, <2>2, VictimStep
<1>. QED
  BY <1>3, <1>4, <1>5

(* CP_ERROR_FLAG ends the promise about empty segments, nothing else.      *)
LEMMA ErrorKeepsLists ==
    ASSUME IndInv, ListInv, f2fs_stop_checkpoint \/ do_checkpoint_EIO
    PROVE  ListInv'
<1>1. /\ UNCHANGED <<sit, free, dirty, cur_victim_sec, curseg, disk>> /\ cp_error'
  BY DEF f2fs_stop_checkpoint, do_checkpoint_EIO
<1>2. Present' = Present
  BY <1>1 DEF Present
<1>. QED
  BY <1>1, <1>2, Zenon DEF ListInv

(* The checkpoint on disk takes over the logs.                             *)
LEMMA CommitKeepsLists ==
    ASSUME IndInv, ListInv, do_checkpoint
    PROVE  ListInv'
<1>1. /\ UNCHANGED <<sit, free, dirty, cur_victim_sec, curseg, cp_error>>
      /\ disk'.curseg = curseg /\ ~Writing
  BY DEF do_checkpoint, Writing
<1>2. Present' = Present
  BY <1>1 DEF Present
<1>3. Apart(curseg)
  BY PresentFields, Zenon DEF ListInv, OrderOK, SectionsOK
<1>. QED
  BY <1>1, <1>2, <1>3, Zenon DEF ListInv

(* Clearing the prefree list, when no empty segment is in use.             *)
LEMMA ClearKeepsLists ==
    ASSUME IndInv, ListInv, clear_prefree_segments
    PROVE  ListInv'
<1>1. /\ UNCHANGED <<sit, free, cur_victim_sec, curseg, cp_error, disk>>
      /\ ~Writing /\ ~cp_error /\ Writing' /\ dirty' = PrefreeCleared(dirty)
  BY DEF clear_prefree_segments, Writing
<1>2. /\ dirty \in DirtyType /\ \A t \in AllLogs \cup {"DIRTY"} : t \in DirtyTypes /\ t # "PRE"
  BY DEF IndInv, TypeOK, DirtyTypes, AllLogs, DataLogs, NodeLogs
<1>3. /\ dirty'.dirty_segmap = [dirty.dirty_segmap EXCEPT !["PRE"] = {}]
      /\ dirty'.nr_dirty = [dirty.nr_dirty EXCEPT !["PRE"] = 0]
      /\ dirty'.victim_secmap = dirty.victim_secmap
  BY <1>1, <1>2 DEF PrefreeCleared, DirtyType
<1>4. /\ \A t \in AllLogs \cup {"DIRTY"} : dirty'.dirty_segmap[t] = dirty.dirty_segmap[t]
      /\ \A t \in DirtyTypes \ {"PRE"} : /\ dirty'.dirty_segmap[t] = dirty.dirty_segmap[t]
                                         /\ dirty'.nr_dirty[t] = dirty.nr_dirty[t]
      /\ dirty'.dirty_segmap["PRE"] = {} /\ dirty'.nr_dirty["PRE"] = 0
  BY <1>2, <1>3 DEF DirtyType, DirtyTypes
<1>5. /\ SitCounts(sit) /\ FreeCounts(free) /\ SecsExact(free) /\ DirtyCounts(dirty)
      /\ Lists(dirty, sit, curseg, {}) /\ Apart(curseg)
      /\ Victims(dirty.victim_secmap, sit, curseg, {}) /\ VictimOK(cur_victim_sec, curseg, free)
      /\ \A q \in free.inuse : IS_CURSEG(curseg, q) \/ sit.cur_valid_map[q] # {}
  BY <1>1, PresentFields, Zenon DEF ListInv, OrderOK, CountsOK, ListsOK, SectionsOK
<1>6. DirtyCounts(dirty')
  <2>1. ASSUME NEW t \in DirtyTypes PROVE dirty'.nr_dirty[t] = Cardinality(dirty'.dirty_segmap[t])
    <3>1. CASE t = "PRE"
      BY <1>4, <3>1, FS_EmptySet
    <3>2. CASE t # "PRE"
      BY <1>4, <1>5, <3>2, Zenon DEF DirtyCounts
    <3>. QED
      BY <3>1, <3>2
  <2>. QED
    BY <2>1 DEF DirtyCounts
<1>7. Lists(dirty', sit, curseg, {})
  BY <1>4, <1>5 DEF Lists, Listed, Classified
<1>8. Waiting(dirty', sit, free.inuse, curseg, {})
  BY <1>5 DEF Waiting
<1>. DEFINE z == State(sit, free, dirty', curseg)
<1>9. z.sit = sit /\ z.free = free /\ z.dirty = dirty' /\ z.curseg = curseg
  BY DEF State
<1>. HIDE DEF z
<1>10. OrderOK(z, cur_victim_sec', {}) /\ WaitingOK(z, {})
  BY <1>1, <1>3, <1>5, <1>6, <1>7, <1>8, <1>9, Zenon
     DEF OrderOK, CountsOK, ListsOK, SectionsOK, WaitingOK
<1>. QED
  BY <1>1, <1>9, <1>10, OrderlyStep

(* Flushing the entries frees the prefree segments: the empty segments     *)
(* that stay in use are current.                                           *)
LEMMA FlushKeepsLists ==
    ASSUME IndInv, ListInv, flush_sit_entries
    PROVE  ListInv'
<1>. DEFINE P == dirty.dirty_segmap["PRE"]
<1>1. /\ UNCHANGED <<dirty, cur_victim_sec, curseg, cp_error, disk>>
      /\ Writing /\ ~cp_error /\ cur_victim_sec = NULL_SECNO
      /\ sit' = FlushedSit(sit) /\ free' = FreeAll(free, P)
  BY DEF flush_sit_entries, set_prefree_as_free_segments, Writing
<1>2. sit \in SitType /\ free \in FreeType /\ dirty \in DirtyType /\ P \in SUBSET Segs
  BY DEF IndInv, TypeOK, DirtyType, DirtyTypes
<1>3. /\ sit'.type = sit.type /\ sit'.cur_valid_map = sit.cur_valid_map
      /\ sit'.written_valid_blocks = sit.written_valid_blocks
      /\ sit'.sec_valid_blocks = sit.sec_valid_blocks
  BY <1>1, <1>2 DEF FlushedSit, SitType
<1>4. /\ SitCounts(sit) /\ FreeCounts(free) /\ SecsExact(free) /\ DirtyCounts(dirty)
      /\ Lists(dirty, sit, curseg, {}) /\ Apart(curseg) /\ Apart(disk.curseg)
      /\ Victims(dirty.victim_secmap, sit, curseg, {})
      /\ Waiting(dirty, sit, free.inuse, curseg, {})
  BY <1>1, PresentFields, Zenon DEF ListInv, OrderOK, CountsOK, ListsOK, SectionsOK, WaitingOK
<1>5. FreeCounts(free') /\ SecsExact(free') /\ free'.inuse = free.inuse \ P
  BY <1>1, <1>2, <1>4, FreeAllCounts
<1>6. SitCounts(sit')
  BY <1>3, <1>4, Zenon DEF SitCounts
<1>7. Lists(dirty, sit', curseg, {})
  BY <1>3, <1>4 DEF Lists, Listed, Classified, Partly
<1>8. Victims(dirty.victim_secmap, sit', curseg, {})
  BY <1>3, <1>4 DEF Victims, HasValid
<1>9. \A q \in free'.inuse : IS_CURSEG(curseg, q) \/ sit'.cur_valid_map[q] # {}
  BY <1>3, <1>4, <1>5 DEF Waiting
<1>10. Waiting(dirty, sit', free'.inuse, curseg, {})
  BY <1>9 DEF Waiting
<1>11. VictimOK(cur_victim_sec', curseg, free')
  BY <1>1 DEF VictimOK
<1>12. /\ Present'.sit = sit' /\ Present'.free = free'
       /\ Present'.dirty = dirty /\ Present'.curseg = curseg
  BY <1>1 DEF Present, State
<1>13. OrderOK(Present', cur_victim_sec', {}) /\ WaitingOK(Present', {})
  BY <1>4, <1>5, <1>6, <1>7, <1>8, <1>10, <1>11, <1>12, Zenon
     DEF OrderOK, CountsOK, ListsOK, SectionsOK, WaitingOK
<1>. QED
  BY <1>1, <1>4, <1>9, <1>13, Zenon DEF ListInv

(* A mounted volume is in order.                                           *)
LEMMA MountInOrder ==
    ASSUME NEW d \in DiskType, Apart(d.curseg),
           NEW x, x = State(MountSit(d), MountFree(d), MountDirty(d), d.curseg)
    PROVE  OrderOK(x, NULL_SECNO, {}) /\ WaitingOK(x, {})
<1>. DEFINE used == MountUsed(d)
            secs == {SecOf(s) : s \in used}
            part == {s \in Segs : d.valid[s] \notin {{}, Offs} /\ ~IS_CURSEG(d.curseg, s)}
            list(t) == IF t = "DIRTY" THEN part ELSE {s \in part : d.type[s] = t}
            w == Cardinality(BlocksIn(Segs, d.valid))
<1>1. /\ x.sit = MountSit(d) /\ x.free = MountFree(d)
      /\ x.dirty = MountDirty(d) /\ x.curseg = d.curseg
  BY DEF State
<1>2. /\ x.sit.written_valid_blocks = w /\ x.sit.sec_valid_blocks = SecCount(d.valid)
      /\ x.sit.cur_valid_map = d.valid /\ x.sit.type = d.type
  BY <1>1 DEF MountSit
<1>3. /\ x.free.inuse = used /\ x.free.inuse_sec = secs
      /\ x.free.free_segments = Cardinality(Segs \ used)
      /\ x.free.free_sections = Cardinality(Secs \ secs)
  <2>1. x.free = [inuse |-> used, inuse_sec |-> secs,
                  free_segments |-> Cardinality(Segs \ used),
                  free_sections |-> Cardinality(Secs \ secs)]
    BY <1>1, Zenon DEF MountFree
  <2>. HIDE DEF used, secs
  <2>. QED
    BY <2>1
<1>4. x.dirty = [dirty_segmap |-> [t \in DirtyTypes |-> list(t)],
                 nr_dirty |-> [t \in DirtyTypes |-> Cardinality(list(t))],
                 victim_secmap |-> {}]
  BY <1>1, Zenon DEF MountDirty
<1>5. /\ list("DIRTY") = part /\ \A t \in AllLogs : list(t) = {s \in part : d.type[s] = t}
  BY DEF AllLogs, DataLogs, NodeLogs
<1>. HIDE DEF list
<1>6. /\ x.dirty.dirty_segmap = [t \in DirtyTypes |-> list(t)] /\ x.dirty.victim_secmap = {}
      /\ x.dirty.nr_dirty = [t \in DirtyTypes |-> Cardinality(list(t))]
  BY <1>4
<1>7. /\ \A t \in DirtyTypes : x.dirty.dirty_segmap[t] = list(t)
      /\ \A t \in DirtyTypes : x.dirty.nr_dirty[t] = Cardinality(list(t))
  BY <1>6, Zenon
<1>8. SitCounts(x.sit)
  BY <1>2, Zenon DEF SitCounts
<1>9. FreeCounts(x.free) /\ SecsExact(x.free)
  BY <1>3, Zenon DEF FreeCounts, SecsExact
<1>10. DirtyCounts(x.dirty)
  BY <1>7, Zenon DEF DirtyCounts
<1>11. Lists(x.dirty, x.sit, x.curseg, {})
  <2>1. x.dirty.dirty_segmap["DIRTY"] = part
        /\ \A t \in AllLogs : x.dirty.dirty_segmap[t] = {s \in part : d.type[s] = t}
    BY <1>5, <1>7 DEF DirtyTypes
  <2>. QED
    BY <1>1, <1>2, <2>1 DEF Lists, Listed, Classified, Partly
<1>12. Waiting(x.dirty, x.sit, x.free.inuse, x.curseg, {})
  BY <1>1, <1>2, <1>3 DEF Waiting, MountUsed, IS_CURSEG
<1>13. Victims(x.dirty.victim_secmap, x.sit, x.curseg, {})
  BY <1>6 DEF Victims
<1>14. VictimOK(NULL_SECNO, x.curseg, x.free) /\ Apart(x.curseg)
  BY <1>1 DEF VictimOK
<1>. QED
  BY <1>8, <1>9, <1>10, <1>11, <1>12, <1>13, <1>14, Zenon
     DEF OrderOK, CountsOK, ListsOK, SectionsOK, WaitingOK

(* The logs that mkfs writes are apart.                                    *)
LEMMA FormattedApart == Formatted \in DiskType /\ Apart(Formatted.curseg)
<1>1. Formatted \in DiskType
  BY FormattedOK
<1>2. \A t \in Logs : Formatted.curseg[t].segno = FormatSeg[t]
  BY DEF Formatted
<1>. QED
  BY <1>1, <1>2, LogsAssumption DEF Apart

(* The initial state.                                                      *)
LEMMA InitInOrder ==
    ASSUME Init
    PROVE  ListInv
<1>1. /\ disk = Formatted /\ sit = MountSit(disk) /\ free = MountFree(disk)
      /\ dirty = MountDirty(disk) /\ curseg = disk.curseg /\ cur_victim_sec = NULL_SECNO /\ Writing
  BY DEF Init, Writing
<1>2. disk \in DiskType /\ Apart(disk.curseg)
  BY <1>1, FormattedApart
<1>3. Present = State(MountSit(disk), MountFree(disk), MountDirty(disk), disk.curseg)
  BY <1>1, Zenon DEF Present
<1>4. OrderOK(Present, NULL_SECNO, {}) /\ WaitingOK(Present, {})
  BY <1>2, <1>3, MountInOrder
<1>. QED
  BY <1>1, <1>2, <1>4 DEF ListInv

(* A crash and the mount that follows it.                                  *)
LEMMA CrashKeepsLists ==
    ASSUME IndInv, ListInv, Crash
    PROVE  ListInv'
<1>1. /\ sit' = MountSit(disk) /\ free' = MountFree(disk) /\ dirty' = MountDirty(disk)
      /\ curseg' = disk.curseg /\ cur_victim_sec' = NULL_SECNO /\ Writing' /\ disk' = disk
  BY DEF Crash, Writing
<1>2. disk \in DiskType /\ Apart(disk.curseg)
  BY DEF IndInv, TypeOK, ListInv
<1>. DEFINE z == State(MountSit(disk), MountFree(disk), MountDirty(disk), disk.curseg)
<1>3. z.sit = sit' /\ z.free = free' /\ z.dirty = dirty' /\ z.curseg = curseg'
  BY <1>1 DEF State
<1>4. OrderOK(z, NULL_SECNO, {}) /\ WaitingOK(z, {})
  BY <1>2, MountInOrder
<1>. HIDE DEF z
<1>. QED
  BY <1>1, <1>3, <1>4, OrderlyStep

(* Every step keeps counters, lists and sections in order, and a mounted   *)
(* volume starts that way, on a volume of one device.                      *)
THEOREM ListInductive ==
    ASSUME "device" \notin Faults
    PROVE  Spec => []ListInv
<1>1. Init => ListInv
  BY InitInOrder
<1>2. IndInv /\ ListInv /\ [Next]_vars => ListInv'
  <2>. SUFFICES ASSUME IndInv, ListInv, [Next]_vars PROVE ListInv'
    OBVIOUS
  <2>1. CASE \E t \in Logs, reserve \in SsrReserves :
               \E old \in OldBlocks(t) \cup {NULL_ADDR} : allocate_data_block(t, old, reserve)
    BY <2>1, AllocateKeepsLists
  <2>2. CASE \E b \in ValidBlocks : invalidate_blocks(b)
    BY <2>2, InvalidateKeepsLists
  <2>3. CASE \E new \in OldBlocks("WARM_DATA") : f2fs_replace_block(new)
    BY <2>3, ReplaceKeepsLists
  <2>4. CASE get_victim_FG \/ get_victim_BG \/ f2fs_gc_end
    BY <2>4, GcKeepsLists
  <2>5. CASE flush_sit_entries
    BY <2>5, FlushKeepsLists
  <2>6. CASE do_checkpoint
    BY <2>6, CommitKeepsLists
  <2>7. CASE clear_prefree_segments
    BY <2>7, ClearKeepsLists
  <2>8. CASE f2fs_stop_checkpoint \/ do_checkpoint_EIO
    BY <2>8, ErrorKeepsLists
  <2>9. CASE Crash
    BY <2>9, CrashKeepsLists
  <2>10. CASE UNCHANGED vars
    <3>1. Present' = Present
      BY <2>10 DEF vars, Present
    <3>. QED
      BY <2>10, <3>1, Zenon DEF vars, ListInv, Writing
  <2>11. ~flush_device_cache_fails
    BY DEF flush_device_cache_fails
  <2>. QED
    BY <2>1, <2>2, <2>3, <2>4, <2>5, <2>6, <2>7, <2>8, <2>9, <2>10, <2>11, Zenon DEF Next
<1>3. Spec => []IndInv
  BY Inductive
<1>. QED
  BY <1>1, <1>2, <1>3, PTL DEF Spec

(* LogsApart: whichever way its logs came to their segments (LFS, SSR or   *)
(* f2fs_replace_block), no two logs write in one section.                  *)
THEOREM LogsAreApart ==
    ASSUME "device" \notin Faults
    PROVE  Spec => []LogsApart
<1>1. ListInv => LogsApart
  BY PresentFields, Zenon DEF ListInv, OrderOK, SectionsOK, Apart, LogsApart
<1>. QED
  BY <1>1, ListInductive, PTL

(* CountersMatch: the counters that are updated one by one in              *)
(* update_sit_entry, __set_test_and_free and the dirty lists always agree  *)
(* with the bitmaps, and are exact again after a mount.                    *)
THEOREM CountersExact ==
    ASSUME "device" \notin Faults
    PROVE  Spec => []CountersMatch
<1>1. ASSUME IndInv, ListInv PROVE CountersMatch
  <2>1. /\ SitCounts(sit) /\ FreeCounts(free) /\ DirtyCounts(dirty) /\ EntriesOK(sit)
        /\ sit \in SitType /\ dirty \in DirtyType
    BY <1>1, PresentFields, Zenon DEF ListInv, OrderOK, CountsOK, IndInv, TypeOK
  <2>2. sit.valid_blocks = Count(sit.cur_valid_map)
    BY <2>1 DEF EntriesOK, SitType, Count
  <2>3. sit.ckpt_valid_blocks =
          Count([s \in Segs |-> sit.cur_valid_map[s] \cup sit.ckpt_valid_map[s]])
    <3>. DEFINE both == [s \in Segs |-> sit.cur_valid_map[s] \cup sit.ckpt_valid_map[s]]
    <3>1. ASSUME NEW s \in Segs PROVE sit.ckpt_valid_blocks[s] = Count(both)[s]
      <4>1. both[s] = sit.cur_valid_map[s] \cup sit.ckpt_valid_map[s]
        OBVIOUS
      <4>. HIDE DEF both
      <4>2. Count(both)[s] = Cardinality(both[s])
        BY DEF Count
      <4>. QED
        BY <2>1, <4>1, <4>2, Zenon DEF EntriesOK
    <3>. HIDE DEF both
    <3>2. sit.ckpt_valid_blocks = [s \in Segs |-> sit.ckpt_valid_blocks[s]]
      BY <2>1 DEF SitType
    <3>3. Count(both) = [s \in Segs |-> Count(both)[s]]
      BY DEF Count
    <3>4. sit.ckpt_valid_blocks = Count(both)
      BY <3>1, <3>2, <3>3
    <3>. QED
      BY <3>4 DEF both
  <2>4. \A t \in DOMAIN dirty.nr_dirty : dirty.nr_dirty[t] = Cardinality(dirty.dirty_segmap[t])
    <3>1. DOMAIN dirty.nr_dirty = DirtyTypes
      BY <2>1 DEF DirtyType
    <3>. QED
      BY <2>1, <3>1, Zenon DEF DirtyCounts
  <2>. QED
    BY <2>1, <2>2, <2>3, <2>4, Zenon DEF CountersMatch, SitCounts, FreeCounts, ValidBlocks
<1>. QED
  BY <1>1, Inductive, ListInductive, PTL

(* FreeIsEmpty: a free segment holds nothing that is valid now or would be *)
(* after a crash, and a section is free exactly when its segments are.     *)
THEOREM FreeSegmentsEmpty ==
    ASSUME "device" \notin Faults
    PROVE  Spec => []FreeIsEmpty
<1>1. ASSUME IndInv, ListInv PROVE FreeIsEmpty
  <2>1. /\ SecsExact(free) /\ FreeOK(free, sit) /\ TypeOK /\ CpOK
        /\ LogsOK(Logs, curseg, sit.type, sit.cur_valid_map, sit.ckpt_valid_map, free.inuse)
    BY <1>1, PresentFields, Zenon DEF ListInv, OrderOK, CountsOK, IndInv
  <2>2. free.inuse_sec = {SecOf(s) : s \in free.inuse}
    BY <2>1, Zenon DEF SecsExact
  <2>3. ASSUME NEW s \in Segs \ free.inuse
        PROVE  /\ sit.cur_valid_map[s] = {} /\ s \notin CurSegs(curseg)
               /\ Writing /\ ~cp_error => sit.ckpt_valid_map[s] = {} /\ disk.valid[s] = {}
    <3>1. sit.cur_valid_map[s] = {} /\ sit.ckpt_valid_map[s] = {}
      BY <2>1 DEF FreeOK
    <3>2. s \notin CurSegs(curseg)
      BY <2>1 DEF LogsOK, CurSegs
    <3>3. Writing /\ ~cp_error => disk.valid[s] \subseteq sit.ckpt_valid_map[s]
      BY <2>1 DEF CpOK
    <3>. QED
      BY <3>1, <3>2, <3>3
  <2>. QED
    BY <2>2, <2>3 DEF FreeIsEmpty
<1>. QED
  BY <1>1, Inductive, ListInductive, PTL

(* PrefreeExact: no space is lost and none is given away twice: the        *)
(* segments the next checkpoint will free are exactly the empty ones.      *)
THEOREM NoSpaceLost ==
    ASSUME "device" \notin Faults
    PROVE  Spec => []PrefreeExact
<1>1. ASSUME IndInv, ListInv PROVE PrefreeExact
  <2>. SUFFICES ASSUME Writing, ~cp_error
                PROVE  dirty.dirty_segmap["PRE"] =
                         {s \in free.inuse \ CurSegs(curseg) : sit.cur_valid_map[s] = {}}
    BY DEF PrefreeExact
  <2>1. Waiting(dirty, sit, free.inuse, curseg, {})
    BY <1>1, PresentFields, Zenon DEF ListInv, WaitingOK
  <2>2. PreOK(dirty, sit, curseg) /\ dirty.dirty_segmap["PRE"] \subseteq free.inuse
    BY <1>1 DEF IndInv, CpOK
  <2>. QED
    BY <2>1, <2>2 DEF Waiting, PreOK, IS_CURSEG
<1>. QED
  BY <1>1, Inductive, ListInductive, PTL

(* DirtySound: the dirty lists hold only partly valid segments that no log *)
(* writes, each on the list of its type.                                   *)
THEOREM DirtyListsSound ==
    ASSUME "device" \notin Faults
    PROVE  Spec => []DirtySound
<1>1. ASSUME IndInv, ListInv PROVE DirtySound
  <2>1. Lists(dirty, sit, curseg, {})
    BY <1>1, PresentFields, Zenon DEF ListInv, OrderOK, ListsOK
  <2>2. \A t \in AllLogs \cup {"DIRTY"} : dirty.dirty_segmap[t] \subseteq Segs
    BY <1>1 DEF IndInv, TypeOK, DirtyType, DirtyTypes
  <2>3. \A s \in dirty.dirty_segmap["DIRTY"] :
          s \notin CurSegs(curseg) /\ sit.cur_valid_map[s] \notin {{}, Offs}
    BY <2>1, <2>2 DEF Lists, Listed, Classified, Partly, IS_CURSEG
  <2>4. \A t \in AllLogs :
          dirty.dirty_segmap[t] = {s \in dirty.dirty_segmap["DIRTY"] : sit.type[s] = t}
    BY <2>1, <2>2 DEF Lists, Listed
  <2>. QED
    BY <2>3, <2>4 DEF DirtySound
<1>. QED
  BY <1>1, Inductive, ListInductive, PTL

(* DirtyComplete: without the operations that move data addresses, GC and  *)
(* SSR see every partly valid segment that is not current.                 *)
THEOREM DirtyListsComplete ==
    ASSUME "device" \notin Faults, ~ExchangeData
    PROVE  Spec => []DirtyComplete
<1>1. ASSUME ListInv PROVE DirtyComplete
  <2>1. Lists(dirty, sit, curseg, {})
    BY <1>1, PresentFields, Zenon DEF ListInv, OrderOK, ListsOK
  <2>. QED
    BY <2>1 DEF Lists, Classified, Partly, IS_CURSEG, DirtyComplete
<1>. QED
  BY <1>1, ListInductive, PTL

(* VictimNotCurrent: while foreground GC empties a section, no log settles *)
(* in it, by a new segment, by SSR or by f2fs_replace_block.               *)
THEOREM VictimStaysClear ==
    ASSUME "device" \notin Faults
    PROVE  Spec => []VictimNotCurrent
<1>1. ListInv => VictimNotCurrent
  BY PresentFields, Zenon DEF ListInv, OrderOK, SectionsOK, VictimOK, VictimNotCurrent
<1>. QED
  BY <1>1, ListInductive, PTL
=============================================================================
