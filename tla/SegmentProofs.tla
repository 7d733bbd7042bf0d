--------------------------- MODULE SegmentProofs ---------------------------
(***************************************************************************)
(* Theorems about Segment for every geometry, set of logs and environment. *)
(***************************************************************************)
EXTENDS Segment, FiniteSetTheorems, WellFoundedInduction, TLAPS

----------------------------------------------------------------------------
(* Facts about sets of numbers                                             *)

(* A nonempty set of naturals has the minimum that __find_rev_next_zero_bit *)
(* and find_next_zero_bit return.                                          *)
LEMMA MinIsLeast ==
    ASSUME NEW S \in SUBSET Nat, S # {}
    PROVE  Min(S) \in S /\ \A y \in S : Min(S) <= y
<1>. DEFINE R == {ss \in Nat \X Nat : ss[1] < ss[2]}
<1>1. IsWellFoundedOn(R, Nat)
  BY NatLessThanWellFounded, Zenon DEF OpToRel
<1>. HIDE DEF R
<1>2. PICK x \in S : \A y \in S : ~(<<y, x>> \in R)
  BY <1>1, WFMin, Zenon
<1>3. ASSUME NEW y \in S PROVE x <= y
  <2>1. y < x => <<y, x>> \in R
    BY DEF R
  <2>2. ~(y < x)
    BY <1>2, <2>1
  <2>. QED
    BY <2>2
<1>. QED
  BY <1>3 DEF Min

(* A nonempty set of naturals below a bound has a maximum.                 *)
LEMMA MaxIsGreatest ==
    ASSUME NEW S \in SUBSET Nat, S # {}, NEW N \in Nat, \A y \in S : y <= N
    PROVE  Max(S) \in S /\ \A y \in S : y <= Max(S)
<1>. DEFINE D == {N - y : y \in S}
<1>1. D \in SUBSET Nat /\ D # {}
  <2>1. ASSUME NEW y \in S PROVE N - y \in Nat
    <3>1. y \in Nat /\ y <= N
      OBVIOUS
    <3>. QED
      BY <3>1, SMT
  <2>. QED
    BY <2>1, Zenon
<1>2. Min(D) \in D /\ \A y \in D : Min(D) <= y
  BY <1>1, MinIsLeast
<1>3. PICK x \in S : Min(D) = N - x
  BY <1>2
<1>4. \A y \in S : y <= x
  BY <1>2, <1>3
<1>. QED
  BY <1>4 DEF Max

(* Section numbers are naturals below the number of segments.              *)
LEMMA SecsAreNumbers ==
    /\ \A s \in Segs : SecOf(s) \in Secs
    /\ Secs \in SUBSET Nat /\ \A c \in Secs : c <= MainSegs
<1>1. \A s \in Segs : SecOf(s) \in Nat /\ SecOf(s) <= MainSegs
  BY SizesAssumption DEF Segs, SecOf
<1>. QED
  BY <1>1 DEF Secs

(* The index sets are finite, and a segment has BlocksPerSeg offsets.      *)
LEMMA IndexSetsFinite ==
    /\ IsFiniteSet(Segs) /\ IsFiniteSet(Offs) /\ IsFiniteSet(Secs)
    /\ Cardinality(Offs) = BlocksPerSeg
<1>1. IsFiniteSet(Segs)
  BY SizesAssumption, FS_Interval DEF Segs
<1>2. IsFiniteSet(Offs) /\ Cardinality(Offs) = BlocksPerSeg
  BY SizesAssumption, FS_Interval DEF Offs
<1>3. IsFiniteSet(Secs)
  BY SecsAreNumbers, SizesAssumption, FS_BoundedSetOfNaturals
<1>. QED
  BY <1>1, <1>2, <1>3

----------------------------------------------------------------------------
(* Facts about the operators of Segment                                    *)

(* What update_sit_entry leaves in entry b[1].                             *)
Updated(st, b, del, r) ==
    /\ r \in SitType /\ EntriesOK(r)
    /\ r.type = st.type
    /\ r.dirty_sentries = st.dirty_sentries \cup {b[1]}
    /\ r.cur_valid_map = [st.cur_valid_map EXCEPT ![b[1]] =
                            IF del > 0 THEN @ \cup {b[2]} ELSE @ \ {b[2]}]
    /\ r.ckpt_valid_map = [st.ckpt_valid_map EXCEPT ![b[1]] =
                             IF del > 0 /\ st.type[b[1]] = "WARM_NODE"
                             THEN @ \cup {b[2]} ELSE @]

(* update_sit_entry, called to set a clear bit or to clear a set one,      *)
(* changes the maps of one segment only and keeps the counters equal to    *)
(* the sizes of the maps.                                                  *)
LEMMA UpdateSit ==
    ASSUME NEW st \in SitType, EntriesOK(st), NEW b \in Blocks, NEW del \in {1, -1},
           b[2] \in st.cur_valid_map[b[1]] <=> del = -1
    PROVE  Updated(st, b, del, update_sit_entry(st, b, del))
<1>. SUFFICES ASSUME NEW r, r = update_sit_entry(st, b, del)
              PROVE  Updated(st, b, del, r)
  OBVIOUS
<1>. DEFINE s == b[1]
            o == b[2]
            keep == KeepNodeChain(st, s, del)
            gain == CkptDelta(st, s, o, keep, del)
<1>1. s \in Segs /\ o \in Offs /\ SecOf(s) \in Secs
  BY SecsAreNumbers DEF Blocks
<1>2. gain \in Int /\ del \in Int
  BY DEF CkptDelta
<1>3. r = [type |-> st.type,
           valid_blocks |-> [st.valid_blocks EXCEPT ![s] = @ + del],
           ckpt_valid_blocks |-> [st.ckpt_valid_blocks EXCEPT ![s] = @ + gain],
           cur_valid_map |-> [st.cur_valid_map EXCEPT ![s] =
                                IF del > 0 THEN @ \cup {o} ELSE @ \ {o}],
           ckpt_valid_map |-> [st.ckpt_valid_map EXCEPT ![s] = IF keep THEN @ \cup {o} ELSE @],
           dirty_sentries |-> st.dirty_sentries \cup {s},
           written_valid_blocks |-> st.written_valid_blocks + del,
           sec_valid_blocks |-> [st.sec_valid_blocks EXCEPT ![SecOf(s)] =
                                   IF SegsPerSec > 1 THEN @ + del ELSE @]]
  <2>1. (IF (del > 0) = (o \in st.cur_valid_map[s]) THEN 0 ELSE del) = del
    BY SMT
  <2>. QED
    BY <2>1, Zenon DEF update_sit_entry
<1>. HIDE DEF gain, keep
<1>4. /\ r \in SitType
      /\ r.type = st.type
      /\ r.dirty_sentries = st.dirty_sentries \cup {s}
      /\ r.valid_blocks = [st.valid_blocks EXCEPT ![s] = @ + del]
      /\ r.ckpt_valid_blocks = [st.ckpt_valid_blocks EXCEPT ![s] = @ + gain]
      /\ r.cur_valid_map = [st.cur_valid_map EXCEPT ![s] =
                              IF del > 0 THEN @ \cup {o} ELSE @ \ {o}]
      /\ r.ckpt_valid_map = [st.ckpt_valid_map EXCEPT ![s] = IF keep THEN @ \cup {o} ELSE @]
  BY <1>1, <1>2, <1>3 DEF SitType
<1>5. ASSUME NEW q \in Segs, q # s
      PROVE  /\ q \notin r.dirty_sentries => r.ckpt_valid_map[q] = r.cur_valid_map[q]
             /\ r.valid_blocks[q] = Cardinality(r.cur_valid_map[q])
             /\ r.ckpt_valid_blocks[q] = Cardinality(r.cur_valid_map[q] \cup r.ckpt_valid_map[q])
  BY <1>1, <1>4, <1>5 DEF EntriesOK, SitType
<1>6. s \in r.dirty_sentries
  BY <1>4
<1>. DEFINE cur == st.cur_valid_map[s]
            ckpt == st.ckpt_valid_map[s]
<1>7. /\ cur \in SUBSET Offs /\ ckpt \in SUBSET Offs
      /\ IsFiniteSet(cur) /\ IsFiniteSet(ckpt) /\ IsFiniteSet(cur \cup ckpt)
      /\ Cardinality(cur) \in Nat /\ Cardinality(cur \cup ckpt) \in Nat
  <2>1. cur \in SUBSET Offs /\ ckpt \in SUBSET Offs /\ cur \cup ckpt \in SUBSET Offs
    BY <1>1 DEF SitType
  <2>2. IsFiniteSet(cur) /\ IsFiniteSet(ckpt) /\ IsFiniteSet(cur \cup ckpt)
    BY <2>1, IndexSetsFinite, FS_Subset
  <2>. QED
    BY <2>1, <2>2, FS_CardinalityType
<1>8. st.valid_blocks[s] = Cardinality(cur)
      /\ st.ckpt_valid_blocks[s] = Cardinality(cur \cup ckpt)
  BY <1>1 DEF EntriesOK
<1>. HIDE DEF cur, ckpt
<1>9. r.valid_blocks[s] = Cardinality(r.cur_valid_map[s])
  <2>1. r.valid_blocks[s] = Cardinality(cur) + del
    BY <1>1, <1>4, <1>8 DEF SitType
  <2>2. CASE del = 1
    <3>1. r.cur_valid_map[s] = cur \cup {o} /\ o \notin cur
      BY <1>1, <1>4, <2>2 DEF SitType, cur, ckpt
    <3>2. Cardinality(r.cur_valid_map[s]) = Cardinality(cur \cup {o})
      BY <3>1, Zenon
    <3>3. Cardinality(cur \cup {o}) = Cardinality(cur) + 1
      BY <3>1, <1>7, FS_AddElement
    <3>. QED
      BY <2>1, <2>2, <3>2, <3>3
  <2>3. CASE del = -1
    <3>1. r.cur_valid_map[s] = cur \ {o} /\ o \in cur
      BY <1>1, <1>4, <2>3 DEF SitType, cur, ckpt
    <3>2. Cardinality(r.cur_valid_map[s]) = Cardinality(cur \ {o})
      BY <3>1, Zenon
    <3>3. Cardinality(cur \ {o}) = IF o \in cur THEN Cardinality(cur) - 1 ELSE Cardinality(cur)
      BY <1>7, FS_RemoveElement
    <3>. QED
      BY <2>1, <2>3, <3>1, <3>2, <3>3
  <2>. QED
    BY <2>2, <2>3
<1>10. r.ckpt_valid_blocks[s] = Cardinality(r.cur_valid_map[s] \cup r.ckpt_valid_map[s])
  <2>1. r.ckpt_valid_blocks[s] = Cardinality(cur \cup ckpt) + gain
    BY <1>1, <1>4, <1>8 DEF SitType
  <2>2. CASE del = 1
    <3>1. r.cur_valid_map[s] \cup r.ckpt_valid_map[s] = (cur \cup ckpt) \cup {o}
      BY <1>1, <1>4, <2>2 DEF SitType, cur, ckpt
    <3>2. Cardinality((cur \cup ckpt) \cup {o}) =
            IF o \in cur \cup ckpt THEN Cardinality(cur \cup ckpt)
                                  ELSE Cardinality(cur \cup ckpt) + 1
      BY <1>7, FS_AddElement
    <3>3. gain = IF o \in cur \cup ckpt THEN 0 ELSE 1
      BY <2>2 DEF CkptDelta, gain, cur, ckpt
    <3>4. Cardinality(r.cur_valid_map[s] \cup r.ckpt_valid_map[s]) =
            Cardinality((cur \cup ckpt) \cup {o})
      BY <3>1, Zenon
    <3>. QED
      BY <2>1, <3>2, <3>3, <3>4, <1>7
  <2>3. CASE del = -1
    <3>1. r.cur_valid_map[s] = cur \ {o} /\ r.ckpt_valid_map[s] = ckpt /\ o \in cur
      BY <1>1, <1>4, <2>3 DEF SitType, cur, ckpt, KeepNodeChain, keep
    <3>2. CASE o \in ckpt
      <4>1. (cur \ {o}) \cup ckpt = cur \cup ckpt
        BY <3>2
      <4>2. gain = 0
        BY <3>2 DEF CkptDelta, gain, cur, ckpt
      <4>3. Cardinality(r.cur_valid_map[s] \cup r.ckpt_valid_map[s]) = Cardinality(cur \cup ckpt)
        BY <3>1, <4>1, Zenon
      <4>. QED
        BY <2>1, <4>2, <4>3, <1>7
    <3>3. CASE o \notin ckpt
      <4>1. (cur \ {o}) \cup ckpt = (cur \cup ckpt) \ {o}
        BY <3>3
      <4>2. Cardinality((cur \cup ckpt) \ {o}) = Cardinality(cur \cup ckpt) - 1
        <5>1. o \in cur \cup ckpt
          BY <3>1
        <5>2. Cardinality((cur \cup ckpt) \ {o}) =
                IF o \in cur \cup ckpt THEN Cardinality(cur \cup ckpt) - 1
                                      ELSE Cardinality(cur \cup ckpt)
          BY <1>7, FS_RemoveElement
        <5>. QED
          BY <5>1, <5>2
      <4>3. gain = -1
        BY <2>3, <3>3 DEF CkptDelta, gain, cur, ckpt, KeepNodeChain, keep
      <4>4. Cardinality(r.cur_valid_map[s] \cup r.ckpt_valid_map[s]) =
              Cardinality((cur \cup ckpt) \ {o})
        BY <3>1, <4>1, Zenon
      <4>. QED
        BY <2>1, <4>2, <4>3, <4>4, <1>7
    <3>. QED
      BY <3>2, <3>3
  <2>. QED
    BY <2>2, <2>3
<1>11. EntriesOK(r)
  BY <1>5, <1>6, <1>9, <1>10 DEF EntriesOK
<1>. QED
  BY <1>4, <1>11 DEF KeepNodeChain, keep, Updated

(* The lists of dirty segments: what the helpers do to the prefree list.   *)
LEMMA DirtyHelpers ==
    ASSUME NEW d \in DirtyType, NEW s \in Segs, NEW t \in DirtyTypes
    PROVE  /\ AddDirty(d, s, t) \in DirtyType /\ DropDirty(d, s, t) \in DirtyType
           /\ t # "PRE" => /\ AddDirty(d, s, t).dirty_segmap["PRE"] = d.dirty_segmap["PRE"]
                           /\ DropDirty(d, s, t).dirty_segmap["PRE"] = d.dirty_segmap["PRE"]
           /\ t = "PRE" =>
                /\ AddDirty(d, s, t).dirty_segmap["PRE"] = d.dirty_segmap["PRE"] \cup {s}
                /\ DropDirty(d, s, t).dirty_segmap["PRE"] = d.dirty_segmap["PRE"] \ {s}
<1>1. AddDirty(d, s, t) \in DirtyType /\ DropDirty(d, s, t) \in DirtyType
  BY DEF AddDirty, DropDirty, DirtyType
<1>2. "PRE" \in DirtyTypes
  BY DEF DirtyTypes
<1>. QED
  BY <1>1, <1>2 DEF AddDirty, DropDirty, DirtyType

(* __remove_dirty_segment takes a segment off the prefree list only when   *)
(* it is asked to.                                                         *)
LEMMA RemoveDirty ==
    ASSUME NEW d \in DirtyType, NEW st \in SitType, NEW s \in Segs
    PROVE  /\ __remove_dirty_segment(d, st, s, "PRE") \in DirtyType
           /\ __remove_dirty_segment(d, st, s, "DIRTY") \in DirtyType
           /\ __remove_dirty_segment(d, st, s, "PRE").dirty_segmap["PRE"]
                = d.dirty_segmap["PRE"] \ {s}
           /\ __remove_dirty_segment(d, st, s, "DIRTY").dirty_segmap["PRE"]
                = d.dirty_segmap["PRE"]
<1>1. {"PRE", "DIRTY"} \subseteq DirtyTypes /\ st.type[s] \in DirtyTypes /\ st.type[s] # "PRE"
  BY DEF DirtyTypes, AllLogs, DataLogs, NodeLogs, SitType
<1>2. /\ __remove_dirty_segment(d, st, s, "PRE") = DropDirty(d, s, "PRE")
      /\ DropDirty(d, s, "PRE") \in DirtyType
      /\ DropDirty(d, s, "PRE").dirty_segmap["PRE"] = d.dirty_segmap["PRE"] \ {s}
  BY <1>1, DirtyHelpers, SMTT(40) DEF __remove_dirty_segment
<1>. DEFINE e == DropDirty(DropDirty(d, s, "DIRTY"), s, st.type[s])
<1>3. e \in DirtyType /\ e.dirty_segmap["PRE"] = d.dirty_segmap["PRE"]
  <2>1. /\ DropDirty(d, s, "DIRTY") \in DirtyType
        /\ DropDirty(d, s, "DIRTY").dirty_segmap["PRE"] = d.dirty_segmap["PRE"]
    BY <1>1, DirtyHelpers
  <2>. QED
    BY <1>1, <2>1, DirtyHelpers
<1>. DEFINE V == IF get_valid_blocks(st, s, TRUE) = 0
                 THEN e.victim_secmap \ {SecOf(s)} ELSE e.victim_secmap
<1>4. __remove_dirty_segment(d, st, s, "DIRTY") = [e EXCEPT !.victim_secmap = V]
  BY Zenon DEF __remove_dirty_segment
<1>5. V \in SUBSET Secs
  BY <1>3 DEF DirtyType
<1>. HIDE DEF e, V
<1>. QED
  BY <1>2, <1>3, <1>4, <1>5 DEF DirtyType

(* locate_dirty_segment adds to the prefree list at most the segment it    *)
(* classifies, and only an empty one that belongs to no log.               *)
LEMMA LocateDirty ==
    ASSUME NEW d \in DirtyType, NEW st \in SitType, NEW cs, NEW s \in Segs,
           NEW r, r = locate_dirty_segment(d, st, cs, s)
    PROVE  /\ r \in DirtyType
           /\ \/ r.dirty_segmap["PRE"] = d.dirty_segmap["PRE"]
              \/ /\ r.dirty_segmap["PRE"] = d.dirty_segmap["PRE"] \cup {s}
                 /\ s \notin CurSegs(cs) /\ st.valid_blocks[s] = 0
<1>1. {"PRE", "DIRTY"} \subseteq DirtyTypes /\ st.type[s] \in DirtyTypes /\ st.type[s] # "PRE"
  BY DEF DirtyTypes, AllLogs, DataLogs, NodeLogs, SitType
<1>2. CASE s \in CurSegs(cs)
  BY <1>2 DEF locate_dirty_segment, IS_CURSEG
<1>3. CASE s \notin CurSegs(cs) /\ st.valid_blocks[s] = 0
  <2>1. r = __remove_dirty_segment(AddDirty(d, s, "PRE"), st, s, "DIRTY")
    BY <1>3 DEF locate_dirty_segment, __locate_dirty_segment, IS_CURSEG
  <2>2. /\ AddDirty(d, s, "PRE") \in DirtyType
        /\ AddDirty(d, s, "PRE").dirty_segmap["PRE"] = d.dirty_segmap["PRE"] \cup {s}
    BY <1>1, DirtyHelpers
  <2>. QED
    BY <1>3, <2>1, <2>2, RemoveDirty
<1>4. CASE s \notin CurSegs(cs) /\ st.valid_blocks[s] # 0 /\ st.valid_blocks[s] < BlocksPerSeg
  <2>1. r = AddDirty(AddDirty(d, s, "DIRTY"), s, st.type[s])
    BY <1>4 DEF locate_dirty_segment, __locate_dirty_segment, IS_CURSEG
  <2>2. /\ AddDirty(d, s, "DIRTY") \in DirtyType
        /\ AddDirty(d, s, "DIRTY").dirty_segmap["PRE"] = d.dirty_segmap["PRE"]
    BY <1>1, DirtyHelpers
  <2>. QED
    BY <1>1, <2>1, <2>2, DirtyHelpers, SMTT(40)
<1>5. CASE s \notin CurSegs(cs) /\ st.valid_blocks[s] # 0 /\ ~(st.valid_blocks[s] < BlocksPerSeg)
  <2>1. r = __remove_dirty_segment(d, st, s, "DIRTY")
    BY <1>5 DEF locate_dirty_segment, IS_CURSEG
  <2>. QED
    BY <2>1, RemoveDirty
<1>. QED
  BY <1>2, <1>3, <1>4, <1>5

----------------------------------------------------------------------------
(* Facts about the choice of a new current segment                         *)

(* __set_test_and_inuse adds one segment and keeps its section in step.    *)
LEMMA SetInuse ==
    ASSUME NEW f \in FreeType, NEW s \in Segs, NEW r, r = __set_test_and_inuse(f, s)
    PROVE  /\ r \in FreeType /\ r.inuse = f.inuse \cup {s}
           /\ (\A q \in f.inuse : SecOf(q) \in f.inuse_sec)
                => \A q \in r.inuse : SecOf(q) \in r.inuse_sec
<1>1. SecOf(s) \in Secs
  BY SecsAreNumbers
<1>2. CASE s \in f.inuse
  BY <1>2 DEF __set_test_and_inuse
<1>3. CASE s \notin f.inuse
  <2>1. /\ r \in FreeType /\ r.inuse = f.inuse \cup {s}
        /\ r.inuse_sec = f.inuse_sec \cup {SecOf(s)}
    BY <1>1, <1>3 DEF __set_test_and_inuse, FreeType
  <2>. QED
    BY <2>1
<1>. QED
  BY <1>2, <1>3

(* The next hole of a segment is outside both maps, and a segment with a   *)
(* block to spare has one.                                                 *)
LEMMA NextHole ==
    ASSUME NEW st \in SitType, NEW s \in Segs, NEW start \in Nat,
           NEW r, r = __next_free_blkoff(st, s, start)
    PROVE  /\ r \in 0 .. BlocksPerSeg
           /\ r < BlocksPerSeg => r >= start
           /\ r < BlocksPerSeg => r \notin st.cur_valid_map[s] \cup st.ckpt_valid_map[s]
           /\ EntriesOK(st) /\ start = 0 /\ st.ckpt_valid_blocks[s] < BlocksPerSeg
                => r < BlocksPerSeg
<1>. DEFINE used == st.cur_valid_map[s] \cup st.ckpt_valid_map[s]
            holes == {o \in Offs : o >= start} \ (st.ckpt_valid_map[s] \cup st.cur_valid_map[s])
<1>1. holes \in SUBSET Nat /\ holes \subseteq Offs
  BY SizesAssumption DEF Offs
<1>2. r = IF holes = {} THEN BlocksPerSeg ELSE Min(holes)
  BY DEF __next_free_blkoff
<1>3. holes # {} => Min(holes) \in holes
  BY <1>1, MinIsLeast
<1>4. r \in 0 .. BlocksPerSeg /\ (r < BlocksPerSeg => r >= start /\ r \notin used)
  BY <1>1, <1>2, <1>3, SizesAssumption DEF Offs
<1>5. ASSUME EntriesOK(st), start = 0, st.ckpt_valid_blocks[s] < BlocksPerSeg
      PROVE  holes # {}
  <2>1. SUFFICES ASSUME holes = {} PROVE FALSE
    OBVIOUS
  <2>2. used = Offs
    <3>1. used \subseteq Offs
      BY DEF SitType
    <3>2. \A o \in Offs : o >= start
      BY <1>5 DEF Offs
    <3>. QED
      BY <2>1, <3>1, <3>2
  <2>3. Cardinality(used) = Cardinality(Offs)
    BY <2>2, Zenon
  <2>4. st.ckpt_valid_blocks[s] = Cardinality(used)
    BY <1>5 DEF EntriesOK
  <2>. HIDE DEF used
  <2>. QED
    BY <1>5, <2>3, <2>4, IndexSetsFinite, SizesAssumption
<1>6. EntriesOK(st) /\ start = 0 /\ st.ckpt_valid_blocks[s] < BlocksPerSeg => r < BlocksPerSeg
  <2>. HIDE DEF holes
  <2>. SUFFICES ASSUME EntriesOK(st), start = 0, st.ckpt_valid_blocks[s] < BlocksPerSeg
                PROVE  r < BlocksPerSeg
    OBVIOUS
  <2>1. r = Min(holes) /\ Min(holes) \in Offs
    BY <1>1, <1>2, <1>3, <1>5
  <2>. QED
    BY <2>1, SizesAssumption DEF Offs
<1>. QED
  BY <1>4, <1>6

(* A section that get_new_segment picks is free, whatever the hint.        *)
LEMMA PickedSecIsFree ==
    ASSUME NEW f \in FreeType, FreeSecs(f) # {}, NEW hint, NEW dir
    PROVE  PickSec(f, hint, dir) \in FreeSecs(f)
<1>. DEFINE right == {c \in FreeSecs(f) : c >= hint}
<1>1. FreeSecs(f) \in SUBSET Nat /\ \A c \in FreeSecs(f) : c <= MainSegs
  BY SecsAreNumbers DEF FreeSecs
<1>2. right # {} => Min(right) \in right
  BY <1>1, MinIsLeast
<1>3. Min(FreeSecs(f)) \in FreeSecs(f)
  BY <1>1, MinIsLeast
<1>4. Max(FreeSecs(f)) \in FreeSecs(f)
  BY <1>1, MaxIsGreatest, SizesAssumption
<1>. HIDE DEF right
<1>5. PickSec(f, hint, dir) = IF right # {} THEN Min(right)
        ELSE IF dir = "RIGHT" THEN Min(FreeSecs(f)) ELSE Max(FreeSecs(f))
  BY Zenon DEF PickSec, right
<1>6. right \subseteq FreeSecs(f)
  BY DEF right
<1>. QED
  BY <1>2, <1>3, <1>4, <1>5, <1>6

(* get_new_segment never returns a segment that is in use.                 *)
LEMMA NewSegmentIsFree ==
    ASSUME NEW f \in FreeType, \A q \in f.inuse : SecOf(q) \in f.inuse_sec,
           NEW cs, NEW newseg \in Segs, NEW new_sec \in BOOLEAN, NEW dir,
           CanGetNewSegment(f, newseg, new_sec)
    PROVE  get_new_segment(f, cs, newseg, new_sec, dir) \in Segs \ f.inuse
<1>. DEFINE rest == {s \in SegsOf(SecOf(newseg)) \ f.inuse : s > newseg}
            sec == NewSection(f, cs, newseg, dir)
<1>1. CASE ~new_sec /\ rest # {}
  <2>1. rest \in SUBSET Nat /\ rest \subseteq Segs \ f.inuse
    BY DEF SegsOf, Segs
  <2>2. Min(rest) \in rest
    BY <1>1, <2>1, MinIsLeast
  <2>3. get_new_segment(f, cs, newseg, new_sec, dir) = Min(rest)
    BY <1>1, Zenon DEF get_new_segment
  <2>. QED
    BY <2>1, <2>2, <2>3
<1>2. CASE ~(~new_sec /\ rest # {})
  <2>1. FreeSecs(f) # {}
    BY <1>2 DEF CanGetNewSegment
  <2>2. sec \in FreeSecs(f)
    BY <2>1, PickedSecIsFree DEF NewSection
  <2>. HIDE DEF sec
  <2>3. get_new_segment(f, cs, newseg, new_sec, dir) = FirstSeg(sec)
    BY <1>2, Zenon DEF get_new_segment, sec
  <2>4. SegsOf(sec) \in SUBSET Nat /\ SegsOf(sec) # {}
    BY <2>2 DEF SegsOf, FreeSecs, Secs, Segs
  <2>5. FirstSeg(sec) \in SegsOf(sec)
    BY <2>4, MinIsLeast DEF FirstSeg
  <2>6. SegsOf(sec) \subseteq Segs \ f.inuse
    BY <2>2 DEF SegsOf, FreeSecs
  <2>. QED
    BY <2>3, <2>5, <2>6
<1>. QED
  BY <1>1, <1>2

----------------------------------------------------------------------------
(* The invariant during an allocation, when the logs of L are in order     *)

AllocType == [sit : SitType, free : FreeType, dirty : DirtyType, curseg : CursegType]

AllocOK(x, L) ==
    /\ x \in AllocType
    /\ EntriesOK(x.sit)
    /\ LogsOK(L, x.curseg, x.sit.type, x.sit.cur_valid_map, x.sit.ckpt_valid_map, x.free.inuse)
    /\ FreeOK(x.free, x.sit)
    /\ PreOK(x.dirty, x.sit, x.curseg)
    /\ x.dirty.dirty_segmap["PRE"] \subseteq x.free.inuse

(* What reset_curseg leaves, field by field.                               *)
ResetTo(x, t, s, mode, off, y) ==
    /\ y \in AllocType
    /\ y.sit.type = [x.sit.type EXCEPT ![s] = t]
    /\ y.sit.dirty_sentries = x.sit.dirty_sentries \cup {s}
    /\ y.sit.cur_valid_map = x.sit.cur_valid_map
    /\ y.sit.ckpt_valid_map = x.sit.ckpt_valid_map
    /\ y.sit.valid_blocks = x.sit.valid_blocks
    /\ y.sit.ckpt_valid_blocks = x.sit.ckpt_valid_blocks
    /\ y.sit.written_valid_blocks = x.sit.written_valid_blocks
    /\ y.sit.sec_valid_blocks = x.sit.sec_valid_blocks
    /\ y.free = x.free /\ y.dirty = x.dirty
    /\ y.curseg = [x.curseg EXCEPT ![t] =
                     [segno |-> s, next_blkoff |-> off, alloc_type |-> mode]]

(* reset_curseg changes the type and the dirty mark of one entry, and one  *)
(* log; block maps, counters and lists stay.                               *)
LEMMA ResetCurseg ==
    ASSUME NEW x \in AllocType, NEW t \in Logs, NEW s \in Segs,
           NEW mode \in {"LFS", "SSR"}, NEW off \in 0 .. BlocksPerSeg
    PROVE  ResetTo(x, t, s, mode, off, reset_curseg(x, t, s, mode, off))
<1>. SUFFICES ASSUME NEW y, y = reset_curseg(x, t, s, mode, off)
              PROVE  ResetTo(x, t, s, mode, off, y)
  OBVIOUS
<1>1. t \in AllLogs
  BY LogsAssumption
<1>. DEFINE st == [x.sit EXCEPT !.type = [x.sit.type EXCEPT ![s] = t],
                                !.dirty_sentries = x.sit.dirty_sentries \cup {s}]
            cs == [x.curseg EXCEPT ![t] =
                     [segno |-> s, next_blkoff |-> off, alloc_type |-> mode]]
<1>2. y = [sit |-> st, free |-> x.free, dirty |-> x.dirty, curseg |-> cs]
  BY DEF reset_curseg, AllocType, SitType
<1>3. cs \in CursegType
  BY DEF AllocType, CursegType
<1>4. /\ st \in SitType
      /\ st.type = [x.sit.type EXCEPT ![s] = t]
      /\ st.dirty_sentries = x.sit.dirty_sentries \cup {s}
      /\ st.cur_valid_map = x.sit.cur_valid_map
      /\ st.ckpt_valid_map = x.sit.ckpt_valid_map
      /\ st.valid_blocks = x.sit.valid_blocks
      /\ st.ckpt_valid_blocks = x.sit.ckpt_valid_blocks
      /\ st.written_valid_blocks = x.sit.written_valid_blocks
      /\ st.sec_valid_blocks = x.sit.sec_valid_blocks
  BY <1>1 DEF AllocType, SitType
<1>. HIDE DEF st, cs
<1>5. y \in AllocType /\ y.sit = st /\ y.free = x.free /\ y.dirty = x.dirty /\ y.curseg = cs
  BY <1>2, <1>3, <1>4 DEF AllocType
<1>. QED
  BY <1>4, <1>5 DEF cs, ResetTo

(* Log t moves to segment s, as in new_curseg and change_curseg.           *)
Moved(x, t, s, d, mode, off) ==
    reset_curseg([x EXCEPT !.free = __set_test_and_inuse(@, s), !.dirty = d], t, s, mode, off)
MovedTo(x, t, s, c, y) ==
    /\ AllocOK(y, Logs \ {t})
    /\ y.sit.cur_valid_map = x.sit.cur_valid_map
    /\ y.sit.ckpt_valid_map = x.sit.ckpt_valid_map
    /\ y.sit.type[s] = t
    /\ y.free.inuse = x.free.inuse \cup {s}
    /\ y.curseg = [x.curseg EXCEPT ![t] = c]

(* If no other log has s and s leaves the prefree list, the other logs and *)
(* everything else stay in order.                                          *)
LEMMA Switch ==
    ASSUME NEW x, NEW t \in Logs, AllocOK(x, Logs \ {t}),
           NEW s \in Segs, \A u \in Logs \ {t} : x.curseg[u].segno # s,
           NEW mode \in {"LFS", "SSR"}, NEW off \in 0 .. BlocksPerSeg,
           NEW d \in DirtyType, d.dirty_segmap["PRE"] \subseteq x.dirty.dirty_segmap["PRE"] \ {s}
    PROVE  MovedTo(x, t, s, [segno |-> s, next_blkoff |-> off, alloc_type |-> mode],
                   Moved(x, t, s, d, mode, off))
<1>. SUFFICES ASSUME NEW y, y = Moved(x, t, s, d, mode, off)
              PROVE  MovedTo(x, t, s, [segno |-> s, next_blkoff |-> off, alloc_type |-> mode], y)
  OBVIOUS
<1>. DEFINE f == __set_test_and_inuse(x.free, s)
<1>0. x \in AllocType
  BY DEF AllocOK
<1>1. /\ f \in FreeType /\ f.inuse = x.free.inuse \cup {s}
      /\ \A q \in f.inuse : SecOf(q) \in f.inuse_sec
  BY <1>0, SetInuse DEF AllocOK, FreeOK, AllocType
<1>. HIDE DEF f
<1>. DEFINE z == [x EXCEPT !.free = f, !.dirty = d]
<1>2. /\ y = reset_curseg(z, t, s, mode, off)
      /\ z \in AllocType /\ z.sit = x.sit /\ z.curseg = x.curseg /\ z.free = f /\ z.dirty = d
  <2>1. y = reset_curseg(z, t, s, mode, off)
    BY Zenon DEF f, Moved
  <2>2. z \in AllocType /\ z.sit = x.sit /\ z.curseg = x.curseg /\ z.free = f /\ z.dirty = d
    BY <1>0, <1>1 DEF AllocType
  <2>. QED
    BY <2>1, <2>2
<1>. HIDE DEF z
<1>3. /\ y \in AllocType
      /\ y.sit.type = [x.sit.type EXCEPT ![s] = t]
      /\ y.sit.dirty_sentries = x.sit.dirty_sentries \cup {s}
      /\ y.sit.cur_valid_map = x.sit.cur_valid_map
      /\ y.sit.ckpt_valid_map = x.sit.ckpt_valid_map
      /\ y.sit.valid_blocks = x.sit.valid_blocks
      /\ y.sit.ckpt_valid_blocks = x.sit.ckpt_valid_blocks
      /\ y.free = f /\ y.dirty = d
      /\ y.curseg = [x.curseg EXCEPT ![t] =
                       [segno |-> s, next_blkoff |-> off, alloc_type |-> mode]]
  <2>1. ResetTo(z, t, s, mode, off, y)
    BY <1>2, ResetCurseg
  <2>. QED
    BY <1>2, <2>1, Zenon DEF ResetTo
<1>4. EntriesOK(y.sit)
  BY <1>0, <1>3 DEF AllocOK, EntriesOK
<1>5. y.sit.type[s] = t /\ \A q \in Segs \ {s} : y.sit.type[q] = x.sit.type[q]
  BY <1>0, <1>3 DEF AllocType, SitType
<1>6. /\ \A u \in Logs \ {t} : y.curseg[u] = x.curseg[u]
      /\ y.curseg[t].segno = s
      /\ \A u \in Logs : x.curseg[u].segno \in Segs
  BY <1>0, <1>3 DEF AllocType, CursegType
<1>7. LogsOK(Logs \ {t}, y.curseg, y.sit.type, y.sit.cur_valid_map, y.sit.ckpt_valid_map, y.free.inuse)
  <2>. SUFFICES ASSUME NEW u \in Logs \ {t}
                PROVE  /\ LogOK(y.curseg[u], y.sit.cur_valid_map, y.sit.ckpt_valid_map)
                       /\ y.sit.type[y.curseg[u].segno] = u
                       /\ y.curseg[u].segno \in y.free.inuse
                       /\ \A v \in Logs \ {u} : y.curseg[v].segno # y.curseg[u].segno
    BY Zenon DEF LogsOK
  <2>1. /\ LogOK(x.curseg[u], x.sit.cur_valid_map, x.sit.ckpt_valid_map)
        /\ x.sit.type[x.curseg[u].segno] = u
        /\ x.curseg[u].segno \in x.free.inuse
        /\ \A v \in Logs \ {u} : x.curseg[v].segno # x.curseg[u].segno
    BY Zenon DEF LogsOK, AllocOK
  <2>2. LogOK(y.curseg[u], y.sit.cur_valid_map, y.sit.ckpt_valid_map)
    BY <2>1, <1>3, <1>6, Zenon
  <2>. QED
    BY <2>1, <2>2, <1>1, <1>3, <1>5, <1>6
<1>8. FreeOK(y.free, y.sit)
  BY <1>1, <1>3 DEF AllocOK, FreeOK
<1>9. PreOK(y.dirty, y.sit, y.curseg)
  <2>1. CurSegs(y.curseg) \subseteq CurSegs(x.curseg) \cup {s}
    BY <1>6 DEF CurSegs
  <2>. QED
    BY <2>1, <1>3 DEF AllocOK, PreOK
<1>10. y.dirty.dirty_segmap["PRE"] \subseteq y.free.inuse
  BY <1>1, <1>3 DEF AllocOK
<1>11. AllocOK(y, Logs \ {t})
  BY <1>3, <1>4, <1>7, <1>8, <1>9, <1>10 DEF AllocOK
<1>. QED
  BY <1>1, <1>3, <1>5, <1>11, Zenon DEF MovedTo

(* All logs are in order once log t is.                                    *)
LEMMA AllLogsOK ==
    ASSUME NEW x, NEW t \in Logs, AllocOK(x, Logs \ {t}),
           LogOK(x.curseg[t], x.sit.cur_valid_map, x.sit.ckpt_valid_map),
           x.sit.type[x.curseg[t].segno] = t, x.curseg[t].segno \in x.free.inuse
    PROVE  AllocOK(x, Logs)
<1>1. \A u \in Logs \ {t} : x.curseg[u].segno # x.curseg[t].segno
  BY DEF AllocOK, LogsOK
<1>2. LogsOK(Logs, x.curseg, x.sit.type, x.sit.cur_valid_map, x.sit.ckpt_valid_map, x.free.inuse)
  BY <1>1 DEF AllocOK, LogsOK
<1>. QED
  BY <1>2 DEF AllocOK

(* new_curseg puts log t in order on a free segment.                       *)
LEMMA NewCurseg ==
    ASSUME NEW x, NEW t \in Logs, AllocOK(x, Logs \ {t}), NEW new_sec \in BOOLEAN,
           CanGetNewSegment(x.free, __get_next_segno(x.curseg, t), new_sec),
           NEW y, y = new_curseg(x, t, new_sec)
    PROVE  /\ AllocOK(y, Logs)
           /\ y.sit.cur_valid_map = x.sit.cur_valid_map
           /\ y.sit.ckpt_valid_map = x.sit.ckpt_valid_map
           /\ x.free.inuse \subseteq y.free.inuse
<1>. DEFINE dir == IF t \in {"WARM_DATA", "COLD_DATA"} THEN "RIGHT" ELSE "LEFT"
            hint == __get_next_segno(x.curseg, t)
            s == get_new_segment(x.free, x.curseg, hint, new_sec, dir)
            c == [segno |-> s, next_blkoff |-> 0, alloc_type |-> "LFS"]
<1>1. x \in AllocType /\ FreeOK(x.free, x.sit)
  BY DEF AllocOK
<1>2. hint \in Segs
  BY <1>1, SizesAssumption DEF __get_next_segno, AllocType, CursegType, Segs
<1>3. s \in Segs \ x.free.inuse
  BY <1>1, <1>2, NewSegmentIsFree DEF AllocType, FreeOK
<1>4. y = reset_curseg([x EXCEPT !.free = __set_test_and_inuse(@, s)], t, s, "LFS", 0)
  BY Zenon DEF new_curseg
<1>. HIDE DEF s, c
<1>5. [x EXCEPT !.free = __set_test_and_inuse(@, s)]
        = [x EXCEPT !.free = __set_test_and_inuse(@, s), !.dirty = x.dirty]
  BY <1>1 DEF AllocType
<1>6. \A u \in Logs \ {t} : x.curseg[u].segno # s
  BY <1>3 DEF AllocOK, LogsOK
<1>7. x.dirty \in DirtyType /\ x.dirty.dirty_segmap["PRE"] \subseteq x.dirty.dirty_segmap["PRE"] \ {s}
  BY <1>1, <1>3 DEF AllocOK, AllocType
<1>8. 0 \in 0 .. BlocksPerSeg
  BY SizesAssumption
<1>9. MovedTo(x, t, s, c, y)
  <2>1. y = Moved(x, t, s, x.dirty, "LFS", 0)
    BY <1>4, <1>5, Zenon DEF Moved
  <2>. QED
    BY <1>3, <1>6, <1>7, <1>8, <2>1, Switch DEF c
<1>10. y.curseg[t] = c /\ c.segno = s
  BY <1>1, <1>9 DEF AllocType, CursegType, MovedTo, c
<1>11. LogOK(c, y.sit.cur_valid_map, y.sit.ckpt_valid_map)
  <2>1. y.sit.cur_valid_map[s] = {} /\ y.sit.ckpt_valid_map[s] = {}
    BY <1>1, <1>3, <1>9 DEF FreeOK, MovedTo
  <2>. QED
    BY <2>1, SizesAssumption DEF LogOK, c
<1>12. AllocOK(y, Logs)
  BY <1>9, <1>10, <1>11, AllLogsOK DEF MovedTo
<1>. QED
  BY <1>9, <1>12 DEF MovedTo

(* What change_curseg leaves.                                              *)
ChangedTo(x, t, s, y) ==
    /\ AllocOK(y, Logs \ {t})
    /\ y.sit.cur_valid_map = x.sit.cur_valid_map
    /\ y.sit.ckpt_valid_map = x.sit.ckpt_valid_map
    /\ y.sit.type[s] = t
    /\ y.free.inuse = x.free.inuse \cup {s}
    /\ y.curseg[t].segno = s /\ y.curseg[t].alloc_type = "SSR"
    /\ \A u \in Logs \ {t} : y.curseg[u] = x.curseg[u]
    /\ x.sit.ckpt_valid_blocks[s] < BlocksPerSeg => AllocOK(y, Logs)

(* change_curseg moves log t to segment s; it puts t in order if s has a   *)
(* block to spare.                                                         *)
LEMMA ChangeCurseg ==
    ASSUME NEW x, NEW t \in Logs, AllocOK(x, Logs \ {t}),
           NEW s \in Segs, \A u \in Logs \ {t} : x.curseg[u].segno # s
    PROVE  ChangedTo(x, t, s, change_curseg(x, t, s))
<1>. SUFFICES ASSUME NEW y, y = change_curseg(x, t, s)
              PROVE  ChangedTo(x, t, s, y)
  OBVIOUS
<1>. DEFINE d1 == __remove_dirty_segment(x.dirty, x.sit, s, "PRE")
            d2 == __remove_dirty_segment(d1, x.sit, s, "DIRTY")
            off == __next_free_blkoff(x.sit, s, 0)
            c == [segno |-> s, next_blkoff |-> off, alloc_type |-> "SSR"]
<1>1. /\ x \in AllocType /\ EntriesOK(x.sit)
      /\ x.sit \in SitType /\ x.dirty \in DirtyType
  BY DEF AllocOK, AllocType
<1>2. d1 \in DirtyType /\ d1.dirty_segmap["PRE"] = x.dirty.dirty_segmap["PRE"] \ {s}
  BY <1>1, RemoveDirty
<1>3. d2 \in DirtyType /\ d2.dirty_segmap["PRE"] = x.dirty.dirty_segmap["PRE"] \ {s}
  <2>. HIDE DEF d1
  <2>. QED
    BY <1>1, <1>2, RemoveDirty
<1>4. /\ off \in 0 .. BlocksPerSeg
      /\ off < BlocksPerSeg => off \notin x.sit.cur_valid_map[s] \cup x.sit.ckpt_valid_map[s]
      /\ x.sit.ckpt_valid_blocks[s] < BlocksPerSeg => off < BlocksPerSeg
  BY <1>1, NextHole
<1>5. y = Moved(x, t, s, d2, "SSR", off)
  BY Zenon DEF change_curseg, Moved
<1>. HIDE DEF off, d2, c
<1>6. MovedTo(x, t, s, c, y)
  BY <1>3, <1>4, <1>5, Switch DEF c
<1>7. /\ y.curseg[t] = c /\ c.segno = s /\ c.alloc_type = "SSR"
      /\ \A u \in Logs \ {t} : y.curseg[u] = x.curseg[u]
  BY <1>1, <1>6 DEF AllocType, CursegType, MovedTo, c
<1>8. ASSUME x.sit.ckpt_valid_blocks[s] < BlocksPerSeg PROVE AllocOK(y, Logs)
  <2>1. LogOK(c, y.sit.cur_valid_map, y.sit.ckpt_valid_map)
    BY <1>4, <1>6, <1>8 DEF LogOK, c, MovedTo
  <2>. QED
    BY <1>6, <1>7, <2>1, AllLogsOK DEF MovedTo
<1>. QED
  BY <1>6, <1>7, <1>8 DEF MovedTo, ChangedTo

(* locate_dirty_segment of a segment in use keeps everything in order.     *)
LEMMA LocateKeeps ==
    ASSUME NEW d \in DirtyType, NEW st \in SitType, EntriesOK(st), NEW cs, PreOK(d, st, cs),
           NEW s \in Segs, NEW r, r = locate_dirty_segment(d, st, cs, s)
    PROVE  /\ r \in DirtyType /\ PreOK(r, st, cs)
           /\ r.dirty_segmap["PRE"] \subseteq d.dirty_segmap["PRE"] \cup {s}
<1>1. /\ r \in DirtyType
      /\ \/ r.dirty_segmap["PRE"] = d.dirty_segmap["PRE"]
         \/ /\ r.dirty_segmap["PRE"] = d.dirty_segmap["PRE"] \cup {s}
            /\ s \notin CurSegs(cs) /\ st.valid_blocks[s] = 0
  BY LocateDirty
<1>2. st.valid_blocks[s] = 0 => st.cur_valid_map[s] = {}
  <2>1. st.valid_blocks[s] = Cardinality(st.cur_valid_map[s])
    BY DEF EntriesOK
  <2>2. IsFiniteSet(st.cur_valid_map[s])
    <3>1. st.cur_valid_map[s] \in SUBSET Offs
      BY DEF SitType
    <3>. QED
      BY <3>1, IndexSetsFinite, FS_Subset
  <2>. QED
    BY <2>1, <2>2, FS_EmptySet
<1>. QED
  BY <1>1, <1>2 DEF PreOK

(* An SSR victim belongs to no log and has a block to spare.               *)
LEMMA SsrSegments ==
    ASSUME NEW x \in AllocType, NEW victim, NEW t \in Logs, NEW s \in get_ssr_segment(x, victim, t)
    PROVE  /\ s \in Segs /\ \A u \in Logs : x.curseg[u].segno # s
           /\ x.sit.ckpt_valid_blocks[s] < BlocksPerSeg
<1>1. ASSUME NEW i \in 1 .. 3 PROVE SsrOrder(t)[i] \in DirtyTypes
  BY LogsAssumption DEF SsrOrder, DirtyTypes, AllLogs, DataLogs, NodeLogs
<1>2. PICK i \in 1 .. 3 : s \in SsrVictims(x, victim, SsrOrder(t)[i])
  BY DEF get_ssr_segment
<1>. DEFINE k == SsrOrder(t)[i]
<1>. HIDE DEF k
<1>3. k \in DirtyTypes /\ s \in SsrVictims(x, victim, k)
  BY <1>1, <1>2 DEF k
<1>4. /\ s \in x.dirty.dirty_segmap[k]
      /\ ~IS_CURSEC(x.curseg, SecOf(s))
      /\ x.sit.ckpt_valid_blocks[s] < BlocksPerSeg
  BY <1>3 DEF SsrVictims, sec_usage_check, get_gc_cost
<1>. QED
  BY <1>3, <1>4 DEF AllocType, DirtyType, IS_CURSEC

(* Log t, whose segment was full, has got another one, and everything is   *)
(* in order.                                                               *)
AllocatedTo(x, y) ==
    /\ AllocOK(y, Logs)
    /\ y.sit.cur_valid_map = x.sit.cur_valid_map
    /\ y.sit.ckpt_valid_map = x.sit.ckpt_valid_map
    /\ x.free.inuse \subseteq y.free.inuse

(* allocate_segment_by_default does that.                                  *)
LEMMA AllocateSegment ==
    ASSUME NEW x, NEW t \in Logs, AllocOK(x, Logs \ {t}), NEW victim, NEW reserve,
           NEW y \in allocate_segment_by_default(x, victim, t, FALSE, reserve)
    PROVE  AllocatedTo(x, y)
<1>1. \/ \E s \in get_ssr_segment(x, victim, t) : y = change_curseg(x, t, s)
      \/ /\ CanGetNewSegment(x.free, __get_next_segno(x.curseg, t), FALSE)
         /\ y = new_curseg(x, t, FALSE)
  BY DEF allocate_segment_by_default
<1>2. CASE \E s \in get_ssr_segment(x, victim, t) : y = change_curseg(x, t, s)
  <2>1. PICK s \in get_ssr_segment(x, victim, t) : y = change_curseg(x, t, s)
    BY <1>2
  <2>2. /\ s \in Segs /\ \A u \in Logs : x.curseg[u].segno # s
        /\ x.sit.ckpt_valid_blocks[s] < BlocksPerSeg
    BY SsrSegments DEF AllocOK
  <2>3. ChangedTo(x, t, s, y)
    BY <2>1, <2>2, ChangeCurseg
  <2>. QED
    BY <2>2, <2>3 DEF ChangedTo, AllocatedTo
<1>3. CASE /\ CanGetNewSegment(x.free, __get_next_segno(x.curseg, t), FALSE)
           /\ y = new_curseg(x, t, FALSE)
  BY <1>3, NewCurseg DEF AllocatedTo
<1>. QED
  BY <1>1, <1>2, <1>3

(* The SIT after log t has written block new in place of old: one bit more *)
(* in new's segment, in both maps if t is the WARM_NODE log.               *)
Written(st, t, new, old) == InvalidateOld(update_sit_entry(st, new, 1), old)
WrittenOK(st, t, new, r) ==
    /\ r \in SitType /\ EntriesOK(r) /\ r.type = st.type
    /\ \A q \in Segs :
         /\ r.cur_valid_map[q] \subseteq st.cur_valid_map[q] \cup {new[2]}
         /\ st.ckpt_valid_map[q] \subseteq r.ckpt_valid_map[q]
         /\ r.ckpt_valid_map[q] \subseteq st.ckpt_valid_map[q] \cup {new[2]}
         /\ q # new[1] => /\ r.cur_valid_map[q] \subseteq st.cur_valid_map[q]
                          /\ r.ckpt_valid_map[q] = st.ckpt_valid_map[q]
    /\ t = "WARM_NODE" => new[2] \in r.ckpt_valid_map[new[1]]

(* The two update_sit_entry calls of allocate_data_block do that.          *)
LEMMA WriteUpdates ==
    ASSUME NEW st \in SitType, EntriesOK(st), NEW t \in Logs, NEW new \in Blocks,
           st.type[new[1]] = t, new[2] \notin st.cur_valid_map[new[1]],
           NEW old, old = NULL_ADDR \/ (old \in Blocks /\ old[2] \in st.cur_valid_map[old[1]])
    PROVE  WrittenOK(st, t, new, Written(st, t, new, old))
<1>. DEFINE st1 == update_sit_entry(st, new, 1)
            r == Written(st, t, new, old)
<1>1. new[1] \in Segs /\ new[2] \in Offs
  BY DEF Blocks
<1>2. /\ st1 \in SitType /\ EntriesOK(st1) /\ st1.type = st.type
      /\ st1.cur_valid_map = [st.cur_valid_map EXCEPT ![new[1]] = @ \cup {new[2]}]
      /\ st1.ckpt_valid_map = [st.ckpt_valid_map EXCEPT ![new[1]] =
                                  IF t = "WARM_NODE" THEN @ \cup {new[2]} ELSE @]
  <2>1. Updated(st, new, 1, st1)
    BY UpdateSit
  <2>. HIDE DEF st1
  <2>. QED
    BY <2>1 DEF Updated
<1>. HIDE DEF st1
<1>3. WrittenOK(st, t, new, st1)
  BY <1>1, <1>2 DEF WrittenOK, SitType
<1>4. CASE old = NULL_ADDR
  BY <1>3, <1>4 DEF Written, InvalidateOld, st1
<1>5. CASE old # NULL_ADDR
  <2>1. old \in Blocks /\ old[1] \in Segs /\ old[2] \in Offs
    BY <1>5 DEF Blocks
  <2>2. old[2] \in st1.cur_valid_map[old[1]]
    BY <1>1, <1>2, <1>5, <2>1 DEF SitType
  <2>3. r = update_sit_entry(st1, old, -1)
    BY <1>5, Zenon DEF Written, InvalidateOld, st1
  <2>. HIDE DEF r
  <2>4. /\ r \in SitType /\ EntriesOK(r) /\ r.type = st1.type
        /\ r.cur_valid_map = [st1.cur_valid_map EXCEPT ![old[1]] = @ \ {old[2]}]
        /\ r.ckpt_valid_map = st1.ckpt_valid_map
    <3>1. Updated(st1, old, -1, r)
      BY <1>2, <2>1, <2>2, <2>3, UpdateSit
    <3>. QED
      BY <1>2, <2>1, <3>1 DEF SitType, Updated
  <2>5. \A q \in Segs : /\ r.cur_valid_map[q] \subseteq st1.cur_valid_map[q]
                         /\ r.ckpt_valid_map[q] = st1.ckpt_valid_map[q]
    BY <1>2, <2>1, <2>4 DEF SitType
  <2>6. /\ new[1] \in Segs /\ r.type = st.type
        /\ t = "WARM_NODE" => new[2] \in r.ckpt_valid_map[new[1]]
    BY <1>1, <1>2, <1>3, <2>4, <2>5, Zenon DEF WrittenOK
  <2>7. WrittenOK(st, t, new, r)
    BY <1>3, <2>4, <2>5, <2>6 DEF WrittenOK
  <2>. QED
    BY <2>7 DEF r
<1>. QED
  BY <1>4, <1>5

----------------------------------------------------------------------------
(* Every step keeps the invariant: one lemma per action                    *)

(* IndInv as AllocOK of the present structs, while writers run.            *)
Present == State(sit, free, dirty, curseg)

(* While writers run without an error, the structs are in order for all    *)
(* logs.                                                                   *)
LEMMA PresentOK ==
    ASSUME IndInv, Writing, ~cp_error
    PROVE  /\ AllocOK(Present, Logs)
           /\ Present.sit = sit /\ Present.free = free
           /\ Present.dirty = dirty /\ Present.curseg = curseg
<1>1. Present \in AllocType
  BY DEF IndInv, TypeOK, Present, State, AllocType
<1>2. /\ Present.sit = sit /\ Present.free = free
      /\ Present.dirty = dirty /\ Present.curseg = curseg
  BY DEF Present, State
<1>3. AllocOK(Present, Logs)
  BY <1>1, <1>2, Zenon DEF AllocOK, IndInv, CpOK
<1>. QED
  BY <1>2, <1>3

(* After log t has taken the block at its head, before it looks for room:  *)
(* every other log is in order, and t too if its segment has room left.    *)
LEMMA WroteOK ==
    ASSUME NEW x, AllocOK(x, Logs), NEW t \in Logs,
           NEW new, new = <<x.curseg[t].segno, x.curseg[t].next_blkoff>>,
           NEW old, old = NULL_ADDR \/ (old \in Blocks /\ old[2] \in x.sit.cur_valid_map[old[1]]),
           NEW n, n = __refresh_next_blkoff(x.sit, x.curseg[t]),
           NEW cs, cs = [x.curseg EXCEPT ![t].next_blkoff = n],
           NEW st, st = Written(x.sit, t, new, old),
           NEW y, y = State(st, x.free, x.dirty, cs)
    PROVE  /\ AllocOK(y, Logs \ {t})
           /\ n < BlocksPerSeg => AllocOK(y, Logs)
           /\ y.sit = st /\ y.free = x.free /\ y.curseg = cs /\ y.dirty = x.dirty
           /\ new \in Blocks /\ new[1] \in x.free.inuse
           /\ WrittenOK(x.sit, t, new, st)
<1>. DEFINE s == x.curseg[t].segno
            o == x.curseg[t].next_blkoff
            c == [x.curseg[t] EXCEPT !.next_blkoff = n]
<1>1. /\ x \in AllocType /\ x.sit \in SitType /\ EntriesOK(x.sit) /\ FreeOK(x.free, x.sit)
      /\ PreOK(x.dirty, x.sit, x.curseg) /\ x.dirty.dirty_segmap["PRE"] \subseteq x.free.inuse
      /\ x.free \in FreeType /\ x.dirty \in DirtyType /\ x.curseg \in CursegType
      /\ LogsOK(Logs, x.curseg, x.sit.type, x.sit.cur_valid_map, x.sit.ckpt_valid_map, x.free.inuse)
  BY DEF AllocOK, AllocType
<1>2. /\ s \in Segs /\ o \in 0 .. BlocksPerSeg /\ x.curseg[t].alloc_type \in {"LFS", "SSR"}
      /\ x.sit.type[s] = t /\ s \in x.free.inuse /\ o < BlocksPerSeg
      /\ LogOK(x.curseg[t], x.sit.cur_valid_map, x.sit.ckpt_valid_map)
      /\ \A u \in Logs \ {t} : x.curseg[u].segno # s
  BY <1>1 DEF CursegType, LogsOK, LogOK
<1>3. /\ s \in Segs /\ o \in Offs /\ new \in Blocks /\ new[1] = s /\ new[2] = o
      /\ o \notin x.sit.cur_valid_map[s] \cup x.sit.ckpt_valid_map[s]
  <2>1. o \in Offs
    BY <1>2, SizesAssumption DEF Offs
  <2>2. new \in Blocks /\ new[1] = s /\ new[2] = o
    BY <1>2, <2>1 DEF Blocks
  <2>3. o \notin x.sit.cur_valid_map[s] \cup x.sit.ckpt_valid_map[s]
    BY <1>2, <2>1, Zenon DEF LogOK
  <2>. QED
    BY <1>2, <2>1, <2>2, <2>3, Zenon
<1>4. WrittenOK(x.sit, t, new, st)
  BY <1>1, <1>2, <1>3, WriteUpdates
<1>5. /\ n \in 0 .. BlocksPerSeg
      /\ n < BlocksPerSeg =>
           /\ n > o /\ n \notin x.sit.cur_valid_map[s] \cup x.sit.ckpt_valid_map[s]
           /\ x.curseg[t].alloc_type = "LFS" => n = o + 1
  <2>1. CASE x.curseg[t].alloc_type = "SSR"
    <3>1. n = __next_free_blkoff(x.sit, s, o + 1)
      BY <2>1 DEF __refresh_next_blkoff
    <3>2. o + 1 \in Nat
      BY <1>2
    <3>3. /\ n \in 0 .. BlocksPerSeg
          /\ n < BlocksPerSeg => n >= o + 1
          /\ n < BlocksPerSeg => n \notin x.sit.cur_valid_map[s] \cup x.sit.ckpt_valid_map[s]
      BY <1>1, <1>2, <3>1, <3>2, NextHole
    <3>. QED
      BY <1>2, <2>1, <3>3, SizesAssumption
  <2>2. CASE x.curseg[t].alloc_type = "LFS"
    <3>1. n = o + 1
      BY <2>2 DEF __refresh_next_blkoff
    <3>2. n < BlocksPerSeg => n \notin x.sit.cur_valid_map[s] \cup x.sit.ckpt_valid_map[s]
      <4>1. n < BlocksPerSeg => n \in Offs /\ n >= o
        BY <1>2, <3>1, SizesAssumption DEF Offs
      <4>. QED
        BY <1>2, <2>2, <4>1, Zenon DEF LogOK
    <3>3. o + 1 \in 0 .. BlocksPerSeg /\ o + 1 > o
      BY <1>2, SizesAssumption
    <3>. QED
      BY <3>1, <3>2, <3>3, Zenon
  <2>. QED
    BY <1>2, <2>1, <2>2
<1>6. /\ cs \in CursegType /\ cs[t] = c /\ \A u \in Logs \ {t} : cs[u] = x.curseg[u]
      /\ c.segno = s /\ c.next_blkoff = n /\ c.alloc_type = x.curseg[t].alloc_type
      /\ CurSegs(cs) = CurSegs(x.curseg)
  <2>1. cs = [x.curseg EXCEPT ![t] = c] /\ c \in [segno : Segs, next_blkoff : 0 .. BlocksPerSeg,
                                                  alloc_type : {"LFS", "SSR"}]
    BY <1>1, <1>5 DEF CursegType
  <2>2. /\ cs \in CursegType /\ cs[t] = c /\ \A u \in Logs \ {t} : cs[u] = x.curseg[u]
        /\ c.segno = s /\ c.next_blkoff = n /\ c.alloc_type = x.curseg[t].alloc_type
    BY <1>1, <2>1 DEF CursegType
  <2>3. \A u \in Logs : cs[u].segno = x.curseg[u].segno
    BY <2>2
  <2>. QED
    BY <2>2, <2>3 DEF CurSegs
<1>7. /\ y \in AllocType /\ y.sit = st /\ y.free = x.free /\ y.curseg = cs /\ y.dirty = x.dirty
  BY <1>1, <1>4, <1>6 DEF State, AllocType, WrittenOK
<1>8. \A q \in Segs \ {s} : /\ st.cur_valid_map[q] \subseteq x.sit.cur_valid_map[q]
                            /\ st.ckpt_valid_map[q] = x.sit.ckpt_valid_map[q]
  BY <1>3, <1>4 DEF WrittenOK
<1>9. FreeOK(x.free, st)
  BY <1>1, <1>2, <1>8, ZenonT(40) DEF FreeOK
<1>10. PreOK(x.dirty, st, cs)
  <2>1. \A q \in x.dirty.dirty_segmap["PRE"] : q \in Segs \ {s}
    BY <1>1 DEF PreOK, CurSegs, DirtyType, DirtyTypes
  <2>. QED
    BY <1>1, <1>6, <1>8, <2>1 DEF PreOK
<1>11. LogsOK(Logs \ {t}, cs, st.type, st.cur_valid_map, st.ckpt_valid_map, x.free.inuse)
  <2>. SUFFICES ASSUME NEW u \in Logs \ {t}
                PROVE  /\ LogOK(cs[u], st.cur_valid_map, st.ckpt_valid_map)
                       /\ st.type[cs[u].segno] = u
                       /\ cs[u].segno \in x.free.inuse
                       /\ \A v \in Logs \ {u} : cs[v].segno # cs[u].segno
    BY Zenon DEF LogsOK
  <2>1. /\ LogOK(x.curseg[u], x.sit.cur_valid_map, x.sit.ckpt_valid_map)
        /\ x.sit.type[x.curseg[u].segno] = u
        /\ x.curseg[u].segno \in x.free.inuse
        /\ \A v \in Logs \ {u} : x.curseg[v].segno # x.curseg[u].segno
    BY <1>1 DEF LogsOK
  <2>2. x.curseg[u].segno \in Segs \ {s}
    BY <1>1, <1>2 DEF CursegType
  <2>3. LogOK(cs[u], st.cur_valid_map, st.ckpt_valid_map)
    BY <1>6, <1>8, <2>1, <2>2, ZenonT(40) DEF LogOK
  <2>4. st.type = x.sit.type
    BY <1>4, Zenon DEF WrittenOK
  <2>5. \A v \in Logs : cs[v].segno = x.curseg[v].segno
    BY <1>6, Zenon
  <2>. QED
    BY <2>1, <2>3, <2>4, <2>5, Zenon
<1>12. AllocOK(y, Logs \ {t})
  BY <1>1, <1>4, <1>7, <1>9, <1>10, <1>11 DEF AllocOK, WrittenOK
<1>13. ASSUME n < BlocksPerSeg PROVE AllocOK(y, Logs)
  <2>1. LogOK(c, st.cur_valid_map, st.ckpt_valid_map)
    <3>1. /\ st.cur_valid_map[s] \subseteq x.sit.cur_valid_map[s] \cup {o}
          /\ st.ckpt_valid_map[s] \subseteq x.sit.ckpt_valid_map[s] \cup {o}
      BY <1>3, <1>4 DEF WrittenOK
    <3>2. ASSUME NEW p \in Offs, p = n \/ (c.alloc_type = "LFS" /\ p >= n)
          PROVE  p \notin st.cur_valid_map[s] \cup st.ckpt_valid_map[s]
      <4>1. p > o
        BY <1>2, <1>5, <1>13, <3>2 DEF Offs
      <4>2. p \notin x.sit.cur_valid_map[s] \cup x.sit.ckpt_valid_map[s]
        <5>1. CASE p = n
          BY <1>5, <1>13, <5>1, Zenon
        <5>2. CASE p # n
          <6>1. x.curseg[t].alloc_type = "LFS" /\ p >= o
            BY <1>2, <1>6, <3>2, <4>1, <5>2 DEF Offs
          <6>. QED
            BY <1>2, <6>1, Zenon DEF LogOK
        <5>. QED
          BY <5>1, <5>2
      <4>3. p # o
        BY <1>2, <4>1 DEF Offs
      <4>. QED
        BY <3>1, <4>2, <4>3, Zenon
    <3>. HIDE DEF c
    <3>. QED
      BY <1>6, <1>13, <3>2 DEF LogOK
  <2>. HIDE DEF c
  <2>2. st.type = x.sit.type
    BY <1>4 DEF WrittenOK
  <2>3. /\ LogOK(y.curseg[t], y.sit.cur_valid_map, y.sit.ckpt_valid_map)
        /\ y.sit.type[y.curseg[t].segno] = t /\ y.curseg[t].segno \in y.free.inuse
    BY <1>2, <1>6, <1>7, <2>1, <2>2, ZenonT(40)
  <2>. QED
    BY <1>12, <2>3, AllLogsOK, Zenon
<1>. QED
  BY <1>2, <1>3, <1>4, <1>7, <1>12, <1>13

(* A writer that leaves the structs in order, adds to the checkpointed map *)
(* only, and records the node chain in it, keeps the invariant.            *)
LEMMA WriterStep ==
    ASSUME IndInv, Writing, ~cp_error, NEW y, AllocOK(y, Logs),
           sit' = y.sit, free' = y.free, curseg' = y.curseg,
           dirty' \in DirtyType, PreOK(dirty', y.sit, y.curseg),
           dirty'.dirty_segmap["PRE"] \subseteq y.free.inuse,
           \A q \in Segs : sit.ckpt_valid_map[q] \subseteq y.sit.ckpt_valid_map[q],
           chain' \subseteq Blocks,
           \A b \in chain' : b \in chain \/ b[2] \in y.sit.ckpt_valid_map[b[1]],
           UNCHANGED <<cur_victim_sec, cp_phase, cp_error, disk>>
    PROVE  IndInv'
<1>1. TypeOK'
  BY DEF TypeOK, IndInv, AllocOK, AllocType
<1>2. EntriesOK(sit)' /\ FreeOK(free, sit)' /\ PreOK(dirty, sit, curseg)'
  BY Zenon DEF AllocOK
<1>3. LogsOK(Logs, curseg, sit.type, sit.cur_valid_map, sit.ckpt_valid_map, free.inuse)'
  BY Zenon DEF AllocOK
<1>4. CpOK'
  <2>1. cp_phase' = "idle" /\ disk' = disk
    BY DEF Writing
  <2>2. \A q \in Segs : disk.valid[q] \subseteq y.sit.ckpt_valid_map[q]
    BY DEF IndInv, CpOK
  <2>3. \A b \in chain' : b[2] \in y.sit.ckpt_valid_map[b[1]]
    <3>1. \A b \in chain : b[1] \in Segs /\ b[2] \in sit.ckpt_valid_map[b[1]]
      BY DEF IndInv, CpOK, TypeOK, Blocks
    <3>. QED
      BY <3>1
  <2>. QED
    BY <2>1, <2>2, <2>3 DEF CpOK
<1>5. LogsOK(Logs, disk.curseg, disk.type, disk.valid, disk.valid, Segs)'
  BY DEF IndInv
<1>. QED
  BY <1>1, <1>2, <1>3, <1>4, <1>5 DEF IndInv

(* A valid block lies in a segment that is in use.                         *)
LEMMA ValidBlocksInUse ==
    ASSUME IndInv, NEW b \in ValidBlocks
    PROVE  /\ b \in Blocks /\ b[1] \in Segs /\ b[2] \in Offs
           /\ b[2] \in sit.cur_valid_map[b[1]] /\ b[1] \in free.inuse
<1>1. b \in Blocks /\ b[1] \in Segs /\ b[2] \in Offs /\ b[2] \in sit.cur_valid_map[b[1]]
  BY DEF ValidBlocks, BlocksIn, Blocks
<1>. QED
  BY <1>1 DEF IndInv, FreeOK

(* The structs when log t has written a page whose previous address is     *)
(* old, before a full log gets another segment; y is what it then has.     *)
Wrote(t, old) ==
    State(Written(sit, t, NextFree(t), old), free, dirty,
          [curseg EXCEPT ![t].next_blkoff = __refresh_next_blkoff(sit, curseg[t])])
Allocated(t, old, reserve, y) ==
    /\ sit' = y.sit /\ free' = y.free /\ curseg' = y.curseg
    /\ dirty' = locate_dirty_segment(LocateOld(y.dirty, y.sit, y.curseg, old),
                                     y.sit, y.curseg, NextFree(t)[1])
    /\ chain' = IF t = "WARM_NODE" THEN chain \cup {NextFree(t)} ELSE chain
    /\ AllocOK(Wrote(t, old), Logs \ {t})
    /\ NextFree(t) \in Blocks /\ NextFree(t)[1] \in free.inuse
    /\ WrittenOK(sit, t, NextFree(t), Written(sit, t, NextFree(t), old))
    /\ AllocOK(y, Logs)
    /\ y.sit.ckpt_valid_map = Written(sit, t, NextFree(t), old).ckpt_valid_map
    /\ free.inuse \subseteq y.free.inuse
    /\ \/ y = Wrote(t, old)
       \/ y \in allocate_segment_by_default(Wrote(t, old), cur_victim_sec, t, FALSE, reserve)

(* allocate_data_block does that.                                          *)
LEMMA AllocateFacts ==
    ASSUME IndInv, NEW t \in Logs, NEW reserve, NEW old \in OldBlocks(t) \cup {NULL_ADDR},
           allocate_data_block(t, old, reserve)
    PROVE  /\ Writing /\ ~cp_error /\ UNCHANGED <<cur_victim_sec, cp_phase, cp_error, disk>>
           /\ \/ old = NULL_ADDR
              \/ /\ old \in Blocks /\ old[1] \in Segs /\ old[2] \in sit.cur_valid_map[old[1]]
                 /\ old[1] \in free.inuse
           /\ \E y : Allocated(t, old, reserve, y)
<1>. DEFINE new == <<curseg[t].segno, curseg[t].next_blkoff>>
            n == __refresh_next_blkoff(sit, curseg[t])
            cs == [curseg EXCEPT ![t].next_blkoff = n]
            st == Written(sit, t, new, old)
            x == State(st, free, dirty, cs)
<1>1. Writing /\ ~cp_error /\ UNCHANGED <<cur_victim_sec, cp_phase, cp_error, disk>>
  BY DEF allocate_data_block
<1>2. PICK y \in IF __has_curseg_space(cs, t) THEN {x}
                 ELSE allocate_segment_by_default(x, cur_victim_sec, t, FALSE, reserve) :
        /\ sit' = y.sit /\ free' = y.free /\ curseg' = y.curseg
        /\ dirty' = locate_dirty_segment(LocateOld(y.dirty, y.sit, y.curseg, old),
                                         y.sit, y.curseg, new[1])
        /\ chain' = IF t = "WARM_NODE" THEN chain \cup {new} ELSE chain
  BY Zenon DEF allocate_data_block, Written
<1>3. /\ AllocOK(Present, Logs) /\ Present.sit = sit /\ Present.free = free
      /\ Present.dirty = dirty /\ Present.curseg = curseg
  BY <1>1, PresentOK
<1>4. \/ old = NULL_ADDR
      \/ /\ old \in Blocks /\ old[1] \in Segs /\ old[2] \in sit.cur_valid_map[old[1]]
         /\ old[1] \in free.inuse
  BY ValidBlocksInUse DEF OldBlocks
<1>6. /\ AllocOK(x, Logs \ {t})
      /\ n < BlocksPerSeg => AllocOK(x, Logs)
      /\ x.sit = st /\ x.free = free /\ x.curseg = cs /\ x.dirty = dirty
      /\ new \in Blocks /\ new[1] \in free.inuse
      /\ WrittenOK(sit, t, new, st)
  <2>. DEFINE pnew == <<Present.curseg[t].segno, Present.curseg[t].next_blkoff>>
              pn == __refresh_next_blkoff(Present.sit, Present.curseg[t])
              pcs == [Present.curseg EXCEPT ![t].next_blkoff = pn]
              pst == Written(Present.sit, t, pnew, old)
              px == State(pst, Present.free, Present.dirty, pcs)
  <2>1. old = NULL_ADDR \/ (old \in Blocks /\ old[2] \in Present.sit.cur_valid_map[old[1]])
    BY <1>3, <1>4
  <2>2. /\ AllocOK(px, Logs \ {t})
        /\ pn < BlocksPerSeg => AllocOK(px, Logs)
        /\ px.sit = pst /\ px.free = Present.free /\ px.curseg = pcs /\ px.dirty = Present.dirty
        /\ pnew \in Blocks /\ pnew[1] \in Present.free.inuse
        /\ WrittenOK(Present.sit, t, pnew, pst)
    BY <1>3, <2>1, WroteOK, ZenonT(40)
  <2>. QED
    BY <1>3, <2>2, Zenon
<1>. HIDE DEF new, n, st
<1>7. cs[t].next_blkoff = n
  BY DEF IndInv, TypeOK, CursegType
<1>8. /\ AllocOK(y, Logs)
      /\ y.sit.ckpt_valid_map = st.ckpt_valid_map
      /\ free.inuse \subseteq y.free.inuse
      /\ y = x \/ y \in allocate_segment_by_default(x, cur_victim_sec, t, FALSE, reserve)
  <2>1. CASE n < BlocksPerSeg
    <3>1. y = x
      BY <1>2, <1>7, <2>1, Zenon DEF __has_curseg_space
    <3>. QED
      BY <1>6, <2>1, <3>1
  <2>2. CASE ~(n < BlocksPerSeg)
    <3>1. y \in allocate_segment_by_default(x, cur_victim_sec, t, FALSE, reserve)
      BY <1>2, <1>7, <2>2, Zenon DEF __has_curseg_space
    <3>. HIDE DEF x
    <3>2. AllocatedTo(x, y)
      BY <1>6, <3>1, AllocateSegment
    <3>. QED
      BY <1>6, <3>1, <3>2 DEF AllocatedTo
  <2>. QED
    BY <2>1, <2>2
<1>9. new = NextFree(t) /\ x = Wrote(t, old) /\ st = Written(sit, t, NextFree(t), old)
  BY Zenon DEF NextFree, Wrote, new, st, n
<1>. HIDE DEF x, cs
<1>10. Allocated(t, old, reserve, y)
  BY <1>2, <1>6, <1>8, <1>9, Zenon DEF Allocated
<1>. QED
  BY <1>1, <1>4, <1>10, Zenon

(* allocate_data_block keeps the invariant.                                *)
LEMMA AllocateStep ==
    ASSUME IndInv, NEW t \in Logs, NEW reserve, NEW old \in OldBlocks(t) \cup {NULL_ADDR},
           allocate_data_block(t, old, reserve)
    PROVE  IndInv'
<1>. DEFINE new == NextFree(t)
            st == Written(sit, t, new, old)
<1>1. Writing /\ ~cp_error /\ UNCHANGED <<cur_victim_sec, cp_phase, cp_error, disk>>
  BY AllocateFacts
<1>2. PICK y : Allocated(t, old, reserve, y)
  BY AllocateFacts
<1>3. /\ sit' = y.sit /\ free' = y.free /\ curseg' = y.curseg
      /\ dirty' = locate_dirty_segment(LocateOld(y.dirty, y.sit, y.curseg, old),
                                       y.sit, y.curseg, new[1])
      /\ chain' = IF t = "WARM_NODE" THEN chain \cup {new} ELSE chain
  BY <1>2, Zenon DEF Allocated
<1>4. old # NULL_ADDR => old \in Blocks /\ old[1] \in Segs /\ old[1] \in free.inuse
  BY AllocateFacts
<1>5. new \in Blocks /\ new[1] \in free.inuse /\ WrittenOK(sit, t, new, st)
  BY <1>2, Zenon DEF Allocated
<1>6. AllocOK(y, Logs) /\ y.sit.ckpt_valid_map = st.ckpt_valid_map /\ free.inuse \subseteq y.free.inuse
  BY <1>2, Zenon DEF Allocated
<1>. HIDE DEF new, st
<1>. DEFINE d1 == LocateOld(y.dirty, y.sit, y.curseg, old)
<1>9. /\ y.dirty \in DirtyType /\ y.sit \in SitType /\ EntriesOK(y.sit)
      /\ PreOK(y.dirty, y.sit, y.curseg) /\ y.dirty.dirty_segmap["PRE"] \subseteq y.free.inuse
  BY <1>6 DEF AllocOK, AllocType
<1>10. /\ d1 \in DirtyType /\ PreOK(d1, y.sit, y.curseg)
       /\ d1.dirty_segmap["PRE"] \subseteq y.free.inuse
  <2>1. CASE old = NULL_ADDR
    BY <1>9, <2>1 DEF LocateOld
  <2>2. CASE old # NULL_ADDR
    <3>1. d1 = locate_dirty_segment(y.dirty, y.sit, y.curseg, old[1])
      BY <2>2 DEF LocateOld
    <3>. HIDE DEF d1
    <3>2. /\ d1 \in DirtyType /\ PreOK(d1, y.sit, y.curseg)
          /\ d1.dirty_segmap["PRE"] \subseteq y.dirty.dirty_segmap["PRE"] \cup {old[1]}
      BY <1>4, <1>9, <2>2, <3>1, LocateKeeps
    <3>. QED
      BY <1>4, <1>6, <1>9, <2>2, <3>2
  <2>. QED
    BY <2>1, <2>2
<1>. HIDE DEF d1
<1>11. new[1] \in Segs /\ new[2] \in Offs
  BY <1>5 DEF Blocks
<1>12. /\ dirty' \in DirtyType /\ PreOK(dirty', y.sit, y.curseg)
       /\ dirty'.dirty_segmap["PRE"] \subseteq d1.dirty_segmap["PRE"] \cup {new[1]}
  BY <1>3, <1>9, <1>10, <1>11, LocateKeeps DEF d1
<1>13. dirty'.dirty_segmap["PRE"] \subseteq y.free.inuse
  BY <1>5, <1>6, <1>10, <1>12
<1>14. \A q \in Segs : sit.ckpt_valid_map[q] \subseteq y.sit.ckpt_valid_map[q]
  BY <1>5, <1>6 DEF WrittenOK
<1>15. /\ chain' \subseteq Blocks
       /\ \A b \in chain' : b \in chain \/ b[2] \in y.sit.ckpt_valid_map[b[1]]
  <2>1. chain \subseteq Blocks
    BY DEF IndInv, TypeOK
  <2>2. t = "WARM_NODE" => new[2] \in y.sit.ckpt_valid_map[new[1]]
    BY <1>5, <1>6 DEF WrittenOK
  <2>. QED
    BY <1>3, <1>5, <2>1, <2>2
<1>. QED
  BY <1>1, <1>3, <1>6, <1>12, <1>13, <1>14, <1>15, WriterStep

(* invalidate_blocks keeps the invariant, also after an error.             *)
LEMMA InvalidateStep ==
    ASSUME IndInv, NEW b \in ValidBlocks, invalidate_blocks(b)
    PROVE  IndInv'
<1>1. /\ Writing /\ sit' = update_sit_entry(sit, b, -1)
      /\ dirty' = locate_dirty_segment(dirty, sit', curseg, b[1])
      /\ UNCHANGED <<free, cur_victim_sec, curseg, cp_phase, cp_error, disk, chain>>
  BY DEF invalidate_blocks
<1>2. /\ b \in Blocks /\ b[1] \in Segs /\ b[2] \in Offs
      /\ b[2] \in sit.cur_valid_map[b[1]] /\ b[1] \in free.inuse
  BY ValidBlocksInUse
<1>3. Updated(sit, b, -1, sit')
  BY <1>1, <1>2, UpdateSit DEF IndInv, TypeOK
<1>4. /\ sit' \in SitType /\ EntriesOK(sit') /\ sit'.type = sit.type
      /\ sit'.ckpt_valid_map = sit.ckpt_valid_map
      /\ \A q \in Segs : sit'.cur_valid_map[q] \subseteq sit.cur_valid_map[q]
  BY <1>2, <1>3 DEF Updated, IndInv, TypeOK, SitType
<1>5. PreOK(dirty, sit', curseg)
  <2>1. dirty.dirty_segmap["PRE"] \subseteq Segs
    BY DEF IndInv, TypeOK, DirtyType, DirtyTypes
  <2>. QED
    BY <1>4, <2>1 DEF IndInv, PreOK
<1>6. /\ dirty' \in DirtyType /\ PreOK(dirty', sit', curseg)
      /\ dirty'.dirty_segmap["PRE"] \subseteq dirty.dirty_segmap["PRE"] \cup {b[1]}
  BY <1>1, <1>2, <1>4, <1>5, LocateKeeps DEF IndInv, TypeOK
<1>7. TypeOK'
  BY <1>1, <1>4, <1>6 DEF IndInv, TypeOK
<1>8. LogsOK(Logs, curseg, sit'.type, sit'.cur_valid_map, sit'.ckpt_valid_map, free.inuse)
  <2>. SUFFICES ASSUME NEW t \in Logs
                PROVE  /\ LogOK(curseg[t], sit'.cur_valid_map, sit'.ckpt_valid_map)
                       /\ sit'.type[curseg[t].segno] = t
                       /\ curseg[t].segno \in free.inuse
                       /\ \A u \in Logs \ {t} : curseg[u].segno # curseg[t].segno
    BY Zenon DEF LogsOK
  <2>1. /\ LogOK(curseg[t], sit.cur_valid_map, sit.ckpt_valid_map)
        /\ sit.type[curseg[t].segno] = t
        /\ curseg[t].segno \in free.inuse
        /\ \A u \in Logs \ {t} : curseg[u].segno # curseg[t].segno
    BY DEF IndInv, LogsOK
  <2>2. curseg[t].segno \in Segs
    BY DEF IndInv, TypeOK, CursegType
  <2>3. LogOK(curseg[t], sit'.cur_valid_map, sit'.ckpt_valid_map)
    BY <1>4, <2>1, <2>2 DEF LogOK
  <2>. QED
    BY <1>4, <2>1, <2>3, Zenon
<1>9. FreeOK(free, sit')
  BY <1>4 DEF IndInv, FreeOK
<1>10. CpOK'
  BY <1>1, <1>2, <1>4, <1>6 DEF IndInv, CpOK, Writing
<1>. QED
  BY <1>1, <1>4, <1>6, <1>7, <1>8, <1>9, <1>10, Zenon DEF IndInv

(* __f2fs_replace_block, called for a block whose bits stay as they are,   *)
(* leaves every log where it was.                                          *)
LEMMA ReplaceBlock ==
    ASSUME NEW x, AllocOK(x, Logs), NEW t \in Logs, NEW new \in Blocks,
           new[1] \in x.free.inuse,
           \A u \in Logs \ {t} : x.curseg[u].segno # new[1],
           NEW y, y = __f2fs_replace_block(x, t, NULL_ADDR, new, FALSE)
    PROVE  /\ AllocOK(y, Logs)
           /\ y.sit.cur_valid_map = x.sit.cur_valid_map
           /\ y.sit.ckpt_valid_map = x.sit.ckpt_valid_map
<1>. DEFINE home == x.curseg[t].segno
            there == new[1]
            x1 == IF there = home THEN x ELSE change_curseg(x, t, there)
            d2 == locate_dirty_segment(x1.dirty, x1.sit, x1.curseg, there)
            d3 == locate_dirty_segment(d2, x1.sit, x1.curseg, home)
            x2 == State(x1.sit, x1.free, d3, x1.curseg)
            x3 == IF there = home THEN x2 ELSE change_curseg(x2, t, home)
            o == x.curseg[t].next_blkoff
            c == [x3.curseg[t] EXCEPT !.next_blkoff = o]
<1>1. y = [x3 EXCEPT !.curseg[t].next_blkoff = o]
  BY ZenonT(40) DEF __f2fs_replace_block, InvalidateOld, LocateOld
<1>2. /\ x \in AllocType /\ x.curseg \in CursegType /\ home \in Segs /\ there \in Segs
      /\ o \in 0 .. BlocksPerSeg /\ o < BlocksPerSeg
      /\ home \in x.free.inuse /\ x.sit.type[home] = t
      /\ LogOK(x.curseg[t], x.sit.cur_valid_map, x.sit.ckpt_valid_map)
      /\ \A u \in Logs \ {t} : x.curseg[u].segno # home
  BY DEF AllocOK, AllocType, CursegType, LogsOK, LogOK, Blocks
<1>3. AllocOK(x, Logs \ {t})
  BY DEF AllocOK, LogsOK
<1>4. /\ AllocOK(x1, Logs \ {t})
      /\ x1.sit.cur_valid_map = x.sit.cur_valid_map
      /\ x1.sit.ckpt_valid_map = x.sit.ckpt_valid_map
      /\ x1.free.inuse = x.free.inuse
      /\ \A u \in Logs \ {t} : x1.curseg[u] = x.curseg[u]
  <2>1. CASE there = home
    BY <1>3, <2>1
  <2>2. CASE there # home
    <3>1. ChangedTo(x, t, there, x1)
      BY <1>2, <1>3, <2>2, ChangeCurseg
    <3>. QED
      BY <3>1 DEF ChangedTo
  <2>. QED
    BY <2>1, <2>2
<1>5. there = home => x1 = x
  OBVIOUS
<1>. HIDE DEF x1
<1>6. /\ x1 \in AllocType /\ x1.dirty \in DirtyType /\ x1.sit \in SitType /\ EntriesOK(x1.sit)
      /\ PreOK(x1.dirty, x1.sit, x1.curseg) /\ x1.dirty.dirty_segmap["PRE"] \subseteq x1.free.inuse
  BY <1>4 DEF AllocOK, AllocType
<1>7. /\ d2 \in DirtyType /\ PreOK(d2, x1.sit, x1.curseg)
      /\ d2.dirty_segmap["PRE"] \subseteq x1.dirty.dirty_segmap["PRE"] \cup {there}
  BY <1>2, <1>6, LocateKeeps
<1>. HIDE DEF d2
<1>8. /\ d3 \in DirtyType /\ PreOK(d3, x1.sit, x1.curseg)
      /\ d3.dirty_segmap["PRE"] \subseteq d2.dirty_segmap["PRE"] \cup {home}
  BY <1>2, <1>6, <1>7, LocateKeeps
<1>. HIDE DEF d3
<1>9. d3.dirty_segmap["PRE"] \subseteq x1.free.inuse
  BY <1>2, <1>4, <1>6, <1>7, <1>8
<1>10. /\ x2.sit = x1.sit /\ x2.free = x1.free /\ x2.curseg = x1.curseg /\ x2.dirty = d3
       /\ x2 \in AllocType
  BY <1>6, <1>8 DEF State, AllocType
<1>. HIDE DEF x2
<1>11. AllocOK(x2, Logs \ {t})
  BY <1>4, <1>8, <1>9, <1>10, Zenon DEF AllocOK
<1>12. /\ AllocOK(x3, Logs \ {t})
       /\ x3.sit.cur_valid_map = x.sit.cur_valid_map
       /\ x3.sit.ckpt_valid_map = x.sit.ckpt_valid_map
       /\ x3.sit.type[home] = t
       /\ x3.free.inuse = x.free.inuse
       /\ x3.curseg[t].segno = home
       /\ x3.curseg[t].alloc_type = x.curseg[t].alloc_type \/ x3.curseg[t].alloc_type = "SSR"
       /\ \A u \in Logs \ {t} : x3.curseg[u] = x.curseg[u]
  <2>1. CASE there = home
    BY <1>2, <1>4, <1>5, <1>10, <1>11, <2>1
  <2>2. CASE there # home
    <3>1. \A u \in Logs \ {t} : x2.curseg[u].segno # home
      BY <1>2, <1>4, <1>10
    <3>2. ChangedTo(x2, t, home, x3)
      BY <1>2, <1>11, <2>2, <3>1, ChangeCurseg
    <3>. HIDE DEF x3
    <3>3. x3.free.inuse = x.free.inuse
      BY <1>2, <1>4, <1>10, <3>2 DEF ChangedTo
    <3>4. \A u \in Logs \ {t} : x3.curseg[u] = x.curseg[u]
      BY <1>4, <1>10, <3>2 DEF ChangedTo
    <3>. QED
      BY <1>4, <1>10, <3>2, <3>3, <3>4, Zenon DEF ChangedTo
  <2>. QED
    BY <2>1, <2>2
<1>. HIDE DEF x3
<1>13. x3 \in AllocType /\ x3.curseg \in CursegType
  BY <1>12 DEF AllocOK, AllocType
<1>14. /\ y.sit = x3.sit /\ y.free = x3.free /\ y.dirty = x3.dirty
       /\ y.curseg = [x3.curseg EXCEPT ![t] = c]
  BY <1>1, <1>13 DEF AllocType
<1>15. /\ c.segno = home /\ c.next_blkoff = o /\ c.alloc_type = x3.curseg[t].alloc_type
       /\ c \in [segno : Segs, next_blkoff : 0 .. BlocksPerSeg, alloc_type : {"LFS", "SSR"}]
  BY <1>2, <1>12, <1>13 DEF CursegType
<1>. HIDE DEF c
<1>16. /\ y.curseg \in CursegType /\ y.curseg[t] = c
       /\ \A u \in Logs \ {t} : y.curseg[u] = x3.curseg[u]
       /\ \A u \in Logs : y.curseg[u].segno = x3.curseg[u].segno
  <2>1. DOMAIN x3.curseg = Logs
    BY <1>13, Zenon DEF CursegType
  <2>2. y.curseg[t] = c /\ \A u \in Logs \ {t} : y.curseg[u] = x3.curseg[u]
    BY <1>14, <2>1, Zenon
  <2>3. y.curseg \in CursegType
    BY <1>13, <1>14, <1>15, ZenonT(40) DEF CursegType
  <2>4. c.segno = x3.curseg[t].segno
    BY <1>12, <1>15, Zenon
  <2>. QED
    BY <2>2, <2>3, <2>4, Zenon
<1>17. y \in AllocType
  BY <1>1, <1>13, <1>14, <1>16 DEF AllocType
<1>18. LogOK(c, y.sit.cur_valid_map, y.sit.ckpt_valid_map)
  BY <1>2, <1>12, <1>14, <1>15 DEF LogOK
<1>19. CurSegs(y.curseg) = CurSegs(x3.curseg)
  <2>1. \A u \in Logs : y.curseg[u].segno = x3.curseg[u].segno
    BY <1>16
  <2>. QED
    BY <2>1, Zenon DEF CurSegs
<1>20. LogsOK(Logs \ {t}, y.curseg, y.sit.type, y.sit.cur_valid_map, y.sit.ckpt_valid_map, y.free.inuse)
  <2>. SUFFICES ASSUME NEW u \in Logs \ {t}
                PROVE  /\ LogOK(y.curseg[u], y.sit.cur_valid_map, y.sit.ckpt_valid_map)
                       /\ y.sit.type[y.curseg[u].segno] = u
                       /\ y.curseg[u].segno \in y.free.inuse
                       /\ \A v \in Logs \ {u} : y.curseg[v].segno # y.curseg[u].segno
    BY Zenon DEF LogsOK
  <2>1. /\ LogOK(x3.curseg[u], x3.sit.cur_valid_map, x3.sit.ckpt_valid_map)
        /\ x3.sit.type[x3.curseg[u].segno] = u
        /\ x3.curseg[u].segno \in x3.free.inuse
        /\ \A v \in Logs \ {u} : x3.curseg[v].segno # x3.curseg[u].segno
    BY <1>12, Zenon DEF AllocOK, LogsOK
  <2>2. \A v \in Logs \ {u} : y.curseg[v].segno # y.curseg[u].segno
    BY <1>16, <2>1
  <2>. QED
    BY <1>14, <1>16, <2>1, <2>2, Zenon
<1>21. AllocOK(y, Logs \ {t})
  BY <1>12, <1>14, <1>17, <1>19, <1>20 DEF AllocOK, PreOK
<1>22. AllocOK(y, Logs)
  <2>1. /\ LogOK(y.curseg[t], y.sit.cur_valid_map, y.sit.ckpt_valid_map)
        /\ y.sit.type[y.curseg[t].segno] = t /\ y.curseg[t].segno \in y.free.inuse
    BY <1>2, <1>12, <1>14, <1>15, <1>16, <1>18
  <2>. QED
    BY <1>21, <2>1, AllLogsOK
<1>. QED
  BY <1>12, <1>14, <1>22

(* f2fs_replace_block keeps the invariant.                                 *)
LEMMA ReplaceStep ==
    ASSUME IndInv, NEW new \in OldBlocks("WARM_DATA"), f2fs_replace_block(new)
    PROVE  IndInv'
<1>1. Writing /\ ~cp_error /\ UNCHANGED <<cur_victim_sec, cp_phase, cp_error, disk, chain>>
  BY DEF f2fs_replace_block
<1>2. PICK t \in Logs \cap DataLogs :
        /\ IF IS_CURSEG(curseg, new[1]) THEN curseg[t].segno = new[1] ELSE t = "WARM_DATA"
        /\ LET y == __f2fs_replace_block(Present, t, NULL_ADDR, new, FALSE)
           IN  sit' = y.sit /\ free' = y.free /\ dirty' = y.dirty /\ curseg' = y.curseg
  BY Zenon DEF f2fs_replace_block, Present
<1>. DEFINE y == __f2fs_replace_block(Present, t, NULL_ADDR, new, FALSE)
<1>3. /\ AllocOK(Present, Logs) /\ Present.sit = sit /\ Present.free = free
      /\ Present.dirty = dirty /\ Present.curseg = curseg
  BY <1>1, PresentOK
<1>4. new \in Blocks /\ new[1] \in free.inuse
  BY ValidBlocksInUse DEF OldBlocks
<1>5. \A u \in Logs \ {t} : curseg[u].segno # new[1]
  <2>1. CASE IS_CURSEG(curseg, new[1])
    BY <1>2, <2>1 DEF IndInv, LogsOK
  <2>2. CASE ~IS_CURSEG(curseg, new[1])
    BY <2>2 DEF IS_CURSEG, CurSegs
  <2>. QED
    BY <2>1, <2>2
<1>6. /\ AllocOK(y, Logs)
      /\ y.sit.cur_valid_map = sit.cur_valid_map
      /\ y.sit.ckpt_valid_map = sit.ckpt_valid_map
  BY <1>3, <1>4, <1>5, ReplaceBlock, ZenonT(40)
<1>7. sit' = y.sit /\ free' = y.free /\ dirty' = y.dirty /\ curseg' = y.curseg
  BY <1>2, Zenon
<1>. HIDE DEF y
<1>8. /\ dirty' \in DirtyType /\ PreOK(dirty', y.sit, y.curseg)
      /\ dirty'.dirty_segmap["PRE"] \subseteq y.free.inuse
  BY <1>6, <1>7 DEF AllocOK, AllocType
<1>9. chain' \subseteq Blocks /\ chain' = chain
  BY <1>1 DEF IndInv, TypeOK
<1>. QED
  BY <1>1, <1>6, <1>7, <1>8, <1>9, WriterStep

(* Victim selection and the end of a collection touch the victim only.     *)
LEMMA GcStep ==
    ASSUME IndInv, get_victim_FG \/ get_victim_BG \/ f2fs_gc_end
    PROVE  IndInv'
<1>1. /\ UNCHANGED <<sit, free, curseg, cp_phase, cp_error, disk, chain>>
      /\ dirty' \in DirtyType
      /\ dirty'.dirty_segmap = dirty.dirty_segmap
      /\ cur_victim_sec' \in Secs \cup {NULL_SECNO}
  <2>1. dirty \in DirtyType /\ cur_victim_sec \in Secs \cup {NULL_SECNO}
    BY DEF IndInv, TypeOK
  <2>2. GcCandidates \subseteq Secs
    <3>1. dirty.dirty_segmap["DIRTY"] \subseteq Segs
      BY <2>1 DEF DirtyType, DirtyTypes
    <3>. QED
      BY <3>1, SecsAreNumbers DEF GcCandidates
  <2>3. check_bg_victims \subseteq Secs /\ FggcCandidates(GcCandidates) \subseteq Secs
    BY <2>1, <2>2 DEF check_bg_victims, FggcCandidates, DirtyType
  <2>4. CASE get_victim_FG
    <3>1. PICK c \in IF check_bg_victims # {} THEN check_bg_victims
                     ELSE FggcCandidates(GcCandidates) :
            /\ cur_victim_sec' = c
            /\ dirty' = [dirty EXCEPT !.victim_secmap = @ \ (check_bg_victims \cap {c})]
      BY <2>4 DEF get_victim_FG
    <3>2. c \in Secs
      BY <2>3
    <3>3. dirty' \in DirtyType /\ dirty'.dirty_segmap = dirty.dirty_segmap
      BY <2>1, <3>1 DEF DirtyType
    <3>. QED
      BY <2>4, <3>1, <3>2, <3>3 DEF get_victim_FG
  <2>5. CASE get_victim_BG
    BY <2>1, <2>2, <2>5 DEF get_victim_BG, DirtyType
  <2>6. CASE f2fs_gc_end
    BY <2>1, <2>6 DEF f2fs_gc_end
  <2>. QED
    BY <2>4, <2>5, <2>6
<1>2. TypeOK'
  BY <1>1 DEF IndInv, TypeOK
<1>3. PreOK(dirty, sit, curseg)'
  BY <1>1 DEF IndInv, PreOK
<1>4. CpOK'
  BY <1>1 DEF IndInv, CpOK, Writing
<1>. QED
  BY <1>1, <1>2, <1>3, <1>4 DEF IndInv

(* flush_sit_entries: the present maps become the checkpointed ones, and   *)
(* the prefree segments, which are empty and belong to no log, are free.   *)
LEMMA FlushStep ==
    ASSUME IndInv, flush_sit_entries
    PROVE  IndInv'
<1>. DEFINE P == dirty.dirty_segmap["PRE"]
            ckpt == [s \in Segs |-> IF s \in sit.dirty_sentries
                                    THEN sit.cur_valid_map[s] ELSE sit.ckpt_valid_map[s]]
            blks == [s \in Segs |-> IF s \in sit.dirty_sentries
                                    THEN sit.valid_blocks[s] ELSE sit.ckpt_valid_blocks[s]]
<1>1. /\ cp_phase = "idle" /\ ~cp_error /\ cp_phase' = "flushed"
      /\ sit' = [sit EXCEPT !.ckpt_valid_map = ckpt, !.ckpt_valid_blocks = blks,
                            !.dirty_sentries = {}]
      /\ free' = FreeAll(free, P)
      /\ UNCHANGED <<dirty, cur_victim_sec, curseg, cp_error, disk, chain>>
  BY DEF flush_sit_entries, FlushedSit, set_prefree_as_free_segments
<1>2. /\ sit \in SitType /\ free \in FreeType /\ dirty \in DirtyType /\ curseg \in CursegType
      /\ EntriesOK(sit) /\ FreeOK(free, sit) /\ PreOK(dirty, sit, curseg)
      /\ LogsOK(Logs, curseg, sit.type, sit.cur_valid_map, sit.ckpt_valid_map, free.inuse)
  BY DEF IndInv, TypeOK
<1>3. ckpt \in [Segs -> SUBSET Offs] /\ blks \in [Segs -> Int]
  BY <1>2 DEF SitType
<1>4. \A s \in Segs : ckpt[s] = sit.cur_valid_map[s]
  BY <1>2 DEF EntriesOK
<1>5. \A s \in Segs : blks[s] = Cardinality(sit.cur_valid_map[s])
  <2>. SUFFICES ASSUME NEW s \in Segs PROVE blks[s] = Cardinality(sit.cur_valid_map[s])
    OBVIOUS
  <2>1. /\ sit.valid_blocks[s] = Cardinality(sit.cur_valid_map[s])
        /\ sit.ckpt_valid_blocks[s] = Cardinality(sit.cur_valid_map[s] \cup sit.ckpt_valid_map[s])
    BY <1>2 DEF EntriesOK
  <2>2. CASE s \in sit.dirty_sentries
    BY <2>1, <2>2
  <2>3. CASE s \notin sit.dirty_sentries
    <3>1. sit.cur_valid_map[s] \cup sit.ckpt_valid_map[s] = sit.cur_valid_map[s]
      BY <1>2, <2>3 DEF EntriesOK
    <3>2. Cardinality(sit.cur_valid_map[s] \cup sit.ckpt_valid_map[s])
            = Cardinality(sit.cur_valid_map[s])
      BY <3>1, Zenon
    <3>3. blks[s] = sit.ckpt_valid_blocks[s]
      BY <2>3
    <3>. QED
      BY <2>1, <3>2, <3>3, Zenon
  <2>. QED
    BY <2>2, <2>3
<1>. HIDE DEF ckpt, blks
<1>6. /\ sit' \in SitType /\ sit'.type = sit.type
      /\ sit'.cur_valid_map = sit.cur_valid_map /\ sit'.valid_blocks = sit.valid_blocks
      /\ sit'.ckpt_valid_map = ckpt /\ sit'.ckpt_valid_blocks = blks
      /\ sit'.dirty_sentries = {}
  BY <1>1, <1>2, <1>3 DEF SitType
<1>7. EntriesOK(sit')
  <2>. SUFFICES ASSUME NEW s \in Segs
                PROVE  /\ sit'.ckpt_valid_map[s] = sit'.cur_valid_map[s]
                       /\ sit'.valid_blocks[s] = Cardinality(sit'.cur_valid_map[s])
                       /\ sit'.ckpt_valid_blocks[s]
                            = Cardinality(sit'.cur_valid_map[s] \cup sit'.ckpt_valid_map[s])
    BY DEF EntriesOK
  <2>1. sit'.ckpt_valid_map[s] = sit'.cur_valid_map[s]
    BY <1>4, <1>6
  <2>2. sit'.cur_valid_map[s] \cup sit'.ckpt_valid_map[s] = sit.cur_valid_map[s]
    BY <1>4, <1>6
  <2>3. Cardinality(sit'.cur_valid_map[s] \cup sit'.ckpt_valid_map[s])
          = Cardinality(sit.cur_valid_map[s])
    BY <2>2, Zenon
  <2>4. sit.valid_blocks[s] = Cardinality(sit.cur_valid_map[s])
    BY <1>2 DEF EntriesOK
  <2>. QED
    BY <1>5, <1>6, <2>1, <2>3, <2>4, Zenon
<1>8. /\ free' \in FreeType /\ free'.inuse = free.inuse \ P
      /\ \A s \in free'.inuse : SecOf(s) \in free'.inuse_sec
  <2>. DEFINE left == free.inuse \ P
              gone == {c \in {SecOf(s) : s \in P \cap free.inuse} :
                         SegsOf(c) \cap left = {} /\ c \in free.inuse_sec}
  <2>1. free' = [inuse |-> left, inuse_sec |-> free.inuse_sec \ gone,
                 free_segments |-> free.free_segments + Cardinality(P \cap free.inuse),
                 free_sections |-> free.free_sections + Cardinality(gone)]
    BY <1>1 DEF FreeAll
  <2>2. P \cap free.inuse \in SUBSET Segs /\ gone \in SUBSET Secs
    BY <1>2 DEF FreeType
  <2>3. Cardinality(P \cap free.inuse) \in Int /\ Cardinality(gone) \in Int
    <3>. HIDE DEF P, gone
    <3>1. IsFiniteSet(P \cap free.inuse) /\ IsFiniteSet(gone)
      BY <2>2, IndexSetsFinite, FS_Subset
    <3>. QED
      BY <3>1, FS_CardinalityType
  <2>4. \A s \in left : SecOf(s) \in free.inuse_sec \ gone
    BY <1>2 DEF FreeOK, FreeType, SegsOf
  <2>. HIDE DEF left, gone, P
  <2>5. /\ free' \in FreeType /\ free'.inuse = left /\ free'.inuse_sec = free.inuse_sec \ gone
    <3>1. left \in SUBSET Segs
      BY <1>2 DEF left, FreeType
    <3>. QED
      BY <1>2, <2>1, <2>3, <3>1 DEF FreeType
  <2>. QED
    BY <2>4, <2>5 DEF left
<1>9. FreeOK(free', sit')
  BY <1>2, <1>4, <1>6, <1>8 DEF FreeOK, PreOK
<1>10. LogsOK(Logs, curseg, sit'.type, sit'.cur_valid_map, sit'.ckpt_valid_map, free'.inuse)
  <2>. SUFFICES ASSUME NEW t \in Logs
                PROVE  /\ LogOK(curseg[t], sit'.cur_valid_map, sit'.ckpt_valid_map)
                       /\ sit'.type[curseg[t].segno] = t
                       /\ curseg[t].segno \in free'.inuse
                       /\ \A u \in Logs \ {t} : curseg[u].segno # curseg[t].segno
    BY Zenon DEF LogsOK
  <2>1. /\ LogOK(curseg[t], sit.cur_valid_map, sit.ckpt_valid_map)
        /\ sit.type[curseg[t].segno] = t
        /\ curseg[t].segno \in free.inuse
        /\ \A u \in Logs \ {t} : curseg[u].segno # curseg[t].segno
    BY <1>2, Zenon DEF LogsOK
  <2>2. curseg[t].segno \in Segs /\ curseg[t].segno \notin P
    BY <1>2 DEF CursegType, PreOK, CurSegs
  <2>3. LogOK(curseg[t], sit'.cur_valid_map, sit'.ckpt_valid_map)
    BY <1>4, <1>6, <2>1, <2>2 DEF LogOK
  <2>. QED
    BY <1>6, <1>8, <2>1, <2>2, <2>3
<1>11. TypeOK'
  BY <1>1, <1>6, <1>8 DEF IndInv, TypeOK
<1>12. PreOK(dirty, sit', curseg)
  BY <1>2, <1>6 DEF PreOK
<1>13. CpOK'
  BY <1>1, <1>6 DEF CpOK, Writing
<1>. QED
  BY <1>1, <1>7, <1>9, <1>10, <1>11, <1>12, <1>13, Zenon DEF IndInv

(* The commit: the durable checkpoint is the map that SSR already avoids.  *)
LEMMA CommitStep ==
    ASSUME IndInv, do_checkpoint
    PROVE  IndInv'
<1>1. /\ cp_phase = "flushed" /\ cp_phase' = "committed"
      /\ disk' = [valid |-> sit.cur_valid_map, type |-> sit.type, curseg |-> curseg]
      /\ chain' = {}
      /\ UNCHANGED <<sit, free, dirty, cur_victim_sec, curseg, cp_error>>
  BY DEF do_checkpoint
<1>2. /\ sit \in SitType /\ free \in FreeType /\ EntriesOK(sit) /\ sit.dirty_sentries = {}
      /\ LogsOK(Logs, curseg, sit.type, sit.cur_valid_map, sit.ckpt_valid_map, free.inuse)
  BY <1>1 DEF IndInv, TypeOK, CpOK
<1>3. sit.ckpt_valid_map = sit.cur_valid_map
  <2>1. \A s \in Segs : sit.ckpt_valid_map[s] = sit.cur_valid_map[s]
    BY <1>2 DEF EntriesOK
  <2>2. /\ sit.ckpt_valid_map \in [Segs -> SUBSET Offs]
        /\ sit.cur_valid_map \in [Segs -> SUBSET Offs]
    BY <1>2 DEF SitType
  <2>. QED
    BY <2>1, <2>2
<1>4. /\ disk' \in DiskType /\ disk'.valid = sit.cur_valid_map
      /\ disk'.type = sit.type /\ disk'.curseg = curseg
  BY <1>1 DEF IndInv, TypeOK, DiskType, SitType
<1>5. TypeOK'
  BY <1>1, <1>4 DEF IndInv, TypeOK
<1>6. LogsOK(Logs, curseg, sit.type, sit.cur_valid_map, sit.cur_valid_map, Segs)
  BY <1>2, <1>3 DEF LogsOK, FreeType
<1>7. CpOK'
  BY <1>1, <1>2, <1>3, <1>4 DEF CpOK, Writing
<1>8. /\ EntriesOK(sit)' /\ FreeOK(free, sit)' /\ PreOK(dirty, sit, curseg)'
      /\ LogsOK(Logs, curseg, sit.type, sit.cur_valid_map, sit.ckpt_valid_map, free.inuse)'
  BY <1>1, Zenon DEF IndInv
<1>9. LogsOK(Logs, disk.curseg, disk.type, disk.valid, disk.valid, Segs)'
  BY <1>4, <1>6, Zenon
<1>. QED
  BY <1>5, <1>7, <1>8, <1>9 DEF IndInv

(* The prefree list is dropped once the checkpoint is durable.             *)
LEMMA ClearStep ==
    ASSUME IndInv, clear_prefree_segments
    PROVE  IndInv'
<1>1. /\ cp_phase = "committed" /\ cp_phase' = "idle"
      /\ dirty' = PrefreeCleared(dirty)
      /\ UNCHANGED <<sit, free, cur_victim_sec, curseg, cp_error, disk, chain>>
  BY DEF clear_prefree_segments
<1>2. dirty' \in DirtyType /\ dirty'.dirty_segmap["PRE"] = {}
  <2>1. dirty \in DirtyType /\ "PRE" \in DirtyTypes
    BY DEF IndInv, TypeOK, DirtyTypes
  <2>2. dirty' = [dirty_segmap |-> [dirty.dirty_segmap EXCEPT !["PRE"] = {}],
                  nr_dirty |-> [dirty.nr_dirty EXCEPT !["PRE"] = 0],
                  victim_secmap |-> dirty.victim_secmap]
    BY <1>1, <2>1 DEF PrefreeCleared, DirtyType
  <2>. QED
    BY <2>1, <2>2 DEF DirtyType
<1>3. TypeOK'
  BY <1>1, <1>2 DEF IndInv, TypeOK
<1>4. PreOK(dirty, sit, curseg)'
  BY <1>2 DEF PreOK
<1>5. CpOK'
  BY <1>1, <1>2 DEF IndInv, CpOK
<1>. QED
  BY <1>1, <1>3, <1>4, <1>5 DEF IndInv

(* A stopped checkpoint leaves the error flag, which stops the writers.    *)
LEMMA ErrorStep ==
    ASSUME IndInv, f2fs_stop_checkpoint \/ do_checkpoint_EIO
    PROVE  IndInv'
<1>1. /\ UNCHANGED <<sit, free, dirty, cur_victim_sec, curseg, disk, chain>>
      /\ cp_error' = TRUE /\ cp_phase' \in {cp_phase, "idle"}
  BY DEF f2fs_stop_checkpoint, do_checkpoint_EIO, IndInv, TypeOK
<1>2. TypeOK'
  BY <1>1 DEF IndInv, TypeOK
<1>3. CpOK'
  BY <1>1 DEF IndInv, CpOK
<1>. QED
  BY <1>1, <1>2, <1>3 DEF IndInv

(* The structs that a mount builds from a checkpoint whose logs are in     *)
(* order are in order.                                                     *)
LEMMA MountOK ==
    ASSUME NEW d \in DiskType, LogsOK(Logs, d.curseg, d.type, d.valid, d.valid, Segs),
           NEW st, st = MountSit(d), NEW f, f = MountFree(d), NEW l, l = MountDirty(d)
    PROVE  /\ st \in SitType /\ f \in FreeType /\ l \in DirtyType
           /\ EntriesOK(st) /\ FreeOK(f, st) /\ PreOK(l, st, d.curseg)
           /\ LogsOK(Logs, d.curseg, st.type, st.cur_valid_map, st.ckpt_valid_map, f.inuse)
           /\ l.dirty_segmap["PRE"] = {} /\ st.ckpt_valid_map = d.valid
<1>1. ASSUME NEW S, IsFiniteSet(S) PROVE Cardinality(S) \in Int
  BY <1>1, FS_CardinalityType
<1>2. Count(d.valid) \in [Segs -> Int]
  <2>1. ASSUME NEW s \in Segs PROVE Cardinality(d.valid[s]) \in Int
    <3>1. d.valid[s] \in SUBSET Offs
      BY DEF DiskType
    <3>. QED
      BY <3>1, <1>1, IndexSetsFinite, FS_Subset
  <2>. QED
    BY <2>1 DEF Count
<1>3. ASSUME NEW S \in SUBSET Segs PROVE Cardinality(BlocksIn(S, d.valid)) \in Int
  <2>1. IsFiniteSet(S \X Offs)
    <3>1. IsFiniteSet(S)
      BY IndexSetsFinite, FS_Subset
    <3>. QED
      BY <3>1, IndexSetsFinite, FS_Product
  <2>2. IsFiniteSet(BlocksIn(S, d.valid))
    <3>1. BlocksIn(S, d.valid) \subseteq S \X Offs
      BY DEF BlocksIn
    <3>. QED
      BY <2>1, <3>1, FS_Subset
  <2>. QED
    BY <1>1, <2>2
<1>4. SecCount(d.valid) \in [Secs -> Int]
  <2>1. ASSUME NEW c \in Secs PROVE Cardinality(BlocksIn(SegsOf(c), d.valid)) \in Int
    BY <1>3 DEF SegsOf
  <2>. QED
    BY <2>1 DEF SecCount
<1>. DEFINE w == Cardinality(BlocksIn(Segs, d.valid))
<1>5. w \in Int
  BY <1>3
<1>. HIDE DEF w
<1>6. st = [type |-> d.type, valid_blocks |-> Count(d.valid), ckpt_valid_blocks |-> Count(d.valid),
            cur_valid_map |-> d.valid, ckpt_valid_map |-> d.valid, dirty_sentries |-> {},
            written_valid_blocks |-> w, sec_valid_blocks |-> SecCount(d.valid)]
  BY Zenon DEF MountSit, w
<1>7. /\ st \in SitType /\ st.type = d.type
      /\ st.cur_valid_map = d.valid /\ st.ckpt_valid_map = d.valid
      /\ st.valid_blocks = Count(d.valid) /\ st.ckpt_valid_blocks = Count(d.valid)
  BY <1>2, <1>4, <1>5, <1>6 DEF SitType, DiskType
<1>8. EntriesOK(st)
  <2>. SUFFICES ASSUME NEW s \in Segs
                PROVE  /\ st.ckpt_valid_map[s] = st.cur_valid_map[s]
                       /\ st.valid_blocks[s] = Cardinality(st.cur_valid_map[s])
                       /\ st.ckpt_valid_blocks[s]
                            = Cardinality(st.cur_valid_map[s] \cup st.ckpt_valid_map[s])
    BY DEF EntriesOK
  <2>1. st.cur_valid_map[s] \cup st.ckpt_valid_map[s] = d.valid[s]
    BY <1>7
  <2>2. Cardinality(st.cur_valid_map[s] \cup st.ckpt_valid_map[s]) = Cardinality(d.valid[s])
    BY <2>1, Zenon
  <2>3. Count(d.valid)[s] = Cardinality(d.valid[s])
    BY DEF Count
  <2>. QED
    BY <1>7, <2>2, <2>3, Zenon
<1>. DEFINE used == MountUsed(d)
            secs == {SecOf(s) : s \in used}
<1>9. used \in SUBSET Segs /\ secs \in SUBSET Secs
  BY SecsAreNumbers DEF MountUsed, CurSegs, DiskType, CursegType
<1>10. f = [inuse |-> used, inuse_sec |-> secs,
            free_segments |-> Cardinality(Segs \ used), free_sections |-> Cardinality(Secs \ secs)]
  BY Zenon DEF MountFree
<1>11. Cardinality(Segs \ used) \in Int /\ Cardinality(Secs \ secs) \in Int
  <2>1. IsFiniteSet(Segs \ used) /\ IsFiniteSet(Secs \ secs)
    BY IndexSetsFinite, FS_Difference
  <2>. QED
    BY <1>1, <2>1
<1>12. f \in FreeType /\ f.inuse = used /\ f.inuse_sec = secs
  <2>. HIDE DEF used, secs
  <2>. QED
    BY <1>9, <1>10, <1>11 DEF FreeType
<1>13. FreeOK(f, st)
  BY <1>7, <1>12 DEF FreeOK, MountUsed
<1>14. LogsOK(Logs, d.curseg, st.type, st.cur_valid_map, st.ckpt_valid_map, f.inuse)
  <2>1. \A t \in Logs : d.curseg[t].segno \in f.inuse
    BY <1>12 DEF MountUsed, CurSegs
  <2>. QED
    BY <1>7, <2>1 DEF LogsOK
<1>. DEFINE part == {s \in Segs : d.valid[s] \notin {{}, Offs} /\ ~IS_CURSEG(d.curseg, s)}
            list(t) == IF t = "DIRTY" THEN part ELSE {s \in part : d.type[s] = t}
<1>15. l = [dirty_segmap |-> [t \in DirtyTypes |-> list(t)],
            nr_dirty |-> [t \in DirtyTypes |-> Cardinality(list(t))],
            victim_secmap |-> {}]
  BY Zenon DEF MountDirty
<1>16. ASSUME NEW t \in DirtyTypes PROVE list(t) \in SUBSET Segs /\ Cardinality(list(t)) \in Int
  <2>1. list(t) \in SUBSET Segs
    OBVIOUS
  <2>. HIDE DEF list
  <2>. QED
    BY <1>1, <2>1, IndexSetsFinite, FS_Subset
<1>17. list("PRE") = {} /\ "PRE" \in DirtyTypes
  BY DEF DiskType, AllLogs, DataLogs, NodeLogs, DirtyTypes
<1>. HIDE DEF list, part
<1>18. l \in DirtyType /\ l.dirty_segmap["PRE"] = {}
  BY <1>15, <1>16, <1>17 DEF DirtyType
<1>19. PreOK(l, st, d.curseg)
  BY <1>18 DEF PreOK
<1>. QED
  BY <1>7, <1>8, <1>12, <1>13, <1>14, <1>18, <1>19

(* What mkfs writes has its logs in order.                                 *)
LEMMA FormattedOK ==
    /\ Formatted \in DiskType
    /\ LogsOK(Logs, Formatted.curseg, Formatted.type, Formatted.valid, Formatted.valid, Segs)
<1>. DEFINE root == {FormatSeg[t] : t \in Logs \cap {"HOT_DATA", "HOT_NODE"}}
            log(s) == {t \in Logs : FormatSeg[t] = s}
            valid == [s \in Segs |-> IF s \in root THEN {0} ELSE {}]
            type == [s \in Segs |-> IF log(s) # {} THEN CHOOSE t \in log(s) : TRUE ELSE "HOT_DATA"]
            cs == [t \in Logs |-> [segno |-> FormatSeg[t],
                                   next_blkoff |-> IF FormatSeg[t] \in root THEN 1 ELSE 0,
                                   alloc_type |-> "LFS"]]
<1>1. Formatted = [valid |-> valid, type |-> type, curseg |-> cs]
  BY Zenon DEF Formatted
<1>2. 0 \in Offs /\ 1 \in 0 .. BlocksPerSeg /\ 0 \in 0 .. BlocksPerSeg
  BY SizesAssumption DEF Offs
<1>3. valid \in [Segs -> SUBSET Offs] /\ cs \in CursegType
  BY <1>2, LogsAssumption DEF CursegType
<1>4. type \in [Segs -> AllLogs]
  <2>1. ASSUME NEW s \in Segs PROVE type[s] \in AllLogs
    <3>1. log(s) # {} => (CHOOSE t \in log(s) : TRUE) \in log(s)
      BY Zenon
    <3>2. "HOT_DATA" \in AllLogs
      BY DEF AllLogs, DataLogs
    <3>. QED
      BY <3>1, <3>2, LogsAssumption
  <2>. QED
    BY <2>1
<1>5. \A t, u \in Logs : t # u => FormatSeg[t] # FormatSeg[u]
  BY LogsAssumption
<1>6. \A t \in Logs : type[FormatSeg[t]] = t
  <2>. SUFFICES ASSUME NEW t \in Logs PROVE type[FormatSeg[t]] = t
    OBVIOUS
  <2>1. log(FormatSeg[t]) = {t}
    BY <1>5
  <2>2. FormatSeg[t] \in Segs
    BY LogsAssumption
  <2>. QED
    BY <2>1, <2>2
<1>. HIDE DEF type
<1>7. LogsOK(Logs, cs, type, valid, valid, Segs)
  <2>. SUFFICES ASSUME NEW t \in Logs
                PROVE  /\ LogOK(cs[t], valid, valid)
                       /\ type[cs[t].segno] = t
                       /\ cs[t].segno \in Segs
                       /\ \A u \in Logs \ {t} : cs[u].segno # cs[t].segno
    BY Zenon DEF LogsOK
  <2>1. FormatSeg[t] \in Segs
    BY LogsAssumption
  <2>2. LogOK(cs[t], valid, valid)
    BY <2>1, SizesAssumption DEF LogOK, Offs
  <2>. QED
    BY <1>5, <1>6, <2>1, <2>2
<1>8. Formatted \in DiskType
  BY <1>1, <1>3, <1>4, Zenon DEF DiskType
<1>. QED
  BY <1>1, <1>7, <1>8

----------------------------------------------------------------------------
(* The theorems                                                            *)

(* A freshly mounted volume satisfies the invariant.                       *)
LEMMA MountedInv ==
    ASSUME disk \in DiskType, LogsOK(Logs, disk.curseg, disk.type, disk.valid, disk.valid, Segs),
           sit = MountSit(disk), free = MountFree(disk), dirty = MountDirty(disk),
           curseg = disk.curseg, cur_victim_sec = NULL_SECNO,
           cp_phase = "idle", cp_error = FALSE, chain = {}
    PROVE  IndInv
<1>1. /\ sit \in SitType /\ free \in FreeType /\ dirty \in DirtyType
      /\ EntriesOK(sit) /\ FreeOK(free, sit) /\ PreOK(dirty, sit, curseg)
      /\ LogsOK(Logs, curseg, sit.type, sit.cur_valid_map, sit.ckpt_valid_map, free.inuse)
      /\ dirty.dirty_segmap["PRE"] = {} /\ sit.ckpt_valid_map = disk.valid
  BY MountOK, Zenon
<1>2. TypeOK
  BY <1>1 DEF TypeOK, DiskType
<1>3. CpOK
  BY <1>1 DEF CpOK
<1>. QED
  BY <1>1, <1>2, <1>3 DEF IndInv

(* A crash at any moment brings back a volume that satisfies it.           *)
LEMMA CrashStep ==
    ASSUME IndInv, Crash
    PROVE  IndInv'
<1>1. /\ sit' = MountSit(disk') /\ free' = MountFree(disk') /\ dirty' = MountDirty(disk')
      /\ curseg' = disk'.curseg /\ cur_victim_sec' = NULL_SECNO
      /\ cp_phase' = "idle" /\ cp_error' = FALSE /\ chain' = {} /\ disk' = disk
  BY Zenon DEF Crash
<1>2. disk' \in DiskType /\ LogsOK(Logs, disk'.curseg, disk'.type, disk'.valid, disk'.valid, Segs)
  BY <1>1 DEF IndInv, TypeOK
<1>3. /\ sit' \in SitType /\ free' \in FreeType /\ dirty' \in DirtyType
      /\ EntriesOK(sit') /\ FreeOK(free', sit') /\ PreOK(dirty', sit', curseg')
      /\ LogsOK(Logs, curseg', sit'.type, sit'.cur_valid_map, sit'.ckpt_valid_map, free'.inuse)
      /\ dirty'.dirty_segmap["PRE"] = {} /\ sit'.ckpt_valid_map = disk'.valid
  BY <1>1, <1>2, MountOK, Zenon
<1>4. TypeOK'
  BY <1>1, <1>2, <1>3 DEF TypeOK, DiskType
<1>5. CpOK'
  BY <1>1, <1>3 DEF CpOK
<1>. QED
  BY <1>2, <1>3, <1>4, <1>5 DEF IndInv

(* On a volume of one device (f2fs_flush_device_cache cannot fail) IndInv  *)
(* is an invariant, for every geometry, set of logs and environment, with  *)
(* I/O errors and a crash at any step.                                     *)
THEOREM Inductive ==
    ASSUME "device" \notin Faults
    PROVE  Spec => []IndInv
<1>1. Init => IndInv
  <2>. SUFFICES ASSUME Init PROVE IndInv
    OBVIOUS
  <2>1. disk \in DiskType /\ LogsOK(Logs, disk.curseg, disk.type, disk.valid, disk.valid, Segs)
    BY FormattedOK, Zenon DEF Init
  <2>. QED
    BY <2>1, MountedInv, Zenon DEF Init
<1>2. IndInv /\ [Next]_vars => IndInv'
  <2>. SUFFICES ASSUME IndInv, [Next]_vars PROVE IndInv'
    OBVIOUS
  <2>1. ASSUME NEW t \in Logs, NEW reserve \in SsrReserves,
               NEW old \in OldBlocks(t) \cup {NULL_ADDR}, allocate_data_block(t, old, reserve)
        PROVE  IndInv'
    BY <2>1, AllocateStep
  <2>2. ASSUME NEW b \in ValidBlocks, invalidate_blocks(b) PROVE IndInv'
    BY <2>2, InvalidateStep
  <2>3. ASSUME NEW new \in OldBlocks("WARM_DATA"), f2fs_replace_block(new) PROVE IndInv'
    BY <2>3, ReplaceStep
  <2>4. CASE get_victim_FG \/ get_victim_BG \/ f2fs_gc_end
    BY <2>4, GcStep
  <2>5. CASE flush_sit_entries
    BY <2>5, FlushStep
  <2>6. CASE do_checkpoint
    BY <2>6, CommitStep
  <2>7. CASE clear_prefree_segments
    BY <2>7, ClearStep
  <2>8. CASE f2fs_stop_checkpoint \/ do_checkpoint_EIO
    BY <2>8, ErrorStep
  <2>9. CASE flush_device_cache_fails
    BY <2>9 DEF flush_device_cache_fails
  <2>10. CASE Crash
    BY <2>10, CrashStep
  <2>11. CASE UNCHANGED vars
    BY <2>11 DEF vars, IndInv, TypeOK, CpOK, Writing
  <2>. QED
    BY <2>1, <2>2, <2>3, <2>4, <2>5, <2>6, <2>7, <2>8, <2>9, <2>10, <2>11 DEF Next
<1>. QED
  BY <1>1, <1>2, PTL DEF Spec

(* Offsets, segment numbers, phases and lists keep their types.            *)
THEOREM TypeCorrect ==
    ASSUME "device" \notin Faults
    PROVE  Spec => []TypeOK
<1>1. IndInv => TypeOK
  BY DEF IndInv
<1>. QED
  BY <1>1, Inductive, PTL

(* What the log hands out next is in no map and not in the durable         *)
(* checkpoint: LogOK covers the two maps in memory and CpOK says that the  *)
(* checkpointed map covers the one on disk.                                *)
THEOREM NeverOverwrites ==
    ASSUME "device" \notin Faults
    PROVE  Spec => []NoOverwrite
<1>1. IndInv => NoOverwrite
  <2>. SUFFICES ASSUME IndInv, Writing, ~cp_error, NEW t \in Logs
                PROVE  /\ ~Occupied(NextFree(t))
                       /\ NextFree(t)[2] \notin disk.valid[NextFree(t)[1]]
    BY DEF NoOverwrite
  <2>1. /\ curseg[t].segno \in Segs /\ curseg[t].next_blkoff \in 0 .. BlocksPerSeg
        /\ LogOK(curseg[t], sit.cur_valid_map, sit.ckpt_valid_map)
    BY DEF IndInv, TypeOK, CursegType, LogsOK
  <2>2. curseg[t].next_blkoff \in Offs
    BY <2>1, SizesAssumption DEF LogOK, Offs
  <2>3. curseg[t].next_blkoff \notin sit.cur_valid_map[curseg[t].segno]
                                        \cup sit.ckpt_valid_map[curseg[t].segno]
    BY <2>1, <2>2 DEF LogOK
  <2>4. disk.valid[curseg[t].segno] \subseteq sit.ckpt_valid_map[curseg[t].segno]
    BY <2>1 DEF IndInv, CpOK
  <2>. QED
    BY <2>3, <2>4 DEF NextFree, Occupied
<1>. QED
  BY <1>1, Inductive, PTL

(* No block that roll-forward recovery reads is handed out: the chain lies *)
(* in the checkpointed map until the next checkpoint is durable.           *)
THEOREM NodeChainKept ==
    ASSUME "device" \notin Faults
    PROVE  Spec => []ChainKept
<1>1. IndInv => ChainKept
  <2>. SUFFICES ASSUME IndInv, Writing, ~cp_error, NEW t \in Logs, NextFree(t) \in chain
                PROVE  FALSE
    BY DEF ChainKept
  <2>1. /\ curseg[t].next_blkoff \in 0 .. BlocksPerSeg
        /\ LogOK(curseg[t], sit.cur_valid_map, sit.ckpt_valid_map)
    BY DEF IndInv, TypeOK, CursegType, LogsOK
  <2>2. curseg[t].next_blkoff \in Offs
    BY <2>1, SizesAssumption DEF LogOK, Offs
  <2>3. NextFree(t)[2] \in sit.ckpt_valid_map[NextFree(t)[1]]
    BY DEF IndInv, CpOK
  <2>. QED
    BY <2>1, <2>2, <2>3 DEF LogOK, NextFree
<1>. QED
  BY <1>1, Inductive, PTL

(* A log at rest always has a block to give.                               *)
THEOREM LogsHaveSpace ==
    ASSUME "device" \notin Faults
    PROVE  Spec => []CursegHasSpace
<1>1. IndInv => CursegHasSpace
  BY DEF IndInv, LogsOK, LogOK, CursegHasSpace
<1>. QED
  BY <1>1, Inductive, PTL

=============================================================================
