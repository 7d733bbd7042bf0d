--------------------------- MODULE DiscardProofs ----------------------------
(***************************************************************************)
(* Theorems about the discard commands of Discard, for every number and    *)
(* size of segments, every granularity and any number of operations.       *)
(***************************************************************************)
EXTENDS Discard, FiniteSetTheorems, WellFoundedInduction, NaturalsInduction, TLAPS

----------------------------------------------------------------------------
(* Blocks, segments and runs                                               *)

(* A nonempty set of numbers has a least one.                              *)
LEMMA LeastNumber ==
    ASSUME NEW S \in SUBSET Nat, S # {}
    PROVE  \E x \in S : \A y \in S : x <= y
<1>. DEFINE R == {ss \in Nat \X Nat : ss[1] < ss[2]}
<1>1. IsWellFoundedOn(R, Nat)
  BY NatLessThanWellFounded, Zenon DEF OpToRel
<1>. HIDE DEF R
<1>2. PICK x \in S : \A y \in S : ~(<<y, x>> \in R)
  BY <1>1, WFMin, Zenon
<1>3. ASSUME NEW y \in S PROVE x <= y
  <2>1. y < x => <<y, x>> \in R
    BY DEF R
  <2>. QED
    BY <1>2, <2>1
<1>. QED
  BY <1>3

(* The blocks of a segment are blocks, and they are in that segment.       *)
LEMMA SegBlocks ==
    /\ \A b \in DBlocks : Seg(b) \in Segments /\ b \in BlocksOf(Seg(b))
    /\ \A s \in Segments : \A b \in BlocksOf(s) : b \in DBlocks /\ Seg(b) = s
    /\ \A s, e \in Segments : \A b \in SegRange(s, e) : b \in DBlocks /\ Seg(b) \in s .. e
<1>. DEFINE B == SEG_BLOCKS
<1>1. B \in Nat \ {0} /\ SEGS \in Nat \ {0}
  BY DiscardAssumption
<1>2. \A x, y, z \in Nat : x <= y => x * z <= y * z
  <2>. SUFFICES ASSUME NEW x \in Nat, NEW y \in Nat, NEW z \in Nat, x <= y PROVE x * z <= y * z
    OBVIOUS
  <2>1. PICK d \in Nat : y = x + d
    <3>1. y - x \in Nat /\ y = x + (y - x)
      OBVIOUS
    <3>. QED
      BY <3>1
  <2>2. y * z = x * z + d * z /\ x * z \in Nat /\ d * z \in Nat
    BY <2>1
  <2>. QED
    BY <2>2
<1>3. ASSUME NEW b \in Nat
      PROVE  /\ Seg(b) \in Nat /\ Seg(b) * B <= b /\ b < (Seg(b) + 1) * B
  <2>1. b \div B \in Nat /\ (b \div B) * B <= b /\ b < (b \div B) * B + B
    BY <1>1
  <2>. QED
    BY <1>1, <2>1 DEF Seg
<1>4. ASSUME NEW b \in Nat, NEW s \in Nat, NEW e \in Nat, s * B <= b, b < (e + 1) * B
      PROVE  s <= Seg(b) /\ Seg(b) <= e
  <2>. DEFINE q == Seg(b)
  <2>1. q \in Nat /\ q * B <= b /\ b < (q + 1) * B
    BY <1>3
  <2>. HIDE DEF q
  <2>2. ~(q + 1 <= s)
    <3>1. q + 1 <= s => (q + 1) * B <= s * B
      BY <1>1, <1>2, <2>1
    <3>2. (q + 1) * B \in Nat /\ s * B \in Nat
      BY <1>1, <2>1
    <3>. QED
      BY <1>4, <2>1, <3>1, <3>2
  <2>3. ~(e + 1 <= q)
    <3>1. e + 1 <= q => (e + 1) * B <= q * B
      BY <1>1, <1>2, <2>1
    <3>2. (e + 1) * B \in Nat /\ q * B \in Nat
      BY <1>1, <2>1
    <3>. QED
      BY <1>4, <2>1, <3>1, <3>2
  <2>. QED
    BY <2>1, <2>2, <2>3 DEF q
<1>5. SEGS * B \in Nat /\ (SEGS - 1 + 1) * B = SEGS * B /\ 0 * B = 0
  BY <1>1
<1>6. ASSUME NEW b \in DBlocks PROVE Seg(b) \in Segments /\ b \in BlocksOf(Seg(b))
  <2>1. b \in Nat /\ b < SEGS * B
    BY <1>5 DEF DBlocks
  <2>2. Seg(b) \in Nat /\ Seg(b) <= SEGS - 1
    BY <1>1, <1>3, <1>4, <1>5, <2>1
  <2>3. Seg(b) * B <= b /\ b < (Seg(b) + 1) * B
    BY <1>3, <2>1
  <2>4. Seg(b) * B \in Int /\ (Seg(b) + 1) * B \in Int
    BY <1>1, <2>2
  <2>. QED
    BY <1>1, <2>1, <2>2, <2>3, <2>4 DEF Segments, BlocksOf
<1>7. ASSUME NEW s \in Segments, NEW e \in Segments, NEW b \in SegRange(s, e)
      PROVE  b \in DBlocks /\ Seg(b) \in s .. e
  <2>1. s \in Nat /\ e \in Nat /\ e + 1 <= SEGS
    BY <1>1 DEF Segments
  <2>2. s * B \in Nat /\ (e + 1) * B \in Nat /\ (e + 1) * B <= SEGS * B
    BY <1>1, <1>2, <2>1
  <2>3. b \in Nat /\ s * B <= b /\ b < (e + 1) * B
    BY <2>2 DEF SegRange
  <2>4. s <= Seg(b) /\ Seg(b) <= e /\ Seg(b) \in Nat
    BY <1>3, <1>4, <2>1, <2>3
  <2>. QED
    BY <1>5, <2>1, <2>2, <2>3, <2>4 DEF DBlocks
<1>8. \A s \in Segments : BlocksOf(s) = SegRange(s, s)
  BY DEF BlocksOf, SegRange
<1>9. ASSUME NEW s \in Segments, NEW b \in BlocksOf(s) PROVE b \in DBlocks /\ Seg(b) = s
  <2>1. Seg(b) \in s .. s /\ b \in DBlocks
    BY <1>7, <1>8
  <2>. QED
    BY <2>1 DEF Segments
<1>. QED
  BY <1>6, <1>7, <1>9

(* Sets of blocks are finite.                                              *)
LEMMA BlocksFinite ==
    ASSUME NEW S \in SUBSET DBlocks
    PROVE  IsFiniteSet(S) /\ Cardinality(S) \in Nat
<1>1. SEGS * SEG_BLOCKS \in Nat
  BY DiscardAssumption
<1>2. IsFiniteSet(DBlocks)
  BY <1>1, FS_Interval DEF DBlocks
<1>. QED
  BY <1>2, FS_Subset, FS_CardinalityType

(* Taking blocks away, and adding new ones.                                *)
LEMMA CountBlocks ==
    ASSUME NEW S \in SUBSET DBlocks, NEW T \in SUBSET DBlocks
    PROVE  /\ T \subseteq S => Cardinality(S \ T) = Cardinality(S) - Cardinality(T)
           /\ S \cap T = {} => Cardinality(S \cup T) = Cardinality(S) + Cardinality(T)
<1>1. IsFiniteSet(S) /\ IsFiniteSet(T) /\ Cardinality(S) \in Nat /\ Cardinality(T) \in Nat
  BY BlocksFinite
<1>2. ASSUME T \subseteq S PROVE Cardinality(S \ T) = Cardinality(S) - Cardinality(T)
  <2>1. Cardinality(S \ T) = Cardinality(S) - Cardinality(S \cap T)
    BY <1>1, FS_Difference
  <2>2. S \cap T = T
    BY <1>2
  <2>. QED
    BY <2>1, <2>2
<1>3. ASSUME S \cap T = {} PROVE Cardinality(S \cup T) = Cardinality(S) + Cardinality(T)
  <2>1. Cardinality(S \cup T) = Cardinality(S) + Cardinality(T) - Cardinality(S \cap T)
    BY <1>1, FS_Union
  <2>2. Cardinality(S \cap T) = 0
    BY <1>3, FS_EmptySet
  <2>. QED
    BY <1>1, <2>1, <2>2
<1>. QED
  BY <1>2, <1>3

(* The runs of a set lie in it and apart.                                  *)
LEMMA RunsApart ==
    ASSUME NEW S \in SUBSET Nat
    PROVE  /\ \A r \in Runs(S) : /\ r[1] \in S /\ r[2] \in Nat \ {0} /\ Span(r) \subseteq S
           /\ \A r, q \in Runs(S) : Span(r) \cap Span(q) # {} => r[1] = q[1] /\ r[2] = q[2]
<1>1. ASSUME NEW r \in Runs(S)
      PROVE  /\ r[1] \in S /\ r[2] \in Nat \ {0} /\ Span(r) \subseteq S
             /\ r[1] - 1 \notin S /\ r[1] + r[2] \notin S
  <2>1. r \in S \X (1 .. Cardinality(S)) /\ Span(r) \subseteq S
        /\ r[1] - 1 \notin S /\ r[1] + r[2] \notin S
    BY DEF Runs
  <2>2. r[1] \in S /\ r[2] \in 1 .. Cardinality(S)
    BY <2>1
  <2>. QED
    BY <2>1, <2>2
<1>2. ASSUME NEW r \in Runs(S), NEW q \in Runs(S), NEW x \in Span(r) \cap Span(q)
      PROVE  r[1] = q[1] /\ r[2] = q[2]
  <2>. DEFINE a == r[1]  k == r[2]  b == q[1]  l == q[2]
  <2>1. /\ a \in Nat /\ k \in Nat /\ b \in Nat /\ l \in Nat /\ k > 0 /\ l > 0
        /\ a - 1 \notin S /\ a + k \notin S /\ b - 1 \notin S /\ b + l \notin S
    <3>1. a \in S /\ k \in Nat \ {0} /\ a - 1 \notin S /\ a + k \notin S
      BY <1>1
    <3>2. b \in S /\ l \in Nat \ {0} /\ b - 1 \notin S /\ b + l \notin S
      BY <1>1
    <3>. HIDE DEF a, b, k, l
    <3>. QED
      BY <3>1, <3>2
  <2>4. Span(r) = a .. a + k - 1 /\ Span(q) = b .. b + l - 1 /\ Span(r) \subseteq S /\ Span(q) \subseteq S
    BY <1>1 DEF Span
  <2>5. /\ \A y \in a .. a + k - 1 : y \in S
        /\ \A y \in b .. b + l - 1 : y \in S
        /\ x \in a .. a + k - 1 /\ x \in b .. b + l - 1
    BY <2>4
  <2>. HIDE DEF a, k, b, l
  <2>2. a = b
    <3>1. a < b => b - 1 \in a .. a + k - 1
      BY <2>1, <2>5
    <3>2. b < a => a - 1 \in b .. b + l - 1
      BY <2>1, <2>5
    <3>. QED
      BY <2>1, <2>5, <3>1, <3>2
  <2>3. k = l
    <3>1. k < l => a + k \in b .. b + l - 1
      BY <2>1, <2>5, <2>2
    <3>2. l < k => b + l \in a .. a + k - 1
      BY <2>1, <2>5, <2>2
    <3>. QED
      BY <2>1, <2>5, <3>1, <3>2
  <2>. QED
    BY <2>2, <2>3 DEF a, b, k, l
<1>. QED
  BY <1>1, <1>2

(* Every block of a set is in one of its runs.                             *)
LEMMA RunsCover ==
    ASSUME NEW S \in SUBSET DBlocks
    PROVE  UNION {Span(r) : r \in Runs(S)} = S
<1>. DEFINE M == SEGS * SEG_BLOCKS
<1>1. M \in Nat /\ \A x \in S : x \in Nat /\ x < M
  BY DiscardAssumption DEF DBlocks
<1>. HIDE DEF M
<1>2. S \in SUBSET Nat
  BY <1>1
<1>3. ASSUME NEW x \in S PROVE \E r \in Runs(S) : x \in Span(r)
  <2>. DEFINE A == {a \in Nat : a <= x /\ a .. x \subseteq S}
              Z == {z \in Nat : z > x /\ z \notin S}
  <2>1. x \in A /\ M \in Z
    BY <1>1, <1>3
  <2>2. PICK a \in A : \A y \in A : a <= y
    BY <2>1, LeastNumber
  <2>3. PICK z \in Z : \A y \in Z : z <= y
    BY <2>1, LeastNumber
  <2>. DEFINE k == z - a  r == <<a, k>>
  <2>4. a \in Nat /\ z \in Nat /\ x \in Nat /\ a <= x /\ x < z /\ z \notin S /\ \A y \in a .. x : y \in S
    BY <1>1, <2>2, <2>3
  <2>5. a - 1 \notin S
    <3>. SUFFICES ASSUME a - 1 \in S PROVE FALSE
      OBVIOUS
    <3>1. a - 1 \in Nat
      BY <1>1
    <3>2. \A y \in a - 1 .. x : y \in S
      BY <2>4, <3>1
    <3>3. a - 1 \in A
      BY <2>4, <3>1, <3>2
    <3>. QED
      BY <2>2, <2>4, <3>3
  <2>6. \A y \in a .. z - 1 : y \in S
    <3>1. ASSUME NEW y \in x + 1 .. z - 1, y \notin S PROVE FALSE
      BY <2>3, <2>4, <3>1
    <3>. QED
      BY <2>4, <3>1
  <2>7. k \in Nat /\ k > 0 /\ a + k = z
    BY <2>4
  <2>. HIDE DEF A, Z
  <2>8. k <= Cardinality(S)
    <3>1. IsFiniteSet(a .. z - 1) /\ Cardinality(a .. z - 1) = k
      <4>1. a \in Int /\ z - 1 \in Int /\ ~(a > z - 1) /\ z - 1 - a + 1 = k
        BY <2>4
      <4>. HIDE DEF k
      <4>. DEFINE e == z - 1
      <4>2. e \in Int /\ ~(a > e) /\ e - a + 1 = k
        BY <4>1
      <4>. HIDE DEF e
      <4>3. IsFiniteSet(a .. e) /\ Cardinality(a .. e) = k
        BY <4>1, <4>2, FS_Interval
      <4>. QED
        BY <4>3 DEF e
    <3>2. IsFiniteSet(S) /\ Cardinality(S) \in Nat
      BY BlocksFinite
    <3>3. a .. z - 1 \in SUBSET S
      BY <2>6
    <3>. QED
      BY <3>1, <3>2, <3>3, FS_Subset
  <2>. HIDE DEF k
  <2>9. r \in S \X (1 .. Cardinality(S)) /\ r[1] = a /\ r[2] = k
    <3>1. Cardinality(S) \in Nat /\ a \in S
      BY <2>4, BlocksFinite
    <3>. QED
      BY <2>7, <2>8, <3>1
  <2>10. Span(r) = a .. z - 1
    BY <2>4, <2>7, <2>9 DEF Span
  <2>. HIDE DEF r
  <2>11. r \in Runs(S)
    BY <2>4, <2>5, <2>6, <2>7, <2>9, <2>10 DEF Runs
  <2>. QED
    BY <2>4, <2>10, <2>11
<1>4. \A r \in Runs(S) : Span(r) \subseteq S
  BY <1>2, RunsApart
<1>. QED
  BY <1>3, <1>4

----------------------------------------------------------------------------
(* Commands                                                                *)

CmdType == [lstart : Nat, len : Nat \ {0}, state : {"PREP", "SUBMIT", "DONE"}, ref : Nat,
            list : {"pend", "wait", "fstrim"}]

Apart(cs) == \A c, d \in cs : c # d => Covers(c) \cap Covers(d) = {}

(* Commands are apart, on the device, and pending ones on a pending list.  *)
CmdsOK(cs) ==
    /\ cs \subseteq CmdType /\ Covered(cs) \subseteq DBlocks /\ Apart(cs)
    /\ \A c \in cs : c.state = "PREP" => c.list = "pend"

(* A command covers its first block.                                       *)
LEMMA CoversStart ==
    ASSUME NEW c \in CmdType
    PROVE  c.lstart \in Covers(c) /\ Covers(c) \subseteq Nat
<1>1. c.lstart \in Nat /\ c.len \in Nat \ {0}
  BY DEF CmdType
<1>. QED
  BY <1>1 DEF Covers

(* Two commands with a block in common, or the same start, are one.        *)
LEMMA OneCommand ==
    ASSUME NEW cs, CmdsOK(cs), NEW c \in cs, NEW d \in cs
    PROVE  /\ c.lstart = d.lstart => c = d
           /\ \A b : b \in Covers(c) /\ b \in Covers(d) => c = d
           /\ Covers(c) \subseteq Covered(cs)
<1>1. c \in CmdType /\ d \in CmdType /\ (c # d => Covers(c) \cap Covers(d) = {})
  BY DEF CmdsOK, Apart
<1>2. c.lstart \in Covers(c) /\ d.lstart \in Covers(d)
  BY <1>1, CoversStart
<1>. QED
  BY <1>1, <1>2 DEF Covered

(* Commands of A give way to those of B, made of their blocks and of       *)
(* blocks N that nothing covers yet.                                       *)
Replaces(A, B, N) ==
    /\ B \subseteq CmdType /\ Apart(B)
    /\ \A d \in B : Covers(d) \subseteq Covered(A) \cup N /\ (d.state = "PREP" => d.list = "pend")

(* The commands stay apart.                                                *)
LEMMA Replaced ==
    ASSUME NEW cs, CmdsOK(cs), NEW A \in SUBSET cs, NEW N \in SUBSET DBlocks, N \cap Covered(cs) = {},
           NEW B, Replaces(A, B, N)
    PROVE  /\ CmdsOK((cs \ A) \cup B)
           /\ Covered((cs \ A) \cup B) = (Covered(cs) \ Covered(A)) \cup Covered(B)
           /\ Covered(A) \subseteq Covered(cs) /\ Covered(B) \subseteq Covered(A) \cup N
<1>0. /\ cs \subseteq CmdType /\ Covered(cs) \subseteq DBlocks /\ Apart(cs)
      /\ \A c \in cs : c.state = "PREP" => c.list = "pend"
  BY DEF CmdsOK
<1>1. Covered(A) \subseteq Covered(cs) /\ Covered(B) \subseteq Covered(A) \cup N
  BY DEF Covered, Replaces
<1>2. \A c \in cs \ A : Covers(c) \cap Covered(A) = {} /\ Covers(c) \subseteq Covered(cs)
  <2>1. \A c \in cs \ A, d \in A : Covers(c) \cap Covers(d) = {}
    BY <1>0 DEF Apart
  <2>. QED
    BY <2>1 DEF Covered
<1>3. Covered(cs \ A) = Covered(cs) \ Covered(A)
  <2>1. Covered(cs \ A) \subseteq Covered(cs) \ Covered(A)
    BY <1>2 DEF Covered
  <2>2. Covered(cs) \ Covered(A) \subseteq Covered(cs \ A)
    BY DEF Covered
  <2>. QED
    BY <2>1, <2>2
<1>4. Covered((cs \ A) \cup B) = Covered(cs \ A) \cup Covered(B)
  BY DEF Covered
<1>5. \A c \in cs \ A, d \in B : Covers(c) \cap Covers(d) = {}
  BY <1>2 DEF Replaces
<1>6. Apart((cs \ A) \cup B)
  BY <1>0, <1>5 DEF Apart, Replaces
<1>7. Covered((cs \ A) \cup B) \subseteq DBlocks
  BY <1>0, <1>1, <1>3, <1>4
<1>8. CmdsOK((cs \ A) \cup B)
  BY <1>0, <1>6, <1>7 DEF CmdsOK, Replaces
<1>. QED
  BY <1>1, <1>3, <1>4, <1>8

(* The same command in another state, on another list, or with another     *)
(* number of waiters.                                                      *)
Same(c, d) == c.lstart = d.lstart /\ c.len = d.len
Moves(A, B) ==
    /\ B \subseteq CmdType
    /\ \A d \in B : (\E c \in A : Same(c, d)) /\ (d.state = "PREP" => d.list = "pend")
    /\ \A d, e \in B : d.lstart = e.lstart => d = e

(* Commands that move, and possibly go, are replaced in this sense.        *)
LEMMA Moved ==
    ASSUME NEW cs, CmdsOK(cs), NEW A \in SUBSET cs, NEW B, Moves(A, B)
    PROVE  /\ Replaces(A, B, {})
           /\ CmdsOK((cs \ A) \cup B)
           /\ Covered((cs \ A) \cup B) = Covered(cs) \ (Covered(A) \ Covered(B))
           /\ Covered(B) \subseteq Covered(A) /\ Covered(A) \subseteq Covered(cs)
<1>1. ASSUME NEW d \in B PROVE \E c \in A : Same(c, d) /\ Covers(c) = Covers(d)
  <2>1. PICK c \in A : Same(c, d)
    BY DEF Moves
  <2>2. Covers(c) = Covers(d)
    BY <2>1 DEF Same, Covers
  <2>. QED
    BY <2>1, <2>2
<1>2. Apart(B)
  <2>. SUFFICES ASSUME NEW d \in B, NEW e \in B, d # e PROVE Covers(d) \cap Covers(e) = {}
    BY DEF Apart
  <2>1. PICK c \in A : Same(c, d) /\ Covers(c) = Covers(d)
    BY <1>1
  <2>2. PICK b \in A : Same(b, e) /\ Covers(b) = Covers(e)
    BY <1>1
  <2>3. d.lstart # e.lstart
    BY DEF Moves
  <2>4. c # b
    BY <2>1, <2>2, <2>3 DEF Same
  <2>. QED
    BY <2>1, <2>2, <2>4 DEF CmdsOK, Apart
<1>3. Replaces(A, B, {})
  BY <1>1, <1>2 DEF Replaces, Moves, Covered
<1>4. {} \in SUBSET DBlocks /\ {} \cap Covered(cs) = {}
  OBVIOUS
<1>5. /\ CmdsOK((cs \ A) \cup B)
      /\ Covered((cs \ A) \cup B) = (Covered(cs) \ Covered(A)) \cup Covered(B)
      /\ Covered(A) \subseteq Covered(cs) /\ Covered(B) \subseteq Covered(A) \cup {}
  BY <1>3, <1>4, Replaced
<1>. QED
  BY <1>3, <1>5

----------------------------------------------------------------------------
(* Waiters                                                                 *)

Waiters(act, l) == {a \in Actors : act[a].pc = "waitone" /\ act[a].dc = l}

(* The references to a command are those of its waiters, and what an actor *)
(* waits for is there and was submitted.                                   *)
Waits(cs, act) ==
    /\ \A c \in cs : c.ref = Cardinality(Waiters(act, c.lstart))
    /\ \A a \in Actors : act[a].pc = "waitone" => \E c \in cs : c.lstart = act[a].dc /\ c.state # "PREP"

(* The waiters are the same.                                               *)
SameWaits(act, act2) == \A a \in Actors :
    /\ act2[a].pc = "waitone" <=> act[a].pc = "waitone"
    /\ act[a].pc = "waitone" => act2[a].dc = act[a].dc

(* There are four actors.                                                  *)
LEMMA WaitersFinite ==
    ASSUME NEW act, NEW l
    PROVE  /\ IsFiniteSet(Waiters(act, l)) /\ Cardinality(Waiters(act, l)) \in Nat
           /\ Cardinality(Waiters(act, l)) = 0 <=> Waiters(act, l) = {}
<1>1. IsFiniteSet(Actors)
  <2>1. IsFiniteSet({"writer"}) /\ IsFiniteSet({"thread"}) /\ IsFiniteSet({"trim"}) /\ IsFiniteSet({"umount"})
    BY FS_Singleton
  <2>2. Actors = (({"writer"} \cup {"thread"}) \cup {"trim"}) \cup {"umount"}
    BY DEF Actors
  <2>. QED
    BY <2>1, <2>2, FS_Union
<1>2. IsFiniteSet(Waiters(act, l))
  BY <1>1, FS_Subset DEF Waiters
<1>. QED
  BY <1>2, FS_CardinalityType, FS_EmptySet

(* Nobody waits for a command without references, or for a pending one.    *)
LEMMA NoWaiters ==
    ASSUME NEW cs, NEW act, CmdsOK(cs), Waits(cs, act), NEW c \in cs, c.state = "PREP" \/ c.ref = 0
    PROVE  Waiters(act, c.lstart) = {} /\ c.ref = 0
<1>1. c.ref = Cardinality(Waiters(act, c.lstart))
  BY DEF Waits
<1>2. CASE c.ref = 0
  BY <1>1, <1>2, WaitersFinite
<1>3. CASE c.state = "PREP"
  <2>1. ASSUME NEW a \in Waiters(act, c.lstart) PROVE FALSE
    <3>1. PICK d \in cs : d.lstart = c.lstart /\ d.state # "PREP"
      BY <2>1 DEF Waits, Waiters
    <3>2. d = c
      BY <3>1, OneCommand
    <3>. QED
      BY <1>3, <3>1, <3>2
  <2>2. Waiters(act, c.lstart) = {}
    BY <2>1
  <2>. QED
    BY <1>1, <2>2, WaitersFinite
<1>. QED
  BY <1>2, <1>3

(* B has the waiters of A.                                                 *)
Stays(act, A, B) ==
    /\ \A d \in B : d.ref = Cardinality(Waiters(act, d.lstart))
    /\ \A c \in A : Waiters(act, c.lstart) = {} \/ \E d \in B : d.lstart = c.lstart /\ d.state # "PREP"

(* Commands move or go and nobody begins or ends to wait.                  *)
LEMMA WaitsKept ==
    ASSUME NEW cs, NEW act, Waits(cs, act), NEW act2, SameWaits(act, act2), NEW A, NEW B, Stays(act, A, B)
    PROVE  Waits((cs \ A) \cup B, act2)
<1>1. \A l : Waiters(act2, l) = Waiters(act, l)
  BY DEF SameWaits, Waiters
<1>2. \A c \in (cs \ A) \cup B : c.ref = Cardinality(Waiters(act2, c.lstart))
  BY <1>1 DEF Waits, Stays
<1>3. ASSUME NEW a \in Actors, act2[a].pc = "waitone"
      PROVE  \E c \in (cs \ A) \cup B : c.lstart = act2[a].dc /\ c.state # "PREP"
  <2>1. act[a].pc = "waitone" /\ act2[a].dc = act[a].dc
    BY <1>3 DEF SameWaits
  <2>2. PICK c \in cs : c.lstart = act[a].dc /\ c.state # "PREP"
    BY <2>1 DEF Waits
  <2>3. a \in Waiters(act, c.lstart)
    BY <2>1, <2>2 DEF Waiters
  <2>. QED
    BY <2>1, <2>2, <2>3 DEF Stays
<1>. QED
  BY <1>2, <1>3 DEF Waits

(* Only actor a changes, which begins or ends to wait for a command.       *)
Begins(act, act2, a, l) ==
    /\ act[a].pc # "waitone" /\ act2[a].pc = "waitone" /\ act2[a].dc = l
    /\ \A b \in Actors \ {a} : act2[b] = act[b]
Ends(act, act2, a, l) ==
    /\ act[a].pc = "waitone" /\ act[a].dc = l /\ act2[a].pc # "waitone"
    /\ \A b \in Actors \ {a} : act2[b] = act[b]

(* Actor a begins to wait for c.                                           *)
LEMMA WaitsJoin ==
    ASSUME NEW cs, NEW act, CmdsOK(cs), Waits(cs, act), NEW act2, NEW a \in Actors, NEW c \in cs,
           NEW d, d.lstart = c.lstart, d.ref = c.ref + 1, d.state = c.state, c.state # "PREP",
           Begins(act, act2, a, c.lstart)
    PROVE  Waits((cs \ {c}) \cup {d}, act2)
<1>. USE DEF Begins
<1>1. Waiters(act2, c.lstart) = Waiters(act, c.lstart) \cup {a} /\ a \notin Waiters(act, c.lstart)
  BY DEF Waiters
<1>2. \A l : l # c.lstart => Waiters(act2, l) = Waiters(act, l)
  BY DEF Waiters
<1>3. d.ref = Cardinality(Waiters(act2, d.lstart))
  <2>1. c.ref = Cardinality(Waiters(act, c.lstart)) /\ IsFiniteSet(Waiters(act, c.lstart))
    BY WaitersFinite DEF Waits
  <2>. DEFINE W == Waiters(act, c.lstart)
  <2>2. Cardinality(W \cup {a}) = Cardinality(W) + 1
    BY <1>1, <2>1, FS_AddElement
  <2>. QED
    BY <1>1, <2>1, <2>2
<1>4. ASSUME NEW e \in cs \ {c} PROVE e.ref = Cardinality(Waiters(act2, e.lstart))
  <2>1. e.lstart # c.lstart
    BY OneCommand
  <2>. QED
    BY <1>2, <2>1 DEF Waits
<1>5. ASSUME NEW b \in Actors, act2[b].pc = "waitone"
      PROVE  \E e \in (cs \ {c}) \cup {d} : e.lstart = act2[b].dc /\ e.state # "PREP"
  <2>1. CASE b = a
    BY <2>1
  <2>2. CASE b # a
    <3>1. act2[b] = act[b]
      BY <2>2
    <3>2. PICK e \in cs : e.lstart = act[b].dc /\ e.state # "PREP"
      BY <1>5, <3>1 DEF Waits
    <3>3. b \in Waiters(act, e.lstart)
      BY <1>5, <3>1, <3>2 DEF Waiters
    <3>. QED
      BY <3>1, <3>2, <3>3
  <2>. QED
    BY <2>1, <2>2
<1>. QED
  BY <1>3, <1>4, <1>5 DEF Waits

(* Actor a has waited for c, and removes it if it was the last to wait.    *)
LEMMA WaitsLeave ==
    ASSUME NEW cs, NEW act, CmdsOK(cs), Waits(cs, act), NEW act2, NEW a \in Actors, NEW c \in cs,
           Ends(act, act2, a, c.lstart),
           NEW d, d.lstart = c.lstart, d.ref = c.ref - 1, d.state = c.state,
           NEW B, B = IF c.ref = 1 THEN {} ELSE {d}
    PROVE  Waits((cs \ {c}) \cup B, act2) /\ c.ref \in Nat \ {0} /\ c.state # "PREP"
<1>. USE DEF Ends
<1>1. Waiters(act2, c.lstart) = Waiters(act, c.lstart) \ {a} /\ a \in Waiters(act, c.lstart)
  BY DEF Waiters
<1>2. \A l : l # c.lstart => Waiters(act2, l) = Waiters(act, l)
  BY DEF Waiters
<1>3. /\ c.ref = Cardinality(Waiters(act, c.lstart)) /\ IsFiniteSet(Waiters(act, c.lstart))
      /\ c.ref \in Nat \ {0}
  BY <1>1, WaitersFinite DEF Waits
<1>4. Cardinality(Waiters(act2, c.lstart)) = c.ref - 1
  BY <1>1, <1>3, FS_RemoveElement
<1>5. c.state # "PREP"
  BY <1>1, <1>3, NoWaiters
<1>6. \A e \in B : e.lstart = c.lstart /\ e.ref = c.ref - 1 /\ e.state = c.state
  OBVIOUS
<1>7. ASSUME NEW e \in cs \ {c} PROVE e.ref = Cardinality(Waiters(act2, e.lstart))
  <2>1. e.lstart # c.lstart
    BY OneCommand
  <2>. QED
    BY <1>2, <2>1 DEF Waits
<1>8. ASSUME NEW b \in Actors, act2[b].pc = "waitone"
      PROVE  \E e \in (cs \ {c}) \cup B : e.lstart = act2[b].dc /\ e.state # "PREP"
  <2>1. b # a /\ act2[b] = act[b]
    BY <1>8
  <2>2. PICK e \in cs : e.lstart = act[b].dc /\ e.state # "PREP"
    BY <1>8, <2>1 DEF Waits
  <2>3. CASE e # c
    BY <2>1, <2>2, <2>3
  <2>4. CASE e = c
    <3>1. b \in Waiters(act2, c.lstart)
      BY <1>8, <2>1, <2>2, <2>4 DEF Waiters
    <3>2. c.ref # 1
      BY <1>3, <1>4, <3>1, WaitersFinite
    <3>3. B = {d} /\ d.lstart = c.lstart /\ d.state = c.state
      BY <3>2
    <3>. QED
      BY <1>5, <2>1, <2>2, <2>4, <3>3
  <2>. QED
    BY <2>3, <2>4
<1>. QED
  BY <1>3, <1>4, <1>5, <1>6, <1>7, <1>8 DEF Waits

(* Pending commands give way to new ones: nobody waits for either.         *)
LEMMA WaitsNew ==
    ASSUME NEW cs, NEW act, CmdsOK(cs), Waits(cs, act), NEW A \in SUBSET cs, \A c \in A : c.state = "PREP",
           NEW N \in SUBSET DBlocks, N \cap Covered(cs) = {}, NEW B, Replaces(A, B, N), \A d \in B : d.ref = 0
    PROVE  Waits((cs \ A) \cup B, act)
<1>1. \A c \in A : Waiters(act, c.lstart) = {}
  BY NoWaiters
<1>2. ASSUME NEW d \in B PROVE Waiters(act, d.lstart) = {}
  <2>. SUFFICES ASSUME NEW a \in Waiters(act, d.lstart) PROVE FALSE
    OBVIOUS
  <2>1. PICK e \in cs : e.lstart = d.lstart /\ e.state # "PREP"
    BY DEF Waits, Waiters
  <2>2. CmdsOK((cs \ A) \cup B)
    BY Replaced
  <2>3. e \in (cs \ A) \cup B /\ d \in (cs \ A) \cup B /\ e \notin A
    BY <2>1
  <2>4. e = d
    BY <2>1, <2>2, <2>3, OneCommand
  <2>5. d.lstart \in Covers(d) /\ Covers(d) \subseteq Covered(A) \cup N
    BY CoversStart DEF Replaces
  <2>6. d.lstart \in Covered(cs)
    BY <2>1, <2>4, <2>5, OneCommand
  <2>7. PICK c \in A : d.lstart \in Covers(c)
    BY <2>5, <2>6 DEF Covered
  <2>8. c = e
    BY <2>4, <2>5, <2>7, OneCommand
  <2>. QED
    BY <2>3, <2>7, <2>8
<1>3. \A d \in B : d.ref = Cardinality(Waiters(act, d.lstart))
  BY <1>2, WaitersFinite
<1>4. SameWaits(act, act)
  BY DEF SameWaits
<1>5. Stays(act, A, B)
  BY <1>1, <1>3 DEF Stays
<1>. QED
  BY <1>4, <1>5, WaitsKept

----------------------------------------------------------------------------
(* Queueing and punching                                                   *)

(* No discard that the device may still carry out hits a block of U.       *)
Safe(cs, U) == \A c \in cs : c.state # "DONE" => Covers(c) \cap U = {}

(* A new command.                                                          *)
LEMMA CommandIs ==
    ASSUME NEW l \in Nat, NEW n \in Nat \ {0}
    PROVE  /\ Command(l, n) \in CmdType /\ Command(l, n).state = "PREP" /\ Command(l, n).list = "pend"
           /\ Command(l, n).ref = 0 /\ Command(l, n).lstart = l /\ Covers(Command(l, n)) = l .. l + n - 1
BY DEF Command, CmdType, Covers

(* The queued blocks are covered, each by one command.                     *)
Queued(cs, blks, act, cs2) ==
    /\ CmdsOK(cs2) /\ Waits(cs2, act) /\ Covered(cs2) = Covered(cs) \cup blks
    /\ \A U : Safe(cs, U) /\ blks \cap U = {} => Safe(cs2, U)

(* Gaps are filled, and joined with the pending commands next to them.     *)
LEMMA QueueIs ==
    ASSUME NEW cs, NEW act, CmdsOK(cs), Waits(cs, act), NEW blks \in SUBSET DBlocks
    PROVE  /\ Queued(cs, blks, act, __update_discard_tree_range(cs, blks).cmds)
           /\ __update_discard_tree_range(cs, blks).len = Cardinality(blks \ Covered(cs))
<1>. DEFINE N == blks \ Covered(cs)
            A == {c \in cs : c.state = "PREP" /\ {c.lstart - 1, c.lstart + c.len} \cap N # {}}
            S == N \cup Covered(A)
            B == {Command(r[1], r[2]) : r \in Runs(S)}
            g == (cs \ A) \cup B
<1>1. /\ __update_discard_tree_range(cs, blks).cmds = g
      /\ __update_discard_tree_range(cs, blks).len = Cardinality(N)
  BY DEF __update_discard_tree_range
<1>2. /\ N \in SUBSET DBlocks /\ N \cap Covered(cs) = {} /\ A \in SUBSET cs
      /\ \A c \in A : c.state = "PREP"
  OBVIOUS
<1>3. Covered(A) \subseteq Covered(cs) /\ Covered(cs) \subseteq DBlocks
  BY DEF Covered, CmdsOK
<1>. HIDE DEF A, N
<1>4. S \in SUBSET DBlocks /\ S \in SUBSET Nat
  <2>1. DBlocks \subseteq Nat
    BY DEF DBlocks
  <2>2. S \in SUBSET DBlocks
    BY <1>2, <1>3
  <2>. QED
    BY <2>1, <2>2
<1>. HIDE DEF S
<1>5. /\ \A r \in Runs(S) : r[1] \in S /\ r[2] \in Nat \ {0} /\ Span(r) \subseteq S
      /\ \A r, q \in Runs(S) : Span(r) \cap Span(q) # {} => r[1] = q[1] /\ r[2] = q[2]
  BY <1>4, RunsApart
<1>6. ASSUME NEW r \in Runs(S)
      PROVE  LET d == Command(r[1], r[2]) IN
             /\ d \in CmdType /\ d.state = "PREP" /\ d.list = "pend" /\ d.ref = 0 /\ Covers(d) = Span(r)
  <2>1. r[1] \in Nat /\ r[2] \in Nat \ {0}
    BY <1>4, <1>5
  <2>. DEFINE l == r[1]  n == r[2]
  <2>2. Span(r) = l .. l + n - 1
    BY DEF Span
  <2>. HIDE DEF l, n
  <2>3. l \in Nat /\ n \in Nat \ {0}
    BY <2>1 DEF l, n
  <2>4. LET d == Command(l, n) IN
        /\ d \in CmdType /\ d.state = "PREP" /\ d.list = "pend" /\ d.ref = 0 /\ Covers(d) = l .. l + n - 1
    BY <2>3, CommandIs
  <2>. QED
    BY <2>2, <2>4 DEF l, n
<1>7. \A d \in B : d \in CmdType /\ d.state = "PREP" /\ d.list = "pend" /\ d.ref = 0 /\ Covers(d) \subseteq S
  BY <1>5, <1>6
<1>8. Apart(B)
  <2>. SUFFICES ASSUME NEW d \in B, NEW e \in B, Covers(d) \cap Covers(e) # {} PROVE d = e
    BY DEF Apart
  <2>1. PICK r \in Runs(S) : d = Command(r[1], r[2])
    OBVIOUS
  <2>2. PICK q \in Runs(S) : e = Command(q[1], q[2])
    OBVIOUS
  <2>3. Span(r) \cap Span(q) # {}
    BY <1>6, <2>1, <2>2
  <2>. QED
    BY <1>5, <2>1, <2>2, <2>3
<1>9. Covered(B) = S
  <2>1. Covered(B) = UNION {Span(r) : r \in Runs(S)}
    BY <1>6 DEF Covered
  <2>. QED
    BY <1>4, <2>1, RunsCover
<1>. HIDE DEF B
<1>10. Replaces(A, B, N)
  BY <1>7, <1>8 DEF Replaces, S
<1>11. CmdsOK(g) /\ Covered(g) = (Covered(cs) \ Covered(A)) \cup Covered(B)
  BY <1>2, <1>10, Replaced
<1>12. Covered(g) = Covered(cs) \cup blks
  BY <1>3, <1>9, <1>11 DEF S, N
<1>13. Waits(g, act)
  BY <1>2, <1>7, <1>10, WaitsNew
<1>14. ASSUME NEW U, Safe(cs, U), blks \cap U = {} PROVE Safe(g, U)
  <2>1. Covered(A) \cap U = {}
    BY <1>2, <1>14 DEF Safe, Covered
  <2>2. S \cap U = {}
    BY <1>14, <2>1 DEF S, N
  <2>. QED
    BY <1>7, <1>14, <2>2 DEF Safe
<1>. QED
  BY <1>1, <1>11, <1>12, <1>13, <1>14 DEF Queued, N

(* A block leaves a pending command.                                       *)
Punched(cs, b, act, cs2) ==
    /\ CmdsOK(cs2) /\ Waits(cs2, act) /\ Covered(cs2) = Covered(cs) \ {b}
    /\ \A U : Safe(cs, U) => Safe(cs2, U \cup {b})

(* What is left are the blocks before and behind.                          *)
LEMMA PunchIs ==
    ASSUME NEW cs, NEW act, CmdsOK(cs), Waits(cs, act), NEW c \in cs, c.state = "PREP", NEW b \in Covers(c)
    PROVE  Punched(cs, b, act, __punch_discard_cmd(cs, c, b))
<1>. DEFINE l == c.lstart  n == c.len
            left == IF b > l THEN {Command(l, b - l)} ELSE {}
            right == IF b < l + n - 1 THEN {Command(b + 1, l + n - 1 - b)} ELSE {}
            A == {c}  B == left \cup right  g == (cs \ A) \cup B
<1>1. g = __punch_discard_cmd(cs, c, b)
  BY DEF __punch_discard_cmd
<1>2. c \in CmdType /\ l \in Nat /\ n \in Nat \ {0}
  BY DEF CmdsOK, CmdType
<1>3. b \in Nat /\ l <= b /\ b <= l + n - 1 /\ Covers(c) = l .. l + n - 1
  BY <1>2 DEF Covers
<1>. HIDE DEF l, n
<1>4. \A d \in left : /\ d \in CmdType /\ d.state = "PREP" /\ d.list = "pend" /\ d.ref = 0
                      /\ Covers(d) = l .. b - 1
  <2>1. ASSUME b > l
        PROVE  LET d == Command(l, b - l) IN
               /\ d \in CmdType /\ d.state = "PREP" /\ d.list = "pend" /\ d.ref = 0
               /\ Covers(d) = l .. l + (b - l) - 1
    <3>1. b - l \in Nat \ {0}
      BY <1>2, <1>3, <2>1
    <3>. QED
      BY <1>2, <3>1, CommandIs
  <2>2. l + (b - l) - 1 = b - 1
    BY <1>2, <1>3
  <2>. QED
    BY <2>1, <2>2
<1>5. \A d \in right : /\ d \in CmdType /\ d.state = "PREP" /\ d.list = "pend" /\ d.ref = 0
                       /\ Covers(d) = b + 1 .. l + n - 1
  <2>1. ASSUME b < l + n - 1
        PROVE  LET d == Command(b + 1, l + n - 1 - b) IN
               /\ d \in CmdType /\ d.state = "PREP" /\ d.list = "pend" /\ d.ref = 0
               /\ Covers(d) = b + 1 .. (b + 1) + (l + n - 1 - b) - 1
    <3>1. b + 1 \in Nat /\ l + n - 1 - b \in Nat \ {0}
      BY <1>2, <1>3, <2>1
    <3>. QED
      BY <3>1, CommandIs
  <2>2. (b + 1) + (l + n - 1 - b) - 1 = l + n - 1
    BY <1>2, <1>3
  <2>. QED
    BY <2>1, <2>2
<1>6. /\ b > l => left = {Command(l, b - l)}
      /\ b < l + n - 1 => right = {Command(b + 1, l + n - 1 - b)}
  OBVIOUS
<1>7. \A d, e \in left : d = e
  OBVIOUS
<1>8. \A d, e \in right : d = e
  OBVIOUS
<1>. HIDE DEF left, right
<1>9. Covered(left) = l .. b - 1
  <2>1. Covered(left) \subseteq l .. b - 1
    BY <1>4 DEF Covered
  <2>2. b > l => l .. b - 1 \subseteq Covered(left)
    BY <1>4, <1>6 DEF Covered
  <2>3. ~(b > l) => l .. b - 1 = {}
    BY <1>2, <1>3
  <2>. QED
    BY <2>1, <2>2, <2>3
<1>10. Covered(right) = b + 1 .. l + n - 1
  <2>1. Covered(right) \subseteq b + 1 .. l + n - 1
    BY <1>5 DEF Covered
  <2>2. b < l + n - 1 => b + 1 .. l + n - 1 \subseteq Covered(right)
    BY <1>5, <1>6 DEF Covered
  <2>3. ~(b < l + n - 1) => b + 1 .. l + n - 1 = {}
    BY <1>2, <1>3
  <2>. QED
    BY <2>1, <2>2, <2>3
<1>11. Covered(B) = Covers(c) \ {b} /\ Covered(A) = Covers(c)
  <2>1. Covered(B) = (l .. b - 1) \cup (b + 1 .. l + n - 1)
    BY <1>9, <1>10 DEF Covered
  <2>2. (l .. b - 1) \cup (b + 1 .. l + n - 1) = (l .. l + n - 1) \ {b}
    BY <1>2, <1>3
  <2>. QED
    BY <1>3, <2>1, <2>2 DEF Covered
<1>12. Apart(B)
  <2>1. (l .. b - 1) \cap (b + 1 .. l + n - 1) = {}
    BY <1>2, <1>3
  <2>. QED
    BY <1>4, <1>5, <1>7, <1>8, <2>1 DEF Apart
<1>13. \A d \in B : d \in CmdType /\ d.state = "PREP" /\ d.list = "pend" /\ d.ref = 0 /\ Covers(d) \subseteq Covers(c)
  <2>1. l .. b - 1 \subseteq Covers(c) /\ b + 1 .. l + n - 1 \subseteq Covers(c)
    BY <1>2, <1>3
  <2>. QED
    BY <1>4, <1>5, <2>1
<1>. HIDE DEF B
<1>14. Replaces(A, B, {})
  BY <1>11, <1>12, <1>13 DEF Replaces
<1>15. {} \in SUBSET DBlocks /\ {} \cap Covered(cs) = {} /\ A \in SUBSET cs /\ \A x \in A : x.state = "PREP"
  OBVIOUS
<1>16. /\ CmdsOK(g) /\ Covered(g) = (Covered(cs) \ Covered(A)) \cup Covered(B)
       /\ Covered(A) \subseteq Covered(cs)
  BY <1>14, <1>15, Replaced
<1>17. Waits(g, act)
  BY <1>13, <1>14, <1>15, WaitsNew
<1>18. Covered(g) = Covered(cs) \ {b}
  BY <1>11, <1>16
<1>19. ASSUME NEW U, Safe(cs, U) PROVE Safe(g, U \cup {b})
  <2>1. \A d \in g : b \notin Covers(d)
    BY <1>18 DEF Covered
  <2>2. Safe(g, U)
    BY <1>13, <1>19 DEF Safe
  <2>. QED
    BY <2>1, <2>2 DEF Safe
<1>. QED
  BY <1>1, <1>16, <1>17, <1>18, <1>19 DEF Punched

----------------------------------------------------------------------------
(* A checkpoint                                                            *)

SitType == [cur : SUBSET DBlocks, ckpt : SUBSET DBlocks, dmap : SUBSET DBlocks, discard_blks : Int,
            prefree : SUBSET Segments, log : Segments]

(* discard_blks counts the blocks outside the discard map, and prefree     *)
(* segments hold nothing valid.                                            *)
SitOK(s) ==
    /\ s \in SitType /\ s.discard_blks = Cardinality(DBlocks \ s.dmap)
    /\ \A b \in s.cur : Seg(b) \notin s.prefree

(* What is true of SIT, commands and actors whenever cmd_lock is free.     *)
StateOK(s, cs, und, act) ==
    /\ SitOK(s) /\ CmdsOK(cs) /\ Waits(cs, act) /\ und = LenOf(cs) /\ Safe(cs, s.cur \cup s.ckpt)

(* What a run of add_discard_addrs is made of.                             *)
LEMMA AddrsAre ==
    ASSUME NEW s \in SitType, NEW seg \in Segments, NEW force, NEW minlen,
           NEW r \in add_discard_addrs(s, seg, force, minlen)
    PROVE  /\ Span(r) \subseteq DBlocks
           /\ force => Span(r) \cap s.ckpt = {}
           /\ ~force => Span(r) \cap s.cur = {}
<1>. DEFINE dm == IF force THEN BlocksOf(seg) \ (s.ckpt \cup s.dmap)
                  ELSE (s.ckpt \cap BlocksOf(seg)) \ s.cur
<1>1. r \in Runs(dm)
  BY DEF add_discard_addrs
<1>2. BlocksOf(seg) \subseteq DBlocks /\ DBlocks \subseteq Nat
  BY SegBlocks DEF DBlocks
<1>3. /\ dm \subseteq DBlocks /\ dm \in SUBSET Nat
      /\ force => dm \cap s.ckpt = {}
      /\ ~force => dm \cap s.cur = {}
  BY <1>2
<1>. HIDE DEF dm
<1>4. Span(r) \subseteq dm
  BY <1>1, <1>3, RunsApart
<1>. QED
  BY <1>3, <1>4

(* Blocks that hold nothing are queued.                                    *)
LEMMA IssueIs ==
    ASSUME NEW s, NEW cs, NEW und, NEW act, StateOK(s, cs, und, act), s.ckpt = s.cur,
           NEW blks \in SUBSET DBlocks, blks \cap s.cur = {},
           NEW m, m = f2fs_issue_discard([s |-> s, cmds |-> cs, und |-> und], blks)
    PROVE  /\ StateOK(m.s, m.cmds, m.und, act)
           /\ m = [s |-> m.s, cmds |-> m.cmds, und |-> m.und]
<1>. DEFINE q == __update_discard_tree_range(cs, blks)
            t == [s EXCEPT !.dmap = @ \cup blks, !.discard_blks = @ - Cardinality(blks \ s.dmap)]
<1>1. m = [s |-> t, cmds |-> q.cmds, und |-> und + q.len]
  BY DEF f2fs_issue_discard
<1>2. SitOK(s) /\ s \in SitType /\ CmdsOK(cs) /\ Waits(cs, act) /\ und = LenOf(cs) /\ Safe(cs, s.cur \cup s.ckpt)
  BY DEF StateOK, SitOK
<1>3. Queued(cs, blks, act, q.cmds) /\ q.len = Cardinality(blks \ Covered(cs))
  BY <1>2, QueueIs
<1>. HIDE DEF q
<1>4. /\ t.cur = s.cur /\ t.ckpt = s.ckpt /\ t.dmap = s.dmap \cup blks /\ t.prefree = s.prefree
      /\ t.discard_blks = s.discard_blks - Cardinality(blks \ s.dmap)
  BY <1>2 DEF SitType
<1>5. DBlocks \ s.dmap \in SUBSET DBlocks /\ blks \ s.dmap \in SUBSET DBlocks /\ s.dmap \in SUBSET DBlocks
  BY <1>2 DEF SitType
<1>6. t \in SitType
  <2>. DEFINE k == s.discard_blks - Cardinality(blks \ s.dmap)  dm == s.dmap \cup blks
  <2>1. Cardinality(blks \ s.dmap) \in Nat
    BY <1>5, BlocksFinite
  <2>2. s.discard_blks \in Int
    BY <1>2 DEF SitType
  <2>3. k \in Int /\ dm \in SUBSET DBlocks
    BY <1>5, <2>1, <2>2
  <2>4. t = [s EXCEPT !.dmap = dm, !.discard_blks = k]
    BY <1>2 DEF SitType
  <2>. HIDE DEF k, dm, t
  <2>. QED
    BY <1>2, <2>3, <2>4 DEF SitType
<1>7. t.discard_blks = Cardinality(DBlocks \ t.dmap)
  <2>1. Cardinality((DBlocks \ s.dmap) \ (blks \ s.dmap)) = Cardinality(DBlocks \ s.dmap) - Cardinality(blks \ s.dmap)
    <3>1. blks \ s.dmap \subseteq DBlocks \ s.dmap
      OBVIOUS
    <3>. QED
      BY <1>5, <3>1, CountBlocks
  <2>2. (DBlocks \ s.dmap) \ (blks \ s.dmap) = DBlocks \ t.dmap
    BY <1>4
  <2>. QED
    BY <1>2, <1>4, <2>1, <2>2 DEF SitOK
<1>8. SitOK(t)
  BY <1>2, <1>4, <1>6, <1>7 DEF SitOK
<1>9. und + q.len = LenOf(q.cmds)
  <2>1. Covered(cs) \in SUBSET DBlocks /\ blks \ Covered(cs) \in SUBSET DBlocks
    BY <1>2 DEF CmdsOK
  <2>2. Cardinality(Covered(cs) \cup (blks \ Covered(cs))) = Cardinality(Covered(cs)) + Cardinality(blks \ Covered(cs))
    BY <2>1, CountBlocks
  <2>3. Covered(cs) \cup (blks \ Covered(cs)) = Covered(q.cmds)
    BY <1>3 DEF Queued
  <2>. QED
    BY <1>2, <1>3, <2>2, <2>3 DEF LenOf
<1>10. Safe(q.cmds, t.cur \cup t.ckpt)
  <2>1. blks \cap (s.cur \cup s.ckpt) = {}
    OBVIOUS
  <2>. QED
    BY <1>2, <1>3, <1>4, <2>1 DEF Queued
<1>11. StateOK(t, q.cmds, und + q.len, act)
  BY <1>3, <1>8, <1>9, <1>10 DEF StateOK, Queued
<1>. HIDE DEF t
<1>. QED
  BY <1>1, <1>11

(* Prefree segments and small runs.                                        *)
LEMMA ClearIs ==
    ASSUME NEW s, NEW cs, NEW und, NEW act, StateOK(s, cs, und, act), s.ckpt = s.cur,
           NEW entries, \A r \in entries : Span(r) \subseteq DBlocks /\ Span(r) \cap s.cur = {},
           NEW force, NEW trim, NEW minlen,
           NEW m, m = clear_prefree_segments([s |-> s, cmds |-> cs, und |-> und], entries, force, trim, minlen)
    PROVE  StateOK(m.s, m.cmds, m.und, act)
<1>. DEFINE runs == {r \in Runs(s.prefree) : ~(force /\ Span(r) \subseteq trim)}
            small == {r \in entries : ~(force /\ r[2] < minlen)}
            blks == (UNION {SegRange(r[1], r[1] + r[2] - 1) : r \in runs}) \cup (UNION {Span(r) : r \in small})
            all == f2fs_issue_discard([s |-> s, cmds |-> cs, und |-> und], blks)
<1>1. m = [all EXCEPT !.s = [all.s EXCEPT !.prefree = {}]]
  BY DEF clear_prefree_segments
<1>2. s \in SitType /\ \A b \in s.cur : Seg(b) \notin s.prefree
  BY DEF StateOK, SitOK
<1>3. s.prefree \subseteq Segments /\ s.prefree \in SUBSET Nat
  <2>1. s.prefree \subseteq Segments /\ Segments \subseteq Nat
    BY <1>2 DEF SitType, Segments
  <2>. QED
    BY <2>1
<1>4. ASSUME NEW r \in runs, NEW b \in SegRange(r[1], r[1] + r[2] - 1)
      PROVE  b \in DBlocks /\ b \notin s.cur
  <2>1. r[1] \in s.prefree /\ r[2] \in Nat \ {0} /\ Span(r) \subseteq s.prefree
    BY <1>3, RunsApart
  <2>. DEFINE a == r[1]  e == r[1] + r[2] - 1
  <2>2. e \in Span(r) /\ Span(r) = a .. e
    BY <1>3, <2>1 DEF Span
  <2>. HIDE DEF a, e
  <2>3. a \in Segments /\ e \in Segments /\ b \in SegRange(a, e)
    BY <1>3, <1>4, <2>1, <2>2 DEF a, e
  <2>4. b \in DBlocks /\ Seg(b) \in a .. e
    BY <2>3, SegBlocks
  <2>. QED
    BY <1>2, <2>1, <2>2, <2>4
<1>5. ASSUME NEW r \in small, NEW b \in Span(r) PROVE b \in DBlocks /\ b \notin s.cur
  OBVIOUS
<1>. HIDE DEF runs, small
<1>6. blks \in SUBSET DBlocks /\ blks \cap s.cur = {}
  <2>1. ASSUME NEW b \in blks PROVE b \in DBlocks /\ b \notin s.cur
    <3>1. CASE b \in UNION {SegRange(r[1], r[1] + r[2] - 1) : r \in runs}
      <4>1. PICK r \in runs : b \in SegRange(r[1], r[1] + r[2] - 1)
        BY <3>1
      <4>. QED
        BY <1>4, <4>1
    <3>2. CASE b \in UNION {Span(r) : r \in small}
      <4>1. PICK r \in small : b \in Span(r)
        BY <3>2
      <4>. QED
        BY <1>5, <4>1
    <3>. QED
      BY <2>1, <3>1, <3>2
  <2>. HIDE DEF blks
  <2>. QED
    BY <2>1
<1>. HIDE DEF blks
<1>7. StateOK(all.s, all.cmds, all.und, act) /\ all = [s |-> all.s, cmds |-> all.cmds, und |-> all.und]
  BY <1>6, IssueIs
<1>. HIDE DEF all
<1>. DEFINE t == [all.s EXCEPT !.prefree = {}]
<1>8. m.s = t /\ m.cmds = all.cmds /\ m.und = all.und
  BY <1>1, <1>7
<1>9. all.s \in SitType /\ SitOK(all.s)
  BY <1>7 DEF StateOK, SitOK
<1>10. /\ t \in SitType /\ t.cur = all.s.cur /\ t.ckpt = all.s.ckpt /\ t.dmap = all.s.dmap
       /\ t.discard_blks = all.s.discard_blks /\ t.prefree = {}
  BY <1>9 DEF SitType
<1>. HIDE DEF t
<1>11. SitOK(t)
  BY <1>9, <1>10 DEF SitOK
<1>. QED
  BY <1>7, <1>8, <1>10, <1>11 DEF StateOK

(* A checkpoint, of FITRIM or not.                                         *)
LEMMA CheckpointIs ==
    ASSUME StateOK(sit, cmds, undiscard_blks, actor), NEW force \in BOOLEAN, NEW trim \in SUBSET Segments,
           NEW minlen, NEW m, m = write_checkpoint(force, trim, minlen)
    PROVE  StateOK(m.s, m.cmds, m.und, actor)
<1>. DEFINE before == UNION {add_discard_addrs(sit, g, FALSE, 0) : g \in Segments}
            flushed == [sit EXCEPT !.ckpt = sit.cur]
            after == UNION {add_discard_addrs(flushed, g, TRUE, minlen) : g \in trim}
            n == [s |-> flushed, cmds |-> cmds, und |-> undiscard_blks]
            entries == IF force THEN after ELSE before
<1>1. \/ m = [n EXCEPT !.s = sit]
      \/ m = clear_prefree_segments(n, entries, force, trim, minlen)
  BY DEF write_checkpoint
<1>2. sit \in SitType /\ SitOK(sit)
  BY DEF StateOK, SitOK
<1>3. /\ flushed \in SitType /\ flushed.cur = sit.cur /\ flushed.ckpt = sit.cur /\ flushed.dmap = sit.dmap
      /\ flushed.discard_blks = sit.discard_blks /\ flushed.prefree = sit.prefree
  BY <1>2 DEF SitType
<1>4. SitOK(flushed)
  BY <1>2, <1>3 DEF SitOK
<1>. HIDE DEF flushed
<1>5. StateOK(flushed, cmds, undiscard_blks, actor)
  BY <1>3, <1>4 DEF StateOK, Safe
<1>6. ASSUME NEW r \in before PROVE Span(r) \subseteq DBlocks /\ Span(r) \cap flushed.cur = {}
  <2>1. PICK g \in Segments : r \in add_discard_addrs(sit, g, FALSE, 0)
    BY <1>6
  <2>2. /\ Span(r) \subseteq DBlocks
        /\ FALSE => Span(r) \cap sit.ckpt = {}
        /\ ~FALSE => Span(r) \cap sit.cur = {}
    BY <1>2, <2>1, AddrsAre, Zenon
  <2>. QED
    BY <1>3, <2>2
<1>7. ASSUME NEW r \in after PROVE Span(r) \subseteq DBlocks /\ Span(r) \cap flushed.cur = {}
  <2>1. PICK g \in trim : r \in add_discard_addrs(flushed, g, TRUE, minlen)
    BY <1>7
  <2>2. g \in Segments
    OBVIOUS
  <2>3. /\ Span(r) \subseteq DBlocks
        /\ TRUE => Span(r) \cap flushed.ckpt = {}
        /\ ~TRUE => Span(r) \cap flushed.cur = {}
    BY <1>3, <2>1, <2>2, AddrsAre, Zenon
  <2>. QED
    BY <1>3, <2>3
<1>. HIDE DEF before, after
<1>8. \A r \in entries : Span(r) \subseteq DBlocks /\ Span(r) \cap flushed.cur = {}
  BY <1>6, <1>7
<1>. HIDE DEF entries
<1>9. CASE m = [n EXCEPT !.s = sit]
  BY <1>9
<1>10. CASE m = clear_prefree_segments(n, entries, force, trim, minlen)
  BY <1>3, <1>5, <1>8, <1>10, ClearIs
<1>. QED
  BY <1>1, <1>9, <1>10

----------------------------------------------------------------------------
(* Commands and actors                                                     *)

(* The actors and what is needed of their records.                         *)
Rec(r) == {"pc", "dc", "blk", "list"} \subseteq DOMAIN r /\ r.list \in {"wait", "fstrim"}
Shape(act) == DOMAIN act = Actors /\ \A a \in Actors : Rec(act[a])

(* While the writer waits, its block stays free and its command, which     *)
(* covers the block, stays where it is.                                    *)
WriterOK(s, cs, act) ==
    /\ act["writer"].pc \in {"idle", "waitone"}
    /\ act["writer"].pc = "waitone" =>
         /\ act["writer"].blk \in DBlocks \ (s.cur \cup s.ckpt)
         /\ Seg(act["writer"].blk) \notin s.prefree
         /\ \E c \in cs : c.lstart = act["writer"].dc /\ act["writer"].blk \in Covers(c)

(* Every command was there before, and was not done if it is not now.      *)
Forward(A, B) == \A d \in B : \E c \in A : Same(c, d) /\ (d.state # "DONE" => c.state # "DONE")

(* What an actor at rest looks like.                                       *)
LEMMA IdleIs ==
    /\ Idle.pc = "idle" /\ Idle.list = "wait" /\ Rec(Idle)
    /\ {"pc", "dc", "blk", "list", "i", "iter", "range", "gran", "dropped"} \subseteq DOMAIN Idle
BY DEF Idle, Rec

(* One actor changes.                                                      *)
Turns(act, act2, a, r) == act2 = [act EXCEPT ![a] = r]

(* The others stay as they are.                                            *)
LEMMA ActorStep ==
    ASSUME NEW act, Shape(act), NEW a \in Actors, NEW r, Rec(r), NEW act2, Turns(act, act2, a, r)
    PROVE  /\ Shape(act2) /\ act2[a] = r
           /\ \A b \in Actors \ {a} : act2[b] = act[b]
           /\ act[a].pc # "waitone" /\ r.pc # "waitone" => SameWaits(act, act2)
<1>. USE DEF Turns
<1>1. DOMAIN act = Actors /\ DOMAIN act2 = Actors
  BY DEF Shape
<1>2. act2[a] = r /\ \A b \in Actors \ {a} : act2[b] = act[b]
  BY <1>1
<1>3. Shape(act2)
  BY <1>1, <1>2 DEF Shape
<1>4. act[a].pc # "waitone" /\ r.pc # "waitone" => SameWaits(act, act2)
  BY <1>2 DEF SameWaits
<1>. QED
  BY <1>2, <1>3, <1>4

(* Nothing but an actor changes, which does not wait.                      *)
LEMMA StateKept ==
    ASSUME NEW s, NEW cs, NEW und, NEW act, StateOK(s, cs, und, act), NEW act2, SameWaits(act, act2)
    PROVE  StateOK(s, cs, und, act2)
<1>1. Waits(cs, act2)
  <2>1. Waits(cs, act)
    BY DEF StateOK
  <2>2. Stays(act, {}, {})
    BY DEF Stays
  <2>4. Waits((cs \ {}) \cup {}, act2)
    BY <2>1, <2>2, WaitsKept
  <2>3. (cs \ {}) \cup {} = cs
    OBVIOUS
  <2>. QED
    BY <2>3, <2>4
<1>. QED
  BY <1>1 DEF StateOK

(* The writer's command is still there.                                    *)
LEMMA WriterKept ==
    ASSUME NEW s, NEW cs, NEW act, CmdsOK(cs), WriterOK(s, cs, act), NEW cs2, NEW act2, Waits(cs2, act2),
           act2["writer"] = act["writer"], \A d \in cs2 : \E c \in cs : Same(c, d)
    PROVE  WriterOK(s, cs2, act2)
<1>1. ASSUME act["writer"].pc = "waitone"
      PROVE  \E c \in cs2 : c.lstart = act["writer"].dc /\ act["writer"].blk \in Covers(c)
  <2>1. "writer" \in Actors
    BY DEF Actors
  <2>2. PICK d \in cs2 : d.lstart = act["writer"].dc
    BY <1>1, <2>1 DEF Waits
  <2>3. PICK c \in cs : Same(c, d)
    BY <2>2
  <2>4. PICK e \in cs : e.lstart = act["writer"].dc /\ act["writer"].blk \in Covers(e)
    BY <1>1 DEF WriterOK
  <2>5. c = e
    BY <2>2, <2>3, <2>4, OneCommand DEF Same
  <2>6. Covers(c) = Covers(d)
    BY <2>3 DEF Same, Covers
  <2>. QED
    BY <2>2, <2>4, <2>5, <2>6
<1>. QED
  BY <1>1 DEF WriterOK

(* Commands move, and possibly go.                                         *)
LEMMA CommandStep ==
    ASSUME NEW s, NEW cs, NEW und, NEW act, StateOK(s, cs, und, act),
           NEW A \in SUBSET cs, NEW B, Moves(A, B), Forward(A, B),
           NEW cs2, cs2 = (cs \ A) \cup B, NEW act2, Waits(cs2, act2),
           NEW und2, und2 = und - Cardinality(Covered(A) \ Covered(B))
    PROVE  /\ StateOK(s, cs2, und2, act2)
           /\ WriterOK(s, cs, act) /\ act2["writer"] = act["writer"] => WriterOK(s, cs2, act2)
<1>1. SitOK(s) /\ CmdsOK(cs) /\ und = LenOf(cs) /\ Safe(cs, s.cur \cup s.ckpt) /\ Covered(cs) \in SUBSET DBlocks
  BY DEF StateOK, CmdsOK
<1>2. /\ CmdsOK(cs2) /\ Covered(cs2) = Covered(cs) \ (Covered(A) \ Covered(B))
      /\ Covered(A) \subseteq Covered(cs)
  BY <1>1, Moved
<1>3. und2 = LenOf(cs2)
  <2>. DEFINE T == Covered(A) \ Covered(B)
  <2>1. T \in SUBSET DBlocks /\ T \subseteq Covered(cs)
    BY <1>1, <1>2
  <2>2. Cardinality(Covered(cs) \ T) = Cardinality(Covered(cs)) - Cardinality(T)
    BY <1>1, <2>1, CountBlocks
  <2>. QED
    BY <1>1, <1>2, <2>2 DEF LenOf
<1>4. \A d \in cs2 : \E c \in cs : Same(c, d) /\ (d.state # "DONE" => c.state # "DONE")
  BY DEF Forward, Same
<1>5. Safe(cs2, s.cur \cup s.ckpt)
  <2>. SUFFICES ASSUME NEW d \in cs2, d.state # "DONE" PROVE Covers(d) \cap (s.cur \cup s.ckpt) = {}
    BY DEF Safe
  <2>1. PICK c \in cs : Same(c, d) /\ c.state # "DONE"
    BY <1>4
  <2>2. Covers(c) = Covers(d)
    BY <2>1 DEF Same, Covers
  <2>. QED
    BY <1>1, <2>1, <2>2 DEF Safe
<1>6. StateOK(s, cs2, und2, act2)
  BY <1>1, <1>2, <1>3, <1>5 DEF StateOK
<1>7. WriterOK(s, cs, act) /\ act2["writer"] = act["writer"] => WriterOK(s, cs2, act2)
  <2>1. \A d \in cs2 : \E c \in cs : Same(c, d)
    BY <1>4
  <2>. QED
    BY <1>1, <2>1, WriterKept
<1>. QED
  BY <1>6, <1>7

(* Pending or finished commands go.                                        *)
LEMMA GoneStep ==
    ASSUME NEW s, NEW cs, NEW und, NEW act, StateOK(s, cs, und, act), WriterOK(s, cs, act),
           NEW A \in SUBSET cs, \A c \in A : c.state = "PREP" \/ c.ref = 0,
           NEW act2, SameWaits(act, act2), act2["writer"] = act["writer"]
    PROVE  StateOK(s, cs \ A, und - LenOf(A), act2) /\ WriterOK(s, cs \ A, act2)
<1>1. CmdsOK(cs) /\ Waits(cs, act)
  BY DEF StateOK
<1>2. Moves(A, {}) /\ Forward(A, {})
  BY DEF Moves, Forward
<1>3. \A c \in A : Waiters(act, c.lstart) = {}
  BY <1>1, NoWaiters
<1>4. Waits((cs \ A) \cup {}, act2)
  <2>1. Stays(act, A, {})
    BY <1>3 DEF Stays
  <2>. QED
    BY <1>1, <2>1, WaitsKept
<1>5. (cs \ A) \cup {} = cs \ A /\ Covered(A) \ Covered({}) = Covered(A)
  BY DEF Covered
<1>6. und - LenOf(A) = und - Cardinality(Covered(A) \ Covered({}))
  BY <1>5 DEF LenOf
<1>. QED
  BY <1>2, <1>4, <1>5, <1>6, CommandStep

(* Commands change, and stay where they are with who waits for them.       *)
Changes(A, f) ==
    \A c \in A : /\ f[c] \in CmdType /\ Same(c, f[c]) /\ f[c].ref = c.ref
                 /\ f[c].state # "PREP" /\ (f[c].state # "DONE" => c.state # "DONE")

(* Commands change without their waiters.                                  *)
LEMMA ChangeStep ==
    ASSUME NEW s, NEW cs, NEW und, NEW act, StateOK(s, cs, und, act), WriterOK(s, cs, act),
           NEW A \in SUBSET cs, NEW f, Changes(A, f),
           NEW act2, SameWaits(act, act2), act2["writer"] = act["writer"],
           NEW cs2, cs2 = (cs \ A) \cup {f[c] : c \in A}
    PROVE  StateOK(s, cs2, und, act2) /\ WriterOK(s, cs2, act2)
<1>. DEFINE B == {f[c] : c \in A}
<1>0. \A c \in A : /\ f[c] \in CmdType /\ Same(c, f[c]) /\ f[c].ref = c.ref
                   /\ f[c].state # "PREP" /\ (f[c].state # "DONE" => c.state # "DONE")
  BY DEF Changes
<1>1. CmdsOK(cs) /\ Waits(cs, act) /\ und = LenOf(cs) /\ Covered(cs) \in SUBSET DBlocks
  BY DEF StateOK, CmdsOK
<1>2. Moves(A, B)
  <2>1. B \subseteq CmdType
    BY <1>0
  <2>2. \A d \in B : (\E c \in A : Same(c, d)) /\ d.state # "PREP"
    BY <1>0
  <2>3. ASSUME NEW d \in B, NEW e \in B, d.lstart = e.lstart PROVE d = e
    <3>1. PICK x \in A : d = f[x]
      OBVIOUS
    <3>2. PICK y \in A : e = f[y]
      OBVIOUS
    <3>3. x = y
      BY <1>0, <1>1, <2>3, <3>1, <3>2, OneCommand DEF Same
    <3>. QED
      BY <3>1, <3>2, <3>3
  <2>. HIDE DEF B
  <2>. QED
    BY <2>1, <2>2, <2>3 DEF Moves
<1>3. Forward(A, B)
  BY <1>0 DEF Forward
<1>4. Waits((cs \ A) \cup B, act2)
  <2>1. \A d \in B : d.ref = Cardinality(Waiters(act, d.lstart))
    BY <1>0, <1>1 DEF Waits, Same
  <2>2. \A c \in A : \E d \in B : d.lstart = c.lstart /\ d.state # "PREP"
    BY <1>0 DEF Same
  <2>. HIDE DEF B
  <2>3. Stays(act, A, B)
    BY <2>1, <2>2 DEF Stays
  <2>. QED
    BY <1>1, <2>3, WaitsKept
<1>5. Covered(A) \ Covered(B) = {}
  <2>1. ASSUME NEW c \in A PROVE f[c] \in B /\ Covers(f[c]) = Covers(c)
    BY <1>0 DEF Same, Covers
  <2>. QED
    BY <2>1 DEF Covered
<1>6. und = und - Cardinality(Covered(A) \ Covered(B))
  <2>1. Cardinality(Covered(cs)) \in Nat
    BY <1>1, BlocksFinite
  <2>2. Cardinality(Covered(A) \ Covered(B)) = 0
    BY <1>5, FS_EmptySet
  <2>. QED
    BY <1>1, <2>1, <2>2 DEF LenOf
<1>. HIDE DEF B
<1>7. cs2 = (cs \ A) \cup B
  BY DEF B
<1>. QED
  BY <1>2, <1>3, <1>4, <1>6, <1>7, CommandStep

(* Pending commands are submitted, some of them in vain.                   *)
LEMMA SubmitIs ==
    ASSUME NEW s, NEW cs, NEW und, NEW act, StateOK(s, cs, und, act), WriterOK(s, cs, act),
           NEW S \in SUBSET cs, \A c \in S : c.state = "PREP", NEW fail \in SUBSET S,
           NEW list \in {"wait", "fstrim"},
           NEW act2, SameWaits(act, act2), act2["writer"] = act["writer"],
           NEW cs2, cs2 = __submit_discard_cmd(cs, S, fail, list)
    PROVE  StateOK(s, cs2, und - LenOf(fail), act2) /\ WriterOK(s, cs2, act2)
<1>. DEFINE A == S \ fail
            f == [c \in A |-> [c EXCEPT !.state = "SUBMIT", !.list = list]]
            cs1 == cs \ fail
<1>1. StateOK(s, cs1, und - LenOf(fail), act2) /\ WriterOK(s, cs1, act2)
  BY GoneStep
<1>2. A \in SUBSET cs1
  OBVIOUS
<1>3. cs \subseteq CmdType
  BY DEF StateOK, CmdsOK
<1>4. ASSUME NEW c \in A
      PROVE  /\ f[c] \in CmdType /\ Same(c, f[c]) /\ f[c].ref = c.ref
             /\ f[c].state # "PREP" /\ (f[c].state # "DONE" => c.state # "DONE")
  <2>1. c \in CmdType /\ c.state = "PREP"
    BY <1>3
  <2>2. f[c] = [c EXCEPT !.state = "SUBMIT", !.list = list]
    OBVIOUS
  <2>. HIDE DEF f
  <2>. QED
    BY <2>1, <2>2 DEF CmdType, Same
<1>7. Changes(A, f)
  BY <1>4 DEF Changes
<1>5. cs2 = (cs1 \ A) \cup {f[c] : c \in A}
  <2>1. {f[c] : c \in A} = {[c EXCEPT !.state = "SUBMIT", !.list = list] : c \in A}
    OBVIOUS
  <2>2. cs1 \ A = cs \ S
    OBVIOUS
  <2>. HIDE DEF f
  <2>. QED
    BY <2>1, <2>2 DEF __submit_discard_cmd
<1>6. SameWaits(act2, act2)
  BY DEF SameWaits
<1>. HIDE DEF f, A, cs1
<1>. QED
  BY <1>1, <1>2, <1>5, <1>6, <1>7, ChangeStep

(* An actor begins to wait for a command.                                  *)
LEMMA JoinIs ==
    ASSUME NEW s, NEW cs, NEW und, NEW act, StateOK(s, cs, und, act),
           NEW c \in cs, c.state # "PREP", NEW a \in Actors, NEW act2, Begins(act, act2, a, c.lstart),
           NEW cs2, cs2 = (cs \ {c}) \cup {[c EXCEPT !.ref = @ + 1]}
    PROVE  /\ StateOK(s, cs2, und, act2)
           /\ WriterOK(s, cs, act) /\ act2["writer"] = act["writer"] => WriterOK(s, cs2, act2)
           /\ \E d \in cs2 : Same(c, d)
<1>. DEFINE d == [c EXCEPT !.ref = @ + 1]
<1>1. CmdsOK(cs) /\ Waits(cs, act) /\ und = LenOf(cs) /\ Covered(cs) \in SUBSET DBlocks /\ c \in CmdType
  BY DEF StateOK, CmdsOK
<1>2. /\ d \in CmdType /\ Same(c, d) /\ d.ref = c.ref + 1 /\ d.state = c.state /\ d.lstart = c.lstart
      /\ Covers(c) = Covers(d)
  BY <1>1 DEF CmdType, Same, Covers
<1>. HIDE DEF d
<1>3. Moves({c}, {d}) /\ Forward({c}, {d})
  BY <1>2 DEF Moves, Forward
<1>4. cs2 = (cs \ {c}) \cup {d}
  BY DEF d
<1>5. Waits(cs2, act2)
  BY <1>1, <1>2, <1>4, WaitsJoin
<1>6. und = und - Cardinality(Covered({c}) \ Covered({d}))
  <2>1. Cardinality(Covered(cs)) \in Nat
    BY <1>1, BlocksFinite
  <2>2. Covered({c}) \ Covered({d}) = {}
    BY <1>2 DEF Covered
  <2>3. Cardinality(Covered({c}) \ Covered({d})) = 0
    BY <2>2, FS_EmptySet
  <2>. QED
    BY <1>1, <2>1, <2>3 DEF LenOf
<1>7. {c} \in SUBSET cs
  OBVIOUS
<1>8. /\ StateOK(s, cs2, und, act2)
      /\ WriterOK(s, cs, act) /\ act2["writer"] = act["writer"] => WriterOK(s, cs2, act2)
  BY <1>3, <1>4, <1>5, <1>6, <1>7, CommandStep
<1>. QED
  BY <1>2, <1>4, <1>8

(* What is left when an actor has waited for a command.                    *)
CmdsLeft(cs, c) == (cs \ {c}) \cup (IF c.ref = 1 THEN {} ELSE {[c EXCEPT !.ref = @ - 1]})
BlksLeft(und, c) == IF c.ref = 1 THEN und - c.len ELSE und

(* An actor has waited for a command, which goes with its last waiter.     *)
LEMMA LeaveIs ==
    ASSUME NEW s, NEW cs, NEW und, NEW act, StateOK(s, cs, und, act),
           NEW c \in cs, c.state = "DONE", NEW a \in Actors, NEW act2, Ends(act, act2, a, c.lstart),
           NEW cs2, cs2 = CmdsLeft(cs, c), NEW und2, und2 = BlksLeft(und, c)
    PROVE  /\ StateOK(s, cs2, und2, act2)
           /\ WriterOK(s, cs, act) /\ act2["writer"] = act["writer"] => WriterOK(s, cs2, act2)
           /\ \A d \in cs2 : d \in cs \/ (Same(c, d) /\ d.state = "DONE")
<1>. DEFINE d == [c EXCEPT !.ref = @ - 1]
            B == IF c.ref = 1 THEN {} ELSE {d}
<1>1. CmdsOK(cs) /\ Waits(cs, act) /\ und = LenOf(cs) /\ Covered(cs) \in SUBSET DBlocks /\ c \in CmdType
  BY DEF StateOK, CmdsOK
<1>2. d.ref = c.ref - 1 /\ d.state = c.state /\ d.lstart = c.lstart /\ d.len = c.len
  BY <1>1 DEF CmdType
<1>3. d = [c EXCEPT !.ref = c.ref - 1]
  BY <1>1 DEF CmdType
<1>. HIDE DEF d
<1>5. B \subseteq {d} /\ cs2 = (cs \ {c}) \cup B
  BY DEF d, CmdsLeft
<1>6. c.ref = 1 => B = {}
  OBVIOUS
<1>7. c.ref # 1 => B = {d}
  OBVIOUS
<1>4. B = IF c.ref = 1 THEN {} ELSE {d}
  OBVIOUS
<1>. HIDE DEF B
<1>8. Waits(cs2, act2) /\ c.ref \in Nat \ {0}
  <2>1. Waits((cs \ {c}) \cup B, act2) /\ c.ref \in Nat \ {0} /\ c.state # "PREP"
    BY <1>1, <1>2, <1>4, WaitsLeave, Zenon
  <2>. QED
    BY <1>5, <2>1
<1>9. d \in CmdType /\ Same(c, d) /\ Covers(c) = Covers(d)
  <2>1. c.ref - 1 \in Nat
    BY <1>8
  <2>. QED
    BY <1>1, <1>2, <1>3, <2>1 DEF CmdType, Same, Covers
<1>10. Moves({c}, B) /\ Forward({c}, B)
  BY <1>2, <1>5, <1>9 DEF Moves, Forward
<1>11. und2 = und - Cardinality(Covered({c}) \ Covered(B))
  <2>1. CASE c.ref = 1
    <3>1. Covered({c}) \ Covered(B) = Covers(c)
      BY <1>6, <2>1 DEF Covered
    <3>2. Cardinality(Covers(c)) = c.len
      <4>. DEFINE l == c.lstart  n == c.len  e == l + n - 1
      <4>1. l \in Nat /\ n \in Nat \ {0} /\ Covers(c) = l .. e
        BY <1>1 DEF CmdType, Covers
      <4>. HIDE DEF l, n
      <4>2. l \in Int /\ e \in Int /\ ~(l > e) /\ e - l + 1 = n
        BY <4>1
      <4>. HIDE DEF e
      <4>3. Cardinality(l .. e) = n
        BY <4>2, FS_Interval
      <4>. QED
        BY <4>1, <4>3 DEF n
    <3>. QED
      BY <2>1, <3>1, <3>2 DEF BlksLeft
  <2>2. CASE c.ref # 1
    <3>1. Covered({c}) \ Covered(B) = {}
      BY <1>7, <1>9, <2>2 DEF Covered
    <3>2. Cardinality(Covered({c}) \ Covered(B)) = 0 /\ Cardinality(Covered(cs)) \in Nat
      BY <1>1, <3>1, FS_EmptySet, BlocksFinite
    <3>. QED
      BY <1>1, <2>2, <3>2 DEF LenOf, BlksLeft
  <2>. QED
    BY <2>1, <2>2
<1>12. \A x \in cs2 : x \in cs \/ (Same(c, x) /\ x.state = "DONE")
  BY <1>2, <1>5, <1>9
<1>13. {c} \in SUBSET cs
  OBVIOUS
<1>14. /\ StateOK(s, cs2, und2, act2)
       /\ WriterOK(s, cs, act) /\ act2["writer"] = act["writer"] => WriterOK(s, cs2, act2)
  BY <1>5, <1>8, <1>10, <1>11, <1>13, CommandStep
<1>. QED
  BY <1>12, <1>14

(* A block that no discard is going to hit is written.                     *)
LEMMA AllocIs ==
    ASSUME NEW s, NEW cs, NEW und, NEW act, StateOK(s, cs, und, act),
           NEW b \in DBlocks, Seg(b) \notin s.prefree,
           \A c \in cs : c.state # "DONE" => b \notin Covers(c)
    PROVE  StateOK(update_sit_entry(s, b), cs, und, act)
<1>. DEFINE blks == IF b \in s.dmap THEN s.discard_blks ELSE s.discard_blks - 1
            pre == IF Seg(b) # s.log /\ s.cur \cap BlocksOf(s.log) = {}
                   THEN s.prefree \cup {s.log} ELSE s.prefree
            t == update_sit_entry(s, b)
<1>1. s \in SitType /\ SitOK(s) /\ Safe(cs, s.cur \cup s.ckpt) /\ s.discard_blks = Cardinality(DBlocks \ s.dmap)
  BY DEF StateOK, SitOK
<1>2. Seg(b) \in Segments
  BY SegBlocks
<1>3. /\ s.cur \in SUBSET DBlocks /\ s.dmap \in SUBSET DBlocks /\ s.discard_blks \in Int
      /\ s.prefree \in SUBSET Segments /\ s.log \in Segments
  BY <1>1 DEF SitType
<1>4. blks \in Int /\ pre \in SUBSET Segments
  BY <1>3
<1>5. t = [s EXCEPT !.cur = s.cur \cup {b}, !.dmap = s.dmap \cup {b}, !.log = Seg(b),
                    !.discard_blks = blks, !.prefree = pre]
  BY <1>1 DEF update_sit_entry, SitType
<1>6. \A x \in s.cur \cup {b} : Seg(x) \notin pre
  <2>1. CASE Seg(b) # s.log /\ s.cur \cap BlocksOf(s.log) = {}
    <3>1. ASSUME NEW x \in s.cur PROVE Seg(x) # s.log
      <4>1. x \in BlocksOf(Seg(x))
        BY <1>3, SegBlocks
      <4>. QED
        BY <2>1, <4>1
    <3>. QED
      BY <1>1, <2>1, <3>1 DEF SitOK
  <2>2. CASE ~(Seg(b) # s.log /\ s.cur \cap BlocksOf(s.log) = {})
    BY <1>1, <2>2 DEF SitOK
  <2>. QED
    BY <2>1, <2>2
<1>7. blks = Cardinality(DBlocks \ (s.dmap \cup {b}))
  <2>1. DBlocks \ s.dmap \in SUBSET DBlocks
    OBVIOUS
  <2>2. CASE b \in s.dmap
    <3>1. s.dmap \cup {b} = s.dmap
      BY <2>2
    <3>. QED
      BY <1>1, <2>2, <3>1
  <2>3. CASE b \notin s.dmap
    <3>1. (DBlocks \ s.dmap) \ {b} = DBlocks \ (s.dmap \cup {b}) /\ b \in DBlocks \ s.dmap
      BY <2>3
    <3>2. IsFiniteSet(DBlocks \ s.dmap)
      BY <2>1, BlocksFinite
    <3>3. Cardinality((DBlocks \ s.dmap) \ {b}) = Cardinality(DBlocks \ s.dmap) - 1
      BY <3>1, <3>2, FS_RemoveElement
    <3>. QED
      BY <1>1, <2>3, <3>1, <3>3
  <2>. QED
    BY <2>2, <2>3
<1>. HIDE DEF blks, pre, t
<1>8. /\ t \in SitType /\ t.cur = s.cur \cup {b} /\ t.ckpt = s.ckpt /\ t.dmap = s.dmap \cup {b}
      /\ t.discard_blks = blks /\ t.prefree = pre
  BY <1>1, <1>2, <1>4, <1>5 DEF SitType
<1>9. SitOK(t)
  BY <1>6, <1>7, <1>8 DEF SitOK
<1>10. Safe(cs, t.cur \cup t.ckpt)
  BY <1>1, <1>8 DEF Safe
<1>. QED
  BY <1>9, <1>10 DEF StateOK, t

----------------------------------------------------------------------------
(* The inductive invariant                                                 *)

DiscardInv ==
    /\ StateOK(sit, cmds, undiscard_blks, actor)
    /\ Shape(actor) /\ WriterOK(sit, cmds, actor)

(* It holds at mount.                                                      *)
LEMMA InitHolds ==
    ASSUME DiscardInit
    PROVE  DiscardInv
<1>1. PICK used \in Volumes, log \in Segments :
        sit = [cur |-> used, ckpt |-> used, dmap |-> used,
               discard_blks |-> Cardinality(DBlocks \ used), prefree |-> {}, log |-> log]
  BY DEF DiscardInit
<1>2. used \in SUBSET DBlocks /\ DBlocks \ used \in SUBSET DBlocks
  BY DiscardAssumption DEF DBlocks
<1>3. Cardinality(DBlocks \ used) \in Int
  BY <1>2, BlocksFinite
<1>4. SitOK(sit)
  BY <1>1, <1>2, <1>3 DEF SitOK, SitType
<1>5. cmds = {} /\ undiscard_blks = 0 /\ actor = [a \in Actors |-> Idle]
  BY DEF DiscardInit
<1>6. Covered(cmds) = {}
  BY <1>5 DEF Covered
<1>7. CmdsOK(cmds) /\ Safe(cmds, sit.cur \cup sit.ckpt)
  BY <1>5, <1>6 DEF CmdsOK, Apart, Safe
<1>8. undiscard_blks = LenOf(cmds)
  BY <1>5, <1>6, FS_EmptySet DEF LenOf
<1>9. \A a \in Actors : actor[a] = Idle
  BY <1>5
<1>10. Waits(cmds, actor)
  BY <1>5, <1>9, IdleIs DEF Waits
<1>11. Shape(actor)
  BY <1>5, <1>9, IdleIs DEF Shape
<1>12. WriterOK(sit, cmds, actor)
  BY <1>9, IdleIs DEF WriterOK, Actors
<1>. QED
  BY <1>4, <1>7, <1>8, <1>10, <1>11, <1>12 DEF DiscardInv, StateOK

(* An allocation takes its block out of a pending command, or waits.       *)
LEMMA AllocateStep ==
    ASSUME DiscardInv, f2fs_wait_discard_bio
    PROVE  DiscardInv'
<1>1. PICK b \in DBlocks \ (sit.cur \cup sit.ckpt) :
        LET hit == {c \in cmds : b \in Covers(c)}
            c == CHOOSE x \in hit : TRUE
        IN /\ Seg(b) \notin sit.prefree
           /\ IF hit # {} /\ c.state # "PREP"
              THEN /\ cmds' = (cmds \ {c}) \cup {[c EXCEPT !.ref = @ + 1]}
                   /\ actor' = [actor EXCEPT !["writer"] =
                                  [Idle EXCEPT !.pc = "waitone", !.dc = c.lstart, !.blk = b]]
                   /\ UNCHANGED <<sit, undiscard_blks, gone>>
              ELSE /\ cmds' = IF hit = {} THEN cmds ELSE __punch_discard_cmd(cmds, c, b)
                   /\ undiscard_blks' = IF hit = {} THEN undiscard_blks ELSE undiscard_blks - 1
                   /\ sit' = update_sit_entry(sit, b)
                   /\ gone' = gone \ {b}
                   /\ UNCHANGED actor
  BY DEF f2fs_wait_discard_bio
<1>. DEFINE hit == {c \in cmds : b \in Covers(c)}
            c == CHOOSE x \in hit : TRUE
<1>2. hit # {} => c \in cmds /\ b \in Covers(c)
  OBVIOUS
<1>3. hit = {} => \A x \in cmds : b \notin Covers(x)
  OBVIOUS
<1>4. /\ StateOK(sit, cmds, undiscard_blks, actor) /\ Shape(actor) /\ WriterOK(sit, cmds, actor)
      /\ CmdsOK(cmds) /\ Waits(cmds, actor) /\ undiscard_blks = LenOf(cmds)
      /\ Safe(cmds, sit.cur \cup sit.ckpt)
  BY DEF DiscardInv, StateOK
<1>5. Seg(b) \notin sit.prefree /\ actor["writer"] = Idle /\ "writer" \in Actors
  BY <1>1 DEF f2fs_wait_discard_bio, Unlocked, Actors
<1>6. \/ /\ hit # {} /\ c.state # "PREP"
         /\ cmds' = (cmds \ {c}) \cup {[c EXCEPT !.ref = @ + 1]}
         /\ actor' = [actor EXCEPT !["writer"] =
                        [Idle EXCEPT !.pc = "waitone", !.dc = c.lstart, !.blk = b]]
         /\ UNCHANGED <<sit, undiscard_blks, gone>>
      \/ /\ hit # {} /\ c.state = "PREP"
         /\ cmds' = __punch_discard_cmd(cmds, c, b) /\ undiscard_blks' = undiscard_blks - 1
         /\ sit' = update_sit_entry(sit, b) /\ UNCHANGED actor
      \/ /\ hit = {} /\ UNCHANGED <<cmds, undiscard_blks>>
         /\ sit' = update_sit_entry(sit, b) /\ UNCHANGED actor
  BY <1>1
<1>. HIDE DEF hit, c
<1>7. ASSUME UNCHANGED actor PROVE Shape(actor)' /\ WriterOK(sit, cmds, actor)'
  BY <1>4, <1>5, <1>7, IdleIs DEF Shape, WriterOK
<1>8. CASE /\ hit # {} /\ c.state # "PREP"
           /\ cmds' = (cmds \ {c}) \cup {[c EXCEPT !.ref = @ + 1]}
           /\ actor' = [actor EXCEPT !["writer"] =
                          [Idle EXCEPT !.pc = "waitone", !.dc = c.lstart, !.blk = b]]
           /\ UNCHANGED <<sit, undiscard_blks, gone>>
  <2>. DEFINE r == [Idle EXCEPT !.pc = "waitone", !.dc = c.lstart, !.blk = b]
  <2>1. /\ r.pc = "waitone" /\ r.dc = c.lstart /\ r.blk = b /\ r.list = "wait"
        /\ Rec(r)
    BY IdleIs DEF Rec
  <2>2. Turns(actor, actor', "writer", r)
    BY <1>8 DEF Turns
  <2>. HIDE DEF r
  <2>3. Shape(actor)' /\ actor'["writer"] = r /\ \A a \in Actors \ {"writer"} : actor'[a] = actor[a]
    <3>2. Shape(actor') /\ actor'["writer"] = r /\ \A a \in Actors \ {"writer"} : actor'[a] = actor[a]
      BY <1>4, <1>5, <2>1, <2>2, ActorStep
    <3>. QED
      BY <3>2 DEF Shape
  <2>4. Begins(actor, actor', "writer", c.lstart)
    BY <1>5, <2>1, <2>3, IdleIs DEF Begins
  <2>5. c \in cmds /\ b \in Covers(c) /\ c.state # "PREP" /\ sit' = sit /\ undiscard_blks' = undiscard_blks
    BY <1>2, <1>8
  <2>6. StateOK(sit, cmds', undiscard_blks, actor') /\ \E d \in cmds' : Same(c, d)
    BY <1>4, <1>5, <1>8, <2>4, <2>5, JoinIs
  <2>7. \E d \in cmds' : d.lstart = c.lstart /\ b \in Covers(d)
    BY <2>5, <2>6 DEF Same, Covers
  <2>8. WriterOK(sit, cmds, actor)'
    BY <1>5, <2>1, <2>3, <2>5, <2>7 DEF WriterOK
  <2>. QED
    BY <2>3, <2>5, <2>6, <2>8 DEF DiscardInv
<1>9. CASE /\ hit # {} /\ c.state = "PREP"
           /\ cmds' = __punch_discard_cmd(cmds, c, b) /\ undiscard_blks' = undiscard_blks - 1
           /\ sit' = update_sit_entry(sit, b) /\ UNCHANGED actor
  <2>1. c \in cmds /\ c.state = "PREP" /\ b \in Covers(c)
    BY <1>2, <1>9
  <2>2. Punched(cmds, b, actor, cmds')
    BY <1>4, <1>9, <2>1, PunchIs
  <2>3. /\ CmdsOK(cmds') /\ Waits(cmds', actor) /\ Covered(cmds') = Covered(cmds) \ {b}
        /\ Safe(cmds', (sit.cur \cup sit.ckpt) \cup {b})
    BY <1>4, <2>2 DEF Punched
  <2>4. undiscard_blks' = LenOf(cmds')
    <3>1. IsFiniteSet(Covered(cmds)) /\ b \in Covered(cmds)
      <4>1. Covered(cmds) \in SUBSET DBlocks
        BY <1>4 DEF CmdsOK
      <4>. QED
        BY <2>1, <4>1, BlocksFinite DEF Covered
    <3>2. Cardinality(Covered(cmds) \ {b}) = Cardinality(Covered(cmds)) - 1
      BY <3>1, FS_RemoveElement
    <3>. QED
      BY <1>4, <1>9, <2>3, <3>2 DEF LenOf
  <2>5. StateOK(sit, cmds', undiscard_blks', actor)
    BY <1>4, <2>3, <2>4 DEF StateOK, Safe
  <2>6. \A x \in cmds' : x.state # "DONE" => b \notin Covers(x)
    BY <2>3 DEF Safe
  <2>7. StateOK(update_sit_entry(sit, b), cmds', undiscard_blks', actor)
    BY <1>5, <2>5, <2>6, AllocIs
  <2>. QED
    BY <1>7, <1>9, <2>7 DEF DiscardInv
<1>10. CASE /\ hit = {} /\ UNCHANGED <<cmds, undiscard_blks>>
            /\ sit' = update_sit_entry(sit, b) /\ UNCHANGED actor
  <2>1. StateOK(update_sit_entry(sit, b), cmds, undiscard_blks, actor)
    BY <1>3, <1>4, <1>5, <1>10, AllocIs
  <2>. QED
    BY <1>7, <1>10, <2>1 DEF DiscardInv
<1>. QED
  BY <1>6, <1>8, <1>9, <1>10

(* An actor other than the writer moves on without a wait.                 *)
LEMMA OtherTurn ==
    ASSUME NEW act, Shape(act), NEW a \in Actors, a # "writer", act[a].pc # "waitone",
           NEW r, Rec(r), r.pc # "waitone", NEW act2, Turns(act, act2, a, r)
    PROVE  Shape(act2) /\ SameWaits(act, act2) /\ act2["writer"] = act["writer"]
<1>1. "writer" \in Actors \ {a}
  BY DEF Actors
<1>. QED
  BY <1>1, ActorStep

(* A block becomes invalid.                                                *)
LEMMA InvalidateStep ==
    ASSUME DiscardInv, invalidate_block
    PROVE  DiscardInv'
<1>1. PICK b \in sit.cur :
        sit' = [sit EXCEPT !.cur = @ \ {b}, !.dmap = @ \ {b},
                           !.discard_blks = IF b \in sit.dmap THEN @ + 1 ELSE @,
                           !.prefree = IF /\ Seg(b) # sit.log
                                          /\ sit.cur \cap BlocksOf(Seg(b)) = {b}
                                       THEN @ \cup {Seg(b)} ELSE @]
  BY DEF invalidate_block
<1>2. /\ StateOK(sit, cmds, undiscard_blks, actor) /\ Shape(actor) /\ WriterOK(sit, cmds, actor)
      /\ SitOK(sit) /\ sit \in SitType /\ sit.discard_blks = Cardinality(DBlocks \ sit.dmap)
      /\ Safe(cmds, sit.cur \cup sit.ckpt)
  BY DEF DiscardInv, StateOK, SitOK
<1>3. UNCHANGED <<cmds, undiscard_blks, actor>> /\ actor["writer"] = Idle
  BY DEF invalidate_block, Unlocked
<1>. DEFINE blks == IF b \in sit.dmap THEN sit.discard_blks + 1 ELSE sit.discard_blks
            pre == IF Seg(b) # sit.log /\ sit.cur \cap BlocksOf(Seg(b)) = {b}
                   THEN sit.prefree \cup {Seg(b)} ELSE sit.prefree
            t == sit'
<1>4. /\ sit.cur \in SUBSET DBlocks /\ sit.dmap \in SUBSET DBlocks /\ sit.discard_blks \in Int
      /\ sit.prefree \in SUBSET Segments /\ b \in DBlocks
  BY <1>2 DEF SitType
<1>5. Seg(b) \in Segments
  BY <1>4, SegBlocks
<1>6. blks \in Int /\ pre \in SUBSET Segments
  BY <1>4, <1>5
<1>7. t = [sit EXCEPT !.cur = sit.cur \ {b}, !.dmap = sit.dmap \ {b}, !.discard_blks = blks, !.prefree = pre]
  BY <1>1, <1>2 DEF SitType
<1>8. \A x \in sit.cur \ {b} : Seg(x) \notin pre
  <2>1. CASE Seg(b) # sit.log /\ sit.cur \cap BlocksOf(Seg(b)) = {b}
    <3>1. ASSUME NEW x \in sit.cur \ {b} PROVE Seg(x) # Seg(b)
      <4>1. x \in BlocksOf(Seg(x))
        BY <1>4, SegBlocks
      <4>. QED
        BY <2>1, <4>1
    <3>. QED
      BY <1>2, <2>1, <3>1 DEF SitOK
  <2>2. CASE ~(Seg(b) # sit.log /\ sit.cur \cap BlocksOf(Seg(b)) = {b})
    BY <1>2, <2>2 DEF SitOK
  <2>. QED
    BY <2>1, <2>2
<1>9. blks = Cardinality(DBlocks \ (sit.dmap \ {b}))
  <2>1. DBlocks \ sit.dmap \in SUBSET DBlocks
    OBVIOUS
  <2>2. CASE b \notin sit.dmap
    <3>1. sit.dmap \ {b} = sit.dmap
      BY <2>2
    <3>. QED
      BY <1>2, <2>2, <3>1
  <2>3. CASE b \in sit.dmap
    <3>1. (DBlocks \ sit.dmap) \cup {b} = DBlocks \ (sit.dmap \ {b}) /\ b \notin DBlocks \ sit.dmap
      BY <1>4, <2>3
    <3>2. IsFiniteSet(DBlocks \ sit.dmap)
      BY <2>1, BlocksFinite
    <3>3. Cardinality((DBlocks \ sit.dmap) \cup {b}) = Cardinality(DBlocks \ sit.dmap) + 1
      BY <3>1, <3>2, FS_AddElement
    <3>. QED
      BY <1>2, <2>3, <3>1, <3>3
  <2>. QED
    BY <2>2, <2>3
<1>. HIDE DEF blks, pre, t
<1>10. /\ t \in SitType /\ t.cur = sit.cur \ {b} /\ t.ckpt = sit.ckpt /\ t.dmap = sit.dmap \ {b}
       /\ t.discard_blks = blks /\ t.prefree = pre
  BY <1>2, <1>4, <1>6, <1>7 DEF SitType
<1>11. SitOK(t)
  BY <1>8, <1>9, <1>10 DEF SitOK
<1>12. Safe(cmds, t.cur \cup t.ckpt)
  BY <1>2, <1>10 DEF Safe
<1>13. StateOK(sit', cmds, undiscard_blks, actor)
  BY <1>2, <1>11, <1>12 DEF StateOK, t
<1>14. WriterOK(sit', cmds, actor)
  BY <1>3, IdleIs DEF WriterOK
<1>. QED
  BY <1>2, <1>3, <1>13, <1>14 DEF DiscardInv

(* A checkpoint, by whom ever, while the writer does nothing.              *)
LEMMA AppliedStep ==
    ASSUME DiscardInv, Unlocked, NEW force \in BOOLEAN, NEW trim \in SUBSET Segments, NEW minlen,
           Apply(write_checkpoint(force, trim, minlen)),
           Shape(actor'), SameWaits(actor, actor'), actor'["writer"] = actor["writer"]
    PROVE  DiscardInv'
<1>. DEFINE m == write_checkpoint(force, trim, minlen)
<1>1. StateOK(sit, cmds, undiscard_blks, actor)
  BY DEF DiscardInv
<1>2. StateOK(m.s, m.cmds, m.und, actor)
  BY <1>1, CheckpointIs
<1>3. sit' = m.s /\ cmds' = m.cmds /\ undiscard_blks' = m.und
  BY DEF Apply
<1>. HIDE DEF m
<1>4. StateOK(sit', cmds', undiscard_blks', actor')
  BY <1>2, <1>3, StateKept
<1>5. WriterOK(sit', cmds', actor')
  BY IdleIs DEF WriterOK, Unlocked
<1>. QED
  BY <1>4, <1>5 DEF DiscardInv

(* A checkpoint.                                                           *)
LEMMA CheckpointHolds ==
    ASSUME DiscardInv, CheckpointStep
    PROVE  DiscardInv'
<1>1. /\ Unlocked /\ Apply(write_checkpoint(FALSE, {}, 0)) /\ actor' = actor
      /\ FALSE \in BOOLEAN /\ {} \in SUBSET Segments
  BY DEF CheckpointStep
<1>2. Shape(actor') /\ SameWaits(actor, actor') /\ actor'["writer"] = actor["writer"]
  BY <1>1 DEF DiscardInv, SameWaits
<1>. QED
  BY <1>1, <1>2, AppliedStep, Zenon

(* FITRIM begins with a checkpoint.                                        *)
LEMMA TrimHolds ==
    ASSUME DiscardInv, f2fs_trim_fs
    PROVE  DiscardInv'
<1>1. Unlocked /\ actor["trim"] = Idle /\ Shape(actor) /\ TRUE \in BOOLEAN
  BY DEF f2fs_trim_fs, DiscardInv
<1>2. PICK r \in TrimRequests :
        /\ Apply(write_checkpoint(TRUE, r[1] .. r[2], r[3]))
        /\ actor' = [actor EXCEPT !["trim"] =
                        [Idle EXCEPT !.pc = "issue", !.blk = r[1] * SEG_BLOCKS,
                                     !.range = SegRange(r[1], IF sit.discard_blks = 0
                                                              THEN r[1] ELSE r[2]),
                                     !.gran = r[3], !.list = "fstrim"]]
  BY DEF f2fs_trim_fs
<1>3. r[1] .. r[2] \in SUBSET Segments
  <2>1. r \in (0 .. SEGS - 1) \X (0 .. SEGS - 1) \X Nat
    BY DiscardAssumption
  <2>2. r[1] \in 0 .. SEGS - 1 /\ r[2] \in 0 .. SEGS - 1 /\ SEGS \in Nat
    BY <2>1, DiscardAssumption
  <2>. DEFINE x == r[1]  y == r[2]
  <2>3. x \in 0 .. SEGS - 1 /\ y \in 0 .. SEGS - 1
    BY <2>2
  <2>. HIDE DEF x, y
  <2>4. x .. y \subseteq 0 .. SEGS - 1
    BY <2>2, <2>3
  <2>. QED
    BY <2>4 DEF x, y, Segments
<1>. DEFINE q == [Idle EXCEPT !.pc = "issue", !.blk = r[1] * SEG_BLOCKS,
                              !.range = SegRange(r[1], IF sit.discard_blks = 0 THEN r[1] ELSE r[2]),
                              !.gran = r[3], !.list = "fstrim"]
<1>4. Turns(actor, actor', "trim", q)
  BY <1>2 DEF Turns
<1>5. Rec(q) /\ q.pc = "issue"
  BY IdleIs DEF Rec
<1>. HIDE DEF q
<1>6. Shape(actor') /\ SameWaits(actor, actor') /\ actor'["writer"] = actor["writer"]
  <2>1. "trim" \in Actors /\ "trim" # "writer" /\ actor["trim"].pc # "waitone" /\ q.pc # "waitone"
    BY <1>1, <1>5, IdleIs DEF Actors
  <2>. QED
    BY <1>1, <1>4, <1>5, <2>1, OtherTurn
<1>. QED
  BY <1>1, <1>2, <1>3, <1>6, AppliedStep, Zenon

(* And so does the unmount.                                                *)
LEMMA UmountHolds ==
    ASSUME DiscardInv, f2fs_put_super
    PROVE  DiscardInv'
<1>. DEFINE q == [Idle EXCEPT !.pc = "issue", !.range = DBlocks,
                              !.gran = discard_granularity, !.i = MAX_PLIST_NUM]
<1>1. /\ Unlocked /\ Apply(write_checkpoint(FALSE, {}, 0)) /\ Turns(actor, actor', "umount", q)
      /\ FALSE \in BOOLEAN /\ {} \in SUBSET Segments /\ Shape(actor)
  BY DEF f2fs_put_super, DiscardInv, Turns
<1>2. Rec(q) /\ q.pc = "issue"
  BY IdleIs DEF Rec
<1>. HIDE DEF q
<1>3. Shape(actor') /\ SameWaits(actor, actor') /\ actor'["writer"] = actor["writer"]
  <2>1. /\ "umount" \in Actors /\ "umount" # "writer" /\ actor["umount"].pc # "waitone"
        /\ q.pc # "waitone"
    BY <1>1, <1>2, IdleIs DEF Actors, Unlocked
  <2>. QED
    BY <1>1, <1>2, <2>1, OtherTurn
<1>. QED
  BY <1>1, <1>3, AppliedStep, Zenon

(* The thread or the unmount submits commands of one list, or is through.  *)
LEMMA IssueHolds ==
    ASSUME DiscardInv, NEW a \in {"thread", "umount"}, __issue_discard_cmd(a)
    PROVE  DiscardInv'
<1>. DEFINE me == actor[a]
            room == max_requests - me.iter
            all == Pending(me.i)
<1>1. /\ StateOK(sit, cmds, undiscard_blks, actor) /\ Shape(actor) /\ WriterOK(sit, cmds, actor)
      /\ a \in Actors /\ a # "writer" /\ Rec(me) /\ me.pc = "issue"
  BY DEF DiscardInv, Shape, Actors, __issue_discard_cmd
<1>2. sit' = sit
  BY DEF __issue_discard_cmd
<1>3. CASE me.i < me.gran \/ room <= 0
  <2>. DEFINE q == IF a = "umount" THEN [me EXCEPT !.pc = "drop"]
                   ELSE IF me.iter > 0 THEN [me EXCEPT !.pc = "scan"] ELSE Idle
  <2>1. Turns(actor, actor', a, q) /\ cmds' = cmds /\ undiscard_blks' = undiscard_blks
    BY <1>3 DEF __issue_discard_cmd, Turns
  <2>2. Rec(q) /\ q.pc # "waitone"
    BY <1>1, IdleIs DEF Rec
  <2>. HIDE DEF q, me
  <2>3. Shape(actor') /\ SameWaits(actor, actor') /\ actor'["writer"] = actor["writer"]
    BY <1>1, <2>1, <2>2, OtherTurn DEF me
  <2>4. StateOK(sit, cmds, undiscard_blks, actor')
    BY <1>1, <2>3, StateKept
  <2>5. WriterOK(sit, cmds, actor')
    BY <1>1, <2>3 DEF WriterOK
  <2>. QED
    BY <1>2, <2>1, <2>3, <2>4, <2>5 DEF DiscardInv
<1>4. CASE ~(me.i < me.gran \/ room <= 0)
  <2>1. PICK S \in SUBSET all, fail \in SUBSET all :
           /\ fail \subseteq S
           /\ cmds' = __submit_discard_cmd(cmds, S, fail, "wait")
           /\ undiscard_blks' = undiscard_blks - LenOf(fail)
           /\ actor' = [actor EXCEPT ![a] = [me EXCEPT !.i = @ - 1, !.iter = @ + Cardinality(all)]]
    BY <1>4 DEF __issue_discard_cmd
  <2>. DEFINE q == [me EXCEPT !.i = @ - 1, !.iter = @ + Cardinality(all)]
  <2>2. Turns(actor, actor', a, q)
    BY <2>1 DEF Turns
  <2>3. Rec(q) /\ q.pc # "waitone"
    <3>1. {"pc", "dc", "blk", "list"} \subseteq DOMAIN me /\ me.list \in {"wait", "fstrim"}
      BY <1>1 DEF Rec
    <3>2. DOMAIN q = DOMAIN me /\ q.pc = me.pc /\ q.list = me.list
      <4>. HIDE DEF me
      <4>. QED
        BY <3>1
    <3>. HIDE DEF q, me
    <3>. QED
      BY <1>1, <3>1, <3>2 DEF Rec
  <2>. HIDE DEF q
  <2>4. Shape(actor') /\ SameWaits(actor, actor') /\ actor'["writer"] = actor["writer"]
    BY <1>1, <2>2, <2>3, OtherTurn
  <2>5. S \in SUBSET cmds /\ \A c \in S : c.state = "PREP"
    BY DEF Pending
  <2>6. "wait" \in {"wait", "fstrim"} /\ fail \in SUBSET S
    BY <2>1
  <2>7. StateOK(sit, cmds', undiscard_blks - LenOf(fail), actor') /\ WriterOK(sit, cmds', actor')
    BY <1>1, <2>1, <2>4, <2>5, <2>6, SubmitIs
  <2>. QED
    BY <1>2, <2>1, <2>4, <2>7 DEF DiscardInv
<1>. QED
  BY <1>3, <1>4

(* FITRIM submits what is pending and takes over what was submitted.       *)
LEMMA IssueRangeHolds ==
    ASSUME DiscardInv, __issue_discard_cmd_range
    PROVE  DiscardInv'
<1>. DEFINE me == actor["trim"]
            todo == {c \in cmds : /\ c.lstart <= Max(me.range) + 1
                                  /\ c.lstart + c.len > me.blk
                                  /\ c.len >= me.gran}
            S(batch) == {c \in batch : c.state = "PREP"}
            full(batch) == Cardinality(S(batch)) = max_requests
            behind(batch) == Max({c.lstart + c.len : c \in batch} \cup {0})
<1>1. /\ StateOK(sit, cmds, undiscard_blks, actor) /\ Shape(actor) /\ WriterOK(sit, cmds, actor)
      /\ "trim" \in Actors /\ "trim" # "writer" /\ Rec(me) /\ me.pc = "issue" /\ sit' = sit
  BY DEF DiscardInv, Shape, Actors, __issue_discard_cmd_range
<1>2. PICK batch \in {{c \in todo : c.lstart <= e} : e \in {t.lstart : t \in todo} \cup {-1}} :
        /\ \E fail \in SUBSET S(batch) :
             /\ cmds' = __submit_discard_cmd(
                          (cmds \ batch) \cup S(batch)
                            \cup {[c EXCEPT !.list = "fstrim"] : c \in batch \ S(batch)},
                          S(batch), fail, "fstrim")
             /\ undiscard_blks' = undiscard_blks - LenOf(fail)
        /\ actor' = [actor EXCEPT !["trim"] =
                       IF full(batch) THEN [me EXCEPT !.blk = behind(batch)]
                       ELSE [me EXCEPT !.pc = "scan"]]
  BY Zenon DEF __issue_discard_cmd_range
<1>3. batch \in SUBSET cmds
  <2>1. todo \subseteq cmds
    OBVIOUS
  <2>. HIDE DEF todo
  <2>. QED
    BY <2>1
<1>. DEFINE P == S(batch)  D == batch \ P  f == [c \in D |-> [c EXCEPT !.list = "fstrim"]]
            cs1 == (cmds \ D) \cup {f[c] : c \in D}
            q == IF full(batch) THEN [me EXCEPT !.blk = behind(batch)] ELSE [me EXCEPT !.pc = "scan"]
<1>4. PICK fail \in SUBSET P :
        /\ cmds' = __submit_discard_cmd((cmds \ batch) \cup P \cup {[c EXCEPT !.list = "fstrim"] : c \in D},
                                        P, fail, "fstrim")
        /\ undiscard_blks' = undiscard_blks - LenOf(fail)
  BY <1>2
<1>5. Turns(actor, actor', "trim", q)
  BY <1>2 DEF Turns
<1>6. P \in SUBSET cmds /\ D \in SUBSET cmds /\ (\A c \in P : c.state = "PREP") /\ \A c \in D : c.state # "PREP"
  BY <1>3
<1>7. Rec(q) /\ q.pc # "waitone"
  <2>. HIDE DEF me, full, behind
  <2>. QED
    BY <1>1 DEF Rec
<1>. HIDE DEF q, todo, full, behind, me
<1>8. Shape(actor') /\ SameWaits(actor, actor') /\ actor'["writer"] = actor["writer"]
  BY <1>1, <1>5, <1>7, OtherTurn DEF me
<1>9. Changes(D, f)
  <2>. SUFFICES ASSUME NEW c \in D
                PROVE  /\ f[c] \in CmdType /\ Same(c, f[c]) /\ f[c].ref = c.ref
                       /\ f[c].state # "PREP" /\ (f[c].state # "DONE" => c.state # "DONE")
    BY DEF Changes
  <2>1. c \in CmdType /\ c.state # "PREP"
    BY <1>1, <1>6 DEF StateOK, CmdsOK
  <2>2. f[c] = [c EXCEPT !.list = "fstrim"]
    OBVIOUS
  <2>. HIDE DEF f
  <2>. QED
    BY <2>1, <2>2 DEF CmdType, Same
<1>10. cs1 = (cmds \ batch) \cup P \cup {[c EXCEPT !.list = "fstrim"] : c \in D} /\ P \subseteq cs1
  <2>1. {f[c] : c \in D} = {[c EXCEPT !.list = "fstrim"] : c \in D}
    OBVIOUS
  <2>2. cmds \ D = (cmds \ batch) \cup P /\ P \subseteq cmds \ D
    BY <1>3
  <2>. QED
    BY <2>1, <2>2
<1>11. SameWaits(actor, actor)
  BY DEF SameWaits
<1>. HIDE DEF f, P, D
<1>12. StateOK(sit, cs1, undiscard_blks, actor) /\ WriterOK(sit, cs1, actor)
  BY <1>1, <1>6, <1>9, <1>11, ChangeStep
<1>. HIDE DEF cs1
<1>13. P \in SUBSET cs1 /\ "fstrim" \in {"wait", "fstrim"} /\ cmds' = __submit_discard_cmd(cs1, P, fail, "fstrim")
  BY <1>4, <1>10
<1>14. StateOK(sit, cmds', undiscard_blks - LenOf(fail), actor') /\ WriterOK(sit, cmds', actor')
  BY <1>6, <1>8, <1>12, <1>13, SubmitIs
<1>. QED
  BY <1>1, <1>4, <1>8, <1>14 DEF DiscardInv

(* Finished commands go, and a wait begins if some are not.                *)
LEMMA ScanHolds ==
    ASSUME DiscardInv, NEW a \in {"thread", "trim", "umount"}, __wait_discard_cmd_range(a)
    PROVE  DiscardInv'
<1>. DEFINE me == actor[a]
            mine == {c \in cmds : /\ c.list = me.list /\ c.len >= me.gran
                                  /\ Covers(c) \cap me.range # {}}
            finished == {c \in mine : c.state = "DONE" /\ c.ref = 0}
<1>1. /\ StateOK(sit, cmds, undiscard_blks, actor) /\ Shape(actor) /\ WriterOK(sit, cmds, actor)
      /\ a \in Actors /\ a # "writer" /\ Rec(me) /\ me.pc = "scan" /\ sit' = sit
  BY DEF DiscardInv, Shape, Actors, __wait_discard_cmd_range
<1>2. mine \in SUBSET cmds /\ finished \in SUBSET cmds /\ \A c \in finished : c.state = "PREP" \/ c.ref = 0
  OBVIOUS
<1>3. ASSUME NEW c \in mine PROVE c.state # "PREP"
  <2>1. c.list = me.list /\ me.list # "pend" /\ c \in cmds
    BY <1>1 DEF Rec
  <2>2. c.state = "PREP" => c.list = "pend"
    BY <1>1, <2>1 DEF StateOK, CmdsOK
  <2>. QED
    BY <2>1, <2>2
<1>4. CASE /\ finished = mine /\ cmds' = cmds \ mine
           /\ undiscard_blks' = undiscard_blks - LenOf(mine)
           /\ actor' = [actor EXCEPT ![a] = IF a = "umount" THEN [me EXCEPT !.pc = "finish"] ELSE Idle]
  <2>. DEFINE q == IF a = "umount" THEN [me EXCEPT !.pc = "finish"] ELSE Idle
  <2>1. Turns(actor, actor', a, q)
    BY <1>4 DEF Turns
  <2>2. Rec(q) /\ q.pc # "waitone"
    BY <1>1, IdleIs DEF Rec
  <2>. HIDE DEF q
  <2>3. Shape(actor') /\ SameWaits(actor, actor') /\ actor'["writer"] = actor["writer"]
    BY <1>1, <2>1, <2>2, OtherTurn
  <2>4. mine \in SUBSET cmds /\ \A c \in mine : c.state = "PREP" \/ c.ref = 0
    BY <1>2, <1>4
  <2>. HIDE DEF mine
  <2>5. StateOK(sit, cmds \ mine, undiscard_blks - LenOf(mine), actor') /\ WriterOK(sit, cmds \ mine, actor')
    BY <1>1, <2>3, <2>4, GoneStep
  <2>. QED
    BY <1>1, <1>4, <2>3, <2>5 DEF DiscardInv
<1>5. ASSUME NEW c \in mine \ finished, NEW S \in SUBSET finished,
             cmds' = (cmds \ (S \cup {c})) \cup {[c EXCEPT !.ref = @ + 1]},
             undiscard_blks' = undiscard_blks - LenOf(S),
             actor' = [actor EXCEPT ![a] = [me EXCEPT !.pc = "waitone", !.dc = c.lstart]]
      PROVE  DiscardInv'
  <2>. DEFINE q == [me EXCEPT !.pc = "waitone", !.dc = c.lstart]  cs1 == cmds \ S
  <2>1. Turns(actor, actor', a, q)
    BY <1>5 DEF Turns
  <2>2. Rec(q) /\ q.pc = "waitone" /\ q.dc = c.lstart
    BY <1>1 DEF Rec
  <2>. HIDE DEF q
  <2>3. Shape(actor') /\ actor'[a] = q /\ \A b \in Actors \ {a} : actor'[b] = actor[b]
    BY <1>1, <2>1, <2>2, ActorStep
  <2>4. actor'["writer"] = actor["writer"]
    BY <1>1, <2>3 DEF Actors
  <2>5. Begins(actor, actor', a, c.lstart)
    BY <1>1, <2>2, <2>3 DEF Begins
  <2>6. S \in SUBSET cmds /\ (\A x \in S : x.state = "PREP" \/ x.ref = 0) /\ SameWaits(actor, actor)
    BY <1>2 DEF SameWaits
  <2>7. StateOK(sit, cs1, undiscard_blks - LenOf(S), actor) /\ WriterOK(sit, cs1, actor)
    BY <1>1, <2>6, GoneStep
  <2>8. c \in cs1 /\ c.state # "PREP" /\ cmds' = (cs1 \ {c}) \cup {[c EXCEPT !.ref = @ + 1]}
    <3>1. c \in cs1 /\ c.state # "PREP"
      BY <1>2, <1>3
    <3>2. cmds \ (S \cup {c}) = cs1 \ {c}
      OBVIOUS
    <3>. QED
      BY <1>5, <3>1, <3>2
  <2>. HIDE DEF cs1
  <2>9. StateOK(sit, cmds', undiscard_blks - LenOf(S), actor') /\ WriterOK(sit, cmds', actor')
    BY <1>1, <2>4, <2>5, <2>7, <2>8, JoinIs
  <2>. QED
    BY <1>1, <1>5, <2>3, <2>9 DEF DiscardInv
<1>. QED
  BY <1>4, <1>5 DEF __wait_discard_cmd_range

(* A wait is over; the writer then has its block.                          *)
LEMMA WaitOneHolds ==
    ASSUME DiscardInv, NEW a \in Actors, __wait_one_discard_bio(a)
    PROVE  DiscardInv'
<1>. DEFINE me == actor[a]
            c == CHOOSE x \in cmds : x.lstart = me.dc
            last == c.ref = 1
<1>1. /\ StateOK(sit, cmds, undiscard_blks, actor) /\ Shape(actor) /\ WriterOK(sit, cmds, actor)
      /\ Rec(me) /\ me.pc = "waitone" /\ CmdsOK(cmds)
  BY DEF DiscardInv, Shape, __wait_one_discard_bio, StateOK
<1>2. c \in cmds /\ c.lstart = me.dc
  <2>1. \E x \in cmds : x.lstart = me.dc
    BY <1>1 DEF StateOK, Waits
  <2>. QED
    BY <2>1
<1>3. /\ c.state = "DONE"
      /\ cmds' = CmdsLeft(cmds, c) /\ undiscard_blks' = BlksLeft(undiscard_blks, c)
  BY DEF __wait_one_discard_bio, CmdsLeft, BlksLeft
<1>4. \/ /\ a = "writer" /\ sit' = update_sit_entry(sit, me.blk)
         /\ actor' = [actor EXCEPT ![a] = Idle]
      \/ /\ a # "writer" /\ sit' = sit /\ actor' = [actor EXCEPT ![a] = [me EXCEPT !.pc = "scan"]]
  BY DEF __wait_one_discard_bio
<1>. HIDE DEF c
<1>7. ASSUME Ends(actor, actor', a, c.lstart)
      PROVE  /\ StateOK(sit, cmds', undiscard_blks', actor')
             /\ WriterOK(sit, cmds, actor) /\ actor'["writer"] = actor["writer"] => WriterOK(sit, cmds', actor')
             /\ \A d \in cmds' : d \in cmds \/ (Same(c, d) /\ d.state = "DONE")
  <2>. HIDE DEF me
  <2>. QED
    BY <1>1, <1>2, <1>3, <1>7, LeaveIs
<1>5. CASE a = "writer" /\ sit' = update_sit_entry(sit, me.blk) /\ actor' = [actor EXCEPT ![a] = Idle]
  <2>1. Turns(actor, actor', a, Idle) /\ Rec(Idle) /\ Idle.pc = "idle"
    BY <1>5, IdleIs DEF Turns
  <2>2. Shape(actor') /\ actor'[a] = Idle /\ \A b \in Actors \ {a} : actor'[b] = actor[b]
    BY <1>1, <2>1, ActorStep
  <2>3. Ends(actor, actor', a, c.lstart)
    BY <1>1, <1>2, <2>1, <2>2 DEF Ends
  <2>4. /\ StateOK(sit, cmds', undiscard_blks', actor')
        /\ \A d \in cmds' : d \in cmds \/ (Same(c, d) /\ d.state = "DONE")
    BY <2>3, <1>7
  <2>. DEFINE b == me.blk
  <2>5. b \in DBlocks /\ Seg(b) \notin sit.prefree /\ \E e \in cmds : e.lstart = me.dc /\ b \in Covers(e)
    BY <1>1, <1>5 DEF WriterOK
  <2>. HIDE DEF b
  <2>6. b \in Covers(c)
    BY <1>1, <1>2, <2>5, OneCommand
  <2>7. ASSUME NEW d \in cmds', d.state # "DONE" PROVE b \notin Covers(d)
    <3>1. d \in cmds /\ d # c
      BY <1>3, <2>4, <2>7
    <3>. QED
      BY <1>1, <1>2, <2>6, <3>1, OneCommand
  <2>8. StateOK(update_sit_entry(sit, b), cmds', undiscard_blks', actor')
    BY <2>4, <2>5, <2>7, AllocIs
  <2>9. WriterOK(sit', cmds', actor')
    BY <1>5, <2>1, <2>2 DEF WriterOK
  <2>. QED
    BY <1>5, <2>2, <2>8, <2>9 DEF DiscardInv, b
<1>6. CASE a # "writer" /\ sit' = sit /\ actor' = [actor EXCEPT ![a] = [me EXCEPT !.pc = "scan"]]
  <2>. DEFINE q == [me EXCEPT !.pc = "scan"]
  <2>1. Turns(actor, actor', a, q)
    BY <1>6 DEF Turns
  <2>2. Rec(q) /\ q.pc = "scan"
    BY <1>1 DEF Rec
  <2>. HIDE DEF q
  <2>3. Shape(actor') /\ actor'[a] = q /\ \A b \in Actors \ {a} : actor'[b] = actor[b]
    BY <1>1, <2>1, <2>2, ActorStep
  <2>4. actor'["writer"] = actor["writer"]
    BY <1>6, <2>3 DEF Actors
  <2>5. Ends(actor, actor', a, c.lstart)
    BY <1>1, <1>2, <2>2, <2>3 DEF Ends
  <2>6. StateOK(sit, cmds', undiscard_blks', actor') /\ WriterOK(sit, cmds', actor')
    BY <1>1, <1>7, <2>4, <2>5
  <2>. QED
    BY <1>6, <2>3, <2>6 DEF DiscardInv
<1>. QED
  BY <1>4, <1>5, <1>6

(* The device is done with a command.                                      *)
LEMMA EndioHolds ==
    ASSUME DiscardInv, f2fs_submit_discard_endio
    PROVE  DiscardInv'
<1>1. PICK c \in cmds : c.state = "SUBMIT" /\ cmds' = (cmds \ {c}) \cup {[c EXCEPT !.state = "DONE"]}
  BY DEF f2fs_submit_discard_endio
<1>2. /\ sit' = sit /\ undiscard_blks' = undiscard_blks /\ actor' = actor
      /\ StateOK(sit, cmds, undiscard_blks, actor) /\ Shape(actor) /\ WriterOK(sit, cmds, actor)
  BY DEF f2fs_submit_discard_endio, DiscardInv
<1>. DEFINE A == {c}  f == [x \in A |-> [x EXCEPT !.state = "DONE"]]
<1>3. A \in SUBSET cmds /\ f[c] = [c EXCEPT !.state = "DONE"] /\ {f[x] : x \in A} = {f[c]}
  OBVIOUS
<1>4. c \in CmdType
  BY <1>2 DEF StateOK, CmdsOK
<1>. HIDE DEF f
<1>5. Changes(A, f)
  BY <1>1, <1>3, <1>4 DEF Changes, CmdType, Same
<1>6. cmds' = (cmds \ A) \cup {f[x] : x \in A}
  BY <1>1, <1>3
<1>7. SameWaits(actor, actor)
  BY DEF SameWaits
<1>. HIDE DEF A
<1>8. StateOK(sit, cmds', undiscard_blks, actor) /\ WriterOK(sit, cmds', actor)
  BY <1>2, <1>3, <1>5, <1>6, <1>7, ChangeStep
<1>. QED
  BY <1>2, <1>8 DEF DiscardInv

(* The thread wakes up.                                                    *)
LEMMA ThreadHolds ==
    ASSUME DiscardInv, issue_discard_thread
    PROVE  DiscardInv'
<1>1. PICK gran \in {discard_granularity, 1} :
        actor' = [actor EXCEPT !["thread"] =
                    [Idle EXCEPT !.pc = "issue", !.range = DBlocks, !.gran = gran, !.i = MAX_PLIST_NUM]]
  BY DEF issue_discard_thread
<1>. DEFINE q == [Idle EXCEPT !.pc = "issue", !.range = DBlocks, !.gran = gran, !.i = MAX_PLIST_NUM]
<1>2. /\ StateOK(sit, cmds, undiscard_blks, actor) /\ Shape(actor) /\ WriterOK(sit, cmds, actor)
      /\ actor["thread"] = Idle /\ UNCHANGED <<sit, cmds, undiscard_blks>>
  BY DEF issue_discard_thread, DiscardInv
<1>3. Turns(actor, actor', "thread", q)
  BY <1>1 DEF Turns
<1>4. Rec(q) /\ q.pc # "waitone"
  BY IdleIs DEF Rec
<1>. HIDE DEF q
<1>5. "thread" \in Actors /\ "thread" # "writer" /\ actor["thread"].pc # "waitone"
  BY <1>2, IdleIs DEF Actors
<1>6. Shape(actor') /\ SameWaits(actor, actor') /\ actor'["writer"] = actor["writer"]
  BY <1>2, <1>3, <1>4, <1>5, OtherTurn
<1>7. StateOK(sit, cmds, undiscard_blks, actor')
  BY <1>2, <1>6, StateKept
<1>8. WriterOK(sit, cmds, actor')
  BY <1>2, <1>6 DEF WriterOK
<1>. QED
  BY <1>2, <1>6, <1>7, <1>8 DEF DiscardInv

(* The unmount drops what is pending.                                      *)
LEMMA DropHolds ==
    ASSUME DiscardInv, __drop_discard_cmd
    PROVE  DiscardInv'
<1>. DEFINE pend == {c \in cmds : c.state = "PREP"}
            q == [actor["umount"] EXCEPT !.pc = "scan", !.dropped = pend # {}]
<1>1. /\ StateOK(sit, cmds, undiscard_blks, actor) /\ Shape(actor) /\ WriterOK(sit, cmds, actor)
      /\ actor["umount"].pc = "drop" /\ sit' = sit /\ cmds' = cmds \ pend
      /\ undiscard_blks' = undiscard_blks - LenOf(pend)
      /\ actor' = [actor EXCEPT !["umount"] = q]
  BY DEF __drop_discard_cmd, DiscardInv
<1>2. Turns(actor, actor', "umount", q)
  BY <1>1 DEF Turns
<1>3. "umount" \in Actors /\ "umount" # "writer" /\ Rec(actor["umount"])
  BY <1>1 DEF Actors, Shape
<1>4. Rec(q) /\ q.pc # "waitone"
  <2>. DEFINE x == pend # {}
  <2>. HIDE DEF x
  <2>. QED
    BY <1>3 DEF Rec
<1>5. pend \in SUBSET cmds /\ \A c \in pend : c.state = "PREP" \/ c.ref = 0
  OBVIOUS
<1>. HIDE DEF q, pend
<1>6. Shape(actor') /\ SameWaits(actor, actor') /\ actor'["writer"] = actor["writer"]
  BY <1>1, <1>2, <1>3, <1>4, OtherTurn
<1>7. StateOK(sit, cmds \ pend, undiscard_blks - LenOf(pend), actor') /\ WriterOK(sit, cmds \ pend, actor')
  BY <1>1, <1>5, <1>6, GoneStep
<1>. QED
  BY <1>1, <1>6, <1>7 DEF DiscardInv

(* The unmount ends.                                                       *)
LEMMA FinishHolds ==
    ASSUME DiscardInv, FinishUnmount
    PROVE  DiscardInv'
<1>1. /\ StateOK(sit, cmds, undiscard_blks, actor) /\ Shape(actor) /\ WriterOK(sit, cmds, actor)
      /\ actor["umount"].pc # "waitone" /\ UNCHANGED <<sit, cmds, undiscard_blks>>
      /\ Turns(actor, actor', "umount", Idle)
  BY DEF FinishUnmount, DiscardInv, Turns
<1>2. "umount" \in Actors /\ "umount" # "writer" /\ Rec(Idle) /\ Idle.pc # "waitone"
  BY IdleIs DEF Actors
<1>3. Shape(actor') /\ SameWaits(actor, actor') /\ actor'["writer"] = actor["writer"]
  BY <1>1, <1>2, OtherTurn
<1>4. StateOK(sit, cmds, undiscard_blks, actor')
  BY <1>1, <1>3, StateKept
<1>5. WriterOK(sit, cmds, actor')
  BY <1>1, <1>3 DEF WriterOK
<1>. QED
  BY <1>1, <1>3, <1>4, <1>5 DEF DiscardInv

----------------------------------------------------------------------------
(* The theorems                                                            *)

(* The invariant holds at mount and every step of the writer, the device,  *)
(* the thread, FITRIM and the unmount keeps it.                            *)
THEOREM DiscardInductive == DiscardSpec => []DiscardInv
<1>1. DiscardInit => DiscardInv
  BY InitHolds
<1>2. DiscardInv /\ [DiscardNext]_discardVars => DiscardInv'
  <2>. SUFFICES ASSUME DiscardInv, [DiscardNext]_discardVars PROVE DiscardInv'
    OBVIOUS
  <2>1. CASE UNCHANGED discardVars
    BY <2>1 DEF discardVars, DiscardInv
  <2>2. CASE f2fs_wait_discard_bio
    BY <2>2, AllocateStep
  <2>3. CASE invalidate_block
    BY <2>3, InvalidateStep
  <2>4. CASE CheckpointStep
    BY <2>4, CheckpointHolds
  <2>5. CASE \E a \in {"thread", "umount"} : __issue_discard_cmd(a)
    BY <2>5, IssueHolds
  <2>6. CASE __issue_discard_cmd_range
    BY <2>6, IssueRangeHolds
  <2>7. CASE \E a \in {"thread", "trim", "umount"} : __wait_discard_cmd_range(a)
    BY <2>7, ScanHolds
  <2>8. CASE \E a \in Actors : __wait_one_discard_bio(a)
    BY <2>8, WaitOneHolds
  <2>9. CASE f2fs_submit_discard_endio
    BY <2>9, EndioHolds
  <2>10. CASE issue_discard_thread
    BY <2>10, ThreadHolds
  <2>11. CASE f2fs_trim_fs
    BY <2>11, TrimHolds
  <2>12. CASE f2fs_put_super
    BY <2>12, UmountHolds
  <2>13. CASE __drop_discard_cmd
    BY <2>13, DropHolds
  <2>14. CASE FinishUnmount
    BY <2>14, FinishHolds
  <2>. QED
    BY <2>1, <2>2, <2>3, <2>4, <2>5, <2>6, <2>7, <2>8, <2>9, <2>10, <2>11, <2>12, <2>13, <2>14
    DEF DiscardNext
<1>. QED
  BY <1>1, <1>2, PTL DEF DiscardSpec

(* However allocations, FITRIM, the discard thread and the unmount         *)
(* interleave, no discard that the device may still carry out covers a     *)
(* block of the file system or of its last checkpoint.                     *)
THEOREM DiscardsSafe == DiscardSpec => []DiscardSafe
<1>1. DiscardInv => DiscardSafe
  BY DEF DiscardInv, StateOK, Safe, DiscardSafe
<1>. QED
  BY <1>1, DiscardInductive, PTL

(* Commands never overlap, their references are those of the actors that   *)
(* wait, none is freed under a waiter, and undiscard_blks and discard_blks *)
(* count what they say.                                                    *)
THEOREM CommandsAreSound == DiscardSpec => []CommandsSound
<1>1. DiscardInv => CommandsSound
  <2>. SUFFICES ASSUME DiscardInv PROVE CommandsSound
    OBVIOUS
  <2>1. /\ SitOK(sit) /\ CmdsOK(cmds) /\ Waits(cmds, actor) /\ undiscard_blks = LenOf(cmds)
    BY DEF DiscardInv, StateOK
  <2>2. \A c, d \in cmds : c # d => Covers(c) \cap Covers(d) = {}
    BY <2>1 DEF CmdsOK, Apart
  <2>3. ASSUME NEW c \in cmds
        PROVE  /\ c.len > 0 /\ c.ref = Cardinality(Waiters(actor, c.lstart))
               /\ c.state = "PREP" => c.list = "pend"
    <3>1. c \in CmdType
      BY <2>1 DEF CmdsOK
    <3>2. c.len > 0
      BY <3>1 DEF CmdType
    <3>. QED
      BY <2>1, <3>2 DEF CmdsOK, Waits
  <2>4. \A a \in Actors : actor[a].pc = "waitone" => \E c \in cmds : c.lstart = actor[a].dc /\ c.state # "PREP"
    BY <2>1 DEF Waits
  <2>5. sit.discard_blks = Cardinality(DBlocks \ sit.dmap)
    BY <2>1 DEF SitOK
  <2>. QED
    BY <2>1, <2>2, <2>3, <2>4, <2>5 DEF CommandsSound, Waiters
<1>. QED
  BY <1>1, DiscardInductive, PTL
=============================================================================
