--------------------------- MODULE RecoveryProofs ---------------------------
(***************************************************************************)
(* The two checkpoint packs of Recovery: whatever a power cut leaves of    *)
(* the pack that is being written, the next mount finds the newest one     *)
(* that was completed.  For every number of files and addresses, every     *)
(* program of system calls and any number of power cuts.                   *)
(***************************************************************************)
EXTENDS Recovery, SequenceTheorems, WellFoundedInduction, NaturalsInduction, TLAPS

----------------------------------------------------------------------------
(* What every operation leaves alone                                       *)

(* A mounted file system has a version, a pack and a state.                *)
Full(m) == {"ver", "pack", "state"} \subseteq DOMAIN m

(* It is of the same version and in the same pack, and as mounted.         *)
Same(m, n) == Full(n) /\ n.ver = m.ver /\ n.pack = m.pack /\ n.state = m.state

(* Operations on the in-memory state, one lemma for each.                  *)
LEMMA UpdateInode == ASSUME NEW m, Full(m), NEW i PROVE Same(m, update_inode(m, i))
BY DEF Full, Same, update_inode

(* The inodes that a checkpoint writes back.                               *)
LEMMA SyncMeta == ASSUME NEW m, Full(m) PROVE Same(m, f2fs_sync_inode_meta(m))
BY DEF Full, Same, f2fs_sync_inode_meta

(* A file without links goes.                                              *)
LEMMA EvictedSame == ASSUME NEW m, Full(m), NEW i PROVE Same(m, Evicted(m, i))
BY DEF Full, Same, Evicted

(* A link goes.                                                            *)
LEMMA DropSame == ASSUME NEW m, Full(m), NEW i PROVE Same(m, DropLink(m, i))
<1>1. CASE m.ino[i].core.nlink = 1
  BY <1>1, EvictedSame DEF DropLink
<1>2. CASE m.ino[i].core.nlink # 1
  BY <1>2 DEF DropLink, Full, Same
<1>. QED
  BY <1>1, <1>2

(* A name is added.                                                        *)
LEMMA AddLinkSame == ASSUME NEW m, Full(m), NEW i, NEW e PROVE Same(m, f2fs_do_add_link(m, i, e))
BY DEF Full, Same, f2fs_do_add_link

(* A name is found for an inode.                                           *)
LEMMA FixPinoSame == ASSUME NEW m, Full(m), NEW i PROVE Same(m, try_to_fix_pino(m, i))
BY DEF Full, Same, try_to_fix_pino

(* A page is written.                                                      *)
LEMMA WrittenSame == ASSUME NEW m, Full(m), NEW i, NEW s PROVE Same(m, Written(m, i, s))
BY DEF Full, Same, Written

(* Recovery of an inode that the checkpoint does not have.                 *)
LEMMA InodePageSame == ASSUME NEW m, Full(m), NEW b PROVE Same(m, recover_inode_page(m, b))
BY DEF Full, Same, recover_inode_page

(* Recovery of what the inode block says.                                  *)
LEMMA InodeSame == ASSUME NEW m, Full(m), NEW b PROVE Same(m, recover_inode(m, b))
BY DEF Full, Same, recover_inode

(* One after the other.                                                    *)
LEMMA SameTwice == ASSUME NEW m, NEW n, NEW o, Same(m, n), Same(n, o) PROVE Same(m, o)
BY DEF Same

(* Recovery of a name.                                                     *)
LEMMA DentrySame == ASSUME NEW m, Full(m), NEW b PROVE Same(m, recover_dentry(m, b))
<1>. DEFINE e == <<b.core.pino, b.name>>
            j == m.dent[e]
            n == [m EXCEPT !.dent[e] = 0, !.trans = @ \cup {e[1]}]
            rid == IF j = 0 THEN m ELSE DropLink(n, j)
<1>1. recover_dentry(m, b) = IF j = b.ino THEN m ELSE f2fs_do_add_link(rid, b.ino, e)
  BY DEF recover_dentry
<1>2. Same(m, n) /\ Same(m, m)
  BY DEF Full, Same
<1>. HIDE DEF n, e
<1>3. Full(n)
  BY <1>2 DEF Same
<1>4. Same(m, DropLink(n, j))
  BY <1>2, <1>3, DropSame, SameTwice
<1>5. Same(m, rid) /\ Full(rid)
  BY <1>2, <1>4 DEF Same
<1>. HIDE DEF rid, j
<1>6. Same(m, f2fs_do_add_link(rid, b.ino, e))
  BY <1>5, AddLinkSame, SameTwice
<1>. QED
  BY <1>1, <1>2, <1>6

(* Whoever has the block loses it.                                         *)
LEMMA PrevNodesSame == ASSUME NEW m, Full(m), NEW a PROVE Same(m, check_index_in_prev_nodes(m, a))
BY DEF Full, Same, check_index_in_prev_nodes

(* Recovery of a node.                                                     *)
LEMMA RecoverDataSame == ASSUME NEW m, Full(m), NEW b PROVE Same(m, do_recover_data(m, b))
<1>. DEFINE i == b.ino
            s == SlotOf(b.kind)
            u == IF b.kind = "inode" THEN update_inode(m, i) ELSE m
            freed == IF b.addr \in Addrs THEN check_index_in_prev_nodes(u, b.addr) ELSE u
            grown == [freed EXCEPT !.ino[i] = Dirtied([@ EXCEPT !.core.size = s + 1], TRUE)]
            sized == IF b.addr # Unmapped /\ freed.ino[i].core.size <= s THEN grown ELSE freed
            moved == [sized EXCEPT !.node[i].addr[s] = b.addr]
            r == IF b.addr = u.node[i].addr[s] THEN u ELSE moved
            made == b.kind = "dnode" /\ u.node[i].addr[1] = Unmapped
            z == [r EXCEPT !.dirty = @ \cup {<<i, b.kind>>},
                           !.nat[i] = IF made THEN set_node_addr(@, "dnode", TRUE, FALSE) ELSE @]
<1>1. do_recover_data(m, b) = z
  BY DEF do_recover_data
<1>. HIDE DEF i, s
<1>2. Same(m, m) /\ Same(m, update_inode(m, i))
  BY UpdateInode DEF Same
<1>3. Same(m, u) /\ Full(u)
  BY <1>2 DEF Same
<1>. HIDE DEF u
<1>4. Same(m, check_index_in_prev_nodes(u, b.addr))
  BY <1>3, PrevNodesSame, SameTwice
<1>5. Same(m, freed) /\ Full(freed)
  BY <1>3, <1>4 DEF Same
<1>. HIDE DEF freed
<1>6. Same(m, grown)
  BY <1>5 DEF Same, Full
<1>. HIDE DEF grown
<1>7. Same(m, sized) /\ Full(sized)
  BY <1>5, <1>6 DEF Same
<1>. HIDE DEF sized
<1>8. Same(m, moved)
  BY <1>7 DEF Same, Full
<1>. HIDE DEF moved
<1>9. Same(m, r) /\ Full(r)
  BY <1>3, <1>8 DEF Same
<1>. HIDE DEF r
<1>10. Same(m, z)
  BY <1>9 DEF Same, Full
<1>. QED
  BY <1>1, <1>10

(* What the pages hold after a mount.                                      *)
LEMMA ContentsSame == ASSUME NEW m, Full(m) PROVE Same(m, Contents(m))
BY DEF Full, Same, Contents

----------------------------------------------------------------------------
(* Roll-forward recovery                                                   *)

(* A nonempty set of numbers has a least one.                              *)
LEMMA LeastNumber ==
    ASSUME NEW S \in SUBSET Nat, S # {}
    PROVE  \E x \in S : \A y \in S : x <= y
<1>. DEFINE R == {ss \in Nat \X Nat : ss[1] < ss[2]}
<1>1. IsWellFoundedOn(R, Nat)
  BY NatLessThanWellFounded, Zenon DEF OpToRel
<1>. HIDE DEF R
<1>2. PICK x \in S : \A y \in S : ~(<<y, x>> \in R)
  BY <1>1, WFMin, Zenon
<1>3. ASSUME NEW y \in S PROVE x <= y
  <2>1. y < x => <<y, x>> \in R
    BY DEF R
  <2>. QED
    BY <1>2, <2>1
<1>. QED
  BY <1>3

(* So a set of numbers with 0 and with every successor has all of them.    *)
LEMMA Induction ==
    ASSUME NEW S, 0 \in S, \A n \in Nat : n \in S => n + 1 \in S
    PROVE  Nat \subseteq S
<1>. SUFFICES ASSUME Nat \ S # {} PROVE FALSE
  OBVIOUS
<1>1. PICK x \in Nat \ S : \A y \in Nat \ S : x <= y
  BY LeastNumber
<1>2. x # 0 /\ x - 1 \in Nat
  BY <1>1
<1>3. x - 1 \in S
  BY <1>1, <1>2
<1>. QED
  BY <1>1, <1>2, <1>3

(* The log is a sequence, so the chain that recovery follows has an end.   *)
LEMMA ChainIs ==
    ASSUME NEW T, dsk.log \in Seq(T)
    PROVE  Len(Chain) \in Nat
<1>. DEFINE N == Len(dsk.log)
            S == {n \in Nat : n = N \/ (n < N /\ dsk.log[n + 1].cur.ino = 0)}
            Last(n) == /\ \A p \in 1 .. n : dsk.log[p].cur.ino # 0
                       /\ n < N => dsk.log[n + 1].cur.ino = 0
            last == CHOOSE n \in 0 .. N : Last(n)
<1>1. N \in Nat
  OBVIOUS
<1>2. PICK n \in S : \A o \in S : n <= o
  <2>1. N \in S /\ S \in SUBSET Nat
    BY <1>1
  <2>. HIDE DEF S
  <2>. QED
    BY <2>1, LeastNumber
<1>3. n \in 0 .. N /\ (n < N => dsk.log[n + 1].cur.ino = 0)
  BY <1>1, <1>2
<1>4. ASSUME NEW p \in 1 .. n PROVE dsk.log[p].cur.ino # 0
  <2>1. p - 1 \in Nat /\ p - 1 < n /\ p - 1 < N /\ (p - 1) + 1 = p
    BY <1>1, <1>3
  <2>2. p - 1 \notin S
    BY <1>2, <2>1
  <2>. QED
    BY <2>1, <2>2
<1>. HIDE DEF S, N
<1>5. last \in 0 .. N
  <2>1. Last(n)
    BY <1>3, <1>4
  <2>. HIDE DEF Last
  <2>. QED
    BY <1>3, <2>1
<1>6. Chain = [p \in 1 .. last |-> dsk.log[p].cur]
  BY DEF Chain, N
<1>7. last \in Nat
  BY <1>1, <1>5
<1>. HIDE DEF last
<1>8. \A p \in 1 .. last : dsk.log[p].cur \in {dsk.log[q].cur : q \in 1 .. last}
  OBVIOUS
<1>. DEFINE V == {dsk.log[q].cur : q \in 1 .. last}
<1>. HIDE DEF V
<1>9. Chain \in [1 .. last -> V]
  BY <1>6, <1>8 DEF V
<1>10. Chain \in Seq(V)
  BY <1>7, <1>9, SeqDef
<1>. QED
  BY <1>10

(* The steps of the two passes.                                            *)
LEMMA FindSame ==
    ASSUME NEW m, NEW r, Same(m, r.m), {"m", "err", "list"} \subseteq DOMAIN r, NEW b, NEW p
    PROVE  LET q == FindDnode(r, b, p) IN Same(m, q.m) /\ {"m", "err", "list"} \subseteq DOMAIN q
<1>. DEFINE listed == r.list[b.ino].blkaddr # 0
            create == ~listed /\ b.dent
            n == IF create THEN recover_inode_page(r.m, b) ELSE r.m
            q == FindDnode(r, b, p)
<1>1. Full(r.m)
  BY DEF Same
<1>2. Same(m, recover_inode_page(r.m, b))
  BY <1>1, InodePageSame, SameTwice
<1>3. Same(m, n)
  BY <1>2
<1>4. \/ q = r \/ q = [r EXCEPT !.err = TRUE]
      \/ q = [r EXCEPT !.m = n, !.list[b.ino].blkaddr = p,
                       !.list[b.ino].last_dentry = IF b.dent THEN p ELSE @]
  BY DEF FindDnode
<1>. HIDE DEF n, q
<1>5. q.m \in {r.m, n} /\ {"m", "err", "list"} \subseteq DOMAIN q
  <2>1. CASE q = r
    BY <2>1
  <2>2. CASE q = [r EXCEPT !.err = TRUE]
    BY <2>2
  <2>3. CASE q = [r EXCEPT !.m = n, !.list[b.ino].blkaddr = p,
                           !.list[b.ino].last_dentry = IF b.dent THEN p ELSE @]
    BY <2>3
  <2>. QED
    BY <1>4, <2>1, <2>2, <2>3
<1>. QED
  BY <1>3, <1>5 DEF q

(* The second pass.                                                        *)
LEMMA RecoverSame ==
    ASSUME NEW m, NEW r, Same(m, r.m), {"m", "err"} \subseteq DOMAIN r, NEW en, NEW b, NEW p
    PROVE  LET q == RecoverDnode(en, r, b, p) IN Same(m, q.m) /\ {"m", "err"} \subseteq DOMAIN q
<1>. DEFINE dentry == en.last_dentry = p
            m1 == IF b.kind = "inode" THEN recover_inode(r.m, b) ELSE r.m
            m2 == IF dentry THEN recover_dentry(m1, b) ELSE m1
            n == do_recover_data(m2, b)
            q == RecoverDnode(en, r, b, p)
<1>1. q = r \/ q = [r EXCEPT !.err = TRUE] \/ q = [r EXCEPT !.m = n]
  BY DEF RecoverDnode
<1>2. Full(r.m)
  BY DEF Same
<1>3. Same(m, recover_inode(r.m, b))
  BY <1>2, InodeSame, SameTwice
<1>4. Same(m, m1) /\ Full(m1)
  BY <1>3 DEF Same
<1>. HIDE DEF m1
<1>5. Same(m, recover_dentry(m1, b))
  BY <1>4, DentrySame, SameTwice
<1>6. Same(m, m2) /\ Full(m2)
  BY <1>4, <1>5 DEF Same
<1>. HIDE DEF m2
<1>7. Same(m, n)
  BY <1>6, RecoverDataSame, SameTwice
<1>. HIDE DEF n, q
<1>8. q.m \in {r.m, n} /\ {"m", "err"} \subseteq DOMAIN q
  BY <1>1
<1>. QED
  BY <1>7, <1>8 DEF q

(* The recursive functions of the two passes.                              *)
NoneListed == [i \in SyncInos |-> [blkaddr |-> 0, last_dentry |-> 0]]
IsFound(m, chain, n, f) ==
    f = [p \in 0 .. n |-> IF p = 0 THEN [m |-> m, err |-> FALSE, list |-> NoneListed]
                          ELSE FindDnode(f[p - 1], chain[p], p)]
IsRecovered(found, chain, n, f) ==
    f = [p \in 0 .. n |-> IF p = 0 THEN [m |-> found.m, err |-> found.err]
                          ELSE RecoverDnode(found.list[chain[p].ino], f[p - 1], chain[p], p)]

(* What the first pass has found is of the version that was loaded.        *)
FoundOK(m, r) == Same(m, r.m) /\ {"m", "err", "list"} \subseteq DOMAIN r
RecoveredOK(m, r) == Same(m, r.m) /\ {"m", "err"} \subseteq DOMAIN r

(* The first pass is well defined, along a chain of any length.            *)
LEMMA FoundExists ==
    ASSUME NEW m, Full(m), NEW chain, NEW N \in Nat
    PROVE  \E f : IsFound(m, chain, N, f)
<1>. DEFINE T == {n \in Nat : \E f : IsFound(m, chain, n, f)}
            Z == [m |-> m, err |-> FALSE, list |-> NoneListed]
<1>1. 0 \in T
  <2>. DEFINE f == [p \in 0 .. 0 |-> Z]
  <2>1. IsFound(m, chain, 0, f)
    BY DEF IsFound
  <2>. QED
    BY <2>1
<1>2. ASSUME NEW n \in Nat, n \in T PROVE n + 1 \in T
  <2>1. PICK f : IsFound(m, chain, n, f)
    BY <1>2
  <2>. HIDE DEF Z
  <2>. DEFINE g == [p \in 0 .. n + 1 |-> IF p = n + 1 THEN FindDnode(f[n], chain[n + 1], n + 1) ELSE f[p]]
              h == [p \in 0 .. n + 1 |-> IF p = 0 THEN Z ELSE FindDnode(g[p - 1], chain[p], p)]
  <2>2. \A p \in 0 .. n : f[p] = IF p = 0 THEN Z ELSE FindDnode(f[p - 1], chain[p], p)
    BY <2>1 DEF IsFound, Z
  <2>3. \A p \in 0 .. n + 1 : g[p] = h[p]
    BY <2>2
  <2>4. g = h
    BY <2>3
  <2>5. IsFound(m, chain, n + 1, g)
    BY <2>4 DEF IsFound, Z
  <2>. QED
    BY <2>5
<1>. HIDE DEF T
<1>3. Nat \subseteq T
  BY <1>1, <1>2, Induction
<1>. QED
  BY <1>3 DEF T

(* And so is the second.                                                   *)
LEMMA RecoveredExists ==
    ASSUME NEW found, NEW chain, NEW N \in Nat
    PROVE  \E f : IsRecovered(found, chain, N, f)
<1>. DEFINE T == {n \in Nat : \E f : IsRecovered(found, chain, n, f)}
            Z == [m |-> found.m, err |-> found.err]
            G(r, p) == RecoverDnode(found.list[chain[p].ino], r, chain[p], p)
<1>1. 0 \in T
  <2>. DEFINE f == [p \in 0 .. 0 |-> Z]
  <2>1. IsRecovered(found, chain, 0, f)
    BY DEF IsRecovered
  <2>. QED
    BY <2>1
<1>2. ASSUME NEW n \in Nat, n \in T PROVE n + 1 \in T
  <2>1. PICK f : IsRecovered(found, chain, n, f)
    BY <1>2
  <2>. HIDE DEF Z, G
  <2>. DEFINE g == [p \in 0 .. n + 1 |-> IF p = n + 1 THEN G(f[n], n + 1) ELSE f[p]]
              h == [p \in 0 .. n + 1 |-> IF p = 0 THEN Z ELSE G(g[p - 1], p)]
  <2>2. \A p \in 0 .. n : f[p] = IF p = 0 THEN Z ELSE G(f[p - 1], p)
    BY <2>1 DEF IsRecovered, Z, G
  <2>3. \A p \in 0 .. n + 1 : g[p] = h[p]
    BY <2>2
  <2>4. g = h
    BY <2>3
  <2>5. IsRecovered(found, chain, n + 1, g)
    BY <2>4 DEF IsRecovered, Z, G
  <2>. QED
    BY <2>5
<1>. HIDE DEF T
<1>3. Nat \subseteq T
  BY <1>1, <1>2, Induction
<1>. QED
  BY <1>3 DEF T

(* The first pass leaves version and pack alone.                           *)
LEMMA FindIs ==
    ASSUME NEW m, Full(m), NEW chain, Len(chain) \in Nat
    PROVE  FoundOK(m, find_fsync_dnodes(m, chain))
<1>. DEFINE N == Len(chain)
            f == CHOOSE f : IsFound(m, chain, N, f)
            D == {p \in Nat : p <= N => FoundOK(m, f[p])}
            Z == [m |-> m, err |-> FALSE, list |-> NoneListed]
<1>1. IsFound(m, chain, N, f)
  BY FoundExists
<1>2. find_fsync_dnodes(m, chain) = f[N]
  BY DEF find_fsync_dnodes, IsFound, NoneListed
<1>. HIDE DEF f, N, Z
<1>3. N \in Nat
  BY DEF N
<1>4. \A p \in 0 .. N : f[p] = IF p = 0 THEN Z ELSE FindDnode(f[p - 1], chain[p], p)
  BY <1>1 DEF IsFound, Z
<1>5. 0 \in D
  <2>1. f[0] = Z
    BY <1>3, <1>4
  <2>2. Same(m, m)
    BY DEF Same
  <2>3. FoundOK(m, Z)
    BY <2>2 DEF FoundOK, Z
  <2>. QED
    BY <2>1, <2>3
<1>6. ASSUME NEW p \in Nat, p \in D PROVE p + 1 \in D
  <2>. SUFFICES ASSUME p + 1 <= N PROVE FoundOK(m, f[p + 1])
    OBVIOUS
  <2>1. FoundOK(m, f[p])
    BY <1>3, <1>6
  <2>2. f[p + 1] = FindDnode(f[p], chain[p + 1], p + 1)
    BY <1>3, <1>4
  <2>. QED
    BY <2>1, <2>2, FindSame DEF FoundOK
<1>. HIDE DEF D
<1>7. Nat \subseteq D
  BY <1>5, <1>6, Induction
<1>8. FoundOK(m, f[N])
  BY <1>3, <1>7 DEF D
<1>. QED
  BY <1>2, <1>8

(* And so does the second.                                                 *)
LEMMA RecoverIs ==
    ASSUME NEW m, NEW found, FoundOK(m, found), NEW chain, Len(chain) \in Nat
    PROVE  RecoveredOK(m, recover_data(found, chain))
<1>. DEFINE N == Len(chain)
            f == CHOOSE f : IsRecovered(found, chain, N, f)
            D == {p \in Nat : p <= N => RecoveredOK(m, f[p])}
<1>1. IsRecovered(found, chain, N, f)
  BY RecoveredExists
<1>2. recover_data(found, chain) = f[N]
  BY DEF recover_data, IsRecovered
<1>. HIDE DEF f, N
<1>3. N \in Nat
  BY DEF N
<1>4. \A p \in 0 .. N : f[p] = IF p = 0 THEN [m |-> found.m, err |-> found.err]
                               ELSE RecoverDnode(found.list[chain[p].ino], f[p - 1], chain[p], p)
  BY <1>1 DEF IsRecovered
<1>5. 0 \in D
  <2>1. f[0] = [m |-> found.m, err |-> found.err]
    BY <1>3, <1>4
  <2>. QED
    BY <2>1 DEF FoundOK, RecoveredOK
<1>6. ASSUME NEW p \in Nat, p \in D PROVE p + 1 \in D
  <2>. SUFFICES ASSUME p + 1 <= N PROVE RecoveredOK(m, f[p + 1])
    OBVIOUS
  <2>1. RecoveredOK(m, f[p])
    BY <1>3, <1>6
  <2>. DEFINE en == found.list[chain[p + 1].ino]  b == chain[p + 1]  k == p + 1
  <2>2. f[p + 1] = RecoverDnode(en, f[p], b, k)
    BY <1>3, <1>4
  <2>. HIDE DEF en, b, k
  <2>. QED
    BY <2>1, <2>2, RecoverSame DEF RecoveredOK
<1>. HIDE DEF D
<1>7. Nat \subseteq D
  BY <1>5, <1>6, Induction
<1>8. RecoveredOK(m, f[N])
  BY <1>3, <1>7 DEF D
<1>. QED
  BY <1>2, <1>8

----------------------------------------------------------------------------
(* The invariant                                                           *)

IsSeq(l) == \E T : l \in Seq(T)

(* The disk has its parts, and two packs with versions.                    *)
PacksOK(packs) ==
    /\ DOMAIN packs = 1 .. 2
    /\ \A n \in 1 .. 2 : /\ {"head", "tail", "image"} \subseteq DOMAIN packs[n]
                         /\ packs[n].head \in Nat /\ packs[n].tail \in Nat
DiskOK(d) == {"blk", "log", "packs"} \subseteq DOMAIN d /\ PacksOK(d.packs) /\ IsSeq(d.log)

(* Pack p is complete and at least of version v, and whatever became of    *)
(* the other one, its end is older.                                        *)
Newest(packs, p, v) ==
    /\ packs[p].head = packs[p].tail /\ packs[p].head >= v
    /\ packs[3 - p].tail < packs[p].head

(* A mounted file system works from the newest pack and writes the other.  *)
Working(d, m, c, v) ==
    /\ Full(m) /\ m.pack \in 1 .. 2 /\ Newest(d.packs, m.pack, v)
    /\ m.ver = IF c = "pack" THEN d.packs[m.pack].head + 1 ELSE d.packs[m.pack].head

RecInv ==
    /\ DiskOK(dsk) /\ done \in Nat
    /\ mem.state = "down" => cp = "idle" /\ \E p \in 1 .. 2 : Newest(dsk.packs, p, done)
    /\ mem.state # "down" => Working(dsk, mem, cp, done)

(* A function on the first numbers is a sequence.                          *)
LEMMA FunIsSeq ==
    ASSUME NEW n \in Nat, NEW g, g = [q \in 1 .. n |-> g[q]]
    PROVE  IsSeq(g)
<1>. DEFINE T == {g[q] : q \in 1 .. n}
<1>1. g \in [1 .. n -> T]
  OBVIOUS
<1>. HIDE DEF T
<1>2. g \in Seq(T)
  BY <1>1, SeqDef
<1>. QED
  BY <1>2 DEF IsSeq

(* Its length and domain.                                                  *)
LEMMA SeqFacts ==
    ASSUME NEW l, IsSeq(l)
    PROVE  Len(l) \in Nat /\ DOMAIN l = 1 .. Len(l) /\ l = [q \in 1 .. Len(l) |-> l[q]]
<1>1. PICK T : l \in Seq(T)
  BY DEF IsSeq
<1>. QED
  BY <1>1

(* A block is added to the log, or written in place of an older one.       *)
LEMMA LoggedSeq ==
    ASSUME NEW l, IsSeq(l), NEW p, NEW b
    PROVE  IsSeq(Logged(l, p, b))
<1>1. Len(l) \in Nat /\ DOMAIN l = 1 .. Len(l)
  BY SeqFacts
<1>2. CASE p <= Len(l)
  <2>. DEFINE g == [l EXCEPT ![p].cur = b]
  <2>1. g = [q \in 1 .. Len(l) |-> g[q]]
    BY <1>1
  <2>. HIDE DEF g
  <2>2. IsSeq(g)
    BY <1>1, <2>1, FunIsSeq
  <2>. QED
    BY <1>2, <2>2 DEF Logged, g
<1>3. CASE ~(p <= Len(l))
  <2>. DEFINE x == [cur |-> b, safe |-> NoBlock]
  <2>1. PICK T : l \in Seq(T)
    BY DEF IsSeq
  <2>2. l \in Seq(T \cup {x}) /\ x \in T \cup {x}
    BY <2>1
  <2>. HIDE DEF x
  <2>3. Append(l, x) \in Seq(T \cup {x})
    BY <2>2
  <2>. QED
    BY <1>3, <2>3 DEF Logged, IsSeq, x
<1>. QED
  BY <1>2, <1>3

(* Every block of the log is treated alike.                                *)
LEMMA MappedSeq ==
    ASSUME NEW l, IsSeq(l), NEW g, DOMAIN g = DOMAIN l, g = [q \in DOMAIN g |-> g[q]]
    PROVE  IsSeq(g)
<1>1. Len(l) \in Nat /\ DOMAIN l = 1 .. Len(l)
  BY SeqFacts
<1>. QED
  BY <1>1, FunIsSeq

(* It holds after mkfs.                                                    *)
LEMMA InitHolds == ASSUME RecInit PROVE RecInv
<1>1. /\ dsk = [blk |-> [a \in Addrs |-> [cur |-> Garbage, safe |-> Garbage]], log |-> <<>>,
                packs |-> [n \in 1 .. 2 |-> [head |-> n, tail |-> n, image |-> EmptyImage]]]
      /\ mem = [Loaded(2) EXCEPT !.state = "up"] /\ cp = "idle" /\ done = 2
  BY DEF RecInit
<1>2. /\ dsk.log = <<>> /\ dsk.packs = [n \in 1 .. 2 |-> [head |-> n, tail |-> n, image |-> EmptyImage]]
      /\ {"blk", "log", "packs"} \subseteq DOMAIN dsk
  BY <1>1
<1>3. \A n \in 1 .. 2 : dsk.packs[n] = [head |-> n, tail |-> n, image |-> EmptyImage]
  BY <1>2
<1>4. \A n \in 1 .. 2 : dsk.packs[n].head = n /\ dsk.packs[n].tail = n
  BY <1>3
<1>5. PacksOK(dsk.packs)
  BY <1>2, <1>3, <1>4 DEF PacksOK
<1>6. IsSeq(dsk.log)
  <2>1. <<>> \in Seq({})
    OBVIOUS
  <2>. QED
    BY <1>2, <2>1 DEF IsSeq
<1>7. Newest(dsk.packs, 2, 2)
  BY <1>4 DEF Newest
<1>8. /\ Loaded(2).ver = dsk.packs[2].head /\ Loaded(2).pack = 2
      /\ {"ver", "pack", "state"} \subseteq DOMAIN Loaded(2)
  BY DEF Loaded
<1>9. mem.ver = dsk.packs[2].head /\ mem.pack = 2 /\ Full(mem) /\ mem.state = "up"
  BY <1>1, <1>8 DEF Full
<1>10. Working(dsk, mem, cp, done)
  BY <1>1, <1>7, <1>9 DEF Working
<1>. QED
  BY <1>1, <1>2, <1>5, <1>6, <1>9, <1>10 DEF RecInv, DiskOK

(* A step that touches neither packs nor version.                          *)
DiskStep(d, e) == {"blk", "log", "packs"} \subseteq DOMAIN e /\ e.packs = d.packs /\ IsSeq(e.log)

(* Such a step keeps the invariant.                                        *)
LEMMA Ordinary ==
    ASSUME RecInv, mem.state # "down", Same(mem, mem'), dsk' = dsk \/ DiskStep(dsk, dsk'),
           done' = done, cp' = "pack" <=> cp = "pack"
    PROVE  RecInv'
<1>1. DiskOK(dsk) /\ done \in Nat /\ Working(dsk, mem, cp, done)
  BY DEF RecInv
<1>2. DiskOK(dsk') /\ dsk'.packs = dsk.packs
  BY <1>1 DEF DiskOK, DiskStep
<1>3. mem'.state # "down" /\ Full(mem') /\ mem'.ver = mem.ver /\ mem'.pack = mem.pack
  BY DEF Same
<1>4. Working(dsk', mem', cp', done')
  BY <1>1, <1>2, <1>3 DEF Working
<1>. QED
  BY <1>1, <1>2, <1>3, <1>4 DEF RecInv

----------------------------------------------------------------------------
(* One lemma per step                                                      *)

(* What a mounted file system has.                                         *)
LEMMA Mounted ==
    ASSUME RecInv, mem.state # "down"
    PROVE  Full(mem) /\ DiskOK(dsk) /\ IsSeq(dsk.log) /\ {"blk", "log", "packs"} \subseteq DOMAIN dsk
BY DEF RecInv, Working, DiskOK

(* The system calls change neither version nor pack.                       *)
LEMMA CallSame ==
    ASSUME Full(mem), SystemCall
    PROVE  Same(mem, mem') /\ dsk' = dsk /\ mem.state = "up"
<1>1. CASE f2fs_mkdir
  BY <1>1 DEF f2fs_mkdir, Call, Full, Same
<1>2. CASE \E e \in Dentries : UnlinkEntry(e)
  <2>1. PICK e : UnlinkEntry(e)
    BY <1>2
  <2>. DEFINE n == [mem EXCEPT !.dent[e] = 0, !.trans = @ \cup {e[1]}]
  <2>2. Same(mem, n)
    BY DEF Full, Same
  <2>3. mem' = DropLink(n, mem.dent[e]) /\ dsk' = dsk /\ mem.state = "up"
    BY <2>1 DEF UnlinkEntry, Call
  <2>. HIDE DEF n
  <2>4. Same(n, DropLink(n, mem.dent[e]))
    BY <2>2, DropSame DEF Same
  <2>. QED
    BY <2>2, <2>3, <2>4, SameTwice
<1>3. CASE \E e \in Dentries, t \in Dentries : RenameEntry(e, t)
  <2>1. PICK e, t : RenameEntry(e, t)
    BY <1>3
  <2>. DEFINE i == mem.dent[e]
              j == mem.dent[t]
              n == [mem EXCEPT !.dent[t] = i]
              m == IF j = 0 THEN f2fs_do_add_link(mem, i, t) ELSE DropLink(n, j)
              o == [m EXCEPT !.ino[i] = Dirtied([@ EXCEPT !.core.lost = TRUE], FALSE),
                             !.dent[e] = 0, !.trans = @ \cup {e[1], t[1]}]
  <2>2. mem' = o /\ dsk' = dsk /\ mem.state = "up"
    BY <2>1 DEF RenameEntry, Call
  <2>3. Same(mem, n)
    BY DEF Full, Same
  <2>. HIDE DEF n, i, j
  <2>4. Same(n, DropLink(n, j))
    BY <2>3, DropSame DEF Same
  <2>5. Same(mem, m)
    BY <2>3, <2>4, SameTwice, AddLinkSame
  <2>. HIDE DEF m
  <2>6. Same(mem, o)
    BY <2>5 DEF Full, Same
  <2>. QED
    BY <2>2, <2>6
<1>4. ASSUME NEW i \in SyncInos, NEW e, f2fs_create(i, e) PROVE Same(mem, mem') /\ dsk' = dsk /\ mem.state = "up"
  BY <1>4 DEF f2fs_create, Call, Full, Same
<1>5. ASSUME NEW i \in SyncInos, NEW e, f2fs_link(i, e) PROVE Same(mem, mem') /\ dsk' = dsk /\ mem.state = "up"
  <2>. DEFINE m == f2fs_do_add_link(mem, i, e)
              o == [m EXCEPT !.ino[i].core.lost = TRUE, !.ino[i].core.nlink = @ + 1]
  <2>1. mem' = o /\ dsk' = dsk /\ mem.state = "up"
    BY <1>5 DEF f2fs_link, Call
  <2>2. Same(mem, m)
    BY AddLinkSame
  <2>. HIDE DEF m
  <2>3. Same(mem, o)
    BY <2>2 DEF Full, Same
  <2>. QED
    BY <2>1, <2>3
<1>6. ASSUME NEW i \in SyncInos, NEW s \in Slots, f2fs_write(i, s) PROVE Same(mem, mem') /\ dsk' = dsk /\ mem.state = "up"
  BY <1>6 DEF f2fs_write, Call, Full, Same
<1>7. ASSUME NEW i \in SyncInos, f2fs_truncate(i) PROVE Same(mem, mem') /\ dsk' = dsk /\ mem.state = "up"
  BY <1>7 DEF f2fs_truncate, Call, Full, Same
<1>8. ASSUME NEW i \in SyncInos, NEW d \in BOOLEAN, f2fs_do_sync_file(i, d)
      PROVE  Same(mem, mem') /\ dsk' = dsk /\ mem.state = "up"
  BY <1>8 DEF f2fs_do_sync_file, Call, Full, Same
<1>. QED
  BY <1>1, <1>2, <1>3, <1>4, <1>5, <1>6, <1>7, <1>8 DEF SystemCall

(* A node page goes to the log.                                            *)
LEMMA NodePageSame ==
    ASSUME Full(mem), IsSeq(dsk.log), {"blk", "log", "packs"} \subseteq DOMAIN dsk,
           NEW i, NEW k, NEW fsync, __write_node_page(i, k, fsync)
    PROVE  Same(mem, mem') /\ DiskStep(dsk, dsk')
<1>. DEFINE m == IF fsync /\ k = "inode" THEN update_inode(mem, i) ELSE mem
            b == NodeBlock(m, i, k, fsync)
            l == Logged(dsk.log, mem.pos + 1, b)
            o == [m EXCEPT !.pos = @ + 1, !.dirty = @ \ {<<i, k>>}, !.nat[i] = set_node_addr(@, k, FALSE, fsync)]
<1>1. dsk' = [dsk EXCEPT !.log = l] /\ mem' = o
  BY DEF __write_node_page
<1>2. Same(mem, mem)
  BY DEF Same
<1>3. Same(mem, m)
  BY <1>2, UpdateInode
<1>. HIDE DEF m, b
<1>4. Same(mem, o)
  BY <1>3 DEF Full, Same
<1>5. IsSeq(l)
  BY LoggedSeq
<1>. HIDE DEF l, o
<1>6. DiskStep(dsk, [dsk EXCEPT !.log = l])
  BY <1>5 DEF DiskStep
<1>. QED
  BY <1>1, <1>4, <1>6

(* What the ordinary steps do to version, pack and disk.                   *)
Quiet == Same(mem, mem') /\ (dsk' = dsk \/ DiskStep(dsk, dsk')) /\ mem.state # "down"

(* The steps of an fsync are such steps.                                   *)
LEMMA SyncQuiet ==
    ASSUME Full(mem), IsSeq(dsk.log), {"blk", "log", "packs"} \subseteq DOMAIN dsk, SyncStep
    PROVE  Quiet
<1>. DEFINE i == proc.ino
<1>0. Same(mem, mem)
  BY DEF Same
<1>1. CASE SyncInode
  <2>1. /\ mem' = mem \/ mem' = update_inode(mem, i)
        /\ dsk' = dsk /\ mem.state = "up"
    BY <1>1 DEF SyncInode, At
  <2>. QED
    BY <1>0, <2>1, UpdateInode DEF Quiet
<1>2. CASE SyncReason
  BY <1>0, <1>2 DEF SyncReason, At, Quiet
<1>3. CASE SyncNodesDone
  <2>. DEFINE n == [mem EXCEPT !.ino[i] = Dirtied(@, TRUE)]
              o == [mem EXCEPT !.append = @ \ {i}, !.ino[i].append = FALSE]
  <2>1. (mem' = update_inode(n, i) \/ mem' = o) /\ dsk' = dsk /\ mem.state = "up"
    BY <1>3 DEF SyncNodesDone, At
  <2>2. Same(mem, n) /\ Same(mem, o)
    BY DEF Full, Same
  <2>. HIDE DEF n, o
  <2>3. Same(mem, update_inode(n, i))
    <3>1. Full(n)
      BY <2>2 DEF Same
    <3>. QED
      BY <2>2, <3>1, UpdateInode, SameTwice
  <2>. QED
    BY <2>1, <2>2, <2>3 DEF Quiet
<1>4. CASE SyncFlush
  <2>. DEFINE o == [mem EXCEPT !.update = @ \ {i}, !.ino[i].update = FALSE]
              blks == [a \in Addrs |-> Settled(dsk.blk[a])]
              l(lag) == [p \in DOMAIN dsk.log |-> IF p \in lag THEN dsk.log[p] ELSE Settled(dsk.log[p])]
  <2>1. mem' = o /\ mem.state = "up"
    BY <1>4 DEF SyncFlush, At
  <2>2. Same(mem, o)
    BY DEF Full, Same
  <2>3. PICK lag : dsk' = [dsk EXCEPT !.blk = blks, !.log = l(lag)]
    BY <1>4 DEF SyncFlush
  <2>4. IsSeq(l(lag))
    <3>. DEFINE g == l(lag)
    <3>1. DOMAIN g = DOMAIN dsk.log /\ g = [q \in DOMAIN g |-> g[q]]
      OBVIOUS
    <3>. HIDE DEF g
    <3>2. IsSeq(g)
      BY <3>1, MappedSeq
    <3>. QED
      BY <3>2 DEF g
  <2>. HIDE DEF o, blks, l
  <2>5. DiskStep(dsk, dsk')
    BY <2>3, <2>4 DEF DiskStep
  <2>. QED
    BY <2>1, <2>2, <2>5 DEF Quiet
<1>5. CASE SyncCheckpointed
  <2>. DEFINE m == try_to_fix_pino(mem, i)
              o == [m EXCEPT !.ino[i].append = FALSE, !.ino[i].update = FALSE]
  <2>1. mem' = o /\ dsk' = dsk /\ mem.state = "up"
    BY <1>5 DEF SyncCheckpointed, At
  <2>2. Same(mem, m)
    BY FixPinoSame
  <2>. HIDE DEF m
  <2>3. Same(mem, o)
    BY <2>2 DEF Full, Same
  <2>. QED
    BY <2>1, <2>3 DEF Quiet
<1>6. ASSUME NEW k, fsync_node_pages(k) PROVE Quiet
  <2>1. mem.state = "up"
    BY <1>6 DEF fsync_node_pages, At
  <2>2. __write_node_page(i, k, TRUE) \/ (dsk' = dsk /\ mem' = mem)
    BY <1>6 DEF fsync_node_pages
  <2>. HIDE DEF i
  <2>. QED
    BY <1>0, <2>1, <2>2, NodePageSame DEF Quiet
<1>. QED
  BY <1>1, <1>2, <1>3, <1>4, <1>5, <1>6 DEF SyncStep

(* And so are those of the flusher.                                        *)
LEMMA FlusherQuiet ==
    ASSUME Full(mem), IsSeq(dsk.log), {"blk", "log", "packs"} \subseteq DOMAIN dsk, Flusher
    PROVE  Quiet
<1>1. ASSUME NEW i, NEW s, rewrite_data_page(i, s) PROVE Quiet
  <2>. DEFINE a == mem.node[i].addr[s]
              v == mem.page[i][s].val
              w == Written(mem, i, s)
  <2>1. /\ dsk' = [dsk EXCEPT !.blk[a].cur = v] /\ mem.state = "up"
        /\ mem' = [w EXCEPT !.ino[i].update = TRUE]
    BY <1>1 DEF rewrite_data_page
  <2>2. Same(mem, w)
    BY WrittenSame
  <2>. HIDE DEF a, v, w
  <2>3. Same(mem, mem')
    BY <2>1, <2>2 DEF Full, Same
  <2>4. DiskStep(dsk, dsk')
    BY <2>1 DEF DiskStep
  <2>. QED
    BY <2>1, <2>3, <2>4 DEF Quiet
<1>2. ASSUME NEW i, NEW s, write_data_page(i, s) PROVE Quiet
  <2>. DEFINE v == mem.page[i][s].val
              w == Written(mem, i, s)
  <2>1. PICK a : /\ dsk' = [dsk EXCEPT !.blk[a].cur = v] /\ mem.state = "up"
                 /\ mem' = [w EXCEPT !.node[i].addr[s] = a, !.ino[i].append = TRUE,
                                     !.dirty = @ \cup {<<i, KindOf(s)>>},
                                     !.nat[i] = IF s = 0 THEN cache_nat_entry(@) ELSE @]
    BY <1>2 DEF write_data_page
  <2>2. Same(mem, w)
    BY WrittenSame
  <2>. HIDE DEF v, w
  <2>3. Same(mem, mem')
    BY <2>1, <2>2 DEF Full, Same
  <2>4. DiskStep(dsk, dsk')
    BY <2>1 DEF DiskStep
  <2>. QED
    BY <2>1, <2>3, <2>4 DEF Quiet
<1>3. ASSUME NEW i, NEW k, sync_node_pages(i, k) PROVE Quiet
  <2>. DEFINE Z == FALSE
  <2>1. mem.state # "down" /\ __write_node_page(i, k, Z)
    BY <1>3 DEF sync_node_pages
  <2>. HIDE DEF Z
  <2>. QED
    BY <2>1, NodePageSame DEF Quiet
<1>4. ASSUME NEW i, f2fs_write_inode(i) PROVE Quiet
  BY <1>4, UpdateInode DEF f2fs_write_inode, Quiet
<1>5. ASSUME NEW i, EvictInode(i) PROVE Quiet
  <2>1. mem.state = "up" /\ dsk' = dsk
    BY <1>5 DEF EvictInode
  <2>2. Same(mem, mem')
    BY <1>5 DEF EvictInode, Full, Same
  <2>. QED
    BY <2>1, <2>2 DEF Quiet
<1>6. ASSUME NEW i, try_to_free_nats(i) PROVE Quiet
  <2>1. mem.state # "down" /\ dsk' = dsk
    BY <1>6 DEF try_to_free_nats
  <2>2. Same(mem, mem')
    BY <1>6 DEF try_to_free_nats, Full, Same
  <2>. QED
    BY <2>1, <2>2 DEF Quiet
<1>7. ASSUME NEW i, get_node_info(i) PROVE Quiet
  <2>1. mem.state = "up" /\ dsk' = dsk
    BY <1>7 DEF get_node_info
  <2>2. Same(mem, mem')
    BY <1>7 DEF get_node_info, Full, Same
  <2>. QED
    BY <2>1, <2>2 DEF Quiet
<1>. QED
  BY <1>1, <1>2, <1>3, <1>4, <1>5, <1>6, <1>7 DEF Flusher

(* Steps of system calls, fsyncs and the flusher keep the invariant.       *)
LEMMA QuietKeeps ==
    ASSUME RecInv, SystemCall \/ SyncStep \/ Flusher, UNCHANGED <<cp, done>>,
           mem.state # "down"
    PROVE  RecInv'
<1>1. Full(mem) /\ IsSeq(dsk.log) /\ {"blk", "log", "packs"} \subseteq DOMAIN dsk
  BY Mounted
<1>2. Quiet
  BY <1>1, CallSame, SyncQuiet, FlusherQuiet DEF Quiet
<1>. QED
  BY <1>2, Ordinary DEF Quiet

(* All of them run on a mounted file system.                               *)
LEMMA StepsMounted ==
    ASSUME SystemCall \/ SyncStep \/ Flusher
    PROVE  mem.state # "down"
<1>1. ASSUME SystemCall PROVE mem.state = "up"
  <2>1. ASSUME NEW e, NEW i, f2fs_mkdir \/ UnlinkEntry(e) \/ f2fs_create(i, e) \/ f2fs_link(i, e) \/ f2fs_truncate(i)
        PROVE  mem.state = "up"
    BY <2>1 DEF Call, f2fs_mkdir, UnlinkEntry, f2fs_create, f2fs_link, f2fs_truncate
  <2>2. ASSUME NEW e, NEW t, RenameEntry(e, t) PROVE mem.state = "up"
    BY <2>2 DEF Call, RenameEntry
  <2>3. ASSUME NEW i, NEW s, f2fs_write(i, s) PROVE mem.state = "up"
    BY <2>3 DEF Call, f2fs_write
  <2>4. ASSUME NEW i, NEW d, f2fs_do_sync_file(i, d) PROVE mem.state = "up"
    BY <2>4 DEF Call, f2fs_do_sync_file
  <2>. QED
    BY <1>1, <2>1, <2>2, <2>3, <2>4 DEF SystemCall
<1>2. ASSUME SyncStep PROVE mem.state = "up"
  BY <1>2 DEF SyncStep, At, SyncInode, SyncReason, SyncNodesDone, SyncFlush, SyncCheckpointed, fsync_node_pages
<1>3. ASSUME Flusher PROVE mem.state # "down"
  <2>1. ASSUME NEW i, NEW s, rewrite_data_page(i, s) \/ write_data_page(i, s) PROVE mem.state = "up"
    BY <2>1 DEF rewrite_data_page, write_data_page
  <2>2. ASSUME NEW i, NEW k, sync_node_pages(i, k) PROVE mem.state # "down"
    BY <2>2 DEF sync_node_pages
  <2>3. ASSUME NEW i, f2fs_write_inode(i) \/ EvictInode(i) \/ try_to_free_nats(i) \/ get_node_info(i)
        PROVE  mem.state # "down"
    BY <2>3 DEF f2fs_write_inode, EvictInode, try_to_free_nats, get_node_info
  <2>. QED
    BY <1>3, <2>1, <2>2, <2>3 DEF Flusher
<1>. QED
  BY <1>1, <1>2, <1>3

(* The checkpoint stops the calls.                                         *)
LEMMA BlockKeeps == ASSUME RecInv, block_operations PROVE RecInv'
<1>1. /\ mem.state # "down" /\ cp = "idle" /\ cp' = "blocked" /\ mem' = f2fs_sync_inode_meta(mem)
      /\ dsk' = dsk /\ done' = done
  BY DEF block_operations
<1>2. Same(mem, mem')
  BY <1>1, Mounted, SyncMeta
<1>. QED
  BY <1>1, <1>2, Ordinary

(* It takes the next version.                                              *)
LEMMA NatKeeps == ASSUME RecInv, flush_nat_entries PROVE RecInv'
<1>1. cp = "blocked" /\ cp' = "pack" /\ dsk' = dsk /\ done' = done
  BY DEF flush_nat_entries
<1>2. mem.state # "down" /\ Working(dsk, mem, cp, done) /\ DiskOK(dsk) /\ done \in Nat
  BY <1>1 DEF RecInv
<1>3. Full(mem') /\ mem'.ver = mem.ver + 1 /\ mem'.pack = mem.pack /\ mem'.state = mem.state
  <2>1. Full(mem)
    BY <1>2 DEF Working
  <2>. QED
    BY <2>1 DEF flush_nat_entries, Full
<1>4. Working(dsk', mem', cp', done')
  BY <1>1, <1>2, <1>3 DEF Working
<1>. QED
  BY <1>1, <1>2, <1>3, <1>4 DEF RecInv

(* The other pack is complete, and newer than the one in use.              *)
LEMMA CommittedNewest ==
    ASSUME DiskOK(dsk), done \in Nat, cp = "pack", Working(dsk, mem, cp, done)
    PROVE  /\ DiskOK(Committed) /\ NextPack \in 1 .. 2 /\ mem.ver \in Nat
           /\ Newest(Committed.packs, NextPack, mem.ver) /\ mem.ver >= done
           /\ Committed.packs[NextPack].head = mem.ver
<1>. DEFINE q == [head |-> mem.ver, tail |-> mem.ver, image |-> mem.image]
            P == Committed.packs
<1>1. /\ Committed.log = <<>> /\ {"blk", "log", "packs"} \subseteq DOMAIN Committed
      /\ P = [dsk.packs EXCEPT ![NextPack] = q]
  BY DEF Committed
<1>. HIDE DEF P
<1>2. mem.pack \in 1 .. 2 /\ NextPack \in 1 .. 2 /\ NextPack # mem.pack /\ 3 - NextPack = mem.pack
  BY DEF Working, NextPack
<1>3. /\ mem.ver = dsk.packs[mem.pack].head + 1 /\ dsk.packs[mem.pack].head \in Nat
      /\ dsk.packs[mem.pack].tail = dsk.packs[mem.pack].head /\ dsk.packs[mem.pack].head >= done
  BY <1>2 DEF Working, Newest, DiskOK, PacksOK
<1>4. P[NextPack] = q /\ P[mem.pack] = dsk.packs[mem.pack] /\ DOMAIN P = 1 .. 2
  BY <1>1, <1>2 DEF DiskOK, PacksOK
<1>5. q.head = mem.ver /\ q.tail = mem.ver /\ {"head", "tail", "image"} \subseteq DOMAIN q
  OBVIOUS
<1>. HIDE DEF q
<1>6. mem.ver \in Nat /\ mem.ver >= done
  BY <1>3
<1>7. PacksOK(P)
  <2>1. \A n \in 1 .. 2 : n = NextPack \/ n = mem.pack
    BY <1>2
  <2>2. \A n \in 1 .. 2 : {"head", "tail", "image"} \subseteq DOMAIN P[n] /\ P[n].head \in Nat /\ P[n].tail \in Nat
    BY <1>2, <1>4, <1>5, <1>6, <2>1 DEF DiskOK, PacksOK
  <2>. QED
    BY <1>4, <2>2 DEF PacksOK
<1>8. IsSeq(<<>>)
  <2>1. <<>> \in Seq({})
    OBVIOUS
  <2>. QED
    BY <2>1 DEF IsSeq
<1>9. DiskOK(Committed)
  BY <1>1, <1>7, <1>8 DEF DiskOK, P
<1>10. Newest(P, NextPack, mem.ver)
  BY <1>2, <1>3, <1>4, <1>5, <1>6 DEF Newest
<1>. QED
  BY <1>2, <1>4, <1>5, <1>6, <1>9, <1>10 DEF P

(* The pack is on the device.                                              *)
LEMMA CheckpointKeeps == ASSUME RecInv, do_checkpoint PROVE RecInv'
<1>1. cp = "pack" /\ cp' = "idle" /\ done' = mem.ver /\ dsk' = Committed
  BY DEF do_checkpoint
<1>2. mem.state # "down" /\ Working(dsk, mem, cp, done) /\ DiskOK(dsk) /\ done \in Nat
  BY <1>1 DEF RecInv
<1>3. Full(mem') /\ mem'.ver = mem.ver /\ mem'.pack = NextPack /\ mem'.state = "up"
  <2>1. Full(mem)
    BY <1>2 DEF Working
  <2>. QED
    BY <2>1 DEF do_checkpoint, Full
<1>4. /\ DiskOK(Committed) /\ NextPack \in 1 .. 2 /\ mem.ver \in Nat
      /\ Newest(Committed.packs, NextPack, mem.ver) /\ Committed.packs[NextPack].head = mem.ver
  BY <1>1, <1>2, CommittedNewest
<1>5. Working(dsk', mem', cp', done')
  BY <1>1, <1>3, <1>4 DEF Working
<1>. QED
  BY <1>1, <1>3, <1>4, <1>5 DEF RecInv

(* What is left of the disk is a disk, with the packs that are left.       *)
LEMMA SurvivedIs ==
    ASSUME DiskOK(dsk), NEW packs, PacksOK(packs), Survived(packs)
    PROVE  DiskOK(dsk') /\ dsk'.packs = packs
<1>1. PICK S, K : dsk' = [blk |-> [a \in Addrs |-> AfterCut(dsk.blk[a], a \in S)],
                          log |-> [p \in DOMAIN dsk.log |-> AfterCut(dsk.log[p], p \in K)],
                          packs |-> packs]
  BY DEF Survived
<1>. DEFINE g == [p \in DOMAIN dsk.log |-> AfterCut(dsk.log[p], p \in K)]
            h == [a \in Addrs |-> AfterCut(dsk.blk[a], a \in S)]
<1>2. DOMAIN g = DOMAIN dsk.log /\ g = [q \in DOMAIN g |-> g[q]]
  OBVIOUS
<1>3. dsk' = [blk |-> h, log |-> g, packs |-> packs]
  BY <1>1
<1>. HIDE DEF g, h
<1>4. IsSeq(g)
  BY <1>2, MappedSeq DEF DiskOK
<1>. QED
  BY <1>3, <1>4 DEF DiskOK

(* A power cut leaves one of the two packs newest and complete.            *)
LEMMA CrashKeeps == ASSUME RecInv, Crash PROVE RecInv'
<1>1. mem.state # "down" /\ mem' = [state |-> "down"] /\ cp' = "idle" /\ done' = done
  BY DEF Crash
<1>2. Working(dsk, mem, cp, done) /\ DiskOK(dsk) /\ done \in Nat /\ mem'.state = "down"
  BY <1>1 DEF RecInv
<1>3. mem.pack \in 1 .. 2 /\ Newest(dsk.packs, mem.pack, done) /\ PacksOK(dsk.packs)
  BY <1>2 DEF Working, DiskOK
<1>4. DiskOK(dsk') /\ \E p \in 1 .. 2 : Newest(dsk'.packs, p, done)
  <2>1. CASE Survived(dsk.packs)
    BY <1>2, <1>3, <2>1, SurvivedIs
  <2>2. CASE cp = "pack" /\ Survived(TornPack)
    <3>1. NextPack \in 1 .. 2 /\ NextPack # mem.pack /\ 3 - mem.pack = NextPack
      BY <1>3 DEF NextPack
    <3>2. mem.ver \in Nat
      BY <1>2, <1>3, <2>2 DEF Working, PacksOK
    <3>3. /\ DOMAIN TornPack = 1 .. 2 /\ TornPack[mem.pack] = dsk.packs[mem.pack]
          /\ TornPack[NextPack] = [dsk.packs[NextPack] EXCEPT !.head = mem.ver]
      BY <1>3, <3>1 DEF TornPack, PacksOK
    <3>4. /\ TornPack[NextPack].tail = dsk.packs[NextPack].tail /\ TornPack[NextPack].head = mem.ver
          /\ DOMAIN TornPack[NextPack] = DOMAIN dsk.packs[NextPack]
      BY <1>3, <3>1, <3>3 DEF PacksOK
    <3>5. \A n \in 1 .. 2 : n = NextPack \/ n = mem.pack
      BY <1>3, <3>1
    <3>6. PacksOK(TornPack)
      BY <1>3, <3>1, <3>2, <3>3, <3>4, <3>5 DEF PacksOK
    <3>7. Newest(TornPack, mem.pack, done)
      BY <1>3, <3>1, <3>3, <3>4 DEF Newest
    <3>. QED
      BY <1>2, <1>3, <2>2, <3>6, <3>7, SurvivedIs
  <2>3. CASE cp = "pack" /\ dsk' = Committed
    <3>1. /\ DiskOK(Committed) /\ NextPack \in 1 .. 2 /\ mem.ver \in Nat /\ mem.ver >= done
          /\ Newest(Committed.packs, NextPack, mem.ver)
      BY <1>2, <2>3, CommittedNewest
    <3>2. Newest(Committed.packs, NextPack, done)
      BY <1>2, <3>1 DEF Newest, DiskOK, PacksOK
    <3>. QED
      BY <2>3, <3>1, <3>2
  <2>. QED
    BY <2>1, <2>2, <2>3 DEF Crash
<1>. QED
  BY <1>1, <1>2, <1>4 DEF RecInv

(* The newest complete pack is the one that is chosen.                     *)
LEMMA ChosenIsNewest ==
    ASSUME NEW packs, PacksOK(packs), NEW p \in 1 .. 2, NEW v, Newest(packs, p, v)
    PROVE  get_valid_checkpoint(packs) = p
<1>. DEFINE valid == {n \in 1 .. 2 : validate_checkpoint(packs[n])}
            first == packs[1].head  second == packs[2].head
<1>1. p \in valid /\ valid \subseteq {1, 2} /\ (p = 1 \/ p = 2)
  BY DEF Newest, validate_checkpoint
<1>2. packs[1].head \in Nat /\ packs[2].head \in Nat /\ packs[1].tail \in Nat /\ packs[2].tail \in Nat
  BY DEF PacksOK
<1>3. 3 - p \in valid => packs[3 - p].head < packs[p].head
  BY <1>1, <1>2 DEF Newest, validate_checkpoint
<1>4. get_valid_checkpoint(packs) =
        CASE valid = {1, 2} -> IF packs[2].head > packs[1].head THEN 2 ELSE 1
          [] valid = {}     -> 0
          [] OTHER          -> CHOOSE n \in valid : TRUE
  BY DEF get_valid_checkpoint
<1>. HIDE DEF valid
<1>5. CASE valid = {1, 2}
  <2>1. get_valid_checkpoint(packs) = IF packs[2].head > packs[1].head THEN 2 ELSE 1
    BY <1>4, <1>5
  <2>2. CASE p = 1
    BY <1>2, <1>3, <1>5, <2>1, <2>2
  <2>3. CASE p = 2
    BY <1>2, <1>3, <1>5, <2>1, <2>3
  <2>. QED
    BY <1>1, <2>2, <2>3
<1>6. CASE valid # {1, 2}
  <2>1. valid = {p}
    BY <1>1, <1>6
  <2>2. get_valid_checkpoint(packs) = CHOOSE n \in valid : TRUE
    BY <1>4, <1>6, <2>1
  <2>. QED
    BY <2>1, <2>2
<1>. QED
  BY <1>5, <1>6

(* What a mount makes of the pack, whether recovery ran or failed.         *)
LEMMA MountSame ==
    ASSUME DiskOK(dsk), Mount
    PROVE  \E n : /\ n = get_valid_checkpoint(dsk.packs) /\ Full(mem') /\ mem'.state # "down"
                  /\ mem'.ver = dsk.packs[n].head /\ mem'.pack = n
                  /\ cp' # "pack" /\ dsk' = dsk /\ done' = done
<1>. DEFINE n == get_valid_checkpoint(dsk.packs)
            L == Loaded(n)
            C == Chain
            found == find_fsync_dnodes(L, C)
            none == \A i \in SyncInos : found.list[i].blkaddr = 0
            r == recover_data(found, C)
            o == f2fs_sync_inode_meta(r.m)
            K == Contents(o)
<1>1. /\ cp' = IF none \/ r.err THEN "idle" ELSE "blocked"
      /\ mem' = CASE found.err \/ (~none /\ r.err) -> [L EXCEPT !.state = "failed"]
                  [] none                         -> Contents(L)
                  [] OTHER -> [K EXCEPT !.state = "por"]
      /\ dsk' = dsk /\ done' = done
  BY DEF Mount
<1>2. Full(L) /\ L.ver = dsk.packs[n].head /\ L.pack = n /\ L.state = "up"
  BY DEF Loaded, Full
<1>3. Len(C) \in Nat
  BY ChainIs DEF DiskOK, IsSeq
<1>. HIDE DEF L, C
<1>4. FoundOK(L, found)
  BY <1>2, <1>3, FindIs
<1>. HIDE DEF found
<1>5. RecoveredOK(L, r)
  BY <1>3, <1>4, RecoverIs
<1>. HIDE DEF r
<1>6. Same(L, r.m) /\ Full(r.m)
  BY <1>5 DEF RecoveredOK, Same
<1>7. Same(r.m, o)
  BY <1>6, SyncMeta
<1>. HIDE DEF o
<1>8. Same(o, K)
  BY <1>7, ContentsSame DEF Same
<1>9. Same(L, K)
  BY <1>6, <1>7, <1>8, SameTwice
<1>10. Same(L, Contents(L))
  BY <1>2, ContentsSame
<1>. HIDE DEF K, none
<1>11. mem' = [L EXCEPT !.state = "failed"] \/ mem' = Contents(L) \/ mem' = [K EXCEPT !.state = "por"]
  BY <1>1
<1>12. Full(mem') /\ mem'.ver = L.ver /\ mem'.pack = L.pack /\ mem'.state # "down"
  <2>1. CASE mem' = [L EXCEPT !.state = "failed"]
    BY <1>2, <2>1 DEF Full
  <2>2. CASE mem' = Contents(L)
    BY <1>2, <1>10, <2>2 DEF Same
  <2>3. CASE mem' = [K EXCEPT !.state = "por"]
    BY <1>2, <1>9, <2>3 DEF Full, Same
  <2>. QED
    BY <1>11, <2>1, <2>2, <2>3
<1>13. cp' # "pack"
  BY <1>1
<1>. QED
  BY <1>1, <1>2, <1>12, <1>13

(* A mount starts from the newest pack.                                    *)
LEMMA MountKeeps == ASSUME RecInv, Mount PROVE RecInv'
<1>1. mem.state = "down"
  BY DEF Mount
<1>2. DiskOK(dsk) /\ done \in Nat
  BY DEF RecInv
<1>3. PICK p \in 1 .. 2 : Newest(dsk.packs, p, done)
  BY <1>1 DEF RecInv
<1>4. get_valid_checkpoint(dsk.packs) = p
  BY <1>2, <1>3, ChosenIsNewest DEF DiskOK
<1>5. /\ Full(mem') /\ mem'.state # "down" /\ mem'.ver = dsk.packs[p].head /\ mem'.pack = p
      /\ cp' # "pack" /\ dsk' = dsk /\ done' = done
  BY <1>2, <1>4, MountSame
<1>6. Working(dsk', mem', cp', done')
  BY <1>3, <1>5 DEF Working
<1>. QED
  BY <1>2, <1>5, <1>6 DEF RecInv

----------------------------------------------------------------------------
(* A mounted file system works from the newest complete pack; the end of   *)
(* the other one is older, whatever a power cut left of it, and a disk     *)
(* after a power cut has such a pack (do_checkpoint writes the pack that   *)
(* is not in use, get_valid_checkpoint compares the two versions).         *)
THEOREM RecoveryInductive == RecSpec => []RecInv
<1>1. RecInit => RecInv
  BY InitHolds
<1>2. RecInv /\ [RecNext]_recVars => RecInv'
  <2>. SUFFICES ASSUME RecInv, [RecNext]_recVars PROVE RecInv'
    OBVIOUS
  <2>1. CASE (SystemCall \/ SyncStep \/ Flusher) /\ UNCHANGED <<cp, done>>
    BY <2>1, StepsMounted, QuietKeeps
  <2>2. CASE block_operations
    BY <2>2, BlockKeeps
  <2>3. CASE flush_nat_entries
    BY <2>3, NatKeeps
  <2>4. CASE do_checkpoint
    BY <2>4, CheckpointKeeps
  <2>5. CASE Crash
    BY <2>5, CrashKeeps
  <2>6. CASE Mount
    BY <2>6, MountKeeps
  <2>7. CASE UNCHANGED recVars
    BY <2>7 DEF recVars, RecInv, DiskOK, PacksOK, IsSeq, Newest, Working, Full
  <2>. QED
    BY <2>1, <2>2, <2>3, <2>4, <2>5, <2>6, <2>7 DEF RecNext
<1>. QED
  BY <1>1, <1>2, PTL DEF RecSpec

(* However a power cut tears the pack that is being written, the two packs *)
(* hold a valid one, and the mount starts from the newest that was ever    *)
(* completed (do_checkpoint, get_valid_checkpoint), also when power fails  *)
(* again during the checkpoint that ends recovery.                         *)
THEOREM MountIsNewest == RecSpec => []MountsNewest
<1>1. RecInv => MountsNewest
  <2>. SUFFICES ASSUME RecInv PROVE MountsNewest
    OBVIOUS
  <2>1. CASE mem.state = "down"
    <3>1. PICK p \in 1 .. 2 : Newest(dsk.packs, p, done)
      BY <2>1 DEF RecInv
    <3>2. get_valid_checkpoint(dsk.packs) = p
      BY <3>1, ChosenIsNewest DEF RecInv, DiskOK
    <3>. QED
      BY <2>1, <3>2 DEF MountsNewest
  <2>2. CASE mem.state # "down"
    <3>1. Working(dsk, mem, cp, done) /\ PacksOK(dsk.packs) /\ done \in Nat
      BY <2>2 DEF RecInv, DiskOK
    <3>2. mem.ver >= done
      BY <3>1 DEF Working, Newest, PacksOK
    <3>. QED
      BY <2>2, <3>2 DEF MountsNewest
  <2>. QED
    BY <2>1, <2>2
<1>. QED
  BY <1>1, RecoveryInductive, PTL
=============================================================================
