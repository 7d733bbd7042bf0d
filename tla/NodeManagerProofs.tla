------------------------- MODULE NodeManagerProofs -------------------------
(***************************************************************************)
(* Theorems about the node address table of NodeManager, for every size of *)
(* the table and of the journal and any number of processes.               *)
(***************************************************************************)
EXTENDS NodeManager, FiniteSetTheorems, TLAPS

----------------------------------------------------------------------------
(* The inductive invariant                                                 *)

Copies == [{0, 1} -> [Nids -> RawAddrs]]
Journals == [Nids -> RawAddrs \cup {NoEntry}]

NatTypes ==
    /\ nat_root \in [Nids -> EntryType \cup {NoEntry}]
    /\ journal \in Journals /\ nat \in Copies /\ nat_bitmap \in [Blks -> {0, 1}]
    /\ disk.journal \in Journals /\ disk.nat_bitmap \in [Blks -> {0, 1}]
    /\ node \in [Nids -> NodeAddrs] /\ durable \in [Nids -> RawAddrs]
    /\ reader \in ReaderType \cup {NoEntry}
    /\ cp.phase \in {"idle", "blocked", "flushed", "unmounted"}

(* A cache entry has the node's address; without one, or with a clean one, *)
(* the journal or the current copy of the NAT block has it.                *)
Cached == \A n \in Nids :
    /\ nat_root[n] # NoEntry => nat_root[n].blk_addr = node[n]
    /\ nat_root[n] = NoEntry \/ ~nat_root[n].dirty => OnDisk(nat, nat_bitmap, journal)[n] = node[n]

(* A reader has dropped nat_tree_lock and holds the lock of its page: the  *)
(* copy it is about to read stays right even if flushes turn to the other  *)
(* copy and back, since its nid is neither dirty nor journaled.            *)
Reading == reader # NoEntry =>
    /\ reader.addr # NoEntry => reader.addr = node[reader.nid]
    /\ reader.addr = NoEntry => /\ journal[reader.nid] = NoEntry
                                /\ nat[reader.copy][reader.nid] = node[reader.nid]
                                /\ reader.nid \notin Dirty(nat_root)

(* Until entries are flushed, journal and bitmap are those of the last     *)
(* checkpoint; then nothing is dirty.  No address is NEW_ADDR meanwhile.   *)
Phases ==
    /\ cp.phase # "flushed" => journal = disk.journal /\ nat_bitmap = disk.nat_bitmap
    /\ cp.phase = "flushed" => Dirty(nat_root) = {}
    /\ cp.phase \in {"blocked", "flushed"} => \A n \in Nids : node[n] # NEW_ADDR

NatInv == NatTypes /\ Cached /\ Reading /\ Phases /\ DurableKept

----------------------------------------------------------------------------
(* Facts about the table                                                   *)

(* Every nid has its NAT block.                                            *)
LEMMA BlockOfNid == \A n \in Nids : NAT_BLOCK_OFFSET(n) \in Blks
<1>. SUFFICES ASSUME NEW n \in Nids PROVE NAT_BLOCK_OFFSET(n) \in Blks
  OBVIOUS
<1>. DEFINE E == NAT_ENTRY_PER_BLOCK  q == n \div E
<1>1. E \in Nat \ {0} /\ NatBlocks \in Nat \ {0}
  BY NatAssumption
<1>2. n \in Nat /\ n < NatBlocks * E
  BY <1>1 DEF Nids, max_nid
<1>3. q \in Nat /\ E * q <= n
  BY <1>1, <1>2
<1>. HIDE DEF q
<1>4. ASSUME q >= NatBlocks PROVE E * q >= NatBlocks * E
  <2>1. q - NatBlocks \in Nat
    BY <1>1, <1>3, <1>4
  <2>. DEFINE d == q - NatBlocks
  <2>2. E * d >= 0 /\ q = NatBlocks + d
    BY <1>1, <1>3, <2>1
  <2>. HIDE DEF d
  <2>. QED
    BY <1>1, <2>1, <2>2 DEF d
<1>5. q < NatBlocks
  BY <1>1, <1>2, <1>3, <1>4
<1>. QED
  BY <1>1, <1>3, <1>5 DEF Blks, NAT_BLOCK_OFFSET, q

(* What OnDisk reads.                                                      *)
LEMMA OnDiskIs ==
    ASSUME NEW copies, NEW bitmap, NEW j, NEW n \in Nids
    PROVE  OnDisk(copies, bitmap, j)[n] =
             IF j[n] # NoEntry THEN j[n] ELSE copies[bitmap[NAT_BLOCK_OFFSET(n)]][n]
BY DEF OnDisk, Current

(* A block address is read for every nid from well-formed NAT copies and a *)
(* journal.                                                                *)
LEMMA OnDiskType ==
    ASSUME NEW copies \in Copies, NEW bitmap \in [Blks -> {0, 1}], NEW j \in Journals
    PROVE  OnDisk(copies, bitmap, j) \in [Nids -> RawAddrs]
BY BlockOfNid DEF OnDisk, Current, Copies, Journals

(* The entries a cache entry is made of.                                   *)
LEMMA Entries ==
    ASSUME NEW a \in NodeAddrs, NEW c \in BOOLEAN, NEW d \in BOOLEAN
    PROVE  /\ Entry(a, c, d) \in EntryType /\ Entry(a, c, d) # NoEntry
           /\ Entry(a, c, d).blk_addr = a
           /\ Entry(a, c, d).checkpointed = c /\ Entry(a, c, d).dirty = d
BY NatAssumption DEF Entry, EntryType

----------------------------------------------------------------------------
(* The steps                                                               *)

(* The state that the invariant is about                                   *)
natVars == <<nat_root, journal, nat, nat_bitmap, disk, node, durable, reader, cp>>

(* mkfs leaves both copies of the NAT area alike and nothing cached.       *)
LEMMA NatInit == Init => NatInv
<1>. SUFFICES ASSUME Init PROVE NatInv
  OBVIOUS
<1>1. (CHOOSE a \in Addrs : TRUE) \in Addrs
  BY NatAssumption
<1>2. Formatted \in [Nids -> RawAddrs] /\ Formatted \in [Nids -> NodeAddrs]
  BY <1>1 DEF Formatted, RawAddrs, NodeAddrs
<1>3. Unmapped \in [Nids -> EntryType \cup {NoEntry}] /\ Unmapped \in Journals
      /\ \A n \in Nids : Unmapped[n] = NoEntry
  BY DEF Unmapped, Journals
<1>4. NatTypes
  BY <1>2, <1>3 DEF Init, NatTypes, Copies, NoCheckpoint
<1>5. \A n \in Nids : OnDisk(nat, nat_bitmap, journal)[n] = Formatted[n]
  BY <1>3, BlockOfNid DEF Init, OnDisk, Current
<1>6. OnDisk(nat, nat_bitmap, journal) = Formatted
  BY <1>2, <1>4, <1>5, OnDiskType DEF NatTypes
<1>7. Cached
  BY <1>3, <1>5 DEF Init, Cached
<1>8. Reading /\ Phases
  BY DEF Init, Reading, Phases, NoCheckpoint
<1>9. DurableKept
  BY <1>6 DEF Init, DurableKept
<1>. QED
  BY <1>4, <1>7, <1>8, <1>9 DEF NatInv

(* Steps that touch neither the table nor its cache.                       *)
LEMMA NatFrame == NatInv /\ UNCHANGED natVars => NatInv'
<1>. SUFFICES ASSUME NatInv, UNCHANGED natVars PROVE NatInv'
  OBVIOUS
<1>1. NatTypes' /\ Cached' /\ Reading' /\ Phases' /\ DurableKept'
  BY DEF NatInv, natVars, NatTypes, Cached, Reading, Phases, DurableKept, Dirty
<1>. QED
  BY <1>1 DEF NatInv

(* set_node_addr makes a dirty entry; no checkpoint is under way and no    *)
(* reader holds the page of the node.                                      *)
LEMMA NatSetAddr ==
    ASSUME NatInv, NEW n, NEW a \in NodeAddrs, OpLock, set_node_addr(n, a),
           UNCHANGED <<disk, durable, reader, cp>>
    PROVE  NatInv'
<1>. DEFINE k == (nat_root[n] = NoEntry \/ nat_root[n].checkpointed) /\ a \notin {NULL_ADDR, NEW_ADDR}
            e == Entry(a, k, TRUE)
<1>1. e \in EntryType /\ e # NoEntry /\ e.blk_addr = a /\ e.dirty = TRUE
  BY Entries DEF NatInv, NatTypes
<1>2. /\ nat_root' = [nat_root EXCEPT ![n] = e] /\ node' = [node EXCEPT ![n] = a]
      /\ UNCHANGED <<journal, nat, nat_bitmap>> /\ PageLock(n)
  BY DEF set_node_addr
<1>. HIDE DEF e
<1>3. NatTypes'
  BY <1>1, <1>2 DEF NatInv, NatTypes
<1>4. \A m \in Nids : m # n => nat_root'[m] = nat_root[m] /\ node'[m] = node[m]
  BY <1>2 DEF NatInv, NatTypes
<1>5. n \in Nids => nat_root'[n] = e /\ node'[n] = a
  BY <1>2 DEF NatInv, NatTypes
<1>6. Cached'
  BY <1>1, <1>2, <1>4, <1>5 DEF NatInv, Cached
<1>7. Reading'
  <2>1. reader # NoEntry => reader.nid # n /\ reader.nid \in Nids
    BY <1>2 DEF PageLock, NatInv, NatTypes, ReaderType
  <2>2. reader # NoEntry => (reader.nid \in Dirty(nat_root') <=> reader.nid \in Dirty(nat_root))
    BY <2>1, <1>4 DEF Dirty
  <2>. QED
    BY <2>1, <2>2, <1>4, <1>2 DEF NatInv, Reading
<1>8. Phases'
  BY <1>2 DEF NatInv, Phases, OpLock
<1>9. DurableKept'
  BY <1>2 DEF NatInv, DurableKept
<1>. QED
  BY <1>3, <1>6, <1>7, <1>8, <1>9 DEF NatInv

(* get_node_info notes where the address is: the nid is not cached.        *)
LEMMA NatLookup ==
    ASSUME NatInv, NEW n \in Nids, get_node_info(n)
    PROVE  NatInv'
<1>. DEFINE r == [nid |-> n, addr |-> journal[n], copy |-> nat_bitmap[NAT_BLOCK_OFFSET(n)]]
<1>1. /\ reader' = r /\ nat_root[n] = NoEntry
      /\ UNCHANGED <<nat_root, journal, nat, nat_bitmap, disk, node, durable, cp>>
  BY DEF get_node_info, caches
<1>2. r \in ReaderType /\ r.nid = n /\ r.addr = journal[n] /\ r.copy = nat_bitmap[NAT_BLOCK_OFFSET(n)]
  BY BlockOfNid DEF NatInv, NatTypes, ReaderType, Journals
<1>. HIDE DEF r
<1>3. OnDisk(nat, nat_bitmap, journal)[n] = node[n]
  BY <1>1 DEF NatInv, Cached
<1>4. (IF journal[n] # NoEntry THEN journal[n] ELSE nat[nat_bitmap[NAT_BLOCK_OFFSET(n)]][n]) = node[n]
  BY <1>3, OnDiskIs
<1>5. Reading'
  BY <1>1, <1>2, <1>4 DEF Reading, Dirty
<1>6. NatTypes' /\ Cached' /\ Phases' /\ DurableKept'
  BY <1>1, <1>2 DEF NatInv, NatTypes, Cached, Phases, DurableKept, Dirty
<1>. QED
  BY <1>5, <1>6 DEF NatInv

(* What a reader caches is the address of the node.                        *)
LEMMA NatReadAddr == NatInv /\ reader # NoEntry => ReadAddr = node[reader.nid] /\ ReadAddr \in RawAddrs
<1>. SUFFICES ASSUME NatInv, reader # NoEntry
              PROVE  ReadAddr = node[reader.nid] /\ ReadAddr \in RawAddrs
  OBVIOUS
<1>1. reader \in ReaderType
  BY DEF NatInv, NatTypes
<1>2. reader.nid \in Nids /\ reader.copy \in {0, 1} /\ reader.addr \in RawAddrs \cup {NoEntry}
  BY <1>1 DEF ReaderType
<1>. QED
  BY <1>2 DEF NatInv, NatTypes, Reading, ReadAddr, Copies

(* cache_nat_entry adds the entry the reader saw, which is still the one   *)
(* on disk.                                                                *)
LEMMA NatCache == NatInv /\ cache_nat_entry => NatInv'
<1>. SUFFICES ASSUME NatInv, cache_nat_entry PROVE NatInv'
  OBVIOUS
<1>. DEFINE n == reader.nid  e == Entry(ReadAddr, TRUE, FALSE)
<1>1. /\ reader # NoEntry /\ reader' = NoEntry
      /\ UNCHANGED <<journal, nat, nat_bitmap, disk, node, durable, cp>>
      /\ \/ nat_root' = nat_root
         \/ nat_root[n] = NoEntry /\ nat_root' = [nat_root EXCEPT ![n] = e]
  BY DEF cache_nat_entry
<1>2. n \in Nids
  BY <1>1 DEF NatInv, NatTypes, ReaderType
<1>3. ReadAddr = node[n] /\ ReadAddr \in RawAddrs
  BY <1>1, NatReadAddr
<1>4. e \in EntryType /\ e # NoEntry /\ e.blk_addr = node[n] /\ e.dirty = FALSE
  BY <1>3, Entries DEF NodeAddrs
<1>. HIDE DEF e
<1>5. NatTypes'
  BY <1>1, <1>4 DEF NatInv, NatTypes
<1>6. \A m \in Nids : nat_root'[m] = nat_root[m] \/ (m = n /\ nat_root[m] = NoEntry /\ nat_root'[m] = e)
  BY <1>1, <1>2 DEF NatInv, NatTypes
<1>7. Cached'
  BY <1>1, <1>4, <1>6 DEF NatInv, Cached
<1>8. Reading'
  BY <1>1 DEF Reading
<1>9. Phases'
  <2>1. \A m \in Nids : m \in Dirty(nat_root') => m \in Dirty(nat_root)
    BY <1>4, <1>6 DEF Dirty
  <2>2. Dirty(nat_root) = {} => Dirty(nat_root') = {}
    BY <2>1 DEF Dirty
  <2>. QED
    BY <1>1, <2>2 DEF NatInv, Phases
<1>10. DurableKept'
  BY <1>1 DEF NatInv, DurableKept
<1>. QED
  BY <1>5, <1>7, <1>8, <1>9, <1>10 DEF NatInv

(* Eviction takes clean entries only.                                      *)
LEMMA NatEvict ==
    ASSUME NatInv, NEW n \in Nids, try_to_free_nats(n)
    PROVE  NatInv'
<1>1. /\ ~nat_root[n].dirty /\ nat_root' = [nat_root EXCEPT ![n] = NoEntry]
      /\ UNCHANGED <<journal, nat, nat_bitmap, disk, node, durable, reader, cp>>
  BY DEF try_to_free_nats, procs
<1>2. \A m \in Nids : nat_root'[m] = IF m = n THEN NoEntry ELSE nat_root[m]
  BY <1>1 DEF NatInv, NatTypes
<1>3. \A m \in Nids : m \in Dirty(nat_root') <=> m \in Dirty(nat_root)
  BY <1>1, <1>2 DEF Dirty
<1>4. Dirty(nat_root') = Dirty(nat_root)
  BY <1>3 DEF Dirty
<1>5. NatTypes'
  BY <1>1 DEF NatInv, NatTypes
<1>6. Cached'
  BY <1>1, <1>2 DEF NatInv, Cached
<1>7. Reading' /\ Phases'
  BY <1>1, <1>4 DEF NatInv, Reading, Phases
<1>8. DurableKept'
  BY <1>1 DEF NatInv, DurableKept
<1>. QED
  BY <1>5, <1>6, <1>7, <1>8 DEF NatInv

----------------------------------------------------------------------------
(* flush_nat_entries                                                       *)

(* What m, the cache and the journal to be flushed, has to satisfy.  What  *)
(* is kept in the journal is not dirty or goes to the journal again.       *)
Flushable(m, J) ==
    /\ m.nat_root \in [Nids -> EntryType \cup {NoEntry}] /\ m.journal \in Journals
    /\ \A n \in Nids :
         /\ m.nat_root[n] # NoEntry => m.nat_root[n].blk_addr = node[n]
         /\ n \notin Dirty(m.nat_root) => OnDisk(nat, nat_bitmap, m.journal)[n] = node[n]
         /\ n \in Dirty(m.nat_root) /\ NAT_BLOCK_OFFSET(n) \notin J => m.journal[n] = NoEntry
    /\ (reader # NoEntry /\ reader.addr = NoEntry) =>
         m.journal[reader.nid] = NoEntry /\ reader.nid \notin Dirty(m.nat_root)

(* Flushed so, every address is found in the journal or the current copy;  *)
(* the copy that the last checkpoint refers to is the one not written.     *)
LEMMA NatFlushSet ==
    ASSUME NatInv, cp.phase = "blocked", NEW m, NEW J, Flushable(m, J),
           __flush_nat_entry_set(m, J), UNCHANGED <<disk, node, durable, reader>>,
           cp' = [cp EXCEPT !.phase = "flushed"]
    PROVE  NatInv'
<1>. DEFINE D == Dirty(m.nat_root)
            addr(n) == m.nat_root[n].blk_addr
            flip == {NAT_BLOCK_OFFSET(n) : n \in D} \ J
            bitmap == set_to_next_nat(flip)
            written(n) == n \in D /\ NAT_BLOCK_OFFSET(n) \in flip
            cur(n) == nat[nat_bitmap[NAT_BLOCK_OFFSET(n)]][n]
<1>1. /\ nat_root' = [n \in Nids |-> IF n \in D THEN Entry(addr(n), TRUE, FALSE) ELSE m.nat_root[n]]
      /\ journal' = [n \in Nids |-> IF n \in D /\ NAT_BLOCK_OFFSET(n) \in J THEN addr(n)
                                    ELSE m.journal[n]]
      /\ nat_bitmap' = bitmap
      /\ nat' = [c \in {0, 1} |-> [n \in Nids |->
                     IF c = bitmap[NAT_BLOCK_OFFSET(n)] /\ written(n) THEN addr(n)
                     ELSE get_next_nat_page(flip)[c][n]]]
  BY DEF __flush_nat_entry_set
<1>2. /\ nat_root \in [Nids -> EntryType \cup {NoEntry}]
      /\ journal \in Journals /\ nat \in Copies /\ nat_bitmap \in [Blks -> {0, 1}]
      /\ disk.journal \in Journals /\ disk.nat_bitmap \in [Blks -> {0, 1}]
      /\ node \in [Nids -> NodeAddrs] /\ durable \in [Nids -> RawAddrs]
      /\ reader \in ReaderType \cup {NoEntry}
  BY DEF NatInv, NatTypes
<1>3. /\ \A n \in Nids : node[n] \in RawAddrs /\ node[n] # NoEntry
      /\ nat_bitmap = disk.nat_bitmap
  BY <1>2, NatAssumption DEF NatInv, Phases, NodeAddrs, RawAddrs
<1>4. \A n \in Nids : n \in D => addr(n) = node[n] /\ m.nat_root[n] # NoEntry
  BY DEF Flushable, Dirty
<1>5. bitmap \in [Blks -> {0, 1}]
  BY <1>2 DEF set_to_next_nat
<1>6. \A n \in Nids : bitmap[NAT_BLOCK_OFFSET(n)] =
        IF NAT_BLOCK_OFFSET(n) \in flip THEN 1 - nat_bitmap[NAT_BLOCK_OFFSET(n)]
        ELSE nat_bitmap[NAT_BLOCK_OFFSET(n)]
  BY BlockOfNid DEF set_to_next_nat
<1>7. \A n \in Nids : n \in D => (NAT_BLOCK_OFFSET(n) \in flip <=> NAT_BLOCK_OFFSET(n) \notin J)
  OBVIOUS
<1>. HIDE DEF bitmap, flip
<1>8. \A c \in {0, 1}, n \in Nids : nat'[c][n] =
        IF c = bitmap[NAT_BLOCK_OFFSET(n)] /\ written(n) THEN node[n]
        ELSE IF NAT_BLOCK_OFFSET(n) \in flip THEN cur(n) ELSE nat[c][n]
  BY <1>1, <1>4 DEF get_next_nat_page, Current
<1>9. \A n \in Nids : /\ NAT_BLOCK_OFFSET(n) \in Blks /\ nat_bitmap[NAT_BLOCK_OFFSET(n)] \in {0, 1}
                      /\ bitmap[NAT_BLOCK_OFFSET(n)] \in {0, 1} /\ cur(n) \in RawAddrs
  BY <1>2, <1>5, BlockOfNid DEF Copies
<1>10. \A n \in Nids : journal'[n] = IF n \in D /\ NAT_BLOCK_OFFSET(n) \in J THEN node[n]
                                     ELSE m.journal[n]
  BY <1>1, <1>4
<1>11. \A n \in Nids : /\ n \in D => /\ nat_root'[n] \in EntryType /\ nat_root'[n] # NoEntry
                                     /\ nat_root'[n].blk_addr = node[n] /\ nat_root'[n].dirty = FALSE
                       /\ n \notin D => nat_root'[n] = m.nat_root[n]
  <2>. SUFFICES ASSUME NEW n \in Nids
                PROVE  /\ n \in D => /\ nat_root'[n] \in EntryType /\ nat_root'[n] # NoEntry
                                     /\ nat_root'[n].blk_addr = node[n] /\ nat_root'[n].dirty = FALSE
                       /\ n \notin D => nat_root'[n] = m.nat_root[n]
    OBVIOUS
  <2>1. node[n] \in NodeAddrs
    BY <1>2
  <2>2. CASE n \in D
    <3>1. nat_root'[n] = Entry(node[n], TRUE, FALSE)
      BY <1>1, <1>4, <2>2
    <3>. DEFINE e == Entry(node[n], TRUE, FALSE)
    <3>2. e \in EntryType /\ e # NoEntry /\ e.blk_addr = node[n] /\ e.dirty = FALSE
      BY <2>1, Entries
    <3>. HIDE DEF e
    <3>. QED
      BY <2>2, <3>1, <3>2 DEF e
  <2>3. CASE n \notin D
    BY <1>1, <2>3
  <2>. QED
    BY <2>2, <2>3
<1>12. NatTypes'
  <2>1. nat_root' \in [Nids -> EntryType \cup {NoEntry}]
    BY <1>1, <1>11 DEF Flushable
  <2>2. journal' \in Journals
    <3>1. \A n \in Nids : journal'[n] \in RawAddrs \cup {NoEntry}
      BY <1>10, <1>3 DEF Flushable, Journals
    <3>. QED
      BY <3>1, <1>1 DEF Journals
  <2>3. nat' \in Copies
    <3>1. \A c \in {0, 1}, n \in Nids : nat'[c][n] \in RawAddrs
      BY <1>8, <1>9, <1>3, <1>2 DEF Copies
    <3>. DEFINE g(c, n) == IF c = bitmap[NAT_BLOCK_OFFSET(n)] /\ written(n) THEN addr(n)
                           ELSE get_next_nat_page(flip)[c][n]
    <3>2. nat' = [c \in {0, 1} |-> [n \in Nids |-> g(c, n)]]
      BY <1>1
    <3>. HIDE DEF g
    <3>3. \A c \in {0, 1}, n \in Nids : g(c, n) \in RawAddrs
      BY <3>1, <3>2
    <3>. QED
      BY <3>2, <3>3 DEF Copies
  <2>4. cp.phase' = "flushed"
    BY DEF NatInv, Phases
  <2>. QED
    BY <1>1, <1>2, <1>5, <2>1, <2>2, <2>3, <2>4 DEF NatTypes
<1>13. \A n \in Nids : OnDisk(nat', nat_bitmap', journal')[n] = node[n]
  <2>. SUFFICES ASSUME NEW n \in Nids PROVE OnDisk(nat', nat_bitmap', journal')[n] = node[n]
    OBVIOUS
  <2>. DEFINE b == NAT_BLOCK_OFFSET(n)
  <2>1. OnDisk(nat', nat_bitmap', journal')[n] =
          IF journal'[n] # NoEntry THEN journal'[n] ELSE nat'[bitmap[b]][n]
    BY <1>1, OnDiskIs
  <2>2. nat'[bitmap[b]][n] = IF n \in D /\ b \in flip THEN node[n] ELSE cur(n)
    BY <1>6, <1>8, <1>9
  <2>3. n \notin D => (IF m.journal[n] # NoEntry THEN m.journal[n] ELSE cur(n)) = node[n]
    BY OnDiskIs DEF Flushable
  <2>4. n \in D /\ b \notin J => m.journal[n] = NoEntry
    BY DEF Flushable
  <2>. HIDE DEF b
  <2>5. journal'[n] = IF n \in D /\ b \in J THEN node[n] ELSE m.journal[n]
    BY <1>10 DEF b
  <2>6. n \in D => (b \in flip <=> b \notin J)
    BY <1>7 DEF b
  <2>. QED
    BY <2>1, <2>2, <2>3, <2>4, <2>5, <2>6, <1>3
<1>14. Cached'
  BY <1>13, <1>11 DEF Cached, Flushable
<1>15. Dirty(nat_root') = {}
  BY <1>11 DEF Dirty
<1>16. Reading'
  <2>. SUFFICES ASSUME reader # NoEntry, reader.addr = NoEntry
                PROVE  /\ journal'[reader.nid] = NoEntry
                       /\ nat'[reader.copy][reader.nid] = node[reader.nid]
    BY <1>15 DEF NatInv, Reading
  <2>. DEFINE n == reader.nid
  <2>1. n \in Nids /\ reader.copy \in {0, 1}
    BY <1>2 DEF ReaderType
  <2>2. m.journal[n] = NoEntry /\ n \notin D
    BY DEF Flushable
  <2>3. journal'[n] = NoEntry
    BY <1>10, <2>1, <2>2
  <2>4. cur(n) = node[n]
    BY <2>1, <2>2, OnDiskIs DEF Flushable
  <2>5. nat[reader.copy][n] = node[n]
    BY DEF NatInv, Reading
  <2>. QED
    BY <1>8, <2>1, <2>2, <2>3, <2>4, <2>5
<1>17. Phases'
  BY <1>3, <1>15 DEF NatInv, Phases, NatTypes
<1>18. DurableKept'
  <2>1. \A n \in Nids : nat'[nat_bitmap[NAT_BLOCK_OFFSET(n)]][n] = cur(n)
    BY <1>6, <1>8, <1>9
  <2>2. \A n \in Nids : OnDisk(nat', disk.nat_bitmap, disk.journal)[n]
                        = OnDisk(nat, disk.nat_bitmap, disk.journal)[n]
    BY <1>3, <2>1, OnDiskIs
  <2>3. OnDisk(nat', disk.nat_bitmap, disk.journal) = OnDisk(nat, disk.nat_bitmap, disk.journal)
    BY <2>2 DEF OnDisk
  <2>. QED
    BY <2>3 DEF NatInv, DurableKept
<1>. QED
  BY <1>12, <1>14, <1>16, <1>17, <1>18 DEF NatInv

(* Without merging the journal, all sets of dirty entries fit into it.     *)
LEMMA NatAllFit ==
    ASSUME NEW D, IsFiniteSet(D), NEW room \in Int, Cardinality(D) <= room,
           NEW J \in JournalSets(D, room)
    PROVE  {NAT_BLOCK_OFFSET(n) : n \in D} = J
<1>. DEFINE sets == {NAT_BLOCK_OFFSET(n) : n \in D}
<1>1. J \subseteq sets
  BY DEF JournalSets
<1>2. ASSUME NEW b \in sets \ J PROVE FALSE
  <2>. DEFINE S == {n \in D : NAT_BLOCK_OFFSET(n) \in J \cup {b}}
  <2>1. Cardinality(S) > room
    BY <1>2 DEF JournalSets
  <2>2. S \subseteq D
    OBVIOUS
  <2>. HIDE DEF S
  <2>3. Cardinality(S) <= Cardinality(D)
    BY <2>2, FS_Subset
  <2>4. Cardinality(S) \in Nat /\ Cardinality(D) \in Nat
    BY <2>2, FS_Subset, FS_CardinalityType
  <2>. QED
    BY <2>1, <2>3, <2>4
<1>. QED
  BY <1>1, <1>2

(* A merged journal is empty and its entries are dirty cache entries.      *)
LEMMA NatMerged == ASSUME NatInv, NEW J PROVE Flushable(Merged, J)
<1>. DEFINE R == [n \in Nids |->
        IF journal[n] = NoEntry THEN nat_root[n]
        ELSE IF nat_root[n] = NoEntry THEN Entry(journal[n], TRUE, TRUE)
        ELSE [nat_root[n] EXCEPT !.dirty = TRUE]]
<1>1. Merged.nat_root = R /\ Merged.journal = Unmapped
  BY DEF Merged
<1>2. ASSUME NEW n \in Nids
      PROVE  /\ R[n] \in EntryType \cup {NoEntry}
             /\ R[n] # NoEntry => R[n].blk_addr = node[n]
             /\ journal[n] = NoEntry => R[n] = nat_root[n]
             /\ journal[n] # NoEntry => R[n] # NoEntry /\ R[n].dirty
  <2>0. /\ nat_root[n] \in EntryType \cup {NoEntry} /\ journal[n] \in RawAddrs \cup {NoEntry}
        /\ node[n] \in NodeAddrs /\ OnDisk(nat, nat_bitmap, journal)[n] =
             (IF journal[n] # NoEntry THEN journal[n] ELSE nat[nat_bitmap[NAT_BLOCK_OFFSET(n)]][n])
    BY OnDiskIs DEF NatInv, NatTypes, Journals
  <2>1. CASE journal[n] = NoEntry
    BY <2>0, <2>1 DEF NatInv, Cached
  <2>2. CASE journal[n] # NoEntry /\ nat_root[n] = NoEntry
    <3>1. journal[n] = node[n] /\ R[n] = Entry(node[n], TRUE, TRUE)
      BY <2>0, <2>2 DEF NatInv, Cached
    <3>. DEFINE e == Entry(node[n], TRUE, TRUE)
    <3>2. e \in EntryType /\ e # NoEntry /\ e.blk_addr = node[n] /\ e.dirty = TRUE
      BY <2>0, Entries
    <3>. HIDE DEF e, R
    <3>. QED
      BY <2>2, <3>1, <3>2 DEF e
  <2>3. CASE journal[n] # NoEntry /\ nat_root[n] # NoEntry
    <3>1. nat_root[n] \in EntryType /\ nat_root[n].blk_addr = node[n]
      BY <2>0, <2>3 DEF NatInv, Cached
    <3>. DEFINE e == [nat_root[n] EXCEPT !.dirty = TRUE]
    <3>2. e \in EntryType /\ e.blk_addr = node[n] /\ e.dirty = TRUE
      BY <3>1 DEF EntryType
    <3>3. e # NoEntry
      BY <3>2, NatAssumption
    <3>4. R[n] = e
      BY <2>3
    <3>. HIDE DEF e, R
    <3>. QED
      BY <2>3, <3>2, <3>3, <3>4
  <2>. QED
    BY <2>1, <2>2, <2>3
<1>3. DOMAIN R = Nids /\ R = [n \in Nids |-> R[n]]
  OBVIOUS
<1>. HIDE DEF R
<1>4. R \in [Nids -> EntryType \cup {NoEntry}]
  BY <1>2, <1>3
<1>5. Unmapped \in Journals /\ \A n \in Nids : Unmapped[n] = NoEntry
  BY DEF Unmapped, Journals
<1>6. ASSUME NEW n \in Nids, n \notin Dirty(R) PROVE OnDisk(nat, nat_bitmap, Unmapped)[n] = node[n]
  <2>1. journal[n] = NoEntry /\ R[n] = nat_root[n]
    BY <1>2, <1>6 DEF Dirty
  <2>2. nat_root[n] = NoEntry \/ ~nat_root[n].dirty
    BY <2>1, <1>6 DEF Dirty
  <2>3. OnDisk(nat, nat_bitmap, journal)[n] = node[n]
    BY <2>2 DEF NatInv, Cached
  <2>. QED
    BY <1>5, <2>1, <2>3, OnDiskIs
<1>7. ASSUME reader # NoEntry, reader.addr = NoEntry
      PROVE  Unmapped[reader.nid] = NoEntry /\ reader.nid \notin Dirty(R)
  <2>1. reader.nid \in Nids
    BY <1>7 DEF NatInv, NatTypes, ReaderType
  <2>2. journal[reader.nid] = NoEntry /\ reader.nid \notin Dirty(nat_root)
    BY <1>7 DEF NatInv, Reading
  <2>. QED
    BY <1>2, <1>5, <2>1, <2>2 DEF Dirty
<1>. QED
  BY <1>1, <1>2, <1>4, <1>5, <1>6, <1>7 DEF Flushable

(* Without merging, every dirty entry goes to the journal.                 *)
LEMMA NatNotMerged ==
    ASSUME NatInv, NEW J, {NAT_BLOCK_OFFSET(n) : n \in Dirty(nat_root)} = J
    PROVE  Flushable(NotMerged, J)
<1>1. NotMerged.nat_root = nat_root /\ NotMerged.journal = journal
  BY DEF NotMerged
<1>2. \A n \in Nids : n \notin Dirty(nat_root) => OnDisk(nat, nat_bitmap, journal)[n] = node[n]
  BY DEF NatInv, Cached, Dirty
<1>3. \A n \in Nids : n \in Dirty(nat_root) => NAT_BLOCK_OFFSET(n) \in J
  OBVIOUS
<1>. QED
  BY <1>1, <1>2, <1>3 DEF Flushable, NatInv, NatTypes, Cached, Reading

(* write_checkpoint flushes the dirty entries and keeps the invariant.     *)
LEMMA NatCheckpoint == NatInv /\ write_checkpoint => NatInv'
<1>. SUFFICES ASSUME NatInv, write_checkpoint PROVE NatInv'
  OBVIOUS
<1>1. /\ cp.phase = "blocked" /\ cp' = [cp EXCEPT !.phase = "flushed"]
      /\ flush_nat_entries(cp.umount)
      /\ UNCHANGED <<disk, node, durable, reader>>
  BY DEF write_checkpoint, procs
<1>2. CASE Dirty(nat_root) = {}
  <2>1. UNCHANGED <<nat_root, journal, nat, nat_bitmap>>
    BY <1>1, <1>2 DEF flush_nat_entries, caches
  <2>2. cp'.phase = "flushed"
    BY <1>1 DEF NatInv, NatTypes, Phases
  <2>. QED
    BY <1>1, <1>2, <2>1, <2>2 DEF NatInv, NatTypes, Cached, Reading, Phases, DurableKept, Dirty
<1>3. CASE Dirty(nat_root) # {}
  <2>. DEFINE u == cp.umount
              m == IF MustMerge(u) THEN Merged ELSE NotMerged
              room == NAT_JOURNAL_ENTRIES - Cardinality(Journaled(m.journal))
  <2>1. PICK J \in (IF u /\ nat_bits.enabled THEN {{}} ELSE JournalSets(Dirty(m.nat_root), room)) :
          __flush_nat_entry_set(m, J)
    BY <1>1, <1>3 DEF flush_nat_entries
  <2>2. CASE MustMerge(u)
    <3>1. Flushable(m, J)
      BY <2>2, NatMerged
    <3>. HIDE DEF m
    <3>. QED
      BY <1>1, <2>1, <3>1, NatFlushSet
  <2>3. CASE ~MustMerge(u)
    <3>1. /\ ~(u /\ nat_bits.enabled)
          /\ ~(Cardinality(Dirty(nat_root)) > NAT_JOURNAL_ENTRIES - Cardinality(Journaled(journal)))
          /\ m = NotMerged
      BY <2>3 DEF MustMerge
    <3>2. IsFiniteSet(Nids)
      BY NatAssumption, FS_Interval DEF Nids, max_nid
    <3>3. IsFiniteSet(Dirty(nat_root)) /\ IsFiniteSet(Journaled(journal))
      BY <3>2, FS_Subset DEF Dirty, Journaled
    <3>4. /\ Cardinality(Dirty(nat_root)) \in Nat /\ Cardinality(Journaled(journal)) \in Nat
          /\ NAT_JOURNAL_ENTRIES \in Nat
      BY <3>3, FS_CardinalityType, NatAssumption
    <3>5. m.journal = journal /\ m.nat_root = nat_root
      BY <3>1 DEF NotMerged
    <3>6. J \in JournalSets(Dirty(nat_root), room)
      BY <2>1, <3>1, <3>5
    <3>7. room \in Int /\ Cardinality(Dirty(nat_root)) <= room
      BY <3>1, <3>4, <3>5
    <3>. HIDE DEF room, m
    <3>8. {NAT_BLOCK_OFFSET(n) : n \in Dirty(nat_root)} = J
      BY <3>3, <3>6, <3>7, NatAllFit
    <3>9. Flushable(m, J)
      BY <3>1, <3>8, NatNotMerged
    <3>. QED
      BY <1>1, <2>1, <3>9, NatFlushSet
  <2>. QED
    BY <2>2, <2>3
<1>. QED
  BY <1>2, <1>3

(* The pack refers to what was flushed: it is what the nodes' addresses    *)
(* are.                                                                    *)
LEMMA NatCommit == NatInv /\ do_checkpoint => NatInv'
<1>. SUFFICES ASSUME NatInv, do_checkpoint PROVE NatInv'
  OBVIOUS
<1>1. /\ cp.phase = "flushed" /\ durable' = node
      /\ disk'.nat_bitmap = nat_bitmap /\ disk'.journal = journal
      /\ UNCHANGED <<nat_root, journal, nat, nat_bitmap, node, reader>>
      /\ cp'.phase \in {"idle", "unmounted"}
  BY DEF do_checkpoint, caches, procs, NoCheckpoint
<1>2. \A n \in Nids : OnDisk(nat, nat_bitmap, journal)[n] = node[n]
  BY <1>1 DEF NatInv, Phases, Cached, Dirty
<1>3. OnDisk(nat, nat_bitmap, journal) = node
  BY <1>2, OnDiskType DEF NatInv, NatTypes
<1>4. node \in [Nids -> RawAddrs]
  BY <1>3, OnDiskType DEF NatInv, NatTypes
<1>5. NatTypes'
  BY <1>1, <1>4 DEF NatInv, NatTypes
<1>6. Cached' /\ Reading' /\ Phases'
  BY <1>1 DEF NatInv, Cached, Reading, Phases, Dirty
<1>7. DurableKept'
  BY <1>1, <1>3 DEF DurableKept
<1>. QED
  BY <1>5, <1>6, <1>7 DEF NatInv

(* A mount after a crash in any state finds the last checkpoint.           *)
LEMMA NatMount == NatInv /\ build_node_manager => NatInv'
<1>. SUFFICES ASSUME NatInv, build_node_manager PROVE NatInv'
  OBVIOUS
<1>1. /\ nat_root' = Unmapped /\ journal' = disk.journal /\ nat_bitmap' = disk.nat_bitmap
      /\ reader' = NoEntry /\ cp' = NoCheckpoint /\ node' = durable
      /\ UNCHANGED <<nat, disk, durable>>
  BY DEF build_node_manager
<1>2. Unmapped \in [Nids -> EntryType \cup {NoEntry}] /\ \A n \in Nids : Unmapped[n] = NoEntry
  BY DEF Unmapped
<1>3. NatTypes'
  BY <1>1, <1>2 DEF NatInv, NatTypes, NoCheckpoint, NodeAddrs
<1>4. OnDisk(nat, disk.nat_bitmap, disk.journal) = durable
  BY DEF NatInv, DurableKept
<1>5. Cached' /\ Reading' /\ Phases' /\ DurableKept'
  BY <1>1, <1>2, <1>4 DEF Cached, Reading, Phases, DurableKept, NoCheckpoint
<1>. QED
  BY <1>3, <1>5 DEF NatInv

(* Every step keeps the invariant.                                         *)
LEMMA NatStep == NatInv /\ [Next]_vars => NatInv'
<1>. SUFFICES ASSUME NatInv, [Next]_vars PROVE NatInv'
  OBVIOUS
<1>. USE DEF natVars, caches, builder, procs
<1>1. ASSUME NEW c \in Creators, alloc_nid(c) \/ alloc_nid_done(c) \/ alloc_nid_failed(c) PROVE NatInv'
  BY <1>1, NatFrame DEF alloc_nid, alloc_nid_done, alloc_nid_failed
<1>2. ASSUME NEW c \in Creators, new_node_page(c) PROVE NatInv'
  <2>1. OpLock /\ set_node_addr(nid[c], NEW_ADDR) /\ UNCHANGED <<disk, durable, reader, cp>>
    BY <1>2 DEF new_node_page
  <2>. QED
    BY <2>1, NatSetAddr DEF NodeAddrs
<1>3. ASSUME NEW n \in UserNids, NEW a \in Addrs, write_node_page(n, a) PROVE NatInv'
  <2>1. OpLock /\ set_node_addr(n, a) /\ UNCHANGED <<disk, durable, reader, cp>>
    BY <1>3 DEF write_node_page
  <2>. QED
    BY <2>1, NatSetAddr DEF NodeAddrs, RawAddrs
<1>4. ASSUME NEW n \in UserNids, truncate_node(n) PROVE NatInv'
  <2>1. OpLock /\ set_node_addr(n, NULL_ADDR) /\ UNCHANGED <<disk, durable, reader, cp>>
    BY <1>4 DEF truncate_node
  <2>. QED
    BY <2>1, NatSetAddr DEF NodeAddrs, RawAddrs
<1>5. UserNids \subseteq Nids
  BY NatAssumption DEF UserNids, Nids, max_nid
<1>6. ASSUME NEW n \in UserNids, get_node_info(n) PROVE NatInv'
  BY <1>5, <1>6, NatLookup
<1>7. ASSUME NEW n \in UserNids, try_to_free_nats(n) PROVE NatInv'
  BY <1>5, <1>7, NatEvict
<1>8. ASSUME build_free_nids \/ build_bits \/ build_bits_journal \/ build_pages
             \/ build_pages_journal \/ try_to_free_nids
      PROVE  NatInv'
  BY <1>8, NatFrame
  DEF build_free_nids, build_bits, build_bits_journal, build_pages, build_pages_journal, try_to_free_nids
<1>9. ASSUME NEW u \in BOOLEAN, block_operations(u) PROVE NatInv'
  BY <1>9 DEF block_operations, NatInv, NatTypes, Cached, Reading, Phases, DurableKept, Dirty
<1>10. ASSUME UNCHANGED vars PROVE NatInv'
  BY <1>10, NatFrame DEF vars
<1>. QED
  BY <1>1, <1>2, <1>3, <1>4, <1>6, <1>7, <1>8, <1>9, <1>10, NatCache, NatCheckpoint, NatCommit, NatMount
  DEF Next

----------------------------------------------------------------------------
(* The theorems                                                            *)

(* The node address table keeps its invariant through allocation, lookups  *)
(* that drop nat_tree_lock, eviction, merging, flushes, checkpoints and    *)
(* crashes.                                                                *)
THEOREM NatInductive == Spec => []NatInv
<1>. QED
  BY NatInit, NatStep, PTL DEF Spec

(* get_node_info finds the address that set_node_addr has set last, and a  *)
(* reader caches no other (f2fs_bug_on of cache_nat_entry).                *)
THEOREM AddressAlwaysFound == Spec => []AddressFound
<1>1. NatInv => AddressFound
  <2>. SUFFICES ASSUME NatInv PROVE AddressFound
    OBVIOUS
  <2>1. UserNids \subseteq Nids
    BY NatAssumption DEF UserNids, Nids, max_nid
  <2>2. \A n \in Nids : node[n] = IF nat_root[n] # NoEntry THEN nat_root[n].blk_addr
                                  ELSE OnDisk(nat, nat_bitmap, journal)[n]
    BY DEF NatInv, Cached
  <2>. QED
    BY <2>1, <2>2, NatReadAddr DEF AddressFound
<1>. QED
  BY <1>1, NatInductive, PTL

(* A crash at any moment brings back the addresses of the last checkpoint: *)
(* no flush writes to the copies of NAT blocks that it refers to.          *)
THEOREM CheckpointKept == Spec => []DurableKept
<1>1. NatInv => DurableKept
  BY DEF NatInv
<1>. QED
  BY <1>1, NatInductive, PTL
=============================================================================
