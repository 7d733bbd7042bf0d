------------------------------ MODULE Namespace ------------------------------
(***************************************************************************)
(* Names, link counts and orphans: the directory operations of namei.c,    *)
(* the eviction of inodes (inode.c) and the list of orphans that a         *)
(* checkpoint keeps for the next mount (checkpoint.c).                     *)
(*                                                                         *)
(* A directory is the map that module Directory shows it to be.  What an   *)
(* operation does under f2fs_lock_op is one step; checkpoints, crashes and *)
(* evictions come between the steps.  The locks of the directories allow   *)
(* one operation at a time; the VFS's checks are guards.                   *)
(*                                                                         *)
(* The name space s is a record                                            *)
(*   kind    of every inode: "free", "file" or "dir"                       *)
(*   nlink   its link count                                                *)
(*   up      the inode of the entry ".." of a directory                    *)
(*   dent    the entries of every directory, 0 for none                    *)
(*   orphans, ino_num    the orphan list and its count                     *)
(*   fsck    SBI_NEED_FSCK                                                 *)
(*   twin    the inode that a failed rename left with two names, or 0      *)
(*   err     the error of the step under way                               *)
(***************************************************************************)
EXTENDS Naturals, FiniteSets, FiniteSetsExt

CONSTANTS
    RootIno,        \* the root directory
    InoSet,         \* all inode numbers
    FileNames,      \* names of entries
    max_orphans,    \* limit of the orphan list
    F2FS_LINK_MAX,  \* limit of link counts
    WhiteoutKinds,  \* what RENAME_WHITEOUT is asked to move
    MaxCalls        \* bound on operations

ASSUME NamespaceAssumption ==
    /\ InoSet \subseteq Nat \ {0} /\ RootIno \in InoSet
    /\ IsFiniteSet(InoSet) /\ IsFiniteSet(FileNames)
    /\ max_orphans \in Nat \ {0} /\ F2FS_LINK_MAX \in Nat

VARIABLES
    ns,         \* the name space in memory
    image,      \* the last checkpoint
    held,       \* inodes that are open
    lost,       \* inodes whose eviction failed
    call,       \* the operation under way, between its steps
    calls       \* operations so far

nsVars == <<ns, image, held, lost, call, calls>>

NoCall == [op |-> "none"]
NsFail(s, e) == [s EXCEPT !.err = e]
Kind(s, i) == IF i = 0 THEN "none" ELSE s.kind[i]
NewInos == {i \in InoSet : ns.kind[i] = "free"}
Directories == {d \in InoSet : ns.kind[d] = "dir" /\ ns.nlink[d] > 0}

f2fs_empty_directory(s, d) == \A n \in FileNames : s.dent[d][n] = 0

\* The directories above d, and d.
Above(s, d) ==
    LET closed(S) == \A x \in InoSet : (\E n \in FileNames : s.dent[x][n] \in S) => x \in S
    IN {x \in InoSet : \A S \in SUBSET InoSet : d \in S /\ closed(S) => x \in S}

-----------------------------------------------------------------------------
(* Orphans and link counts                                                 *)

acquire_orphan_inode(s) ==
    IF s.ino_num >= max_orphans THEN NsFail(s, "ENOSPC") ELSE [s EXCEPT !.ino_num = @ + 1]

release_orphan_inode(s) == [s EXCEPT !.ino_num = @ - 1]

add_orphan_inode(s, i) == [s EXCEPT !.orphans = @ \cup {i}]

remove_orphan_inode(s, i) ==
    IF i \in s.orphans THEN [s EXCEPT !.orphans = @ \ {i}, !.ino_num = @ - 1] ELSE s

\* The reservation becomes an entry of the list, or is given back.
OrphanOrRelease(s, i) ==
    IF s.nlink[i] = 0 THEN add_orphan_inode(s, i) ELSE release_orphan_inode(s)

f2fs_set_dentry(s, d, n, i) == [s EXCEPT !.dent[d][n] = i]

f2fs_drop_nlink(s, d, i) ==
    OrphanOrRelease(
        IF s.kind[i] = "dir" THEN [s EXCEPT !.nlink[d] = @ - 1, !.nlink[i] = @ - 2]
        ELSE [s EXCEPT !.nlink[i] = @ - 1], i)

\* A new inode, with the link that new_inode gives it.
f2fs_new_inode(s, i, k, d) ==
    [s EXCEPT !.kind[i] = k, !.nlink[i] = 1, !.up[i] = d]

\* f2fs_add_link of a new inode; mkdir adds a link for "." and one for "..".
AddNewLink(s, d, n, i) ==
    LET t == f2fs_set_dentry(s, d, n, i)
    IN IF s.kind[i] = "dir" THEN [t EXCEPT !.nlink[i] = @ + 1, !.nlink[d] = @ + 1] ELSE t

\* f2fs_add_link with FI_INC_LINK of an inode that exists: an orphan is one no
\* longer.
AddLink(s, d, n, i) ==
    LET t == IF s.nlink[i] = 0 THEN remove_orphan_inode(s, i) ELSE s
    IN [f2fs_set_dentry(t, d, n, i) EXCEPT !.nlink[i] = @ + 1]

\* The inode of an operation that failed: with a block it becomes an orphan,
\* if the list has room, else its number is free again.
handle_failed_inode(s, i, block) ==
    LET t == [s EXCEPT !.nlink[i] = 0, !.err = ""]
        a == acquire_orphan_inode(t)
    IN IF ~block THEN [t EXCEPT !.kind[i] = "free"]
       ELSE IF a.err # "" THEN [t EXCEPT !.fsck = TRUE]
       ELSE add_orphan_inode(a, i)

\* A wrong variant: the reservation of an unlinked inode with other links is
\* not given back.
UnlinkKeepsSlot(s, d, n) ==
    LET i == s.dent[d][n]
        a == acquire_orphan_inode(s)
        t == f2fs_drop_nlink(f2fs_set_dentry(a, d, n, 0), d, i)
    IN IF a.err # "" THEN a ELSE IF t.nlink[i] > 0 THEN [t EXCEPT !.ino_num = @ + 1] ELSE t

f2fs_unlink(s, d, n) ==
    LET a == acquire_orphan_inode(s)
    IN IF a.err # "" THEN a
       ELSE f2fs_drop_nlink(f2fs_set_dentry(a, d, n, 0), d, s.dent[d][n])

\* A file without a name, or a whiteout: an orphan from the start.
__f2fs_tmpfile(s, i, d, outcome) ==
    LET new == f2fs_new_inode(s, i, "file", d)
        a == acquire_orphan_inode(new)
    IN IF a.err # "" THEN handle_failed_inode(new, i, FALSE)
       ELSE IF outcome # "ok"
       THEN handle_failed_inode(release_orphan_inode(a), i, outcome = "late")
       ELSE [add_orphan_inode(a, i) EXCEPT !.nlink[i] = 0]

\* A wrong variant: the parent keeps the link of the directory that left.
RenameKeepsLink(s, od, on, nd, nn, wh, found, wok) ==
    LET i == s.dent[od][on]
    IN IF s.dent[nd][nn] # 0 THEN NsFail(s, "EEXIST")
       ELSE [f2fs_set_dentry(f2fs_set_dentry(s, nd, nn, i), od, on, wh)
               EXCEPT !.nlink[nd] = IF s.kind[i] = "dir" THEN @ + 1 ELSE @,
                      !.up[i] = nd]

\* The locked part of a rename: the new entry is set or added, a replaced
\* inode loses its links, the old entry goes, a whiteout takes its place, and
\* a directory follows with ".." unless there is a whiteout.  If the new entry
\* made the directory of both give up its inline entries and the old one is
\* not found again, both names stay.  If the whiteout cannot be linked (wok)
\* the rest is left undone.
f2fs_rename(s, od, on, nd, nn, wh, found, wok) ==
    LET i == s.dent[od][on]
        j == s.dent[nd][nn]
        isdir == s.kind[i] = "dir"
        a == acquire_orphan_inode(s)
        replaced == OrphanOrRelease([f2fs_set_dentry(a, nd, nn, i) EXCEPT
                                       !.nlink[j] = @ - (IF isdir THEN 2 ELSE 1)], j)
        added == [f2fs_set_dentry(s, nd, nn, i) EXCEPT
                    !.nlink[nd] = IF isdir THEN @ + 1 ELSE @]
        gone == f2fs_set_dentry(IF j = 0 THEN added ELSE replaced, od, on, 0)
        white == IF wh = 0 THEN gone ELSE AddLink(gone, od, on, wh)
        moved == IF od # nd /\ wh = 0 THEN [white EXCEPT !.up[i] = nd] ELSE white
    IN IF j # 0 /\ isdir /\ ~f2fs_empty_directory(s, j) THEN NsFail(s, "ENOTEMPTY")
       ELSE IF j # 0 /\ a.err # "" THEN a
       ELSE IF j = 0 /\ ~found THEN NsFail([added EXCEPT !.twin = i], "ENOENT")
       ELSE IF wh # 0 /\ ~wok THEN NsFail(gone, "ENOSPC")
       ELSE IF isdir THEN [moved EXCEPT !.nlink[od] = @ - 1] ELSE white

\* Two entries change places; a directory and a file in different directories
\* move a link of their parents.
f2fs_cross_rename(s, od, on, nd, nn) ==
    LET i == s.dent[od][on]
        j == s.dent[nd][nn]
        idir == s.kind[i] = "dir" /\ od # nd
        jdir == s.kind[j] = "dir" /\ od # nd
        ups == [s EXCEPT !.up[i] = IF idir THEN nd ELSE @, !.up[j] = IF jdir THEN od ELSE @]
        t == f2fs_set_dentry(f2fs_set_dentry(ups, od, on, j), nd, nn, i)
        gains == IF idir THEN nd ELSE od
        loses == IF idir THEN od ELSE nd
    IN IF idir = jdir THEN t
       ELSE IF s.nlink[gains] >= F2FS_LINK_MAX THEN NsFail(s, "EMLINK")
       ELSE [t EXCEPT !.nlink[gains] = @ + 1, !.nlink[loses] = @ - 1]

-----------------------------------------------------------------------------
(* The state machine                                                       *)

EmptyNs ==
    [kind |-> [i \in InoSet |-> IF i = RootIno THEN "dir" ELSE "free"],
     nlink |-> [i \in InoSet |-> IF i = RootIno THEN 2 ELSE 0],
     up |-> [i \in InoSet |-> RootIno],
     dent |-> [d \in InoSet |-> [n \in FileNames |-> 0]],
     orphans |-> {}, ino_num |-> 0, fsck |-> FALSE, twin |-> 0, err |-> ""]

NsInit ==
    /\ ns = EmptyNs /\ image = EmptyNs
    /\ held = {} /\ lost = {} /\ call = NoCall /\ calls = 0

\* A name more than links is what no operation expects: none is begun.
CallCounted == ns.twin = 0 /\ calls < MaxCalls /\ calls' = calls + 1

\* An operation takes a step to name space s and goes on as c.
NsStep(s, c) ==
    /\ ns' = [s EXCEPT !.err = ""]
    /\ call' = c
    /\ UNCHANGED <<image, held, lost>>

\* Inode numbers are given out in order.
NewIno == Min(NewInos)

\* f2fs_create, f2fs_mknod, f2fs_mkdir.  The link may fail before or after the
\* inode has got its block.
MakeInode ==
    \E d \in Directories, n \in FileNames, k \in {"file", "dir"}, outcome \in {"ok", "early", "late"} :
        /\ call = NoCall /\ NewInos # {} /\ ns.dent[d][n] = 0 /\ CallCounted
        /\ k = "dir" => ns.nlink[d] < F2FS_LINK_MAX
        /\ LET new == f2fs_new_inode(ns, NewIno, k, d)
           IN NsStep(IF outcome = "ok" THEN AddNewLink(new, d, n, NewIno)
                     ELSE handle_failed_inode(new, NewIno, outcome = "late"), NoCall)

\* f2fs_symlink adds the link first and then writes where it leads.
Symlink ==
    \E d \in Directories, n \in FileNames :
        /\ call = NoCall /\ NewInos # {} /\ ns.dent[d][n] = 0 /\ CallCounted
        /\ NsStep(AddNewLink(f2fs_new_inode(ns, NewIno, "file", d), d, n, NewIno),
                  [op |-> "symlink", d |-> d, n |-> n])

\* If that fails the name goes again.
SymlinkWritten ==
    /\ call.op = "symlink"
    /\ \E ok \in BOOLEAN : NsStep(IF ok THEN ns ELSE f2fs_unlink(ns, call.d, call.n), NoCall)
    /\ UNCHANGED calls

\* f2fs_link, also of a file without a name that is open and may be linked.
LinkInode ==
    \E d \in Directories, n \in FileNames, i \in InoSet, ok \in BOOLEAN :
        /\ call = NoCall /\ ns.kind[i] = "file" /\ ns.dent[d][n] = 0 /\ CallCounted
        /\ ns.nlink[i] > 0 \/ i \in held
        /\ ns.nlink[i] < F2FS_LINK_MAX
        /\ NsStep(IF ok THEN AddLink(ns, d, n, i) ELSE ns, NoCall)

\* f2fs_unlink and f2fs_rmdir.
UnlinkName ==
    \E d \in Directories, n \in FileNames :
        /\ call = NoCall /\ ns.dent[d][n] # 0 /\ CallCounted
        /\ ns.kind[ns.dent[d][n]] = "dir" => f2fs_empty_directory(ns, ns.dent[d][n])
        /\ NsStep(f2fs_unlink(ns, d, n), NoCall)

\* O_TMPFILE: the file is open.
Tmpfile ==
    \E d \in Directories, outcome \in {"ok", "early", "late"} :
        /\ call = NoCall /\ NewInos # {} /\ CallCounted
        /\ LET s == __f2fs_tmpfile(ns, NewIno, d, outcome)
           IN /\ ns' = [s EXCEPT !.err = ""]
              /\ held' = IF outcome = "ok" /\ NewIno \in s.orphans
                         THEN held \cup {NewIno} ELSE held
              /\ UNCHANGED <<image, lost, call>>

\* What the VFS allows: the kinds fit and no directory moves into itself.
MayRename(od, on, nd, nn) ==
    LET i == ns.dent[od][on]
        j == ns.dent[nd][nn]
    IN /\ i # 0 /\ i # j /\ i \notin Above(ns, nd)
       /\ j # 0 => (ns.kind[i] = ns.kind[j])
       /\ ns.kind[i] = "dir" /\ j = 0 => ns.nlink[nd] < F2FS_LINK_MAX

\* RENAME_WHITEOUT first makes the whiteout.
StartRename ==
    \E od, nd \in Directories, on, nn \in FileNames, white \in BOOLEAN,
       outcome \in {"ok", "early"} :
        LET s == __f2fs_tmpfile(ns, NewIno, od, outcome)
            c == [op |-> "rename", od |-> od, on |-> on, nd |-> nd, nn |-> nn, wh |-> 0]
        IN /\ call = NoCall /\ CallCounted /\ MayRename(od, on, nd, nn)
           /\ \/ /\ ~white /\ outcome = "ok"
                 /\ NsStep(ns, c)
              \/ /\ white /\ NewInos # {} /\ ns.kind[ns.dent[od][on]] \in WhiteoutKinds
                 /\ NsStep(s, IF NewIno \in s.orphans THEN [c EXCEPT !.wh = NewIno] ELSE NoCall)

\* An error, also of f2fs_add_link, leaves the whiteout to its eviction.
FinishRename ==
    /\ call.op = "rename"
    /\ \E ok, wok, found \in BOOLEAN :
        /\ ns.dent[call.nd][call.nn] # 0 => ok
        /\ call.od # call.nd => found
        /\ NsStep(IF ok THEN f2fs_rename(ns, call.od, call.on, call.nd, call.nn, call.wh, found, wok)
                  ELSE ns, NoCall)
    /\ UNCHANGED calls

ExchangeNames ==
    \E od, nd \in Directories, on, nn \in FileNames :
        LET i == ns.dent[od][on]
            j == ns.dent[nd][nn]
        IN /\ call = NoCall /\ CallCounted
           /\ i # 0 /\ j # 0 /\ i # j /\ i \notin Above(ns, nd) /\ j \notin Above(ns, od)
           /\ NsStep(f2fs_cross_rename(ns, od, on, nd, nn), NoCall)

OpenFile ==
    \E i \in InoSet :
        /\ ns.kind[i] = "file" /\ ns.nlink[i] > 0 /\ i \notin held
        /\ held' = held \cup {i}
        /\ UNCHANGED <<ns, image, lost, call, calls>>

CloseFile ==
    \E i \in held :
        /\ held' = held \ {i}
        /\ UNCHANGED <<ns, image, lost, call, calls>>

\* The last reference to an inode without links goes.  If its blocks cannot be
\* truncated it stays for the next mount.
f2fs_evict_inode ==
    \E i \in InoSet, ok \in BOOLEAN :
        /\ ns.kind[i] # "free" /\ ns.nlink[i] = 0 /\ i \notin held \cup lost
        /\ call.op = "rename" => i # call.wh
        /\ ns' = IF ok THEN [remove_orphan_inode(ns, i) EXCEPT !.kind[i] = "free"] ELSE ns
        /\ lost' = IF ok THEN lost ELSE lost \cup {i}
        /\ UNCHANGED <<image, held, call, calls>>

WriteCheckpoint ==
    /\ image' = ns
    /\ UNCHANGED <<ns, held, lost, call, calls>>

\* After a crash the mount takes the checkpoint and evicts its orphans,
\* whatever their link counts say.
recover_orphan_inodes ==
    /\ ns' = [image EXCEPT !.kind = [i \in InoSet |-> IF i \in image.orphans THEN "free" ELSE @[i]],
                           !.nlink = [i \in InoSet |-> IF i \in image.orphans THEN 0 ELSE @[i]],
                           !.orphans = {}, !.ino_num = 0]
    /\ call' = NoCall /\ held' = {} /\ lost' = {}
    /\ UNCHANGED <<image, calls>>

NsNext ==
    \/ MakeInode \/ Symlink \/ SymlinkWritten \/ LinkInode \/ UnlinkName \/ Tmpfile
    \/ StartRename \/ FinishRename \/ ExchangeNames \/ OpenFile \/ CloseFile
    \/ f2fs_evict_inode \/ WriteCheckpoint \/ recover_orphan_inodes

NsSpec == NsInit /\ [][NsNext]_nsVars

-----------------------------------------------------------------------------
(* Properties                                                              *)

\* Where an inode is named.
NamedAt(s, i) == {x \in InoSet \X FileNames : s.dent[x[1]][x[2]] = i}
Subdirs(s, d) == {n \in FileNames : Kind(s, s.dent[d][n]) = "dir"}

\* Link counts are exact after every step of every operation, also one that
\* fails half-way or follows a crash: a file has as many links as names, a
\* directory one name, two links and one for each name of a directory in it,
\* ".." leads to the directory that names it, and no name leads to a free
\* inode.  The one exception is the inode that a rename within a directory
\* left with both names (f2fs_rename, the old entry not found again): a file
\* has then one name more than links, a directory two names in its parent.
LinksExact ==
    /\ \A i \in InoSet : NamedAt(ns, i) # {} => ns.kind[i] # "free" /\ ns.nlink[i] > 0
    /\ \A i \in InoSet :
        /\ ns.kind[i] = "file" =>
             ns.nlink[i] + (IF i = ns.twin THEN 1 ELSE 0) = Cardinality(NamedAt(ns, i))
        /\ ns.kind[i] = "dir" /\ ns.nlink[i] > 0 =>
             /\ ns.nlink[i] = 2 + Cardinality(Subdirs(ns, i))
             /\ i # RootIno => \E n, m \in FileNames :
                  /\ NamedAt(ns, i) = {<<ns.up[i], n>>, <<ns.up[i], m>>}
                  /\ n # m <=> i = ns.twin
        /\ ns.kind[i] # "dir" \/ ns.nlink[i] = 0 => f2fs_empty_directory(ns, i)

\* The orphans are exactly the inodes without a link, in memory and in the
\* checkpoint that a crash goes back to, so that the next mount frees what
\* nobody can reach and nothing else; and every place of the orphan list that
\* an operation has reserved was used or given back, on all error paths.  Only
\* a list without room leaves an inode behind, for fsck.
OrphansExact ==
    \A s \in {ns, image} :
        LET nolink == {i \in InoSet : s.kind[i] # "free" /\ s.nlink[i] = 0}
        IN /\ s.orphans \subseteq nolink
           /\ nolink = s.orphans \/ s.fsck
           /\ s.ino_num = Cardinality(s.orphans)
=============================================================================
