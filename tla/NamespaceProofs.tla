--------------------------- MODULE NamespaceProofs ---------------------------
(***************************************************************************)
(* Theorems about Namespace: link counts, ".." entries and the list of     *)
(* orphans are exact after every step of every operation, for any number   *)
(* of inodes and names.  And about Directory: one directory is the map     *)
(* from names to inodes that Namespace takes it for, whatever the hashes   *)
(* and the sizes of names, blocks, buckets and inodes.                     *)
(*                                                                         *)
(* The argument for Namespace is about four functions of a name space: k,  *)
(* the kinds of the inodes, l, their link counts, u, their ".." entries,   *)
(* and e, the entries of the directories.  The one for Directory is about  *)
(* the set of its entries with their blocks.                               *)
(***************************************************************************)
EXTENDS Namespace, Directory, TLAPS, FiniteSetTheorems, WellFoundedInduction, NaturalsInduction

Kinds == {"free", "file", "dir"}
KindType == [InoSet -> Kinds]
LinkType == [InoSet -> Nat]
UpType == [InoSet -> InoSet]
DentType == [InoSet -> [FileNames -> InoSet \cup {0}]]
TreeType(k, l, u, e) == k \in KindType /\ l \in LinkType /\ u \in UpType /\ e \in DentType

(* Where inode i is named, and the entries of d that are directories.      *)
Named(e, i) == {x \in InoSet \X FileNames : e[x[1]][x[2]] = i}
Subs(k, e, d) == {n \in FileNames : e[d][n] # 0 /\ k[e[d][n]] = "dir"}

(* The links of inode i are exact.                                         *)
LinksOf(k, l, u, e, i) ==
    /\ Named(e, i) # {} => k[i] # "free" /\ l[i] > 0
    /\ k[i] = "file" => l[i] = Cardinality(Named(e, i))
    /\ k[i] = "dir" /\ l[i] > 0 =>
         /\ l[i] = 2 + Cardinality(Subs(k, e, i))
         /\ i # RootIno => \E n \in FileNames : Named(e, i) = {<<u[i], n>>}
    /\ k[i] # "dir" \/ l[i] = 0 => \A n \in FileNames : e[i][n] = 0

(* So are all; the root has no name, and no directory names itself.        *)
Tree(k, l, u, e) ==
    /\ TreeType(k, l, u, e)
    /\ \A i \in InoSet : LinksOf(k, l, u, e, i)
    /\ k[RootIno] = "dir" /\ l[RootIno] > 0 /\ Named(e, RootIno) = {}
    /\ \A d \in InoSet, n \in FileNames : e[d][n] # d

----------------------------------------------------------------------------
(* Sets of names                                                           *)

(* One element more, one less.                                             *)
LEMMA OneMore ==
    ASSUME NEW S, IsFiniteSet(S), NEW x, x \notin S
    PROVE  Cardinality(S \cup {x}) = Cardinality(S) + 1
BY FS_AddElement

(* Taking an element away makes a finite set one smaller.                  *)
LEMMA OneLess ==
    ASSUME NEW S, IsFiniteSet(S), NEW x \in S
    PROVE  Cardinality(S \ {x}) = Cardinality(S) - 1
BY FS_RemoveElement

(* Nothing to take away.                                                   *)
LEMMA NoneLess ==
    ASSUME NEW S, NEW x, x \notin S
    PROVE  S \ {x} = S
OBVIOUS

(* A place of the list taken and given back.                               *)
LEMMA Back == \A x \in Nat : (x + 1) - 1 = x
OBVIOUS

(* A positive number is not zero.                                          *)
LEMMA NotZero == \A x \in Nat : x > 0 => x # 0
OBVIOUS

(* A natural number is zero or positive.                                   *)
LEMMA Positive == \A x \in Nat : x = 0 \/ x > 0
OBVIOUS

(* Both kinds of sets are finite.                                          *)
LEMMA NamedFinite ==
    ASSUME NEW e, NEW i
    PROVE  IsFiniteSet(Named(e, i)) /\ Cardinality(Named(e, i)) \in Nat
<1>1. IsFiniteSet(InoSet \X FileNames)
  BY NamespaceAssumption, FS_Product
<1>2. Named(e, i) \subseteq InoSet \X FileNames
  BY DEF Named
<1>3. IsFiniteSet(Named(e, i))
  BY <1>1, <1>2, FS_Subset
<1>. QED
  BY <1>3, FS_CardinalityType

(* The sub-directories a directory names are finitely many.                *)
LEMMA SubsFinite ==
    ASSUME NEW k, NEW e, NEW d
    PROVE  IsFiniteSet(Subs(k, e, d)) /\ Cardinality(Subs(k, e, d)) \in Nat
<1>1. Subs(k, e, d) \subseteq FileNames
  BY DEF Subs
<1>2. IsFiniteSet(Subs(k, e, d))
  BY <1>1, NamespaceAssumption, FS_Subset
<1>. QED
  BY <1>2, FS_CardinalityType

(* f2fs_set_dentry: e2 differs from e in the entry n of d, which is v.     *)
Entered(k, e, d, n, v, e2) ==
    /\ e2 \in DentType /\ e2[d][n] = v
    /\ \A x \in InoSet, m \in FileNames : x # d \/ m # n => e2[x][m] = e[x][m]
    /\ \A i \in InoSet \ {v} : Named(e2, i) = Named(e, i) \ {<<d, n>>}
    /\ v # 0 => Named(e2, v) = Named(e, v) \cup {<<d, n>>}
    /\ \A x \in InoSet \ {d} : Subs(k, e2, x) = Subs(k, e, x)
    /\ Subs(k, e2, d) = IF v # 0 /\ k[v] = "dir" THEN Subs(k, e, d) \cup {n}
                        ELSE Subs(k, e, d) \ {n}

(* Writing one entry changes the names and the sub-directories as Entered  *)
(* says.                                                                   *)
LEMMA EnterIs ==
    ASSUME NEW k, NEW e \in DentType, NEW d \in InoSet, NEW n \in FileNames,
           NEW v \in InoSet \cup {0}, NEW e2, e2 = [e EXCEPT ![d][n] = v]
    PROVE  Entered(k, e, d, n, v, e2)
<1>1. e2 = [e EXCEPT ![d] = [e[d] EXCEPT ![n] = v]]
  BY DEF DentType
<1>2. e[d] \in [FileNames -> InoSet \cup {0}]
  BY DEF DentType
<1>. DEFINE f == [e[d] EXCEPT ![n] = v]
<1>3. f \in [FileNames -> InoSet \cup {0}] /\ f[n] = v /\ \A m \in FileNames \ {n} : f[m] = e[d][m]
  BY <1>2
<1>. HIDE DEF f
<1>4. e2 \in DentType /\ e2[d] = f /\ \A x \in InoSet \ {d} : e2[x] = e[x]
  BY <1>1, <1>3 DEF DentType, f
<1>5. e2[d][n] = v /\ \A x \in InoSet, m \in FileNames : x # d \/ m # n => e2[x][m] = e[x][m]
  BY <1>3, <1>4
<1>6. ASSUME NEW i, i \in InoSet, i # v PROVE Named(e2, i) = Named(e, i) \ {<<d, n>>}
  <2>1. ASSUME NEW x \in InoSet, NEW m \in FileNames
        PROVE  <<x, m>> \in Named(e2, i) <=> <<x, m>> \in Named(e, i) \ {<<d, n>>}
    BY <1>5, <1>6 DEF Named
  <2>. QED
    BY <2>1 DEF Named
<1>7. ASSUME v # 0 PROVE Named(e2, v) = Named(e, v) \cup {<<d, n>>}
  <2>1. ASSUME NEW x \in InoSet, NEW m \in FileNames
        PROVE  <<x, m>> \in Named(e2, v) <=> <<x, m>> \in Named(e, v) \cup {<<d, n>>}
    BY <1>5, <1>7 DEF Named
  <2>. QED
    BY <2>1 DEF Named
<1>8. \A x \in InoSet \ {d} : Subs(k, e2, x) = Subs(k, e, x)
  BY <1>4 DEF Subs
<1>9. Subs(k, e2, d) = IF v # 0 /\ k[v] = "dir" THEN Subs(k, e, d) \cup {n}
                       ELSE Subs(k, e, d) \ {n}
  BY <1>5 DEF Subs
<1>. QED
  BY <1>4, <1>5, <1>6, <1>7, <1>8, <1>9 DEF Entered

----------------------------------------------------------------------------
(* The steps that keep a tree                                              *)

(* A file gets one more name.                                              *)
LEMMA AddFile ==
    ASSUME NEW k, NEW l, NEW u, NEW e, Tree(k, l, u, e),
           NEW d \in InoSet, k[d] = "dir", l[d] > 0, NEW n \in FileNames, e[d][n] = 0,
           NEW i \in InoSet, k[i] = "file",
           NEW l2, l2 = [l EXCEPT ![i] = @ + 1], NEW e2, e2 = [e EXCEPT ![d][n] = i]
    PROVE  Tree(k, l2, u, e2)
<1>1. /\ k \in KindType /\ l \in LinkType /\ u \in UpType /\ e \in DentType
      /\ \A j \in InoSet : LinksOf(k, l, u, e, j)
  BY DEF Tree, TreeType
<1>2. Entered(k, e, d, n, i, e2)
  BY <1>1, EnterIs
<1>3. i # 0 /\ i # RootIno /\ i # d
  BY NamespaceAssumption DEF Tree
<1>4. /\ e2 \in DentType /\ e2[d][n] = i
      /\ \A x \in InoSet, m \in FileNames : x # d \/ m # n => e2[x][m] = e[x][m]
      /\ \A j \in InoSet \ {i} : Named(e2, j) = Named(e, j) \ {<<d, n>>}
      /\ Named(e2, i) = Named(e, i) \cup {<<d, n>>}
      /\ \A x \in InoSet \ {d} : Subs(k, e2, x) = Subs(k, e, x)
      /\ Subs(k, e2, d) = Subs(k, e, d) \ {n}
  BY <1>2, <1>3 DEF Entered
<1>5. l2 \in LinkType /\ l2[i] = l[i] + 1 /\ \A j \in InoSet \ {i} : l2[j] = l[j]
  BY <1>1 DEF LinkType
<1>6. \A x \in InoSet : Subs(k, e2, x) = Subs(k, e, x)
  BY <1>4 DEF Subs
<1>7. \A j \in InoSet \ {i} : Named(e2, j) = Named(e, j)
  <2>. SUFFICES ASSUME NEW j \in InoSet \ {i} PROVE Named(e2, j) = Named(e, j)
    OBVIOUS
  <2>1. <<d, n>> \notin Named(e, j)
    BY NamespaceAssumption DEF Named
  <2>2. Named(e2, j) = Named(e, j) \ {<<d, n>>}
    BY <1>4
  <2>. QED
    BY <2>1, <2>2, NoneLess, Zenon
<1>8. Cardinality(Named(e2, i)) = Cardinality(Named(e, i)) + 1 /\ Cardinality(Named(e, i)) \in Nat
  <2>1. <<d, n>> \notin Named(e, i)
    BY <1>3 DEF Named
  <2>2. IsFiniteSet(Named(e, i)) /\ Cardinality(Named(e, i)) \in Nat
    BY NamedFinite
  <2>3. Cardinality(Named(e, i) \cup {<<d, n>>}) = Cardinality(Named(e, i)) + 1
    BY <2>1, <2>2, OneMore
  <2>. QED
    BY <1>4, <2>2, <2>3
<1>9. LinksOf(k, l2, u, e2, i)
  <2>1. \A m \in FileNames : e2[i][m] = 0
    BY <1>1, <1>3, <1>4 DEF LinksOf
  <2>. QED
    BY <1>1, <1>5, <1>8, <2>1 DEF LinksOf
<1>10. ASSUME NEW j \in InoSet, j # i PROVE LinksOf(k, l2, u, e2, j)
  <2>1. LinksOf(k, l, u, e, j) /\ Named(e2, j) = Named(e, j) /\ Subs(k, e2, j) = Subs(k, e, j)
        /\ l2[j] = l[j]
    BY <1>1, <1>5, <1>6, <1>7, <1>10
  <2>2. k[j] # "dir" \/ l2[j] = 0 => \A m \in FileNames : e2[j][m] = 0
    BY <1>4, <2>1 DEF LinksOf
  <2>. QED
    BY <2>1, <2>2, Zenon DEF LinksOf
<1>11. \A x \in InoSet, m \in FileNames : e2[x][m] # x
  BY <1>3, <1>4 DEF Tree
<1>12. k[RootIno] = "dir" /\ l2[RootIno] > 0 /\ Named(e2, RootIno) = {}
  BY <1>3, <1>5, <1>7, NamespaceAssumption DEF Tree
<1>. QED
  BY <1>1, <1>4, <1>5, <1>9, <1>10, <1>11, <1>12 DEF Tree, TreeType

(* The links of a new directory i and of its parent d.                     *)
NewDirLinks(l, d, i, l2) ==
    /\ l2 \in LinkType /\ l2[i] = 2 /\ l2[d] = l[d] + 1
    /\ \A j \in InoSet \ {i, d} : l2[j] = l[j]

(* A directory gets its name, its two links and one of its parent.         *)
LEMMA AddDir ==
    ASSUME NEW k, NEW l, NEW u, NEW e, Tree(k, l, u, e),
           NEW d \in InoSet, k[d] = "dir", l[d] > 0, NEW n \in FileNames, e[d][n] = 0,
           NEW i \in InoSet, k[i] = "dir", l[i] = 0, u[i] = d,
           NEW l2, NewDirLinks(l, d, i, l2), NEW e2, e2 = [e EXCEPT ![d][n] = i]
    PROVE  Tree(k, l2, u, e2)
<1>. USE DEF NewDirLinks
<1>1. /\ k \in KindType /\ l \in LinkType /\ u \in UpType /\ e \in DentType
      /\ \A j \in InoSet : LinksOf(k, l, u, e, j)
  BY DEF Tree, TreeType
<1>2. Entered(k, e, d, n, i, e2)
  BY <1>1, EnterIs
<1>3. i # 0 /\ i # RootIno /\ i # d
  BY NamespaceAssumption DEF Tree
<1>4. /\ e2 \in DentType /\ e2[d][n] = i
      /\ \A x \in InoSet, m \in FileNames : x # d \/ m # n => e2[x][m] = e[x][m]
      /\ \A j \in InoSet \ {i} : Named(e2, j) = Named(e, j) \ {<<d, n>>}
      /\ Named(e2, i) = Named(e, i) \cup {<<d, n>>}
      /\ \A x \in InoSet \ {d} : Subs(k, e2, x) = Subs(k, e, x)
      /\ Subs(k, e2, d) = Subs(k, e, d) \cup {n}
  BY <1>2, <1>3 DEF Entered
<1>5. \A j \in InoSet \ {i} : Named(e2, j) = Named(e, j)
  <2>. SUFFICES ASSUME NEW j \in InoSet \ {i} PROVE Named(e2, j) = Named(e, j)
    OBVIOUS
  <2>1. <<d, n>> \notin Named(e, j)
    BY NamespaceAssumption DEF Named
  <2>2. Named(e2, j) = Named(e, j) \ {<<d, n>>}
    BY <1>4
  <2>. QED
    BY <2>1, <2>2, NoneLess, Zenon
<1>6. Cardinality(Subs(k, e2, d)) = Cardinality(Subs(k, e, d)) + 1
      /\ Cardinality(Subs(k, e, d)) \in Nat
  <2>1. n \notin Subs(k, e, d)
    BY DEF Subs
  <2>2. IsFiniteSet(Subs(k, e, d)) /\ Cardinality(Subs(k, e, d)) \in Nat
    BY SubsFinite
  <2>3. Cardinality(Subs(k, e, d) \cup {n}) = Cardinality(Subs(k, e, d)) + 1
    BY <2>1, <2>2, OneMore
  <2>. QED
    BY <1>4, <2>2, <2>3
<1>7. LinksOf(k, l2, u, e2, i)
  <2>1. LinksOf(k, l, u, e, i)
    BY <1>1
  <2>2. Named(e, i) = {} /\ \A m \in FileNames : e[i][m] = 0
    BY <2>1 DEF LinksOf
  <2>3. Named(e2, i) = {<<u[i], n>>} /\ \A m \in FileNames : e2[i][m] = 0
    BY <1>3, <1>4, <2>2
  <2>4. Subs(k, e2, i) = {}
    BY <2>3 DEF Subs
  <2>5. l2[i] = 2 + Cardinality(Subs(k, e2, i))
    <3>1. Cardinality(Subs(k, e2, i)) = 0
      BY <2>4, FS_EmptySet
    <3>. QED
      BY <3>1
  <2>6. l2[i] > 0 /\ k[i] # "free" /\ k[i] # "file"
    OBVIOUS
  <2>. QED
    BY <2>3, <2>5, <2>6, Zenon DEF LinksOf
<1>8. LinksOf(k, l2, u, e2, d)
  <2>1. LinksOf(k, l, u, e, d) /\ Named(e2, d) = Named(e, d)
    BY <1>1, <1>3, <1>5
  <2>2. l2[d] > 0 /\ l2[d] = 2 + Cardinality(Subs(k, e2, d))
    BY <1>6, <2>1 DEF LinksOf
  <2>3. k[d] # "free" /\ k[d] # "file" /\ l2[d] # 0
    BY <2>2
  <2>. QED
    BY <2>1, <2>2, <2>3, Zenon DEF LinksOf
<1>9. ASSUME NEW j \in InoSet, j # i, j # d PROVE LinksOf(k, l2, u, e2, j)
  <2>1. LinksOf(k, l, u, e, j) /\ Named(e2, j) = Named(e, j) /\ Subs(k, e2, j) = Subs(k, e, j)
        /\ l2[j] = l[j]
    BY <1>1, <1>4, <1>5, <1>9
  <2>2. k[j] # "dir" \/ l2[j] = 0 => \A m \in FileNames : e2[j][m] = 0
    BY <1>4, <1>9, <2>1 DEF LinksOf
  <2>. QED
    BY <2>1, <2>2, Zenon DEF LinksOf
<1>10. \A x \in InoSet, m \in FileNames : e2[x][m] # x
  BY <1>3, <1>4 DEF Tree
<1>11. k[RootIno] = "dir" /\ l2[RootIno] > 0 /\ Named(e2, RootIno) = {}
  <2>1. RootIno \in InoSet /\ k[RootIno] = "dir" /\ l[RootIno] > 0 /\ Named(e, RootIno) = {}
    BY NamespaceAssumption DEF Tree
  <2>2. l2[RootIno] > 0
    BY <1>1, <1>3, <2>1 DEF LinkType
  <2>. QED
    BY <1>3, <1>5, <2>1, <2>2
<1>. QED
  BY <1>1, <1>4, <1>7, <1>8, <1>9, <1>10, <1>11 DEF Tree, TreeType

(* Nobody names inode i and it names nobody.                               *)
Alone(e, i) == Named(e, i) = {} /\ i # RootIno /\ \A n \in FileNames : e[i][n] = 0

(* It has no link in l2, else l2 is l; and with kinds and ".." entries.    *)
NoLink(l, i, l2) == l2 \in LinkType /\ l2[i] = 0 /\ \A j \in InoSet \ {i} : l2[j] = l[j]
Other(k, l, u, i, k2, l2, u2) ==
    /\ NoLink(l, i, l2)
    /\ k2 \in KindType /\ \A j \in InoSet \ {i} : k2[j] = k[j]
    /\ u2 \in UpType /\ \A j \in InoSet \ {i} : u2[j] = u[j]

(* Such an inode may become anything without a link: new, an orphan, free. *)
LEMMA Renew ==
    ASSUME NEW k, NEW l, NEW u, NEW e, Tree(k, l, u, e), NEW i \in InoSet, Alone(e, i),
           NEW k2, NEW l2, NEW u2, Other(k, l, u, i, k2, l2, u2)
    PROVE  Tree(k2, l2, u2, e)
<1>. USE DEF Alone, NoLink, Other
<1>1. /\ k \in KindType /\ e \in DentType /\ \A j \in InoSet : LinksOf(k, l, u, e, j)
  BY DEF Tree, TreeType
<1>2. \A d \in InoSet, n \in FileNames : e[d][n] # i /\ (e[d][n] # 0 => e[d][n] \in InoSet)
  <2>1. ASSUME NEW d \in InoSet, NEW n \in FileNames PROVE e[d][n] # i /\ e[d][n] \in InoSet \cup {0}
    <3>1. <<d, n>> \notin Named(e, i)
      OBVIOUS
    <3>. QED
      BY <1>1, <3>1 DEF Named, DentType
  <2>. QED
    BY <2>1
<1>3. \A d \in InoSet : Subs(k2, e, d) = Subs(k, e, d)
  BY <1>2 DEF Subs
<1>4. LinksOf(k2, l2, u2, e, i)
  BY FS_EmptySet DEF LinksOf
<1>5. ASSUME NEW j \in InoSet, j # i PROVE LinksOf(k2, l2, u2, e, j)
  <2>1. LinksOf(k, l, u, e, j) /\ Subs(k2, e, j) = Subs(k, e, j)
        /\ k2[j] = k[j] /\ l2[j] = l[j] /\ u2[j] = u[j]
    BY <1>1, <1>3, <1>5
  <2>. QED
    BY <2>1, Zenon DEF LinksOf
<1>6. k2[RootIno] = "dir" /\ l2[RootIno] > 0 /\ Named(e, RootIno) = {}
  BY NamespaceAssumption DEF Tree
<1>. QED
  BY <1>1, <1>4, <1>5, <1>6 DEF Tree, TreeType

(* A file loses a name.                                                    *)
LEMMA DropFile ==
    ASSUME NEW k, NEW l, NEW u, NEW e, Tree(k, l, u, e),
           NEW d \in InoSet, NEW n \in FileNames, NEW i, i = e[d][n], i # 0, k[i] = "file",
           NEW l2, l2 = [l EXCEPT ![i] = @ - 1], NEW e2, e2 = [e EXCEPT ![d][n] = 0]
    PROVE  Tree(k, l2, u, e2)
<1>1. /\ k \in KindType /\ l \in LinkType /\ u \in UpType /\ e \in DentType
      /\ \A j \in InoSet : LinksOf(k, l, u, e, j)
  BY DEF Tree, TreeType
<1>2. Entered(k, e, d, n, 0, e2)
  BY <1>1, EnterIs
<1>3. i \in InoSet /\ i # RootIno /\ i # d /\ 0 \notin InoSet
  BY <1>1, NamespaceAssumption DEF Tree, DentType
<1>4. /\ e2 \in DentType /\ e2[d][n] = 0
      /\ \A x \in InoSet, m \in FileNames : x # d \/ m # n => e2[x][m] = e[x][m]
      /\ \A j \in InoSet : Named(e2, j) = Named(e, j) \ {<<d, n>>}
      /\ \A x \in InoSet \ {d} : Subs(k, e2, x) = Subs(k, e, x)
      /\ Subs(k, e2, d) = Subs(k, e, d) \ {n}
  BY <1>2, <1>3 DEF Entered
<1>5. <<d, n>> \in Named(e, i)
  BY <1>3 DEF Named
<1>6. l[i] > 0
  BY <1>1, <1>3, <1>5 DEF LinksOf
<1>7. l2 \in LinkType /\ l2[i] = l[i] - 1 /\ \A j \in InoSet \ {i} : l2[j] = l[j]
  BY <1>1, <1>3, <1>6 DEF LinkType
<1>8. \A x \in InoSet : Subs(k, e2, x) = Subs(k, e, x)
  BY <1>4 DEF Subs
<1>9. \A j \in InoSet \ {i} : Named(e2, j) = Named(e, j)
  BY <1>4 DEF Named
<1>10. Cardinality(Named(e2, i)) = Cardinality(Named(e, i)) - 1
  BY <1>3, <1>4, <1>5, NamedFinite, OneLess
<1>11. LinksOf(k, l2, u, e2, i)
  <2>1. LinksOf(k, l, u, e, i)
    BY <1>1, <1>3
  <2>2. \A m \in FileNames : e2[i][m] = 0
    BY <1>3, <1>4, <2>1 DEF LinksOf
  <2>3. l2[i] = Cardinality(Named(e2, i))
    BY <1>7, <1>10, <2>1 DEF LinksOf
  <2>4. Named(e2, i) # {} => l2[i] > 0
    <3>1. l2[i] \in Nat
      BY <1>3, <1>7 DEF LinkType
    <3>2. l2[i] = 0 => Named(e2, i) = {}
      BY <2>3, NamedFinite, FS_EmptySet
    <3>3. l2[i] = 0 \/ l2[i] > 0
      BY <3>1, Positive, Zenon
    <3>. QED
      BY <3>2, <3>3, Zenon
  <2>. QED
    BY <2>2, <2>3, <2>4 DEF LinksOf
<1>12. ASSUME NEW j \in InoSet, j # i PROVE LinksOf(k, l2, u, e2, j)
  <2>1. LinksOf(k, l, u, e, j) /\ Named(e2, j) = Named(e, j) /\ Subs(k, e2, j) = Subs(k, e, j)
        /\ l2[j] = l[j]
    BY <1>1, <1>7, <1>8, <1>9, <1>12
  <2>2. k[j] # "dir" \/ l2[j] = 0 => \A m \in FileNames : e2[j][m] = 0
    BY <1>4, <2>1 DEF LinksOf
  <2>. QED
    BY <2>1, <2>2, Zenon DEF LinksOf
<1>13. \A x \in InoSet, m \in FileNames : e2[x][m] # x
  BY <1>3, <1>4 DEF Tree
<1>14. k[RootIno] = "dir" /\ l2[RootIno] > 0 /\ Named(e2, RootIno) = {}
  BY <1>3, <1>7, <1>9, NamespaceAssumption DEF Tree
<1>. QED
  BY <1>1, <1>4, <1>7, <1>11, <1>12, <1>13, <1>14 DEF Tree, TreeType

(* Directory i has no entries.                                             *)
NoEntries(e, i) == \A m \in FileNames : e[i][m] = 0

(* The links of directory i and of its parent d when it goes.              *)
DirDropped(l, d, i) == [l EXCEPT ![d] = @ - 1, ![i] = @ - 2]

DirGone(k, l, u, e, i) == Tree(k, l, u, e) /\ l[i] = 0

(* An empty directory loses its name, its links and one of its parent.     *)
LEMMA DropDir ==
    ASSUME NEW k, NEW l, NEW u, NEW e, Tree(k, l, u, e),
           NEW d \in InoSet, NEW n \in FileNames, NEW i, i = e[d][n], i # 0, k[i] = "dir",
           NoEntries(e, i), NEW l2, l2 = DirDropped(l, d, i),
           NEW e2, e2 = [e EXCEPT ![d][n] = 0]
    PROVE  DirGone(k, l2, u, e2, i)
<1>. USE DEF NoEntries, DirDropped
<1>1. /\ k \in KindType /\ l \in LinkType /\ u \in UpType /\ e \in DentType
      /\ \A j \in InoSet : LinksOf(k, l, u, e, j)
  BY DEF Tree, TreeType
<1>2. Entered(k, e, d, n, 0, e2)
  BY <1>1, EnterIs
<1>3. i \in InoSet /\ i # RootIno /\ i # d /\ 0 \notin InoSet
  <2>1. i \in InoSet /\ i # d
    BY <1>1 DEF Tree, DentType
  <2>2. <<d, n>> \in Named(e, i)
    BY DEF Named
  <2>. QED
    BY <2>1, <2>2, NamespaceAssumption DEF Tree
<1>4. /\ e2 \in DentType /\ e2[d][n] = 0
      /\ \A x \in InoSet, m \in FileNames : x # d \/ m # n => e2[x][m] = e[x][m]
      /\ \A j \in InoSet : Named(e2, j) = Named(e, j) \ {<<d, n>>}
      /\ \A x \in InoSet \ {d} : Subs(k, e2, x) = Subs(k, e, x)
      /\ Subs(k, e2, d) = Subs(k, e, d) \ {n}
  BY <1>2, <1>3 DEF Entered
<1>5. <<d, n>> \in Named(e, i) /\ n \in Subs(k, e, d)
  BY <1>3 DEF Named, Subs
<1>6. k[d] = "dir" /\ l[d] > 0 /\ l[i] > 0
  <2>1. LinksOf(k, l, u, e, d) /\ LinksOf(k, l, u, e, i)
    BY <1>1, <1>3
  <2>2. l[d] # 0 /\ l[d] \in Nat /\ k[d] = "dir" /\ l[i] > 0
    BY <1>1, <1>5, <2>1 DEF LinksOf, LinkType
  <2>. QED
    BY <2>2
<1>7. l[i] = 2 /\ Named(e, i) = {<<d, n>>}
  <2>1. LinksOf(k, l, u, e, i)
    BY <1>1, <1>3
  <2>2. PICK m \in FileNames : Named(e, i) = {<<u[i], m>>}
    BY <1>3, <1>6, <2>1 DEF LinksOf
  <2>3. Subs(k, e, i) = {}
    BY DEF Subs
  <2>4. Cardinality(Subs(k, e, i)) = 0
    BY <2>3, FS_EmptySet
  <2>5. l[i] = 2 + Cardinality(Subs(k, e, i))
    BY <1>6, <2>1 DEF LinksOf
  <2>6. l[i] = 2
    BY <2>4, <2>5
  <2>. QED
    BY <1>5, <2>2, <2>6
<1>8. /\ Cardinality(Subs(k, e2, d)) = Cardinality(Subs(k, e, d)) - 1
      /\ Cardinality(Subs(k, e2, d)) \in Nat
  <2>1. IsFiniteSet(Subs(k, e, d)) /\ Cardinality(Subs(k, e2, d)) \in Nat
    BY SubsFinite
  <2>2. Cardinality(Subs(k, e, d) \ {n}) = Cardinality(Subs(k, e, d)) - 1
    BY <1>5, <2>1, OneLess
  <2>. QED
    BY <1>4, <2>1, <2>2
<1>9. l[d] = 2 + Cardinality(Subs(k, e, d))
  BY <1>1, <1>6 DEF LinksOf
<1>10. /\ l2 \in LinkType /\ l2[i] = 0 /\ l2[d] = 2 + Cardinality(Subs(k, e2, d)) /\ l2[d] > 0
       /\ \A j \in InoSet \ {i, d} : l2[j] = l[j]
  <2>1. /\ l2[i] = l[i] - 2 /\ l2[d] = l[d] - 1 /\ \A j \in InoSet \ {i, d} : l2[j] = l[j]
        /\ l2 = [j \in InoSet |-> l2[j]]
    BY <1>1, <1>3 DEF LinkType
  <2>2. l2[i] = 0
    BY <1>7, <2>1
  <2>. DEFINE c == Cardinality(Subs(k, e2, d))
  <2>. HIDE DEF c
  <2>3. l2[d] = 2 + c /\ c \in Nat
    <3>1. c \in Nat /\ Cardinality(Subs(k, e, d)) - 1 = c /\ Cardinality(Subs(k, e, d)) \in Nat
      BY <1>8, SubsFinite DEF c
    <3>. QED
      BY <1>9, <2>1, <3>1
  <2>4. l2[d] > 0 /\ l2[d] \in Nat
    BY <2>3
  <2>5. \A j \in InoSet : l2[j] \in Nat
    BY <1>1, <2>1, <2>2, <2>4 DEF LinkType
  <2>6. l2 \in LinkType
    BY <2>1, <2>5 DEF LinkType
  <2>. QED
    BY <2>1, <2>2, <2>3, <2>4, <2>6 DEF c
<1>11. \A j \in InoSet \ {i} : Named(e2, j) = Named(e, j)
  BY <1>4 DEF Named
<1>12. LinksOf(k, l2, u, e2, i)
  <2>1. Named(e2, i) = {} /\ \A m \in FileNames : e2[i][m] = 0
    BY <1>3, <1>4, <1>7
  <2>2. ~(l2[i] > 0) /\ k[i] # "file"
    BY <1>10
  <2>. QED
    BY <2>1, <2>2, Zenon DEF LinksOf
<1>13. LinksOf(k, l2, u, e2, d)
  <2>1. LinksOf(k, l, u, e, d) /\ Named(e2, d) = Named(e, d)
    BY <1>1, <1>3, <1>11
  <2>2. k[d] # "free" /\ k[d] # "file" /\ l2[d] # 0
    BY <1>6, <1>10
  <2>. QED
    BY <1>6, <1>10, <2>1, <2>2, Zenon DEF LinksOf
<1>14. ASSUME NEW j \in InoSet, j # i, j # d PROVE LinksOf(k, l2, u, e2, j)
  <2>1. LinksOf(k, l, u, e, j) /\ Named(e2, j) = Named(e, j) /\ Subs(k, e2, j) = Subs(k, e, j)
        /\ l2[j] = l[j]
    BY <1>1, <1>4, <1>10, <1>11, <1>14
  <2>2. k[j] # "dir" \/ l2[j] = 0 => \A m \in FileNames : e2[j][m] = 0
    BY <1>4, <1>14, <2>1 DEF LinksOf
  <2>. QED
    BY <2>1, <2>2, Zenon DEF LinksOf
<1>15. \A x \in InoSet, m \in FileNames : e2[x][m] # x
  BY <1>3, <1>4 DEF Tree
<1>16. k[RootIno] = "dir" /\ l2[RootIno] > 0 /\ Named(e2, RootIno) = {}
  <2>1. RootIno \in InoSet /\ k[RootIno] = "dir" /\ l[RootIno] > 0 /\ Named(e, RootIno) = {}
    BY NamespaceAssumption DEF Tree
  <2>2. l2[RootIno] > 0
    BY <1>3, <1>10, <2>1
  <2>. QED
    BY <1>3, <1>11, <2>1, <2>2
<1>. QED
  BY <1>1, <1>4, <1>10, <1>12, <1>13, <1>14, <1>15, <1>16 DEF Tree, TreeType, DirGone

----------------------------------------------------------------------------
(* Two entries change places; a rename to a free name is such a change,    *)
(* with no inode in the one place.                                         *)

IsDir(k, v) == v # 0 /\ k[v] = "dir"

(* Entry on of od was i, entry nn of nd was j, now it is the other way.    *)
Swap(e, od, on, nd, nn, i, j, e2) ==
    /\ e \in DentType /\ e2 \in DentType
    /\ e[od][on] = i /\ e[nd][nn] = j /\ e2[od][on] = j /\ e2[nd][nn] = i
    /\ \A x \in InoSet, m \in FileNames :
         <<x, m>> # <<od, on>> /\ <<x, m>> # <<nd, nn>> => e2[x][m] = e[x][m]

(* The names of the two change places, no other names do.                  *)
NamesSwapped(e, od, on, nd, nn, i, j, e2) ==
    /\ \A x \in InoSet \ {i, j} : Named(e2, x) = Named(e, x)
    /\ Named(e2, i) = (Named(e, i) \ {<<od, on>>}) \cup {<<nd, nn>>}
    /\ Named(e2, j) = (Named(e, j) \ {<<nd, nn>>}) \cup {<<od, on>>}
    /\ Cardinality(Named(e2, i)) = Cardinality(Named(e, i))
    /\ Cardinality(Named(e2, j)) = Cardinality(Named(e, j))

(* A swap of two entries leaves every inode as many names as it had.       *)
LEMMA SwapNamed ==
    ASSUME NEW e, NEW e2, NEW od \in InoSet, NEW on \in FileNames,
           NEW nd \in InoSet, NEW nn \in FileNames, NEW i, NEW j, i # j,
           Swap(e, od, on, nd, nn, i, j, e2)
    PROVE  NamesSwapped(e, od, on, nd, nn, i, j, e2)
<1>. DEFINE p == <<od, on>>  q == <<nd, nn>>
<1>1. p \in InoSet \X FileNames /\ q \in InoSet \X FileNames
  OBVIOUS
<1>2. /\ e[p[1]][p[2]] = i /\ e[q[1]][q[2]] = j /\ e2[p[1]][p[2]] = j /\ e2[q[1]][q[2]] = i
      /\ \A y \in InoSet \X FileNames : y # p /\ y # q => e2[y[1]][y[2]] = e[y[1]][y[2]]
  BY DEF Swap
<1>. HIDE DEF p, q
<1>3. \A x \in InoSet \ {i, j} : Named(e2, x) = Named(e, x)
  BY <1>1, <1>2 DEF Named
<1>4. p # q /\ p \in Named(e, i) /\ q \notin Named(e, i) /\ q \in Named(e, j) /\ p \notin Named(e, j)
  BY <1>1, <1>2 DEF Named
<1>5. Named(e2, i) = (Named(e, i) \ {p}) \cup {q}
  BY <1>1, <1>2 DEF Named
<1>6. Named(e2, j) = (Named(e, j) \ {q}) \cup {p}
  BY <1>1, <1>2 DEF Named
<1>7. ASSUME NEW S, IsFiniteSet(S), Cardinality(S) \in Nat, NEW x \in S, NEW y, y \notin S
      PROVE  Cardinality((S \ {x}) \cup {y}) = Cardinality(S)
  <2>1. IsFiniteSet(S \ {x}) /\ y \notin S \ {x}
    BY <1>7, FS_RemoveElement
  <2>2. Cardinality(S \ {x}) = Cardinality(S) - 1
    BY <1>7, OneLess
  <2>3. Cardinality((S \ {x}) \cup {y}) = Cardinality(S \ {x}) + 1
    BY <2>1, OneMore
  <2>. QED
    BY <1>7, <2>2, <2>3
<1>8. Cardinality(Named(e2, i)) = Cardinality(Named(e, i))
  BY <1>4, <1>5, <1>7, NamedFinite
<1>9. Cardinality(Named(e2, j)) = Cardinality(Named(e, j))
  BY <1>4, <1>6, <1>7, NamedFinite
<1>. QED
  BY <1>3, <1>5, <1>6, <1>8, <1>9 DEF p, q, NamesSwapped

(* So do the entries that are directories.                                 *)
SubsSwapped(k, e, od, nd, i, j, e2) ==
    /\ \A x \in InoSet \ {od, nd} : Subs(k, e2, x) = Subs(k, e, x)
    /\ IsDir(k, i) = IsDir(k, j) \/ od = nd =>
         \A x \in InoSet : Cardinality(Subs(k, e2, x)) = Cardinality(Subs(k, e, x))
    /\ IsDir(k, i) /\ ~IsDir(k, j) /\ od # nd =>
         /\ Cardinality(Subs(k, e2, od)) = Cardinality(Subs(k, e, od)) - 1
         /\ Cardinality(Subs(k, e2, nd)) = Cardinality(Subs(k, e, nd)) + 1

(* A swap of two entries moves a sub-directory from one parent to the      *)
(* other.                                                                  *)
LEMMA SwapSubs ==
    ASSUME NEW e, NEW e2, NEW od \in InoSet, NEW on \in FileNames,
           NEW nd \in InoSet, NEW nn \in FileNames, NEW i, NEW j, i # j,
           Swap(e, od, on, nd, nn, i, j, e2), NEW k
    PROVE  SubsSwapped(k, e, od, nd, i, j, e2)
<1>1. /\ e[od][on] = i /\ e[nd][nn] = j /\ e2[od][on] = j /\ e2[nd][nn] = i
      /\ \A x \in InoSet, m \in FileNames :
           (x # od \/ m # on) /\ (x # nd \/ m # nn) => e2[x][m] = e[x][m]
  BY DEF Swap
<1>2. \A x, m : m \in Subs(k, e, x) <=> m \in FileNames /\ IsDir(k, e[x][m])
  BY DEF Subs, IsDir
<1>3. \A x, m : m \in Subs(k, e2, x) <=> m \in FileNames /\ IsDir(k, e2[x][m])
  BY DEF Subs, IsDir
<1>4. \A x \in InoSet \ {od, nd} : Subs(k, e2, x) = Subs(k, e, x)
  BY <1>1 DEF Subs
<1>5. ASSUME IsDir(k, i) = IsDir(k, j), NEW x \in InoSet PROVE Subs(k, e2, x) = Subs(k, e, x)
  <2>1. ASSUME NEW m \in FileNames PROVE IsDir(k, e2[x][m]) <=> IsDir(k, e[x][m])
    <3>1. CASE x = od /\ m = on
      BY <1>1, <1>5, <3>1
    <3>2. CASE x = nd /\ m = nn
      BY <1>1, <1>5, <3>2
    <3>3. CASE (x # od \/ m # on) /\ (x # nd \/ m # nn)
      BY <1>1, <3>3
    <3>. QED
      BY <3>1, <3>2, <3>3
  <2>. QED
    BY <1>2, <1>3, <2>1
<1>6. ASSUME NEW S, IsFiniteSet(S), Cardinality(S) \in Nat, NEW x \in S, NEW y, y \notin S
      PROVE  Cardinality((S \ {x}) \cup {y}) = Cardinality(S)
  <2>1. IsFiniteSet(S \ {x}) /\ y \notin S \ {x}
    BY <1>6, FS_RemoveElement
  <2>2. Cardinality(S \ {x}) = Cardinality(S) - 1
    BY <1>6, OneLess
  <2>3. Cardinality((S \ {x}) \cup {y}) = Cardinality(S \ {x}) + 1
    BY <2>1, OneMore
  <2>. QED
    BY <1>6, <2>2, <2>3
<1>7. ASSUME IsDir(k, i) # IsDir(k, j), od = nd
      PROVE  Cardinality(Subs(k, e2, od)) = Cardinality(Subs(k, e, od))
  <2>1. on # nn
    BY <1>1, <1>7
  <2>2. IsFiniteSet(Subs(k, e, od)) /\ Cardinality(Subs(k, e, od)) \in Nat
    BY SubsFinite
  <2>3. CASE IsDir(k, i) /\ ~IsDir(k, j)
    <3>1. Subs(k, e2, od) = (Subs(k, e, od) \ {on}) \cup {nn}
          /\ on \in Subs(k, e, od) /\ nn \notin Subs(k, e, od)
      BY <1>1, <1>2, <1>3, <1>7, <2>1, <2>3
    <3>. QED
      BY <1>6, <2>2, <3>1
  <2>4. CASE ~IsDir(k, i) /\ IsDir(k, j)
    <3>1. Subs(k, e2, od) = (Subs(k, e, od) \ {nn}) \cup {on}
          /\ nn \in Subs(k, e, od) /\ on \notin Subs(k, e, od)
      BY <1>1, <1>2, <1>3, <1>7, <2>1, <2>4
    <3>. QED
      BY <1>6, <2>2, <3>1
  <2>. QED
    BY <1>7, <2>3, <2>4 DEF IsDir
<1>8. ASSUME IsDir(k, i), ~IsDir(k, j), od # nd
      PROVE  /\ Cardinality(Subs(k, e2, od)) = Cardinality(Subs(k, e, od)) - 1
             /\ Cardinality(Subs(k, e2, nd)) = Cardinality(Subs(k, e, nd)) + 1
  <2>1. IsFiniteSet(Subs(k, e, od)) /\ IsFiniteSet(Subs(k, e, nd))
    BY SubsFinite
  <2>2. Subs(k, e2, od) = Subs(k, e, od) \ {on} /\ on \in Subs(k, e, od)
    BY <1>1, <1>2, <1>3, <1>8
  <2>3. Subs(k, e2, nd) = Subs(k, e, nd) \cup {nn} /\ nn \notin Subs(k, e, nd)
    BY <1>1, <1>2, <1>3, <1>8
  <2>. QED
    BY <2>1, <2>2, <2>3, OneLess, OneMore
<1>9. ASSUME IsDir(k, i) = IsDir(k, j) \/ od = nd, NEW x \in InoSet
      PROVE  Cardinality(Subs(k, e2, x)) = Cardinality(Subs(k, e, x))
  <2>1. CASE IsDir(k, i) = IsDir(k, j)
    BY <1>5, <2>1
  <2>2. CASE IsDir(k, i) # IsDir(k, j) /\ x = od
    BY <1>7, <1>9, <2>2
  <2>3. CASE IsDir(k, i) # IsDir(k, j) /\ x # od
    BY <1>4, <1>9, <2>3
  <2>. QED
    BY <2>1, <2>2, <2>3
<1>. QED
  BY <1>4, <1>8, <1>9 DEF SubsSwapped

(* The link counts that follow a swap of i and j.                          *)
SwapLinks(k, l, od, nd, i, j, l2) ==
    /\ l2 \in LinkType /\ \A x \in InoSet \ {od, nd} : l2[x] = l[x]
    /\ IsDir(k, i) = IsDir(k, j) \/ od = nd => l2[od] = l[od] /\ l2[nd] = l[nd]
    /\ IsDir(k, i) /\ ~IsDir(k, j) /\ od # nd => l2[od] = l[od] - 1 /\ l2[nd] = l[nd] + 1
    /\ ~IsDir(k, i) /\ IsDir(k, j) /\ od # nd => l2[od] = l[od] + 1 /\ l2[nd] = l[nd] - 1

(* The ".." entries that follow it.                                        *)
SwapUps(k, u, od, nd, i, j, u2) ==
    /\ u2 \in UpType /\ \A x \in InoSet \ {i, j} : u2[x] = u[x]
    /\ IsDir(k, i) => u2[i] = nd
    /\ IsDir(k, j) => u2[j] = od

(* A swap keeps a tree.                                                    *)
LEMMA SwapTree ==
    ASSUME NEW k, NEW l, NEW u, NEW e, Tree(k, l, u, e), NEW e2,
           NEW od \in InoSet, NEW on \in FileNames, NEW nd \in InoSet, NEW nn \in FileNames,
           NEW i \in InoSet, NEW j \in InoSet \cup {0}, i # j, i # nd, j # od,
           k[nd] = "dir", l[nd] > 0,
           Swap(e, od, on, nd, nn, i, j, e2),
           NEW l2, SwapLinks(k, l, od, nd, i, j, l2), NEW u2, SwapUps(k, u, od, nd, i, j, u2)
    PROVE  Tree(k, l2, u2, e2)
<1>1. /\ k \in KindType /\ l \in LinkType /\ u \in UpType /\ e \in DentType
      /\ \A x \in InoSet : LinksOf(k, l, u, e, x)
  BY DEF Tree, TreeType
<1>2. /\ \A x \in InoSet \ {i, j} : Named(e2, x) = Named(e, x)
      /\ Named(e2, i) = (Named(e, i) \ {<<od, on>>}) \cup {<<nd, nn>>}
      /\ Named(e2, j) = (Named(e, j) \ {<<nd, nn>>}) \cup {<<od, on>>}
      /\ Cardinality(Named(e2, i)) = Cardinality(Named(e, i))
      /\ Cardinality(Named(e2, j)) = Cardinality(Named(e, j))
  <2>1. NamesSwapped(e, od, on, nd, nn, i, j, e2)
    BY SwapNamed
  <2>. QED
    BY <2>1, Zenon DEF NamesSwapped
<1>3. 0 \notin InoSet /\ i # 0
  BY NamespaceAssumption
<1>4. <<od, on>> \in Named(e, i) /\ <<nd, nn>> \in Named(e, j)
  BY DEF Swap, Named
<1>5. k[od] = "dir" /\ l[od] > 0
  <2>1. LinksOf(k, l, u, e, od) /\ e[od][on] # 0
    BY <1>1, <1>3 DEF Swap
  <2>2. k[od] = "dir" /\ l[od] # 0 /\ l[od] \in Nat
    BY <1>1, <2>1 DEF LinksOf, LinkType
  <2>. QED
    BY <2>2
<1>6. ASSUME NEW x \in InoSet
      PROVE  /\ x \notin {od, nd} => l2[x] = l[x] /\ Subs(k, e2, x) = Subs(k, e, x)
             /\ x \in {od, nd} => l2[x] = 2 + Cardinality(Subs(k, e2, x)) /\ l2[x] > 0
  <2>1. SubsSwapped(k, e, od, nd, i, j, e2)
    BY SwapSubs
  <2>2. /\ \A y \in InoSet \ {od, nd} : Subs(k, e2, y) = Subs(k, e, y)
        /\ IsDir(k, i) = IsDir(k, j) \/ od = nd =>
             \A y \in InoSet : Cardinality(Subs(k, e2, y)) = Cardinality(Subs(k, e, y))
        /\ IsDir(k, i) /\ ~IsDir(k, j) /\ od # nd =>
             /\ Cardinality(Subs(k, e2, od)) = Cardinality(Subs(k, e, od)) - 1
             /\ Cardinality(Subs(k, e2, nd)) = Cardinality(Subs(k, e, nd)) + 1
    BY <2>1, Zenon DEF SubsSwapped
  <2>3. SubsSwapped(k, e, nd, od, j, i, e2)
    <3>1. Swap(e, nd, nn, od, on, j, i, e2)
      BY DEF Swap
    <3>. QED
      BY <3>1, SwapSubs
  <2>4. IsDir(k, j) /\ ~IsDir(k, i) /\ nd # od =>
             /\ Cardinality(Subs(k, e2, nd)) = Cardinality(Subs(k, e, nd)) - 1
             /\ Cardinality(Subs(k, e2, od)) = Cardinality(Subs(k, e, od)) + 1
    BY <2>3, Zenon DEF SubsSwapped
  <2>5. l[od] = 2 + Cardinality(Subs(k, e, od)) /\ l[nd] = 2 + Cardinality(Subs(k, e, nd))
    BY <1>1, <1>5 DEF LinksOf
  <2>. DEFINE a == Cardinality(Subs(k, e, od))  b == Cardinality(Subs(k, e, nd))
              a2 == Cardinality(Subs(k, e2, od))  b2 == Cardinality(Subs(k, e2, nd))
  <2>6. a \in Nat /\ b \in Nat /\ a2 \in Nat /\ b2 \in Nat
    BY SubsFinite
  <2>7. IsDir(k, i) \in BOOLEAN /\ IsDir(k, j) \in BOOLEAN
    BY DEF IsDir
  <2>8. l2[od] = 2 + a2 /\ l2[nd] = 2 + b2
    <3>1. CASE IsDir(k, i) = IsDir(k, j) \/ od = nd
      <4>1. a2 = a /\ b2 = b /\ l2[od] = l[od] /\ l2[nd] = l[nd]
        BY <2>2, <3>1 DEF SwapLinks
      <4>. QED
        BY <2>5, <4>1
    <3>2. CASE IsDir(k, i) /\ ~IsDir(k, j) /\ od # nd
      <4>1. a2 = a - 1 /\ b2 = b + 1 /\ l2[od] = l[od] - 1 /\ l2[nd] = l[nd] + 1
        BY <2>2, <3>2 DEF SwapLinks
      <4>2. l[od] = 2 + a /\ l[nd] = 2 + b
        BY <2>5
      <4>. HIDE DEF a, b, a2, b2
      <4>. QED
        BY <2>6, <4>1, <4>2
    <3>3. CASE ~IsDir(k, i) /\ IsDir(k, j) /\ od # nd
      <4>1. a2 = a + 1 /\ b2 = b - 1 /\ l2[od] = l[od] + 1 /\ l2[nd] = l[nd] - 1
        BY <2>4, <3>3 DEF SwapLinks
      <4>2. l[od] = 2 + a /\ l[nd] = 2 + b
        BY <2>5
      <4>. HIDE DEF a, b, a2, b2
      <4>. QED
        BY <2>6, <4>1, <4>2
    <3>. QED
      BY <2>7, <3>1, <3>2, <3>3
  <2>9. l2[od] > 0 /\ l2[nd] > 0
    <3>. HIDE DEF a, b, a2, b2
    <3>. QED
      BY <2>6, <2>8
  <2>10. x \notin {od, nd} => l2[x] = l[x] /\ Subs(k, e2, x) = Subs(k, e, x)
    BY <2>2 DEF SwapLinks
  <2>11. x \in {od, nd} => l2[x] = 2 + Cardinality(Subs(k, e2, x)) /\ l2[x] > 0
    BY <2>8, <2>9
  <2>. QED
    BY <2>10, <2>11
<1>7. ASSUME NEW x \in InoSet PROVE Cardinality(Named(e2, x)) = Cardinality(Named(e, x))
  BY <1>2
<1>8. ASSUME NEW x \in InoSet, Named(e2, x) # {} PROVE Named(e, x) # {}
  BY <1>2, <1>4, <1>8
<1>9. ASSUME NEW x \in InoSet, k[x] = "dir", l[x] > 0, x # RootIno
      PROVE  \E m \in FileNames : Named(e2, x) = {<<u2[x], m>>}
  <2>1. PICK m \in FileNames : Named(e, x) = {<<u[x], m>>}
    BY <1>1, <1>9 DEF LinksOf
  <2>2. CASE x = i
    <3>1. u2[i] = nd /\ Named(e, i) = {<<od, on>>}
      BY <1>3, <1>4, <1>9, <2>1, <2>2 DEF SwapUps, IsDir
    <3>2. Named(e2, i) = {<<nd, nn>>}
      BY <1>2, <3>1
    <3>. QED
      BY <2>2, <3>1, <3>2
  <2>3. CASE x = j
    <3>1. u2[j] = od /\ Named(e, j) = {<<nd, nn>>}
      BY <1>3, <1>4, <1>9, <2>1, <2>3 DEF SwapUps, IsDir
    <3>2. Named(e2, j) = {<<od, on>>}
      BY <1>2, <3>1
    <3>. QED
      BY <2>3, <3>1, <3>2
  <2>4. CASE x # i /\ x # j
    BY <1>2, <2>1, <2>4 DEF SwapUps
  <2>. QED
    BY <2>2, <2>3, <2>4
<1>10. ASSUME NEW x \in InoSet PROVE LinksOf(k, l2, u2, e2, x)
  <2>1. LinksOf(k, l, u, e, x) /\ l[x] \in Nat
    BY <1>1 DEF LinkType
  <2>2. l[x] > 0 <=> l2[x] > 0
    BY <1>5, <1>6
  <2>3. Named(e2, x) # {} => k[x] # "free" /\ l2[x] > 0
    BY <1>8, <2>1, <2>2 DEF LinksOf
  <2>4. k[x] = "file" => l2[x] = Cardinality(Named(e2, x))
    BY <1>5, <1>6, <1>7, <2>1 DEF LinksOf
  <2>5. k[x] = "dir" /\ l2[x] > 0 => l2[x] = 2 + Cardinality(Subs(k, e2, x))
    BY <1>6, <2>1, <2>2 DEF LinksOf
  <2>6. k[x] # "dir" \/ l2[x] = 0 => \A m \in FileNames : e2[x][m] = 0
    <3>1. l2[x] = 0 => l[x] = 0
      BY <1>6
    <3>2. k[x] # "dir" \/ l2[x] = 0 => x # od /\ x # nd
      BY <1>5, <1>6
    <3>. QED
      BY <2>1, <3>1, <3>2 DEF LinksOf, Swap
  <2>. QED
    BY <1>9, <2>2, <2>3, <2>4, <2>5, <2>6, Zenon DEF LinksOf
<1>11. \A x \in InoSet, m \in FileNames : e2[x][m] # x
  <2>. SUFFICES ASSUME NEW x \in InoSet, NEW m \in FileNames PROVE e2[x][m] # x
    OBVIOUS
  <2>1. CASE x = od /\ m = on
    BY <2>1 DEF Swap
  <2>2. CASE x = nd /\ m = nn
    BY <2>2 DEF Swap
  <2>3. CASE ~(x = od /\ m = on) /\ ~(x = nd /\ m = nn)
    BY <2>3 DEF Swap, Tree
  <2>. QED
    BY <2>1, <2>2, <2>3
<1>12. k[RootIno] = "dir" /\ l2[RootIno] > 0 /\ Named(e2, RootIno) = {}
  <2>1. RootIno \in InoSet /\ k[RootIno] = "dir" /\ l[RootIno] > 0 /\ Named(e, RootIno) = {}
    BY NamespaceAssumption DEF Tree
  <2>2. l2[RootIno] > 0
    BY <1>6, <2>1
  <2>3. Named(e2, RootIno) = {}
    BY <1>8, <2>1
  <2>. QED
    BY <2>1, <2>2, <2>3
<1>. QED
  BY <1>1, <1>10, <1>11, <1>12 DEF Tree, TreeType, Swap, SwapLinks, SwapUps

----------------------------------------------------------------------------
(* Name spaces as records                                                  *)

(* No error.                                                               *)
NoErr == ""

(* The name space s has these fields, and no inode with a name too many.   *)
At(s, k, l, u, e, o, c, f, r) == s \in
    [kind : {k}, nlink : {l}, up : {u}, dent : {e}, orphans : {o}, ino_num : {c},
     fsck : {f}, twin : {0}, err : {r}]

(* A list without room is an error.                                        *)
LEMMA ErrIs == NoErr # "ENOSPC"
BY Zenon DEF NoErr

(* The fields, and the helpers of the operations, one by one.              *)
LEMMA Fields ==
    ASSUME NEW s, NEW k, NEW l, NEW u, NEW e, NEW o, NEW c, NEW f, NEW r,
           At(s, k, l, u, e, o, c, f, r)
    PROVE  /\ s.kind = k /\ s.nlink = l /\ s.up = u /\ s.dent = e
           /\ s.orphans = o /\ s.ino_num = c /\ s.fsck = f /\ s.err = r
BY DEF At

(* Recording an error changes nothing else.                                *)
LEMMA SetErr ==
    ASSUME NEW s, NEW k, NEW l, NEW u, NEW e, NEW o, NEW c, NEW f, NEW r,
           At(s, k, l, u, e, o, c, f, r), NEW x
    PROVE  At([s EXCEPT !.err = x], k, l, u, e, o, c, f, x)
BY DEF At

(* acquire_orphan_inode reserves one place in the orphan list, or fails    *)
(* with ENOSPC.                                                            *)
LEMMA AcquireIs ==
    ASSUME NEW s, NEW k, NEW l, NEW u, NEW e, NEW o, NEW c, NEW f, NEW r,
           At(s, k, l, u, e, o, c, f, r),
           NEW a, a = acquire_orphan_inode(s)
    PROVE  /\ c >= max_orphans => At(a, k, l, u, e, o, c, f, "ENOSPC")
           /\ ~(c >= max_orphans) => At(a, k, l, u, e, o, c + 1, f, r)
BY DEF At, acquire_orphan_inode, NsFail

(* release_orphan_inode gives the reserved place back.                     *)
LEMMA ReleaseIs ==
    ASSUME NEW s, NEW k, NEW l, NEW u, NEW e, NEW o, NEW c, NEW f, NEW r,
           At(s, k, l, u, e, o, c, f, r)
    PROVE  At(release_orphan_inode(s), k, l, u, e, o, c - 1, f, r)
BY DEF At, release_orphan_inode

(* add_orphan_inode lists the inode; its place was reserved before.        *)
LEMMA AddOrphanIs ==
    ASSUME NEW s, NEW k, NEW l, NEW u, NEW e, NEW o, NEW c, NEW f, NEW r,
           At(s, k, l, u, e, o, c, f, r), NEW i
    PROVE  At(add_orphan_inode(s, i), k, l, u, e, o \cup {i}, c, f, r)
BY DEF At, add_orphan_inode

(* remove_orphan_inode takes a listed inode and its place away.            *)
LEMMA RemoveOrphanIs ==
    ASSUME NEW s, NEW k, NEW l, NEW u, NEW e, NEW o, NEW c, NEW f, NEW r,
           At(s, k, l, u, e, o, c, f, r),
           NEW i, NEW t, t = remove_orphan_inode(s, i)
    PROVE  /\ i \in o => At(t, k, l, u, e, o \ {i}, c - 1, f, r)
           /\ i \notin o => At(t, k, l, u, e, o, c, f, r)
BY DEF At, remove_orphan_inode

(* f2fs_set_dentry writes one directory entry and nothing else.            *)
LEMMA SetDentryIs ==
    ASSUME NEW s, NEW k, NEW l, NEW u, NEW e, NEW o, NEW c, NEW f, NEW r,
           At(s, k, l, u, e, o, c, f, r),
           NEW d, NEW n, NEW i
    PROVE  At(f2fs_set_dentry(s, d, n, i), k, l, u, [e EXCEPT ![d][n] = i], o, c, f, r)
BY DEF At, f2fs_set_dentry

(* The same, with the new entries named.                                   *)
LEMMA EntryIs ==
    ASSUME NEW s, NEW k, NEW l, NEW u, NEW e, NEW o, NEW c, NEW f, NEW r,
           At(s, k, l, u, e, o, c, f, r),
           NEW d, NEW n, NEW i, NEW t, t = f2fs_set_dentry(s, d, n, i),
           NEW e2, e2 = [e EXCEPT ![d][n] = i]
    PROVE  At(t, k, l, u, e2, o, c, f, r)
BY SetDentryIs

(* f2fs_new_inode gives the inode a kind, one link and a parent.           *)
LEMMA NewInodeIs ==
    ASSUME NEW s, NEW k, NEW l, NEW u, NEW e, NEW o, NEW c, NEW f, NEW r,
           At(s, k, l, u, e, o, c, f, r),
           NEW i, NEW x, NEW d
    PROVE  At(f2fs_new_inode(s, i, x, d),
              [k EXCEPT ![i] = x], [l EXCEPT ![i] = 1], [u EXCEPT ![i] = d], e, o, c, f, r)
BY DEF At, f2fs_new_inode

(* Setting one link count changes nothing else.                            *)
LEMMA SetNlink ==
    ASSUME NEW s, NEW k, NEW l, NEW u, NEW e, NEW o, NEW c, NEW f, NEW r,
           At(s, k, l, u, e, o, c, f, r),
           NEW i, NEW x
    PROVE  At([s EXCEPT !.nlink[i] = x], k, [l EXCEPT ![i] = x], u, e, o, c, f, r)
BY DEF At

(* An inode without links takes the reserved place; otherwise the place is *)
(* returned.                                                               *)
LEMMA OrphanOrReleaseIs ==
    ASSUME NEW s, NEW k, NEW l, NEW u, NEW e, NEW o, NEW c, NEW f, NEW r,
           At(s, k, l, u, e, o, c, f, r),
           NEW i, NEW t, t = OrphanOrRelease(s, i)
    PROVE  /\ l[i] = 0 => At(t, k, l, u, e, o \cup {i}, c, f, r)
           /\ l[i] # 0 => At(t, k, l, u, e, o, c - 1, f, r)
<1>1. s.nlink = l
  BY Fields
<1>2. l[i] = 0 => t = add_orphan_inode(s, i)
  BY <1>1 DEF OrphanOrRelease
<1>3. l[i] # 0 => t = release_orphan_inode(s)
  BY <1>1 DEF OrphanOrRelease
<1>. QED
  BY <1>2, <1>3, AddOrphanIs, ReleaseIs

(* f2fs_drop_nlink lowers the links, and lists the inode when none is      *)
(* left.                                                                   *)
LEMMA DropNlinkIs ==
    ASSUME NEW s, NEW k, NEW l, NEW u, NEW e, NEW o, NEW c, NEW f, NEW r,
           At(s, k, l, u, e, o, c, f, r),
           NEW d, NEW i, NEW t, t = f2fs_drop_nlink(s, d, i),
           NEW l2, l2 = IF k[i] = "dir" THEN DirDropped(l, d, i)
                        ELSE [l EXCEPT ![i] = @ - 1]
    PROVE  /\ l2[i] = 0 => At(t, k, l2, u, e, o \cup {i}, c, f, r)
           /\ l2[i] # 0 => At(t, k, l2, u, e, o, c - 1, f, r)
<1>. USE DEF DirDropped
<1>. DEFINE w == IF s.kind[i] = "dir" THEN [s EXCEPT !.nlink[d] = @ - 1, !.nlink[i] = @ - 2]
                 ELSE [s EXCEPT !.nlink[i] = @ - 1]
<1>1. s.kind = k
  BY Fields
<1>2. t = OrphanOrRelease(w, i)
  BY DEF f2fs_drop_nlink
<1>3. CASE k[i] = "dir"
  <2>1. w = [s EXCEPT !.nlink[d] = @ - 1, !.nlink[i] = @ - 2]
        /\ l2 = [l EXCEPT ![d] = @ - 1, ![i] = @ - 2]
    BY <1>1, <1>3
  <2>2. At(w, k, l2, u, e, o, c, f, r)
    BY <2>1 DEF At
  <2>. HIDE DEF w
  <2>. QED
    BY <1>2, <2>2, OrphanOrReleaseIs
<1>4. CASE k[i] # "dir"
  <2>1. w = [s EXCEPT !.nlink[i] = @ - 1] /\ l2 = [l EXCEPT ![i] = @ - 1]
    BY <1>1, <1>4
  <2>2. At(w, k, l2, u, e, o, c, f, r)
    BY <2>1 DEF At
  <2>. HIDE DEF w
  <2>. QED
    BY <1>2, <2>2, OrphanOrReleaseIs
<1>. QED
  BY <1>3, <1>4

(* Adding a link to a new inode enters the name, and counts "." and ".."   *)
(* of a directory.                                                         *)
LEMMA AddNewLinkIs ==
    ASSUME NEW s, NEW k, NEW l, NEW u, NEW e, NEW o, NEW c, NEW f, NEW r,
           At(s, k, l, u, e, o, c, f, r),
           NEW d, NEW n, NEW i, NEW t, t = AddNewLink(s, d, n, i),
           NEW e2, e2 = [e EXCEPT ![d][n] = i]
    PROVE  /\ k[i] = "dir" => At(t, k, [l EXCEPT ![i] = @ + 1, ![d] = @ + 1], u, e2, o, c, f, r)
           /\ k[i] # "dir" => At(t, k, l, u, e2, o, c, f, r)
<1>. DEFINE w == f2fs_set_dentry(s, d, n, i)
<1>1. s.kind = k
  BY Fields
<1>2. At(w, k, l, u, e2, o, c, f, r)
  BY SetDentryIs
<1>. HIDE DEF w
<1>3. At([w EXCEPT !.nlink[i] = @ + 1, !.nlink[d] = @ + 1],
         k, [l EXCEPT ![i] = @ + 1, ![d] = @ + 1], u, e2, o, c, f, r)
  BY <1>2 DEF At
<1>4. t = IF k[i] = "dir" THEN [w EXCEPT !.nlink[i] = @ + 1, !.nlink[d] = @ + 1] ELSE w
  BY <1>1 DEF AddNewLink, w
<1>. QED
  BY <1>2, <1>3, <1>4, Zenon

(* Inode i has got a link: it is taken from the list of orphans.           *)
Relisted(t, k, l, l2, u, e, o, c, f, r, i) ==
    /\ l[i] = 0 /\ i \in o => At(t, k, l2, u, e, o \ {i}, c - 1, f, r)
    /\ ~(l[i] = 0 /\ i \in o) => At(t, k, l2, u, e, o, c, f, r)

(* AddLink.                                                                *)
LEMMA AddLinkIs ==
    ASSUME NEW s, NEW k, NEW l, NEW u, NEW e, NEW o, NEW c, NEW f, NEW r,
           At(s, k, l, u, e, o, c, f, r),
           NEW d, NEW n, NEW i, NEW t, t = AddLink(s, d, n, i),
           NEW l2, l2 = [l EXCEPT ![i] = @ + 1], NEW e2, e2 = [e EXCEPT ![d][n] = i]
    PROVE  Relisted(t, k, l, l2, u, e2, o, c, f, r, i)
<1>. DEFINE w == IF s.nlink[i] = 0 THEN remove_orphan_inode(s, i) ELSE s
<1>1. s.nlink = l
  BY Fields
<1>2. /\ l[i] = 0 /\ i \in o => At(w, k, l, u, e, o \ {i}, c - 1, f, r)
      /\ ~(l[i] = 0 /\ i \in o) => At(w, k, l, u, e, o, c, f, r)
  BY <1>1, RemoveOrphanIs
<1>. HIDE DEF w
<1>3. t = [f2fs_set_dentry(w, d, n, i) EXCEPT !.nlink[i] = @ + 1]
  BY DEF AddLink, w
<1>4. ASSUME NEW o2, NEW c2, At(w, k, l, u, e, o2, c2, f, r)
      PROVE  At(t, k, l2, u, e2, o2, c2, f, r)
  <2>1. At(f2fs_set_dentry(w, d, n, i), k, l, u, e2, o2, c2, f, r)
    BY <1>4, SetDentryIs
  <2>. QED
    BY <1>3, <2>1 DEF At
<1>. QED
  BY <1>2, <1>4 DEF Relisted

----------------------------------------------------------------------------
(* The list of orphans                                                     *)

(* The inodes without a link.                                              *)
Unlinked(k, l) == {i \in InoSet : k[i] # "free" /\ l[i] = 0}

(* The list o, of length c, holds them; what it had no room for is left to *)
(* fsck, f.                                                                *)
Listed(k, l, o, c, f) ==
    /\ o \subseteq Unlinked(k, l) /\ f \in BOOLEAN
    /\ Unlinked(k, l) = o \/ f = TRUE
    /\ c = Cardinality(o)

(* The list is finite.                                                     *)
LEMMA ListFinite ==
    ASSUME NEW k, NEW l, NEW o, NEW c, NEW f, Listed(k, l, o, c, f)
    PROVE  IsFiniteSet(o) /\ o \subseteq InoSet /\ c \in Nat
<1>1. o \subseteq InoSet
  BY DEF Listed, Unlinked
<1>2. IsFiniteSet(o)
  BY <1>1, NamespaceAssumption, FS_Subset
<1>. QED
  BY <1>1, <1>2, FS_CardinalityType DEF Listed

(* No inode gains or loses its last link.                                  *)
LEMMA ListSame ==
    ASSUME NEW k, NEW l, NEW o, NEW c, NEW f, Listed(k, l, o, c, f),
           NEW k2, NEW l2, Unlinked(k2, l2) = Unlinked(k, l)
    PROVE  Listed(k2, l2, o, c, f)
BY Zenon DEF Listed

(* One inode more without a link, in the list or left to fsck.             *)
LEMMA ListMore ==
    ASSUME NEW k, NEW l, NEW o, NEW c, NEW f, Listed(k, l, o, c, f),
           NEW k2, NEW l2, NEW i, i \notin Unlinked(k, l),
           Unlinked(k2, l2) = Unlinked(k, l) \cup {i}
    PROVE  Listed(k2, l2, o \cup {i}, c + 1, f) /\ Listed(k2, l2, o, c, TRUE)
<1>. DEFINE U == Unlinked(k, l)  U2 == Unlinked(k2, l2)
<1>1. o \subseteq U /\ f \in BOOLEAN /\ (U = o \/ f = TRUE) /\ c = Cardinality(o)
      /\ U2 = U \cup {i} /\ i \notin U
  BY DEF Listed
<1>2. Cardinality(o \cup {i}) = Cardinality(o) + 1
  BY <1>1, ListFinite, OneMore
<1>. HIDE DEF U, U2
<1>3. /\ o \cup {i} \subseteq U2 /\ (U2 = o \cup {i} \/ f = TRUE)
      /\ o \subseteq U2
  BY <1>1
<1>. QED
  BY <1>1, <1>2, <1>3 DEF Listed, U2

(* One less.                                                               *)
LEMMA ListLess ==
    ASSUME NEW k, NEW l, NEW o, NEW c, NEW f, Listed(k, l, o, c, f),
           NEW k2, NEW l2, NEW i, Unlinked(k2, l2) = Unlinked(k, l) \ {i}
    PROVE  /\ i \in o => Listed(k2, l2, o \ {i}, c - 1, f)
           /\ i \notin o => Listed(k2, l2, o, c, f)
<1>. DEFINE U == Unlinked(k, l)  U2 == Unlinked(k2, l2)
<1>1. o \subseteq U /\ f \in BOOLEAN /\ (U = o \/ f = TRUE) /\ c = Cardinality(o)
      /\ U2 = U \ {i}
  BY DEF Listed
<1>2. i \in o => Cardinality(o \ {i}) = Cardinality(o) - 1
  BY <1>1, ListFinite, OneLess
<1>. HIDE DEF U, U2
<1>3. i \in o => o \ {i} \subseteq U2 /\ (U2 = o \ {i} \/ f = TRUE)
  BY <1>1
<1>4. i \notin o => o \subseteq U2 /\ (U2 = o \/ f = TRUE)
  BY <1>1
<1>. QED
  BY <1>1, <1>2, <1>3, <1>4 DEF Listed, U2

(* A sound name space, of these fields; and any.                           *)
Fits(s, k, l, u, e, o, c, f) ==
    At(s, k, l, u, e, o, c, f, NoErr) /\ Tree(k, l, u, e) /\ Listed(k, l, o, c, f)
Sound(s) == Fits(s, s.kind, s.nlink, s.up, s.dent, s.orphans, s.ino_num, s.fsck)

(* The fields show whether a name space is sound.                          *)
LEMMA FitsSound ==
    ASSUME NEW s, NEW k, NEW l, NEW u, NEW e, NEW o, NEW c, NEW f,
           Fits(s, k, l, u, e, o, c, f)
    PROVE  Sound(s)
<1>1. /\ s.kind = k /\ s.nlink = l /\ s.up = u /\ s.dent = e
      /\ s.orphans = o /\ s.ino_num = c /\ s.fsck = f
  BY Fields DEF Fits
<1>. QED
  BY <1>1, Zenon DEF Sound

(* A step ends without the error.                                          *)
LEMMA Settled ==
    ASSUME NEW s, NEW k, NEW l, NEW u, NEW e, NEW o, NEW c, NEW f, NEW r,
           At(s, k, l, u, e, o, c, f, r), Tree(k, l, u, e), Listed(k, l, o, c, f)
    PROVE  Sound([s EXCEPT !.err = NoErr])
<1>1. At([s EXCEPT !.err = NoErr], k, l, u, e, o, c, f, NoErr)
  BY SetErr
<1>. QED
  BY <1>1, FitsSound DEF Fits

----------------------------------------------------------------------------
(* The operations keep a name space sound                                  *)

(* An inode without a link is nowhere named and names nothing.             *)
LEMMA Bare ==
    ASSUME NEW k, NEW l, NEW u, NEW e, Tree(k, l, u, e),
           NEW i \in InoSet, k[i] = "free" \/ l[i] = 0
    PROVE  Alone(e, i)
<1>1. LinksOf(k, l, u, e, i) /\ k[RootIno] = "dir" /\ l[RootIno] > 0
  BY DEF Tree
<1>. QED
  BY <1>1 DEF LinksOf, Alone

(* The fields of handle_failed_inode.                                      *)
LEMMA FailedIs ==
    ASSUME NEW s, NEW k, NEW l, NEW u, NEW e, NEW o, NEW c, NEW f, NEW r,
           At(s, k, l, u, e, o, c, f, r),
           NEW i, NEW block, NEW t, t = handle_failed_inode(s, i, block),
           NEW l2, l2 = [l EXCEPT ![i] = 0]
    PROVE  \/ At(t, [k EXCEPT ![i] = "free"], l2, u, e, o, c, f, NoErr)
           \/ At(t, k, l2, u, e, o, c, TRUE, NoErr)
           \/ At(t, k, l2, u, e, o \cup {i}, c + 1, f, NoErr)
<1>. DEFINE w == [s EXCEPT !.nlink[i] = 0, !.err = NoErr]  a == acquire_orphan_inode(w)
<1>1. t = IF ~block THEN [w EXCEPT !.kind[i] = "free"]
          ELSE IF a.err # NoErr THEN [w EXCEPT !.fsck = TRUE] ELSE add_orphan_inode(a, i)
  BY DEF handle_failed_inode, NoErr
<1>2. At(w, k, l2, u, e, o, c, f, NoErr)
  BY DEF At
<1>. HIDE DEF w
<1>3. /\ c >= max_orphans => At(a, k, l2, u, e, o, c, f, "ENOSPC")
      /\ ~(c >= max_orphans) => At(a, k, l2, u, e, o, c + 1, f, NoErr)
  BY <1>2, AcquireIs
<1>. HIDE DEF a
<1>4. a.err = NoErr => At(a, k, l2, u, e, o, c + 1, f, NoErr)
  <2>1. c >= max_orphans => a.err = "ENOSPC"
    BY <1>3, Fields
  <2>. QED
    BY <1>3, <2>1, ErrIs
<1>5. a.err = NoErr => At(add_orphan_inode(a, i), k, l2, u, e, o \cup {i}, c + 1, f, NoErr)
  BY <1>4, AddOrphanIs
<1>6. At([w EXCEPT !.kind[i] = "free"], [k EXCEPT ![i] = "free"], l2, u, e, o, c, f, NoErr)
  BY <1>2 DEF At
<1>7. At([w EXCEPT !.fsck = TRUE], k, l2, u, e, o, c, TRUE, NoErr)
  BY <1>2 DEF At
<1>8. CASE ~block
  BY <1>1, <1>6, <1>8
<1>9. CASE block /\ a.err # NoErr
  BY <1>1, <1>7, <1>9
<1>10. CASE block /\ a.err = NoErr
  BY <1>1, <1>5, <1>10
<1>. QED
  BY <1>8, <1>9, <1>10

(* From s to t only inode i has changed, which is of kind x or free.       *)
Renewed(s, t, i, x) ==
    /\ t.dent = s.dent /\ t.kind[i] \in {x, "free"}
    /\ \A j \in InoSet \ {i} : t.kind[j] = s.kind[j] /\ t.nlink[j] = s.nlink[j]

(* Inode i may be listed, left to fsck, or free.                           *)
NewListed(k, l, u, e, o, c, f, i) ==
    /\ Tree(k, l, u, e)
    /\ Listed(k, l, o \cup {i}, c + 1, f) /\ Listed(k, l, o, c, TRUE)
    /\ Tree([k EXCEPT ![i] = "free"], l, u, e)
    /\ Listed([k EXCEPT ![i] = "free"], l, o, c, f)

(* Inode i was free and is now an inode of kind x without a link, listed   *)
(* or left to fsck; or it is free again.                                   *)
LEMMA NewUnlinked ==
    ASSUME NEW k, NEW l, NEW u, NEW e, NEW o, NEW c, NEW f, Tree(k, l, u, e), Listed(k, l, o, c, f),
           NEW i \in InoSet, k[i] = "free", NEW d \in InoSet, NEW x \in {"file", "dir"},
           NEW k2, k2 = [k EXCEPT ![i] = x], NEW l2, NoLink(l, i, l2),
           NEW u2, u2 = [u EXCEPT ![i] = d]
    PROVE  NewListed(k2, l2, u2, e, o, c, f, i)
<1>1. k \in KindType /\ u \in UpType
  BY DEF Tree, TreeType
<1>. DEFINE k3 == [k2 EXCEPT ![i] = "free"]
<1>2. /\ k2 \in KindType /\ k2[i] = x /\ \A j \in InoSet \ {i} : k2[j] = k[j]
      /\ k3 \in KindType /\ k3[i] = "free" /\ \A j \in InoSet \ {i} : k3[j] = k[j]
  BY <1>1 DEF KindType, Kinds
<1>3. u2 \in UpType /\ \A j \in InoSet \ {i} : u2[j] = u[j]
  BY <1>1 DEF UpType
<1>. HIDE DEF k3
<1>4. Alone(e, i) /\ Other(k, l, u, i, k2, l2, u2) /\ Other(k, l, u, i, k3, l2, u2)
  BY <1>2, <1>3, Bare DEF Other
<1>5. Tree(k2, l2, u2, e)
  BY <1>4, Renew
<1>6. Tree(k3, l2, u2, e)
  BY <1>4, Renew
<1>7. Unlinked(k2, l2) = Unlinked(k, l) \cup {i} /\ i \notin Unlinked(k, l)
  BY <1>2 DEF Unlinked, NoLink
<1>8. Unlinked(k3, l2) = Unlinked(k, l)
  BY <1>2 DEF Unlinked, NoLink
<1>9. Listed(k2, l2, o \cup {i}, c + 1, f) /\ Listed(k2, l2, o, c, TRUE)
  BY <1>7, ListMore
<1>10. Listed(k3, l2, o, c, f)
  BY <1>8, ListSame
<1>. QED
  BY <1>5, <1>6, <1>9, <1>10 DEF k3, NewListed

(* handle_failed_inode of a new inode.                                     *)
LEMMA FailedSound ==
    ASSUME NEW s, NEW k, NEW l, NEW u, NEW e, NEW o, NEW c, NEW f, Fits(s, k, l, u, e, o, c, f),
           NEW i \in InoSet, k[i] = "free", NEW d \in InoSet, NEW x \in {"file", "dir"},
           NEW w, NEW r,
           At(w, [k EXCEPT ![i] = x], [l EXCEPT ![i] = 1], [u EXCEPT ![i] = d], e, o, c, f, r),
           NEW block, NEW t, t = handle_failed_inode(w, i, block)
    PROVE  Sound([t EXCEPT !.err = NoErr]) /\ Renewed(s, t, i, x)
<1>. DEFINE k2 == [k EXCEPT ![i] = x]  l1 == [l EXCEPT ![i] = 1]  l2 == [l1 EXCEPT ![i] = 0]
            u2 == [u EXCEPT ![i] = d]  k3 == [k2 EXCEPT ![i] = "free"]
<1>1. At(s, k, l, u, e, o, c, f, NoErr) /\ Tree(k, l, u, e) /\ Listed(k, l, o, c, f)
      /\ k \in KindType /\ l \in LinkType
  BY DEF Fits, Tree, TreeType
<1>2. l2 \in LinkType /\ l2[i] = 0 /\ \A j \in InoSet \ {i} : l2[j] = l[j]
  BY <1>1 DEF LinkType
<1>3. k2[i] = x /\ k3[i] = "free" /\ \A j \in InoSet \ {i} : k2[j] = k[j] /\ k3[j] = k[j]
  BY <1>1 DEF KindType
<1>4. At(w, k2, l1, u2, e, o, c, f, r)
  OBVIOUS
<1>5. l2 = [l1 EXCEPT ![i] = 0]
  OBVIOUS
<1>6. k2 = [k EXCEPT ![i] = x] /\ u2 = [u EXCEPT ![i] = d]
  OBVIOUS
<1>. HIDE DEF k2, l1, l2, u2
<1>7. \/ At(t, k3, l2, u2, e, o, c, f, NoErr)
      \/ At(t, k2, l2, u2, e, o, c, TRUE, NoErr)
      \/ At(t, k2, l2, u2, e, o \cup {i}, c + 1, f, NoErr)
  BY <1>4, <1>5, FailedIs
<1>8. /\ Tree(k2, l2, u2, e)
      /\ Listed(k2, l2, o \cup {i}, c + 1, f) /\ Listed(k2, l2, o, c, TRUE)
      /\ Tree(k3, l2, u2, e) /\ Listed(k3, l2, o, c, f)
  <2>1. NoLink(l, i, l2)
    BY <1>2 DEF NoLink
  <2>2. NewListed(k2, l2, u2, e, o, c, f, i)
    BY <1>1, <1>6, <2>1, NewUnlinked
  <2>. QED
    BY <2>2, Zenon DEF NewListed
<1>. HIDE DEF k3
<1>9. Sound([t EXCEPT !.err = NoErr])
  BY <1>7, <1>8, Settled
<1>10. t.nlink = l2 /\ t.dent = e /\ (t.kind = k2 \/ t.kind = k3)
  BY <1>7 DEF At
<1>11. s.kind = k /\ s.nlink = l /\ s.dent = e
  BY <1>1 DEF At
<1>12. Renewed(s, t, i, x)
  BY <1>2, <1>3, <1>10, <1>11 DEF Renewed
<1>. QED
  BY <1>9, <1>12

(* f2fs_new_inode that fails: the name space is sound.                     *)
LEMMA NewFails ==
    ASSUME NEW s, Sound(s), NEW i \in InoSet, s.kind[i] = "free", NEW d \in InoSet,
           NEW x \in {"file", "dir"}, NEW block,
           NEW t, t = handle_failed_inode(f2fs_new_inode(s, i, x, d), i, block)
    PROVE  Sound([t EXCEPT !.err = NoErr])
<1>. DEFINE k == s.kind  l == s.nlink  u == s.up  e == s.dent  o == s.orphans
            c == s.ino_num  f == s.fsck  w == f2fs_new_inode(s, i, x, d)
<1>1. Fits(s, k, l, u, e, o, c, f) /\ k[i] = "free"
  BY Zenon DEF Sound
<1>2. t = handle_failed_inode(w, i, block) /\ w = f2fs_new_inode(s, i, x, d)
  OBVIOUS
<1>. HIDE DEF k, l, u, e, o, c, f, w
<1>3. At(s, k, l, u, e, o, c, f, NoErr)
  BY <1>1 DEF Fits
<1>4. At(w, [k EXCEPT ![i] = x], [l EXCEPT ![i] = 1], [u EXCEPT ![i] = d], e, o, c, f, NoErr)
  BY <1>2, <1>3, NewInodeIs
<1>. QED
  BY <1>1, <1>2, <1>4, FailedSound

(* __f2fs_tmpfile.                                                         *)
LEMMA TmpfileSound ==
    ASSUME NEW s, Sound(s), NEW i \in InoSet, s.kind[i] = "free", NEW d \in InoSet, NEW outcome,
           NEW t, t = __f2fs_tmpfile(s, i, d, outcome)
    PROVE  Sound([t EXCEPT !.err = NoErr]) /\ Renewed(s, t, i, "file")
<1>. DEFINE k == s.kind  l == s.nlink  u == s.up  e == s.dent  o == s.orphans
            c == s.ino_num  f == s.fsck  w == f2fs_new_inode(s, i, "file", d)
            a == acquire_orphan_inode(w)  b == release_orphan_inode(a)
            k2 == [k EXCEPT ![i] = "file"]  l1 == [l EXCEPT ![i] = 1]  u2 == [u EXCEPT ![i] = d]
<1>1. Fits(s, k, l, u, e, o, c, f) /\ k[i] = "free"
  BY Zenon DEF Sound
<1>2. t = IF a.err # NoErr THEN handle_failed_inode(w, i, FALSE)
          ELSE IF outcome # "ok" THEN handle_failed_inode(b, i, outcome = "late")
          ELSE [add_orphan_inode(a, i) EXCEPT !.nlink[i] = 0]
  BY DEF __f2fs_tmpfile, NoErr
<1>. HIDE DEF k, l, u, e, o, c, f
<1>3. /\ At(s, k, l, u, e, o, c, f, NoErr) /\ Tree(k, l, u, e) /\ Listed(k, l, o, c, f)
      /\ k \in KindType /\ l \in LinkType /\ c \in Nat
  BY <1>1, ListFinite DEF Fits, Tree, TreeType
<1>4. At(w, k2, l1, u2, e, o, c, f, NoErr)
  BY <1>3, NewInodeIs
<1>. HIDE DEF w
<1>5. CASE a.err # NoErr
  <2>1. t = handle_failed_inode(w, i, FALSE)
    BY <1>2, <1>5
  <2>. QED
    BY <1>1, <1>4, <2>1, FailedSound
<1>6. a.err = NoErr => At(a, k2, l1, u2, e, o, c + 1, f, NoErr)
  <2>1. /\ c >= max_orphans => At(a, k2, l1, u2, e, o, c, f, "ENOSPC")
        /\ ~(c >= max_orphans) => At(a, k2, l1, u2, e, o, c + 1, f, NoErr)
    <3>. HIDE DEF k2, l1, u2
    <3>. QED
      BY <1>4, AcquireIs
  <2>2. c >= max_orphans => a.err = "ENOSPC"
    <3>. HIDE DEF a, k2, l1, u2
    <3>. QED
      BY <2>1 DEF At
  <2>. QED
    BY <2>1, <2>2, ErrIs
<1>7. CASE a.err = NoErr /\ outcome # "ok"
  <2>. DEFINE late == outcome = "late"
  <2>1. t = handle_failed_inode(b, i, late)
    BY <1>2, <1>7
  <2>. HIDE DEF late
  <2>2. At(b, k2, l1, u2, e, o, (c + 1) - 1, f, NoErr)
    <3>. HIDE DEF a, k2, l1, u2
    <3>. QED
      BY <1>6, <1>7, ReleaseIs
  <2>3. (c + 1) - 1 = c
    <3>1. c \in Nat
      BY <1>3
    <3>. QED
      BY <3>1
  <2>4. At(b, k2, l1, u2, e, o, c, f, NoErr)
    BY <2>2, <2>3
  <2>. HIDE DEF b
  <2>. QED
    BY <1>1, <2>1, <2>4, FailedSound
<1>8. CASE a.err = NoErr /\ outcome = "ok"
  <2>. DEFINE g == add_orphan_inode(a, i)  l2 == [l1 EXCEPT ![i] = 0]
  <2>1. t = [g EXCEPT !.nlink[i] = 0]
    BY <1>2, <1>8
  <2>2. At(g, k2, l1, u2, e, o \cup {i}, c + 1, f, NoErr)
    <3>. HIDE DEF a, k2, l1, u2
    <3>. QED
      BY <1>6, <1>8, AddOrphanIs
  <2>. HIDE DEF g
  <2>3. At(t, k2, l2, u2, e, o \cup {i}, c + 1, f, NoErr)
    <3>. HIDE DEF a, k2, l1, u2
    <3>. QED
      BY <2>1, <2>2 DEF At
  <2>4. NoLink(l, i, l2) /\ k2[i] = "file" /\ \A j \in InoSet \ {i} : k2[j] = k[j]
    BY <1>3 DEF NoLink, LinkType, KindType
  <2>5. k2 = [k EXCEPT ![i] = "file"] /\ u2 = [u EXCEPT ![i] = d]
    OBVIOUS
  <2>. HIDE DEF k2, l1, l2, u2
  <2>6. NewListed(k2, l2, u2, e, o, c, f, i)
    BY <1>1, <1>3, <2>4, <2>5, NewUnlinked
  <2>7. Tree(k2, l2, u2, e) /\ Listed(k2, l2, o \cup {i}, c + 1, f)
    BY <2>6, Zenon DEF NewListed
  <2>8. Sound([t EXCEPT !.err = NoErr])
    BY <2>3, <2>7, Settled
  <2>9. t.nlink = l2 /\ t.dent = e /\ t.kind = k2
    BY <2>3, Fields
  <2>10. s.kind = k /\ s.nlink = l /\ s.dent = e
    BY DEF k, l, e
  <2>11. Renewed(s, t, i, "file")
    BY <2>4, <2>9, <2>10 DEF Renewed, NoLink
  <2>. QED
    BY <2>8, <2>11
<1>. QED
  BY <1>5, <1>7, <1>8

(* A new inode with its name: f2fs_create, f2fs_mknod, f2fs_mkdir and the  *)
(* first step of f2fs_symlink.                                             *)
LEMMA NewLinked ==
    ASSUME NEW s, Sound(s), NEW i \in InoSet, s.kind[i] = "free",
           NEW d \in InoSet, s.kind[d] = "dir", s.nlink[d] > 0,
           NEW n \in FileNames, s.dent[d][n] = 0, NEW x \in {"file", "dir"},
           NEW t, t = AddNewLink(f2fs_new_inode(s, i, x, d), d, n, i)
    PROVE  Sound([t EXCEPT !.err = NoErr]) /\ t.dent[d][n] = i /\ t.kind[i] = x
<1>. DEFINE k == s.kind  l == s.nlink  u == s.up  e == s.dent  o == s.orphans
            c == s.ino_num  f == s.fsck  w == f2fs_new_inode(s, i, x, d)
            k2 == [k EXCEPT ![i] = x]  l1 == [l EXCEPT ![i] = 1]  u2 == [u EXCEPT ![i] = d]
            e2 == [e EXCEPT ![d][n] = i]  l0 == [l EXCEPT ![i] = 0]
            l2 == IF x = "dir" THEN [l1 EXCEPT ![i] = @ + 1, ![d] = @ + 1] ELSE l1
<1>1. Fits(s, k, l, u, e, o, c, f) /\ k[i] = "free" /\ k[d] = "dir" /\ l[d] > 0 /\ e[d][n] = 0
  BY Zenon DEF Sound
<1>2. t = AddNewLink(w, d, n, i)
  OBVIOUS
<1>. HIDE DEF k, l, u, e, o, c, f
<1>3. /\ At(s, k, l, u, e, o, c, f, NoErr) /\ Tree(k, l, u, e) /\ Listed(k, l, o, c, f)
      /\ k \in KindType /\ l \in LinkType /\ u \in UpType /\ e \in DentType
  BY <1>1 DEF Fits, Tree, TreeType
<1>4. At(w, k2, l1, u2, e, o, c, f, NoErr)
  BY <1>3, NewInodeIs
<1>. HIDE DEF w
<1>5. k2[i] = x /\ k2[d] = "dir" /\ i # d /\ u2[i] = d
  BY <1>1, <1>3 DEF KindType, UpType
<1>6. /\ l2 \in LinkType /\ \A j \in InoSet \ {i, d} : l2[j] = l0[j]
      /\ l0[i] = 0 /\ l0[d] > 0 /\ l2[i] # 0 /\ l2[d] # 0
      /\ x = "dir" => l2[i] = 2 /\ l2[d] = l0[d] + 1
      /\ x # "dir" => l2 = [l0 EXCEPT ![i] = @ + 1]
  <2>1. /\ l0 \in LinkType /\ l1 \in LinkType /\ l0[i] = 0 /\ l1[i] = 1
        /\ \A j \in InoSet \ {i} : l0[j] = l[j] /\ l1[j] = l[j]
        /\ l0[d] = l[d] /\ l1[d] = l[d] /\ l[d] \in Nat
    BY <1>3, <1>5 DEF LinkType
  <2>2. l1 = [l0 EXCEPT ![i] = @ + 1]
    <3>. HIDE DEF l0, l1
    <3>. QED
      BY <2>1 DEF LinkType
  <2>3. CASE x = "dir"
    <3>. HIDE DEF l0, l1
    <3>1. l2 = [l1 EXCEPT ![i] = @ + 1, ![d] = @ + 1]
      BY <2>3
    <3>. QED
      BY <1>1, <1>5, <2>1, <2>3, <3>1 DEF LinkType
  <2>4. CASE x # "dir"
    BY <1>1, <2>1, <2>2, <2>4
  <2>. QED
    BY <2>3, <2>4
<1>7. NoLink(l, i, l0)
  BY <1>3 DEF NoLink, LinkType
<1>8. At(t, k2, l2, u2, e2, o, c, f, NoErr)
  <2>1. /\ k2[i] = "dir" => At(t, k2, [l1 EXCEPT ![i] = @ + 1, ![d] = @ + 1], u2, e2, o, c, f, NoErr)
        /\ k2[i] # "dir" => At(t, k2, l1, u2, e2, o, c, f, NoErr)
    <3>. HIDE DEF k2, l1, u2
    <3>. QED
      BY <1>2, <1>4, AddNewLinkIs
  <2>. QED
    BY <1>5, <2>1
<1>9. /\ k2 = [k EXCEPT ![i] = x] /\ u2 = [u EXCEPT ![i] = d] /\ e2 = [e EXCEPT ![d][n] = i]
  OBVIOUS
<1>10. e2[d][n] = i
  BY <1>3 DEF DentType
<1>11. Unlinked(k2, l2) = Unlinked(k, l)
  <2>1. \A j \in InoSet \ {i, d} : k2[j] = k[j] /\ l2[j] = l[j]
    BY <1>3, <1>6 DEF KindType, LinkType
  <2>2. l2[i] # 0 /\ l2[d] # 0 /\ l[d] # 0
    BY <1>1, <1>6
  <2>. HIDE DEF k2, l2
  <2>. QED
    BY <1>1, <2>1, <2>2 DEF Unlinked
<1>. HIDE DEF k2, l0, l1, l2, u2, e2
<1>12. NewListed(k2, l0, u2, e, o, c, f, i)
  BY <1>1, <1>3, <1>7, <1>9, NewUnlinked
<1>13. Tree(k2, l0, u2, e)
  BY <1>12, Zenon DEF NewListed
<1>14. Tree(k2, l2, u2, e2)
  <2>1. CASE x = "dir"
    <3>1. NewDirLinks(l0, d, i, l2) /\ k2[i] = "dir"
      BY <1>5, <1>6, <2>1 DEF NewDirLinks
    <3>. QED
      BY <1>1, <1>5, <1>6, <1>9, <1>13, <3>1, AddDir
  <2>2. CASE x # "dir"
    <3>1. l2 = [l0 EXCEPT ![i] = @ + 1] /\ k2[i] = "file"
      BY <1>5, <1>6, <2>2
    <3>. QED
      BY <1>1, <1>5, <1>6, <1>9, <1>13, <3>1, AddFile
  <2>. QED
    BY <2>1, <2>2
<1>15. Listed(k2, l2, o, c, f)
  BY <1>3, <1>11, ListSame
<1>16. Sound([t EXCEPT !.err = NoErr])
  BY <1>8, <1>14, <1>15, Settled
<1>17. t.dent = e2 /\ t.kind = k2
  BY <1>8 DEF At
<1>. QED
  BY <1>5, <1>10, <1>16, <1>17

(* f2fs_add_link of an inode that exists: f2fs_link, and the whiteout of a *)
(* rename.                                                                 *)
LEMMA AddLinkSound ==
    ASSUME NEW s, Sound(s), NEW d \in InoSet, s.kind[d] = "dir", s.nlink[d] > 0,
           NEW n \in FileNames, s.dent[d][n] = 0, NEW i \in InoSet, s.kind[i] = "file",
           NEW t, t = AddLink(s, d, n, i)
    PROVE  Sound([t EXCEPT !.err = NoErr])
<1>. DEFINE k == s.kind  l == s.nlink  u == s.up  e == s.dent  o == s.orphans
            c == s.ino_num  f == s.fsck
            l2 == [l EXCEPT ![i] = @ + 1]  e2 == [e EXCEPT ![d][n] = i]
<1>1. Fits(s, k, l, u, e, o, c, f) /\ k[i] = "file" /\ k[d] = "dir" /\ l[d] > 0 /\ e[d][n] = 0
  BY Zenon DEF Sound
<1>. HIDE DEF k, l, u, e, o, c, f
<1>2. /\ At(s, k, l, u, e, o, c, f, NoErr) /\ Tree(k, l, u, e) /\ Listed(k, l, o, c, f)
      /\ l \in LinkType
  BY <1>1 DEF Fits, Tree, TreeType
<1>3. l2[i] = l[i] + 1 /\ l[i] \in Nat /\ \A j \in InoSet \ {i} : l2[j] = l[j]
  BY <1>2 DEF LinkType
<1>4. l2 = [l EXCEPT ![i] = @ + 1] /\ e2 = [e EXCEPT ![d][n] = i]
  OBVIOUS
<1>. HIDE DEF l2, e2
<1>5. Tree(k, l2, u, e2)
  BY <1>1, <1>2, <1>4, AddFile
<1>6. /\ l[i] = 0 /\ i \in o => At(t, k, l2, u, e2, o \ {i}, c - 1, f, NoErr)
      /\ ~(l[i] = 0 /\ i \in o) => At(t, k, l2, u, e2, o, c, f, NoErr)
  <2>1. Relisted(t, k, l, l2, u, e2, o, c, f, NoErr, i)
    BY <1>2, <1>4, AddLinkIs
  <2>. QED
    BY <2>1, Zenon DEF Relisted
<1>7. Unlinked(k, l2) = Unlinked(k, l) \ {i}
  BY <1>3 DEF Unlinked
<1>8. /\ i \in o => Listed(k, l2, o \ {i}, c - 1, f)
      /\ i \notin o => Listed(k, l2, o, c, f)
  BY <1>2, <1>7, ListLess
<1>9. i \in o => l[i] = 0
  BY <1>2 DEF Listed, Unlinked
<1>. QED
  BY <1>5, <1>6, <1>8, <1>9, Settled

(* f2fs_unlink and f2fs_rmdir.                                             *)
LEMMA UnlinkSound ==
    ASSUME NEW s, Sound(s), NEW d \in InoSet, NEW n \in FileNames, s.dent[d][n] # 0,
           s.kind[s.dent[d][n]] = "dir" => f2fs_empty_directory(s, s.dent[d][n]),
           NEW t, t = f2fs_unlink(s, d, n)
    PROVE  Sound([t EXCEPT !.err = NoErr])
<1>. DEFINE k == s.kind  l == s.nlink  u == s.up  e == s.dent  o == s.orphans
            c == s.ino_num  f == s.fsck  i == e[d][n]
            a == acquire_orphan_inode(s)  b == f2fs_set_dentry(a, d, n, 0)
            e2 == [e EXCEPT ![d][n] = 0]
            l2 == IF k[i] = "dir" THEN DirDropped(l, d, i)
                  ELSE [l EXCEPT ![i] = @ - 1]
<1>1. /\ Fits(s, k, l, u, e, o, c, f) /\ i # 0
      /\ k[i] = "dir" => \A m \in FileNames : e[i][m] = 0
  BY Zenon DEF Sound, f2fs_empty_directory
<1>2. t = IF a.err # NoErr THEN a ELSE f2fs_drop_nlink(b, d, i)
  BY DEF f2fs_unlink, NoErr
<1>. HIDE DEF k, l, u, e, o, c, f
<1>3. /\ At(s, k, l, u, e, o, c, f, NoErr) /\ Tree(k, l, u, e) /\ Listed(k, l, o, c, f)
      /\ k \in KindType /\ l \in LinkType /\ e \in DentType /\ c \in Nat
  BY <1>1, ListFinite DEF Fits, Tree, TreeType
<1>4. i \in InoSet /\ i # d /\ i = e[d][n]
  <2>1. e[d][n] \in InoSet \cup {0} /\ e[d][n] # d
    BY <1>3 DEF DentType, Tree
  <2>. QED
    BY <1>1, <2>1
<1>5. k[i] # "free" /\ l[i] > 0
  <2>1. <<d, n>> \in Named(e, i) /\ LinksOf(k, l, u, e, i)
    BY <1>3, <1>4 DEF Tree, Named
  <2>. QED
    BY <2>1 DEF LinksOf
<1>6. e2 = [e EXCEPT ![d][n] = 0] /\ l2 = (IF k[i] = "dir" THEN DirDropped(l, d, i)
                                          ELSE [l EXCEPT ![i] = @ - 1])
  OBVIOUS
<1>. HIDE DEF i, e2, l2
<1>7. Tree(k, l2, u, e2) /\ (k[i] = "dir" => l2[i] = 0)
  <2>1. CASE k[i] = "dir"
    <3>1. l2 = DirDropped(l, d, i) /\ NoEntries(e, i)
      BY <1>1, <1>6, <2>1 DEF NoEntries
    <3>2. Tree(k, l, u, e) /\ i = e[d][n] /\ i # 0 /\ e2 = [e EXCEPT ![d][n] = 0]
      BY <1>1, <1>3, <1>4, <1>6
    <3>3. DirGone(k, l2, u, e2, i)
      BY <2>1, <3>1, <3>2, DropDir
    <3>. QED
      BY <3>3 DEF DirGone
  <2>2. CASE k[i] # "dir"
    <3>1. l2 = [l EXCEPT ![i] = @ - 1] /\ k[i] = "file"
      BY <1>3, <1>4, <1>5, <1>6, <2>2 DEF KindType, Kinds
    <3>2. Tree(k, l, u, e) /\ i = e[d][n] /\ i # 0 /\ e2 = [e EXCEPT ![d][n] = 0]
      BY <1>1, <1>3, <1>4, <1>6
    <3>. QED
      BY <2>2, <3>1, <3>2, DropFile
  <2>. QED
    BY <2>1, <2>2
<1>8. Unlinked(k, l2) = IF l2[i] = 0 THEN Unlinked(k, l) \cup {i} ELSE Unlinked(k, l)
  <2>1. \A j \in InoSet : k[j] # "free" /\ j # i => (l2[j] = 0 <=> l[j] = 0)
    <3>. SUFFICES ASSUME NEW j \in InoSet, k[j] # "free", j # i PROVE l2[j] = 0 <=> l[j] = 0
      OBVIOUS
    <3>1. CASE j # d \/ k[i] # "dir"
      BY <1>3, <1>4, <1>6, <3>1 DEF LinkType, DirDropped
    <3>2. CASE j = d /\ k[i] = "dir"
      <4>1. LinksOf(k, l, u, e, d) /\ e[d][n] # 0 /\ l[d] \in Nat
        BY <1>1, <1>3, <1>4 DEF Tree, LinkType
      <4>2. k[d] = "dir" /\ l[d] # 0
        BY <4>1 DEF LinksOf
      <4>3. k[d] = "dir" /\ l[d] = 2 + Cardinality(Subs(k, e, d))
        <5>1. l[d] > 0
          BY <4>1, <4>2
        <5>. QED
          BY <4>1, <4>2, <5>1 DEF LinksOf
      <4>4. l2[d] = l[d] - 1 /\ Cardinality(Subs(k, e, d)) \in Nat
        BY <1>3, <1>4, <1>6, <3>2, SubsFinite DEF LinkType, DirDropped
      <4>. QED
        BY <3>2, <4>2, <4>3, <4>4
    <3>. QED
      BY <3>1, <3>2
  <2>. QED
    BY <1>4, <1>5, <2>1 DEF Unlinked
<1>9. CASE a.err # NoErr
  <2>1. \/ At(a, k, l, u, e, o, c, f, "ENOSPC")
        \/ At(a, k, l, u, e, o, c + 1, f, NoErr)
    BY <1>3, AcquireIs
  <2>2. At(a, k, l, u, e, o, c, f, "ENOSPC")
    <3>. HIDE DEF a
    <3>. QED
      BY <1>9, <2>1 DEF At
  <2>3. Sound([a EXCEPT !.err = NoErr])
    BY <1>3, <2>2, Settled
  <2>. QED
    BY <1>2, <1>9, <2>3
<1>10. CASE a.err = NoErr
  <2>1. \/ At(a, k, l, u, e, o, c, f, "ENOSPC")
        \/ At(a, k, l, u, e, o, c + 1, f, NoErr)
    BY <1>3, AcquireIs
  <2>2. At(a, k, l, u, e, o, c + 1, f, NoErr) /\ t = f2fs_drop_nlink(b, d, i)
    <3>1. t = f2fs_drop_nlink(b, d, i)
      BY <1>2, <1>10
    <3>. HIDE DEF a, b
    <3>. QED
      BY <1>10, <2>1, <3>1, ErrIs DEF At
  <2>3. At(b, k, l, u, e2, o, c + 1, f, NoErr)
    <3>. HIDE DEF a
    <3>. QED
      BY <1>6, <2>2, SetDentryIs
  <2>. HIDE DEF b
  <2>4. /\ l2[i] = 0 => At(t, k, l2, u, e2, o \cup {i}, c + 1, f, NoErr)
        /\ l2[i] # 0 => At(t, k, l2, u, e2, o, (c + 1) - 1, f, NoErr)
    BY <1>6, <2>2, <2>3, DropNlinkIs
  <2>5. (c + 1) - 1 = c
    <3>1. c \in Nat
      BY <1>3
    <3>. QED
      BY <3>1
  <2>6. CASE l2[i] = 0
    <3>1. Unlinked(k, l2) = Unlinked(k, l) \cup {i} /\ i \notin Unlinked(k, l)
      BY <1>5, <1>8, <2>6 DEF Unlinked
    <3>2. Listed(k, l2, o \cup {i}, c + 1, f)
      BY <1>3, <3>1, ListMore
    <3>. QED
      BY <1>7, <2>4, <2>6, <3>2, Settled
  <2>7. CASE l2[i] # 0
    <3>1. Listed(k, l2, o, c, f)
      BY <1>3, <1>8, <2>7, ListSame
    <3>2. At(t, k, l2, u, e2, o, c, f, NoErr)
      BY <2>4, <2>5, <2>7
    <3>. QED
      BY <1>7, <3>1, <3>2, Settled
  <2>. QED
    BY <2>6, <2>7
<1>. QED
  BY <1>9, <1>10

----------------------------------------------------------------------------
(* Rename                                                                  *)

(* What a rename of entry on of od to nn of nd starts from.                *)
May(k, l, e, od, on, nd, nn) ==
    /\ od \in InoSet /\ nd \in InoSet /\ on \in FileNames /\ nn \in FileNames
    /\ k[nd] = "dir" /\ l[nd] > 0
    /\ e[od][on] # 0 /\ e[od][on] # e[nd][nn] /\ e[od][on] # nd
    /\ e[nd][nn] # 0 => k[e[nd][nn]] = k[e[od][on]]

(* What follows for the inode i that moves and the directories.            *)
Moving(k, l, u, e, od, on, nd, nn, i) ==
    /\ i \in InoSet /\ i # 0 /\ i # od /\ i # nd /\ l[i] > 0 /\ k[i] \in {"file", "dir"}
    /\ k[od] = "dir" /\ l[od] > 0 /\ l[od] = 2 + Cardinality(Subs(k, e, od))
    /\ k[nd] = "dir" /\ l[nd] > 0 /\ l[nd] = 2 + Cardinality(Subs(k, e, nd))
    /\ <<od, on>> # <<nd, nn>>
    /\ k[i] = "dir" => u[i] = od

(* It follows.                                                             *)
LEMMA MovingIs ==
    ASSUME NEW k, NEW l, NEW u, NEW e, Tree(k, l, u, e),
           NEW od, NEW on, NEW nd, NEW nn, May(k, l, e, od, on, nd, nn), NEW i, i = e[od][on]
    PROVE  Moving(k, l, u, e, od, on, nd, nn, i)
<1>. USE DEF May
<1>1. /\ k \in KindType /\ l \in LinkType /\ e \in DentType
      /\ \A x \in InoSet : LinksOf(k, l, u, e, x)
      /\ k[RootIno] = "dir" /\ l[RootIno] > 0 /\ Named(e, RootIno) = {}
  BY DEF Tree, TreeType
<1>2. i \in InoSet /\ i # od /\ i # 0 /\ i # nd
  BY <1>1 DEF DentType, Tree
<1>3. <<od, on>> \in Named(e, i)
  BY <1>2 DEF Named
<1>4. k[i] # "free" /\ l[i] > 0
  BY <1>1, <1>2, <1>3 DEF LinksOf
<1>5. k[i] \in {"file", "dir"}
  BY <1>1, <1>2, <1>4 DEF KindType, Kinds
<1>6. k[od] = "dir" /\ l[od] > 0
  <2>1. LinksOf(k, l, u, e, od) /\ e[od][on] # 0 /\ l[od] \in Nat
    BY <1>1 DEF LinkType
  <2>2. k[od] = "dir" /\ l[od] # 0
    BY <2>1 DEF LinksOf
  <2>. QED
    BY <2>1, <2>2
<1>7. l[od] = 2 + Cardinality(Subs(k, e, od)) /\ l[nd] = 2 + Cardinality(Subs(k, e, nd))
  BY <1>1, <1>6 DEF LinksOf
<1>8. k[i] = "dir" => u[i] = od
  <2>. SUFFICES ASSUME k[i] = "dir" PROVE u[i] = od
    OBVIOUS
  <2>1. i # RootIno
    BY <1>1, <1>3
  <2>2. PICK m \in FileNames : Named(e, i) = {<<u[i], m>>}
    BY <1>1, <1>2, <1>4, <2>1 DEF LinksOf
  <2>. QED
    BY <1>3, <2>2
<1>9. <<od, on>> # <<nd, nn>>
  OBVIOUS
<1>. QED
  BY <1>2, <1>4, <1>5, <1>6, <1>7, <1>8, <1>9 DEF Moving

(* Entry on of od is gone, entry nn of nd is i.                            *)
Moved(e, od, on, nd, nn, i, e2) ==
    /\ e2 \in DentType /\ e2[od][on] = 0 /\ e2[nd][nn] = i
    /\ \A x \in InoSet, m \in FileNames :
         <<x, m>> # <<od, on>> /\ <<x, m>> # <<nd, nn>> => e2[x][m] = e[x][m]

(* The two calls of f2fs_set_dentry do that.                               *)
LEMMA MovedIs ==
    ASSUME NEW e \in DentType, NEW od \in InoSet, NEW on \in FileNames,
           NEW nd \in InoSet, NEW nn \in FileNames, NEW i \in InoSet, <<od, on>> # <<nd, nn>>,
           NEW e1, e1 = [e EXCEPT ![nd][nn] = i], NEW e2, e2 = [e1 EXCEPT ![od][on] = 0]
    PROVE  Moved(e, od, on, nd, nn, i, e2)
<1>1. Entered(<<>>, e, nd, nn, i, e1)
  BY EnterIs
<1>2. /\ e1 \in DentType /\ e1[nd][nn] = i
      /\ \A x \in InoSet, m \in FileNames : x # nd \/ m # nn => e1[x][m] = e[x][m]
  BY <1>1, Zenon DEF Entered
<1>3. Entered(<<>>, e1, od, on, 0, e2)
  BY <1>2, EnterIs
<1>4. /\ e2 \in DentType /\ e2[od][on] = 0
      /\ \A x \in InoSet, m \in FileNames : x # od \/ m # on => e2[x][m] = e1[x][m]
  BY <1>3, Zenon DEF Entered
<1>5. e2[nd][nn] = i
  <2>1. nd # od \/ nn # on
    OBVIOUS
  <2>. QED
    BY <1>2, <1>4, <2>1, Zenon
<1>6. ASSUME NEW x \in InoSet, NEW m \in FileNames, <<x, m>> # <<od, on>>, <<x, m>> # <<nd, nn>>
      PROVE  e2[x][m] = e[x][m]
  <2>1. (x # nd \/ m # nn) /\ (x # od \/ m # on)
    BY <1>6
  <2>. QED
    <3>1. e2[x][m] = e1[x][m]
      BY <1>4, <2>1, Zenon
    <3>2. e1[x][m] = e[x][m]
      BY <1>2, <2>1, Zenon
    <3>. QED
      BY <3>1, <3>2, Zenon
<1>. QED
  BY <1>4, <1>5, <1>6 DEF Moved

(* A name that is free is taken.                                           *)
LEMMA MoveTree ==
    ASSUME NEW k, NEW l, NEW u, NEW e, Tree(k, l, u, e),
           NEW od, NEW on, NEW nd, NEW nn, May(k, l, e, od, on, nd, nn), e[nd][nn] = 0,
           NEW i, i = e[od][on], NEW l2, SwapLinks(k, l, od, nd, i, 0, l2),
           NEW u2, SwapUps(k, u, od, nd, i, 0, u2), NEW e2, Moved(e, od, on, nd, nn, i, e2)
    PROVE  Tree(k, l2, u2, e2)
<1>1. /\ i \in InoSet /\ i # 0 /\ i # od /\ i # nd /\ k[nd] = "dir" /\ l[nd] > 0
      /\ od \in InoSet /\ nd \in InoSet /\ on \in FileNames /\ nn \in FileNames
  BY MovingIs DEF Moving, May
<1>2. Swap(e, od, on, nd, nn, i, 0, e2)
  BY DEF Swap, Moved, Tree, TreeType
<1>3. 0 # od
  BY <1>1, NamespaceAssumption
<1>. QED
  BY <1>1, <1>2, <1>3, SwapTree

(* A file replaces file j.                                                 *)
LEMMA ReplaceFile ==
    ASSUME NEW k, NEW l, NEW u, NEW e, Tree(k, l, u, e),
           NEW od, NEW on, NEW nd, NEW nn, May(k, l, e, od, on, nd, nn),
           NEW i, i = e[od][on], k[i] = "file", NEW j, j = e[nd][nn], j # 0,
           NEW l2, l2 = [l EXCEPT ![j] = @ - 1], NEW e2, Moved(e, od, on, nd, nn, i, e2)
    PROVE  Tree(k, l2, u, e2)
<1>. DEFINE e1 == [e EXCEPT ![nd][nn] = 0]
<1>1. /\ Moving(k, l, u, e, od, on, nd, nn, i)
      /\ od \in InoSet /\ nd \in InoSet /\ on \in FileNames /\ nn \in FileNames
      /\ k[j] = "file" /\ e \in DentType /\ l \in LinkType /\ u \in UpType
  BY MovingIs DEF May, Tree, TreeType
<1>2. Entered(k, e, nd, nn, 0, e1)
  BY <1>1, EnterIs
<1>3. /\ e1 \in DentType /\ e1[nd][nn] = 0
      /\ \A x \in InoSet, m \in FileNames : x # nd \/ m # nn => e1[x][m] = e[x][m]
  BY <1>2, Zenon DEF Entered
<1>4. e1 = [e EXCEPT ![nd][nn] = 0]
  OBVIOUS
<1>. HIDE DEF e1
<1>5. Tree(k, l2, u, e1)
  BY <1>1, <1>4, DropFile
<1>6. l2 \in LinkType
  BY <1>5 DEF Tree, TreeType
<1>7. j # nd /\ e1[od][on] = i
  BY <1>1, <1>3 DEF Moving
<1>8. May(k, l2, e1, od, on, nd, nn)
  <2>1. l2[nd] = l[nd]
    BY <1>1, <1>7 DEF LinkType
  <2>. QED
    BY <1>3, <1>7, <2>1 DEF May
<1>9. SwapLinks(k, l2, od, nd, i, 0, l2) /\ SwapUps(k, u, od, nd, i, 0, u)
  BY <1>1, <1>6 DEF SwapLinks, SwapUps, IsDir
<1>10. Moved(e1, od, on, nd, nn, i, e2)
  BY <1>3 DEF Moved
<1>. QED
  BY <1>3, <1>5, <1>7, <1>8, <1>9, <1>10, MoveTree

(* The links when a directory replaces directory j.                        *)
DirReplaced(l, od, j) == [[l EXCEPT ![j] = @ - 2] EXCEPT ![od] = @ - 1]

(* An empty directory j cannot be where the name was.                      *)
LEMMA ReplaceDir ==
    ASSUME NEW k, NEW l, NEW u, NEW e, Tree(k, l, u, e),
           NEW od, NEW on, NEW nd, NEW nn, May(k, l, e, od, on, nd, nn),
           NEW i, i = e[od][on], k[i] = "dir", NEW j, j = e[nd][nn], j # 0, NoEntries(e, j),
           NEW l2, l2 = DirReplaced(l, od, j), NEW e2, Moved(e, od, on, nd, nn, i, e2),
           NEW u2, SwapUps(k, u, od, nd, i, 0, u2)
    PROVE  DirGone(k, l2, u2, e2, j)
<1>. DEFINE e1 == [e EXCEPT ![nd][nn] = 0]  l1 == DirDropped(l, nd, j)
<1>1. /\ Moving(k, l, u, e, od, on, nd, nn, i)
      /\ od \in InoSet /\ nd \in InoSet /\ on \in FileNames /\ nn \in FileNames
      /\ k[j] = "dir" /\ e \in DentType /\ l \in LinkType /\ u \in UpType
  BY MovingIs DEF May, Tree, TreeType
<1>2. Entered(k, e, nd, nn, 0, e1)
  BY <1>1, EnterIs
<1>3. /\ e1 \in DentType /\ e1[nd][nn] = 0
      /\ \A x \in InoSet, m \in FileNames : x # nd \/ m # nn => e1[x][m] = e[x][m]
  BY <1>2, Zenon DEF Entered
<1>4. e1 = [e EXCEPT ![nd][nn] = 0] /\ l1 = DirDropped(l, nd, j)
  OBVIOUS
<1>. HIDE DEF e1, l1
<1>5. DirGone(k, l1, u, e1, j)
  BY <1>1, <1>4, DropDir
<1>6. Tree(k, l1, u, e1) /\ l1[j] = 0 /\ l1 \in LinkType
  BY <1>5 DEF DirGone, Tree, TreeType
<1>7. j \in InoSet /\ j # nd /\ j # od /\ e1[od][on] = i
  <2>1. j \in InoSet /\ j # nd
    BY <1>1 DEF Tree, DentType
  <2>2. j # od
    BY <1>1 DEF NoEntries, Moving
  <2>. QED
    BY <1>1, <1>3, <2>1, <2>2 DEF Moving
<1>8. /\ l1[nd] = l[nd] - 1 /\ \A x \in InoSet \ {nd, j} : l1[x] = l[x]
      /\ l[nd] >= 2 /\ l[od] >= 2
  <2>1. l[nd] >= 2 /\ l[od] >= 2
    <3>1. Cardinality(Subs(k, e, nd)) \in Nat /\ Cardinality(Subs(k, e, od)) \in Nat
      BY SubsFinite
    <3>. QED
      BY <1>1, <3>1 DEF Moving
  <2>. QED
    BY <1>1, <1>4, <1>7, <2>1 DEF DirDropped, LinkType
<1>9. l2[j] = l[j] - 2 /\ l2[od] = l[od] - 1 /\ \A x \in InoSet \ {od, j} : l2[x] = l[x]
  BY <1>1, <1>7 DEF DirReplaced, LinkType
<1>10. l1[j] = l[j] - 2
  BY <1>1, <1>4, <1>7 DEF DirDropped, LinkType
<1>11. l2 \in LinkType
  <2>1. l2[j] \in Nat /\ l2[od] \in Nat
    BY <1>1, <1>6, <1>8, <1>9, <1>10 DEF LinkType
  <2>2. \A x \in InoSet : l2[x] \in Nat
    BY <1>1, <1>9, <2>1 DEF LinkType
  <2>3. DOMAIN l2 = InoSet /\ l2 = [x \in DOMAIN l2 |-> l2[x]]
    BY <1>1 DEF DirReplaced, LinkType
  <2>. QED
    BY <2>2, <2>3 DEF LinkType
<1>12. May(k, l1, e1, od, on, nd, nn)
  BY <1>1, <1>3, <1>7, <1>8 DEF May, LinkType
<1>13. SwapLinks(k, l1, od, nd, i, 0, l2)
  <2>1. IsDir(k, i) /\ ~IsDir(k, 0)
    BY <1>1 DEF IsDir, Moving
  <2>2. \A x \in InoSet \ {od, nd} : l2[x] = l1[x]
    BY <1>8, <1>9, <1>10
  <2>3. l[od] \in Nat /\ l[nd] \in Nat
    BY <1>1 DEF LinkType
  <2>4. od = nd => l2[od] = l1[od]
    BY <1>8, <1>9
  <2>5. od # nd => l2[od] = l1[od] - 1 /\ l2[nd] = l1[nd] + 1
    BY <1>1, <1>7, <1>8, <1>9, <2>3
  <2>. QED
    BY <1>11, <2>1, <2>2, <2>4, <2>5 DEF SwapLinks
<1>14. Moved(e1, od, on, nd, nn, i, e2)
  BY <1>3 DEF Moved
<1>15. Tree(k, l2, u2, e2)
  BY <1>3, <1>6, <1>7, <1>12, <1>13, <1>14, MoveTree
<1>. QED
  BY <1>6, <1>9, <1>10, <1>15 DEF DirGone

(* The steps of f2fs_rename: the name moves to a free name, or replaces j; *)
(* a whiteout, ".." and the link of the old parent follow.                 *)
Added(s, nd, nn, i) ==
    [f2fs_set_dentry(s, nd, nn, i) EXCEPT
       !.nlink[nd] = IF s.kind[i] = "dir" THEN @ + 1 ELSE @]
Replaced(a, k, nd, nn, i, j) ==
    OrphanOrRelease([f2fs_set_dentry(a, nd, nn, i) EXCEPT
                       !.nlink[j] = @ - (IF k[i] = "dir" THEN 2 ELSE 1)], j)
Gone(s, a, od, on, nd, nn, i, j) ==
    f2fs_set_dentry(IF j = 0 THEN Added(s, nd, nn, i) ELSE Replaced(a, s.kind, nd, nn, i, j),
                    od, on, 0)
White(s, od, on, wh) == IF wh = 0 THEN s ELSE AddLink(s, od, on, wh)
Up(s, i, od, nd, wh) == IF od # nd /\ wh = 0 THEN [s EXCEPT !.up[i] = nd] ELSE s

DirMoved(g, i, od, nd) == [Up(g, i, od, nd, 0) EXCEPT !.nlink[od] = @ - 1]

(* The links after the first of these.                                     *)
AddedLinks(k, l, nd, i) == [l EXCEPT ![nd] = IF k[i] = "dir" THEN @ + 1 ELSE @]
ReplacedLinks(k, l, i, j) == [l EXCEPT ![j] = @ - (IF k[i] = "dir" THEN 2 ELSE 1)]

(* f2fs_rename takes them, or fails.                                       *)
LEMMA RenameIs ==
    ASSUME NEW s, NEW od, NEW on, NEW nd, NEW nn, NEW wh, NEW found, NEW wok
    PROVE  f2fs_rename(s, od, on, nd, nn, wh, found, wok) =
           LET i == s.dent[od][on]
               j == s.dent[nd][nn]
               a == acquire_orphan_inode(s)
               g == Gone(s, a, od, on, nd, nn, i, j)
           IN IF j # 0 /\ s.kind[i] = "dir" /\ ~f2fs_empty_directory(s, j)
                THEN NsFail(s, "ENOTEMPTY")
              ELSE IF j # 0 /\ a.err # NoErr THEN a
              ELSE IF j = 0 /\ ~found THEN NsFail([Added(s, nd, nn, i) EXCEPT !.twin = i], "ENOENT")
              ELSE IF wh # 0 /\ ~wok THEN NsFail(g, "ENOSPC")
              ELSE IF s.kind[i] = "dir"
                THEN [Up(White(g, od, on, wh), i, od, nd, wh) EXCEPT !.nlink[od] = @ - 1]
              ELSE White(g, od, on, wh)
BY Zenon DEF f2fs_rename, NoErr, Gone, Added, Replaced, White, Up

(* The fields after the first of them, the name free.                      *)
LEMMA GoneAdded ==
    ASSUME NEW s, NEW k, NEW l, NEW u, NEW e, NEW o, NEW c, NEW f, At(s, k, l, u, e, o, c, f, NoErr),
           NEW a, NEW od, NEW on, NEW nd, NEW nn, NEW i, NEW g, g = Gone(s, a, od, on, nd, nn, i, 0),
           NEW e1, e1 = [e EXCEPT ![nd][nn] = i], NEW e2, e2 = [e1 EXCEPT ![od][on] = 0]
    PROVE  At(g, k, AddedLinks(k, l, nd, i), u, e2, o, c, f, NoErr)
<1>. DEFINE w == f2fs_set_dentry(s, nd, nn, i)  b == Added(s, nd, nn, i)
            l2 == AddedLinks(k, l, nd, i)
<1>1. s.kind = k
  BY Fields
<1>2. At(w, k, l, u, e1, o, c, f, NoErr)
  BY SetDentryIs
<1>3. b = [w EXCEPT !.nlink[nd] = IF k[i] = "dir" THEN @ + 1 ELSE @]
  BY <1>1 DEF Added
<1>. HIDE DEF w, b
<1>4. At(b, k, l2, u, e1, o, c, f, NoErr)
  BY <1>2, <1>3 DEF At, AddedLinks
<1>5. g = f2fs_set_dentry(b, od, on, 0)
  BY DEF Gone, b
<1>. HIDE DEF l2
<1>6. At(g, k, l2, u, e2, o, c, f, NoErr)
  BY <1>4, <1>5, EntryIs
<1>. QED
  BY <1>6 DEF l2

(* And j replaced.                                                         *)
Replacing(g, k, l, u, e, o, c, f, j) ==
    /\ l[j] = 0 => At(g, k, l, u, e, o \cup {j}, c + 1, f, NoErr)
    /\ l[j] # 0 => At(g, k, l, u, e, o, c, f, NoErr)

(* The entries are set one after the other.                                *)
Shifted(e, od, on, nd, nn, i, e1, e2) ==
    e1 = [e EXCEPT ![nd][nn] = i] /\ e2 = [e1 EXCEPT ![od][on] = 0]

(* There is room in the list, and a has it reserved.                       *)
Room(s, a) == a = acquire_orphan_inode(s) /\ a.err = NoErr

(* A rename onto an existing name drops the links of the inode that held   *)
(* it.                                                                     *)
LEMMA GoneReplaced ==
    ASSUME NEW s, NEW k, NEW l, NEW u, NEW e, NEW o, NEW c \in Nat, NEW f,
           At(s, k, l, u, e, o, c, f, NoErr),
           NEW a, Room(s, a),
           NEW od, NEW on, NEW nd, NEW nn, NEW i, NEW j, j # 0,
           NEW g, g = Gone(s, a, od, on, nd, nn, i, j),
           NEW e1, NEW e2, Shifted(e, od, on, nd, nn, i, e1, e2),
           NEW l2, l2 = ReplacedLinks(k, l, i, j)
    PROVE  Replacing(g, k, l2, u, e2, o, c, f, j)
<1>. USE DEF Shifted
<1>. DEFINE w == f2fs_set_dentry(a, nd, nn, i)
            v == [w EXCEPT !.nlink[j] = @ - (IF k[i] = "dir" THEN 2 ELSE 1)]
            b == OrphanOrRelease(v, j)
<1>1. s.kind = k
  BY Fields
<1>2. \/ At(a, k, l, u, e, o, c, f, "ENOSPC") \/ At(a, k, l, u, e, o, c + 1, f, NoErr)
  BY AcquireIs DEF Room
<1>3. At(a, k, l, u, e, o, c + 1, f, NoErr)
  BY <1>2, ErrIs DEF At, Room
<1>4. At(w, k, l, u, e1, o, c + 1, f, NoErr)
  BY <1>3, SetDentryIs
<1>. HIDE DEF w
<1>5. At(v, k, l2, u, e1, o, c + 1, f, NoErr)
  BY <1>4 DEF At, ReplacedLinks
<1>6. g = f2fs_set_dentry(b, od, on, 0)
  BY <1>1 DEF Gone, Replaced, w
<1>. HIDE DEF v
<1>7. /\ l2[j] = 0 => At(b, k, l2, u, e1, o \cup {j}, c + 1, f, NoErr)
      /\ l2[j] # 0 => At(b, k, l2, u, e1, o, (c + 1) - 1, f, NoErr)
  BY <1>5, OrphanOrReleaseIs
<1>8. (c + 1) - 1 = c
  BY Back
<1>. HIDE DEF b
<1>9. l2[j] = 0 => At(g, k, l2, u, e2, o \cup {j}, c + 1, f, NoErr)
  BY <1>6, <1>7, EntryIs
<1>10. l2[j] # 0 => At(g, k, l2, u, e2, o, c, f, NoErr)
  <2>1. l2[j] # 0 => At(b, k, l2, u, e1, o, c, f, NoErr)
    BY <1>7, <1>8, Zenon
  <2>. QED
    BY <1>6, <2>1, EntryIs
<1>. QED
  BY <1>9, <1>10, Zenon DEF Replacing

(* A file that has moved leaves a sound name space, with its old name free.*)
LEMMA GoneFile ==
    ASSUME NEW s, Sound(s), NEW od, NEW on, NEW nd, NEW nn,
           May(s.kind, s.nlink, s.dent, od, on, nd, nn),
           NEW i, i = s.dent[od][on], s.kind[i] = "file", NEW j, j = s.dent[nd][nn],
           NEW a, a = acquire_orphan_inode(s), j # 0 => a.err = NoErr,
           NEW g, g = Gone(s, a, od, on, nd, nn, i, j)
    PROVE  /\ Sound(g) /\ g.dent[od][on] = 0
           /\ g.kind = s.kind /\ g.kind[od] = "dir" /\ g.nlink[od] > 0
<1>. DEFINE k == s.kind  l == s.nlink  u == s.up  e == s.dent  o == s.orphans
            c == s.ino_num  f == s.fsck
            e1 == [e EXCEPT ![nd][nn] = i]  e2 == [e1 EXCEPT ![od][on] = 0]
<1>1. /\ Fits(s, k, l, u, e, o, c, f) /\ May(k, l, e, od, on, nd, nn)
      /\ i = e[od][on] /\ k[i] = "file" /\ j = e[nd][nn] /\ s.kind = k
  BY Zenon DEF Sound
<1>2. e1 = [e EXCEPT ![nd][nn] = i] /\ e2 = [e1 EXCEPT ![od][on] = 0]
  OBVIOUS
<1>. HIDE DEF k, l, u, e, o, c, f, e1, e2
<1>3. /\ At(s, k, l, u, e, o, c, f, NoErr) /\ Tree(k, l, u, e) /\ Listed(k, l, o, c, f)
      /\ k \in KindType /\ l \in LinkType /\ u \in UpType /\ e \in DentType /\ c \in Nat
  BY <1>1, ListFinite DEF Fits, Tree, TreeType
<1>4. Moving(k, l, u, e, od, on, nd, nn, i)
  BY <1>1, <1>3, MovingIs
<1>5. od \in InoSet /\ nd \in InoSet /\ on \in FileNames /\ nn \in FileNames
  BY <1>1 DEF May
<1>6. i \in InoSet /\ <<od, on>> # <<nd, nn>> /\ k[od] = "dir" /\ l[od] > 0
  BY <1>4 DEF Moving
<1>7. Moved(e, od, on, nd, nn, i, e2)
  BY <1>2, <1>3, <1>5, <1>6, MovedIs
<1>8. e2[od][on] = 0
  BY <1>7 DEF Moved
<1>9. ASSUME NEW l2, NEW o2, NEW c2, At(g, k, l2, u, e2, o2, c2, f, NoErr), Tree(k, l2, u, e2),
             Listed(k, l2, o2, c2, f), l2[od] = l[od]
      PROVE  /\ Sound(g) /\ g.dent[od][on] = 0
             /\ g.kind = s.kind /\ g.kind[od] = "dir" /\ g.nlink[od] > 0
  <2>1. Fits(g, k, l2, u, e2, o2, c2, f)
    BY <1>9 DEF Fits
  <2>2. Sound(g)
    BY <2>1, FitsSound
  <2>3. g.dent = e2 /\ g.kind = k /\ g.nlink = l2
    BY <1>9 DEF At
  <2>. QED
    BY <1>1, <1>6, <1>8, <1>9, <2>2, <2>3
<1>10. CASE j = 0
  <2>1. At(g, k, AddedLinks(k, l, nd, i), u, e2, o, c, f, NoErr)
    <3>1. g = Gone(s, a, od, on, nd, nn, i, 0)
      BY <1>10
    <3>. QED
      BY <1>2, <1>3, <3>1, GoneAdded
  <2>2. AddedLinks(k, l, nd, i) = l
    BY <1>1, <1>3, <1>5 DEF LinkType, AddedLinks
  <2>3. At(g, k, l, u, e2, o, c, f, NoErr)
    BY <2>1, <2>2, Zenon
  <2>4. SwapLinks(k, l, od, nd, i, 0, l) /\ SwapUps(k, u, od, nd, i, 0, u)
    BY <1>1, <1>3 DEF SwapLinks, SwapUps, IsDir
  <2>5. Tree(k, l, u, e2)
    BY <1>1, <1>3, <1>7, <1>10, <2>4, MoveTree
  <2>. QED
    BY <1>3, <1>9, <2>3, <2>5
<1>11. CASE j # 0
  <2>. DEFINE l2 == ReplacedLinks(k, l, i, j)
  <2>1. l2 = [l EXCEPT ![j] = @ - 1]
    BY <1>1 DEF ReplacedLinks
  <2>2. l2 = ReplacedLinks(k, l, i, j)
    OBVIOUS
  <2>. HIDE DEF l2
  <2>3. Replacing(g, k, l2, u, e2, o, c, f, j)
    <3>1. Room(s, a) /\ At(s, k, l, u, e, o, c, f, NoErr) /\ c \in Nat
      BY <1>3, <1>11 DEF Room
    <3>2. Shifted(e, od, on, nd, nn, i, e1, e2)
      BY <1>2 DEF Shifted
    <3>. QED
      BY <1>11, <2>2, <3>1, <3>2, GoneReplaced
  <2>4. /\ l2[j] = 0 => At(g, k, l2, u, e2, o \cup {j}, c + 1, f, NoErr)
        /\ l2[j] # 0 => At(g, k, l2, u, e2, o, c, f, NoErr)
    BY <2>3, Zenon DEF Replacing
  <2>5. Tree(k, l2, u, e2)
    BY <1>1, <1>3, <1>7, <1>11, <2>1, ReplaceFile
  <2>6. j \in InoSet /\ k[j] = "file" /\ j # od
    <3>1. j \in InoSet \cup {0}
      <4>1. e[nd][nn] \in InoSet \cup {0}
        BY <1>3, <1>5 DEF DentType
      <4>. QED
        BY <1>1, <4>1, Zenon
    <3>2. k[j] = "file"
      BY <1>1, <1>11 DEF May
    <3>. QED
      BY <1>6, <1>11, <3>1, <3>2
  <2>7. l[j] # 0
    <3>1. <<nd, nn>> \in Named(e, j) /\ LinksOf(k, l, u, e, j)
      BY <1>1, <1>3, <1>5, <2>6 DEF Named, Tree
    <3>2. l[j] > 0
      BY <3>1 DEF LinksOf
    <3>3. l[j] \in Nat
      BY <1>3, <2>6 DEF LinkType
    <3>. QED
      BY <3>2, <3>3, NotZero, Zenon
  <2>8. \A x \in InoSet \ {j} : l2[x] = l[x]
    BY <1>3, <2>1 DEF LinkType
  <2>9. CASE l2[j] = 0
    <3>1. Unlinked(k, l2) = Unlinked(k, l) \cup {j} /\ j \notin Unlinked(k, l)
      BY <2>6, <2>7, <2>8, <2>9 DEF Unlinked
    <3>2. Listed(k, l2, o \cup {j}, c + 1, f)
      BY <1>3, <3>1, ListMore
    <3>. QED
      BY <1>5, <1>9, <2>4, <2>5, <2>6, <2>8, <2>9, <3>2
  <2>10. CASE l2[j] # 0
    <3>1. Unlinked(k, l2) = Unlinked(k, l)
      BY <2>6, <2>7, <2>8, <2>10 DEF Unlinked
    <3>2. Listed(k, l2, o, c, f)
      BY <1>3, <3>1, ListSame
    <3>. QED
      BY <1>5, <1>9, <2>4, <2>5, <2>6, <2>8, <2>10, <3>2
  <2>. QED
    BY <2>9, <2>10
<1>. QED
  BY <1>10, <1>11

(* Directory j may be replaced.                                            *)
MayGo(s, a, j) == j # 0 => NoEntries(s.dent, j) /\ a.err = NoErr

(* A directory that has moved, with "..".                                  *)
LEMMA GoneDir ==
    ASSUME NEW s, Sound(s), NEW od, NEW on, NEW nd, NEW nn,
           May(s.kind, s.nlink, s.dent, od, on, nd, nn),
           NEW i, i = s.dent[od][on], s.kind[i] = "dir", NEW j, j = s.dent[nd][nn],
           NEW a, a = acquire_orphan_inode(s), MayGo(s, a, j),
           NEW g, g = Gone(s, a, od, on, nd, nn, i, j),
           NEW t, t = DirMoved(g, i, od, nd)
    PROVE  Sound([t EXCEPT !.err = NoErr])
<1>. USE DEF MayGo
<1>. DEFINE k == s.kind  l == s.nlink  u == s.up  e == s.dent  o == s.orphans
            c == s.ino_num  f == s.fsck
            e1 == [e EXCEPT ![nd][nn] = i]  e2 == [e1 EXCEPT ![od][on] = 0]
            u2 == IF od # nd THEN [u EXCEPT ![i] = nd] ELSE u
<1>1. /\ Fits(s, k, l, u, e, o, c, f) /\ May(k, l, e, od, on, nd, nn)
      /\ i = e[od][on] /\ k[i] = "dir" /\ j = e[nd][nn] /\ (j # 0 => NoEntries(e, j))
  BY Zenon DEF Sound
<1>2. Shifted(e, od, on, nd, nn, i, e1, e2)
  BY DEF Shifted
<1>. HIDE DEF k, l, u, e, o, c, f, e1, e2
<1>3. /\ At(s, k, l, u, e, o, c, f, NoErr) /\ Tree(k, l, u, e) /\ Listed(k, l, o, c, f)
      /\ k \in KindType /\ l \in LinkType /\ u \in UpType /\ e \in DentType /\ c \in Nat
  BY <1>1, ListFinite DEF Fits, Tree, TreeType
<1>4. Moving(k, l, u, e, od, on, nd, nn, i)
  BY <1>1, <1>3, MovingIs
<1>5. od \in InoSet /\ nd \in InoSet /\ on \in FileNames /\ nn \in FileNames
  BY <1>1 DEF May
<1>6. /\ i \in InoSet /\ <<od, on>> # <<nd, nn>> /\ k[od] = "dir" /\ l[od] > 0
      /\ k[nd] = "dir" /\ l[nd] > 0 /\ i # 0 /\ u[i] = od
  BY <1>1, <1>4 DEF Moving
<1>7. Moved(e, od, on, nd, nn, i, e2)
  BY <1>2, <1>3, <1>5, <1>6, MovedIs DEF Shifted
<1>8. SwapUps(k, u, od, nd, i, 0, u2)
  <2>1. CASE od = nd
    <3>1. u2 = u
      BY <2>1
    <3>. HIDE DEF u2
    <3>. QED
      BY <1>3, <1>6, <2>1, <3>1 DEF SwapUps, IsDir
  <2>2. CASE od # nd
    <3>1. u2 = [u EXCEPT ![i] = nd]
      BY <2>2
    <3>. HIDE DEF u2
    <3>2. u2 \in UpType /\ u2[i] = nd /\ \A x \in InoSet \ {i} : u2[x] = u[x]
      BY <1>3, <1>5, <1>6, <3>1 DEF UpType
    <3>. QED
      BY <3>2 DEF SwapUps, IsDir
  <2>. QED
    BY <2>1, <2>2
<1>9. l[od] >= 2 /\ l[nd] >= 2 /\ l[od] \in Nat /\ l[nd] \in Nat
  <2>1. Cardinality(Subs(k, e, nd)) \in Nat /\ Cardinality(Subs(k, e, od)) \in Nat
    BY SubsFinite
  <2>2. l[od] = 2 + Cardinality(Subs(k, e, od)) /\ l[nd] = 2 + Cardinality(Subs(k, e, nd))
    BY <1>4 DEF Moving
  <2>. QED
    BY <2>1, <2>2
<1>10. ASSUME NEW lg, NEW l2, l2 = [lg EXCEPT ![od] = @ - 1], NEW o2, NEW c2,
              At(g, k, lg, u, e2, o2, c2, f, NoErr), Tree(k, l2, u2, e2), Listed(k, l2, o2, c2, f)
       PROVE  Sound([t EXCEPT !.err = NoErr])
  <2>. DEFINE v == Up(g, i, od, nd, 0)
  <2>1. At(v, k, lg, u2, e2, o2, c2, f, NoErr)
    <3>1. CASE od # nd
      <4>1. v = [g EXCEPT !.up[i] = nd] /\ u2 = [u EXCEPT ![i] = nd]
        BY <3>1 DEF Up
      <4>. HIDE DEF v, u2
      <4>. QED
        BY <1>10, <4>1 DEF At
    <3>2. CASE od = nd
      <4>1. v = g /\ u2 = u
        BY <3>2 DEF Up
      <4>. HIDE DEF v, u2
      <4>. QED
        BY <1>10, <4>1
    <3>. QED
      BY <3>1, <3>2
  <2>. HIDE DEF v, u2
  <2>2. t = [v EXCEPT !.nlink[od] = @ - 1]
    BY DEF v, DirMoved
  <2>3. At(t, k, l2, u2, e2, o2, c2, f, NoErr)
    BY <1>10, <2>1, <2>2 DEF At
  <2>. QED
    BY <1>10, <2>3, Settled
<1>. HIDE DEF u2
<1>11. CASE j = 0
  <2>. DEFINE lg == AddedLinks(k, l, nd, i)  l2 == [lg EXCEPT ![od] = @ - 1]
  <2>1. At(g, k, lg, u, e2, o, c, f, NoErr)
    <3>1. g = Gone(s, a, od, on, nd, nn, i, 0)
      BY <1>11
    <3>2. e1 = [e EXCEPT ![nd][nn] = i] /\ e2 = [e1 EXCEPT ![od][on] = 0]
      BY <1>2 DEF Shifted
    <3>. QED
      BY <1>3, <3>1, <3>2, GoneAdded
  <2>2. lg \in LinkType /\ lg[nd] = l[nd] + 1 /\ \A x \in InoSet \ {nd} : lg[x] = l[x]
    BY <1>1, <1>3, <1>5 DEF LinkType, AddedLinks
  <2>3. l2 = [lg EXCEPT ![od] = @ - 1]
    OBVIOUS
  <2>. HIDE DEF lg, l2
  <2>4. lg[od] >= 2 /\ lg[od] \in Nat
    BY <1>5, <1>9, <2>2
  <2>5. l2 \in LinkType /\ l2[od] = lg[od] - 1 /\ \A x \in InoSet \ {od} : l2[x] = lg[x]
    BY <1>5, <2>2, <2>3, <2>4 DEF LinkType
  <2>6. SwapLinks(k, l, od, nd, i, 0, l2)
    <3>1. IsDir(k, i) /\ ~IsDir(k, 0)
      BY <1>1, <1>6 DEF IsDir
    <3>2. \A x \in InoSet \ {od, nd} : l2[x] = l[x]
      BY <2>2, <2>5
    <3>3. od = nd => l2[od] = l[od]
      BY <1>9, <2>2, <2>5
    <3>4. od # nd => l2[od] = l[od] - 1 /\ l2[nd] = l[nd] + 1
      BY <1>5, <2>2, <2>5
    <3>. QED
      BY <2>5, <3>1, <3>2, <3>3, <3>4 DEF SwapLinks
  <2>7. Tree(k, l2, u2, e2)
    BY <1>1, <1>3, <1>7, <1>8, <1>11, <2>6, MoveTree
  <2>8. Unlinked(k, l2) = Unlinked(k, l)
    <3>1. l2[od] # 0 /\ l2[nd] # 0 /\ l[od] # 0 /\ l[nd] # 0
      BY <1>5, <1>9, <2>2, <2>4, <2>5
    <3>2. \A x \in InoSet \ {od, nd} : l2[x] = l[x]
      BY <2>2, <2>5
    <3>. QED
      BY <3>1, <3>2 DEF Unlinked
  <2>9. Listed(k, l2, o, c, f)
    BY <1>3, <2>8, ListSame
  <2>. QED
    BY <1>10, <2>1, <2>3, <2>7, <2>9
<1>12. CASE j # 0
  <2>. DEFINE lg == ReplacedLinks(k, l, i, j)  l2 == DirReplaced(l, od, j)
  <2>1. lg = [l EXCEPT ![j] = @ - 2]
    BY <1>1 DEF ReplacedLinks
  <2>2. l2 = [lg EXCEPT ![od] = @ - 1]
    BY <2>1 DEF DirReplaced
  <2>3. lg = ReplacedLinks(k, l, i, j) /\ l2 = DirReplaced(l, od, j)
    OBVIOUS
  <2>. HIDE DEF lg, l2
  <2>4. Replacing(g, k, lg, u, e2, o, c, f, j)
    <3>1. Room(s, a) /\ At(s, k, l, u, e, o, c, f, NoErr) /\ c \in Nat
      BY <1>3, <1>12 DEF Room
    <3>. QED
      BY <1>2, <1>12, <2>3, <3>1, GoneReplaced
  <2>5. DirGone(k, l2, u2, e2, j)
    BY <1>1, <1>3, <1>7, <1>8, <1>12, <2>3, ReplaceDir
  <2>6. Tree(k, l2, u2, e2) /\ l2[j] = 0
    BY <2>5 DEF DirGone
  <2>7. j \in InoSet /\ j # od
    <3>1. e[nd][nn] \in InoSet \cup {0}
      BY <1>3, <1>5 DEF DentType
    <3>2. e[od][on] # 0
      BY <1>1 DEF May
    <3>. QED
      BY <1>1, <1>5, <1>12, <3>1, <3>2 DEF NoEntries
  <2>8. k[j] # "free" /\ l[j] # 0
    <3>1. <<nd, nn>> \in Named(e, j) /\ LinksOf(k, l, u, e, j)
      BY <1>1, <1>3, <1>5, <2>7 DEF Named, Tree
    <3>2. k[j] # "free" /\ l[j] > 0
      BY <3>1 DEF LinksOf
    <3>. QED
      BY <3>2
  <2>9. lg[j] = l2[j] /\ l2[od] = l[od] - 1 /\ \A x \in InoSet \ {od, j} : l2[x] = l[x]
    BY <1>3, <1>5, <2>1, <2>2, <2>7 DEF LinkType
  <2>10. Unlinked(k, l2) = Unlinked(k, l) \cup {j} /\ j \notin Unlinked(k, l)
    <3>1. l2[od] # 0 /\ l[od] # 0
      BY <1>9, <2>9
    <3>. QED
      BY <2>6, <2>7, <2>8, <2>9, <3>1 DEF Unlinked
  <2>11. Listed(k, l2, o \cup {j}, c + 1, f)
    BY <1>3, <2>10, ListMore
  <2>12. At(g, k, lg, u, e2, o \cup {j}, c + 1, f, NoErr)
    BY <2>4, <2>6, <2>9 DEF Replacing
  <2>. QED
    BY <1>10, <2>2, <2>6, <2>11, <2>12
<1>. QED
  BY <1>11, <1>12

(* f2fs_rename that finds the old entry: whatever happens, the name space  *)
(* is sound.                                                               *)
LEMMA RenameSound ==
    ASSUME NEW s, Sound(s), NEW od, NEW on, NEW nd, NEW nn,
           May(s.kind, s.nlink, s.dent, od, on, nd, nn), NEW wh \in InoSet \cup {0},
           wh # 0 => s.kind[wh] = "file" /\ s.kind[s.dent[od][on]] = "file", NEW wok,
           NEW found, found \/ s.dent[nd][nn] # 0,
           NEW t, t = f2fs_rename(s, od, on, nd, nn, wh, found, wok)
    PROVE  Sound([t EXCEPT !.err = NoErr])
<1>. DEFINE i == s.dent[od][on]  j == s.dent[nd][nn]  a == acquire_orphan_inode(s)
            g == Gone(s, a, od, on, nd, nn, i, j)
            k == s.kind  l == s.nlink  u == s.up  e == s.dent  o == s.orphans
            c == s.ino_num  f == s.fsck
            stop == j # 0 /\ s.kind[i] = "dir" /\ ~f2fs_empty_directory(s, j)
<1>1. t = IF stop THEN NsFail(s, "ENOTEMPTY")
          ELSE IF j # 0 /\ a.err # NoErr THEN a
          ELSE IF j = 0 /\ ~found THEN NsFail([Added(s, nd, nn, i) EXCEPT !.twin = i], "ENOENT")
          ELSE IF wh # 0 /\ ~wok THEN NsFail(g, "ENOSPC")
          ELSE IF s.kind[i] = "dir"
               THEN [Up(White(g, od, on, wh), i, od, nd, wh) EXCEPT !.nlink[od] = @ - 1]
          ELSE White(g, od, on, wh)
  BY RenameIs, Zenon
<1>2. /\ At(s, k, l, u, e, o, c, f, NoErr) /\ Tree(k, l, u, e) /\ Listed(k, l, o, c, f)
      /\ Moving(k, l, u, e, od, on, nd, nn, i)
  BY MovingIs DEF Sound, Fits
<1>3. i = s.dent[od][on] /\ j = s.dent[nd][nn] /\ a = acquire_orphan_inode(s)
      /\ g = Gone(s, a, od, on, nd, nn, i, j) /\ ~(j = 0 /\ ~found)
  OBVIOUS
<1>4. s.kind[i] \in {"file", "dir"} /\ od \in InoSet /\ on \in FileNames
  BY <1>2 DEF Moving, May
<1>. HIDE DEF i, j, a, g, k, l, u, e, o, c, f
<1>5. CASE stop
  <2>1. t = NsFail(s, "ENOTEMPTY")
    BY <1>1, <1>5
  <2>2. At(t, k, l, u, e, o, c, f, "ENOTEMPTY")
    BY <1>2, <2>1, SetErr DEF NsFail
  <2>. QED
    BY <1>2, <2>2, Settled
<1>6. CASE ~stop /\ j # 0 /\ a.err # NoErr
  <2>1. t = a
    BY <1>1, <1>6
  <2>2. At(a, k, l, u, e, o, c, f, "ENOSPC") \/ At(a, k, l, u, e, o, c + 1, f, NoErr)
    BY <1>2, <1>3, AcquireIs
  <2>3. At(a, k, l, u, e, o, c, f, "ENOSPC")
    BY <1>6, <2>2 DEF At
  <2>. QED
    BY <1>2, <2>1, <2>3, Settled
<1>7. CASE ~stop /\ (j # 0 => a.err = NoErr) /\ s.kind[i] = "file"
  <2>1. /\ Sound(g) /\ g.dent[od][on] = 0
        /\ g.kind = s.kind /\ g.kind[od] = "dir" /\ g.nlink[od] > 0
    BY <1>3, <1>7, GoneFile
  <2>2. t = NsFail(g, "ENOSPC") \/ t = White(g, od, on, wh)
    BY <1>1, <1>3, <1>7
  <2>3. ASSUME NEW x PROVE Sound([[g EXCEPT !.err = x] EXCEPT !.err = NoErr])
    <3>1. At(g, g.kind, g.nlink, g.up, g.dent, g.orphans, g.ino_num, g.fsck, NoErr)
          /\ Tree(g.kind, g.nlink, g.up, g.dent) /\ Listed(g.kind, g.nlink, g.orphans, g.ino_num, g.fsck)
      BY <2>1, Zenon DEF Sound, Fits
    <3>2. At([g EXCEPT !.err = x], g.kind, g.nlink, g.up, g.dent, g.orphans, g.ino_num, g.fsck, x)
      BY <3>1, SetErr
    <3>. QED
      BY <3>1, <3>2, Settled
  <2>4. CASE t = NsFail(g, "ENOSPC")
    BY <2>3, <2>4 DEF NsFail
  <2>5. CASE t = White(g, od, on, wh) /\ wh = 0
    <3>1. t = g
      BY <2>5 DEF White
    <3>2. At(g, g.kind, g.nlink, g.up, g.dent, g.orphans, g.ino_num, g.fsck, NoErr)
          /\ Tree(g.kind, g.nlink, g.up, g.dent) /\ Listed(g.kind, g.nlink, g.orphans, g.ino_num, g.fsck)
      BY <2>1, Zenon DEF Sound, Fits
    <3>. QED
      BY <3>1, <3>2, Settled
  <2>6. CASE t = White(g, od, on, wh) /\ wh # 0
    <3>1. t = AddLink(g, od, on, wh) /\ wh \in InoSet /\ g.kind[wh] = "file"
      BY <2>1, <2>6 DEF White
    <3>. QED
      BY <1>4, <2>1, <3>1, AddLinkSound
  <2>. QED
    BY <2>2, <2>4, <2>5, <2>6
<1>8. CASE ~stop /\ (j # 0 => a.err = NoErr) /\ s.kind[i] = "dir"
  <2>1. wh = 0
    BY <1>3, <1>8
  <2>2. t = DirMoved(g, i, od, nd)
    BY <1>1, <1>3, <1>8, <2>1 DEF White, DirMoved
  <2>3. MayGo(s, a, j) /\ s.kind[i] = "dir"
    BY <1>8 DEF f2fs_empty_directory, NoEntries, MayGo
  <2>. HIDE DEF stop
  <2>. QED
    BY <1>3, <2>2, <2>3, GoneDir
<1>. QED
  BY <1>4, <1>5, <1>6, <1>7, <1>8

----------------------------------------------------------------------------
(* RENAME_EXCHANGE                                                         *)

(* An inode that has a name.                                               *)
HasName(k, l, u, i, d) ==
    i \in InoSet /\ i # 0 /\ k[i] # "free" /\ l[i] > 0 /\ (k[i] = "dir" => u[i] = d)

(* An inode that has a name is live, has links and, if a directory, lies   *)
(* under that parent.                                                      *)
LEMMA NamedIs ==
    ASSUME NEW k, NEW l, NEW u, NEW e, Tree(k, l, u, e),
           NEW d \in InoSet, NEW n \in FileNames, NEW i, i = e[d][n], i # 0
    PROVE  HasName(k, l, u, i, d)
<1>1. /\ \A x \in InoSet : LinksOf(k, l, u, e, x)
      /\ e \in DentType /\ Named(e, RootIno) = {}
  BY DEF Tree, TreeType
<1>2. i \in InoSet
  BY <1>1 DEF DentType
<1>3. <<d, n>> \in Named(e, i)
  BY <1>2 DEF Named
<1>4. k[i] # "free" /\ l[i] > 0
  BY <1>1, <1>2, <1>3 DEF LinksOf
<1>5. k[i] = "dir" => u[i] = d
  <2>. SUFFICES ASSUME k[i] = "dir" PROVE u[i] = d
    OBVIOUS
  <2>1. i # RootIno
    BY <1>1, <1>3
  <2>2. PICK m \in FileNames : Named(e, i) = {<<u[i], m>>}
    BY <1>1, <1>2, <1>4, <2>1 DEF LinksOf
  <2>. QED
    BY <1>3, <2>2
<1>. QED
  BY <1>2, <1>4, <1>5 DEF HasName

(* Two entries are set.                                                    *)
Exchanged(e, od, on, nd, nn, i, j, e1, e2) ==
    e1 = [e EXCEPT ![od][on] = j] /\ e2 = [e1 EXCEPT ![nd][nn] = i]

(* That is a swap.                                                         *)
LEMMA SwapIs ==
    ASSUME NEW e \in DentType, NEW od \in InoSet, NEW on \in FileNames,
           NEW nd \in InoSet, NEW nn \in FileNames, NEW i \in InoSet, NEW j \in InoSet, i # j,
           i = e[od][on], j = e[nd][nn],
           NEW e1, NEW e2, Exchanged(e, od, on, nd, nn, i, j, e1, e2)
    PROVE  Swap(e, od, on, nd, nn, i, j, e2)
<1>0. e1 = [e EXCEPT ![od][on] = j] /\ e2 = [e1 EXCEPT ![nd][nn] = i]
  BY DEF Exchanged
<1>1. Entered(<<>>, e, od, on, j, e1)
  BY <1>0, EnterIs
<1>2. /\ e1 \in DentType /\ e1[od][on] = j
      /\ \A x \in InoSet, m \in FileNames : x # od \/ m # on => e1[x][m] = e[x][m]
  BY <1>1, Zenon DEF Entered
<1>3. Entered(<<>>, e1, nd, nn, i, e2)
  BY <1>0, <1>2, EnterIs
<1>4. /\ e2 \in DentType /\ e2[nd][nn] = i
      /\ \A x \in InoSet, m \in FileNames : x # nd \/ m # nn => e2[x][m] = e1[x][m]
  BY <1>3, Zenon DEF Entered
<1>5. od # nd \/ on # nn
  OBVIOUS
<1>6. e2[od][on] = j
  BY <1>2, <1>4, <1>5, Zenon
<1>7. ASSUME NEW x \in InoSet, NEW m \in FileNames, <<x, m>> # <<od, on>>, <<x, m>> # <<nd, nn>>
      PROVE  e2[x][m] = e[x][m]
  <2>1. (x # nd \/ m # nn) /\ (x # od \/ m # on)
    BY <1>7
  <2>2. e2[x][m] = e1[x][m]
    BY <1>4, <2>1, Zenon
  <2>3. e1[x][m] = e[x][m]
    BY <1>2, <2>1, Zenon
  <2>. QED
    BY <2>2, <2>3, Zenon
<1>. QED
  BY <1>4, <1>6, <1>7 DEF Swap

(* The ".." entries and links that f2fs_cross_rename writes.               *)
CrossUps(k, u, od, nd, i, j) ==
    [u EXCEPT ![i] = IF k[i] = "dir" /\ od # nd THEN nd ELSE @,
              ![j] = IF k[j] = "dir" /\ od # nd THEN od ELSE @]
CrossLinks(l, gains, loses) == [l EXCEPT ![gains] = @ + 1, ![loses] = @ - 1]

(* What it does with the entries i and j.                                  *)
Cross(s, od, on, nd, nn, i, j) ==
    LET idir == s.kind[i] = "dir" /\ od # nd
        jdir == s.kind[j] = "dir" /\ od # nd
        ups == [s EXCEPT !.up[i] = IF idir THEN nd ELSE @, !.up[j] = IF jdir THEN od ELSE @]
        t == f2fs_set_dentry(f2fs_set_dentry(ups, od, on, j), nd, nn, i)
        gains == IF idir THEN nd ELSE od
        loses == IF idir THEN od ELSE nd
    IN IF idir = jdir THEN t
       ELSE IF s.nlink[gains] >= F2FS_LINK_MAX THEN NsFail(s, "EMLINK")
       ELSE [t EXCEPT !.nlink[gains] = @ + 1, !.nlink[loses] = @ - 1]

(* Its fields, on success.                                                 *)
LEMMA CrossIs ==
    ASSUME NEW s, NEW k, NEW l, NEW u, NEW e, NEW o, NEW c, NEW f, At(s, k, l, u, e, o, c, f, NoErr),
           NEW od, NEW on, NEW nd, NEW nn, NEW i, i = e[od][on], NEW j, j = e[nd][nn],
           NEW e1, NEW e2, Exchanged(e, od, on, nd, nn, i, j, e1, e2),
           NEW u2, u2 = CrossUps(k, u, od, nd, i, j),
           NEW t, t = f2fs_cross_rename(s, od, on, nd, nn)
    PROVE  \/ At(t, k, l, u, e, o, c, f, "EMLINK")
           \/ /\ (k[i] = "dir" /\ od # nd) = (k[j] = "dir" /\ od # nd)
              /\ At(t, k, l, u2, e2, o, c, f, NoErr)
           \/ /\ k[i] = "dir" /\ k[j] # "dir" /\ od # nd
              /\ At(t, k, CrossLinks(l, nd, od), u2, e2, o, c, f, NoErr)
           \/ /\ k[i] # "dir" /\ k[j] = "dir" /\ od # nd
              /\ At(t, k, CrossLinks(l, od, nd), u2, e2, o, c, f, NoErr)
<1>. DEFINE idir == s.kind[i] = "dir" /\ od # nd  jdir == s.kind[j] = "dir" /\ od # nd
            ups == [s EXCEPT !.up[i] = IF idir THEN nd ELSE @, !.up[j] = IF jdir THEN od ELSE @]
            v == f2fs_set_dentry(ups, od, on, j)
            w == f2fs_set_dentry(v, nd, nn, i)
            gains == IF idir THEN nd ELSE od
            loses == IF idir THEN od ELSE nd
            x == [w EXCEPT !.nlink[gains] = @ + 1, !.nlink[loses] = @ - 1]
<1>1. s.kind = k /\ s.dent = e /\ s.nlink = l
  BY Fields
<1>2. t = IF idir = jdir THEN w
          ELSE IF s.nlink[gains] >= F2FS_LINK_MAX THEN NsFail(s, "EMLINK") ELSE x
  <2>1. t = Cross(s, od, on, nd, nn, s.dent[od][on], s.dent[nd][nn])
    BY Zenon DEF f2fs_cross_rename, Cross
  <2>2. t = Cross(s, od, on, nd, nn, i, j)
    BY <1>1, <2>1
  <2>. QED
    BY <2>2, Zenon DEF Cross
<1>3. At(ups, k, l, u2, e, o, c, f, NoErr)
  BY <1>1 DEF At, CrossUps
<1>. HIDE DEF ups
<1>4. e1 = [e EXCEPT ![od][on] = j] /\ e2 = [e1 EXCEPT ![nd][nn] = i]
  BY DEF Exchanged
<1>5. At(v, k, l, u2, e1, o, c, f, NoErr)
  BY <1>3, <1>4, EntryIs
<1>. HIDE DEF v
<1>6. At(w, k, l, u2, e2, o, c, f, NoErr)
  BY <1>4, <1>5, EntryIs
<1>. HIDE DEF w, gains, loses
<1>7. At(x, k, CrossLinks(l, gains, loses), u2, e2, o, c, f, NoErr)
  BY <1>6 DEF At, CrossLinks
<1>8. At(NsFail(s, "EMLINK"), k, l, u, e, o, c, f, "EMLINK")
  BY SetErr DEF NsFail
<1>. HIDE DEF x
<1>9. idir \in BOOLEAN /\ jdir \in BOOLEAN
  OBVIOUS
<1>10. CASE idir = jdir
  BY <1>1, <1>2, <1>6, <1>10
<1>11. CASE idir # jdir /\ s.nlink[gains] >= F2FS_LINK_MAX
  BY <1>2, <1>8, <1>11
<1>12. CASE idir /\ ~jdir /\ ~(s.nlink[gains] >= F2FS_LINK_MAX)
  <2>1. gains = nd /\ loses = od
    BY <1>12 DEF gains, loses
  <2>2. At(x, k, CrossLinks(l, nd, od), u2, e2, o, c, f, NoErr)
    BY <1>7, <2>1
  <2>. QED
    BY <1>1, <1>2, <1>12, <2>2
<1>13. CASE ~idir /\ jdir /\ ~(s.nlink[gains] >= F2FS_LINK_MAX)
  <2>1. gains = od /\ loses = nd
    BY <1>13 DEF gains, loses
  <2>2. At(x, k, CrossLinks(l, od, nd), u2, e2, o, c, f, NoErr)
    BY <1>7, <2>1
  <2>. QED
    BY <1>1, <1>2, <1>13, <2>2
<1>. QED
  BY <1>9, <1>10, <1>11, <1>12, <1>13

(* f2fs_cross_rename.                                                      *)
LEMMA CrossSound ==
    ASSUME NEW s, Sound(s), NEW od \in InoSet, NEW on \in FileNames,
           NEW nd \in InoSet, NEW nn \in FileNames, s.kind[nd] = "dir", s.nlink[nd] > 0,
           NEW i, i = s.dent[od][on], i # 0, i # nd, NEW j, j = s.dent[nd][nn], j # 0, j # od, i # j,
           NEW t, t = f2fs_cross_rename(s, od, on, nd, nn)
    PROVE  Sound([t EXCEPT !.err = NoErr])
<1>. DEFINE k == s.kind  l == s.nlink  u == s.up  e == s.dent  o == s.orphans
            c == s.ino_num  f == s.fsck
            e1 == [e EXCEPT ![od][on] = j]  e2 == [e1 EXCEPT ![nd][nn] = i]
            u2 == CrossUps(k, u, od, nd, i, j)
<1>1. /\ Fits(s, k, l, u, e, o, c, f)
      /\ i = e[od][on] /\ j = e[nd][nn] /\ k[nd] = "dir" /\ l[nd] > 0
  BY Zenon DEF Sound
<1>2. Exchanged(e, od, on, nd, nn, i, j, e1, e2) /\ u2 = CrossUps(k, u, od, nd, i, j)
  BY DEF Exchanged
<1>. HIDE DEF k, l, u, e, o, c, f, e1, e2, u2
<1>3. /\ At(s, k, l, u, e, o, c, f, NoErr) /\ Tree(k, l, u, e) /\ Listed(k, l, o, c, f)
      /\ l \in LinkType /\ u \in UpType /\ e \in DentType
  BY <1>1 DEF Fits, Tree, TreeType
<1>4. HasName(k, l, u, i, od) /\ HasName(k, l, u, j, nd)
  BY <1>1, <1>3, NamedIs
<1>5. i \in InoSet /\ j \in InoSet /\ i # 0 /\ j # 0
  BY <1>4 DEF HasName
<1>6. Swap(e, od, on, nd, nn, i, j, e2)
  BY <1>1, <1>2, <1>3, <1>5, SwapIs
<1>7. SwapUps(k, u, od, nd, i, j, u2)
  <2>1. /\ u2 \in UpType /\ \A x \in InoSet \ {i, j} : u2[x] = u[x]
        /\ u2[i] = IF k[i] = "dir" /\ od # nd THEN nd ELSE u[i]
        /\ u2[j] = IF k[j] = "dir" /\ od # nd THEN od ELSE u[j]
    BY <1>2, <1>3, <1>5 DEF CrossUps, UpType
  <2>2. k[i] = "dir" => u[i] = od
    BY <1>4 DEF HasName
  <2>3. k[j] = "dir" => u[j] = nd
    BY <1>4 DEF HasName
  <2>. QED
    BY <2>1, <2>2, <2>3 DEF SwapUps, IsDir
<1>8. ASSUME NEW l2, SwapLinks(k, l, od, nd, i, j, l2), At(t, k, l2, u2, e2, o, c, f, NoErr)
      PROVE  Sound([t EXCEPT !.err = NoErr])
  <2>1. Tree(k, l2, u2, e2)
    BY <1>1, <1>3, <1>5, <1>6, <1>7, <1>8, SwapTree
  <2>2. Unlinked(k, l2) = Unlinked(k, l)
    <3>1. LinksOf(k, l, u, e, od) /\ e[od][on] # 0 /\ l[od] \in Nat
      BY <1>1, <1>3 DEF Tree, LinkType
    <3>2. k[od] = "dir" /\ l[od] # 0
      BY <3>1 DEF LinksOf
    <3>3. LinksOf(k, l2, u2, e2, od) /\ LinksOf(k, l2, u2, e2, nd) /\ e2[od][on] # 0 /\ e2[nd][nn] # 0
      BY <1>5, <1>6, <2>1 DEF Tree, Swap
    <3>4. l2[od] # 0 /\ l2[nd] # 0
      BY <3>3 DEF LinksOf
    <3>5. l[nd] # 0
      BY <1>1
    <3>6. \A x \in InoSet \ {od, nd} : l2[x] = l[x]
      BY <1>8 DEF SwapLinks
    <3>. QED
      BY <3>2, <3>4, <3>5, <3>6 DEF Unlinked
  <2>3. Listed(k, l2, o, c, f)
    BY <1>3, <2>2, ListSame
  <2>. QED
    BY <1>8, <2>1, <2>3, Settled
<1>9. l[od] \in Nat /\ l[nd] \in Nat
  BY <1>3 DEF LinkType
<1>10. CASE At(t, k, l, u, e, o, c, f, "EMLINK")
  BY <1>3, <1>10, Settled
<1>11. CASE /\ (k[i] = "dir" /\ od # nd) = (k[j] = "dir" /\ od # nd)
            /\ At(t, k, l, u2, e2, o, c, f, NoErr)
  <2>1. SwapLinks(k, l, od, nd, i, j, l)
    BY <1>3, <1>5, <1>11 DEF SwapLinks, IsDir
  <2>. QED
    BY <1>8, <1>11, <2>1
<1>12. CASE /\ k[i] = "dir" /\ k[j] # "dir" /\ od # nd
            /\ At(t, k, CrossLinks(l, nd, od), u2, e2, o, c, f, NoErr)
  <2>1. l[od] > 0
    <3>1. LinksOf(k, l, u, e, od) /\ e[od][on] # 0
      BY <1>1, <1>3 DEF Tree
    <3>2. l[od] # 0
      BY <3>1 DEF LinksOf
    <3>. QED
      BY <1>9, <3>2
  <2>2. SwapLinks(k, l, od, nd, i, j, CrossLinks(l, nd, od))
    BY <1>3, <1>5, <1>9, <1>12, <2>1 DEF SwapLinks, IsDir, CrossLinks, LinkType
  <2>. QED
    BY <1>8, <1>12, <2>2
<1>13. CASE /\ k[i] # "dir" /\ k[j] = "dir" /\ od # nd
            /\ At(t, k, CrossLinks(l, od, nd), u2, e2, o, c, f, NoErr)
  <2>1. l[nd] > 0
    BY <1>1
  <2>2. SwapLinks(k, l, od, nd, i, j, CrossLinks(l, od, nd))
    BY <1>3, <1>5, <1>9, <1>13, <2>1 DEF SwapLinks, IsDir, CrossLinks, LinkType
  <2>. QED
    BY <1>8, <1>13, <2>2
<1>. QED
  BY <1>1, <1>2, <1>3, <1>10, <1>11, <1>12, <1>13, CrossIs

----------------------------------------------------------------------------
(* Eviction, recovery and the first name space                             *)

(* f2fs_evict_inode of an inode without a link.                            *)
LEMMA EvictSound ==
    ASSUME NEW s, Sound(s), NEW i \in InoSet, s.kind[i] # "free", s.nlink[i] = 0,
           NEW t, t = [remove_orphan_inode(s, i) EXCEPT !.kind[i] = "free"]
    PROVE  Sound(t) /\ Renewed(s, t, i, "free")
<1>. DEFINE k == s.kind  l == s.nlink  u == s.up  e == s.dent  o == s.orphans
            c == s.ino_num  f == s.fsck
            w == remove_orphan_inode(s, i)  k2 == [k EXCEPT ![i] = "free"]
<1>1. Fits(s, k, l, u, e, o, c, f) /\ k[i] # "free" /\ l[i] = 0
  BY Zenon DEF Sound
<1>2. t = [w EXCEPT !.kind[i] = "free"] /\ w = remove_orphan_inode(s, i)
  OBVIOUS
<1>3. k2 = [k EXCEPT ![i] = "free"] /\ s.kind = k /\ s.nlink = l /\ s.dent = e
  OBVIOUS
<1>. HIDE DEF k, l, u, e, o, c, f, w, k2
<1>4. /\ At(s, k, l, u, e, o, c, f, NoErr) /\ Tree(k, l, u, e) /\ Listed(k, l, o, c, f)
      /\ k \in KindType /\ l \in LinkType /\ u \in UpType
  BY <1>1 DEF Fits, Tree, TreeType
<1>5. k2 \in KindType /\ k2[i] = "free" /\ \A j \in InoSet \ {i} : k2[j] = k[j]
  BY <1>3, <1>4 DEF KindType, Kinds
<1>6. Alone(e, i) /\ Other(k, l, u, i, k2, l, u)
  BY <1>1, <1>4, <1>5, Bare DEF Other, NoLink
<1>7. Tree(k2, l, u, e)
  BY <1>4, <1>6, Renew
<1>8. Unlinked(k2, l) = Unlinked(k, l) \ {i}
  BY <1>5 DEF Unlinked
<1>9. /\ i \in o => Listed(k2, l, o \ {i}, c - 1, f)
      /\ i \notin o => Listed(k2, l, o, c, f)
  BY <1>4, <1>8, ListLess
<1>10. /\ i \in o => At(w, k, l, u, e, o \ {i}, c - 1, f, NoErr)
       /\ i \notin o => At(w, k, l, u, e, o, c, f, NoErr)
  BY <1>2, <1>4, RemoveOrphanIs
<1>11. ASSUME NEW o2, NEW c2, At(w, k, l, u, e, o2, c2, f, NoErr), Listed(k2, l, o2, c2, f)
       PROVE  Sound(t) /\ Renewed(s, t, i, "free")
  <2>1. At(t, k2, l, u, e, o2, c2, f, NoErr)
    BY <1>2, <1>3, <1>11 DEF At
  <2>2. Fits(t, k2, l, u, e, o2, c2, f)
    BY <1>7, <1>11, <2>1 DEF Fits
  <2>3. Sound(t)
    BY <2>2, FitsSound
  <2>4. t.kind = k2 /\ t.nlink = l /\ t.dent = e
    BY <2>1 DEF At
  <2>. QED
    BY <1>3, <1>5, <2>3, <2>4 DEF Renewed
<1>. QED
  BY <1>9, <1>10, <1>11

(* The orphans of a checkpoint are freed all at once.                      *)
LEMMA RecoverSound ==
    ASSUME NEW s, Sound(s),
           NEW t, t = [s EXCEPT !.kind = [i \in InoSet |-> IF i \in s.orphans THEN "free" ELSE @[i]],
                                !.nlink = [i \in InoSet |-> IF i \in s.orphans THEN 0 ELSE @[i]],
                                !.orphans = {}, !.ino_num = 0]
    PROVE  Sound(t)
<1>. DEFINE k == s.kind  l == s.nlink  u == s.up  e == s.dent  o == s.orphans
            c == s.ino_num  f == s.fsck
            k2 == [i \in InoSet |-> IF i \in o THEN "free" ELSE k[i]]
            l2 == [i \in InoSet |-> IF i \in o THEN 0 ELSE l[i]]
<1>1. Fits(s, k, l, u, e, o, c, f)
  BY Zenon DEF Sound
<1>2. t = [s EXCEPT !.kind = k2, !.nlink = l2, !.orphans = {}, !.ino_num = 0]
  OBVIOUS
<1>. HIDE DEF k, l, u, e, o, c, f
<1>3. /\ At(s, k, l, u, e, o, c, f, NoErr) /\ Tree(k, l, u, e) /\ Listed(k, l, o, c, f)
      /\ k \in KindType /\ l \in LinkType /\ u \in UpType /\ e \in DentType
      /\ o \subseteq InoSet /\ \A i \in InoSet : LinksOf(k, l, u, e, i)
  BY <1>1, ListFinite DEF Fits, Tree, TreeType
<1>4. /\ k2 \in KindType /\ l2 \in LinkType
      /\ \A i \in o : k2[i] = "free" /\ l2[i] = 0
      /\ \A i \in InoSet \ o : k2[i] = k[i] /\ l2[i] = l[i]
  BY <1>3 DEF KindType, LinkType, Kinds
<1>. HIDE DEF k2, l2
<1>5. \A i \in o : i \in InoSet /\ Alone(e, i)
  <2>. SUFFICES ASSUME NEW i \in o PROVE i \in InoSet /\ Alone(e, i)
    OBVIOUS
  <2>1. i \in InoSet /\ l[i] = 0
    BY <1>3 DEF Listed, Unlinked
  <2>. QED
    BY <1>3, <2>1, Bare
<1>6. \A d \in InoSet, n \in FileNames :
        e[d][n] \notin o /\ (e[d][n] # 0 => e[d][n] \in InoSet)
  <2>. SUFFICES ASSUME NEW d \in InoSet, NEW n \in FileNames
                PROVE  e[d][n] \notin o /\ (e[d][n] # 0 => e[d][n] \in InoSet)
    OBVIOUS
  <2>1. e[d][n] \in InoSet \cup {0}
    BY <1>3 DEF DentType
  <2>2. e[d][n] \in o => <<d, n>> \in Named(e, e[d][n])
    BY DEF Named
  <2>. QED
    BY <1>5, <2>1, <2>2 DEF Alone
<1>7. \A d \in InoSet : Subs(k2, e, d) = Subs(k, e, d)
  BY <1>4, <1>6 DEF Subs
<1>8. ASSUME NEW i \in InoSet PROVE LinksOf(k2, l2, u, e, i)
  <2>1. CASE i \in o
    <3>1. Named(e, i) = {} /\ k2[i] = "free" /\ \A n \in FileNames : e[i][n] = 0
      BY <1>4, <1>5, <2>1 DEF Alone
    <3>. QED
      BY <3>1 DEF LinksOf
  <2>2. CASE i \notin o
    <3>1. k2[i] = k[i] /\ l2[i] = l[i] /\ LinksOf(k, l, u, e, i) /\ Subs(k2, e, i) = Subs(k, e, i)
      BY <1>3, <1>4, <1>7, <2>2
    <3>. QED
      BY <3>1, Zenon DEF LinksOf
  <2>. QED
    BY <2>1, <2>2
<1>9. k2[RootIno] = "dir" /\ l2[RootIno] > 0 /\ Named(e, RootIno) = {}
  <2>1. RootIno \in InoSet /\ k[RootIno] = "dir" /\ l[RootIno] > 0 /\ Named(e, RootIno) = {}
    BY <1>3, NamespaceAssumption DEF Tree
  <2>2. RootIno \notin o
    BY <1>5 DEF Alone
  <2>. QED
    BY <1>4, <2>1, <2>2
<1>10. Tree(k2, l2, u, e)
  BY <1>3, <1>4, <1>8, <1>9 DEF Tree, TreeType
<1>11. Listed(k2, l2, {}, 0, f)
  <2>1. Unlinked(k2, l2) = Unlinked(k, l) \ o
    BY <1>3, <1>4 DEF Unlinked
  <2>2. (Unlinked(k, l) = o \/ f = TRUE) /\ f \in BOOLEAN
    BY <1>3 DEF Listed
  <2>3. Cardinality({}) = 0
    BY FS_EmptySet
  <2>4. Unlinked(k2, l2) = {} \/ f = TRUE
    BY <2>1, <2>2
  <2>. QED
    BY <2>2, <2>3, <2>4 DEF Listed
<1>12. At(t, k2, l2, u, e, {}, 0, f, NoErr)
  BY <1>2, <1>3 DEF At
<1>13. Fits(t, k2, l2, u, e, {}, 0, f)
  BY <1>10, <1>11, <1>12 DEF Fits
<1>. QED
  BY <1>13, FitsSound

(* A new file system: the root, empty.                                     *)
LEMMA EmptySound == Sound(EmptyNs)
<1>. DEFINE k == [i \in InoSet |-> IF i = RootIno THEN "dir" ELSE "free"]
            l == [i \in InoSet |-> IF i = RootIno THEN 2 ELSE 0]
            u == [i \in InoSet |-> RootIno]
            e == [d \in InoSet |-> [n \in FileNames |-> 0]]
<1>1. At(EmptyNs, k, l, u, e, {}, 0, FALSE, NoErr)
  BY Zenon DEF At, EmptyNs, NoErr
<1>2. TreeType(k, l, u, e)
  BY NamespaceAssumption DEF TreeType, KindType, LinkType, UpType, DentType, Kinds
<1>3. /\ \A d \in InoSet, n \in FileNames : e[d][n] = 0
      /\ \A i \in InoSet \ {RootIno} : k[i] = "free" /\ l[i] = 0
      /\ RootIno \in InoSet /\ k[RootIno] = "dir" /\ l[RootIno] = 2 /\ 0 \notin InoSet
  BY NamespaceAssumption
<1>. HIDE DEF k, l, u, e
<1>4. \A i \in InoSet : Named(e, i) = {} /\ Subs(k, e, i) = {}
  BY <1>3 DEF Named, Subs
<1>5. Cardinality({}) = 0
  BY FS_EmptySet
<1>6. ASSUME NEW i \in InoSet PROVE LinksOf(k, l, u, e, i)
  <2>1. CASE i = RootIno
    BY <1>3, <1>4, <1>5, <2>1 DEF LinksOf
  <2>2. CASE i # RootIno
    BY <1>3, <1>4, <1>5, <2>2 DEF LinksOf
  <2>. QED
    BY <2>1, <2>2
<1>7. Tree(k, l, u, e)
  BY <1>2, <1>3, <1>4, <1>6 DEF Tree
<1>8. Unlinked(k, l) = {}
  BY <1>3 DEF Unlinked
<1>9. Listed(k, l, {}, 0, FALSE)
  BY <1>5, <1>8 DEF Listed
<1>10. Fits(EmptyNs, k, l, u, e, {}, 0, FALSE)
  BY <1>1, <1>7, <1>9 DEF Fits
<1>. QED
  BY <1>10, FitsSound

----------------------------------------------------------------------------
(* A rename that did not find the old entry again                          *)

(* A name space with these fields, and inode i with a name too many.       *)
AtTwin(s, k, l, u, e, o, c, f, i) == s \in
    [kind : {k}, nlink : {l}, up : {u}, dent : {e}, orphans : {o}, ino_num : {c},
     fsck : {f}, twin : {i}, err : {NoErr}]

(* It is the sound name space b, where i is named in d, but for a second   *)
(* name n in d.                                                            *)
TwinOf(t, b, d, n, i) ==
    /\ Sound(b) /\ d \in InoSet /\ n \in FileNames /\ i \in InoSet
    /\ b.kind[d] = "dir" /\ b.nlink[d] > 0 /\ b.dent[d][n] = 0
    /\ \E m \in FileNames : b.dent[d][m] = i
    /\ AtTwin(t, b.kind, AddedLinks(b.kind, b.nlink, d, i), b.up, [b.dent EXCEPT ![d][n] = i],
              b.orphans, b.ino_num, b.fsck, i)
Twinned(t) == \E b, d, n, i : TwinOf(t, b, d, n, i)
Valid(s) == Sound(s) \/ Twinned(s)

(* The field twin tells them apart.                                        *)
LEMMA TwinIs ==
    ASSUME NEW s
    PROVE  /\ Sound(s) => s.twin = 0
           /\ Twinned(s) => s.twin # 0
<1>1. Sound(s) => s.twin = 0
  BY Zenon DEF Sound, Fits, At
<1>2. ASSUME NEW b, NEW d, NEW n, NEW i, TwinOf(s, b, d, n, i) PROVE s.twin # 0
  <2>1. i \in InoSet /\ s.twin = i
    BY <1>2 DEF TwinOf, AtTwin
  <2>. QED
    BY <2>1, NamespaceAssumption
<1>. QED
  BY <1>1, <1>2 DEF Twinned

(* What the base of a twin says about its inode and its directory.         *)
LEMMA TwinBase ==
    ASSUME NEW t, NEW b, NEW d, NEW n, NEW i, TwinOf(t, b, d, n, i)
    PROVE  /\ Fits(b, b.kind, b.nlink, b.up, b.dent, b.orphans, b.ino_num, b.fsck)
           /\ i # d /\ i # RootIno /\ b.kind[i] # "free" /\ b.nlink[i] > 0
           /\ AddedLinks(b.kind, b.nlink, d, i) \in LinkType
           /\ AddedLinks(b.kind, b.nlink, d, i)[d] =
                IF b.kind[i] = "dir" THEN b.nlink[d] + 1 ELSE b.nlink[d]
           /\ \A x \in InoSet \ {d} : AddedLinks(b.kind, b.nlink, d, i)[x] = b.nlink[x]
<1>. DEFINE k == b.kind  l == b.nlink  u == b.up  e == b.dent
<1>1. Fits(b, k, l, u, e, b.orphans, b.ino_num, b.fsck)
  BY Zenon DEF TwinOf, Sound
<1>2. /\ d \in InoSet /\ n \in FileNames /\ i \in InoSet /\ Tree(k, l, u, e)
      /\ \E m \in FileNames : e[d][m] = i
  BY <1>1 DEF TwinOf, Fits
<1>. HIDE DEF k, l, u, e
<1>3. PICK m \in FileNames : e[d][m] = i
  BY <1>2
<1>4. i # d /\ <<d, m>> \in Named(e, i) /\ LinksOf(k, l, u, e, i) /\ l \in LinkType
      /\ Named(e, RootIno) = {}
  BY <1>2, <1>3 DEF Tree, TreeType, Named
<1>5. k[i] # "free" /\ l[i] > 0 /\ i # RootIno
  BY <1>4 DEF LinksOf
<1>6. /\ AddedLinks(k, l, d, i) \in LinkType
      /\ AddedLinks(k, l, d, i)[d] = IF k[i] = "dir" THEN l[d] + 1 ELSE l[d]
      /\ \A x \in InoSet \ {d} : AddedLinks(k, l, d, i)[x] = l[x]
  BY <1>2, <1>4 DEF AddedLinks, LinkType
<1>. QED
  BY <1>1, <1>4, <1>5, <1>6 DEF k, l, u, e

(* The branch of f2fs_rename after f2fs_add_link that gives up.            *)
LEMMA TwinMade ==
    ASSUME NEW s, Sound(s), NEW od, NEW on, NEW nn,
           May(s.kind, s.nlink, s.dent, od, on, od, nn), s.dent[od][nn] = 0, NEW wh, NEW wok,
           NEW t, t = f2fs_rename(s, od, on, od, nn, wh, FALSE, wok)
    PROVE  Twinned([t EXCEPT !.err = NoErr])
<1>. DEFINE i == s.dent[od][on]  k == s.kind  l == s.nlink  u == s.up  e == s.dent
            o == s.orphans  c == s.ino_num  f == s.fsck
            e2 == [e EXCEPT ![od][nn] = i]  w == f2fs_set_dentry(s, od, nn, i)
            b == Added(s, od, nn, i)
<1>1. t = NsFail([b EXCEPT !.twin = i], "ENOENT")
  BY RenameIs
<1>2. /\ At(s, k, l, u, e, o, c, f, NoErr) /\ Tree(k, l, u, e)
      /\ Moving(k, l, u, e, od, on, od, nn, i)
  BY MovingIs DEF Sound, Fits
<1>3. od \in InoSet /\ on \in FileNames /\ nn \in FileNames /\ i \in InoSet
      /\ k[od] = "dir" /\ l[od] > 0 /\ e[od][nn] = 0 /\ e[od][on] = i
  BY <1>2 DEF May, Moving
<1>4. At(w, k, l, u, e2, o, c, f, NoErr)
  BY <1>2, SetDentryIs
<1>5. b = [w EXCEPT !.nlink[od] = IF k[i] = "dir" THEN @ + 1 ELSE @]
  BY DEF Added
<1>6. s.kind = k /\ s.nlink = l /\ s.up = u /\ s.dent = e /\ s.orphans = o /\ s.ino_num = c
      /\ s.fsck = f /\ e2 = [e EXCEPT ![od][nn] = i]
  OBVIOUS
<1>. HIDE DEF i, k, l, u, e, o, c, f, e2, w, b
<1>7. At(b, k, AddedLinks(k, l, od, i), u, e2, o, c, f, NoErr)
  BY <1>4, <1>5 DEF At, AddedLinks
<1>8. AtTwin([t EXCEPT !.err = NoErr], k, AddedLinks(k, l, od, i), u, e2, o, c, f, i)
  BY <1>1, <1>7 DEF At, AtTwin, NsFail
<1>9. TwinOf([t EXCEPT !.err = NoErr], s, od, nn, i)
  BY <1>3, <1>6, <1>8 DEF TwinOf
<1>. QED
  BY <1>9 DEF Twinned

(* The eviction of an inode without a link leaves the twin alone.          *)
LEMMA TwinEvict ==
    ASSUME NEW s, Twinned(s), NEW x \in InoSet, s.kind[x] # "free", s.nlink[x] = 0,
           NEW t, t = [remove_orphan_inode(s, x) EXCEPT !.kind[x] = "free"]
    PROVE  Twinned(t)
<1>1. PICK b, d, n, i : TwinOf(s, b, d, n, i)
  BY DEF Twinned
<1>. DEFINE k == b.kind  l == b.nlink  u == b.up  e == b.dent  o == b.orphans
            c == b.ino_num  f == b.fsck
            e2 == [e EXCEPT ![d][n] = i]  l2 == AddedLinks(k, l, d, i)
            w == remove_orphan_inode(b, x)  v == [w EXCEPT !.kind[x] = "free"]
            k2 == [k EXCEPT ![x] = "free"]
            o2 == IF x \in o THEN o \ {x} ELSE o  c2 == IF x \in o THEN c - 1 ELSE c
<1>2. /\ AtTwin(s, k, l2, u, e2, o, c, f, i) /\ Sound(b) /\ d \in InoSet /\ n \in FileNames
      /\ i \in InoSet /\ k[d] = "dir" /\ l[d] > 0 /\ e[d][n] = 0 /\ \E m \in FileNames : e[d][m] = i
  BY <1>1 DEF TwinOf
<1>3. /\ Fits(b, k, l, u, e, o, c, f) /\ k[i] # "free" /\ l[i] > 0
      /\ l2 \in LinkType /\ (l2[d] = IF k[i] = "dir" THEN l[d] + 1 ELSE l[d])
      /\ \A y \in InoSet \ {d} : l2[y] = l[y]
  BY <1>1, TwinBase
<1>4. w = remove_orphan_inode(b, x) /\ v = [w EXCEPT !.kind[x] = "free"]
      /\ k2 = [k EXCEPT ![x] = "free"] /\ b.kind = k /\ b.nlink = l /\ b.up = u /\ b.dent = e
      /\ l2 = AddedLinks(k, l, d, i) /\ e2 = [e EXCEPT ![d][n] = i]
  OBVIOUS
<1>5. /\ x \in o => o2 = o \ {x} /\ c2 = c - 1
      /\ x \notin o => o2 = o /\ c2 = c
  OBVIOUS
<1>. HIDE DEF k, l, u, e, o, c, f, e2, l2, w, v, k2, o2, c2
<1>6. At(b, k, l, u, e, o, c, f, NoErr) /\ k \in KindType /\ l \in LinkType
  BY <1>3 DEF Fits, Tree, TreeType
<1>7. s.kind = k /\ s.nlink = l2 /\ s.orphans = o
  BY <1>2 DEF AtTwin
<1>8. k[x] # "free" /\ l[x] = 0 /\ x # d /\ x # i
  <2>1. l2[x] = 0 /\ k[x] # "free"
    BY <1>7
  <2>2. x # d
    BY <1>2, <1>3, <1>6, <2>1 DEF LinkType
  <2>. QED
    BY <1>3, <1>6, <2>1, <2>2 DEF LinkType
<1>9. Sound(v) /\ Renewed(b, v, x, "free")
  BY <1>2, <1>4, <1>8, EvictSound
<1>10. At(w, k, l, u, e, o2, c2, f, NoErr)
  <2>1. /\ x \in o => At(w, k, l, u, e, o \ {x}, c - 1, f, NoErr)
        /\ x \notin o => At(w, k, l, u, e, o, c, f, NoErr)
    BY <1>4, <1>6, RemoveOrphanIs
  <2>. QED
    BY <1>5, <2>1, Zenon
<1>11. At(v, k2, l, u, e, o2, c2, f, NoErr)
  BY <1>4, <1>10 DEF At
<1>12. v.kind = k2 /\ v.nlink = l /\ v.up = u /\ v.dent = e /\ v.orphans = o2 /\ v.ino_num = c2
       /\ v.fsck = f
  BY <1>11, Fields
<1>13. k2[d] = "dir" /\ k2[i] = k[i]
  BY <1>2, <1>4, <1>6, <1>8 DEF KindType
<1>14. AddedLinks(k2, l, d, i) = l2
  BY <1>4, <1>13 DEF AddedLinks
<1>15. AtTwin(t, k2, l2, u, e2, o2, c2, f, i)
  <2>1. CASE x \in o
    <3>1. t = [[s EXCEPT !.orphans = @ \ {x}, !.ino_num = @ - 1] EXCEPT !.kind[x] = "free"]
      BY <1>7, <2>1 DEF remove_orphan_inode
    <3>. QED
      BY <1>2, <1>4, <1>5, <2>1, <3>1 DEF AtTwin
  <2>2. CASE x \notin o
    <3>1. t = [s EXCEPT !.kind[x] = "free"]
      BY <1>7, <2>2 DEF remove_orphan_inode
    <3>. QED
      BY <1>2, <1>4, <1>5, <2>2, <3>1 DEF AtTwin
  <2>. QED
    BY <2>1, <2>2
<1>16. TwinOf(t, v, d, n, i)
  BY <1>2, <1>4, <1>9, <1>12, <1>13, <1>14, <1>15 DEF TwinOf
<1>. QED
  BY <1>16 DEF Twinned

(* Nor does the mount after a crash touch it.                              *)
LEMMA TwinRecover ==
    ASSUME NEW s, Twinned(s),
           NEW t, t = [s EXCEPT !.kind = [y \in InoSet |-> IF y \in s.orphans THEN "free" ELSE @[y]],
                                !.nlink = [y \in InoSet |-> IF y \in s.orphans THEN 0 ELSE @[y]],
                                !.orphans = {}, !.ino_num = 0]
    PROVE  Twinned(t)
<1>1. PICK b, d, n, i : TwinOf(s, b, d, n, i)
  BY DEF Twinned
<1>. DEFINE k == b.kind  l == b.nlink  u == b.up  e == b.dent  o == b.orphans
            c == b.ino_num  f == b.fsck
            e2 == [e EXCEPT ![d][n] = i]  l2 == AddedLinks(k, l, d, i)
            k3 == [y \in InoSet |-> IF y \in o THEN "free" ELSE k[y]]
            l3 == [y \in InoSet |-> IF y \in o THEN 0 ELSE l[y]]
            l4 == [y \in InoSet |-> IF y \in o THEN 0 ELSE l2[y]]
            v == [b EXCEPT !.kind = k3, !.nlink = l3, !.orphans = {}, !.ino_num = 0]
<1>2. /\ AtTwin(s, k, l2, u, e2, o, c, f, i) /\ Sound(b) /\ d \in InoSet /\ n \in FileNames
      /\ i \in InoSet /\ k[d] = "dir" /\ l[d] > 0 /\ e[d][n] = 0 /\ \E m \in FileNames : e[d][m] = i
  BY <1>1 DEF TwinOf
<1>3. /\ Fits(b, k, l, u, e, o, c, f) /\ k[i] # "free" /\ l[i] > 0
      /\ l2 \in LinkType /\ (l2[d] = IF k[i] = "dir" THEN l[d] + 1 ELSE l[d])
      /\ \A y \in InoSet \ {d} : l2[y] = l[y]
  BY <1>1, TwinBase
<1>4. Sound(v)
  BY <1>2, RecoverSound
<1>5. s.kind = k /\ s.nlink = l2 /\ s.orphans = o
  BY <1>2 DEF AtTwin
<1>6. t = [s EXCEPT !.kind = k3, !.nlink = l4, !.orphans = {}, !.ino_num = 0]
  BY <1>5
<1>7. e2 = [e EXCEPT ![d][n] = i] /\ v = [b EXCEPT !.kind = k3, !.nlink = l3, !.orphans = {}, !.ino_num = 0]
      /\ l3 = [y \in InoSet |-> IF y \in o THEN 0 ELSE l[y]]
      /\ l4 = [y \in InoSet |-> IF y \in o THEN 0 ELSE l2[y]]
      /\ k3 = [y \in InoSet |-> IF y \in o THEN "free" ELSE k[y]]
  OBVIOUS
<1>. HIDE DEF k, l, u, e, o, c, f, e2, l2, v, k3, l3, l4
<1>8. At(b, k, l, u, e, o, c, f, NoErr) /\ k \in KindType /\ l \in LinkType /\ Listed(k, l, o, c, f)
  BY <1>3 DEF Fits, Tree, TreeType
<1>9. d \notin o /\ i \notin o
  BY <1>2, <1>3, <1>8 DEF Listed, Unlinked, LinkType
<1>10. At(v, k3, l3, u, e, {}, 0, f, NoErr)
  BY <1>7, <1>8 DEF At
<1>11. v.kind = k3 /\ v.nlink = l3 /\ v.up = u /\ v.dent = e /\ v.orphans = {} /\ v.ino_num = 0
       /\ v.fsck = f
  BY <1>10, Fields
<1>12. k3[d] = "dir" /\ k3[i] = k[i] /\ l3[d] = l[d]
  BY <1>2, <1>7, <1>9
<1>13. AddedLinks(k3, l3, d, i) = l4
  <2>1. AddedLinks(k3, l3, d, i) = [l3 EXCEPT ![d] = IF k[i] = "dir" THEN l3[d] + 1 ELSE l3[d]]
    BY <1>12 DEF AddedLinks
  <2>. QED
    BY <1>2, <1>3, <1>7, <1>9, <2>1
<1>14. AtTwin(t, k3, l4, u, e2, {}, 0, f, i)
  BY <1>2, <1>6 DEF AtTwin
<1>15. TwinOf(t, v, d, n, i)
  BY <1>2, <1>4, <1>7, <1>11, <1>12, <1>13, <1>14 DEF TwinOf
<1>. QED
  BY <1>15 DEF Twinned

(* The links of inode j, when w is the inode with a name too many, or 0.   *)
LinksBut(k, l, u, e, w, j) ==
    /\ Named(e, j) # {} => k[j] # "free" /\ l[j] > 0
    /\ k[j] = "file" => l[j] + (IF j = w THEN 1 ELSE 0) = Cardinality(Named(e, j))
    /\ k[j] = "dir" /\ l[j] > 0 =>
         /\ l[j] = 2 + Cardinality(Subs(k, e, j))
         /\ j # RootIno => \E n, m \in FileNames : /\ Named(e, j) = {<<u[j], n>>, <<u[j], m>>}
                                                   /\ n # m <=> j = w
    /\ k[j] # "dir" \/ l[j] = 0 => \A n \in FileNames : e[j][n] = 0

(* The links of a sound name space.                                        *)
LEMMA SoundLinks ==
    ASSUME NEW s, Sound(s), NEW j \in InoSet
    PROVE  LinksBut(s.kind, s.nlink, s.up, s.dent, s.twin, j)
<1>. DEFINE k == s.kind  l == s.nlink  u == s.up  e == s.dent
<1>1. Tree(k, l, u, e)
  BY Zenon DEF Sound, Fits
<1>2. s.twin = 0 /\ j # 0
  BY TwinIs, NamespaceAssumption
<1>. HIDE DEF k, l, u, e
<1>3. LinksOf(k, l, u, e, j) /\ l \in LinkType
  BY <1>1 DEF Tree, TreeType
<1>4. l[j] + (IF j = s.twin THEN 1 ELSE 0) = l[j]
  BY <1>2, <1>3 DEF LinkType
<1>5. ASSUME k[j] = "dir", l[j] > 0, j # RootIno
      PROVE  \E n, m \in FileNames : /\ Named(e, j) = {<<u[j], n>>, <<u[j], m>>}
                                     /\ n # m <=> j = s.twin
  <2>1. PICK n \in FileNames : Named(e, j) = {<<u[j], n>>}
    BY <1>3, <1>5 DEF LinksOf
  <2>2. Named(e, j) = {<<u[j], n>>, <<u[j], n>>} /\ ~(j = s.twin)
    BY <1>2, <2>1
  <2>. QED
    BY <2>2, Zenon
<1>6. LinksBut(k, l, u, e, s.twin, j)
  BY <1>3, <1>4, <1>5, Zenon DEF LinksOf, LinksBut
<1>. QED
  BY <1>6 DEF k, l, u, e

(* The links of a name space that a rename left half-way.                  *)
LEMMA TwinLinks ==
    ASSUME NEW s, Twinned(s), NEW j \in InoSet
    PROVE  LinksBut(s.kind, s.nlink, s.up, s.dent, s.twin, j)
<1>1. PICK b, d, n, i : TwinOf(s, b, d, n, i)
  BY DEF Twinned
<1>. DEFINE k == b.kind  l == b.nlink  u == b.up  e == b.dent
            e2 == [e EXCEPT ![d][n] = i]  l2 == AddedLinks(k, l, d, i)
<1>2. /\ AtTwin(s, k, l2, u, e2, b.orphans, b.ino_num, b.fsck, i) /\ d \in InoSet /\ n \in FileNames
      /\ i \in InoSet /\ k[d] = "dir" /\ l[d] > 0 /\ e[d][n] = 0 /\ \E m \in FileNames : e[d][m] = i
  BY <1>1 DEF TwinOf
<1>3. /\ Fits(b, k, l, u, e, b.orphans, b.ino_num, b.fsck) /\ k[i] # "free" /\ l[i] > 0 /\ i # d
      /\ l2 \in LinkType /\ (l2[d] = IF k[i] = "dir" THEN l[d] + 1 ELSE l[d])
      /\ \A y \in InoSet \ {d} : l2[y] = l[y]
  BY <1>1, TwinBase
<1>4. e2 = [e EXCEPT ![d][n] = i]
  OBVIOUS
<1>. HIDE DEF k, l, u, e, e2, l2
<1>5. /\ Tree(k, l, u, e) /\ e \in DentType /\ l \in LinkType /\ k \in KindType
      /\ LinksOf(k, l, u, e, j) /\ LinksOf(k, l, u, e, i) /\ LinksOf(k, l, u, e, d)
  BY <1>2, <1>3 DEF Fits, Tree, TreeType
<1>6. s.kind = k /\ s.nlink = l2 /\ s.up = u /\ s.dent = e2 /\ s.twin = i
  BY <1>2 DEF AtTwin
<1>7. Entered(k, e, d, n, i, e2) /\ i # 0
  BY <1>2, <1>4, <1>5, EnterIs, NamespaceAssumption
<1>8. PICK m \in FileNames : e[d][m] = i
  BY <1>2
<1>9. <<d, m>> \in Named(e, i) /\ <<d, n>> \notin Named(e, i) /\ m # n
  BY <1>2, <1>7, <1>8 DEF Named
<1>10. Named(e2, i) = Named(e, i) \cup {<<d, n>>}
  BY <1>7 DEF Entered
<1>11. CASE j = i
  <2>1. Subs(k, e2, i) = Subs(k, e, i) /\ l2[i] = l[i] /\ \A x \in FileNames : e2[i][x] = e[i][x]
    BY <1>2, <1>3, <1>7 DEF Entered
  <2>2. l2[i] + 1 = Cardinality(Named(e2, i)) \/ k[i] # "file"
    <3>1. IsFiniteSet(Named(e, i)) /\ Cardinality(Named(e, i)) \in Nat
      BY NamedFinite
    <3>2. Cardinality(Named(e2, i)) = Cardinality(Named(e, i)) + 1
      BY <1>9, <1>10, <3>1, OneMore
    <3>. QED
      BY <1>5, <2>1, <3>2 DEF LinksOf
  <2>3. k[i] = "dir" /\ i # RootIno =>
          \E x, y \in FileNames : Named(e2, i) = {<<u[i], x>>, <<u[i], y>>} /\ (x # y <=> i = i)
    <3>. SUFFICES ASSUME k[i] = "dir", i # RootIno
                  PROVE  \E x, y \in FileNames : /\ Named(e2, i) = {<<u[i], x>>, <<u[i], y>>}
                                                 /\ x # y <=> i = i
      OBVIOUS
    <3>1. PICK x \in FileNames : Named(e, i) = {<<u[i], x>>}
      BY <1>3, <1>5 DEF LinksOf
    <3>2. u[i] = d /\ x = m
      BY <1>9, <3>1
    <3>3. Named(e2, i) = {<<u[i], m>>, <<u[i], n>>}
      BY <1>10, <3>1, <3>2
    <3>. QED
      BY <1>2, <1>9, <3>3
  <2>4. /\ k[i] # "free" /\ l2[i] > 0
        /\ k[i] = "dir" => l2[i] = 2 + Cardinality(Subs(k, e2, i))
        /\ k[i] # "dir" => \A x \in FileNames : e2[i][x] = 0
    BY <1>3, <1>5, <2>1 DEF LinksOf
  <2>5. l2[i] # 0
    BY <1>3, <2>4, NotZero DEF LinkType
  <2>6. LinksBut(k, l2, u, e2, i, i)
    BY <2>2, <2>3, <2>4, <2>5 DEF LinksBut
  <2>. QED
    BY <1>6, <1>11, <2>6
<1>12. CASE j # i
  <2>1. Named(e2, j) = Named(e, j)
    <3>1. <<d, n>> \notin Named(e, j) /\ Named(e2, j) = Named(e, j) \ {<<d, n>>}
      BY <1>2, <1>7, <1>12, NamespaceAssumption DEF Named, Entered
    <3>. QED
      BY <3>1, NoneLess, Zenon
  <2>2. l2[j] \in Nat /\ l[j] \in Nat /\ (l2[j] > 0 <=> l[j] > 0) /\ (k[j] = "file" => l2[j] = l[j])
        /\ (l2[j] = 0 <=> l[j] = 0)
    BY <1>2, <1>3, <1>5 DEF LinkType
  <2>3. k[j] = "dir" /\ l[j] > 0 => l2[j] = 2 + Cardinality(Subs(k, e2, j))
    <3>1. CASE j # d
      BY <1>3, <1>5, <1>7, <3>1 DEF Entered, LinksOf
    <3>2. CASE j = d /\ k[i] # "dir"
      <4>1. Subs(k, e2, d) = Subs(k, e, d) \ {n} /\ n \notin Subs(k, e, d)
        BY <1>2, <1>7, <3>2 DEF Entered, Subs
      <4>2. Subs(k, e2, d) = Subs(k, e, d)
        BY <4>1, NoneLess, Zenon
      <4>. QED
        BY <1>3, <1>5, <3>2, <4>2 DEF LinksOf
    <3>3. CASE j = d /\ k[i] = "dir"
      <4>1. Subs(k, e2, d) = Subs(k, e, d) \cup {n} /\ n \notin Subs(k, e, d)
        BY <1>2, <1>7, <3>3 DEF Entered, Subs
      <4>2. IsFiniteSet(Subs(k, e, d)) /\ Cardinality(Subs(k, e, d)) \in Nat
        BY SubsFinite
      <4>3. Cardinality(Subs(k, e2, d)) = Cardinality(Subs(k, e, d)) + 1
        BY <4>1, <4>2, OneMore
      <4>4. l[d] = 2 + Cardinality(Subs(k, e, d)) /\ l2[d] = l[d] + 1
        BY <1>2, <1>3, <1>5, <3>3 DEF LinksOf
      <4>. QED
        BY <3>3, <4>2, <4>3, <4>4
    <3>. QED
      BY <3>1, <3>2, <3>3
  <2>4. k[j] = "dir" /\ l[j] > 0 /\ j # RootIno =>
          \E x, y \in FileNames : Named(e2, j) = {<<u[j], x>>, <<u[j], y>>} /\ (x # y <=> j = i)
    <3>. SUFFICES ASSUME k[j] = "dir", l[j] > 0, j # RootIno
                  PROVE  \E x, y \in FileNames : /\ Named(e2, j) = {<<u[j], x>>, <<u[j], y>>}
                                                 /\ x # y <=> j = i
      OBVIOUS
    <3>1. PICK x \in FileNames : Named(e, j) = {<<u[j], x>>}
      BY <1>5 DEF LinksOf
    <3>2. Named(e2, j) = {<<u[j], x>>, <<u[j], x>>}
      BY <2>1, <3>1
    <3>. QED
      BY <1>12, <3>2, Zenon
  <2>5. k[j] # "dir" \/ l[j] = 0 => \A x \in FileNames : e2[j][x] = 0
    <3>1. k[j] # "dir" \/ l[j] = 0 => j # d
      BY <1>2
    <3>. QED
      BY <1>5, <1>7, <3>1 DEF LinksOf, Entered
  <2>6. /\ Named(e2, j) # {} => k[j] # "free" /\ l2[j] > 0
        /\ k[j] = "file" => l2[j] + (IF j = i THEN 1 ELSE 0) = Cardinality(Named(e2, j))
    BY <1>5, <1>12, <2>1, <2>2 DEF LinksOf
  <2>7. LinksBut(k, l2, u, e2, i, j)
    BY <2>2, <2>3, <2>4, <2>5, <2>6, Zenon DEF LinksBut
  <2>. QED
    BY <1>6, <2>7
<1>. QED
  BY <1>11, <1>12

(* The orphans of a valid name space.                                      *)
LEMMA ValidListed ==
    ASSUME NEW s, Valid(s)
    PROVE  Listed(s.kind, s.nlink, s.orphans, s.ino_num, s.fsck)
<1>1. CASE Sound(s)
  BY <1>1, Zenon DEF Sound, Fits
<1>2. CASE Twinned(s)
  <2>1. PICK b, d, n, i : TwinOf(s, b, d, n, i)
    BY <1>2 DEF Twinned
  <2>. DEFINE k == b.kind  l == b.nlink  o == b.orphans  c == b.ino_num  f == b.fsck
              l2 == AddedLinks(k, l, d, i)
  <2>2. /\ AtTwin(s, k, l2, b.up, [b.dent EXCEPT ![d][n] = i], o, c, f, i)
        /\ d \in InoSet /\ l[d] > 0
    BY <2>1 DEF TwinOf
  <2>3. /\ Fits(b, k, l, b.up, b.dent, o, c, f)
        /\ l2 \in LinkType /\ (l2[d] = IF k[i] = "dir" THEN l[d] + 1 ELSE l[d])
        /\ \A y \in InoSet \ {d} : l2[y] = l[y]
    BY <2>1, TwinBase
  <2>. HIDE DEF k, l, o, c, f, l2
  <2>4. Listed(k, l, o, c, f) /\ l \in LinkType
    BY <2>3 DEF Fits, Tree, TreeType
  <2>5. \A y \in InoSet : l2[y] = 0 <=> l[y] = 0
    BY <2>2, <2>3, <2>4 DEF LinkType
  <2>6. Unlinked(k, l2) = Unlinked(k, l)
    BY <2>5 DEF Unlinked
  <2>7. s.kind = k /\ s.nlink = l2 /\ s.orphans = o /\ s.ino_num = c /\ s.fsck = f
    BY <2>2 DEF AtTwin
  <2>. QED
    BY <2>4, <2>6, <2>7, ListSame
<1>. QED
  BY <1>1, <1>2 DEF Valid

----------------------------------------------------------------------------
(* The invariant                                                           *)

(* The call under way: a symbolic link that may have to go, or a rename.   *)
CallSymlink(s, c) ==
    /\ c \in [op : {"symlink"}, d : InoSet, n : FileNames]
    /\ s.dent[c.d][c.n] # 0 /\ s.kind[s.dent[c.d][c.n]] = "file"
CallRename(s, c) ==
    /\ c \in [op : {"rename"}, od : InoSet, on : FileNames, nd : InoSet, nn : FileNames,
              wh : InoSet \cup {0}]
    /\ May(s.kind, s.nlink, s.dent, c.od, c.on, c.nd, c.nn)
    /\ c.wh # 0 => s.kind[c.wh] = "file" /\ s.kind[s.dent[c.od][c.on]] = "file"
CallOK(s, c) == c = NoCall \/ CallSymlink(s, c) \/ CallRename(s, c)

(* The inductive invariant: the name space and the checkpoint are sound,   *)
(* but for the inode that a rename left with two names; and what a call    *)
(* has checked before it let go of the lock still holds.                   *)
NsInv ==
    /\ Valid(ns) /\ Valid(image) /\ CallOK(ns, call)
    /\ Twinned(ns) => call = NoCall

(* Operations are begun, and go on, in a sound name space.                 *)
LEMMA SoundNow ==
    ASSUME NsInv, ns.twin = 0 \/ call # NoCall
    PROVE  Sound(ns)
BY TwinIs DEF NsInv, Valid

(* A call is not disturbed by an inode without a link.                     *)
LEMMA CallKept ==
    ASSUME NEW s, Sound(s), NEW c, CallOK(s, c), NEW i \in InoSet,
           s.kind[i] = "free" \/ s.nlink[i] = 0, c.op = "rename" => i # c.wh,
           NEW t, NEW x, Renewed(s, t, i, x)
    PROVE  CallOK(t, c)
<1>. DEFINE k == s.kind  l == s.nlink  e == s.dent
<1>1. Tree(k, l, s.up, e)
  BY Zenon DEF Sound, Fits
<1>2. k[i] = "free" \/ l[i] = 0
  OBVIOUS
<1>3. t.dent = e /\ \A j \in InoSet \ {i} : t.kind[j] = k[j] /\ t.nlink[j] = l[j]
  BY DEF Renewed
<1>4. s.dent = e /\ s.kind = k /\ s.nlink = l
  OBVIOUS
<1>. HIDE DEF k, l, e
<1>5. Alone(e, i)
  BY <1>1, <1>2, Bare
<1>6. ASSUME NEW d \in InoSet, NEW n \in FileNames
      PROVE  e[d][n] # i /\ e[d][n] \in InoSet \cup {0}
  <2>1. e \in DentType
    BY <1>1 DEF Tree, TreeType
  <2>2. <<d, n>> \notin Named(e, i)
    BY <1>5 DEF Alone
  <2>. QED
    BY <2>1, <2>2 DEF Named, DentType
<1>7. CASE c = NoCall
  BY <1>7 DEF CallOK
<1>8. CASE CallSymlink(s, c)
  <2>1. c \in [op : {"symlink"}, d : InoSet, n : FileNames]
        /\ e[c.d][c.n] # 0 /\ k[e[c.d][c.n]] = "file"
    BY <1>4, <1>8 DEF CallSymlink
  <2>2. c.d \in InoSet /\ c.n \in FileNames
    BY <2>1
  <2>3. e[c.d][c.n] \in InoSet \ {i}
    BY <1>6, <2>1, <2>2
  <2>4. CallSymlink(t, c)
    BY <1>3, <2>1, <2>3 DEF CallSymlink
  <2>. QED
    BY <2>4 DEF CallOK
<1>9. CASE CallRename(s, c)
  <2>1. /\ c \in [op : {"rename"}, od : InoSet, on : FileNames, nd : InoSet, nn : FileNames,
                  wh : InoSet \cup {0}]
        /\ May(k, l, e, c.od, c.on, c.nd, c.nn)
        /\ c.wh # 0 => k[c.wh] = "file" /\ k[e[c.od][c.on]] = "file"
    BY <1>4, <1>9 DEF CallRename
  <2>2. /\ c.op = "rename" /\ c.wh \in InoSet \cup {0} /\ c.nd \in InoSet /\ c.od \in InoSet
        /\ c.on \in FileNames /\ c.nn \in FileNames
    BY <2>1
  <2>. DEFINE od == c.od  on == c.on  nd == c.nd  nn == c.nn
  <2>3. e[od][on] \in InoSet \ {i} /\ (e[nd][nn] # 0 => e[nd][nn] \in InoSet \ {i})
    BY <1>6, <2>1, <2>2 DEF May
  <2>4. nd # i
    <3>1. k[nd] = "dir" /\ l[nd] > 0
      BY <2>1 DEF May
    <3>. QED
      BY <1>2, <3>1
  <2>5. t.kind[nd] = k[nd] /\ t.nlink[nd] = l[nd] /\ t.kind[e[od][on]] = k[e[od][on]]
        /\ (e[nd][nn] # 0 => t.kind[e[nd][nn]] = k[e[nd][nn]])
    BY <1>3, <2>2, <2>3, <2>4
  <2>6. May(t.kind, t.nlink, e, od, on, nd, nn)
    <3>1. May(k, l, e, od, on, nd, nn)
      BY <2>1
    <3>. HIDE DEF od, on, nd, nn
    <3>. QED
      BY <2>5, <3>1 DEF May
  <2>7. c.wh # 0 => t.kind[c.wh] = "file" /\ t.kind[e[od][on]] = "file"
    BY <1>3, <2>1, <2>2, <2>5
  <2>8. CallRename(t, c)
    BY <1>3, <2>1, <2>6, <2>7 DEF CallRename
  <2>. QED
    BY <2>8 DEF CallOK
<1>. QED
  BY <1>7, <1>8, <1>9 DEF CallOK

(* The inode number that is given out is free.                             *)
LEMMA NewInoFree ==
    ASSUME NewInos # {}
    PROVE  NewIno \in InoSet /\ ns.kind[NewIno] = "free"
<1>1. NewInos \in SUBSET Nat
  BY NamespaceAssumption DEF NewInos
<1>. DEFINE S == NewInos
<1>2. Min(S) \in S
  <2>. DEFINE R == {ss \in Nat \X Nat : ss[1] < ss[2]}
  <2>1. IsWellFoundedOn(R, Nat)
    BY NatLessThanWellFounded, Zenon DEF OpToRel
  <2>. HIDE DEF R, S
  <2>2. S \in SUBSET Nat /\ S # {}
    BY <1>1 DEF S
  <2>3. PICK x \in S : \A y \in S : ~(<<y, x>> \in R)
    BY <2>1, <2>2, WFMin, Zenon
  <2>4. ASSUME NEW y \in S PROVE x <= y
    <3>1. y < x => <<y, x>> \in R
      BY <2>2 DEF R
    <3>2. ~(y < x)
      BY <2>3, <3>1
    <3>. QED
      BY <2>2, <3>2
  <2>. QED
    BY <2>4 DEF Min
<1>. QED
  BY <1>2 DEF NewIno, NewInos

(* A sound name space stays so without an error to clear.                  *)
LEMMA SettledSame ==
    ASSUME NEW s, Sound(s)
    PROVE  /\ Sound([s EXCEPT !.err = NoErr])
           /\ [s EXCEPT !.err = NoErr].kind = s.kind /\ [s EXCEPT !.err = NoErr].nlink = s.nlink
           /\ [s EXCEPT !.err = NoErr].dent = s.dent
<1>1. At(s, s.kind, s.nlink, s.up, s.dent, s.orphans, s.ino_num, s.fsck, NoErr)
      /\ Tree(s.kind, s.nlink, s.up, s.dent) /\ Listed(s.kind, s.nlink, s.orphans, s.ino_num, s.fsck)
  BY Zenon DEF Sound, Fits
<1>2. Sound([s EXCEPT !.err = NoErr])
  BY <1>1, Settled
<1>. QED
  BY <1>1, <1>2 DEF At

(* An operation takes its step.                                            *)
LEMMA StepKeeps ==
    ASSUME NsInv, NEW s, NEW c, NsStep(s, c), Sound([s EXCEPT !.err = NoErr]),
           CallOK([s EXCEPT !.err = NoErr], c)
    PROVE  NsInv'
<1>1. ns' = [s EXCEPT !.err = NoErr] /\ call' = c /\ image' = image
  BY Zenon DEF NsStep, NoErr
<1>2. Sound(ns') /\ ~Twinned(ns')
  BY <1>1, TwinIs
<1>3. Valid(ns') /\ Valid(image') /\ CallOK(ns', call') /\ ~Twinned(ns')
  BY <1>1, <1>2, Zenon DEF NsInv, Valid
<1>. QED
  BY <1>3, Zenon DEF NsInv

(* The directories of the VFS.                                             *)
LEMMA DirectoryIs ==
    ASSUME NEW d \in Directories
    PROVE  d \in InoSet /\ ns.kind[d] = "dir" /\ ns.nlink[d] > 0
BY DEF Directories

(* f2fs_create, f2fs_mknod, f2fs_mkdir.                                    *)
LEMMA MakeInodeKeeps ==
    ASSUME NsInv, MakeInode
    PROVE  NsInv'
<1>1. PICK d \in Directories, n \in FileNames, k \in {"file", "dir"}, outcome \in {"ok", "early", "late"} :
        /\ NewInos # {} /\ ns.dent[d][n] = 0
        /\ NsStep(IF outcome = "ok" THEN AddNewLink(f2fs_new_inode(ns, NewIno, k, d), d, n, NewIno)
                  ELSE handle_failed_inode(f2fs_new_inode(ns, NewIno, k, d), NewIno,
                                           outcome = "late"), NoCall)
  BY DEF MakeInode
<1>. DEFINE i == NewIno  late == outcome = "late"
            t == IF outcome = "ok" THEN AddNewLink(f2fs_new_inode(ns, i, k, d), d, n, i)
                 ELSE handle_failed_inode(f2fs_new_inode(ns, i, k, d), i, late)
<1>2. NsStep(t, NoCall)
  BY <1>1
<1>3. i \in InoSet /\ ns.kind[i] = "free"
  BY <1>1, NewInoFree
<1>4. d \in InoSet /\ ns.kind[d] = "dir" /\ ns.nlink[d] > 0 /\ Sound(ns)
  BY DirectoryIs, SoundNow DEF MakeInode, CallCounted
<1>. HIDE DEF i, late
<1>5. Sound([t EXCEPT !.err = NoErr])
  <2>1. CASE outcome = "ok"
    <3>1. t = AddNewLink(f2fs_new_inode(ns, i, k, d), d, n, i)
      BY <2>1
    <3>. HIDE DEF t
    <3>. QED
      BY <1>1, <1>3, <1>4, <3>1, NewLinked
  <2>2. CASE outcome # "ok"
    <3>1. t = handle_failed_inode(f2fs_new_inode(ns, i, k, d), i, late)
      BY <2>2
    <3>. HIDE DEF t
    <3>. QED
      BY <1>1, <1>3, <1>4, <3>1, NewFails
  <2>. QED
    BY <2>1, <2>2
<1>6. CallOK([t EXCEPT !.err = NoErr], NoCall)
  BY DEF CallOK
<1>. HIDE DEF t
<1>. QED
  BY <1>2, <1>5, <1>6, StepKeeps

(* f2fs_symlink.                                                           *)
LEMMA SymlinkKeeps ==
    ASSUME NsInv, Symlink
    PROVE  NsInv'
<1>1. PICK d \in Directories, n \in FileNames :
        /\ NewInos # {} /\ ns.dent[d][n] = 0
        /\ NsStep(AddNewLink(f2fs_new_inode(ns, NewIno, "file", d), d, n, NewIno),
                  [op |-> "symlink", d |-> d, n |-> n])
  BY DEF Symlink
<1>. DEFINE i == NewIno  c == [op |-> "symlink", d |-> d, n |-> n]
            t == AddNewLink(f2fs_new_inode(ns, i, "file", d), d, n, i)
            t2 == [t EXCEPT !.err = NoErr]
<1>2. NsStep(t, c)
  BY <1>1
<1>3. i \in InoSet /\ ns.kind[i] = "free"
  BY <1>1, NewInoFree
<1>4. d \in InoSet /\ ns.kind[d] = "dir" /\ ns.nlink[d] > 0 /\ Sound(ns)
  BY DirectoryIs, SoundNow DEF Symlink, CallCounted
<1>5. t = AddNewLink(f2fs_new_inode(ns, i, "file", d), d, n, i)
  OBVIOUS
<1>. HIDE DEF i, t
<1>6. Sound(t2) /\ t.dent[d][n] = i /\ t.kind[i] = "file"
  BY <1>1, <1>3, <1>4, <1>5, NewLinked
<1>7. i # 0
  BY <1>3, NamespaceAssumption
<1>8. CallOK(t2, c)
  <2>1. At(t2, t2.kind, t2.nlink, t2.up, t2.dent, t2.orphans, t2.ino_num, t2.fsck, NoErr)
    BY <1>6, Zenon DEF Sound, Fits
  <2>2. t2.dent = t.dent /\ t2.kind = t.kind
    OBVIOUS
  <2>3. c \in [op : {"symlink"}, d : InoSet, n : FileNames] /\ c.d = d /\ c.n = n
    BY <1>4
  <2>. HIDE DEF c, t2
  <2>4. CallSymlink(t2, c)
    BY <1>6, <1>7, <2>2, <2>3 DEF CallSymlink
  <2>. QED
    BY <2>4 DEF CallOK
<1>. HIDE DEF c
<1>. QED
  BY <1>2, <1>6, <1>8, StepKeeps

(* The end of f2fs_symlink.                                                *)
LEMMA SymlinkWrittenKeeps ==
    ASSUME NsInv, SymlinkWritten
    PROVE  NsInv'
<1>1. PICK ok \in BOOLEAN : NsStep(IF ok THEN ns ELSE f2fs_unlink(ns, call.d, call.n), NoCall)
  BY DEF SymlinkWritten
<1>2. CallSymlink(ns, call) /\ Sound(ns)
  <2>1. call # NoCall
    BY DEF SymlinkWritten, NoCall
  <2>. QED
    BY <2>1, SoundNow DEF NsInv, CallOK, SymlinkWritten, CallRename
<1>. DEFINE t == IF ok THEN ns ELSE f2fs_unlink(ns, call.d, call.n)
<1>3. Sound([t EXCEPT !.err = NoErr])
  <2>1. CASE ok
    <3>1. t = ns
      BY <2>1
    <3>. HIDE DEF t
    <3>. QED
      BY <1>2, <3>1, SettledSame
  <2>2. CASE ~ok
    <3>1. t = f2fs_unlink(ns, call.d, call.n)
      BY <2>2
    <3>2. /\ call.d \in InoSet /\ call.n \in FileNames /\ ns.dent[call.d][call.n] # 0
          /\ ns.kind[ns.dent[call.d][call.n]] = "file"
      BY <1>2 DEF CallSymlink
    <3>3. ns.kind[ns.dent[call.d][call.n]] = "dir" =>
            f2fs_empty_directory(ns, ns.dent[call.d][call.n])
      BY <3>2
    <3>. HIDE DEF t
    <3>. QED
      BY <1>2, <3>1, <3>2, <3>3, UnlinkSound
  <2>. QED
    BY <2>1, <2>2
<1>4. CallOK([t EXCEPT !.err = NoErr], NoCall) /\ NsStep(t, NoCall)
  BY <1>1 DEF CallOK
<1>. HIDE DEF t
<1>. QED
  BY <1>3, <1>4, StepKeeps

(* f2fs_link.                                                              *)
LEMMA LinkInodeKeeps ==
    ASSUME NsInv, LinkInode
    PROVE  NsInv'
<1>1. PICK d \in Directories, n \in FileNames, i \in InoSet, ok \in BOOLEAN :
        /\ ns.kind[i] = "file" /\ ns.dent[d][n] = 0
        /\ NsStep(IF ok THEN AddLink(ns, d, n, i) ELSE ns, NoCall)
  BY DEF LinkInode
<1>. DEFINE t == IF ok THEN AddLink(ns, d, n, i) ELSE ns
<1>2. d \in InoSet /\ ns.kind[d] = "dir" /\ ns.nlink[d] > 0 /\ Sound(ns)
  BY DirectoryIs, SoundNow DEF LinkInode, CallCounted
<1>3. Sound([t EXCEPT !.err = NoErr])
  <2>1. CASE ok
    <3>1. t = AddLink(ns, d, n, i)
      BY <2>1
    <3>. HIDE DEF t
    <3>. QED
      BY <1>1, <1>2, <3>1, AddLinkSound
  <2>2. CASE ~ok
    <3>1. t = ns
      BY <2>2
    <3>. HIDE DEF t
    <3>. QED
      BY <1>2, <3>1, SettledSame
  <2>. QED
    BY <2>1, <2>2
<1>4. CallOK([t EXCEPT !.err = NoErr], NoCall) /\ NsStep(t, NoCall)
  BY <1>1 DEF CallOK
<1>. HIDE DEF t
<1>. QED
  BY <1>3, <1>4, StepKeeps

(* f2fs_unlink and f2fs_rmdir.                                             *)
LEMMA UnlinkNameKeeps ==
    ASSUME NsInv, UnlinkName
    PROVE  NsInv'
<1>1. PICK d \in Directories, n \in FileNames :
        /\ ns.dent[d][n] # 0
        /\ ns.kind[ns.dent[d][n]] = "dir" => f2fs_empty_directory(ns, ns.dent[d][n])
        /\ NsStep(f2fs_unlink(ns, d, n), NoCall)
  BY DEF UnlinkName
<1>. DEFINE t == f2fs_unlink(ns, d, n)
<1>2. d \in InoSet /\ Sound(ns) /\ t = f2fs_unlink(ns, d, n)
  BY DirectoryIs, SoundNow DEF UnlinkName, CallCounted
<1>3. NsStep(t, NoCall)
  BY <1>1
<1>. HIDE DEF t
<1>4. Sound([t EXCEPT !.err = NoErr])
  BY <1>1, <1>2, UnlinkSound
<1>5. CallOK([t EXCEPT !.err = NoErr], NoCall)
  BY DEF CallOK
<1>. QED
  BY <1>3, <1>4, <1>5, StepKeeps

(* O_TMPFILE.                                                              *)
LEMMA TmpfileKeeps ==
    ASSUME NsInv, Tmpfile
    PROVE  NsInv'
<1>1. PICK d \in Directories, outcome \in {"ok", "early", "late"} :
        /\ call = NoCall /\ NewInos # {}
        /\ ns' = [__f2fs_tmpfile(ns, NewIno, d, outcome) EXCEPT !.err = NoErr]
        /\ UNCHANGED <<image, call>>
  BY Zenon DEF Tmpfile, NoErr
<1>. DEFINE t == __f2fs_tmpfile(ns, NewIno, d, outcome)
<1>2. NewIno \in InoSet /\ ns.kind[NewIno] = "free"
  BY <1>1, NewInoFree
<1>3. d \in InoSet /\ Sound(ns) /\ t = __f2fs_tmpfile(ns, NewIno, d, outcome)
  BY DirectoryIs, SoundNow DEF Tmpfile, CallCounted
<1>. HIDE DEF t
<1>4. Sound([t EXCEPT !.err = NoErr])
  BY <1>2, <1>3, TmpfileSound
<1>5. ns' = [t EXCEPT !.err = NoErr] /\ image' = image /\ call' = NoCall
  BY <1>1 DEF t
<1>. QED
  BY <1>4, <1>5 DEF NsInv, Valid, CallOK

(* A directory is above itself.                                            *)
LEMMA AboveSelf ==
    ASSUME NEW s, NEW d \in InoSet
    PROVE  d \in Above(s, d)
BY Zenon DEF Above

(* f2fs_rename and f2fs_rename2 up to the lock.  A directory is not moved  *)
(* with RENAME_WHITEOUT.                                                   *)
LEMMA StartRenameKeeps ==
    ASSUME NsInv, StartRename, "dir" \notin WhiteoutKinds
    PROVE  NsInv'
<1>1. PICK od \in Directories, nd \in Directories, on \in FileNames, nn \in FileNames,
           white \in BOOLEAN, outcome \in {"ok", "early"} :
        LET s == __f2fs_tmpfile(ns, NewIno, od, outcome)
            c == [op |-> "rename", od |-> od, on |-> on, nd |-> nd, nn |-> nn, wh |-> 0]
        IN /\ call = NoCall /\ CallCounted /\ MayRename(od, on, nd, nn)
           /\ \/ /\ ~white /\ outcome = "ok"
                 /\ NsStep(ns, c)
              \/ /\ white /\ NewInos # {} /\ ns.kind[ns.dent[od][on]] \in WhiteoutKinds
                 /\ NsStep(s, IF NewIno \in s.orphans THEN [c EXCEPT !.wh = NewIno] ELSE NoCall)
  BY Zenon DEF StartRename
<1>. DEFINE s == __f2fs_tmpfile(ns, NewIno, od, outcome)
            c == [op |-> "rename", od |-> od, on |-> on, nd |-> nd, nn |-> nn, wh |-> 0]
            i == NewIno
<1>2. /\ od \in InoSet /\ nd \in InoSet /\ ns.kind[nd] = "dir" /\ ns.nlink[nd] > 0 /\ Sound(ns)
  BY <1>1, DirectoryIs, SoundNow DEF CallCounted
<1>3. May(ns.kind, ns.nlink, ns.dent, od, on, nd, nn)
  <2>1. MayRename(od, on, nd, nn)
    BY <1>1
  <2>2. nd \in Above(ns, nd)
    BY <1>2, AboveSelf
  <2>. QED
    BY <1>2, <2>1, <2>2 DEF MayRename, May
<1>4. /\ c \in [op : {"rename"}, od : InoSet, on : FileNames, nd : InoSet, nn : FileNames,
                wh : InoSet \cup {0}]
      /\ c.od = od /\ c.on = on /\ c.nd = nd /\ c.nn = nn /\ c.wh = 0 /\ c.op = "rename"
  BY <1>2
<1>5. CallOK(ns, c)
  <2>. HIDE DEF c
  <2>1. CallRename(ns, c)
    BY <1>3, <1>4 DEF CallRename
  <2>. QED
    BY <2>1 DEF CallOK
<1>6. CASE NsStep(ns, c)
  <2>. DEFINE t == [ns EXCEPT !.err = NoErr]
  <2>1. Sound(t) /\ t.kind = ns.kind /\ t.nlink = ns.nlink /\ t.dent = ns.dent
    BY <1>2, SettledSame
  <2>. HIDE DEF c, t
  <2>2. CallRename(t, c)
    BY <1>3, <1>4, <2>1 DEF CallRename
  <2>3. CallOK(t, c)
    BY <2>2 DEF CallOK
  <2>. QED
    BY <1>6, <2>1, <2>3, StepKeeps DEF t
<1>7. CASE /\ NewInos # {} /\ ns.kind[ns.dent[od][on]] \in WhiteoutKinds
           /\ NsStep(s, IF i \in s.orphans THEN [c EXCEPT !.wh = i] ELSE NoCall)
  <2>. DEFINE c2 == [c EXCEPT !.wh = i]  t == [s EXCEPT !.err = NoErr]
  <2>1. i \in InoSet /\ ns.kind[i] = "free" /\ s = __f2fs_tmpfile(ns, i, od, outcome)
    BY <1>7, NewInoFree
  <2>2. /\ c2 \in [op : {"rename"}, od : InoSet, on : FileNames, nd : InoSet, nn : FileNames,
                   wh : InoSet \cup {0}]
        /\ c2.od = od /\ c2.on = on /\ c2.nd = nd /\ c2.nn = nn /\ c2.wh = i
    BY <1>2, <2>1
  <2>3. i # 0
    BY <2>1, NamespaceAssumption
  <2>4. NsStep(s, IF i \in s.orphans THEN c2 ELSE NoCall)
    BY <1>7
  <2>. HIDE DEF c, c2, s, i
  <2>5. Sound(t) /\ Renewed(ns, s, i, "file")
    BY <1>2, <2>1, TmpfileSound
  <2>6. CASE i \notin s.orphans
    <3>1. NsStep(s, NoCall)
      BY <2>4, <2>6
    <3>2. CallOK(t, NoCall)
      BY DEF CallOK
    <3>. QED
      BY <2>5, <3>1, <3>2, StepKeeps
  <2>7. CASE i \in s.orphans
    <3>1. NsStep(s, c2)
      BY <2>4, <2>7
    <3>2. At(t, t.kind, t.nlink, t.up, t.dent, t.orphans, t.ino_num, t.fsck, NoErr)
          /\ Listed(t.kind, t.nlink, t.orphans, t.ino_num, t.fsck)
      BY <2>5, Zenon DEF Sound, Fits
    <3>3. t.kind = s.kind /\ t.nlink = s.nlink /\ t.dent = s.dent /\ t.orphans = s.orphans
      OBVIOUS
    <3>. HIDE DEF t
    <3>4. t.kind[i] = "file"
      <4>1. i \in Unlinked(t.kind, t.nlink)
        BY <2>7, <3>2, <3>3 DEF Listed
      <4>2. t.kind[i] # "free"
        BY <4>1 DEF Unlinked
      <4>3. s.kind[i] \in {"file", "free"}
        BY <2>5 DEF Renewed
      <4>. QED
        BY <3>3, <4>2, <4>3
    <3>5. Renewed(ns, t, i, "file")
      BY <2>5, <3>3 DEF Renewed
    <3>6. CallOK(t, c)
      <4>1. c.op = "rename" => i # c.wh
        BY <1>4, <2>3
      <4>. QED
        BY <1>2, <1>5, <2>1, <3>5, <4>1, CallKept
    <3>7. May(t.kind, t.nlink, t.dent, od, on, nd, nn)
      <4>1. CallRename(t, c)
        BY <1>4, <3>6 DEF CallOK, CallSymlink, NoCall
      <4>. QED
        BY <1>4, <4>1 DEF CallRename
    <3>8. t.kind[t.dent[od][on]] = "file"
      <4>1. t.dent = ns.dent /\ \A j \in InoSet \ {i} : t.kind[j] = ns.kind[j]
        BY <3>5 DEF Renewed
      <4>2. HasName(ns.kind, ns.nlink, ns.up, ns.dent[od][on], od)
        <5>1. Tree(ns.kind, ns.nlink, ns.up, ns.dent) /\ ns.dent[od][on] # 0
          BY <1>2, <1>3 DEF Sound, Fits, May
        <5>. QED
          BY <1>2, <5>1, NamedIs
      <4>3. ns.dent[od][on] \in InoSet \ {i}
        BY <2>1, <4>2 DEF HasName
      <4>4. ns.kind[ns.dent[od][on]] = "file"
        <5>1. ns.kind \in KindType
          BY <1>2 DEF Sound, Fits, Tree, TreeType
        <5>2. ns.kind[ns.dent[od][on]] \in {"free", "file", "dir"}
          BY <4>3, <5>1 DEF KindType, Kinds
        <5>3. ns.kind[ns.dent[od][on]] # "free" /\ ns.kind[ns.dent[od][on]] # "dir"
          BY <1>7, <4>2 DEF HasName
        <5>. QED
          BY <5>2, <5>3
      <4>. QED
        BY <4>1, <4>3, <4>4
    <3>9. CallRename(t, c2)
      BY <2>2, <3>4, <3>7, <3>8 DEF CallRename
    <3>10. CallOK(t, c2)
      BY <3>9 DEF CallOK
    <3>. QED
      BY <2>5, <3>1, <3>10, StepKeeps DEF t
  <2>. QED
    BY <2>6, <2>7
<1>. QED
  BY <1>1, <1>6, <1>7

(* f2fs_rename under the lock.                                             *)
LEMMA FinishRenameKeeps ==
    ASSUME NsInv, FinishRename
    PROVE  NsInv'
<1>1. PICK ok \in BOOLEAN, wok \in BOOLEAN, found \in BOOLEAN :
        /\ call.od # call.nd => found
        /\ NsStep(IF ok THEN f2fs_rename(ns, call.od, call.on, call.nd, call.nn, call.wh, found, wok)
                  ELSE ns, NoCall)
  BY DEF FinishRename
<1>2. CallRename(ns, call) /\ Sound(ns)
  <2>1. call # NoCall
    BY DEF FinishRename, NoCall
  <2>. QED
    BY <2>1, SoundNow DEF NsInv, CallOK, FinishRename, CallSymlink
<1>. DEFINE t == IF ok THEN f2fs_rename(ns, call.od, call.on, call.nd, call.nn, call.wh, found, wok)
                 ELSE ns
<1>3. Valid([t EXCEPT !.err = NoErr])
  <2>1. CASE ok
    <3>1. t = f2fs_rename(ns, call.od, call.on, call.nd, call.nn, call.wh, found, wok)
      BY <2>1
    <3>2. /\ call.wh \in InoSet \cup {0}
          /\ May(ns.kind, ns.nlink, ns.dent, call.od, call.on, call.nd, call.nn)
          /\ call.wh # 0 => ns.kind[call.wh] = "file" /\ ns.kind[ns.dent[call.od][call.on]] = "file"
      BY <1>2 DEF CallRename
    <3>. HIDE DEF t
    <3>3. CASE found \/ ns.dent[call.nd][call.nn] # 0
      BY <1>2, <3>1, <3>2, <3>3, RenameSound DEF Valid
    <3>4. CASE ~found /\ ns.dent[call.nd][call.nn] = 0
      <4>1. call.od = call.nd /\ found = FALSE
        BY <1>1, <3>4
      <4>2. t = f2fs_rename(ns, call.od, call.on, call.od, call.nn, call.wh, FALSE, wok)
        BY <3>1, <4>1
      <4>. QED
        BY <1>2, <3>2, <3>4, <4>1, <4>2, TwinMade DEF Valid
    <3>. QED
      BY <3>3, <3>4
  <2>2. CASE ~ok
    <3>1. t = ns
      BY <2>2
    <3>. HIDE DEF t
    <3>. QED
      BY <1>2, <3>1, SettledSame DEF Valid
  <2>. QED
    BY <2>1, <2>2
<1>4. NsStep(t, NoCall)
  BY <1>1
<1>. HIDE DEF t
<1>5. ns' = [t EXCEPT !.err = NoErr] /\ call' = NoCall /\ image' = image
  BY <1>4, Zenon DEF NsStep, NoErr
<1>6. Valid(ns') /\ Valid(image') /\ call' = NoCall
  BY <1>3, <1>5 DEF NsInv
<1>. QED
  BY <1>6 DEF NsInv, Valid, CallOK

(* RENAME_EXCHANGE.                                                        *)
LEMMA ExchangeKeeps ==
    ASSUME NsInv, ExchangeNames
    PROVE  NsInv'
<1>1. PICK od \in Directories, nd \in Directories, on \in FileNames, nn \in FileNames :
        LET i == ns.dent[od][on]
            j == ns.dent[nd][nn]
        IN /\ call = NoCall /\ CallCounted
           /\ i # 0 /\ j # 0 /\ i # j /\ i \notin Above(ns, nd) /\ j \notin Above(ns, od)
           /\ NsStep(f2fs_cross_rename(ns, od, on, nd, nn), NoCall)
  BY Zenon DEF ExchangeNames
<1>. DEFINE i == ns.dent[od][on]  j == ns.dent[nd][nn]  t == f2fs_cross_rename(ns, od, on, nd, nn)
<1>2. /\ od \in InoSet /\ nd \in InoSet /\ ns.kind[nd] = "dir" /\ ns.nlink[nd] > 0 /\ Sound(ns)
  BY <1>1, DirectoryIs, SoundNow DEF CallCounted
<1>3. i # 0 /\ j # 0 /\ i # j /\ i # nd /\ j # od
  BY <1>1, <1>2, AboveSelf
<1>4. i = ns.dent[od][on] /\ j = ns.dent[nd][nn] /\ t = f2fs_cross_rename(ns, od, on, nd, nn)
  OBVIOUS
<1>5. NsStep(t, NoCall)
  BY <1>1
<1>. HIDE DEF i, j, t
<1>6. Sound([t EXCEPT !.err = NoErr])
  BY <1>2, <1>3, <1>4, CrossSound
<1>7. CallOK([t EXCEPT !.err = NoErr], NoCall)
  BY DEF CallOK
<1>. QED
  BY <1>5, <1>6, <1>7, StepKeeps

(* The eviction of an inode.                                               *)
LEMMA EvictKeeps ==
    ASSUME NsInv, f2fs_evict_inode
    PROVE  NsInv'
<1>1. PICK i \in InoSet, ok \in BOOLEAN :
        /\ ns.kind[i] # "free" /\ ns.nlink[i] = 0
        /\ call.op = "rename" => i # call.wh
        /\ ns' = IF ok THEN [remove_orphan_inode(ns, i) EXCEPT !.kind[i] = "free"] ELSE ns
        /\ UNCHANGED <<image, call>>
  BY DEF f2fs_evict_inode
<1>4. CASE ok /\ Twinned(ns)
  <2>. DEFINE t == [remove_orphan_inode(ns, i) EXCEPT !.kind[i] = "free"]
  <2>1. ns' = t /\ image' = image /\ call' = NoCall /\ Valid(image)
    BY <1>1, <1>4 DEF NsInv
  <2>2. Twinned(t)
    BY <1>1, <1>4, TwinEvict
  <2>. HIDE DEF t
  <2>. QED
    BY <2>1, <2>2 DEF NsInv, Valid, CallOK
<1>2. CASE ok /\ Sound(ns)
  <2>. DEFINE t == [remove_orphan_inode(ns, i) EXCEPT !.kind[i] = "free"]
  <2>1. ns' = t /\ image' = image /\ call' = call /\ Sound(ns) /\ CallOK(ns, call) /\ Valid(image)
    BY <1>1, <1>2 DEF NsInv
  <2>2. Sound(t) /\ Renewed(ns, t, i, "free")
    BY <1>1, <2>1, EvictSound
  <2>. HIDE DEF t
  <2>3. CallOK(t, call)
    BY <1>1, <2>1, <2>2, CallKept
  <2>4. ~Twinned(t)
    BY <2>2, TwinIs
  <2>. QED
    BY <2>1, <2>2, <2>3, <2>4 DEF NsInv, Valid
<1>3. CASE ~ok
  <2>1. ns' = ns /\ image' = image /\ call' = call
    BY <1>1, <1>3
  <2>. QED
    BY <2>1 DEF NsInv
<1>. QED
  BY <1>2, <1>3, <1>4 DEF NsInv, Valid

(* The mount after a crash.                                                *)
LEMMA RecoverKeeps ==
    ASSUME NsInv, recover_orphan_inodes
    PROVE  NsInv'
<1>. DEFINE t == [image EXCEPT !.kind = [i \in InoSet |-> IF i \in image.orphans THEN "free" ELSE @[i]],
                               !.nlink = [i \in InoSet |-> IF i \in image.orphans THEN 0 ELSE @[i]],
                               !.orphans = {}, !.ino_num = 0]
<1>1. ns' = t /\ call' = NoCall /\ image' = image
  BY DEF recover_orphan_inodes
<1>2. Valid(t)
  <2>1. CASE Sound(image)
    BY <2>1, RecoverSound DEF Valid
  <2>2. CASE Twinned(image)
    BY <2>2, TwinRecover DEF Valid
  <2>. QED
    BY <2>1, <2>2 DEF NsInv, Valid
<1>. HIDE DEF t
<1>3. Valid(ns') /\ Valid(image') /\ call' = NoCall
  BY <1>1, <1>2 DEF NsInv
<1>. QED
  BY <1>3 DEF NsInv, Valid, CallOK

(* Every step keeps the invariant.                                         *)
LEMMA NsInvStep ==
    ASSUME NsInv, [NsNext]_nsVars, "dir" \notin WhiteoutKinds
    PROVE  NsInv'
<1>1. CASE OpenFile \/ CloseFile
  <2>1. ns' = ns /\ image' = image /\ call' = call
    BY <1>1 DEF OpenFile, CloseFile
  <2>. QED
    BY <2>1 DEF NsInv
<1>2. CASE WriteCheckpoint
  <2>1. ns' = ns /\ image' = ns /\ call' = call
    BY <1>2 DEF WriteCheckpoint
  <2>. QED
    BY <2>1 DEF NsInv
<1>3. CASE UNCHANGED nsVars
  <2>1. ns' = ns /\ image' = image /\ call' = call
    BY <1>3 DEF nsVars
  <2>. QED
    BY <2>1 DEF NsInv
<1>. QED
  BY <1>1, <1>2, <1>3, MakeInodeKeeps, SymlinkKeeps, SymlinkWrittenKeeps, LinkInodeKeeps,
     UnlinkNameKeeps, TmpfileKeeps, StartRenameKeeps, FinishRenameKeeps, ExchangeKeeps,
     EvictKeeps, RecoverKeeps DEF NsNext

----------------------------------------------------------------------------
(* The theorems                                                            *)

(* NsInv holds in every reachable state, for every set of inodes and names *)
(* and every limit of the orphan list, as long as RENAME_WHITEOUT moves no *)
(* directory: through failed links and renames, evictions, checkpoints and *)
(* crashes at any point of an operation.                                   *)
THEOREM NamesInductive ==
    ASSUME "dir" \notin WhiteoutKinds
    PROVE  NsSpec => []NsInv
<1>1. NsInit => NsInv
  BY EmptySound DEF NsInit, NsInv, Valid, CallOK
<1>2. NsInv /\ [NsNext]_nsVars => NsInv'
  BY NsInvStep
<1>. QED
  BY <1>1, <1>2, PTL DEF NsSpec

(* Link counts are exact after every step: f2fs_add_link, f2fs_unlink,     *)
(* f2fs_rename, f2fs_cross_rename, handle_failed_inode and the orphan      *)
(* recovery leave a file as many links as it has names, a directory its    *)
(* one name, two links and one for each directory in it, and ".." with the *)
(* parent; only the inode of a rename that did not find the old entry      *)
(* again has a name too many, and exactly one.                             *)
THEOREM LinksAreExact ==
    ASSUME "dir" \notin WhiteoutKinds
    PROVE  NsSpec => []LinksExact
<1>1. NsInv => LinksExact
  <2>. SUFFICES ASSUME NsInv PROVE LinksExact
    OBVIOUS
  <2>. DEFINE k == ns.kind  e == ns.dent
  <2>1. \A i \in InoSet : LinksBut(ns.kind, ns.nlink, ns.up, ns.dent, ns.twin, i)
    BY SoundLinks, TwinLinks DEF NsInv, Valid
  <2>2. \A i : NamedAt(ns, i) = Named(e, i)
    BY Zenon DEF NamedAt, Named
  <2>3. \A d : Subdirs(ns, d) = Subs(k, e, d)
    BY DEF Subdirs, Subs, Kind
  <2>4. ASSUME NEW i \in InoSet
        PROVE  /\ NamedAt(ns, i) # {} => ns.kind[i] # "free" /\ ns.nlink[i] > 0
               /\ ns.kind[i] = "file" =>
                    ns.nlink[i] + (IF i = ns.twin THEN 1 ELSE 0) = Cardinality(NamedAt(ns, i))
               /\ ns.kind[i] = "dir" /\ ns.nlink[i] > 0 =>
                    /\ ns.nlink[i] = 2 + Cardinality(Subdirs(ns, i))
                    /\ i # RootIno => \E n, m \in FileNames :
                         /\ NamedAt(ns, i) = {<<ns.up[i], n>>, <<ns.up[i], m>>}
                         /\ n # m <=> i = ns.twin
               /\ ns.kind[i] # "dir" \/ ns.nlink[i] = 0 => f2fs_empty_directory(ns, i)
    <3>1. NamedAt(ns, i) = Named(ns.dent, i) /\ Subdirs(ns, i) = Subs(ns.kind, ns.dent, i)
      BY <2>2, <2>3
    <3>2. f2fs_empty_directory(ns, i) <=> \A n \in FileNames : ns.dent[i][n] = 0
      BY DEF f2fs_empty_directory
    <3>3. LinksBut(ns.kind, ns.nlink, ns.up, ns.dent, ns.twin, i)
      BY <2>1
    <3>. QED
      BY <3>1, <3>2, <3>3 DEF LinksBut
  <2>. QED
    BY <2>4, Zenon DEF LinksExact
<1>. QED
  BY <1>1, NamesInductive, PTL

(* The orphan list holds exactly the inodes without a link, in memory and  *)
(* in the checkpoint, and its count is the number of them: no reservation  *)
(* of acquire_orphan_inode leaks on any error path, and the mount after a  *)
(* crash frees what nobody can reach and nothing else.                     *)
THEOREM OrphansAreExact ==
    ASSUME "dir" \notin WhiteoutKinds
    PROVE  NsSpec => []OrphansExact
<1>1. ASSUME NEW s, Valid(s)
      PROVE  LET nolink == {i \in InoSet : s.kind[i] # "free" /\ s.nlink[i] = 0}
             IN /\ s.orphans \subseteq nolink
                /\ nolink = s.orphans \/ s.fsck
                /\ s.ino_num = Cardinality(s.orphans)
  <2>1. Listed(s.kind, s.nlink, s.orphans, s.ino_num, s.fsck)
    BY <1>1, ValidListed
  <2>. QED
    BY <2>1 DEF Listed, Unlinked
<1>2. NsInv => OrphansExact
  BY <1>1 DEF NsInv, OrphansExact
<1>. QED
  BY <1>2, NamesInductive, PTL

----------------------------------------------------------------------------
(* The entries of a directory: levels and buckets                          *)

(* A nonempty set of numbers has a least one, which Min picks.             *)
LEMMA MinIs ==
    ASSUME NEW S \in SUBSET Nat, S # {}
    PROVE  Min(S) \in S /\ \A y \in S : Min(S) <= y
<1>. DEFINE R == {ss \in Nat \X Nat : ss[1] < ss[2]}
<1>1. IsWellFoundedOn(R, Nat)
  BY NatLessThanWellFounded, Zenon DEF OpToRel
<1>. HIDE DEF R
<1>2. PICK x \in S : \A y \in S : ~(<<y, x>> \in R)
  BY <1>1, WFMin, Zenon
<1>3. \A y \in S : x <= y
  <2>. TAKE y \in S
  <2>1. y < x => <<y, x>> \in R
    BY DEF R
  <2>. QED
    BY <1>2, <2>1
<1>. QED
  BY <1>3 DEF Min

(* A set of numbers with 0 and with every successor has all of them.       *)
LEMMA NumberInduction ==
    ASSUME NEW S, 0 \in S, \A n \in Nat : n \in S => n + 1 \in S
    PROVE  Nat \subseteq S
<1>. SUFFICES ASSUME Nat \ S # {} PROVE FALSE
  OBVIOUS
<1>. DEFINE x == Min(Nat \ S)
<1>1. x \in Nat \ S /\ \A y \in Nat \ S : x <= y
  BY MinIs
<1>. HIDE DEF x
<1>2. x # 0 /\ x - 1 \in Nat
  BY <1>1
<1>3. x - 1 \in S
  BY <1>1, <1>2
<1>. QED
  BY <1>1, <1>2, <1>3

(* Every level has buckets, and every bucket blocks; level 0 of an         *)
(* ordinary directory has one bucket.                                      *)
LEMMA Buckets ==
    ASSUME NEW l \in Nat, NEW dl \in DirLevels
    PROVE  /\ dir_buckets(l, dl) \in Nat \ {0} /\ bucket_blocks(l) \in Nat \ {0}
           /\ dl = 0 /\ l = 0 => dir_buckets(l, dl) = 1
<1>. DEFINE H == MAX_DIR_HASH_DEPTH \div 2
<1>1. H \in 1 .. MAX_DIR_HASH_DEPTH /\ H - 1 \in 0 .. MAX_DIR_HASH_DEPTH /\ dl \in Nat
  BY DirectoryAssumption
<1>2. \A k \in 0 .. MAX_DIR_HASH_DEPTH : 2 ^ k \in Nat \ {0}
  <2>1. \A k \in 1 .. MAX_DIR_HASH_DEPTH : 2 ^ k \in Nat \ {0}
    BY DirectoryAssumption
  <2>2. 2 ^ 0 = 1 /\ MAX_DIR_HASH_DEPTH \in Nat
    BY DirectoryAssumption
  <2>. TAKE k \in 0 .. MAX_DIR_HASH_DEPTH
  <2>3. CASE k = 0
    BY <2>2, <2>3
  <2>4. CASE k # 0
    BY <2>1, <2>2, <2>4
  <2>. QED
    BY <2>3, <2>4
<1>3. dir_buckets(l, dl) = IF l + dl < H THEN 2 ^ (l + dl) ELSE 2 ^ (H - 1)
  BY DEF dir_buckets
<1>4. bucket_blocks(l) \in Nat \ {0}
  BY DirectoryAssumption DEF bucket_blocks
<1>. HIDE DEF H
<1>5. CASE l + dl < H
  <2>1. l + dl \in 0 .. MAX_DIR_HASH_DEPTH
    BY <1>1, <1>5, DirectoryAssumption
  <2>2. dl = 0 /\ l = 0 => l + dl = 0
    OBVIOUS
  <2>3. 2 ^ 0 = 1
    BY DirectoryAssumption
  <2>4. dl = 0 /\ l = 0 => 2 ^ (l + dl) = 1
    BY <2>2, <2>3
  <2>. QED
    BY <1>2, <1>3, <1>4, <1>5, <2>1, <2>4
<1>6. CASE ~(l + dl < H)
  <2>1. ~(dl = 0 /\ l = 0)
    BY <1>1, <1>6
  <2>. QED
    BY <1>1, <1>2, <1>3, <1>4, <1>6, <2>1
<1>. QED
  BY <1>5, <1>6

(* The recursive function that adds up the levels.                         *)
NextStarts(r, l) ==
    [dl \in DirLevels |-> IF l = 0 THEN 0 ELSE r[dl] + dir_buckets(l - 1, dl) * bucket_blocks(l - 1)]
IsStarts(n, f) == f = [l \in 0 .. n |-> NextStarts(f[l - 1], l)]

(* It is well defined.                                                     *)
LEMMA StartsExist ==
    ASSUME NEW N \in Nat
    PROVE  \E f : IsStarts(N, f)
<1>. DEFINE T == {n \in Nat : \E f : IsStarts(n, f)}
<1>1. 0 \in T
  <2>. DEFINE f == [p \in 0 .. 0 |-> [dl \in DirLevels |-> 0]]
  <2>1. \A p \in 0 .. 0 : NextStarts(f[p - 1], p) = [dl \in DirLevels |-> 0]
    BY DEF NextStarts
  <2>2. IsStarts(0, f)
    BY <2>1 DEF IsStarts
  <2>. QED
    BY <2>2
<1>2. ASSUME NEW n \in Nat, n \in T PROVE n + 1 \in T
  <2>1. PICK f : IsStarts(n, f)
    BY <1>2
  <2>. DEFINE g == [p \in 0 .. n + 1 |-> IF p = n + 1 THEN NextStarts(f[n], n + 1) ELSE f[p]]
              h == [p \in 0 .. n + 1 |-> NextStarts(g[p - 1], p)]
  <2>2. \A p \in 0 .. n : f[p] = NextStarts(f[p - 1], p)
    BY <2>1 DEF IsStarts
  <2>3. \A r, s : NextStarts(r, 0) = NextStarts(s, 0)
    BY DEF NextStarts
  <2>4. \A p \in 0 .. n + 1 : g[p] = h[p]
    BY <2>2, <2>3
  <2>5. g = h
    BY <2>4
  <2>6. IsStarts(n + 1, g)
    BY <2>5 DEF IsStarts
  <2>. QED
    BY <2>6
<1>. HIDE DEF T
<1>3. Nat \subseteq T
  BY <1>1, <1>2, NumberInduction
<1>. QED
  BY <1>3 DEF T

LevelAt(dl, l) == level_start[l][dl]

(* Where a level starts.                                                   *)
LEMMA StartIs ==
    ASSUME NEW dl \in DirLevels
    PROVE  /\ LevelAt(dl, 0) = 0
           /\ \A l \in 0 .. MAX_DIR_HASH_DEPTH - 1 :
                LevelAt(dl, l + 1) = LevelAt(dl, l) + dir_buckets(l, dl) * bucket_blocks(l)
<1>. DEFINE M == MAX_DIR_HASH_DEPTH
<1>1. M \in Nat
  BY DirectoryAssumption
<1>2. level_start = CHOOSE f : IsStarts(M, f)
  BY Zenon DEF level_start, IsStarts, NextStarts
<1>3. IsStarts(M, level_start)
  BY <1>1, <1>2, StartsExist
<1>4. \A l \in 0 .. M : level_start[l] = NextStarts(level_start[l - 1], l)
  BY <1>3 DEF IsStarts
<1>5. 0 \in 0 .. M /\ \A l \in 0 .. M - 1 : l + 1 \in 0 .. M /\ l + 1 # 0 /\ l + 1 - 1 = l
  BY <1>1
<1>6. level_start[0] = NextStarts(level_start[0 - 1], 0)
  BY <1>4, <1>5
<1>7. \A l \in 0 .. M - 1 : level_start[l + 1] = NextStarts(level_start[l], l + 1)
  BY <1>4, <1>5
<1>8. level_start[0][dl] = 0
  BY <1>6 DEF NextStarts
<1>9. \A l \in 0 .. M - 1 : level_start[l + 1][dl] = level_start[l][dl] + dir_buckets(l, dl) * bucket_blocks(l)
  <2>. TAKE l \in 0 .. M - 1
  <2>. DEFINE r == level_start[l]
              m == l + 1
  <2>1. m # 0 /\ m - 1 = l /\ level_start[m] = NextStarts(r, m)
    BY <1>5, <1>7
  <2>. HIDE DEF r, m
  <2>2. NextStarts(r, m)[dl] = r[dl] + dir_buckets(m - 1, dl) * bucket_blocks(m - 1)
    BY <2>1 DEF NextStarts
  <2>3. level_start[m][dl] = r[dl] + dir_buckets(l, dl) * bucket_blocks(l)
    BY <2>1, <2>2
  <2>. QED
    BY <2>3 DEF r, m
<1>. QED
  BY <1>8, <1>9 DEF LevelAt

(* A product.                                                              *)
LEMMA InProduct ==
    ASSUME NEW x \in Nat, NEW B \in Nat, NEW k \in Nat, x < B
    PROVE  x * k \in Nat /\ B * k \in Nat /\ x * k + k <= B * k
<1>1. PICK y \in Nat : B = x + 1 + y
  <2>1. B - x - 1 \in Nat /\ B = x + 1 + (B - x - 1)
    OBVIOUS
  <2>. QED
    BY <2>1
<1>2. B * k = x * k + k + y * k
  BY <1>1
<1>3. y * k \in Nat /\ x * k \in Nat
  OBVIOUS
<1>. QED
  BY <1>2, <1>3

(* A bucket has blocks, which lie between the level's start and the next   *)
(* level's.                                                                *)
LEMMA BucketIn ==
    ASSUME NEW l \in 0 .. MAX_DIR_HASH_DEPTH, NEW dl \in DirLevels, NEW h \in Nat, LevelAt(dl, l) \in Nat
    PROVE  /\ Bucket(l, dl, h) # {} /\ Bucket(l, dl, h) \subseteq Nat
           /\ \A b \in Bucket(l, dl, h) : LevelAt(dl, l) <= b
           /\ l < MAX_DIR_HASH_DEPTH =>
                /\ LevelAt(dl, l + 1) \in Nat /\ LevelAt(dl, l) <= LevelAt(dl, l + 1)
                /\ \A b \in Bucket(l, dl, h) : b < LevelAt(dl, l + 1)
<1>. DEFINE B == dir_buckets(l, dl)  k == bucket_blocks(l)  s == LevelAt(dl, l)
            x == h % B
            i == s + x * k
<1>0. MAX_DIR_HASH_DEPTH \in Nat
  BY DirectoryAssumption
<1>1. B \in Nat \ {0} /\ k \in Nat \ {0}
  BY Buckets
<1>2. l < MAX_DIR_HASH_DEPTH => LevelAt(dl, l + 1) = s + B * k
  BY <1>0, StartIs
<1>3. Bucket(l, dl, h) = i .. i + k - 1
  BY DEF Bucket, dir_block_index, LevelAt
<1>4. s \in Nat
  OBVIOUS
<1>. HIDE DEF B, k, s
<1>5. x \in Nat /\ x < B
  BY <1>1
<1>. HIDE DEF x
<1>6. x * k \in Nat /\ B * k \in Nat /\ x * k + k <= B * k
  BY <1>1, <1>5, InProduct
<1>7. \A b \in i .. i + k - 1 : s <= b /\ b < s + B * k
  BY <1>1, <1>4, <1>6
<1>8. i \in i .. i + k - 1 /\ i .. i + k - 1 \subseteq Nat
  BY <1>1, <1>4, <1>6
<1>. QED
  BY <1>2, <1>3, <1>4, <1>6, <1>7, <1>8 DEF s

(* Levels start at numbers that grow.                                      *)
LEMMA Starts ==
    ASSUME NEW dl \in DirLevels
    PROVE  /\ \A l \in 0 .. MAX_DIR_HASH_DEPTH : LevelAt(dl, l) \in Nat
           /\ \A k \in 0 .. MAX_DIR_HASH_DEPTH : \A l \in Nat : l < k => LevelAt(dl, l + 1) <= LevelAt(dl, k)
<1>. DEFINE M == MAX_DIR_HASH_DEPTH
            S(l) == LevelAt(dl, l)
            T == {l \in Nat : l <= M => S(l) \in Nat}
            U == {k \in Nat : k <= M => \A l \in Nat : l < k => S(l + 1) <= S(k)}
<1>0. M \in Nat
  BY DirectoryAssumption
<1>1. 0 \in T
  BY StartIs
<1>2. ASSUME NEW n \in Nat, n \in T PROVE n + 1 \in T
  <2>1. 0 \in Nat
    OBVIOUS
  <2>. QED
    BY <1>0, <1>2, <2>1, BucketIn
<1>. HIDE DEF T
<1>3. Nat \subseteq T
  BY <1>1, <1>2, NumberInduction
<1>4. \A l \in Nat : l <= M => S(l) \in Nat
  BY <1>3 DEF T
<1>5. \A l \in Nat : l < M => S(l) <= S(l + 1)
  <2>. TAKE l \in Nat
  <2>1. 0 \in Nat
    OBVIOUS
  <2>. QED
    BY <1>0, <1>4, <2>1, BucketIn
<1>. HIDE DEF S, M
<1>6. 0 \in U
  OBVIOUS
<1>7. ASSUME NEW n \in Nat, n \in U PROVE n + 1 \in U
  <2>. SUFFICES ASSUME n + 1 <= M, NEW l \in Nat, l < n + 1 PROVE S(l + 1) <= S(n + 1)
    OBVIOUS
  <2>1. CASE l = n
    BY <1>0, <1>4, <2>1
  <2>2. CASE l < n
    <3>1. S(l + 1) <= S(n) /\ S(n) <= S(n + 1)
      BY <1>0, <1>5, <1>7, <2>2
    <3>2. S(l + 1) \in Nat /\ S(n) \in Nat /\ S(n + 1) \in Nat
      BY <1>0, <1>4, <2>2
    <3>. QED
      BY <3>1, <3>2
  <2>. QED
    BY <2>1, <2>2
<1>. HIDE DEF U
<1>8. Nat \subseteq U
  BY <1>6, <1>7, NumberInduction
<1>. QED
  BY <1>0, <1>4, <1>8 DEF U, S, M

(* No block of a lower level is in a bucket of a higher one.               *)
LEMMA LevelsApart ==
    ASSUME NEW dl \in DirLevels, NEW l \in Nat, NEW k \in 0 .. MAX_DIR_HASH_DEPTH, NEW h \in Nat, NEW g \in Nat,
           l < k
    PROVE  /\ Bucket(k, dl, h) # {} /\ Bucket(k, dl, h) \subseteq Nat
           /\ Bucket(l, dl, g) \cap Bucket(k, dl, h) = {}
<1>0. MAX_DIR_HASH_DEPTH \in Nat /\ l \in 0 .. MAX_DIR_HASH_DEPTH /\ l + 1 \in 0 .. MAX_DIR_HASH_DEPTH
      /\ l < MAX_DIR_HASH_DEPTH
  BY DirectoryAssumption
<1>1. LevelAt(dl, l) \in Nat /\ LevelAt(dl, k) \in Nat /\ LevelAt(dl, l + 1) \in Nat
  BY <1>0, Starts
<1>2. LevelAt(dl, l + 1) <= LevelAt(dl, k)
  BY Starts
<1>3. Bucket(k, dl, h) # {} /\ Bucket(k, dl, h) \subseteq Nat /\ \A b \in Bucket(k, dl, h) : LevelAt(dl, k) <= b
  BY <1>1, BucketIn
<1>4. Bucket(l, dl, g) \subseteq Nat /\ \A b \in Bucket(l, dl, g) : b < LevelAt(dl, l + 1)
  BY <1>0, <1>1, BucketIn
<1>. QED
  BY <1>1, <1>2, <1>3, <1>4

(* Block 0 is the first of bucket 0 on level 0.                            *)
LEMMA FirstBlock ==
    ASSUME NEW dl \in DirLevels, NEW h \in Nat, h = 0 \/ dl = 0
    PROVE  0 \in Bucket(0, dl, h) /\ Bucket(0, dl, h) \subseteq Nat
<1>. DEFINE B == dir_buckets(0, dl)  k == bucket_blocks(0)
            i == LevelAt(dl, 0) + (h % B) * k
<1>1. B \in Nat \ {0} /\ k \in Nat \ {0} /\ (dl = 0 => B = 1)
  BY Buckets
<1>2. LevelAt(dl, 0) = 0
  BY StartIs
<1>3. Bucket(0, dl, h) = i .. i + k - 1
  BY DEF Bucket, dir_block_index, LevelAt
<1>4. h % B = 0
  <2>. HIDE DEF B
  <2>1. CASE h = 0
    BY <1>1, <2>1
  <2>2. CASE dl = 0
    BY <1>1, <2>2
  <2>. QED
    BY <2>1, <2>2
<1>5. i = 0
  BY <1>1, <1>2, <1>4
<1>. HIDE DEF i, k
<1>. QED
  BY <1>1, <1>3, <1>5

----------------------------------------------------------------------------
(* The entries of a directory: a map from names to inodes                  *)

AnyName == Names \cup Dots
IsEntry(e) == e = Dentry(e.name, e.ino, e.pos) /\ e.name \in AnyName /\ e.pos \in Nat

(* Entries with their blocks.  No name is there twice, no slot is taken    *)
(* twice.                                                                  *)
Distinct(X) ==
    /\ \A x \in X : x = <<x[1], x[2]>> /\ x[1] \in Nat /\ IsEntry(x[2])
    /\ \A x \in X, y \in X : x[2].name = y[2].name => x = y
    /\ \A x \in X, y \in X : x[1] = y[1] /\ x[2].pos = y[2].pos => x = y

(* The dots are in the first two slots of the first block.                 *)
Dotted(X) ==
    /\ \E i : <<0, Dentry(".", i, 0)>> \in X
    /\ \E i : <<0, Dentry("..", i, 1)>> \in X

(* The other entries are those of a map.                                   *)
Mapping(X, nm) ==
    /\ nm \in [Names -> Inos \cup {0}]
    /\ \A x \in X : x[2].name \in Names => nm[x[2].name] = x[2].ino /\ x[2].ino # 0
    /\ \A n \in Names : nm[n] # 0 => \E x \in X : x[2].name = n

Listing(X, nm) == Distinct(X) /\ Dotted(X) /\ Mapping(X, nm)

(* Names, hashes and slots.                                                *)
LEMMA NameFacts ==
    /\ \A n \in AnyName : hash(n) \in Nat /\ slots(n) \in 1 .. NR_DENTRY_IN_BLOCK
    /\ hash(".") = 0 /\ hash("..") = 0 /\ slots(".") = 1 /\ slots("..") = 1
    /\ Names \cap Dots = {} /\ NR_DENTRY_IN_BLOCK \in Nat /\ NR_DENTRY_IN_BLOCK >= 2
    /\ NR_INLINE_DENTRY \in Nat /\ NR_INLINE_DENTRY >= 2
<1>1. /\ NR_DENTRY_IN_BLOCK \in Nat /\ NR_DENTRY_IN_BLOCK >= 2 /\ Names \cap Dots = {}
      /\ NR_INLINE_DENTRY \in Nat /\ NR_INLINE_DENTRY >= 2
  BY DirectoryAssumption DEF Dots
<1>2. \A n \in Names : NameHash[n] \in Nat /\ NameSlots[n] \in 1 .. NR_DENTRY_IN_BLOCK
  BY DirectoryAssumption
<1>3. \A n \in AnyName : hash(n) \in Nat
  BY <1>2 DEF AnyName, hash
<1>4. \A n \in AnyName : slots(n) \in 1 .. NR_DENTRY_IN_BLOCK
  BY <1>1, <1>2 DEF AnyName, slots
<1>5. hash(".") = 0 /\ hash("..") = 0 /\ slots(".") = 1 /\ slots("..") = 1
  BY DEF hash, slots, Dots
<1>. QED
  BY <1>1, <1>3, <1>4, <1>5

(* A record of three fields.                                               *)
LEMMA DentryIs ==
    ASSUME NEW n, NEW i, NEW p
    PROVE  /\ Dentry(n, i, p).name = n /\ Dentry(n, i, p).ino = i /\ Dentry(n, i, p).pos = p
           /\ n \in AnyName /\ p \in Nat => IsEntry(Dentry(n, i, p))
BY DEF Dentry, IsEntry

(* The errors of the calls.                                                *)
LEMMA AreErrors == "ENOSPC" # NoErr /\ "EIO" # NoErr /\ "EEXIST" # NoErr
BY Zenon DEF NoErr

(* A new name in a free slot.                                              *)
LEMMA DistinctMore ==
    ASSUME NEW X, Distinct(X), NEW n \in AnyName, NEW i, NEW b \in Nat, NEW p \in Nat,
           \A x \in X : x[2].name # n, \A x \in X : x[1] = b => x[2].pos # p
    PROVE  Distinct(X \cup {<<b, Dentry(n, i, p)>>})
<1>. DEFINE e == Dentry(n, i, p)  z == <<b, e>>
<1>1. e.name = n /\ e.ino = i /\ e.pos = p /\ IsEntry(e)
  BY DentryIs
<1>2. z = <<z[1], z[2]>> /\ z[1] = b /\ z[2] = e
  OBVIOUS
<1>. HIDE DEF e, z
<1>3. \A x \in X : x[2].name # z[2].name /\ ~(x[1] = z[1] /\ x[2].pos = z[2].pos)
  BY <1>1, <1>2
<1>4. Distinct(X \cup {z})
  BY <1>1, <1>2, <1>3 DEF Distinct
<1>. QED
  BY <1>4 DEF z, e

(* A name is added.                                                        *)
LEMMA ListingMore ==
    ASSUME NEW X, NEW nm, Listing(X, nm), NEW n \in Names, nm[n] = 0, NEW i \in Inos, NEW b \in Nat,
           NEW p \in Nat, \A x \in X : x[1] = b => x[2].pos # p
    PROVE  Listing(X \cup {<<b, Dentry(n, i, p)>>}, [nm EXCEPT ![n] = i])
<1>. DEFINE e == Dentry(n, i, p)  z == <<b, e>>  Y == X \cup {z}  om == [nm EXCEPT ![n] = i]
<1>1. Distinct(X) /\ Dotted(X) /\ Mapping(X, nm)
  BY DEF Listing
<1>2. n \in AnyName /\ i # 0 /\ \A x \in X : x[2].name # n
  BY <1>1, DirectoryAssumption DEF Mapping, AnyName
<1>3. Distinct(Y)
  BY <1>1, <1>2, DistinctMore
<1>4. Dotted(Y)
  BY <1>1 DEF Dotted
<1>5. Mapping(Y, om)
  <2>1. z[2].name = n /\ z[2].ino = i
    BY DentryIs
  <2>2. om \in [Names -> Inos \cup {0}] /\ om[n] = i /\ \A m \in Names : m # n => om[m] = nm[m]
    BY <1>1 DEF Mapping
  <2>. HIDE DEF z, om
  <2>3. \A x \in Y : x[2].name \in Names => om[x[2].name] = x[2].ino /\ x[2].ino # 0
    <3>. TAKE x \in Y
    <3>1. CASE x = z
      BY <1>2, <2>1, <2>2, <3>1
    <3>2. CASE x \in X
      BY <1>1, <1>2, <2>2, <3>2 DEF Mapping
    <3>. QED
      BY <3>1, <3>2
  <2>4. \A m \in Names : om[m] # 0 => \E x \in Y : x[2].name = m
    <3>. TAKE m \in Names
    <3>1. CASE m = n
      BY <2>1, <3>1
    <3>2. CASE m # n
      BY <1>1, <2>2, <3>2 DEF Mapping
    <3>. QED
      BY <3>1, <3>2
  <2>. QED
    BY <2>2, <2>3, <2>4 DEF Mapping
<1>. QED
  BY <1>3, <1>4, <1>5 DEF Listing

(* A name is removed.                                                      *)
LEMMA ListingLess ==
    ASSUME NEW X, NEW nm, Listing(X, nm), NEW n \in Names, NEW z \in X, z[2].name = n
    PROVE  Listing(X \ {z}, [nm EXCEPT ![n] = 0])
<1>. DEFINE Y == X \ {z}  om == [nm EXCEPT ![n] = 0]
<1>1. Distinct(X) /\ Dotted(X) /\ Mapping(X, nm)
  BY DEF Listing
<1>2. Distinct(Y)
  BY <1>1 DEF Distinct
<1>3. Dotted(Y)
  <2>1. n # "." /\ n # ".."
    BY NameFacts DEF Dots
  <2>2. \A i : <<0, Dentry(".", i, 0)>> # z /\ <<0, Dentry("..", i, 1)>> # z
    BY <2>1, DentryIs
  <2>. QED
    BY <1>1, <2>2 DEF Dotted
<1>4. Mapping(Y, om)
  <2>1. om \in [Names -> Inos \cup {0}] /\ om[n] = 0 /\ \A m \in Names : m # n => om[m] = nm[m]
    BY <1>1 DEF Mapping
  <2>. HIDE DEF om
  <2>2. \A x \in Y : x[2].name # n
    BY <1>1 DEF Distinct
  <2>3. \A m \in Names : om[m] # 0 => \E x \in Y : x[2].name = m
    <3>. TAKE m \in Names
    <3>. HAVE om[m] # 0
    <3>1. m # n /\ nm[m] # 0
      BY <2>1
    <3>2. PICK x \in X : x[2].name = m
      BY <1>1, <3>1 DEF Mapping
    <3>. QED
      BY <3>1, <3>2
  <2>4. \A x \in Y : x[2].name \in Names => om[x[2].name] = x[2].ino /\ x[2].ino # 0
    BY <1>1, <2>1, <2>2 DEF Mapping
  <2>. QED
    BY <2>1, <2>3, <2>4 DEF Mapping
<1>. QED
  BY <1>2, <1>3, <1>4 DEF Listing

(* A name gets another inode.                                              *)
LEMMA ListingOther ==
    ASSUME NEW X, NEW nm, Listing(X, nm), NEW n \in Names, NEW z \in X, z[2].name = n, NEW i \in Inos
    PROVE  Listing((X \ {z}) \cup {<<z[1], [z[2] EXCEPT !.ino = i]>>}, [nm EXCEPT ![n] = i])
<1>. DEFINE Y == X \ {z}  om == [nm EXCEPT ![n] = 0]  b == z[1]  p == z[2].pos
<1>1. Listing(Y, om) /\ Distinct(X)
  BY ListingLess DEF Listing
<1>2. b \in Nat /\ p \in Nat /\ z[2] = Dentry(n, z[2].ino, p)
  BY <1>1 DEF Distinct, IsEntry
<1>3. [z[2] EXCEPT !.ino = i] = Dentry(n, i, p)
  <2>. HIDE DEF p
  <2>1. [z[2] EXCEPT !.ino = i] = [Dentry(n, z[2].ino, p) EXCEPT !.ino = i]
    BY <1>2
  <2>2. [Dentry(n, z[2].ino, p) EXCEPT !.ino = i] = Dentry(n, i, p)
    BY DEF Dentry
  <2>. QED
    BY <2>1, <2>2
<1>4. \A x \in Y : x[1] = b => x[2].pos # p
  BY <1>1 DEF Distinct
<1>5. om[n] = 0 /\ [om EXCEPT ![n] = i] = [nm EXCEPT ![n] = i]
  <2>1. nm \in [Names -> Inos \cup {0}]
    BY DEF Listing, Mapping
  <2>. QED
    BY <2>1
<1>. HIDE DEF Y, om, b, p
<1>6. Listing(Y \cup {<<b, Dentry(n, i, p)>>}, [om EXCEPT ![n] = i])
  BY <1>1, <1>2, <1>4, <1>5, ListingMore
<1>. QED
  BY <1>3, <1>5, <1>6 DEF Y, b

(* The names of a listing, their number, and when there are none.          *)
LEMMA ListingIs ==
    ASSUME NEW X, NEW nm, Listing(X, nm)
    PROVE  LET there == {n \in Names : nm[n] # 0}
           IN /\ {x[2].name : x \in X} = there \cup Dots
              /\ Cardinality(X) = Cardinality(there) + 2
              /\ (\A x \in X : x[1] = 0 /\ x[2].pos < 2) <=> there = {}
<1>. DEFINE there == {n \in Names : nm[n] # 0}
            Y == there \cup Dots
            f == [x \in X |-> x[2].name]
<1>1. Distinct(X) /\ Dotted(X) /\ Mapping(X, nm)
  BY DEF Listing
<1>2. PICK x1, x2 : /\ x1 \in X /\ x1[1] = 0 /\ x1[2].pos = 0 /\ x1[2].name = "."
                    /\ x2 \in X /\ x2[1] = 0 /\ x2[2].pos = 1 /\ x2[2].name = ".."
  <2>1. PICK i : <<0, Dentry(".", i, 0)>> \in X
    BY <1>1 DEF Dotted
  <2>2. PICK j : <<0, Dentry("..", j, 1)>> \in X
    BY <1>1 DEF Dotted
  <2>. QED
    BY <2>1, <2>2, DentryIs
<1>3. \A x \in X : x[2].name \in Names \cup Dots /\ x[2].pos \in Nat
  BY <1>1 DEF Distinct, IsEntry, AnyName
<1>4. \A x \in X : x[2].name \in Y
  BY <1>1, <1>3 DEF Mapping
<1>5. \A n \in Y : \E x \in X : x[2].name = n
  BY <1>1, <1>2 DEF Mapping, Dots
<1>6. {x[2].name : x \in X} = Y
  BY <1>4, <1>5
<1>7. IsFiniteSet(there) /\ IsFiniteSet(Y) /\ Cardinality(Y) = Cardinality(there) + 2
  <2>1. IsFiniteSet(there)
    <3>1. IsFiniteSet(Names) /\ there \subseteq Names
      BY DirectoryAssumption
    <3>. QED
      BY <3>1, FS_Subset
  <2>2. "." \notin there /\ ".." \notin there \cup {"."}
    BY NameFacts DEF Dots
  <2>3. IsFiniteSet(there \cup {"."}) /\ Cardinality(there \cup {"."}) = Cardinality(there) + 1
    BY <2>1, <2>2, FS_AddElement
  <2>4. /\ IsFiniteSet((there \cup {"."}) \cup {".."})
        /\ Cardinality((there \cup {"."}) \cup {".."}) = Cardinality(there \cup {"."}) + 1
    BY <2>2, <2>3, FS_AddElement
  <2>5. Y = (there \cup {"."}) \cup {".."}
    BY DEF Dots
  <2>6. Cardinality(there) \in Nat
    BY <2>1, FS_CardinalityType
  <2>. HIDE DEF there, Y
  <2>. QED
    BY <2>1, <2>3, <2>4, <2>5, <2>6
<1>8. Cardinality(X) = Cardinality(Y)
  <2>1. f \in Bijection(X, Y)
    <3>1. f \in [X -> Y]
      BY <1>4
    <3>2. \A x, y \in X : f[x] = f[y] => x = y
      BY <1>1 DEF Distinct
    <3>3. \A n \in Y : \E x \in X : f[x] = n
      BY <1>5
    <3>. HIDE DEF f, Y
    <3>4. f \in Injection(X, Y)
      BY <3>1, <3>2 DEF Injection, IsInjective
    <3>5. f \in Surjection(X, Y)
      BY <3>1, <3>3 DEF Surjection
    <3>. QED
      BY <3>4, <3>5 DEF Bijection
  <2>2. ExistsBijection(X, Y)
    BY <2>1 DEF ExistsBijection
  <2>3. f \in Injection(X, Y)
    BY <2>1 DEF Bijection
  <2>. HIDE DEF Y, f
  <2>4. IsFiniteSet(X)
    BY <1>7, <2>3, FS_Injection
  <2>. QED
    BY <2>2, <2>4, FS_Bijection
<1>9. (\A x \in X : x[1] = 0 /\ x[2].pos < 2) => there = {}
  <2>. SUFFICES ASSUME \A x \in X : x[1] = 0 /\ x[2].pos < 2, NEW n \in there PROVE FALSE
    OBVIOUS
  <2>1. PICK x \in X : x[2].name = n
    BY <1>1 DEF Mapping
  <2>2. x[2].pos = 0 \/ x[2].pos = 1
    BY <1>3, <2>1
  <2>3. x = x1 \/ x = x2
    BY <1>1, <1>2, <2>1, <2>2 DEF Distinct
  <2>. QED
    BY <1>2, <2>1, <2>3, NameFacts DEF Dots
<1>10. there = {} => \A x \in X : x[1] = 0 /\ x[2].pos < 2
  <2>. SUFFICES ASSUME there = {}, NEW x \in X PROVE x[1] = 0 /\ x[2].pos < 2
    OBVIOUS
  <2>1. x[2].name = "." \/ x[2].name = ".."
    BY <1>4 DEF Dots
  <2>2. x = x1 \/ x = x2
    BY <1>1, <1>2, <2>1 DEF Distinct
  <2>. QED
    BY <1>2, <2>2
<1>. QED
  BY <1>6, <1>7, <1>8, <1>9, <1>10

----------------------------------------------------------------------------
(* The entries of a directory: slots and blocks                            *)

(* A slot that is found is free.                                           *)
LEMMA RoomIs ==
    ASSUME NEW ents, \A e \in ents : IsEntry(e), NEW k, NEW max \in Nat,
           room_for_filename(ents, k, max) < max
    PROVE  /\ room_for_filename(ents, k, max) \in Nat
           /\ \A e \in ents : e.pos # room_for_filename(ents, k, max)
<1>. DEFINE free == (0 .. max - 1) \ dentry_bitmap(ents)
            starts == {z \in free : z - 1 \notin free /\ z .. z + k - 1 \subseteq free}
            r == room_for_filename(ents, k, max)
<1>1. r = IF starts = {} THEN max ELSE Min(starts)
  BY DEF room_for_filename
<1>2. starts \subseteq Nat
  OBVIOUS
<1>3. r < max
  OBVIOUS
<1>. HIDE DEF r, starts
<1>4. starts # {} /\ r \in starts
  BY <1>1, <1>2, <1>3, MinIs
<1>5. r \in Nat /\ r \notin dentry_bitmap(ents)
  BY <1>4 DEF starts
<1>6. \A e \in ents : e.pos \in dentry_bitmap(ents)
  <2>. TAKE e \in ents
  <2>1. e.pos \in Nat /\ slots(e.name) \in 1 .. NR_DENTRY_IN_BLOCK
    BY NameFacts DEF IsEntry
  <2>2. e.pos \in e.pos .. e.pos + slots(e.name) - 1
    BY <2>1, NameFacts
  <2>. QED
    BY <2>2 DEF dentry_bitmap
<1>. QED
  BY <1>5, <1>6 DEF r

(* An empty block has room for every name, from its first slot on.         *)
LEMMA RoomEmpty ==
    ASSUME NEW max \in Nat, NEW k \in 1 .. max
    PROVE  room_for_filename({}, k, max) = 0
<1>. DEFINE free == (0 .. max - 1) \ dentry_bitmap({})
            starts == {z \in free : z - 1 \notin free /\ z .. z + k - 1 \subseteq free}
<1>1. free = 0 .. max - 1
  BY DEF dentry_bitmap
<1>. HIDE DEF free
<1>2. starts = {0}
  BY <1>1
<1>. HIDE DEF starts
<1>3. Min(starts) = 0
  BY <1>2, MinIs
<1>. QED
  BY <1>2, <1>3 DEF room_for_filename, starts, free

(* Behind "." the next slot is free.                                       *)
LEMMA RoomBehindDot ==
    ASSUME NEW i
    PROVE  room_for_filename({Dentry(".", i, 0)}, 1, NR_DENTRY_IN_BLOCK) = 1
<1>. DEFINE ents == {Dentry(".", i, 0)}
            max == NR_DENTRY_IN_BLOCK
            free == (0 .. max - 1) \ dentry_bitmap(ents)
            starts == {z \in free : z - 1 \notin free /\ z .. z + 1 - 1 \subseteq free}
<1>0. max \in Nat /\ max >= 2
  BY NameFacts
<1>1. dentry_bitmap(ents) = {0}
  <2>1. Dentry(".", i, 0).pos = 0 /\ Dentry(".", i, 0).name = "."
    BY DentryIs
  <2>2. \A e \in ents : e.pos = 0 /\ slots(e.name) = 1
    BY <2>1, NameFacts
  <2>3. dentry_bitmap(ents) = UNION {e.pos .. e.pos + slots(e.name) - 1 : e \in ents}
    BY DEF dentry_bitmap
  <2>4. \A e \in ents : e.pos .. e.pos + slots(e.name) - 1 = {0}
    BY <2>2
  <2>5. ents # {}
    OBVIOUS
  <2>. HIDE DEF ents
  <2>. QED
    BY <2>3, <2>4, <2>5
<1>. HIDE DEF ents, max
<1>2. free = 1 .. max - 1
  BY <1>0, <1>1
<1>. HIDE DEF free
<1>3. starts = {1}
  BY <1>0, <1>2
<1>. HIDE DEF starts
<1>4. Min(starts) = 1
  BY <1>3, MinIs
<1>. QED
  BY <1>3, <1>4 DEF room_for_filename, starts, free, ents, max

InodeEntries(d) == {<<0, e>> : e \in d.ients}
PairsOf(pg) == UNION {{<<b, e>> : e \in pg[b]} : b \in DOMAIN pg}
PageEntries(d) == PairsOf(d.page)

(* Some level of the directory has the entry in a bucket of its hash.      *)
Placed(level, depth, x) == \E l \in 0 .. depth - 1 : x[1] \in Bucket(l, level, hash(x[2].name))

DirFields == {"inline", "ients", "page", "depth", "level", "size", "chash", "clevel", "task", "err"}

(* Depth, remembered level and size fit the blocks and their entries.      *)
PagesOK(d) ==
    /\ DOMAIN d = DirFields /\ d.level \in DirLevels
    /\ d.depth \in 0 .. MAX_DIR_HASH_DEPTH /\ d.clevel \in 0 .. d.depth /\ d.size \in Nat
    /\ DOMAIN d.page \subseteq 0 .. d.size - 1
    /\ Distinct(PageEntries(d))
    /\ \A x \in PageEntries(d) : Placed(d.level, d.depth, x)

(* The entries in the inode are within its slots.                          *)
InodeOK(d) == /\ d.page = << >> /\ d.clevel = 0
              /\ \A e \in d.ients : e.pos < NR_INLINE_DENTRY

DirOK(d, nm) ==
    /\ PagesOK(d) /\ d.inline \in BOOLEAN
    /\ d.inline => InodeOK(d) /\ Listing(InodeEntries(d), nm)
    /\ ~d.inline => d.size > 0 /\ Listing(PageEntries(d), nm)

(* An entry of a block.                                                    *)
LEMMA InPages ==
    ASSUME NEW d
    PROVE  /\ \A b, e : <<b, e>> \in PageEntries(d) <=> b \in DOMAIN d.page /\ e \in d.page[b]
           /\ \A x \in PageEntries(d) : x = <<x[1], x[2]>> /\ x[1] \in DOMAIN d.page /\ x[2] \in d.page[x[1]]
BY DEF PageEntries, PairsOf

(* An entry of the inode.                                                  *)
LEMMA InInode ==
    ASSUME NEW d
    PROVE  /\ \A b, e : <<b, e>> \in InodeEntries(d) <=> b = 0 /\ e \in d.ients
           /\ \A x \in InodeEntries(d) : x = <<x[1], x[2]>> /\ x[1] = 0 /\ x[2] \in d.ients
BY DEF InodeEntries

(* The same blocks have the same entries.                                  *)
LEMMA SamePages ==
    ASSUME NEW d, NEW f, d.page = f.page
    PROVE  PageEntries(d) = PageEntries(f)
BY DEF PageEntries, PairsOf

(* What a lookup finds on a level.                                         *)
LEMMA LevelHas ==
    ASSUME NEW d, NEW l, NEW n, NEW e
    PROVE  e \in find_in_level(d, l, n).de <=>
             e.name = n /\ \E b \in Bucket(l, d.level, hash(n)) : <<b, e>> \in PageEntries(d)
<1>. DEFINE there == Bucket(l, d.level, hash(n)) \cap DOMAIN d.page
<1>1. find_in_level(d, l, n).de = UNION {find_target_dentry(d.page[b], n) : b \in there}
  BY DEF find_in_level
<1>2. e \in find_in_level(d, l, n).de <=> \E b \in there : e \in d.page[b] /\ e.name = n
  BY <1>1 DEF find_target_dentry
<1>. QED
  BY <1>2, InPages

(* What a lookup finds in the directory, and what it changes.              *)
LookedUp(d, f) ==
    /\ DOMAIN f = DirFields /\ f.inline = d.inline /\ f.ients = d.ients /\ f.page = d.page
    /\ f.depth = d.depth /\ f.level = d.level /\ f.size = d.size /\ f.err = d.err
    /\ f.clevel \in 0 .. d.depth /\ (d.inline => f.clevel = d.clevel)

(* A lookup changes the remembered level at most.                          *)
LEMMA FindKeeps ==
    ASSUME NEW d, NEW nm, DirOK(d, nm), NEW n, NEW t
    PROVE  LookedUp(d, __f2fs_find_entry(d, n, t).d)
<1>. DEFINE levels == IF d.size = 0 THEN {} ELSE 0 .. d.depth - 1
            at == {l \in levels : find_in_level(d, l, n).de # {}}
            room == {l \in levels : find_in_level(d, l, n).room /\ \A x \in at : l < x}
            seen == IF room = {} \/ d.chash = hash(n) THEN d
                    ELSE [d EXCEPT !.chash = hash(n), !.clevel = Min(room)]
            de == IF d.inline THEN find_target_dentry(d.ients, n)
                  ELSE IF at = {} THEN {} ELSE find_in_level(d, Min(at), n).de
            r == IF d.inline THEN d ELSE seen
<1>1. __f2fs_find_entry(d, n, t).d = IF de = {} THEN [r EXCEPT !.task = t] ELSE r
  BY DEF __f2fs_find_entry
<1>. HIDE DEF de
<1>2. d.depth \in Nat /\ d.clevel \in 0 .. d.depth /\ DOMAIN d = DirFields
  BY DirectoryAssumption DEF DirOK, PagesOK
<1>3. room \subseteq 0 .. d.depth - 1
  OBVIOUS
<1>. HIDE DEF room
<1>4. room # {} => Min(room) \in 0 .. d.depth
  <2>1. room \subseteq Nat
    BY <1>2, <1>3
  <2>2. room # {} => Min(room) \in room
    BY <2>1, MinIs
  <2>3. \A x \in 0 .. d.depth - 1 : x \in 0 .. d.depth
    BY <1>2
  <2>. QED
    BY <1>3, <2>2, <2>3
<1>5. LookedUp(d, d)
  BY <1>2 DEF LookedUp
<1>6. ASSUME room # {}, ~d.inline PROVE LookedUp(d, [d EXCEPT !.chash = hash(n), !.clevel = Min(room)])
  BY <1>2, <1>4, <1>6 DEF LookedUp, DirFields
<1>7. LookedUp(d, r)
  BY <1>5, <1>6
<1>. HIDE DEF r
<1>8. LookedUp(d, [r EXCEPT !.task = t])
  BY <1>7 DEF LookedUp, DirFields
<1>. QED
  BY <1>1, <1>7, <1>8

(* It finds the entries with the name, wherever they are.                  *)
LEMMA FindIs ==
    ASSUME NEW d, NEW nm, DirOK(d, nm), NEW n \in AnyName, NEW t, NEW e
    PROVE  e \in __f2fs_find_entry(d, n, t).de <=>
             e.name = n /\ \E b : <<b, e>> \in IF d.inline THEN InodeEntries(d) ELSE PageEntries(d)
<1>. DEFINE levels == IF d.size = 0 THEN {} ELSE 0 .. d.depth - 1
            at == {l \in levels : find_in_level(d, l, n).de # {}}
            de == IF d.inline THEN find_target_dentry(d.ients, n)
                  ELSE IF at = {} THEN {} ELSE find_in_level(d, Min(at), n).de
<1>1. __f2fs_find_entry(d, n, t).de = de
  BY DEF __f2fs_find_entry
<1>2. CASE d.inline
  BY <1>1, <1>2, InInode DEF find_target_dentry
<1>3. CASE ~d.inline
  <2>1. /\ d.size > 0 /\ d.size \in Nat /\ d.depth \in Nat /\ Distinct(PageEntries(d))
        /\ \A x \in PageEntries(d) : Placed(d.level, d.depth, x)
    BY <1>3, DirectoryAssumption DEF DirOK, PagesOK
  <2>2. levels = 0 .. d.depth - 1 /\ at \subseteq Nat
    BY <2>1
  <2>3. ASSUME NEW b, NEW f, <<b, f>> \in PageEntries(d), f.name = n
        PROVE  \E l \in at : f \in find_in_level(d, l, n).de
    <3>. DEFINE x == <<b, f>>
    <3>1. Placed(d.level, d.depth, x)
      BY <2>1, <2>3
    <3>2. PICK l \in 0 .. d.depth - 1 : b \in Bucket(l, d.level, hash(n))
      BY <2>3, <3>1 DEF Placed
    <3>3. f \in find_in_level(d, l, n).de
      BY <2>3, <3>2, LevelHas
    <3>. QED
      BY <2>2, <3>2, <3>3
  <2>. HIDE DEF at, levels
  <2>4. CASE at = {}
    <3>1. e \notin de
      BY <1>3, <2>4
    <3>. HIDE DEF de
    <3>. QED
      BY <1>1, <1>3, <2>3, <2>4, <3>1
  <2>5. CASE at # {}
    <3>. DEFINE m == Min(at)
    <3>1. m \in at /\ de = find_in_level(d, m, n).de
      BY <1>3, <2>2, <2>5, MinIs
    <3>2. PICK f : f \in find_in_level(d, m, n).de
      BY <3>1 DEF at
    <3>. HIDE DEF m, de
    <3>3. PICK c : f.name = n /\ <<c, f>> \in PageEntries(d)
      BY <3>2, LevelHas
    <3>4. ASSUME NEW b, <<b, e>> \in PageEntries(d), e.name = n PROVE e = f
      <4>1. <<b, e>> = <<c, f>>
        BY <2>1, <3>3, <3>4 DEF Distinct
      <4>. QED
        BY <4>1
    <3>5. e \in de => e.name = n /\ \E b : <<b, e>> \in PageEntries(d)
      BY <3>1, LevelHas
    <3>. QED
      BY <1>1, <1>3, <3>1, <3>2, <3>4, <3>5
  <2>. QED
    BY <2>4, <2>5
<1>. QED
  BY <1>2, <1>3

(* So the directory stays as it is.                                        *)
LEMMA LookedUpOK ==
    ASSUME NEW d, NEW nm, DirOK(d, nm), NEW f, LookedUp(d, f)
    PROVE  DirOK(f, nm)
<1>1. PageEntries(f) = PageEntries(d) /\ InodeEntries(f) = InodeEntries(d)
  BY DEF LookedUp, PageEntries, InodeEntries
<1>2. PagesOK(f)
  BY <1>1 DEF DirOK, PagesOK, LookedUp
<1>3. d.inline => InodeOK(f)
  BY DEF DirOK, InodeOK, LookedUp
<1>. QED
  BY <1>1, <1>2, <1>3 DEF DirOK, LookedUp

(* Adding a name: the level, the block and the slot.                       *)
AddLevel(d, n) ==
    Min({l \in (IF d.chash = hash(n) THEN d.clevel ELSE 0) .. d.depth : BlocksFor(d, n, l) # {}})
AddBlock(d, n) == Min(BlocksFor(d, n, AddLevel(d, n)))
AddPos(d, n) == IF AddBlock(d, n) \in DOMAIN d.page THEN RoomIn(d, n, AddBlock(d, n)) ELSE 0

(* The level behind the last one has room in every bucket: no entry is     *)
(* there, though a call that failed may have left its blocks.              *)
LEMMA LastLevelHasRoom ==
    ASSUME NEW d, PagesOK(d), NEW n \in AnyName
    PROVE  BlocksFor(d, n, d.depth) # {}
<1>1. /\ d.depth \in Nat /\ d.level \in DirLevels /\ hash(n) \in Nat
      /\ d.depth \in 0 .. MAX_DIR_HASH_DEPTH
  BY NameFacts, DirectoryAssumption DEF PagesOK
<1>2. LevelAt(d.level, d.depth) \in Nat
  BY <1>1, Starts
<1>3. Bucket(d.depth, d.level, hash(n)) # {}
  BY <1>1, <1>2, BucketIn
<1>4. PICK b : b \in Bucket(d.depth, d.level, hash(n))
  BY <1>3
<1>5. ASSUME b \in DOMAIN d.page PROVE d.page[b] = {}
  <2>. SUFFICES ASSUME NEW e \in d.page[b] PROVE FALSE
    OBVIOUS
  <2>. DEFINE x == <<b, e>>
  <2>1. x \in PageEntries(d)
    BY <1>5, InPages
  <2>2. Placed(d.level, d.depth, x) /\ IsEntry(x[2])
    BY <2>1 DEF PagesOK, Distinct
  <2>3. hash(e.name) \in Nat
    BY <2>2, NameFacts DEF IsEntry
  <2>4. PICK l \in 0 .. d.depth - 1 : b \in Bucket(l, d.level, hash(e.name))
    BY <2>2 DEF Placed
  <2>5. l \in Nat /\ l < d.depth
    BY <1>1
  <2>6. Bucket(l, d.level, hash(e.name)) \cap Bucket(d.depth, d.level, hash(n)) = {}
    BY <1>1, <2>3, <2>5, LevelsApart
  <2>. QED
    BY <1>4, <2>4, <2>6
<1>6. b \in DOMAIN d.page => RoomIn(d, n, b) < NR_DENTRY_IN_BLOCK
  <2>. HAVE b \in DOMAIN d.page
  <2>1. RoomIn(d, n, b) = 0
    BY <1>5, RoomEmpty, NameFacts DEF RoomIn
  <2>. QED
    BY <2>1, NameFacts
<1>. QED
  BY <1>4, <1>6 DEF BlocksFor

(* So there is a place, in a bucket of the name's hash and in a slot that  *)
(* is free.                                                                *)
LEMMA PlaceFound ==
    ASSUME NEW d, PagesOK(d), NEW n \in AnyName
    PROVE  /\ AddLevel(d, n) \in 0 .. d.depth
           /\ AddBlock(d, n) \in Bucket(AddLevel(d, n), d.level, hash(n)) /\ AddBlock(d, n) \in Nat
           /\ AddPos(d, n) \in Nat /\ \A x \in PageEntries(d) : x[1] = AddBlock(d, n) => x[2].pos # AddPos(d, n)
<1>. DEFINE s == IF d.chash = hash(n) THEN d.clevel ELSE 0
            L == {l \in s .. d.depth : BlocksFor(d, n, l) # {}}
            k == AddLevel(d, n)
            b == AddBlock(d, n)
<1>1. /\ s \in 0 .. d.depth /\ d.depth \in Nat /\ d.level \in DirLevels /\ hash(n) \in Nat
      /\ MAX_DIR_HASH_DEPTH \in Nat /\ d.depth <= MAX_DIR_HASH_DEPTH
  BY NameFacts, DirectoryAssumption DEF PagesOK
<1>. HIDE DEF s
<1>2. d.depth \in L /\ L \subseteq Nat
  BY <1>1, LastLevelHasRoom
<1>3. k \in L
  <2>1. k = Min(L)
    BY DEF AddLevel, s
  <2>. QED
    BY <1>2, <2>1, MinIs
<1>4. /\ k \in 0 .. d.depth /\ k \in Nat /\ BlocksFor(d, n, k) # {}
      /\ k \in 0 .. MAX_DIR_HASH_DEPTH
  BY <1>1, <1>3
<1>5. Bucket(k, d.level, hash(n)) \subseteq Nat
  <2>1. LevelAt(d.level, k) \in Nat
    BY <1>1, <1>4, Starts
  <2>. QED
    BY <1>1, <1>4, <2>1, BucketIn
<1>6. b \in BlocksFor(d, n, k)
  <2>1. BlocksFor(d, n, k) \subseteq Nat
    BY <1>5 DEF BlocksFor
  <2>2. b = Min(BlocksFor(d, n, k))
    BY DEF AddBlock
  <2>. QED
    BY <1>4, <2>1, <2>2, MinIs
<1>7. b \in Bucket(k, d.level, hash(n)) /\ b \in Nat
  BY <1>5, <1>6 DEF BlocksFor
<1>8. AddPos(d, n) \in Nat /\ \A x \in PageEntries(d) : x[1] = b => x[2].pos # AddPos(d, n)
  <2>1. CASE b \in DOMAIN d.page
    <3>1. AddPos(d, n) = room_for_filename(d.page[b], slots(n), NR_DENTRY_IN_BLOCK)
      BY <2>1 DEF AddPos, RoomIn
    <3>2. AddPos(d, n) < NR_DENTRY_IN_BLOCK
      BY <1>6, <2>1, <3>1 DEF BlocksFor, RoomIn
    <3>3. \A e \in d.page[b] : IsEntry(e)
      <4>. TAKE e \in d.page[b]
      <4>. DEFINE x == <<b, e>>
      <4>1. x \in PageEntries(d)
        BY <2>1, InPages
      <4>2. IsEntry(x[2])
        BY <4>1 DEF PagesOK, Distinct
      <4>. QED
        BY <4>2
    <3>4. AddPos(d, n) \in Nat /\ \A e \in d.page[b] : e.pos # AddPos(d, n)
      BY <3>1, <3>2, <3>3, RoomIs, NameFacts
    <3>. QED
      BY <3>4, InPages
  <2>2. CASE b \notin DOMAIN d.page
    BY <2>2, InPages DEF AddPos
  <2>. QED
    BY <2>1, <2>2
<1>. QED
  BY <1>4, <1>7, <1>8

(* A directory with other blocks, size, depth and error.                   *)
Alike(d, f, pg, sz, dp, er) ==
    /\ DOMAIN f = DirFields /\ f.inline = d.inline /\ f.ients = d.ients /\ f.level = d.level
    /\ f.clevel = d.clevel /\ f.page = pg /\ f.size = sz /\ f.depth = dp /\ f.err = er

(* The block that is made if it is missing, and the entry in it.           *)
WithBlock(pg, b) == IF b \in DOMAIN pg THEN pg
                    ELSE [x \in DOMAIN pg \cup {b} |-> IF x = b THEN {} ELSE pg[x]]
WithEntry(pg, b, e) == [WithBlock(pg, b) EXCEPT ![b] = @ \cup {e}]

(* A missing block has no entries.                                         *)
LEMMA BlockPairs ==
    ASSUME NEW pg, NEW b
    PROVE  PairsOf(WithBlock(pg, b)) = PairsOf(pg) /\ DOMAIN WithBlock(pg, b) = DOMAIN pg \cup {b}
<1>1. CASE b \in DOMAIN pg
  BY <1>1 DEF WithBlock
<1>2. CASE b \notin DOMAIN pg
  <2>. DEFINE g == [x \in DOMAIN pg \cup {b} |-> IF x = b THEN {} ELSE pg[x]]
  <2>1. g = WithBlock(pg, b) /\ DOMAIN g = DOMAIN pg \cup {b} /\ g[b] = {} /\ \A x \in DOMAIN pg : g[x] = pg[x]
    BY <1>2 DEF WithBlock
  <2>. HIDE DEF g
  <2>2. \A x : x \in PairsOf(g) <=> x \in PairsOf(pg)
    BY <2>1 DEF PairsOf
  <2>. QED
    BY <2>1, <2>2
<1>. QED
  BY <1>1, <1>2

(* The block gets one entry more.                                          *)
LEMMA EntryPairs ==
    ASSUME NEW pg, NEW b, NEW e
    PROVE  /\ PairsOf(WithEntry(pg, b, e)) = PairsOf(pg) \cup {<<b, e>>}
           /\ DOMAIN WithEntry(pg, b, e) = DOMAIN pg \cup {b}
<1>. DEFINE g == WithBlock(pg, b)  h == [g EXCEPT ![b] = @ \cup {e}]
<1>1. PairsOf(g) = PairsOf(pg) /\ DOMAIN g = DOMAIN pg \cup {b}
  BY BlockPairs
<1>. HIDE DEF g
<1>2. DOMAIN h = DOMAIN g /\ h[b] = g[b] \cup {e} /\ \A x \in DOMAIN g : x # b => h[x] = g[x]
  BY <1>1
<1>3. h = WithEntry(pg, b, e)
  BY DEF WithEntry, g
<1>. HIDE DEF h
<1>4. \A x : x \in PairsOf(h) <=> x \in PairsOf(g) \cup {<<b, e>>}
  BY <1>1, <1>2 DEF PairsOf
<1>. QED
  BY <1>1, <1>2, <1>3, <1>4

(* An entry stays in its bucket when levels are added.                     *)
LEMMA PlacedDeeper ==
    ASSUME NEW level, NEW k \in Nat, NEW m \in Nat, k <= m, NEW x, Placed(level, k, x)
    PROVE  Placed(level, m, x)
BY DEF Placed

(* No entry has the name, or the slot.                                     *)
NewName(X, n) == \A x \in X : x[2].name # n
FreeSlot(X, b, p) == \A x \in X : x[1] = b => x[2].pos # p

(* The depth when an entry is put on level l.                              *)
Grown(depth, l) == IF l = depth THEN depth + 1 ELSE depth

(* What a call leaves alone.                                               *)
Untouched(d, f) ==
    /\ PagesOK(f) /\ f.inline = d.inline /\ f.ients = d.ients /\ f.level = d.level
    /\ f.clevel = d.clevel /\ f.size >= d.size

(* It has failed, or the entry is in its place.                            *)
EntryAdded(d, f, n, i) ==
    /\ f.err = NoErr
    /\ PageEntries(f) = PageEntries(d) \cup {<<AddBlock(d, n), Dentry(n, i, AddPos(d, n))>>}
NotAdded(d, f) == f.err # NoErr /\ PageEntries(f) = PageEntries(d)

(* The blocks are in order when no entry has been added.                   *)
LEMMA AlikeOK ==
    ASSUME NEW d, PagesOK(d), NEW f, NEW pg, NEW sz \in Nat, NEW er, sz >= d.size,
           Alike(d, f, pg, sz, d.depth, er), PairsOf(pg) = PageEntries(d), DOMAIN pg \subseteq 0 .. sz - 1
    PROVE  Untouched(d, f) /\ PageEntries(f) = PageEntries(d)
<1>1. PageEntries(f) = PageEntries(d)
  BY DEF Alike, PageEntries
<1>2. PagesOK(f)
  BY <1>1 DEF PagesOK, Alike
<1>. QED
  BY <1>1, <1>2 DEF Untouched, Alike

(* And when one has.                                                       *)
LEMMA AlikeMore ==
    ASSUME NEW d, PagesOK(d), NEW f, NEW sz \in Nat, NEW n \in AnyName, NEW i, NEW l \in 0 .. d.depth,
           NEW b \in Nat, NEW p \in Nat, NEW dp, sz >= d.size, b < sz, dp = Grown(d.depth, l),
           d.depth # MAX_DIR_HASH_DEPTH, Alike(d, f, WithEntry(d.page, b, Dentry(n, i, p)), sz, dp, NoErr),
           b \in Bucket(l, d.level, hash(n)), NewName(PageEntries(d), n), FreeSlot(PageEntries(d), b, p)
    PROVE  Untouched(d, f) /\ PageEntries(f) = PageEntries(d) \cup {<<b, Dentry(n, i, p)>>}
<1>. DEFINE z == <<b, Dentry(n, i, p)>>
<1>1. d.depth \in Nat /\ dp \in 0 .. MAX_DIR_HASH_DEPTH /\ d.depth <= dp /\ l \in 0 .. dp - 1 /\ dp \in Nat
  BY DirectoryAssumption DEF PagesOK, Grown
<1>2. PageEntries(f) = PageEntries(d) \cup {z} /\ DOMAIN f.page = DOMAIN d.page \cup {b}
  <2>. DEFINE w == WithEntry(d.page, b, Dentry(n, i, p))
  <2>1. f.page = w
    BY DEF Alike
  <2>2. PairsOf(w) = PairsOf(d.page) \cup {z} /\ DOMAIN w = DOMAIN d.page \cup {b}
    BY EntryPairs
  <2>. HIDE DEF w, z
  <2>. QED
    BY <2>1, <2>2 DEF PageEntries
<1>3. Distinct(PageEntries(f))
  BY <1>2, DistinctMore DEF PagesOK, NewName, FreeSlot
<1>4. \A x \in PageEntries(f) : Placed(f.level, f.depth, x)
  <2>. TAKE x \in PageEntries(f)
  <2>0. f.level = d.level /\ f.depth = dp
    BY DEF Alike
  <2>1. CASE x \in PageEntries(d)
    <3>1. Placed(d.level, d.depth, x)
      BY <2>1 DEF PagesOK
    <3>. QED
      BY <1>1, <2>0, <3>1, PlacedDeeper
  <2>2. CASE x = z
    <3>1. x[1] = b /\ x[2].name = n
      BY <2>2, DentryIs
    <3>. QED
      BY <1>1, <2>0, <3>1 DEF Placed
  <2>. QED
    BY <1>2, <2>1, <2>2
<1>5. DOMAIN f.page \subseteq 0 .. sz - 1
  <2>1. DOMAIN d.page \subseteq 0 .. d.size - 1 /\ d.size \in Nat
    BY DEF PagesOK
  <2>2. \A x \in 0 .. d.size - 1 : x \in 0 .. sz - 1
    BY <2>1
  <2>3. b \in 0 .. sz - 1
    OBVIOUS
  <2>. QED
    BY <1>2, <2>1, <2>2, <2>3
<1>6. f.clevel \in 0 .. f.depth
  BY <1>1 DEF PagesOK, Alike
<1>7. PagesOK(f)
  BY <1>1, <1>3, <1>4, <1>5, <1>6 DEF PagesOK, Alike
<1>. QED
  BY <1>2, <1>7 DEF Untouched, Alike

(* f2fs_add_regular_entry: the name gets its entry, or the call fails and  *)
(* all entries are as they were.                                           *)
LEMMA AddRegularIs ==
    ASSUME NEW d, PagesOK(d), d.err = NoErr, NEW n \in AnyName, NEW i, NEW new, NEW meta \in BOOLEAN,
           NewName(PageEntries(d), n)
    PROVE  LET f == f2fs_add_regular_entry(d, n, i, new, meta).d
           IN Untouched(d, f) /\ (EntryAdded(d, f, n, i) \/ NotAdded(d, f))
<1>. DEFINE hit == d.chash = hash(n)
            d0 == IF hit THEN [d EXCEPT !.chash = 0] ELSE d
            level == AddLevel(d, n)
            b == AddBlock(d, n)
            there == b \in DOMAIN d.page
            pos == AddPos(d, n)
            size == IF d0.size > b THEN d0.size ELSE b + 1
            page == [x \in DOMAIN d0.page \cup {b} |-> IF x = b THEN {} ELSE d0.page[x]]
            got == IF there THEN d0 ELSE [d0 EXCEPT !.page = page, !.size = size]
            depth == Grown(d.depth, level)
            full == d.depth = MAX_DIR_HASH_DEPTH \/ (~there /\ new = 0)
            at == [b |-> b, pos |-> pos]
            placed == Place(got, n, i, depth, at)
            f == f2fs_add_regular_entry(d, n, i, new, meta).d
            sz == IF there THEN d.size ELSE IF d.size > b THEN d.size ELSE b + 1
            pg == WithBlock(d.page, b)
<1>1. f = IF full THEN Failed(d0, "ENOSPC") ELSE IF meta THEN placed ELSE Failed(got, "EIO")
  <2>1. f2fs_add_regular_entry(d, n, i, new, meta) =
          IF full THEN [d |-> Failed(d0, "ENOSPC"), new |-> new]
          ELSE [d |-> IF meta THEN placed ELSE Failed(got, "EIO"), new |-> IF there THEN new ELSE new - 1]
    BY Zenon DEF f2fs_add_regular_entry, AddLevel, AddBlock, AddPos, Grown
  <2>. HIDE DEF full, d0, placed, got, there
  <2>. QED
    BY <2>1
<1>2. DOMAIN d = DirFields /\ d.size \in Nat /\ d.depth \in Nat /\ DOMAIN d.page \subseteq 0 .. d.size - 1
  BY DirectoryAssumption DEF PagesOK
<1>3. /\ level \in 0 .. d.depth /\ b \in Bucket(level, d.level, hash(n)) /\ b \in Nat
      /\ pos \in Nat /\ FreeSlot(PageEntries(d), b, pos)
  BY PlaceFound DEF FreeSlot
<1>. HIDE DEF level, b, pos, f
<1>4. Alike(d, d0, d.page, d.size, d.depth, NoErr)
  BY <1>2 DEF Alike, DirFields
<1>. HIDE DEF d0
<1>5. Alike(d, got, pg, sz, d.depth, NoErr)
  <2>1. CASE there
    BY <1>4, <2>1 DEF WithBlock
  <2>2. CASE ~there
    <3>1. size = sz /\ page = pg
      BY <1>4, <2>2 DEF Alike, WithBlock
    <3>. HIDE DEF size, page, sz, pg
    <3>. QED
      BY <1>4, <2>2, <3>1 DEF Alike, DirFields
  <2>. QED
    BY <2>1, <2>2
<1>6. sz \in Nat /\ sz >= d.size /\ b < sz
  BY <1>2, <1>3
<1>7. PairsOf(pg) = PageEntries(d) /\ DOMAIN pg \subseteq 0 .. sz - 1
  <2>1. PairsOf(pg) = PairsOf(d.page) /\ DOMAIN pg = DOMAIN d.page \cup {b}
    BY BlockPairs
  <2>. HIDE DEF sz, pg
  <2>2. \A x \in 0 .. d.size - 1 : x \in 0 .. sz - 1
    BY <1>2, <1>6
  <2>3. b \in 0 .. sz - 1
    BY <1>3, <1>6
  <2>. QED
    BY <1>2, <2>1, <2>2, <2>3 DEF PageEntries
<1>. HIDE DEF got, pg, sz, there, depth
<1>8. CASE full
  <2>1. Alike(d, f, d.page, d.size, d.depth, "ENOSPC")
    BY <1>1, <1>4, <1>8 DEF Failed, Alike, DirFields
  <2>2. Untouched(d, f) /\ PageEntries(f) = PageEntries(d)
    <3>1. PairsOf(d.page) = PageEntries(d) /\ d.size >= d.size
      BY <1>2 DEF PageEntries
    <3>. QED
      BY <1>2, <2>1, <3>1, AlikeOK
  <2>3. f.err # NoErr
    BY <2>1, AreErrors DEF Alike
  <2>. QED
    BY <2>2, <2>3 DEF NotAdded, f
<1>9. CASE ~full /\ ~meta
  <2>1. Alike(d, f, pg, sz, d.depth, "EIO")
    BY <1>1, <1>5, <1>9 DEF Failed, Alike, DirFields
  <2>2. Untouched(d, f) /\ PageEntries(f) = PageEntries(d)
    BY <1>6, <1>7, <2>1, AlikeOK
  <2>3. f.err # NoErr
    BY <2>1, AreErrors DEF Alike
  <2>. QED
    BY <2>2, <2>3 DEF NotAdded, f
<1>10. CASE ~full /\ meta
  <2>. DEFINE e == Dentry(n, i, pos)
  <2>1. f = [got EXCEPT !.page[b] = @ \cup {e}, !.depth = depth]
    BY <1>1, <1>10 DEF Place
  <2>2. [got.page EXCEPT ![b] = @ \cup {e}] = WithEntry(d.page, b, e)
    BY <1>5 DEF Alike, WithEntry, pg
  <2>. HIDE DEF e
  <2>3. Alike(d, f, WithEntry(d.page, b, e), sz, depth, NoErr)
    BY <1>5, <2>1, <2>2 DEF Alike, DirFields
  <2>4. Untouched(d, f) /\ PageEntries(f) = PageEntries(d) \cup {<<b, e>>}
    BY <1>3, <1>6, <1>10, <2>3, AlikeMore DEF e, depth
  <2>5. f.err = NoErr
    BY <2>3 DEF Alike
  <2>. QED
    BY <2>4, <2>5 DEF EntryAdded, f, e, b, pos
<1>. QED
  BY <1>8, <1>9, <1>10

----------------------------------------------------------------------------
(* The entries of a directory: out of the inode                            *)

(* Without blocks there are no entries in blocks.                          *)
LEMMA NoPages ==
    ASSUME NEW d, d.page = << >>
    PROVE  PageEntries(d) = {} /\ DOMAIN d.page = {}
BY DEF PageEntries, PairsOf

(* As they are, the inode's entries become the first block.                *)
LEMMA MoveInlineIs ==
    ASSUME NEW d, NEW nm, DirOK(d, nm), d.inline, d.err = NoErr, d.level = 0, NEW new
    PROVE  LET f == f2fs_move_inline_dirents([d |-> d, new |-> new]).d
           IN DirOK(f, nm) /\ (f.err = NoErr => ~f.inline)
<1>. DEFINE m == [d |-> d, new |-> new]
            f == f2fs_move_inline_dirents(m).d
            no == FALSE
<1>1. /\ PagesOK(d) /\ DOMAIN d = DirFields /\ InodeOK(d) /\ Listing(InodeEntries(d), nm)
      /\ d.level \in DirLevels /\ d.inline \in BOOLEAN
  BY DEF DirOK, PagesOK
<1>2. CASE new = 0
  <2>1. f = [d EXCEPT !.err = "ENOSPC"]
    BY <1>2 DEF f2fs_move_inline_dirents
  <2>. HIDE DEF f
  <2>2. f.err = "ENOSPC" /\ DOMAIN f = DirFields
    BY <1>1, <2>1 DEF DirFields
  <2>3. PagesOK(f) /\ InodeOK(f) /\ InodeEntries(f) = InodeEntries(d) /\ f.inline = d.inline
    <3>1. /\ f.page = d.page /\ f.ients = d.ients /\ f.inline = d.inline /\ f.depth = d.depth
          /\ f.level = d.level /\ f.size = d.size /\ f.clevel = d.clevel
      BY <1>1, <2>1 DEF DirFields
    <3>2. PageEntries(f) = PageEntries(d) /\ InodeEntries(f) = InodeEntries(d)
      BY <3>1 DEF PageEntries, InodeEntries
    <3>. QED
      BY <1>1, <2>2, <3>1, <3>2 DEF PagesOK, InodeOK
  <2>. QED
    BY <1>1, <2>2, <2>3, AreErrors DEF DirOK, f
<1>3. CASE new # 0
  <2>. DEFINE g == [b \in {0} |-> d.ients]
  <2>1. f = [d EXCEPT !.page = g, !.ients = {}, !.inline = no, !.depth = 1, !.size = 1]
    BY <1>3 DEF f2fs_move_inline_dirents
  <2>2. PairsOf(g) = InodeEntries(d) /\ DOMAIN g = {0}
    BY DEF PairsOf, InodeEntries
  <2>. HIDE DEF g, no, f
  <2>3. /\ DOMAIN f = DirFields /\ f.page = g /\ f.inline = no /\ f.depth = 1 /\ f.size = 1 /\ f.err = d.err
        /\ f.level = d.level /\ f.clevel = d.clevel
    BY <1>1, <2>1 DEF DirFields
  <2>4. PageEntries(f) = InodeEntries(d)
    BY <2>2, <2>3 DEF PageEntries
  <2>5. Distinct(PageEntries(f))
    BY <1>1, <2>4 DEF Listing
  <2>6. \A x \in PageEntries(f) : Placed(f.level, f.depth, x)
    <3>. TAKE x \in PageEntries(f)
    <3>1. x[1] = 0 /\ hash(x[2].name) \in Nat
      BY <2>4, <2>5, InInode, NameFacts DEF Distinct, IsEntry
    <3>2. 0 \in Bucket(0, d.level, hash(x[2].name))
      BY <1>1, <3>1, FirstBlock
    <3>. QED
      BY <2>3, <3>1, <3>2 DEF Placed
  <2>7. PagesOK(f)
    BY <1>1, <2>2, <2>3, <2>5, <2>6, DirectoryAssumption DEF PagesOK, InodeOK
  <2>8. f.inline = FALSE
    BY <2>3 DEF no
  <2>9. f.inline \in BOOLEAN /\ ~f.inline
    BY <2>8
  <2>10. DirOK(f, nm)
    BY <1>1, <2>3, <2>4, <2>7, <2>9 DEF DirOK
  <2>. QED
    BY <2>9, <2>10 DEF f
<1>. QED
  BY <1>2, <1>3

(* A dot goes to the first block of the first level.                       *)
LEMMA FirstPlace ==
    ASSUME NEW d, PagesOK(d), d.clevel = 0, NEW n \in Dots,
           0 \in DOMAIN d.page => RoomIn(d, n, 0) < NR_DENTRY_IN_BLOCK
    PROVE  AddBlock(d, n) = 0 /\ AddPos(d, n) = IF 0 \in DOMAIN d.page THEN RoomIn(d, n, 0) ELSE 0
<1>. DEFINE s == IF d.chash = hash(n) THEN d.clevel ELSE 0
            L == {l \in s .. d.depth : BlocksFor(d, n, l) # {}}
<1>1. hash(n) = 0 /\ n \in AnyName /\ d.level \in DirLevels /\ d.depth \in Nat /\ s = 0
  BY NameFacts, DirectoryAssumption DEF Dots, AnyName, PagesOK
<1>2. 0 \in Bucket(0, d.level, hash(n)) /\ Bucket(0, d.level, hash(n)) \subseteq Nat
  BY <1>1, FirstBlock
<1>3. 0 \in BlocksFor(d, n, 0) /\ BlocksFor(d, n, 0) \subseteq Nat
  BY <1>2 DEF BlocksFor
<1>4. AddLevel(d, n) = Min(L)
  BY DEF AddLevel
<1>5. 0 \in L /\ L \subseteq Nat
  BY <1>1, <1>3
<1>. HIDE DEF L
<1>6. Min(L) = 0
  <2>1. Min(L) \in Nat /\ Min(L) <= 0
    BY <1>5, MinIs
  <2>. QED
    BY <2>1
<1>7. AddBlock(d, n) = Min(BlocksFor(d, n, 0))
  BY <1>4, <1>6 DEF AddBlock
<1>8. Min(BlocksFor(d, n, 0)) = 0
  <2>1. Min(BlocksFor(d, n, 0)) \in Nat /\ Min(BlocksFor(d, n, 0)) <= 0
    BY <1>3, MinIs
  <2>. QED
    BY <2>1
<1>. QED
  BY <1>7, <1>8 DEF AddPos

(* The entries of slots before j have got entries in blocks.               *)
Copied(E, X, j) ==
    /\ \A x \in X : \E e \in E : e.pos < j /\ e.name = x[2].name /\ e.ino = x[2].ino
    /\ \A e \in E : e.pos < j => \E x \in X : x[2].name = e.name /\ x[2].ino = e.ino

(* The dots among them are in their place.                                 *)
DotsMoved(X, j) ==
    /\ j = 0 => X = {}
    /\ j = 1 => \E i : X = {<<0, Dentry(".", i, 0)>>}
    /\ j > 1 => Dotted(X)

MovedTo(d, f, j) ==
    /\ PagesOK(f) /\ f.inline = d.inline /\ f.ients = {} /\ f.level = d.level /\ f.clevel = 0
    /\ f.err = NoErr => Copied(d.ients, PageEntries(f), j) /\ DotsMoved(PageEntries(f), j)

(* One more entry has moved.                                               *)
LEMMA CopiedMore ==
    ASSUME NEW E, NEW X, NEW j \in Nat, Copied(E, X, j), \A e \in E : e.pos \in Nat,
           \A e \in E, f \in E : e.pos = f.pos => e = f,
           NEW e \in E, e.pos = j, NEW b, NEW p
    PROVE  Copied(E, X \cup {<<b, Dentry(e.name, e.ino, p)>>}, j + 1)
<1>. DEFINE z == <<b, Dentry(e.name, e.ino, p)>>  Y == X \cup {z}
<1>1. z[2].name = e.name /\ z[2].ino = e.ino
  BY DentryIs
<1>. HIDE DEF z
<1>2. ASSUME NEW x \in Y PROVE \E g \in E : g.pos < j + 1 /\ g.name = x[2].name /\ g.ino = x[2].ino
  <2>1. CASE x = z
    BY <1>1, <2>1
  <2>2. CASE x \in X
    BY <2>2 DEF Copied
  <2>. QED
    BY <2>1, <2>2
<1>3. ASSUME NEW g \in E, g.pos < j + 1 PROVE \E x \in Y : x[2].name = g.name /\ x[2].ino = g.ino
  <2>1. CASE g.pos = j
    BY <1>1, <2>1
  <2>2. CASE g.pos < j
    BY <2>2 DEF Copied
  <2>. QED
    BY <1>3, <2>1, <2>2
<1>4. Copied(E, Y, j + 1)
  BY <1>2, <1>3 DEF Copied
<1>. QED
  BY <1>4 DEF z

(* The entries of an inode.                                                *)
InodeSlots(E) ==
    /\ \A e \in E : IsEntry(e) /\ e.pos < NR_INLINE_DENTRY
    /\ \A e \in E, f \in E : e.pos = f.pos => e = f
    /\ \A e \in E, f \in E : e.name = f.name => e = f
    /\ \E e \in E : e.pos = 0 /\ e.name = "."
    /\ \E e \in E : e.pos = 1 /\ e.name = ".."

(* They are those of a listing.                                            *)
LEMMA InodeSlotsAre ==
    ASSUME NEW d, NEW nm, DirOK(d, nm), d.inline
    PROVE  InodeSlots(d.ients)
<1>1. Distinct(InodeEntries(d)) /\ Dotted(InodeEntries(d)) /\ InodeOK(d)
  BY DEF DirOK, Listing
<1>2. \A e \in d.ients : <<0, e>> \in InodeEntries(d)
  BY InInode
<1>3. ASSUME NEW e \in d.ients PROVE IsEntry(e) /\ e.pos < NR_INLINE_DENTRY
  <2>. DEFINE x == <<0, e>>
  <2>1. IsEntry(x[2])
    BY <1>1, <1>2 DEF Distinct
  <2>. QED
    BY <1>1, <2>1 DEF InodeOK
<1>4. ASSUME NEW e \in d.ients, NEW f \in d.ients, e.pos = f.pos \/ e.name = f.name PROVE e = f
  <2>. DEFINE x == <<0, e>>  y == <<0, f>>
  <2>1. x \in InodeEntries(d) /\ y \in InodeEntries(d) /\ x[1] = y[1] /\ x[2] = e /\ y[2] = f
    BY <1>2
  <2>. HIDE DEF x, y
  <2>2. x = y
    BY <1>1, <1>4, <2>1 DEF Distinct
  <2>. QED
    BY <2>1, <2>2
<1>5. \E e \in d.ients : e.pos = 0 /\ e.name = "."
  <2>1. PICK i : <<0, Dentry(".", i, 0)>> \in InodeEntries(d)
    BY <1>1 DEF Dotted
  <2>2. Dentry(".", i, 0) \in d.ients
    BY <2>1, InInode
  <2>. QED
    BY <2>2, DentryIs
<1>6. \E e \in d.ients : e.pos = 1 /\ e.name = ".."
  <2>1. PICK i : <<0, Dentry("..", i, 1)>> \in InodeEntries(d)
    BY <1>1 DEF Dotted
  <2>2. Dentry("..", i, 1) \in d.ients
    BY <2>1, InInode
  <2>. QED
    BY <2>2, DentryIs
<1>. QED
  BY <1>3, <1>4, <1>5, <1>6 DEF InodeSlots

(* The dots keep their place when they are moved.                          *)
LEMMA DotsMore ==
    ASSUME NEW E, InodeSlots(E), NEW f, PagesOK(f), f.clevel = 0, NEW j \in Nat, DotsMoved(PageEntries(f), j),
           NEW e \in E, e.pos = j
    PROVE  DotsMoved(PageEntries(f) \cup {<<AddBlock(f, e.name), Dentry(e.name, e.ino, AddPos(f, e.name))>>}, j + 1)
<1>. DEFINE X == PageEntries(f)
            z == <<AddBlock(f, e.name), Dentry(e.name, e.ino, AddPos(f, e.name))>>
            Y == X \cup {z}
<1>1. CASE j = 0
  <2>1. e.name = "." /\ X = {}
    BY <1>1 DEF InodeSlots, DotsMoved
  <2>2. 0 \in DOMAIN f.page => RoomIn(f, ".", 0) = 0
    <3>. HAVE 0 \in DOMAIN f.page
    <3>1. f.page[0] = {}
      BY <2>1, InPages
    <3>. QED
      BY <3>1, RoomEmpty, NameFacts DEF RoomIn
  <2>3. AddBlock(f, ".") = 0 /\ AddPos(f, ".") = 0
    BY <2>2, FirstPlace, NameFacts DEF Dots
  <2>4. Y = {<<0, Dentry(".", e.ino, 0)>>}
    BY <2>1, <2>3
  <2>. HIDE DEF Y
  <2>5. DotsMoved(Y, 1)
    BY <2>4 DEF DotsMoved
  <2>6. j + 1 = 1
    BY <1>1
  <2>. QED
    BY <2>5, <2>6 DEF Y
<1>2. CASE j = 1
  <2>1. e.name = ".."
    BY <1>2 DEF InodeSlots
  <2>2. PICK i : X = {<<0, Dentry(".", i, 0)>>}
    BY <1>2 DEF DotsMoved
  <2>3. 0 \in DOMAIN f.page /\ f.page[0] = {Dentry(".", i, 0)}
    <3>1. \A g : g \in f.page[0] /\ 0 \in DOMAIN f.page <=> <<0, g>> \in X
      BY InPages
    <3>2. \A g : <<0, g>> \in X <=> g = Dentry(".", i, 0)
      BY <2>2
    <3>. HIDE DEF X
    <3>. QED
      BY <3>1, <3>2
  <2>4. RoomIn(f, "..", 0) = 1
    BY <2>3, RoomBehindDot, NameFacts DEF RoomIn
  <2>5. AddBlock(f, "..") = 0 /\ AddPos(f, "..") = 1
    BY <2>3, <2>4, FirstPlace, NameFacts DEF Dots
  <2>6. z = <<0, Dentry("..", e.ino, 1)>>
    BY <2>1, <2>5
  <2>7. <<0, Dentry(".", i, 0)>> \in Y /\ <<0, Dentry("..", e.ino, 1)>> \in Y
    BY <2>2, <2>6
  <2>. HIDE DEF Y
  <2>8. Dotted(Y)
    BY <2>7 DEF Dotted
  <2>9. DotsMoved(Y, 2)
    BY <2>8 DEF DotsMoved
  <2>10. j + 1 = 2
    BY <1>2
  <2>. QED
    BY <2>9, <2>10 DEF Y
<1>3. CASE j > 1
  <2>1. Dotted(X)
    BY <1>3 DEF DotsMoved
  <2>. HIDE DEF z
  <2>2. Dotted(Y)
    BY <2>1 DEF Dotted
  <2>. HIDE DEF Y
  <2>3. DotsMoved(Y, j + 1)
    BY <1>3, <2>2 DEF DotsMoved
  <2>. QED
    BY <2>3 DEF Y, z
<1>. QED
  BY <1>1, <1>2, <1>3

(* The next slot.                                                          *)
LEMMA MoveSlotIs ==
    ASSUME NEW d, InodeSlots(d.ients), NEW q, NEW j \in Nat, MovedTo(d, q.d, j)
    PROVE  MovedTo(d, MoveSlot(d.ients, q, j).d, j + 1)
<1>. DEFINE E == d.ients
            none == \A x \in E : x.pos # j
            e == CHOOSE e \in E : e.pos = j
            yes == TRUE
            X == PageEntries(q.d)
<1>1. MoveSlot(E, q, j) = IF q.d.err # NoErr \/ none THEN q
                          ELSE f2fs_add_regular_entry(q.d, e.name, e.ino, q.new, yes)
  BY Zenon DEF MoveSlot, NoErr
<1>2. CASE q.d.err # NoErr
  <2>1. MoveSlot(E, q, j) = q
    BY <1>1, <1>2
  <2>. QED
    BY <1>2, <2>1 DEF MovedTo
<1>3. CASE q.d.err = NoErr /\ none
  <2>1. MoveSlot(E, q, j) = q
    BY <1>1, <1>3
  <2>2. j > 1
    BY <1>3 DEF InodeSlots
  <2>3. \A x \in E : x.pos \in Nat
    BY DEF InodeSlots, IsEntry
  <2>4. \A x \in E : x.pos < j + 1 <=> x.pos < j
    BY <1>3, <2>3
  <2>5. Copied(E, X, j) /\ DotsMoved(X, j)
    BY <1>3 DEF MovedTo
  <2>. HIDE DEF X, E
  <2>6. Copied(E, X, j + 1)
    BY <2>4, <2>5 DEF Copied
  <2>7. DotsMoved(X, j + 1)
    BY <2>2, <2>5 DEF DotsMoved
  <2>. QED
    BY <2>1, <2>6, <2>7 DEF MovedTo, X, E
<1>4. CASE q.d.err = NoErr /\ ~none
  <2>. DEFINE f == f2fs_add_regular_entry(q.d, e.name, e.ino, q.new, yes).d
              z == <<AddBlock(q.d, e.name), Dentry(e.name, e.ino, AddPos(q.d, e.name))>>
  <2>1. MoveSlot(E, q, j).d = f
    BY <1>1, <1>4
  <2>2. e \in E /\ e.pos = j
    BY <1>4
  <2>. HIDE DEF e
  <2>3. e.name \in AnyName /\ \A x \in E : x.pos \in Nat
    BY <2>2 DEF InodeSlots, IsEntry
  <2>4. Copied(E, X, j) /\ DotsMoved(X, j) /\ PagesOK(q.d) /\ q.d.clevel = 0
    BY <1>4 DEF MovedTo
  <2>5. NewName(X, e.name)
    <3>. SUFFICES ASSUME NEW x \in X, x[2].name = e.name PROVE FALSE
      BY DEF NewName
    <3>1. PICK g \in E : g.pos < j /\ g.name = x[2].name
      BY <2>4 DEF Copied
    <3>2. g = e
      BY <2>2, <3>1 DEF InodeSlots
    <3>. QED
      BY <2>2, <3>1, <3>2
  <2>6. Untouched(q.d, f) /\ (EntryAdded(q.d, f, e.name, e.ino) \/ NotAdded(q.d, f))
    BY <1>4, <2>3, <2>4, <2>5, AddRegularIs
  <2>. HIDE DEF f
  <2>7. f.err = NoErr => Copied(E, PageEntries(f), j + 1) /\ DotsMoved(PageEntries(f), j + 1)
    <3>. HAVE f.err = NoErr
    <3>1. PageEntries(f) = X \cup {z}
      BY <2>6 DEF EntryAdded, NotAdded
    <3>2. Copied(E, X \cup {z}, j + 1)
      <4>1. \A x \in E, y \in E : x.pos = y.pos => x = y
        BY DEF InodeSlots
      <4>. QED
        BY <2>2, <2>3, <2>4, <4>1, CopiedMore
    <3>3. DotsMoved(X \cup {z}, j + 1)
      BY <2>2, <2>4, DotsMore
    <3>. QED
      BY <3>1, <3>2, <3>3
  <2>. QED
    BY <2>1, <2>6, <2>7 DEF MovedTo, Untouched
<1>. QED
  BY <1>2, <1>3, <1>4

(* The recursive function over the slots.                                  *)
IsMoved(E, start, n, f) ==
    f = [i \in 0 .. n |-> IF i = 0 THEN start ELSE MoveSlot(E, f[i - 1], i - 1)]

(* It is well defined.                                                     *)
LEMMA MovedExists ==
    ASSUME NEW E, NEW start, NEW N \in Nat
    PROVE  \E f : IsMoved(E, start, N, f)
<1>. DEFINE T == {n \in Nat : \E f : IsMoved(E, start, n, f)}
<1>1. 0 \in T
  <2>. DEFINE f == [p \in 0 .. 0 |-> start]
  <2>1. IsMoved(E, start, 0, f)
    BY DEF IsMoved
  <2>. QED
    BY <2>1
<1>2. ASSUME NEW n \in Nat, n \in T PROVE n + 1 \in T
  <2>1. PICK f : IsMoved(E, start, n, f)
    BY <1>2
  <2>. DEFINE g == [p \in 0 .. n + 1 |-> IF p = n + 1 THEN MoveSlot(E, f[n], n + 1 - 1) ELSE f[p]]
              h == [p \in 0 .. n + 1 |-> IF p = 0 THEN start ELSE MoveSlot(E, g[p - 1], p - 1)]
  <2>2. \A p \in 0 .. n : f[p] = IF p = 0 THEN start ELSE MoveSlot(E, f[p - 1], p - 1)
    BY <2>1 DEF IsMoved
  <2>3. \A p \in 0 .. n + 1 : g[p] = h[p]
    BY <2>2
  <2>4. g = h
    BY <2>3
  <2>5. IsMoved(E, start, n + 1, g)
    BY <2>4 DEF IsMoved
  <2>. QED
    BY <2>5
<1>. HIDE DEF T
<1>3. Nat \subseteq T
  BY <1>1, <1>2, NumberInduction
<1>. QED
  BY <1>3 DEF T

(* What the loop over the slots leaves.                                    *)
LEMMA AllMovedIs ==
    ASSUME NEW d, InodeSlots(d.ients), NEW start, MovedTo(d, start.d, 0), NEW f,
           IsMoved(d.ients, start, NR_INLINE_DENTRY, f)
    PROVE  MovedTo(d, f[NR_INLINE_DENTRY].d, NR_INLINE_DENTRY)
<1>. DEFINE N == NR_INLINE_DENTRY
            T == {i \in Nat : i <= N => MovedTo(d, f[i].d, i)}
<1>1. N \in Nat
  BY NameFacts
<1>. HIDE DEF N
<1>2. \A i \in 0 .. N : f[i] = IF i = 0 THEN start ELSE MoveSlot(d.ients, f[i - 1], i - 1)
  BY DEF IsMoved, N
<1>3. 0 \in T
  <2>1. f[0] = start
    BY <1>1, <1>2
  <2>. QED
    BY <2>1
<1>4. ASSUME NEW i \in Nat, i \in T PROVE i + 1 \in T
  <2>. SUFFICES ASSUME i + 1 <= N PROVE MovedTo(d, f[i + 1].d, i + 1)
    OBVIOUS
  <2>1. MovedTo(d, f[i].d, i)
    BY <1>1, <1>4
  <2>2. f[i + 1] = MoveSlot(d.ients, f[i], i)
    BY <1>1, <1>2
  <2>. QED
    BY <2>1, <2>2, MoveSlotIs
<1>. HIDE DEF T
<1>5. Nat \subseteq T
  BY <1>3, <1>4, NumberInduction
<1>. QED
  BY <1>1, <1>5 DEF T, N

(* The map is the same in blocks as it was in the inode.                   *)
LEMMA CopiedMap ==
    ASSUME NEW d, NEW nm, Mapping(InodeEntries(d), nm), InodeSlots(d.ients), NEW X,
           Copied(d.ients, X, NR_INLINE_DENTRY)
    PROVE  Mapping(X, nm)
<1>1. nm \in [Names -> Inos \cup {0}]
  BY DEF Mapping
<1>2. \A e \in d.ients : e.pos < NR_INLINE_DENTRY
  BY DEF InodeSlots
<1>3. ASSUME NEW x \in X, x[2].name \in Names PROVE nm[x[2].name] = x[2].ino /\ x[2].ino # 0
  <2>1. PICK e \in d.ients : e.name = x[2].name /\ e.ino = x[2].ino
    BY DEF Copied
  <2>. DEFINE y == <<0, e>>
  <2>2. y \in InodeEntries(d) /\ y[2] = e
    BY InInode
  <2>. HIDE DEF y
  <2>. QED
    BY <1>3, <2>1, <2>2 DEF Mapping
<1>4. ASSUME NEW n \in Names, nm[n] # 0 PROVE \E x \in X : x[2].name = n
  <2>1. PICK y \in InodeEntries(d) : y[2].name = n
    BY <1>4 DEF Mapping
  <2>2. y[2] \in d.ients
    BY InInode
  <2>. QED
    BY <1>2, <2>1, <2>2 DEF Copied
<1>. QED
  BY <1>1, <1>3, <1>4 DEF Mapping

\* The result when entries are added one by one.
Rehashed(d, new) ==
    LET moved == CHOOSE g : IsMoved(d.ients, [d |-> [d EXCEPT !.ients = {}], new |-> new], NR_INLINE_DENTRY, g)
        r == moved[NR_INLINE_DENTRY]
    IN IF r.d.err = NoErr THEN [d |-> [r.d EXCEPT !.inline = FALSE], new |-> r.new]
       ELSE [d |-> [r.d EXCEPT !.page = << >>, !.ients = d.ients, !.depth = 0, !.size = 1], new |-> new]

(* With other buckets on level 0 the entries are added one by one.         *)
LEMMA MoveRehashedIs ==
    ASSUME NEW d, NEW nm, DirOK(d, nm), d.inline, d.err = NoErr, NEW new
    PROVE  LET f == f2fs_move_rehashed_dirents([d |-> d, new |-> new]).d
           IN DirOK(f, nm) /\ (f.err = NoErr => ~f.inline)
<1>. DEFINE m == [d |-> d, new |-> new]
            d1 == [d EXCEPT !.ients = {}]
            start == [d |-> d1, new |-> new]
            N == NR_INLINE_DENTRY
            moved == CHOOSE g : IsMoved(d.ients, start, N, g)
            r == moved[N]
            f == f2fs_move_rehashed_dirents(m).d
            no == FALSE
            good == [r.d EXCEPT !.inline = no]
            bad == [r.d EXCEPT !.page = << >>, !.ients = d.ients, !.depth = 0, !.size = 1]
<1>1. f2fs_move_rehashed_dirents(m) = IF r.d.err = NoErr THEN [d |-> good, new |-> r.new]
                                      ELSE [d |-> bad, new |-> new]
  <2>1. m.d = d /\ m.new = new
    OBVIOUS
  <2>. HIDE DEF m
  <2>2. f2fs_move_rehashed_dirents(m) = Rehashed(m.d, m.new)
    BY Zenon DEF f2fs_move_rehashed_dirents, NoErr, Rehashed, IsMoved
  <2>3. f2fs_move_rehashed_dirents(m) = Rehashed(d, new)
    BY <2>1, <2>2, Zenon
  <2>. QED
    BY <2>3, Zenon DEF Rehashed
<1>2. IsMoved(d.ients, start, N, moved) /\ N \in Nat /\ N >= 2
  BY MovedExists, NameFacts
<1>. HIDE DEF moved, good, bad
<1>3. f = IF r.d.err = NoErr THEN good ELSE bad
  <2>. HIDE DEF m, r
  <2>. QED
    BY <1>1
<1>4. /\ PagesOK(d) /\ DOMAIN d = DirFields /\ InodeOK(d) /\ Listing(InodeEntries(d), nm) /\ d.inline \in BOOLEAN
      /\ InodeSlots(d.ients)
  BY InodeSlotsAre DEF DirOK, PagesOK
<1>5. MovedTo(d, d1, 0)
  <2>1. /\ DOMAIN d1 = DirFields /\ d1.ients = {} /\ d1.page = d.page /\ d1.inline = d.inline /\ d1.depth = d.depth
        /\ d1.level = d.level /\ d1.size = d.size /\ d1.clevel = d.clevel /\ d1.err = d.err
    BY <1>4 DEF DirFields
  <2>. HIDE DEF d1
  <2>2. PageEntries(d1) = PageEntries(d) /\ PageEntries(d) = {}
    BY <1>4, <2>1, NoPages DEF PageEntries, InodeOK
  <2>3. PagesOK(d1) /\ d1.clevel = 0
    BY <1>4, <2>1, <2>2 DEF PagesOK, InodeOK
  <2>4. \A e \in d.ients : e.pos \in Nat
    BY <1>4 DEF InodeSlots, IsEntry
  <2>5. Copied(d.ients, {}, 0)
    BY <2>4 DEF Copied
  <2>6. DotsMoved({}, 0)
    BY DEF DotsMoved
  <2>. QED
    BY <2>1, <2>2, <2>3, <2>5, <2>6 DEF MovedTo
<1>. HIDE DEF d1
<1>6. MovedTo(d, r.d, N)
  <2>1. MovedTo(d, start.d, 0)
    BY <1>5
  <2>. HIDE DEF start
  <2>. QED
    BY <1>2, <1>4, <2>1, AllMovedIs
<1>. HIDE DEF r, N
<1>7. PagesOK(r.d) /\ DOMAIN r.d = DirFields /\ r.d.inline = d.inline /\ r.d.level = d.level /\ r.d.clevel = 0
  BY <1>6 DEF MovedTo, PagesOK
<1>. HIDE DEF f
<1>8. CASE r.d.err = NoErr
  <2>1. f = good
    BY <1>3, <1>8
  <2>. HIDE DEF no
  <2>2. /\ DOMAIN f = DirFields /\ f.inline = no /\ f.page = r.d.page /\ f.depth = r.d.depth /\ f.level = r.d.level
        /\ f.size = r.d.size /\ f.clevel = r.d.clevel
    BY <1>7, <2>1 DEF good, DirFields
  <2>3. PageEntries(f) = PageEntries(r.d)
    BY <2>2 DEF PageEntries
  <2>4. PagesOK(f)
    BY <1>7, <2>2, <2>3 DEF PagesOK
  <2>5. Copied(d.ients, PageEntries(f), N) /\ Dotted(PageEntries(f))
    BY <1>2, <1>6, <1>8, <2>3 DEF MovedTo, DotsMoved
  <2>6. Mapping(PageEntries(f), nm)
    BY <1>4, <2>5, CopiedMap DEF Listing, N
  <2>7. f.size > 0
    <3>1. PICK i : <<0, Dentry(".", i, 0)>> \in PageEntries(f)
      BY <2>5 DEF Dotted
    <3>2. 0 \in DOMAIN f.page
      BY <3>1, InPages
    <3>. QED
      BY <2>4, <3>2 DEF PagesOK
  <2>8. Listing(PageEntries(f), nm)
    BY <2>4, <2>5, <2>6 DEF Listing, PagesOK
  <2>9. f.inline = FALSE
    BY <2>2 DEF no
  <2>10. f.inline \in BOOLEAN /\ ~f.inline
    BY <2>9
  <2>11. DirOK(f, nm)
    BY <2>4, <2>7, <2>8, <2>10 DEF DirOK
  <2>. QED
    BY <2>10, <2>11 DEF f
<1>9. CASE r.d.err # NoErr
  <2>1. f = bad
    BY <1>3, <1>9
  <2>2. /\ DOMAIN f = DirFields /\ f.inline = d.inline /\ f.page = << >> /\ f.depth = 0 /\ f.level = d.level
        /\ f.size = 1 /\ f.clevel = 0 /\ f.ients = d.ients /\ f.err = r.d.err
    BY <1>7, <2>1 DEF bad, DirFields
  <2>3. PageEntries(f) = {} /\ DOMAIN f.page = {} /\ InodeEntries(f) = InodeEntries(d)
    BY <2>2, NoPages DEF InodeEntries
  <2>4. PagesOK(f)
    <3>1. Distinct({})
      BY DEF Distinct
    <3>2. d.level \in DirLevels
      BY <1>4 DEF PagesOK
    <3>. QED
      BY <2>2, <2>3, <3>1, <3>2, DirectoryAssumption DEF PagesOK
  <2>5. InodeOK(f)
    BY <1>4, <2>2 DEF InodeOK
  <2>6. DirOK(f, nm)
    BY <1>4, <2>2, <2>3, <2>4, <2>5 DEF DirOK
  <2>. QED
    BY <1>9, <2>2, <2>6 DEF f
<1>. QED
  BY <1>8, <1>9

(* An inline directory that is converted has the same names.               *)
LEMMA ConvertIs ==
    ASSUME NEW d, NEW nm, DirOK(d, nm), d.inline, d.err = NoErr, NEW new
    PROVE  LET f == f2fs_convert_inline_dir([d |-> d, new |-> new]).d
           IN DirOK(f, nm) /\ (f.err = NoErr => ~f.inline)
<1>. DEFINE m == [d |-> d, new |-> new]
<1>1. m.d = d
  OBVIOUS
<1>2. CASE d.level = 0
  <2>1. f2fs_convert_inline_dir(m) = f2fs_move_inline_dirents(m)
    BY <1>1, <1>2, Zenon DEF f2fs_convert_inline_dir
  <2>2. LET f == f2fs_move_inline_dirents(m).d IN DirOK(f, nm) /\ (f.err = NoErr => ~f.inline)
    BY <1>2, MoveInlineIs
  <2>. HIDE DEF m
  <2>3. LET f == f2fs_convert_inline_dir(m).d IN DirOK(f, nm) /\ (f.err = NoErr => ~f.inline)
    BY <2>1, <2>2
  <2>. QED
    BY <2>3, Zenon DEF m
<1>3. CASE d.level # 0
  <2>1. f2fs_convert_inline_dir(m) = f2fs_move_rehashed_dirents(m)
    BY <1>1, <1>3, Zenon DEF f2fs_convert_inline_dir
  <2>2. LET f == f2fs_move_rehashed_dirents(m).d IN DirOK(f, nm) /\ (f.err = NoErr => ~f.inline)
    BY MoveRehashedIs
  <2>. HIDE DEF m
  <2>3. LET f == f2fs_convert_inline_dir(m).d IN DirOK(f, nm) /\ (f.err = NoErr => ~f.inline)
    BY <2>1, <2>2
  <2>. QED
    BY <2>3, Zenon DEF m
<1>. QED
  BY <1>2, <1>3

\* A call has made the name, or failed and left all names as they were.
ReturnsOK(f, nm, n, i) ==
    \/ f.err = NoErr /\ DirOK(f, [nm EXCEPT ![n] = i])
    \/ f.err # NoErr /\ DirOK(f, nm)

(* A name that is not there, in the blocks.                                *)
LEMMA RegularAdds ==
    ASSUME NEW d, NEW nm, DirOK(d, nm), ~d.inline, d.err = NoErr, NEW n \in Names, nm[n] = 0, NEW i \in Inos,
           NEW new, NEW meta \in BOOLEAN
    PROVE  ReturnsOK(f2fs_add_regular_entry(d, n, i, new, meta).d, nm, n, i)
<1>. DEFINE f == f2fs_add_regular_entry(d, n, i, new, meta).d
            X == PageEntries(d)
<1>1. PagesOK(d) /\ d.size > 0 /\ Listing(X, nm) /\ d.inline \in BOOLEAN /\ d.size \in Nat
  BY DEF DirOK, PagesOK
<1>2. n \in AnyName
  BY DEF AnyName
<1>3. NewName(X, n)
  BY <1>1 DEF NewName, Listing, Mapping
<1>4. Untouched(d, f) /\ (EntryAdded(d, f, n, i) \/ NotAdded(d, f))
  BY <1>1, <1>2, <1>3, AddRegularIs
<1>5. /\ AddBlock(d, n) \in Nat /\ AddPos(d, n) \in Nat
      /\ \A x \in X : x[1] = AddBlock(d, n) => x[2].pos # AddPos(d, n)
  BY <1>1, <1>2, PlaceFound
<1>. HIDE DEF f, X
<1>6. PagesOK(f) /\ ~f.inline /\ f.inline \in BOOLEAN /\ f.size > 0
  BY <1>1, <1>4 DEF Untouched, PagesOK
<1>7. CASE EntryAdded(d, f, n, i)
  <2>1. Listing(PageEntries(f), [nm EXCEPT ![n] = i])
    BY <1>1, <1>5, <1>7, ListingMore DEF EntryAdded, X
  <2>2. DirOK(f, [nm EXCEPT ![n] = i])
    BY <1>6, <2>1 DEF DirOK
  <2>3. ReturnsOK(f, nm, n, i)
    BY <1>7, <2>2 DEF EntryAdded, ReturnsOK
  <2>. QED
    BY <2>3 DEF f
<1>8. CASE NotAdded(d, f)
  <2>1. DirOK(f, nm)
    BY <1>1, <1>6, <1>8 DEF DirOK, NotAdded, X
  <2>2. ReturnsOK(f, nm, n, i)
    BY <1>8, <2>1 DEF NotAdded, ReturnsOK
  <2>. QED
    BY <2>2 DEF f
<1>. QED
  BY <1>4, <1>7, <1>8

(* A name that is not there, in the inode.                                 *)
LEMMA InlineAdds ==
    ASSUME NEW d, NEW nm, DirOK(d, nm), d.inline, d.err = NoErr, NEW n \in Names, nm[n] = 0, NEW i \in Inos,
           room_for_filename(d.ients, slots(n), NR_INLINE_DENTRY) < NR_INLINE_DENTRY
    PROVE  LET pos == room_for_filename(d.ients, slots(n), NR_INLINE_DENTRY)
           IN ReturnsOK([d EXCEPT !.ients = @ \cup {Dentry(n, i, pos)}, !.depth = 0], nm, n, i)
<1>. DEFINE pos == room_for_filename(d.ients, slots(n), NR_INLINE_DENTRY)
            new == Dentry(n, i, pos)
            f == [d EXCEPT !.ients = @ \cup {new}, !.depth = 0]
<1>1. /\ PagesOK(d) /\ InodeOK(d) /\ Listing(InodeEntries(d), nm) /\ d.inline \in BOOLEAN /\ DOMAIN d = DirFields
  BY DEF DirOK, PagesOK
<1>2. InodeSlots(d.ients)
  BY InodeSlotsAre
<1>3. pos \in Nat /\ \A e \in d.ients : e.pos # pos
  BY <1>2, NameFacts, RoomIs DEF InodeSlots
<1>4. new.pos = pos
  BY DentryIs
<1>5. /\ DOMAIN f = DirFields /\ f.inline = d.inline /\ f.page = d.page /\ f.depth = 0 /\ f.level = d.level
      /\ f.size = d.size /\ f.clevel = d.clevel /\ f.err = d.err /\ f.ients = d.ients \cup {new}
  <2>. HIDE DEF new
  <2>. QED
    BY <1>1 DEF DirFields
<1>. HIDE DEF f, new
<1>6. PageEntries(f) = {} /\ DOMAIN f.page = {}
  BY <1>1, <1>5, NoPages DEF InodeOK
<1>7. PagesOK(f)
  <2>1. Distinct({})
    BY DEF Distinct
  <2>. QED
    BY <1>1, <1>5, <1>6, <2>1, DirectoryAssumption DEF PagesOK, InodeOK
<1>8. InodeOK(f)
  BY <1>1, <1>4, <1>5 DEF InodeOK
<1>9. InodeEntries(f) = InodeEntries(d) \cup {<<0, new>>}
  BY <1>5 DEF InodeEntries
<1>10. \A x \in InodeEntries(d) : x[1] = 0 => x[2].pos # pos
  BY <1>3, InInode
<1>. HIDE DEF pos
<1>11. Listing(InodeEntries(f), [nm EXCEPT ![n] = i])
  BY <1>1, <1>3, <1>9, <1>10, ListingMore DEF new
<1>12. DirOK(f, [nm EXCEPT ![n] = i])
  BY <1>1, <1>5, <1>7, <1>8, <1>11 DEF DirOK
<1>13. ReturnsOK(f, nm, n, i)
  BY <1>5, <1>12 DEF ReturnsOK
<1>. QED
  BY <1>13 DEF f, new, pos

\* Directories that differ at most in their hints and in the error.
SameDir(d, f) ==
    /\ DOMAIN f = DirFields /\ f.inline = d.inline /\ f.ients = d.ients /\ f.page = d.page
    /\ f.depth = d.depth /\ f.level = d.level /\ f.size = d.size /\ f.clevel = d.clevel

(* They have the same names.                                               *)
LEMMA SameDirOK ==
    ASSUME NEW d, NEW nm, DirOK(d, nm), NEW f, SameDir(d, f)
    PROVE  DirOK(f, nm)
<1>1. PageEntries(f) = PageEntries(d) /\ InodeEntries(f) = InodeEntries(d)
  BY SamePages DEF SameDir, InodeEntries
<1>2. PagesOK(f)
  BY <1>1 DEF DirOK, PagesOK, SameDir
<1>. QED
  BY <1>1, <1>2 DEF DirOK, InodeOK, SameDir

(* Setting the error or the task changes nothing else.                     *)
LEMMA HintsKeep ==
    ASSUME NEW d, DOMAIN d = DirFields, NEW e, NEW t
    PROVE  /\ SameDir(d, [d EXCEPT !.err = e]) /\ [d EXCEPT !.err = e].err = e
           /\ SameDir(d, [d EXCEPT !.task = t]) /\ [d EXCEPT !.task = t].err = d.err
BY DEF SameDir, DirFields

(* A call that fails at once.                                              *)
LEMMA FailedOK ==
    ASSUME NEW d, NEW nm, DirOK(d, nm), NEW e, e # NoErr, NEW n, NEW i
    PROVE  ReturnsOK(Failed(d, e), nm, n, i)
<1>1. DOMAIN d = DirFields
  BY DEF DirOK, PagesOK
<1>2. SameDir(d, Failed(d, e)) /\ Failed(d, e).err = e
  BY <1>1, HintsKeep DEF Failed
<1>. QED
  BY <1>2, SameDirOK DEF ReturnsOK

(* __f2fs_do_add_link, for a name that is not there.                       *)
LEMMA DoAddLinkIs ==
    ASSUME NEW d, NEW nm, DirOK(d, nm), d.err = NoErr, NEW n \in Names, nm[n] = 0, NEW i \in Inos,
           NEW c, c.meta \in BOOLEAN
    PROVE  ReturnsOK(__f2fs_do_add_link(d, n, i, c), nm, n, i)
<1>. DEFINE pos == room_for_filename(d.ients, slots(n), NR_INLINE_DENTRY)
            more == [d EXCEPT !.ients = @ \cup {Dentry(n, i, pos)}, !.depth = 0]
            m == IF d.inline THEN f2fs_convert_inline_dir([d |-> d, new |-> c.new])
                 ELSE [d |-> d, new |-> c.new]
            f == __f2fs_do_add_link(d, n, i, c)
<1>1. f = IF d.inline /\ pos < NR_INLINE_DENTRY
          THEN IF c.meta THEN more ELSE Failed(d, "EIO")
          ELSE IF m.d.err # NoErr THEN m.d
          ELSE f2fs_add_regular_entry(m.d, n, i, m.new, c.meta).d
  BY Zenon DEF __f2fs_do_add_link, NoErr
<1>2. d.inline \in BOOLEAN
  BY DEF DirOK
<1>3. CASE d.inline /\ pos < NR_INLINE_DENTRY
  <2>1. ReturnsOK(more, nm, n, i)
    BY <1>3, InlineAdds
  <2>2. ReturnsOK(Failed(d, "EIO"), nm, n, i)
    BY AreErrors, FailedOK
  <2>. HIDE DEF more, f, pos
  <2>3. f = more \/ f = Failed(d, "EIO")
    BY <1>1, <1>3, Zenon
  <2>4. ReturnsOK(f, nm, n, i)
    BY <2>1, <2>2, <2>3, Zenon
  <2>. QED
    BY <2>4 DEF f
<1>4. CASE ~(d.inline /\ pos < NR_INLINE_DENTRY)
  <2>1. DirOK(m.d, nm) /\ (m.d.err = NoErr => ~m.d.inline)
    <3>1. CASE d.inline
      <4>. DEFINE a == [d |-> d, new |-> c.new]
      <4>1. LET g == f2fs_convert_inline_dir(a).d IN DirOK(g, nm) /\ (g.err = NoErr => ~g.inline)
        BY <3>1, ConvertIs
      <4>. HIDE DEF a
      <4>2. (IF d.inline THEN f2fs_convert_inline_dir(a) ELSE a) = f2fs_convert_inline_dir(a)
        BY <3>1
      <4>3. m = f2fs_convert_inline_dir(a)
        BY <4>2 DEF a
      <4>. HIDE DEF m
      <4>. QED
        BY <4>1, <4>3
    <3>2. CASE ~d.inline
      <4>1. m = [d |-> d, new |-> c.new]
        BY <3>2
      <4>2. m.d = d
        BY <4>1
      <4>. HIDE DEF m
      <4>. QED
        BY <3>2, <4>2
    <3>. QED
      BY <3>1, <3>2
  <2>. HIDE DEF m, more, pos, f
  <2>2. CASE m.d.err # NoErr
    <3>1. f = m.d
      BY <1>1, <1>4, <2>2, Zenon
    <3>2. ReturnsOK(f, nm, n, i)
      BY <2>1, <2>2, <3>1 DEF ReturnsOK
    <3>. QED
      BY <3>2 DEF f
  <2>3. CASE m.d.err = NoErr
    <3>1. f = f2fs_add_regular_entry(m.d, n, i, m.new, c.meta).d
      BY <1>1, <1>4, <2>3, Zenon
    <3>2. ReturnsOK(f, nm, n, i)
      BY <2>1, <2>3, <3>1, RegularAdds
    <3>. QED
      BY <3>2 DEF f
  <2>. QED
    BY <2>2, <2>3
<1>. QED
  BY <1>3, <1>4

(* __f2fs_add_link, where a task that has just looked knows that the name  *)
(* is not there.                                                           *)
LEMMA LinkAddedIs ==
    ASSUME NEW d, NEW nm, DirOK(d, nm), d.err = NoErr, NEW n \in Names, NEW i \in Inos, NEW t,
           d.task = t => nm[n] = 0, NEW c, c.meta \in BOOLEAN
    PROVE  ReturnsOK(__f2fs_add_link(d, n, i, t, c), nm, n, i)
<1>. DEFINE r == __f2fs_find_entry(d, n, t)
            f == __f2fs_add_link(d, n, i, t, c)
            g == [r.d EXCEPT !.task = 0]
            q == [d EXCEPT !.task = 0]
<1>1. f = IF d.task = t THEN __f2fs_do_add_link(d, n, i, c)
          ELSE IF r.de # {} THEN Failed(q, "EEXIST") ELSE __f2fs_do_add_link(g, n, i, c)
  BY Zenon DEF __f2fs_add_link
<1>2. LookedUp(d, r.d) /\ DOMAIN d = DirFields
  BY FindKeeps DEF DirOK, PagesOK
<1>3. nm[n] # 0 => r.de # {}
  <2>. SUFFICES ASSUME nm[n] # 0 PROVE r.de # {}
    OBVIOUS
  <2>. DEFINE X == IF d.inline THEN InodeEntries(d) ELSE PageEntries(d)
  <2>1. Mapping(X, nm) /\ \A x \in X : x = <<x[1], x[2]>>
    BY InInode, InPages DEF DirOK, Listing
  <2>2. n \in AnyName
    BY DEF AnyName
  <2>. HIDE DEF X
  <2>3. PICK x \in X : x[2].name = n
    BY <2>1 DEF Mapping
  <2>4. <<x[1], x[2]>> \in X
    BY <2>1
  <2>. DEFINE e == x[2]
  <2>5. e.name = n /\ \E b : <<b, e>> \in X
    BY <2>3, <2>4
  <2>. HIDE DEF e
  <2>6. e \in r.de <=> e.name = n /\ \E b : <<b, e>> \in X
    BY <2>2, FindIs, Zenon DEF X
  <2>. QED
    BY <2>5, <2>6
<1>4. DirOK(r.d, nm) /\ DOMAIN r.d = DirFields /\ r.d.err = NoErr
  BY <1>2, LookedUpOK DEF LookedUp
<1>. HIDE DEF r
<1>5. DirOK(g, nm) /\ g.err = NoErr
  BY <1>4, HintsKeep, SameDirOK
<1>6. DirOK(q, nm)
  BY <1>2, HintsKeep, SameDirOK
<1>. HIDE DEF g, q, f
<1>7. nm[n] = 0 => ReturnsOK(__f2fs_do_add_link(d, n, i, c), nm, n, i) /\ ReturnsOK(__f2fs_do_add_link(g, n, i, c), nm, n, i)
  BY <1>5, DoAddLinkIs
<1>8. ReturnsOK(Failed(q, "EEXIST"), nm, n, i)
  BY <1>6, AreErrors, FailedOK
<1>9. ReturnsOK(f, nm, n, i)
  BY <1>1, <1>3, <1>7, <1>8, Zenon
<1>. QED
  BY <1>9 DEF f

\* The same directory with other entries in its blocks, or in its inode.
OtherPages(d, f, pg) ==
    /\ DOMAIN f = DirFields /\ f.inline = d.inline /\ f.page = pg /\ f.err = d.err
    /\ f.depth = d.depth /\ f.level = d.level /\ f.size = d.size /\ f.clevel = d.clevel
OtherInode(d, f, E) ==
    /\ DOMAIN f = DirFields /\ f.inline = d.inline /\ f.page = d.page /\ f.err = d.err /\ f.ients = E
    /\ f.depth = d.depth /\ f.level = d.level /\ f.size = d.size /\ f.clevel = d.clevel

(* Entries that are where their hash says, in blocks that were there.      *)
LEMMA OtherPagesOK ==
    ASSUME NEW d, NEW nm, DirOK(d, nm), ~d.inline, NEW f, NEW pg, OtherPages(d, f, pg), NEW mm,
           DOMAIN pg \subseteq DOMAIN d.page, Listing(PairsOf(pg), mm),
           \A x \in PairsOf(pg) : \E y \in PageEntries(d) : y[1] = x[1] /\ y[2].name = x[2].name
    PROVE  DirOK(f, mm)
<1>1. PageEntries(f) = PairsOf(pg)
  BY DEF OtherPages, PageEntries
<1>2. \A x \in PageEntries(f) : Placed(d.level, d.depth, x)
  BY <1>1 DEF DirOK, PagesOK, Placed
<1>3. PagesOK(f)
  BY <1>1, <1>2 DEF DirOK, PagesOK, OtherPages, Listing
<1>. QED
  BY <1>1, <1>3 DEF DirOK, OtherPages

(* Entries in slots that were there.                                       *)
LEMMA OtherInodeOK ==
    ASSUME NEW d, NEW nm, DirOK(d, nm), d.inline, NEW f, NEW E, OtherInode(d, f, E), NEW mm,
           Listing({<<0, e>> : e \in E}, mm), \A e \in E : \E y \in d.ients : y.pos = e.pos
    PROVE  DirOK(f, mm)
<1>1. InodeEntries(f) = {<<0, e>> : e \in E} /\ PageEntries(f) = PageEntries(d)
  BY SamePages DEF OtherInode, InodeEntries
<1>2. PagesOK(f)
  BY <1>1 DEF DirOK, PagesOK, OtherInode
<1>3. InodeOK(f)
  BY DEF DirOK, InodeOK, OtherInode
<1>. QED
  BY <1>1, <1>2, <1>3 DEF DirOK, OtherInode

(* An entry that a lookup finds in blocks is in exactly one.               *)
LEMMA OneBlock ==
    ASSUME NEW d, Distinct(PageEntries(d)), NEW b, NEW e, <<b, e>> \in PageEntries(d)
    PROVE  /\ b \in DOMAIN d.page /\ e \in d.page[b]
           /\ \A x \in DOMAIN d.page : e \in d.page[x] <=> x = b
           /\ (CHOOSE x \in DOMAIN d.page : e \in d.page[x]) = b
<1>1. b \in DOMAIN d.page /\ e \in d.page[b]
  BY InPages
<1>2. ASSUME NEW x \in DOMAIN d.page, e \in d.page[x] PROVE x = b
  <2>. DEFINE y == <<x, e>>
              z == <<b, e>>
  <2>1. y \in PageEntries(d) /\ z \in PageEntries(d) /\ y[2] = e /\ z[2] = e /\ y[1] = x /\ z[1] = b
    BY <1>2, InPages
  <2>. HIDE DEF y, z
  <2>. QED
    BY <2>1 DEF Distinct
<1>. QED
  BY <1>1, <1>2

\* A block without an entry, and no block.
Without(pg, b, e) == [pg EXCEPT ![b] = @ \ {e}]
Dropped(pg, b) == [x \in DOMAIN pg \ {b} |-> pg[x]]

(* What is left.                                                           *)
LEMMA LessPairs ==
    ASSUME NEW pg, NEW b \in DOMAIN pg, NEW e, \A x \in DOMAIN pg : e \in pg[x] <=> x = b
    PROVE  /\ PairsOf(Without(pg, b, e)) = PairsOf(pg) \ {<<b, e>>}
           /\ pg[b] = {e} => PairsOf(Dropped(pg, b)) = PairsOf(pg) \ {<<b, e>>}
           /\ DOMAIN Without(pg, b, e) = DOMAIN pg /\ DOMAIN Dropped(pg, b) \subseteq DOMAIN pg
<1>. DEFINE P == Without(pg, b, e)
            Q == Dropped(pg, b)
<1>1. \A p : p \in PairsOf(pg) <=> \E x \in DOMAIN pg : \E a \in pg[x] : p = <<x, a>>
  BY DEF PairsOf
<1>2. \A p : p \in PairsOf(P) <=> \E x \in DOMAIN pg : \E a \in P[x] : p = <<x, a>>
  BY DEF PairsOf, Without
<1>3. \A p : p \in PairsOf(Q) <=> \E x \in DOMAIN pg \ {b} : \E a \in pg[x] : p = <<x, a>>
  BY DEF PairsOf, Dropped
<1>4. \A x \in DOMAIN pg : P[x] = IF x = b THEN pg[b] \ {e} ELSE pg[x]
  BY DEF Without
<1>5. DOMAIN P = DOMAIN pg /\ DOMAIN Q \subseteq DOMAIN pg
  BY DEF Without, Dropped
<1>. HIDE DEF P, Q
<1>6. \A p : p \in PairsOf(P) <=> p \in PairsOf(pg) \ {<<b, e>>}
  BY <1>1, <1>2, <1>4
<1>7. pg[b] = {e} => \A p : p \in PairsOf(Q) <=> p \in PairsOf(pg) \ {<<b, e>>}
  BY <1>1, <1>3
<1>8. PairsOf(P) = PairsOf(pg) \ {<<b, e>>}
  BY <1>6
<1>9. pg[b] = {e} => PairsOf(Q) = PairsOf(pg) \ {<<b, e>>}
  BY <1>7
<1>. QED
  BY <1>5, <1>8, <1>9 DEF P, Q

(* A replaced one.                                                         *)
LEMMA OtherPairs ==
    ASSUME NEW pg, NEW b \in DOMAIN pg, NEW e, NEW a, \A x \in DOMAIN pg : e \in pg[x] <=> x = b
    PROVE  PairsOf([x \in DOMAIN pg |-> IF e \in pg[x] THEN (pg[x] \ {e}) \cup {a} ELSE pg[x]])
             = (PairsOf(pg) \ {<<b, e>>}) \cup {<<b, a>>}
<1>. DEFINE P == [x \in DOMAIN pg |-> IF e \in pg[x] THEN (pg[x] \ {e}) \cup {a} ELSE pg[x]]
<1>1. \A p : p \in PairsOf(pg) <=> \E x \in DOMAIN pg : \E y \in pg[x] : p = <<x, y>>
  BY DEF PairsOf
<1>2. \A p : p \in PairsOf(P) <=> \E x \in DOMAIN pg : \E y \in P[x] : p = <<x, y>>
  BY DEF PairsOf
<1>3. \A x \in DOMAIN pg : P[x] = IF x = b THEN (pg[b] \ {e}) \cup {a} ELSE pg[x]
  OBVIOUS
<1>. HIDE DEF P
<1>4. \A p : p \in PairsOf(P) <=> p \in (PairsOf(pg) \ {<<b, e>>}) \cup {<<b, a>>}
  BY <1>1, <1>2, <1>3
<1>. QED
  BY <1>4 DEF P

(* f2fs_delete_entry, of an entry that a lookup has found.                 *)
LEMMA DeleteIs ==
    ASSUME NEW d, NEW nm, DirOK(d, nm), d.err = NoErr, NEW n \in Names, NEW t,
           NEW e \in __f2fs_find_entry(d, n, t).de, NEW trunc \in BOOLEAN
    PROVE  ReturnsOK(f2fs_delete_entry(d, e, trunc), nm, n, 0)
<1>. DEFINE f == f2fs_delete_entry(d, e, trunc)
            mm == [nm EXCEPT ![n] = 0]
<1>1. PICK b : e.name = n /\ <<b, e>> \in IF d.inline THEN InodeEntries(d) ELSE PageEntries(d)
  <2>1. n \in AnyName
    BY DEF AnyName
  <2>. QED
    BY <2>1, FindIs
<1>2. d.inline \in BOOLEAN /\ DOMAIN d = DirFields /\ PagesOK(d)
  BY DEF DirOK, PagesOK
<1>. DEFINE z == <<b, e>>
<1>3. z[1] = b /\ z[2] = e
  OBVIOUS
<1>4. CASE d.inline
  <2>1. f = [d EXCEPT !.ients = @ \ {e}]
    BY <1>4, Zenon DEF f2fs_delete_entry
  <2>2. OtherInode(d, f, d.ients \ {e})
    BY <1>2, <2>1 DEF OtherInode, DirFields
  <2>. HIDE DEF f
  <2>3. z \in InodeEntries(d) /\ Listing(InodeEntries(d), nm)
    BY <1>1, <1>4 DEF DirOK
  <2>4. {<<0, x>> : x \in d.ients \ {e}} = InodeEntries(d) \ {z}
    <3>1. b = 0
      BY <2>3, InInode
    <3>. QED
      BY <3>1 DEF InodeEntries
  <2>. HIDE DEF z
  <2>5. Listing(InodeEntries(d) \ {z}, mm)
    BY <1>1, <1>3, <2>3, ListingLess
  <2>. HIDE DEF mm
  <2>6. Listing({<<0, x>> : x \in d.ients \ {e}}, mm)
    BY <2>4, <2>5, Zenon
  <2>7. \A x \in d.ients \ {e} : \E y \in d.ients : y.pos = x.pos
    OBVIOUS
  <2>8. DirOK(f, mm)
    BY <1>4, <2>2, <2>6, <2>7, OtherInodeOK
  <2>9. f.err = NoErr
    BY <2>2 DEF OtherInode
  <2>. QED
    BY <2>8, <2>9 DEF ReturnsOK, mm, f
<1>5. CASE ~d.inline
  <2>. DEFINE pg == IF d.page[b] = {e} /\ trunc THEN Dropped(d.page, b) ELSE Without(d.page, b, e)
              X == PageEntries(d)
  <2>1. z \in X /\ Listing(X, nm) /\ Distinct(X)
    BY <1>1, <1>5 DEF DirOK, Listing
  <2>2. /\ b \in DOMAIN d.page /\ \A x \in DOMAIN d.page : e \in d.page[x] <=> x = b
        /\ (CHOOSE x \in DOMAIN d.page : e \in d.page[x]) = b
    BY <2>1, OneBlock
  <2>3. f = IF d.page[b] = {e} /\ trunc
            THEN [d EXCEPT !.page = Dropped(d.page, b)] ELSE [d EXCEPT !.page = Without(d.page, b, e)]
    <3>. DEFINE c == CHOOSE x \in DOMAIN d.page : e \in d.page[x]
    <3>1. f = IF d.page[c] = {e} /\ trunc
              THEN [d EXCEPT !.page = Dropped(d.page, c)] ELSE [d EXCEPT !.page = Without(d.page, c, e)]
      BY <1>2, <1>5 DEF f2fs_delete_entry, DirFields, Dropped, Without
    <3>. HIDE DEF c, f
    <3>2. c = b
      BY <2>2 DEF c
    <3>. QED
      BY <3>1, <3>2
  <2>4. f = [d EXCEPT !.page = pg]
    BY <2>3
  <2>. HIDE DEF f
  <2>5. /\ DOMAIN Dropped(d.page, b) \subseteq DOMAIN d.page /\ DOMAIN Without(d.page, b, e) \subseteq DOMAIN d.page
        /\ PairsOf(Without(d.page, b, e)) = X \ {z} /\ (d.page[b] = {e} => PairsOf(Dropped(d.page, b)) = X \ {z})
    BY <2>2, LessPairs DEF PageEntries
  <2>6. DOMAIN pg \subseteq DOMAIN d.page /\ PairsOf(pg) = X \ {z}
    BY <2>5
  <2>. HIDE DEF pg
  <2>7. OtherPages(d, f, pg)
    BY <1>2, <2>4 DEF OtherPages, DirFields
  <2>. HIDE DEF z, X
  <2>8. Listing(PairsOf(pg), mm)
    BY <1>1, <1>3, <2>1, <2>6, ListingLess
  <2>9. \A x \in PairsOf(pg) : \E y \in PageEntries(d) : y[1] = x[1] /\ y[2].name = x[2].name
    BY <2>6 DEF X
  <2>. HIDE DEF mm
  <2>10. DirOK(f, mm)
    BY <1>5, <2>6, <2>7, <2>8, <2>9, OtherPagesOK
  <2>11. f.err = NoErr
    BY <2>7 DEF OtherPages
  <2>. QED
    BY <2>10, <2>11 DEF ReturnsOK, mm, f
<1>. QED
  BY <1>2, <1>4, <1>5

(* f2fs_set_link, of an entry that a lookup has found.                     *)
LEMMA SetLinkIs ==
    ASSUME NEW d, NEW nm, DirOK(d, nm), d.err = NoErr, NEW n \in Names, NEW t,
           NEW e \in __f2fs_find_entry(d, n, t).de, NEW i \in Inos
    PROVE  ReturnsOK(f2fs_set_link(d, e, i), nm, n, i)
<1>. DEFINE f == f2fs_set_link(d, e, i)
            mm == [nm EXCEPT ![n] = i]
            a == [e EXCEPT !.ino = i]
<1>1. PICK b : e.name = n /\ <<b, e>> \in IF d.inline THEN InodeEntries(d) ELSE PageEntries(d)
  <2>1. n \in AnyName
    BY DEF AnyName
  <2>. QED
    BY <2>1, FindIs
<1>2. d.inline \in BOOLEAN /\ DOMAIN d = DirFields /\ PagesOK(d)
  BY DEF DirOK, PagesOK
<1>. DEFINE z == <<b, e>>
            X == IF d.inline THEN InodeEntries(d) ELSE PageEntries(d)
<1>3. z[1] = b /\ z[2] = e /\ z \in X /\ Listing(X, nm)
  BY <1>1, <1>2 DEF DirOK
<1>4. IsEntry(e)
  <2>. HIDE DEF z, X
  <2>. QED
    BY <1>3 DEF Listing, Distinct
<1>5. a.name = e.name /\ a.pos = e.pos
  BY <1>4 DEF IsEntry, Dentry
<1>6. Listing((X \ {z}) \cup {<<b, a>>}, mm)
  <2>. HIDE DEF z, X
  <2>. QED
    BY <1>1, <1>3, ListingOther
<1>. HIDE DEF a, mm
<1>7. CASE d.inline
  <2>. DEFINE E == (d.ients \ {e}) \cup {a}
  <2>1. b = 0 /\ e \in d.ients
    BY <1>1, <1>7, InInode
  <2>2. f = [d EXCEPT !.ients = E]
    BY <1>2, <1>7, <2>1 DEF f2fs_set_link, DirFields, a
  <2>3. OtherInode(d, f, E)
    <3>. HIDE DEF f, E
    <3>. QED
      BY <1>2, <2>2 DEF OtherInode, DirFields
  <2>. HIDE DEF f
  <2>4. {<<0, x>> : x \in E} = (X \ {z}) \cup {<<b, a>>}
    BY <1>7, <2>1 DEF InodeEntries
  <2>5. Listing({<<0, x>> : x \in E}, mm)
    BY <1>6, <2>4, Zenon
  <2>6. \A x \in E : \E y \in d.ients : y.pos = x.pos
    BY <1>5, <2>1
  <2>. HIDE DEF E
  <2>7. DirOK(f, mm)
    BY <1>7, <2>3, <2>5, <2>6, OtherInodeOK
  <2>8. f.err = NoErr
    BY <2>3 DEF OtherInode
  <2>. QED
    BY <2>7, <2>8 DEF ReturnsOK, mm, f
<1>8. CASE ~d.inline
  <2>. DEFINE pg == [x \in DOMAIN d.page |-> IF e \in d.page[x] THEN (d.page[x] \ {e}) \cup {a} ELSE d.page[x]]
  <2>1. X = PageEntries(d) /\ Distinct(PageEntries(d)) /\ <<b, e>> \in PageEntries(d)
    BY <1>1, <1>3, <1>8 DEF Listing
  <2>2. /\ b \in DOMAIN d.page /\ \A x \in DOMAIN d.page : e \in d.page[x] <=> x = b
    BY <2>1, OneBlock
  <2>3. f = [d EXCEPT !.page = pg]
    BY <1>2, <1>8 DEF f2fs_set_link, DirFields, a
  <2>. HIDE DEF f
  <2>4. DOMAIN pg = DOMAIN d.page
    OBVIOUS
  <2>5. PairsOf(pg) = (X \ {z}) \cup {<<b, a>>}
    <3>. DEFINE D == d.page
    <3>1. b \in DOMAIN D /\ \A x \in DOMAIN D : e \in D[x] <=> x = b
      BY <2>2
    <3>. HIDE DEF D, X
    <3>2. PairsOf([x \in DOMAIN D |-> IF e \in D[x] THEN (D[x] \ {e}) \cup {a} ELSE D[x]])
            = (PairsOf(D) \ {<<b, e>>}) \cup {<<b, a>>}
      BY <3>1, OtherPairs
    <3>3. X = PairsOf(D)
      BY <2>1 DEF PageEntries, D
    <3>4. PairsOf(pg) = (PairsOf(D) \ {<<b, e>>}) \cup {<<b, a>>}
      BY <3>2, Zenon DEF D
    <3>. QED
      BY <3>3, <3>4, Zenon
  <2>. HIDE DEF pg
  <2>6. OtherPages(d, f, pg)
    BY <1>2, <2>3 DEF OtherPages, DirFields
  <2>7. Listing(PairsOf(pg), mm)
    BY <1>6, <2>5, Zenon
  <2>8. \A x \in PairsOf(pg) : \E y \in PageEntries(d) : y[1] = x[1] /\ y[2].name = x[2].name
    <3>. DEFINE w == <<b, a>>
    <3>1. w[1] = b /\ w[2] = a /\ PairsOf(pg) = (X \ {z}) \cup {w}
      BY <2>5
    <3>. HIDE DEF w, z, X
    <3>. QED
      BY <1>3, <1>5, <2>1, <3>1
  <2>9. DirOK(f, mm)
    BY <1>8, <2>4, <2>6, <2>7, <2>8, OtherPagesOK
  <2>10. f.err = NoErr
    BY <2>6 DEF OtherPages
  <2>. QED
    BY <2>9, <2>10 DEF ReturnsOK, mm, f
<1>. QED
  BY <1>2, <1>7, <1>8

----------------------------------------------------------------------------
(* The directory is a map                                                  *)

\* The inductive invariant.
DirInv == DirOK(dir, names) /\ dir.err = NoErr

(* The two entries of a new directory.                                     *)
LEMMA NewListing ==
    ASSUME NEW i, NEW j, NEW level \in DirLevels
    PROVE  LET X == {<<0, Dentry(".", i, 0)>>, <<0, Dentry("..", j, 1)>>}
           IN Listing(X, [n \in Names |-> 0]) /\ \A x \in X : Placed(level, 1, x)
<1>. DEFINE a == Dentry(".", i, 0)
            c == Dentry("..", j, 1)
            y == <<0, a>>
            z == <<0, c>>
            X == {y, z}
            nm == [n \in Names |-> 0]
<1>1. "." \in Dots /\ ".." \in Dots /\ "." # ".." /\ "." \in AnyName /\ ".." \in AnyName
  BY DEF Dots, AnyName
<1>2. /\ a.name = "." /\ a.pos = 0 /\ c.name = ".." /\ c.pos = 1 /\ IsEntry(a) /\ IsEntry(c)
  BY <1>1, DentryIs
<1>3. Dotted(X)
  BY DEF Dotted
<1>. HIDE DEF a, c
<1>4. y = <<y[1], y[2]>> /\ z = <<z[1], z[2]>> /\ y[1] = 0 /\ z[1] = 0 /\ y[2] = a /\ z[2] = c
  OBVIOUS
<1>. HIDE DEF y, z
<1>5. Distinct(X)
  BY <1>1, <1>2, <1>4 DEF Distinct
<1>6. Mapping(X, nm)
  <2>1. "." \notin Names /\ ".." \notin Names
    BY <1>1, NameFacts
  <2>2. nm \in [Names -> Inos \cup {0}] /\ \A n \in Names : nm[n] = 0
    OBVIOUS
  <2>. HIDE DEF nm
  <2>. QED
    BY <1>2, <1>4, <2>1, <2>2 DEF Mapping
<1>7. \A x \in X : Placed(level, 1, x)
  <2>1. 0 \in Bucket(0, level, 0)
    BY FirstBlock
  <2>. QED
    BY <1>2, <1>4, <2>1, NameFacts DEF Placed
<1>. HIDE DEF nm
<1>8. Listing(X, nm)
  BY <1>3, <1>5, <1>6 DEF Listing
<1>. QED
  BY <1>7, <1>8 DEF nm, a, c, y, z

(* make_empty_dir makes a directory without names.                         *)
LEMMA NewDirOK ==
    ASSUME NEW level \in DirLevels, NEW inline \in BOOLEAN
    PROVE  DirOK(NewDir(level, inline), [n \in Names |-> 0]) /\ NewDir(level, inline).err = NoErr
<1>. DEFINE mi == Min(Inos)
            ma == Max(Inos)
            dots == {Dentry(".", mi, 0), Dentry("..", ma, 1)}
            X == {<<0, Dentry(".", mi, 0)>>, <<0, Dentry("..", ma, 1)>>}
            nm == [n \in Names |-> 0]
            d == NewDir(level, inline)
            er == ""
<1>1. d = [inline |-> inline, ients |-> IF inline THEN dots ELSE {},
           page |-> IF inline THEN << >> ELSE [b \in {0} |-> dots],
           depth |-> 1, level |-> level, size |-> 1, chash |-> 0, clevel |-> 0,
           task |-> 0, err |-> er]
  BY Zenon DEF NewDir
<1>2. er = NoErr
  BY Zenon DEF NoErr
<1>. HIDE DEF er, mi, ma, dots, d
<1>3. /\ DOMAIN d = DirFields /\ d.inline = inline /\ d.ients = (IF inline THEN dots ELSE {})
      /\ d.page = (IF inline THEN << >> ELSE [b \in {0} |-> dots]) /\ d.depth = 1 /\ d.level = level
      /\ d.size = 1 /\ d.clevel = 0 /\ d.err = NoErr
  BY <1>1, <1>2 DEF DirFields
<1>4. Listing(X, nm) /\ \A x \in X : Placed(level, 1, x)
  BY NewListing
<1>5. {<<0, e>> : e \in dots} = X
  BY DEF dots
<1>. HIDE DEF X, nm
<1>6. CASE inline
  <2>1. PageEntries(d) = {} /\ DOMAIN d.page = {} /\ InodeEntries(d) = X /\ d.page = << >>
    BY <1>3, <1>5, <1>6, NoPages DEF InodeEntries
  <2>2. Distinct({})
    BY DEF Distinct
  <2>3. PagesOK(d)
    BY <1>3, <2>1, <2>2, DirectoryAssumption DEF PagesOK
  <2>4. \A e \in d.ients : e.pos < NR_INLINE_DENTRY
    BY <1>3, <1>6, DentryIs, NameFacts DEF dots
  <2>5. DirOK(d, nm)
    BY <1>3, <1>4, <1>6, <2>1, <2>3, <2>4 DEF DirOK, InodeOK
  <2>. QED
    BY <1>3, <2>5 DEF d, nm
<1>7. CASE ~inline
  <2>1. d.page = [b \in {0} |-> dots] /\ DOMAIN d.page = {0} /\ d.page[0] = dots
    BY <1>3, <1>7
  <2>2. PageEntries(d) = X
    BY <1>5, <2>1 DEF PageEntries, PairsOf
  <2>3. PagesOK(d)
    BY <1>3, <1>4, <2>1, <2>2, DirectoryAssumption DEF PagesOK, Listing
  <2>4. DirOK(d, nm)
    BY <1>3, <1>4, <1>7, <2>2, <2>3 DEF DirOK
  <2>. QED
    BY <1>3, <2>4 DEF d, nm
<1>. QED
  BY <1>6, <1>7

(* What a call that returns leaves.                                        *)
LEMMA ReturnOK ==
    ASSUME NEW d, NEW n, NEW i, ReturnsOK(d, names, n, i), DirReturn(d, n, i)
    PROVE  DirInv'
<1>. DEFINE f == [d EXCEPT !.err = NoErr]
<1>1. dir' = f
  BY Zenon DEF DirReturn, NoErr
<1>2. names' = IF d.err = NoErr THEN [names EXCEPT ![n] = i] ELSE names
  BY Zenon DEF DirReturn, NoErr
<1>3. DOMAIN d = DirFields
  BY DEF ReturnsOK, DirOK, PagesOK
<1>4. SameDir(d, f) /\ f.err = NoErr
  BY <1>3, HintsKeep
<1>. HIDE DEF f
<1>5. DirOK(d, names')
  BY <1>2 DEF ReturnsOK
<1>6. DirOK(f, names')
  BY <1>4, <1>5, SameDirOK
<1>7. DirOK(dir', names') /\ dir'.err = NoErr
  BY <1>1, <1>4, <1>6
<1>8. DirInv' <=> DirOK(dir', names') /\ dir'.err = NoErr
  BY DEF DirInv, DirOK, PagesOK, InodeOK, Listing, Mapping, Distinct, Dotted, PageEntries, PairsOf, InodeEntries, Placed
<1>. QED
  BY <1>7, <1>8

(* Every lookup, addition, removal and change of a link keeps the          *)
(* directory in order.                                                     *)
THEOREM DirectoryInductive == DirSpec => []DirInv
<1>1. DirInit => DirInv
  <2>. SUFFICES ASSUME DirInit PROVE DirInv
    OBVIOUS
  <2>1. PICK level \in DirLevels, inline \in BOOLEAN : dir = NewDir(level, inline)
    BY DEF DirInit
  <2>2. names = [n \in Names |-> 0]
    BY DEF DirInit
  <2>. QED
    BY <2>1, <2>2, NewDirOK DEF DirInv
<1>2. DirInv /\ [DirNext]_dirVars => DirInv'
  <2>. SUFFICES ASSUME DirInv, [DirNext]_dirVars PROVE DirInv'
    OBVIOUS
  <2>1. DirOK(dir, names) /\ dir.err = NoErr
    BY DEF DirInv
  <2>2. names \in [Names -> Inos \cup {0}]
    BY <2>1 DEF DirOK, Listing, Mapping
  <2>3. CASE DirLookup
    <3>1. PICK n \in Names, t \in Tasks : DirReturn(__f2fs_find_entry(dir, n, t).d, n, names[n])
      BY <2>3 DEF DirLookup
    <3>. DEFINE f == __f2fs_find_entry(dir, n, t).d
    <3>2. LookedUp(dir, f)
      BY <2>1, FindKeeps
    <3>3. DirOK(f, names) /\ f.err = NoErr
      BY <2>1, <3>2, LookedUpOK DEF LookedUp
    <3>4. [names EXCEPT ![n] = names[n]] = names
      BY <2>2
    <3>5. ReturnsOK(f, names, n, names[n])
      BY <3>3, <3>4 DEF ReturnsOK
    <3>. QED
      BY <3>1, <3>5, ReturnOK
  <2>4. CASE DirAdd
    <3>1. PICK n \in Names, ino \in Inos, t \in Tasks, new \in 0 .. MaxNewBlocks, meta \in BOOLEAN :
            /\ dir.task = t => names[n] = 0
            /\ DirReturn(__f2fs_add_link(dir, n, ino, t, [new |-> new, meta |-> meta]), n, ino)
      BY <2>4 DEF DirAdd
    <3>. DEFINE c == [new |-> new, meta |-> meta]
    <3>2. c.meta \in BOOLEAN
      OBVIOUS
    <3>. HIDE DEF c
    <3>3. ReturnsOK(__f2fs_add_link(dir, n, ino, t, c), names, n, ino)
      BY <2>1, <3>1, <3>2, LinkAddedIs
    <3>4. DirReturn(__f2fs_add_link(dir, n, ino, t, c), n, ino)
      BY <3>1, Zenon DEF c
    <3>. QED
      BY <3>3, <3>4, ReturnOK
  <2>5. CASE DirRemove
    <3>1. PICK n \in Names, trunc \in BOOLEAN :
            \E e \in __f2fs_find_entry(dir, n, 0).de : DirReturn(f2fs_delete_entry(dir, e, trunc), n, 0)
      BY <2>5 DEF DirRemove
    <3>2. PICK e \in __f2fs_find_entry(dir, n, 0).de : DirReturn(f2fs_delete_entry(dir, e, trunc), n, 0)
      BY <3>1
    <3>3. ReturnsOK(f2fs_delete_entry(dir, e, trunc), names, n, 0)
      BY <2>1, DeleteIs
    <3>. QED
      BY <3>2, <3>3, ReturnOK
  <2>6. CASE DirSetLink
    <3>1. PICK n \in Names, ino \in Inos :
            \E e \in __f2fs_find_entry(dir, n, 0).de : DirReturn(f2fs_set_link(dir, e, ino), n, ino)
      BY <2>6 DEF DirSetLink
    <3>2. PICK e \in __f2fs_find_entry(dir, n, 0).de : DirReturn(f2fs_set_link(dir, e, ino), n, ino)
      BY <3>1
    <3>3. ReturnsOK(f2fs_set_link(dir, e, ino), names, n, ino)
      BY <2>1, SetLinkIs
    <3>. QED
      BY <3>2, <3>3, ReturnOK
  <2>7. CASE UNCHANGED dirVars
    BY <2>7 DEF dirVars, DirInv, DirOK, PagesOK, InodeOK, Listing, Mapping, Distinct, Dotted, PageEntries,
                PairsOf, InodeEntries, Placed
  <2>. QED
    BY <2>3, <2>4, <2>5, <2>6, <2>7 DEF DirNext
<1>. QED
  BY <1>1, <1>2, PTL DEF DirSpec

(* What a lookup, a listing and the test for an empty directory say of     *)
(* directories in order.                                                   *)
LEMMA DirExactIs == DirInv => DirExact
<1>. SUFFICES ASSUME DirInv PROVE DirExact
  OBVIOUS
<1>. DEFINE X == IF dir.inline THEN InodeEntries(dir) ELSE PageEntries(dir)
            there == {n \in Names : names[n] # 0}
            entries == f2fs_readdir(dir)
            found(n) == __f2fs_find_entry(dir, n, 0).de
<1>1. /\ DirOK(dir, names) /\ dir.inline \in BOOLEAN /\ Listing(X, names)
      /\ ~dir.inline => DOMAIN dir.page \subseteq 0 .. dir.size - 1
  BY DEF DirInv, DirOK, PagesOK
<1>2. Distinct(X) /\ Dotted(X) /\ Mapping(X, names)
  BY <1>1 DEF Listing
<1>3. entries = X
  <2>1. CASE dir.inline
    BY <2>1 DEF f2fs_readdir, InodeEntries
  <2>2. CASE ~dir.inline
    <3>1. DOMAIN dir.page \cap 0 .. dir.size - 1 = DOMAIN dir.page
      BY <1>1, <2>2
    <3>2. entries = UNION {{<<b, e>> : e \in dir.page[b]} : b \in DOMAIN dir.page}
      BY <2>2, <3>1, Zenon DEF f2fs_readdir
    <3>. QED
      BY <2>2, <3>2 DEF PageEntries, PairsOf
  <2>. QED
    BY <1>1, <2>1, <2>2
<1>4. f2fs_empty_dir(dir) <=> \A x \in X : x[1] = 0 /\ x[2].pos < 2
  <2>1. CASE dir.inline
    <3>1. f2fs_empty_dir(dir) <=> \A e \in dir.ients : e.pos < 2
      BY <2>1, Zenon DEF f2fs_empty_dir
    <3>2. ASSUME f2fs_empty_dir(dir), NEW x \in X PROVE x[1] = 0 /\ x[2].pos < 2
      BY <2>1, <3>1, <3>2, InInode
    <3>3. ASSUME \A x \in X : x[1] = 0 /\ x[2].pos < 2, NEW e \in dir.ients PROVE e.pos < 2
      <4>. DEFINE y == <<0, e>>
      <4>1. y \in X /\ y[2] = e
        BY <2>1, InInode
      <4>. HIDE DEF y, X
      <4>. QED
        BY <3>3, <4>1
    <3>. QED
      BY <3>1, <3>2, <3>3
  <2>2. CASE ~dir.inline
    <3>1. DOMAIN dir.page \cap 0 .. dir.size - 1 = DOMAIN dir.page
      BY <1>1, <2>2
    <3>2. f2fs_empty_dir(dir) <=> \A b \in DOMAIN dir.page : \A e \in dir.page[b] : b = 0 /\ e.pos < 2
      BY <2>2, <3>1, Zenon DEF f2fs_empty_dir
    <3>3. ASSUME f2fs_empty_dir(dir), NEW x \in X PROVE x[1] = 0 /\ x[2].pos < 2
      BY <2>2, <3>2, <3>3, InPages
    <3>4. ASSUME \A x \in X : x[1] = 0 /\ x[2].pos < 2, NEW b \in DOMAIN dir.page, NEW e \in dir.page[b]
          PROVE  b = 0 /\ e.pos < 2
      <4>. DEFINE y == <<b, e>>
      <4>1. y \in X /\ y[1] = b /\ y[2] = e
        BY <2>2, InPages
      <4>. HIDE DEF y, X
      <4>. QED
        BY <3>4, <4>1
    <3>. QED
      BY <3>2, <3>3, <3>4
  <2>. QED
    BY <1>1, <2>1, <2>2
<1>5. \A n \in AnyName : \A e : e \in found(n) <=> e.name = n /\ \E b : <<b, e>> \in X
  BY <1>1, FindIs
<1>. HIDE DEF found
<1>6. \A x \in X : x = <<x[1], x[2]>>
  BY <1>2 DEF Distinct
<1>. HIDE DEF X
<1>7. \A n \in AnyName : \A e \in found(n) : \E x \in X : x[2] = e /\ x[2].name = n
  <2>. SUFFICES ASSUME NEW n \in AnyName, NEW e \in found(n) PROVE \E x \in X : x[2] = e /\ x[2].name = n
    OBVIOUS
  <2>1. PICK b : e.name = n /\ <<b, e>> \in X
    BY <1>5
  <2>. DEFINE y == <<b, e>>
  <2>2. y \in X /\ y[2] = e
    BY <2>1
  <2>. HIDE DEF y
  <2>. QED
    BY <2>1, <2>2
<1>8. \A x \in X : x[2].name \in AnyName /\ x[2] \in found(x[2].name)
  <2>. SUFFICES ASSUME NEW x \in X PROVE x[2].name \in AnyName /\ x[2] \in found(x[2].name)
    OBVIOUS
  <2>1. x[2].name \in AnyName
    BY <1>2 DEF Distinct, IsEntry
  <2>2. <<x[1], x[2]>> \in X
    BY <1>6
  <2>. QED
    BY <1>5, <2>1, <2>2
<1>9. ASSUME NEW n \in Names PROVE {e.ino : e \in found(n)} = {names[n]} \ {0}
  <2>1. n \in AnyName
    BY DEF AnyName
  <2>2. \A e \in found(n) : e.ino = names[n] /\ names[n] # 0
    BY <1>2, <1>7, <2>1 DEF Mapping
  <2>3. names[n] # 0 => found(n) # {}
    BY <1>2, <1>8 DEF Mapping
  <2>. QED
    BY <2>2, <2>3
<1>10. ASSUME NEW n \in Dots PROVE Cardinality(found(n)) = 1
  <2>1. n \in AnyName
    BY DEF AnyName
  <2>2. PICK x \in X : x[2].name = n
    <3>1. PICK i : <<0, Dentry(".", i, 0)>> \in X
      BY <1>2 DEF Dotted
    <3>2. PICK j : <<0, Dentry("..", j, 1)>> \in X
      BY <1>2 DEF Dotted
    <3>. DEFINE y == <<0, Dentry(".", i, 0)>>
                z == <<0, Dentry("..", j, 1)>>
    <3>3. y \in X /\ y[2].name = "." /\ z \in X /\ z[2].name = ".."
      BY <3>1, <3>2, DentryIs
    <3>4. n = "." \/ n = ".."
      BY DEF Dots
    <3>. HIDE DEF y, z
    <3>. QED
      BY <3>3, <3>4
  <2>3. \A e \in found(n) : e = x[2]
    BY <1>2, <1>7, <2>1, <2>2 DEF Distinct
  <2>4. found(n) = {x[2]}
    BY <1>8, <2>2, <2>3
  <2>. QED
    BY <2>4, FS_Singleton
<1>11. /\ {x[2].name : x \in X} = there \cup Dots
       /\ Cardinality(X) = Cardinality(there) + 2
       /\ (\A x \in X : x[1] = 0 /\ x[2].pos < 2) <=> there = {}
  BY <1>1, ListingIs
<1>. HIDE DEF there, entries
<1>12. /\ \A n \in Names : {e.ino : e \in found(n)} = {names[n]} \ {0}
       /\ \A n \in Dots : Cardinality(found(n)) = 1
       /\ {x[2].name : x \in entries} = there \cup Dots
       /\ Cardinality(entries) = Cardinality(there) + 2
       /\ f2fs_empty_dir(dir) <=> there = {}
  BY <1>3, <1>4, <1>9, <1>10, <1>11, Zenon
<1>. QED
  BY <1>12, Zenon DEF DirExact, there, entries, found

(* The directory is a map from names to inodes, for all names, hashes,     *)
(* sizes of blocks and inodes and numbers of levels: lookups, listings and *)
(* the test for an empty directory agree with the calls that succeeded     *)
(* (dir.c, inline.c).                                                      *)
THEOREM DirectoryIsMap == DirSpec => []DirExact
BY DirectoryInductive, DirExactIs, PTL
=============================================================================
