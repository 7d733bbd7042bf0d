--------------------------- MODULE NodeListProofs ---------------------------
(***************************************************************************)
(* More theorems about NodeManager: the list of free nids, their bitmap    *)
(* and counts, the owners of nids and the checkpointed flag of cached      *)
(* entries.  They rest on NatInv of NodeManagerProofs.                     *)
(***************************************************************************)
EXTENDS NodeManagerProofs, WellFoundedInduction, NaturalsInduction

----------------------------------------------------------------------------
(* Sequences without repetition                                            *)

(* A nonempty set of numbers has a least one.                              *)
LEMMA Least ==
    ASSUME NEW S \in SUBSET Nat, S # {}
    PROVE  \E x \in S : \A y \in S : x <= y
<1>. DEFINE R == {ss \in Nat \X Nat : ss[1] < ss[2]}
<1>1. IsWellFoundedOn(R, Nat)
  BY NatLessThanWellFounded, Zenon DEF OpToRel
<1>. HIDE DEF R
<1>2. PICK x \in S : \A y \in S : ~(<<y, x>> \in R)
  BY <1>1, WFMin, Zenon
<1>3. ASSUME NEW y \in S PROVE x <= y
  <2>1. y < x => <<y, x>> \in R
    BY DEF R
  <2>. QED
    BY <1>2, <2>1
<1>. QED
  BY <1>3

(* So a set of numbers with 0 and with every successor has all of them.    *)
LEMMA Induction ==
    ASSUME NEW S, 0 \in S, \A n \in Nat : n \in S => n + 1 \in S
    PROVE  Nat \subseteq S
<1>. SUFFICES ASSUME Nat \ S # {} PROVE FALSE
  OBVIOUS
<1>1. PICK x \in Nat \ S : \A y \in Nat \ S : x <= y
  BY Least
<1>2. x # 0 /\ x - 1 \in Nat
  BY <1>1
<1>3. x - 1 \in S
  BY <1>1, <1>2
<1>. QED
  BY <1>1, <1>2, <1>3

(* The step of Filter.                                                     *)
Keep(s, S, q, i) == IF s[i] \in S THEN Append(q, s[i]) ELSE q
IsKept(s, S, n, f) ==
    f = [i \in 0 .. n |-> IF i = 0 THEN <<>>
                          ELSE IF s[i] \in S THEN Append(f[i - 1], s[i]) ELSE f[i - 1]]

(* The recursive function of Filter exists, for every length.              *)
LEMMA KeptExists ==
    ASSUME NEW s, NEW S, NEW m \in Nat
    PROVE  \E f : IsKept(s, S, m, f)
<1>. DEFINE T == {n \in Nat : \E f : IsKept(s, S, n, f)}
<1>1. 0 \in T
  <2>. DEFINE f == [i \in 0 .. 0 |-> <<>>]
  <2>1. IsKept(s, S, 0, f)
    BY DEF IsKept
  <2>. QED
    BY <2>1
<1>2. ASSUME NEW n \in Nat, n \in T PROVE n + 1 \in T
  <2>1. PICK f : IsKept(s, S, n, f)
    BY <1>2
  <2>. DEFINE g == [i \in 0 .. n + 1 |-> IF i = n + 1 THEN Keep(s, S, f[n], n + 1) ELSE f[i]]
              h == [i \in 0 .. n + 1 |-> IF i = 0 THEN <<>>
                          ELSE IF s[i] \in S THEN Append(g[i - 1], s[i]) ELSE g[i - 1]]
  <2>2. \A i \in 0 .. n : f[i] = IF i = 0 THEN <<>>
                          ELSE IF s[i] \in S THEN Append(f[i - 1], s[i]) ELSE f[i - 1]
    BY <2>1 DEF IsKept
  <2>3. \A i \in 0 .. n + 1 : g[i] = h[i]
    BY <2>2 DEF Keep
  <2>4. g = h
    BY <2>3
  <2>5. IsKept(s, S, n + 1, g)
    BY <2>4 DEF IsKept
  <2>. QED
    BY <2>5
<1>. HIDE DEF T
<1>3. Nat \subseteq T
  BY <1>1, <1>2, Induction
<1>. QED
  BY <1>3 DEF T

(* No element comes twice in q.                                            *)
Once(q) == \A i, j \in 1 .. Len(q) : q[i] = q[j] => i = j

(* It is what IsInjective says.                                            *)
LEMMA OnceIs == ASSUME NEW T, NEW q \in Seq(T) PROVE IsInjective(q) <=> Once(q)
<1>1. DOMAIN q = 1 .. Len(q)
  OBVIOUS
<1>. QED
  BY <1>1 DEF IsInjective, Once

(* Elements and repetitions after Append.                                  *)
LEMMA AppendIs ==
    ASSUME NEW T, NEW q \in Seq(T), NEW x \in T
    PROVE  /\ Append(q, x) \in Seq(T)
           /\ ToSet(Append(q, x)) = ToSet(q) \cup {x}
           /\ Once(q) /\ x \notin ToSet(q) => Once(Append(q, x))
<1>1. Append(q, x) \in Seq(T) /\ Len(Append(q, x)) = Len(q) + 1 /\ Len(q) \in Nat
  OBVIOUS
<1>2. \A i \in 1 .. Len(q) : Append(q, x)[i] = q[i]
  OBVIOUS
<1>3. Append(q, x)[Len(q) + 1] = x
  OBVIOUS
<1>. DEFINE a == Append(q, x)
<1>. HIDE DEF a
<1>4. ToSet(a) = ToSet(q) \cup {x}
  <2>1. DOMAIN a = 1 .. Len(q) + 1 /\ DOMAIN q = 1 .. Len(q)
    BY <1>1 DEF a
  <2>. QED
    BY <1>1, <1>2, <1>3, <2>1 DEF ToSet, a
<1>5. Once(q) /\ x \notin ToSet(q) => Once(a)
  <2>1. DOMAIN q = 1 .. Len(q)
    OBVIOUS
  <2>2. x \notin ToSet(q) => \A i \in 1 .. Len(q) : q[i] # x
    BY <2>1 DEF ToSet
  <2>. QED
    BY <1>1, <1>2, <1>3, <2>2 DEF Once, a
<1>. QED
  BY <1>1, <1>4, <1>5 DEF a

(* Filter keeps the elements of S, each once if it came once.              *)
LEMMA FilterIs ==
    ASSUME NEW T, NEW s \in Seq(T), NEW S
    PROVE  /\ Filter(s, S) \in Seq(T)
           /\ ToSet(Filter(s, S)) = ToSet(s) \cap S
           /\ Once(s) => Once(Filter(s, S))
<1>. DEFINE N == Len(s)
            f == CHOOSE f : IsKept(s, S, N, f)
            Done(i) == /\ f[i] \in Seq(T) /\ ToSet(f[i]) = {s[j] : j \in 1 .. i} \cap S
                       /\ Once(s) => Once(f[i])
<1>1. N \in Nat
  OBVIOUS
<1>2. IsKept(s, S, N, f)
  BY <1>1, KeptExists
<1>3. Filter(s, S) = f[N]
  BY DEF Filter, IsKept
<1>. HIDE DEF f
<1>4. \A i \in 0 .. N : f[i] = IF i = 0 THEN <<>>
                          ELSE IF s[i] \in S THEN Append(f[i - 1], s[i]) ELSE f[i - 1]
  BY <1>2 DEF IsKept
<1>. DEFINE D == {i \in Nat : i <= N => Done(i)}
<1>5. 0 \in D
  <2>1. f[0] = <<>>
    BY <1>1, <1>4
  <2>2. f[0] \in Seq(T) /\ ToSet(f[0]) = {} /\ Once(f[0])
    BY <2>1 DEF ToSet, Once
  <2>. QED
    BY <2>2
<1>6. ASSUME NEW i \in Nat, i \in D PROVE i + 1 \in D
  <2>. SUFFICES ASSUME i + 1 <= N PROVE Done(i + 1)
    OBVIOUS
  <2>1. Done(i)
    BY <1>1, <1>6
  <2>. DEFINE x == s[i + 1]
  <2>2. f[i + 1] = IF x \in S THEN Append(f[i], x) ELSE f[i]
    BY <1>1, <1>4
  <2>3. x \in T
    BY <1>1
  <2>4. {s[j] : j \in 1 .. i + 1} = {s[j] : j \in 1 .. i} \cup {x}
    BY <1>1
  <2>5. Once(s) => x \notin {s[j] : j \in 1 .. i}
    BY <1>1 DEF Once
  <2>. DEFINE P == {s[j] : j \in 1 .. i}
  <2>. HIDE DEF x, P
  <2>6. /\ f[i] \in Seq(T) /\ ToSet(f[i]) = P \cap S /\ (Once(s) => Once(f[i]))
    BY <2>1 DEF P
  <2>7. /\ f[i + 1] \in Seq(T) /\ ToSet(f[i + 1]) = (P \cup {x}) \cap S /\ (Once(s) => Once(f[i + 1]))
    <3>1. CASE x \in S
      <4>1. /\ Append(f[i], x) \in Seq(T) /\ ToSet(Append(f[i], x)) = ToSet(f[i]) \cup {x}
            /\ Once(f[i]) /\ x \notin ToSet(f[i]) => Once(Append(f[i], x))
        BY <2>3, <2>6, AppendIs
      <4>2. Once(s) => x \notin P
        BY <2>5 DEF P
      <4>3. f[i + 1] = Append(f[i], x)
        BY <2>2, <3>1
      <4>. QED
        BY <2>6, <3>1, <4>1, <4>2, <4>3
    <3>2. CASE x \notin S
      BY <2>2, <2>6, <3>2
    <3>. QED
      BY <3>1, <3>2
  <2>. QED
    BY <2>4, <2>7 DEF P
<1>. HIDE DEF D
<1>7. Nat \subseteq D
  BY <1>5, <1>6, Induction
<1>8. Done(N)
  <2>1. N \in D /\ N <= N
    BY <1>1, <1>7
  <2>. HIDE DEF N, Done
  <2>. QED
    BY <2>1 DEF D
<1>9. {s[j] : j \in 1 .. N} = ToSet(s)
  BY DEF ToSet
<1>. QED
  BY <1>3, <1>8, <1>9

(* Two sequences without a common element.                                 *)
LEMMA ConcatIs ==
    ASSUME NEW T, NEW p \in Seq(T), NEW q \in Seq(T)
    PROVE  /\ p \o q \in Seq(T) /\ ToSet(p \o q) = ToSet(p) \cup ToSet(q)
           /\ Once(p) /\ Once(q) /\ ToSet(p) \cap ToSet(q) = {} => Once(p \o q)
<1>1. p \o q \in Seq(T) /\ Len(p \o q) = Len(p) + Len(q) /\ Len(p) \in Nat /\ Len(q) \in Nat
  OBVIOUS
<1>2. /\ \A i \in 1 .. Len(p) : (p \o q)[i] = p[i]
      /\ \A i \in 1 .. Len(q) : (p \o q)[Len(p) + i] = q[i]
  OBVIOUS
<1>. DEFINE a == p \o q
<1>3. DOMAIN a = 1 .. Len(p) + Len(q) /\ DOMAIN p = 1 .. Len(p) /\ DOMAIN q = 1 .. Len(q)
  BY <1>1
<1>. HIDE DEF a
<1>4. \A i \in 1 .. Len(p) + Len(q) : \/ i \in 1 .. Len(p) /\ a[i] = p[i]
                                      \/ i - Len(p) \in 1 .. Len(q) /\ a[i] = q[i - Len(p)]
  <2>. SUFFICES ASSUME NEW i \in 1 .. Len(p) + Len(q), i \notin 1 .. Len(p)
                PROVE  i - Len(p) \in 1 .. Len(q) /\ a[i] = q[i - Len(p)]
    BY <1>2 DEF a
  <2>1. i - Len(p) \in 1 .. Len(q) /\ i = Len(p) + (i - Len(p))
    BY <1>1
  <2>. QED
    BY <1>2, <2>1 DEF a
<1>5. ToSet(a) = ToSet(p) \cup ToSet(q)
  <2>1. \A x \in ToSet(a) : x \in ToSet(p) \cup ToSet(q)
    BY <1>3, <1>4 DEF ToSet
  <2>2. \A x \in ToSet(p) : x \in ToSet(a)
    BY <1>1, <1>2, <1>3 DEF ToSet, a
  <2>3. ASSUME NEW x \in ToSet(q) PROVE x \in ToSet(a)
    <3>1. PICK i \in 1 .. Len(q) : x = q[i]
      BY <1>3 DEF ToSet
    <3>2. Len(p) + i \in DOMAIN a /\ a[Len(p) + i] = x
      BY <1>1, <1>2, <1>3, <3>1 DEF a
    <3>. QED
      BY <3>2 DEF ToSet
  <2>. QED
    BY <2>1, <2>2, <2>3
<1>6. ASSUME Once(p), Once(q), ToSet(p) \cap ToSet(q) = {} PROVE Once(a)
  <2>. SUFFICES ASSUME NEW i \in 1 .. Len(a), NEW j \in 1 .. Len(a), a[i] = a[j] PROVE i = j
    BY DEF Once
  <2>1. Len(a) = Len(p) + Len(q)
    BY <1>1 DEF a
  <2>2. \A k \in 1 .. Len(p) : p[k] \in ToSet(p)
    BY <1>3 DEF ToSet
  <2>3. \A k \in 1 .. Len(q) : q[k] \in ToSet(q)
    BY <1>3 DEF ToSet
  <2>4. i \in 1 .. Len(p) + Len(q) /\ j \in 1 .. Len(p) + Len(q)
    BY <2>1
  <2>5. CASE i \in 1 .. Len(p) /\ a[i] = p[i] /\ j \in 1 .. Len(p) /\ a[j] = p[j]
    BY <1>6, <2>5 DEF Once
  <2>6. CASE /\ i - Len(p) \in 1 .. Len(q) /\ a[i] = q[i - Len(p)]
             /\ j - Len(p) \in 1 .. Len(q) /\ a[j] = q[j - Len(p)]
    <3>1. i - Len(p) = j - Len(p)
      BY <1>6, <2>6 DEF Once
    <3>. QED
      BY <1>1, <2>4, <3>1
  <2>7. CASE i \in 1 .. Len(p) /\ a[i] = p[i] /\ j - Len(p) \in 1 .. Len(q) /\ a[j] = q[j - Len(p)]
    BY <1>6, <2>2, <2>3, <2>7
  <2>8. CASE j \in 1 .. Len(p) /\ a[j] = p[j] /\ i - Len(p) \in 1 .. Len(q) /\ a[i] = q[i - Len(p)]
    BY <1>6, <2>2, <2>3, <2>8
  <2>. QED
    BY <1>4, <2>4, <2>5, <2>6, <2>7, <2>8
<1>. QED
  BY <1>1, <1>5, <1>6 DEF a

(* The head of a list leaves it; any other end part leaves it as well.     *)
LEMMA RestIs ==
    ASSUME NEW T, NEW q \in Seq(T), Once(q)
    PROVE  /\ q # <<>> => /\ Head(q) \in ToSet(q) /\ Tail(q) \in Seq(T) /\ Once(Tail(q))
                          /\ ToSet(Tail(q)) = ToSet(q) \ {Head(q)}
           /\ \A k \in 1 .. Len(q) : /\ SubSeq(q, k + 1, Len(q)) \in Seq(T)
                                     /\ Once(SubSeq(q, k + 1, Len(q)))
                                     /\ ToSet(SubSeq(q, k + 1, Len(q))) \subseteq ToSet(q)
<1>0. DOMAIN q = 1 .. Len(q) /\ Len(q) \in Nat
  OBVIOUS
<1>1. ASSUME q # <<>>
      PROVE  /\ Head(q) \in ToSet(q) /\ Tail(q) \in Seq(T) /\ Once(Tail(q))
             /\ ToSet(Tail(q)) = ToSet(q) \ {Head(q)}
  <2>1. /\ Head(q) = q[1] /\ Tail(q) \in Seq(T) /\ Len(q) > 0 /\ Len(Tail(q)) = Len(q) - 1
        /\ DOMAIN Tail(q) = 1 .. Len(q) - 1 /\ \A i \in 1 .. Len(q) - 1 : Tail(q)[i] = q[i + 1]
    BY <1>1
  <2>. DEFINE t == Tail(q)
  <2>. HIDE DEF t
  <2>2. Once(t)
    BY <1>0, <2>1 DEF Once, t
  <2>3. Head(q) \in ToSet(q)
    BY <1>0, <2>1 DEF ToSet
  <2>4. \A i \in 2 .. Len(q) : i - 1 \in 1 .. Len(q) - 1 /\ q[i] = t[i - 1] /\ q[i] # q[1]
    BY <1>0, <2>1 DEF t, Once
  <2>5. \A i \in 1 .. Len(q) - 1 : i + 1 \in 2 .. Len(q) /\ t[i] = q[i + 1]
    BY <1>0, <2>1 DEF t
  <2>6. ToSet(t) = ToSet(q) \ {q[1]}
    <3>1. ASSUME NEW x \in ToSet(t) PROVE x \in ToSet(q) \ {q[1]}
      BY <1>0, <2>1, <2>4, <2>5 DEF ToSet, t
    <3>2. ASSUME NEW x \in ToSet(q) \ {q[1]} PROVE x \in ToSet(t)
      <4>1. PICK i \in 1 .. Len(q) : x = q[i]
        BY <1>0 DEF ToSet
      <4>2. i \in 2 .. Len(q)
        BY <1>0, <3>2, <4>1
      <4>. QED
        BY <2>1, <2>4, <4>1, <4>2 DEF ToSet, t
    <3>. QED
      BY <3>1, <3>2
  <2>. QED
    BY <2>1, <2>2, <2>3, <2>6 DEF t
<1>2. ASSUME NEW k \in 1 .. Len(q)
      PROVE  /\ SubSeq(q, k + 1, Len(q)) \in Seq(T)
             /\ Once(SubSeq(q, k + 1, Len(q)))
             /\ ToSet(SubSeq(q, k + 1, Len(q))) \subseteq ToSet(q)
  <2>. DEFINE t == SubSeq(q, k + 1, Len(q))
  <2>1. /\ t \in Seq(T) /\ Len(t) = Len(q) - k /\ DOMAIN t = 1 .. Len(q) - k
        /\ \A i \in 1 .. Len(q) - k : t[i] = q[i + k]
    <3>1. \A i \in k + 1 .. Len(q) : q[i] \in T
      BY <1>0
    <3>2. t = [i \in 1 .. Len(q) - k |-> q[i + k]]
      BY <1>0
    <3>3. Len(q) - k \in Nat
      BY <1>0
    <3>. DEFINE m == Len(q) - k
    <3>. HIDE DEF t
    <3>4. \A i \in 1 .. m : q[i + k] \in T
      BY <1>0, <3>1
    <3>. HIDE DEF m
    <3>5. t = [i \in 1 .. m |-> q[i + k]] /\ m \in Nat
      BY <3>2, <3>3 DEF m
    <3>6. t \in Seq(T) /\ Len(t) = m /\ DOMAIN t = 1 .. m /\ \A i \in 1 .. m : t[i] = q[i + k]
      BY <3>4, <3>5
    <3>. QED
      BY <3>6 DEF m
  <2>. HIDE DEF t
  <2>2. \A i \in 1 .. Len(q) - k : i + k \in 1 .. Len(q)
    BY <1>0
  <2>3. Once(t)
    BY <1>0, <2>1, <2>2 DEF Once
  <2>4. ToSet(t) \subseteq ToSet(q)
    BY <1>0, <2>1, <2>2 DEF ToSet
  <2>. QED
    BY <2>1, <2>3, <2>4 DEF t
<1>. QED
  BY <1>1, <1>2

----------------------------------------------------------------------------
(* Free nids                                                               *)

FreeType == [free_nid_list : Seq(Nids), prealloc : SUBSET Nids, free_nid_bitmap : SUBSET Nids,
             nat_block_bitmap : SUBSET Blks, free_nid_count : [Blks -> Int], available_nids : Int]

(* The nids of blocks that were scanned.                                   *)
Scanned(f) == {n \in Nids : NAT_BLOCK_OFFSET(n) \in f.nat_block_bitmap}

(* The list has no nid twice, and none that is handed out.                 *)
ListOK(f) ==
    /\ Once(f.free_nid_list) /\ Listed(f) \subseteq UserNids
    /\ f.prealloc \subseteq UserNids /\ Listed(f) \cap f.prealloc = {}

(* Bits are set in scanned blocks only, and counted.                       *)
BitsOK(f) ==
    /\ f.free_nid_bitmap \subseteq UserNids \cap Scanned(f)
    /\ \A b \in Blks : f.free_nid_count[b] = Cardinality(f.free_nid_bitmap \cap NidsOf(b))

FreeOK(f) == f \in FreeType /\ ListOK(f) /\ BitsOK(f)

(* Nids are numbers, and so are their blocks.                              *)
LEMMA NidFacts ==
    /\ max_nid \in Nat \ {0} /\ Nids \subseteq Nat /\ UserNids \subseteq Nids /\ 0 \in Nids
    /\ 0 \notin UserNids /\ \A n \in Nids : n \notin UserNids <=> n < FirstNid
    /\ IsFiniteSet(Nids) /\ IsFiniteSet(UserNids)
<1>1. NatBlocks \in Nat \ {0} /\ NAT_ENTRY_PER_BLOCK \in Nat \ {0}
  BY NatAssumption
<1>2. max_nid \in Nat \ {0}
  BY <1>1 DEF max_nid
<1>3. FirstNid \in Nat \ {0}
  BY NatAssumption
<1>4. Nids \subseteq Nat /\ UserNids \subseteq Nids /\ 0 \in Nids
      /\ 0 \notin UserNids /\ \A n \in Nids : n \notin UserNids <=> n < FirstNid
  BY <1>2, <1>3 DEF Nids, UserNids
<1>5. IsFiniteSet(Nids)
  BY <1>2, FS_Interval DEF Nids
<1>. QED
  BY <1>2, <1>4, <1>5, FS_Subset

(* Ascending lists the nids of a set.                                      *)
LEMMA AscendingIs ==
    ASSUME NEW S
    PROVE  /\ Ascending(S) \in Seq(Nids) /\ ToSet(Ascending(S)) = Nids \cap S
           /\ Once(Ascending(S))
<1>. DEFINE s == [i \in 1 .. max_nid |-> i - 1]
<1>1. s \in Seq(Nids) /\ Len(s) = max_nid /\ DOMAIN s = 1 .. max_nid
  BY NidFacts DEF Nids
<1>2. \A i \in 1 .. max_nid : s[i] = i - 1
  OBVIOUS
<1>3. Once(s)
  BY <1>1, <1>2, NidFacts DEF Once
<1>4. ToSet(s) = Nids
  <2>1. \A n \in Nids : n + 1 \in 1 .. max_nid /\ s[n + 1] = n
    BY <1>2, NidFacts DEF Nids
  <2>2. \A i \in 1 .. max_nid : s[i] \in Nids
    BY <1>2, NidFacts DEF Nids
  <2>. HIDE DEF s
  <2>. QED
    BY <1>1, <2>1, <2>2 DEF ToSet
<1>5. Ascending(S) = Filter(s, S)
  BY DEF Ascending
<1>. HIDE DEF s
<1>. QED
  BY <1>1, <1>3, <1>4, <1>5, FilterIs

(* What a step leaves alone.                                               *)
SameBits(f, g) ==
    /\ g.free_nid_bitmap = f.free_nid_bitmap /\ g.nat_block_bitmap = f.nat_block_bitmap
    /\ g.free_nid_count = f.free_nid_count
SameList(f, g) == g.free_nid_list = f.free_nid_list /\ g.prealloc = f.prealloc

(* Nids of nodes.                                                          *)
UserSet(S) == S \subseteq UserNids

(* __insert_free_nid lists the nids of S that nobody has.                  *)
Inserted(f, S, g) ==
    /\ FreeOK(g) /\ Listed(g) = Listed(f) \cup (S \ f.prealloc)
    /\ g.prealloc = f.prealloc /\ SameBits(f, g) /\ g.available_nids = f.available_nids

(* It keeps the list in order.                                             *)
LEMMA InsertIs ==
    ASSUME NEW f, FreeOK(f), NEW S, UserSet(S)
    PROVE  Inserted(f, S, __insert_free_nid(f, S))
<1>. DEFINE l == f.free_nid_list  A == S \ (Listed(f) \cup f.prealloc)  a == Ascending(A)
            g == __insert_free_nid(f, S)
<1>0. S \subseteq UserNids
  BY DEF UserSet
<1>1. f \in FreeType /\ l \in Seq(Nids) /\ Once(l)
  BY DEF FreeOK, FreeType, ListOK
<1>2. g = [f EXCEPT !.free_nid_list = l \o a]
  BY DEF __insert_free_nid
<1>. HIDE DEF g
<1>3. A \subseteq Nids
  BY <1>0, NidFacts
<1>. HIDE DEF A
<1>4. a \in Seq(Nids) /\ ToSet(a) = A /\ Once(a)
  BY <1>3, AscendingIs
<1>. HIDE DEF a, l
<1>5. ToSet(l) = Listed(f)
  BY DEF l, Listed
<1>6. l \o a \in Seq(Nids) /\ ToSet(l \o a) = Listed(f) \cup A /\ Once(l \o a)
  <2>1. ToSet(l) \cap ToSet(a) = {}
    BY <1>4, <1>5 DEF A
  <2>. QED
    BY <1>1, <1>4, <1>5, <2>1, ConcatIs
<1>7. /\ g \in FreeType /\ g.free_nid_list = l \o a /\ g.prealloc = f.prealloc /\ SameBits(f, g)
      /\ g.available_nids = f.available_nids
  BY <1>1, <1>2, <1>6 DEF FreeType, SameBits
<1>8. Listed(g) = Listed(f) \cup (S \ f.prealloc)
  BY <1>6, <1>7 DEF Listed, A
<1>9. ListOK(g)
  BY <1>0, <1>6, <1>7, <1>8 DEF FreeOK, ListOK
<1>10. BitsOK(g)
  BY <1>7 DEF FreeOK, BitsOK, SameBits, Scanned
<1>. QED
  BY <1>7, <1>8, <1>9, <1>10 DEF FreeOK, Inserted, g

(* Bits that are set and bits that are cleared.                            *)
LEMMA SetAndClear ==
    ASSUME NEW F, NEW A, NEW C, NEW N, IsFiniteSet(N), A \cap F = {}, C \subseteq F
    PROVE  /\ Cardinality(((F \cup A) \ C) \cap N)
                = Cardinality(F \cap N) + Cardinality(A \cap N) - Cardinality(C \cap N)
           /\ Cardinality(F \cap N) \in Nat /\ Cardinality(A \cap N) \in Nat
           /\ Cardinality(C \cap N) \in Nat
<1>1. /\ IsFiniteSet(F \cap N) /\ IsFiniteSet(A \cap N) /\ IsFiniteSet(C \cap N)
  BY FS_Subset
<1>. DEFINE U == (F \cap N) \cup (A \cap N)
<1>2. IsFiniteSet(U) /\ Cardinality(U) = Cardinality(F \cap N) + Cardinality(A \cap N)
                                         - Cardinality((F \cap N) \cap (A \cap N))
  BY <1>1, FS_Union
<1>3. (F \cap N) \cap (A \cap N) = {}
  OBVIOUS
<1>4. Cardinality({}) = 0
  BY FS_EmptySet
<1>5. U \cap (C \cap N) = C \cap N /\ U \ (C \cap N) = ((F \cup A) \ C) \cap N
  OBVIOUS
<1>6. Cardinality(U \ (C \cap N)) = Cardinality(U) - Cardinality(U \cap (C \cap N))
  BY <1>1, <1>2, FS_Difference
<1>7. Cardinality(F \cap N) \in Nat /\ Cardinality(A \cap N) \in Nat /\ Cardinality(C \cap N) \in Nat
  BY <1>1, FS_CardinalityType
<1>. QED
  BY <1>2, <1>3, <1>4, <1>5, <1>6, <1>7

(* update_free_nid_bitmap counts what it changes.                          *)
Untouched(f, off) == off \cap f.free_nid_bitmap = {}
Updated(f, on, off, g) ==
    /\ FreeOK(g)
    /\ g.free_nid_bitmap = (f.free_nid_bitmap \cup (on \cap Scanned(f))) \ (off \cap f.free_nid_bitmap)
    /\ SameList(f, g) /\ g.nat_block_bitmap = f.nat_block_bitmap
    /\ g.available_nids = f.available_nids

(* A scan clears nothing, which it would not count.                        *)
LEMMA UpdateIs ==
    ASSUME NEW f, FreeOK(f), NEW on, UserSet(on), NEW off, NEW building, building => Untouched(f, off)
    PROVE  Updated(f, on, off, update_free_nid_bitmap(f, on, off, building))
<1>. DEFINE g == update_free_nid_bitmap(f, on, off, building)
            F == f.free_nid_bitmap
            A == (on \cap Scanned(f)) \ F
            C == off \cap Scanned(f) \cap F
            delta(b) == Cardinality(A \cap NidsOf(b))
                        - IF building THEN 0 ELSE Cardinality(C \cap NidsOf(b))
            k == [b \in Blks |-> f.free_nid_count[b] + delta(b)]
<1>0. on \subseteq UserNids /\ (building => off \cap F = {})
  BY DEF UserSet, Untouched
<1>1. f \in FreeType /\ F \subseteq UserNids \cap Scanned(f)
  BY DEF FreeOK, BitsOK
<1>2. g = [f EXCEPT !.free_nid_bitmap = (F \cup A) \ C, !.free_nid_count = k]
  BY DEF update_free_nid_bitmap, Scanned
<1>. HIDE DEF g
<1>3. C = off \cap F
  BY <1>1
<1>4. ASSUME NEW b \in Blks
      PROVE  k[b] = Cardinality(((F \cup A) \ C) \cap NidsOf(b)) /\ k[b] \in Int
  <2>1. IsFiniteSet(NidsOf(b))
    BY NidFacts, FS_Subset DEF NidsOf
  <2>2. /\ Cardinality(((F \cup A) \ C) \cap NidsOf(b)) = Cardinality(F \cap NidsOf(b))
                + Cardinality(A \cap NidsOf(b)) - Cardinality(C \cap NidsOf(b))
        /\ Cardinality(F \cap NidsOf(b)) \in Nat /\ Cardinality(A \cap NidsOf(b)) \in Nat
        /\ Cardinality(C \cap NidsOf(b)) \in Nat
    <3>1. A \cap F = {} /\ C \subseteq F
      OBVIOUS
    <3>. HIDE DEF A, C, F
    <3>. QED
      BY <2>1, <3>1, SetAndClear
  <2>3. f.free_nid_count[b] = Cardinality(F \cap NidsOf(b))
    BY DEF FreeOK, BitsOK
  <2>4. building => Cardinality(C \cap NidsOf(b)) = 0
    <3>1. building => C \cap NidsOf(b) = {}
      BY <1>0, <1>3
    <3>. QED
      BY <3>1, FS_EmptySet
  <2>5. k[b] = f.free_nid_count[b] + delta(b)
    OBVIOUS
  <2>. HIDE DEF F, A, C, k
  <2>. QED
    BY <2>2, <2>3, <2>4, <2>5
<1>. HIDE DEF k, A, C
<1>5. (F \cup A) \ C \in SUBSET Nids
  BY <1>0, <1>1, NidFacts DEF A
<1>6. k \in [Blks -> Int]
  BY <1>4 DEF k
<1>7. /\ g \in FreeType /\ g.free_nid_bitmap = (F \cup A) \ C /\ g.free_nid_count = k
      /\ SameList(f, g) /\ g.nat_block_bitmap = f.nat_block_bitmap
      /\ g.available_nids = f.available_nids
  BY <1>1, <1>2, <1>5, <1>6 DEF FreeType, SameList
<1>8. ListOK(g)
  BY <1>7 DEF FreeOK, ListOK, Listed, SameList
<1>9. BitsOK(g)
  <2>1. (F \cup A) \ C \subseteq UserNids \cap Scanned(f)
    BY <1>0, <1>1 DEF A
  <2>2. Scanned(g) = Scanned(f)
    BY <1>7 DEF Scanned
  <2>. QED
    BY <1>4, <1>7, <2>1, <2>2 DEF BitsOK
<1>10. (F \cup A) \ C = (F \cup (on \cap Scanned(f))) \ (off \cap F)
  BY <1>3 DEF A
<1>. QED
  BY <1>7, <1>8, <1>9, <1>10 DEF FreeOK, Updated, g

(* So a scan that clears nothing, and any other caller, counts right.      *)
LEMMA UpdateScan ==
    ASSUME NEW f, FreeOK(f), NEW on, UserSet(on), NEW off, Untouched(f, off)
    PROVE  Updated(f, on, off, update_free_nid_bitmap(f, on, off, TRUE))
BY UpdateIs, Zenon

(* Here bits may be cleared.                                               *)
LEMMA UpdateAny ==
    ASSUME NEW f, FreeOK(f), NEW on, UserSet(on), NEW off
    PROVE  Updated(f, on, off, update_free_nid_bitmap(f, on, off, FALSE))
BY UpdateIs, Zenon

(* What a scan makes of cache entries: the nids of S that count as free.   *)
InUse(cache, n) == cache[n] # NoEntry /\ (~cache[n].checkpointed \/ cache[n].blk_addr # NULL_ADDR)
Found(f, cache, S) == {n \in S \ ({0} \cup f.prealloc) : ~InUse(cache, n)}

(* add_free_nid during a scan of bits or of the journal.                   *)
AddedToList(f, cache, S, g) ==
    /\ FreeOK(g) /\ Listed(g) = Listed(f) \cup Found(f, cache, S)
    /\ g.prealloc = f.prealloc /\ SameBits(f, g) /\ g.available_nids = f.available_nids

(* It lists what it finds free.                                            *)
LEMMA AddListIs ==
    ASSUME NEW f, FreeOK(f), NEW cache, NEW S, UserSet(S \ {0})
    PROVE  AddedToList(f, cache, S, add_free_nid_build(f, cache, S, FALSE))
<1>. DEFINE I == Found(f, cache, S)  g == add_free_nid_build(f, cache, S, FALSE)
<1>1. g = __insert_free_nid(f, I)
  BY DEF add_free_nid_build, Found, InUse
<1>2. UserSet(I) /\ I \ f.prealloc = I
  BY DEF Found, UserSet
<1>. HIDE DEF I, g
<1>3. Inserted(f, I, g)
  BY <1>1, <1>2, InsertIs
<1>. QED
  BY <1>2, <1>3 DEF I, g, Inserted, AddedToList

(* add_free_nid during a scan of NAT blocks sets the bits as well.         *)
AddedByScan(f, cache, S, g) ==
    /\ FreeOK(g) /\ Listed(g) = Listed(f) \cup Found(f, cache, S)
    /\ g.prealloc = f.prealloc /\ g.available_nids = f.available_nids
    /\ g.nat_block_bitmap = f.nat_block_bitmap
    /\ g.free_nid_bitmap = f.free_nid_bitmap \cup (Found(f, cache, S) \cap Scanned(f))

(* The block is scanned for the first time: its bits are clear.            *)
LEMMA AddScanIs ==
    ASSUME NEW f, FreeOK(f), NEW cache, NEW S, UserSet(S \ {0}), Untouched(f, S)
    PROVE  AddedByScan(f, cache, S, add_free_nid_build(f, cache, S, TRUE))
<1>. DEFINE I == Found(f, cache, S)  h == __insert_free_nid(f, I)  off == S \ (I \cup {0})
            g == add_free_nid_build(f, cache, S, TRUE)
<1>1. g = update_free_nid_bitmap(h, I, off, TRUE)
  BY DEF add_free_nid_build, Found, InUse
<1>2. UserSet(I) /\ I \ f.prealloc = I /\ off \subseteq S
  BY DEF Found, UserSet
<1>. HIDE DEF I, h, off, g
<1>3. Inserted(f, I, h)
  BY <1>2, InsertIs DEF h
<1>4. FreeOK(h) /\ Untouched(h, off)
  BY <1>2, <1>3 DEF SameBits, Inserted, Untouched
<1>5. Updated(h, I, off, g)
  BY <1>1, <1>2, <1>4, UpdateScan
<1>6. Listed(g) = Listed(f) \cup I /\ g.prealloc = f.prealloc
  BY <1>2, <1>3, <1>5 DEF SameList, Listed, Inserted, Updated
<1>7. Scanned(h) = Scanned(f) /\ h.free_nid_bitmap = f.free_nid_bitmap
      /\ h.nat_block_bitmap = f.nat_block_bitmap
  BY <1>3 DEF SameBits, Scanned, Inserted
<1>8. g.free_nid_bitmap = f.free_nid_bitmap \cup (I \cap Scanned(f))
  BY <1>4, <1>5, <1>7 DEF Updated, Untouched
<1>. QED
  BY <1>3, <1>5, <1>6, <1>7, <1>8 DEF I, g, AddedByScan, Updated, Inserted

(* remove_free_nid takes nids from the list.                               *)
Removed(f, S, g) ==
    /\ FreeOK(g) /\ Listed(g) = Listed(f) \ S
    /\ g.prealloc = f.prealloc /\ SameBits(f, g) /\ g.available_nids = f.available_nids

(* The others stay in their order.                                         *)
LEMMA RemoveIs ==
    ASSUME NEW f, FreeOK(f), NEW S
    PROVE  Removed(f, S, remove_free_nid(f, S))
<1>. DEFINE l == f.free_nid_list  a == Filter(l, Nids \ S)  g == remove_free_nid(f, S)
<1>1. f \in FreeType /\ l \in Seq(Nids) /\ Once(l)
  BY DEF FreeOK, FreeType, ListOK
<1>2. g = [f EXCEPT !.free_nid_list = a]
  BY DEF remove_free_nid
<1>. HIDE DEF l, g
<1>3. a \in Seq(Nids) /\ ToSet(a) = ToSet(l) \cap (Nids \ S) /\ Once(a)
  BY <1>1, FilterIs
<1>. HIDE DEF a
<1>4. /\ g \in FreeType /\ g.free_nid_list = a /\ g.prealloc = f.prealloc /\ SameBits(f, g)
      /\ g.available_nids = f.available_nids
  BY <1>1, <1>2, <1>3 DEF FreeType, SameBits
<1>5. Listed(f) \subseteq Nids
  BY NidFacts DEF FreeOK, ListOK
<1>6. Listed(g) = Listed(f) \ S
  BY <1>3, <1>4, <1>5 DEF Listed, l
<1>7. ListOK(g) /\ BitsOK(g)
  BY <1>3, <1>4, <1>6 DEF FreeOK, ListOK, BitsOK, SameBits, Scanned
<1>. QED
  BY <1>4, <1>6, <1>7 DEF FreeOK, Removed, g

(* available_nids is a number of its own.                                  *)
LEMMA CountIs ==
    ASSUME NEW f, FreeOK(f), NEW k \in Int, NEW g, g = [f EXCEPT !.available_nids = k]
    PROVE  FreeOK(g) /\ SameList(f, g) /\ SameBits(f, g) /\ g.available_nids = k
<1>1. f \in FreeType
  BY DEF FreeOK
<1>2. g \in FreeType /\ SameList(f, g) /\ SameBits(f, g) /\ g.available_nids = k
  BY <1>1 DEF FreeType, SameList, SameBits
<1>. QED
  BY <1>2 DEF FreeOK, ListOK, BitsOK, SameList, SameBits, Scanned, Listed

(* add_free_nid at a flush lists and counts the nids that were freed.      *)
AddedByFlush(f, S, g) ==
    /\ FreeOK(g) /\ Listed(g) = Listed(f) \cup (S \ f.prealloc)
    /\ g.prealloc = f.prealloc /\ g.nat_block_bitmap = f.nat_block_bitmap
    /\ g.free_nid_bitmap = f.free_nid_bitmap \cup (S \cap Scanned(f))
    /\ g.available_nids = f.available_nids + Cardinality(S)

(* Each of them is counted, whether it is listed or handed out.            *)
LEMMA AddFlushIs ==
    ASSUME NEW f, FreeOK(f), NEW S, UserSet(S)
    PROVE  AddedByFlush(f, S, add_free_nid_flush(f, S))
<1>. DEFINE i == __insert_free_nid(f, S)
            k == i.available_nids + Cardinality(S)
            h == [i EXCEPT !.available_nids = k]
            g == add_free_nid_flush(f, S)
<1>1. g = update_free_nid_bitmap(h, S, {}, FALSE)
  BY DEF add_free_nid_flush
<1>. HIDE DEF i, g
<1>2. Inserted(f, S, i)
  BY InsertIs DEF i
<1>3. Cardinality(S) \in Nat
  BY NidFacts, FS_Subset, FS_CardinalityType DEF UserSet
<1>4. FreeOK(i) /\ i.available_nids \in Int
  BY <1>2 DEF FreeOK, FreeType, Inserted
<1>5. k \in Int
  BY <1>3, <1>4
<1>. HIDE DEF k
<1>6. FreeOK(h) /\ SameList(i, h) /\ SameBits(i, h) /\ h.available_nids = k
  BY <1>4, <1>5, CountIs
<1>. HIDE DEF h
<1>7. Updated(h, S, {}, g)
  BY <1>1, <1>6, UpdateAny
<1>8. Scanned(h) = Scanned(f) /\ h.free_nid_bitmap = f.free_nid_bitmap
      /\ h.nat_block_bitmap = f.nat_block_bitmap
  BY <1>2, <1>6 DEF SameBits, Scanned, Inserted
<1>9. Listed(g) = Listed(f) \cup (S \ f.prealloc) /\ g.prealloc = f.prealloc
  BY <1>2, <1>6, <1>7 DEF SameList, Listed, Inserted, Updated
<1>10. k = f.available_nids + Cardinality(S)
  BY <1>2 DEF k, Inserted
<1>. QED
  BY <1>6, <1>7, <1>8, <1>9, <1>10 DEF AddedByFlush, Updated, g

----------------------------------------------------------------------------
(* Scans: cache, page and j are what the cache, the current copies of NAT  *)
(* blocks and the journal have at the time, nd the addresses of nodes.     *)

(* Nids without a node that no flush is going to free.                     *)
Vacant(nd, cache) == {n \in UserNids : nd[n] = NULL_ADDR /\ n \notin Dirty(cache)}
(* Nids that the journal says are in use: a scan lists them for a moment.  *)
Journalled(j) == {n \in UserNids : j[n] \notin {NoEntry, NULL_ADDR}}
(* Nids whose bit may be set.                                              *)
NullOnDisk(page, j) == {n \in UserNids : j[n] # NoEntry \/ page[n] = NULL_ADDR}

(* The cache has the truth, or else the journal, or else the page; a dirty *)
(* entry without a block is not checkpointed; nids of mkfs are in use.     *)
Truthful(cache, page, j, nd) ==
    /\ \A n \in Nids :
         /\ cache[n] # NoEntry => cache[n].blk_addr = nd[n]
         /\ cache[n] = NoEntry \/ ~cache[n].dirty => nd[n] = IF j[n] # NoEntry THEN j[n] ELSE page[n]
         /\ cache[n] # NoEntry /\ cache[n].dirty /\ cache[n].blk_addr \in {NULL_ADDR, NEW_ADDR}
              => ~cache[n].checkpointed
    /\ \A n \in Nids \ UserNids : j[n] = NoEntry /\ (n # 0 => page[n] # NULL_ADDR)

(* What a scan finds is vacant or known to the journal.                    *)
LEMMA FoundIs ==
    ASSUME NEW cache, NEW page, NEW j, NEW nd, Truthful(cache, page, j, nd),
           NEW f, NEW S, S \ {0} \subseteq NullOnDisk(page, j)
    PROVE  Found(f, cache, S) \subseteq Vacant(nd, cache) \cup Journalled(j)
<1>. SUFFICES ASSUME NEW n \in Found(f, cache, S), n \notin Journalled(j) PROVE n \in Vacant(nd, cache)
  OBVIOUS
<1>1. n \in UserNids /\ n \in Nids /\ (j[n] # NoEntry \/ page[n] = NULL_ADDR) /\ ~InUse(cache, n)
  BY NidFacts DEF Found, NullOnDisk
<1>2. j[n] \in {NoEntry, NULL_ADDR}
  BY <1>1 DEF Journalled
<1>3. CASE cache[n] = NoEntry
  BY <1>1, <1>2, <1>3 DEF Truthful, Vacant, Dirty
<1>4. CASE cache[n] # NoEntry
  BY <1>1, <1>4 DEF Truthful, Vacant, Dirty, InUse
<1>. QED
  BY <1>3, <1>4

(* The free nids as a scan has them, between its blocks.                   *)
Scanning(f, cache, page, j, nd) ==
    /\ FreeOK(f)
    /\ Listed(f) \subseteq Vacant(nd, cache) \cup Journalled(j)
    /\ f.free_nid_bitmap \subseteq NullOnDisk(page, j)

SameOwners(f, g) == g.prealloc = f.prealloc /\ g.available_nids = f.available_nids

(* scan_nat_page keeps it.                                                 *)
LEMMA ScanPage ==
    ASSUME NEW cache, NEW page, NEW j, NEW nd, Truthful(cache, page, j, nd),
           NEW f, Scanning(f, cache, page, j, nd), NEW start \in Nids,
           NEW g, g = ScanBlock(f, cache, page, start)
    PROVE  Scanning(g, cache, page, j, nd) /\ SameOwners(f, g)
<1>. DEFINE b == NAT_BLOCK_OFFSET(start)
            f1 == [f EXCEPT !.nat_block_bitmap = @ \cup {b}]
            seen == {n \in NidsOf(b) : n >= start}
            null == {n \in seen : page[n] = NULL_ADDR}
            h == add_free_nid_build(f1, cache, null, TRUE)
<1>0. CASE b \in f.nat_block_bitmap
  BY <1>0 DEF ScanBlock, SameOwners
<1>1. CASE b \notin f.nat_block_bitmap
  <2>1. g = update_free_nid_bitmap(h, {}, seen \ null, TRUE)
    BY <1>1 DEF ScanBlock, scan_nat_page
  <2>2. b \in Blks
    BY BlockOfNid
  <2>3. f \in FreeType /\ f.nat_block_bitmap \in SUBSET Blks
    BY DEF Scanning, FreeOK, FreeType
  <2>4. /\ f1 \in FreeType /\ SameList(f, f1) /\ f1.available_nids = f.available_nids
        /\ f1.free_nid_bitmap = f.free_nid_bitmap /\ f1.free_nid_count = f.free_nid_count
        /\ f1.nat_block_bitmap = f.nat_block_bitmap \cup {b}
    BY <2>2, <2>3 DEF FreeType, SameList
  <2>. HIDE DEF f1, b
  <2>5. FreeOK(f1)
    <3>1. ListOK(f1)
      BY <2>4 DEF Scanning, FreeOK, ListOK, SameList, Listed
    <3>2. BitsOK(f1)
      BY <2>4 DEF Scanning, FreeOK, BitsOK, Scanned
    <3>. QED
      BY <2>4, <3>1, <3>2 DEF FreeOK
  <2>6. seen \subseteq NidsOf(b) /\ null \subseteq seen /\ seen \subseteq Nids
    BY DEF NidsOf
  <2>7. NidsOf(b) \cap f.free_nid_bitmap = {}
    BY <1>1 DEF Scanning, FreeOK, BitsOK, Scanned, NidsOf
  <2>8. UserSet(null \ {0}) /\ null \ {0} \subseteq NullOnDisk(page, j)
    <3>1. ASSUME NEW n \in null, n # 0 PROVE n \in UserNids /\ page[n] = NULL_ADDR
      BY <2>6, <3>1 DEF Truthful
    <3>. QED
      BY <3>1 DEF NullOnDisk, UserSet
  <2>. HIDE DEF null, seen, h
  <2>. DEFINE I == Found(f1, cache, null)
  <2>9. Untouched(f1, null)
    BY <2>4, <2>6, <2>7 DEF Untouched
  <2>10. AddedByScan(f1, cache, null, h)
    BY <2>5, <2>8, <2>9, AddScanIs DEF h
  <2>11. I \subseteq null \ {0} /\ I \subseteq Vacant(nd, cache) \cup Journalled(j)
    BY <2>8, FoundIs DEF Found
  <2>12. /\ FreeOK(h) /\ Listed(h) = Listed(f1) \cup I /\ SameOwners(f1, h)
         /\ h.free_nid_bitmap = f1.free_nid_bitmap \cup (I \cap Scanned(f1))
    BY <2>10 DEF AddedByScan, SameOwners
  <2>. HIDE DEF I
  <2>13. Untouched(h, seen \ null)
    BY <2>4, <2>6, <2>7, <2>11, <2>12 DEF Untouched
  <2>14. UserSet({})
    BY DEF UserSet
  <2>15. Updated(h, {}, seen \ null, g)
    BY <2>1, <2>12, <2>13, <2>14, UpdateScan
  <2>16. FreeOK(g) /\ Listed(g) = Listed(f) \cup I /\ SameOwners(f, g)
    BY <2>4, <2>12, <2>15 DEF SameList, Listed, SameOwners, Updated
  <2>17. g.free_nid_bitmap \subseteq f.free_nid_bitmap \cup I
    BY <2>4, <2>12, <2>15 DEF Updated
  <2>18. g.free_nid_bitmap \subseteq NullOnDisk(page, j)
    BY <2>8, <2>11, <2>17 DEF Scanning
  <2>. QED
    BY <2>11, <2>16, <2>18 DEF Scanning
<1>. QED
  BY <1>0, <1>1

(* scan_curseg_cache ends a scan: only vacant nids remain on the list.     *)
LEMMA ScanJournal ==
    ASSUME NEW cache, NEW page, NEW j, NEW nd, Truthful(cache, page, j, nd),
           NEW f, Scanning(f, cache, page, j, nd),
           NEW g, g = scan_curseg_cache(f, cache, j)
    PROVE  /\ Scanning(g, cache, page, j, nd) /\ SameOwners(f, g)
           /\ Listed(g) \subseteq Vacant(nd, cache)
<1>. DEFINE null == {n \in Nids : j[n] = NULL_ADDR}
            used == {n \in Nids : j[n] \notin {NoEntry, NULL_ADDR}}
            h == add_free_nid_build(f, cache, null, FALSE)
<1>1. g = remove_free_nid(h, used)
  BY DEF scan_curseg_cache
<1>2. UserSet(null \ {0}) /\ null \ {0} \subseteq NullOnDisk(page, j)
  <2>1. NULL_ADDR # NoEntry
    BY NatAssumption
  <2>2. ASSUME NEW n \in null PROVE n \in UserNids
    BY <2>1 DEF Truthful
  <2>. QED
    BY <2>1, <2>2 DEF NullOnDisk, UserSet
<1>3. Journalled(j) \subseteq used
  BY NidFacts DEF Journalled
<1>. HIDE DEF null, used, h
<1>4. FreeOK(f)
  BY DEF Scanning
<1>5. AddedToList(f, cache, null, h)
  BY <1>2, <1>4, AddListIs DEF h
<1>6. Found(f, cache, null) \subseteq Vacant(nd, cache) \cup Journalled(j)
  BY <1>2, FoundIs
<1>7. FreeOK(h)
  BY <1>5 DEF AddedToList
<1>8. Removed(h, used, g)
  BY <1>1, <1>7, RemoveIs
<1>9. Listed(g) \subseteq Vacant(nd, cache)
  BY <1>3, <1>5, <1>6, <1>8 DEF Scanning, AddedToList, Removed
<1>10. SameOwners(f, g) /\ g.free_nid_bitmap = f.free_nid_bitmap /\ FreeOK(g)
  BY <1>5, <1>8 DEF SameOwners, AddedToList, Removed, SameBits
<1>. QED
  BY <1>9, <1>10 DEF Scanning

(* scan_free_nid_bits lists nids whose bit is set.                         *)
LEMMA ScanBits ==
    ASSUME NEW cache, NEW page, NEW j, NEW nd, Truthful(cache, page, j, nd),
           NEW f, Scanning(f, cache, page, j, nd),
           NEW g, g = scan_free_nid_bits(f, cache)
    PROVE  Scanning(g, cache, page, j, nd) /\ SameOwners(f, g)
<1>. DEFINE S == ScannedBits(f, cache)
<1>1. S \subseteq f.free_nid_bitmap
  BY DEF ScannedBits
<1>2. UserSet(S \ {0}) /\ S \ {0} \subseteq NullOnDisk(page, j) /\ FreeOK(f)
  BY <1>1 DEF Scanning, FreeOK, BitsOK, UserSet
<1>3. g = add_free_nid_build(f, cache, S, FALSE)
  BY DEF scan_free_nid_bits
<1>. HIDE DEF S
<1>4. AddedToList(f, cache, S, g)
  BY <1>2, <1>3, AddListIs
<1>5. Found(f, cache, S) \subseteq Vacant(nd, cache) \cup Journalled(j)
  BY <1>2, FoundIs
<1>. QED
  BY <1>4, <1>5 DEF Scanning, SameBits, AddedToList, SameOwners

----------------------------------------------------------------------------
(* Nids in the hands of creators                                           *)

(* alloc_nid moves the head of the list to its caller.                     *)
Taken(f, n, g) ==
    /\ FreeOK(g) /\ n \in Listed(f) /\ n \notin f.prealloc /\ Listed(g) = Listed(f) \ {n}
    /\ g.prealloc = f.prealloc \cup {n} /\ g.available_nids = f.available_nids - 1
    /\ g.free_nid_bitmap \subseteq f.free_nid_bitmap

(* The bit of the nid is cleared.                                          *)
LEMMA TakeIs ==
    ASSUME NEW f, FreeOK(f), f.free_nid_list # <<>>, NEW n, n = Head(f.free_nid_list)
    PROVE  Taken(f, n, update_free_nid_bitmap(
                [f EXCEPT !.free_nid_list = Tail(@), !.prealloc = @ \cup {n}, !.available_nids = @ - 1],
                {}, {n}, FALSE))
<1>. DEFINE l == f.free_nid_list
            h == [f EXCEPT !.free_nid_list = Tail(@), !.prealloc = @ \cup {n}, !.available_nids = @ - 1]
            g == update_free_nid_bitmap(h, {}, {n}, FALSE)
<1>1. /\ f \in FreeType /\ l \in Seq(Nids) /\ Once(l) /\ f.available_nids \in Int
      /\ f.prealloc \in SUBSET Nids
  BY DEF FreeOK, FreeType, ListOK
<1>2. n \in ToSet(l) /\ Tail(l) \in Seq(Nids) /\ Once(Tail(l)) /\ ToSet(Tail(l)) = ToSet(l) \ {n}
  BY <1>1, RestIs
<1>3. n \in Listed(f) /\ n \in UserNids /\ n \notin f.prealloc
  BY <1>2 DEF FreeOK, ListOK, Listed
<1>4. n \in Nids /\ f.available_nids - 1 \in Int
  BY <1>1, <1>3, NidFacts
<1>5. /\ h \in FreeType /\ SameBits(f, h) /\ h.free_nid_list = Tail(l) /\ h.prealloc = f.prealloc \cup {n}
      /\ h.available_nids = f.available_nids - 1
  BY <1>1, <1>2, <1>4 DEF FreeType, SameBits
<1>. HIDE DEF h, l
<1>6. Listed(h) = Listed(f) \ {n}
  BY <1>2, <1>5 DEF Listed, l
<1>7. ListOK(h)
  BY <1>2, <1>3, <1>5, <1>6 DEF FreeOK, ListOK
<1>8. FreeOK(h)
  BY <1>5, <1>7 DEF FreeOK, BitsOK, SameBits, Scanned
<1>9. UserSet({})
  BY DEF UserSet
<1>10. Updated(h, {}, {n}, g)
  BY <1>8, <1>9, UpdateAny
<1>. HIDE DEF g
<1>11. g.free_nid_bitmap \subseteq f.free_nid_bitmap
  BY <1>5, <1>10 DEF Updated, SameBits
<1>12. Listed(g) = Listed(f) \ {n} /\ g.prealloc = f.prealloc \cup {n}
  BY <1>5, <1>6, <1>10 DEF Updated, SameList, Listed
<1>13. FreeOK(g) /\ g.available_nids = f.available_nids - 1
  BY <1>5, <1>10 DEF Updated
<1>. QED
  BY <1>3, <1>11, <1>12, <1>13 DEF Taken, g, h

(* alloc_nid_failed gives it back to the list, or only to the bitmap.      *)
GivenBack(f, n, g) ==
    /\ FreeOK(g) /\ Listed(g) \subseteq Listed(f) \cup {n} /\ Listed(f) \subseteq Listed(g)
    /\ g.prealloc = f.prealloc \ {n} /\ g.available_nids = f.available_nids + 1
    /\ g.free_nid_bitmap \subseteq f.free_nid_bitmap \cup {n}

(* Either way the bit of the nid is set.                                   *)
LEMMA GiveBackIs ==
    ASSUME NEW f, FreeOK(f), NEW n \in f.prealloc, NEW back \in {<<n>>, <<>>}
    PROVE  GivenBack(f, n, update_free_nid_bitmap(
                [f EXCEPT !.free_nid_list = @ \o back, !.prealloc = @ \ {n}, !.available_nids = @ + 1],
                {n}, {}, FALSE))
<1>. DEFINE l == f.free_nid_list
            h == [f EXCEPT !.free_nid_list = @ \o back, !.prealloc = @ \ {n}, !.available_nids = @ + 1]
            g == update_free_nid_bitmap(h, {n}, {}, FALSE)
<1>1. /\ f \in FreeType /\ l \in Seq(Nids) /\ Once(l) /\ f.available_nids \in Int
      /\ f.prealloc \in SUBSET Nids
  BY DEF FreeOK, FreeType, ListOK
<1>2. n \in Nids /\ n \in UserNids /\ n \notin ToSet(l)
  BY <1>1 DEF FreeOK, ListOK, Listed
<1>3. back \in Seq(Nids) /\ Once(back) /\ ToSet(back) \subseteq {n}
  <2>1. CASE back = <<>>
    BY <2>1 DEF Once, ToSet
  <2>2. CASE back = <<n>>
    BY <1>2, <2>2 DEF Once, ToSet
  <2>. QED
    BY <2>1, <2>2
<1>. HIDE DEF l
<1>4. l \o back \in Seq(Nids) /\ ToSet(l \o back) = ToSet(l) \cup ToSet(back) /\ Once(l \o back)
  <2>1. ToSet(l) \cap ToSet(back) = {}
    BY <1>2, <1>3
  <2>. QED
    BY <1>1, <1>3, <2>1, ConcatIs
<1>5. f.available_nids + 1 \in Int /\ f.prealloc \ {n} \in SUBSET Nids
  BY <1>1
<1>. DEFINE q == l \o back
<1>6. /\ h \in FreeType /\ SameBits(f, h) /\ h.free_nid_list = q /\ h.prealloc = f.prealloc \ {n}
      /\ h.available_nids = f.available_nids + 1
  <2>1. h = [f EXCEPT !.free_nid_list = q, !.prealloc = @ \ {n}, !.available_nids = @ + 1] /\ q \in Seq(Nids)
    BY <1>4 DEF l
  <2>. HIDE DEF q, h
  <2>. QED
    BY <1>1, <1>5, <2>1 DEF FreeType, SameBits
<1>. HIDE DEF h
<1>7. Listed(h) \subseteq Listed(f) \cup {n} /\ Listed(f) \subseteq Listed(h)
  BY <1>3, <1>4, <1>6 DEF Listed, l
<1>8. ListOK(h)
  <2>1. Once(h.free_nid_list)
    BY <1>4, <1>6
  <2>2. Listed(h) \subseteq UserNids /\ h.prealloc \subseteq UserNids /\ Listed(h) \cap h.prealloc = {}
    BY <1>2, <1>6, <1>7 DEF FreeOK, ListOK
  <2>. QED
    BY <2>1, <2>2 DEF ListOK
<1>9. FreeOK(h)
  BY <1>6, <1>8 DEF FreeOK, BitsOK, SameBits, Scanned
<1>10. UserSet({n})
  BY <1>2 DEF UserSet
<1>11. Updated(h, {n}, {}, g)
  BY <1>9, <1>10, UpdateAny
<1>. HIDE DEF g
<1>12. g.free_nid_bitmap \subseteq f.free_nid_bitmap \cup {n}
  BY <1>6, <1>11 DEF Updated, SameBits
<1>13. Listed(g) = Listed(h) /\ g.prealloc = f.prealloc \ {n}
  BY <1>6, <1>11 DEF Updated, SameList, Listed
<1>14. FreeOK(g) /\ g.available_nids = f.available_nids + 1
  BY <1>6, <1>11 DEF Updated
<1>. QED
  BY <1>7, <1>12, <1>13, <1>14 DEF GivenBack, g, h

(* alloc_nid_done forgets it.                                              *)
LEMMA DropIs ==
    ASSUME NEW f, FreeOK(f), NEW n, NEW g, g = [f EXCEPT !.prealloc = @ \ {n}]
    PROVE  /\ FreeOK(g) /\ g.free_nid_list = f.free_nid_list /\ g.prealloc = f.prealloc \ {n}
           /\ SameBits(f, g) /\ g.available_nids = f.available_nids
<1>1. f \in FreeType /\ f.prealloc \in SUBSET Nids
  BY DEF FreeOK, FreeType
<1>2. /\ g \in FreeType /\ g.free_nid_list = f.free_nid_list /\ g.prealloc = f.prealloc \ {n}
      /\ SameBits(f, g) /\ g.available_nids = f.available_nids
  BY <1>1 DEF FreeType, SameBits
<1>3. ListOK(g) /\ BitsOK(g)
  BY <1>2 DEF FreeOK, ListOK, BitsOK, SameBits, Scanned, Listed
<1>. QED
  BY <1>2, <1>3 DEF FreeOK

(* try_to_free_nids drops the first nids of the list.                      *)
LEMMA ShrinkIs ==
    ASSUME NEW f, FreeOK(f), NEW k \in 1 .. Len(f.free_nid_list),
           NEW g, g = [f EXCEPT !.free_nid_list = SubSeq(@, k + 1, Len(@))]
    PROVE  /\ FreeOK(g) /\ Listed(g) \subseteq Listed(f) /\ SameOwners(f, g) /\ SameBits(f, g)
<1>. DEFINE l == f.free_nid_list  q == SubSeq(l, k + 1, Len(l))
<1>1. f \in FreeType /\ l \in Seq(Nids) /\ Once(l)
  BY DEF FreeOK, FreeType, ListOK
<1>2. q \in Seq(Nids) /\ Once(q) /\ ToSet(q) \subseteq ToSet(l)
  BY <1>1, RestIs
<1>3. g = [f EXCEPT !.free_nid_list = q]
  OBVIOUS
<1>. HIDE DEF q
<1>4. /\ g \in FreeType /\ g.free_nid_list = q /\ g.prealloc = f.prealloc
      /\ SameBits(f, g) /\ g.available_nids = f.available_nids
  BY <1>1, <1>2, <1>3 DEF FreeType, SameBits
<1>5. Listed(g) \subseteq Listed(f)
  BY <1>2, <1>4 DEF Listed
<1>6. ListOK(g) /\ BitsOK(g)
  BY <1>2, <1>4, <1>5 DEF FreeOK, ListOK, BitsOK, SameBits, Scanned
<1>. QED
  BY <1>4, <1>5, <1>6 DEF FreeOK, SameOwners

----------------------------------------------------------------------------
(* build_node_manager                                                      *)

(* The scan comes to the first nid of a block.                             *)
LEMMA NextBlockIs == \A n \in Nids : NextBlock(n) \in Nids
<1>. SUFFICES ASSUME NEW n \in Nids PROVE NextBlock(n) \in Nids
  OBVIOUS
<1>. DEFINE m == (NAT_BLOCK_OFFSET(n) + 1) * NAT_ENTRY_PER_BLOCK
<1>1. NAT_BLOCK_OFFSET(n) \in Nat /\ NAT_ENTRY_PER_BLOCK \in Nat
  BY BlockOfNid, NatAssumption DEF Blks
<1>2. m \in Nat
  BY <1>1
<1>3. NextBlock(n) = IF m >= max_nid THEN 0 ELSE m
  BY DEF NextBlock
<1>. HIDE DEF m
<1>. QED
  BY <1>2, <1>3, NidFacts DEF Nids

(* The recursive functions of MountScan.                                   *)
IsAt(start, n, f) == f = [i \in 0 .. n |-> IF i = 0 THEN start ELSE NextBlock(f[i - 1])]
IsAfter(f0, page, at, n, f) ==
    f = [i \in 0 .. n |-> IF i = 0 THEN f0 ELSE ScanBlock(f[i - 1], Unmapped, page, at[i - 1])]

(* The places of the scan exist and are nids.                              *)
LEMMA AtIs ==
    ASSUME NEW start \in Nids, NEW N \in Nat
    PROVE  \E f : IsAt(start, N, f) /\ \A i \in 0 .. N : f[i] \in Nids
<1>. DEFINE T == {n \in Nat : \E f : IsAt(start, n, f) /\ \A i \in 0 .. n : f[i] \in Nids}
<1>1. 0 \in T
  <2>. DEFINE f == [i \in 0 .. 0 |-> start]
  <2>1. IsAt(start, 0, f) /\ \A i \in 0 .. 0 : f[i] \in Nids
    BY DEF IsAt
  <2>. QED
    BY <2>1
<1>2. ASSUME NEW n \in Nat, n \in T PROVE n + 1 \in T
  <2>1. PICK f : IsAt(start, n, f) /\ \A i \in 0 .. n : f[i] \in Nids
    BY <1>2
  <2>. DEFINE g == [i \in 0 .. n + 1 |-> IF i = n + 1 THEN NextBlock(f[n]) ELSE f[i]]
              h == [i \in 0 .. n + 1 |-> IF i = 0 THEN start ELSE NextBlock(g[i - 1])]
  <2>2. \A i \in 0 .. n : f[i] = IF i = 0 THEN start ELSE NextBlock(f[i - 1])
    BY <2>1 DEF IsAt
  <2>3. \A i \in 0 .. n + 1 : g[i] = h[i]
    BY <2>2
  <2>4. g = h
    BY <2>3
  <2>5. IsAt(start, n + 1, g)
    BY <2>4 DEF IsAt
  <2>6. NextBlock(f[n]) \in Nids
    BY <2>1, NextBlockIs
  <2>7. \A i \in 0 .. n + 1 : g[i] \in Nids
    BY <2>1, <2>6
  <2>. HIDE DEF g
  <2>. QED
    BY <2>5, <2>7
<1>. HIDE DEF T
<1>3. Nat \subseteq T
  BY <1>1, <1>2, Induction
<1>. QED
  BY <1>3 DEF T

(* What a mount has scanned so far, of a volume with nothing cached.       *)
MountScanned(f, page, j, nd, k) ==
    Scanning(f, Unmapped, page, j, nd) /\ f.prealloc = {} /\ f.available_nids = k

(* The scan of a mount exists and leaves what it finds in order.           *)
LEMMA AfterIs ==
    ASSUME NEW page, NEW j, NEW nd, Truthful(Unmapped, page, j, nd), NEW k,
           NEW f0, MountScanned(f0, page, j, nd, k),
           NEW N \in Nat, NEW at, \A i \in 0 .. N : at[i] \in Nids
    PROVE  \E f : IsAfter(f0, page, at, N, f) /\ MountScanned(f[N], page, j, nd, k)
<1>. DEFINE T == {n \in Nat : n <= N => \E f : IsAfter(f0, page, at, n, f) /\ MountScanned(f[n], page, j, nd, k)}
<1>1. 0 \in T
  <2>. DEFINE f == [i \in 0 .. 0 |-> f0]
  <2>1. IsAfter(f0, page, at, 0, f) /\ f[0] = f0
    BY DEF IsAfter
  <2>. HIDE DEF f
  <2>. QED
    BY <2>1
<1>2. ASSUME NEW n \in Nat, n \in T PROVE n + 1 \in T
  <2>. SUFFICES ASSUME n + 1 <= N
                PROVE  \E f : IsAfter(f0, page, at, n + 1, f) /\ MountScanned(f[n + 1], page, j, nd, k)
    OBVIOUS
  <2>1. PICK f : IsAfter(f0, page, at, n, f) /\ MountScanned(f[n], page, j, nd, k)
    BY <1>2
  <2>. DEFINE s == ScanBlock(f[n], Unmapped, page, at[n])
              g == [i \in 0 .. n + 1 |-> IF i = n + 1 THEN s ELSE f[i]]
              h == [i \in 0 .. n + 1 |-> IF i = 0 THEN f0 ELSE ScanBlock(g[i - 1], Unmapped, page, at[i - 1])]
  <2>2. \A i \in 0 .. n : f[i] = IF i = 0 THEN f0 ELSE ScanBlock(f[i - 1], Unmapped, page, at[i - 1])
    BY <2>1 DEF IsAfter
  <2>3. \A i \in 0 .. n + 1 : g[i] = h[i]
    BY <2>2
  <2>4. g = h
    BY <2>3
  <2>5. IsAfter(f0, page, at, n + 1, g)
    BY <2>4 DEF IsAfter
  <2>6. g[n + 1] = s /\ at[n] \in Nids
    OBVIOUS
  <2>7. Scanning(f[n], Unmapped, page, j, nd)
    BY <2>1 DEF MountScanned
  <2>. HIDE DEF g, s
  <2>8. Scanning(s, Unmapped, page, j, nd) /\ SameOwners(f[n], s)
    BY <2>6, <2>7, ScanPage DEF s
  <2>9. MountScanned(s, page, j, nd, k)
    BY <2>1, <2>8 DEF MountScanned, SameOwners
  <2>. QED
    BY <2>5, <2>6, <2>9
<1>. HIDE DEF T
<1>3. Nat \subseteq T
  BY <1>1, <1>2, Induction
<1>4. N \in T /\ N <= N
  BY <1>3
<1>. QED
  BY <1>4 DEF T

(* A block that the NAT bits call empty has no address.                    *)
NatBitsType == [enabled : BOOLEAN, empty : SUBSET Blks, full : SUBSET Blks]
EmptyBlocks(bits, p) ==
    bits.enabled => \A b \in bits.empty : b # 0 /\ \A n \in NidsOf(b) : p[n] = NULL_ADDR

(* The blocks after the first have no nid of mkfs.                         *)
LEMMA LaterBlocks == \A b \in Blks \ {0} : NidsOf(b) \subseteq UserNids
<1>. SUFFICES ASSUME NEW b \in Blks, b # 0, NEW n \in NidsOf(b) PROVE n \in UserNids
  OBVIOUS
<1>. DEFINE E == NAT_ENTRY_PER_BLOCK
<1>1. E \in Nat \ {0} /\ FirstNid \in 1 .. E
  BY NatAssumption
<1>2. n \in Nids /\ n \in Nat /\ n \div E = b
  BY NidFacts DEF NidsOf, NAT_BLOCK_OFFSET
<1>3. n < E => n \div E = 0
  BY <1>1, <1>2
<1>4. n >= FirstNid
  BY <1>1, <1>2, <1>3
<1>. QED
  BY <1>1, <1>2, <1>4, NidFacts DEF Nids, UserNids

(* A mount starts with the blocks that the NAT bits say are empty.         *)
LEMMA LoadIs ==
    ASSUME NEW page, NEW j, NEW nd, NEW addr, NEW bits \in NatBitsType, EmptyBlocks(bits, page),
           InitFree(addr).available_nids \in Int
    PROVE  MountScanned(load_free_nid_bitmap(InitFree(addr), bits), page, j, nd, InitFree(addr).available_nids)
<1>. DEFINE f == InitFree(addr)  k == InitFree(addr).available_nids
<1>1. /\ f \in FreeType /\ f.free_nid_list = <<>> /\ f.prealloc = {} /\ f.free_nid_bitmap = {}
      /\ f.nat_block_bitmap = {} /\ \A b \in Blks : f.free_nid_count[b] = 0
      /\ f.available_nids = k
  BY DEF InitFree, FreeType
<1>. HIDE DEF f, k
<1>2. Listed(f) = {} /\ Once(f.free_nid_list)
  BY <1>1 DEF Listed, ToSet, Once
<1>3. \A b \in Blks : Cardinality({} \cap NidsOf(b)) = 0
  <2>1. \A b \in Blks : {} \cap NidsOf(b) = {}
    OBVIOUS
  <2>. QED
    BY <2>1, FS_EmptySet
<1>4. MountScanned(f, page, j, nd, k)
  BY <1>1, <1>2, <1>3 DEF MountScanned, Scanning, FreeOK, ListOK, BitsOK
<1>5. CASE ~bits.enabled
  BY <1>4, <1>5 DEF load_free_nid_bitmap, f, k
<1>6. CASE bits.enabled
  <2>. DEFINE B == bits.empty \cup bits.full
              g == [f EXCEPT !.nat_block_bitmap = B]
              S == UNION {NidsOf(b) : b \in bits.empty}
              h == update_free_nid_bitmap(g, S, {}, TRUE)
  <2>1. B \in SUBSET Blks /\ bits.empty \subseteq Blks
    BY DEF NatBitsType
  <2>. HIDE DEF B
  <2>2. /\ g \in FreeType /\ SameList(f, g) /\ g.free_nid_bitmap = {} /\ g.free_nid_count = f.free_nid_count
        /\ g.available_nids = k
    BY <1>1, <2>1 DEF FreeType, SameList
  <2>. HIDE DEF g
  <2>3. FreeOK(g) /\ Listed(g) = {} /\ g.prealloc = {}
    BY <1>1, <1>2, <1>3, <2>2 DEF FreeOK, ListOK, BitsOK, SameList, Listed
  <2>4. UserSet(S) /\ \A n \in S : page[n] = NULL_ADDR
    <3>1. \A b \in bits.empty : NidsOf(b) \subseteq UserNids
      BY <1>6, <2>1, LaterBlocks DEF EmptyBlocks
    <3>. QED
      BY <1>6, <3>1 DEF EmptyBlocks, UserSet
  <2>5. Untouched(g, {})
    BY DEF Untouched
  <2>. HIDE DEF S
  <2>6. Updated(g, S, {}, h)
    BY <2>3, <2>4, <2>5, UpdateScan
  <2>7. h = load_free_nid_bitmap(f, bits)
    BY <1>6 DEF load_free_nid_bitmap, S, g, B
  <2>. HIDE DEF h
  <2>8. h.free_nid_bitmap \subseteq NullOnDisk(page, j)
    BY <2>2, <2>4, <2>6 DEF Updated, NullOnDisk, UserSet
  <2>9. FreeOK(h) /\ Listed(h) = {} /\ h.prealloc = {} /\ h.available_nids = k
    BY <2>2, <2>3, <2>6 DEF Updated, SameList, Listed
  <2>10. MountScanned(h, page, j, nd, k)
    BY <2>8, <2>9 DEF MountScanned, Scanning
  <2>. QED
    BY <2>7, <2>10 DEF f, k
<1>. QED
  BY <1>5, <1>6

(* available_nids of a mount counts the nids without a node.               *)
LEMMA InitCount ==
    ASSUME NEW addr
    PROVE  InitFree(addr).available_nids = Cardinality({n \in UserNids : addr[n] = NULL_ADDR})
<1>. DEFINE U == {n \in UserNids : addr[n] # NULL_ADDR}  V == {n \in UserNids : addr[n] = NULL_ADDR}
<1>1. IsFiniteSet(U) /\ IsFiniteSet(V) /\ IsFiniteSet(UserNids)
  BY NidFacts, FS_Subset
<1>2. U \cap V = {} /\ U \cup V = UserNids
  OBVIOUS
<1>. HIDE DEF U, V
<1>3. Cardinality(UserNids) = Cardinality(U) + Cardinality(V) - Cardinality({})
  BY <1>1, <1>2, FS_Union
<1>4. Cardinality({}) = 0 /\ Cardinality(U) \in Nat /\ Cardinality(V) \in Nat
  BY <1>1, FS_EmptySet, FS_CardinalityType
<1>5. FirstNid \in Nat /\ FirstNid < max_nid /\ max_nid \in Nat
  BY NatAssumption, NidFacts DEF max_nid
<1>6. Cardinality(UserNids) = max_nid - FirstNid
  <2>1. FirstNid \in Int /\ max_nid - 1 \in Int /\ max_nid - 1 >= FirstNid
    BY <1>5
  <2>2. Cardinality(FirstNid .. max_nid - 1) = (max_nid - 1) - FirstNid + 1
    BY <2>1, FS_Interval
  <2>. QED
    BY <1>5, <2>2 DEF UserNids
<1>7. InitFree(addr).available_nids = max_nid - Cardinality(U) - FirstNid
  BY DEF InitFree, U
<1>. QED
  BY <1>3, <1>4, <1>5, <1>6, <1>7 DEF V

(* A mount finds free nids, all of them vacant, and counts them.           *)
MountOK(m, page, j, nd) ==
    /\ Scanning(m.free, Unmapped, page, j, nd) /\ Listed(m.free) \subseteq Vacant(nd, Unmapped)
    /\ m.free.prealloc = {} /\ m.next \in Nids
    /\ m.free.available_nids = Cardinality({n \in UserNids : nd[n] = NULL_ADDR})

(* This is so whatever blocks it scans.                                    *)
LEMMA MountIs ==
    ASSUME NEW d, NEW copies, NEW page, NEW nd, page = Current(copies, d.nat_bitmap),
           nd = OnDisk(copies, d.nat_bitmap, d.journal), Truthful(Unmapped, page, d.journal, nd),
           d.nat_bits \in NatBitsType, EmptyBlocks(d.nat_bits, page), d.next_free_nid \in Nids
    PROVE  MountOK(Mounted(d, copies), page, d.journal, nd)
<1>. DEFINE j == d.journal  N == FREE_NID_PAGES  start == d.next_free_nid
            f0 == load_free_nid_bitmap(InitFree(nd), d.nat_bits)
            k == InitFree(nd).available_nids
            at == CHOOSE f : IsAt(start, N, f)
            after == CHOOSE f : IsAfter(f0, page, at, N, f)
            V == {n \in UserNids : nd[n] = NULL_ADDR}
<1>1. N \in Nat /\ start \in Nids
  BY NatAssumption
<1>2. k = Cardinality(V) /\ k \in Int
  <2>1. k = Cardinality(V)
    BY InitCount
  <2>2. IsFiniteSet(V)
    BY NidFacts, FS_Subset
  <2>. QED
    BY <2>1, <2>2, FS_CardinalityType
<1>3. Mounted(d, copies) = [free |-> scan_curseg_cache(after[N], Unmapped, j), next |-> at[N]]
  BY DEF Mounted, MountScan, IsAt, IsAfter
<1>4. MountScanned(f0, page, j, nd, k)
  BY <1>2, LoadIs
<1>. HIDE DEF f0, k, V
<1>5. \A i \in 0 .. N : at[i] \in Nids
  <2>1. PICK f : IsAt(start, N, f) /\ \A i \in 0 .. N : f[i] \in Nids
    BY <1>1, AtIs
  <2>2. IsAt(start, N, at)
    BY <2>1
  <2>. HIDE DEF at
  <2>. DEFINE S == {i \in Nat : i <= N => at[i] \in Nids}
  <2>3. \A i \in 0 .. N : at[i] = IF i = 0 THEN start ELSE NextBlock(at[i - 1])
    BY <2>2 DEF IsAt
  <2>4. 0 \in S
    BY <1>1, <2>3
  <2>5. ASSUME NEW i \in Nat, i \in S PROVE i + 1 \in S
    BY <1>1, <2>3, <2>5, NextBlockIs
  <2>. HIDE DEF S
  <2>6. Nat \subseteq S
    BY <2>4, <2>5, Induction
  <2>. QED
    BY <1>1, <2>6 DEF S
<1>. HIDE DEF at
<1>6. MountScanned(after[N], page, j, nd, k)
  <2>1. PICK f : IsAfter(f0, page, at, N, f) /\ MountScanned(f[N], page, j, nd, k)
    BY <1>1, <1>4, <1>5, AfterIs
  <2>2. IsAfter(f0, page, at, N, after)
    BY <2>1
  <2>. HIDE DEF after
  <2>3. /\ \A i \in 0 .. N : f[i] = IF i = 0 THEN f0 ELSE ScanBlock(f[i - 1], Unmapped, page, at[i - 1])
        /\ \A i \in 0 .. N : after[i] = IF i = 0 THEN f0 ELSE ScanBlock(after[i - 1], Unmapped, page, at[i - 1])
    BY <2>1, <2>2 DEF IsAfter
  <2>. DEFINE S == {i \in Nat : i <= N => after[i] = f[i]}
  <2>4. 0 \in S
    BY <1>1, <2>3
  <2>5. ASSUME NEW i \in Nat, i \in S PROVE i + 1 \in S
    BY <1>1, <2>3, <2>5
  <2>. HIDE DEF S
  <2>6. Nat \subseteq S
    BY <2>4, <2>5, Induction
  <2>7. after[N] = f[N]
    BY <1>1, <2>6 DEF S
  <2>. QED
    BY <2>1, <2>7
<1>. HIDE DEF after
<1>. DEFINE a == after[N]  g == scan_curseg_cache(a, Unmapped, j)
<1>7. Scanning(a, Unmapped, page, j, nd) /\ a.prealloc = {} /\ a.available_nids = k
  BY <1>6 DEF MountScanned
<1>. HIDE DEF a
<1>8. /\ Scanning(g, Unmapped, page, j, nd) /\ SameOwners(a, g)
      /\ Listed(g) \subseteq Vacant(nd, Unmapped)
  BY <1>7, ScanJournal
<1>9. at[N] \in Nids
  BY <1>1, <1>5
<1>. HIDE DEF g
<1>10. Mounted(d, copies) = [free |-> g, next |-> at[N]]
  BY <1>3 DEF g, a
<1>. QED
  BY <1>2, <1>7, <1>8, <1>9, <1>10 DEF MountOK, SameOwners, V

----------------------------------------------------------------------------
(* The inductive invariant, beside NatInv                                  *)

(* The NAT blocks as they count, and as the last checkpoint has them.      *)
CurPage == Current(nat, nat_bitmap)
CpPage == Current(nat, disk.nat_bitmap)

CpType == [phase : {"idle", "blocked", "flushed", "unmounted"}, umount : BOOLEAN, next_free_nid : Nids]

(* Values of the variables that NatTypes leaves out.                       *)
FreeTypes ==
    /\ pc \in [Creators -> {"idle", "allocated", "created"}]
    /\ nid \in [Creators -> Nids \cup {NoEntry}]
    /\ next_scan_nid \in Nids /\ scan.nid \in Nids
    /\ cp \in CpType /\ disk.next_free_nid \in Nids
    /\ nat_bits \in NatBitsType /\ disk.nat_bits \in NatBitsType

(* Who is past alloc_nid owns its nid, and nobody else has nids.           *)
Owners ==
    /\ \A n \in free.prealloc : \E c \in Creators : pc[c] # "idle" /\ nid[c] = n
    /\ \A c \in Creators :
         /\ pc[c] = "idle" => nid[c] = NoEntry
         /\ pc[c] # "idle" => nid[c] \in free.prealloc
         /\ pc[c] # "idle" => \A d \in Creators \ {c} : nid[d] # nid[c]
         /\ pc[c] = "allocated" => nid[c] \in Vacant(node, nat_root)
         /\ pc[c] = "created" => node[nid[c]] # NULL_ADDR

(* Between the pages and the journal, a scan lists nids that the journal   *)
(* knows better; nothing else.                                             *)
Lists ==
    /\ FreeOK(free)
    /\ Listed(free) \subseteq Vacant(node, nat_root) \cup Journalled(journal)
    /\ NatWriteLock => Listed(free) \subseteq Vacant(node, nat_root)
    /\ free.free_nid_bitmap \subseteq NullOnDisk(CurPage, journal)

(* A clean entry is checkpointed; one without a block is not, if dirty.    *)
Flags == \A n \in Nids : nat_root[n] # NoEntry =>
    /\ ~nat_root[n].dirty => nat_root[n].checkpointed
    /\ nat_root[n].dirty /\ nat_root[n].blk_addr \in {NULL_ADDR, NEW_ADDR} => ~nat_root[n].checkpointed

(* The nids of mkfs are in use, in the NAT blocks only.                    *)
Reserved == \A n \in Nids \ UserNids :
    /\ nat_root[n] = NoEntry /\ journal[n] = NoEntry /\ disk.journal[n] = NoEntry
    /\ n # 0 => \A c \in {0, 1} : nat[c][n] # NULL_ADDR
    /\ reader # NoEntry => reader.nid # n

NatBitsTrue == EmptyBlocks(nat_bits, CurPage) /\ EmptyBlocks(disk.nat_bits, CpPage)

(* available_nids counts the vacant nids that nobody has.                  *)
Counted == free.available_nids = Cardinality(Vacant(node, nat_root) \ free.prealloc)

(* Before a flush the flags say what the last checkpoint has, after it     *)
(* what the next one has.                                                  *)
Saved(n) == nat_root[n] = NoEntry \/ nat_root[n].checkpointed
Checkpointed == \A n \in UserNids : node[n] # NULL_ADDR =>
    /\ cp.phase = "flushed" => Saved(n)
    /\ cp.phase # "flushed" => (Saved(n) <=> durable[n] # NULL_ADDR)

JournalsFit ==
    /\ Cardinality(Journaled(journal)) <= NAT_JOURNAL_ENTRIES
    /\ Cardinality(Journaled(disk.journal)) <= NAT_JOURNAL_ENTRIES

FreeInv ==
    /\ FreeTypes /\ Owners /\ Lists /\ Flags /\ Reserved /\ NatBitsTrue
    /\ Counted /\ Checkpointed /\ JournalsFit

(* The cache, the journal and the NAT blocks tell a scan the truth.        *)
LEMMA TruthIs ==
    ASSUME NatInv, FreeInv
    PROVE  /\ Truthful(nat_root, CurPage, journal, node)
           /\ Scanning(free, nat_root, CurPage, journal, node)
<1>1. \A n \in Nids : CurPage[n] = nat[nat_bitmap[NAT_BLOCK_OFFSET(n)]][n]
  BY DEF CurPage, Current
<1>2. ASSUME NEW n \in Nids
      PROVE  /\ nat_root[n] # NoEntry => nat_root[n].blk_addr = node[n]
             /\ nat_root[n] = NoEntry \/ ~nat_root[n].dirty
                  => node[n] = IF journal[n] # NoEntry THEN journal[n] ELSE CurPage[n]
  <2>1. OnDisk(nat, nat_bitmap, journal)[n] =
          IF journal[n] # NoEntry THEN journal[n] ELSE nat[nat_bitmap[NAT_BLOCK_OFFSET(n)]][n]
    BY OnDiskIs
  <2>. QED
    BY <1>1, <2>1 DEF NatInv, Cached
<1>3. \A n \in Nids : nat_root[n] # NoEntry /\ nat_root[n].dirty /\ nat_root[n].blk_addr \in {NULL_ADDR, NEW_ADDR}
                        => ~nat_root[n].checkpointed
  BY DEF FreeInv, Flags
<1>4. \A n \in Nids \ UserNids : journal[n] = NoEntry /\ (n # 0 => CurPage[n] # NULL_ADDR)
  BY <1>1, BlockOfNid DEF FreeInv, Reserved, NatInv, NatTypes
<1>5. Truthful(nat_root, CurPage, journal, node)
  BY <1>2, <1>3, <1>4 DEF Truthful
<1>6. Scanning(free, nat_root, CurPage, journal, node)
  BY DEF FreeInv, Lists, Scanning
<1>. QED
  BY <1>5, <1>6

(* A vacant nid has no address on disk, and none at the last checkpoint.   *)
LEMMA VacantIs ==
    ASSUME NatInv, NEW n \in Vacant(node, nat_root)
    PROVE  /\ n \in NullOnDisk(CurPage, journal)
           /\ cp.phase # "flushed" => durable[n] = NULL_ADDR
<1>1. n \in UserNids /\ n \in Nids /\ node[n] = NULL_ADDR /\ (nat_root[n] = NoEntry \/ ~nat_root[n].dirty)
  BY NidFacts DEF Vacant, Dirty
<1>2. OnDisk(nat, nat_bitmap, journal)[n] = NULL_ADDR
  BY <1>1 DEF NatInv, Cached
<1>3. OnDisk(nat, nat_bitmap, journal)[n] = IF journal[n] # NoEntry THEN journal[n] ELSE CurPage[n]
  BY <1>1 DEF OnDisk, CurPage
<1>4. n \in NullOnDisk(CurPage, journal)
  BY <1>1, <1>2, <1>3 DEF NullOnDisk
<1>5. cp.phase # "flushed" => OnDisk(nat, nat_bitmap, journal) = durable
  BY DEF NatInv, Phases, DurableKept
<1>. QED
  BY <1>2, <1>4, <1>5

(* Steps that leave the table alone.                                       *)
tableVars == <<nat_root, journal, nat, nat_bitmap, nat_bits, disk, node, durable, reader>>

(* They keep what the invariant says of the table.                         *)
LEMMA TableFrame ==
    ASSUME FreeInv, UNCHANGED tableVars, (cp'.phase = "flushed") <=> (cp.phase = "flushed")
    PROVE  /\ Flags' /\ Reserved' /\ NatBitsTrue' /\ Checkpointed' /\ JournalsFit'
           /\ Vacant(node', nat_root') = Vacant(node, nat_root)
           /\ NullOnDisk(CurPage, journal)' = NullOnDisk(CurPage, journal)
           /\ Journalled(journal') = Journalled(journal)
<1>. USE DEF tableVars
<1>1. Flags' /\ Reserved'
  BY DEF FreeInv, Flags, Reserved
<1>2. NatBitsTrue'
  BY DEF FreeInv, NatBitsTrue, EmptyBlocks, CurPage, CpPage
<1>3. Checkpointed'
  BY DEF FreeInv, Checkpointed, Saved
<1>4. JournalsFit'
  BY DEF FreeInv, JournalsFit, Journaled
<1>5. Vacant(node', nat_root') = Vacant(node, nat_root) /\ Journalled(journal') = Journalled(journal)
  BY DEF Vacant, Journalled, Dirty
<1>6. NullOnDisk(CurPage, journal)' = NullOnDisk(CurPage, journal)
  BY DEF NullOnDisk, CurPage, Current
<1>. QED
  BY <1>1, <1>2, <1>3, <1>4, <1>5, <1>6

(* What a set loses with one element, and gains with one.                  *)
LEMMA OneLess ==
    ASSUME NEW S, IsFiniteSet(S), NEW x
    PROVE  /\ x \in S => Cardinality(S \ {x}) = Cardinality(S) - 1
           /\ x \notin S => Cardinality(S \cup {x}) = Cardinality(S) + 1
           /\ Cardinality(S) \in Nat
BY FS_RemoveElement, FS_AddElement, FS_CardinalityType

(* Vacant nids are finite in number.                                       *)
LEMMA VacantFinite == ASSUME NEW nd, NEW cache, NEW P PROVE IsFiniteSet(Vacant(nd, cache) \ P)
<1>1. Vacant(nd, cache) \ P \subseteq UserNids
  BY DEF Vacant
<1>. QED
  BY <1>1, NidFacts, FS_Subset

(* alloc_nid takes a vacant nid that nobody has.                           *)
LEMMA StepAlloc == ASSUME NatInv, FreeInv, NEW c \in Creators, alloc_nid(c) PROVE FreeInv'
<1>. DEFINE n == Head(free.free_nid_list)
<1>0. FreeTypes /\ Owners /\ Lists /\ Counted
  BY DEF FreeInv
<1>1. /\ pc[c] = "idle" /\ build = "none" /\ free.free_nid_list # <<>>
      /\ nid' = [nid EXCEPT ![c] = n] /\ pc' = [pc EXCEPT ![c] = "allocated"]
      /\ UNCHANGED tableVars /\ UNCHANGED <<next_scan_nid, scan, build, cp>>
      /\ free' = update_free_nid_bitmap([free EXCEPT !.free_nid_list = Tail(@), !.prealloc = @ \cup {n},
                                                     !.available_nids = @ - 1], {}, {n}, FALSE)
  BY DEF alloc_nid, on_build_free_nids, tableVars, caches, builder
<1>2. FreeOK(free)
  BY <1>0 DEF Lists
<1>. HIDE DEF n
<1>3. Taken(free, n, free')
  BY <1>1, <1>2, TakeIs DEF n
<1>4. /\ Flags' /\ Reserved' /\ NatBitsTrue' /\ Checkpointed' /\ JournalsFit'
      /\ Vacant(node', nat_root') = Vacant(node, nat_root)
      /\ NullOnDisk(CurPage, journal)' = NullOnDisk(CurPage, journal)
      /\ Journalled(journal') = Journalled(journal)
  BY <1>1, TableFrame
<1>5. n \in Vacant(node, nat_root) /\ n \in Nids /\ n \notin free.prealloc /\ n # NoEntry
  <2>1. n \in Vacant(node, nat_root) /\ n \notin free.prealloc
    BY <1>0, <1>1, <1>3 DEF Lists, NatWriteLock, Taken
  <2>2. n \in Nids
    BY <2>1, NidFacts DEF Vacant
  <2>. QED
    BY <2>1, <2>2, NatAssumption
<1>6. FreeTypes'
  BY <1>0, <1>1, <1>5 DEF FreeTypes, tableVars
<1>7. Lists'
  BY <1>0, <1>1, <1>3, <1>4 DEF Lists, Taken, NatWriteLock
<1>8. \A d \in Creators : d # c => pc'[d] = pc[d] /\ nid'[d] = nid[d]
  BY <1>0, <1>1 DEF FreeTypes
<1>9. pc'[c] = "allocated" /\ nid'[c] = n
  BY <1>0, <1>1 DEF FreeTypes
<1>10. free'.prealloc = free.prealloc \cup {n} /\ node' = node
  BY <1>1, <1>3 DEF Taken, tableVars
<1>11. Owners'
  <2>1. ASSUME NEW m \in free'.prealloc PROVE \E d \in Creators : pc'[d] # "idle" /\ nid'[d] = m
    <3>1. CASE m = n
      BY <1>9, <3>1
    <3>2. CASE m # n
      <4>1. PICK d \in Creators : pc[d] # "idle" /\ nid[d] = m
        BY <1>0, <1>10, <2>1, <3>2 DEF Owners
      <4>. QED
        BY <1>1, <1>8, <4>1
    <3>. QED
      BY <3>1, <3>2
  <2>2. \A d \in Creators : d # c => nid[d] # n
    BY <1>0, <1>5 DEF Owners
  <2>3. ASSUME NEW d \in Creators
        PROVE  /\ pc'[d] = "idle" => nid'[d] = NoEntry
               /\ pc'[d] # "idle" => nid'[d] \in free'.prealloc
               /\ pc'[d] # "idle" => \A e \in Creators \ {d} : nid'[e] # nid'[d]
               /\ pc'[d] = "allocated" => nid'[d] \in Vacant(node', nat_root')
               /\ pc'[d] = "created" => node'[nid'[d]] # NULL_ADDR
    <3>1. CASE d = c
      BY <1>4, <1>5, <1>8, <1>9, <1>10, <2>2, <3>1
    <3>2. CASE d # c
      BY <1>0, <1>4, <1>8, <1>9, <1>10, <2>2, <3>2 DEF Owners
    <3>. QED
      BY <3>1, <3>2
  <2>. QED
    BY <2>1, <2>3 DEF Owners
<1>12. Counted'
  <2>. DEFINE S == Vacant(node, nat_root) \ free.prealloc
  <2>1. n \in S /\ Vacant(node', nat_root') \ free'.prealloc = S \ {n}
    BY <1>4, <1>5, <1>10
  <2>2. free.available_nids = Cardinality(S) /\ IsFiniteSet(S)
    BY <1>0, VacantFinite DEF Counted
  <2>3. free'.available_nids = free.available_nids - 1
    BY <1>3 DEF Taken
  <2>. HIDE DEF S
  <2>4. Cardinality(S \ {n}) = Cardinality(S) - 1
    BY <2>1, <2>2, OneLess
  <2>. QED
    BY <2>1, <2>2, <2>3, <2>4 DEF Counted
<1>. QED
  BY <1>4, <1>6, <1>7, <1>11, <1>12 DEF FreeInv

(* A creator that is done, or has failed, has no nid any more.             *)
LEMMA OwnersRelease ==
    ASSUME FreeInv, NEW c \in Creators, pc[c] # "idle", free'.prealloc = free.prealloc \ {nid[c]},
           pc' = [pc EXCEPT ![c] = "idle"], nid' = [nid EXCEPT ![c] = NoEntry], UNCHANGED <<node, nat_root>>
    PROVE  Owners' /\ FreeTypes!1' /\ FreeTypes!2'
<1>0. FreeTypes /\ Owners /\ nid[c] \in free.prealloc
  BY DEF FreeInv, Owners
<1>1. \A d \in Creators : d # c => pc'[d] = pc[d] /\ nid'[d] = nid[d]
  BY <1>0 DEF FreeTypes
<1>2. pc'[c] = "idle" /\ nid'[c] = NoEntry
  BY <1>0 DEF FreeTypes
<1>3. pc' \in [Creators -> {"idle", "allocated", "created"}] /\ nid' \in [Creators -> Nids \cup {NoEntry}]
  BY <1>0 DEF FreeTypes
<1>4. Lists
  BY DEF FreeInv
<1>5. nid[c] \in Nids /\ nid[c] # NoEntry
  <2>1. nid[c] \in UserNids
    BY <1>0, <1>4 DEF Lists, FreeOK, ListOK
  <2>. QED
    BY <2>1, NidFacts, NatAssumption
<1>6. ASSUME NEW m \in free'.prealloc PROVE \E d \in Creators : pc'[d] # "idle" /\ nid'[d] = m
  <2>1. m \in free.prealloc /\ m # nid[c]
    BY <1>6
  <2>2. PICK d \in Creators : pc[d] # "idle" /\ nid[d] = m
    BY <1>0, <2>1 DEF Owners
  <2>. QED
    BY <1>1, <2>1, <2>2
<1>7. ASSUME NEW d \in Creators, d # c, pc[d] # "idle"
      PROVE  /\ nid[d] # nid[c] /\ nid[d] # NoEntry /\ nid[d] \in free'.prealloc
             /\ \A e \in Creators \ {d} : nid'[e] # nid[d]
  <2>1. nid[d] # nid[c] /\ nid[d] \in free.prealloc /\ \A e \in Creators \ {d} : nid[e] # nid[d]
    BY <1>0, <1>7 DEF Owners
  <2>2. nid[d] \in UserNids
    BY <1>4, <2>1 DEF Lists, FreeOK, ListOK
  <2>3. nid[d] # NoEntry
    BY <2>2, NidFacts, NatAssumption
  <2>. QED
    BY <1>1, <1>2, <2>1, <2>3
<1>8. Vacant(node', nat_root') = Vacant(node, nat_root)
  BY DEF Vacant, Dirty
<1>9. ASSUME NEW d \in Creators
      PROVE  /\ pc'[d] = "idle" => nid'[d] = NoEntry
             /\ pc'[d] # "idle" => nid'[d] \in free'.prealloc
             /\ pc'[d] # "idle" => \A e \in Creators \ {d} : nid'[e] # nid'[d]
             /\ pc'[d] = "allocated" => nid'[d] \in Vacant(node', nat_root')
             /\ pc'[d] = "created" => node'[nid'[d]] # NULL_ADDR
  <2>1. CASE d = c
    BY <1>2, <2>1
  <2>2. CASE d # c
    BY <1>0, <1>1, <1>7, <1>8, <2>2 DEF Owners
  <2>. QED
    BY <2>1, <2>2
<1>10. Owners'
  BY <1>6, <1>9 DEF Owners
<1>. QED
  BY <1>3, <1>10

(* alloc_nid_done: the node exists, so that its nid is not vacant.         *)
LEMMA StepDone == ASSUME NatInv, FreeInv, NEW c \in Creators, alloc_nid_done(c) PROVE FreeInv'
<1>0. FreeTypes /\ Owners /\ Lists /\ Counted
  BY DEF FreeInv
<1>1. /\ pc[c] = "created" /\ free' = [free EXCEPT !.prealloc = @ \ {nid[c]}]
      /\ pc' = [pc EXCEPT ![c] = "idle"] /\ nid' = [nid EXCEPT ![c] = NoEntry]
      /\ UNCHANGED tableVars /\ UNCHANGED <<next_scan_nid, scan, build, cp>>
  BY DEF alloc_nid_done, tableVars, caches, builder
<1>2. FreeOK(free)
  BY <1>0 DEF Lists
<1>3. /\ FreeOK(free') /\ free'.free_nid_list = free.free_nid_list /\ free'.prealloc = free.prealloc \ {nid[c]}
      /\ SameBits(free, free') /\ free'.available_nids = free.available_nids
  BY <1>1, <1>2, DropIs
<1>4. /\ Flags' /\ Reserved' /\ NatBitsTrue' /\ Checkpointed' /\ JournalsFit'
      /\ Vacant(node', nat_root') = Vacant(node, nat_root)
      /\ NullOnDisk(CurPage, journal)' = NullOnDisk(CurPage, journal)
      /\ Journalled(journal') = Journalled(journal)
  BY <1>1, TableFrame
<1>5. Owners' /\ FreeTypes!1' /\ FreeTypes!2'
  BY <1>1, <1>3, OwnersRelease DEF tableVars
<1>6. FreeTypes'
  BY <1>0, <1>1, <1>5 DEF FreeTypes, tableVars
<1>7. Lists'
  BY <1>0, <1>1, <1>3, <1>4 DEF Lists, Listed, SameBits, NatWriteLock
<1>8. Counted'
  <2>1. nid[c] \notin Vacant(node, nat_root)
    BY <1>0, <1>1 DEF Owners, Vacant
  <2>2. Vacant(node', nat_root') \ free'.prealloc = Vacant(node, nat_root) \ free.prealloc
    BY <1>3, <1>4, <2>1
  <2>. QED
    BY <1>0, <1>3, <2>2 DEF Counted
<1>. QED
  BY <1>4, <1>5, <1>6, <1>7, <1>8 DEF FreeInv

(* alloc_nid_failed: the nid is vacant as it was.                          *)
LEMMA StepFailed == ASSUME NatInv, FreeInv, NEW c \in Creators, alloc_nid_failed(c) PROVE FreeInv'
<1>. DEFINE n == nid[c]
<1>0. FreeTypes /\ Owners /\ Lists /\ Counted
  BY DEF FreeInv
<1>1. /\ pc[c] = "allocated"
      /\ pc' = [pc EXCEPT ![c] = "idle"] /\ nid' = [nid EXCEPT ![c] = NoEntry]
      /\ UNCHANGED tableVars /\ UNCHANGED <<next_scan_nid, scan, build, cp>>
  BY DEF alloc_nid_failed, tableVars, caches, builder
<1>2. FreeOK(free) /\ n \in free.prealloc /\ n \in Vacant(node, nat_root)
  BY <1>0, <1>1 DEF Lists, Owners
<1>3. PICK back \in {<<n>>, <<>>} : free' = update_free_nid_bitmap(
                [free EXCEPT !.free_nid_list = @ \o back, !.prealloc = @ \ {n}, !.available_nids = @ + 1],
                {n}, {}, FALSE)
  BY DEF alloc_nid_failed
<1>. HIDE DEF n
<1>4. GivenBack(free, n, free')
  BY <1>2, <1>3, GiveBackIs
<1>5. /\ Flags' /\ Reserved' /\ NatBitsTrue' /\ Checkpointed' /\ JournalsFit'
      /\ Vacant(node', nat_root') = Vacant(node, nat_root)
      /\ NullOnDisk(CurPage, journal)' = NullOnDisk(CurPage, journal)
      /\ Journalled(journal') = Journalled(journal)
  BY <1>1, TableFrame
<1>6. free'.prealloc = free.prealloc \ {nid[c]} /\ pc[c] # "idle" /\ UNCHANGED <<node, nat_root>>
  BY <1>1, <1>4 DEF GivenBack, n, tableVars
<1>7. Owners' /\ FreeTypes!1' /\ FreeTypes!2'
  BY <1>1, <1>6, OwnersRelease
<1>8. FreeTypes'
  BY <1>0, <1>1, <1>7 DEF FreeTypes, tableVars
<1>9. n \in NullOnDisk(CurPage, journal)
  BY <1>2, VacantIs
<1>10. Lists'
  BY <1>0, <1>1, <1>2, <1>4, <1>5, <1>9 DEF Lists, GivenBack, NatWriteLock
<1>11. Counted'
  <2>. DEFINE S == Vacant(node, nat_root) \ free.prealloc
  <2>1. n \notin S /\ Vacant(node', nat_root') \ free'.prealloc = S \cup {n}
    BY <1>2, <1>4, <1>5 DEF GivenBack
  <2>2. free.available_nids = Cardinality(S) /\ IsFiniteSet(S)
    BY <1>0, VacantFinite DEF Counted
  <2>3. free'.available_nids = free.available_nids + 1
    BY <1>4 DEF GivenBack
  <2>. HIDE DEF S
  <2>4. Cardinality(S \cup {n}) = Cardinality(S) + 1
    BY <2>1, <2>2, OneLess
  <2>. QED
    BY <2>1, <2>2, <2>3, <2>4 DEF Counted
<1>. QED
  BY <1>5, <1>7, <1>8, <1>10, <1>11 DEF FreeInv

(* Steps of build_free_nids change the list and the bitmap only.           *)
BuildKept ==
    /\ UNCHANGED tableVars /\ UNCHANGED <<pc, nid, cp>>
    /\ SameOwners(free, free') /\ next_scan_nid' \in Nids /\ scan'.nid \in Nids

(* Of the invariant they can disturb Lists only.                           *)
LEMMA BuildFrame ==
    ASSUME FreeInv, BuildKept
    PROVE  /\ FreeTypes' /\ Owners' /\ Flags' /\ Reserved' /\ NatBitsTrue' /\ Checkpointed' /\ JournalsFit'
           /\ Counted'
           /\ Vacant(node', nat_root') = Vacant(node, nat_root)
           /\ NullOnDisk(CurPage, journal)' = NullOnDisk(CurPage, journal)
           /\ Journalled(journal') = Journalled(journal)
<1>0. FreeTypes /\ Owners /\ Lists /\ Counted
  BY DEF FreeInv
<1>1. UNCHANGED tableVars /\ cp' = cp
  BY DEF BuildKept
<1>2. /\ Flags' /\ Reserved' /\ NatBitsTrue' /\ Checkpointed' /\ JournalsFit'
      /\ Vacant(node', nat_root') = Vacant(node, nat_root)
      /\ NullOnDisk(CurPage, journal)' = NullOnDisk(CurPage, journal)
      /\ Journalled(journal') = Journalled(journal)
  BY <1>1, TableFrame
<1>3. FreeTypes'
  BY <1>0 DEF FreeTypes, BuildKept, tableVars
<1>4. Owners' /\ Counted'
  BY <1>0, <1>2 DEF Owners, Counted, BuildKept, tableVars, SameOwners
<1>. QED
  BY <1>2, <1>3, <1>4

(* Each step of build_free_nids, and try_to_free_nids.                     *)
LEMMA StepBuild ==
    ASSUME NatInv, FreeInv, build_free_nids \/ build_bits \/ build_bits_journal \/ build_pages
                            \/ build_pages_journal \/ try_to_free_nids
    PROVE  FreeInv'
<1>0. FreeTypes /\ Owners /\ Lists /\ Counted
  BY DEF FreeInv
<1>1. /\ Truthful(nat_root, CurPage, journal, node)
      /\ Scanning(free, nat_root, CurPage, journal, node)
  BY TruthIs
<1>. USE DEF tableVars, caches, builder, procs
<1>2. CASE build_free_nids
  <2>1. BuildKept /\ free' = free /\ build' = "bits" /\ build = "none"
    BY <1>0, <1>2 DEF BuildKept, build_free_nids, SameOwners, FreeTypes
  <2>2. Lists'
    BY <1>0, <2>1, BuildFrame DEF Lists, NatWriteLock
  <2>. QED
    BY <2>1, <2>2, BuildFrame DEF FreeInv
<1>3. CASE build_bits
  <2>1. Scanning(free', nat_root, CurPage, journal, node) /\ SameOwners(free, free')
    BY <1>1, <1>3, ScanBits DEF build_bits
  <2>2. BuildKept /\ build' = "bits_journal"
    BY <1>0, <1>3, <2>1 DEF BuildKept, build_bits, FreeTypes
  <2>3. Lists'
    BY <2>1, <2>2, BuildFrame DEF Lists, NatWriteLock, Scanning
  <2>. QED
    BY <2>2, <2>3, BuildFrame DEF FreeInv
<1>4. CASE build_bits_journal
  <2>1. /\ Scanning(free', nat_root, CurPage, journal, node) /\ SameOwners(free, free')
        /\ Listed(free') \subseteq Vacant(node, nat_root)
    BY <1>1, <1>4, ScanJournal DEF build_bits_journal
  <2>2. BuildKept
    BY <1>0, <1>4, <2>1 DEF BuildKept, build_bits_journal, FreeTypes
  <2>3. Lists'
    BY <2>1, <2>2, BuildFrame DEF Lists, Scanning
  <2>. QED
    BY <2>2, <2>3, BuildFrame DEF FreeInv
<1>5. CASE build_pages
  <2>0. scan.nid \in Nids /\ scan'.nid = NextBlock(scan.nid)
    BY <1>0, <1>5 DEF FreeTypes, build_pages
  <2>1. Scanning(free', nat_root, CurPage, journal, node) /\ SameOwners(free, free')
    BY <1>1, <1>5, <2>0, ScanPage DEF build_pages, CurPage
  <2>2. BuildKept /\ build' \in {"pages_next", "pages_journal"}
    BY <1>0, <1>5, <2>0, <2>1, NextBlockIs DEF BuildKept, build_pages, FreeTypes
  <2>3. Lists'
    BY <2>1, <2>2, BuildFrame DEF Lists, Scanning, NatWriteLock
  <2>. QED
    BY <2>2, <2>3, BuildFrame DEF FreeInv
<1>6. CASE build_pages_journal
  <2>1. /\ Scanning(free', nat_root, CurPage, journal, node) /\ SameOwners(free, free')
        /\ Listed(free') \subseteq Vacant(node, nat_root)
    BY <1>1, <1>6, ScanJournal DEF build_pages_journal
  <2>2. BuildKept
    BY <1>0, <1>6, <2>1, NidFacts DEF BuildKept, build_pages_journal, FreeTypes
  <2>3. Lists'
    BY <2>1, <2>2, BuildFrame DEF Lists, Scanning
  <2>. QED
    BY <2>2, <2>3, BuildFrame DEF FreeInv
<1>7. CASE try_to_free_nids
  <2>1. Len(free.free_nid_list) \in Nat /\ MAX_FREE_NIDS \in Nat /\ FreeOK(free)
    <3>1. free.free_nid_list \in Seq(Nids) /\ FreeOK(free)
      BY <1>0 DEF Lists, FreeOK, FreeType
    <3>2. MAX_FREE_NIDS \in Nat
      BY NatAssumption DEF MAX_FREE_NIDS
    <3>. QED
      BY <3>1, <3>2
  <2>2. PICK k \in 1 .. Len(free.free_nid_list) - MAX_FREE_NIDS :
          free' = [free EXCEPT !.free_nid_list = SubSeq(@, k + 1, Len(@))]
    BY <1>7 DEF try_to_free_nids
  <2>3. k \in 1 .. Len(free.free_nid_list)
    BY <2>1
  <2>4. /\ FreeOK(free') /\ Listed(free') \subseteq Listed(free) /\ SameOwners(free, free')
        /\ SameBits(free, free')
    BY <2>1, <2>2, <2>3, ShrinkIs
  <2>5. BuildKept /\ build' = build
    BY <1>0, <1>7, <2>4 DEF BuildKept, try_to_free_nids, FreeTypes
  <2>6. Lists'
    BY <1>0, <2>4, <2>5, BuildFrame DEF Lists, SameBits, NatWriteLock
  <2>. QED
    BY <2>5, <2>6, BuildFrame DEF FreeInv
<1>. QED
  BY <1>2, <1>3, <1>4, <1>5, <1>6, <1>7

(* set_node_addr: nobody has listed n, and only an owner creates a node.   *)
NewAddr(n, a) ==
    /\ n \in UserNids /\ a \in NodeAddrs /\ OpLock /\ NatWriteLock
    /\ nat_root' = [nat_root EXCEPT ![n] = Entry(a, Saved(n) /\ a \notin {NULL_ADDR, NEW_ADDR}, TRUE)]
    /\ node' = [node EXCEPT ![n] = a]
    /\ UNCHANGED <<journal, nat, nat_bitmap, nat_bits, free, next_scan_nid, build, scan, nid, reader,
                   cp, disk, durable>>

(* What the step leaves of vacant nids and flags.                          *)
LEMMA SetAddrFrame ==
    ASSUME NatInv, FreeInv, NEW n, NEW a, NewAddr(n, a),
           node[n] = NULL_ADDR => n \in free.prealloc /\ a = NEW_ADDR /\ n \in Vacant(node, nat_root),
           node[n] # NULL_ADDR => a # NEW_ADDR
    PROVE  /\ Lists' /\ Flags' /\ Reserved' /\ NatBitsTrue' /\ Counted' /\ Checkpointed' /\ JournalsFit'
           /\ Vacant(node', nat_root') = Vacant(node, nat_root) \ {n}
           /\ node'[n] = a /\ \A m \in Nids : m # n => node'[m] = node[m]
<1>. DEFINE k == Saved(n) /\ a \notin {NULL_ADDR, NEW_ADDR}  e == Entry(a, k, TRUE)
<1>0. /\ Lists /\ Flags /\ Reserved /\ NatBitsTrue /\ Counted /\ Checkpointed /\ JournalsFit
      /\ NatTypes /\ n \in Nids /\ n \in UserNids
  BY NidFacts DEF FreeInv, NatInv, NewAddr
<1>1. k \in BOOLEAN
  BY <1>0 DEF Saved, NatTypes, EntryType
<1>. HIDE DEF k
<1>2. e \in EntryType /\ e # NoEntry /\ e.blk_addr = a /\ e.checkpointed = k /\ e.dirty = TRUE
  BY <1>1, Entries DEF NewAddr
<1>. HIDE DEF e
<1>3. /\ nat_root' = [nat_root EXCEPT ![n] = e] /\ node' = [node EXCEPT ![n] = a]
      /\ UNCHANGED <<journal, nat, nat_bitmap, nat_bits, free, build, reader, cp, disk, durable>>
      /\ NatWriteLock /\ OpLock
  BY DEF NewAddr, e, k
<1>4. \A m \in Nids : m # n => nat_root'[m] = nat_root[m] /\ node'[m] = node[m]
  BY <1>0, <1>3 DEF NatTypes
<1>5. nat_root'[n] = e /\ node'[n] = a
  BY <1>0, <1>3 DEF NatTypes
<1>6. Vacant(node', nat_root') = Vacant(node, nat_root) \ {n}
  <2>1. ASSUME NEW m \in UserNids, m # n
        PROVE  m \in Vacant(node', nat_root') <=> m \in Vacant(node, nat_root)
    BY <1>4, <2>1, NidFacts DEF Vacant, Dirty
  <2>2. n \notin Vacant(node', nat_root')
    BY <1>0, <1>2, <1>5 DEF Vacant, Dirty
  <2>. QED
    BY <2>1, <2>2 DEF Vacant
<1>7. n \notin Listed(free)
  <2>1. node[n] = NULL_ADDR => n \notin Listed(free)
    BY <1>0 DEF Lists, FreeOK, ListOK
  <2>2. node[n] # NULL_ADDR => n \notin Listed(free)
    BY <1>0, <1>3 DEF Lists, Vacant
  <2>. QED
    BY <2>1, <2>2
<1>8. Lists'
  <2>1. Listed(free) \subseteq Vacant(node', nat_root')
    BY <1>0, <1>3, <1>6, <1>7 DEF Lists
  <2>2. NullOnDisk(CurPage, journal)' = NullOnDisk(CurPage, journal)
    BY <1>3 DEF NullOnDisk, CurPage, Current
  <2>. QED
    BY <1>0, <1>3, <2>1, <2>2 DEF Lists
<1>9. Flags'
  <2>1. a \in {NULL_ADDR, NEW_ADDR} => ~k
    BY DEF k
  <2>. QED
    BY <1>0, <1>2, <1>4, <1>5, <2>1 DEF Flags
<1>10. Reserved'
  BY <1>0, <1>3, <1>4 DEF Reserved
<1>11. NatBitsTrue' /\ JournalsFit'
  BY <1>0, <1>3 DEF NatBitsTrue, JournalsFit, EmptyBlocks, CurPage, CpPage, Journaled
<1>12. Counted'
  <2>1. Vacant(node', nat_root') \ free'.prealloc = Vacant(node, nat_root) \ free.prealloc
    <3>1. n \in Vacant(node, nat_root) => n \in free.prealloc
      BY DEF Vacant
    <3>. QED
      BY <1>3, <1>6, <3>1
  <2>. QED
    BY <1>0, <1>3, <2>1 DEF Counted
<1>13. Checkpointed'
  <2>0. cp.phase = "idle" /\ cp' = cp /\ durable' = durable
    BY <1>3 DEF OpLock
  <2>1. ASSUME NEW m \in UserNids, m # n, node'[m] # NULL_ADDR
        PROVE  Saved(m)' <=> durable[m] # NULL_ADDR
    BY <1>0, <1>4, <2>0, <2>1, NidFacts DEF Checkpointed, Saved
  <2>2. ASSUME a # NULL_ADDR PROVE Saved(n)' <=> durable[n] # NULL_ADDR
    <3>1. Saved(n)' <=> k
      BY <1>2, <1>5 DEF Saved
    <3>2. CASE node[n] = NULL_ADDR
      <4>1. durable[n] = NULL_ADDR
        BY <2>0, <3>2, VacantIs
      <4>2. ~k
        BY <3>2 DEF k
      <4>. QED
        BY <3>1, <4>1, <4>2
    <3>3. CASE node[n] # NULL_ADDR
      <4>1. Saved(n) <=> durable[n] # NULL_ADDR
        BY <1>0, <2>0, <3>3 DEF Checkpointed
      <4>2. k <=> Saved(n)
        BY <2>2, <3>3 DEF k
      <4>. QED
        BY <3>1, <4>1, <4>2
    <3>. QED
      BY <3>2, <3>3
  <2>. QED
    BY <1>5, <2>0, <2>1, <2>2 DEF Checkpointed
<1>. QED
  BY <1>4, <1>5, <1>6, <1>8, <1>9, <1>10, <1>11, <1>12, <1>13

(* new_node_page: the nid of the creator gets its first address.           *)
LEMMA StepNew == ASSUME NatInv, FreeInv, NEW c \in Creators, new_node_page(c) PROVE FreeInv'
<1>. DEFINE n == nid[c]
<1>0. FreeTypes /\ Owners /\ Lists
  BY DEF FreeInv
<1>1. /\ OpLock /\ pc[c] = "allocated" /\ set_node_addr(n, NEW_ADDR) /\ pc' = [pc EXCEPT ![c] = "created"]
      /\ UNCHANGED <<free, next_scan_nid, build, scan, nid, reader, cp, disk, durable>>
  BY DEF new_node_page, builder
<1>2. n \in Vacant(node, nat_root) /\ n \in UserNids /\ n \in free.prealloc /\ node[n] = NULL_ADDR
  BY <1>0, <1>1 DEF Owners, Vacant
<1>3. NewAddr(n, NEW_ADDR)
  BY <1>1, <1>2 DEF NewAddr, set_node_addr, Saved, NodeAddrs
<1>. HIDE DEF n
<1>4. /\ Lists' /\ Flags' /\ Reserved' /\ NatBitsTrue' /\ Counted' /\ Checkpointed' /\ JournalsFit'
      /\ Vacant(node', nat_root') = Vacant(node, nat_root) \ {n}
      /\ node'[n] = NEW_ADDR /\ \A m \in Nids : m # n => node'[m] = node[m]
  BY <1>2, <1>3, SetAddrFrame
<1>5. /\ pc' \in [Creators -> {"idle", "allocated", "created"}] /\ pc'[c] = "created"
      /\ \A d \in Creators : d # c => pc'[d] = pc[d]
  BY <1>0, <1>1 DEF FreeTypes
<1>6. FreeTypes'
  BY <1>0, <1>1, <1>3, <1>5 DEF FreeTypes, NewAddr
<1>7. Owners'
  <2>1. nid' = nid /\ free' = free /\ NEW_ADDR # NULL_ADDR
    BY <1>1, NatAssumption
  <2>2. \A m \in free'.prealloc : \E d \in Creators : pc'[d] # "idle" /\ nid'[d] = m
    <3>1. \A m \in free.prealloc : \E d \in Creators : pc[d] # "idle" /\ nid[d] = m
      BY <1>0 DEF Owners
    <3>2. \A d \in Creators : pc[d] # "idle" => pc'[d] # "idle"
      BY <1>5
    <3>. QED
      BY <2>1, <3>1, <3>2
  <2>3. ASSUME NEW d \in Creators
        PROVE  /\ pc'[d] = "idle" => nid'[d] = NoEntry
               /\ pc'[d] # "idle" => nid'[d] \in free'.prealloc
               /\ pc'[d] # "idle" => \A e \in Creators \ {d} : nid'[e] # nid'[d]
               /\ pc'[d] = "allocated" => nid'[d] \in Vacant(node', nat_root')
               /\ pc'[d] = "created" => node'[nid'[d]] # NULL_ADDR
    <3>1. CASE d = c
      BY <1>0, <1>1, <1>4, <1>5, <2>1, <3>1 DEF Owners, n
    <3>2. CASE d # c
      <4>1. pc'[d] = pc[d] /\ (pc[d] # "idle" => nid[d] # n /\ nid[d] \in free.prealloc)
        BY <1>0, <1>5, <3>2 DEF Owners, n
      <4>2. pc[d] # "idle" => nid[d] \in Nids
        BY <1>0, <4>1, NidFacts DEF Lists, FreeOK, ListOK
      <4>. QED
        BY <1>0, <1>4, <2>1, <4>1, <4>2 DEF Owners
    <3>. QED
      BY <3>1, <3>2
  <2>. QED
    BY <2>2, <2>3 DEF Owners
<1>. QED
  BY <1>4, <1>6, <1>7 DEF FreeInv

(* write_node_page and truncate_node: the node is in use.                  *)
LEMMA StepWrite ==
    ASSUME NatInv, FreeInv, NEW n \in UserNids,
           truncate_node(n) \/ \E a \in Addrs : write_node_page(n, a)
    PROVE  FreeInv'
<1>0. FreeTypes /\ Owners /\ Lists
  BY DEF FreeInv
<1>. DEFINE A == Addrs \cup {NULL_ADDR}
<1>1. PICK a \in A : /\ OpLock /\ node[n] # NULL_ADDR /\ set_node_addr(n, a)
                     /\ a = NULL_ADDR => \A c \in Creators : nid[c] # n
                     /\ UNCHANGED <<free, next_scan_nid, build, scan, pc, nid, reader, cp, disk, durable>>
  <2>1. NULL_ADDR \notin Addrs
    BY NatAssumption
  <2>2. CASE truncate_node(n)
    BY <2>2 DEF truncate_node, builder, procs
  <2>3. CASE \E a \in Addrs : write_node_page(n, a)
    BY <2>1, <2>3 DEF write_node_page, builder, procs
  <2>. QED
    BY <2>2, <2>3
<1>2. a \in NodeAddrs /\ a # NEW_ADDR
  BY NatAssumption DEF NodeAddrs, RawAddrs
<1>3. NewAddr(n, a)
  BY <1>1, <1>2 DEF NewAddr, set_node_addr, Saved
<1>4. /\ Lists' /\ Flags' /\ Reserved' /\ NatBitsTrue' /\ Counted' /\ Checkpointed' /\ JournalsFit'
      /\ Vacant(node', nat_root') = Vacant(node, nat_root) \ {n}
      /\ node'[n] = a /\ \A m \in Nids : m # n => node'[m] = node[m]
  BY <1>1, <1>2, <1>3, SetAddrFrame
<1>5. FreeTypes'
  BY <1>0, <1>1, <1>3 DEF FreeTypes, NewAddr
<1>6. Owners'
  <2>1. nid' = nid /\ free' = free /\ pc' = pc
    BY <1>1
  <2>2. n \notin Vacant(node, nat_root)
    BY <1>1 DEF Vacant
  <2>3. ASSUME NEW d \in Creators, pc[d] = "created" PROVE node'[nid[d]] # NULL_ADDR
    <3>1. nid[d] \in Nids /\ node[nid[d]] # NULL_ADDR
      BY <1>0, <2>3, NidFacts DEF Lists, FreeOK, ListOK, Owners
    <3>. QED
      BY <1>1, <1>4, <3>1
  <2>. QED
    BY <1>0, <1>4, <2>1, <2>2, <2>3 DEF Owners
<1>. QED
  BY <1>4, <1>5, <1>6 DEF FreeInv

(* Lookups and evictions change clean entries only.                        *)
CleanStep ==
    /\ Dirty(nat_root') = Dirty(nat_root)
    /\ \A n \in Nids : Saved(n)' <=> Saved(n)
    /\ \A n \in Nids : nat_root'[n] = nat_root[n] \/ (nat_root'[n] # NoEntry =>
                          nat_root'[n].checkpointed /\ ~nat_root'[n].dirty)
    /\ \A n \in Nids \ UserNids : nat_root'[n] = NoEntry /\ (reader' # NoEntry => reader'.nid # n)
    /\ UNCHANGED <<journal, nat, nat_bitmap, nat_bits, free, next_scan_nid, build, scan, pc, nid, cp,
                   disk, node, durable>>

(* The invariant does not depend on clean entries.                         *)
LEMMA CleanFrame == ASSUME NatInv, FreeInv, CleanStep PROVE FreeInv'
<1>0. /\ FreeTypes /\ Owners /\ Lists /\ Flags /\ Reserved /\ NatBitsTrue /\ Counted /\ Checkpointed
      /\ JournalsFit
  BY DEF FreeInv
<1>1. Vacant(node', nat_root') = Vacant(node, nat_root)
  BY DEF CleanStep, Vacant
<1>2. NullOnDisk(CurPage, journal)' = NullOnDisk(CurPage, journal) /\ Journalled(journal') = Journalled(journal)
  BY DEF CleanStep, NullOnDisk, CurPage, Current, Journalled
<1>3. FreeTypes'
  BY <1>0 DEF CleanStep, FreeTypes
<1>4. Owners'
  BY <1>0, <1>1 DEF CleanStep, Owners
<1>5. Lists'
  BY <1>0, <1>1, <1>2 DEF CleanStep, Lists, NatWriteLock
<1>6. Flags'
  BY <1>0 DEF CleanStep, Flags
<1>7. Reserved'
  BY <1>0 DEF CleanStep, Reserved
<1>8. NatBitsTrue' /\ JournalsFit'
  BY <1>0 DEF CleanStep, NatBitsTrue, EmptyBlocks, CurPage, CpPage, JournalsFit, Journaled
<1>9. Counted'
  BY <1>0, <1>1 DEF CleanStep, Counted
<1>10. Checkpointed'
  BY <1>0, NidFacts DEF CleanStep, Checkpointed
<1>. QED
  BY <1>3, <1>4, <1>5, <1>6, <1>7, <1>8, <1>9, <1>10 DEF FreeInv

(* get_node_info, cache_nat_entry and try_to_free_nats.                    *)
LEMMA StepLookup ==
    ASSUME NatInv, FreeInv,
           cache_nat_entry \/ \E n \in UserNids : get_node_info(n) \/ try_to_free_nats(n)
    PROVE  FreeInv'
<1>0. NatTypes /\ Reserved /\ Flags
  BY DEF NatInv, FreeInv
<1>. USE DEF caches, builder, procs
<1>1. ASSUME NEW n \in UserNids, get_node_info(n) PROVE CleanStep
  <2>1. nat_root' = nat_root /\ reader'.nid = n
    BY <1>1 DEF get_node_info
  <2>2. UNCHANGED <<journal, nat, nat_bitmap, nat_bits, free, next_scan_nid, build, scan, pc, nid, cp,
                   disk, node, durable>>
    BY <1>1 DEF get_node_info
  <2>. QED
    BY <1>0, <2>1, <2>2 DEF CleanStep, Dirty, Saved, Reserved
<1>2. ASSUME NEW n \in UserNids, try_to_free_nats(n) PROVE CleanStep
  <2>1. /\ nat_root[n] # NoEntry /\ ~nat_root[n].dirty /\ nat_root' = [nat_root EXCEPT ![n] = NoEntry]
        /\ reader' = reader
        /\ UNCHANGED <<journal, nat, nat_bitmap, nat_bits, free, next_scan_nid, build, scan, pc, nid, cp,
                       disk, node, durable>>
    BY <1>2 DEF try_to_free_nats
  <2>2. n \in Nids /\ \A m \in Nids : nat_root'[m] = IF m = n THEN NoEntry ELSE nat_root[m]
    BY <1>0, <2>1, NidFacts DEF NatTypes
  <2>3. nat_root[n].checkpointed
    BY <1>0, <2>1, <2>2 DEF Flags
  <2>4. Dirty(nat_root') = Dirty(nat_root)
    BY <2>1, <2>2 DEF Dirty
  <2>5. \A m \in Nids : Saved(m)' <=> Saved(m)
    BY <2>2, <2>3 DEF Saved
  <2>. QED
    BY <1>0, <2>1, <2>2, <2>4, <2>5 DEF CleanStep, Reserved
<1>3. ASSUME cache_nat_entry PROVE CleanStep
  <2>. DEFINE n == reader.nid  e == Entry(ReadAddr, TRUE, FALSE)
  <2>1. /\ reader # NoEntry /\ reader' = NoEntry
        /\ \/ nat_root' = nat_root
           \/ nat_root[n] = NoEntry /\ nat_root' = [nat_root EXCEPT ![n] = e]
        /\ UNCHANGED <<journal, nat, nat_bitmap, nat_bits, free, next_scan_nid, build, scan, pc, nid, cp,
                       disk, node, durable>>
    BY <1>3 DEF cache_nat_entry
  <2>2. n \in Nids /\ n \in UserNids
    BY <1>0, <2>1 DEF NatTypes, ReaderType, Reserved
  <2>3. ReadAddr \in NodeAddrs
    BY <2>1, NatReadAddr DEF NodeAddrs
  <2>4. e # NoEntry /\ e.checkpointed = TRUE /\ e.dirty = FALSE
    BY <2>3, Entries
  <2>. HIDE DEF e
  <2>5. \A m \in Nids : nat_root'[m] = nat_root[m] \/ (m = n /\ nat_root[m] = NoEntry /\ nat_root'[m] = e)
    BY <1>0, <2>1, <2>2 DEF NatTypes
  <2>6. Dirty(nat_root') = Dirty(nat_root)
    BY <2>4, <2>5 DEF Dirty
  <2>7. \A m \in Nids : Saved(m)' <=> Saved(m)
    BY <2>4, <2>5 DEF Saved
  <2>8. \A m \in Nids \ UserNids : nat_root'[m] = NoEntry
    BY <1>0, <2>2, <2>5 DEF Reserved
  <2>. QED
    BY <2>1, <2>4, <2>5, <2>6, <2>7, <2>8 DEF CleanStep
<1>. QED
  BY <1>1, <1>2, <1>3, CleanFrame

(* block_operations notes a nid of the list, or where the scan has come.   *)
LEMMA StepBlock == ASSUME NatInv, FreeInv, NEW u \in BOOLEAN, block_operations(u) PROVE FreeInv'
<1>0. FreeTypes /\ Owners /\ Lists /\ Counted
  BY DEF FreeInv
<1>1. /\ cp.phase = "idle" /\ cp'.phase = "blocked"
      /\ cp' = [phase |-> "blocked", umount |-> u, next_free_nid |-> next_free_nid]
      /\ UNCHANGED tableVars /\ UNCHANGED <<free, next_scan_nid, build, scan, pc, nid>>
  BY DEF block_operations, tableVars, caches, builder, procs
<1>2. next_free_nid \in Nids
  <2>1. free.free_nid_list \in Seq(Nids)
    BY <1>0 DEF Lists, FreeOK, FreeType
  <2>2. free.free_nid_list # <<>> => Head(free.free_nid_list) \in Nids
    BY <2>1
  <2>. QED
    BY <1>0, <2>2 DEF next_free_nid, FreeTypes
<1>3. /\ Flags' /\ Reserved' /\ NatBitsTrue' /\ Checkpointed' /\ JournalsFit'
      /\ Vacant(node', nat_root') = Vacant(node, nat_root)
      /\ NullOnDisk(CurPage, journal)' = NullOnDisk(CurPage, journal)
      /\ Journalled(journal') = Journalled(journal)
  BY <1>1, TableFrame
<1>4. FreeTypes'
  <2>1. cp' \in CpType
    BY <1>1, <1>2 DEF CpType
  <2>. QED
    BY <1>0, <1>1, <2>1 DEF FreeTypes, tableVars
<1>5. Owners' /\ Counted'
  BY <1>0, <1>1, <1>3 DEF Owners, Counted, tableVars
<1>6. Lists'
  BY <1>0, <1>1, <1>3 DEF Lists, NatWriteLock
<1>. QED
  BY <1>3, <1>4, <1>5, <1>6 DEF FreeInv

(* do_checkpoint: what was flushed becomes durable.                        *)
LEMMA StepCommit == ASSUME NatInv, FreeInv, do_checkpoint PROVE FreeInv'
<1>0. /\ FreeTypes /\ Owners /\ Lists /\ Flags /\ Reserved /\ NatBitsTrue /\ Counted /\ Checkpointed
      /\ JournalsFit
  BY DEF FreeInv
<1>. DEFINE bits == [nat_bits EXCEPT !.enabled = @ /\ cp.umount]
<1>1. /\ cp.phase = "flushed" /\ durable' = node /\ cp'.phase # "flushed" /\ cp' \in CpType
      /\ disk'.nat_bitmap = nat_bitmap /\ disk'.journal = journal /\ disk'.next_free_nid = cp.next_free_nid
      /\ disk'.nat_bits = bits
      /\ UNCHANGED <<nat_root, journal, nat, nat_bitmap, nat_bits, node, reader, free, next_scan_nid, build,
                     scan, pc, nid>>
  BY NidFacts DEF do_checkpoint, caches, builder, procs, NoCheckpoint, CpType
<1>2. bits \in NatBitsType /\ bits.empty = nat_bits.empty /\ (bits.enabled => nat_bits.enabled)
  <2>1. nat_bits \in NatBitsType
    BY <1>0 DEF FreeTypes
  <2>2. (nat_bits.enabled /\ cp.umount) \in BOOLEAN
    OBVIOUS
  <2>. QED
    BY <2>1, <2>2 DEF NatBitsType
<1>. HIDE DEF bits
<1>3. FreeTypes'
  BY <1>0, <1>1, <1>2 DEF FreeTypes, CpType
<1>4. Vacant(node', nat_root') = Vacant(node, nat_root) /\ CurPage' = CurPage /\ CpPage' = CurPage
  BY <1>1 DEF Vacant, Dirty, CurPage, CpPage
<1>5. Owners' /\ Counted'
  BY <1>0, <1>1, <1>4 DEF Owners, Counted
<1>6. Lists'
  BY <1>0, <1>1, <1>4 DEF Lists, NatWriteLock
<1>7. Flags' /\ Reserved'
  BY <1>0, <1>1 DEF Flags, Reserved
<1>8. NatBitsTrue'
  BY <1>0, <1>1, <1>2, <1>4 DEF NatBitsTrue, EmptyBlocks
<1>9. Checkpointed'
  BY <1>0, <1>1 DEF Checkpointed, Saved
<1>10. JournalsFit'
  BY <1>0, <1>1 DEF JournalsFit, Journaled
<1>. QED
  BY <1>3, <1>5, <1>6, <1>7, <1>8, <1>9, <1>10 DEF FreeInv

----------------------------------------------------------------------------
(* Mounts                                                                  *)

(* What build_node_manager sets.                                           *)
JustMounted ==
    /\ nat_root = Unmapped /\ journal = disk.journal /\ nat_bitmap = disk.nat_bitmap
    /\ nat_bits = disk.nat_bits
    /\ free = Mounted(disk, nat).free /\ next_scan_nid = Mounted(disk, nat).next
    /\ build = "none" /\ scan.nid = 0
    /\ pc = [c \in Creators |-> "idle"] /\ nid = [c \in Creators |-> NoEntry]
    /\ reader = NoEntry /\ cp = NoCheckpoint /\ node = durable

(* What it finds on disk.                                                  *)
DiskOK ==
    /\ disk.nat_bits \in NatBitsType /\ disk.next_free_nid \in Nids
    /\ EmptyBlocks(disk.nat_bits, CpPage)
    /\ \A n \in Nids \ UserNids : /\ disk.journal[n] = NoEntry
                                  /\ n # 0 => \A c \in {0, 1} : nat[c][n] # NULL_ADDR
    /\ Cardinality(Journaled(disk.journal)) <= NAT_JOURNAL_ENTRIES

(* A mounted volume satisfies the invariant.                               *)
LEMMA MountedOK == NatInv /\ JustMounted /\ DiskOK => FreeInv
<1>. SUFFICES ASSUME NatInv, JustMounted, DiskOK PROVE FreeInv
  OBVIOUS
<1>0. NatTypes /\ durable = OnDisk(nat, disk.nat_bitmap, disk.journal)
  BY DEF NatInv, DurableKept
<1>1. \A n \in Nids : Unmapped[n] = NoEntry
  BY DEF Unmapped
<1>2. CurPage = CpPage /\ \A n \in Nids : CpPage[n] = nat[disk.nat_bitmap[NAT_BLOCK_OFFSET(n)]][n]
  BY DEF JustMounted, CurPage, CpPage, Current
<1>3. Truthful(Unmapped, CpPage, disk.journal, durable)
  <2>1. \A n \in Nids : durable[n] = IF disk.journal[n] # NoEntry THEN disk.journal[n] ELSE CpPage[n]
    BY <1>0, <1>2, OnDiskIs
  <2>2. \A n \in Nids \ UserNids : disk.journal[n] = NoEntry /\ (n # 0 => CpPage[n] # NULL_ADDR)
    BY <1>0, <1>2, BlockOfNid DEF DiskOK, NatTypes
  <2>. QED
    BY <1>1, <2>1, <2>2 DEF Truthful
<1>. DEFINE m == Mounted(disk, nat)
<1>4. MountOK(m, CpPage, disk.journal, durable)
  BY <1>0, <1>3, MountIs DEF DiskOK, CpPage
<1>. HIDE DEF m
<1>5. free = m.free /\ next_scan_nid = m.next /\ node = durable /\ nat_root = Unmapped /\ journal = disk.journal
  BY DEF JustMounted, m
<1>6. Dirty(Unmapped) = {}
  BY <1>1 DEF Dirty
<1>7. FreeTypes
  BY <1>4, <1>5, NidFacts DEF FreeTypes, JustMounted, DiskOK, MountOK, NoCheckpoint, CpType
<1>8. Owners
  BY <1>4, <1>5 DEF Owners, JustMounted, MountOK
<1>9. Lists
  BY <1>2, <1>4, <1>5 DEF Lists, MountOK, Scanning
<1>10. Flags /\ Reserved
  BY <1>1, <1>5 DEF Flags, Reserved, JustMounted, DiskOK
<1>11. NatBitsTrue
  BY <1>2 DEF NatBitsTrue, JustMounted, DiskOK
<1>12. Counted
  <2>1. Vacant(node, nat_root) \ free.prealloc = {n \in UserNids : durable[n] = NULL_ADDR}
    BY <1>4, <1>5, <1>6 DEF Vacant, MountOK
  <2>. QED
    BY <1>4, <1>5, <2>1 DEF Counted, MountOK
<1>13. Checkpointed
  <2>1. cp.phase # "flushed"
    BY DEF JustMounted, NoCheckpoint
  <2>2. \A n \in UserNids : Saved(n)
    BY <1>1, <1>5, NidFacts DEF Saved
  <2>. QED
    BY <1>5, <2>1, <2>2 DEF Checkpointed
<1>14. JournalsFit
  BY <1>5 DEF JournalsFit, DiskOK
<1>. QED
  BY <1>7, <1>8, <1>9, <1>10, <1>11, <1>12, <1>13, <1>14 DEF FreeInv

(* mkfs leaves a volume that can be mounted.                               *)
LEMMA FreeInit == Init => FreeInv
<1>. SUFFICES ASSUME Init PROVE FreeInv
  OBVIOUS
<1>1. NatInv
  BY NatInit
<1>2. JustMounted
  BY DEF Init, JustMounted
<1>3. /\ disk.journal = Unmapped /\ disk.next_free_nid = FirstNid /\ nat = [c \in {0, 1} |-> Formatted]
      /\ disk.nat_bits = [enabled |-> NatBits, empty |-> Blks \ {0},
                          full |-> {b \in {0} : NatBitsOf(Formatted, b).full}]
      /\ disk.nat_bitmap = [b \in Blks |-> 0]
  BY DEF Init
<1>4. \A n \in Nids : Formatted[n] = IF n \in 1 .. FirstNid - 1 THEN CHOOSE a \in Addrs : TRUE ELSE NULL_ADDR
  BY DEF Formatted
<1>5. FirstNid \in Nat \ {0} /\ FirstNid < max_nid /\ FirstNid \in Nids /\ 0 \in Blks
  BY NatAssumption, NidFacts DEF max_nid, Nids, Blks
<1>6. disk.nat_bits \in NatBitsType
  BY <1>3, <1>5, NatAssumption DEF NatBitsType
<1>7. \A n \in Nids : CpPage[n] = Formatted[n]
  BY <1>3, BlockOfNid DEF CpPage, Current
<1>8. EmptyBlocks(disk.nat_bits, CpPage)
  <2>. SUFFICES ASSUME NEW b \in Blks, b # 0, NEW n \in NidsOf(b) PROVE CpPage[n] = NULL_ADDR
    BY <1>3 DEF EmptyBlocks
  <2>1. n \in UserNids /\ n \in Nids
    BY LaterBlocks, NidFacts
  <2>2. n >= FirstNid
    BY <1>5, <2>1, NidFacts
  <2>3. n \notin 1 .. FirstNid - 1
    BY <1>5, <2>1, <2>2, NidFacts
  <2>. QED
    BY <1>4, <1>7, <2>1, <2>3
<1>9. ASSUME NEW n \in Nids \ UserNids, n # 0, NEW c \in {0, 1} PROVE nat[c][n] # NULL_ADDR
  <2>1. n \in 1 .. FirstNid - 1
    BY <1>5, <1>9, NidFacts
  <2>2. (CHOOSE a \in Addrs : TRUE) \in Addrs /\ NULL_ADDR \notin Addrs
    BY NatAssumption
  <2>. QED
    BY <1>3, <1>4, <2>1, <2>2
<1>10. Cardinality(Journaled(disk.journal)) <= NAT_JOURNAL_ENTRIES
  <2>1. Journaled(Unmapped) = {}
    BY DEF Journaled, Unmapped
  <2>. QED
    BY <1>3, <2>1, FS_EmptySet, NatAssumption
<1>11. \A n \in Nids \ UserNids : disk.journal[n] = NoEntry
  BY <1>3 DEF Unmapped
<1>12. DiskOK
  BY <1>3, <1>5, <1>6, <1>8, <1>9, <1>10, <1>11 DEF DiskOK
<1>. QED
  BY <1>1, <1>2, <1>12, MountedOK

(* A mount after a crash in any state finds what the checkpoint has left.  *)
LEMMA StepMount == ASSUME NatInv, NatInv', FreeInv, build_node_manager PROVE FreeInv'
<1>1. (NatInv /\ JustMounted /\ DiskOK => FreeInv)'
  BY MountedOK, PTL
<1>2. JustMounted'
  BY DEF build_node_manager, JustMounted
<1>3. UNCHANGED <<nat, disk, durable>>
  BY DEF build_node_manager
<1>4. FreeTypes /\ NatBitsTrue /\ Reserved /\ JournalsFit
  BY DEF FreeInv
<1>5. DiskOK'
  BY <1>3, <1>4 DEF DiskOK, FreeTypes, NatBitsTrue, Reserved, JournalsFit, CpPage, EmptyBlocks, Journaled
<1>. QED
  BY <1>1, <1>2, <1>5

----------------------------------------------------------------------------
(* flush_nat_entries                                                       *)

(* What m, merged or not, is made of.                                      *)
ToFlush(m) ==
    /\ Dirty(nat_root) \subseteq Dirty(m.nat_root) /\ Dirty(m.nat_root) \subseteq UserNids
    /\ m.unused = {n \in Dirty(m.nat_root) \ Dirty(nat_root) : node[n] = NULL_ADDR}
    /\ \A n \in Nids \ Dirty(m.nat_root) : m.nat_root[n] = nat_root[n] /\ m.journal[n] = journal[n]

(* Of the journal's entries, those that are free and were not reused are   *)
(* counted already.                                                        *)
LEMMA MergedToFlush == ASSUME NatInv, FreeInv PROVE ToFlush(Merged)
<1>0. NatTypes /\ Reserved
  BY DEF NatInv, FreeInv
<1>. DEFINE R == [n \in Nids |->
        IF journal[n] = NoEntry THEN nat_root[n]
        ELSE IF nat_root[n] = NoEntry THEN Entry(journal[n], TRUE, TRUE)
        ELSE [nat_root[n] EXCEPT !.dirty = TRUE]]
<1>1. Merged.nat_root = R /\ Merged.journal = Unmapped /\ Merged.unused = Unused
  BY DEF Merged
<1>2. ASSUME NEW n \in Nids
      PROVE  n \in Dirty(R) <=> n \in Dirty(nat_root) \/ journal[n] # NoEntry
  <2>1. CASE journal[n] = NoEntry
    BY <2>1 DEF Dirty
  <2>2. CASE journal[n] # NoEntry /\ nat_root[n] = NoEntry
    <3>1. journal[n] \in NodeAddrs
      BY <1>0, <2>2 DEF NatTypes, Journals, NodeAddrs
    <3>. DEFINE e == Entry(journal[n], TRUE, TRUE)
    <3>2. e # NoEntry /\ e.dirty = TRUE /\ R[n] = e
      BY <2>2, <3>1, Entries
    <3>. HIDE DEF e, R
    <3>. QED
      BY <2>2, <3>2 DEF Dirty
  <2>3. CASE journal[n] # NoEntry /\ nat_root[n] # NoEntry
    <3>1. nat_root[n] \in EntryType
      BY <1>0, <2>3 DEF NatTypes
    <3>. DEFINE e == [nat_root[n] EXCEPT !.dirty = TRUE]
    <3>2. e \in EntryType /\ e.dirty = TRUE /\ R[n] = e
      BY <2>3, <3>1 DEF EntryType
    <3>3. e # NoEntry
      BY <3>2, NatAssumption
    <3>. HIDE DEF e, R
    <3>. QED
      BY <2>3, <3>2, <3>3 DEF Dirty
  <2>. QED
    BY <2>1, <2>2, <2>3
<1>3. \A n \in Nids : journal[n] = NoEntry => R[n] = nat_root[n]
  OBVIOUS
<1>. HIDE DEF R
<1>4. Dirty(nat_root) \subseteq Dirty(R)
  BY <1>2 DEF Dirty
<1>5. Dirty(R) \subseteq UserNids
  <2>1. \A n \in Nids \ UserNids : n \notin Dirty(nat_root) /\ journal[n] = NoEntry
    BY <1>0 DEF Reserved, Dirty
  <2>. QED
    BY <1>2, <2>1 DEF Dirty
<1>6. Unused = {n \in Dirty(R) \ Dirty(nat_root) : node[n] = NULL_ADDR}
  <2>1. ASSUME NEW n \in Nids, n \notin Dirty(nat_root), journal[n] # NoEntry
        PROVE  node[n] = journal[n]
    <3>1. OnDisk(nat, nat_bitmap, journal)[n] = node[n]
      BY <2>1 DEF NatInv, Cached, Dirty
    <3>. QED
      BY <2>1, <3>1, OnDiskIs
  <2>2. Unused = {n \in Nids : journal[n] # NoEntry /\ n \notin Dirty(nat_root) /\ journal[n] = NULL_ADDR}
    BY DEF Unused, Journaled
  <2>3. \A n \in Dirty(R) : n \in Nids
    BY DEF Dirty
  <2>. QED
    BY <1>2, <2>1, <2>2, <2>3
<1>7. \A n \in Nids \ Dirty(R) : R[n] = nat_root[n] /\ Unmapped[n] = journal[n]
  BY <1>2, <1>3 DEF Unmapped
<1>. QED
  BY <1>1, <1>4, <1>5, <1>6, <1>7 DEF ToFlush

(* Without a merge the dirty entries are flushed as they are.              *)
LEMMA NotMergedToFlush == ASSUME NatInv, FreeInv PROVE ToFlush(NotMerged)
<1>1. NotMerged.nat_root = nat_root /\ NotMerged.journal = journal /\ NotMerged.unused = {}
  BY DEF NotMerged
<1>2. Dirty(nat_root) \subseteq UserNids
  BY DEF FreeInv, Reserved, Dirty
<1>. QED
  BY <1>1, <1>2 DEF ToFlush

(* What a flush does to entries, journal and NAT blocks.                   *)
FlushedNid(m, J, n) ==
    /\ n \in Dirty(m.nat_root) => nat_root'[n] # NoEntry /\ nat_root'[n].checkpointed /\ ~nat_root'[n].dirty
    /\ n \notin Dirty(m.nat_root) => /\ nat_root'[n] = m.nat_root[n]
                                     /\ \A c \in {0, 1} : nat'[c][n] \in {nat[c][n], CurPage[n]}
    /\ journal'[n] = IF n \in Dirty(m.nat_root) /\ NAT_BLOCK_OFFSET(n) \in J THEN node[n] ELSE m.journal[n]
    /\ CurPage'[n] = IF n \in Dirty(m.nat_root) /\ NAT_BLOCK_OFFSET(n) \notin J THEN node[n] ELSE CurPage[n]
    /\ CpPage'[n] = CpPage[n]

(* The copies that the last checkpoint refers to are not written.          *)
LEMMA FlushTable ==
    ASSUME NatInv, cp.phase = "blocked", NEW m, NEW J, Flushable(m, J), __flush_nat_entry_set(m, J),
           UNCHANGED <<disk, node>>
    PROVE  \A n \in Nids : FlushedNid(m, J, n)
<1>. DEFINE D == Dirty(m.nat_root)
            addr(n) == m.nat_root[n].blk_addr
            flip == {NAT_BLOCK_OFFSET(n) : n \in D} \ J
            bitmap == set_to_next_nat(flip)
            written(n) == n \in D /\ NAT_BLOCK_OFFSET(n) \in flip
<1>1. /\ nat_root' = [n \in Nids |-> IF n \in D THEN Entry(addr(n), TRUE, FALSE) ELSE m.nat_root[n]]
      /\ journal' = [n \in Nids |-> IF n \in D /\ NAT_BLOCK_OFFSET(n) \in J THEN addr(n)
                                    ELSE m.journal[n]]
      /\ nat_bitmap' = bitmap
      /\ nat' = [c \in {0, 1} |-> [n \in Nids |->
                     IF c = bitmap[NAT_BLOCK_OFFSET(n)] /\ written(n) THEN addr(n)
                     ELSE get_next_nat_page(flip)[c][n]]]
  BY DEF __flush_nat_entry_set
<1>2. /\ nat_bitmap \in [Blks -> {0, 1}] /\ node \in [Nids -> NodeAddrs] /\ nat_bitmap = disk.nat_bitmap
  BY DEF NatInv, NatTypes, Phases
<1>. SUFFICES ASSUME NEW n \in Nids PROVE FlushedNid(m, J, n)
  OBVIOUS
<1>. DEFINE b == NAT_BLOCK_OFFSET(n)
<1>3. n \in D => addr(n) = node[n]
  BY DEF Flushable, Dirty
<1>4. /\ b \in Blks /\ nat_bitmap[b] \in {0, 1}
      /\ bitmap[b] = IF b \in flip THEN 1 - nat_bitmap[b] ELSE nat_bitmap[b]
  BY <1>2, BlockOfNid DEF set_to_next_nat
<1>5. n \in D => (b \in flip <=> b \notin J)
  OBVIOUS
<1>6. CurPage[n] = nat[nat_bitmap[b]][n] /\ CpPage[n] = nat[nat_bitmap[b]][n]
  BY <1>2 DEF CurPage, CpPage, Current
<1>. HIDE DEF bitmap, flip
<1>7. \A c \in {0, 1} : nat'[c][n] = IF c = bitmap[b] /\ n \in D /\ b \in flip THEN node[n]
                                     ELSE IF b \in flip THEN CurPage[n] ELSE nat[c][n]
  BY <1>1, <1>3, <1>6 DEF get_next_nat_page, Current
<1>8. journal'[n] = IF n \in D /\ b \in J THEN node[n] ELSE m.journal[n]
  BY <1>1, <1>3
<1>9. n \in D => nat_root'[n] # NoEntry /\ nat_root'[n].checkpointed /\ ~nat_root'[n].dirty
  <2>1. node[n] \in NodeAddrs
    BY <1>2
  <2>2. n \in D => nat_root'[n] = Entry(node[n], TRUE, FALSE)
    BY <1>1, <1>3
  <2>3. /\ Entry(node[n], TRUE, FALSE) # NoEntry /\ Entry(node[n], TRUE, FALSE).checkpointed = TRUE
        /\ Entry(node[n], TRUE, FALSE).dirty = FALSE
    BY <2>1, Entries
  <2>. QED
    BY <2>2, <2>3
<1>10. n \notin D => nat_root'[n] = m.nat_root[n]
  BY <1>1
<1>11. CurPage'[n] = nat'[bitmap[b]][n] /\ CpPage'[n] = nat'[nat_bitmap[b]][n]
  BY <1>1, <1>2 DEF CurPage, CpPage, Current
<1>. HIDE DEF D, b
<1>12. CurPage'[n] = IF n \in D /\ b \notin J THEN node[n] ELSE CurPage[n]
  BY <1>4, <1>5, <1>6, <1>7, <1>11
<1>13. CpPage'[n] = CpPage[n]
  BY <1>4, <1>5, <1>6, <1>7, <1>11
<1>14. n \notin D => \A c \in {0, 1} : nat'[c][n] \in {nat[c][n], CurPage[n]}
  BY <1>7
<1>. QED
  BY <1>8, <1>9, <1>10, <1>12, <1>13, <1>14 DEF FlushedNid, D, b

(* What a flush does to the free nids.                                     *)
FlushedFree(m, g) ==
    LET D == Dirty(m.nat_root)  null == {n \in D : node[n] = NULL_ADDR}
    IN  /\ FreeOK(g) /\ Listed(g) = Listed(free) \cup (null \ free.prealloc) /\ g.prealloc = free.prealloc
        /\ g.free_nid_bitmap \subseteq (free.free_nid_bitmap \cup null) \ (D \ null)
        /\ g.available_nids = free.available_nids - Cardinality(m.unused) + Cardinality(null)

(* Nids that were freed come back to the list, and all of them to the      *)
(* count; nids of nodes leave the bitmap.                                  *)
LEMMA FlushFree ==
    ASSUME NatInv, FreeInv, NEW m, NEW J, Flushable(m, J), ToFlush(m), __flush_nat_entry_set(m, J)
    PROVE  FlushedFree(m, free')
<1>. DEFINE D == Dirty(m.nat_root)  null == {n \in D : node[n] = NULL_ADDR}
            k == free.available_nids - Cardinality(m.unused)
            f == [free EXCEPT !.available_nids = k]
            h == add_free_nid_flush(f, null)
<1>1. {n \in D : m.nat_root[n].blk_addr = NULL_ADDR} = null
  BY DEF Flushable, Dirty
<1>2. free' = update_free_nid_bitmap(h, {}, D \ null, FALSE)
  BY <1>1 DEF __flush_nat_entry_set
<1>3. FreeOK(free) /\ free.available_nids \in Int
  BY DEF FreeInv, Lists, FreeOK, FreeType
<1>4. D \subseteq UserNids /\ m.unused \subseteq UserNids
  BY DEF ToFlush
<1>5. k \in Int
  BY <1>3, <1>4, NidFacts, FS_Subset, FS_CardinalityType
<1>. HIDE DEF k
<1>6. FreeOK(f) /\ SameList(free, f) /\ SameBits(free, f) /\ f.available_nids = k
  BY <1>3, <1>5, CountIs
<1>7. UserSet(null) /\ UserSet({})
  BY <1>4 DEF UserSet
<1>. HIDE DEF f, null, D
<1>8. AddedByFlush(f, null, h)
  BY <1>6, <1>7, AddFlushIs
<1>9. FreeOK(h)
  BY <1>8 DEF AddedByFlush
<1>. HIDE DEF h
<1>10. Updated(h, {}, D \ null, free')
  BY <1>2, <1>7, <1>9, UpdateAny
<1>11. Listed(f) = Listed(free) /\ f.prealloc = free.prealloc /\ f.free_nid_bitmap = free.free_nid_bitmap
  BY <1>6 DEF SameList, SameBits, Listed
<1>12. FreeOK(free') /\ Listed(free') = Listed(free) \cup (null \ free.prealloc) /\ free'.prealloc = free.prealloc
  BY <1>8, <1>10, <1>11 DEF AddedByFlush, Updated, SameList, Listed
<1>13. free'.free_nid_bitmap \subseteq (free.free_nid_bitmap \cup null) \ (D \ null)
  BY <1>8, <1>10, <1>11 DEF AddedByFlush, Updated
<1>14. free'.available_nids = k + Cardinality(null)
  BY <1>6, <1>8, <1>10 DEF AddedByFlush, Updated
<1>. QED
  BY <1>12, <1>13, <1>14 DEF FlushedFree, D, null, k

(* The count after a flush: what was freed since the last one is new.      *)
LEMMA FlushCount ==
    ASSUME NatInv, FreeInv, NEW m, ToFlush(m), FlushedFree(m, free'), Dirty(nat_root') = {}, node' = node
    PROVE  Counted'
<1>. DEFINE D == Dirty(m.nat_root)  null == {n \in D : node[n] = NULL_ADDR}
            Z == {n \in Dirty(nat_root) : node[n] = NULL_ADDR}
            S == Vacant(node, nat_root) \ free.prealloc
            S2 == Vacant(node', nat_root') \ free'.prealloc
<1>1. null = Z \cup m.unused /\ Z \cap m.unused = {} /\ null \subseteq UserNids /\ Z \subseteq UserNids
  BY DEF ToFlush
<1>2. free'.prealloc = free.prealloc
      /\ free'.available_nids = free.available_nids - Cardinality(m.unused) + Cardinality(null)
  BY DEF FlushedFree
<1>3. Z \cap free.prealloc = {}
  <2>. SUFFICES ASSUME NEW n \in Z, n \in free.prealloc PROVE FALSE
    OBVIOUS
  <2>1. FreeTypes /\ Owners
    BY DEF FreeInv
  <2>2. PICK c \in Creators : pc[c] # "idle" /\ nid[c] = n
    BY <2>1 DEF Owners
  <2>3. pc[c] \in {"allocated", "created"}
    BY <2>1, <2>2 DEF FreeTypes
  <2>4. n \in Vacant(node, nat_root) \/ node[n] # NULL_ADDR
    BY <2>1, <2>2, <2>3 DEF Owners
  <2>. QED
    BY <2>4 DEF Vacant
<1>4. S2 = S \cup Z /\ S \cap Z = {}
  <2>1. Vacant(node', nat_root') = {n \in UserNids : node[n] = NULL_ADDR}
    BY DEF Vacant
  <2>. QED
    BY <1>1, <1>2, <1>3, <2>1 DEF Vacant
<1>5. IsFiniteSet(S) /\ IsFiniteSet(Z) /\ IsFiniteSet(m.unused)
  <2>1. m.unused \subseteq UserNids
    BY <1>1
  <2>. QED
    BY <1>1, <2>1, VacantFinite, NidFacts, FS_Subset
<1>6. free.available_nids = Cardinality(S)
  BY DEF FreeInv, Counted
<1>. HIDE DEF S, Z, null, S2
<1>7. Cardinality(S2) = Cardinality(S) + Cardinality(Z) - Cardinality({})
  BY <1>4, <1>5, FS_Union
<1>8. Cardinality(null) = Cardinality(Z) + Cardinality(m.unused) - Cardinality({})
  BY <1>1, <1>5, FS_Union
<1>9. /\ Cardinality({}) = 0 /\ Cardinality(S) \in Nat /\ Cardinality(Z) \in Nat
      /\ Cardinality(m.unused) \in Nat
  BY <1>5, FS_EmptySet, FS_CardinalityType
<1>. QED
  BY <1>2, <1>6, <1>7, <1>8, <1>9 DEF Counted, S2

(* The bits of blocks that were written are recomputed.                    *)
LEMMA FlushBits ==
    ASSUME NatInv, FreeInv, NEW m, NEW J, __flush_nat_entry_set(m, J),
           \A n \in Nids : FlushedNid(m, J, n), UNCHANGED disk
    PROVE  NatBitsTrue' /\ nat_bits' \in NatBitsType
<1>. DEFINE D == Dirty(m.nat_root)
            addr(n) == m.nat_root[n].blk_addr
            flip == {NAT_BLOCK_OFFSET(n) : n \in D} \ J
            E == (nat_bits.empty \ flip) \cup {b \in flip : NatBitsOf(CurPage', b).empty}
            F == (nat_bits.full \ flip) \cup {b \in flip : NatBitsOf(CurPage', b).full}
<1>0. flip \subseteq Blks
  BY BlockOfNid DEF Dirty
<1>1. nat_bits' = IF ~nat_bits.enabled THEN nat_bits ELSE [nat_bits EXCEPT !.empty = E, !.full = F]
  <2>. DEFINE is == [b \in Blks |-> NatBitsOf(CurPage', b).empty]
              full == [b \in Blks |-> NatBitsOf(CurPage', b).full]
  <2>1. nat_bits' = IF ~nat_bits.enabled THEN nat_bits
                    ELSE [nat_bits EXCEPT !.empty = (@ \ flip) \cup {b \in flip : is[b]},
                                          !.full = (@ \ flip) \cup {b \in flip : full[b]}]
    BY DEF __flush_nat_entry_set, CurPage
  <2>2. {b \in flip : is[b]} = {b \in flip : NatBitsOf(CurPage', b).empty}
        /\ {b \in flip : full[b]} = {b \in flip : NatBitsOf(CurPage', b).full}
    BY <1>0
  <2>. HIDE DEF is, full
  <2>. QED
    BY <2>1, <2>2
<1>2. nat_bits \in NatBitsType /\ EmptyBlocks(nat_bits, CurPage) /\ EmptyBlocks(disk.nat_bits, CpPage)
      /\ disk.nat_bits \in NatBitsType
  BY DEF FreeInv, FreeTypes, NatBitsTrue
<1>3. E \subseteq Blks /\ F \subseteq Blks
  BY <1>0, <1>2 DEF NatBitsType
<1>. HIDE DEF F
<1>4. nat_bits' \in NatBitsType /\ (nat_bits.enabled => nat_bits'.empty = E)
      /\ (~nat_bits.enabled => ~nat_bits'.enabled)
  <2>. HIDE DEF E
  <2>. QED
    BY <1>1, <1>2, <1>3 DEF NatBitsType
<1>5. ASSUME nat_bits.enabled, NEW b \in E PROVE b # 0 /\ \A n \in NidsOf(b) : CurPage'[n] = NULL_ADDR
  <2>1. CASE b \in nat_bits.empty /\ b \notin flip
    <3>1. b # 0 /\ \A n \in NidsOf(b) : CurPage[n] = NULL_ADDR
      BY <1>2, <1>5, <2>1 DEF EmptyBlocks
    <3>2. ASSUME NEW n \in NidsOf(b) PROVE CurPage'[n] = CurPage[n]
      <4>1. n \in Nids /\ NAT_BLOCK_OFFSET(n) = b
        BY DEF NidsOf
      <4>2. n \in D => b \in J
        BY <2>1, <4>1
      <4>. QED
        BY <4>1, <4>2 DEF FlushedNid
    <3>. QED
      BY <3>1, <3>2
  <2>2. CASE b \in flip /\ NatBitsOf(CurPage', b).empty
    <3>1. {n \in NidsOf(b) : n = 0 \/ CurPage'[n] # NULL_ADDR} = {}
      BY <2>2 DEF NatBitsOf
    <3>2. b = 0 => 0 \in NidsOf(b)
      <4>1. 0 \div NAT_ENTRY_PER_BLOCK = 0
        BY NatAssumption
      <4>. QED
        BY <4>1, NidFacts DEF NidsOf, NAT_BLOCK_OFFSET
    <3>. QED
      BY <3>1, <3>2
  <2>. QED
    BY <1>5, <2>1, <2>2
<1>6. EmptyBlocks(nat_bits', CurPage')
  <2>. HIDE DEF E
  <2>. QED
    BY <1>4, <1>5 DEF EmptyBlocks
<1>7. EmptyBlocks(disk'.nat_bits, CpPage')
  <2>1. \A n \in Nids : CpPage'[n] = CpPage[n]
    BY DEF FlushedNid
  <2>2. \A b : \A n \in NidsOf(b) : n \in Nids
    BY DEF NidsOf
  <2>. QED
    BY <1>2, <2>1, <2>2 DEF EmptyBlocks
<1>. QED
  BY <1>4, <1>6, <1>7 DEF NatBitsTrue

(* Everything else after a flush.                                          *)
LEMMA FlushSet ==
    ASSUME NatInv, FreeInv, cp.phase = "blocked", NatWriteLock, NEW m, NEW J, Flushable(m, J), ToFlush(m),
           __flush_nat_entry_set(m, J), cp' = [cp EXCEPT !.phase = "flushed"],
           UNCHANGED <<next_scan_nid, build, scan, pc, nid, reader, disk, node, durable>>,
           Cardinality(Journaled(journal')) <= NAT_JOURNAL_ENTRIES
    PROVE  FreeInv'
<1>. DEFINE D == Dirty(m.nat_root)  null == {n \in D : node[n] = NULL_ADDR}
<1>0. /\ FreeTypes /\ Owners /\ Lists /\ Flags /\ Reserved /\ NatBitsTrue /\ Counted /\ Checkpointed
      /\ JournalsFit /\ NatTypes
  BY DEF FreeInv, NatInv
<1>1. \A n \in Nids : FlushedNid(m, J, n)
  BY FlushTable
<1>2. FlushedFree(m, free')
  BY FlushFree
<1>3. NatBitsTrue' /\ nat_bits' \in NatBitsType
  BY <1>1, FlushBits
<1>4. ASSUME NEW n \in Nids, nat_root'[n] # NoEntry PROVE nat_root'[n].checkpointed /\ ~nat_root'[n].dirty
  <2>1. CASE n \in D
    BY <1>1, <2>1 DEF FlushedNid
  <2>2. CASE n \notin D
    <3>1. nat_root'[n] = nat_root[n] /\ n \notin Dirty(nat_root)
      BY <1>1, <2>2 DEF FlushedNid, ToFlush
    <3>. QED
      BY <1>0, <1>4, <3>1 DEF Flags, Dirty
  <2>. QED
    BY <2>1, <2>2
<1>5. Dirty(nat_root') = {} /\ Flags'
  BY <1>4 DEF Dirty, Flags
<1>6. Vacant(node', nat_root') = {n \in UserNids : node[n] = NULL_ADDR}
  BY <1>5 DEF Vacant
<1>7. Counted'
  BY <1>2, <1>5, FlushCount
<1>8. FreeTypes'
  <2>1. cp' \in CpType
    BY <1>0 DEF FreeTypes, CpType
  <2>. QED
    BY <1>0, <1>3, <2>1 DEF FreeTypes
<1>9. free'.prealloc = free.prealloc
  BY <1>2 DEF FlushedFree
<1>10. Owners'
  <2>1. Vacant(node, nat_root) \subseteq Vacant(node', nat_root')
    BY <1>6 DEF Vacant
  <2>. QED
    BY <1>0, <1>9, <2>1 DEF Owners
<1>11. Lists'
  <2>1. Listed(free') \subseteq Vacant(node', nat_root')
    BY <1>0, <1>2, <1>6 DEF Lists, FlushedFree, ToFlush, Vacant
  <2>2. ASSUME NEW n \in free'.free_nid_bitmap PROVE n \in NullOnDisk(CurPage', journal')
    <3>1. n \in free.free_nid_bitmap \cup null /\ n \notin D \ null
      BY <1>2 DEF FlushedFree
    <3>2. n \in UserNids /\ n \in Nids
      BY <1>0, <3>1, NidFacts DEF Lists, NullOnDisk, ToFlush
    <3>3. NULL_ADDR # NoEntry
      BY NatAssumption
    <3>4. CASE n \in D
      <4>1. node[n] = NULL_ADDR
        BY <3>1, <3>4
      <4>. QED
        BY <1>1, <3>2, <3>3, <3>4, <4>1 DEF FlushedNid, NullOnDisk
    <3>5. CASE n \notin D
      <4>1. n \in NullOnDisk(CurPage, journal) /\ m.journal[n] = journal[n]
        BY <1>0, <3>1, <3>2, <3>5 DEF Lists, ToFlush
      <4>. QED
        BY <1>1, <3>2, <3>5, <4>1 DEF FlushedNid, NullOnDisk
    <3>. QED
      BY <3>4, <3>5
  <2>3. FreeOK(free')
    BY <1>2 DEF FlushedFree
  <2>. QED
    BY <2>1, <2>2, <2>3 DEF Lists
<1>12. Reserved'
  <2>. SUFFICES ASSUME NEW n \in Nids \ UserNids
                PROVE  /\ nat_root'[n] = NoEntry /\ journal'[n] = NoEntry
                       /\ n # 0 => \A c \in {0, 1} : nat'[c][n] # NULL_ADDR
    BY <1>0 DEF Reserved
  <2>1. n \notin D /\ m.nat_root[n] = nat_root[n] /\ m.journal[n] = journal[n]
    BY DEF ToFlush
  <2>2. n # 0 => CurPage[n] # NULL_ADDR
    BY <1>0, BlockOfNid DEF CurPage, Current, Reserved, NatTypes
  <2>. QED
    BY <1>0, <1>1, <2>1, <2>2 DEF FlushedNid, Reserved
<1>13. Checkpointed'
  <2>1. cp'.phase = "flushed"
    BY <1>0 DEF FreeTypes, CpType
  <2>. QED
    BY <1>4, <2>1, NidFacts DEF Checkpointed, Saved
<1>14. JournalsFit'
  BY <1>0 DEF JournalsFit
<1>. QED
  BY <1>3, <1>5, <1>7, <1>8, <1>10, <1>11, <1>12, <1>13, <1>14 DEF FreeInv

(* Sets of nids are finite.                                                *)
LEMMA NidsFinite ==
    ASSUME NEW S \in SUBSET Nids
    PROVE  IsFiniteSet(S) /\ Cardinality(S) \in Nat
<1>1. IsFiniteSet(Nids)
  BY NatAssumption, FS_Interval DEF Nids, max_nid
<1>. QED
  BY <1>1, FS_Subset, FS_CardinalityType

(* After a flush of m the journal has what it kept and the sets of J.      *)
LEMMA FlushJournal ==
    ASSUME NEW m, NEW J, __flush_nat_entry_set(m, J)
    PROVE  Journaled(journal') \subseteq
             Journaled(m.journal) \cup {n \in Dirty(m.nat_root) : NAT_BLOCK_OFFSET(n) \in J}
<1>1. journal' = [n \in Nids |-> IF n \in Dirty(m.nat_root) /\ NAT_BLOCK_OFFSET(n) \in J
                                 THEN m.nat_root[n].blk_addr ELSE m.journal[n]]
  BY DEF __flush_nat_entry_set
<1>. QED
  BY <1>1 DEF Journaled

(* The journal that is not merged has room for every dirty entry; a merged *)
(* one is empty and gets the sets that fit.                                *)
LEMMA FlushFits ==
    ASSUME NEW m, NEW J, __flush_nat_entry_set(m, J), NEW room,
           room = NAT_JOURNAL_ENTRIES - Cardinality(Journaled(m.journal)),
           (J = {} /\ Journaled(m.journal) = {}) \/ J \in JournalSets(Dirty(m.nat_root), room)
    PROVE  Cardinality(Journaled(journal')) <= NAT_JOURNAL_ENTRIES
<1>. DEFINE K == Journaled(m.journal)
            S == {n \in Dirty(m.nat_root) : NAT_BLOCK_OFFSET(n) \in J}
<1>1. Journaled(journal') \subseteq K \cup S
  BY FlushJournal
<1>2. K \in SUBSET Nids /\ S \in SUBSET Nids /\ K \cup S \in SUBSET Nids
  BY DEF Journaled, Dirty
<1>3. \/ K = {} /\ S = {}
      \/ Cardinality(S) <= room
  BY DEF JournalSets
<1>. HIDE DEF K, S
<1>4. /\ IsFiniteSet(K) /\ IsFiniteSet(S) /\ IsFiniteSet(K \cup S)
      /\ Cardinality(K) \in Nat /\ Cardinality(S) \in Nat /\ Cardinality(K \cup S) \in Nat
  BY <1>2, NidsFinite
<1>5. Cardinality(Journaled(journal')) <= Cardinality(K \cup S) /\ Cardinality(Journaled(journal')) \in Nat
  BY <1>1, <1>4, FS_Subset, FS_CardinalityType
<1>6. Cardinality(K \cup S) <= Cardinality(K) + Cardinality(S)
  <2>1. Cardinality(K \cup S) = Cardinality(K) + Cardinality(S) - Cardinality(K \cap S)
    BY <1>4, FS_Union
  <2>2. IsFiniteSet(K \cap S) /\ Cardinality(K \cap S) \in Nat
    BY <1>4, FS_Intersection, FS_CardinalityType
  <2>. QED
    BY <1>4, <2>1, <2>2
<1>7. NAT_JOURNAL_ENTRIES \in Nat /\ room = NAT_JOURNAL_ENTRIES - Cardinality(K)
  BY NatAssumption DEF K
<1>8. CASE K = {} /\ S = {}
  BY <1>4, <1>5, <1>6, <1>7, <1>8, FS_EmptySet
<1>9. CASE Cardinality(S) <= room
  BY <1>4, <1>5, <1>6, <1>7, <1>9
<1>. QED
  BY <1>3, <1>8, <1>9

(* write_checkpoint flushes the dirty entries, if there are any.           *)
LEMMA StepFlush == ASSUME NatInv, FreeInv, write_checkpoint PROVE FreeInv'
<1>0. /\ FreeTypes /\ Owners /\ Lists /\ Flags /\ Reserved /\ NatBitsTrue /\ Counted /\ Checkpointed
      /\ JournalsFit /\ NatTypes
  BY DEF FreeInv, NatInv
<1>1. /\ cp.phase = "blocked" /\ NatWriteLock /\ cp' = [cp EXCEPT !.phase = "flushed"]
      /\ flush_nat_entries(cp.umount)
      /\ UNCHANGED <<next_scan_nid, build, scan, pc, nid, reader, disk, node, durable>>
  BY DEF write_checkpoint, procs, builder
<1>2. CASE Dirty(nat_root) = {}
  <2>1. UNCHANGED <<nat_root, journal, nat, nat_bitmap, nat_bits, free>>
    BY <1>1, <1>2 DEF flush_nat_entries, caches
  <2>2. cp' \in CpType /\ cp'.phase = "flushed"
    BY <1>0, <1>1 DEF FreeTypes, CpType
  <2>3. FreeTypes'
    BY <1>0, <1>1, <2>1, <2>2 DEF FreeTypes
  <2>4. Vacant(node', nat_root') = Vacant(node, nat_root)
    BY <1>1, <2>1 DEF Vacant, Dirty
  <2>5. Owners' /\ Counted'
    BY <1>0, <1>1, <2>1, <2>4 DEF Owners, Counted
  <2>6. NullOnDisk(CurPage, journal)' = NullOnDisk(CurPage, journal) /\ Journalled(journal') = Journalled(journal)
    BY <2>1 DEF NullOnDisk, CurPage, Current, Journalled
  <2>7. Lists'
    BY <1>0, <1>1, <2>1, <2>4, <2>6 DEF Lists, NatWriteLock
  <2>8. Flags' /\ Reserved'
    BY <1>0, <1>1, <2>1 DEF Flags, Reserved
  <2>9. NatBitsTrue' /\ JournalsFit'
    BY <1>0, <1>1, <2>1 DEF NatBitsTrue, EmptyBlocks, CurPage, CpPage, JournalsFit, Journaled
  <2>10. \A n \in Nids : Saved(n)'
    BY <1>0, <1>2, <2>1 DEF Flags, Dirty, Saved
  <2>11. Checkpointed'
    BY <2>2, <2>10, NidFacts DEF Checkpointed
  <2>. QED
    BY <2>3, <2>5, <2>7, <2>8, <2>9, <2>11 DEF FreeInv
<1>3. CASE Dirty(nat_root) # {}
  <2>. DEFINE u == cp.umount
              m == IF MustMerge(u) THEN Merged ELSE NotMerged
              room == NAT_JOURNAL_ENTRIES - Cardinality(Journaled(m.journal))
  <2>1. PICK J \in (IF u /\ nat_bits.enabled THEN {{}} ELSE JournalSets(Dirty(m.nat_root), room)) :
          __flush_nat_entry_set(m, J)
    BY <1>1, <1>3 DEF flush_nat_entries
  <2>2. u /\ nat_bits.enabled => J = {} /\ Journaled(m.journal) = {}
    BY <2>1 DEF MustMerge, Merged, Journaled, Unmapped
  <2>3. (J = {} /\ Journaled(m.journal) = {}) \/ J \in JournalSets(Dirty(m.nat_root), room)
    BY <2>1, <2>2
  <2>4. Flushable(m, J) /\ ToFlush(m)
    <3>1. CASE MustMerge(u)
      BY <3>1, NatMerged, MergedToFlush
    <3>2. CASE ~MustMerge(u)
      <4>1. /\ ~(u /\ nat_bits.enabled) /\ m = NotMerged
            /\ ~(Cardinality(Dirty(nat_root)) > NAT_JOURNAL_ENTRIES - Cardinality(Journaled(journal)))
        BY <3>2 DEF MustMerge
      <4>2. /\ IsFiniteSet(Dirty(nat_root)) /\ Cardinality(Dirty(nat_root)) \in Nat
            /\ Cardinality(Journaled(journal)) \in Nat /\ NAT_JOURNAL_ENTRIES \in Nat
        BY NidsFinite, NatAssumption DEF Dirty, Journaled
      <4>3. m.journal = journal /\ m.nat_root = nat_root
        BY <4>1 DEF NotMerged
      <4>4. J \in JournalSets(Dirty(nat_root), room)
        BY <2>1, <4>1, <4>3
      <4>5. room \in Int /\ Cardinality(Dirty(nat_root)) <= room
        BY <4>1, <4>2, <4>3
      <4>. HIDE DEF room, m
      <4>6. {NAT_BLOCK_OFFSET(n) : n \in Dirty(nat_root)} = J
        BY <4>2, <4>4, <4>5, NatAllFit
      <4>. QED
        BY <4>1, <4>6, NatNotMerged, NotMergedToFlush
    <3>. QED
      BY <3>1, <3>2
  <2>. HIDE DEF m, room
  <2>5. Cardinality(Journaled(journal')) <= NAT_JOURNAL_ENTRIES
    BY <2>1, <2>3, FlushFits DEF room
  <2>. QED
    BY <1>1, <2>1, <2>4, <2>5, FlushSet
<1>. QED
  BY <1>2, <1>3

(* Every step keeps the invariant.                                         *)
LEMMA FreeStep == NatInv /\ NatInv' /\ FreeInv /\ [Next]_vars => FreeInv'
<1>. SUFFICES ASSUME NatInv, NatInv', FreeInv, [Next]_vars PROVE FreeInv'
  OBVIOUS
<1>1. ASSUME NEW c \in Creators,
             alloc_nid(c) \/ new_node_page(c) \/ alloc_nid_done(c) \/ alloc_nid_failed(c)
      PROVE  FreeInv'
  BY <1>1, StepAlloc, StepNew, StepDone, StepFailed
<1>2. ASSUME NEW n \in UserNids, truncate_node(n) \/ \E a \in Addrs : write_node_page(n, a) PROVE FreeInv'
  BY <1>2, StepWrite
<1>3. ASSUME cache_nat_entry \/ \E n \in UserNids : get_node_info(n) \/ try_to_free_nats(n) PROVE FreeInv'
  BY <1>3, StepLookup
<1>4. ASSUME build_free_nids \/ build_bits \/ build_bits_journal \/ build_pages
             \/ build_pages_journal \/ try_to_free_nids
      PROVE  FreeInv'
  BY <1>4, StepBuild
<1>5. ASSUME NEW u \in BOOLEAN, block_operations(u) PROVE FreeInv'
  BY <1>5, StepBlock
<1>6. ASSUME UNCHANGED vars PROVE FreeInv'
  <2>1. UNCHANGED <<nat_root, journal, nat, nat_bitmap, nat_bits, free, next_scan_nid, build, scan, pc,
                    nid, reader, cp, disk, node, durable>>
    BY <1>6 DEF vars, caches, builder, procs
  <2>2. /\ FreeTypes /\ Owners /\ Lists /\ Flags /\ Reserved /\ NatBitsTrue /\ Counted /\ Checkpointed
        /\ JournalsFit
    BY DEF FreeInv
  <2>3. /\ Flags' /\ Reserved' /\ NatBitsTrue' /\ Checkpointed' /\ JournalsFit'
        /\ Vacant(node', nat_root') = Vacant(node, nat_root)
        /\ NullOnDisk(CurPage, journal)' = NullOnDisk(CurPage, journal)
        /\ Journalled(journal') = Journalled(journal)
    BY <2>1, TableFrame DEF tableVars
  <2>4. FreeTypes' /\ Owners' /\ Counted'
    BY <2>1, <2>2, <2>3 DEF FreeTypes, Owners, Counted
  <2>5. Lists'
    BY <2>1, <2>2, <2>3 DEF Lists, NatWriteLock
  <2>. QED
    BY <2>3, <2>4, <2>5 DEF FreeInv
<1>. QED
  BY <1>1, <1>2, <1>3, <1>4, <1>5, <1>6, StepFlush, StepCommit, StepMount DEF Next

----------------------------------------------------------------------------
(* The theorems                                                            *)

(* The list of free nids, its bitmap and counts, the owners of nids and    *)
(* the flags of cached entries keep their invariant while scans, flushes,  *)
(* creations and truncations interleave, and through crashes.              *)
THEOREM FreeInductive == Spec => []FreeInv
<1>. QED
  BY NatInductive, FreeInit, FreeStep, PTL DEF Spec

(* A NAT block has NAT_ENTRY_PER_BLOCK nids at most.                       *)
LEMMA NidsOfSize ==
    ASSUME NEW b \in Blks, NEW S, S \subseteq NidsOf(b)
    PROVE  Cardinality(S) \in 0 .. NAT_ENTRY_PER_BLOCK
<1>. DEFINE E == NAT_ENTRY_PER_BLOCK  lo == b * E  hi == lo + E - 1  I == lo .. hi
<1>1. E \in Nat \ {0} /\ b \in Nat
  BY NatAssumption DEF Blks
<1>2. ASSUME NEW n \in NidsOf(b) PROVE n \in I
  <2>1. n \in Nat /\ n \div E = b
    BY NidFacts DEF NidsOf, NAT_BLOCK_OFFSET
  <2>2. E * (n \div E) <= n /\ n < E * (n \div E) + E
    BY <1>1, <2>1
  <2>. QED
    BY <1>1, <2>1, <2>2
<1>3. lo \in Int /\ hi \in Int /\ hi - lo + 1 = E /\ lo <= hi
  BY <1>1
<1>. HIDE DEF lo, hi, E
<1>4. IsFiniteSet(I) /\ Cardinality(I) = E
  BY <1>1, <1>3, FS_Interval
<1>. HIDE DEF I
<1>5. S \subseteq I
  BY <1>2
<1>6. Cardinality(S) <= Cardinality(I) /\ Cardinality(S) \in Nat
  BY <1>4, <1>5, FS_Subset, FS_CardinalityType
<1>. QED
  BY <1>1, <1>4, <1>6 DEF E

(* The list has no nid twice and none that is handed out, available_nids   *)
(* and the counts of free nids per block stay in their ranges, and no      *)
(* flush overflows the NAT journal.                                        *)
THEOREM NodeTypes == Spec => []TypeOK
<1>1. NatInv /\ FreeInv => TypeOK
  <2>. SUFFICES ASSUME NatInv, FreeInv PROVE TypeOK
    OBVIOUS
  <2>0. NatTypes /\ FreeTypes /\ FreeOK(free) /\ Counted /\ JournalsFit
    BY DEF NatInv, FreeInv, Lists
  <2>1. /\ nat_root \in [Nids -> EntryType \cup {NoEntry}]
        /\ journal \in [Nids -> RawAddrs \cup {NoEntry}]
        /\ nat \in [{0, 1} -> [Nids -> RawAddrs]] /\ nat_bitmap \in [Blks -> {0, 1}]
    BY <2>0 DEF NatTypes, Journals, Copies
  <2>2. IsInjective(free.free_nid_list)
    <3>1. free.free_nid_list \in Seq(Nids) /\ Once(free.free_nid_list)
      BY <2>0 DEF FreeOK, FreeType, ListOK
    <3>. QED
      BY <3>1, OnceIs
  <2>3. Listed(free) \subseteq UserNids /\ free.prealloc \subseteq UserNids \ Listed(free)
    BY <2>0 DEF FreeOK, ListOK
  <2>4. free.available_nids \in 0 .. max_nid
    <3>. DEFINE S == Vacant(node, nat_root) \ free.prealloc
    <3>1. S \subseteq Nids
      BY NidFacts DEF Vacant
    <3>2. IsFiniteSet(Nids) /\ Cardinality(Nids) = max_nid
      <4>1. max_nid \in Nat \ {0}
        BY NidFacts
      <4>. QED
        BY <4>1, FS_Interval DEF Nids
    <3>. HIDE DEF S
    <3>3. Cardinality(S) \in Nat /\ Cardinality(S) <= max_nid
      BY <3>1, <3>2, FS_Subset, FS_CardinalityType
    <3>. QED
      BY <2>0, <3>3, NidFacts DEF Counted, S
  <2>5. free.free_nid_bitmap \subseteq UserNids /\ free.nat_block_bitmap \subseteq Blks
    BY <2>0 DEF FreeOK, BitsOK, FreeType
  <2>6. free.free_nid_count \in [Blks -> 0 .. NAT_ENTRY_PER_BLOCK]
    <3>1. free.free_nid_count \in [Blks -> Int]
      BY <2>0 DEF FreeOK, FreeType
    <3>2. ASSUME NEW b \in Blks PROVE free.free_nid_count[b] \in 0 .. NAT_ENTRY_PER_BLOCK
      <4>1. free.free_nid_count[b] = Cardinality(free.free_nid_bitmap \cap NidsOf(b))
        BY <2>0 DEF FreeOK, BitsOK
      <4>. QED
        BY <4>1, NidsOfSize
    <3>. QED
      BY <3>1, <3>2
  <2>7. next_scan_nid \in Nids /\ Cardinality(Journaled(journal)) <= NAT_JOURNAL_ENTRIES
    BY <2>0 DEF FreeTypes, JournalsFit
  <2>. QED
    BY <2>1, <2>2, <2>3, <2>4, <2>5, <2>6, <2>7 DEF TypeOK
<1>. QED
  BY <1>1, NatInductive, FreeInductive, PTL

(* While nobody builds the list, a nid on it is not in use and was not at  *)
(* the last checkpoint, whatever scan_nat_page, scan_curseg_cache and the  *)
(* flush have seen of pages, journal and cache at different moments.       *)
THEOREM ListedAreFree == Spec => []FreeNidsFree
<1>1. NatInv /\ FreeInv => FreeNidsFree
  <2>. SUFFICES ASSUME NatInv, FreeInv, build = "none", NEW n \in Listed(free)
                PROVE  n \in UserNids /\ node[n] = NULL_ADDR /\ (OpLock => durable[n] = NULL_ADDR)
    BY DEF FreeNidsFree
  <2>1. n \in Vacant(node, nat_root)
    BY DEF FreeInv, Lists, NatWriteLock
  <2>. QED
    BY <2>1, VacantIs DEF Vacant, OpLock
<1>. QED
  BY <1>1, NatInductive, FreeInductive, PTL

(* No two creators have the same nid, and it stays PREALLOC_NID until      *)
(* alloc_nid_done or alloc_nid_failed (their f2fs_bug_on).                 *)
THEOREM NidsHaveOneOwner == Spec => []OneOwner
<1>1. NatInv /\ FreeInv => OneOwner
  <2>. SUFFICES ASSUME NatInv, FreeInv, NEW c \in Creators, pc[c] # "idle"
                PROVE  /\ nid[c] \in free.prealloc
                       /\ \A d \in Creators \ {c} : nid[d] # nid[c]
                       /\ pc[c] = "allocated" =>
                            node[nid[c]] = NULL_ADDR /\ (OpLock => durable[nid[c]] = NULL_ADDR)
    BY DEF OneOwner
  <2>1. /\ nid[c] \in free.prealloc /\ \A d \in Creators \ {c} : nid[d] # nid[c]
        /\ pc[c] = "allocated" => nid[c] \in Vacant(node, nat_root)
    BY DEF FreeInv, Owners
  <2>2. pc[c] = "allocated" => node[nid[c]] = NULL_ADDR
    BY <2>1 DEF Vacant
  <2>3. pc[c] = "allocated" /\ OpLock => durable[nid[c]] = NULL_ADDR
    BY <2>1, VacantIs DEF OpLock
  <2>. QED
    BY <2>1, <2>2, <2>3
<1>. QED
  BY <1>1, NatInductive, FreeInductive, PTL

(* available_nids is exact: alloc_nid returns -ENOSPC only when every nid  *)
(* is in use, handed out, or freed since the last flush.                   *)
THEOREM AvailableIsExact == Spec => []AvailableExact
<1>1. FreeInv => AvailableExact
  <2>. SUFFICES ASSUME FreeInv PROVE AvailableExact
    OBVIOUS
  <2>. DEFINE S == {n \in UserNids : /\ node[n] = NULL_ADDR /\ n \notin free.prealloc
                                     /\ n \notin Dirty(nat_root)}
  <2>1. Vacant(node, nat_root) \ free.prealloc = S
    BY DEF Vacant
  <2>2. free.available_nids = Cardinality(S)
    BY <2>1 DEF FreeInv, Counted
  <2>. QED
    BY <2>2 DEF AvailableExact
<1>. QED
  BY <1>1, FreeInductive, PTL

(* is_checkpointed_node says of a node in use whether the last checkpoint  *)
(* has it, however often its nid was freed, reused, cached and evicted.    *)
THEOREM CheckpointedIsExact == Spec => []CheckpointedExact
<1>1. FreeInv => CheckpointedExact
  <2>. SUFFICES ASSUME FreeInv, OpLock, NEW n \in UserNids, node[n] # NULL_ADDR
                PROVE  (nat_root[n] = NoEntry \/ nat_root[n].checkpointed) <=> durable[n] # NULL_ADDR
    BY DEF CheckpointedExact
  <2>1. Saved(n) <=> durable[n] # NULL_ADDR
    BY DEF FreeInv, Checkpointed, OpLock
  <2>. QED
    BY <2>1 DEF Saved
<1>. QED
  BY <1>1, FreeInductive, PTL
=============================================================================
