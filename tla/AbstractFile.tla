---------------------------- MODULE AbstractFile ----------------------------
(***************************************************************************)
(* What the operations on a regular file promise to its users: a size and  *)
(* a content for every unit, without nodes, blocks, extents or inline data.*)
(* Units at and behind the size read as zero when the file grows over them.*)
(*                                                                         *)
(* Every operation returns a result.  One that succeeds has done all of    *)
(* its work.  One that fails may have stopped part way: it has zeroed a    *)
(* prefix of its range or moved a prefix of its pages, and every other     *)
(* unit is as it was.  The operations are numbered, so that none of them   *)
(* can pass for a step that does nothing.                                  *)
(***************************************************************************)
EXTENDS Integers, FiniteSets

CONSTANTS
    MaxUnits,       \* the units that a file can have
    UnitsOfPage,    \* ranges move in pages
    WriteRanges,    \* <<pos, len>> that are written
    Ranges,         \* <<off, len>> that fallocate gets
    Sizes,          \* sizes that are set
    Values          \* what the file may hold; zero is what a hole reads as

VARIABLES content, size,
    last            \* the last operation, its arguments, its result, its number

aVars == <<content, size, last>>

AUnits == 0 .. MaxUnits - 1

Bigger(a, b) == IF a <= b THEN b ELSE a

\* Units a .. b - 1 read as v.
Fill(c, a, b, v) == [u \in AUnits |-> IF u \in a .. b - 1 THEN v ELSE c[u]]

AInit ==
    /\ content \in [AUnits -> Values \cup {0}]
    /\ size \in 0 .. MaxUnits
    /\ last.n = 0

Returns(op, arg, ok) == last' = [op |-> op, arg |-> arg, ok |-> ok, n |-> last.n + 1]

\* A write leaves its number in all its units, or nothing.
AWrite ==
    \E w \in WriteRanges :
        \/ /\ Returns("write", w, TRUE)
           /\ content' = Fill(content, w[1], w[1] + w[2], last'.n)
           /\ size' = Bigger(size, w[1] + w[2])
        \/ Returns("write", w, FALSE) /\ UNCHANGED <<content, size>>

\* The size is set before anything can fail.
ASetSize ==
    \E s \in Sizes, ok \in BOOLEAN :
        /\ Returns("setsize", <<s>>, ok)
        /\ content' = Fill(content, s, MaxUnits, 0)
        /\ size' = s

APunch ==
    \E r \in Ranges :
        /\ \/ /\ Returns("punch", r, TRUE)
              /\ content' = Fill(content, r[1], r[1] + r[2], 0)
           \/ /\ Returns("punch", r, FALSE)
              /\ \E x \in r[1] .. r[1] + r[2] : content' = Fill(content, r[1], x, 0)
        /\ UNCHANGED size

\* The size grows to the end of the range, without success as far as zeros
\* are there.
AZero ==
    \E r \in Ranges, keep_size \in BOOLEAN :
        \/ /\ Returns("zero", <<r[1], r[2], keep_size>>, TRUE)
           /\ content' = Fill(content, r[1], r[1] + r[2], 0)
           /\ size' = IF keep_size THEN size ELSE Bigger(size, r[1] + r[2])
        \/ /\ Returns("zero", <<r[1], r[2], keep_size>>, FALSE)
           /\ \E x \in r[1] .. r[1] + r[2] :
                /\ content' = Fill(content, r[1], x, 0)
                /\ size' \in IF keep_size THEN {size} ELSE size .. Bigger(size, x)

\* Only the size may change.
APreallocate ==
    \E r \in Ranges, keep_size \in BOOLEAN :
        /\ \/ /\ Returns("preallocate", <<r[1], r[2], keep_size>>, TRUE)
              /\ size' = IF keep_size THEN size ELSE Bigger(size, r[1] + r[2])
           \/ /\ Returns("preallocate", <<r[1], r[2], keep_size>>, FALSE)
              /\ size' \in IF keep_size THEN {size} ELSE size .. Bigger(size, r[1] + r[2])
        /\ UNCHANGED content

\* The units of the pages a .. b - 1.
UnitsIn(a, b) == a * UnitsOfPage .. b * UnitsOfPage - 1

\* Pages src .. src + n - 1 are now at dst, and zeros where they were.
Moved(c, src, dst, n) ==
    [u \in AUnits |->
        IF u \in UnitsIn(dst, dst + n) THEN c[u - (dst - src) * UnitsOfPage]
        ELSE IF u \in UnitsIn(src, src + n) THEN 0 ELSE c[u]]

Aligned(r) == r[1] % UnitsOfPage = 0 /\ r[2] % UnitsOfPage = 0

LastPage == (size + UnitsOfPage - 1) \div UnitsOfPage

\* The range off, len is taken out: what follows moves down, first page
\* first, and the file is cut.
ACollapse ==
    \E r \in Ranges :
        LET off == r[1] \div UnitsOfPage
            delta == r[2] \div UnitsOfPage
            all == LastPage - off - delta
        IN \/ /\ Returns("collapse", r, TRUE)
              /\ r[1] + r[2] < size /\ Aligned(r)
              /\ size' = size - r[2]
              /\ content' = Fill(Moved(content, off + delta, off, all), size', MaxUnits, 0)
           \/ /\ Returns("collapse", r, FALSE)
              /\ \E n \in 0 .. Bigger(0, all - 1) :
                    /\ content' = Moved(content, off + delta, off, n)
                    /\ n > 0 => Aligned(r)
              /\ UNCHANGED size

\* A gap of len is made at off: what follows moves up in portions of the
\* gap's size, the last portion first and the pages of one in order.  An
\* unfinished move may have grown the file up to the pages it has moved.
AInsert ==
    \E r \in Ranges :
        LET off == r[1] \div UnitsOfPage
            delta == r[2] \div UnitsOfPage
            from(k) == Bigger(off, LastPage - k * delta)
            to(k) == LastPage - (k - 1) * delta
        IN \/ /\ Returns("insert", r, TRUE)
              /\ r[1] < size /\ Aligned(r)
              /\ content' = Moved(content, off, off + delta, LastPage - off)
              /\ size' = size + r[2]
           \/ Returns("insert", r, FALSE) /\ UNCHANGED <<content, size>>
           \/ /\ Returns("insert", r, FALSE)
              /\ r[1] < size /\ Aligned(r)
              /\ \E k \in 1 .. LastPage - off, n \in 0 .. delta :
                    /\ from(k) + n <= to(k)
                    /\ content' = Moved(Moved(content, to(k), to(k) + delta, LastPage - to(k)),
                                        from(k), from(k) + delta, n)
              /\ size' \in size .. (LastPage + delta) * UnitsOfPage

\* Nothing that a reader sees.
ADefragment ==
    \E r \in Ranges, ok \in BOOLEAN :
        Returns("defragment", r, ok) /\ UNCHANGED <<content, size>>

ANext == \/ AWrite \/ ASetSize \/ APunch \/ AZero \/ APreallocate \/ ACollapse \/ AInsert
         \/ ADefragment

ASpec == AInit /\ [][ANext]_aVars
=============================================================================
